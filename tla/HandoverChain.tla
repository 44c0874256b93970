--------------------------- MODULE HandoverChain ----------------------------
(* The chain of daemons from the first to the newest, and a client's call  *)
(* on its way along it: with three daemons none leads again, and no call   *)
(* for a session that moves is refused.                                    *)
EXTENDS HandoverOwner

-----------------------------------------------------------------------------
(* The chain of forwards: with three daemons nobody leads again            *)

\* Whoever keeps the session is forwarded to by its successor, and on from
\* there.
Chain ==
    \A e \in Daemons : Keeps(e) =>
        /\ Forwards(next[e], e)
        /\ \A n \in Daemons : Forwards(n, e) /\ Superseded(n) => Forwards(next[n], e)

\* No call fails; the servers of one that is not accepted forward to its maker,
\* and those that wait for an answer do, or to nobody.
RelayedAt(c) ==
    /\ c.stage # "err" /\ (c.path = << >> => c.stage = "ok")
    /\ \A i \in 1..Len(c.path) :
         /\ c.stage # "ok" => Forwards(c.path[i], c.from)
         /\ i < Len(c.path) => foreign[c.path[i]] \in {c.from, None}
Relayed == \A c \in calls : RelayedAt(c)

\* A watcher that is done has nothing left, and a superseded daemon with the
\* session has noted that it owns it.
Settled ==
    \A d \in Daemons :
        /\ watch[d] = "done" => sess[d] = "none" /\ ~owned[d] /\ foreign[d] = None
        /\ watch[d] = "check" /\ owned[d] => sess[d] # "none"
        /\ Superseded(d) /\ Owning(d) => owned[d]

\* The newest daemon forwards only to one that keeps the session.
Back == \A n, e \in Daemons : Newest(n) /\ Forwards(n, e) => Keeps(e)

\* A daemon of an earlier generation.
Older(o) == Superseded(o) \/ phase[o] = "exited"

\* What a daemon forwards to is older, and not its successor; a watcher that
\* waits with nothing of its own has forwarded to some such daemon.
Behind ==
    \A d \in Daemons :
        /\ foreign[d] # None => foreign[d] # d /\ foreign[d] # next[d] /\ Older(foreign[d])
        /\ watch[d] = "idle" /\ sess[d] = "none" /\ ~owned[d]
             => \E o \in Daemons : o # d /\ o # next[d] /\ Older(o)

\* What a step makes of all this. A daemon comes to keep the session where it is
\* superseded, only;
NoNewKeeper == \A e \in Daemons : Keeps(e)' => Keeps(e) \/ (claim = e /\ claim' = None)

\* and it ceases to where its report is accepted.
AcceptFrom(e) == \E c \in calls : c.from = e /\ (AcceptHandoff(c) \/ AcceptRelease(c))
StopsMove == \A e \in Daemons : Keeps(e) => Keeps(e)' \/ AcceptFrom(e)

\* A daemon becomes the newest, and another one superseded, in a takeover; a
\* superseded one stays so until it exits.
StoodMoves ==
    \A d \in Daemons :
        /\ Newest(d)' => Newest(d) \/ Takeover(d)
        /\ Superseded(d)' /\ ~Superseded(d)
             => claim = d /\ \E x \in Daemons : Takeover(x) /\ next'[d] = x
        /\ Superseded(d) => next'[d] = next[d] \/ Exit(d)

\* A daemon forwards to another since a takeover gave it the report, and until
\* the other does not keep the session.
ForwardsMove ==
    \A d, e \in Daemons :
        /\ Forwards(d, e)' => Forwards(d, e) \/ Takeover(d)
        /\ Forwards(d, e) /\ Keeps(e) => Forwards(d, e)' \/ AcceptFrom(e)
        /\ phase[d] = "serving" => foreign'[d] \in {foreign[d], None}

\* Who comes to keep the session.
LEMMA KeepersNext ==
    ASSUME Plain, Typed, Typed', Line, Line', Outside, Outside', CallShape,
       CallShape', Handing, Resuming, Kept, Kept', Forwarding, Entered, Unborn, Chain,
       Relayed, Settled, Back, Behind, [Next]_vars
    PROVE  NoNewKeeper
<1> USE DEF procVars, regVars, sessVars, handVars, wakeVars, wireVars, histVars
<1>1. ASSUME NEW d \in Daemons,
             LoadRegistry(d) \/ Run(d) \/ Ended(d) \/ OtherProgress(d) \/ Check(d) \/
                Watch(d) \/ Reclaim(d) \/ ClientCall(d)
      PROVE  NoNewKeeper
  <2>1. UNCHANGED <<claim, sess, next, owned, calls>>
    BY <1>1 DEF LoadRegistry, Run, Ended, Notify, UpdateRegistry, OtherProgress,
       Check, Watch, Reclaim, ClientCall
  <2> QED
    BY <2>1 DEF NoNewKeeper, Keeps, Accepted, Superseded
<1>2. CASE Dispatch \/ Connect \/ Forwarded
  <2>1. UNCHANGED <<claim, sess, next, owned, calls>>
    BY <1>2 DEF Dispatch, Returns, Connect, Goes, Forwarded
  <2> QED
    BY <2>1 DEF NoNewKeeper, Keeps, Accepted, Superseded
<1>3. CASE UNCHANGED vars
  <2>1. UNCHANGED <<claim, sess, next, owned, calls>>
    BY <1>3 DEF vars
  <2> QED
    BY <2>1 DEF NoNewKeeper, Keeps, Accepted, Superseded
<1>4. ASSUME NEW d \in Daemons, OpenClaim(d) PROVE NoNewKeeper
  <2>1. UNCHANGED <<sess, next, owned, calls>>
    BY <1>4 DEF OpenClaim
  <2> QED
    BY <2>1 DEF NoNewKeeper, Keeps, Accepted, Superseded
<1>5. ASSUME NEW d \in Daemons, Takeover(d) PROVE NoNewKeeper
  <2>1. PICK p \in Daemons : p = claim
    BY <1>5 DEF Takeover, Typed, TypeOK
  <2>2. /\ next' = [next EXCEPT ![p] = d] /\ claim' = None /\ calls' = calls
        /\ \A e \in Daemons \ {p} : sess'[e] = sess[e] /\ owned'[e] = owned[e]
    BY <1>5, <2>1 DEF Takeover, Typed, TypeOK
  <2>3. \A e \in Daemons \ {p} : Keeps(e)' => Keeps(e)
    BY <2>2 DEF Keeps, Accepted, Superseded, Typed, TypeOK
  <2> QED
    BY <2>1, <2>2, <2>3 DEF NoNewKeeper
<1>6. ASSUME NEW d \in Daemons, Supersede(d) PROVE NoNewKeeper
  BY <1>6, DaemonsAssumption DEF Typed, TypeOK, NoNewKeeper, Keeps, Accepted,
     Superseded, Supersede, Lead, UpdateRegistry
<1>7. ASSUME NEW d \in Daemons, ResumeMarked(d) PROVE NoNewKeeper
  BY <1>7, DaemonsAssumption DEF Typed, TypeOK, NoNewKeeper, Keeps, Accepted,
     Superseded, ResumeMarked, Line
<1>8. ASSUME NEW d \in Daemons, Spawn(d) PROVE NoNewKeeper
  BY <1>8, DaemonsAssumption DEF Typed, TypeOK, NoNewKeeper, Keeps, Accepted,
     Superseded, Spawn, Notify, UpdateRegistry, Plain, Called
<1>9. ASSUME NEW d \in Daemons, StartTurn(d) PROVE NoNewKeeper
  <2>1. UNCHANGED <<next, owned, calls>> /\ \A e \in Daemons :
           sess'[e] # "none" => sess[e] # "none"
    BY <1>9 DEF StartTurn, Typed, TypeOK
  <2> QED
    BY <2>1 DEF NoNewKeeper, Keeps, Accepted, Superseded
<1>10. ASSUME NEW d \in Daemons, EndTurn(d) PROVE NoNewKeeper
  <2>1. UNCHANGED <<next, owned, calls>> /\ \A e \in Daemons :
           sess'[e] # "none" => sess[e] # "none"
    BY <1>10 DEF EndTurn, Typed, TypeOK
  <2> QED
    BY <2>1 DEF NoNewKeeper, Keeps, Accepted, Superseded
<1>11. ASSUME NEW d \in Daemons, Adopt(d) PROVE NoNewKeeper
  <2>1. claim # None /\ (claim # d => foreign[claim] = d) /\ claim \in Daemons
    BY <1>11, ReachedWhere DEF Adopt, Typed, TypeOK
  <2>2. /\ UNCHANGED <<next, owned, calls>> /\ \A e \in Daemons \ {d} : sess'[e] = sess[e]
    BY <1>11 DEF Adopt, Typed, TypeOK
  <2>3. Superseded(d) => Keeps(d)
    BY <2>1 DEF Back, Newest, Forwards, Line
  <2> QED
    BY <2>2, <2>3 DEF NoNewKeeper, Keeps, Accepted, Superseded
<1>12. ASSUME NEW d \in Daemons, ResumeHanded(d) PROVE NoNewKeeper
  <2>1. ~Superseded(d) /\ UNCHANGED <<next, owned, calls>> /\ \A e \in Daemons \ {d} :
           sess'[e] = sess[e]
    BY <1>12 DEF ResumeHanded, Typed, TypeOK, Resuming
  <2> QED
    BY <2>1 DEF NoNewKeeper, Keeps, Accepted, Superseded
<1>13. ASSUME NEW d \in Daemons, LaunchSettles(d) PROVE NoNewKeeper
  <2>1. UNCHANGED <<next, owned, calls>> /\ \A e \in Daemons :
           sess'[e] # "none" => sess[e] # "none"
    BY <1>13 DEF LaunchSettles, Typed, TypeOK
  <2> QED
    BY <2>1 DEF NoNewKeeper, Keeps, Accepted, Superseded
<1>14. ASSUME NEW d \in Daemons, NEW k \in {"close", "forget"},
             EndSession(d, k)
      PROVE  NoNewKeeper
  <2>1. UNCHANGED <<next, owned, calls>> /\ \A e \in Daemons :
           sess'[e] # "none" => sess[e] # "none"
    BY <1>14 DEF EndSession, Typed, TypeOK
  <2> QED
    BY <2>1 DEF NoNewKeeper, Keeps, Accepted, Superseded
<1>15. ASSUME NEW d \in Daemons, Scan(d) PROVE NoNewKeeper
  <2>1. ~Accepted(d) /\ Superseded(d)
    BY <1>15, NotWaiting DEF Scan, CallShape, Typed, Watches, Superseded
  <2>2. /\ next' = next
        /\ \A e \in Daemons \ {d} : sess'[e] = sess[e] /\ owned'[e] = owned[e]
        /\ \A c \in calls' : c \in calls \/ c.from = d
        /\ calls \subseteq calls'
        /\ calls' # calls \/ sess'[d] # "none" \/ owned'[d] => sess[d] # "none" \/ owned[d]
    BY <1>15 DEF Scan, Typed, TypeOK, Call
  <2>3. ASSUME NEW e \in Daemons, Keeps(e)' PROVE Keeps(e)
    <3>1. CASE e = d
      BY <2>1, <2>2, <2>3, <3>1 DEF Keeps, Superseded
    <3>2. CASE e # d
      BY <2>1, <2>2, <2>3, <3>2 DEF Keeps, Superseded, Accepted
    <3> QED
      BY <3>1, <3>2
  <2> QED
    BY <2>3 DEF NoNewKeeper
<1>16. ASSUME NEW d \in Daemons, NEW c \in calls, Reported(d, c) PROVE NoNewKeeper
  <2>1. /\ next' = next
        /\ \A e \in Daemons \ {d} : sess'[e] = sess[e] /\ owned'[e] = owned[e]
        /\ calls' = calls \ {c} /\ c.from = d /\ c \in calls
        /\ c.path = << >>
    BY <1>16 DEF Reported, Typed, TypeOK
  <2>2. ~\E b \in calls' : b.from = d
    BY <2>1, MakerWaits DEF CallShape
  <2>3. c.kind = "release" => sess'[d] = "none" /\ ~owned'[d]
    BY <1>16 DEF Reported, CallShape, CallFrom
  <2>4. c.kind = "handoff" => sess'[d] = "none" /\ ~owned'[d]
    BY <1>16, <2>1 DEF Reported, Relayed, RelayedAt, Typed, TypeOK
  <2>5. c.kind \in Kinds
    BY <2>1, PathIn, CallFields DEF CallShape
  <2>6. ~Keeps(d)'
    BY <2>2, <2>3, <2>4, <2>5 DEF Keeps, Kinds
  <2>7. ASSUME NEW e \in Daemons \ {d}, Keeps(e)' PROVE Keeps(e)
    BY <2>1, <2>7 DEF Keeps, Superseded, Accepted
  <2> QED
    BY <2>6, <2>7 DEF NoNewKeeper
<1>17. ASSUME NEW d \in Daemons, Merge(d) PROVE NoNewKeeper
  BY <1>17 DEF Merge, Line
<1>18. ASSUME NEW d \in Daemons, Exit(d) PROVE NoNewKeeper
  <2>1. calls' = calls
    BY <1>18, ExitCalls DEF Exit, CallShape
  <2>2. /\ next' = [next EXCEPT ![d] = None]
        /\ \A e \in Daemons \ {d} : sess'[e] = sess[e] /\ owned'[e] = owned[e]
    BY <1>18 DEF Exit, Gone, Typed, TypeOK
  <2>5. \A e \in Daemons \ {d} : Keeps(e)' => Keeps(e)
    BY <2>1, <2>2 DEF Keeps, Accepted, Superseded, Typed, TypeOK
  <2>6. ~Keeps(d)'
    BY <2>2 DEF Keeps, Superseded, Typed, TypeOK
  <2> QED
    BY <2>5, <2>6 DEF NoNewKeeper
<1>19. ASSUME NEW d \in Daemons, Crash(d) PROVE NoNewKeeper
  BY <1>19 DEF Plain
<1>20. ASSUME NEW d \in Daemons, LeadFails(d) PROVE NoNewKeeper
  BY <1>20 DEF LeadFails, Line
<1>21. ASSUME NEW c \in calls, Relay(c) PROVE NoNewKeeper
  <2> DEFINE r == [c EXCEPT !.path = Append(c.path, next[Server(c)])]
  <2>1. /\ r.from = c.from /\ r.kind = c.kind /\ r.entry = c.entry
        /\ r.stage = c.stage /\ r.path = Append(c.path, next[Server(c)])
    BY EditFields DEF Typed, TypeOK
  <2>2. calls' = (calls \ {c}) \cup {r}
    BY <1>21 DEF Relay, Replace
  <2> HIDE DEF r
  <2>4. UNCHANGED <<sess, next, owned>> /\ r.stage # "ok" /\ c.stage # "ok"
    BY <1>21, <2>1 DEF Relay
  <2>5. ASSUME NEW e \in Daemons, Keeps(e)' PROVE Keeps(e)
    <3>2. Accepted(e) => Accepted(e)'
      BY <2>1, <2>2, <2>4 DEF Accepted
    <3>3. (\E b \in calls' : b.from = e) => \E b \in calls : b.from = e
      BY <2>1, <2>2
    <3> QED
      BY <2>4, <2>5, <3>2, <3>3 DEF Keeps, Superseded
  <2> QED
    BY <2>5 DEF NoNewKeeper
<1>22. ASSUME NEW c \in calls, Unreachable(c) PROVE NoNewKeeper
  <2> DEFINE r == [c EXCEPT !.stage = "err", !.path = Front(c.path)]
  <2>1. /\ r.from = c.from /\ r.kind = c.kind /\ r.entry = c.entry
        /\ r.stage = "err" /\ r.path = Front(c.path)
    BY EditFields DEF Typed, TypeOK
  <2>2. calls' = (calls \ {c}) \cup {r}
    BY <1>22 DEF Unreachable, Replace
  <2> HIDE DEF r
  <2>4. UNCHANGED <<sess, next, owned>> /\ r.stage # "ok" /\ c.stage # "ok"
    BY <1>22, <2>1 DEF Unreachable
  <2>5. ASSUME NEW e \in Daemons, Keeps(e)' PROVE Keeps(e)
    <3>2. Accepted(e) => Accepted(e)'
      BY <2>1, <2>2, <2>4 DEF Accepted
    <3>3. (\E b \in calls' : b.from = e) => \E b \in calls : b.from = e
      BY <2>1, <2>2
    <3> QED
      BY <2>4, <2>5, <3>2, <3>3 DEF Keeps, Superseded
  <2> QED
    BY <2>5 DEF NoNewKeeper
<1>23. ASSUME NEW c \in calls, ClaimHandoff(c) PROVE NoNewKeeper
  <2> DEFINE r == [c EXCEPT !.stage = "claimed"]
  <2>1. /\ r.from = c.from /\ r.kind = c.kind /\ r.entry = c.entry
        /\ r.stage = "claimed" /\ r.path = c.path
    BY EditFields DEF Typed, TypeOK
  <2>2. calls' = (calls \ {c}) \cup {r}
    BY <1>23 DEF ClaimHandoff, Replace
  <2> HIDE DEF r
  <2>4. UNCHANGED <<sess, next, owned>> /\ r.stage # "ok" /\ c.stage # "ok"
    BY <1>23, <2>1 DEF ClaimHandoff
  <2>5. ASSUME NEW e \in Daemons, Keeps(e)' PROVE Keeps(e)
    <3>2. Accepted(e) => Accepted(e)'
      BY <2>1, <2>2, <2>4 DEF Accepted
    <3>3. (\E b \in calls' : b.from = e) => \E b \in calls : b.from = e
      BY <2>1, <2>2
    <3> QED
      BY <2>4, <2>5, <3>2, <3>3 DEF Keeps, Superseded
  <2> QED
    BY <2>5 DEF NoNewKeeper
<1>24. ASSUME NEW c \in calls, AcceptHandoff(c) PROVE NoNewKeeper
  <2> DEFINE r == [c EXCEPT !.stage = "ok"]
  <2>1. /\ r.from = c.from /\ r.kind = c.kind /\ r.entry = c.entry
        /\ r.stage = "ok" /\ r.path = c.path
    BY EditFields DEF Typed, TypeOK
  <2>2. calls' = (calls \ {c}) \cup {r}
    BY <1>24 DEF AcceptHandoff, Replace
  <2> HIDE DEF r
  <2>3. UNCHANGED <<sess, next, owned>> /\ c.stage # "ok" /\ r.stage = "ok"
    BY <1>24, <2>1 DEF AcceptHandoff
  <2>4. ASSUME NEW e \in Daemons, Keeps(e)' PROVE Keeps(e)
    <3>2. Accepted(e) => Accepted(e)'
      BY <2>2, <2>3 DEF Accepted
    <3>3. (\E b \in calls' : b.from = e) => \E b \in calls : b.from = e
      BY <2>1, <2>2
    <3> QED
      BY <2>3, <2>4, <3>2, <3>3 DEF Keeps, Superseded
  <2> QED
    BY <2>4 DEF NoNewKeeper
<1>25. ASSUME NEW c \in calls, AcceptRelease(c) PROVE NoNewKeeper
  <2> DEFINE r == [c EXCEPT !.stage = "ok"]
  <2>1. /\ r.from = c.from /\ r.kind = c.kind /\ r.entry = c.entry
        /\ r.stage = "ok" /\ r.path = c.path
    BY EditFields DEF Typed, TypeOK
  <2>2. calls' = (calls \ {c}) \cup {r}
    BY <1>25 DEF AcceptRelease, Replace
  <2> HIDE DEF r
  <2>3. UNCHANGED <<sess, next, owned>> /\ c.stage # "ok" /\ r.stage = "ok"
    BY <1>25, <2>1 DEF AcceptRelease
  <2>4. ASSUME NEW e \in Daemons, Keeps(e)' PROVE Keeps(e)
    <3>2. Accepted(e) => Accepted(e)'
      BY <2>2, <2>3 DEF Accepted
    <3>3. (\E b \in calls' : b.from = e) => \E b \in calls : b.from = e
      BY <2>1, <2>2
    <3> QED
      BY <2>3, <2>4, <3>2, <3>3 DEF Keeps, Superseded
  <2> QED
    BY <2>4 DEF NoNewKeeper
<1>26. ASSUME NEW c \in calls, Answer(c) PROVE NoNewKeeper
  <2> DEFINE r == [c EXCEPT !.path = Front(c.path)]
  <2>1. /\ r.from = c.from /\ r.kind = c.kind /\ r.entry = c.entry
        /\ r.stage = c.stage /\ r.path = Front(c.path)
    BY EditFields DEF Typed, TypeOK
  <2>2. /\ calls' = (calls \ {c}) \cup {r} \/ (calls' = calls \ {c} /\ c.from = None)
        /\ c.path # << >> /\ c.stage \in {"ok", "err"}
    BY <1>26 DEF Answer, Replace
  <2> HIDE DEF r
  <2>3. UNCHANGED <<sess, next, owned>>
    BY <1>26 DEF Answer
  <2>4. ASSUME NEW e \in Daemons, Keeps(e)' PROVE Keeps(e)
    <3>1. c.from # None
      BY MakerWaits, DaemonsAssumption DEF CallShape
    <3>2. Accepted(e) => Accepted(e)'
      BY <2>1, <2>2, <3>1 DEF Accepted
    <3>3. (\E b \in calls' : b.from = e) => \E b \in calls : b.from = e
      BY <2>1, <2>2
    <3> QED
      BY <2>3, <2>4, <3>2, <3>3 DEF Keeps, Superseded
  <2> QED
    BY <2>4 DEF NoNewKeeper
<1> QED
  BY <1>1, <1>2, <1>3, <1>4, <1>5, <1>6, <1>7, <1>8, <1>9, <1>10, <1>11, <1>12, <1>13,
     <1>14, <1>15, <1>16, <1>17, <1>18, <1>19, <1>20, <1>21, <1>22, <1>23, <1>24,
     <1>25, <1>26 DEF Next, Caller, Start, Work, Watcher, Again, Peer, Client

\* What a superseded daemon has left, step by step.
LEMMA SettledNext ==
    ASSUME Plain, Typed, Typed', Line, Line', Outside, Outside', CallShape,
       CallShape', Handing, Resuming, Kept, Kept', Forwarding, Entered, Unborn, Chain,
       Relayed, Settled, Back, Behind, [Next]_vars
    PROVE  Settled'
<1> USE DEF procVars, regVars, sessVars, handVars, wakeVars, wireVars, histVars
<1>1. ASSUME NEW d \in Daemons,
             LoadRegistry(d) \/ Run(d) \/ Ended(d) \/ OtherProgress(d) \/ Reclaim(d)
                \/ ClientCall(d)
      PROVE  Settled'
  <2>1. UNCHANGED <<sess, next, foreign, watch, owned>>
    BY <1>1 DEF LoadRegistry, Run, Ended, Notify, UpdateRegistry, OtherProgress,
       Reclaim, ClientCall
  <2> QED
    BY <2>1 DEF Settled, Superseded, Owning
<1>2. ASSUME NEW c \in calls,
             Relay(c) \/ Unreachable(c) \/ ClaimHandoff(c)
      PROVE  Settled'
  <2>1. UNCHANGED <<sess, next, foreign, watch, owned>>
    BY <1>2 DEF Relay, Replace, Unreachable, ClaimHandoff
  <2> QED
    BY <2>1 DEF Settled, Superseded, Owning
<1>3. CASE Dispatch \/ Forwarded
  <2>1. UNCHANGED <<sess, next, foreign, watch, owned>>
    BY <1>3 DEF Dispatch, Returns, Forwarded, Goes
  <2> QED
    BY <2>1 DEF Settled, Superseded, Owning
<1>4. CASE UNCHANGED vars
  <2>1. UNCHANGED <<sess, next, foreign, watch, owned>>
    BY <1>4 DEF vars
  <2> QED
    BY <2>1 DEF Settled, Superseded, Owning
<1>5. ASSUME NEW d \in Daemons, OpenClaim(d) PROVE Settled'
  BY <1>5, DaemonsAssumption DEF Typed, TypeOK, Settled, Superseded, Owning,
     OpenClaim, Lead, Watches
<1>6. ASSUME NEW d \in Daemons, Takeover(d) PROVE Settled'
  <2>1. PICK p \in Daemons : p = claim
    BY <1>6 DEF Takeover, Typed, TypeOK
  <2>2. /\ \A e \in Daemons \ {p} : sess'[e] = sess[e] /\ owned'[e] = owned[e]
                                       /\ watch'[e] = watch[e]
                                    /\ next'[e] = next[e]
        /\ foreign' = foreign /\ watch'[p] = "scan"
             /\ sess'[p] = (IF Handed(p) THEN "none" ELSE sess[p])
    BY <1>6, <2>1 DEF Takeover, Typed, TypeOK
  <2>3. owned' = [owned EXCEPT ![p] = sess[p] # "none" /\ ~Handed(p)]
    BY <1>6, <2>1 DEF Takeover
  <2>4. owned'[p] = (sess[p] # "none" /\ ~Handed(p))
    <3>1. owned \in [Daemons -> BOOLEAN]
      BY DEF Typed, TypeOK
    <3> QED
      BY <2>3, <3>1, Zenon
  <2>5. Owning(p)' => owned'[p]
    BY <2>2, <2>4 DEF Owning
  <2> QED
    BY <2>2, <2>5 DEF Settled, Superseded, Owning
<1>7. ASSUME NEW d \in Daemons, Supersede(d) PROVE Settled'
  BY <1>7, DaemonsAssumption DEF Typed, TypeOK, Settled, Superseded, Owning,
     Supersede, Lead, UpdateRegistry, Line
<1>8. ASSUME NEW d \in Daemons, ResumeMarked(d) PROVE Settled'
  BY <1>8, DaemonsAssumption DEF Typed, TypeOK, Settled, Superseded, Owning,
     ResumeMarked, Line, Watches
<1>9. ASSUME NEW d \in Daemons, Spawn(d) PROVE Settled'
  BY <1>9, DaemonsAssumption DEF Typed, TypeOK, Settled, Superseded, Owning, Spawn,
     Notify, UpdateRegistry, Plain, Called, Watches
<1>10. ASSUME NEW d \in Daemons, StartTurn(d) PROVE Settled'
  BY <1>10, DaemonsAssumption DEF Typed, TypeOK, Settled, Superseded, Owning,
     StartTurn, Notify
<1>11. ASSUME NEW d \in Daemons, EndTurn(d) PROVE Settled'
  BY <1>11, DaemonsAssumption DEF Typed, TypeOK, Settled, Superseded, Owning, EndTurn,
     Notify
<1>12. ASSUME NEW d \in Daemons, Adopt(d) PROVE Settled'
  <2>1. claim # None /\ (claim # d => foreign[claim] = d) /\ claim \in Daemons
    BY <1>12, ReachedWhere DEF Adopt, Typed, TypeOK
  <2>2. Superseded(d) => Keeps(d) /\ watch[d] # "call"
    BY <1>12, <2>1 DEF Back, Newest, Forwards, Line, Adopt, Quiet, Plain
  <2>3. Superseded(d) => owned[d]
    BY <1>12, <2>2, NotWaiting DEF Adopt, Keeps, CallShape
  <2>4. watch[d] # "done"
    BY <2>3 DEF Settled, Typed, Watches, Superseded
  <2>5. /\ UNCHANGED <<next, owned, watch, foreign>> /\ \A e \in Daemons \ {d} :
             sess'[e] = sess[e]
        /\ sess'[d] = "launching"
    BY <1>12 DEF Adopt, Typed, TypeOK
  <2> QED
    BY <2>3, <2>4, <2>5 DEF Settled, Superseded, Owning
<1>13. ASSUME NEW d \in Daemons, ResumeHanded(d) PROVE Settled'
  BY <1>13, DaemonsAssumption DEF Typed, TypeOK, Settled, Superseded, Owning,
     ResumeHanded, Notify, Resuming, Watches
<1>14. ASSUME NEW d \in Daemons, LaunchSettles(d) PROVE Settled'
  BY <1>14, DaemonsAssumption DEF Typed, TypeOK, Settled, Superseded, Owning,
     LaunchSettles, Notify, UpdateRegistry, Quiet, Plain
<1>15. ASSUME NEW d \in Daemons, NEW k \in {"close", "forget"},
             EndSession(d, k)
      PROVE  Settled'
  BY <1>15, DaemonsAssumption DEF Typed, TypeOK, Settled, Superseded, Owning,
     EndSession, Notify, Quiet, Plain
<1>16. ASSUME NEW d \in Daemons, Scan(d) PROVE Settled'
  BY <1>16, DaemonsAssumption DEF Typed, TypeOK, Settled, Superseded, Owning, Scan
<1>17. ASSUME NEW d \in Daemons, NEW c \in calls, Reported(d, c) PROVE Settled'
  <2>1. /\ next' = next /\ foreign' = foreign
        /\ \A e \in Daemons \ {d} :
             sess'[e] = sess[e] /\ owned'[e] = owned[e] /\ watch'[e] = watch[e]
        /\ watch'[d] = "check" /\ c.from = d /\ c \in calls /\ c.path = << >>
    BY <1>17 DEF Reported, Typed, TypeOK
  <2>3. c.kind = "release" => sess'[d] = "none" /\ ~owned'[d]
    BY <1>17 DEF Reported, CallShape, CallFrom
  <2>4. c.kind = "handoff" => sess'[d] = "none" /\ ~owned'[d]
    BY <1>17, <2>1 DEF Reported, Relayed, RelayedAt, Typed, TypeOK
  <2>5. c.kind \in Kinds
    BY <2>1, PathIn, CallFields DEF CallShape
  <2> QED
    BY <2>1, <2>3, <2>4, <2>5 DEF Settled, Superseded, Owning, Kinds
<1>18. ASSUME NEW d \in Daemons, Check(d) PROVE Settled'
  BY <1>18, DaemonsAssumption DEF Typed, TypeOK, Settled, Superseded, Owning, Check,
     Done
<1>19. ASSUME NEW d \in Daemons, Watch(d) PROVE Settled'
  BY <1>19, DaemonsAssumption DEF Typed, TypeOK, Settled, Superseded, Owning, Watch
<1>20. ASSUME NEW d \in Daemons, Merge(d) PROVE Settled'
  BY <1>20 DEF Merge, Line
<1>21. ASSUME NEW d \in Daemons, Exit(d) PROVE Settled'
  BY <1>21, DaemonsAssumption DEF Typed, TypeOK, Settled, Superseded, Owning, Exit,
     Gone
<1>22. ASSUME NEW d \in Daemons, Crash(d) PROVE Settled'
  BY <1>22 DEF Plain
<1>23. ASSUME NEW d \in Daemons, LeadFails(d) PROVE Settled'
  BY <1>23 DEF LeadFails, Line
<1>24. ASSUME NEW c \in calls, AcceptHandoff(c) PROVE Settled'
  BY <1>24, DaemonsAssumption DEF Typed, TypeOK, Settled, Superseded, Owning,
     AcceptHandoff, UpdateRegistry, Replace
<1>25. ASSUME NEW c \in calls, AcceptRelease(c) PROVE Settled'
  BY <1>25, DaemonsAssumption DEF Typed, TypeOK, Settled, Superseded, Owning,
     AcceptRelease, UpdateRegistry, Replace
<1>26. ASSUME NEW c \in calls, Answer(c) PROVE Settled'
  <2>1. UNCHANGED <<sess, next, watch, owned>> /\ \A e \in Daemons :
           foreign'[e] \in {foreign[e], None}
    BY <1>26 DEF Answer, Typed, TypeOK
  <2> QED
    BY <2>1 DEF Settled, Superseded, Owning
<1>27. CASE Connect
  BY <1>27, DaemonsAssumption DEF Typed, TypeOK, Settled, Superseded, Owning, Connect,
     Goes
<1> QED
  BY <1>1, <1>2, <1>3, <1>4, <1>5, <1>6, <1>7, <1>8, <1>9, <1>10, <1>11, <1>12, <1>13,
     <1>14, <1>15, <1>16, <1>17, <1>18, <1>19, <1>20, <1>21, <1>22, <1>23, <1>24,
     <1>25, <1>26, <1>27 DEF Next, Caller, Start, Work, Watcher, Again, Peer, Client

\* Who stands.
LEMMA StoodNext ==
    ASSUME Plain, Typed, Typed', Line, Line', Outside, Outside', CallShape,
       CallShape', Handing, Resuming, Kept, Kept', Forwarding, Entered, Unborn, Chain,
       Relayed, Settled, Back, Behind, [Next]_vars
    PROVE  StoodMoves
<1> USE DEF procVars, regVars, sessVars, handVars, wakeVars, wireVars, histVars
<1>1. ASSUME NEW d \in Daemons,
             Spawn(d) \/ StartTurn(d) \/ EndTurn(d) \/ Adopt(d) \/ ResumeHanded(d) \/
                Ended(d) \/ OtherProgress(d) \/ Scan(d) \/ Check(d) \/ ClientCall(d)
      PROVE  StoodMoves
  <2>1. UNCHANGED <<phase, claim, next>>
    BY <1>1 DEF Spawn, Notify, UpdateRegistry, StartTurn, EndTurn, Adopt,
       ResumeHanded, Ended, OtherProgress, Scan, Check, ClientCall
  <2> QED
    BY <2>1 DEF StoodMoves, Newest, Superseded
<1>2. ASSUME NEW c \in calls,
             Relay(c) \/ Unreachable(c) \/ ClaimHandoff(c) \/ AcceptHandoff(c) \/
                AcceptRelease(c) \/ Answer(c)
      PROVE  StoodMoves
  <2>1. UNCHANGED <<phase, claim, next>>
    BY <1>2 DEF Relay, Replace, Unreachable, ClaimHandoff, AcceptHandoff,
       UpdateRegistry, AcceptRelease, Answer, Notify
  <2> QED
    BY <2>1 DEF StoodMoves, Newest, Superseded
<1>3. ASSUME NEW d \in Daemons, NEW k \in {"close", "forget"},
             EndSession(d, k)
      PROVE  StoodMoves
  <2>1. UNCHANGED <<phase, claim, next>>
    BY <1>3 DEF EndSession, Notify
  <2> QED
    BY <2>1 DEF StoodMoves, Newest, Superseded
<1>4. ASSUME NEW d \in Daemons, NEW c \in calls, Reported(d, c) PROVE StoodMoves
  <2>1. UNCHANGED <<phase, claim, next>>
    BY <1>4 DEF Reported, Notify
  <2> QED
    BY <2>1 DEF StoodMoves, Newest, Superseded
<1>5. CASE Dispatch \/ Connect \/ Forwarded
  <2>1. UNCHANGED <<phase, claim, next>>
    BY <1>5 DEF Dispatch, Returns, Connect, Goes, Forwarded
  <2> QED
    BY <2>1 DEF StoodMoves, Newest, Superseded
<1>6. CASE UNCHANGED vars
  <2>1. UNCHANGED <<phase, claim, next>>
    BY <1>6 DEF vars
  <2> QED
    BY <2>1 DEF StoodMoves, Newest, Superseded
<1>7. ASSUME NEW d \in Daemons, LoadRegistry(d) PROVE StoodMoves
  BY <1>7, DaemonsAssumption DEF Typed, TypeOK, StoodMoves, Newest, Superseded,
     LoadRegistry
<1>8. ASSUME NEW d \in Daemons, Run(d) PROVE StoodMoves
  BY <1>8, DaemonsAssumption DEF Typed, TypeOK, StoodMoves, Newest, Superseded, Run
<1>9. ASSUME NEW d \in Daemons, OpenClaim(d) PROVE StoodMoves
  <2>1. claim # None
    BY <1>9, DaemonsAssumption DEF OpenClaim, Line
  <2>2. UNCHANGED <<claim, next>> /\ phase' = [phase EXCEPT ![d] = "calling"]
    BY <1>9, <2>1 DEF OpenClaim
  <2> QED
    BY <2>2 DEF StoodMoves, Newest, Superseded, Typed, TypeOK
<1>10. ASSUME NEW d \in Daemons, Takeover(d) PROVE StoodMoves
  <2>1. PICK p \in Daemons : p = claim
    BY <1>10 DEF Takeover, Typed, TypeOK
  <2>2. /\ next' = [next EXCEPT ![p] = d] /\ claim' = None
             /\ phase' = [phase EXCEPT ![d] = "reported"]
    BY <1>10, <2>1 DEF Takeover
  <2>3. next'[p] = d /\ \A e \in Daemons \ {p} : next'[e] = next[e]
    BY <2>2 DEF Typed, TypeOK
  <2>4. \A e \in Daemons : Newest(e)' => Newest(e) \/ e = d
    BY <2>2, DaemonsAssumption DEF Newest, Typed, TypeOK
  <2>5. ~Superseded(p)
    BY <2>1 DEF Line
  <2> QED
    BY <1>10, <2>1, <2>3, <2>4, <2>5 DEF StoodMoves, Superseded
<1>11. ASSUME NEW d \in Daemons, Supersede(d) PROVE StoodMoves
  <2>1. phase[d] = "reported" /\ claim' = d /\ next' = next
        /\ \A e \in Daemons \ {d} : phase'[e] = phase[e]
    BY <1>11 DEF Supersede, Lead, Typed, TypeOK
  <2> QED
    BY <2>1 DEF StoodMoves, Newest, Superseded
<1>12. ASSUME NEW d \in Daemons, ResumeMarked(d) PROVE StoodMoves
  BY <1>12, DaemonsAssumption DEF Typed, TypeOK, StoodMoves, Newest, Superseded,
     ResumeMarked
<1>13. ASSUME NEW d \in Daemons, LaunchSettles(d) PROVE StoodMoves
  BY <1>13, DaemonsAssumption DEF Typed, TypeOK, StoodMoves, Newest, Superseded,
     LaunchSettles, Notify, UpdateRegistry
<1>14. ASSUME NEW d \in Daemons, Watch(d) PROVE StoodMoves
  BY <1>14, DaemonsAssumption DEF Typed, TypeOK, StoodMoves, Newest, Superseded, Watch
<1>15. ASSUME NEW d \in Daemons, Reclaim(d) PROVE StoodMoves
  BY <1>15 DEF Reclaim, Line
<1>16. ASSUME NEW d \in Daemons, Merge(d) PROVE StoodMoves
  BY <1>16 DEF Merge, Line
<1>17. ASSUME NEW d \in Daemons, Exit(d) PROVE StoodMoves
  <2>1. /\ claim' \in {claim, None} /\ phase' = [phase EXCEPT ![d] = "exited"]
        /\ next'[d] = None /\ \A e \in Daemons \ {d} : next'[e] = next[e]
    BY <1>17 DEF Exit, Gone, Typed, TypeOK
  <2>2. \A e \in Daemons : Newest(e)' => Newest(e)
    BY <2>1, DaemonsAssumption DEF Newest, Typed, TypeOK
  <2> QED
    BY <1>17, <2>1, <2>2 DEF StoodMoves, Superseded
<1>18. ASSUME NEW d \in Daemons, Crash(d) PROVE StoodMoves
  BY <1>18 DEF Plain
<1>19. ASSUME NEW d \in Daemons, LeadFails(d) PROVE StoodMoves
  BY <1>19 DEF LeadFails, Line
<1> QED
  BY <1>1, <1>2, <1>3, <1>4, <1>5, <1>6, <1>7, <1>8, <1>9, <1>10, <1>11, <1>12, <1>13,
     <1>14, <1>15, <1>16, <1>17, <1>18, <1>19 DEF Next, Caller, Start, Work, Watcher,
     Again, Peer, Client

\* Who forwards to whom.
LEMMA ForwardsNext ==
    ASSUME Plain, Typed, Typed', Line, Line', Outside, Outside', CallShape,
       CallShape', Handing, Resuming, Kept, Kept', Forwarding, Entered, Unborn, Chain,
       Relayed, Settled, Back, Behind, [Next]_vars
    PROVE  ForwardsMove
<1> USE DEF procVars, regVars, sessVars, handVars, wakeVars, wireVars, histVars
<1>1. ASSUME NEW d \in Daemons,
             LoadRegistry(d) \/ Run(d) \/ OpenClaim(d) \/ ResumeMarked(d) \/ Spawn(d)
                \/ StartTurn(d) \/ EndTurn(d) \/ Adopt(d) \/ ResumeHanded(d) \/
                LaunchSettles(d)
      PROVE  ForwardsMove
  <2>1. UNCHANGED <<foreign, report>>
    BY <1>1 DEF LoadRegistry, Run, OpenClaim, Lead, ResumeMarked, Spawn, Notify,
       UpdateRegistry, StartTurn, EndTurn, Adopt, ResumeHanded, LaunchSettles
  <2> QED
    BY <2>1 DEF ForwardsMove, Forwards
<1>2. ASSUME NEW d \in Daemons,
             Ended(d) \/ OtherProgress(d) \/ Scan(d) \/ Check(d) \/ Watch(d) \/
                Reclaim(d) \/ Merge(d) \/ ClientCall(d)
      PROVE  ForwardsMove
  <2>1. UNCHANGED <<foreign, report>>
    BY <1>2 DEF Ended, Notify, UpdateRegistry, OtherProgress, Scan, Check, Watch,
       Reclaim, Merge, ClientCall
  <2> QED
    BY <2>1 DEF ForwardsMove, Forwards
<1>3. ASSUME NEW c \in calls,
             Relay(c) \/ Unreachable(c) \/ ClaimHandoff(c)
      PROVE  ForwardsMove
  <2>1. UNCHANGED <<foreign, report>>
    BY <1>3 DEF Relay, Replace, Unreachable, ClaimHandoff
  <2> QED
    BY <2>1 DEF ForwardsMove, Forwards
<1>4. ASSUME NEW d \in Daemons, NEW k \in {"close", "forget"},
             EndSession(d, k)
      PROVE  ForwardsMove
  <2>1. UNCHANGED <<foreign, report>>
    BY <1>4 DEF EndSession, Notify
  <2> QED
    BY <2>1 DEF ForwardsMove, Forwards
<1>5. ASSUME NEW d \in Daemons, NEW c \in calls, Reported(d, c) PROVE ForwardsMove
  <2>1. UNCHANGED <<foreign, report>>
    BY <1>5 DEF Reported, Notify
  <2> QED
    BY <2>1 DEF ForwardsMove, Forwards
<1>6. CASE Dispatch \/ Forwarded
  <2>1. UNCHANGED <<foreign, report>>
    BY <1>6 DEF Dispatch, Returns, Forwarded, Goes
  <2> QED
    BY <2>1 DEF ForwardsMove, Forwards
<1>7. CASE UNCHANGED vars
  <2>1. UNCHANGED <<foreign, report>>
    BY <1>7 DEF vars
  <2> QED
    BY <2>1 DEF ForwardsMove, Forwards
<1>8. ASSUME NEW d \in Daemons, Takeover(d) PROVE ForwardsMove
  <2>1. foreign' = foreign /\ phase[d] = "calling" /\ \A e \in Daemons \ {d} :
           report'[e] = report[e]
    BY <1>8 DEF Takeover, Typed, TypeOK
  <2>2. report[d] = NoReport /\ foreign[d] = None
    BY <2>1 DEF Outside
  <2>3. \A e \in Daemons : ~Forwards(d, e)
    BY <2>2, DaemonsAssumption DEF Forwards, NoReport
  <2> QED
    BY <1>8, <2>1, <2>3 DEF ForwardsMove, Forwards
<1>9. ASSUME NEW d \in Daemons, Supersede(d) PROVE ForwardsMove
  <2> DEFINE r == report[d]
  <2>1. foreign[d] = None /\ phase[d] = "reported"
    BY <1>9 DEF Supersede, Outside
  <2>2. /\ foreign'[d] = IF r.kind = "kept" THEN r.owner ELSE None
        /\ \A e \in Daemons \ {d} : foreign'[e] = foreign[e] /\ report'[e] = report[e]
        /\ report'[d] = NoReport
    BY <1>9, <2>1 DEF Supersede, Typed, TypeOK
  <2>3. \A e \in Daemons : Forwards(d, e)' <=> Forwards(d, e)
    BY <2>1, <2>2, DaemonsAssumption DEF Forwards, NoReport
  <2> QED
    BY <2>1, <2>2, <2>3 DEF ForwardsMove, Forwards
<1>10. ASSUME NEW d \in Daemons, Exit(d) PROVE ForwardsMove
  <2>1. watch[d] = "done" /\ phase[d] = "serving"
    BY <1>10 DEF Exit, Typed, Watches
  <2>2. foreign[d] = None /\ report[d] = NoReport
    BY <2>1 DEF Settled, Outside
  <2>3. \A e \in Daemons : ~Forwards(d, e)
    BY <2>2, DaemonsAssumption DEF Forwards, NoReport
  <2>4. /\ \A e \in Daemons \ {d} : foreign'[e] = foreign[e] /\ report'[e] = report[e]
        /\ foreign'[d] = None /\ report'[d] = NoReport
    BY <1>10 DEF Exit, Gone, Typed, TypeOK
  <2>5. \A e \in Daemons : ~Forwards(d, e)'
    BY <2>4, DaemonsAssumption DEF Forwards, NoReport
  <2> QED
    BY <2>3, <2>4, <2>5 DEF ForwardsMove, Forwards
<1>11. ASSUME NEW d \in Daemons, Crash(d) PROVE ForwardsMove
  BY <1>11 DEF Plain
<1>12. ASSUME NEW d \in Daemons, LeadFails(d) PROVE ForwardsMove
  BY <1>12 DEF LeadFails, Line
<1>13. ASSUME NEW c \in calls, AcceptHandoff(c) PROVE ForwardsMove
  <2> DEFINE s == Server(c)
  <2>1. /\ s \in Daemons /\ foreign' = [foreign EXCEPT ![s] = None] /\ report' = report
        /\ \A e \in Daemons : Keeps(e) => e = c.from
    BY <1>13, ReceivedAt DEF AcceptHandoff
  <2>2. AcceptFrom(c.from)
    BY <1>13 DEF AcceptFrom
  <2> HIDE DEF s
  <2>3. \A e \in Daemons : foreign'[e] \in {foreign[e], None}
    BY <2>1 DEF Typed, TypeOK
  <2> QED
    BY <2>1, <2>2, <2>3, DaemonsAssumption DEF ForwardsMove, Forwards
<1>14. ASSUME NEW c \in calls, AcceptRelease(c) PROVE ForwardsMove
  <2> DEFINE s == Server(c)
  <2>1. /\ s \in Daemons /\ foreign' = [foreign EXCEPT ![s] = None] /\ report' = report
        /\ \A e \in Daemons : Keeps(e) => e = c.from
    BY <1>14, ReceivedAt DEF AcceptRelease
  <2>2. AcceptFrom(c.from)
    BY <1>14 DEF AcceptFrom
  <2> HIDE DEF s
  <2>3. \A e \in Daemons : foreign'[e] \in {foreign[e], None}
    BY <2>1 DEF Typed, TypeOK
  <2> QED
    BY <2>1, <2>2, <2>3, DaemonsAssumption DEF ForwardsMove, Forwards
<1>15. ASSUME NEW c \in calls, Answer(c) PROVE ForwardsMove
  <2> DEFINE q == Front(c.path)
             x == q[Len(q)]
  <2>1. CASE q # << >> /\ c.stage = "ok"
    <3>1. foreign' = [foreign EXCEPT ![x] = None] /\ report' = report /\ c.path # << >>
      BY <1>15, <2>1 DEF Answer
    <3>2. c.path \in Seq(Daemons)
      BY PathIn DEF CallShape
    <3>3. /\ Len(c.path) \in Nat \ {0} /\ q \in Seq(Daemons) /\ Len(q) = Len(c.path) - 1
          /\ \A k \in 1..(Len(c.path) - 1) : q[k] = c.path[k]
      BY <3>1, <3>2, PathEnd
    <3>4. Len(q) # 0
      BY <2>1, <3>3, EmptySeq
    <3>5. Len(q) \in 1..Len(c.path) /\ Len(q) < Len(c.path) /\ x = c.path[Len(q)]
      <4> DEFINE m == Len(q)
                 k == Len(c.path)
      <4>1. m \in 1..k /\ m < k /\ m \in 1..(k - 1)
        <5>1. m = k - 1 /\ m # 0 /\ k \in Nat \ {0}
          BY <3>3, <3>4
        <5> HIDE DEF m, k
        <5> QED
          BY <5>1
      <4> QED
        BY <3>3, <4>1
    <3>6. x \in Daemons /\ foreign[x] \in {c.from, None}
      BY <3>5, PathIn DEF Relayed, RelayedAt, CallShape
    <3>7. Accepted(c.from)
      BY <2>1 DEF Accepted
    <3> HIDE DEF x, q
    <3>8. \A e \in Daemons :
             foreign'[e] \in {foreign[e], None} /\ (e # x => foreign'[e] = foreign[e])
      BY <3>1, <3>6 DEF Typed, TypeOK
    <3> QED
      BY <3>1, <3>6, <3>7, <3>8, DaemonsAssumption DEF ForwardsMove, Forwards, Keeps
  <2>2. CASE ~(q # << >> /\ c.stage = "ok")
    <3>1. UNCHANGED <<foreign, report>>
      BY <1>15, <2>2 DEF Answer
    <3> QED
      BY <3>1 DEF ForwardsMove, Forwards
  <2> QED
    BY <2>1, <2>2
<1>16. CASE Connect
  <2>1. report' = report /\ \A n \in Daemons :
           foreign'[n] = foreign[n] \/ (foreign'[n] = None /\ ~Up(foreign[n]))
    BY <1>16 DEF Connect, Typed, TypeOK
  <2>3. \A e \in Daemons : Keeps(e) => Up(e)
    BY DEF Keeps, Line, Up
  <2> QED
    BY <2>1, <2>3, DaemonsAssumption DEF ForwardsMove, Forwards
<1> QED
  BY <1>1, <1>2, <1>3, <1>4, <1>5, <1>6, <1>7, <1>8, <1>9, <1>10, <1>11, <1>12, <1>13,
     <1>14, <1>15, <1>16 DEF Next, Caller, Start, Work, Watcher, Again, Peer, Client

\* Who ceases to keep the session.
LEMMA StopsNext ==
    ASSUME Plain, Typed, Typed', Line, Line', Outside, Outside', CallShape,
       CallShape', Handing, Resuming, Kept, Kept', Forwarding, Entered, Unborn, Chain,
       Relayed, Settled, Back, Behind, [Next]_vars
    PROVE  StopsMove
<1> USE DEF procVars, regVars, sessVars, handVars, wakeVars, wireVars, histVars
<1>1. ASSUME NEW d \in Daemons,
             LoadRegistry(d) \/ Run(d) \/ OpenClaim(d) \/ Supersede(d) \/ Ended(d) \/
                OtherProgress(d) \/ Check(d) \/ Watch(d) \/ Reclaim(d) \/
                ClientCall(d)
      PROVE  StopsMove
  <2>1. UNCHANGED <<sess, next, owned, calls>>
    BY <1>1 DEF LoadRegistry, Run, OpenClaim, Lead, Supersede, UpdateRegistry, Ended,
       Notify, OtherProgress, Check, Watch, Reclaim, ClientCall
  <2> QED
    BY <2>1 DEF StopsMove, Keeps, Accepted, Superseded
<1>2. CASE Dispatch \/ Connect \/ Forwarded
  <2>1. UNCHANGED <<sess, next, owned, calls>>
    BY <1>2 DEF Dispatch, Returns, Connect, Goes, Forwarded
  <2> QED
    BY <2>1 DEF StopsMove, Keeps, Accepted, Superseded
<1>3. CASE UNCHANGED vars
  <2>1. UNCHANGED <<sess, next, owned, calls>>
    BY <1>3 DEF vars
  <2> QED
    BY <2>1 DEF StopsMove, Keeps, Accepted, Superseded
<1>4. ASSUME NEW d \in Daemons, Takeover(d) PROVE StopsMove
  <2>1. PICK p \in Daemons : p = claim
    BY <1>4 DEF Takeover, Typed, TypeOK
  <2>2. /\ calls' = calls /\ ~Superseded(p)
        /\ \A e \in Daemons \ {p} :
             sess'[e] = sess[e] /\ owned'[e] = owned[e] /\ next'[e] = next[e]
    BY <1>4, <2>1 DEF Takeover, Typed, TypeOK, Line
  <2>3. \A e \in Daemons \ {p} : Keeps(e) => Keeps(e)'
    BY <2>2 DEF Keeps, Accepted, Superseded
  <2> QED
    BY <2>2, <2>3 DEF StopsMove, Keeps
<1>5. ASSUME NEW d \in Daemons, ResumeMarked(d) PROVE StopsMove
  <2>1. UNCHANGED <<next, owned, calls>> /\ \A e \in Daemons :
           sess[e] # "none" => sess'[e] # "none"
    BY <1>5 DEF ResumeMarked, Typed, TypeOK
  <2> QED
    BY <2>1 DEF StopsMove, Keeps, Accepted, Superseded
<1>6. ASSUME NEW d \in Daemons, Spawn(d) PROVE StopsMove
  <2>1. UNCHANGED <<next, owned, calls>> /\ \A e \in Daemons :
           sess[e] # "none" => sess'[e] # "none"
    BY <1>6 DEF Spawn, Typed, TypeOK
  <2> QED
    BY <2>1 DEF StopsMove, Keeps, Accepted, Superseded
<1>7. ASSUME NEW d \in Daemons, StartTurn(d) PROVE StopsMove
  <2>1. UNCHANGED <<next, owned, calls>> /\ \A e \in Daemons :
           sess[e] # "none" => sess'[e] # "none"
    BY <1>7 DEF StartTurn, Typed, TypeOK
  <2> QED
    BY <2>1 DEF StopsMove, Keeps, Accepted, Superseded
<1>8. ASSUME NEW d \in Daemons, EndTurn(d) PROVE StopsMove
  <2>1. UNCHANGED <<next, owned, calls>> /\ \A e \in Daemons :
           sess[e] # "none" => sess'[e] # "none"
    BY <1>8 DEF EndTurn, Typed, TypeOK
  <2> QED
    BY <2>1 DEF StopsMove, Keeps, Accepted, Superseded
<1>9. ASSUME NEW d \in Daemons, Adopt(d) PROVE StopsMove
  <2>1. UNCHANGED <<next, owned, calls>> /\ \A e \in Daemons :
           sess[e] # "none" => sess'[e] # "none"
    BY <1>9 DEF Adopt, Typed, TypeOK
  <2> QED
    BY <2>1 DEF StopsMove, Keeps, Accepted, Superseded
<1>10. ASSUME NEW d \in Daemons, ResumeHanded(d) PROVE StopsMove
  <2>1. UNCHANGED <<next, owned, calls>> /\ \A e \in Daemons :
           sess[e] # "none" => sess'[e] # "none"
    BY <1>10 DEF ResumeHanded, Typed, TypeOK
  <2> QED
    BY <2>1 DEF StopsMove, Keeps, Accepted, Superseded
<1>11. ASSUME NEW d \in Daemons, LaunchSettles(d) PROVE StopsMove
  <2>1. UNCHANGED <<next, owned, calls>> /\ \A e \in Daemons \ {d} : sess'[e] = sess[e]
    BY <1>11 DEF LaunchSettles, Typed, TypeOK
  <2>2. Superseded(d) /\ sess[d] # "none" => owned[d]
    BY <1>11 DEF LaunchSettles, Settled, Owning, Typed, TypeOK, Sess
  <2> QED
    BY <2>1, <2>2 DEF StopsMove, Keeps, Accepted, Superseded
<1>12. ASSUME NEW d \in Daemons, NEW k \in {"close", "forget"},
             EndSession(d, k)
      PROVE  StopsMove
  <2>1. UNCHANGED <<next, owned, calls>> /\ \A e \in Daemons \ {d} : sess'[e] = sess[e]
    BY <1>12 DEF EndSession, Typed, TypeOK
  <2>2. Superseded(d) /\ sess[d] # "none" => owned[d]
    BY <1>12 DEF EndSession, Settled, Owning, Typed, TypeOK, Sess, Handing, Quiet, Plain
  <2> QED
    BY <2>1, <2>2 DEF StopsMove, Keeps, Accepted, Superseded
<1>13. ASSUME NEW d \in Daemons, Scan(d) PROVE StopsMove
  <2>1. Superseded(d) /\ ~\E c \in calls : c.from = d
    BY <1>13, NotWaiting DEF Scan, CallShape, Typed, Watches, Superseded
  <2>2. /\ next' = next
        /\ \A e \in Daemons \ {d} : sess'[e] = sess[e] /\ owned'[e] = owned[e]
        /\ \A c \in calls' : c \in calls \/ (c.from = d /\ c.stage = "sent")
        /\ calls \subseteq calls'
        /\ sess[d] # "none" \/ owned[d]
             => sess'[d] # "none" \/ owned'[d] \/ \E c \in calls' : c.from = d
    <3>1. Call(d, "handoff", "marked").from = d /\ Call(d, "release", reg[d]).from = d
          /\ Call(d, "handoff", "marked").stage = "sent"
               /\ Call(d, "release", reg[d]).stage = "sent"
      BY DEF Call
    <3> QED
      BY <1>13, <3>1 DEF Scan, Typed, TypeOK
  <2>3. ASSUME NEW e \in Daemons, Keeps(e) PROVE Keeps(e)'
    <3>1. Accepted(e)' => Accepted(e)
      BY <2>2 DEF Accepted
    <3>2. (\E b \in calls : b.from = e) => \E b \in calls' : b.from = e
      BY <2>2
    <3>3. sess'[e] # "none" \/ owned'[e] \/ \E b \in calls' : b.from = e
      BY <2>2, <2>3, <3>2 DEF Keeps
    <3> QED
      BY <2>2, <2>3, <3>1, <3>3 DEF Keeps, Superseded
  <2> QED
    BY <2>3 DEF StopsMove
<1>14. ASSUME NEW d \in Daemons, NEW c \in calls, Reported(d, c) PROVE StopsMove
  <2>1. /\ next' = next
        /\ \A e \in Daemons \ {d} : sess'[e] = sess[e] /\ owned'[e] = owned[e]
        /\ calls' = calls \ {c} /\ c.from = d /\ c \in calls
        /\ c.path = << >>
    BY <1>14 DEF Reported, Typed, TypeOK
  <2>2. ~Keeps(d)
    BY <2>1 DEF Relayed, RelayedAt, Keeps, Accepted
  <2>7. ASSUME NEW e \in Daemons \ {d}, Keeps(e) PROVE Keeps(e)'
    BY <2>1, <2>7 DEF Keeps, Superseded, Accepted
  <2> QED
    BY <2>2, <2>7 DEF StopsMove
<1>15. ASSUME NEW d \in Daemons, Merge(d) PROVE StopsMove
  BY <1>15 DEF Merge, Line
<1>16. ASSUME NEW d \in Daemons, Exit(d) PROVE StopsMove
  <2>1. calls' = calls /\ watch[d] = "done"
    BY <1>16, ExitCalls DEF Exit, CallShape
  <2>2. \A e \in Daemons \ {d} :
           sess'[e] = sess[e] /\ owned'[e] = owned[e] /\ next'[e] = next[e]
    BY <1>16 DEF Exit, Gone, Typed, TypeOK
  <2>3. ~Keeps(d)
    BY <2>1, NotWaiting DEF Keeps, Settled, CallShape
  <2>5. \A e \in Daemons \ {d} : Keeps(e) => Keeps(e)'
    BY <2>1, <2>2 DEF Keeps, Accepted, Superseded
  <2> QED
    BY <2>3, <2>5 DEF StopsMove
<1>17. ASSUME NEW d \in Daemons, Crash(d) PROVE StopsMove
  BY <1>17 DEF Plain
<1>18. ASSUME NEW d \in Daemons, LeadFails(d) PROVE StopsMove
  BY <1>18 DEF LeadFails, Line
<1>19. ASSUME NEW c \in calls, Relay(c) PROVE StopsMove
  <2> DEFINE r == [c EXCEPT !.path = Append(c.path, next[Server(c)])]
  <2>1. /\ r.from = c.from /\ r.kind = c.kind /\ r.entry = c.entry
        /\ r.stage = c.stage /\ r.path = Append(c.path, next[Server(c)])
    BY EditFields DEF Typed, TypeOK
  <2>2. calls' = (calls \ {c}) \cup {r}
    BY <1>19 DEF Relay, Replace
  <2> HIDE DEF r
  <2>3. UNCHANGED <<sess, next, owned>> /\ r.stage # "ok"
    BY <1>19, <2>1 DEF Relay
  <2>5. ASSUME NEW e \in Daemons, Keeps(e) PROVE Keeps(e)'
    <3>1. Accepted(e)' => Accepted(e)
      BY <2>1, <2>2, <2>3 DEF Accepted
    <3>2. (\E b \in calls : b.from = e) => \E b \in calls' : b.from = e
      BY <2>1, <2>2
    <3> QED
      BY <2>3, <2>5, <3>1, <3>2 DEF Keeps, Superseded
  <2> QED
    BY <2>5 DEF StopsMove
<1>20. ASSUME NEW c \in calls, Unreachable(c) PROVE StopsMove
  <2> DEFINE r == [c EXCEPT !.stage = "err", !.path = Front(c.path)]
  <2>1. /\ r.from = c.from /\ r.kind = c.kind /\ r.entry = c.entry
        /\ r.stage = "err" /\ r.path = Front(c.path)
    BY EditFields DEF Typed, TypeOK
  <2>2. calls' = (calls \ {c}) \cup {r}
    BY <1>20 DEF Unreachable, Replace
  <2> HIDE DEF r
  <2>3. UNCHANGED <<sess, next, owned>> /\ r.stage # "ok"
    BY <1>20, <2>1 DEF Unreachable
  <2>5. ASSUME NEW e \in Daemons, Keeps(e) PROVE Keeps(e)'
    <3>1. Accepted(e)' => Accepted(e)
      BY <2>1, <2>2, <2>3 DEF Accepted
    <3>2. (\E b \in calls : b.from = e) => \E b \in calls' : b.from = e
      BY <2>1, <2>2
    <3> QED
      BY <2>3, <2>5, <3>1, <3>2 DEF Keeps, Superseded
  <2> QED
    BY <2>5 DEF StopsMove
<1>21. ASSUME NEW c \in calls, ClaimHandoff(c) PROVE StopsMove
  <2> DEFINE r == [c EXCEPT !.stage = "claimed"]
  <2>1. /\ r.from = c.from /\ r.kind = c.kind /\ r.entry = c.entry
        /\ r.stage = "claimed" /\ r.path = c.path
    BY EditFields DEF Typed, TypeOK
  <2>2. calls' = (calls \ {c}) \cup {r}
    BY <1>21 DEF ClaimHandoff, Replace
  <2> HIDE DEF r
  <2>3. UNCHANGED <<sess, next, owned>> /\ r.stage # "ok"
    BY <1>21, <2>1 DEF ClaimHandoff
  <2>5. ASSUME NEW e \in Daemons, Keeps(e) PROVE Keeps(e)'
    <3>1. Accepted(e)' => Accepted(e)
      BY <2>1, <2>2, <2>3 DEF Accepted
    <3>2. (\E b \in calls : b.from = e) => \E b \in calls' : b.from = e
      BY <2>1, <2>2
    <3> QED
      BY <2>3, <2>5, <3>1, <3>2 DEF Keeps, Superseded
  <2> QED
    BY <2>5 DEF StopsMove
<1>22. ASSUME NEW c \in calls, AcceptHandoff(c) PROVE StopsMove
  <2> DEFINE r == [c EXCEPT !.stage = "ok"]
  <2>1. /\ r.from = c.from /\ r.kind = c.kind /\ r.entry = c.entry
        /\ r.stage = "ok" /\ r.path = c.path
    BY EditFields DEF Typed, TypeOK
  <2>2. calls' = (calls \ {c}) \cup {r}
    BY <1>22 DEF AcceptHandoff, Replace
  <2> HIDE DEF r
  <2>3. UNCHANGED <<sess, next, owned>>
    BY <1>22 DEF AcceptHandoff
  <2>4. AcceptFrom(c.from)
    BY <1>22 DEF AcceptFrom
  <2>5. ASSUME NEW e \in Daemons \ {c.from}, Keeps(e) PROVE Keeps(e)'
    <3>1. Accepted(e)' => Accepted(e)
      BY <2>1, <2>2, <2>5 DEF Accepted
    <3>2. (\E b \in calls : b.from = e) => \E b \in calls' : b.from = e
      BY <2>2, <2>5
    <3> QED
      BY <2>3, <2>5, <3>1, <3>2 DEF Keeps, Superseded
  <2> QED
    BY <2>4, <2>5 DEF StopsMove
<1>23. ASSUME NEW c \in calls, AcceptRelease(c) PROVE StopsMove
  <2> DEFINE r == [c EXCEPT !.stage = "ok"]
  <2>1. /\ r.from = c.from /\ r.kind = c.kind /\ r.entry = c.entry
        /\ r.stage = "ok" /\ r.path = c.path
    BY EditFields DEF Typed, TypeOK
  <2>2. calls' = (calls \ {c}) \cup {r}
    BY <1>23 DEF AcceptRelease, Replace
  <2> HIDE DEF r
  <2>3. UNCHANGED <<sess, next, owned>>
    BY <1>23 DEF AcceptRelease
  <2>4. AcceptFrom(c.from)
    BY <1>23 DEF AcceptFrom
  <2>5. ASSUME NEW e \in Daemons \ {c.from}, Keeps(e) PROVE Keeps(e)'
    <3>1. Accepted(e)' => Accepted(e)
      BY <2>1, <2>2, <2>5 DEF Accepted
    <3>2. (\E b \in calls : b.from = e) => \E b \in calls' : b.from = e
      BY <2>2, <2>5
    <3> QED
      BY <2>3, <2>5, <3>1, <3>2 DEF Keeps, Superseded
  <2> QED
    BY <2>4, <2>5 DEF StopsMove
<1>24. ASSUME NEW c \in calls, Answer(c) PROVE StopsMove
  <2> DEFINE r == [c EXCEPT !.path = Front(c.path)]
  <2>1. /\ r.from = c.from /\ r.kind = c.kind /\ r.entry = c.entry
        /\ r.stage = c.stage /\ r.path = Front(c.path)
    BY EditFields DEF Typed, TypeOK
  <2>2. /\ calls' = (calls \ {c}) \cup {r} \/ (calls' = calls \ {c} /\ c.from = None)
        /\ c.path # << >> /\ c.stage \in {"ok", "err"}
    BY <1>24 DEF Answer, Replace
  <2> HIDE DEF r
  <2>3. UNCHANGED <<sess, next, owned>> /\ c.stage = "ok"
    BY <1>24, <2>2 DEF Answer, Relayed, RelayedAt
  <2>4. c.from # None
    BY MakerWaits, DaemonsAssumption DEF CallShape
  <2>5. ASSUME NEW e \in Daemons, Keeps(e) PROVE Keeps(e)'
    <3>0. e # c.from
      BY <2>3, <2>5 DEF Keeps, Accepted
    <3>1. Accepted(e)' => Accepted(e)
      BY <2>1, <2>2, <2>4, <3>0 DEF Accepted
    <3>2. (\E b \in calls : b.from = e) => \E b \in calls' : b.from = e
      BY <2>2, <2>4, <3>0
    <3> QED
      BY <2>3, <2>5, <3>1, <3>2 DEF Keeps, Superseded
  <2> QED
    BY <2>5 DEF StopsMove
<1> QED
  BY <1>1, <1>2, <1>3, <1>4, <1>5, <1>6, <1>7, <1>8, <1>9, <1>10, <1>11, <1>12, <1>13,
     <1>14, <1>15, <1>16, <1>17, <1>18, <1>19, <1>20, <1>21, <1>22, <1>23, <1>24 DEF
     Next, Caller, Start, Work, Watcher, Again, Peer, Client

\* Nobody reports to, or ends under, a takeover.
LEMMA TakeoverAlone ==
    ASSUME Typed, NEW d \in Daemons, Takeover(d), NEW e \in Daemons
    PROVE  ~AcceptFrom(e)
<1>1. claim' # claim
  BY DEF Takeover
<1> QED
  BY <1>1 DEF AcceptFrom, AcceptHandoff, AcceptRelease, procVars

\* What an accepted report leaves of the forward to its maker.
LEMMA AcceptDrops ==
    ASSUME Typed, Line, Outside, Resuming, CallShape, Kept, NEW e \in Daemons, AcceptFrom(e)
    PROVE  \E n \in Daemons : /\ claim = n /\ \A b \in Daemons : ~Forwards(n, b)'
                              /\ \A b \in Daemons : Keeps(b) => b = e
<1>1. PICK c \in calls : c.from = e /\ (AcceptHandoff(c) \/ AcceptRelease(c))
  BY DEF AcceptFrom
<1> DEFINE s == Server(c)
<1>2. /\ s \in Daemons /\ phase[s] = "serving" /\ claim = s
      /\ \A b \in Daemons : Keeps(b) => b = e
  BY <1>1, ReceivedAt
<1>3. foreign' = [foreign EXCEPT ![s] = None] /\ report' = report
  BY <1>1 DEF AcceptHandoff, AcceptRelease, wireVars
<1> HIDE DEF s
<1>4. report[s] = NoReport /\ foreign'[s] = None
  BY <1>2, <1>3 DEF Outside, Typed, TypeOK
<1>5. \A b \in Daemons : ~Forwards(s, b)'
  BY <1>3, <1>4, DaemonsAssumption DEF Forwards, NoReport
<1> QED
  BY <1>2, <1>5

\* The daemon that took over is superseded by nobody, and the newest.
LEMMA TakeoverNewest ==
    ASSUME Typed, Typed', Line, Line', NEW d \in Daemons, Takeover(d)
    PROVE  Newest(d)' /\ ~Superseded(d)' /\ phase[d] = "calling"
<1>1. phase'[d] = "reported" /\ phase[d] = "calling"
  BY DEF Takeover, Typed, TypeOK
<1> QED
  BY <1>1 DEF Newest, Line

\* An exited process stays so.
LEMMA ExitedStays ==
    ASSUME Typed, [Next]_vars
    PROVE  \A o \in Daemons : phase[o] = "exited" => phase'[o] = "exited"
<1> USE DEF procVars, regVars, sessVars, handVars, wakeVars, wireVars, histVars
<1>1. ASSUME NEW d \in Daemons,
             Spawn(d) \/ StartTurn(d) \/ EndTurn(d) \/ Adopt(d) \/ ResumeHanded(d) \/
                Ended(d) \/ OtherProgress(d) \/ Scan(d) \/ Check(d) \/ ClientCall(d)
      PROVE  \A o \in Daemons : phase[o] = "exited" => phase'[o] = "exited"
  <2>1. UNCHANGED <<phase>>
    BY <1>1 DEF Spawn, Notify, UpdateRegistry, StartTurn, EndTurn, Adopt,
       ResumeHanded, Ended, OtherProgress, Scan, Check, ClientCall
  <2> QED
    BY <2>1
<1>2. ASSUME NEW c \in calls,
             Relay(c) \/ Unreachable(c) \/ ClaimHandoff(c) \/ AcceptHandoff(c) \/
                AcceptRelease(c) \/ Answer(c)
      PROVE  \A o \in Daemons : phase[o] = "exited" => phase'[o] = "exited"
  <2>1. UNCHANGED <<phase>>
    BY <1>2 DEF Relay, Replace, Unreachable, ClaimHandoff, AcceptHandoff,
       UpdateRegistry, AcceptRelease, Answer, Notify
  <2> QED
    BY <2>1
<1>3. ASSUME NEW d \in Daemons, NEW k \in {"close", "forget"},
             EndSession(d, k)
      PROVE  \A o \in Daemons : phase[o] = "exited" => phase'[o] = "exited"
  <2>1. UNCHANGED <<phase>>
    BY <1>3 DEF EndSession, Notify
  <2> QED
    BY <2>1
<1>4. ASSUME NEW d \in Daemons, NEW c \in calls,
             Reported(d, c)
      PROVE  \A o \in Daemons : phase[o] = "exited" => phase'[o] = "exited"
  <2>1. UNCHANGED <<phase>>
    BY <1>4 DEF Reported, Notify
  <2> QED
    BY <2>1
<1>5. CASE Dispatch \/ Connect \/ Forwarded
  <2>1. UNCHANGED <<phase>>
    BY <1>5 DEF Dispatch, Returns, Connect, Goes, Forwarded
  <2> QED
    BY <2>1
<1>6. CASE UNCHANGED vars
  <2>1. UNCHANGED <<phase>>
    BY <1>6 DEF vars
  <2> QED
    BY <2>1
<1>7. ASSUME NEW d \in Daemons,
             LoadRegistry(d)
      PROVE  \A o \in Daemons : phase[o] = "exited" => phase'[o] = "exited"
  BY <1>7 DEF Typed, TypeOK, Watches, LoadRegistry
<1>8. ASSUME NEW d \in Daemons,
             Run(d)
      PROVE  \A o \in Daemons : phase[o] = "exited" => phase'[o] = "exited"
  BY <1>8 DEF Typed, TypeOK, Watches, Run
<1>9. ASSUME NEW d \in Daemons,
             OpenClaim(d)
      PROVE  \A o \in Daemons : phase[o] = "exited" => phase'[o] = "exited"
  BY <1>9 DEF Typed, TypeOK, Watches, OpenClaim, Lead
<1>10. ASSUME NEW d \in Daemons,
             Takeover(d)
      PROVE  \A o \in Daemons : phase[o] = "exited" => phase'[o] = "exited"
  <2>1. phase' = [phase EXCEPT ![d] = "reported"] /\ phase[d] = "calling"
    BY <1>10 DEF Takeover
  <2> QED
    BY <2>1 DEF Typed, TypeOK
<1>11. ASSUME NEW d \in Daemons,
             Supersede(d)
      PROVE  \A o \in Daemons : phase[o] = "exited" => phase'[o] = "exited"
  BY <1>11 DEF Typed, TypeOK, Watches, Supersede, Lead, UpdateRegistry
<1>12. ASSUME NEW d \in Daemons,
             ResumeMarked(d)
      PROVE  \A o \in Daemons : phase[o] = "exited" => phase'[o] = "exited"
  BY <1>12 DEF Typed, TypeOK, Watches, ResumeMarked
<1>13. ASSUME NEW d \in Daemons,
             LaunchSettles(d)
      PROVE  \A o \in Daemons : phase[o] = "exited" => phase'[o] = "exited"
  <2>1. phase' = [phase EXCEPT ![d] = IF @ = "load" THEN "serving" ELSE @]
    BY <1>13 DEF LaunchSettles
  <2> QED
    BY <2>1 DEF Typed, TypeOK
<1>14. ASSUME NEW d \in Daemons,
             Watch(d)
      PROVE  \A o \in Daemons : phase[o] = "exited" => phase'[o] = "exited"
  BY <1>14 DEF Typed, TypeOK, Watches, Watch
<1>15. ASSUME NEW d \in Daemons,
             Reclaim(d)
      PROVE  \A o \in Daemons : phase[o] = "exited" => phase'[o] = "exited"
  BY <1>15 DEF Typed, TypeOK, Watches, Reclaim
<1>16. ASSUME NEW d \in Daemons,
             Merge(d)
      PROVE  \A o \in Daemons : phase[o] = "exited" => phase'[o] = "exited"
  BY <1>16 DEF Typed, TypeOK, Watches, Merge
<1>17. ASSUME NEW d \in Daemons,
             Exit(d)
      PROVE  \A o \in Daemons : phase[o] = "exited" => phase'[o] = "exited"
  BY <1>17 DEF Typed, TypeOK, Watches, Exit, Gone
<1>18. ASSUME NEW d \in Daemons,
             Crash(d)
      PROVE  \A o \in Daemons : phase[o] = "exited" => phase'[o] = "exited"
  BY <1>18 DEF Typed, TypeOK, Watches, Crash, Gone
<1>19. ASSUME NEW d \in Daemons,
             LeadFails(d)
      PROVE  \A o \in Daemons : phase[o] = "exited" => phase'[o] = "exited"
  BY <1>19 DEF Typed, TypeOK, Watches, LeadFails, Gone
<1> QED
  BY <1>1, <1>2, <1>3, <1>4, <1>5, <1>6, <1>7, <1>8, <1>9, <1>10, <1>11, <1>12, <1>13,
     <1>14, <1>15, <1>16, <1>17, <1>18, <1>19 DEF Next, Caller, Start, Work, Watcher,
     Again, Peer, Client

\* Whom the newest daemon forwards to, after a step.
LEMMA BackNext ==
    ASSUME Plain, Typed, Typed', Line, Line', Outside, Outside', CallShape,
       CallShape', Handing, Resuming, Kept, Kept', Forwarding, Entered, Unborn, Chain,
       Relayed, Settled, Back, Behind, [Next]_vars
    PROVE  Back'
<1>1. StoodMoves /\ ForwardsMove /\ StopsMove
  BY StoodNext, ForwardsNext, StopsNext
<1>2. ASSUME NEW n \in Daemons, NEW e \in Daemons, Newest(n)', Forwards(n, e)'
      PROVE  Keeps(e)'
  <2>1. CASE Takeover(n)
    <3>1. PICK p \in Daemons : p = claim
      BY <2>1 DEF Takeover, Typed, TypeOK
    <3>2. /\ next' = [next EXCEPT ![p] = n] /\ report' = [report EXCEPT ![n] = Partition(p)]
          /\ sess' = [sess EXCEPT ![p] = IF Handed(p) THEN "none" ELSE @]
          /\ UNCHANGED <<calls, foreign>> /\ phase[n] = "calling"
      BY <2>1, <3>1 DEF Takeover
    <3>3. report'[n] = Partition(p) /\ foreign'[n] = None
      BY <3>2 DEF Typed, TypeOK, Outside
    <3>4. Partition(p).kind = "kept" /\ Partition(p).owner = e
      BY <1>2, <3>3, DaemonsAssumption DEF Forwards
    <3>5. foreign[p] = e \/ (e = p /\ sess[p] # "none" /\ ~Handed(p))
      BY <3>4 DEF Partition, NoReport
    <3>6. CASE foreign[p] = e
      <4>1. Keeps(e)
        BY <3>1, <3>6 DEF Back, Newest, Forwards
      <4> QED
        BY <1>1, <2>1, <4>1, TakeoverAlone DEF StopsMove
    <3>7. CASE e = p /\ sess[p] # "none" /\ ~Handed(p)
      <4>1. ~\E c \in calls : c.from = p
        BY <3>1, MakerWaits DEF Line, CallShape
      <4>2. next'[p] = n /\ sess'[p] = sess[p]
        BY <3>2, <3>7 DEF Typed, TypeOK
      <4>3. ~\E c \in calls' : c.from = p
        BY <3>2, <4>1
      <4> QED
        BY <3>7, <4>2, <4>3, DaemonsAssumption DEF Keeps, Accepted, Superseded
    <3> QED
      BY <3>5, <3>6, <3>7
  <2>2. CASE ~Takeover(n)
    <3>1. Newest(n) /\ Forwards(n, e)
      BY <1>1, <1>2, <2>2 DEF StoodMoves, ForwardsMove
    <3>2. Keeps(e)
      BY <3>1 DEF Back
    <3>3. ~AcceptFrom(e)
      <4>1. ASSUME AcceptFrom(e) PROVE FALSE
        <5>1. PICK m \in Daemons : claim = m /\ \A b \in Daemons : ~Forwards(m, b)'
          BY <4>1, AcceptDrops
        <5>2. m = n
          BY <3>1, <5>1, DaemonsAssumption DEF Newest, Line
        <5> QED
          BY <1>2, <5>1, <5>2
      <4> QED
        BY <4>1
    <3> QED
      BY <1>1, <3>2, <3>3 DEF StopsMove
  <2> QED
    BY <2>1, <2>2
<1> QED
  BY <1>2 DEF Back

\* The chain of forwards to whoever keeps the session, after a step.
LEMMA ChainNext ==
    ASSUME Plain, Typed, Typed', Line, Line', Outside, Outside', CallShape,
       CallShape', Handing, Resuming, Kept, Kept', Forwarding, Entered, Unborn, Chain,
       Relayed, Settled, Back, Behind, [Next]_vars
    PROVE  Chain'
<1>1. StoodMoves /\ ForwardsMove /\ StopsMove /\ NoNewKeeper
  BY StoodNext, ForwardsNext, StopsNext, KeepersNext
<1>2. ASSUME NEW n \in Daemons, NEW e \in Daemons, Superseded(n)', ~Superseded(n), Keeps(e)'
      PROVE  Forwards(next[n], e)'
  <2>1. PICK x \in Daemons : Takeover(x) /\ next'[n] = x
    BY <1>1, <1>2 DEF StoodMoves
  <2>2. Newest(x)'
    BY <2>1, TakeoverNewest
  <2>3. Forwards(x, e)'
    BY <1>2, <2>2 DEF Kept
  <2> QED
    BY <2>1, <2>3 DEF Forwards
<1>3. ASSUME NEW n \in Daemons, NEW e \in Daemons, Superseded(n)', Superseded(n),
                Keeps(e), Keeps(e)',
             Forwards(next[n], e)
      PROVE  Forwards(next[n], e)'
  <2>1. next'[n] = next[n]
    <3>1. ~Exit(n)
      BY <1>3 DEF Exit, Gone, Superseded, Typed, TypeOK
    <3> QED
      BY <1>1, <1>3, <3>1 DEF StoodMoves
  <2>2. PICK x \in Daemons : x = next[n]
    BY <1>3 DEF Superseded, Typed, TypeOK
  <2>3. ~AcceptFrom(e)
    <3>1. ASSUME NEW c \in calls, c.from = e, AcceptHandoff(c) \/ AcceptRelease(c)
          PROVE Accepted(e)'
      <4>1. c \in Calls /\ calls' = (calls \ {c}) \cup {[c EXCEPT !.stage = "ok"]}
        BY <3>1 DEF AcceptHandoff, AcceptRelease, Replace, Typed, TypeOK
      <4>2. [c EXCEPT !.stage = "ok"].from = e /\ [c EXCEPT !.stage = "ok"].stage = "ok"
        BY <3>1, <4>1, EditFields
      <4> QED
        BY <4>1, <4>2 DEF Accepted
    <3> QED
      BY <1>3, <3>1 DEF AcceptFrom, Keeps
  <2>4. Forwards(x, e)'
    BY <1>1, <1>3, <2>2, <2>3 DEF ForwardsMove
  <2> QED
    BY <2>1, <2>2, <2>4 DEF Forwards
<1>4. ASSUME NEW n \in Daemons, NEW e \in Daemons, Keeps(e)', Forwards(n, e)',
                Superseded(n)'
      PROVE  Forwards(n, e) /\ (Superseded(n) => Keeps(e))
  <2>1. Forwards(n, e)
    BY <1>1, <1>4, TakeoverNewest DEF ForwardsMove
  <2>2. ASSUME ~Keeps(e), Superseded(n) PROVE FALSE
    <3>1. claim = e /\ ~Superseded(e) /\ phase[e] # "exited" /\ phase[n] = "serving"
      BY <1>1, <1>4, <2>2, DaemonsAssumption DEF NoNewKeeper, Line
    <3>2. foreign[n] = e
      BY <2>1, <3>1 DEF Forwards, Outside, NoReport
    <3> QED
      BY <3>1, <3>2, DaemonsAssumption DEF Behind, Older
  <2> QED
    BY <2>1, <2>2
<1>5. ASSUME NEW e \in Daemons, Keeps(e)' PROVE Forwards(next[e], e)'
  <2>1. Superseded(e)'
    BY <1>5 DEF Keeps
  <2>2. CASE Superseded(e)
    <3>1. Keeps(e)
      BY <1>1, <1>5, <2>2 DEF NoNewKeeper, Line
    <3>2. Forwards(next[e], e)
      BY <3>1 DEF Chain
    <3> QED
      BY <1>3, <1>5, <2>1, <2>2, <3>1, <3>2
  <2>3. CASE ~Superseded(e)
    BY <1>2, <1>5, <2>1, <2>3
  <2> QED
    BY <2>2, <2>3
<1>6. ASSUME NEW e \in Daemons, Keeps(e)', NEW n \in Daemons, Forwards(n, e)',
                Superseded(n)'
      PROVE  Forwards(next[n], e)'
  <2>1. CASE Superseded(n)
    <3>1. Keeps(e) /\ Forwards(n, e)
      BY <1>4, <1>6, <2>1
    <3>2. Forwards(next[n], e)
      BY <2>1, <3>1 DEF Chain
    <3> QED
      BY <1>3, <1>6, <2>1, <3>1, <3>2
  <2>2. CASE ~Superseded(n)
    BY <1>2, <1>6, <2>2
  <2> QED
    BY <2>1, <2>2
<1> QED
  BY <1>5, <1>6 DEF Chain

\* A watcher comes to wait with nothing of its own by a check that found it
\* forwards.
IdleMoves ==
    \A d \in Daemons : watch'[d] = "idle" /\ sess'[d] = "none" /\ ~owned'[d] =>
        /\ sess[d] = "none" /\ ~owned[d] /\ (watch[d] = "idle" \/ foreign[d] # None)
        /\ watch[d] \in {"idle", "check"}

\* How a watcher comes to wait with nothing of its own.
LEMMA IdleNext ==
    ASSUME Plain, Typed, Typed', Line, Line', Outside, Outside', CallShape,
       CallShape', Handing, Resuming, Kept, Kept', Forwarding, Entered, Unborn, Chain,
       Relayed, Settled, Back, Behind, [Next]_vars
    PROVE  IdleMoves
<1> USE DEF procVars, regVars, sessVars, handVars, wakeVars, wireVars, histVars
<1>1. ASSUME NEW d \in Daemons,
             LoadRegistry(d) \/ Run(d) \/ Ended(d) \/ OtherProgress(d) \/ Reclaim(d)
                \/ ClientCall(d)
      PROVE  IdleMoves
  <2>1. UNCHANGED <<sess, watch, owned>>
    BY <1>1 DEF LoadRegistry, Run, Ended, Notify, UpdateRegistry, OtherProgress,
       Reclaim, ClientCall
  <2> QED
    BY <2>1 DEF IdleMoves
<1>2. ASSUME NEW c \in calls,
             Relay(c) \/ Unreachable(c) \/ ClaimHandoff(c) \/ AcceptHandoff(c) \/
                AcceptRelease(c) \/ Answer(c)
      PROVE  IdleMoves
  <2>1. UNCHANGED <<sess, watch, owned>>
    BY <1>2 DEF Relay, Replace, Unreachable, ClaimHandoff, AcceptHandoff,
       UpdateRegistry, AcceptRelease, Answer, Notify
  <2> QED
    BY <2>1 DEF IdleMoves
<1>3. CASE Dispatch \/ Connect \/ Forwarded
  <2>1. UNCHANGED <<sess, watch, owned>>
    BY <1>3 DEF Dispatch, Returns, Connect, Goes, Forwarded
  <2> QED
    BY <2>1 DEF IdleMoves
<1>4. CASE UNCHANGED vars
  <2>1. UNCHANGED <<sess, watch, owned>>
    BY <1>4 DEF vars
  <2> QED
    BY <2>1 DEF IdleMoves
<1>5. ASSUME NEW d \in Daemons, OpenClaim(d) PROVE IdleMoves
  BY <1>5, DaemonsAssumption DEF Typed, TypeOK, IdleMoves, OpenClaim, Lead
<1>6. ASSUME NEW d \in Daemons, Takeover(d) PROVE IdleMoves
  <2>1. PICK p \in Daemons : p = claim
    BY <1>6 DEF Takeover, Typed, TypeOK
  <2>2. /\ watch'[p] = "scan" /\ \A e \in Daemons \ {p} :
             sess'[e] = sess[e] /\ owned'[e] = owned[e] /\ watch'[e] = watch[e]
    BY <1>6, <2>1 DEF Takeover, Typed, TypeOK
  <2> QED
    BY <2>2 DEF IdleMoves
<1>7. ASSUME NEW d \in Daemons, Supersede(d) PROVE IdleMoves
  BY <1>7, DaemonsAssumption DEF Typed, TypeOK, IdleMoves, Supersede, Lead,
     UpdateRegistry
<1>8. ASSUME NEW d \in Daemons, ResumeMarked(d) PROVE IdleMoves
  BY <1>8, DaemonsAssumption DEF Typed, TypeOK, IdleMoves, ResumeMarked
<1>9. ASSUME NEW d \in Daemons, Spawn(d) PROVE IdleMoves
  BY <1>9, DaemonsAssumption DEF Typed, TypeOK, IdleMoves, Spawn, Notify,
     UpdateRegistry
<1>10. ASSUME NEW d \in Daemons, StartTurn(d) PROVE IdleMoves
  BY <1>10, DaemonsAssumption DEF Typed, TypeOK, IdleMoves, StartTurn, Notify
<1>11. ASSUME NEW d \in Daemons, EndTurn(d) PROVE IdleMoves
  BY <1>11, DaemonsAssumption DEF Typed, TypeOK, IdleMoves, EndTurn, Notify
<1>12. ASSUME NEW d \in Daemons, Adopt(d) PROVE IdleMoves
  BY <1>12, DaemonsAssumption DEF Typed, TypeOK, IdleMoves, Adopt
<1>13. ASSUME NEW d \in Daemons, ResumeHanded(d) PROVE IdleMoves
  BY <1>13, DaemonsAssumption DEF Typed, TypeOK, IdleMoves, ResumeHanded, Notify
<1>14. ASSUME NEW d \in Daemons, LaunchSettles(d) PROVE IdleMoves
  BY <1>14, DaemonsAssumption DEF Typed, TypeOK, IdleMoves, LaunchSettles, Notify,
     UpdateRegistry, Settled, Owning, Watches, Superseded
<1>15. ASSUME NEW d \in Daemons, NEW k \in {"close", "forget"},
             EndSession(d, k)
      PROVE  IdleMoves
  BY <1>15, DaemonsAssumption DEF Typed, TypeOK, IdleMoves, EndSession, Notify,
     Settled, Owning, Handing, Watches, Sess, Superseded
<1>16. ASSUME NEW d \in Daemons, Scan(d) PROVE IdleMoves
  BY <1>16, DaemonsAssumption DEF Typed, TypeOK, IdleMoves, Scan
<1>17. ASSUME NEW d \in Daemons, NEW c \in calls, Reported(d, c) PROVE IdleMoves
  BY <1>17, DaemonsAssumption DEF Typed, TypeOK, IdleMoves, Reported, Notify
<1>18. ASSUME NEW d \in Daemons, Check(d) PROVE IdleMoves
  BY <1>18, DaemonsAssumption DEF Typed, TypeOK, IdleMoves, Check, Done
<1>19. ASSUME NEW d \in Daemons, Watch(d) PROVE IdleMoves
  BY <1>19, DaemonsAssumption DEF Typed, TypeOK, IdleMoves, Watch
<1>20. ASSUME NEW d \in Daemons, Merge(d) PROVE IdleMoves
  BY <1>20 DEF Merge, Line
<1>21. ASSUME NEW d \in Daemons, Exit(d) PROVE IdleMoves
  BY <1>21, DaemonsAssumption DEF Typed, TypeOK, IdleMoves, Exit, Gone
<1>22. ASSUME NEW d \in Daemons, Crash(d) PROVE IdleMoves
  BY <1>22 DEF Plain
<1>23. ASSUME NEW d \in Daemons, LeadFails(d) PROVE IdleMoves
  BY <1>23 DEF LeadFails, Line
<1> QED
  BY <1>1, <1>2, <1>3, <1>4, <1>5, <1>6, <1>7, <1>8, <1>9, <1>10, <1>11, <1>12, <1>13,
     <1>14, <1>15, <1>16, <1>17, <1>18, <1>19, <1>20, <1>21, <1>22, <1>23 DEF Next,
     Caller, Start, Work, Watcher, Again, Peer, Client

\* What a daemon forwards to stays older, after a step.
LEMMA BehindNext ==
    ASSUME Plain, Typed, Typed', Line, Line', Outside, Outside', CallShape,
       CallShape', Handing, Resuming, Kept, Kept', Forwarding, Entered, Unborn, Chain,
       Relayed, Settled, Back, Behind, [Next]_vars
    PROVE  Behind'
<1>1. StoodMoves /\ ForwardsMove /\ IdleMoves
  BY StoodNext, ForwardsNext, IdleNext
<1>2. ASSUME NEW o \in Daemons, Older(o) PROVE Older(o)'
  <2>1. CASE phase[o] = "exited"
    BY <2>1, ExitedStays DEF Older
  <2>2. CASE Superseded(o)
    <3>1. Exit(o) => phase'[o] = "exited"
      BY DEF Exit, Gone, Typed, TypeOK
    <3> QED
      BY <1>1, <2>2, <3>1 DEF StoodMoves, Older, Superseded
  <2> QED
    BY <1>2, <2>1, <2>2 DEF Older
<1>3. ASSUME NEW d \in Daemons, foreign'[d] # None
      PROVE  foreign'[d] # d /\ foreign'[d] # next'[d] /\ Older(foreign[d])'
  <2>1. PICK o \in Daemons : foreign'[d] = o
    BY <1>3 DEF Typed, TypeOK
  <2>2. o # d
    BY <2>1 DEF Outside
  <2>3. CASE foreign[d] = o
    <3>1. Older(o) /\ o # next[d]
      BY <2>3, DaemonsAssumption DEF Behind
    <3>2. o # next'[d]
      <4>1. CASE Superseded(d)
        <5>1. ~Exit(d)
          BY <1>3 DEF Exit, Gone, Typed, TypeOK
        <5> QED
          BY <1>1, <3>1, <4>1, <5>1 DEF StoodMoves
      <4>2. CASE ~Superseded(d) /\ Superseded(d)'
        <5>1. PICK x \in Daemons : Takeover(x) /\ next'[d] = x
          BY <1>1, <4>2 DEF StoodMoves
        <5>2. phase[x] = "calling"
          BY <5>1 DEF Takeover
        <5> QED
          BY <2>3, <5>1, <5>2 DEF Outside
      <4>3. CASE ~Superseded(d)'
        BY <4>3, DaemonsAssumption DEF Superseded
      <4> QED
        BY <4>1, <4>2, <4>3
    <3>3. Older(o)'
      BY <1>2, <3>1
    <3> QED
      BY <2>1, <2>2, <3>2, <3>3 DEF Older, Superseded
  <2>4. CASE foreign[d] # o
    <3>1. phase[d] # "serving" /\ Forwards(d, o)'
      BY <1>1, <2>1, <2>4, DaemonsAssumption DEF ForwardsMove, Forwards
    <3>2. Takeover(d) => foreign' = foreign
      BY DEF Takeover
    <3>3. Forwards(d, o)
      BY <1>1, <2>1, <2>4, <3>1, <3>2 DEF ForwardsMove
    <3>4. phase[d] = "reported"
      BY <2>4, <3>3 DEF Forwards, Outside, NoReport
    <3>5. Superseded(o)
      BY <3>3, <3>4 DEF Back, Newest, Keeps
    <3>6. ~Superseded(d)'
      BY <1>1, <3>4, DaemonsAssumption DEF StoodMoves, Line
    <3>7. Older(o)'
      BY <1>2, <3>5 DEF Older
    <3> QED
      BY <2>1, <2>2, <3>6, <3>7, DaemonsAssumption DEF Older, Superseded
  <2> QED
    BY <2>3, <2>4
<1>4. ASSUME NEW d \in Daemons, watch'[d] = "idle", sess'[d] = "none", ~owned'[d]
      PROVE  \E o \in Daemons : o # d /\ o # next'[d] /\ Older(o)'
  <2>1. /\ sess[d] = "none" /\ ~owned[d] /\ (watch[d] = "idle" \/ foreign[d] # None)
        /\ watch[d] \in {"idle", "check"}
    BY <1>1, <1>4 DEF IdleMoves
  <2>2. PICK o \in Daemons : o # d /\ o # next[d] /\ Older(o)
    <3>1. CASE watch[d] = "idle"
      BY <2>1, <3>1 DEF Behind
    <3>2. CASE foreign[d] # None
      BY <3>2 DEF Behind, Typed, TypeOK
    <3> QED
      BY <2>1, <3>1, <3>2
  <2>3. Superseded(d) /\ Superseded(d)'
    BY <1>4, <2>1 DEF Typed, Watches, Superseded
  <2>4. ~Exit(d)
    BY <2>3 DEF Exit, Gone, Superseded, Typed, TypeOK
  <2> QED
    BY <1>1, <1>2, <2>2, <2>3, <2>4 DEF StoodMoves
<1> QED
  BY <1>3, <1>4 DEF Behind

\* A call that is not touched is relayed as before.
LEMMA RelayedStays ==
    ASSUME Plain, Typed, Typed', Line, Line', Outside, Outside', CallShape,
       CallShape', Handing, Resuming, Kept, Kept', Forwarding, Entered, Unborn, Chain,
       Relayed, Settled, Back, Behind, [Next]_vars,
           NEW c \in calls, c \in calls'
    PROVE  RelayedAt(c)'
<1>1. ForwardsMove
  BY ForwardsNext
<1>2. /\ c \in Calls /\ c.from \in Daemons /\ Len(c.path) \in Nat
      /\ \A k \in 1..Len(c.path) : c.path[k] \in Daemons
  BY PathIn DEF CallShape
<1>3. ASSUME NEW i \in 1..Len(c.path), c.stage # "ok" PROVE Forwards(c.path[i], c.from)'
  <2>1. Keeps(c.from)
    BY <1>3, MakerKeeps DEF CallShape
  <2>2. Forwards(c.path[i], c.from)
    BY <1>3 DEF Relayed, RelayedAt
  <2>3. ~AcceptFrom(c.from)
    <3>1. ASSUME NEW b \in calls, b.from = c.from, AcceptHandoff(b) \/ AcceptRelease(b)
          PROVE FALSE
      <4>1. b = c
        BY <3>1, MakerWaits DEF CallShape
      <4>2. calls' = (calls \ {c}) \cup {[c EXCEPT !.stage = "ok"]}
        BY <3>1, <4>1 DEF AcceptHandoff, AcceptRelease, Replace
      <4>3. [c EXCEPT !.stage = "ok"].stage = "ok"
        BY <1>2, EditFields
      <4> QED
        BY <1>3, <4>2, <4>3
    <3> QED
      BY <3>1 DEF AcceptFrom
  <2>4. PICK x \in Daemons : x = c.path[i]
    BY <1>2
  <2>5. PICK e \in Daemons : e = c.from
    BY <1>2
  <2>6. Forwards(x, e)'
    BY <1>1, <2>1, <2>2, <2>3, <2>4, <2>5 DEF ForwardsMove
  <2> QED
    BY <2>4, <2>5, <2>6
<1>4. ASSUME NEW i \in 1..Len(c.path), i < Len(c.path)
      PROVE foreign'[c.path[i]] \in {c.from, None}
  <2>1. phase[c.path[i]] = "serving" /\ c.path[i] \in Daemons
    BY <1>2, <1>4 DEF CallShape, CallPath, Line
  <2>2. foreign[c.path[i]] \in {c.from, None}
    BY <1>4 DEF Relayed, RelayedAt
  <2> QED
    BY <1>1, <2>1, <2>2 DEF ForwardsMove
<1> QED
  BY <1>3, <1>4 DEF Relayed, RelayedAt

\* The servers of a call, after a step.
LEMMA RelayedNext ==
    ASSUME Plain, Typed, Typed', Line, Line', Outside, Outside', CallShape,
       CallShape', Handing, Resuming, Kept, Kept', Forwarding, Entered, Unborn, Chain,
       Relayed, Settled, Back, Behind, [Next]_vars
    PROVE  Relayed'
<1> USE DEF procVars, regVars, sessVars, handVars, wakeVars, wireVars, histVars
<1>1. ASSUME NEW d \in Daemons,
             LoadRegistry(d) \/ Run(d) \/ OpenClaim(d) \/ Takeover(d) \/ Supersede(d)
                \/ ResumeMarked(d) \/ Spawn(d) \/ StartTurn(d) \/ EndTurn(d) \/
                Adopt(d)
      PROVE  Relayed'
  <2>1. UNCHANGED <<calls>>
    BY <1>1 DEF LoadRegistry, Run, OpenClaim, Lead, Takeover, Notify, Supersede,
       UpdateRegistry, ResumeMarked, Spawn, StartTurn, EndTurn, Adopt
  <2> QED
    BY <2>1, RelayedStays DEF Relayed
<1>2. ASSUME NEW d \in Daemons,
             ResumeHanded(d) \/ LaunchSettles(d) \/ Ended(d) \/ OtherProgress(d) \/
                Check(d) \/ Watch(d) \/ Reclaim(d) \/ Merge(d) \/ ClientCall(d)
      PROVE  Relayed'
  <2>1. UNCHANGED <<calls>>
    BY <1>2 DEF ResumeHanded, Notify, LaunchSettles, UpdateRegistry, Ended,
       OtherProgress, Check, Watch, Reclaim, Merge, ClientCall
  <2> QED
    BY <2>1, RelayedStays DEF Relayed
<1>3. ASSUME NEW d \in Daemons, NEW k \in {"close", "forget"},
             EndSession(d, k)
      PROVE  Relayed'
  <2>1. UNCHANGED <<calls>>
    BY <1>3 DEF EndSession, Notify
  <2> QED
    BY <2>1, RelayedStays DEF Relayed
<1>4. CASE Dispatch \/ Connect \/ Forwarded
  <2>1. UNCHANGED <<calls>>
    BY <1>4 DEF Dispatch, Returns, Connect, Goes, Forwarded
  <2> QED
    BY <2>1, RelayedStays DEF Relayed
<1>5. CASE UNCHANGED vars
  <2>1. UNCHANGED <<calls>>
    BY <1>5 DEF vars
  <2> QED
    BY <2>1, RelayedStays DEF Relayed
<1>6. ASSUME NEW d \in Daemons, Scan(d) PROVE Relayed'
  <2>1. Superseded(d)
    BY <1>6 DEF Scan, Typed, Watches, Superseded
  <2>2. sess[d] = "idle" \/ owned[d] => Keeps(d)
    BY <1>6, <2>1, NotWaiting DEF Scan, Keeps, CallShape
  <2>3. next[d] \in Daemons
    BY <2>1 DEF Superseded, Typed, TypeOK
  <2>4. ASSUME NEW b \in calls', b \notin calls PROVE RelayedAt(b)'
    <3>1. Keeps(d) /\ (b = Call(d, "handoff", "marked") \/ b = Call(d, "release", reg[d]))
      BY <1>6, <2>2, <2>4 DEF Scan
    <3>2. b.from = d /\ b.stage = "sent" /\ b.path = <<next[d]>>
      BY <3>1 DEF Call
    <3>3. PICK x \in Daemons : x = next[d]
      BY <2>3
    <3>4. Forwards(x, d) /\ UNCHANGED <<foreign, report>>
      BY <1>6, <3>1, <3>3 DEF Chain, Scan
    <3>5. Forwards(x, d)'
      BY <3>4 DEF Forwards
    <3>6. Len(<<x>>) = 1 /\ <<x>>[1] = x /\ <<x>> # << >> /\ \A i \in 1..1 :
             i = 1 /\ ~(i < 1)
      OBVIOUS
    <3>7. b.path = <<x>>
      BY <3>2, <3>3
    <3>8. \A i \in 1..Len(b.path) : b.path[i] = x /\ ~(i < Len(b.path))
      BY <3>6, <3>7
    <3> QED
      BY <3>2, <3>5, <3>6, <3>7, <3>8 DEF RelayedAt
  <2> QED
    BY <2>4, RelayedStays DEF Relayed
<1>7. ASSUME NEW d \in Daemons, NEW c \in calls, Reported(d, c) PROVE Relayed'
  <2>1. calls' \subseteq calls
    BY <1>7 DEF Reported
  <2> QED
    BY <2>1, RelayedStays DEF Relayed
<1>8. ASSUME NEW d \in Daemons, Exit(d) PROVE Relayed'
  <2>1. calls' = calls
    BY <1>8, ExitCalls DEF CallShape
  <2> QED
    BY <2>1, RelayedStays DEF Relayed
<1>9. ASSUME NEW d \in Daemons, Crash(d) PROVE Relayed'
  BY <1>9 DEF Plain
<1>10. ASSUME NEW d \in Daemons, LeadFails(d) PROVE Relayed'
  BY <1>10 DEF LeadFails, Line
<1>11. ASSUME NEW c \in calls, Relay(c) PROVE Relayed'
  <2> DEFINE r == [c EXCEPT !.path = Append(c.path, next[Server(c)])]
  <2>1. /\ r.from = c.from /\ r.kind = c.kind /\ r.entry = c.entry
        /\ r.stage = c.stage /\ r.path = Append(c.path, next[Server(c)])
    BY EditFields DEF Typed, TypeOK
  <2>2. calls' = (calls \ {c}) \cup {r}
    BY <1>11 DEF Relay, Replace
  <2> HIDE DEF r
  <2>3. \A b \in calls' : b = r \/ (b \in calls /\ b # c)
    BY <2>2
  <2>4. /\ c.path # << >> /\ Superseded(Server(c)) /\ Server(c) \in Daemons
             /\ c.stage = "sent"
        /\ UNCHANGED <<foreign, report>>
    BY <1>11, ServerIs DEF Relay
  <2>5. c.path \in Seq(Daemons) /\ Len(c.path) \in Nat \ {0}
           /\ Server(c) = c.path[Len(c.path)]
        /\ c.from \in Daemons
    BY <2>4, ServerIs, PathIn DEF CallShape
  <2>6. next[Server(c)] \in Daemons
    BY <2>4 DEF Superseded, Typed, TypeOK
  <2> DEFINE p == c.path
             n == Len(p)
             x == next[Server(c)]
             q == Append(p, x)
  <2>7. Len(q) = n + 1 /\ (\A k \in 1..n : q[k] = p[k]) /\ q[n + 1] = x
    BY <2>5, <2>6, PathGrows
  <2>8. q # << >> /\ \A i \in 1..Len(q) :
           (i \in 1..n /\ q[i] = p[i]) \/ (i = n + 1 /\ q[i] = x)
    <3> HIDE DEF p, q
    <3>1. n \in Nat \ {0}
      BY <2>5 DEF p
    <3> HIDE DEF n, x
    <3>2. Len(q) # 0
      BY <2>7, <3>1
    <3>3. Len(<< >>) = 0
      OBVIOUS
    <3> QED
      BY <2>7, <3>1, <3>2, <3>3
  <2>10. \A i \in 1..n : Forwards(p[i], c.from) /\ p[i] \in Daemons
    BY <2>4, PathIn DEF Relayed, RelayedAt, CallShape
  <2>11. Forwards(x, c.from)
    <3>1. n \in 1..n /\ p[n] = Server(c)
      BY <2>5
    <3> QED
      BY <2>4, <2>5, <2>10, <3>1, MakerKeeps DEF Chain, CallShape
  <2>12. r.path = q /\ r.from = c.from /\ r.stage = "sent"
    BY <2>1, <2>4
  <2>13. \A i \in 1..n : foreign[p[i]] = c.from
    <3>1. \A i \in 1..n : phase[p[i]] = "serving"
      <4>1. \A i \in 1..n : i < n => Superseded(p[i]) /\ p[i] \in Daemons
        BY <2>10 DEF CallShape, CallPath
      <4>2. \A i \in 1..n : i < n \/ i = n
        BY <2>5
      <4>3. p[n] = Server(c)
        BY <2>5
      <4> HIDE DEF p, n
      <4> QED
        BY <2>4, <4>1, <4>2, <4>3 DEF Line
    <3> QED
      BY <2>10, <3>1 DEF Forwards, Outside, NoReport
  <2> HIDE DEF p, n, q, x
  <2>14. \A i \in 1..Len(q) : Forwards(q[i], c.from)
    BY <2>8, <2>10, <2>11
  <2>15. \A i \in 1..Len(q) : i < Len(q) => foreign[q[i]] = c.from
    <3>1. Len(q) = n + 1
      BY <2>7
    <3>2. n \in Nat
      BY <2>5 DEF n, p
    <3>3. \A i \in 1..Len(q) : i < Len(q) => i # n + 1
      BY <3>1, <3>2
    <3> QED
      BY <2>8, <2>13, <3>3
  <2>16. PICK s \in calls' : s = r
    BY <2>2
  <2>17. RelayedAt(s)'
    BY <2>4, <2>8, <2>12, <2>14, <2>15, <2>16 DEF RelayedAt, Forwards
  <2>9. \A b \in calls' : b = s \/ (b \in calls /\ b # c)
    BY <2>3, <2>16
  <2> QED
    BY <2>9, <2>17, RelayedStays DEF Relayed
<1>12. ASSUME NEW c \in calls, Unreachable(c) PROVE Relayed'
  <2>1. c.path # << >> /\ c.stage = "sent" /\ ~Up(Server(c))
    BY <1>12 DEF Unreachable
  <2>2. Len(c.path) \in 1..Len(c.path) /\ Server(c) = c.path[Len(c.path)]
           /\ Server(c) \in Daemons
    BY <2>1, ServerIs
  <2>3. Forwards(Server(c), c.from) /\ c.from \in Daemons
    BY <2>1, <2>2, MakerWaits DEF Relayed, RelayedAt, CallShape
  <2> QED
    BY <2>1, <2>2, <2>3, DaemonsAssumption DEF Forwards, Outside, Up, NoReport
<1>13. ASSUME NEW c \in calls, ClaimHandoff(c) PROVE Relayed'
  <2> DEFINE r == [c EXCEPT !.stage = "claimed"]
  <2>1. /\ r.from = c.from /\ r.kind = c.kind /\ r.entry = c.entry
        /\ r.stage = "claimed" /\ r.path = c.path
    BY EditFields DEF Typed, TypeOK
  <2>2. calls' = (calls \ {c}) \cup {r}
    BY <1>13 DEF ClaimHandoff, Replace
  <2> HIDE DEF r
  <2>3. \A b \in calls' : b = r \/ (b \in calls /\ b # c)
    BY <2>2
  <2>4. UNCHANGED <<foreign, report>> /\ c.stage = "sent" /\ c.path # << >>
    BY <1>13 DEF ClaimHandoff
  <2>9. RelayedAt(r)'
    BY <2>1, <2>4 DEF Relayed, RelayedAt, Forwards
  <2> QED
    BY <2>3, <2>9, RelayedStays DEF Relayed
<1>14. ASSUME NEW c \in calls, AcceptHandoff(c) PROVE Relayed'
  <2> DEFINE r == [c EXCEPT !.stage = "ok"]
  <2>1. /\ r.from = c.from /\ r.kind = c.kind /\ r.entry = c.entry
        /\ r.stage = "ok" /\ r.path = c.path
    BY EditFields DEF Typed, TypeOK
  <2>2. calls' = (calls \ {c}) \cup {r}
    BY <1>14 DEF AcceptHandoff, Replace
  <2> HIDE DEF r
  <2>3. \A b \in calls' : b = r \/ (b \in calls /\ b # c)
    BY <2>2
  <2>4. /\ \A e \in Daemons : foreign'[e] \in {foreign[e], None}
        /\ report' = report /\ r.stage = "ok"
    BY <1>14, <2>1 DEF AcceptHandoff, Typed, TypeOK
  <2>5. \A k \in 1..Len(c.path) : c.path[k] \in Daemons
    BY PathIn DEF CallShape
  <2>9. RelayedAt(r)'
    BY <2>1, <2>4, <2>5 DEF Relayed, RelayedAt, Forwards
  <2> QED
    BY <2>3, <2>9, RelayedStays DEF Relayed
<1>15. ASSUME NEW c \in calls, AcceptRelease(c) PROVE Relayed'
  <2> DEFINE r == [c EXCEPT !.stage = "ok"]
  <2>1. /\ r.from = c.from /\ r.kind = c.kind /\ r.entry = c.entry
        /\ r.stage = "ok" /\ r.path = c.path
    BY EditFields DEF Typed, TypeOK
  <2>2. calls' = (calls \ {c}) \cup {r}
    BY <1>15 DEF AcceptRelease, Replace
  <2> HIDE DEF r
  <2>3. \A b \in calls' : b = r \/ (b \in calls /\ b # c)
    BY <2>2
  <2>4. /\ \A e \in Daemons : foreign'[e] \in {foreign[e], None}
        /\ report' = report /\ r.stage = "ok"
    BY <1>15, <2>1 DEF AcceptRelease, Typed, TypeOK
  <2>5. \A k \in 1..Len(c.path) : c.path[k] \in Daemons
    BY PathIn DEF CallShape
  <2>9. RelayedAt(r)'
    BY <2>1, <2>4, <2>5 DEF Relayed, RelayedAt, Forwards
  <2> QED
    BY <2>3, <2>9, RelayedStays DEF Relayed
<1>16. ASSUME NEW c \in calls, Answer(c) PROVE Relayed'
  <2> DEFINE r == [c EXCEPT !.path = Front(c.path)]
  <2>1. /\ r.from = c.from /\ r.kind = c.kind /\ r.entry = c.entry
        /\ r.stage = c.stage /\ r.path = Front(c.path)
    BY EditFields DEF Typed, TypeOK
  <2>2. /\ calls' = (calls \ {c}) \cup {r} \/ (calls' = calls \ {c} /\ c.from = None)
        /\ c.path # << >> /\ c.stage \in {"ok", "err"}
    BY <1>16 DEF Answer, Replace
  <2> HIDE DEF r
  <2>3. c.from \in Daemons /\ c.stage = "ok" /\ c.path \in Seq(Daemons)
    BY <2>2, MakerWaits, PathIn DEF CallShape, Relayed, RelayedAt
  <2>4. \A b \in calls' : b = r \/ (b \in calls /\ b # c)
    BY <2>2, <2>3, DaemonsAssumption
  <2>5. \A e \in Daemons : foreign'[e] \in {foreign[e], None}
    BY <1>16 DEF Answer, Typed, TypeOK
  <2> DEFINE p == c.path
             n == Len(p)
             q == Front(p)
  <2>6. /\ n \in Nat \ {0} /\ Len(q) = n - 1 /\ \A k \in 1..(n - 1) : q[k] = p[k]
    BY <2>2, <2>3, PathEnd
  <2>7. \A i \in 1..Len(q) : i \in 1..n /\ i < n /\ q[i] = p[i]
    <3> HIDE DEF p, q, n
    <3> QED
      BY <2>6
  <2>8. \A i \in 1..n : p[i] \in Daemons /\ (i < n => foreign[p[i]] \in {c.from, None})
    BY PathIn DEF CallShape, Relayed, RelayedAt
  <2>10. r.path = q /\ r.from = c.from /\ r.stage = "ok"
    BY <2>1, <2>3
  <2> HIDE DEF p, q, n
  <2>9. RelayedAt(r)'
    BY <2>5, <2>7, <2>8, <2>10 DEF RelayedAt
  <2> QED
    BY <2>4, <2>9, RelayedStays DEF Relayed
<1> QED
  BY <1>1, <1>2, <1>3, <1>4, <1>5, <1>6, <1>7, <1>8, <1>9, <1>10, <1>11, <1>12, <1>13,
     <1>14, <1>15, <1>16 DEF Next, Caller, Start, Work, Watcher, Again, Peer, Client

\* The chain from a superseded daemon to the newest, in one invariant.
Linked == Chain /\ Relayed /\ Settled /\ Back /\ Behind

\* Every state starts so.
LEMMA InitLinked ==
    ASSUME Init
    PROVE  Linked
<1>1. \A e \in Daemons : /\ next[e] = None /\ foreign[e] = None /\ watch[e] = "off"
                         /\ report[e] = NoReport
  BY DEF Init
<1>2. calls = {}
  BY DEF Init
<1>3. \A e \in Daemons : ~Keeps(e) /\ ~Superseded(e) /\ \A n \in Daemons : ~Forwards(n, e)
  BY <1>1, DaemonsAssumption DEF Keeps, Superseded, Forwards, NoReport
<1> QED
  BY <1>1, <1>2, <1>3 DEF Linked, Chain, Relayed, Settled, Back, Behind

\* It stays so as long as nobody leads again.
LEMMA NextLinked ==
    ASSUME Plain, Placed, Linked, NoneLeadsAgain, NoneLeadsAgain', [Next]_vars
    PROVE  Linked'
<1>1. Placed'
  BY NextPlaced
<1> USE DEF Placed, Linked
<1>2. Chain' /\ Back' /\ Behind'
  BY <1>1, ChainNext, BackNext, BehindNext
<1>3. Relayed' /\ Settled'
  BY <1>1, RelayedNext, SettledNext
<1> QED
  BY <1>2, <1>3

\* Among three daemons, no four.
LEMMA AmongThree ==
    ASSUME Cardinality(Daemons) <= 3, NEW a \in Daemons, NEW b \in Daemons \ {a},
           NEW c \in Daemons \ {a, b}, NEW d \in Daemons \ {a, b, c}
    PROVE  FALSE
<1>1. IsFiniteSet(Daemons) /\ Cardinality(Daemons) \in Nat
  BY DaemonsAssumption, FS_CardinalityType
<1>2. IsFiniteSet({a}) /\ Cardinality({a}) = 1
  BY FS_Singleton
<1>3. IsFiniteSet({a, b}) /\ Cardinality({a, b}) = 2
  <2>1. {a, b} = {a} \cup {b} /\ b \notin {a}
    OBVIOUS
  <2> QED
    BY <1>2, <2>1, FS_AddElement
<1>4. IsFiniteSet({a, b, c}) /\ Cardinality({a, b, c}) = 3
  <2>1. {a, b, c} = {a, b} \cup {c} /\ c \notin {a, b}
    OBVIOUS
  <2> QED
    BY <1>3, <2>1, FS_AddElement, SMTT(30)
<1>5. Cardinality({a, b, c, d}) = 4
  <2>1. {a, b, c, d} = {a, b, c} \cup {d} /\ d \notin {a, b, c}
    OBVIOUS
  <2> QED
    BY <1>4, <2>1, FS_AddElement
<1>6. {a, b, c, d} \subseteq Daemons
  OBVIOUS
<1>7. Cardinality({a, b, c, d}) <= Cardinality(Daemons)
  BY <1>1, <1>6, FS_Subset
<1> QED
  BY <1>1, <1>5, <1>7

\* A waiting watcher's successor runs, where there are three daemons: it would
\* have exited for a third one, the watcher waits for a fourth.
LEMMA SuccessorUp ==
    ASSUME Placed, Linked, Cardinality(Daemons) <= 3, NEW d \in Daemons, watch[d] = "idle"
    PROVE  Up(next[d])
<1> USE DEF Placed, Linked
<1>1. Superseded(d) /\ phase[d] = "serving"
  BY DEF Typed, Watches, Superseded
<1>2. PICK x \in Daemons : x = next[d]
  BY <1>1 DEF Superseded, Typed, TypeOK
<1>3. SUFFICES ASSUME ~Up(x) PROVE FALSE
  BY <1>2
<1>4. phase[x] = "exited"
  BY <1>2, <1>3 DEF Outside, Up
<1>5. ~Keeps(d)
  <2>1. ASSUME Keeps(d) PROVE FALSE
    <3>1. Forwards(x, d)
      BY <1>2, <2>1 DEF Chain
    <3> QED
      BY <1>4, <3>1, DaemonsAssumption DEF Forwards, Outside, NoReport
  <2> QED
    BY <2>1
<1>6. sess[d] = "none" /\ ~owned[d]
  BY <1>1, <1>5, NotWaiting DEF Keeps, CallShape
<1>7. PICK o \in Daemons : o # d /\ o # next[d] /\ Older(o)
  BY <1>6 DEF Behind
<1>8. PICK m \in Daemons : Newest(m)
  BY SomeNewest
<1>9. ~Superseded(m) /\ phase[m] # "exited"
  <2>1. ~Superseded(m)
    BY <1>8, NewestIs, DaemonsAssumption
  <2>2. phase[m] # "exited"
    BY <1>8, DaemonsAssumption DEF Newest, Line
  <2> QED
    BY <2>1, <2>2
<1>10. x # d /\ m # d /\ m # x /\ m # o
  BY <1>1, <1>4, <1>7, <1>9 DEF Older
<1> QED
  BY <1>2, <1>7, <1>10, AmongThree

\* Among three daemons nobody leads again.
LEMMA NextLeads ==
    ASSUME Plain, Placed, Linked, NoneLeadsAgain, Cardinality(Daemons) <= 3,
       [Next]_vars
    PROVE  NoneLeadsAgain'
<1> USE DEF procVars, regVars, sessVars, handVars, wakeVars, wireVars, histVars
<1>1. ASSUME NEW d \in Daemons,
             Spawn(d) \/ StartTurn(d) \/ EndTurn(d) \/ Adopt(d) \/ ResumeHanded(d) \/
                Ended(d) \/ OtherProgress(d) \/ Scan(d) \/ Check(d) \/ ClientCall(d)
      PROVE  NoneLeadsAgain'
  <2>1. UNCHANGED <<phase>>
    BY <1>1 DEF Spawn, Notify, UpdateRegistry, StartTurn, EndTurn, Adopt,
       ResumeHanded, Ended, OtherProgress, Scan, Check, ClientCall
  <2> QED
    BY <2>1 DEF NoneLeadsAgain
<1>2. ASSUME NEW c \in calls,
             Relay(c) \/ Unreachable(c) \/ ClaimHandoff(c) \/ AcceptHandoff(c) \/
                AcceptRelease(c) \/ Answer(c)
      PROVE  NoneLeadsAgain'
  <2>1. UNCHANGED <<phase>>
    BY <1>2 DEF Relay, Replace, Unreachable, ClaimHandoff, AcceptHandoff,
       UpdateRegistry, AcceptRelease, Answer, Notify
  <2> QED
    BY <2>1 DEF NoneLeadsAgain
<1>3. ASSUME NEW d \in Daemons, NEW k \in {"close", "forget"},
             EndSession(d, k)
      PROVE  NoneLeadsAgain'
  <2>1. UNCHANGED <<phase>>
    BY <1>3 DEF EndSession, Notify
  <2> QED
    BY <2>1 DEF NoneLeadsAgain
<1>4. ASSUME NEW d \in Daemons, NEW c \in calls, Reported(d, c) PROVE NoneLeadsAgain'
  <2>1. UNCHANGED <<phase>>
    BY <1>4 DEF Reported, Notify
  <2> QED
    BY <2>1 DEF NoneLeadsAgain
<1>5. CASE Dispatch \/ Connect \/ Forwarded
  <2>1. UNCHANGED <<phase>>
    BY <1>5 DEF Dispatch, Returns, Connect, Goes, Forwarded
  <2> QED
    BY <2>1 DEF NoneLeadsAgain
<1>6. CASE UNCHANGED vars
  <2>1. UNCHANGED <<phase>>
    BY <1>6 DEF vars
  <2> QED
    BY <2>1 DEF NoneLeadsAgain
<1>7. ASSUME NEW d \in Daemons, LoadRegistry(d) PROVE NoneLeadsAgain'
  BY <1>7 DEF NoneLeadsAgain, Placed, Typed, TypeOK, LoadRegistry
<1>8. ASSUME NEW d \in Daemons, Run(d) PROVE NoneLeadsAgain'
  BY <1>8 DEF NoneLeadsAgain, Placed, Typed, TypeOK, Run
<1>9. ASSUME NEW d \in Daemons, OpenClaim(d) PROVE NoneLeadsAgain'
  BY <1>9 DEF NoneLeadsAgain, Placed, Typed, TypeOK, OpenClaim, Lead
<1>10. ASSUME NEW d \in Daemons, Takeover(d) PROVE NoneLeadsAgain'
  <2>1. phase' = [phase EXCEPT ![d] = "reported"]
    BY <1>10 DEF Takeover
  <2> QED
    BY <2>1 DEF NoneLeadsAgain, Placed, Typed, TypeOK
<1>11. ASSUME NEW d \in Daemons, Supersede(d) PROVE NoneLeadsAgain'
  BY <1>11 DEF NoneLeadsAgain, Placed, Typed, TypeOK, Supersede, Lead, UpdateRegistry
<1>12. ASSUME NEW d \in Daemons, ResumeMarked(d) PROVE NoneLeadsAgain'
  BY <1>12 DEF NoneLeadsAgain, Placed, Typed, TypeOK, ResumeMarked
<1>13. ASSUME NEW d \in Daemons, LaunchSettles(d) PROVE NoneLeadsAgain'
  BY <1>13 DEF NoneLeadsAgain, Placed, Typed, TypeOK, LaunchSettles, Notify,
     UpdateRegistry
<1>14. ASSUME NEW d \in Daemons, Watch(d) PROVE NoneLeadsAgain'
  <2>1. phase' = phase
    BY <1>14, SuccessorUp DEF Watch
  <2> QED
    BY <2>1 DEF NoneLeadsAgain
<1>15. ASSUME NEW d \in Daemons, Reclaim(d) PROVE NoneLeadsAgain'
  BY <1>15 DEF NoneLeadsAgain, Placed, Typed, TypeOK, Reclaim
<1>16. ASSUME NEW d \in Daemons, Merge(d) PROVE NoneLeadsAgain'
  BY <1>16 DEF NoneLeadsAgain, Placed, Typed, TypeOK, Merge
<1>17. ASSUME NEW d \in Daemons, Exit(d) PROVE NoneLeadsAgain'
  BY <1>17 DEF NoneLeadsAgain, Placed, Typed, TypeOK, Exit, Gone
<1>18. ASSUME NEW d \in Daemons, Crash(d) PROVE NoneLeadsAgain'
  BY <1>18 DEF Plain
<1>19. ASSUME NEW d \in Daemons, LeadFails(d) PROVE NoneLeadsAgain'
  BY <1>19 DEF NoneLeadsAgain, Placed, Typed, TypeOK, LeadFails, Gone
<1> QED
  BY <1>1, <1>2, <1>3, <1>4, <1>5, <1>6, <1>7, <1>8, <1>9, <1>10, <1>11, <1>12, <1>13,
     <1>14, <1>15, <1>16, <1>17, <1>18, <1>19 DEF Next, Caller, Start, Work, Watcher,
     Again, Peer, Client

\* The invariant of the chain, for as long as nobody leads again.
LEMMA LinkedHolds ==
    ASSUME Orderly
    PROVE  Spec /\ []NoneLeadsAgain => [](Placed /\ Linked)
<1>1. Init => Placed /\ Linked
  BY InitPlaced, InitLinked
<1>2. Placed /\ Linked /\ NoneLeadsAgain /\ NoneLeadsAgain' /\ [Next]_vars
         => Placed' /\ Linked'
  <2>1. Placed => Plain
    BY PlainStep DEF Placed
  <2> QED
    BY <2>1, NextPlaced, NextLinked
<1> HIDE DEF Placed, Linked, NoneLeadsAgain, Init, Next, vars
<1> QED
  BY <1>1, <1>2, PTL DEF Spec

\* Of three daemons none that was superseded leads again while nobody is killed:
\* a watcher never takes its successor's clean exit for a death.
THEOREM NoneLeadsAgainHolds ==
    ASSUME Orderly, Cardinality(Daemons) <= 3
    PROVE  Spec => []NoneLeadsAgain
<1> DEFINE Inv == Placed /\ Linked /\ NoneLeadsAgain
<1>1. Init => Inv
  <2>1. Init => NoneLeadsAgain
    BY DEF Init, NoneLeadsAgain
  <2> QED
    BY <2>1, InitPlaced, InitLinked
<1>2. Inv /\ [Next]_vars => Inv'
  <2>1. Placed => Plain
    BY PlainStep DEF Placed
  <2>2. Inv /\ [Next]_vars => NoneLeadsAgain'
    BY <2>1, NextLeads
  <2> QED
    BY <2>1, <2>2, NextPlaced, NextLinked
<1>3. Inv => NoneLeadsAgain
  OBVIOUS
<1> HIDE DEF Inv, Init, Next, vars, NoneLeadsAgain
<1> QED
  BY <1>1, <1>2, <1>3, PTL DEF Spec

\* OneOwner of up to three daemons, whatever they do, as long as nobody is
\* killed.
THEOREM ChainOneOwner ==
    ASSUME Orderly, Cardinality(Daemons) <= 3
    PROVE  Spec => []OneOwner
<1>1. Spec => []NoneLeadsAgain
  BY NoneLeadsAgainHolds
<1>2. Spec /\ []NoneLeadsAgain => []OneOwner
  BY OneOwnerHolds
<1> HIDE DEF Spec, NoneLeadsAgain, OneOwner
<1> QED
  BY <1>1, <1>2, PTL

\* NoGap of up to three daemons (MCHandover's `dispatch`).
THEOREM ChainNoGap ==
    ASSUME Orderly, Cardinality(Daemons) <= 3
    PROVE  Spec => []NoGap
<1>1. Spec => []NoneLeadsAgain
  BY NoneLeadsAgainHolds
<1>2. Spec /\ []NoneLeadsAgain => []NoGap
  BY NoGapHolds
<1> HIDE DEF Spec, NoneLeadsAgain, NoGap
<1> QED
  BY <1>1, <1>2, PTL

-----------------------------------------------------------------------------
(* Whoever forwards has nothing itself, and forwards backwards             *)

\* A daemon with nothing of the session of its own.
Bare(d) ==
    /\ sess[d] = "none" /\ ~owned[d] /\ resuming[d] = "no" /\ ~\E c \in calls : c.from = d

\* So is a superseded daemon that forwards, one that waits for an answer to
\* relay, and one that has shipped the session.
Apart ==
    /\ \A d \in Daemons : /\ Superseded(d) /\ foreign[d] # None => Bare(d)
                          /\ shipped[d] => Superseded(d) /\ Bare(d)
    /\ \A c \in calls : \A i \in 1..Len(c.path) : i < Len(c.path) => Bare(c.path[i])

\* Where a superseded daemon has nothing, nothing comes.
BaresMove == \A d \in Daemons : Superseded(d) /\ Bare(d) => Bare(d)'

\* What a step makes of the calls: another server, one less, or a new call by a
\* daemon that keeps the session.
Moved(b, c) ==
    /\ b.from = c.from
    /\ \A i \in 1..Len(b.path) :
         \/ /\ i \in 1..Len(c.path) /\ b.path[i] = c.path[i]
            /\ i < Len(b.path) =>
                 i < Len(c.path) \/ (Superseded(c.path[i]) /\ foreign[c.path[i]] # None)
         \/ /\ i = Len(c.path) + 1 /\ Len(c.path) \in 1..Len(c.path) /\ Len(b.path) = i
            /\ Superseded(c.path[Len(c.path)]) /\ b.path[i] = next[c.path[Len(c.path)]]
Made(b) ==
    \E d \in Daemons : /\ b.from = d /\ Superseded(d) /\ Keeps(d) /\ Len(b.path) = 1
                       /\ b.path[1] = next[d]
CallsMove == \A b \in calls' : Made(b) \/ \E c \in calls : Moved(b, c)

\* A daemon has shipped the session in its report to the takeover, or by a
\* handoff that was accepted.
ShippedMoves ==
    \A d \in Daemons : shipped'[d] =>
        \/ shipped[d] /\ ~Exit(d)
        \/ Superseded(d)' /\ Bare(d)'

\* Where nothing comes.
LEMMA BaresNext ==
    ASSUME Plain, Typed, Typed', Line, Line', Outside, Outside', CallShape,
       CallShape', Handing, Resuming, Kept, Kept', Forwarding, Entered, Unborn, Chain,
       Relayed, Settled, Back, Behind, [Next]_vars
    PROVE  BaresMove
<1> USE DEF procVars, regVars, sessVars, handVars, wakeVars, wireVars, histVars
<1>1. ASSUME NEW d \in Daemons,
             LoadRegistry(d) \/ Run(d) \/ OpenClaim(d) \/ Supersede(d) \/ Ended(d) \/
                OtherProgress(d) \/ Check(d) \/ Watch(d) \/ Reclaim(d) \/
                ClientCall(d)
      PROVE  BaresMove
  <2>1. UNCHANGED <<sess, resuming, next, owned, calls>>
    BY <1>1 DEF LoadRegistry, Run, OpenClaim, Lead, Supersede, UpdateRegistry, Ended,
       Notify, OtherProgress, Check, Watch, Reclaim, ClientCall
  <2> QED
    BY <2>1 DEF BaresMove, Bare, Superseded
<1>2. CASE Dispatch \/ Connect \/ Forwarded
  <2>1. UNCHANGED <<sess, resuming, next, owned, calls>>
    BY <1>2 DEF Dispatch, Returns, Connect, Goes, Forwarded
  <2> QED
    BY <2>1 DEF BaresMove, Bare, Superseded
<1>3. CASE UNCHANGED vars
  <2>1. UNCHANGED <<sess, resuming, next, owned, calls>>
    BY <1>3 DEF vars
  <2> QED
    BY <2>1 DEF BaresMove, Bare, Superseded
<1>4. ASSUME NEW d \in Daemons, Takeover(d) PROVE BaresMove
  <2>1. PICK p \in Daemons : p = claim
    BY <1>4 DEF Takeover, Typed, TypeOK
  <2>2. /\ UNCHANGED <<resuming, calls>> /\ ~Superseded(p)
        /\ \A e \in Daemons \ {p} : sess'[e] = sess[e] /\ owned'[e] = owned[e]
    BY <1>4, <2>1 DEF Takeover, Typed, TypeOK, Line
  <2> QED
    BY <2>2 DEF BaresMove, Bare
<1>5. ASSUME NEW d \in Daemons, ResumeMarked(d) PROVE BaresMove
  BY <1>5, DaemonsAssumption DEF Typed, TypeOK, BaresMove, Bare, Superseded,
     ResumeMarked, Line
<1>6. ASSUME NEW d \in Daemons, Spawn(d) PROVE BaresMove
  BY <1>6, DaemonsAssumption DEF Typed, TypeOK, BaresMove, Bare, Superseded, Spawn,
     Notify, UpdateRegistry, Plain, Called
<1>7. ASSUME NEW d \in Daemons, StartTurn(d) PROVE BaresMove
  BY <1>7, DaemonsAssumption DEF Typed, TypeOK, BaresMove, Bare, Superseded,
     StartTurn, Notify
<1>8. ASSUME NEW d \in Daemons, EndTurn(d) PROVE BaresMove
  BY <1>8, DaemonsAssumption DEF Typed, TypeOK, BaresMove, Bare, Superseded, EndTurn,
     Notify
<1>9. ASSUME NEW d \in Daemons, Adopt(d) PROVE BaresMove
  <2>1. claim # None /\ (claim # d => foreign[claim] = d) /\ claim \in Daemons
    BY <1>9, ReachedWhere DEF Adopt, Typed, TypeOK
  <2>2. Superseded(d) => Keeps(d)
    BY <2>1 DEF Back, Newest, Forwards, Line
  <2>3. UNCHANGED <<owned, resuming, calls>> /\ \A e \in Daemons \ {d} : sess'[e] = sess[e]
    BY <1>9 DEF Adopt, Typed, TypeOK
  <2>4. Superseded(d) => ~Bare(d)
    BY <2>2 DEF Keeps, Bare
  <2> QED
    BY <2>3, <2>4 DEF BaresMove, Bare
<1>10. ASSUME NEW d \in Daemons, ResumeHanded(d) PROVE BaresMove
  BY <1>10, DaemonsAssumption DEF Typed, TypeOK, BaresMove, Bare, Superseded,
     ResumeHanded, Notify
<1>11. ASSUME NEW d \in Daemons, LaunchSettles(d) PROVE BaresMove
  BY <1>11, DaemonsAssumption DEF Typed, TypeOK, BaresMove, Bare, Superseded,
     LaunchSettles, Notify, UpdateRegistry
<1>12. ASSUME NEW d \in Daemons, NEW k \in {"close", "forget"},
             EndSession(d, k)
      PROVE  BaresMove
  BY <1>12, DaemonsAssumption DEF Typed, TypeOK, BaresMove, Bare, Superseded,
     EndSession, Notify
<1>13. ASSUME NEW d \in Daemons, Scan(d) PROVE BaresMove
  <2>1. /\ UNCHANGED resuming
        /\ \A e \in Daemons \ {d} : sess'[e] = sess[e] /\ owned'[e] = owned[e]
        /\ \A c \in calls' : c \in calls \/ c.from = d
    BY <1>13 DEF Scan, Typed, TypeOK, Call
  <2>2. Bare(d) => UNCHANGED <<sess, owned, calls>>
    BY <1>13 DEF Scan, Bare
  <2> QED
    BY <2>1, <2>2 DEF BaresMove, Bare
<1>14. ASSUME NEW d \in Daemons, NEW c \in calls, Reported(d, c) PROVE BaresMove
  <2>1. /\ UNCHANGED resuming /\ c \in calls /\ c.from = d
        /\ \A e \in Daemons \ {d} : sess'[e] = sess[e] /\ owned'[e] = owned[e]
        /\ calls' \subseteq calls
    BY <1>14 DEF Reported, Typed, TypeOK
  <2>2. ~Bare(d)
    BY <2>1 DEF Bare
  <2> QED
    BY <2>1, <2>2 DEF BaresMove, Bare
<1>15. ASSUME NEW d \in Daemons, Merge(d) PROVE BaresMove
  BY <1>15 DEF Merge, Line
<1>16. ASSUME NEW d \in Daemons, Exit(d) PROVE BaresMove
  <2>1. calls' = calls
    BY <1>16, ExitCalls DEF CallShape
  <2>2. sess'[d] = "none" /\ ~owned'[d] /\ resuming'[d] = "no"
    BY <1>16 DEF Exit, Gone, Typed, TypeOK
  <2>3. \A e \in Daemons \ {d} :
           sess'[e] = sess[e] /\ owned'[e] = owned[e] /\ resuming'[e] = resuming[e]
    BY <1>16 DEF Exit, Gone, Typed, TypeOK
  <2> QED
    BY <2>1, <2>2, <2>3 DEF BaresMove, Bare
<1>17. ASSUME NEW d \in Daemons, Crash(d) PROVE BaresMove
  BY <1>17 DEF Plain
<1>18. ASSUME NEW d \in Daemons, LeadFails(d) PROVE BaresMove
  BY <1>18 DEF LeadFails, Line
<1>19. ASSUME NEW c \in calls, Relay(c) PROVE BaresMove
  <2> DEFINE r == [c EXCEPT !.path = Append(c.path, next[Server(c)])]
  <2>1. /\ r.from = c.from /\ r.kind = c.kind /\ r.entry = c.entry
        /\ r.stage = c.stage /\ r.path = Append(c.path, next[Server(c)])
    BY EditFields DEF Typed, TypeOK
  <2>2. calls' = (calls \ {c}) \cup {r}
    BY <1>19 DEF Relay, Replace
  <2> HIDE DEF r
  <2>3. UNCHANGED <<sess, owned, next, resuming>>
    BY <1>19 DEF Relay
  <2> QED
    BY <2>1, <2>2, <2>3 DEF BaresMove, Bare, Superseded
<1>20. ASSUME NEW c \in calls, Unreachable(c) PROVE BaresMove
  <2> DEFINE r == [c EXCEPT !.stage = "err", !.path = Front(c.path)]
  <2>1. /\ r.from = c.from /\ r.kind = c.kind /\ r.entry = c.entry
        /\ r.stage = "err" /\ r.path = Front(c.path)
    BY EditFields DEF Typed, TypeOK
  <2>2. calls' = (calls \ {c}) \cup {r}
    BY <1>20 DEF Unreachable, Replace
  <2> HIDE DEF r
  <2>3. UNCHANGED <<sess, owned, next, resuming>>
    BY <1>20 DEF Unreachable
  <2> QED
    BY <2>1, <2>2, <2>3 DEF BaresMove, Bare, Superseded
<1>21. ASSUME NEW c \in calls, ClaimHandoff(c) PROVE BaresMove
  <2> DEFINE r == [c EXCEPT !.stage = "claimed"]
  <2>1. /\ r.from = c.from /\ r.kind = c.kind /\ r.entry = c.entry
        /\ r.stage = "claimed" /\ r.path = c.path
    BY EditFields DEF Typed, TypeOK
  <2>2. calls' = (calls \ {c}) \cup {r}
    BY <1>21 DEF ClaimHandoff, Replace
  <2> HIDE DEF r
  <2>3. UNCHANGED <<sess, owned, next>>
    BY <1>21 DEF ClaimHandoff
  <2>4. Server(c) \in Daemons /\ ~Superseded(Server(c))
    BY <1>21, ServerIs, AcceptWhere DEF ClaimHandoff, CallShape
  <2>5. resuming' = [resuming EXCEPT ![Server(c)] = "claimed"]
    BY <1>21 DEF ClaimHandoff
  <2>6. \A e \in Daemons : Superseded(e) => resuming'[e] = resuming[e]
    BY <2>4, <2>5 DEF Typed, TypeOK
  <2> QED
    BY <2>1, <2>2, <2>3, <2>6 DEF BaresMove, Bare, Superseded
<1>22. ASSUME NEW c \in calls, AcceptHandoff(c) PROVE BaresMove
  <2> DEFINE r == [c EXCEPT !.stage = "ok"]
  <2>1. /\ r.from = c.from /\ r.kind = c.kind /\ r.entry = c.entry
        /\ r.stage = "ok" /\ r.path = c.path
    BY EditFields DEF Typed, TypeOK
  <2>2. calls' = (calls \ {c}) \cup {r}
    BY <1>22 DEF AcceptHandoff, Replace
  <2> HIDE DEF r
  <2>3. UNCHANGED <<sess, owned, next>>
    BY <1>22 DEF AcceptHandoff
  <2>4. Server(c) \in Daemons /\ ~Superseded(Server(c))
    BY <1>22, ServerIs, AcceptWhere DEF AcceptHandoff, CallShape
  <2>5. resuming' = [resuming EXCEPT ![Server(c)] = "pending"]
    BY <1>22 DEF AcceptHandoff
  <2>6. \A e \in Daemons : Superseded(e) => resuming'[e] = resuming[e]
    BY <2>4, <2>5 DEF Typed, TypeOK
  <2> QED
    BY <2>1, <2>2, <2>3, <2>6 DEF BaresMove, Bare, Superseded
<1>23. ASSUME NEW c \in calls, AcceptRelease(c) PROVE BaresMove
  <2> DEFINE r == [c EXCEPT !.stage = "ok"]
  <2>1. /\ r.from = c.from /\ r.kind = c.kind /\ r.entry = c.entry
        /\ r.stage = "ok" /\ r.path = c.path
    BY EditFields DEF Typed, TypeOK
  <2>2. calls' = (calls \ {c}) \cup {r}
    BY <1>23 DEF AcceptRelease, Replace
  <2> HIDE DEF r
  <2>3. UNCHANGED <<sess, owned, next, resuming>>
    BY <1>23 DEF AcceptRelease
  <2> QED
    BY <2>1, <2>2, <2>3 DEF BaresMove, Bare, Superseded
<1>24. ASSUME NEW c \in calls, Answer(c) PROVE BaresMove
  <2> DEFINE r == [c EXCEPT !.path = Front(c.path)]
  <2>1. /\ r.from = c.from /\ r.kind = c.kind /\ r.entry = c.entry
        /\ r.stage = c.stage /\ r.path = Front(c.path)
    BY EditFields DEF Typed, TypeOK
  <2>2. /\ calls' = (calls \ {c}) \cup {r} \/ (calls' = calls \ {c} /\ c.from = None)
        /\ c.path # << >> /\ c.stage \in {"ok", "err"}
    BY <1>24 DEF Answer, Replace
  <2> HIDE DEF r
  <2>3. UNCHANGED <<sess, owned, next, resuming>>
    BY <1>24 DEF Answer
  <2> QED
    BY <2>1, <2>2, <2>3 DEF BaresMove, Bare, Superseded
<1> QED
  BY <1>1, <1>2, <1>3, <1>4, <1>5, <1>6, <1>7, <1>8, <1>9, <1>10, <1>11, <1>12, <1>13,
     <1>14, <1>15, <1>16, <1>17, <1>18, <1>19, <1>20, <1>21, <1>22, <1>23, <1>24 DEF
     Next, Caller, Start, Work, Watcher, Again, Peer, Client

\* A call that is not touched, or gets another stage.
LEMMA MovedSelf ==
    ASSUME Typed, CallFrom, NEW c \in calls, NEW b, b.from = c.from, b.path = c.path
    PROVE  Moved(b, c)
BY PathIn DEF Moved

\* What becomes of the calls.
LEMMA CallsNext ==
    ASSUME Plain, Typed, Typed', Line, Line', Outside, Outside', CallShape,
       CallShape', Handing, Resuming, Kept, Kept', Forwarding, Entered, Unborn, Chain,
       Relayed, Settled, Back, Behind, [Next]_vars
    PROVE  CallsMove
<1> USE DEF procVars, regVars, sessVars, handVars, wakeVars, wireVars, histVars
<1>1. ASSUME NEW d \in Daemons,
             LoadRegistry(d) \/ Run(d) \/ OpenClaim(d) \/ Takeover(d) \/ Supersede(d)
                \/ ResumeMarked(d) \/ Spawn(d) \/ StartTurn(d) \/ EndTurn(d) \/
                Adopt(d)
      PROVE  CallsMove
  <2>1. UNCHANGED <<calls>>
    BY <1>1 DEF LoadRegistry, Run, OpenClaim, Lead, Takeover, Notify, Supersede,
       UpdateRegistry, ResumeMarked, Spawn, StartTurn, EndTurn, Adopt
  <2> QED
    BY <2>1, MovedSelf DEF CallsMove, CallShape
<1>2. ASSUME NEW d \in Daemons,
             ResumeHanded(d) \/ LaunchSettles(d) \/ Ended(d) \/ OtherProgress(d) \/
                Check(d) \/ Watch(d) \/ Reclaim(d) \/ Merge(d) \/ ClientCall(d)
      PROVE  CallsMove
  <2>1. UNCHANGED <<calls>>
    BY <1>2 DEF ResumeHanded, Notify, LaunchSettles, UpdateRegistry, Ended,
       OtherProgress, Check, Watch, Reclaim, Merge, ClientCall
  <2> QED
    BY <2>1, MovedSelf DEF CallsMove, CallShape
<1>3. ASSUME NEW d \in Daemons, NEW k \in {"close", "forget"},
             EndSession(d, k)
      PROVE  CallsMove
  <2>1. UNCHANGED <<calls>>
    BY <1>3 DEF EndSession, Notify
  <2> QED
    BY <2>1, MovedSelf DEF CallsMove, CallShape
<1>4. CASE Dispatch \/ Connect \/ Forwarded
  <2>1. UNCHANGED <<calls>>
    BY <1>4 DEF Dispatch, Returns, Connect, Goes, Forwarded
  <2> QED
    BY <2>1, MovedSelf DEF CallsMove, CallShape
<1>5. CASE UNCHANGED vars
  <2>1. UNCHANGED <<calls>>
    BY <1>5 DEF vars
  <2> QED
    BY <2>1, MovedSelf DEF CallsMove, CallShape
<1>6. ASSUME NEW d \in Daemons, Scan(d) PROVE CallsMove
  <2>1. Superseded(d)
    BY <1>6 DEF Scan, Typed, Watches, Superseded
  <2>2. sess[d] = "idle" \/ owned[d] => Keeps(d)
    BY <1>6, <2>1, NotWaiting DEF Scan, Keeps, CallShape
  <2>3. Len(<<next[d]>>) = 1 /\ <<next[d]>>[1] = next[d]
    OBVIOUS
  <2>4. ASSUME NEW b \in calls', b \notin calls PROVE Made(b)
    <3>1. Keeps(d) /\ (b = Call(d, "handoff", "marked") \/ b = Call(d, "release", reg[d]))
      BY <1>6, <2>2, <2>4 DEF Scan
    <3>2. b.from = d /\ b.path = <<next[d]>>
      BY <3>1 DEF Call
    <3> QED
      BY <2>1, <2>3, <3>1, <3>2 DEF Made
  <2> QED
    BY <2>4, MovedSelf DEF CallsMove, CallShape
<1>7. ASSUME NEW d \in Daemons, NEW c \in calls, Reported(d, c) PROVE CallsMove
  <2>1. calls' \subseteq calls
    BY <1>7 DEF Reported
  <2> QED
    BY <2>1, MovedSelf DEF CallsMove, CallShape
<1>8. ASSUME NEW d \in Daemons, Exit(d) PROVE CallsMove
  <2>1. calls' = calls
    BY <1>8, ExitCalls DEF CallShape
  <2> QED
    BY <2>1, MovedSelf DEF CallsMove, CallShape
<1>9. ASSUME NEW d \in Daemons, Crash(d) PROVE CallsMove
  BY <1>9 DEF Plain
<1>10. ASSUME NEW d \in Daemons, LeadFails(d) PROVE CallsMove
  BY <1>10 DEF LeadFails, Line
<1>11. ASSUME NEW c \in calls, Relay(c) PROVE CallsMove
  <2> DEFINE r == [c EXCEPT !.path = Append(c.path, next[Server(c)])]
  <2>1. /\ r.from = c.from /\ r.kind = c.kind /\ r.entry = c.entry
        /\ r.stage = c.stage /\ r.path = Append(c.path, next[Server(c)])
    BY EditFields DEF Typed, TypeOK
  <2>2. calls' = (calls \ {c}) \cup {r}
    BY <1>11 DEF Relay, Replace
  <2> HIDE DEF r
  <2>4. c.path # << >> /\ Superseded(Server(c)) /\ Server(c) \in Daemons /\ c.stage = "sent"
    BY <1>11, ServerIs DEF Relay
  <2>5. /\ c.path \in Seq(Daemons) /\ Len(c.path) \in Nat \ {0}
             /\ Server(c) = c.path[Len(c.path)]
        /\ c.from \in Daemons
    BY <2>4, ServerIs, PathIn DEF CallShape
  <2>6. next[Server(c)] \in Daemons
    BY <2>4 DEF Superseded, Typed, TypeOK
  <2> DEFINE p == c.path
             n == Len(p)
             x == next[Server(c)]
             q == Append(p, x)
  <2>7. Len(q) = n + 1 /\ (\A k \in 1..n : q[k] = p[k]) /\ q[n + 1] = x
    BY <2>5, <2>6, PathGrows
  <2>8. foreign[p[n]] # None /\ Superseded(p[n]) /\ x = next[p[n]]
    <3>1. n \in 1..n
      BY <2>5
    <3>2. Forwards(Server(c), c.from)
      BY <2>4, <2>5, <3>1 DEF Relayed, RelayedAt
    <3>3. report[Server(c)] = NoReport
      BY <2>4 DEF Line, Outside
    <3> QED
      BY <2>4, <2>5, <3>2, <3>3, DaemonsAssumption DEF Forwards, NoReport
  <2>9. n \in Nat \ {0}
    BY <2>5
  <2> HIDE DEF p, q, n, x
  <2>10. \A i \in 1..Len(q) :
            (i \in 1..n /\ q[i] = p[i] /\ (i < n \/ i = n)) \/ (i = n + 1 /\ q[i] = x)
    BY <2>7, <2>9
  <2>11. n \in 1..n
    BY <2>9
  <2>12. r.path = q /\ r.from = c.from
    BY <2>1 DEF q, p, x
  <2>13. Moved(r, c)
    BY <2>7, <2>8, <2>10, <2>11, <2>12 DEF Moved, p, n
  <2> QED
    BY <2>2, <2>13, MovedSelf DEF CallsMove, CallShape
<1>12. ASSUME NEW c \in calls, Unreachable(c) PROVE CallsMove
  <2> DEFINE r == [c EXCEPT !.stage = "err", !.path = Front(c.path)]
  <2>1. /\ r.from = c.from /\ r.kind = c.kind /\ r.entry = c.entry
        /\ r.stage = "err" /\ r.path = Front(c.path)
    BY EditFields DEF Typed, TypeOK
  <2>2. calls' = (calls \ {c}) \cup {r}
    BY <1>12 DEF Unreachable, Replace
  <2> HIDE DEF r
  <2>3. c.path # << >> /\ c.path \in Seq(Daemons)
    BY <1>12, PathIn DEF Unreachable, CallShape
  <2> DEFINE p == c.path
             n == Len(p)
             q == Front(p)
  <2>4. /\ n \in Nat \ {0} /\ Len(q) = n - 1 /\ \A k \in 1..(n - 1) : q[k] = p[k]
    BY <2>3, PathEnd
  <2>5. \A i \in 1..Len(q) : i \in 1..n /\ i < n /\ q[i] = p[i]
    <3> HIDE DEF p, q, n
    <3> QED
      BY <2>4
  <2>6. r.path = q /\ r.from = c.from
    BY <2>1
  <2>7. Moved(r, c)
    <3> HIDE DEF q
    <3> QED
      BY <2>5, <2>6 DEF Moved
  <2> QED
    BY <2>2, <2>7, MovedSelf DEF CallsMove, CallShape
<1>13. ASSUME NEW c \in calls, ClaimHandoff(c) PROVE CallsMove
  <2> DEFINE r == [c EXCEPT !.stage = "claimed"]
  <2>1. /\ r.from = c.from /\ r.kind = c.kind /\ r.entry = c.entry
        /\ r.stage = "claimed" /\ r.path = c.path
    BY EditFields DEF Typed, TypeOK
  <2>2. calls' = (calls \ {c}) \cup {r}
    BY <1>13 DEF ClaimHandoff, Replace
  <2> HIDE DEF r
  <2>3. Moved(r, c)
    BY <2>1, MovedSelf DEF CallShape
  <2> QED
    BY <2>2, <2>3, MovedSelf DEF CallsMove, CallShape
<1>14. ASSUME NEW c \in calls, AcceptHandoff(c) PROVE CallsMove
  <2> DEFINE r == [c EXCEPT !.stage = "ok"]
  <2>1. /\ r.from = c.from /\ r.kind = c.kind /\ r.entry = c.entry
        /\ r.stage = "ok" /\ r.path = c.path
    BY EditFields DEF Typed, TypeOK
  <2>2. calls' = (calls \ {c}) \cup {r}
    BY <1>14 DEF AcceptHandoff, Replace
  <2> HIDE DEF r
  <2>3. Moved(r, c)
    BY <2>1, MovedSelf DEF CallShape
  <2> QED
    BY <2>2, <2>3, MovedSelf DEF CallsMove, CallShape
<1>15. ASSUME NEW c \in calls, AcceptRelease(c) PROVE CallsMove
  <2> DEFINE r == [c EXCEPT !.stage = "ok"]
  <2>1. /\ r.from = c.from /\ r.kind = c.kind /\ r.entry = c.entry
        /\ r.stage = "ok" /\ r.path = c.path
    BY EditFields DEF Typed, TypeOK
  <2>2. calls' = (calls \ {c}) \cup {r}
    BY <1>15 DEF AcceptRelease, Replace
  <2> HIDE DEF r
  <2>3. Moved(r, c)
    BY <2>1, MovedSelf DEF CallShape
  <2> QED
    BY <2>2, <2>3, MovedSelf DEF CallsMove, CallShape
<1>16. ASSUME NEW c \in calls, Answer(c) PROVE CallsMove
  <2> DEFINE r == [c EXCEPT !.path = Front(c.path)]
  <2>1. /\ r.from = c.from /\ r.kind = c.kind /\ r.entry = c.entry
        /\ r.stage = c.stage /\ r.path = Front(c.path)
    BY EditFields DEF Typed, TypeOK
  <2>2. /\ calls' = (calls \ {c}) \cup {r} \/ (calls' = calls \ {c} /\ c.from = None)
        /\ c.path # << >> /\ c.stage \in {"ok", "err"}
    BY <1>16 DEF Answer, Replace
  <2> HIDE DEF r
  <2>3. c.path # << >> /\ c.path \in Seq(Daemons)
    BY <1>16, PathIn DEF Answer, CallShape
  <2> DEFINE p == c.path
             n == Len(p)
             q == Front(p)
  <2>4. /\ n \in Nat \ {0} /\ Len(q) = n - 1 /\ \A k \in 1..(n - 1) : q[k] = p[k]
    BY <2>3, PathEnd
  <2>5. \A i \in 1..Len(q) : i \in 1..n /\ i < n /\ q[i] = p[i]
    <3> HIDE DEF p, q, n
    <3> QED
      BY <2>4
  <2>6. r.path = q /\ r.from = c.from
    BY <2>1
  <2>7. Moved(r, c)
    <3> HIDE DEF q
    <3> QED
      BY <2>5, <2>6 DEF Moved
  <2> QED
    BY <2>2, <2>7, MovedSelf DEF CallsMove, CallShape
<1> QED
  BY <1>1, <1>2, <1>3, <1>4, <1>5, <1>6, <1>7, <1>8, <1>9, <1>10, <1>11, <1>12, <1>13,
     <1>14, <1>15, <1>16 DEF Next, Caller, Start, Work, Watcher, Again, Peer, Client

\* Who has shipped the session.
LEMMA ShippedNext ==
    ASSUME Plain, Typed, Typed', Line, Line', Outside, Outside', CallShape,
       CallShape', Handing, Resuming, Kept, Kept', Forwarding, Entered, Unborn, Chain,
       Relayed, Settled, Back, Behind, Apart, [Next]_vars
    PROVE  ShippedMoves
<1> USE DEF procVars, regVars, sessVars, handVars, wakeVars, wireVars, histVars
<1>0. ASSUME NEW d \in Daemons, shipped'[d] PROVE ~Exit(d)
  BY <1>0 DEF Exit, Gone, Typed, TypeOK
<1>1. ASSUME NEW d \in Daemons,
             LoadRegistry(d) \/ Run(d) \/ OpenClaim(d) \/ Supersede(d) \/
                ResumeMarked(d) \/ Spawn(d) \/ StartTurn(d) \/ EndTurn(d) \/ Adopt(d)
                \/ ResumeHanded(d)
      PROVE  ShippedMoves
  <2>1. UNCHANGED <<shipped>>
    BY <1>1 DEF LoadRegistry, Run, OpenClaim, Lead, Supersede, UpdateRegistry,
       ResumeMarked, Spawn, Notify, StartTurn, EndTurn, Adopt, ResumeHanded
  <2> QED
    BY <2>1, <1>0 DEF ShippedMoves
<1>2. ASSUME NEW d \in Daemons,
             LaunchSettles(d) \/ Ended(d) \/ OtherProgress(d) \/ Scan(d) \/ Check(d)
                \/ Watch(d) \/ Reclaim(d) \/ ClientCall(d)
      PROVE  ShippedMoves
  <2>1. UNCHANGED <<shipped>>
    BY <1>2 DEF LaunchSettles, Notify, UpdateRegistry, Ended, OtherProgress, Scan,
       Check, Watch, Reclaim, ClientCall
  <2> QED
    BY <2>1, <1>0 DEF ShippedMoves
<1>3. ASSUME NEW c \in calls,
             Relay(c) \/ Unreachable(c) \/ ClaimHandoff(c) \/ AcceptHandoff(c) \/
                AcceptRelease(c) \/ Answer(c)
      PROVE  ShippedMoves
  <2>1. UNCHANGED <<shipped>>
    BY <1>3 DEF Relay, Replace, Unreachable, ClaimHandoff, AcceptHandoff,
       UpdateRegistry, AcceptRelease, Answer, Notify
  <2> QED
    BY <2>1, <1>0 DEF ShippedMoves
<1>4. ASSUME NEW d \in Daemons, NEW k \in {"close", "forget"},
             EndSession(d, k)
      PROVE  ShippedMoves
  <2>1. UNCHANGED <<shipped>>
    BY <1>4 DEF EndSession, Notify
  <2> QED
    BY <2>1, <1>0 DEF ShippedMoves
<1>5. CASE Dispatch \/ Connect \/ Forwarded
  <2>1. UNCHANGED <<shipped>>
    BY <1>5 DEF Dispatch, Returns, Connect, Goes, Forwarded
  <2> QED
    BY <2>1, <1>0 DEF ShippedMoves
<1>6. CASE UNCHANGED vars
  <2>1. UNCHANGED <<shipped>>
    BY <1>6 DEF vars
  <2> QED
    BY <2>1, <1>0 DEF ShippedMoves
<1>7. ASSUME NEW d \in Daemons, Takeover(d) PROVE ShippedMoves
  <2>1. PICK p \in Daemons : p = claim
    BY <1>7 DEF Takeover, Typed, TypeOK
  <2>2. /\ UNCHANGED <<resuming, calls>> /\ ~Superseded(p) /\ next'[p] = d
        /\ resuming[p] \in {"no", "loading"}
    BY <1>7, <2>1, DaemonsAssumption DEF Takeover, Typed, TypeOK, Line, Plain
  <2>3. \A c \in calls : c.from # p
    BY <2>2 DEF CallShape, CallFrom
  <2>4. /\ shipped'[p] = (shipped[p] \/ Handed(p))
        /\ \A e \in Daemons \ {p} : shipped'[e] = shipped[e]
    BY <1>7, <2>1 DEF Takeover, Typed, TypeOK
  <2>5. ASSUME Handed(p) PROVE Superseded(p)' /\ Bare(p)'
    <3>6. owned' = [owned EXCEPT ![p] = sess[p] # "none" /\ ~Handed(p)]
      BY <1>7, <2>1 DEF Takeover
    <3>4. owned'[p] = (sess[p] # "none" /\ ~Handed(p))
      <4>1. owned \in [Daemons -> BOOLEAN]
        BY DEF Typed, TypeOK
      <4> QED
        BY <3>6, <4>1, Zenon
    <3>5. sess'[p] = "none"
      BY <1>7, <2>1, <2>5 DEF Takeover, Typed, TypeOK
    <3>1. sess'[p] = "none" /\ ~owned'[p]
      BY <2>5, <3>4, <3>5
    <3>2. resuming[p] = "no"
      BY <2>2, <2>5 DEF Resuming, Handed
    <3> QED
      BY <2>2, <2>3, <3>1, <3>2, DaemonsAssumption DEF Superseded, Bare
  <2> QED
    BY <1>0, <2>4, <2>5 DEF ShippedMoves
<1>8. ASSUME NEW d \in Daemons, NEW c \in calls, Reported(d, c) PROVE ShippedMoves
  <2>1. /\ c.from = d /\ calls' = calls \ {c} /\ UNCHANGED <<resuming, next>>
        /\ \A e \in Daemons \ {d} : shipped'[e] = shipped[e]
        /\ shipped'[d]
             => shipped[d] \/ (c.kind = "handoff" /\ sess'[d] = "none" /\ ~owned'[d])
    BY <1>8 DEF Reported, Typed, TypeOK
  <2>2. Superseded(d)' /\ \A b \in calls' : b.from # d
    BY <2>1, MakerWaits DEF CallShape, Superseded
  <2>3. c.kind = "handoff" => resuming[d] = "no"
    BY <2>1 DEF CallShape, CallFrom, Resuming, Typed, TypeOK
  <2> QED
    BY <1>0, <2>1, <2>2, <2>3 DEF ShippedMoves, Bare
<1>9. ASSUME NEW d \in Daemons, Merge(d) PROVE ShippedMoves
  BY <1>9 DEF Merge, Line
<1>10. ASSUME NEW d \in Daemons, Exit(d) PROVE ShippedMoves
  <2> QED
    BY <1>10, <1>0 DEF ShippedMoves, Exit, Gone, Typed, TypeOK
<1>11. ASSUME NEW d \in Daemons, Crash(d) PROVE ShippedMoves
  BY <1>11 DEF Plain
<1>12. ASSUME NEW d \in Daemons, LeadFails(d) PROVE ShippedMoves
  BY <1>12 DEF LeadFails, Line
<1> QED
  BY <1>1, <1>2, <1>3, <1>4, <1>5, <1>6, <1>7, <1>8, <1>9, <1>10, <1>11, <1>12 DEF
     Next, Caller, Start, Work, Watcher, Again, Peer, Client

\* Who has shipped, forwards or relays has nothing itself.
LEMMA ApartNext ==
    ASSUME Plain, Typed, Typed', Line, Line', Outside, Outside', CallShape,
       CallShape', Handing, Resuming, Kept, Kept', Forwarding, Entered, Unborn, Chain,
       Relayed, Settled, Back, Behind, Apart, [Next]_vars
    PROVE  Apart'
<1>1. BaresMove /\ CallsMove /\ ShippedMoves /\ StoodMoves /\ ForwardsMove
  BY BaresNext, CallsNext, ShippedNext, StoodNext, ForwardsNext
<1>2. ASSUME NEW d \in Daemons, Superseded(d)', foreign'[d] # None PROVE Bare(d)'
  <2>1. CASE Superseded(d)
    <3>1. foreign[d] # None
      BY <1>1, <1>2, <2>1 DEF ForwardsMove, Line
    <3> QED
      BY <1>1, <2>1, <3>1 DEF BaresMove, Apart
  <2>2. CASE ~Superseded(d)
    <3>1. PICK x \in Daemons : Takeover(x) /\ claim = d
      BY <1>1, <1>2, <2>2 DEF StoodMoves
    <3>2. /\ foreign[d] # None /\ UNCHANGED <<resuming, calls>>
          /\ owned' = [owned EXCEPT ![d] = sess[d] # "none" /\ ~Handed(d)]
          /\ sess'[d] = IF Handed(d) THEN "none" ELSE sess[d]
          /\ resuming[d] \in {"no", "loading"}
      BY <1>2, <3>1 DEF Takeover, Typed, TypeOK, Plain
    <3>3. owned'[d] = (sess[d] # "none" /\ ~Handed(d))
      <4>1. owned \in [Daemons -> BOOLEAN]
        BY DEF Typed, TypeOK
      <4>2. owned' = [owned EXCEPT ![d] = sess[d] # "none" /\ ~Handed(d)]
        BY <3>2
      <4> QED
        BY <4>1, <4>2, Zenon
    <3>4. foreign[d] \in Daemons
      BY <3>2 DEF Typed, TypeOK
    <3>5. sess[d] = "none" /\ resuming[d] = "no"
      BY <3>1, <3>2, <3>4 DEF Forwarding, NewestForwards, Newest, Forwards
    <3>6. ~\E c \in calls : c.from = d
      BY <2>2 DEF CallShape, CallFrom
    <3> QED
      BY <3>2, <3>3, <3>5, <3>6 DEF Bare
  <2> QED
    BY <2>1, <2>2
<1>3. ASSUME NEW d \in Daemons, shipped'[d] PROVE Superseded(d)' /\ Bare(d)'
  <2>1. CASE shipped[d] /\ ~Exit(d)
    <3>1. Superseded(d) /\ Bare(d)
      BY <2>1 DEF Apart
    <3>2. next'[d] = next[d]
      BY <1>1, <2>1, <3>1 DEF StoodMoves
    <3> QED
      BY <1>1, <3>1, <3>2 DEF BaresMove, Superseded
  <2> QED
    BY <1>1, <1>3, <2>1 DEF ShippedMoves
<1>4. ASSUME NEW b \in calls', NEW i \in 1..Len(b.path), i < Len(b.path)
      PROVE Bare(b.path[i])'
  <2>1. CASE Made(b)
    <3>1. Len(b.path) = 1
      BY <2>1 DEF Made
    <3> QED
      BY <1>4, <3>1
  <2>2. CASE \E c \in calls : Moved(b, c)
    <3>1. PICK c \in calls : Moved(b, c)
      BY <2>2
    <3> DEFINE x == c.path[i]
    <3>2. b.path[i] = x /\ i \in 1..Len(c.path)
             /\ (i < Len(c.path) \/ (Superseded(x) /\ foreign[x] # None))
      BY <1>4, <3>1 DEF Moved
    <3>3. x \in Daemons
      BY <3>2, PathIn DEF CallShape
    <3>4. Superseded(x) /\ Bare(x)
      BY <3>2, <3>3 DEF Apart, CallShape, CallPath
    <3>5. PICK y \in Daemons : y = x
      BY <3>3
    <3>6. Bare(y)'
      BY <1>1, <3>4, <3>5 DEF BaresMove
    <3> QED
      BY <3>2, <3>5, <3>6
  <2> QED
    BY <1>1, <2>1, <2>2 DEF CallsMove
<1> QED
  BY <1>2, <1>3, <1>4 DEF Apart

-----------------------------------------------------------------------------
(* The generations in their order                                          *)

\* The daemon is the newest, or superseded and running.
Stood(d) == Superseded(d) \/ Newest(d)

\* The ranks r order the daemons by generation: they tell those that stand apart,
\* the newest last, a successor right after its predecessor; whatever a daemon
\* forwards to is older, and a call's servers follow its maker.
Distinct(r) == \A d, e \in Daemons : Stood(d) /\ Stood(e) /\ r[d] = r[e] => d = e
Last(r) == \A n, d \in Daemons : Newest(n) /\ Stood(d) => r[d] <= r[n]
After(r) == \A d \in Daemons : Superseded(d) /\ Stood(next[d]) => r[next[d]] = r[d] + 1
Backwards(r) == \A d, e \in Daemons : Forwards(d, e) => r[e] < r[d]
Along(r) == \A c \in calls : \A i \in 1..Len(c.path) :
                Stood(c.path[i]) => r[c.path[i]] = r[c.from] + i
Order(r) == Distinct(r) /\ Last(r) /\ After(r) /\ Backwards(r) /\ Along(r)
Ordered == \E r \in [Daemons -> Nat] : Order(r)

\* Who stands after a step with no takeover stood before it.
LEMMA StoodKept ==
    ASSUME Plain, Typed, Typed', Line, Line', Outside, Outside', CallShape,
       CallShape', Handing, Resuming, Kept, Kept', Forwarding, Entered, Unborn, Chain,
       Relayed, Settled, Back, Behind, \A x \in Daemons : ~Takeover(x), [Next]_vars
    PROVE  \A d \in Daemons : /\ Newest(d)' => Newest(d)
                              /\ Superseded(d)' => Superseded(d) /\ next'[d] = next[d]
                              /\ Stood(d)' => Stood(d)
                              /\ \A e \in Daemons : Forwards(d, e)' => Forwards(d, e)
<1>1. StoodMoves /\ ForwardsMove
  BY StoodNext, ForwardsNext
<1>2. ASSUME NEW d \in Daemons, Exit(d) PROVE ~Superseded(d)'
  BY <1>2 DEF Exit, Gone, Superseded, Typed, TypeOK
<1>3. ASSUME NEW d \in Daemons PROVE Superseded(d)' => Superseded(d) /\ next'[d] = next[d]
  BY <1>1, <1>2 DEF StoodMoves
<1> QED
  BY <1>1, <1>3 DEF StoodMoves, ForwardsMove, Stood

\* The order of the calls' servers stays.
LEMMA AlongKept ==
    ASSUME Plain, Typed, Typed', Line, Line', Outside, Outside', CallShape,
       CallShape', Handing, Resuming, Kept, Kept', Forwarding, Entered, Unborn, Chain,
       Relayed, Settled, Back, Behind, \A x \in Daemons : ~Takeover(x), NEW r \in
       [Daemons -> Nat], After(r), Along(r), [Next]_vars
    PROVE  Along(r)'
<1>1. CallsMove
  BY CallsNext
<1>2. ASSUME NEW b \in calls', NEW i \in 1..Len(b.path), NEW y \in Daemons,
                y = b.path[i], Stood(y)'
      PROVE  r[y] = r[b.from] + i
  <2>1. Stood(y)
    BY <1>2, StoodKept
  <2>2. CASE Made(b)
    <3>1. PICK d \in Daemons :
                  b.from = d /\ Superseded(d) /\ Len(b.path) = 1 /\ b.path[1] = next[d]
      BY <2>2 DEF Made
    <3>2. i = 1 /\ y = next[d]
      BY <1>2, <3>1
    <3> QED
      BY <2>1, <3>1, <3>2 DEF After
  <2>3. CASE \E c \in calls : Moved(b, c)
    <3>1. PICK c \in calls : Moved(b, c)
      BY <2>3
    <3>2. /\ c.from \in Daemons /\ Len(c.path) \in Nat /\ b.from = c.from
          /\ \A k \in 1..Len(c.path) : c.path[k] \in Daemons
      BY <3>1, PathIn DEF CallShape, Moved
    <3>3. CASE i \in 1..Len(c.path) /\ b.path[i] = c.path[i]
      BY <1>2, <2>1, <3>2, <3>3 DEF Along
    <3>4. CASE /\ i = Len(c.path) + 1 /\ Len(c.path) \in 1..Len(c.path)
               /\ Superseded(c.path[Len(c.path)]) /\ b.path[i] = next[c.path[Len(c.path)]]
      <4> DEFINE z == c.path[Len(c.path)]
      <4>1. z \in Daemons /\ Superseded(z) /\ y = next[z]
        BY <1>2, <3>2, <3>4
      <4>2. r[z] = r[c.from] + Len(c.path)
        BY <3>2, <3>4, <4>1 DEF Along, Stood
      <4>3. r[y] = r[z] + 1
        BY <2>1, <4>1 DEF After
      <4>4. r[z] \in Nat /\ r[c.from] \in Nat
        BY <3>2, <4>1
      <4> QED
        BY <3>2, <3>4, <4>2, <4>3, <4>4
    <3> QED
      BY <1>2, <3>1, <3>3, <3>4 DEF Moved
  <2> QED
    BY <1>1, <2>2, <2>3 DEF CallsMove
<1>3. ASSUME NEW b \in calls', NEW i \in 1..Len(b.path) PROVE b.path[i] \in Daemons
  <2>1. b \in Calls
    BY <1>3 DEF Typed, TypeOK
  <2> QED
    BY <1>3, <2>1, CallFields, ElementOfSeq
<1> QED
  BY <1>2, <1>3 DEF Along

\* With no takeover the order stays.
LEMMA OrderKept ==
    ASSUME Plain, Typed, Typed', Line, Line', Outside, Outside', CallShape,
       CallShape', Handing, Resuming, Kept, Kept', Forwarding, Entered, Unborn, Chain,
       Relayed, Settled, Back, Behind, \A x \in Daemons : ~Takeover(x), NEW r \in
       [Daemons -> Nat], Order(r), [Next]_vars
    PROVE  Order(r)'
<1>1. \A d \in Daemons : /\ Newest(d)' => Newest(d)
                         /\ Superseded(d)' => Superseded(d) /\ next'[d] = next[d]
                         /\ Stood(d)' => Stood(d)
                         /\ \A e \in Daemons : Forwards(d, e)' => Forwards(d, e)
  BY StoodKept
<1>2. Distinct(r)'
  BY <1>1 DEF Order, Distinct
<1>3. Last(r)'
  BY <1>1 DEF Order, Last
<1>4. After(r)'
  <2>1. ASSUME NEW d \in Daemons, Superseded(d)', Stood(next[d])'
        PROVE r[next'[d]] = r[d] + 1
    <3>1. Superseded(d) /\ next'[d] = next[d]
      BY <1>1, <2>1
    <3>2. PICK z \in Daemons : z = next[d]
      BY <3>1 DEF Superseded, Typed, TypeOK
    <3>3. Stood(z)'
      BY <2>1, <3>1, <3>2
    <3>4. Stood(z)
      BY <1>1, <3>3
    <3> QED
      BY <3>1, <3>2, <3>4 DEF Order, After
  <2> QED
    BY <2>1 DEF After
<1>5. Backwards(r)'
  BY <1>1 DEF Order, Backwards
<1>6. Along(r)'
  BY AlongKept DEF Order
<1> QED
  BY <1>2, <1>3, <1>4, <1>5, <1>6 DEF Order

\* A server of a call is somebody's successor.
LEMMA ServersFollow ==
    ASSUME Typed, CallFrom, CallPath, NEW c \in calls, NEW i \in 1..Len(c.path)
    PROVE  \E e \in Daemons : c.path[i] = next[e]
<1>1. /\ Len(c.path) \in Nat /\ c.from \in Daemons /\ c.path \in Seq(Daemons)
      /\ \A k \in 1..Len(c.path) : c.path[k] \in Daemons
  BY PathIn
<1>2. CASE i = 1
  <2>1. c.path # << >>
    BY <1>1, <1>2
  <2> QED
    BY <1>1, <1>2, <2>1 DEF CallPath
<1>3. CASE i # 1
  <2> DEFINE j == i - 1
             n == Len(c.path)
  <2>1. j \in 1..n /\ j < n /\ j + 1 = i
    BY <1>1, <1>3
  <2>2. c.path[j + 1] = next[c.path[j]] /\ c.path[j] \in Daemons
    BY <1>1, <2>1 DEF CallPath
  <2> QED
    BY <2>1, <2>2
<1> QED
  BY <1>2, <1>3

\* In a takeover the daemon that starts comes last.
LEMMA OrderTaken ==
    ASSUME Plain, Typed, Typed', Line, Line', Outside, Outside', CallShape,
       CallShape', Handing, Resuming, Kept, Kept', Forwarding, Entered, Unborn, Chain,
       Relayed, Settled, Back, Behind, NEW x \in Daemons, Takeover(x), NEW r \in
       [Daemons -> Nat], Order(r), [Next]_vars
    PROVE  \E q \in [Daemons -> Nat] : Order(q)'
<1>1. PICK p \in Daemons : p = claim
  BY DEF Takeover, Typed, TypeOK
<1> DEFINE q == [r EXCEPT ![x] = r[p] + 1]
<1>2. /\ phase[x] = "calling" /\ next' = [next EXCEPT ![p] = x] /\ claim' = None
           /\ calls' = calls
      /\ phase' = [phase EXCEPT ![x] = "reported"] /\ foreign' = foreign
      /\ report' = [report EXCEPT ![x] = Partition(p)] /\ succession = x
  BY <1>1 DEF Takeover, Line, wireVars
<1>3. /\ p # x /\ ~Superseded(p) /\ Newest(p) /\ foreign[x] = None /\ next[x] = None
      /\ \A e \in Daemons : next[e] # x /\ foreign[e] # x /\ report[e].owner # x
      /\ \A e \in Daemons : Newest(e) => e = p
  BY <1>1, <1>2, DaemonsAssumption DEF Line, Outside, Newest
<1>4. /\ q \in [Daemons -> Nat] /\ q[x] = r[p] + 1 /\ \A e \in Daemons \ {x} : q[e] = r[e]
      /\ \A e \in Daemons : r[e] \in Nat /\ q[e] \in Nat
  OBVIOUS
<1> HIDE DEF q
<1>5. \A d \in Daemons : /\ Newest(d)' => d = x
                         /\ Superseded(d)' <=> Superseded(d) \/ d = p
                         /\ d # p => next'[d] = next[d]
  BY <1>1, <1>2, <1>3, DaemonsAssumption DEF Newest, Superseded, Line, Typed, TypeOK
<1>6. next'[p] = x /\ report'[x] = Partition(p) /\ \A d \in Daemons \ {x} :
         report'[d] = report[d]
  BY <1>2 DEF Typed, TypeOK
<1>7. \A d \in Daemons : Stood(d)' => Stood(d) \/ d = x
  BY <1>3, <1>5 DEF Stood
<1>8. \A d \in Daemons : Stood(d) => d # x /\ r[d] <= r[p]
  BY <1>3 DEF Stood, Order, Last, Superseded
<1>9. Distinct(q)'
  <2>1. ASSUME NEW d \in Daemons, NEW e \in Daemons, Stood(d)', Stood(e)', q[d] = q[e]
        PROVE d = e
    <3>1. CASE d # x /\ e # x
      BY <1>4, <1>7, <2>1, <3>1 DEF Order, Distinct
    <3>2. CASE d = x /\ e # x
      BY <1>4, <1>7, <1>8, <2>1, <3>2
    <3>3. CASE d # x /\ e = x
      BY <1>4, <1>7, <1>8, <2>1, <3>3
    <3> QED
      BY <3>1, <3>2, <3>3
  <2> QED
    BY <2>1 DEF Distinct
<1>10. Last(q)'
  BY <1>4, <1>5, <1>7, <1>8 DEF Last
<1>11. After(q)'
  <2>1. ASSUME NEW d \in Daemons, Superseded(d)', Stood(next[d])'
        PROVE q[next'[d]] = q[d] + 1
    <3>1. CASE d = p
      BY <1>3, <1>4, <1>6, <3>1
    <3>2. CASE d # p
      <4>1. Superseded(d) /\ next'[d] = next[d] /\ next[d] # x /\ d # x
        BY <1>3, <1>5, <2>1, <3>2 DEF Superseded
      <4>2. PICK z \in Daemons : z = next[d]
        BY <4>1 DEF Superseded, Typed, TypeOK
      <4>3. Stood(z)'
        BY <2>1, <4>1, <4>2
      <4>4. Stood(z)
        BY <1>7, <4>1, <4>2, <4>3
      <4> QED
        BY <1>4, <4>1, <4>2, <4>4 DEF Order, After
    <3> QED
      BY <3>1, <3>2
  <2> QED
    BY <2>1 DEF After
<1>12. Backwards(q)'
  <2>1. ASSUME NEW d \in Daemons, NEW e \in Daemons, Forwards(d, e)' PROVE q[e] < q[d]
    <3>1. CASE d # x
      <4>1. Forwards(d, e)
        BY <1>2, <1>6, <2>1, <3>1 DEF Forwards
      <4>2. e # x
        BY <1>3, <4>1 DEF Forwards
      <4> QED
        BY <1>4, <3>1, <4>1, <4>2 DEF Order, Backwards
    <3>2. CASE d = x
      <4>1. Partition(p).kind = "kept" /\ Partition(p).owner = e
        BY <1>2, <1>3, <1>6, <2>1, <3>2, DaemonsAssumption DEF Forwards
      <4>2. e = p \/ foreign[p] = e
        BY <4>1 DEF Partition, NoReport
      <4>3. e # x
        BY <1>3, <4>2
      <4>4. r[e] <= r[p]
        BY <1>4, <4>2 DEF Order, Backwards, Forwards
      <4> QED
        BY <1>4, <3>2, <4>3, <4>4
    <3> QED
      BY <3>1, <3>2
  <2> QED
    BY <2>1 DEF Backwards
<1>13. Along(q)'
  <2>1. ASSUME NEW c \in calls, NEW i \in 1..Len(c.path), Stood(c.path[i])'
        PROVE q[c.path[i]] = q[c.from] + i
    <3>1. /\ c.from \in Daemons /\ Superseded(c.from) /\ Len(c.path) \in Nat
          /\ \A k \in 1..Len(c.path) : c.path[k] \in Daemons
      BY PathIn, MakerWaits DEF CallShape
    <3>2. c.path[i] # x
      BY <1>3, ServersFollow DEF CallShape
    <3>3. PICK z \in Daemons : z = c.path[i]
      BY <3>1
    <3>4. Stood(z)'
      BY <2>1, <3>3
    <3>5. Stood(z)
      BY <1>7, <3>2, <3>3, <3>4
    <3>6. c.from # x
      BY <1>3, <3>1 DEF Superseded
    <3> QED
      BY <1>4, <3>1, <3>2, <3>3, <3>5, <3>6 DEF Order, Along
  <2> QED
    BY <1>2, <2>1 DEF Along
<1>14. Order(q)'
  BY <1>9, <1>10, <1>11, <1>12, <1>13 DEF Order
<1> QED
  BY <1>4, <1>14

\* There is an order after each step,
LEMMA OrderedNext ==
    ASSUME Plain, Typed, Typed', Line, Line', Outside, Outside', CallShape,
       CallShape', Handing, Resuming, Kept, Kept', Forwarding, Entered, Unborn, Chain,
       Relayed, Settled, Back, Behind, Ordered, [Next]_vars
    PROVE  Ordered'
<1>1. PICK r \in [Daemons -> Nat] : Order(r)
  BY DEF Ordered
<1>2. CASE \E x \in Daemons : Takeover(x)
  BY <1>1, <1>2, OrderTaken DEF Ordered
<1>3. CASE \A x \in Daemons : ~Takeover(x)
  BY <1>1, <1>3, OrderKept DEF Ordered
<1> QED
  BY <1>2, <1>3

\* and at the start.
LEMMA InitOrdered == Init => Ordered
<1>1. ASSUME Init PROVE Ordered
  <2> DEFINE r == [d \in Daemons |-> 0]
  <2>1. /\ next = [d \in Daemons |-> None] /\ foreign = [d \in Daemons |-> None]
             /\ calls = {}
        /\ report = [d \in Daemons |-> NoReport] /\ \A d \in Daemons : phase[d] # "reported"
    BY <1>1 DEF Init
  <2>2. \A d, e \in Daemons : ~Superseded(d) /\ (Stood(d) => d = claim) /\ ~Forwards(d, e)
    BY <2>1, DaemonsAssumption DEF Superseded, Stood, Newest, Forwards, NoReport
  <2>3. r \in [Daemons -> Nat] /\ \A d \in Daemons : r[d] = 0
    OBVIOUS
  <2> HIDE DEF r
  <2>4. Distinct(r) /\ Last(r) /\ After(r) /\ Backwards(r) /\ Along(r)
    BY <2>1, <2>2, <2>3 DEF Distinct, Last, After, Backwards, Along
  <2> QED
    BY <2>3, <2>4 DEF Order, Ordered
<1> QED
  BY <1>1

\* A superseded daemon waits for the accepted answer to a report of e's, to relay
\* it.
Telling(d, e) ==
    \E c \in calls : /\ c.from = e /\ c.stage = "ok"
                     /\ \E i \in 1..Len(c.path) : i < Len(c.path) /\ c.path[i] = d

\* A superseded daemon forwards only to one that keeps the session, or until the
\* answer that passes through it tells it not to.
Trail ==
    \A d, e \in Daemons : Superseded(d) /\ foreign[d] = e => Keeps(e) \/ Telling(d, e)

\* Whoever forwards to a report's maker is on the report's way.
LEMMA OnTheWay ==
    ASSUME Plain, Typed, Line, Outside, CallShape, Handing, Resuming, Kept,
       Forwarding, Entered, Unborn, Chain, Relayed, Settled, Back, Behind, Ordered,
       NEW c \in calls, AcceptHandoff(c) \/ AcceptRelease(c), NEW d \in Daemons,
       Superseded(d), foreign[d] = c.from
    PROVE  \E i \in 1..Len(c.path) : i < Len(c.path) /\ c.path[i] = d
<1> DEFINE s == Server(c)
           e == c.from
           n == Len(c.path)
<1>1. /\ s \in Daemons /\ claim = s /\ ~Superseded(s) /\ e \in Daemons /\ c.path # << >>
  BY ReceivedAt
<1>2. n \in Nat \ {0} /\ s = c.path[n] /\ \A k \in 1..n : c.path[k] \in Daemons
  BY <1>1, ServerIs, PathIn DEF CallShape
<1>3. \A k \in 1..n : k < n => Superseded(c.path[k])
  BY DEF CallShape, CallPath
<1>4. PICK r \in [Daemons -> Nat] : Order(r)
  BY DEF Ordered
<1>5. Stood(s) /\ Newest(s) /\ Stood(d) /\ Forwards(d, e) /\ d # s
  BY <1>1 DEF Stood, Newest, Forwards
<1>6. r[s] = r[e] + n
  BY <1>2, <1>4, <1>5 DEF Order, Along
<1>7. r[e] < r[d] /\ r[d] <= r[s] /\ r[d] # r[s]
  BY <1>1, <1>4, <1>5 DEF Order, Backwards, Last, Distinct
<1>8. r[e] \in Nat /\ r[d] \in Nat /\ r[s] \in Nat
  BY <1>1, <1>4
<1>9. PICK k \in 1..n : k < n /\ r[d] = r[e] + k
  <2> DEFINE k == r[d] - r[e]
  <2> HIDE DEF s, e, n
  <2>1. k \in 1..n /\ k < n /\ r[d] = r[e] + k
    BY <1>2, <1>6, <1>7, <1>8
  <2> QED
    BY <2>1
<1>10. Stood(c.path[k]) /\ c.path[k] \in Daemons
  BY <1>2, <1>3, <1>9 DEF Stood
<1>11. r[c.path[k]] = r[e] + k
  BY <1>4, <1>9, <1>10 DEF Order, Along
<1> QED
  BY <1>4, <1>5, <1>9, <1>10, <1>11 DEF Order, Distinct

\* So it will be told.
LEMMA AcceptTells ==
    ASSUME Plain, Typed, Line, Outside, CallShape, Handing, Resuming, Kept,
       Forwarding, Entered, Unborn, Chain, Relayed, Settled, Back, Behind, Ordered,
       NEW e \in Daemons, AcceptFrom(e), NEW d \in Daemons, Superseded(d), foreign[d]
       = e
    PROVE  Telling(d, e)'
<1>1. PICK c \in calls : c.from = e /\ (AcceptHandoff(c) \/ AcceptRelease(c))
  BY DEF AcceptFrom
<1> DEFINE r == [c EXCEPT !.stage = "ok"]
<1>2. r.from = c.from /\ r.path = c.path /\ r.stage = "ok"
  BY EditFields DEF Typed, TypeOK
<1>3. r \in calls'
  BY <1>1 DEF AcceptHandoff, AcceptRelease, Replace
<1>4. \E i \in 1..Len(c.path) : i < Len(c.path) /\ c.path[i] = d
  BY <1>1, OnTheWay
<1> HIDE DEF r
<1>5. PICK s \in calls' : s = r
  BY <1>3
<1> QED
  BY <1>1, <1>2, <1>4, <1>5 DEF Telling

\* Who is told has forgotten the forward when the answer has passed.
TellingMoves == \A d, e \in Daemons : Telling(d, e) => Telling(d, e)' \/ foreign'[d] = None

\* Who is told, step by step.
LEMMA TellingNext ==
    ASSUME Plain, Typed, Typed', Line, Line', Outside, Outside', CallShape,
       CallShape', Handing, Resuming, Kept, Kept', Forwarding, Entered, Unborn, Chain,
       Relayed, Settled, Back, Behind, [Next]_vars
    PROVE  TellingMoves
<1> USE DEF procVars, regVars, sessVars, handVars, wakeVars, wireVars, histVars
<1>1. ASSUME NEW d \in Daemons,
             LoadRegistry(d) \/ Run(d) \/ OpenClaim(d) \/ Takeover(d) \/ Supersede(d)
                \/ ResumeMarked(d) \/ Spawn(d) \/ StartTurn(d) \/ EndTurn(d) \/
                Adopt(d)
      PROVE  TellingMoves
  <2>1. UNCHANGED <<calls>>
    BY <1>1 DEF LoadRegistry, Run, OpenClaim, Lead, Takeover, Notify, Supersede,
       UpdateRegistry, ResumeMarked, Spawn, StartTurn, EndTurn, Adopt
  <2> QED
    BY <2>1 DEF TellingMoves, Telling
<1>2. ASSUME NEW d \in Daemons,
             ResumeHanded(d) \/ LaunchSettles(d) \/ Ended(d) \/ OtherProgress(d) \/
                Check(d) \/ Watch(d) \/ Reclaim(d) \/ Merge(d) \/ ClientCall(d)
      PROVE  TellingMoves
  <2>1. UNCHANGED <<calls>>
    BY <1>2 DEF ResumeHanded, Notify, LaunchSettles, UpdateRegistry, Ended,
       OtherProgress, Check, Watch, Reclaim, Merge, ClientCall
  <2> QED
    BY <2>1 DEF TellingMoves, Telling
<1>3. ASSUME NEW d \in Daemons, NEW k \in {"close", "forget"},
             EndSession(d, k)
      PROVE  TellingMoves
  <2>1. UNCHANGED <<calls>>
    BY <1>3 DEF EndSession, Notify
  <2> QED
    BY <2>1 DEF TellingMoves, Telling
<1>4. CASE Dispatch \/ Connect \/ Forwarded
  <2>1. UNCHANGED <<calls>>
    BY <1>4 DEF Dispatch, Returns, Connect, Goes, Forwarded
  <2> QED
    BY <2>1 DEF TellingMoves, Telling
<1>5. CASE UNCHANGED vars
  <2>1. UNCHANGED <<calls>>
    BY <1>5 DEF vars
  <2> QED
    BY <2>1 DEF TellingMoves, Telling
<1>6. ASSUME NEW d \in Daemons, Scan(d) PROVE TellingMoves
  <2>1. calls \subseteq calls'
    BY <1>6 DEF Scan
  <2> QED
    BY <2>1 DEF TellingMoves, Telling
<1>7. ASSUME NEW d \in Daemons, NEW c \in calls, Reported(d, c) PROVE TellingMoves
  <2>1. c.path = << >> /\ calls' = calls \ {c}
    BY <1>7 DEF Reported
  <2>2. Len(c.path) = 0
    BY <2>1
  <2>3. \A i \in 1..Len(c.path) : FALSE
    BY <2>2
  <2> QED
    BY <2>1, <2>3 DEF TellingMoves, Telling
<1>8. ASSUME NEW d \in Daemons, Exit(d) PROVE TellingMoves
  <2>1. calls' = calls
    BY <1>8, ExitCalls DEF CallShape
  <2> QED
    BY <2>1 DEF TellingMoves, Telling
<1>9. ASSUME NEW d \in Daemons, Crash(d) PROVE TellingMoves
  BY <1>9 DEF Plain
<1>10. ASSUME NEW d \in Daemons, LeadFails(d) PROVE TellingMoves
  BY <1>10 DEF LeadFails, Line
<1>11. ASSUME NEW c \in calls, Relay(c) PROVE TellingMoves
  <2> DEFINE r == [c EXCEPT !.path = Append(c.path, next[Server(c)])]
  <2>1. /\ r.from = c.from /\ r.kind = c.kind /\ r.entry = c.entry
        /\ r.stage = c.stage /\ r.path = Append(c.path, next[Server(c)])
    BY EditFields DEF Typed, TypeOK
  <2>2. calls' = (calls \ {c}) \cup {r}
    BY <1>11 DEF Relay, Replace
  <2> HIDE DEF r
  <2>3. c.stage # "ok"
    BY <1>11 DEF Relay, CallShape, CallClaimed
  <2>4. \A b \in calls : b.stage = "ok" => b \in calls'
    BY <2>2, <2>3
  <2> QED
    BY <2>4 DEF TellingMoves, Telling
<1>12. ASSUME NEW c \in calls, Unreachable(c) PROVE TellingMoves
  <2> DEFINE r == [c EXCEPT !.stage = "err", !.path = Front(c.path)]
  <2>1. /\ r.from = c.from /\ r.kind = c.kind /\ r.entry = c.entry
        /\ r.stage = "err" /\ r.path = Front(c.path)
    BY EditFields DEF Typed, TypeOK
  <2>2. calls' = (calls \ {c}) \cup {r}
    BY <1>12 DEF Unreachable, Replace
  <2> HIDE DEF r
  <2>3. c.stage # "ok"
    BY <1>12 DEF Unreachable, CallShape, CallClaimed
  <2>4. \A b \in calls : b.stage = "ok" => b \in calls'
    BY <2>2, <2>3
  <2> QED
    BY <2>4 DEF TellingMoves, Telling
<1>13. ASSUME NEW c \in calls, ClaimHandoff(c) PROVE TellingMoves
  <2> DEFINE r == [c EXCEPT !.stage = "claimed"]
  <2>1. /\ r.from = c.from /\ r.kind = c.kind /\ r.entry = c.entry
        /\ r.stage = "claimed" /\ r.path = c.path
    BY EditFields DEF Typed, TypeOK
  <2>2. calls' = (calls \ {c}) \cup {r}
    BY <1>13 DEF ClaimHandoff, Replace
  <2> HIDE DEF r
  <2>3. c.stage # "ok"
    BY <1>13 DEF ClaimHandoff, CallShape, CallClaimed
  <2>4. \A b \in calls : b.stage = "ok" => b \in calls'
    BY <2>2, <2>3
  <2> QED
    BY <2>4 DEF TellingMoves, Telling
<1>14. ASSUME NEW c \in calls, AcceptHandoff(c) PROVE TellingMoves
  <2> DEFINE r == [c EXCEPT !.stage = "ok"]
  <2>1. /\ r.from = c.from /\ r.kind = c.kind /\ r.entry = c.entry
        /\ r.stage = "ok" /\ r.path = c.path
    BY EditFields DEF Typed, TypeOK
  <2>2. calls' = (calls \ {c}) \cup {r}
    BY <1>14 DEF AcceptHandoff, Replace
  <2> HIDE DEF r
  <2>3. c.stage # "ok"
    BY <1>14 DEF AcceptHandoff, CallShape, CallClaimed
  <2>4. \A b \in calls : b.stage = "ok" => b \in calls'
    BY <2>2, <2>3
  <2> QED
    BY <2>4 DEF TellingMoves, Telling
<1>15. ASSUME NEW c \in calls, AcceptRelease(c) PROVE TellingMoves
  <2> DEFINE r == [c EXCEPT !.stage = "ok"]
  <2>1. /\ r.from = c.from /\ r.kind = c.kind /\ r.entry = c.entry
        /\ r.stage = "ok" /\ r.path = c.path
    BY EditFields DEF Typed, TypeOK
  <2>2. calls' = (calls \ {c}) \cup {r}
    BY <1>15 DEF AcceptRelease, Replace
  <2> HIDE DEF r
  <2>3. c.stage # "ok"
    BY <1>15 DEF AcceptRelease, CallShape, CallClaimed
  <2>4. \A b \in calls : b.stage = "ok" => b \in calls'
    BY <2>2, <2>3
  <2> QED
    BY <2>4 DEF TellingMoves, Telling
<1>16. ASSUME NEW c \in calls, Answer(c) PROVE TellingMoves
  <2> DEFINE r == [c EXCEPT !.path = Front(c.path)]
  <2>1. /\ r.from = c.from /\ r.kind = c.kind /\ r.entry = c.entry
        /\ r.stage = c.stage /\ r.path = Front(c.path)
    BY EditFields DEF Typed, TypeOK
  <2>2. /\ calls' = (calls \ {c}) \cup {r} \/ (calls' = calls \ {c} /\ c.from = None)
        /\ c.path # << >> /\ c.stage \in {"ok", "err"}
    BY <1>16 DEF Answer, Replace
  <2> HIDE DEF r
  <2>3. c.path # << >> /\ c.path \in Seq(Daemons) /\ c.from \in Daemons
    BY <1>16, PathIn DEF Answer, CallShape
  <2> DEFINE p == c.path
             n == Len(p)
             q == Front(p)
  <2>4. n \in Nat \ {0} /\ Len(q) = n - 1 /\ \A k \in 1..(n - 1) : q[k] = p[k]
    BY <2>3, PathEnd
  <2>5. ASSUME NEW i \in 1..n, i < n, c.stage = "ok"
        PROVE (i \in 1..Len(q) /\ i < Len(q) /\ q[i] = p[i]) \/ foreign'[p[i]] = None
    <3>1. CASE i < n - 1
      <4> HIDE DEF p, q, n
      <4> QED
        BY <2>4, <2>5, <3>1
    <3>2. CASE i = n - 1
      <4> DEFINE m == Len(q)
      <4>1. m = i /\ q[m] = p[i] /\ q # << >>
        <5> HIDE DEF p, n
        <5>1. Len(q) # 0
          BY <2>4, <2>5, <3>2
        <5>2. Len(<< >>) = 0
          OBVIOUS
        <5> QED
          BY <2>4, <2>5, <3>2, <5>1, <5>2
      <4>2. foreign' = [foreign EXCEPT ![q[m]] = None]
        BY <1>16, <2>5, <4>1 DEF Answer
      <4>3. p[i] \in Daemons
        BY <2>5, PathIn DEF CallShape
      <4> QED
        BY <4>1, <4>2, <4>3 DEF Typed, TypeOK
    <3> QED
      <4> HIDE DEF p, q
      <4> QED
        BY <2>4, <2>5, <3>1, <3>2
  <2> HIDE DEF p, q, n
  <2>6. p = c.path /\ n = Len(c.path) /\ q = Front(c.path)
    BY DEF p, q, n
  <2>7. calls' = (calls \ {c}) \cup {r}
    BY <2>2, <2>3, DaemonsAssumption
  <2>8. ASSUME NEW d \in Daemons, NEW e \in Daemons, Telling(d, e)
        PROVE Telling(d, e)' \/ foreign'[d] = None
    <3>1. PICK b \in calls : /\ b.from = e /\ b.stage = "ok"
                             /\ \E i \in 1..Len(b.path) : i < Len(b.path) /\ b.path[i] = d
      BY <2>8 DEF Telling
    <3>2. CASE b # c
      BY <2>7, <3>1, <3>2 DEF Telling
    <3>3. CASE b = c
      <4>1. PICK i \in 1..n : i < n /\ p[i] = d
        BY <2>6, <3>1, <3>3
      <4>2. CASE i \in 1..Len(q) /\ i < Len(q) /\ q[i] = d
        <5>1. r \in calls' /\ r.path = q /\ r.from = e /\ r.stage = "ok"
          BY <2>1, <2>6, <2>7, <3>1, <3>3
        <5>2. PICK s \in calls' : s = r
          BY <5>1
        <5> QED
          BY <4>2, <5>1, <5>2 DEF Telling
      <4> QED
        BY <2>5, <3>1, <3>3, <4>1, <4>2
    <3> QED
      BY <3>2, <3>3
  <2> QED
    BY <2>8 DEF TellingMoves
<1> QED
  BY <1>1, <1>2, <1>3, <1>4, <1>5, <1>6, <1>7, <1>8, <1>9, <1>10, <1>11, <1>12, <1>13,
     <1>14, <1>15, <1>16 DEF Next, Caller, Start, Work, Watcher, Again, Peer, Client

\* A forward that leads nowhere is on its way out, step by step.
LEMMA TrailNext ==
    ASSUME Plain, Typed, Typed', Line, Line', Outside, Outside', CallShape,
       CallShape', Handing, Resuming, Kept, Kept', Forwarding, Entered, Unborn, Chain,
       Relayed, Settled, Back, Behind, Ordered, Trail, [Next]_vars
    PROVE  Trail'
<1>1. StoodMoves /\ ForwardsMove /\ StopsMove /\ TellingMoves
  BY StoodNext, ForwardsNext, StopsNext, TellingNext
<1>2. ASSUME NEW d \in Daemons, NEW e \in Daemons, Superseded(d)', foreign'[d] = e
      PROVE  Keeps(e)' \/ Telling(d, e)'
  <2>1. CASE Superseded(d)
    <3>1. foreign[d] = e
      BY <1>1, <1>2, <2>1, DaemonsAssumption DEF ForwardsMove, Line
    <3>2. CASE Keeps(e)
      BY <1>1, <2>1, <3>1, <3>2, AcceptTells DEF StopsMove
    <3>3. CASE Telling(d, e)
      BY <1>1, <1>2, <3>3, DaemonsAssumption DEF TellingMoves
    <3> QED
      BY <2>1, <3>1, <3>2, <3>3 DEF Trail
  <2>2. CASE ~Superseded(d)
    <3>1. PICK x \in Daemons : Takeover(x) /\ claim = d
      BY <1>1, <1>2, <2>2 DEF StoodMoves
    <3>2. foreign[d] = e
      BY <1>2, <3>1 DEF Takeover
    <3>3. Keeps(e)
      BY <3>1, <3>2 DEF Back, Newest, Forwards
    <3> QED
      BY <1>1, <3>1, <3>3, TakeoverAlone DEF StopsMove
  <2> QED
    BY <2>1, <2>2
<1> QED
  BY <1>2 DEF Trail

-----------------------------------------------------------------------------
(* A client's call finds the session                                       *)

\* The call is under way.
Calling == client.stage \in {"route", "hold", "sent", "served"}

\* It is at a daemon that has the session in its registry. It is forwarded once,
\* to where that daemon forwards, and waits for a resume thrice at most: for the
\* one that is under way, for its end as the daemon is superseded, and once more
\* where the first came before the second.
Guided ==
    Calling /\ ~forgot =>
        /\ born /\ phase[client.at] = "serving" /\ reg[client.at] # "absent"
        /\ client.stage \in {"sent", "served"} =>
             /\ client.n = 1 /\ client.to \in Daemons \ {client.at}
             /\ foreign[client.at] \in {client.to, None}
        /\ client.stage = "hold" =>
             /\ resuming[client.at] # "no" /\ foreign[client.at] = None
             /\ client.n <= IF Superseded(client.at) THEN 3 ELSE 2
        /\ client.stage = "route" =>
             /\ client.n <= 3 /\ (foreign[client.at] # None => client.n = 0)
             /\ resuming[client.at] # "no"
                  => client.n <= IF Superseded(client.at) THEN 2 ELSE 1

\* The history of the session is kept.
Recorded == (born => born') /\ (forgot => forgot')

\* A daemon that serves does until it exits; the session leaves its registry
\* when it is forgotten, and is resumed where it was forwarded from.
ServesMove ==
    \A d \in Daemons : phase[d] = "serving" /\ ~Exit(d) =>
        /\ phase'[d] = "serving"
        /\ born /\ ~forgot' /\ reg[d] # "absent" => reg'[d] # "absent"
        /\ resuming[d] = "no" /\ resuming'[d] # "no" => foreign[d] # None

\* The call moves by itself, or from its wait: when the resume ended, or when the
\* daemon is superseded; it ends with the daemon it is at.
CallMoves ==
    \/ client' = client /\ (client.stage = "hold" => resuming'[client.at] # "no")
    \/ /\ client.stage = "hold" /\ client' = [client EXCEPT !.stage = "route"]
       /\ resuming'[client.at] = "no" \/ (~Superseded(client.at) /\ next'[client.at] # None)
    \/ client' = NoCall
    \/ (\E d \in Daemons : ClientCall(d)) \/ Client

\* What was started or forgotten.
LEMMA RecordedNext ==
    ASSUME Typed, [Next]_vars
    PROVE  Recorded
<1> USE DEF procVars, regVars, sessVars, handVars, wakeVars, wireVars, histVars
<1>1. ASSUME NEW d \in Daemons,
             LoadRegistry(d) \/ Run(d) \/ OpenClaim(d) \/ Takeover(d) \/ Supersede(d)
                \/ ResumeMarked(d) \/ StartTurn(d) \/ EndTurn(d) \/ Adopt(d) \/
                ResumeHanded(d)
      PROVE  Recorded
  <2>1. UNCHANGED <<born, forgot>>
    BY <1>1 DEF LoadRegistry, Run, OpenClaim, Lead, Takeover, Notify, Supersede,
       UpdateRegistry, ResumeMarked, StartTurn, EndTurn, Adopt, ResumeHanded
  <2> QED
    BY <2>1 DEF Recorded
<1>2. ASSUME NEW d \in Daemons,
             LaunchSettles(d) \/ OtherProgress(d) \/ Scan(d) \/ Check(d) \/ Watch(d)
                \/ Reclaim(d) \/ Merge(d) \/ Exit(d) \/ Crash(d) \/ LeadFails(d)
      PROVE  Recorded
  <2>1. UNCHANGED <<born, forgot>>
    BY <1>2 DEF LaunchSettles, Notify, UpdateRegistry, OtherProgress, Scan, Check,
       Watch, Reclaim, Merge, Exit, Gone, Crash, LeadFails
  <2> QED
    BY <2>1 DEF Recorded
<1>3. ASSUME NEW d \in Daemons, ClientCall(d) PROVE Recorded
  <2>1. UNCHANGED <<born, forgot>>
    BY <1>3 DEF ClientCall
  <2> QED
    BY <2>1 DEF Recorded
<1>4. ASSUME NEW c \in calls,
             Relay(c) \/ Unreachable(c) \/ ClaimHandoff(c) \/ AcceptHandoff(c) \/
                AcceptRelease(c) \/ Answer(c)
      PROVE  Recorded
  <2>1. UNCHANGED <<born, forgot>>
    BY <1>4 DEF Relay, Replace, Unreachable, ClaimHandoff, AcceptHandoff,
       UpdateRegistry, AcceptRelease, Answer, Notify
  <2> QED
    BY <2>1 DEF Recorded
<1>5. ASSUME NEW d \in Daemons, NEW k \in {"close", "forget"},
             EndSession(d, k)
      PROVE  Recorded
  <2>1. UNCHANGED <<born, forgot>>
    BY <1>5 DEF EndSession, Notify
  <2> QED
    BY <2>1 DEF Recorded
<1>6. ASSUME NEW d \in Daemons, NEW c \in calls, Reported(d, c) PROVE Recorded
  <2>1. UNCHANGED <<born, forgot>>
    BY <1>6 DEF Reported, Notify
  <2> QED
    BY <2>1 DEF Recorded
<1>7. CASE Dispatch \/ Connect \/ Forwarded
  <2>1. UNCHANGED <<born, forgot>>
    BY <1>7 DEF Dispatch, Returns, Connect, Goes, Forwarded
  <2> QED
    BY <2>1 DEF Recorded
<1>8. CASE UNCHANGED vars
  <2>1. UNCHANGED <<born, forgot>>
    BY <1>8 DEF vars
  <2> QED
    BY <2>1 DEF Recorded
<1>9. ASSUME NEW d \in Daemons, Spawn(d) PROVE Recorded
  BY <1>9 DEF Recorded, Spawn, Notify, UpdateRegistry
<1>10. ASSUME NEW d \in Daemons, Ended(d) PROVE Recorded
  BY <1>10 DEF Recorded, Ended, Notify, UpdateRegistry
<1> QED
  BY <1>1, <1>2, <1>3, <1>4, <1>5, <1>6, <1>7, <1>8, <1>9, <1>10 DEF Next, Caller,
     Start, Work, Watcher, Again, Peer, Client

\* The entries on the wire are there while the session is not forgotten.
LEMMA WireAt ==
    ASSUME OnFile, NEW c \in calls, AcceptRelease(c)
    PROVE  born /\ ~forgot' => c.entry # "absent"
BY DEF OnFile, WireIn, AcceptRelease, histVars

\* A daemon that serves.
LEMMA ServesNext ==
    ASSUME Plain, Typed, Typed', Line, Line', Outside, Outside', CallShape,
       CallShape', Handing, Resuming, Kept, Kept', Forwarding, Entered, Unborn, Chain,
       Relayed, Settled, Back, Behind, OnFile, [Next]_vars
    PROVE  ServesMove
<1> USE DEF procVars, regVars, sessVars, handVars, wakeVars, wireVars, histVars
<1>1. ASSUME NEW d \in Daemons,
             StartTurn(d) \/ EndTurn(d) \/ Adopt(d) \/ Scan(d) \/ Check(d) \/
                ClientCall(d)
      PROVE  ServesMove
  <2>1. UNCHANGED <<phase, reg, resuming>>
    BY <1>1 DEF StartTurn, Notify, EndTurn, Adopt, Scan, Check, ClientCall
  <2> QED
    BY <2>1 DEF ServesMove
<1>2. ASSUME NEW c \in calls, Relay(c) \/ Unreachable(c) \/ Answer(c) PROVE ServesMove
  <2>1. UNCHANGED <<phase, reg, resuming>>
    BY <1>2 DEF Relay, Replace, Unreachable, Answer, Notify
  <2> QED
    BY <2>1 DEF ServesMove
<1>3. ASSUME NEW d \in Daemons, NEW k \in {"close", "forget"},
             EndSession(d, k)
      PROVE  ServesMove
  <2>1. UNCHANGED <<phase, reg, resuming>>
    BY <1>3 DEF EndSession, Notify
  <2> QED
    BY <2>1 DEF ServesMove
<1>4. ASSUME NEW d \in Daemons, NEW c \in calls, Reported(d, c) PROVE ServesMove
  <2>1. UNCHANGED <<phase, reg, resuming>>
    BY <1>4 DEF Reported, Notify
  <2> QED
    BY <2>1 DEF ServesMove
<1>5. CASE Dispatch \/ Connect \/ Forwarded
  <2>1. UNCHANGED <<phase, reg, resuming>>
    BY <1>5 DEF Dispatch, Returns, Connect, Goes, Forwarded
  <2> QED
    BY <2>1 DEF ServesMove
<1>6. CASE UNCHANGED vars
  <2>1. UNCHANGED <<phase, reg, resuming>>
    BY <1>6 DEF vars
  <2> QED
    BY <2>1 DEF ServesMove
<1>7. ASSUME NEW d \in Daemons, LoadRegistry(d) PROVE ServesMove
  BY <1>7 DEF ServesMove, Typed, TypeOK, LoadRegistry
<1>8. ASSUME NEW d \in Daemons, Run(d) PROVE ServesMove
  BY <1>8 DEF ServesMove, Typed, TypeOK, Run
<1>9. ASSUME NEW d \in Daemons, OpenClaim(d) PROVE ServesMove
  BY <1>9 DEF ServesMove, Typed, TypeOK, OpenClaim, Lead
<1>10. ASSUME NEW d \in Daemons, Takeover(d) PROVE ServesMove
  BY <1>10 DEF ServesMove, Typed, TypeOK, Takeover, Notify
<1>11. ASSUME NEW d \in Daemons, Supersede(d) PROVE ServesMove
  BY <1>11 DEF ServesMove, Typed, TypeOK, Supersede, Lead, UpdateRegistry
<1>12. ASSUME NEW d \in Daemons, ResumeMarked(d) PROVE ServesMove
  BY <1>12 DEF ServesMove, Typed, TypeOK, ResumeMarked
<1>13. ASSUME NEW d \in Daemons, Spawn(d) PROVE ServesMove
  BY <1>13 DEF ServesMove, Typed, TypeOK, Spawn, Notify, UpdateRegistry
<1>14. ASSUME NEW d \in Daemons, ResumeHanded(d) PROVE ServesMove
  BY <1>14 DEF ServesMove, Typed, TypeOK, ResumeHanded, Notify
<1>15. ASSUME NEW d \in Daemons, LaunchSettles(d) PROVE ServesMove
  BY <1>15 DEF ServesMove, Typed, TypeOK, LaunchSettles, Notify, UpdateRegistry
<1>16. ASSUME NEW d \in Daemons, Ended(d) PROVE ServesMove
  BY <1>16 DEF ServesMove, Typed, TypeOK, Ended, Notify, UpdateRegistry
<1>17. ASSUME NEW d \in Daemons, OtherProgress(d) PROVE ServesMove
  BY <1>17 DEF ServesMove, Typed, TypeOK, OtherProgress, Notify, UpdateRegistry
<1>18. ASSUME NEW d \in Daemons, Watch(d) PROVE ServesMove
  BY <1>18 DEF ServesMove, Typed, TypeOK, Watch, Line
<1>19. ASSUME NEW d \in Daemons, Reclaim(d) PROVE ServesMove
  BY <1>19 DEF Reclaim, Line
<1>20. ASSUME NEW d \in Daemons, Merge(d) PROVE ServesMove
  BY <1>20 DEF Merge, Line
<1>21. ASSUME NEW d \in Daemons, Exit(d) PROVE ServesMove
  <2>1. \A e \in Daemons \ {d} : /\ phase'[e] = phase[e] /\ reg'[e] = reg[e]
                                 /\ resuming'[e] = resuming[e]
    BY <1>21 DEF Exit, Gone, Typed, TypeOK
  <2> QED
    BY <1>21, <2>1 DEF ServesMove
<1>22. ASSUME NEW d \in Daemons, Crash(d) PROVE ServesMove
  BY <1>22 DEF Plain
<1>23. ASSUME NEW d \in Daemons, LeadFails(d) PROVE ServesMove
  BY <1>23 DEF LeadFails, Line
<1>24. ASSUME NEW c \in calls, ClaimHandoff(c) PROVE ServesMove
  <2>1. PICK s \in Daemons : s = Server(c)
    BY <1>24, ReceivedAt
  <2>2. UNCHANGED <<phase, reg>> /\ resuming' = [resuming EXCEPT ![s] = "claimed"]
    BY <1>24, <2>1 DEF ClaimHandoff, UpdateRegistry
  <2>3. foreign[s] # None
    BY <1>24, <2>1, ReceivedAt, DaemonsAssumption
  <2> QED
    BY <2>2, <2>3, DaemonsAssumption DEF ServesMove, Typed, TypeOK
<1>25. ASSUME NEW c \in calls, AcceptHandoff(c) PROVE ServesMove
  <2>1. PICK s \in Daemons : s = Server(c)
    BY <1>25, ReceivedAt
  <2>2. /\ UNCHANGED phase /\ resuming' = [resuming EXCEPT ![s] = "pending"]
        /\ reg' = [reg EXCEPT ![s] = c.entry]
    BY <1>25, <2>1 DEF AcceptHandoff, UpdateRegistry
  <2>3. resuming[s] = "claimed" /\ c.entry = "marked"
    BY <1>25, <2>1, AcceptWhere DEF CallShape
  <2> QED
    BY <2>2, <2>3, DaemonsAssumption DEF ServesMove, Typed, TypeOK
<1>26. ASSUME NEW c \in calls, AcceptRelease(c) PROVE ServesMove
  <2>1. PICK s \in Daemons : s = Server(c)
    BY <1>26, ReceivedAt
  <2>2. UNCHANGED <<phase, resuming>> /\ reg' = [reg EXCEPT ![s] = c.entry]
    BY <1>26, <2>1 DEF AcceptRelease, UpdateRegistry
  <2>3. born /\ ~forgot' => c.entry # "absent"
    BY <1>26, <2>1, WireAt
  <2> QED
    BY <2>2, <2>3, DaemonsAssumption DEF ServesMove, Typed, TypeOK
<1> QED
  BY <1>1, <1>2, <1>3, <1>4, <1>5, <1>6, <1>7, <1>8, <1>9, <1>10, <1>11, <1>12, <1>13,
     <1>14, <1>15, <1>16, <1>17, <1>18, <1>19, <1>20, <1>21, <1>22, <1>23, <1>24,
     <1>25, <1>26 DEF Next, Caller, Start, Work, Watcher, Again, Peer, Client

\* The call, step by step.
LEMMA CallMovesNext ==
    ASSUME Plain, Typed, Typed', Line, Line', Outside, Outside', CallShape,
       CallShape', Handing, Resuming, Kept, Kept', Forwarding, Entered, Unborn, Chain,
       Relayed, Settled, Back, Behind, Apart, Guided, Calling, ~forgot, "others"
       \notin Events, [Next]_vars
    PROVE  CallMoves
<1> USE DEF procVars, regVars, sessVars, handVars, wakeVars, wireVars, histVars
<1>1. ASSUME NEW d \in Daemons,
             LoadRegistry(d) \/ Run(d) \/ OpenClaim(d) \/ Supersede(d) \/
                ResumeMarked(d) \/ Adopt(d) \/ Scan(d) \/ Check(d) \/ Watch(d) \/
                Reclaim(d)
      PROVE  CallMoves
  <2>1. UNCHANGED <<resuming, client>>
    BY <1>1 DEF LoadRegistry, Run, OpenClaim, Lead, Supersede, UpdateRegistry,
       ResumeMarked, Adopt, Scan, Check, Watch, Reclaim
  <2> QED
    BY <2>1 DEF CallMoves, Guided, Calling
<1>2. ASSUME NEW d \in Daemons, Merge(d) PROVE CallMoves
  <2>1. UNCHANGED <<resuming, client>>
    BY <1>2 DEF Merge
  <2> QED
    BY <2>1 DEF CallMoves, Guided, Calling
<1>3. ASSUME NEW c \in calls,
             Relay(c) \/ Unreachable(c) \/ AcceptRelease(c)
      PROVE  CallMoves
  <2>1. UNCHANGED <<resuming, client>>
    BY <1>3 DEF Relay, Replace, Unreachable, AcceptRelease, UpdateRegistry
  <2> QED
    BY <2>1 DEF CallMoves, Guided, Calling
<1>4. CASE UNCHANGED vars
  <2>1. UNCHANGED <<resuming, client>>
    BY <1>4 DEF vars
  <2> QED
    BY <2>1 DEF CallMoves, Guided, Calling
<1>5. ASSUME NEW d \in Daemons, Takeover(d) PROVE CallMoves
  <2>1. PICK p \in Daemons : p = claim
    BY <1>5 DEF Takeover, Typed, TypeOK
  <2>2. UNCHANGED resuming /\ Notify(p) /\ ~Superseded(p) /\ next'[p] = d
    BY <1>5, <2>1 DEF Takeover, Line, Typed, TypeOK
  <2> QED
    BY <2>2, DaemonsAssumption DEF CallMoves, Guided, Calling, Notify
<1>6. ASSUME NEW d \in Daemons, Spawn(d) PROVE CallMoves
  BY <1>6 DEF Spawn, Guided
<1>7. ASSUME NEW d \in Daemons, StartTurn(d) PROVE CallMoves
  <2>1. UNCHANGED resuming /\ (Notify(d) \/ client' = client) /\ d \in Daemons
    BY <1>7 DEF StartTurn
  <2>2. client.at = d /\ client.stage = "hold" => FALSE
    BY <1>7 DEF Guided, Calling, Resuming, StartTurn, Typed, TypeOK
  <2> QED
    BY <2>1, <2>2 DEF CallMoves, Guided, Calling, Notify
<1>8. ASSUME NEW d \in Daemons, EndTurn(d) PROVE CallMoves
  <2>1. UNCHANGED resuming /\ (Notify(d) \/ client' = client) /\ d \in Daemons
    BY <1>8 DEF EndTurn
  <2>2. client.at = d /\ client.stage = "hold" => FALSE
    BY <1>8 DEF Guided, Calling, Resuming, EndTurn, Typed, TypeOK
  <2> QED
    BY <2>1, <2>2 DEF CallMoves, Guided, Calling, Notify
<1>9. ASSUME NEW d \in Daemons, ResumeHanded(d) PROVE CallMoves
  <2>1. CASE UNCHANGED wakeVars /\ resuming' = [resuming EXCEPT ![d] = "loading"]
    BY <2>1 DEF CallMoves, Guided, Calling, Typed, TypeOK
  <2>2. CASE Notify(d) /\ resuming' = [resuming EXCEPT ![d] = "no"]
    BY <2>2 DEF CallMoves, Guided, Calling, Notify, Typed, TypeOK
  <2> QED
    BY <1>9, <2>1, <2>2 DEF ResumeHanded
<1>10. ASSUME NEW d \in Daemons, LaunchSettles(d) PROVE CallMoves
  <2>1. /\ Notify(d)
             /\ resuming' = [resuming EXCEPT ![d] = IF @ = "loading" THEN "no" ELSE @]
        /\ sess[d] = "launching"
    BY <1>10 DEF LaunchSettles
  <2>2. resuming'[d] = "no" /\ \A e \in Daemons \ {d} : resuming'[e] = resuming[e]
    BY <2>1 DEF Resuming, Typed, TypeOK
  <2> QED
    BY <2>1, <2>2 DEF CallMoves, Guided, Calling, Notify
<1>11. ASSUME NEW d \in Daemons, Ended(d) PROVE CallMoves
  <2>1. UNCHANGED resuming /\ (Notify(d) \/ client' = client) /\ d \in Daemons
    BY <1>11 DEF Ended
  <2>2. client.at = d /\ client.stage = "hold" => FALSE
    BY <1>11 DEF Guided, Calling, Resuming, Ended, Typed, TypeOK
  <2> QED
    BY <2>1, <2>2 DEF CallMoves, Guided, Calling, Notify
<1>12. ASSUME NEW d \in Daemons, NEW k \in {"close", "forget"},
             EndSession(d, k)
      PROVE  CallMoves
  <2>1. UNCHANGED resuming /\ (Notify(d) \/ client' = client) /\ d \in Daemons
    BY <1>12 DEF EndSession
  <2>2. client.at = d /\ client.stage = "hold" => FALSE
    <3>1. sess[d] # "launching" /\ (claim = d => resuming[d] = "no")
             /\ (claim # d => foreign[claim] = d)
      BY <1>12, ReachedWhere DEF EndSession
    <3> QED
      BY <3>1 DEF Guided, Calling, Resuming, Line, Typed, TypeOK
  <2> QED
    BY <2>1, <2>2 DEF CallMoves, Guided, Calling, Notify
<1>13. ASSUME NEW d \in Daemons, OtherProgress(d) PROVE CallMoves
  BY <1>13 DEF OtherProgress
<1>14. ASSUME NEW d \in Daemons, NEW c \in calls, Reported(d, c) PROVE CallMoves
  <2>1. UNCHANGED resuming /\ (Notify(d) \/ client' = client) /\ d \in Daemons
    BY <1>14 DEF Reported
  <2>2. client.at = d /\ client.stage = "hold" => FALSE
    <3>1. Superseded(d) /\ sess[d] \in {"handing", "none"}
      BY <1>14, MakerWaits DEF Reported, CallShape
    <3> QED
      BY <3>1 DEF Guided, Calling, Resuming, Typed, TypeOK
  <2> QED
    BY <2>1, <2>2 DEF CallMoves, Guided, Calling, Notify
<1>15. ASSUME NEW d \in Daemons, Exit(d) PROVE CallMoves
  <2>1. \A e \in Daemons \ {d} : resuming'[e] = resuming[e]
    BY <1>15 DEF Exit, Gone, Typed, TypeOK
  <2>2. client' = IF client.at = d THEN NoCall ELSE client
    BY <1>15 DEF Exit, Gone, Calling
  <2>3. client.at \in Daemons
    BY DEF Typed, TypeOK, ClientAt, Calling
  <2> QED
    BY <2>1, <2>2, <2>3 DEF CallMoves, Guided, Calling
<1>16. ASSUME NEW d \in Daemons, Crash(d) PROVE CallMoves
  BY <1>16 DEF Plain
<1>17. ASSUME NEW d \in Daemons, LeadFails(d) PROVE CallMoves
  BY <1>17 DEF LeadFails, Line
<1>18. ASSUME NEW d \in Daemons, ClientCall(d) PROVE CallMoves
  BY <1>18 DEF CallMoves
<1>19. ASSUME NEW c \in calls, ClaimHandoff(c) PROVE CallMoves
  <2>1. client' = client /\ resuming' = [resuming EXCEPT ![Server(c)] = "claimed"]
    BY <1>19 DEF ClaimHandoff
  <2> QED
    BY <2>1 DEF CallMoves, Guided, Calling, Typed, TypeOK
<1>20. ASSUME NEW c \in calls, AcceptHandoff(c) PROVE CallMoves
  <2>1. client' = client /\ resuming' = [resuming EXCEPT ![Server(c)] = "pending"]
    BY <1>20 DEF AcceptHandoff
  <2> QED
    BY <2>1 DEF CallMoves, Guided, Calling, Typed, TypeOK
<1>21. ASSUME NEW c \in calls, Answer(c) PROVE CallMoves
  <2> DEFINE q == Front(c.path)
             d == q[Len(q)]
  <2>1. UNCHANGED resuming
    BY <1>21 DEF Answer
  <2>2. CASE q # << >> /\ c.stage = "ok"
    <3>1. Notify(d)
      BY <1>21, <2>2 DEF Answer
    <3>2. d \in Daemons /\ Bare(d)
      <4>1. c.path # << >> /\ c.path \in Seq(Daemons)
        BY <1>21, PathIn DEF Answer, CallShape
      <4> DEFINE p == c.path
                 n == Len(p)
      <4>2. n \in Nat \ {0} /\ Len(q) = n - 1 /\ (\A k \in 1..(n - 1) : q[k] = p[k])
               /\ q \in Seq(Daemons)
        BY <4>1, PathEnd
      <4>3. n - 1 \in 1..n /\ n - 1 < n /\ d = p[n - 1]
        <5>1. q # << >> /\ q \in Seq(Daemons)
          BY <2>2, <4>2
        <5> HIDE DEF p, q, n
        <5>2. Len(q) \in Nat /\ Len(q) # 0
          BY <5>1
        <5> QED
          BY <4>2, <5>2
      <4> QED
        BY <4>3, PathIn DEF Apart, CallShape
    <3>3. client.at = d /\ client.stage = "hold" => FALSE
      BY <3>2 DEF Guided, Calling, Bare
    <3> HIDE DEF d
    <3> QED
      BY <2>1, <3>1, <3>3 DEF CallMoves, Guided, Calling, Notify
  <2>3. CASE ~(q # << >> /\ c.stage = "ok")
    <3>1. UNCHANGED client
      BY <1>21, <2>3 DEF Answer
    <3> QED
      BY <2>1, <3>1 DEF CallMoves, Guided, Calling
  <2> QED
    BY <2>2, <2>3
<1>22. CASE Dispatch
  BY <1>22 DEF CallMoves, Client
<1>23. CASE Connect
  BY <1>23 DEF CallMoves, Client
<1>24. CASE Forwarded
  BY <1>24 DEF CallMoves, Client
<1> QED
  BY <1>1, <1>2, <1>3, <1>4, <1>5, <1>6, <1>7, <1>8, <1>9, <1>10, <1>11, <1>12, <1>13,
     <1>14, <1>15, <1>16, <1>17, <1>18, <1>19, <1>20, <1>21, <1>22, <1>23, <1>24 DEF
     Next, Caller, Start, Work, Watcher, Again, Peer, Client

\* A call that is not under way stays ended.
LEMMA ClientEnds ==
    ASSUME Typed, ~Calling, [Next]_vars
    PROVE  client' = client \/ \E x \in Daemons : ClientCall(x)
<1> USE DEF procVars, regVars, sessVars, handVars, wakeVars, wireVars, histVars
<1>1. ASSUME NEW d \in Daemons,
             LoadRegistry(d) \/ Run(d) \/ OpenClaim(d) \/ Supersede(d) \/
                ResumeMarked(d) \/ Adopt(d) \/ Scan(d) \/ Check(d) \/ Watch(d) \/
                Reclaim(d)
      PROVE  client' = client \/ \E x \in Daemons : ClientCall(x)
  <2>1. UNCHANGED <<client>>
    BY <1>1 DEF LoadRegistry, Run, OpenClaim, Lead, Supersede, UpdateRegistry,
       ResumeMarked, Adopt, Scan, Check, Watch, Reclaim
  <2> QED
    BY <2>1
<1>2. ASSUME NEW d \in Daemons,
             Merge(d)
      PROVE  client' = client \/ \E x \in Daemons : ClientCall(x)
  <2>1. UNCHANGED <<client>>
    BY <1>2 DEF Merge
  <2> QED
    BY <2>1
<1>3. ASSUME NEW c \in calls,
             Relay(c) \/ Unreachable(c) \/ ClaimHandoff(c) \/ AcceptHandoff(c) \/
                AcceptRelease(c)
      PROVE  client' = client \/ \E x \in Daemons : ClientCall(x)
  <2>1. UNCHANGED <<client>>
    BY <1>3 DEF Relay, Replace, Unreachable, ClaimHandoff, AcceptHandoff,
       UpdateRegistry, AcceptRelease
  <2> QED
    BY <2>1
<1>4. CASE UNCHANGED vars
  <2>1. UNCHANGED <<client>>
    BY <1>4 DEF vars
  <2> QED
    BY <2>1
<1>5. ASSUME NEW d \in Daemons,
             Takeover(d)
      PROVE  client' = client \/ \E x \in Daemons : ClientCall(x)
  BY <1>5 DEF Calling, Takeover, Notify
<1>6. ASSUME NEW d \in Daemons,
             Spawn(d)
      PROVE  client' = client \/ \E x \in Daemons : ClientCall(x)
  BY <1>6 DEF Calling, Spawn, Notify, UpdateRegistry
<1>7. ASSUME NEW d \in Daemons,
             StartTurn(d)
      PROVE  client' = client \/ \E x \in Daemons : ClientCall(x)
  BY <1>7 DEF Calling, StartTurn, Notify
<1>8. ASSUME NEW d \in Daemons,
             EndTurn(d)
      PROVE  client' = client \/ \E x \in Daemons : ClientCall(x)
  BY <1>8 DEF Calling, EndTurn, Notify
<1>9. ASSUME NEW d \in Daemons,
             ResumeHanded(d)
      PROVE  client' = client \/ \E x \in Daemons : ClientCall(x)
  BY <1>9 DEF Calling, ResumeHanded, Notify
<1>10. ASSUME NEW d \in Daemons,
             LaunchSettles(d)
      PROVE  client' = client \/ \E x \in Daemons : ClientCall(x)
  BY <1>10 DEF Calling, LaunchSettles, Notify, UpdateRegistry
<1>11. ASSUME NEW d \in Daemons,
             Ended(d)
      PROVE  client' = client \/ \E x \in Daemons : ClientCall(x)
  BY <1>11 DEF Calling, Ended, Notify, UpdateRegistry
<1>12. ASSUME NEW d \in Daemons, NEW k \in {"close", "forget"},
             EndSession(d, k)
      PROVE  client' = client \/ \E x \in Daemons : ClientCall(x)
  BY <1>12 DEF Calling, EndSession, Notify
<1>13. ASSUME NEW d \in Daemons,
             OtherProgress(d)
      PROVE  client' = client \/ \E x \in Daemons : ClientCall(x)
  BY <1>13 DEF Calling, OtherProgress, Notify, UpdateRegistry
<1>14. ASSUME NEW d \in Daemons, NEW c \in calls,
             Reported(d, c)
      PROVE  client' = client \/ \E x \in Daemons : ClientCall(x)
  BY <1>14 DEF Calling, Reported, Notify
<1>15. ASSUME NEW d \in Daemons,
             Exit(d)
      PROVE  client' = client \/ \E x \in Daemons : ClientCall(x)
  BY <1>15 DEF Calling, Exit, Gone
<1>16. ASSUME NEW d \in Daemons,
             Crash(d)
      PROVE  client' = client \/ \E x \in Daemons : ClientCall(x)
  BY <1>16 DEF Calling, Crash, Gone
<1>17. ASSUME NEW d \in Daemons,
             LeadFails(d)
      PROVE  client' = client \/ \E x \in Daemons : ClientCall(x)
  BY <1>17 DEF Calling, LeadFails, Gone
<1>18. ASSUME NEW d \in Daemons,
             ClientCall(d)
      PROVE  client' = client \/ \E x \in Daemons : ClientCall(x)
  BY <1>18
<1>19. ASSUME NEW c \in calls,
             Answer(c)
      PROVE  client' = client \/ \E x \in Daemons : ClientCall(x)
  BY <1>19 DEF Calling, Answer, Replace, Notify
<1>20. CASE Dispatch
  BY <1>20 DEF Dispatch, Calling
<1>21. CASE Connect
  BY <1>21 DEF Connect, Calling
<1>22. CASE Forwarded
  BY <1>22 DEF Forwarded, Calling
<1> QED
  BY <1>1, <1>2, <1>3, <1>4, <1>5, <1>6, <1>7, <1>8, <1>9, <1>10, <1>11, <1>12, <1>13,
     <1>14, <1>15, <1>16, <1>17, <1>18, <1>19, <1>20, <1>21, <1>22 DEF Next, Caller,
     Start, Work, Watcher, Again, Peer, Client

\* A call begins with a client's call.
LEMMA IdleClient ==
    ASSUME Typed, [Next]_vars, ~\E d \in Daemons : ClientCall(d), Calling'
    PROVE  Calling
BY ClientEnds DEF Calling

\* Where the call goes: forwarded to an older daemon that has the session, held
\* while it is resumed, or run here.
LEMMA RouteWhere ==
    ASSUME Plain, Typed, Line, Outside, CallShape, Handing, Resuming, Kept,
       Forwarding, Entered, Unborn, Chain, Relayed, Settled, Back, Behind, Guided,
       Calling, ~forgot, NEW a \in Daemons, a = client.at
    PROVE  /\ born /\ phase[a] = "serving" /\ reg[a] # "absent" /\ foreign[a] # a
           /\ foreign[a] # None => Route(a) = foreign[a]
           /\ foreign[a] = None => Route(a) = IF resuming[a] # "no" THEN None ELSE a
BY DEF Guided, Route, Outside

\* Whom a daemon that serves forwards to has the session.
LEMMA ForwardsWhere ==
    ASSUME Plain, Typed, Line, Outside, CallShape, Handing, Resuming, Kept,
       Forwarding, Entered, Unborn, Chain, Relayed, Settled, Back, Behind, Apart,
       Trail, OnFile, born, ~forgot, NEW d \in Daemons, phase[d] = "serving", NEW e
       \in Daemons, foreign[d] = e
    PROVE  Up(e) /\ Answers(e)
<1>1. Keeps(e) \/ Telling(d, e)
  <2>1. CASE Superseded(d)
    BY <2>1 DEF Trail
  <2>2. CASE ~Superseded(d)
    <3>1. claim = d
      BY <2>2 DEF Line
    <3> QED
      BY <3>1 DEF Back, Newest, Forwards
  <2> QED
    BY <2>1, <2>2
<1>2. Superseded(e) /\ ~Bare(e)
         /\ (sess[e] # "none" \/ owned[e] \/ \E c \in calls : c.from = e)
  <2>1. CASE Keeps(e)
    BY <2>1 DEF Keeps, Bare
  <2>2. CASE Telling(d, e)
    BY <2>2, MakerWaits DEF Telling, Bare, CallShape
  <2> QED
    BY <1>1, <2>1, <2>2
<1>3. phase[e] = "serving" /\ ~shipped[e]
  BY <1>2 DEF Line, Apart
<1>4. ~Bystander(e)
  BY <1>2, MakerWaits DEF Bystander, Nothing, CallShape
<1>5. reg[e] # "absent"
  BY <1>3, <1>4 DEF OnFile, CopyIn
<1> QED
  BY <1>3, <1>5 DEF Up, Answers

\* The call is guided, step by step.
LEMMA GuidedNext ==
    ASSUME Plain, Typed, Typed', Line, Line', Outside, Outside', CallShape,
       CallShape', Handing, Resuming, Kept, Kept', Forwarding, Entered, Unborn, Chain,
       Relayed, Settled, Back, Behind, OnFile, Apart, Guided, Attempts >= 4, "others"
       \notin Events, [Next]_vars
    PROVE  Guided'
<1>1. SUFFICES ASSUME Calling', ~forgot' PROVE Guided'
  BY DEF Guided
<1>2. ServesMove /\ StoodMoves /\ ForwardsMove /\ Recorded
  BY ServesNext, StoodNext, ForwardsNext, RecordedNext DEF Typed
<1>3. CASE \E d \in Daemons : ClientCall(d)
  <2>1. PICK d \in Daemons : ClientCall(d)
    BY <1>3
  <2>2. /\ client' = [NoCall EXCEPT !.at = d, !.stage = "route"] /\ born /\ ~forgot
        /\ phase[d] = "serving" /\ ~Superseded(d)
        /\ UNCHANGED <<phase, reg, resuming, next, foreign, born>>
    BY <2>1 DEF ClientCall, Accepting, procVars, regVars, sessVars, handVars, histVars
  <2>3. reg[d] # "absent"
    BY <2>2 DEF OnFile, CopyIn, Bystander
  <2>4. client'.at = d /\ client'.stage = "route" /\ client'.n = 0
    BY <2>2 DEF NoCall
  <2> QED
    BY <2>2, <2>3, <2>4 DEF Guided
<1>4. ASSUME ~\E d \in Daemons : ClientCall(d), client' # NoCall PROVE Calling
  BY <1>1, <1>4, IdleClient
<1>5. CASE client' = NoCall
  BY <1>1, <1>5 DEF Calling, NoCall
<1> SUFFICES ASSUME Calling, ~forgot, ~\E d \in Daemons : ClientCall(d), client' # NoCall
             PROVE  Guided'
  BY <1>1, <1>2, <1>3, <1>4, <1>5 DEF Recorded
<1>6. PICK a \in Daemons : a = client.at
  BY DEF Typed, TypeOK, ClientAt, Calling
<1>7. CallMoves
  BY CallMovesNext
<1>8. /\ born /\ phase[a] = "serving" /\ reg[a] # "absent" /\ foreign[a] # a
      /\ foreign[a] # None => Route(a) = foreign[a]
      /\ foreign[a] = None => Route(a) = IF resuming[a] # "no" THEN None ELSE a
  BY <1>6, RouteWhere
<1>9. client.n \in Nat /\ born'
  BY <1>2, <1>8 DEF Typed, TypeOK, Recorded
<1>10. CASE client' = client /\ (client.stage = "hold" => resuming'[client.at] # "no")
  <2>1. ~Exit(a)
    <3>1. ASSUME Exit(a) PROVE client' = NoCall
      BY <1>6, <3>1 DEF Exit, Gone, Calling
    <3> QED
      BY <3>1
  <2>2. /\ phase'[a] = "serving" /\ reg'[a] # "absent" /\ foreign'[a] \in {foreign[a], None}
        /\ resuming[a] = "no" /\ resuming'[a] # "no" => foreign[a] # None
        /\ Superseded(a) => Superseded(a)'
    BY <1>1, <1>2, <1>8, <2>1 DEF ServesMove, StoodMoves, ForwardsMove, Superseded
  <2> QED
    BY <1>6, <1>8, <1>9, <1>10, <2>2 DEF Guided, Calling, Superseded
<1>11. CASE /\ client.stage = "hold" /\ client' = [client EXCEPT !.stage = "route"]
            /\ resuming'[client.at] = "no"
                 \/ (~Superseded(client.at) /\ next'[client.at] # None)
  <2>1. client'.at = a /\ client'.stage = "route" /\ client'.n = client.n
    BY <1>6, <1>11 DEF Typed, TypeOK
  <2>2. ~Exit(a)
    <3>1. ASSUME Exit(a) PROVE client' = NoCall
      BY <1>6, <3>1 DEF Exit, Gone, Calling
    <3> QED
      BY <3>1
  <2>3. phase'[a] = "serving" /\ reg'[a] # "absent" /\ foreign'[a] \in {foreign[a], None}
    BY <1>1, <1>2, <1>8, <2>2 DEF ServesMove, ForwardsMove
  <2> QED
    BY <1>6, <1>9, <1>11, <2>1, <2>3 DEF Guided, Calling, Superseded
<1>12. CASE Client
  <2>1. UNCHANGED <<phase, reg, resuming, next, born>>
    BY <1>12 DEF Client, Dispatch, Connect, Forwarded, procVars, regVars, sessVars,
          handVars, histVars
  <2>2. CASE Dispatch
    <3>1. client.stage = "route" /\ client.n # Attempts /\ foreign' = foreign
      BY <1>6, <1>9, <2>2, BoundsAssumption DEF Dispatch, Guided, Calling, handVars
    <3>2. client' = [client EXCEPT !.n = @ + 1, !.to = Route(a),
                                   !.stage = IF Route(a) = None THEN "hold" ELSE "sent"]
                                      /\ Route(a) # a
      BY <1>1, <1>6, <2>2, <3>1 DEF Dispatch, Returns, Calling, NoCall
    <3>3. /\ client'.at = a /\ client'.n = client.n + 1 /\ client'.to = Route(a)
          /\ client'.stage = IF Route(a) = None THEN "hold" ELSE "sent"
      BY <1>6, <3>2 DEF Typed, TypeOK
    <3>4. CASE foreign[a] # None
      <4>1. foreign[a] \in Daemons /\ client.n = 0
        BY <1>6, <3>1, <3>4 DEF Typed, TypeOK, Guided, Calling
      <4> QED
        BY <1>8, <1>9, <2>1, <3>1, <3>3, <3>4, <4>1, DaemonsAssumption DEF Guided
    <3>5. CASE foreign[a] = None
      <4>1. Route(a) = None /\ resuming[a] # "no"
        BY <1>8, <3>2, <3>5
      <4>2. client.n <= IF Superseded(a) THEN 2 ELSE 1
        BY <1>6, <3>1, <4>1 DEF Guided, Calling
      <4> QED
        BY <1>8, <1>9, <2>1, <3>1, <3>3, <3>5, <4>1, <4>2 DEF Guided, Superseded
    <3> QED
      BY <3>4, <3>5
  <2>3. CASE Connect
    <3>1. /\ client.stage = "sent" /\ client.n = 1 /\ client.to \in Daemons \ {a}
          /\ foreign[a] \in {client.to, None}
      BY <1>6, <2>3 DEF Connect, Guided, Calling
    <3>2. CASE client' = [client EXCEPT !.stage = "served"] /\ foreign' = foreign
      <4>1. client'.at = a /\ client'.n = client.n /\ client'.to = client.to
               /\ client'.stage = "served"
        BY <1>6, <3>2 DEF Typed, TypeOK
      <4> QED
        BY <1>8, <1>9, <2>1, <3>1, <3>2, <4>1 DEF Guided
    <3>3. CASE /\ client' = [client EXCEPT !.stage = "route"]
               /\ foreign' = [foreign EXCEPT ![client.at] = IF @ = client.to THEN None ELSE @]
      <4>1. client'.at = a /\ client'.n = client.n /\ client'.stage = "route"
        BY <1>6, <3>3 DEF Typed, TypeOK
      <4>2. foreign'[a] = None
        BY <1>6, <3>1, <3>3 DEF Typed, TypeOK
      <4> QED
        BY <1>8, <1>9, <2>1, <3>1, <4>1, <4>2 DEF Guided
    <3> QED
      BY <2>3, <3>2, <3>3 DEF Connect, Goes
  <2>4. CASE Forwarded
    <3>1. /\ client.stage = "served" /\ client.n = 1 /\ client.to \in Daemons \ {a}
          /\ foreign[a] \in {client.to, None} /\ foreign' = foreign
      BY <1>6, <2>4 DEF Forwarded, Guided, Calling, handVars
    <3>2. client' = [client EXCEPT !.stage = "route"] /\ Route(a) # client.to
      BY <1>1, <1>6, <2>4 DEF Forwarded, Goes, Returns, StillOwned, Calling, NoCall
    <3>3. foreign[a] = None
      BY <1>8, <3>1, <3>2, DaemonsAssumption
    <3>4. client'.at = a /\ client'.n = client.n /\ client'.stage = "route"
      BY <1>6, <3>2 DEF Typed, TypeOK
    <3> QED
      BY <1>8, <1>9, <2>1, <3>1, <3>3, <3>4 DEF Guided
  <2> QED
    BY <1>12, <2>2, <2>3, <2>4 DEF Client
<1> QED
  BY <1>7, <1>10, <1>11, <1>12 DEF CallMoves

\* No call is refused, step by step.
LEMMA NotRefused ==
    ASSUME Plain, Typed, Typed', Line, Line', Outside, Outside', CallShape,
       CallShape', Handing, Resuming, Kept, Kept', Forwarding, Entered, Unborn, Chain,
       Relayed, Settled, Back, Behind, OnFile, Apart, Trail, Guided, NoRefusal,
       Attempts >= 4, "others" \notin Events, [Next]_vars
    PROVE  NoRefusal'
<1>1. SUFFICES ASSUME client'.stage \in {"err", "unsettled"}, ~forgot' PROVE FALSE
  BY DEF NoRefusal
<1>2. ~forgot
  BY <1>1, RecordedNext DEF Recorded
<1>3. Calling
  <2>1. ASSUME NEW d \in Daemons, ClientCall(d) PROVE FALSE
    BY <1>1, <2>1 DEF ClientCall, NoCall
  <2> QED
    BY <1>1, <1>2, <2>1, ClientEnds DEF NoRefusal
<1>4. PICK a \in Daemons : a = client.at
  BY <1>3 DEF Typed, TypeOK, ClientAt, Calling
<1>5. Client
  <2>1. CallMoves
    BY <1>2, <1>3, CallMovesNext
  <2>2. client'.stage \notin {"none", "route", "hold", "sent", "served"}
    BY <1>1
  <2>3. ASSUME NEW d \in Daemons, ClientCall(d) PROVE FALSE
    BY <2>2, <2>3 DEF ClientCall, NoCall
  <2>4. client' # client
    BY <1>3, <2>2 DEF Calling
  <2>5. ASSUME client' = [client EXCEPT !.stage = "route"] PROVE FALSE
    <3>1. client'.stage = "route"
      BY <2>5 DEF Typed, TypeOK
    <3> QED
      BY <2>2, <3>1
  <2> QED
    BY <2>1, <2>2, <2>3, <2>4, <2>5 DEF CallMoves, NoCall
<1>6. /\ born /\ phase[a] = "serving" /\ reg[a] # "absent" /\ foreign[a] # a
      /\ foreign[a] # None => Route(a) = foreign[a]
      /\ foreign[a] = None => Route(a) = IF resuming[a] # "no" THEN None ELSE a
  BY <1>2, <1>3, <1>4, RouteWhere
<1>7. ASSUME Dispatch PROVE FALSE
  <2>1. client.stage = "route" /\ client.n # Attempts
    BY <1>2, <1>3, <1>7, BoundsAssumption DEF Dispatch, Guided, Typed, TypeOK
  <2>2. CASE Route(a) # a
    <3>1. client' = [client EXCEPT !.n = @ + 1, !.to = Route(a),
             !.stage = IF Route(a) = None THEN "hold" ELSE "sent"]
      BY <1>4, <1>7, <2>1, <2>2 DEF Dispatch
    <3>2. client'.stage = IF Route(a) = None THEN "hold" ELSE "sent"
      BY <3>1 DEF Typed, TypeOK
    <3> QED
      BY <1>1, <3>2
  <2>3. CASE Route(a) = a
    <3>1. Answers(a) \/ shipped[a]
      BY <1>6 DEF Answers
    <3>2. client' = [NoCall EXCEPT !.stage = IF Answers(a) THEN "ok" ELSE IF shipped[a] THEN "moved" ELSE "err"]
      BY <1>4, <1>7, <2>1, <2>3 DEF Dispatch, Returns
    <3>3. client'.stage \in {"ok", "moved"}
      BY <3>1, <3>2 DEF NoCall
    <3> QED
      BY <1>1, <3>3
  <2> QED
    BY <2>2, <2>3
<1>8. ASSUME Connect PROVE FALSE
  <2>1. client'.stage \in {"served", "route"}
    BY <1>8 DEF Connect, Goes, Typed, TypeOK
  <2> QED
    BY <1>1, <2>1
<1>9. ASSUME Forwarded PROVE FALSE
  <2>1. /\ client.stage = "served" /\ client.to \in Daemons \ {a}
        /\ foreign[a] \in {client.to, None}
    BY <1>2, <1>3, <1>4, <1>9 DEF Forwarded, Guided
  <2>2. client'.stage \in {"ok", "err", "route"}
           /\ (client'.stage = "err"
                => ~(Up(client.to) /\ Answers(client.to)) /\ Route(a) = client.to)
    BY <1>4, <1>9 DEF Forwarded, Returns, Goes, StillOwned, NoCall, Typed, TypeOK
  <2>3. ~(Up(client.to) /\ Answers(client.to)) /\ Route(a) = client.to
    BY <1>1, <2>2
  <2>4. foreign[a] = client.to
    BY <1>6, <2>1, <2>3, DaemonsAssumption
  <2> QED
    BY <1>2, <1>6, <2>1, <2>3, <2>4, ForwardsWhere
<1> QED
  BY <1>5, <1>7, <1>8, <1>9 DEF Client

\* Where the session is, for the call.
Answered == Leaders /\ OnFile /\ Ordered /\ Apart /\ Trail /\ Guided /\ NoRefusal

\* Every state starts so.
LEMMA InitAnswered ==
    ASSUME Init
    PROVE  Answered
<1>1. \A d \in Daemons : next[d] = None /\ foreign[d] = None /\ ~shipped[d]
  BY DEF Init
<1>2. calls = {} /\ client = NoCall
  BY DEF Init
<1>3. Apart /\ Trail
  BY <1>1, <1>2, DaemonsAssumption DEF Apart, Trail, Superseded
<1>4. Guided /\ NoRefusal
  BY <1>2 DEF Guided, Calling, NoRefusal, NoCall
<1> QED
  BY <1>3, <1>4, InitOnFile, InitOrdered DEF Answered

\* What the theorems ask of the constants.
Answering == Orderly /\ SpawnsFresh /\ "others" \notin Events /\ Attempts >= 4

\* It stays so as long as nobody leads again.
LEMMA NextAnswered ==
    ASSUME Answering, Plain, Placed, Linked, Answered, NoneLeadsAgain, NoneLeadsAgain',
           [Next]_vars
    PROVE  Answered'
<1>1. Placed'
  BY NextPlaced
<1>2. SpawnsFresh /\ "others" \notin Events /\ Attempts >= 4
  BY DEF Answering
<1> USE DEF Placed, Linked, Answered
<1>3. Leaders' /\ OnFile'
  BY <1>1, <1>2, LeadersNext, OnFileNext
<1>4. Ordered' /\ Apart' /\ Trail'
  BY <1>1, OrderedNext, ApartNext, TrailNext
<1>5. Guided' /\ NoRefusal'
  BY <1>1, <1>2, GuidedNext, NotRefused
<1> QED
  BY <1>3, <1>4, <1>5

\* NoRefusal, of any number of daemons, as long as nobody is killed and no
\* superseded daemon leads again: a call is refused only for a session that was
\* forgotten, and four attempts are enough to find one that moves, whatever else
\* launches, ends, ships and takes over meanwhile.
THEOREM NoRefusalHolds ==
    ASSUME Answering
    PROVE  Spec /\ []NoneLeadsAgain => []NoRefusal
<1> DEFINE Inv == Placed /\ Linked /\ Answered
<1>1. Init => Inv
  BY InitPlaced, InitLinked, InitAnswered
<1>2. Inv /\ NoneLeadsAgain /\ NoneLeadsAgain' /\ [Next]_vars => Inv'
  <2>1. Placed => Plain
    BY PlainStep DEF Placed, Answering
  <2> QED
    BY <2>1, NextPlaced, NextLinked, NextAnswered
<1>3. Inv => NoRefusal
  BY DEF Answered
<1> HIDE DEF Inv, NoneLeadsAgain, Init, Next, vars, NoRefusal
<1> QED
  BY <1>1, <1>2, <1>3, PTL DEF Spec

\* NoRefusal of up to three daemons, whatever they do, as long as nobody is
\* killed (MCHandover's `dispatch`).
THEOREM ChainNoRefusal ==
    ASSUME Answering, Cardinality(Daemons) <= 3
    PROVE  Spec => []NoRefusal
<1>1. Spec => []NoneLeadsAgain
  BY NoneLeadsAgainHolds DEF Answering
<1>2. Spec /\ []NoneLeadsAgain => []NoRefusal
  BY NoRefusalHolds
<1> HIDE DEF Spec, NoneLeadsAgain, NoRefusal
<1> QED
  BY <1>1, <1>2, PTL

=============================================================================
