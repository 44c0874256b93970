--------------------------- MODULE HandoverProofs ---------------------------
(* That Handover implements Ownership, which forgotten sessions stay so,   *)
(* and what holds of daemons that are killed.                              *)
EXTENDS HandoverChain

-----------------------------------------------------------------------------
(* The generations keep the promise of Ownership                           *)

\* The daemon ships the session, and its report is not accepted yet.
Waiting(d) == sess[d] = "handing" /\ ~Accepted(d)

\* The session is on its way from or to the daemon.
OnItsWay(d) == \/ Waiting(d) \/ report[d].kind = "handed"
                    \/ resuming[d] \in {"claimed", "pending"}
               \/ phase[d] = "resume" /\ reg[d] = "marked"

\* It is with a daemon, or on its way.
Somewhere == \E d \in Daemons : Owning(d) \/ OnItsWay(d)

\* Launches do not fail, and no session ends under a daemon that has read the
\* registry and has yet to take over.
Sure == Events \cap {"fail", "stale"} = {}

\* A claimed handoff has its call.
Claimed ==
    \A d \in Daemons : resuming[d] = "claimed" =>
        \E c \in calls : c.stage = "claimed" /\ c.path # << >> /\ Server(c) = d

\* What a step makes of a shipment: it begins with a settled session, and ends
\* where the session will be resumed.
WaitingMoves ==
    \A d \in Daemons :
        /\ Waiting(d)' => Waiting(d) \/ sess[d] = "idle"
        /\ Waiting(d) => Waiting(d)' \/ \E n \in Daemons : resuming'[n] = "pending"

\* The session comes by a start or an adopt, and goes by an end.
ComesMove ==
    Somewhere' => Somewhere \/ \E d \in Daemons : Adopt(d) \/ Spawn(d)
GoesMove ==
    Somewhere => \/ Somewhere'
                 \/ \E d \in Daemons, k \in {"close", "forget"} :
                      EndSession(d, k) /\ Owning(d)

\* A daemon gets the session where nothing happens to any other.
HeldMoves ==
    \A e \in Daemons :
       Owning(e)' => Owning(e) \/ \A d \in Daemons \ {e} : sess'[d] = sess[d]

\* Nobody is known to have read a mark of a session that is nowhere.
MarkedReads ==
    \A d \in Daemons :
       phase[d] \in {"loaded", "leading", "calling", "reported"} /\ reg[d] = "marked"
        => Somewhere

\* Who ships the session, step by step.
LEMMA WaitingNext ==
    ASSUME Plain, Typed, Typed', Line, Line', Outside, Outside', CallShape,
       CallShape', Handing, Resuming, Kept, Kept', Forwarding, Entered, Unborn, Chain,
       Relayed, Settled, Back, Behind, [Next]_vars
    PROVE  WaitingMoves
<1> USE DEF procVars, regVars, sessVars, handVars, wakeVars, wireVars, histVars
<1>1. ASSUME NEW d \in Daemons,
             LoadRegistry(d) \/ Run(d) \/ OpenClaim(d) \/ Supersede(d) \/ Ended(d) \/
                OtherProgress(d) \/ Check(d) \/ Watch(d) \/ Reclaim(d) \/ Merge(d)
      PROVE  WaitingMoves
  <2>1. UNCHANGED <<sess, calls>>
    BY <1>1 DEF LoadRegistry, Run, OpenClaim, Lead, Supersede, UpdateRegistry, Ended,
       Notify, OtherProgress, Check, Watch, Reclaim, Merge
  <2> QED
    BY <2>1 DEF WaitingMoves, Waiting, Accepted
<1>2. ASSUME NEW d \in Daemons, ClientCall(d) PROVE WaitingMoves
  <2>1. UNCHANGED <<sess, calls>>
    BY <1>2 DEF ClientCall
  <2> QED
    BY <2>1 DEF WaitingMoves, Waiting, Accepted
<1>3. CASE Dispatch \/ Connect \/ Forwarded
  <2>1. UNCHANGED <<sess, calls>>
    BY <1>3 DEF Dispatch, Returns, Connect, Goes, Forwarded
  <2> QED
    BY <2>1 DEF WaitingMoves, Waiting, Accepted
<1>4. CASE UNCHANGED vars
  <2>1. UNCHANGED <<sess, calls>>
    BY <1>4 DEF vars
  <2> QED
    BY <2>1 DEF WaitingMoves, Waiting, Accepted
<1>5. ASSUME NEW d \in Daemons, Takeover(d) PROVE WaitingMoves
  <2>1. calls' = calls /\ \A e \in Daemons : sess'[e] = sess[e] \/ sess'[e] = "none"
    BY <1>5 DEF Takeover, Typed, TypeOK
  <2>2. \A e \in Daemons : sess[e] = "handing" => sess'[e] = sess[e]
    BY <1>5 DEF Takeover, Handed, Typed, TypeOK
  <2> QED
    BY <2>1, <2>2 DEF WaitingMoves, Waiting, Accepted
<1>6. ASSUME NEW d \in Daemons, ResumeMarked(d) PROVE WaitingMoves
  BY <1>6 DEF WaitingMoves, Waiting, Accepted, Typed, TypeOK, ResumeMarked, Outside
<1>7. ASSUME NEW d \in Daemons, Spawn(d) PROVE WaitingMoves
  BY <1>7 DEF WaitingMoves, Waiting, Accepted, Typed, TypeOK, Spawn, Notify,
     UpdateRegistry, Unborn, Nothing
<1>8. ASSUME NEW d \in Daemons, StartTurn(d) PROVE WaitingMoves
  BY <1>8 DEF WaitingMoves, Waiting, Accepted, Typed, TypeOK, StartTurn, Notify
<1>9. ASSUME NEW d \in Daemons, EndTurn(d) PROVE WaitingMoves
  BY <1>9 DEF WaitingMoves, Waiting, Accepted, Typed, TypeOK, EndTurn, Notify
<1>10. ASSUME NEW d \in Daemons, Adopt(d) PROVE WaitingMoves
  BY <1>10 DEF WaitingMoves, Waiting, Accepted, Typed, TypeOK, Adopt
<1>11. ASSUME NEW d \in Daemons, ResumeHanded(d) PROVE WaitingMoves
  BY <1>11 DEF WaitingMoves, Waiting, Accepted, Typed, TypeOK, ResumeHanded, Notify
<1>12. ASSUME NEW d \in Daemons, LaunchSettles(d) PROVE WaitingMoves
  BY <1>12 DEF WaitingMoves, Waiting, Accepted, Typed, TypeOK, LaunchSettles, Notify,
     UpdateRegistry
<1>13. ASSUME NEW d \in Daemons, NEW k \in {"close", "forget"},
             EndSession(d, k)
      PROVE  WaitingMoves
  <2>1. calls' = calls /\ sess' = [sess EXCEPT ![d] = "none"]
    BY <1>13 DEF EndSession
  <2>2. sess[d] # "handing"
    BY <1>13 DEF EndSession, Quiet, Handing, Plain
  <2> QED
    BY <2>1, <2>2 DEF WaitingMoves, Waiting, Accepted, Typed, TypeOK
<1>14. ASSUME NEW d \in Daemons, Scan(d) PROVE WaitingMoves
  <2>1. /\ \A e \in Daemons :
             sess'[e] = sess[e] \/ (e = d /\ sess[d] = "idle" /\ sess'[d] = "handing")
        /\ \A c \in calls' : c \in calls \/ c.stage = "sent"
        /\ calls \subseteq calls'
    BY <1>14 DEF Scan, Call, Typed, TypeOK
  <2>2. \A e \in Daemons : Accepted(e)' <=> Accepted(e)
    BY <2>1 DEF Accepted
  <2> QED
    BY <2>1, <2>2 DEF WaitingMoves, Waiting
<1>15. ASSUME NEW d \in Daemons, NEW c \in calls, Reported(d, c) PROVE WaitingMoves
  <2>1. c.from = d /\ c.path = << >> /\ calls' = calls \ {c}
    BY <1>15 DEF Reported
  <2>2. c.stage = "ok"
    BY <2>1 DEF Relayed, RelayedAt
  <2>3. \A e \in Daemons : sess'[e] = sess[e] \/ (e = d /\ sess'[d] = "none")
    BY <1>15, <2>2 DEF Reported, Typed, TypeOK
  <2>4. \A e \in Daemons \ {d} : Accepted(e)' <=> Accepted(e)
    BY <2>1 DEF Accepted
  <2>5. Accepted(d) /\ ~Waiting(d)
    BY <2>1, <2>2 DEF Accepted, Waiting
  <2>6. sess'[d] # "handing"
    BY <1>15, <2>1, <2>2 DEF Reported, CallShape, CallFrom, Typed, TypeOK, Calls
  <2> QED
    BY <2>3, <2>4, <2>5, <2>6 DEF WaitingMoves, Waiting
<1>16. ASSUME NEW d \in Daemons, Exit(d) PROVE WaitingMoves
  <2>1. calls' = calls
    BY <1>16, ExitCalls DEF CallShape
  <2>2. sess' = [sess EXCEPT ![d] = "none"]
    BY <1>16 DEF Exit, Gone
  <2>3. sess[d] # "handing"
    BY <1>16 DEF Exit, Handing
  <2> QED
    BY <2>1, <2>2, <2>3 DEF WaitingMoves, Waiting, Accepted, Typed, TypeOK
<1>17. ASSUME NEW d \in Daemons, Crash(d) PROVE WaitingMoves
  BY <1>17 DEF Plain
<1>18. ASSUME NEW d \in Daemons, LeadFails(d) PROVE WaitingMoves
  BY <1>18 DEF LeadFails, Line
<1>19. ASSUME NEW c \in calls, Relay(c) PROVE WaitingMoves
  <2> DEFINE r == [c EXCEPT !.path = Append(c.path, next[Server(c)])]
  <2>1. /\ r.from = c.from /\ r.kind = c.kind /\ r.entry = c.entry
        /\ r.stage = c.stage /\ r.path = Append(c.path, next[Server(c)])
    BY EditFields DEF Typed, TypeOK
  <2>2. calls' = (calls \ {c}) \cup {r}
    BY <1>19 DEF Relay, Replace
  <2> HIDE DEF r
  <2>3. c.stage # "ok" /\ r.stage # "ok"
    BY <1>19, <2>1 DEF Relay, CallShape, CallClaimed
  <2>4. sess' = sess
    BY <1>19 DEF Relay
  <2>5. \A e \in Daemons : Accepted(e)' <=> Accepted(e)
    BY <2>2, <2>3 DEF Accepted
  <2> QED
    BY <2>4, <2>5 DEF WaitingMoves, Waiting
<1>20. ASSUME NEW c \in calls, Unreachable(c) PROVE WaitingMoves
  <2> DEFINE r == [c EXCEPT !.stage = "err", !.path = Front(c.path)]
  <2>1. /\ r.from = c.from /\ r.kind = c.kind /\ r.entry = c.entry
        /\ r.stage = "err" /\ r.path = Front(c.path)
    BY EditFields DEF Typed, TypeOK
  <2>2. calls' = (calls \ {c}) \cup {r}
    BY <1>20 DEF Unreachable, Replace
  <2> HIDE DEF r
  <2>3. c.stage # "ok" /\ r.stage # "ok"
    BY <1>20, <2>1 DEF Unreachable, CallShape, CallClaimed
  <2>4. sess' = sess
    BY <1>20 DEF Unreachable
  <2>5. \A e \in Daemons : Accepted(e)' <=> Accepted(e)
    BY <2>2, <2>3 DEF Accepted
  <2> QED
    BY <2>4, <2>5 DEF WaitingMoves, Waiting
<1>21. ASSUME NEW c \in calls, ClaimHandoff(c) PROVE WaitingMoves
  <2> DEFINE r == [c EXCEPT !.stage = "claimed"]
  <2>1. /\ r.from = c.from /\ r.kind = c.kind /\ r.entry = c.entry
        /\ r.stage = "claimed" /\ r.path = c.path
    BY EditFields DEF Typed, TypeOK
  <2>2. calls' = (calls \ {c}) \cup {r}
    BY <1>21 DEF ClaimHandoff, Replace
  <2> HIDE DEF r
  <2>3. c.stage # "ok" /\ r.stage # "ok"
    BY <1>21, <2>1 DEF ClaimHandoff, CallShape, CallClaimed
  <2>4. sess' = sess
    BY <1>21 DEF ClaimHandoff
  <2>5. \A e \in Daemons : Accepted(e)' <=> Accepted(e)
    BY <2>2, <2>3 DEF Accepted
  <2> QED
    BY <2>4, <2>5 DEF WaitingMoves, Waiting
<1>22. ASSUME NEW c \in calls, AcceptHandoff(c) PROVE WaitingMoves
  <2>1. resuming' = [resuming EXCEPT ![Server(c)] = "pending"] /\ sess' = sess
    BY <1>22 DEF AcceptHandoff
  <2>2. Server(c) \in Daemons /\ c.stage # "ok"
    BY <1>22, AcceptWhere DEF CallShape, AcceptHandoff
  <2>3. resuming'[Server(c)] = "pending"
    BY <2>1, <2>2 DEF Typed, TypeOK
  <2>4. \A e \in Daemons : Accepted(e) => Accepted(e)'
    BY <1>22, <2>2 DEF Accepted, AcceptHandoff, Replace
  <2> QED
    BY <2>1, <2>2, <2>3, <2>4 DEF WaitingMoves, Waiting
<1>23. ASSUME NEW c \in calls, AcceptRelease(c) PROVE WaitingMoves
  <2> DEFINE r == [c EXCEPT !.stage = "ok"]
  <2>1. /\ r.from = c.from /\ r.kind = c.kind /\ r.entry = c.entry
        /\ r.stage = "ok" /\ r.path = c.path
    BY EditFields DEF Typed, TypeOK
  <2>2. calls' = (calls \ {c}) \cup {r}
    BY <1>23 DEF AcceptRelease, Replace
  <2> HIDE DEF r
  <2>3. c.kind = "release" /\ c.stage # "ok"
    BY <1>23 DEF AcceptRelease
  <2>4. sess[c.from] = "none" /\ sess' = sess
    BY <1>23, <2>3 DEF CallShape, CallFrom, AcceptRelease
  <2>5. \A e \in Daemons : e # c.from => (Accepted(e)' <=> Accepted(e))
    BY <2>1, <2>2 DEF Accepted
  <2> QED
    BY <2>4, <2>5 DEF WaitingMoves, Waiting
<1>24. ASSUME NEW c \in calls, Answer(c) PROVE WaitingMoves
  <2> DEFINE r == [c EXCEPT !.path = Front(c.path)]
  <2>1. /\ r.from = c.from /\ r.kind = c.kind /\ r.entry = c.entry
        /\ r.stage = c.stage /\ r.path = Front(c.path)
    BY EditFields DEF Typed, TypeOK
  <2>2. /\ calls' = (calls \ {c}) \cup {r} \/ (calls' = calls \ {c} /\ c.from = None)
        /\ c.path # << >> /\ c.stage \in {"ok", "err"}
    BY <1>24 DEF Answer, Replace
  <2> HIDE DEF r
  <2>3. c.from \in Daemons
    BY MakerWaits DEF CallShape
  <2>4. calls' = (calls \ {c}) \cup {r}
    BY <2>2, <2>3, DaemonsAssumption
  <2>5. sess' = sess
    BY <1>24 DEF Answer
  <2>6. \A e \in Daemons : Accepted(e)' <=> Accepted(e)
    BY <2>1, <2>4 DEF Accepted
  <2> QED
    BY <2>5, <2>6 DEF WaitingMoves, Waiting
<1> QED
  BY <1>1, <1>2, <1>3, <1>4, <1>5, <1>6, <1>7, <1>8, <1>9, <1>10, <1>11, <1>12, <1>13,
     <1>14, <1>15, <1>16, <1>17, <1>18, <1>19, <1>20, <1>21, <1>22, <1>23, <1>24 DEF
     Next, Caller, Start, Work, Watcher, Again, Peer, Client

\* Who gets the session.
LEMMA HeldNext ==
    ASSUME Plain, Typed, Typed', Line, Line', Outside, Outside', CallShape,
       CallShape', Handing, Resuming, Kept, Kept', Forwarding, Entered, Unborn, Chain,
       Relayed, Settled, Back, Behind, [Next]_vars
    PROVE  HeldMoves
<1> USE DEF procVars, regVars, sessVars, handVars, wakeVars, wireVars, histVars
<1>1. ASSUME NEW d \in Daemons,
             LoadRegistry(d) \/ Run(d) \/ OpenClaim(d) \/ Supersede(d) \/ Ended(d) \/
                OtherProgress(d) \/ Check(d) \/ Watch(d) \/ Reclaim(d) \/ Merge(d)
      PROVE  HeldMoves
  <2>1. UNCHANGED <<sess>>
    BY <1>1 DEF LoadRegistry, Run, OpenClaim, Lead, Supersede, UpdateRegistry, Ended,
       Notify, OtherProgress, Check, Watch, Reclaim, Merge
  <2> QED
    BY <2>1 DEF HeldMoves, Owning
<1>2. ASSUME NEW d \in Daemons, ClientCall(d) PROVE HeldMoves
  <2>1. UNCHANGED <<sess>>
    BY <1>2 DEF ClientCall
  <2> QED
    BY <2>1 DEF HeldMoves, Owning
<1>3. ASSUME NEW c \in calls,
             Relay(c) \/ Unreachable(c) \/ ClaimHandoff(c) \/ AcceptHandoff(c) \/
                AcceptRelease(c) \/ Answer(c)
      PROVE  HeldMoves
  <2>1. UNCHANGED <<sess>>
    BY <1>3 DEF Relay, Replace, Unreachable, ClaimHandoff, AcceptHandoff,
       UpdateRegistry, AcceptRelease, Answer, Notify
  <2> QED
    BY <2>1 DEF HeldMoves, Owning
<1>4. CASE Dispatch \/ Connect \/ Forwarded
  <2>1. UNCHANGED <<sess>>
    BY <1>4 DEF Dispatch, Returns, Connect, Goes, Forwarded
  <2> QED
    BY <2>1 DEF HeldMoves, Owning
<1>5. CASE UNCHANGED vars
  <2>1. UNCHANGED <<sess>>
    BY <1>5 DEF vars
  <2> QED
    BY <2>1 DEF HeldMoves, Owning
<1>6. ASSUME NEW d \in Daemons, Takeover(d) PROVE HeldMoves
  BY <1>6 DEF HeldMoves, Owning, Typed, TypeOK, Takeover, Notify
<1>7. ASSUME NEW d \in Daemons, ResumeMarked(d) PROVE HeldMoves
  BY <1>7 DEF HeldMoves, Owning, Typed, TypeOK, ResumeMarked
<1>8. ASSUME NEW d \in Daemons, Spawn(d) PROVE HeldMoves
  BY <1>8 DEF HeldMoves, Owning, Typed, TypeOK, Spawn, Notify, UpdateRegistry
<1>9. ASSUME NEW d \in Daemons, StartTurn(d) PROVE HeldMoves
  BY <1>9 DEF HeldMoves, Owning, Typed, TypeOK, StartTurn, Notify
<1>10. ASSUME NEW d \in Daemons, EndTurn(d) PROVE HeldMoves
  BY <1>10 DEF HeldMoves, Owning, Typed, TypeOK, EndTurn, Notify
<1>11. ASSUME NEW d \in Daemons, Adopt(d) PROVE HeldMoves
  BY <1>11 DEF HeldMoves, Owning, Typed, TypeOK, Adopt
<1>12. ASSUME NEW d \in Daemons, ResumeHanded(d) PROVE HeldMoves
  BY <1>12 DEF HeldMoves, Owning, Typed, TypeOK, ResumeHanded, Notify
<1>13. ASSUME NEW d \in Daemons, LaunchSettles(d) PROVE HeldMoves
  BY <1>13 DEF HeldMoves, Owning, Typed, TypeOK, LaunchSettles, Notify, UpdateRegistry
<1>14. ASSUME NEW d \in Daemons, NEW k \in {"close", "forget"},
             EndSession(d, k)
      PROVE  HeldMoves
  BY <1>14 DEF HeldMoves, Owning, Typed, TypeOK, EndSession, Notify
<1>15. ASSUME NEW d \in Daemons, Scan(d) PROVE HeldMoves
  BY <1>15 DEF HeldMoves, Owning, Typed, TypeOK, Scan
<1>16. ASSUME NEW d \in Daemons, NEW c \in calls, Reported(d, c) PROVE HeldMoves
  <2>1. c.stage = "ok"
    BY <1>16 DEF Reported, Relayed, RelayedAt
  <2> QED
    BY <1>16, <2>1 DEF Reported, HeldMoves, Owning, Typed, TypeOK
<1>17. ASSUME NEW d \in Daemons, Exit(d) PROVE HeldMoves
  BY <1>17 DEF HeldMoves, Owning, Typed, TypeOK, Exit, Gone
<1>18. ASSUME NEW d \in Daemons, Crash(d) PROVE HeldMoves
  BY <1>18 DEF Plain
<1>19. ASSUME NEW d \in Daemons, LeadFails(d) PROVE HeldMoves
  BY <1>19 DEF LeadFails, Line
<1> QED
  BY <1>1, <1>2, <1>3, <1>4, <1>5, <1>6, <1>7, <1>8, <1>9, <1>10, <1>11, <1>12, <1>13,
     <1>14, <1>15, <1>16, <1>17, <1>18, <1>19 DEF Next, Caller, Start, Work, Watcher,
     Again, Peer, Client

\* A claim has its call, step by step.
LEMMA ClaimedNext ==
    ASSUME Plain, Typed, Typed', Line, Line', Outside, Outside', CallShape,
       CallShape', Handing, Resuming, Kept, Kept', Forwarding, Entered, Unborn, Chain,
       Relayed, Settled, Back, Behind, Claimed, [Next]_vars
    PROVE  Claimed'
<1> USE DEF procVars, regVars, sessVars, handVars, wakeVars, wireVars, histVars
<1>1. ASSUME NEW d \in Daemons,
             LoadRegistry(d) \/ Run(d) \/ OpenClaim(d) \/ Takeover(d) \/ Supersede(d)
                \/ ResumeMarked(d) \/ Spawn(d) \/ StartTurn(d) \/ EndTurn(d) \/
                Adopt(d)
      PROVE  Claimed'
  <2>1. UNCHANGED <<resuming, calls>>
    BY <1>1 DEF LoadRegistry, Run, OpenClaim, Lead, Takeover, Notify, Supersede,
       UpdateRegistry, ResumeMarked, Spawn, StartTurn, EndTurn, Adopt
  <2> QED
    BY <2>1 DEF Claimed
<1>2. ASSUME NEW d \in Daemons,
             Ended(d) \/ OtherProgress(d) \/ Check(d) \/ Watch(d) \/ Reclaim(d) \/
                Merge(d) \/ ClientCall(d)
      PROVE  Claimed'
  <2>1. UNCHANGED <<resuming, calls>>
    BY <1>2 DEF Ended, Notify, UpdateRegistry, OtherProgress, Check, Watch, Reclaim,
       Merge, ClientCall
  <2> QED
    BY <2>1 DEF Claimed
<1>3. ASSUME NEW d \in Daemons, NEW k \in {"close", "forget"},
             EndSession(d, k)
      PROVE  Claimed'
  <2>1. UNCHANGED <<resuming, calls>>
    BY <1>3 DEF EndSession, Notify
  <2> QED
    BY <2>1 DEF Claimed
<1>4. CASE Dispatch \/ Connect \/ Forwarded
  <2>1. UNCHANGED <<resuming, calls>>
    BY <1>4 DEF Dispatch, Returns, Connect, Goes, Forwarded
  <2> QED
    BY <2>1 DEF Claimed
<1>5. CASE UNCHANGED vars
  <2>1. UNCHANGED <<resuming, calls>>
    BY <1>5 DEF vars
  <2> QED
    BY <2>1 DEF Claimed
<1>6. ASSUME NEW d \in Daemons, ResumeHanded(d) PROVE Claimed'
  BY <1>6 DEF Claimed, Typed, TypeOK, ResumeHanded, Notify
<1>7. ASSUME NEW d \in Daemons, LaunchSettles(d) PROVE Claimed'
  BY <1>7 DEF Claimed, Typed, TypeOK, LaunchSettles, Notify, UpdateRegistry
<1>8. ASSUME NEW d \in Daemons, Scan(d) PROVE Claimed'
  <2>1. resuming' = resuming /\ calls \subseteq calls'
    BY <1>8 DEF Scan
  <2> QED
    BY <2>1 DEF Claimed
<1>9. ASSUME NEW d \in Daemons, NEW c \in calls, Reported(d, c) PROVE Claimed'
  <2>1. resuming' = resuming /\ c.path = << >> /\ calls' = calls \ {c}
    BY <1>9 DEF Reported
  <2> QED
    BY <2>1 DEF Claimed
<1>10. ASSUME NEW d \in Daemons, Exit(d) PROVE Claimed'
  <2>1. calls' = calls
    BY <1>10, ExitCalls DEF CallShape
  <2>2. resuming' = [resuming EXCEPT ![d] = "no"]
    BY <1>10 DEF Exit, Gone
  <2> QED
    BY <2>1, <2>2 DEF Claimed, Typed, TypeOK
<1>11. ASSUME NEW d \in Daemons, Crash(d) PROVE Claimed'
  BY <1>11 DEF Plain
<1>12. ASSUME NEW d \in Daemons, LeadFails(d) PROVE Claimed'
  BY <1>12 DEF LeadFails, Line
<1>13. ASSUME NEW c \in calls, Relay(c) PROVE Claimed'
  <2> DEFINE r == [c EXCEPT !.path = Append(c.path, next[Server(c)])]
  <2>1. /\ r.from = c.from /\ r.kind = c.kind /\ r.entry = c.entry
        /\ r.stage = c.stage /\ r.path = Append(c.path, next[Server(c)])
    BY EditFields DEF Typed, TypeOK
  <2>2. calls' = (calls \ {c}) \cup {r}
    BY <1>13 DEF Relay, Replace
  <2> HIDE DEF r
  <2>3. c.stage # "claimed"
    BY <1>13 DEF Relay
  <2>4. resuming' = resuming /\ \A b \in calls : b.stage = "claimed" => b \in calls'
    BY <1>13, <2>2, <2>3 DEF Relay
  <2> QED
    BY <2>4 DEF Claimed
<1>14. ASSUME NEW c \in calls, Unreachable(c) PROVE Claimed'
  <2> DEFINE r == [c EXCEPT !.stage = "err", !.path = Front(c.path)]
  <2>1. /\ r.from = c.from /\ r.kind = c.kind /\ r.entry = c.entry
        /\ r.stage = "err" /\ r.path = Front(c.path)
    BY EditFields DEF Typed, TypeOK
  <2>2. calls' = (calls \ {c}) \cup {r}
    BY <1>14 DEF Unreachable, Replace
  <2> HIDE DEF r
  <2>3. c.stage # "claimed"
    BY <1>14 DEF Unreachable
  <2>4. resuming' = resuming /\ \A b \in calls : b.stage = "claimed" => b \in calls'
    BY <1>14, <2>2, <2>3 DEF Unreachable
  <2> QED
    BY <2>4 DEF Claimed
<1>15. ASSUME NEW c \in calls, ClaimHandoff(c) PROVE Claimed'
  <2> DEFINE r == [c EXCEPT !.stage = "claimed"]
  <2>1. /\ r.from = c.from /\ r.kind = c.kind /\ r.entry = c.entry
        /\ r.stage = "claimed" /\ r.path = c.path
    BY EditFields DEF Typed, TypeOK
  <2>2. calls' = (calls \ {c}) \cup {r}
    BY <1>15 DEF ClaimHandoff, Replace
  <2> HIDE DEF r
  <2>3. resuming' = [resuming EXCEPT ![Server(c)] = "claimed"] /\ c.stage = "sent"
           /\ c.path # << >>
    BY <1>15 DEF ClaimHandoff
  <2>4. Server(r) = Server(c)
    BY <2>1 DEF Server
  <2>5. \A e \in Daemons :
           resuming'[e] = "claimed" => e = Server(c) \/ resuming[e] = "claimed"
    BY <2>3 DEF Typed, TypeOK
  <2>6. r \in calls' /\ r.stage = "claimed" /\ r.path # << >>
    BY <2>1, <2>2, <2>3
  <2> QED
    BY <2>2, <2>3, <2>4, <2>5, <2>6 DEF Claimed
<1>16. ASSUME NEW c \in calls, AcceptHandoff(c) PROVE Claimed'
  <2> DEFINE r == [c EXCEPT !.stage = "ok"]
  <2>1. /\ r.from = c.from /\ r.kind = c.kind /\ r.entry = c.entry
        /\ r.stage = "ok" /\ r.path = c.path
    BY EditFields DEF Typed, TypeOK
  <2>2. calls' = (calls \ {c}) \cup {r}
    BY <1>16 DEF AcceptHandoff, Replace
  <2> HIDE DEF r
  <2>3. resuming' = [resuming EXCEPT ![Server(c)] = "pending"]
    BY <1>16 DEF AcceptHandoff
  <2>4. \A e \in Daemons :
           resuming'[e] = "claimed" => e # Server(c) /\ resuming[e] = "claimed"
    BY <2>3 DEF Typed, TypeOK
  <2> QED
    BY <2>2, <2>4 DEF Claimed
<1>17. ASSUME NEW c \in calls, AcceptRelease(c) PROVE Claimed'
  <2> DEFINE r == [c EXCEPT !.stage = "ok"]
  <2>1. /\ r.from = c.from /\ r.kind = c.kind /\ r.entry = c.entry
        /\ r.stage = "ok" /\ r.path = c.path
    BY EditFields DEF Typed, TypeOK
  <2>2. calls' = (calls \ {c}) \cup {r}
    BY <1>17 DEF AcceptRelease, Replace
  <2> HIDE DEF r
  <2>3. c.stage # "claimed"
    BY <1>17 DEF AcceptRelease
  <2>4. resuming' = resuming /\ \A b \in calls : b.stage = "claimed" => b \in calls'
    BY <1>17, <2>2, <2>3 DEF AcceptRelease
  <2> QED
    BY <2>4 DEF Claimed
<1>18. ASSUME NEW c \in calls, Answer(c) PROVE Claimed'
  <2> DEFINE r == [c EXCEPT !.path = Front(c.path)]
  <2>1. /\ r.from = c.from /\ r.kind = c.kind /\ r.entry = c.entry
        /\ r.stage = c.stage /\ r.path = Front(c.path)
    BY EditFields DEF Typed, TypeOK
  <2>2. /\ calls' = (calls \ {c}) \cup {r} \/ (calls' = calls \ {c} /\ c.from = None)
        /\ c.path # << >> /\ c.stage \in {"ok", "err"}
    BY <1>18 DEF Answer, Replace
  <2> HIDE DEF r
  <2>3. resuming' = resuming /\ \A b \in calls : b.stage = "claimed" => b \in calls'
    BY <1>18, <2>2 DEF Answer
  <2> QED
    BY <2>3 DEF Claimed
<1> QED
  BY <1>1, <1>2, <1>3, <1>4, <1>5, <1>6, <1>7, <1>8, <1>9, <1>10, <1>11, <1>12, <1>13,
     <1>14, <1>15, <1>16, <1>17, <1>18 DEF Next, Caller, Start, Work, Watcher, Again,
     Peer, Client

\* Where the session comes from.
LEMMA ComesNext ==
    ASSUME Plain, Typed, Typed', Line, Line', Outside, Outside', CallShape,
       CallShape', Handing, Resuming, Kept, Kept', Forwarding, Entered, Unborn, Chain,
       Relayed, Settled, Back, Behind, Sure, MarkedReads, Claimed, [Next]_vars
    PROVE  ComesMove
<1> USE DEF procVars, regVars, sessVars, handVars, wakeVars, wireVars, histVars
<1>0. WaitingMoves
  BY WaitingNext
<1>1. ASSUME NEW d \in Daemons, Check(d) \/ ClientCall(d) PROVE ComesMove
  <2>1. UNCHANGED <<phase, reg, sess, resuming, report>>
    BY <1>1 DEF Check, ClientCall
  <2> QED
    BY <2>1, <1>0 DEF ComesMove, Somewhere, OnItsWay, Owning, WaitingMoves
<1>2. ASSUME NEW c \in calls, Relay(c) \/ Unreachable(c) \/ Answer(c) PROVE ComesMove
  <2>1. UNCHANGED <<phase, reg, sess, resuming, report>>
    BY <1>2 DEF Relay, Replace, Unreachable, Answer, Notify
  <2> QED
    BY <2>1, <1>0 DEF ComesMove, Somewhere, OnItsWay, Owning, WaitingMoves
<1>3. CASE Dispatch \/ Connect \/ Forwarded
  <2>1. UNCHANGED <<phase, reg, sess, resuming, report>>
    BY <1>3 DEF Dispatch, Returns, Connect, Goes, Forwarded
  <2> QED
    BY <2>1, <1>0 DEF ComesMove, Somewhere, OnItsWay, Owning, WaitingMoves
<1>4. CASE UNCHANGED vars
  <2>1. UNCHANGED <<phase, reg, sess, resuming, report>>
    BY <1>4 DEF vars
  <2> QED
    BY <2>1, <1>0 DEF ComesMove, Somewhere, OnItsWay, Owning, WaitingMoves
<1>5. ASSUME NEW d \in Daemons, LoadRegistry(d) PROVE ComesMove
  BY <1>5, <1>0 DEF ComesMove, Somewhere, OnItsWay, Owning, WaitingMoves, Typed,
     TypeOK, LoadRegistry
<1>6. ASSUME NEW d \in Daemons, Run(d) PROVE ComesMove
  BY <1>6, <1>0 DEF ComesMove, Somewhere, OnItsWay, Owning, WaitingMoves, Typed,
     TypeOK, Run
<1>7. ASSUME NEW d \in Daemons, OpenClaim(d) PROVE ComesMove
  BY <1>7, <1>0 DEF ComesMove, Somewhere, OnItsWay, Owning, WaitingMoves, Typed,
     TypeOK, OpenClaim, Lead, Line, MarkedReads
<1>8. ASSUME NEW d \in Daemons, Takeover(d) PROVE ComesMove
  <2>1. PICK p \in Daemons : p = claim
    BY <1>8 DEF Takeover, Typed, TypeOK
  <2>2. /\ UNCHANGED <<reg, resuming>> /\ report' = [report EXCEPT ![d] = Partition(p)]
        /\ \A e \in Daemons :
             sess'[e] \in {sess[e], "none"} /\ (phase'[e] = "resume" => phase[e] = "resume")
    BY <1>8, <2>1 DEF Takeover, Typed, TypeOK
  <2>3. Partition(p).kind = "handed" => sess[p] = "idle"
    BY DEF Partition, Handed, NoReport
  <2> QED
    BY <1>0, <2>2, <2>3 DEF ComesMove, Somewhere, OnItsWay, Owning, WaitingMoves, Typed,
          TypeOK
<1>9. ASSUME NEW d \in Daemons, Supersede(d) PROVE ComesMove
  <2>1. /\ UNCHANGED <<sess, resuming>> /\ report' = [report EXCEPT ![d] = NoReport]
             /\ phase[d] = "reported"
        /\ \A e \in Daemons \ {d} : phase'[e] = phase[e] /\ reg'[e] = reg[e]
    BY <1>9 DEF Supersede, Lead, UpdateRegistry, Typed, TypeOK
  <2>2. reg'[d] = "marked" => report[d].kind = "handed" \/ reg[d] = "marked"
    BY <1>9 DEF Supersede, UpdateRegistry, Entered, Typed, TypeOK
  <2>3. reg[d] = "marked" => Somewhere
    BY <2>1 DEF MarkedReads
  <2> QED
    BY <1>0, <2>1, <2>2, <2>3 DEF ComesMove, Somewhere, OnItsWay, Owning, WaitingMoves,
          NoReport, Typed, TypeOK
<1>10. ASSUME NEW d \in Daemons, ResumeMarked(d) PROVE ComesMove
  BY <1>10, <1>0 DEF ComesMove, Somewhere, OnItsWay, Owning, WaitingMoves, Typed,
     TypeOK, ResumeMarked
<1>11. ASSUME NEW d \in Daemons, Spawn(d) PROVE ComesMove
  BY <1>11, <1>0 DEF ComesMove, Somewhere, OnItsWay, Owning, WaitingMoves, Typed,
     TypeOK, Spawn, Notify, UpdateRegistry
<1>12. ASSUME NEW d \in Daemons, StartTurn(d) PROVE ComesMove
  BY <1>12, <1>0 DEF ComesMove, Somewhere, OnItsWay, Owning, WaitingMoves, Typed,
     TypeOK, StartTurn, Notify
<1>13. ASSUME NEW d \in Daemons, EndTurn(d) PROVE ComesMove
  BY <1>13, <1>0 DEF ComesMove, Somewhere, OnItsWay, Owning, WaitingMoves, Typed,
     TypeOK, EndTurn, Notify
<1>14. ASSUME NEW d \in Daemons, Adopt(d) PROVE ComesMove
  BY <1>14, <1>0 DEF ComesMove, Somewhere, OnItsWay, Owning, WaitingMoves, Typed,
     TypeOK, Adopt
<1>15. ASSUME NEW d \in Daemons, ResumeHanded(d) PROVE ComesMove
  BY <1>15, <1>0 DEF ComesMove, Somewhere, OnItsWay, Owning, WaitingMoves, Typed,
     TypeOK, ResumeHanded, Notify
<1>16. ASSUME NEW d \in Daemons, LaunchSettles(d) PROVE ComesMove
  BY <1>16, <1>0 DEF ComesMove, Somewhere, OnItsWay, Owning, WaitingMoves, Typed,
     TypeOK, LaunchSettles, Notify, UpdateRegistry
<1>17. ASSUME NEW d \in Daemons, Ended(d) PROVE ComesMove
  BY <1>17, <1>0 DEF ComesMove, Somewhere, OnItsWay, Owning, WaitingMoves, Typed,
     TypeOK, Ended, Notify, UpdateRegistry, Outside
<1>18. ASSUME NEW d \in Daemons, NEW k \in {"close", "forget"},
             EndSession(d, k)
      PROVE  ComesMove
  BY <1>18, <1>0 DEF ComesMove, Somewhere, OnItsWay, Owning, WaitingMoves, Typed,
     TypeOK, EndSession, Notify
<1>19. ASSUME NEW d \in Daemons, OtherProgress(d) PROVE ComesMove
  BY <1>19, <1>0 DEF ComesMove, Somewhere, OnItsWay, Owning, WaitingMoves, Typed,
     TypeOK, OtherProgress, Notify, UpdateRegistry
<1>20. ASSUME NEW d \in Daemons, Scan(d) PROVE ComesMove
  BY <1>20, <1>0 DEF ComesMove, Somewhere, OnItsWay, Owning, WaitingMoves, Typed,
     TypeOK, Scan
<1>21. ASSUME NEW d \in Daemons, NEW c \in calls, Reported(d, c) PROVE ComesMove
  <2>1. c.stage = "ok"
    BY <1>21 DEF Reported, Relayed, RelayedAt
  <2>2. /\ UNCHANGED <<phase, reg, resuming, report>>
        /\ \A e \in Daemons : sess'[e] \in {sess[e], "none"}
    BY <1>21, <2>1 DEF Reported, Typed, TypeOK
  <2> QED
    BY <1>0, <2>2 DEF ComesMove, Somewhere, OnItsWay, Owning, WaitingMoves
<1>22. ASSUME NEW d \in Daemons, Watch(d) PROVE ComesMove
  BY <1>22, <1>0 DEF ComesMove, Somewhere, OnItsWay, Owning, WaitingMoves, Typed,
     TypeOK, Watch, Line
<1>23. ASSUME NEW d \in Daemons, Reclaim(d) PROVE ComesMove
  BY <1>23 DEF Reclaim, Line
<1>24. ASSUME NEW d \in Daemons, Merge(d) PROVE ComesMove
  BY <1>24 DEF Merge, Line
<1>25. ASSUME NEW d \in Daemons, Exit(d) PROVE ComesMove
  <2>1. /\ \A e \in Daemons \ {d} : /\ phase'[e] = phase[e] /\ reg'[e] = reg[e]
                                         /\ sess'[e] = sess[e]
                                    /\ resuming'[e] = resuming[e] /\ report'[e] = report[e]
        /\ phase'[d] = "exited" /\ sess'[d] = "none" /\ resuming'[d] = "no"
             /\ report'[d] = NoReport
    BY <1>25 DEF Exit, Gone, Typed, TypeOK
  <2> QED
    BY <1>0, <2>1 DEF ComesMove, Somewhere, OnItsWay, Owning, WaitingMoves, NoReport
<1>26. ASSUME NEW d \in Daemons, Crash(d) PROVE ComesMove
  BY <1>26 DEF Plain
<1>27. ASSUME NEW d \in Daemons, LeadFails(d) PROVE ComesMove
  BY <1>27 DEF LeadFails, Line
<1>28. ASSUME NEW c \in calls, ClaimHandoff(c) PROVE ComesMove
  <2>1. /\ UNCHANGED <<phase, reg, sess, report>>
             /\ resuming' = [resuming EXCEPT ![Server(c)] = "claimed"]
        /\ c.kind = "handoff" /\ c.stage = "sent"
    BY <1>28 DEF ClaimHandoff
  <2>2. c.from \in Daemons /\ Waiting(c.from)
    BY <2>1, MakerWaits DEF Waiting, Accepted, CallShape, CallFrom
  <2> QED
    BY <1>0, <2>1, <2>2 DEF ComesMove, Somewhere, OnItsWay, Owning, WaitingMoves, Typed,
          TypeOK
<1>29. ASSUME NEW c \in calls, AcceptHandoff(c) PROVE ComesMove
  <2>1. PICK s \in Daemons : s = Server(c)
    BY <1>29, ReceivedAt
  <2>5. phase[s] = "serving"
    BY <1>29, <2>1, ReceivedAt
  <2>6. UNCHANGED <<phase, sess, report>> /\ reg' = [reg EXCEPT ![s] = c.entry]
    BY <1>29, <2>1 DEF AcceptHandoff, UpdateRegistry
  <2>2. phase[s] = "serving" /\ UNCHANGED <<phase, sess, report>>
           /\ \A e \in Daemons \ {s} : reg'[e] = reg[e]
    BY <2>5, <2>6 DEF Typed, TypeOK
  <2>3. resuming[s] = "claimed" /\ resuming' = [resuming EXCEPT ![s] = "pending"]
    BY <1>29, <2>1, AcceptWhere DEF CallShape, AcceptHandoff
  <2> QED
    BY <1>0, <2>2, <2>3 DEF ComesMove, Somewhere, OnItsWay, Owning, WaitingMoves, Typed,
          TypeOK
<1>30. ASSUME NEW c \in calls, AcceptRelease(c) PROVE ComesMove
  <2>1. PICK s \in Daemons : s = Server(c)
    BY <1>30, ReceivedAt
  <2>5. phase[s] = "serving"
    BY <1>30, <2>1, ReceivedAt
  <2>6. UNCHANGED <<phase, sess, report>> /\ reg' = [reg EXCEPT ![s] = c.entry]
    BY <1>30, <2>1 DEF AcceptRelease, UpdateRegistry
  <2>2. phase[s] = "serving" /\ UNCHANGED <<phase, sess, report>>
           /\ \A e \in Daemons \ {s} : reg'[e] = reg[e]
    BY <2>5, <2>6 DEF Typed, TypeOK
  <2>3. resuming' = resuming
    BY <1>30 DEF AcceptRelease
  <2> QED
    BY <1>0, <2>2, <2>3 DEF ComesMove, Somewhere, OnItsWay, Owning, WaitingMoves
<1> QED
  BY <1>1, <1>2, <1>3, <1>4, <1>5, <1>6, <1>7, <1>8, <1>9, <1>10, <1>11, <1>12, <1>13,
     <1>14, <1>15, <1>16, <1>17, <1>18, <1>19, <1>20, <1>21, <1>22, <1>23, <1>24,
     <1>25, <1>26, <1>27, <1>28, <1>29, <1>30 DEF Next, Caller, Start, Work, Watcher,
     Again, Peer, Client

\* Where the session goes.
LEMMA GoesNext ==
    ASSUME Plain, Typed, Typed', Line, Line', Outside, Outside', CallShape,
       CallShape', Handing, Resuming, Kept, Kept', Forwarding, Entered, Unborn, Chain,
       Relayed, Settled, Back, Behind, Sure, MarkedReads, Claimed, [Next]_vars
    PROVE  GoesMove
<1> USE DEF procVars, regVars, sessVars, handVars, wakeVars, wireVars, histVars
<1>0. WaitingMoves
  BY WaitingNext
<1>1. ASSUME NEW d \in Daemons, Check(d) \/ ClientCall(d) PROVE GoesMove
  <2>1. UNCHANGED <<phase, reg, sess, resuming, report>>
    BY <1>1 DEF Check, ClientCall
  <2> QED
    BY <2>1, <1>0 DEF GoesMove, Somewhere, OnItsWay, Owning, WaitingMoves
<1>2. ASSUME NEW c \in calls, Relay(c) \/ Unreachable(c) \/ Answer(c) PROVE GoesMove
  <2>1. UNCHANGED <<phase, reg, sess, resuming, report>>
    BY <1>2 DEF Relay, Replace, Unreachable, Answer, Notify
  <2> QED
    BY <2>1, <1>0 DEF GoesMove, Somewhere, OnItsWay, Owning, WaitingMoves
<1>3. CASE Dispatch \/ Connect \/ Forwarded
  <2>1. UNCHANGED <<phase, reg, sess, resuming, report>>
    BY <1>3 DEF Dispatch, Returns, Connect, Goes, Forwarded
  <2> QED
    BY <2>1, <1>0 DEF GoesMove, Somewhere, OnItsWay, Owning, WaitingMoves
<1>4. CASE UNCHANGED vars
  <2>1. UNCHANGED <<phase, reg, sess, resuming, report>>
    BY <1>4 DEF vars
  <2> QED
    BY <2>1, <1>0 DEF GoesMove, Somewhere, OnItsWay, Owning, WaitingMoves
<1>5. ASSUME NEW d \in Daemons, LoadRegistry(d) PROVE GoesMove
  BY <1>5, <1>0 DEF GoesMove, Somewhere, OnItsWay, Owning, WaitingMoves, Typed,
     TypeOK, LoadRegistry
<1>6. ASSUME NEW d \in Daemons, Run(d) PROVE GoesMove
  BY <1>6, <1>0 DEF GoesMove, Somewhere, OnItsWay, Owning, WaitingMoves, Typed,
     TypeOK, Run
<1>7. ASSUME NEW d \in Daemons, OpenClaim(d) PROVE GoesMove
  BY <1>7, <1>0 DEF GoesMove, Somewhere, OnItsWay, Owning, WaitingMoves, Typed,
     TypeOK, OpenClaim, Lead, Line
<1>8. ASSUME NEW d \in Daemons, Takeover(d) PROVE GoesMove
  <2>1. PICK p \in Daemons : p = claim
    BY <1>8 DEF Takeover, Typed, TypeOK
  <2>2. /\ UNCHANGED <<reg, resuming>> /\ report' = [report EXCEPT ![d] = Partition(p)]
             /\ phase[d] = "calling"
        /\ sess' = [sess EXCEPT ![p] = IF Handed(p) THEN "none" ELSE @]
        /\ \A e \in Daemons : phase[e] = "resume" => phase'[e] = "resume"
    BY <1>8, <2>1 DEF Takeover, Typed, TypeOK
  <2>3. Handed(p) => report'[d].kind = "handed"
    BY <2>2 DEF Partition, Typed, TypeOK
  <2>4. report[d] = NoReport
    BY <2>2 DEF Outside
  <2>5. \A e \in Daemons : report[e].kind = "handed" => report'[e].kind = "handed"
    BY <2>2, <2>4 DEF NoReport, Typed, TypeOK
  <2>6. Handed(p) => Somewhere'
    BY <2>3 DEF Somewhere, OnItsWay
  <2>7. ~Handed(p) => sess' = sess
    BY <2>2 DEF Typed, TypeOK
  <2> QED
    BY <1>0, <2>2, <2>5, <2>6, <2>7 DEF GoesMove, Somewhere, OnItsWay, Owning, WaitingMoves
<1>9. ASSUME NEW d \in Daemons, Supersede(d) PROVE GoesMove
  <2>1. /\ UNCHANGED <<sess, resuming>> /\ report' = [report EXCEPT ![d] = NoReport]
             /\ phase[d] = "reported"
        /\ \A e \in Daemons \ {d} : phase'[e] = phase[e] /\ reg'[e] = reg[e]
    BY <1>9 DEF Supersede, Lead, UpdateRegistry, Typed, TypeOK
  <2>2. report[d].kind = "handed" => phase'[d] = "resume" /\ reg'[d] = "marked"
    BY <1>9 DEF Supersede, Lead, UpdateRegistry, Entered, Line, Typed, TypeOK
  <2> QED
    BY <1>0, <2>1, <2>2 DEF GoesMove, Somewhere, OnItsWay, Owning, WaitingMoves, Typed,
          TypeOK
<1>10. ASSUME NEW d \in Daemons, ResumeMarked(d) PROVE GoesMove
  BY <1>10, <1>0 DEF GoesMove, Somewhere, OnItsWay, Owning, WaitingMoves, Typed,
     TypeOK, ResumeMarked, Sure
<1>11. ASSUME NEW d \in Daemons, Spawn(d) PROVE GoesMove
  BY <1>11, <1>0 DEF GoesMove, Somewhere, OnItsWay, Owning, WaitingMoves, Typed,
     TypeOK, Spawn, Notify, UpdateRegistry
<1>12. ASSUME NEW d \in Daemons, StartTurn(d) PROVE GoesMove
  BY <1>12, <1>0 DEF GoesMove, Somewhere, OnItsWay, Owning, WaitingMoves, Typed,
     TypeOK, StartTurn, Notify
<1>13. ASSUME NEW d \in Daemons, EndTurn(d) PROVE GoesMove
  BY <1>13, <1>0 DEF GoesMove, Somewhere, OnItsWay, Owning, WaitingMoves, Typed,
     TypeOK, EndTurn, Notify
<1>14. ASSUME NEW d \in Daemons, Adopt(d) PROVE GoesMove
  BY <1>14, <1>0 DEF GoesMove, Somewhere, OnItsWay, Owning, WaitingMoves, Typed,
     TypeOK, Adopt
<1>15. ASSUME NEW d \in Daemons, ResumeHanded(d) PROVE GoesMove
  BY <1>15, <1>0 DEF GoesMove, Somewhere, OnItsWay, Owning, WaitingMoves, Typed,
     TypeOK, ResumeHanded, Notify, Sure, Resuming
<1>16. ASSUME NEW d \in Daemons, LaunchSettles(d) PROVE GoesMove
  BY <1>16, <1>0 DEF GoesMove, Somewhere, OnItsWay, Owning, WaitingMoves, Typed,
     TypeOK, LaunchSettles, Notify, UpdateRegistry, Sure, Outside, Resuming
<1>17. ASSUME NEW d \in Daemons, Ended(d) PROVE GoesMove
  BY <1>17, <1>0 DEF GoesMove, Somewhere, OnItsWay, Owning, WaitingMoves, Typed,
     TypeOK, Ended, Notify, UpdateRegistry, Outside
<1>18. ASSUME NEW d \in Daemons, NEW k \in {"close", "forget"},
             EndSession(d, k)
      PROVE  GoesMove
  <2>1. UNCHANGED <<phase, reg, resuming, report>> /\ sess' = [sess EXCEPT ![d] = "none"]
    BY <1>18 DEF EndSession
  <2> QED
    BY <1>18, <1>0, <2>1 DEF GoesMove, Somewhere, OnItsWay, Owning, WaitingMoves, Typed,
          TypeOK
<1>19. ASSUME NEW d \in Daemons, OtherProgress(d) PROVE GoesMove
  BY <1>19, <1>0 DEF GoesMove, Somewhere, OnItsWay, Owning, WaitingMoves, Typed,
     TypeOK, OtherProgress, Notify, UpdateRegistry
<1>20. ASSUME NEW d \in Daemons, Scan(d) PROVE GoesMove
  <2>1. UNCHANGED <<phase, reg, resuming, report>> /\ \A e \in Daemons :
           e # d => sess'[e] = sess[e]
    BY <1>20 DEF Scan, Typed, TypeOK
  <2>2. sess'[d] = sess[d] \/ Waiting(d)'
    <3>1. CASE sess[d] = "idle"
      <4>1. sess'[d] = "handing" /\ calls' = calls \cup {Call(d, "handoff", "marked")}
               /\ watch[d] = "scan"
        BY <1>20, <3>1 DEF Scan, Typed, TypeOK
      <4>2. ~Accepted(d)
        BY <4>1, NotWaiting DEF CallShape
      <4> QED
        BY <4>1, <4>2 DEF Waiting, Accepted, Call
    <3>2. CASE sess[d] # "idle"
      BY <1>20, <3>2 DEF Scan
    <3> QED
      BY <3>1, <3>2
  <2> QED
    BY <1>0, <2>1, <2>2 DEF GoesMove, Somewhere, OnItsWay, Owning, WaitingMoves
<1>21. ASSUME NEW d \in Daemons, NEW c \in calls, Reported(d, c) PROVE GoesMove
  <2>1. c.from = d
    BY <1>21 DEF Reported
  <2>2. ~Owning(d)
    BY <2>1, MakerWaits DEF CallShape, Owning
  <2>3. /\ UNCHANGED <<phase, reg, resuming, report>>
        /\ \A e \in Daemons \ {d} : sess'[e] = sess[e]
    BY <1>21 DEF Reported, Typed, TypeOK
  <2> QED
    BY <1>0, <2>2, <2>3 DEF GoesMove, Somewhere, OnItsWay, Owning, WaitingMoves
<1>22. ASSUME NEW d \in Daemons, Watch(d) PROVE GoesMove
  BY <1>22, <1>0 DEF GoesMove, Somewhere, OnItsWay, Owning, WaitingMoves, Typed,
     TypeOK, Watch, Line
<1>23. ASSUME NEW d \in Daemons, Reclaim(d) PROVE GoesMove
  BY <1>23 DEF Reclaim, Line
<1>24. ASSUME NEW d \in Daemons, Merge(d) PROVE GoesMove
  BY <1>24 DEF Merge, Line
<1>25. ASSUME NEW d \in Daemons, Exit(d) PROVE GoesMove
  <2>1. /\ \A e \in Daemons \ {d} : /\ phase'[e] = phase[e] /\ reg'[e] = reg[e]
                                         /\ sess'[e] = sess[e]
                                    /\ resuming'[e] = resuming[e] /\ report'[e] = report[e]
    BY <1>25 DEF Exit, Gone, Typed, TypeOK
  <2>2. phase[d] = "serving" /\ Superseded(d) /\ sess[d] = "none"
    BY <1>25 DEF Exit, Settled, Typed, Watches, Superseded
  <2>3. report[d] = NoReport /\ resuming[d] \notin {"claimed", "pending"}
    BY <2>2 DEF Outside, Resuming
  <2> QED
    BY <1>0, <2>1, <2>2, <2>3 DEF GoesMove, Somewhere, OnItsWay, Owning, WaitingMoves,
          Waiting, NoReport
<1>26. ASSUME NEW d \in Daemons, Crash(d) PROVE GoesMove
  BY <1>26 DEF Plain
<1>27. ASSUME NEW d \in Daemons, LeadFails(d) PROVE GoesMove
  BY <1>27 DEF LeadFails, Line
<1>28. ASSUME NEW c \in calls, ClaimHandoff(c) PROVE GoesMove
  <2>1. /\ UNCHANGED <<phase, reg, sess, report>>
             /\ resuming' = [resuming EXCEPT ![Server(c)] = "claimed"]
    BY <1>28 DEF ClaimHandoff
  <2> QED
    BY <1>0, <2>1 DEF GoesMove, Somewhere, OnItsWay, Owning, WaitingMoves, Typed, TypeOK
<1>29. ASSUME NEW c \in calls, AcceptHandoff(c) PROVE GoesMove
  <2>1. PICK s \in Daemons : s = Server(c)
    BY <1>29, ReceivedAt
  <2>5. phase[s] = "serving"
    BY <1>29, <2>1, ReceivedAt
  <2>6. UNCHANGED <<phase, sess, report>> /\ reg' = [reg EXCEPT ![s] = c.entry]
    BY <1>29, <2>1 DEF AcceptHandoff, UpdateRegistry
  <2>2. phase[s] = "serving" /\ UNCHANGED <<phase, sess, report>>
           /\ \A e \in Daemons \ {s} : reg'[e] = reg[e]
    BY <2>5, <2>6 DEF Typed, TypeOK
  <2>3. resuming' = [resuming EXCEPT ![s] = "pending"]
    BY <1>29, <2>1 DEF AcceptHandoff
  <2> QED
    BY <1>0, <2>2, <2>3 DEF GoesMove, Somewhere, OnItsWay, Owning, WaitingMoves, Typed,
          TypeOK
<1>30. ASSUME NEW c \in calls, AcceptRelease(c) PROVE GoesMove
  <2>1. PICK s \in Daemons : s = Server(c)
    BY <1>30, ReceivedAt
  <2>5. phase[s] = "serving"
    BY <1>30, <2>1, ReceivedAt
  <2>6. UNCHANGED <<phase, sess, report>> /\ reg' = [reg EXCEPT ![s] = c.entry]
    BY <1>30, <2>1 DEF AcceptRelease, UpdateRegistry
  <2>2. phase[s] = "serving" /\ UNCHANGED <<phase, sess, report>>
           /\ \A e \in Daemons \ {s} : reg'[e] = reg[e]
    BY <2>5, <2>6 DEF Typed, TypeOK
  <2>3. resuming' = resuming
    BY <1>30 DEF AcceptRelease
  <2> QED
    BY <1>0, <2>2, <2>3 DEF GoesMove, Somewhere, OnItsWay, Owning, WaitingMoves
<1> QED
  BY <1>1, <1>2, <1>3, <1>4, <1>5, <1>6, <1>7, <1>8, <1>9, <1>10, <1>11, <1>12, <1>13,
     <1>14, <1>15, <1>16, <1>17, <1>18, <1>19, <1>20, <1>21, <1>22, <1>23, <1>24,
     <1>25, <1>26, <1>27, <1>28, <1>29, <1>30 DEF Next, Caller, Start, Work, Watcher,
     Again, Peer, Client

\* What a step makes of the reports' entries: the maker's entry of the time the
\* report was sent, or a handed one's mark.
EntriesMove ==
    \A b \in calls' :
        \/ \E c \in calls : /\ b.from = c.from /\ b.kind = c.kind /\ b.entry = c.entry
                            /\ c.stage = "ok" => b.stage = "ok"
        \/ \E d \in Daemons : /\ Scan(d) /\ b.from = d
                              /\ \/ sess[d] = "idle" /\ b.kind = "handoff"
                                 \/ /\ sess[d] = "none" /\ owned[d]
                                    /\ b.kind = "release" /\ b.entry = reg[d]

\* Of registry.json: it is written by the claim's holder, with each change of
\* its copy;
FilesMove ==
    /\ file' = file \/ \E d \in Daemons : claim' = d /\ file' = reg'[d]
    /\ \A d \in Daemons : claim = d /\ claim' = d => reg'[d] = reg[d] \/ file' = reg'[d]

\* of the claim;
ClaimMoves ==
    \A d \in Daemons : /\ claim = d => claim' = d \/ \E x \in Daemons : Takeover(x)
                       /\ phase[d] = "reported" => phase'[d] = "reported" \/ Supersede(d)
                       /\ claim' = d => claim = d \/ Supersede(d)

\* and of what a starting daemon has read.
Starting(d) == phase[d] \in {"loaded", "leading", "calling", "reported"}
ReadsMove ==
    \A d \in Daemons : Starting(d)' => \/ Starting(d) /\ reg'[d] = reg[d]
                                       \/ LoadRegistry(d) /\ reg'[d] = file

\* A session that is marked in a registry is being launched, or about to be.
MarkedIn ==
    \A d \in Daemons : phase[d] \in {"resume", "load", "serving"} /\ reg[d] = "marked" =>
        phase[d] = "resume" \/ sess[d] = "launching" \/ resuming[d] = "pending"
MarkedCalls == \A c \in calls : c.kind = "release" => c.entry # "marked"
MarkedFile == file = "marked" => \/ \E d \in Daemons : claim = d /\ reg[d] = "marked"
                                 \/ Somewhere /\ \E d \in Daemons : phase[d] = "reported"
Marked == MarkedIn /\ MarkedCalls /\ MarkedFile /\ MarkedReads

\* The reports' entries.
LEMMA EntriesNext ==
    ASSUME Plain, Typed, Typed', Line, Line', Outside, Outside', CallShape,
       CallShape', Handing, Resuming, Kept, Kept', Forwarding, Entered, Unborn, Chain,
       Relayed, Settled, Back, Behind, [Next]_vars
    PROVE  EntriesMove
<1> USE DEF procVars, regVars, sessVars, handVars, wakeVars, wireVars, histVars
<1>1. ASSUME NEW d \in Daemons,
             LoadRegistry(d) \/ Run(d) \/ OpenClaim(d) \/ Takeover(d) \/ Supersede(d)
                \/ ResumeMarked(d) \/ Spawn(d) \/ StartTurn(d) \/ EndTurn(d) \/
                Adopt(d)
      PROVE  EntriesMove
  <2>1. UNCHANGED <<calls>>
    BY <1>1 DEF LoadRegistry, Run, OpenClaim, Lead, Takeover, Notify, Supersede,
       UpdateRegistry, ResumeMarked, Spawn, StartTurn, EndTurn, Adopt
  <2> QED
    BY <2>1 DEF EntriesMove
<1>2. ASSUME NEW d \in Daemons,
             ResumeHanded(d) \/ LaunchSettles(d) \/ Ended(d) \/ OtherProgress(d) \/
                Check(d) \/ Watch(d) \/ Reclaim(d) \/ Merge(d) \/ ClientCall(d)
      PROVE  EntriesMove
  <2>1. UNCHANGED <<calls>>
    BY <1>2 DEF ResumeHanded, Notify, LaunchSettles, UpdateRegistry, Ended,
       OtherProgress, Check, Watch, Reclaim, Merge, ClientCall
  <2> QED
    BY <2>1 DEF EntriesMove
<1>3. ASSUME NEW d \in Daemons, NEW k \in {"close", "forget"},
             EndSession(d, k)
      PROVE  EntriesMove
  <2>1. UNCHANGED <<calls>>
    BY <1>3 DEF EndSession, Notify
  <2> QED
    BY <2>1 DEF EntriesMove
<1>4. CASE Dispatch \/ Connect \/ Forwarded
  <2>1. UNCHANGED <<calls>>
    BY <1>4 DEF Dispatch, Returns, Connect, Goes, Forwarded
  <2> QED
    BY <2>1 DEF EntriesMove
<1>5. CASE UNCHANGED vars
  <2>1. UNCHANGED <<calls>>
    BY <1>5 DEF vars
  <2> QED
    BY <2>1 DEF EntriesMove
<1>6. ASSUME NEW d \in Daemons, Scan(d) PROVE EntriesMove
  <2>1. ASSUME NEW b \in calls', b \notin calls
        PROVE  /\ b.from = d
               /\ \/ sess[d] = "idle" /\ b.kind = "handoff"
                  \/ /\ sess[d] = "none" /\ owned[d] /\ b.kind = "release"
                          /\ b.entry = reg[d]
    <3>1. \/ sess[d] = "idle" /\ b = Call(d, "handoff", "marked")
          \/ sess[d] = "none" /\ owned[d] /\ b = Call(d, "release", reg[d])
      BY <1>6, <2>1 DEF Scan
    <3> QED
      BY <3>1 DEF Call
  <2> QED
    BY <1>6, <2>1 DEF EntriesMove
<1>7. ASSUME NEW d \in Daemons, NEW c \in calls, Reported(d, c) PROVE EntriesMove
  BY <1>7 DEF EntriesMove, Reported, Notify
<1>8. ASSUME NEW d \in Daemons, Exit(d) PROVE EntriesMove
  <2>1. calls' = calls
    BY <1>8, ExitCalls DEF CallShape
  <2> QED
    BY <2>1 DEF EntriesMove
<1>9. ASSUME NEW d \in Daemons, Crash(d) PROVE EntriesMove
  BY <1>9 DEF Plain
<1>10. ASSUME NEW d \in Daemons, LeadFails(d) PROVE EntriesMove
  BY <1>10 DEF LeadFails, Line
<1>11. ASSUME NEW c \in calls, Relay(c) PROVE EntriesMove
  <2> DEFINE r == [c EXCEPT !.path = Append(c.path, next[Server(c)])]
  <2>1. /\ r.from = c.from /\ r.kind = c.kind /\ r.entry = c.entry
        /\ r.stage = c.stage /\ r.path = Append(c.path, next[Server(c)])
    BY EditFields DEF Typed, TypeOK
  <2>2. calls' = (calls \ {c}) \cup {r}
    BY <1>11 DEF Relay, Replace
  <2> HIDE DEF r
  <2>3. c.stage = "ok" => r.stage = "ok"
    BY <1>11, <2>1 DEF Relay, CallShape, CallClaimed
  <2>4. ASSUME NEW b \in calls' PROVE b \in calls \/ b = r
    BY <2>2
  <2> QED
    BY <2>1, <2>3, <2>4 DEF EntriesMove
<1>12. ASSUME NEW c \in calls, Unreachable(c) PROVE EntriesMove
  <2> DEFINE r == [c EXCEPT !.stage = "err", !.path = Front(c.path)]
  <2>1. /\ r.from = c.from /\ r.kind = c.kind /\ r.entry = c.entry
        /\ r.stage = "err" /\ r.path = Front(c.path)
    BY EditFields DEF Typed, TypeOK
  <2>2. calls' = (calls \ {c}) \cup {r}
    BY <1>12 DEF Unreachable, Replace
  <2> HIDE DEF r
  <2>3. c.stage = "ok" => r.stage = "ok"
    BY <1>12, <2>1 DEF Unreachable, CallShape, CallClaimed
  <2>4. ASSUME NEW b \in calls' PROVE b \in calls \/ b = r
    BY <2>2
  <2> QED
    BY <2>1, <2>3, <2>4 DEF EntriesMove
<1>13. ASSUME NEW c \in calls, ClaimHandoff(c) PROVE EntriesMove
  <2> DEFINE r == [c EXCEPT !.stage = "claimed"]
  <2>1. /\ r.from = c.from /\ r.kind = c.kind /\ r.entry = c.entry
        /\ r.stage = "claimed" /\ r.path = c.path
    BY EditFields DEF Typed, TypeOK
  <2>2. calls' = (calls \ {c}) \cup {r}
    BY <1>13 DEF ClaimHandoff, Replace
  <2> HIDE DEF r
  <2>3. c.stage = "ok" => r.stage = "ok"
    BY <1>13, <2>1 DEF ClaimHandoff, CallShape, CallClaimed
  <2>4. ASSUME NEW b \in calls' PROVE b \in calls \/ b = r
    BY <2>2
  <2> QED
    BY <2>1, <2>3, <2>4 DEF EntriesMove
<1>14. ASSUME NEW c \in calls, AcceptHandoff(c) PROVE EntriesMove
  <2> DEFINE r == [c EXCEPT !.stage = "ok"]
  <2>1. /\ r.from = c.from /\ r.kind = c.kind /\ r.entry = c.entry
        /\ r.stage = "ok" /\ r.path = c.path
    BY EditFields DEF Typed, TypeOK
  <2>2. calls' = (calls \ {c}) \cup {r}
    BY <1>14 DEF AcceptHandoff, Replace
  <2> HIDE DEF r
  <2>3. c.stage = "ok" => r.stage = "ok"
    BY <1>14, <2>1 DEF AcceptHandoff, CallShape, CallClaimed
  <2>4. ASSUME NEW b \in calls' PROVE b \in calls \/ b = r
    BY <2>2
  <2> QED
    BY <2>1, <2>3, <2>4 DEF EntriesMove
<1>15. ASSUME NEW c \in calls, AcceptRelease(c) PROVE EntriesMove
  <2> DEFINE r == [c EXCEPT !.stage = "ok"]
  <2>1. /\ r.from = c.from /\ r.kind = c.kind /\ r.entry = c.entry
        /\ r.stage = "ok" /\ r.path = c.path
    BY EditFields DEF Typed, TypeOK
  <2>2. calls' = (calls \ {c}) \cup {r}
    BY <1>15 DEF AcceptRelease, Replace
  <2> HIDE DEF r
  <2>3. c.stage = "ok" => r.stage = "ok"
    BY <1>15, <2>1 DEF AcceptRelease, CallShape, CallClaimed
  <2>4. ASSUME NEW b \in calls' PROVE b \in calls \/ b = r
    BY <2>2
  <2> QED
    BY <2>1, <2>3, <2>4 DEF EntriesMove
<1>16. ASSUME NEW c \in calls, Answer(c) PROVE EntriesMove
  <2> DEFINE r == [c EXCEPT !.path = Front(c.path)]
  <2>1. /\ r.from = c.from /\ r.kind = c.kind /\ r.entry = c.entry
        /\ r.stage = c.stage /\ r.path = Front(c.path)
    BY EditFields DEF Typed, TypeOK
  <2>2. /\ calls' = (calls \ {c}) \cup {r} \/ (calls' = calls \ {c} /\ c.from = None)
        /\ c.path # << >> /\ c.stage \in {"ok", "err"}
    BY <1>16 DEF Answer, Replace
  <2> HIDE DEF r
  <2>4. ASSUME NEW b \in calls' PROVE b \in calls \/ b = r
    BY <2>2
  <2> QED
    BY <2>1, <2>4 DEF EntriesMove
<1> QED
  BY <1>1, <1>2, <1>3, <1>4, <1>5, <1>6, <1>7, <1>8, <1>9, <1>10, <1>11, <1>12, <1>13,
     <1>14, <1>15, <1>16 DEF Next, Caller, Start, Work, Watcher, Again, Peer, Client

\* Who writes registry.json.
LEMMA FilesNext ==
    ASSUME Plain, Typed, Typed', Line, Line', Outside, Outside', CallShape,
       CallShape', Handing, Resuming, Kept, Kept', Forwarding, Entered, Unborn, Chain,
       Relayed, Settled, Back, Behind, [Next]_vars
    PROVE  FilesMove
<1> USE DEF procVars, regVars, sessVars, handVars, wakeVars, wireVars, histVars
<1>1. ASSUME NEW d \in Daemons,
             Run(d) \/ ResumeMarked(d) \/ StartTurn(d) \/ EndTurn(d) \/ Adopt(d) \/
                ResumeHanded(d) \/ Scan(d) \/ Check(d) \/ Watch(d) \/ Reclaim(d)
      PROVE  FilesMove
  <2>1. UNCHANGED <<claim, file, reg>>
    BY <1>1 DEF Run, ResumeMarked, StartTurn, Notify, EndTurn, Adopt, ResumeHanded,
       Scan, Check, Watch, Reclaim
  <2> QED
    BY <2>1 DEF FilesMove
<1>2. ASSUME NEW d \in Daemons, ClientCall(d) PROVE FilesMove
  <2>1. UNCHANGED <<claim, file, reg>>
    BY <1>2 DEF ClientCall
  <2> QED
    BY <2>1 DEF FilesMove
<1>3. ASSUME NEW c \in calls,
             Relay(c) \/ Unreachable(c) \/ ClaimHandoff(c) \/ Answer(c)
      PROVE  FilesMove
  <2>1. UNCHANGED <<claim, file, reg>>
    BY <1>3 DEF Relay, Replace, Unreachable, ClaimHandoff, Answer, Notify
  <2> QED
    BY <2>1 DEF FilesMove
<1>4. ASSUME NEW d \in Daemons, NEW k \in {"close", "forget"},
             EndSession(d, k)
      PROVE  FilesMove
  <2>1. UNCHANGED <<claim, file, reg>>
    BY <1>4 DEF EndSession, Notify
  <2> QED
    BY <2>1 DEF FilesMove
<1>5. ASSUME NEW d \in Daemons, NEW c \in calls, Reported(d, c) PROVE FilesMove
  <2>1. UNCHANGED <<claim, file, reg>>
    BY <1>5 DEF Reported, Notify
  <2> QED
    BY <2>1 DEF FilesMove
<1>6. CASE Dispatch \/ Connect \/ Forwarded
  <2>1. UNCHANGED <<claim, file, reg>>
    BY <1>6 DEF Dispatch, Returns, Connect, Goes, Forwarded
  <2> QED
    BY <2>1 DEF FilesMove
<1>7. CASE UNCHANGED vars
  <2>1. UNCHANGED <<claim, file, reg>>
    BY <1>7 DEF vars
  <2> QED
    BY <2>1 DEF FilesMove
<1>8. ASSUME NEW d \in Daemons, LoadRegistry(d) PROVE FilesMove
  <2>1. claim' = claim /\ file' = file /\ phase[d] = "off" /\ \A e \in Daemons \ {d} :
           reg'[e] = reg[e]
    BY <1>8 DEF LoadRegistry, Typed, TypeOK
  <2>2. claim # d
    BY <2>1, DaemonsAssumption DEF Line
  <2> QED
    BY <2>1, <2>2 DEF FilesMove
<1>9. ASSUME NEW d \in Daemons, OpenClaim(d) PROVE FilesMove
  <2>1. claim' = claim
    BY <1>9, DaemonsAssumption DEF OpenClaim, Lead, Line
  <2>2. UNCHANGED <<file, reg>>
    BY <1>9 DEF OpenClaim
  <2> QED
    BY <2>1, <2>2 DEF FilesMove
<1>10. ASSUME NEW d \in Daemons, Takeover(d) PROVE FilesMove
  <2>1. UNCHANGED <<file, reg>> /\ claim' = None
    BY <1>10 DEF Takeover
  <2> QED
    BY <2>1, DaemonsAssumption DEF FilesMove
<1>11. ASSUME NEW d \in Daemons, Supersede(d) PROVE FilesMove
  <2>1. claim' = d /\ claim # d /\ ~Superseded(d)
    BY <1>11, DaemonsAssumption DEF Supersede, Lead, Line, Outside, Superseded
  <2>2. \E e \in Entries : reg' = [reg EXCEPT ![d] = e] /\ file' = e
    BY <1>11, <2>1 DEF Supersede, UpdateRegistry, Typed, TypeOK, Reports
  <2> QED
    BY <2>1, <2>2 DEF FilesMove, Typed, TypeOK
<1>12. ASSUME NEW d \in Daemons, Spawn(d) PROVE FilesMove
  <2>1. Superseded(d) \/ claim = d
    BY <1>12 DEF Spawn, Called, Working, Line
  <2>2. claim' = claim /\ (claim # d => file' = file \/ ~Superseded(d))
    BY <1>12 DEF Spawn, UpdateRegistry
  <2>3. (\A e \in Daemons \ {d} : reg'[e] = reg[e])
           /\ (file' = reg'[d] \/ (Superseded(d) /\ file' = file)
                \/ UNCHANGED <<file, reg>>)
    BY <1>12 DEF Spawn, UpdateRegistry, Typed, TypeOK
  <2>4. Superseded(d) => claim # d
    BY DEF Line
  <2> QED
    BY <2>1, <2>2, <2>3, <2>4 DEF FilesMove
<1>13. ASSUME NEW d \in Daemons, LaunchSettles(d) PROVE FilesMove
  <2>1. Superseded(d) \/ claim = d
    BY <1>13 DEF LaunchSettles, Line, Outside, Typed, TypeOK, Phases
  <2>2. claim' = claim /\ (claim # d => file' = file \/ ~Superseded(d))
    BY <1>13 DEF LaunchSettles, UpdateRegistry
  <2>3. (\A e \in Daemons \ {d} : reg'[e] = reg[e])
           /\ (file' = reg'[d] \/ (Superseded(d) /\ file' = file)
                \/ UNCHANGED <<file, reg>>)
    BY <1>13 DEF LaunchSettles, UpdateRegistry, Typed, TypeOK
  <2>4. Superseded(d) => claim # d
    BY DEF Line
  <2> QED
    BY <2>1, <2>2, <2>3, <2>4 DEF FilesMove
<1>14. ASSUME NEW d \in Daemons, Ended(d) PROVE FilesMove
  <2>1. Superseded(d) \/ claim = d
    BY <1>14 DEF Ended, Line, Outside, Typed, TypeOK, Phases
  <2>2. claim' = claim /\ (claim # d => file' = file \/ ~Superseded(d))
    BY <1>14 DEF Ended, UpdateRegistry
  <2>3. (\A e \in Daemons \ {d} : reg'[e] = reg[e])
           /\ (file' = reg'[d] \/ (Superseded(d) /\ file' = file)
                \/ UNCHANGED <<file, reg>>)
    BY <1>14 DEF Ended, UpdateRegistry, Typed, TypeOK
  <2>4. Superseded(d) => claim # d
    BY DEF Line
  <2> QED
    BY <2>1, <2>2, <2>3, <2>4 DEF FilesMove
<1>15. ASSUME NEW d \in Daemons, OtherProgress(d) PROVE FilesMove
  <2>1. Superseded(d) \/ claim = d
    BY <1>15 DEF OtherProgress, Working, Line
  <2>2. claim' = claim /\ (claim # d => file' = file \/ ~Superseded(d))
    BY <1>15 DEF OtherProgress, UpdateRegistry
  <2>3. (\A e \in Daemons \ {d} : reg'[e] = reg[e])
           /\ (file' = reg'[d] \/ (Superseded(d) /\ file' = file)
                \/ UNCHANGED <<file, reg>>)
    BY <1>15 DEF OtherProgress, UpdateRegistry, Typed, TypeOK
  <2>4. Superseded(d) => claim # d
    BY DEF Line
  <2> QED
    BY <2>1, <2>2, <2>3, <2>4 DEF FilesMove
<1>16. ASSUME NEW d \in Daemons, Merge(d) PROVE FilesMove
  BY <1>16 DEF Merge, Line
<1>17. ASSUME NEW d \in Daemons, Exit(d) PROVE FilesMove
  <2>1. claim # d /\ claim' = claim /\ file' = file /\ \A e \in Daemons \ {d} :
           reg'[e] = reg[e]
    BY <1>17 DEF Exit, Gone, Typed, TypeOK, Watches
  <2> QED
    BY <2>1 DEF FilesMove
<1>18. ASSUME NEW d \in Daemons, Crash(d) PROVE FilesMove
  BY <1>18 DEF Plain
<1>19. ASSUME NEW d \in Daemons, LeadFails(d) PROVE FilesMove
  BY <1>19 DEF LeadFails, Line
<1>20. ASSUME NEW c \in calls, AcceptHandoff(c) PROVE FilesMove
  <2>1. PICK s \in Daemons : s = Server(c)
    BY <1>20, ReceivedAt
  <2>2. claim = s /\ ~Superseded(s)
    BY <1>20, <2>1, ReceivedAt
  <2>3. claim' = claim /\ reg' = [reg EXCEPT ![s] = c.entry] /\ file' = c.entry
    BY <1>20, <2>1, <2>2 DEF AcceptHandoff, UpdateRegistry
  <2> QED
    BY <2>2, <2>3 DEF FilesMove, Typed, TypeOK
<1>21. ASSUME NEW c \in calls, AcceptRelease(c) PROVE FilesMove
  <2>1. PICK s \in Daemons : s = Server(c)
    BY <1>21, ReceivedAt
  <2>2. claim = s /\ ~Superseded(s)
    BY <1>21, <2>1, ReceivedAt
  <2>3. claim' = claim /\ reg' = [reg EXCEPT ![s] = c.entry] /\ file' = c.entry
    BY <1>21, <2>1, <2>2 DEF AcceptRelease, UpdateRegistry
  <2> QED
    BY <2>2, <2>3 DEF FilesMove, Typed, TypeOK
<1> QED
  BY <1>1, <1>2, <1>3, <1>4, <1>5, <1>6, <1>7, <1>8, <1>9, <1>10, <1>11, <1>12, <1>13,
     <1>14, <1>15, <1>16, <1>17, <1>18, <1>19, <1>20, <1>21 DEF Next, Caller, Start,
     Work, Watcher, Again, Peer, Client

\* Who has the claim.
LEMMA ClaimsNext ==
    ASSUME Plain, Typed, Typed', Line, Line', Outside, Outside', CallShape,
       CallShape', Handing, Resuming, Kept, Kept', Forwarding, Entered, Unborn, Chain,
       Relayed, Settled, Back, Behind, [Next]_vars
    PROVE  ClaimMoves
<1> USE DEF procVars, regVars, sessVars, handVars, wakeVars, wireVars, histVars
<1>1. ASSUME NEW d \in Daemons,
             Spawn(d) \/ StartTurn(d) \/ EndTurn(d) \/ Adopt(d) \/ ResumeHanded(d) \/
                Ended(d) \/ OtherProgress(d) \/ Scan(d) \/ Check(d) \/ ClientCall(d)
      PROVE  ClaimMoves
  <2>1. UNCHANGED <<phase, claim>>
    BY <1>1 DEF Spawn, Notify, UpdateRegistry, StartTurn, EndTurn, Adopt,
       ResumeHanded, Ended, OtherProgress, Scan, Check, ClientCall
  <2> QED
    BY <2>1 DEF ClaimMoves
<1>2. ASSUME NEW c \in calls,
             Relay(c) \/ Unreachable(c) \/ ClaimHandoff(c) \/ AcceptHandoff(c) \/
                AcceptRelease(c) \/ Answer(c)
      PROVE  ClaimMoves
  <2>1. UNCHANGED <<phase, claim>>
    BY <1>2 DEF Relay, Replace, Unreachable, ClaimHandoff, AcceptHandoff,
       UpdateRegistry, AcceptRelease, Answer, Notify
  <2> QED
    BY <2>1 DEF ClaimMoves
<1>3. ASSUME NEW d \in Daemons, NEW k \in {"close", "forget"},
             EndSession(d, k)
      PROVE  ClaimMoves
  <2>1. UNCHANGED <<phase, claim>>
    BY <1>3 DEF EndSession, Notify
  <2> QED
    BY <2>1 DEF ClaimMoves
<1>4. ASSUME NEW d \in Daemons, NEW c \in calls, Reported(d, c) PROVE ClaimMoves
  <2>1. UNCHANGED <<phase, claim>>
    BY <1>4 DEF Reported, Notify
  <2> QED
    BY <2>1 DEF ClaimMoves
<1>5. CASE Dispatch \/ Connect \/ Forwarded
  <2>1. UNCHANGED <<phase, claim>>
    BY <1>5 DEF Dispatch, Returns, Connect, Goes, Forwarded
  <2> QED
    BY <2>1 DEF ClaimMoves
<1>6. CASE UNCHANGED vars
  <2>1. UNCHANGED <<phase, claim>>
    BY <1>6 DEF vars
  <2> QED
    BY <2>1 DEF ClaimMoves
<1>7. ASSUME NEW d \in Daemons, LoadRegistry(d) PROVE ClaimMoves
  BY <1>7, DaemonsAssumption DEF ClaimMoves, Typed, TypeOK, LoadRegistry
<1>8. ASSUME NEW d \in Daemons, Run(d) PROVE ClaimMoves
  BY <1>8, DaemonsAssumption DEF ClaimMoves, Typed, TypeOK, Run
<1>9. ASSUME NEW d \in Daemons, OpenClaim(d) PROVE ClaimMoves
  <2>1. claim' = claim /\ phase[d] = "leading" /\ \A e \in Daemons \ {d} :
           phase'[e] = phase[e]
    BY <1>9, DaemonsAssumption DEF OpenClaim, Lead, Line, Typed, TypeOK
  <2> QED
    BY <2>1 DEF ClaimMoves
<1>10. ASSUME NEW d \in Daemons, Takeover(d) PROVE ClaimMoves
  <2>1. phase' = [phase EXCEPT ![d] = "reported"] /\ claim' = None
    BY <1>10 DEF Takeover
  <2> QED
    BY <1>10, <2>1, DaemonsAssumption DEF ClaimMoves, Typed, TypeOK
<1>11. ASSUME NEW d \in Daemons, Supersede(d) PROVE ClaimMoves
  <2>1. claim = None /\ claim' = d /\ \A e \in Daemons \ {d} : phase'[e] = phase[e]
    BY <1>11 DEF Supersede, Lead, Line, Typed, TypeOK
  <2> QED
    BY <1>11, <2>1, DaemonsAssumption DEF ClaimMoves
<1>12. ASSUME NEW d \in Daemons, ResumeMarked(d) PROVE ClaimMoves
  BY <1>12, DaemonsAssumption DEF ClaimMoves, Typed, TypeOK, ResumeMarked
<1>13. ASSUME NEW d \in Daemons, LaunchSettles(d) PROVE ClaimMoves
  BY <1>13, DaemonsAssumption DEF ClaimMoves, Typed, TypeOK, LaunchSettles, Notify,
     UpdateRegistry
<1>14. ASSUME NEW d \in Daemons, Watch(d) PROVE ClaimMoves
  BY <1>14, DaemonsAssumption DEF ClaimMoves, Typed, TypeOK, Watch, Line
<1>15. ASSUME NEW d \in Daemons, Reclaim(d) PROVE ClaimMoves
  BY <1>15 DEF Reclaim, Line
<1>16. ASSUME NEW d \in Daemons, Merge(d) PROVE ClaimMoves
  BY <1>16 DEF Merge, Line
<1>17. ASSUME NEW d \in Daemons, Exit(d) PROVE ClaimMoves
  <2>1. claim # d /\ claim' = claim /\ phase[d] = "serving" /\ \A e \in Daemons \ {d} :
           phase'[e] = phase[e]
    BY <1>17 DEF Exit, Gone, Typed, TypeOK, Watches
  <2> QED
    BY <2>1 DEF ClaimMoves
<1>18. ASSUME NEW d \in Daemons, Crash(d) PROVE ClaimMoves
  BY <1>18 DEF Plain
<1>19. ASSUME NEW d \in Daemons, LeadFails(d) PROVE ClaimMoves
  BY <1>19 DEF LeadFails, Line
<1> QED
  BY <1>1, <1>2, <1>3, <1>4, <1>5, <1>6, <1>7, <1>8, <1>9, <1>10, <1>11, <1>12, <1>13,
     <1>14, <1>15, <1>16, <1>17, <1>18, <1>19 DEF Next, Caller, Start, Work, Watcher,
     Again, Peer, Client

\* What starting daemons have read.
LEMMA ReadsNext ==
    ASSUME Plain, Typed, Typed', Line, Line', Outside, Outside', CallShape,
       CallShape', Handing, Resuming, Kept, Kept', Forwarding, Entered, Unborn, Chain,
       Relayed, Settled, Back, Behind, [Next]_vars
    PROVE  ReadsMove
<1> USE DEF procVars, regVars, sessVars, handVars, wakeVars, wireVars, histVars
<1>1. ASSUME NEW d \in Daemons,
             StartTurn(d) \/ EndTurn(d) \/ Adopt(d) \/ ResumeHanded(d) \/ Scan(d) \/
                Check(d) \/ ClientCall(d)
      PROVE  ReadsMove
  <2>1. UNCHANGED <<phase, reg>>
    BY <1>1 DEF StartTurn, Notify, EndTurn, Adopt, ResumeHanded, Scan, Check,
       ClientCall
  <2> QED
    BY <2>1 DEF ReadsMove, Starting
<1>2. ASSUME NEW c \in calls,
             Relay(c) \/ Unreachable(c) \/ ClaimHandoff(c) \/ Answer(c)
      PROVE  ReadsMove
  <2>1. UNCHANGED <<phase, reg>>
    BY <1>2 DEF Relay, Replace, Unreachable, ClaimHandoff, Answer, Notify
  <2> QED
    BY <2>1 DEF ReadsMove, Starting
<1>3. ASSUME NEW d \in Daemons, NEW k \in {"close", "forget"},
             EndSession(d, k)
      PROVE  ReadsMove
  <2>1. UNCHANGED <<phase, reg>>
    BY <1>3 DEF EndSession, Notify
  <2> QED
    BY <2>1 DEF ReadsMove, Starting
<1>4. ASSUME NEW d \in Daemons, NEW c \in calls, Reported(d, c) PROVE ReadsMove
  <2>1. UNCHANGED <<phase, reg>>
    BY <1>4 DEF Reported, Notify
  <2> QED
    BY <2>1 DEF ReadsMove, Starting
<1>5. CASE Dispatch \/ Connect \/ Forwarded
  <2>1. UNCHANGED <<phase, reg>>
    BY <1>5 DEF Dispatch, Returns, Connect, Goes, Forwarded
  <2> QED
    BY <2>1 DEF ReadsMove, Starting
<1>6. CASE UNCHANGED vars
  <2>1. UNCHANGED <<phase, reg>>
    BY <1>6 DEF vars
  <2> QED
    BY <2>1 DEF ReadsMove, Starting
<1>7. ASSUME NEW d \in Daemons, LoadRegistry(d) PROVE ReadsMove
  <2>1. reg' = [reg EXCEPT ![d] = file] /\ phase' = [phase EXCEPT ![d] = "loaded"]
    BY <1>7 DEF LoadRegistry
  <2>2. reg'[d] = file /\ \A e \in Daemons \ {d} : phase'[e] = phase[e] /\ reg'[e] = reg[e]
    BY <2>1 DEF Typed, TypeOK
  <2> QED
    BY <1>7, <2>2 DEF ReadsMove, Starting
<1>8. ASSUME NEW d \in Daemons, Run(d) PROVE ReadsMove
  BY <1>8, DaemonsAssumption DEF ReadsMove, Starting, Typed, TypeOK, Run
<1>9. ASSUME NEW d \in Daemons, OpenClaim(d) PROVE ReadsMove
  BY <1>9, DaemonsAssumption DEF ReadsMove, Starting, Typed, TypeOK, OpenClaim, Lead
<1>10. ASSUME NEW d \in Daemons, Takeover(d) PROVE ReadsMove
  BY <1>10, DaemonsAssumption DEF ReadsMove, Starting, Typed, TypeOK, Takeover, Notify
<1>11. ASSUME NEW d \in Daemons, Supersede(d) PROVE ReadsMove
  BY <1>11, DaemonsAssumption DEF ReadsMove, Starting, Typed, TypeOK, Supersede, Lead,
     UpdateRegistry
<1>12. ASSUME NEW d \in Daemons, ResumeMarked(d) PROVE ReadsMove
  BY <1>12, DaemonsAssumption DEF ReadsMove, Starting, Typed, TypeOK, ResumeMarked
<1>13. ASSUME NEW d \in Daemons, Spawn(d) PROVE ReadsMove
  BY <1>13, DaemonsAssumption DEF ReadsMove, Starting, Typed, TypeOK, Spawn, Notify,
     UpdateRegistry, Called, Working, Line
<1>14. ASSUME NEW d \in Daemons, LaunchSettles(d) PROVE ReadsMove
  <2>1. sess[d] = "launching" /\ ~Starting(d) /\ ~Starting(d)'
    BY <1>14 DEF LaunchSettles, Outside, Starting, Typed, TypeOK
  <2>2. \A e \in Daemons \ {d} : phase'[e] = phase[e] /\ reg'[e] = reg[e]
    BY <1>14 DEF LaunchSettles, UpdateRegistry, Typed, TypeOK
  <2> QED
    BY <2>1, <2>2 DEF ReadsMove, Starting
<1>15. ASSUME NEW d \in Daemons, Ended(d) PROVE ReadsMove
  BY <1>15, DaemonsAssumption DEF ReadsMove, Starting, Typed, TypeOK, Ended, Notify,
     UpdateRegistry, Outside
<1>16. ASSUME NEW d \in Daemons, OtherProgress(d) PROVE ReadsMove
  BY <1>16, DaemonsAssumption DEF ReadsMove, Starting, Typed, TypeOK, OtherProgress,
     Notify, UpdateRegistry
<1>17. ASSUME NEW d \in Daemons, Watch(d) PROVE ReadsMove
  BY <1>17, DaemonsAssumption DEF ReadsMove, Starting, Typed, TypeOK, Watch, Line
<1>18. ASSUME NEW d \in Daemons, Reclaim(d) PROVE ReadsMove
  BY <1>18 DEF Reclaim, Line
<1>19. ASSUME NEW d \in Daemons, Merge(d) PROVE ReadsMove
  BY <1>19 DEF Merge, Line
<1>20. ASSUME NEW d \in Daemons, Exit(d) PROVE ReadsMove
  BY <1>20, DaemonsAssumption DEF ReadsMove, Starting, Typed, TypeOK, Exit, Gone
<1>21. ASSUME NEW d \in Daemons, Crash(d) PROVE ReadsMove
  BY <1>21 DEF Plain
<1>22. ASSUME NEW d \in Daemons, LeadFails(d) PROVE ReadsMove
  BY <1>22 DEF LeadFails, Line
<1>23. ASSUME NEW c \in calls, AcceptHandoff(c) PROVE ReadsMove
  <2>1. phase' = phase /\ phase[Server(c)] = "serving"
           /\ reg' = [reg EXCEPT ![Server(c)] = c.entry]
    BY <1>23, ReceivedAt DEF AcceptHandoff, UpdateRegistry
  <2> QED
    BY <2>1 DEF ReadsMove, Starting, Typed, TypeOK
<1>24. ASSUME NEW c \in calls, AcceptRelease(c) PROVE ReadsMove
  <2>1. phase' = phase /\ phase[Server(c)] = "serving"
           /\ reg' = [reg EXCEPT ![Server(c)] = c.entry]
    BY <1>24, ReceivedAt DEF AcceptRelease, UpdateRegistry
  <2> QED
    BY <2>1 DEF ReadsMove, Starting, Typed, TypeOK
<1> QED
  BY <1>1, <1>2, <1>3, <1>4, <1>5, <1>6, <1>7, <1>8, <1>9, <1>10, <1>11, <1>12, <1>13,
     <1>14, <1>15, <1>16, <1>17, <1>18, <1>19, <1>20, <1>21, <1>22, <1>23, <1>24 DEF
     Next, Caller, Start, Work, Watcher, Again, Peer, Client

\* Marks are consumed, step by step.
LEMMA MarkedInNext ==
    ASSUME Plain, Typed, Typed', Line, Line', Outside, Outside', CallShape,
       CallShape', Handing, Resuming, Kept, Kept', Forwarding, Entered, Unborn, Chain,
       Relayed, Settled, Back, Behind, Sure, MarkedIn, MarkedCalls, MarkedFile,
       MarkedReads, Claimed, [Next]_vars
    PROVE  MarkedIn'
<1> USE DEF procVars, regVars, sessVars, handVars, wakeVars, wireVars, histVars
<1>1. ASSUME NEW d \in Daemons, Check(d) \/ ClientCall(d) PROVE MarkedIn'
  <2>1. UNCHANGED <<phase, reg, sess, resuming>>
    BY <1>1 DEF Check, ClientCall
  <2> QED
    BY <2>1 DEF MarkedIn
<1>2. ASSUME NEW c \in calls, Relay(c) \/ Unreachable(c) \/ Answer(c) PROVE MarkedIn'
  <2>1. UNCHANGED <<phase, reg, sess, resuming>>
    BY <1>2 DEF Relay, Replace, Unreachable, Answer, Notify
  <2> QED
    BY <2>1 DEF MarkedIn
<1>3. CASE Dispatch \/ Connect \/ Forwarded
  <2>1. UNCHANGED <<phase, reg, sess, resuming>>
    BY <1>3 DEF Dispatch, Returns, Connect, Goes, Forwarded
  <2> QED
    BY <2>1 DEF MarkedIn
<1>4. CASE UNCHANGED vars
  <2>1. UNCHANGED <<phase, reg, sess, resuming>>
    BY <1>4 DEF vars
  <2> QED
    BY <2>1 DEF MarkedIn
<1>5. ASSUME NEW d \in Daemons, LoadRegistry(d) PROVE MarkedIn'
  BY <1>5, DaemonsAssumption DEF MarkedIn, Typed, TypeOK, LoadRegistry
<1>6. ASSUME NEW d \in Daemons, Run(d) PROVE MarkedIn'
  BY <1>6, DaemonsAssumption DEF MarkedIn, Typed, TypeOK, Run
<1>7. ASSUME NEW d \in Daemons, OpenClaim(d) PROVE MarkedIn'
  <2>1. UNCHANGED <<reg, sess, resuming>>
    BY <1>7 DEF OpenClaim
  <2>2. phase'[d] \in {"resume", "calling"} /\ \A e \in Daemons \ {d} : phase'[e] = phase[e]
    BY <1>7 DEF OpenClaim, Lead, Line, Typed, TypeOK
  <2> QED
    BY <2>1, <2>2 DEF MarkedIn
<1>8. ASSUME NEW d \in Daemons, Takeover(d) PROVE MarkedIn'
  <2>1. PICK p \in Daemons : p = claim
    BY <1>8 DEF Takeover, Typed, TypeOK
  <2>2. /\ UNCHANGED <<reg, resuming>> /\ phase' = [phase EXCEPT ![d] = "reported"]
        /\ sess' = [sess EXCEPT ![p] = IF Handed(p) THEN "none" ELSE @]
    BY <1>8, <2>1 DEF Takeover
  <2>3. \A e \in Daemons : sess[e] = "launching" => sess'[e] = "launching"
    BY <2>2 DEF Handed, Typed, TypeOK
  <2> QED
    BY <2>2, <2>3 DEF MarkedIn, Typed, TypeOK
<1>9. ASSUME NEW d \in Daemons, Supersede(d) PROVE MarkedIn'
  <2>1. UNCHANGED <<sess, resuming>>
    BY <1>9 DEF Supersede
  <2>2. phase'[d] = "resume" /\ \A e \in Daemons \ {d} : phase'[e] = phase[e]
    BY <1>9 DEF Supersede, Lead, Line, Typed, TypeOK
  <2>3. \A e \in Daemons \ {d} : reg'[e] = reg[e]
    BY <1>9 DEF Supersede, UpdateRegistry, Typed, TypeOK
  <2> QED
    BY <2>1, <2>2, <2>3 DEF MarkedIn
<1>10. ASSUME NEW d \in Daemons, ResumeMarked(d) PROVE MarkedIn'
  <2>1. UNCHANGED <<reg, resuming>>
    BY <1>10 DEF ResumeMarked
  <2>2. \A e \in Daemons \ {d} : phase'[e] = phase[e] /\ sess'[e] = sess[e]
    BY <1>10 DEF ResumeMarked, Typed, TypeOK
  <2>3. reg[d] = "marked" => sess'[d] = "launching"
    BY <1>10 DEF ResumeMarked, Sure, Typed, TypeOK
  <2> QED
    BY <2>1, <2>2, <2>3 DEF MarkedIn
<1>11. ASSUME NEW d \in Daemons, Spawn(d) PROVE MarkedIn'
  BY <1>11, DaemonsAssumption DEF MarkedIn, Typed, TypeOK, Spawn, Notify,
     UpdateRegistry
<1>12. ASSUME NEW d \in Daemons, StartTurn(d) PROVE MarkedIn'
  BY <1>12, DaemonsAssumption DEF MarkedIn, Typed, TypeOK, StartTurn, Notify
<1>13. ASSUME NEW d \in Daemons, EndTurn(d) PROVE MarkedIn'
  BY <1>13, DaemonsAssumption DEF MarkedIn, Typed, TypeOK, EndTurn, Notify
<1>14. ASSUME NEW d \in Daemons, Adopt(d) PROVE MarkedIn'
  BY <1>14, DaemonsAssumption DEF MarkedIn, Typed, TypeOK, Adopt
<1>15. ASSUME NEW d \in Daemons, ResumeHanded(d) PROVE MarkedIn'
  BY <1>15, DaemonsAssumption DEF MarkedIn, Typed, TypeOK, ResumeHanded, Notify, Sure,
     Resuming
<1>16. ASSUME NEW d \in Daemons, LaunchSettles(d) PROVE MarkedIn'
  BY <1>16, DaemonsAssumption DEF MarkedIn, Typed, TypeOK, LaunchSettles, Notify,
     UpdateRegistry, Sure, Outside, Resuming
<1>17. ASSUME NEW d \in Daemons, Ended(d) PROVE MarkedIn'
  BY <1>17, DaemonsAssumption DEF MarkedIn, Typed, TypeOK, Ended, Notify,
     UpdateRegistry
<1>18. ASSUME NEW d \in Daemons, NEW k \in {"close", "forget"},
             EndSession(d, k)
      PROVE  MarkedIn'
  BY <1>18, DaemonsAssumption DEF MarkedIn, Typed, TypeOK, EndSession, Notify
<1>19. ASSUME NEW d \in Daemons, OtherProgress(d) PROVE MarkedIn'
  BY <1>19, DaemonsAssumption DEF MarkedIn, Typed, TypeOK, OtherProgress, Notify,
     UpdateRegistry
<1>20. ASSUME NEW d \in Daemons, Scan(d) PROVE MarkedIn'
  BY <1>20, DaemonsAssumption DEF MarkedIn, Typed, TypeOK, Scan
<1>21. ASSUME NEW d \in Daemons, NEW c \in calls, Reported(d, c) PROVE MarkedIn'
  <2>1. sess[d] # "launching" /\ UNCHANGED <<phase, reg, resuming>>
           /\ \A e \in Daemons \ {d} : sess'[e] = sess[e]
    BY <1>21, MakerWaits DEF Reported, CallShape, Typed, TypeOK
  <2> QED
    BY <2>1 DEF MarkedIn
<1>22. ASSUME NEW d \in Daemons, Watch(d) PROVE MarkedIn'
  BY <1>22, DaemonsAssumption DEF MarkedIn, Typed, TypeOK, Watch, Line
<1>23. ASSUME NEW d \in Daemons, Reclaim(d) PROVE MarkedIn'
  BY <1>23 DEF Reclaim, Line
<1>24. ASSUME NEW d \in Daemons, Merge(d) PROVE MarkedIn'
  BY <1>24 DEF Merge, Line
<1>25. ASSUME NEW d \in Daemons, Exit(d) PROVE MarkedIn'
  <2>1. \A e \in Daemons \ {d} : /\ phase'[e] = phase[e] /\ reg'[e] = reg[e]
                                      /\ sess'[e] = sess[e]
                                 /\ resuming'[e] = resuming[e]
    BY <1>25 DEF Exit, Gone, Typed, TypeOK
  <2>2. phase'[d] = "exited"
    BY <1>25 DEF Exit, Gone, Typed, TypeOK
  <2> QED
    BY <2>1, <2>2 DEF MarkedIn
<1>26. ASSUME NEW d \in Daemons, Crash(d) PROVE MarkedIn'
  BY <1>26 DEF Plain
<1>27. ASSUME NEW d \in Daemons, LeadFails(d) PROVE MarkedIn'
  BY <1>27 DEF LeadFails, Line
<1>28. ASSUME NEW c \in calls, ClaimHandoff(c) PROVE MarkedIn'
  <2>1. UNCHANGED <<phase, reg, sess>> /\ resuming[Server(c)] = "no"
           /\ resuming' = [resuming EXCEPT ![Server(c)] = "claimed"]
    BY <1>28 DEF ClaimHandoff
  <2> QED
    BY <2>1 DEF MarkedIn, Typed, TypeOK
<1>29. ASSUME NEW c \in calls, AcceptHandoff(c) PROVE MarkedIn'
  <2>1. UNCHANGED <<phase, sess>> /\ reg' = [reg EXCEPT ![Server(c)] = c.entry]
           /\ resuming' = [resuming EXCEPT ![Server(c)] = "pending"]
    BY <1>29 DEF AcceptHandoff, UpdateRegistry
  <2> QED
    BY <2>1 DEF MarkedIn, Typed, TypeOK
<1>30. ASSUME NEW c \in calls, AcceptRelease(c) PROVE MarkedIn'
  <2>1. UNCHANGED <<phase, sess, resuming>> /\ reg' = [reg EXCEPT ![Server(c)] = c.entry]
           /\ c.entry # "marked"
    BY <1>30 DEF AcceptRelease, UpdateRegistry, MarkedCalls
  <2> QED
    BY <2>1 DEF MarkedIn, Typed, TypeOK
<1> QED
  BY <1>1, <1>2, <1>3, <1>4, <1>5, <1>6, <1>7, <1>8, <1>9, <1>10, <1>11, <1>12, <1>13,
     <1>14, <1>15, <1>16, <1>17, <1>18, <1>19, <1>20, <1>21, <1>22, <1>23, <1>24,
     <1>25, <1>26, <1>27, <1>28, <1>29, <1>30 DEF Next, Caller, Start, Work, Watcher,
     Again, Peer, Client

\* The claim's holder has the session where its registry has a mark.
LEMMA HolderMarked ==
    ASSUME Typed, Line, MarkedIn, NEW d \in Daemons, claim = d, reg[d] = "marked"
    PROVE  Somewhere
<1>1. phase[d] \in {"resume", "load", "serving"}
  BY DaemonsAssumption DEF Line
<1> QED
  BY <1>1 DEF MarkedIn, Somewhere, OnItsWay, Owning

\* The session does not leave a daemon while there is a takeover, or a daemon has
\* read the registry and has yet to take over.
LEMMA StaysStarting ==
    ASSUME Plain, Typed, Typed', Line, Line', Outside, Outside', CallShape,
       CallShape', Handing, Resuming, Kept, Kept', Forwarding, Entered, Unborn, Chain,
       Relayed, Settled, Back, Behind, Sure, MarkedReads, Claimed, Somewhere, NEW d
       \in Daemons, Starting(d) \/ LoadRegistry(d) \/ Takeover(d), [Next]_vars
    PROVE  Somewhere'
<1>1. ASSUME NEW e \in Daemons, NEW k \in {"close", "forget"}, EndSession(e, k) PROVE FALSE
  <2>1. claim # None /\ phase' = phase /\ claim' = claim /\ \A x \in Daemons :
           phase[x] \notin {"loaded", "leading", "calling"}
    BY <1>1, ReachedWhere DEF EndSession, Fresh, Sure, procVars
  <2>2. \A x \in Daemons : phase[x] # "reported"
    BY <2>1 DEF Line
  <2> QED
    BY <2>1, <2>2 DEF Starting, LoadRegistry, Takeover, Typed, TypeOK
<1>2. GoesMove
  BY GoesNext
<1> QED
  BY <1>1, <1>2 DEF GoesMove

\* Marks, step by step.
LEMMA MarkedNext ==
    ASSUME Plain, Typed, Typed', Line, Line', Outside, Outside', CallShape,
       CallShape', Handing, Resuming, Kept, Kept', Forwarding, Entered, Unborn, Chain,
       Relayed, Settled, Back, Behind, Sure, Marked, Claimed, [Next]_vars
    PROVE  Marked'
<1> USE DEF Marked
<1>1. FilesMove /\ ClaimMoves /\ ReadsMove /\ EntriesMove
  BY FilesNext, ClaimsNext, ReadsNext, EntriesNext
<1>2. MarkedIn'
  BY MarkedInNext
<1>3. MarkedCalls'
  <2>1. ASSUME NEW d \in Daemons, Scan(d), sess[d] = "none" PROVE reg[d] # "marked"
    <3>1. phase[d] = "serving" /\ Superseded(d)
      BY <2>1 DEF Scan, Typed, Watches, Superseded
    <3> QED
      BY <2>1, <3>1 DEF MarkedIn, Resuming
  <2> QED
    BY <1>1, <2>1 DEF EntriesMove, MarkedCalls
<1>4. MarkedReads'
  <2>1. ASSUME NEW d \in Daemons, Starting(d)', reg'[d] = "marked" PROVE Somewhere'
    <3>1. CASE Starting(d) /\ reg'[d] = reg[d]
      <4>1. Somewhere
        BY <2>1, <3>1 DEF MarkedReads, Starting
      <4> QED
        BY <3>1, <4>1, StaysStarting
    <3>2. CASE LoadRegistry(d) /\ reg'[d] = file
      <4>1. Somewhere
        BY <2>1, <3>2, HolderMarked DEF MarkedFile
      <4> QED
        BY <3>2, <4>1, StaysStarting
    <3> QED
      BY <1>1, <2>1, <3>1, <3>2 DEF ReadsMove
  <2> QED
    BY <2>1 DEF MarkedReads, Starting
<1>5. MarkedFile'
  <2>1. SUFFICES ASSUME file' = "marked", ~\E d \in Daemons :
                           claim' = d /\ reg'[d] = "marked"
                 PROVE  Somewhere' /\ \E d \in Daemons : phase'[d] = "reported"
    BY DEF MarkedFile
  <2>2. file = "marked"
    BY <1>1, <2>1 DEF FilesMove
  <2>3. CASE \E d \in Daemons : claim = d /\ reg[d] = "marked"
    <3>1. PICK d \in Daemons : claim = d /\ reg[d] = "marked"
      BY <2>3
    <3>2. claim' # d
      BY <1>1, <2>1, <3>1 DEF FilesMove
    <3>3. PICK x \in Daemons : Takeover(x)
      BY <1>1, <3>1, <3>2 DEF ClaimMoves
    <3>4. phase'[x] = "reported"
      BY <3>3 DEF Takeover, Typed, TypeOK
    <3> QED
      BY <3>1, <3>3, <3>4, HolderMarked, StaysStarting
  <2>4. CASE Somewhere /\ \E d \in Daemons : phase[d] = "reported"
    <3>1. PICK d \in Daemons : phase[d] = "reported"
      BY <2>4
    <3>2. CASE phase'[d] = "reported"
      BY <2>4, <3>1, <3>2, StaysStarting DEF Starting
    <3>3. CASE Supersede(d)
      <4>1. claim' = d /\ ~Superseded(d) /\ file' = reg'[d]
        <5>1. ~Superseded(d)
          BY <3>1 DEF Outside, Superseded
        <5>2. \E e : reg' = [reg EXCEPT ![d] = e] /\ file' = e
          BY <3>3, <5>1 DEF Supersede, UpdateRegistry
        <5> QED
          BY <3>3, <5>1, <5>2 DEF Supersede, Lead, Typed, TypeOK
      <4> QED
        BY <2>1, <4>1
    <3> QED
      BY <1>1, <3>1, <3>2, <3>3 DEF ClaimMoves
  <2> QED
    BY <2>2, <2>3, <2>4 DEF MarkedFile
<1> QED
  BY <1>2, <1>3, <1>4, <1>5

\* While a `close` or a `forget` is under way the session is nowhere, no daemon
\* is starting, and the daemon it runs on does not report.
Ends ==
    \A d \in Daemons : ending[d] # "none" =>
        /\ ~Somewhere /\ \A e \in Daemons : ~Starting(e)
        /\ Superseded(d) => owned[d] /\ watch[d] \notin {"call", "check"}

\* What a step makes of an end that is under way.
EndsMove ==
    \A d \in Daemons : ending'[d] # "none" =>
        \/ \E k \in {"close", "forget"} : EndSession(d, k)
        \/ /\ ending'[d] = ending[d]
           /\ Superseded(d) /\ owned[d] /\ watch[d] \notin {"call", "check"}
                => owned'[d] /\ watch'[d] \notin {"call", "check"}

\* Which ends are under way.
LEMMA EndingNext ==
    ASSUME Plain, Typed, Typed', Line, Line', Outside, Outside', CallShape,
       CallShape', Handing, Resuming, Kept, Kept', Forwarding, Entered, Unborn, Chain,
       Relayed, Settled, Back, Behind, [Next]_vars
    PROVE  EndsMove
<1> USE DEF procVars, regVars, sessVars, handVars, wakeVars, wireVars, histVars
<1>1. ASSUME NEW d \in Daemons,
             LoadRegistry(d) \/ Run(d) \/ ResumeMarked(d) \/ Spawn(d) \/ StartTurn(d)
                \/ EndTurn(d) \/ Adopt(d) \/ ResumeHanded(d) \/ LaunchSettles(d) \/
                OtherProgress(d)
      PROVE  EndsMove
  <2>1. UNCHANGED <<ending, watch, owned>>
    BY <1>1 DEF LoadRegistry, Run, ResumeMarked, Spawn, Notify, UpdateRegistry,
       StartTurn, EndTurn, Adopt, ResumeHanded, LaunchSettles, OtherProgress
  <2> QED
    BY <2>1 DEF EndsMove
<1>2. ASSUME NEW d \in Daemons, Reclaim(d) \/ ClientCall(d) PROVE EndsMove
  <2>1. UNCHANGED <<ending, watch, owned>>
    BY <1>2 DEF Reclaim, ClientCall
  <2> QED
    BY <2>1 DEF EndsMove
<1>3. ASSUME NEW c \in calls,
             Relay(c) \/ Unreachable(c) \/ ClaimHandoff(c) \/ AcceptHandoff(c) \/
                AcceptRelease(c) \/ Answer(c)
      PROVE  EndsMove
  <2>1. UNCHANGED <<ending, watch, owned>>
    BY <1>3 DEF Relay, Replace, Unreachable, ClaimHandoff, AcceptHandoff,
       UpdateRegistry, AcceptRelease, Answer, Notify
  <2> QED
    BY <2>1 DEF EndsMove
<1>4. CASE Dispatch \/ Connect \/ Forwarded
  <2>1. UNCHANGED <<ending, watch, owned>>
    BY <1>4 DEF Dispatch, Returns, Connect, Goes, Forwarded
  <2> QED
    BY <2>1 DEF EndsMove
<1>5. CASE UNCHANGED vars
  <2>1. UNCHANGED <<ending, watch, owned>>
    BY <1>5 DEF vars
  <2> QED
    BY <2>1 DEF EndsMove
<1>6. ASSUME NEW d \in Daemons, OpenClaim(d) PROVE EndsMove
  <2>1. UNCHANGED <<ending, owned>> /\ next[d] = None /\ \A e \in Daemons \ {d} :
           watch'[e] = watch[e]
    BY <1>6 DEF OpenClaim, Lead, Outside, Typed, TypeOK
  <2> QED
    BY <2>1 DEF EndsMove, Superseded
<1>7. ASSUME NEW d \in Daemons, Takeover(d) PROVE EndsMove
  <2>1. PICK p \in Daemons : p = claim
    BY <1>7 DEF Takeover, Typed, TypeOK
  <2>2. ~Superseded(p)
    BY <2>1 DEF Line
  <2>3. owned' = [owned EXCEPT ![p] = sess[p] # "none" /\ ~Handed(p)]
    BY <1>7, <2>1 DEF Takeover
  <2>4. ending' = ending /\ watch' = [watch EXCEPT ![p] = "scan"]
    BY <1>7, <2>1 DEF Takeover
  <2>5. \A e \in Daemons \ {p} : owned'[e] = owned[e] /\ watch'[e] = watch[e]
    BY <2>3, <2>4 DEF Typed, TypeOK
  <2> QED
    BY <2>2, <2>4, <2>5 DEF EndsMove
<1>8. ASSUME NEW d \in Daemons, Supersede(d) PROVE EndsMove
  <2>1. UNCHANGED <<ending, owned>> /\ next[d] = None /\ \A e \in Daemons \ {d} :
           watch'[e] = watch[e]
    BY <1>8 DEF Supersede, Lead, Outside, Typed, TypeOK
  <2> QED
    BY <2>1 DEF EndsMove, Superseded
<1>9. ASSUME NEW d \in Daemons, Ended(d) PROVE EndsMove
  BY <1>9 DEF EndsMove, Typed, TypeOK, Ended, Notify, UpdateRegistry
<1>10. ASSUME NEW d \in Daemons, NEW k \in {"close", "forget"},
             EndSession(d, k)
      PROVE  EndsMove
  <2>1. UNCHANGED <<owned, watch>> /\ ending' = [ending EXCEPT ![d] = k]
    BY <1>10 DEF EndSession
  <2> QED
    BY <1>10, <2>1 DEF EndsMove, Typed, TypeOK
<1>11. ASSUME NEW d \in Daemons, Scan(d) PROVE EndsMove
  <2>1. ending' = ending /\ ending[d] = "none"
    BY <1>11 DEF Scan, Plain
  <2>2. \A e \in Daemons \ {d} : owned'[e] = owned[e] /\ watch'[e] = watch[e]
    BY <1>11 DEF Scan, Typed, TypeOK
  <2> QED
    BY <2>1, <2>2 DEF EndsMove
<1>12. ASSUME NEW d \in Daemons, NEW c \in calls, Reported(d, c) PROVE EndsMove
  <2>1. ending' = ending /\ watch[d] = "call"
    BY <1>12, MakerWaits DEF Reported, CallShape
  <2>2. \A e \in Daemons \ {d} : owned'[e] = owned[e] /\ watch'[e] = watch[e]
    BY <1>12 DEF Reported, Typed, TypeOK
  <2> QED
    BY <2>1, <2>2 DEF EndsMove
<1>13. ASSUME NEW d \in Daemons, Check(d) PROVE EndsMove
  BY <1>13 DEF EndsMove, Typed, TypeOK, Check
<1>14. ASSUME NEW d \in Daemons, Watch(d) PROVE EndsMove
  BY <1>14 DEF EndsMove, Typed, TypeOK, Watch
<1>15. ASSUME NEW d \in Daemons, Merge(d) PROVE EndsMove
  BY <1>15 DEF Merge, Line
<1>16. ASSUME NEW d \in Daemons, Exit(d) PROVE EndsMove
  <2>1. ending' = [ending EXCEPT ![d] = "none"] /\ ~owned[d]
    BY <1>16 DEF Exit, Gone, Settled
  <2>2. \A e \in Daemons \ {d} : owned'[e] = owned[e] /\ watch'[e] = watch[e]
    BY <1>16 DEF Exit, Gone, Typed, TypeOK
  <2> QED
    BY <2>1, <2>2 DEF EndsMove, Typed, TypeOK
<1>17. ASSUME NEW d \in Daemons, Crash(d) PROVE EndsMove
  BY <1>17 DEF Plain
<1>18. ASSUME NEW d \in Daemons, LeadFails(d) PROVE EndsMove
  BY <1>18 DEF LeadFails, Line
<1> QED
  BY <1>1, <1>2, <1>3, <1>4, <1>5, <1>6, <1>7, <1>8, <1>9, <1>10, <1>11, <1>12, <1>13,
     <1>14, <1>15, <1>16, <1>17, <1>18 DEF Next, Caller, Start, Work, Watcher, Again,
     Peer, Client

\* A daemon that waits for the answer to a report, or that has the session
\* though it is superseded, is the one the newest daemon forwards to.
LEMMA OwningKeeps ==
    ASSUME Plain, Typed, Line, Outside, CallShape, Handing, Resuming, Kept,
       Forwarding, Entered, Unborn, Chain, Relayed, Settled, Back, Behind, NEW n \in
       Daemons, claim = n, NEW e \in Daemons, Owning(e) \/ Waiting(e), e # n
    PROVE  Keeps(e) /\ foreign[n] = e
<1>1. sess[e] # "none" /\ phase[e] \in {"resume", "load", "serving"}
  BY DEF Owning, Waiting, Outside, Line, Typed, TypeOK, Phases
<1>2. Superseded(e)
  BY <1>1 DEF Line
<1>3. ~Accepted(e)
  <2>1. CASE Waiting(e)
    BY <2>1 DEF Waiting
  <2>2. CASE Owning(e)
    BY <2>2, MakerWaits DEF Accepted, CallShape, Owning
  <2> QED
    BY <2>1, <2>2
<1>4. Keeps(e)
  BY <1>1, <1>2, <1>3 DEF Keeps
<1> QED
  BY <1>4, HolderForwards

\* A call for the session reaches the one daemon it may be with.
LEMMA ReachedAlone ==
    ASSUME Plain, Typed, Line, Outside, CallShape, Handing, Resuming, Kept,
       Forwarding, Entered, Unborn, Chain, Relayed, Settled, Back, Behind, NEW d \in
       Daemons, Reached(d), Quiet(d), Claimed
    PROVE  /\ \A e \in Daemons \ {d} : ~Owning(e)
           /\ \A e \in Daemons : ~OnItsWay(e) /\ phase[e] # "reported"
           /\ Superseded(d) => Keeps(d)
           /\ \A e \in Daemons : Keeps(e) => e = d
           /\ watch[d] \notin {"call", "check"}
<1>1. /\ phase[d] = "serving" /\ claim # None /\ phase[claim] = "serving"
      /\ claim = d => foreign[d] = None /\ resuming[d] = "no"
      /\ claim # d => foreign[claim] = d
  BY ReachedWhere
<1>2. PICK n \in Daemons : n = claim
  BY <1>1 DEF Typed, TypeOK
<1>3. Newest(n) /\ ~Superseded(n) /\ \A e \in Daemons : phase[e] # "reported"
  BY <1>1, <1>2 DEF Newest, Line
<1>4. watch[d] \notin {"call", "check"}
  BY DEF Quiet, Plain
<1>5. \A e \in Daemons : Keeps(e) => foreign[n] = e
  BY <1>2, HolderForwards
<1>6. n # d => Keeps(d) /\ Forwards(n, d)
  BY <1>1, <1>2, <1>3 DEF Back, Forwards
<1>7. \A e \in Daemons : Keeps(e) => e = d
  BY <1>1, <1>2, <1>5, DaemonsAssumption
<1>8. n # d => sess[n] = "none" /\ resuming[n] \notin {"pending", "loading"}
  BY <1>3, <1>6 DEF Forwarding, NewestForwards
<1>9. ASSUME NEW e \in Daemons, e # d PROVE ~Owning(e)
  <2>1. CASE e = n
    BY <1>8, <1>9, <2>1 DEF Owning
  <2>2. CASE e # n
    BY <1>2, <1>7, <1>9, <2>2, OwningKeeps
  <2> QED
    BY <2>1, <2>2
<1>10. ASSUME NEW e \in Daemons, OnItsWay(e) PROVE FALSE
  <2>1. CASE Waiting(e)
    <3>1. watch[e] = "call" /\ Superseded(e)
      BY <2>1 DEF Waiting, Handing, Typed, Watches, Superseded
    <3>2. e # n /\ e # d
      BY <1>3, <1>4, <3>1
    <3> QED
      BY <1>2, <1>7, <2>1, <3>2, OwningKeeps
  <2>2. CASE report[e].kind = "handed"
    BY <1>3, <2>2 DEF Outside, NoReport
  <2>3. CASE resuming[e] \in {"claimed", "pending"}
    <3>1. e = n
      BY <1>2, <2>3, ClaimedAt
    <3>2. n # d
      BY <1>1, <1>2, <2>3, <3>1
    <3>3. resuming[n] = "claimed"
      BY <1>8, <2>3, <3>1, <3>2
    <3>4. PICK c \in calls : c.stage = "claimed"
      BY <3>3 DEF Claimed
    <3>5. Keeps(c.from) /\ c.from \in Daemons /\ watch[c.from] = "call"
      BY <3>4, MakerKeeps, MakerWaits DEF CallShape
    <3> QED
      BY <1>4, <1>7, <3>5
  <2>4. CASE phase[e] = "resume"
    <3>1. claim = e
      BY <2>4 DEF Line
    <3> QED
      BY <1>1, <2>4, <3>1
  <2> QED
    BY <1>10, <2>1, <2>2, <2>3, <2>4 DEF OnItsWay
<1>11. Superseded(d) => Keeps(d)
  BY <1>3, <1>6
<1> QED
  BY <1>3, <1>4, <1>7, <1>9, <1>10, <1>11

\* No call reaches another daemon than the one an end is under way on.
LEMMA EndingAlone ==
    ASSUME Plain, Typed, Line, Outside, CallShape, Handing, Resuming, Kept,
       Forwarding, Entered, Unborn, Chain, Relayed, Settled, Back, Behind, Ends, NEW d
       \in Daemons, ending[d] # "none", NEW e \in Daemons, Reached(e)
    PROVE  e = d
<1>1. /\ claim # None
      /\ claim = e => foreign[e] = None
      /\ claim # e => foreign[claim] = e
  BY ReachedWhere
<1>2. phase[d] = "serving"
  BY DEF Outside, Line, Typed, TypeOK, Phases
<1>3. CASE Superseded(d)
  <2>1. owned[d] /\ watch[d] # "call"
    BY <1>3 DEF Ends
  <2>2. Keeps(d)
    BY <1>3, <2>1, NotWaiting DEF Keeps, CallShape
  <2>3. PICK n \in Daemons : n = claim
    BY <1>1 DEF Typed, TypeOK
  <2>4. foreign[n] = d
    BY <2>2, <2>3, HolderForwards
  <2> QED
    BY <1>1, <2>3, <2>4, DaemonsAssumption
<1>4. CASE ~Superseded(d)
  <2>1. claim = d /\ foreign[d] = None
    BY <1>2, <1>4 DEF Line, Entered
  <2> QED
    BY <1>1, <2>1, DaemonsAssumption
<1> QED
  BY <1>3, <1>4

\* The ends under way, step by step.
LEMMA EndsNext ==
    ASSUME Plain, Typed, Typed', Line, Line', Outside, Outside', CallShape,
       CallShape', Handing, Resuming, Kept, Kept', Forwarding, Entered, Unborn, Chain,
       Relayed, Settled, Back, Behind, Sure, MarkedReads, Claimed, Ends, [Next]_vars
    PROVE  Ends'
<1>1. EndsMove /\ ComesMove /\ ReadsMove
  BY EndingNext, ComesNext, ReadsNext
<1>2. ASSUME NEW d \in Daemons, ending'[d] # "none"
      PROVE  ~Somewhere' /\ \A e \in Daemons : ~Starting(e)'
  <2>1. CASE \E k \in {"close", "forget"} : EndSession(d, k)
    <3>1. PICK k \in {"close", "forget"} : EndSession(d, k)
      BY <2>1
    <3>2. /\ \A e \in Daemons \ {d} : ~Owning(e)
          /\ \A e \in Daemons : ~OnItsWay(e) /\ phase[e] # "reported"
      BY <3>1, ReachedAlone DEF EndSession
    <3>3. \A e \in Daemons : ~Starting(e)
      BY <3>1, <3>2 DEF EndSession, Fresh, Sure, Starting
    <3>4. /\ UNCHANGED <<phase, reg, report, calls, resuming>>
          /\ sess' = [sess EXCEPT ![d] = "none"]
      BY <3>1 DEF EndSession, procVars, regVars, wireVars
    <3>5. \A e \in Daemons : ~Starting(e)'
      BY <3>3, <3>4 DEF Starting
    <3>6. \A e \in Daemons : ~OnItsWay(e)'
      BY <3>2, <3>4 DEF OnItsWay, Waiting, Accepted, Typed, TypeOK
    <3>7. \A e \in Daemons : ~Owning(e)'
      BY <3>2, <3>4 DEF Owning, Typed, TypeOK
    <3> QED
      BY <3>5, <3>6, <3>7 DEF Somewhere
  <2>2. CASE ending[d] = ending'[d]
    <3>1. ~Somewhere /\ \A e \in Daemons : ~Starting(e)
      BY <1>2, <2>2 DEF Ends
    <3>2. \A e \in Daemons : ~Adopt(e)
      <4>1. SUFFICES ASSUME NEW e \in Daemons, Adopt(e) PROVE FALSE
        OBVIOUS
      <4>2. e = d
        BY <1>2, <2>2, <4>1, EndingAlone DEF Adopt
      <4> QED
        BY <1>2, <2>2, <4>1, <4>2 DEF Adopt
    <3>3. \A e \in Daemons : ~Spawn(e)
      BY <1>2, <2>2 DEF Spawn, Unborn, Nothing
    <3>4. \A e \in Daemons : ~LoadRegistry(e)
      BY <1>2, <2>2 DEF LoadRegistry, Sure
    <3> QED
      BY <1>1, <3>1, <3>2, <3>3, <3>4 DEF ComesMove, ReadsMove
  <2> QED
    BY <1>1, <1>2, <2>1, <2>2 DEF EndsMove
<1>3. ASSUME NEW d \in Daemons, ending'[d] # "none", Superseded(d)'
      PROVE  owned'[d] /\ watch'[d] \notin {"call", "check"}
  <2>1. CASE \E k \in {"close", "forget"} : EndSession(d, k)
    <3>1. PICK k \in {"close", "forget"} : EndSession(d, k)
      BY <2>1
    <3>2. UNCHANGED <<next, owned, watch>>
      BY <3>1 DEF EndSession, handVars
    <3>3. Superseded(d)
      BY <1>3, <3>2 DEF Superseded
    <3>4. Keeps(d) /\ watch[d] \notin {"call", "check"}
      BY <3>1, <3>3, ReachedAlone DEF EndSession
    <3>5. \A c \in calls : c.from # d
      BY <3>4, NotWaiting DEF CallShape
    <3>6. CASE sess[d] = "none"
      BY <3>4, <3>5, <3>6, <3>2 DEF Keeps
    <3>7. CASE sess[d] # "none"
      <4>1. Owning(d)
        BY <3>4, <3>7 DEF Owning, Handing, Typed, TypeOK, Sess
      <4> QED
        BY <3>2, <3>3, <3>4, <4>1 DEF Settled
    <3> QED
      BY <3>6, <3>7
  <2>2. CASE /\ ending'[d] = ending[d]
             /\ Superseded(d) /\ owned[d] /\ watch[d] \notin {"call", "check"}
                  => owned'[d] /\ watch'[d] \notin {"call", "check"}
    <3>1. ending[d] # "none"
      BY <1>3, <2>2
    <3>2. Superseded(d)
      <4>1. SUFFICES ASSUME ~Superseded(d) PROVE FALSE
        OBVIOUS
      <4>2. PICK x \in Daemons : Takeover(x)
        BY <1>3, <4>1, StoodNext DEF StoodMoves
      <4> QED
        BY <3>1, <4>2 DEF Takeover, Starting, Ends
    <3> QED
      BY <2>2, <3>1, <3>2 DEF Ends
  <2> QED
    BY <1>1, <1>3, <2>1, <2>2 DEF EndsMove
<1> QED
  BY <1>2, <1>3 DEF Ends

\* A report of a session that is kept says by whom.
Owners == \A d \in Daemons : report[d].kind = "kept" => report[d].owner # None

\* How an entry comes back where there was none.
AbsentMove ==
    \A d \in Daemons : reg[d] = "absent" /\ reg'[d] # "absent" =>
        \/ LoadRegistry(d) \/ Supersede(d) \/ Spawn(d) \/ Somewhere
        \/ \E c \in calls : AcceptRelease(c) /\ c.entry # "absent"

\* How a session is forgotten.
ForgetMove == /\ forgot => forgot'
              /\ forgot' => forgot \/ \E d \in Daemons : Ended(d) /\ ending[d] = "forget"

\* A session that is nowhere and that no call can bring back: an entry is left
\* only where a daemon that keeps the session has to report that it is gone.
Away ==
    /\ ~Somewhere
    /\ \A n \in Daemons : claim = n /\ reg[n] # "absent" => foreign[n] # None
    /\ \A d \in Daemons : Starting(d) /\ reg[d] # "absent" => \E e \in Daemons : Keeps(e)
    /\ \A e \in Daemons : Keeps(e) => reg[e] = "absent"
    /\ file # "absent" => \E e \in Daemons : Keeps(e)
    /\ \A c \in calls : c.stage # "ok" => c.entry = "absent"
Forgotten == forgot => Away

\* Only a session that was started is forgotten.
Told == forgot => born

\* The reports' owners, step by step.
LEMMA OwnersNext ==
    ASSUME Plain, Typed, Typed', Line, Line', Outside, Outside', CallShape,
       CallShape', Handing, Resuming, Kept, Kept', Forwarding, Entered, Unborn, Chain,
       Relayed, Settled, Back, Behind, Owners, [Next]_vars
    PROVE  Owners'
<1> USE DEF procVars, regVars, sessVars, handVars, wakeVars, wireVars, histVars
<1>1. ASSUME NEW d \in Daemons,
             LoadRegistry(d) \/ Run(d) \/ OpenClaim(d) \/ ResumeMarked(d) \/ Spawn(d)
                \/ StartTurn(d) \/ EndTurn(d) \/ Adopt(d) \/ ResumeHanded(d) \/
                LaunchSettles(d)
      PROVE  Owners'
  <2>1. UNCHANGED <<report>>
    BY <1>1 DEF LoadRegistry, Run, OpenClaim, Lead, ResumeMarked, Spawn, Notify,
       UpdateRegistry, StartTurn, EndTurn, Adopt, ResumeHanded, LaunchSettles
  <2> QED
    BY <2>1 DEF Owners
<1>2. ASSUME NEW d \in Daemons,
             Ended(d) \/ OtherProgress(d) \/ Scan(d) \/ Check(d) \/ Watch(d) \/
                Reclaim(d) \/ Merge(d) \/ ClientCall(d)
      PROVE  Owners'
  <2>1. UNCHANGED <<report>>
    BY <1>2 DEF Ended, Notify, UpdateRegistry, OtherProgress, Scan, Check, Watch,
       Reclaim, Merge, ClientCall
  <2> QED
    BY <2>1 DEF Owners
<1>3. ASSUME NEW c \in calls,
             Relay(c) \/ Unreachable(c) \/ ClaimHandoff(c) \/ AcceptHandoff(c) \/
                AcceptRelease(c) \/ Answer(c)
      PROVE  Owners'
  <2>1. UNCHANGED <<report>>
    BY <1>3 DEF Relay, Replace, Unreachable, ClaimHandoff, AcceptHandoff,
       UpdateRegistry, AcceptRelease, Answer, Notify
  <2> QED
    BY <2>1 DEF Owners
<1>4. ASSUME NEW d \in Daemons, NEW k \in {"close", "forget"},
             EndSession(d, k)
      PROVE  Owners'
  <2>1. UNCHANGED <<report>>
    BY <1>4 DEF EndSession, Notify
  <2> QED
    BY <2>1 DEF Owners
<1>5. ASSUME NEW d \in Daemons, NEW c \in calls, Reported(d, c) PROVE Owners'
  <2>1. UNCHANGED <<report>>
    BY <1>5 DEF Reported, Notify
  <2> QED
    BY <2>1 DEF Owners
<1>6. CASE Dispatch \/ Connect \/ Forwarded
  <2>1. UNCHANGED <<report>>
    BY <1>6 DEF Dispatch, Returns, Connect, Goes, Forwarded
  <2> QED
    BY <2>1 DEF Owners
<1>7. CASE UNCHANGED vars
  <2>1. UNCHANGED <<report>>
    BY <1>7 DEF vars
  <2> QED
    BY <2>1 DEF Owners
<1>8. ASSUME NEW d \in Daemons, Takeover(d) PROVE Owners'
  <2>1. PICK p \in Daemons : p = claim
    BY <1>8 DEF Takeover, Typed, TypeOK
  <2>2. report' = [report EXCEPT ![d] = Partition(p)]
    BY <1>8, <2>1 DEF Takeover
  <2>3. Partition(p).kind = "kept" => Partition(p).owner # None
    BY <2>1, DaemonsAssumption DEF Partition, NoReport
  <2>4. \A e \in Daemons : report'[e] = report[e] \/ report'[e] = Partition(p)
    BY <2>2 DEF Typed, TypeOK
  <2> QED
    BY <2>3, <2>4 DEF Owners
<1>9. ASSUME NEW d \in Daemons, Supersede(d) PROVE Owners'
  <2>1. \A e \in Daemons : report'[e] = report[e] \/ report'[e].kind = "none"
    BY <1>9 DEF Supersede, NoReport, Typed, TypeOK
  <2> QED
    BY <2>1 DEF Owners
<1>10. ASSUME NEW d \in Daemons, Exit(d) PROVE Owners'
  <2>1. \A e \in Daemons : report'[e] = report[e] \/ report'[e].kind = "none"
    BY <1>10 DEF Exit, Gone, NoReport, Typed, TypeOK
  <2> QED
    BY <2>1 DEF Owners
<1>11. ASSUME NEW d \in Daemons, Crash(d) PROVE Owners'
  BY <1>11 DEF Plain
<1>12. ASSUME NEW d \in Daemons, LeadFails(d) PROVE Owners'
  BY <1>12 DEF LeadFails, Line
<1> QED
  BY <1>1, <1>2, <1>3, <1>4, <1>5, <1>6, <1>7, <1>8, <1>9, <1>10, <1>11, <1>12 DEF
     Next, Caller, Start, Work, Watcher, Again, Peer, Client

\* Where entries come back, step by step.
LEMMA AbsentNext ==
    ASSUME Plain, Typed, Typed', Line, Line', Outside, Outside', CallShape,
       CallShape', Handing, Resuming, Kept, Kept', Forwarding, Entered, Unborn, Chain,
       Relayed, Settled, Back, Behind, [Next]_vars
    PROVE  AbsentMove
<1> USE DEF procVars, regVars, sessVars, handVars, wakeVars, wireVars, histVars
<1>1. ASSUME NEW d \in Daemons,
             Run(d) \/ OpenClaim(d) \/ Takeover(d) \/ ResumeMarked(d) \/ StartTurn(d)
                \/ EndTurn(d) \/ Adopt(d) \/ ResumeHanded(d) \/ Scan(d) \/ Check(d)
      PROVE  AbsentMove
  <2>1. UNCHANGED <<reg>>
    BY <1>1 DEF Run, OpenClaim, Lead, Takeover, Notify, ResumeMarked, StartTurn,
       EndTurn, Adopt, ResumeHanded, Scan, Check
  <2> QED
    BY <2>1 DEF AbsentMove
<1>2. ASSUME NEW d \in Daemons, Watch(d) \/ Reclaim(d) \/ ClientCall(d) PROVE AbsentMove
  <2>1. UNCHANGED <<reg>>
    BY <1>2 DEF Watch, Reclaim, ClientCall
  <2> QED
    BY <2>1 DEF AbsentMove
<1>3. ASSUME NEW c \in calls,
             Relay(c) \/ Unreachable(c) \/ ClaimHandoff(c) \/ Answer(c)
      PROVE  AbsentMove
  <2>1. UNCHANGED <<reg>>
    BY <1>3 DEF Relay, Replace, Unreachable, ClaimHandoff, Answer, Notify
  <2> QED
    BY <2>1 DEF AbsentMove
<1>4. ASSUME NEW d \in Daemons, NEW k \in {"close", "forget"},
             EndSession(d, k)
      PROVE  AbsentMove
  <2>1. UNCHANGED <<reg>>
    BY <1>4 DEF EndSession, Notify
  <2> QED
    BY <2>1 DEF AbsentMove
<1>5. ASSUME NEW d \in Daemons, NEW c \in calls, Reported(d, c) PROVE AbsentMove
  <2>1. UNCHANGED <<reg>>
    BY <1>5 DEF Reported, Notify
  <2> QED
    BY <2>1 DEF AbsentMove
<1>6. CASE Dispatch \/ Connect \/ Forwarded
  <2>1. UNCHANGED <<reg>>
    BY <1>6 DEF Dispatch, Returns, Connect, Goes, Forwarded
  <2> QED
    BY <2>1 DEF AbsentMove
<1>7. CASE UNCHANGED vars
  <2>1. UNCHANGED <<reg>>
    BY <1>7 DEF vars
  <2> QED
    BY <2>1 DEF AbsentMove
<1>8. ASSUME NEW d \in Daemons, LoadRegistry(d) PROVE AbsentMove
  <2>1. \A e \in Daemons \ {d} : reg'[e] = reg[e]
    BY <1>8 DEF LoadRegistry, UpdateRegistry, Typed, TypeOK
  <2> QED
    BY <1>8, <2>1 DEF AbsentMove
<1>9. ASSUME NEW d \in Daemons, Supersede(d) PROVE AbsentMove
  <2>1. \A e \in Daemons \ {d} : reg'[e] = reg[e]
    BY <1>9 DEF Supersede, UpdateRegistry, Typed, TypeOK
  <2> QED
    BY <1>9, <2>1 DEF AbsentMove
<1>10. ASSUME NEW d \in Daemons, Spawn(d) PROVE AbsentMove
  <2>1. \A e \in Daemons \ {d} : reg'[e] = reg[e]
    BY <1>10 DEF Spawn, UpdateRegistry, Typed, TypeOK
  <2> QED
    BY <1>10, <2>1 DEF AbsentMove
<1>11. ASSUME NEW d \in Daemons, LaunchSettles(d) PROVE AbsentMove
  <2>1. Somewhere
    BY <1>11 DEF LaunchSettles, Somewhere, Owning
  <2> QED
    BY <2>1 DEF AbsentMove
<1>12. ASSUME NEW d \in Daemons, Ended(d) PROVE AbsentMove
  BY <1>12, DaemonsAssumption DEF AbsentMove, Typed, TypeOK, Ended, Notify,
     UpdateRegistry
<1>13. ASSUME NEW d \in Daemons, OtherProgress(d) PROVE AbsentMove
  BY <1>13, DaemonsAssumption DEF AbsentMove, Typed, TypeOK, OtherProgress, Notify,
     UpdateRegistry
<1>14. ASSUME NEW d \in Daemons, Merge(d) PROVE AbsentMove
  BY <1>14 DEF Merge, Line
<1>15. ASSUME NEW d \in Daemons, Exit(d) PROVE AbsentMove
  BY <1>15, DaemonsAssumption DEF AbsentMove, Typed, TypeOK, Exit, Gone
<1>16. ASSUME NEW d \in Daemons, Crash(d) PROVE AbsentMove
  BY <1>16 DEF Plain
<1>17. ASSUME NEW d \in Daemons, LeadFails(d) PROVE AbsentMove
  BY <1>17 DEF LeadFails, Line
<1>18. ASSUME NEW c \in calls, AcceptHandoff(c) PROVE AbsentMove
  <2>1. Somewhere
    BY <1>18, AcceptWhere DEF Somewhere, OnItsWay, CallShape
  <2> QED
    BY <2>1 DEF AbsentMove
<1>19. ASSUME NEW c \in calls, AcceptRelease(c) PROVE AbsentMove
  <2>1. reg' = [reg EXCEPT ![Server(c)] = c.entry]
    BY <1>19 DEF AcceptRelease, UpdateRegistry
  <2> QED
    BY <1>19, <2>1 DEF AbsentMove, Typed, TypeOK
<1> QED
  BY <1>1, <1>2, <1>3, <1>4, <1>5, <1>6, <1>7, <1>8, <1>9, <1>10, <1>11, <1>12, <1>13,
     <1>14, <1>15, <1>16, <1>17, <1>18, <1>19 DEF Next, Caller, Start, Work, Watcher,
     Again, Peer, Client

\* How a session is forgotten, step by step.
LEMMA ForgetNext ==
    ASSUME Plain, Typed, Typed', Line, Line', Outside, Outside', CallShape,
       CallShape', Handing, Resuming, Kept, Kept', Forwarding, Entered, Unborn, Chain,
       Relayed, Settled, Back, Behind, [Next]_vars
    PROVE  ForgetMove
<1> USE DEF procVars, regVars, sessVars, handVars, wakeVars, wireVars, histVars
<1>1. ASSUME NEW d \in Daemons,
             LoadRegistry(d) \/ Run(d) \/ OpenClaim(d) \/ Takeover(d) \/ Supersede(d)
                \/ ResumeMarked(d) \/ Spawn(d) \/ StartTurn(d) \/ EndTurn(d) \/
                Adopt(d)
      PROVE  ForgetMove
  <2>1. UNCHANGED <<forgot>>
    BY <1>1 DEF LoadRegistry, Run, OpenClaim, Lead, Takeover, Notify, Supersede,
       UpdateRegistry, ResumeMarked, Spawn, StartTurn, EndTurn, Adopt
  <2> QED
    BY <2>1 DEF ForgetMove
<1>2. ASSUME NEW d \in Daemons,
             ResumeHanded(d) \/ LaunchSettles(d) \/ OtherProgress(d) \/ Scan(d) \/
                Check(d) \/ Watch(d) \/ Reclaim(d) \/ Merge(d) \/ Exit(d) \/ Crash(d)
      PROVE  ForgetMove
  <2>1. UNCHANGED <<forgot>>
    BY <1>2 DEF ResumeHanded, Notify, LaunchSettles, UpdateRegistry, OtherProgress,
       Scan, Check, Watch, Reclaim, Merge, Exit, Gone, Crash
  <2> QED
    BY <2>1 DEF ForgetMove
<1>3. ASSUME NEW d \in Daemons, LeadFails(d) \/ ClientCall(d) PROVE ForgetMove
  <2>1. UNCHANGED <<forgot>>
    BY <1>3 DEF LeadFails, Gone, ClientCall
  <2> QED
    BY <2>1 DEF ForgetMove
<1>4. ASSUME NEW c \in calls,
             Relay(c) \/ Unreachable(c) \/ ClaimHandoff(c) \/ AcceptHandoff(c) \/
                AcceptRelease(c) \/ Answer(c)
      PROVE  ForgetMove
  <2>1. UNCHANGED <<forgot>>
    BY <1>4 DEF Relay, Replace, Unreachable, ClaimHandoff, AcceptHandoff,
       UpdateRegistry, AcceptRelease, Answer, Notify
  <2> QED
    BY <2>1 DEF ForgetMove
<1>5. ASSUME NEW d \in Daemons, NEW k \in {"close", "forget"},
             EndSession(d, k)
      PROVE  ForgetMove
  <2>1. UNCHANGED <<forgot>>
    BY <1>5 DEF EndSession, Notify
  <2> QED
    BY <2>1 DEF ForgetMove
<1>6. ASSUME NEW d \in Daemons, NEW c \in calls, Reported(d, c) PROVE ForgetMove
  <2>1. UNCHANGED <<forgot>>
    BY <1>6 DEF Reported, Notify
  <2> QED
    BY <2>1 DEF ForgetMove
<1>7. CASE Dispatch \/ Connect \/ Forwarded
  <2>1. UNCHANGED <<forgot>>
    BY <1>7 DEF Dispatch, Returns, Connect, Goes, Forwarded
  <2> QED
    BY <2>1 DEF ForgetMove
<1>8. CASE UNCHANGED vars
  <2>1. UNCHANGED <<forgot>>
    BY <1>8 DEF vars
  <2> QED
    BY <2>1 DEF ForgetMove
<1>9. ASSUME NEW d \in Daemons, Ended(d) PROVE ForgetMove
  BY <1>9, DaemonsAssumption DEF ForgetMove, Typed, TypeOK, Ended, Notify,
     UpdateRegistry
<1> QED
  BY <1>1, <1>2, <1>3, <1>4, <1>5, <1>6, <1>7, <1>8, <1>9 DEF Next, Caller, Start,
     Work, Watcher, Again, Peer, Client

\* A daemon goes on keeping a session that is away until its release is accepted,
\* and none is while a daemon is starting.
LEMMA AwayKeeps ==
    ASSUME Plain, Typed, Typed', Line, Line', Outside, Outside', CallShape,
       CallShape', Handing, Resuming, Kept, Kept', Forwarding, Entered, Unborn, Chain,
       Relayed, Settled, Back, Behind, Away, NEW e \in Daemons, Keeps(e), [Next]_vars
    PROVE  Keeps(e)' \/ \E c \in calls :
              c.from = e /\ AcceptRelease(c) /\ c.entry = "absent"
<1>1. Keeps(e)' \/ AcceptFrom(e)
  BY StopsNext DEF StopsMove
<1>2. \A c \in calls : ~AcceptHandoff(c)
  BY AcceptWhere DEF Away, Somewhere, OnItsWay, CallShape
<1>3. \A c \in calls : AcceptRelease(c) => c.entry = "absent"
  BY DEF Away, AcceptRelease
<1> QED
  BY <1>1, <1>2, <1>3 DEF AcceptFrom

\* A release is not accepted while a daemon is starting, or reads the registry.
LEMMA ReleaseFresh ==
    ASSUME Plain, Typed, Line, Outside, CallShape, Handing, Resuming, Kept,
       Forwarding, Entered, Unborn, Chain, Relayed, Settled, Back, Behind, Sure, NEW c
       \in calls, AcceptRelease(c)
    PROVE  \A d \in Daemons : ~Starting(d) /\ ~LoadRegistry(d)
<1>1. claim # None
  BY ReceivedAt, DaemonsAssumption
<1>2. \A d \in Daemons : ~Starting(d)
  BY <1>1 DEF AcceptRelease, Fresh, Sure, Starting, Line
<1>3. phase' = phase
  BY DEF AcceptRelease, procVars
<1> QED
  BY <1>2, <1>3 DEF LoadRegistry, Typed, TypeOK

\* The daemon that a takeover supersedes keeps nothing where the session is away.
LEMMA AwayTaken ==
    ASSUME Plain, Typed, Typed', Line, Line', Outside, Outside', CallShape,
       CallShape', Handing, Resuming, Kept, Kept', Forwarding, Entered, Unborn, Chain,
       Relayed, Settled, Back, Behind, Away, NEW e \in Daemons, claim = e, claim' =
       None, [Next]_vars
    PROVE  ~Keeps(e)'
<1>1. PICK x \in Daemons : Takeover(x)
  BY ClaimsNext, DaemonsAssumption DEF ClaimMoves
<1>2. sess[e] = "none"
  <2>1. ~Superseded(e)
    BY DEF Line
  <2>2. sess[e] # "handing"
    BY <2>1 DEF Handing, Typed, Watches, Superseded
  <2>3. ~Owning(e)
    BY DEF Away, Somewhere
  <2> QED
    BY <2>2, <2>3 DEF Owning, Typed, TypeOK, Sess
<1>3. calls' = calls /\ \A c \in calls : c.from # e
  BY <1>1, MakerWaits DEF Takeover, CallShape, Line
<1>4. sess' = [sess EXCEPT ![e] = "none"] \/ sess' = [sess EXCEPT ![e] = sess[e]]
  BY <1>1 DEF Takeover
<1>5. owned' = [owned EXCEPT ![e] = FALSE]
  BY <1>1, <1>2 DEF Takeover
<1>6. sess'[e] = "none" /\ ~owned'[e]
  BY <1>2, <1>4, <1>5 DEF Typed, TypeOK
<1> QED
  BY <1>3, <1>6 DEF Keeps

\* A session that is away stays away until it is started again, which is before it
\* is forgotten.
LEMMA AwayNext ==
    ASSUME Plain, Typed, Typed', Line, Line', Outside, Outside', CallShape,
       CallShape', Handing, Resuming, Kept, Kept', Forwarding, Entered, Unborn, Chain,
       Relayed, Settled, Back, Behind, Linked', Sure, MarkedReads, Claimed, Owners,
       born, Away, [Next]_vars
    PROVE  Away'
<1>1. /\ ComesMove /\ FilesMove /\ ClaimMoves /\ ReadsMove /\ EntriesMove /\ AbsentMove
      /\ ForwardsMove /\ NoNewKeeper
  BY ComesNext, FilesNext, ClaimsNext, ReadsNext, EntriesNext, AbsentNext,
     ForwardsNext, KeepersNext
<1>2. ~Somewhere /\ (\A d \in Daemons : ~Spawn(d)) /\ \A c \in calls :
         AcceptRelease(c) => c.entry = "absent"
  BY DEF Away, Spawn, AcceptRelease
<1>3. ~Somewhere'
  <2>1. SUFFICES ASSUME NEW d \in Daemons, Adopt(d) PROVE FALSE
    BY <1>1, <1>2 DEF ComesMove
  <2>2. /\ reg[d] # "absent" /\ claim # None
        /\ claim = d => foreign[d] = None
        /\ claim # d => foreign[claim] = d
    BY <2>1, ReachedWhere DEF Adopt
  <2>3. PICK n \in Daemons : n = claim
    BY <2>2 DEF Typed, TypeOK
  <2>4. CASE n = d
    BY <2>2, <2>3, <2>4 DEF Away
  <2>5. CASE n # d
    BY <2>2, <2>3, <2>5 DEF Away, Back, Newest, Forwards
  <2> QED
    BY <2>4, <2>5
<1>4. ASSUME NEW d \in Daemons, reg[d] = "absent", reg'[d] # "absent"
      PROVE  LoadRegistry(d) \/ Supersede(d)
  BY <1>1, <1>2, <1>4 DEF AbsentMove
<1>5. ASSUME NEW n \in Daemons, claim' = n, reg'[n] # "absent" PROVE foreign'[n] # None
  <2>1. CASE claim = n
    <3>1. ~LoadRegistry(n) /\ ~Supersede(n)
      BY <2>1, DaemonsAssumption DEF LoadRegistry, Supersede, Line
    <3>2. reg[n] # "absent"
      BY <1>4, <1>5, <3>1
    <3>3. foreign[n] # None
      BY <2>1, <3>2 DEF Away
    <3>4. PICK e \in Daemons : foreign[n] = e
      BY <3>3 DEF Typed, TypeOK
    <3>5. Forwards(n, e) /\ Keeps(e)
      BY <2>1, <3>4 DEF Forwards, Back, Newest
    <3>6. Forwards(n, e)' \/ AcceptFrom(e)
      BY <1>1, <3>5 DEF ForwardsMove
    <3>7. CASE Forwards(n, e)'
      <4>1. phase'[n] # "reported"
        BY <1>5, DaemonsAssumption DEF Line
      <4>2. report'[n] = NoReport
        BY <4>1 DEF Outside
      <4> QED
        BY <3>7, <4>2, DaemonsAssumption DEF Forwards, NoReport
    <3>8. CASE AcceptFrom(e)
      <4>1. PICK c \in calls : AcceptRelease(c) \/ AcceptHandoff(c)
        BY <3>8 DEF AcceptFrom
      <4>2. ~AcceptHandoff(c)
        BY <1>2, AcceptWhere DEF Somewhere, OnItsWay, CallShape
      <4>3. Server(c) = n
        BY <2>1, <4>1, ReceivedAt
      <4>4. reg' = [reg EXCEPT ![n] = c.entry]
        BY <4>1, <4>2, <4>3 DEF AcceptRelease, UpdateRegistry
      <4>5. c.entry = "absent"
        BY <1>2, <4>1, <4>2
      <4> QED
        BY <1>5, <4>4, <4>5 DEF Typed, TypeOK
    <3> QED
      BY <3>6, <3>7, <3>8
  <2>2. CASE claim # n
    <3>1. Supersede(n)
      BY <1>1, <1>5, <2>2 DEF ClaimMoves
    <3>2. phase[n] = "reported" /\ foreign[n] = None /\ ~Superseded(n)
      BY <3>1 DEF Supersede, Outside, Superseded
    <3>3. report[n].kind # "handed"
      BY <1>2 DEF Somewhere, OnItsWay
    <3>4. report[n].kind = "kept"
      <4>1. SUFFICES ASSUME report[n].kind # "kept" PROVE FALSE
        OBVIOUS
      <4>2. reg' = [reg EXCEPT ![n] = reg[n]]
        BY <3>1, <3>3, <4>1 DEF Supersede, UpdateRegistry
      <4>3. reg[n] # "absent"
        BY <1>5, <4>2 DEF Typed, TypeOK
      <4>4. PICK e \in Daemons : Keeps(e)
        BY <3>2, <4>3 DEF Away, Starting
      <4>5. Forwards(n, e)
        BY <3>2, <4>4 DEF Kept, Newest
      <4> QED
        BY <3>2, <4>1, <4>5, DaemonsAssumption DEF Forwards
    <3>5. foreign' = [foreign EXCEPT ![n] = report[n].owner]
      BY <3>1, <3>4 DEF Supersede
    <3> QED
      BY <3>4, <3>5 DEF Owners, Typed, TypeOK
  <2> QED
    BY <2>1, <2>2
<1>6. ASSUME NEW d \in Daemons, Starting(d)', reg'[d] # "absent"
      PROVE  \E e \in Daemons : Keeps(e)'
  <2>1. PICK e \in Daemons : Keeps(e)
    <3>1. CASE Starting(d) /\ reg'[d] = reg[d]
      BY <1>6, <3>1 DEF Away
    <3>2. CASE LoadRegistry(d) /\ reg'[d] = file
      BY <1>6, <3>2 DEF Away
    <3> QED
      BY <1>1, <1>6, <3>1, <3>2 DEF ReadsMove
  <2>2. \A c \in calls : ~AcceptRelease(c)
    BY <1>1, <1>6, ReleaseFresh DEF ReadsMove
  <2> QED
    BY <2>1, <2>2, AwayKeeps
<1>7. ASSUME NEW e \in Daemons, Keeps(e)' PROVE reg'[e] = "absent"
  <2>1. CASE Keeps(e)
    <3>1. reg[e] = "absent" /\ phase[e] = "serving"
      BY <2>1 DEF Away, Keeps, Line
    <3> QED
      BY <1>4, <3>1 DEF LoadRegistry, Supersede
  <2>2. CASE claim = e /\ claim' = None
    BY <1>7, <2>2, AwayTaken
  <2> QED
    BY <1>1, <1>7, <2>1, <2>2 DEF NoNewKeeper
<1>8. ASSUME file' # "absent" PROVE \E e \in Daemons : Keeps(e)'
  <2>1. CASE file' = file
    <3>1. PICK e \in Daemons : Keeps(e)
      BY <1>8, <2>1 DEF Away
    <3>2. \A c \in calls : AcceptRelease(c) => file' = "absent"
      <4>1. SUFFICES ASSUME NEW c \in calls, AcceptRelease(c) PROVE file' = "absent"
        OBVIOUS
      <4> QED
        BY <1>2, <4>1 DEF AcceptRelease, UpdateRegistry
    <3> QED
      BY <1>8, <3>1, <3>2, AwayKeeps
  <2>2. CASE \E n \in Daemons : claim' = n /\ file' = reg'[n]
    <3>1. PICK n \in Daemons : claim' = n /\ file' = reg'[n]
      BY <2>2
    <3>2. foreign'[n] # None
      BY <1>5, <1>8, <3>1
    <3>3. PICK e \in Daemons : foreign'[n] = e
      BY <3>2 DEF Typed, TypeOK
    <3>4. Newest(n)' /\ Forwards(n, e)'
      BY <3>1, <3>3 DEF Newest, Forwards
    <3> QED
      BY <3>4 DEF Linked, Back
  <2> QED
    BY <1>1, <2>1, <2>2 DEF FilesMove
<1>9. ASSUME NEW b \in calls', b.stage # "ok" PROVE b.entry = "absent"
  <2>1. CASE \E c \in calls : /\ b.entry = c.entry
                              /\ c.stage = "ok" => b.stage = "ok"
    BY <1>9, <2>1 DEF Away
  <2>2. ASSUME NEW d \in Daemons, Scan(d), sess[d] = "idle" PROVE FALSE
    BY <1>2, <2>2 DEF Somewhere, Owning
  <2>3. ASSUME NEW d \in Daemons, Scan(d), owned[d] PROVE reg[d] = "absent"
    <3>1. watch[d] = "scan" /\ Superseded(d)
      BY <2>3 DEF Scan, Typed, Watches, Superseded
    <3>2. Keeps(d)
      BY <2>3, <3>1, NotWaiting DEF Keeps, CallShape
    <3> QED
      BY <3>2 DEF Away
  <2> QED
    BY <1>1, <2>1, <2>2, <2>3 DEF EntriesMove
<1> QED
  BY <1>3, <1>5, <1>6, <1>7, <1>8, <1>9 DEF Away

\* A session that was just forgotten is away.
LEMMA ForgetAway ==
    ASSUME Plain, Typed, Typed', Line, Line', Outside, Outside', CallShape,
       CallShape', Handing, Resuming, Kept, Kept', Forwarding, Entered, Unborn, Chain,
       Relayed, Settled, Back, Behind, Sure, Claimed, Ends, NEW d \in Daemons,
       Ended(d), ending[d] = "forget", [Next]_vars
    PROVE  born /\ Away'
<1>1. born
  BY DEF Unborn, Nothing
<1>2. phase[d] = "serving" /\ sess[d] = "none" /\ foreign[d] = None
  BY DEF Outside, Resuming, Entered, Line, Typed, TypeOK, Phases
<1>3. ~Somewhere /\ \A e \in Daemons : ~Starting(e)
  BY DEF Ends
<1>4. /\ UNCHANGED <<phase, claim, sess, resuming, next, foreign, owned, report, calls>>
      /\ reg' = [reg EXCEPT ![d] = "absent"] /\ (~Superseded(d) => file' = "absent")
  BY DEF Ended, UpdateRegistry, procVars, handVars, wireVars
<1>5. reg'[d] = "absent" /\ \A e \in Daemons \ {d} : reg'[e] = reg[e]
  BY <1>4 DEF Typed, TypeOK
<1>6. (\A e \in Daemons : Keeps(e)' <=> Keeps(e)) /\ \A e \in Daemons : ~Starting(e)'
  BY <1>3, <1>4 DEF Keeps, Superseded, Accepted, Starting
<1>7. ~Somewhere'
  BY <1>3, <1>4, <1>5 DEF Somewhere, Owning, OnItsWay, Waiting, Accepted
<1>8. PICK n \in Daemons : n = claim
  <2>1. claim # None
    BY <1>3 DEF Line, Starting
  <2> QED
    BY <2>1 DEF Typed, TypeOK
<1>9. \A e \in Daemons : Keeps(e) => foreign[n] = e
  BY <1>8, HolderForwards
<1>10. CASE Superseded(d)
  <2>1. owned[d] /\ watch[d] # "call" /\ n # d
    BY <1>8, <1>10 DEF Ends, Line
  <2>2. Keeps(d)
    BY <1>10, <2>1, NotWaiting DEF Keeps, CallShape
  <2>3. foreign[n] = d /\ \A e \in Daemons : Keeps(e) => e = d
    BY <1>9, <2>2, DaemonsAssumption
  <2>4. \A c \in calls : c.stage = "ok"
    <3>1. SUFFICES ASSUME NEW c \in calls, c.stage # "ok" PROVE FALSE
      OBVIOUS
    <3>2. c.from = d
      BY <2>3, <3>1, MakerKeeps, MakerWaits DEF CallShape
    <3> QED
      BY <2>1, <3>2, MakerWaits DEF CallShape
  <2>5. \A m \in Daemons : claim' = m => foreign'[m] # None
    BY <1>4, <1>8, <2>3, DaemonsAssumption
  <2>6. Keeps(d)' /\ \A e \in Daemons : Keeps(e)' => reg'[e] = "absent"
    BY <1>5, <1>6, <2>2, <2>3
  <2>7. \A c \in calls' : c.stage = "ok"
    BY <1>4, <2>4
  <2> QED
    BY <1>1, <1>6, <1>7, <2>5, <2>6, <2>7 DEF Away
<1>11. CASE ~Superseded(d)
  <2>1. claim = d /\ n = d
    BY <1>2, <1>8, <1>11 DEF Line
  <2>2. \A e \in Daemons : ~Keeps(e)
    BY <1>2, <1>9, <2>1, DaemonsAssumption
  <2>3. \A c \in calls' : c.stage = "ok"
    BY <1>4, <2>2, MakerKeeps, MakerWaits DEF CallShape
  <2>4. file' = "absent" /\ \A m \in Daemons : claim' = m => reg'[m] = "absent"
    BY <1>4, <1>5, <1>11, <2>1
  <2> QED
    BY <1>1, <1>6, <1>7, <2>2, <2>3, <2>4 DEF Away
<1> QED
  BY <1>10, <1>11

\* What is forgotten, step by step.
LEMMA ForgottenNext ==
    ASSUME Plain, Typed, Typed', Line, Line', Outside, Outside', CallShape,
       CallShape', Handing, Resuming, Kept, Kept', Forwarding, Entered, Unborn, Chain,
       Relayed, Settled, Back, Behind, Linked', Sure, MarkedReads, Claimed, Ends,
       Owners, Told, Forgotten, [Next]_vars
    PROVE  Told' /\ Forgotten'
<1>1. ForgetMove /\ Recorded
  BY ForgetNext, RecordedNext
<1>2. CASE forgot
  BY <1>1, <1>2, AwayNext DEF Told, Forgotten, Recorded
<1>3. CASE ~forgot /\ forgot'
  <2>1. PICK d \in Daemons : Ended(d) /\ ending[d] = "forget"
    BY <1>1, <1>3 DEF ForgetMove
  <2>2. born /\ Away'
    BY <2>1, ForgetAway
  <2> QED
    BY <1>1, <2>2 DEF Told, Forgotten, Recorded
<1>4. CASE ~forgot'
  BY <1>4 DEF Told, Forgotten
<1> QED
  BY <1>2, <1>3, <1>4

\* A daemon has the session.
Held == \E d \in Daemons : Owning(d)

\* The invariant of the refinement.
Kempt == /\ Told /\ Claimed
         /\ Sure => Marked /\ Ends /\ Owners /\ Forgotten

\* Nothing marked, claimed, under way or forgotten, to begin with.
LEMMA InitKempt ==
    ASSUME Init
    PROVE  Kempt
<1>1. /\ calls = {} /\ forgot = FALSE /\ file \in {"plain", "absent"}
      /\ \A d \in Daemons : /\ reg[d] # "marked" /\ ~Starting(d) /\ resuming[d] = "no"
                            /\ ending[d] = "none" /\ report[d].kind = "none"
  BY DEF Init, Starting, NoReport
<1> QED
  BY <1>1 DEF Kempt, Told, Marked, MarkedIn, MarkedCalls, MarkedFile, MarkedReads, Starting,
     Claimed, Ends, Owners, Forgotten

\* The invariant of the refinement, step by step.
LEMMA NextKempt ==
    ASSUME Plain, Placed, Placed', Linked, Linked', Kempt, [Next]_vars
    PROVE  Kempt'
<1> USE DEF Placed, Linked
<1>1. Told'
  <2>1. ForgetMove /\ Recorded
    BY ForgetNext, RecordedNext
  <2>2. ASSUME NEW d \in Daemons, ending[d] # "none" PROVE born
    BY <2>2 DEF Unborn, Nothing
  <2> QED
    BY <2>1, <2>2 DEF Kempt, Told, ForgetMove, Recorded
<1>2. Claimed'
  BY ClaimedNext DEF Kempt
<1>3. ASSUME Sure PROVE (Marked /\ Ends /\ Owners /\ Forgotten)'
  <2>1. Marked /\ Claimed /\ Ends /\ Owners /\ Forgotten /\ MarkedReads /\ Told
    BY <1>3 DEF Kempt, Marked
  <2>2. Marked'
    BY <1>3, <2>1, MarkedNext
  <2>3. Ends'
    BY <1>3, <2>1, EndsNext
  <2>4. Owners'
    BY <2>1, OwnersNext
  <2>5. Forgotten'
    BY <1>3, <2>1, ForgottenNext
  <2> QED
    BY <2>2, <2>3, <2>4, <2>5
<1> QED
  BY <1>1, <1>2, <1>3 DEF Kempt, Sure

\* At first the session is with the first daemon, or not started.
LEMMA InitKeeps ==
    ASSUME Init
    PROVE  Promise!Init
<1>1. /\ calls = {} /\ forgot = FALSE
      /\ \A d \in Daemons :
           report[d] = NoReport /\ resuming[d] = "no" /\ phase[d] # "resume"
  BY DEF Init
<1>2. CASE born = TRUE
  <2>1. PICK d \in Daemons, s \in {"idle", "turn"} :
            sess = [e \in Daemons |-> IF e = d THEN s ELSE "none"]
    BY <1>2 DEF Init
  <2>2. Owning(d)
    BY <2>1 DEF Owning
  <2>3. (CHOOSE e \in Daemons : Owning(e)) \in Daemons
    BY <2>2
  <2> QED
    BY <2>2, <2>3 DEF Promise!Init
<1>3. CASE born = FALSE
  <2>1. sess = [e \in Daemons |-> "none"]
    BY <1>3 DEF Init
  <2>2. \A d \in Daemons : ~Owning(d)
    BY <2>1 DEF Owning
  <2>3. ~Moving
    BY <1>1, <2>1 DEF Moving, NoReport
  <2> QED
    BY <1>1, <1>3, <2>2, <2>3 DEF Promise!Init
<1>4. born \in BOOLEAN
  BY DEF Init
<1> QED
  BY <1>2, <1>3, <1>4

\* What a step may make of the session is a step of Ownership, or nothing.
LEMMA PromiseStep ==
    ASSUME born \in BOOLEAN, born' \in BOOLEAN, forgot \in BOOLEAN, forgot' \in BOOLEAN,
           Recorded, Told, Told',
           ~born => ~Held /\ ~Moving, ~born' => ~Held' /\ ~Moving', ~born /\ born' => Held',
           \A d, e \in Daemons : Owning(d) /\ Owning(e) => d = e,
           \A d, e \in Daemons : Owning(d)' /\ Owning(e)' => d = e,
           \A d, e \in Daemons : Owning(d) /\ Owning(e)' => d = e,
           \/ Crashes > 0 \/ "fail" \in Events
           \/ /\ Held => ~forgot /\ ~forgot'
              /\ ~Held /\ Moving => Held' \/ Moving'
              /\ ~Held /\ ~Moving /\ Moving' => Held'
              /\ forgot => ~Held' /\ ~Moving'
    PROVE  [Promise!Next]_Promise!vars
<1> USE DEF Recorded, Told
<1>1. Held => (CHOOSE d \in Daemons : Owning(d)) \in Daemons
  BY DEF Held
<1>2. Held' => (CHOOSE d \in Daemons : Owning(d)') \in Daemons
  BY DEF Held
<1>3. CASE Held
  <2>1. CASE Held'
    <3>1. PICK d \in Daemons : Owning(d)
      BY <1>3 DEF Held
    <3>2. PICK e \in Daemons : Owning(e)'
      BY <2>1 DEF Held
    <3>3. (CHOOSE x \in Daemons : Owning(x)) = d
      BY <3>1
    <3>4. (CHOOSE x \in Daemons : Owning(x)') = e
      BY <3>2
    <3>5. d = e
      BY <3>1, <3>2
    <3> QED
      BY <3>1, <3>2, <3>3, <3>4, <3>5 DEF Promise!vars
  <2>2. CASE ~Held' /\ Moving'
    BY <1>3, <2>2 DEF Promise!Next, Promise!Ship, Held
  <2>3. CASE ~Held' /\ ~Moving' /\ ~forgot'
    <3>1. born'
      BY <1>3
    <3> QED
      BY <1>3, <2>3, <3>1 DEF Promise!Next, Promise!End, Held
  <2>4. CASE ~Held' /\ ~Moving' /\ forgot'
    BY <1>3, <2>4 DEF Promise!Next, Promise!Fail, Held
  <2> QED
    BY <2>1, <2>2, <2>3, <2>4
<1>4. CASE ~Held /\ Moving
  <2>1. CASE Held'
    BY <1>2, <1>4, <2>1 DEF Promise!Next, Promise!Land, Held
  <2>2. CASE ~Held' /\ Moving'
    BY <1>4, <2>2 DEF Promise!vars, Held
  <2>3. CASE ~Held' /\ ~Moving'
    <3>1. born'
      BY <1>4
    <3> QED
      BY <1>4, <2>3, <3>1 DEF Promise!Next, Promise!Fail, Held
  <2> QED
    BY <2>1, <2>2, <2>3
<1>5. CASE ~Held /\ ~Moving /\ forgot
  <2>1. CASE Held'
    BY <1>2, <1>5, <2>1 DEF Promise!Next, Promise!Begin, Promise!AtRest, Held
  <2>2. CASE ~Held' /\ Moving'
    BY <1>5, <2>2 DEF Promise!Next, Promise!Resume, Promise!AtRest, Held
  <2>3. CASE ~Held' /\ ~Moving'
    BY <1>5, <2>3 DEF Promise!vars, Held
  <2> QED
    BY <2>1, <2>2, <2>3
<1>6. CASE ~Held /\ ~Moving /\ ~forgot /\ born
  <2>1. CASE Held'
    BY <1>2, <1>6, <2>1 DEF Promise!Next, Promise!Begin, Promise!AtRest, Held
  <2>2. CASE ~Held' /\ Moving'
    BY <1>6, <2>2 DEF Promise!Next, Promise!Resume, Promise!AtRest, Held
  <2>3. CASE ~Held' /\ ~Moving' /\ forgot'
    BY <1>6, <2>3 DEF Promise!Next, Promise!Forget, Held
  <2>4. CASE ~Held' /\ ~Moving' /\ ~forgot'
    BY <1>6, <2>4 DEF Promise!vars, Held
  <2> QED
    BY <2>1, <2>2, <2>3, <2>4
<1>7. CASE ~Held /\ ~Moving /\ ~forgot /\ ~born
  <2>1. CASE Held'
    BY <1>2, <1>7, <2>1 DEF Promise!Next, Promise!Begin, Held
  <2>2. CASE ~Held'
    BY <1>7, <2>2 DEF Promise!vars, Held
  <2> QED
    BY <2>1, <2>2
<1> QED
  BY <1>3, <1>4, <1>5, <1>6, <1>7

\* How a session is started, step by step.
LEMMA BornNext ==
    ASSUME Typed, [Next]_vars
    PROVE  born \/ ~born' \/ \E x \in Daemons : Spawn(x)
<1> USE DEF procVars, regVars, sessVars, handVars, wakeVars, wireVars, histVars
<1>1. ASSUME NEW d \in Daemons,
             LoadRegistry(d) \/ Run(d) \/ OpenClaim(d) \/ Takeover(d) \/ Supersede(d)
                \/ ResumeMarked(d) \/ StartTurn(d) \/ EndTurn(d) \/ Adopt(d) \/
                ResumeHanded(d)
      PROVE  born \/ ~born' \/ \E x \in Daemons : Spawn(x)
  <2>1. UNCHANGED <<born>>
    BY <1>1 DEF LoadRegistry, Run, OpenClaim, Lead, Takeover, Notify, Supersede,
       UpdateRegistry, ResumeMarked, StartTurn, EndTurn, Adopt, ResumeHanded
  <2> QED
    BY <2>1
<1>2. ASSUME NEW d \in Daemons,
             LaunchSettles(d) \/ Ended(d) \/ OtherProgress(d) \/ Scan(d) \/ Check(d)
                \/ Watch(d) \/ Reclaim(d) \/ Merge(d) \/ Exit(d) \/ Crash(d)
      PROVE  born \/ ~born' \/ \E x \in Daemons : Spawn(x)
  <2>1. UNCHANGED <<born>>
    BY <1>2 DEF LaunchSettles, Notify, UpdateRegistry, Ended, OtherProgress, Scan,
       Check, Watch, Reclaim, Merge, Exit, Gone, Crash
  <2> QED
    BY <2>1
<1>3. ASSUME NEW d \in Daemons,
             LeadFails(d) \/ ClientCall(d)
      PROVE  born \/ ~born' \/ \E x \in Daemons : Spawn(x)
  <2>1. UNCHANGED <<born>>
    BY <1>3 DEF LeadFails, Gone, ClientCall
  <2> QED
    BY <2>1
<1>4. ASSUME NEW c \in calls,
             Relay(c) \/ Unreachable(c) \/ ClaimHandoff(c) \/ AcceptHandoff(c) \/
                AcceptRelease(c) \/ Answer(c)
      PROVE  born \/ ~born' \/ \E x \in Daemons : Spawn(x)
  <2>1. UNCHANGED <<born>>
    BY <1>4 DEF Relay, Replace, Unreachable, ClaimHandoff, AcceptHandoff,
       UpdateRegistry, AcceptRelease, Answer, Notify
  <2> QED
    BY <2>1
<1>5. ASSUME NEW d \in Daemons, NEW k \in {"close", "forget"},
             EndSession(d, k)
      PROVE  born \/ ~born' \/ \E x \in Daemons : Spawn(x)
  <2>1. UNCHANGED <<born>>
    BY <1>5 DEF EndSession, Notify
  <2> QED
    BY <2>1
<1>6. ASSUME NEW d \in Daemons, NEW c \in calls,
             Reported(d, c)
      PROVE  born \/ ~born' \/ \E x \in Daemons : Spawn(x)
  <2>1. UNCHANGED <<born>>
    BY <1>6 DEF Reported, Notify
  <2> QED
    BY <2>1
<1>7. CASE Dispatch \/ Connect \/ Forwarded
  <2>1. UNCHANGED <<born>>
    BY <1>7 DEF Dispatch, Returns, Connect, Goes, Forwarded
  <2> QED
    BY <2>1
<1>8. CASE UNCHANGED vars
  <2>1. UNCHANGED <<born>>
    BY <1>8 DEF vars
  <2> QED
    BY <2>1
<1>9. ASSUME NEW d \in Daemons,
             Spawn(d)
      PROVE  born \/ ~born' \/ \E x \in Daemons : Spawn(x)
  BY <1>9 DEF Spawn, Notify, UpdateRegistry
<1> QED
  BY <1>1, <1>2, <1>3, <1>4, <1>5, <1>6, <1>7, <1>8, <1>9 DEF Next, Caller, Start,
     Work, Watcher, Again, Peer, Client

\* Every step of the generations keeps the promise.
LEMMA StepKeeps ==
    ASSUME Plain, Placed, Placed', Linked, Linked', Kempt, Kempt', [Next]_vars,
           "stale" \in Events => "fail" \in Events
    PROVE  [Promise!Next]_Promise!vars
<1>6. OneOwner /\ OneOwner'
  <2>1. OneOwner
    BY PlacedOneOwner
  <2>2. OneOwner'
    BY PlacedOneOwner, PTL
  <2> QED
    BY <2>1, <2>2
<1> USE DEF Placed, Linked
<1>1. born \in BOOLEAN /\ born' \in BOOLEAN /\ forgot \in BOOLEAN /\ forgot' \in BOOLEAN
  BY DEF Typed, TypeOK
<1>2. Recorded /\ Told /\ Told'
  BY RecordedNext DEF Kempt
<1>3. ~born => ~Held /\ ~Moving
  BY DEF Unborn, Nothing, Held, Owning, Moving, Accepted, CopyIn
<1>4. ~born' => ~Held' /\ ~Moving'
  BY DEF Unborn, Nothing, Held, Owning, Moving, Accepted
<1>5. ASSUME ~born, born' PROVE Held'
  <2>1. PICK d \in Daemons : Spawn(d)
    BY <1>5, BornNext
  <2>2. sess'[d] = "idle"
    BY <2>1 DEF Spawn, Typed, TypeOK
  <2> QED
    BY <2>2 DEF Held, Owning
<1>7. ASSUME NEW d \in Daemons, NEW e \in Daemons, Owning(d), Owning(e)' PROVE d = e
  <2>1. Owning(e) \/ \A x \in Daemons \ {e} : sess'[x] = sess[x]
    BY <1>7, HeldNext DEF HeldMoves
  <2>2. CASE Owning(e)
    BY <1>6, <1>7, <2>2 DEF OneOwner
  <2>3. CASE d # e /\ \A x \in Daemons \ {e} : sess'[x] = sess[x]
    <3>1. Owning(d)'
      BY <1>7, <2>3 DEF Owning
    <3> QED
      BY <1>6, <1>7, <3>1 DEF OneOwner
  <2> QED
    BY <2>1, <2>2, <2>3
<1>8. Somewhere <=> Held \/ Moving
  BY DEF Somewhere, OnItsWay, Waiting, Held, Moving
<1>9. Somewhere' <=> Held' \/ Moving'
  BY DEF Somewhere, OnItsWay, Waiting, Held, Moving
<1>10. ASSUME "fail" \notin Events
       PROVE  /\ Held => ~forgot /\ ~forgot'
              /\ ~Held /\ Moving => Held' \/ Moving'
              /\ ~Held /\ ~Moving /\ Moving' => Held'
              /\ forgot => ~Held' /\ ~Moving'
  <2>1. Sure
    BY <1>10 DEF Sure
  <2>2. Marked /\ MarkedReads /\ Claimed /\ Ends /\ Owners /\ Forgotten /\ Forgotten'
    BY <2>1 DEF Kempt, Marked
  <2>3. GoesMove /\ ComesMove /\ ForgetMove
    BY <2>1, <2>2, GoesNext, ComesNext, ForgetNext
  <2>4. ASSUME Held PROVE ~forgot /\ ~forgot'
    <3>1. Somewhere
      BY <1>8, <2>4
    <3> QED
      BY <2>2, <2>3, <3>1 DEF Forgotten, Away, Ends, ForgetMove
  <2>5. ASSUME ~Held, Moving PROVE Held' \/ Moving'
    <3>1. Somewhere /\ \A d \in Daemons : ~Owning(d)
      BY <1>8, <2>5 DEF Held
    <3> QED
      BY <1>9, <2>3, <3>1 DEF GoesMove
  <2>6. ASSUME ~Held, ~Moving, Moving' PROVE Held'
    <3>1. PICK d \in Daemons : Adopt(d) \/ Spawn(d)
      BY <1>8, <1>9, <2>3, <2>6 DEF ComesMove
    <3>2. sess'[d] \in {"launching", "idle"}
      BY <3>1 DEF Adopt, Spawn, Typed, TypeOK
    <3> QED
      BY <3>2 DEF Held, Owning
  <2>7. ASSUME forgot PROVE ~Held' /\ ~Moving'
    <3>1. ~Somewhere'
      BY <1>2, <2>2, <2>7 DEF Forgotten, Away, Recorded
    <3> QED
      BY <1>9, <3>1
  <2> QED
    BY <2>4, <2>5, <2>6, <2>7
<1>11. /\ \A d, e \in Daemons : Owning(d) /\ Owning(e) => d = e
       /\ \A d, e \in Daemons : Owning(d)' /\ Owning(e)' => d = e
  BY <1>6 DEF OneOwner
<1> QED
  BY <1>1, <1>2, <1>3, <1>4, <1>5, <1>7, <1>10, <1>11, PromiseStep

\* The refinement: whatever restarts, reports, relays, refusals and client calls make
\* of the session, it is with one daemon, on its way to the next, at rest in
\* the registry or forgotten, and moves between these as Ownership says. A takeover
\* that reads the registry too early is allowed for where launches may fail.
THEOREM KeepsPromiseHolds ==
    ASSUME Orderly, "stale" \in Events => "fail" \in Events
    PROVE  Spec /\ []NoneLeadsAgain => KeepsPromise
<1> DEFINE Inv == Placed /\ Linked /\ Kempt
<1>1. Init => Inv /\ Promise!Init
  BY InitPlaced, InitLinked, InitKempt, InitKeeps
<1>2. Inv /\ NoneLeadsAgain /\ NoneLeadsAgain' /\ [Next]_vars => Inv'
  <2>1. Placed => Plain
    BY PlainStep DEF Placed
  <2> QED
    BY <2>1, NextPlaced, NextLinked, NextKempt
<1>3. Inv /\ Inv' /\ [Next]_vars => [Promise!Next]_Promise!vars
  <2>1. Placed => Plain
    BY PlainStep DEF Placed
  <2> QED
    BY <2>1, StepKeeps
<1> HIDE DEF Inv, NoneLeadsAgain, Init, Next, vars
<1> QED
  BY <1>1, <1>2, <1>3, PTL DEF Spec, KeepsPromise, Promise!Spec

\* With at most three daemons nobody leads again, and the promise is kept outright.
THEOREM ChainKeepsPromise ==
    ASSUME Orderly, "stale" \in Events => "fail" \in Events, Cardinality(Daemons) <= 3
    PROVE  Spec => KeepsPromise
<1>1. Spec => []NoneLeadsAgain
  BY NoneLeadsAgainHolds
<1>2. Spec /\ []NoneLeadsAgain => KeepsPromise
  BY KeepsPromiseHolds
<1> HIDE DEF Spec, NoneLeadsAgain, KeepsPromise
<1> QED
  BY <1>1, <1>2, PTL

\* Forgotten, and no daemon that keeps the session has to report it yet.
NoneKeeps == forgot /\ \A e \in Daemons : ~Keeps(e)

\* The safe half of ForgetSticks: once a session is forgotten and nobody keeps it, it
\* is out of registry.json and never gets back, whichever generation writes it. That
\* this is reached is left to the fairness of the reports.
THEOREM ForgetFinal ==
    ASSUME Orderly, Sure
    PROVE  Spec /\ []NoneLeadsAgain => [](NoneKeeps => [](file = "absent"))
<1> DEFINE Inv == Placed /\ Linked /\ Kempt
<1>1. Init => Inv
  BY InitPlaced, InitLinked, InitKempt
<1>2. Inv /\ NoneLeadsAgain /\ NoneLeadsAgain' /\ [Next]_vars => Inv'
  <2>1. Placed => Plain
    BY PlainStep DEF Placed
  <2> QED
    BY <2>1, NextPlaced, NextLinked, NextKempt
<1>3. Inv /\ NoneKeeps => file = "absent"
  BY DEF Kempt, Forgotten, Away, NoneKeeps
<1>4. Inv /\ Inv' /\ NoneKeeps /\ [Next]_vars => NoneKeeps'
  <2>1. SUFFICES ASSUME Inv, Inv', NoneKeeps, [Next]_vars PROVE NoneKeeps'
    OBVIOUS
  <2>2. Plain /\ Away
    BY <2>1, PlainStep DEF Placed, Kempt, Forgotten, NoneKeeps
  <2>3. Recorded
    BY <2>1, RecordedNext DEF Placed
  <2>4. ASSUME NEW e \in Daemons, Keeps(e)' PROVE FALSE
    <3>1. NoNewKeeper
      BY <2>1, <2>2, KeepersNext DEF Placed, Linked
    <3>2. claim = e /\ claim' = None
      BY <2>1, <2>4, <3>1 DEF NoNewKeeper, NoneKeeps
    <3> QED
      BY <2>1, <2>2, <2>4, <3>2, AwayTaken DEF Placed, Linked
  <2> QED
    BY <2>1, <2>3, <2>4 DEF NoneKeeps, Recorded
<1> HIDE DEF Inv, NoneLeadsAgain, NoneKeeps, Init, Next, vars
<1> QED
  BY <1>1, <1>2, <1>3, <1>4, PTL DEF Spec

\* With at most three daemons nobody leads again, and what is forgotten is so for good.
THEOREM ChainForgetFinal ==
    ASSUME Orderly, Sure, Cardinality(Daemons) <= 3
    PROVE  Spec => [](NoneKeeps => [](file = "absent"))
<1>1. Spec => []NoneLeadsAgain
  BY NoneLeadsAgainHolds
<1>2. Spec /\ []NoneLeadsAgain => [](NoneKeeps => [](file = "absent"))
  BY ForgetFinal
<1> HIDE DEF Spec, NoneLeadsAgain, NoneKeeps
<1> QED
  BY <1>1, <1>2, PTL

\* The session is never with a daemon and on its way at once: what a report or a
\* registry would launch, nobody has.
NotTwice == ~(Held /\ Moving)

LEMMA KemptNotTwice ==
    ASSUME Plain, Placed, Linked, Kempt
    PROVE  NotTwice
<1> USE DEF Placed, Linked
<1>1. SUFFICES ASSUME NEW d \in Daemons, Owning(d), NEW e \in Daemons, OnItsWay(e)
               PROVE  FALSE
  BY DEF NotTwice, Held, Moving, OnItsWay, Waiting
<1>2. PICK n \in Daemons : Newest(n)
  BY SomeNewest
<1>3. ASSUME NEW x \in Daemons, x # n, Owning(x) \/ Waiting(x)
      PROVE Keeps(x) /\ Forwards(n, x)
  <2>1. sess[x] # "none" /\ phase[x] \in {"resume", "load", "serving"}
    BY <1>3 DEF Owning, Waiting, Outside, Line, Typed, TypeOK, Phases
  <2>2. claim # x
    BY <1>2, <1>3, DaemonsAssumption DEF Newest, Line
  <2>3. Superseded(x)
    BY <2>1, <2>2 DEF Line
  <2>4. ~Accepted(x)
    BY <1>3, MakerWaits DEF Accepted, CallShape, Owning, Waiting
  <2>5. Keeps(x)
    BY <2>1, <2>3, <2>4 DEF Keeps
  <2> QED
    BY <1>2, <2>5 DEF Kept
<1>4. ASSUME NEW x \in Daemons, Forwards(n, x)
      PROVE  /\ sess[n] = "none" /\ resuming[n] \notin {"pending", "loading"}
             /\ phase[n] = "resume" => reg[n] # "marked"
  BY <1>2, <1>4 DEF Forwarding, NewestForwards
<1>5. CASE Waiting(e)
  <2>1. e # n /\ d # e
    <3>1. Superseded(e)
      BY <1>5 DEF Waiting, Handing, Typed, Watches, Superseded
    <3>2. ~Superseded(n)
      BY <1>2, NewestIs, DaemonsAssumption
    <3> QED
      BY <1>1, <1>5, <3>1, <3>2 DEF Owning, Waiting
  <2>2. Forwards(n, e)
    BY <1>3, <1>5, <2>1
  <2>3. d # n
    BY <1>1, <1>4, <2>2 DEF Owning
  <2>4. Forwards(n, d)
    BY <1>1, <1>3, <2>3
  <2> QED
    BY <2>1, <2>2, <2>4, ForwardsSame
<1>6. CASE report[e].kind = "handed"
  <2>1. phase[e] = "reported"
    BY <1>6 DEF Outside, NoReport
  <2>2. e = n /\ d # n
    BY <1>1, <1>2, <2>1, NewestIs, DaemonsAssumption DEF Outside, Owning
  <2>3. Forwards(n, d)
    BY <1>1, <1>3, <2>2
  <2>4. foreign[n] = None
    BY <2>1, <2>2 DEF Outside
  <2> QED
    BY <1>6, <2>2, <2>3, <2>4, DaemonsAssumption DEF Forwards
<1>7. CASE resuming[e] \in {"claimed", "pending"}
  <2>1. claim = e /\ sess[e] = "none"
    BY <1>7, ClaimedAt DEF Resuming
  <2>2. e = n /\ d # n
    BY <1>1, <1>2, <2>1, NewestIs, DaemonsAssumption DEF Owning
  <2>3. Forwards(n, d)
    BY <1>1, <1>3, <2>2
  <2>4. resuming[e] = "claimed"
    BY <1>4, <1>7, <2>2, <2>3
  <2>5. PICK c \in calls : c.stage = "claimed" /\ c.path # << >> /\ Server(c) = e
    BY <2>4 DEF Kempt, Claimed
  <2>6. Keeps(c.from) /\ c.from \in Daemons /\ ~Owning(c.from)
    BY <2>5, MakerKeeps, MakerWaits DEF CallShape, Owning
  <2>7. Forwards(n, c.from)
    BY <1>2, <2>6 DEF Kept
  <2> QED
    BY <1>1, <2>3, <2>6, <2>7, ForwardsSame
<1>8. CASE phase[e] = "resume" /\ reg[e] = "marked"
  <2>1. claim = e /\ sess[e] = "none"
    BY <1>8 DEF Line, Outside
  <2>2. e = n /\ d # n
    BY <1>1, <1>2, <2>1, NewestIs, DaemonsAssumption DEF Owning
  <2>3. Forwards(n, d)
    BY <1>1, <1>3, <2>2
  <2> QED
    BY <1>4, <1>8, <2>2, <2>3
<1> QED
  BY <1>1, <1>5, <1>6, <1>7, <1>8 DEF OnItsWay

\* Of any number of daemons, while nobody is killed or leads again, none has the
\* session while it is on its way to another.
THEOREM NotTwiceHolds ==
    ASSUME Orderly
    PROVE  Spec /\ []NoneLeadsAgain => []NotTwice
<1> DEFINE Inv == Placed /\ Linked /\ Kempt
<1>1. Init => Inv
  BY InitPlaced, InitLinked, InitKempt
<1>2. Inv => Plain
  BY PlainStep DEF Placed
<1>3. Inv /\ NoneLeadsAgain /\ NoneLeadsAgain' /\ [Next]_vars => Inv'
  BY <1>2, NextPlaced, NextLinked, NextKempt
<1>4. Inv => NotTwice
  BY <1>2, KemptNotTwice
<1> HIDE DEF Inv, NoneLeadsAgain, NotTwice, Init, Next, vars
<1> QED
  BY <1>1, <1>3, <1>4, PTL DEF Spec

-----------------------------------------------------------------------------
(* Daemons that are killed                                                 *)

\* No daemon has exited yet, of itself or killed.
Alive == \A d \in Daemons : phase[d] # "exited"

\* A process that does not run has no session.
Cleared == \A d \in Daemons : phase[d] \in {"off", "loaded", "exited"} => sess[d] = "none"

\* A process ends, and nobody gets a session by it.
ExitsMove ==
    \A d \in Daemons : phase'[d] = "exited" =>
        phase[d] = "exited" \/ \A e \in Daemons : sess'[e] \in {sess[e], "none"}

\* What does not run has no session, step by step.
LEMMA ClearedNext ==
    ASSUME Typed, Cleared, [Next]_vars
    PROVE  Cleared'
<1> USE DEF procVars, regVars, sessVars, handVars, wakeVars, wireVars, histVars
<1>1. ASSUME NEW d \in Daemons,
             Ended(d) \/ OtherProgress(d) \/ Check(d) \/ ClientCall(d)
      PROVE  Cleared'
  <2>1. UNCHANGED <<phase, sess>>
    BY <1>1 DEF Ended, Notify, UpdateRegistry, OtherProgress, Check, ClientCall
  <2> QED
    BY <2>1 DEF Cleared
<1>2. ASSUME NEW c \in calls,
             Relay(c) \/ Unreachable(c) \/ ClaimHandoff(c) \/ AcceptHandoff(c) \/
                AcceptRelease(c) \/ Answer(c)
      PROVE  Cleared'
  <2>1. UNCHANGED <<phase, sess>>
    BY <1>2 DEF Relay, Replace, Unreachable, ClaimHandoff, AcceptHandoff,
       UpdateRegistry, AcceptRelease, Answer, Notify
  <2> QED
    BY <2>1 DEF Cleared
<1>3. CASE Dispatch \/ Connect \/ Forwarded
  <2>1. UNCHANGED <<phase, sess>>
    BY <1>3 DEF Dispatch, Returns, Connect, Goes, Forwarded
  <2> QED
    BY <2>1 DEF Cleared
<1>4. CASE UNCHANGED vars
  <2>1. UNCHANGED <<phase, sess>>
    BY <1>4 DEF vars
  <2> QED
    BY <2>1 DEF Cleared
<1>5. ASSUME NEW d \in Daemons, LoadRegistry(d) PROVE Cleared'
  BY <1>5 DEF Cleared, Typed, TypeOK, LoadRegistry
<1>6. ASSUME NEW d \in Daemons, Run(d) PROVE Cleared'
  BY <1>6 DEF Cleared, Typed, TypeOK, Run
<1>7. ASSUME NEW d \in Daemons, OpenClaim(d) PROVE Cleared'
  BY <1>7 DEF Cleared, Typed, TypeOK, OpenClaim, Lead
<1>8. ASSUME NEW d \in Daemons, Takeover(d) PROVE Cleared'
  <2>1. phase' = [phase EXCEPT ![d] = "reported"] /\ \A e \in Daemons :
           sess'[e] \in {sess[e], "none"}
    BY <1>8 DEF Takeover, Typed, TypeOK
  <2> QED
    BY <1>8, <2>1 DEF Cleared, Typed, TypeOK
<1>9. ASSUME NEW d \in Daemons, Supersede(d) PROVE Cleared'
  BY <1>9 DEF Cleared, Typed, TypeOK, Supersede, Lead, UpdateRegistry
<1>10. ASSUME NEW d \in Daemons, ResumeMarked(d) PROVE Cleared'
  BY <1>10 DEF Cleared, Typed, TypeOK, ResumeMarked
<1>11. ASSUME NEW d \in Daemons, Spawn(d) PROVE Cleared'
  BY <1>11 DEF Cleared, Typed, TypeOK, Spawn, Notify, UpdateRegistry, Called, Working
<1>12. ASSUME NEW d \in Daemons, StartTurn(d) PROVE Cleared'
  BY <1>12 DEF Cleared, Typed, TypeOK, StartTurn, Notify, Up
<1>13. ASSUME NEW d \in Daemons, EndTurn(d) PROVE Cleared'
  BY <1>13 DEF Cleared, Typed, TypeOK, EndTurn, Notify, Up
<1>14. ASSUME NEW d \in Daemons, Adopt(d) PROVE Cleared'
  BY <1>14 DEF Cleared, Typed, TypeOK, Adopt, Reached, Working
<1>15. ASSUME NEW d \in Daemons, ResumeHanded(d) PROVE Cleared'
  BY <1>15 DEF Cleared, Typed, TypeOK, ResumeHanded, Notify, Up
<1>16. ASSUME NEW d \in Daemons, LaunchSettles(d) PROVE Cleared'
  BY <1>16 DEF Cleared, Typed, TypeOK, LaunchSettles, Notify, UpdateRegistry, Up
<1>17. ASSUME NEW d \in Daemons, NEW k \in {"close", "forget"},
             EndSession(d, k)
      PROVE  Cleared'
  BY <1>17 DEF Cleared, Typed, TypeOK, EndSession, Notify
<1>18. ASSUME NEW d \in Daemons, Scan(d) PROVE Cleared'
  BY <1>18 DEF Cleared, Typed, TypeOK, Scan, Up
<1>19. ASSUME NEW d \in Daemons, NEW c \in calls, Reported(d, c) PROVE Cleared'
  BY <1>19 DEF Cleared, Typed, TypeOK, Reported, Notify, Up
<1>20. ASSUME NEW d \in Daemons, Watch(d) PROVE Cleared'
  BY <1>20 DEF Cleared, Typed, TypeOK, Watch, Up, Watches
<1>21. ASSUME NEW d \in Daemons, Reclaim(d) PROVE Cleared'
  BY <1>21 DEF Cleared, Typed, TypeOK, Reclaim, Watches
<1>22. ASSUME NEW d \in Daemons, Merge(d) PROVE Cleared'
  BY <1>22 DEF Cleared, Typed, TypeOK, Merge, Watches
<1>23. ASSUME NEW d \in Daemons, Exit(d) PROVE Cleared'
  BY <1>23 DEF Cleared, Typed, TypeOK, Exit, Gone
<1>24. ASSUME NEW d \in Daemons, Crash(d) PROVE Cleared'
  BY <1>24 DEF Cleared, Typed, TypeOK, Crash, Gone
<1>25. ASSUME NEW d \in Daemons, LeadFails(d) PROVE Cleared'
  BY <1>25 DEF Cleared, Typed, TypeOK, LeadFails, Gone
<1> QED
  BY <1>1, <1>2, <1>3, <1>4, <1>5, <1>6, <1>7, <1>8, <1>9, <1>10, <1>11, <1>12, <1>13,
     <1>14, <1>15, <1>16, <1>17, <1>18, <1>19, <1>20, <1>21, <1>22, <1>23, <1>24,
     <1>25 DEF Next, Caller, Start, Work, Watcher, Again, Peer, Client

\* How processes end, step by step.
LEMMA ExitsNext ==
    ASSUME Typed, [Next]_vars
    PROVE  ExitsMove
<1> USE DEF procVars, regVars, sessVars, handVars, wakeVars, wireVars, histVars
<1>1. ASSUME NEW d \in Daemons,
             Spawn(d) \/ StartTurn(d) \/ EndTurn(d) \/ Adopt(d) \/ ResumeHanded(d) \/
                Ended(d) \/ OtherProgress(d) \/ Scan(d) \/ Check(d) \/ ClientCall(d)
      PROVE  ExitsMove
  <2>1. UNCHANGED <<phase>>
    BY <1>1 DEF Spawn, Notify, UpdateRegistry, StartTurn, EndTurn, Adopt,
       ResumeHanded, Ended, OtherProgress, Scan, Check, ClientCall
  <2> QED
    BY <2>1 DEF ExitsMove
<1>2. ASSUME NEW c \in calls,
             Relay(c) \/ Unreachable(c) \/ ClaimHandoff(c) \/ AcceptHandoff(c) \/
                AcceptRelease(c) \/ Answer(c)
      PROVE  ExitsMove
  <2>1. UNCHANGED <<phase>>
    BY <1>2 DEF Relay, Replace, Unreachable, ClaimHandoff, AcceptHandoff,
       UpdateRegistry, AcceptRelease, Answer, Notify
  <2> QED
    BY <2>1 DEF ExitsMove
<1>3. ASSUME NEW d \in Daemons, NEW k \in {"close", "forget"},
             EndSession(d, k)
      PROVE  ExitsMove
  <2>1. UNCHANGED <<phase>>
    BY <1>3 DEF EndSession, Notify
  <2> QED
    BY <2>1 DEF ExitsMove
<1>4. ASSUME NEW d \in Daemons, NEW c \in calls, Reported(d, c) PROVE ExitsMove
  <2>1. UNCHANGED <<phase>>
    BY <1>4 DEF Reported, Notify
  <2> QED
    BY <2>1 DEF ExitsMove
<1>5. CASE Dispatch \/ Connect \/ Forwarded
  <2>1. UNCHANGED <<phase>>
    BY <1>5 DEF Dispatch, Returns, Connect, Goes, Forwarded
  <2> QED
    BY <2>1 DEF ExitsMove
<1>6. CASE UNCHANGED vars
  <2>1. UNCHANGED <<phase>>
    BY <1>6 DEF vars
  <2> QED
    BY <2>1 DEF ExitsMove
<1>7. ASSUME NEW d \in Daemons, LoadRegistry(d) PROVE ExitsMove
  BY <1>7 DEF ExitsMove, Typed, TypeOK, LoadRegistry
<1>8. ASSUME NEW d \in Daemons, Run(d) PROVE ExitsMove
  <2>1. sess' = sess
    BY <1>8 DEF Run
  <2> QED
    BY <2>1 DEF ExitsMove
<1>9. ASSUME NEW d \in Daemons, OpenClaim(d) PROVE ExitsMove
  BY <1>9 DEF ExitsMove, Typed, TypeOK, OpenClaim, Lead
<1>10. ASSUME NEW d \in Daemons, Takeover(d) PROVE ExitsMove
  <2>1. phase' = [phase EXCEPT ![d] = "reported"]
    BY <1>10 DEF Takeover
  <2> QED
    BY <2>1 DEF ExitsMove, Typed, TypeOK
<1>11. ASSUME NEW d \in Daemons, Supersede(d) PROVE ExitsMove
  BY <1>11 DEF ExitsMove, Typed, TypeOK, Supersede, Lead, UpdateRegistry
<1>12. ASSUME NEW d \in Daemons, ResumeMarked(d) PROVE ExitsMove
  BY <1>12 DEF ExitsMove, Typed, TypeOK, ResumeMarked
<1>13. ASSUME NEW d \in Daemons, LaunchSettles(d) PROVE ExitsMove
  BY <1>13 DEF ExitsMove, Typed, TypeOK, LaunchSettles, Notify, UpdateRegistry
<1>14. ASSUME NEW d \in Daemons, Watch(d) PROVE ExitsMove
  BY <1>14 DEF ExitsMove, Typed, TypeOK, Watch
<1>15. ASSUME NEW d \in Daemons, Reclaim(d) PROVE ExitsMove
  BY <1>15 DEF ExitsMove, Typed, TypeOK, Reclaim
<1>16. ASSUME NEW d \in Daemons, Merge(d) PROVE ExitsMove
  BY <1>16 DEF ExitsMove, Typed, TypeOK, Merge
<1>17. ASSUME NEW d \in Daemons, Exit(d) PROVE ExitsMove
  <2>1. sess' = [sess EXCEPT ![d] = "none"]
    BY <1>17 DEF Exit, Gone
  <2> QED
    BY <2>1 DEF ExitsMove, Typed, TypeOK
<1>18. ASSUME NEW d \in Daemons, Crash(d) PROVE ExitsMove
  <2>1. sess' = [sess EXCEPT ![d] = "none"]
    BY <1>18 DEF Crash, Gone
  <2> QED
    BY <2>1 DEF ExitsMove, Typed, TypeOK
<1>19. ASSUME NEW d \in Daemons, LeadFails(d) PROVE ExitsMove
  <2>1. sess' = [sess EXCEPT ![d] = "none"]
    BY <1>19 DEF LeadFails, Gone
  <2> QED
    BY <2>1 DEF ExitsMove, Typed, TypeOK
<1> QED
  BY <1>1, <1>2, <1>3, <1>4, <1>5, <1>6, <1>7, <1>8, <1>9, <1>10, <1>11, <1>12, <1>13,
     <1>14, <1>15, <1>16, <1>17, <1>18, <1>19 DEF Next, Caller, Start, Work, Watcher,
     Again, Peer, Client

\* Nobody leads again while nobody has exited.
LEMMA AliveLeads ==
    ASSUME Placed, Alive, Alive', [Next]_vars
    PROVE  NoneLeadsAgain'
<1> USE DEF procVars, regVars, sessVars, handVars, wakeVars, wireVars, histVars
<1>1. ASSUME NEW d \in Daemons,
             Spawn(d) \/ StartTurn(d) \/ EndTurn(d) \/ Adopt(d) \/ ResumeHanded(d) \/
                Ended(d) \/ OtherProgress(d) \/ Scan(d) \/ Check(d) \/ ClientCall(d)
      PROVE  NoneLeadsAgain'
  <2>1. UNCHANGED <<phase>>
    BY <1>1 DEF Spawn, Notify, UpdateRegistry, StartTurn, EndTurn, Adopt,
       ResumeHanded, Ended, OtherProgress, Scan, Check, ClientCall
  <2> QED
    BY <2>1 DEF NoneLeadsAgain, Placed, Line
<1>2. ASSUME NEW c \in calls,
             Relay(c) \/ Unreachable(c) \/ ClaimHandoff(c) \/ AcceptHandoff(c) \/
                AcceptRelease(c) \/ Answer(c)
      PROVE  NoneLeadsAgain'
  <2>1. UNCHANGED <<phase>>
    BY <1>2 DEF Relay, Replace, Unreachable, ClaimHandoff, AcceptHandoff,
       UpdateRegistry, AcceptRelease, Answer, Notify
  <2> QED
    BY <2>1 DEF NoneLeadsAgain, Placed, Line
<1>3. ASSUME NEW d \in Daemons, NEW k \in {"close", "forget"},
             EndSession(d, k)
      PROVE  NoneLeadsAgain'
  <2>1. UNCHANGED <<phase>>
    BY <1>3 DEF EndSession, Notify
  <2> QED
    BY <2>1 DEF NoneLeadsAgain, Placed, Line
<1>4. ASSUME NEW d \in Daemons, NEW c \in calls, Reported(d, c) PROVE NoneLeadsAgain'
  <2>1. UNCHANGED <<phase>>
    BY <1>4 DEF Reported, Notify
  <2> QED
    BY <2>1 DEF NoneLeadsAgain, Placed, Line
<1>5. CASE Dispatch \/ Connect \/ Forwarded
  <2>1. UNCHANGED <<phase>>
    BY <1>5 DEF Dispatch, Returns, Connect, Goes, Forwarded
  <2> QED
    BY <2>1 DEF NoneLeadsAgain, Placed, Line
<1>6. CASE UNCHANGED vars
  <2>1. UNCHANGED <<phase>>
    BY <1>6 DEF vars
  <2> QED
    BY <2>1 DEF NoneLeadsAgain, Placed, Line
<1>7. ASSUME NEW d \in Daemons, LoadRegistry(d) PROVE NoneLeadsAgain'
  BY <1>7 DEF NoneLeadsAgain, Placed, Typed, TypeOK, LoadRegistry, Line
<1>8. ASSUME NEW d \in Daemons, Run(d) PROVE NoneLeadsAgain'
  BY <1>8 DEF NoneLeadsAgain, Placed, Typed, TypeOK, Run, Line
<1>9. ASSUME NEW d \in Daemons, OpenClaim(d) PROVE NoneLeadsAgain'
  BY <1>9 DEF NoneLeadsAgain, Placed, Typed, TypeOK, OpenClaim, Lead, Line
<1>10. ASSUME NEW d \in Daemons, Takeover(d) PROVE NoneLeadsAgain'
  <2>1. phase' = [phase EXCEPT ![d] = "reported"]
    BY <1>10 DEF Takeover
  <2> QED
    BY <2>1 DEF NoneLeadsAgain, Placed, Line, Typed, TypeOK
<1>11. ASSUME NEW d \in Daemons, Supersede(d) PROVE NoneLeadsAgain'
  BY <1>11 DEF NoneLeadsAgain, Placed, Typed, TypeOK, Supersede, Lead, UpdateRegistry,
     Line
<1>12. ASSUME NEW d \in Daemons, ResumeMarked(d) PROVE NoneLeadsAgain'
  BY <1>12 DEF NoneLeadsAgain, Placed, Typed, TypeOK, ResumeMarked, Line
<1>13. ASSUME NEW d \in Daemons, LaunchSettles(d) PROVE NoneLeadsAgain'
  BY <1>13 DEF NoneLeadsAgain, Placed, Typed, TypeOK, LaunchSettles, Notify,
     UpdateRegistry, Line
<1>14. ASSUME NEW d \in Daemons, Watch(d) PROVE NoneLeadsAgain'
  <2>1. watch[d] = "idle" /\ Superseded(d)
    BY <1>14 DEF Watch, Placed, Typed, Watches, Superseded
  <2>2. PICK n \in Daemons : n = next[d]
    BY <2>1 DEF Superseded, Placed, Typed, TypeOK
  <2>3. Up(n)
    BY <2>2 DEF Up, Alive, Placed, Outside, Typed, TypeOK
  <2>4. phase' = phase
    BY <1>14, <2>2, <2>3 DEF Watch
  <2> QED
    BY <2>4 DEF NoneLeadsAgain, Placed, Line
<1>15. ASSUME NEW d \in Daemons, Reclaim(d) PROVE NoneLeadsAgain'
  BY <1>15 DEF NoneLeadsAgain, Placed, Typed, TypeOK, Reclaim, Line
<1>16. ASSUME NEW d \in Daemons, Merge(d) PROVE NoneLeadsAgain'
  BY <1>16 DEF NoneLeadsAgain, Placed, Typed, TypeOK, Merge, Line
<1>17. ASSUME NEW d \in Daemons, Exit(d) PROVE NoneLeadsAgain'
  <2>1. phase'[d] = "exited"
    BY <1>17 DEF Exit, Gone, Placed, Typed, TypeOK
  <2> QED
    BY <2>1 DEF Alive
<1>18. ASSUME NEW d \in Daemons, Crash(d) PROVE NoneLeadsAgain'
  <2>1. phase'[d] = "exited"
    BY <1>18 DEF Crash, Gone, Placed, Typed, TypeOK
  <2> QED
    BY <2>1 DEF Alive
<1>19. ASSUME NEW d \in Daemons, LeadFails(d) PROVE NoneLeadsAgain'
  <2>1. phase'[d] = "exited"
    BY <1>19 DEF LeadFails, Gone, Placed, Typed, TypeOK
  <2> QED
    BY <2>1 DEF Alive
<1> QED
  BY <1>1, <1>2, <1>3, <1>4, <1>5, <1>6, <1>7, <1>8, <1>9, <1>10, <1>11, <1>12, <1>13,
     <1>14, <1>15, <1>16, <1>17, <1>18, <1>19 DEF Next, Caller, Start, Work, Watcher,
     Again, Peer, Client

\* Only a started session is forgotten, step by step.
LEMMA ToldNext ==
    ASSUME Typed, Unborn, Told, [Next]_vars
    PROVE  Told'
<1> USE DEF procVars, regVars, sessVars, handVars, wakeVars, wireVars, histVars
<1>1. ASSUME NEW d \in Daemons,
             LoadRegistry(d) \/ Run(d) \/ OpenClaim(d) \/ Takeover(d) \/ Supersede(d)
                \/ ResumeMarked(d) \/ StartTurn(d) \/ EndTurn(d) \/ Adopt(d) \/
                ResumeHanded(d)
      PROVE  Told'
  <2>1. UNCHANGED <<born, forgot>>
    BY <1>1 DEF LoadRegistry, Run, OpenClaim, Lead, Takeover, Notify, Supersede,
       UpdateRegistry, ResumeMarked, StartTurn, EndTurn, Adopt, ResumeHanded
  <2> QED
    BY <2>1 DEF Told
<1>2. ASSUME NEW d \in Daemons,
             LaunchSettles(d) \/ OtherProgress(d) \/ Scan(d) \/ Check(d) \/ Watch(d)
                \/ Reclaim(d) \/ Merge(d) \/ Exit(d) \/ Crash(d) \/ LeadFails(d)
      PROVE  Told'
  <2>1. UNCHANGED <<born, forgot>>
    BY <1>2 DEF LaunchSettles, Notify, UpdateRegistry, OtherProgress, Scan, Check,
       Watch, Reclaim, Merge, Exit, Gone, Crash, LeadFails
  <2> QED
    BY <2>1 DEF Told
<1>3. ASSUME NEW d \in Daemons, ClientCall(d) PROVE Told'
  <2>1. UNCHANGED <<born, forgot>>
    BY <1>3 DEF ClientCall
  <2> QED
    BY <2>1 DEF Told
<1>4. ASSUME NEW c \in calls,
             Relay(c) \/ Unreachable(c) \/ ClaimHandoff(c) \/ AcceptHandoff(c) \/
                AcceptRelease(c) \/ Answer(c)
      PROVE  Told'
  <2>1. UNCHANGED <<born, forgot>>
    BY <1>4 DEF Relay, Replace, Unreachable, ClaimHandoff, AcceptHandoff,
       UpdateRegistry, AcceptRelease, Answer, Notify
  <2> QED
    BY <2>1 DEF Told
<1>5. ASSUME NEW d \in Daemons, NEW k \in {"close", "forget"},
             EndSession(d, k)
      PROVE  Told'
  <2>1. UNCHANGED <<born, forgot>>
    BY <1>5 DEF EndSession, Notify
  <2> QED
    BY <2>1 DEF Told
<1>6. ASSUME NEW d \in Daemons, NEW c \in calls, Reported(d, c) PROVE Told'
  <2>1. UNCHANGED <<born, forgot>>
    BY <1>6 DEF Reported, Notify
  <2> QED
    BY <2>1 DEF Told
<1>7. CASE Dispatch \/ Connect \/ Forwarded
  <2>1. UNCHANGED <<born, forgot>>
    BY <1>7 DEF Dispatch, Returns, Connect, Goes, Forwarded
  <2> QED
    BY <2>1 DEF Told
<1>8. CASE UNCHANGED vars
  <2>1. UNCHANGED <<born, forgot>>
    BY <1>8 DEF vars
  <2> QED
    BY <2>1 DEF Told
<1>9. ASSUME NEW d \in Daemons, Spawn(d) PROVE Told'
  BY <1>9 DEF Told, Spawn, Notify, UpdateRegistry
<1>10. ASSUME NEW d \in Daemons, Ended(d) PROVE Told'
  BY <1>10 DEF Told, Ended, Notify, UpdateRegistry, Unborn, Nothing
<1> QED
  BY <1>1, <1>2, <1>3, <1>4, <1>5, <1>6, <1>7, <1>8, <1>9, <1>10 DEF Next, Caller,
     Start, Work, Watcher, Again, Peer, Client

\* Who gets the session, with no more known than where it is.
LEMMA HeldNextAlive ==
    ASSUME Plain, Placed, [Next]_vars
    PROVE  HeldMoves
<1> USE DEF procVars, regVars, sessVars, handVars, wakeVars, wireVars, histVars
<1>1. ASSUME NEW d \in Daemons,
             LoadRegistry(d) \/ Run(d) \/ OpenClaim(d) \/ Supersede(d) \/ Ended(d) \/
                OtherProgress(d) \/ Check(d) \/ Watch(d) \/ Reclaim(d) \/ Merge(d)
      PROVE  HeldMoves
  <2>1. UNCHANGED <<sess>>
    BY <1>1 DEF LoadRegistry, Run, OpenClaim, Lead, Supersede, UpdateRegistry, Ended,
       Notify, OtherProgress, Check, Watch, Reclaim, Merge
  <2> QED
    BY <2>1 DEF HeldMoves, Owning
<1>2. ASSUME NEW d \in Daemons, ClientCall(d) PROVE HeldMoves
  <2>1. UNCHANGED <<sess>>
    BY <1>2 DEF ClientCall
  <2> QED
    BY <2>1 DEF HeldMoves, Owning
<1>3. ASSUME NEW c \in calls,
             Relay(c) \/ Unreachable(c) \/ ClaimHandoff(c) \/ AcceptHandoff(c) \/
                AcceptRelease(c) \/ Answer(c)
      PROVE  HeldMoves
  <2>1. UNCHANGED <<sess>>
    BY <1>3 DEF Relay, Replace, Unreachable, ClaimHandoff, AcceptHandoff,
       UpdateRegistry, AcceptRelease, Answer, Notify
  <2> QED
    BY <2>1 DEF HeldMoves, Owning
<1>4. CASE Dispatch \/ Connect \/ Forwarded
  <2>1. UNCHANGED <<sess>>
    BY <1>4 DEF Dispatch, Returns, Connect, Goes, Forwarded
  <2> QED
    BY <2>1 DEF HeldMoves, Owning
<1>5. CASE UNCHANGED vars
  <2>1. UNCHANGED <<sess>>
    BY <1>5 DEF vars
  <2> QED
    BY <2>1 DEF HeldMoves, Owning
<1>6. ASSUME NEW d \in Daemons, Takeover(d) PROVE HeldMoves
  BY <1>6 DEF HeldMoves, Owning, Placed, Typed, TypeOK, Takeover, Notify
<1>7. ASSUME NEW d \in Daemons, ResumeMarked(d) PROVE HeldMoves
  BY <1>7 DEF HeldMoves, Owning, Placed, Typed, TypeOK, ResumeMarked
<1>8. ASSUME NEW d \in Daemons, Spawn(d) PROVE HeldMoves
  BY <1>8 DEF HeldMoves, Owning, Placed, Typed, TypeOK, Spawn, Notify, UpdateRegistry
<1>9. ASSUME NEW d \in Daemons, StartTurn(d) PROVE HeldMoves
  BY <1>9 DEF HeldMoves, Owning, Placed, Typed, TypeOK, StartTurn, Notify
<1>10. ASSUME NEW d \in Daemons, EndTurn(d) PROVE HeldMoves
  BY <1>10 DEF HeldMoves, Owning, Placed, Typed, TypeOK, EndTurn, Notify
<1>11. ASSUME NEW d \in Daemons, Adopt(d) PROVE HeldMoves
  BY <1>11 DEF HeldMoves, Owning, Placed, Typed, TypeOK, Adopt
<1>12. ASSUME NEW d \in Daemons, ResumeHanded(d) PROVE HeldMoves
  BY <1>12 DEF HeldMoves, Owning, Placed, Typed, TypeOK, ResumeHanded, Notify
<1>13. ASSUME NEW d \in Daemons, LaunchSettles(d) PROVE HeldMoves
  BY <1>13 DEF HeldMoves, Owning, Placed, Typed, TypeOK, LaunchSettles, Notify,
     UpdateRegistry
<1>14. ASSUME NEW d \in Daemons, NEW k \in {"close", "forget"},
             EndSession(d, k)
      PROVE  HeldMoves
  BY <1>14 DEF HeldMoves, Owning, Placed, Typed, TypeOK, EndSession, Notify
<1>15. ASSUME NEW d \in Daemons, Scan(d) PROVE HeldMoves
  BY <1>15 DEF HeldMoves, Owning, Placed, Typed, TypeOK, Scan
<1>16. ASSUME NEW d \in Daemons, NEW c \in calls, Reported(d, c) PROVE HeldMoves
  BY <1>16 DEF HeldMoves, Owning, Placed, Typed, TypeOK, Reported, Notify
<1>17. ASSUME NEW d \in Daemons, Exit(d) PROVE HeldMoves
  BY <1>17 DEF HeldMoves, Owning, Placed, Typed, TypeOK, Exit, Gone
<1>18. ASSUME NEW d \in Daemons, Crash(d) PROVE HeldMoves
  BY <1>18 DEF Plain
<1>19. ASSUME NEW d \in Daemons, LeadFails(d) PROVE HeldMoves
  BY <1>19 DEF HeldMoves, Owning, Placed, Typed, TypeOK, LeadFails, Gone
<1> QED
  BY <1>1, <1>2, <1>3, <1>4, <1>5, <1>6, <1>7, <1>8, <1>9, <1>10, <1>11, <1>12, <1>13,
     <1>14, <1>15, <1>16, <1>17, <1>18, <1>19 DEF Next, Caller, Start, Work, Watcher,
     Again, Peer, Client

\* While nobody has exited a step is plain.
LEMMA AlivePlain ==
    ASSUME Tidy, Typed, Alive', [Next]_vars
    PROVE  Plain
<1>1. ASSUME NEW d \in Daemons, Crash(d) \/ Exit(d) PROVE FALSE
  <2>1. phase'[d] = "exited"
    BY <1>1 DEF Crash, Exit, Gone, Typed, TypeOK
  <2> QED
    BY <2>1 DEF Alive
<1> QED
  BY <1>1 DEF Plain, Tidy

\* The invariant of behaviours in which daemons are killed: what holds while nobody
\* has exited, and what holds whatever happens.
Living == Typed /\ Unborn /\ Told /\ Cleared /\ (Alive => Placed)

LEMMA InitLiving ==
    ASSUME Init
    PROVE  Living
<1>1. Placed
  BY InitPlaced
<1>2. Told /\ Cleared
  BY DEF Init, Told, Cleared
<1> QED
  BY <1>1, <1>2 DEF Living, Placed

LEMMA NextLiving ==
    ASSUME Tidy, Living, [Next]_vars
    PROVE  Living'
<1>1. Typed' /\ Unborn' /\ Told' /\ Cleared'
  BY NextTyped, UnbornNext, ToldNext, ClearedNext DEF Living
<1>2. ASSUME Alive' PROVE Placed'
  <2>1. Alive
    BY <1>2, ExitedStays DEF Living, Alive
  <2>2. Placed
    BY <2>1 DEF Living
  <2>3. Plain
    BY <1>2, AlivePlain DEF Living
  <2>4. NoneLeadsAgain
    BY <2>2 DEF Placed, Line, NoneLeadsAgain
  <2>5. NoneLeadsAgain'
    BY <1>2, <2>1, <2>2, AliveLeads
  <2> QED
    BY <2>2, <2>3, <2>4, <2>5, NextPlaced
<1> QED
  BY <1>1, <1>2 DEF Living

LEMMA LivingHolds ==
    ASSUME Tidy
    PROVE  Spec => []Living
<1>1. Init => Living
  BY InitLiving
<1>2. Living /\ [Next]_vars => Living'
  BY NextLiving
<1> HIDE DEF Living, Init, Next, vars
<1> QED
  BY <1>1, <1>2, PTL DEF Spec

\* Of any number of daemons at most one has the session until one of them exits: with
\* calls that find a superseded daemon, closes that overlap a takeover and takeovers
\* that overlap a resume left out.
THEOREM AliveOneOwner ==
    ASSUME Tidy
    PROVE  Spec => [](Alive => OneOwner)
<1>1. Living => (Alive => OneOwner)
  BY PlacedOneOwner DEF Living
<1>2. Spec => []Living
  BY LivingHolds
<1> HIDE DEF Living, Spec, Alive, OneOwner
<1> QED
  BY <1>1, <1>2, PTL

\* Of two daemons, no two are apart from a third.
LEMMA AmongTwo ==
    ASSUME Cardinality(Daemons) <= 2, NEW a \in Daemons, NEW b \in Daemons \ {a},
           NEW c \in Daemons \ {a, b}
    PROVE  FALSE
<1>1. IsFiniteSet(Daemons) /\ Cardinality(Daemons) \in Nat
  BY DaemonsAssumption, FS_CardinalityType
<1>2. IsFiniteSet({a}) /\ Cardinality({a}) = 1
  BY FS_Singleton
<1>3. IsFiniteSet({a, b}) /\ Cardinality({a, b}) = 2
  <2>1. {a, b} = {a} \cup {b} /\ b \notin {a}
    OBVIOUS
  <2> QED
    BY <1>2, <2>1, FS_AddElement
<1>4. Cardinality({a, b, c}) = 3
  <2>1. {a, b, c} = {a, b} \cup {c} /\ c \notin {a, b}
    OBVIOUS
  <2> QED
    BY <1>3, <2>1, FS_AddElement
<1>5. Cardinality({a, b, c}) <= Cardinality(Daemons)
  BY <1>1, FS_Subset
<1> QED
  BY <1>1, <1>4, <1>5

\* Where one of two daemons has exited the other one alone can have the session.
LEMMA OnlyOther ==
    ASSUME Typed, Cleared, Cardinality(Daemons) <= 2, ~Alive
    PROVE  OneOwner
<1>1. SUFFICES ASSUME NEW d \in Daemons, NEW e \in Daemons, Owning(d), Owning(e), d # e
               PROVE  FALSE
  BY DEF OneOwner
<1>2. PICK x \in Daemons : phase[x] = "exited"
  BY DEF Alive
<1>3. x # d /\ x # e
  BY <1>1, <1>2 DEF Cleared, Owning
<1> QED
  BY <1>1, <1>3, AmongTwo

LEMMA LivingOneOwner ==
    ASSUME Living, Cardinality(Daemons) <= 2
    PROVE  OneOwner
<1>1. CASE Alive
  BY <1>1, PlacedOneOwner DEF Living
<1>2. CASE ~Alive
  BY <1>2, OnlyOther DEF Living
<1> QED
  BY <1>1, <1>2

\* Of two daemons at most one has the session, killed as they may be and whether the
\* survivor leads again or not.
THEOREM PairOneOwner ==
    ASSUME Tidy, Cardinality(Daemons) <= 2
    PROVE  Spec => []OneOwner
<1>1. Living => OneOwner
  BY LivingOneOwner
<1>2. Spec => []Living
  BY LivingHolds
<1> HIDE DEF Living, Spec, OneOwner
<1> QED
  BY <1>1, <1>2, PTL

\* A step does not take the session from one of two daemons to the other at once.
LEMMA PairApart ==
    ASSUME Tidy, Living, Living', Cardinality(Daemons) <= 2, [Next]_vars,
           NEW d \in Daemons, NEW e \in Daemons, Owning(d), Owning(e)'
    PROVE  d = e
<1>1. OneOwner /\ OneOwner'
  <2>1. OneOwner
    BY LivingOneOwner
  <2>2. OneOwner'
    BY LivingOneOwner, PTL
  <2> QED
    BY <2>1, <2>2
<1>2. CASE Alive /\ Alive'
  <2>1. Placed /\ Placed' /\ Plain
    BY <1>2, AlivePlain DEF Living
  <2>2. Owning(e) \/ \A x \in Daemons \ {e} : sess'[x] = sess[x]
    BY <1>2, <2>1, HeldNextAlive DEF HeldMoves
  <2>3. CASE Owning(e)
    BY <1>1, <2>3 DEF OneOwner
  <2>4. CASE d # e /\ \A x \in Daemons \ {e} : sess'[x] = sess[x]
    <3>1. Owning(d)'
      BY <2>4 DEF Owning
    <3> QED
      BY <1>1, <3>1 DEF OneOwner
  <2> QED
    BY <2>2, <2>3, <2>4
<1>3. CASE Alive /\ ~Alive'
  <2>1. \A x \in Daemons : sess'[x] \in {sess[x], "none"}
    BY <1>3, ExitsNext DEF Living, ExitsMove, Alive
  <2>2. Owning(e)
    BY <2>1 DEF Owning
  <2> QED
    BY <1>1, <2>2 DEF OneOwner
<1>4. CASE ~Alive
  <2>1. PICK x \in Daemons : phase[x] = "exited"
    BY <1>4 DEF Alive
  <2>2. phase'[x] = "exited"
    BY <2>1, ExitedStays DEF Living
  <2>3. x # d /\ x # e
    BY <2>1, <2>2 DEF Living, Cleared, Owning
  <2> QED
    BY <2>3, AmongTwo
<1> QED
  BY <1>2, <1>3, <1>4

\* Two daemons keep the promise of Ownership where they may be killed, or launches
\* may fail: the session is never in two places, nor goes from one to the other
\* without a step between them in which it is on its way or at rest.
THEOREM PairKeepsPromise ==
    ASSUME Tidy, Cardinality(Daemons) <= 2, Crashes > 0 \/ "fail" \in Events
    PROVE  Spec => KeepsPromise
<1>1. Init => Living /\ Promise!Init
  BY InitLiving, InitKeeps
<1>2. Living /\ [Next]_vars => Living'
  BY NextLiving
<1>3. ASSUME Living, Living', [Next]_vars PROVE [Promise!Next]_Promise!vars
  <2>1. /\ born \in BOOLEAN /\ born' \in BOOLEAN /\ forgot \in BOOLEAN
             /\ forgot' \in BOOLEAN
        /\ Recorded /\ Told /\ Told'
    BY <1>3, RecordedNext DEF Living, Typed, TypeOK
  <2>2. ~born => ~Held /\ ~Moving
    <3>1. ~born => /\ calls = {}
                   /\ \A d \in Daemons : sess[d] = "none" /\ resuming[d] = "no"
                                         /\ report[d].kind = "none" /\ reg[d] = "absent"
      BY <1>3 DEF Living, Unborn, Nothing
    <3> QED
      BY <3>1 DEF Held, Owning, Moving
  <2>3. ~born' => ~Held' /\ ~Moving'
    <3>1. ~born' => /\ calls' = {}
                    /\ \A d \in Daemons : sess'[d] = "none" /\ resuming'[d] = "no"
                                          /\ report'[d].kind = "none" /\ reg'[d] = "absent"
      BY <1>3 DEF Living, Unborn, Nothing
    <3> QED
      BY <3>1 DEF Held, Owning, Moving
  <2>4. ASSUME ~born, born' PROVE Held'
    <3>1. PICK d \in Daemons : Spawn(d)
      BY <1>3, <2>4, BornNext DEF Living
    <3>2. sess'[d] = "idle"
      BY <1>3, <3>1 DEF Spawn, Living, Typed, TypeOK
    <3> QED
      BY <3>2 DEF Held, Owning
  <2>5. \A d, e \in Daemons : Owning(d) /\ Owning(e)' => d = e
    BY <1>3, PairApart
  <2>6. \A d, e \in Daemons : Owning(d) /\ Owning(e) => d = e
    BY <1>3, LivingOneOwner DEF OneOwner
  <2>7. \A d, e \in Daemons : Owning(d)' /\ Owning(e)' => d = e
    <3>1. OneOwner'
      BY <1>3, LivingOneOwner, PTL
    <3> QED
      BY <3>1 DEF OneOwner
  <2> QED
    BY <2>1, <2>2, <2>3, <2>4, <2>5, <2>6, <2>7, PromiseStep
<1> HIDE DEF Living, Init, Next, vars
<1> QED
  BY <1>1, <1>2, <1>3, PTL DEF Spec, KeepsPromise, Promise!Spec

=============================================================================
