--------------------------- MODULE HandoverOwner ----------------------------
(* Who has the session, of any number of daemons: the types of module      *)
(* Handover, the entry in registry.json, and that one daemon has it at a   *)
(* time while one leads. A lemma whose name ends in Next says what one     *)
(* step makes of one part of the state, action by action.                  *)
EXTENDS Handover, SequenceTheorems, FiniteSetTheorems, TLAPS

-----------------------------------------------------------------------------
(* Types: the invariant, and the records of the model field by field       *)

\* A watcher runs on a daemon that serves, superseded and without the claim;
\* a daemon that leads again has seen its successor gone.
Watches ==
    \A d \in Daemons :
        /\ watch[d] \notin {"off", "gone"}
             => next[d] # None /\ phase[d] = "serving" /\ claim # d
        /\ phase[d] \in {"orphaned", "merging"} => watch[d] = "gone"
        /\ claim = d => watch[d] = "off"

\* A watcher waits for one call at a time.
Waited ==
    \A c \in calls : c.from # None
        => watch[c.from] = "call" /\ \A b \in calls : b.from = c.from => b = c

\* A client's call is at a daemon until it returned.
ClientAt == client.stage \in {"route", "hold", "sent", "served"} => client.at # None

Typed == TypeOK /\ Watches /\ Waited /\ ClientAt

Kinds  == {"handoff", "release"}
Stages == {"sent", "claimed", "ok", "err"}

\* A part of a path.
LEMMA SubPath ==
    ASSUME NEW p \in Seq(Daemons), NEW m \in Int, NEW n \in Int, 1 <= m, n <= Len(p)
    PROVE  /\ SubSeq(p, m, n) \in Seq(Daemons)
           /\ Len(SubSeq(p, m, n)) = IF m <= n THEN n - m + 1 ELSE 0
           /\ \A i \in 1 .. n - m + 1 : SubSeq(p, m, n)[i] = p[m + i - 1]
<1>1. \A i \in m..n : p[i] \in Daemons
  <2>1. Len(p) \in Nat
    OBVIOUS
  <2>2. \A i \in m..n : i \in 1..Len(p)
    BY <2>1
  <2> QED
    BY <2>2, ElementOfSeq
<1> QED
  BY <1>1, SubSeqProperties

\* The last server of a relayed call, and the path without it.
LEMMA PathEnd ==
    ASSUME NEW p \in Seq(Daemons), p # << >>
    PROVE  /\ Len(p) \in Nat \ {0} /\ p[Len(p)] \in Daemons
           /\ Front(p) \in Seq(Daemons) /\ Len(Front(p)) = Len(p) - 1
           /\ \A k \in 1..(Len(p) - 1) : Front(p)[k] = p[k]
<1> DEFINE n == Len(p) - 1
<1>1. Len(p) \in Nat /\ Len(p) # 0
  BY EmptySeq
<1>2. p[Len(p)] \in Daemons
  BY <1>1, ElementOfSeq
<1>3. n \in Nat /\ n \in Int /\ n <= Len(p) /\ 1 \in Int /\ 1 <= 1
  BY <1>1
<1>8. \A m \in Nat : m - 1 + 1 = m /\ (IF 1 <= m THEN m - 1 + 1 ELSE 0) = m
  OBVIOUS
<1>7. \A k \in Int : 1 + k - 1 = k
  OBVIOUS
<1>4. Front(p) = SubSeq(p, 1, n)
  BY DEF Front
<1> HIDE DEF n
<1>5. /\ SubSeq(p, 1, n) \in Seq(Daemons)
      /\ Len(SubSeq(p, 1, n)) = IF 1 <= n THEN n - 1 + 1 ELSE 0
      /\ \A i \in 1 .. n - 1 + 1 : SubSeq(p, 1, n)[i] = p[1 + i - 1]
  BY <1>3, SubPath
<1>6. Front(p) \in Seq(Daemons) /\ Len(Front(p)) = n /\ \A k \in 1..n : Front(p)[k] = p[k]
  BY <1>3, <1>4, <1>5, <1>7, <1>8
<1> QED
  BY <1>1, <1>2, <1>6 DEF n

\* The path with one server more.
LEMMA PathGrows ==
    ASSUME NEW p \in Seq(Daemons), NEW x \in Daemons
    PROVE  /\ Append(p, x) \in Seq(Daemons) /\ Len(Append(p, x)) = Len(p) + 1
           /\ \A k \in 1..Len(p) : Append(p, x)[k] = p[k]
           /\ Append(p, x)[Len(p) + 1] = x
BY AppendProperties

\* The fields of a call that is changed in its stage, its path or both.
LEMMA EditFields ==
    ASSUME NEW c \in Calls, NEW p, NEW s
    PROVE  /\ [c EXCEPT !.stage = s].from = c.from /\ [c EXCEPT !.stage = s].kind = c.kind
           /\ [c EXCEPT !.stage = s].entry = c.entry /\ [c EXCEPT !.stage = s].path = c.path
           /\ [c EXCEPT !.stage = s].stage = s
           /\ [c EXCEPT !.path = p].from = c.from /\ [c EXCEPT !.path = p].kind = c.kind
           /\ [c EXCEPT !.path = p].entry = c.entry /\ [c EXCEPT !.path = p].path = p
           /\ [c EXCEPT !.path = p].stage = c.stage
           /\ [c EXCEPT !.stage = s, !.path = p].from = c.from
           /\ [c EXCEPT !.stage = s, !.path = p].kind = c.kind
           /\ [c EXCEPT !.stage = s, !.path = p].entry = c.entry
           /\ [c EXCEPT !.stage = s, !.path = p].path = p
           /\ [c EXCEPT !.stage = s, !.path = p].stage = s
BY DEF Calls

\* It is a call again.
LEMMA CallEdits ==
    ASSUME NEW c \in Calls, NEW p \in Seq(Daemons), NEW s \in Stages
    PROVE  /\ [c EXCEPT !.stage = s] \in Calls /\ [c EXCEPT !.path = p] \in Calls
           /\ [c EXCEPT !.stage = s, !.path = p] \in Calls
BY DEF Calls, Stages

\* The fields of a call.
LEMMA CallFields ==
    ASSUME NEW c \in Calls
    PROVE  /\ c.from \in Daemons \cup {None} /\ c.kind \in Kinds /\ c.entry \in Entries
           /\ c.path \in Seq(Daemons) /\ c.stage \in Stages
BY DEF Calls, Kinds, Stages

\* What is left of a call when process d ends.
LEMMA CutWhere ==
    ASSUME NEW c \in Calls, NEW d \in Daemons
    PROVE  /\ \A q \in Cut(c, d) : /\ q \in Calls /\ q.from # d
                                   /\ q.from # None => q.from = c.from
           /\ \A q, b \in Cut(c, d) : q.from # None /\ b.from # None => q = b
<1> DEFINE i == CHOOSE i \in 1..Len(c.path) : c.path[i] = d
           u == Upstream(c, d)
           w == Downstream(c, d)
           free(p) == [p EXCEPT !.from = IF @ = d THEN None ELSE @]
<1>1. c.path \in Seq(Daemons) /\ Len(c.path) \in Nat /\ c.from \in Daemons \cup {None}
  BY CallFields
<1>2. \A p \in Calls : /\ free(p) \in Calls
                       /\ free(p).from = IF p.from = d THEN None ELSE p.from
  BY DEF Calls
<1>3. ASSUME \E k \in 1..Len(c.path) : c.path[k] = d
      PROVE  u \in Calls /\ u.from = c.from /\ w \in Calls /\ w.from = None
  <2>1. i \in 1..Len(c.path)
    BY <1>3
  <2> DEFINE p == SubSeq(c.path, 1, i - 1)
             r == SubSeq(c.path, i + 1, Len(c.path))
  <2>2. p \in Seq(Daemons)
    <3>1. i - 1 \in Int /\ i - 1 <= Len(c.path) /\ 1 \in Int /\ 1 <= 1
      BY <1>1, <2>1
    <3> HIDE DEF i
    <3> QED
      BY <1>1, <3>1, SubPath
  <2>3. r \in Seq(Daemons)
    <3>1. i + 1 \in Int /\ 1 <= i + 1 /\ Len(c.path) \in Int /\ Len(c.path) <= Len(c.path)
      BY <1>1, <2>1
    <3> HIDE DEF i
    <3> QED
      BY <1>1, <3>1, SubPath
  <2>4. u = [c EXCEPT !.path = p, !.stage = "err"]
    BY DEF Upstream
  <2>5. w = [c EXCEPT !.from = None, !.path = r]
    BY DEF Downstream
  <2> HIDE DEF i, u, w, p, r
  <2> QED
    BY <2>2, <2>3, <2>4, <2>5 DEF Calls
<1> HIDE DEF free, u, w, i
<1>4. CASE \E k \in 1..Len(c.path) : c.path[k] = d
  <2>1. Cut(c, d) \subseteq {free(u), free(w)}
    BY <1>4 DEF Cut, free, u, w
  <2>2. free(w).from = None
    BY <1>2, <1>3, <1>4
  <2> QED
    <3>0. u \in Calls /\ u.from = c.from /\ w \in Calls
      BY <1>3, <1>4
    <3>1. free(u) \in Calls /\ free(u).from # d
             /\ (free(u).from # None => free(u).from = c.from)
      BY <1>2, <3>0, DaemonsAssumption
    <3>2. free(w) \in Calls /\ free(w).from # d
      BY <1>2, <2>2, <3>0, DaemonsAssumption
    <3> QED
      BY <2>1, <2>2, <3>1, <3>2
<1>5. CASE ~\E k \in 1..Len(c.path) : c.path[k] = d
  <2>1. Cut(c, d) \subseteq {free(c)}
    BY <1>5 DEF Cut, free
  <2>2. free(c) \in Calls /\ free(c).from # d
           /\ (free(c).from # None => free(c).from = c.from)
    BY <1>2, DaemonsAssumption
  <2> QED
    BY <2>1, <2>2
<1> QED
  BY <1>4, <1>5

\* TypeOK, by groups of variables.
ProcTypes ==
    /\ phase \in [Daemons -> Phases]
    /\ succession \in Daemons \cup {None} /\ claim \in Daemons \cup {None}
    /\ crashed \in 0..Crashes
RegTypes ==
    file \in Entries /\ reg \in [Daemons -> Entries] /\ recorded \in [Daemons -> Entries]
SessTypes ==
    /\ sess \in [Daemons -> Sess]
    /\ ending \in [Daemons -> {"none", "close", "forget"}]
    /\ resuming \in [Daemons -> {"no", "claimed", "pending", "loading"}]
HandTypes ==
    /\ next \in [Daemons -> Daemons \cup {None}]
    /\ foreign \in [Daemons -> Daemons \cup {None}]
    /\ prev \in [Daemons -> Daemons \cup {None}] /\ shipped \in [Daemons -> BOOLEAN]
WatchTypes ==
    /\ watch \in [Daemons -> {"off", "scan", "call", "check", "idle", "gone", "done"}]
    /\ owned \in [Daemons -> BOOLEAN] /\ woken \in [Daemons -> BOOLEAN]
ReportTypes == report \in [Daemons -> Reports]
CallTypes == calls \subseteq Calls
ClientTypes ==
    client \in [at : Daemons \cup {None}, n : 0..Attempts, to : Daemons \cup {None},
                stage : {"none", "route", "hold", "sent", "served", "ok", "err",
                         "moved", "unsettled"}]
HistTypes == born \in BOOLEAN /\ forgot \in BOOLEAN

\* The processes and their locks.
LEMMA ProcTypesNext ==
    ASSUME TypeOK, [Next]_vars
    PROVE  ProcTypes'
<1> USE DEF procVars, regVars, sessVars, handVars, wakeVars, wireVars, histVars
<1>1. ASSUME NEW d \in Daemons,
             Spawn(d) \/ StartTurn(d) \/ EndTurn(d) \/ Adopt(d) \/ ResumeHanded(d) \/
                Ended(d) \/ OtherProgress(d) \/ Scan(d) \/ Check(d) \/ ClientCall(d)
      PROVE  ProcTypes'
  <2>1. UNCHANGED <<phase, succession, claim, crashed>>
    BY <1>1 DEF Spawn, Notify, UpdateRegistry, StartTurn, EndTurn, Adopt,
       ResumeHanded, Ended, OtherProgress, Scan, Check, ClientCall
  <2> QED
    BY <2>1 DEF ProcTypes, TypeOK, Phases
<1>2. ASSUME NEW c \in calls,
             Relay(c) \/ Unreachable(c) \/ ClaimHandoff(c) \/ AcceptHandoff(c) \/
                AcceptRelease(c) \/ Answer(c)
      PROVE  ProcTypes'
  <2>1. UNCHANGED <<phase, succession, claim, crashed>>
    BY <1>2 DEF Relay, Replace, Unreachable, ClaimHandoff, AcceptHandoff,
       UpdateRegistry, AcceptRelease, Answer, Notify
  <2> QED
    BY <2>1 DEF ProcTypes, TypeOK, Phases
<1>3. ASSUME NEW d \in Daemons, NEW k \in {"close", "forget"},
             EndSession(d, k)
      PROVE  ProcTypes'
  <2>1. UNCHANGED <<phase, succession, claim, crashed>>
    BY <1>3 DEF EndSession, Notify
  <2> QED
    BY <2>1 DEF ProcTypes, TypeOK, Phases
<1>4. ASSUME NEW d \in Daemons, NEW c \in calls, Reported(d, c) PROVE ProcTypes'
  <2>1. UNCHANGED <<phase, succession, claim, crashed>>
    BY <1>4 DEF Reported, Notify
  <2> QED
    BY <2>1 DEF ProcTypes, TypeOK, Phases
<1>5. CASE Dispatch \/ Connect \/ Forwarded
  <2>1. UNCHANGED <<phase, succession, claim, crashed>>
    BY <1>5 DEF Dispatch, Returns, Connect, Goes, Forwarded
  <2> QED
    BY <2>1 DEF ProcTypes, TypeOK, Phases
<1>6. CASE UNCHANGED vars
  <2>1. UNCHANGED <<phase, succession, claim, crashed>>
    BY <1>6 DEF vars
  <2> QED
    BY <2>1 DEF ProcTypes, TypeOK, Phases
<1>7. ASSUME NEW d \in Daemons, LoadRegistry(d) PROVE ProcTypes'
  BY <1>7, DaemonsAssumption, BoundsAssumption DEF ProcTypes, TypeOK, Phases,
     LoadRegistry
<1>8. ASSUME NEW d \in Daemons, Run(d) PROVE ProcTypes'
  BY <1>8, DaemonsAssumption, BoundsAssumption DEF ProcTypes, TypeOK, Phases, Run
<1>9. ASSUME NEW d \in Daemons, OpenClaim(d) PROVE ProcTypes'
  BY <1>9, DaemonsAssumption, BoundsAssumption DEF ProcTypes, TypeOK, Phases,
     OpenClaim, Lead
<1>10. ASSUME NEW d \in Daemons, Takeover(d) PROVE ProcTypes'
  BY <1>10, DaemonsAssumption, BoundsAssumption DEF ProcTypes, TypeOK, Phases,
     Takeover, Notify
<1>11. ASSUME NEW d \in Daemons, Supersede(d) PROVE ProcTypes'
  BY <1>11, DaemonsAssumption, BoundsAssumption DEF ProcTypes, TypeOK, Phases,
     Supersede, Lead, UpdateRegistry
<1>12. ASSUME NEW d \in Daemons, ResumeMarked(d) PROVE ProcTypes'
  BY <1>12, DaemonsAssumption, BoundsAssumption DEF ProcTypes, TypeOK, Phases,
     ResumeMarked
<1>13. ASSUME NEW d \in Daemons, LaunchSettles(d) PROVE ProcTypes'
  BY <1>13, DaemonsAssumption, BoundsAssumption DEF ProcTypes, TypeOK, Phases,
     LaunchSettles, Notify, UpdateRegistry
<1>14. ASSUME NEW d \in Daemons, Watch(d) PROVE ProcTypes'
  BY <1>14, DaemonsAssumption, BoundsAssumption DEF ProcTypes, TypeOK, Phases, Watch
<1>15. ASSUME NEW d \in Daemons, Reclaim(d) PROVE ProcTypes'
  BY <1>15, DaemonsAssumption, BoundsAssumption DEF ProcTypes, TypeOK, Phases, Reclaim
<1>16. ASSUME NEW d \in Daemons, Merge(d) PROVE ProcTypes'
  BY <1>16, DaemonsAssumption, BoundsAssumption DEF ProcTypes, TypeOK, Phases, Merge
<1>17. ASSUME NEW d \in Daemons, Exit(d) PROVE ProcTypes'
  BY <1>17, DaemonsAssumption, BoundsAssumption DEF ProcTypes, TypeOK, Phases, Exit,
     Gone
<1>18. ASSUME NEW d \in Daemons, Crash(d) PROVE ProcTypes'
  BY <1>18, DaemonsAssumption, BoundsAssumption DEF ProcTypes, TypeOK, Phases, Crash,
     Gone
<1>19. ASSUME NEW d \in Daemons, LeadFails(d) PROVE ProcTypes'
  BY <1>19, DaemonsAssumption, BoundsAssumption DEF ProcTypes, TypeOK, Phases,
     LeadFails, Gone
<1> QED
  BY <1>1, <1>2, <1>3, <1>4, <1>5, <1>6, <1>7, <1>8, <1>9, <1>10, <1>11, <1>12, <1>13,
     <1>14, <1>15, <1>16, <1>17, <1>18, <1>19 DEF Next, Caller, Start, Work, Watcher,
     Again, Peer, Client

\* The registry.
LEMMA RegTypesNext ==
    ASSUME TypeOK, [Next]_vars
    PROVE  RegTypes'
<1> USE DEF procVars, regVars, sessVars, handVars, wakeVars, wireVars, histVars
<1>1. ASSUME NEW d \in Daemons,
             Run(d) \/ OpenClaim(d) \/ Takeover(d) \/ ResumeMarked(d) \/ StartTurn(d)
                \/ EndTurn(d) \/ Adopt(d) \/ ResumeHanded(d) \/ Scan(d) \/ Check(d)
      PROVE  RegTypes'
  <2>1. UNCHANGED <<file, reg, recorded>>
    BY <1>1 DEF Run, OpenClaim, Lead, Takeover, Notify, ResumeMarked, StartTurn,
       EndTurn, Adopt, ResumeHanded, Scan, Check
  <2> QED
    BY <2>1 DEF RegTypes, TypeOK, Entries
<1>2. ASSUME NEW d \in Daemons, Watch(d) \/ ClientCall(d) PROVE RegTypes'
  <2>1. UNCHANGED <<file, reg, recorded>>
    BY <1>2 DEF Watch, ClientCall
  <2> QED
    BY <2>1 DEF RegTypes, TypeOK, Entries
<1>3. ASSUME NEW c \in calls,
             Relay(c) \/ Unreachable(c) \/ ClaimHandoff(c) \/ Answer(c)
      PROVE  RegTypes'
  <2>1. UNCHANGED <<file, reg, recorded>>
    BY <1>3 DEF Relay, Replace, Unreachable, ClaimHandoff, Answer, Notify
  <2> QED
    BY <2>1 DEF RegTypes, TypeOK, Entries
<1>4. ASSUME NEW d \in Daemons, NEW k \in {"close", "forget"},
             EndSession(d, k)
      PROVE  RegTypes'
  <2>1. UNCHANGED <<file, reg, recorded>>
    BY <1>4 DEF EndSession, Notify
  <2> QED
    BY <2>1 DEF RegTypes, TypeOK, Entries
<1>5. ASSUME NEW d \in Daemons, NEW c \in calls, Reported(d, c) PROVE RegTypes'
  <2>1. UNCHANGED <<file, reg, recorded>>
    BY <1>5 DEF Reported, Notify
  <2> QED
    BY <2>1 DEF RegTypes, TypeOK, Entries
<1>6. CASE Dispatch \/ Connect \/ Forwarded
  <2>1. UNCHANGED <<file, reg, recorded>>
    BY <1>6 DEF Dispatch, Returns, Connect, Goes, Forwarded
  <2> QED
    BY <2>1 DEF RegTypes, TypeOK, Entries
<1>7. CASE UNCHANGED vars
  <2>1. UNCHANGED <<file, reg, recorded>>
    BY <1>7 DEF vars
  <2> QED
    BY <2>1 DEF RegTypes, TypeOK, Entries
<1>8. ASSUME NEW d \in Daemons, LoadRegistry(d) PROVE RegTypes'
  BY <1>8, DaemonsAssumption, BoundsAssumption DEF RegTypes, TypeOK, Entries,
     LoadRegistry
<1>9. ASSUME NEW d \in Daemons, Supersede(d) PROVE RegTypes'
  <2>1. report[d].entry \in Entries
    BY <1>9 DEF TypeOK, Reports
  <2> QED
    BY <1>9, <2>1 DEF RegTypes, TypeOK, Entries, Supersede, Lead, UpdateRegistry
<1>10. ASSUME NEW d \in Daemons, Spawn(d) PROVE RegTypes'
  BY <1>10, DaemonsAssumption, BoundsAssumption DEF RegTypes, TypeOK, Entries, Spawn,
     Notify, UpdateRegistry
<1>11. ASSUME NEW d \in Daemons, LaunchSettles(d) PROVE RegTypes'
  BY <1>11, DaemonsAssumption, BoundsAssumption DEF RegTypes, TypeOK, Entries,
     LaunchSettles, Notify, UpdateRegistry
<1>12. ASSUME NEW d \in Daemons, Ended(d) PROVE RegTypes'
  BY <1>12, DaemonsAssumption, BoundsAssumption DEF RegTypes, TypeOK, Entries, Ended,
     Notify, UpdateRegistry
<1>13. ASSUME NEW d \in Daemons, OtherProgress(d) PROVE RegTypes'
  BY <1>13, DaemonsAssumption, BoundsAssumption DEF RegTypes, TypeOK, Entries,
     OtherProgress, Notify, UpdateRegistry
<1>14. ASSUME NEW d \in Daemons, Reclaim(d) PROVE RegTypes'
  BY <1>14, DaemonsAssumption, BoundsAssumption DEF RegTypes, TypeOK, Entries, Reclaim
<1>15. ASSUME NEW d \in Daemons, Merge(d) PROVE RegTypes'
  BY <1>15, DaemonsAssumption, BoundsAssumption DEF RegTypes, TypeOK, Entries, Merge
<1>16. ASSUME NEW d \in Daemons, Exit(d) PROVE RegTypes'
  BY <1>16, DaemonsAssumption, BoundsAssumption DEF RegTypes, TypeOK, Entries, Exit,
     Gone
<1>17. ASSUME NEW d \in Daemons, Crash(d) PROVE RegTypes'
  BY <1>17, DaemonsAssumption, BoundsAssumption DEF RegTypes, TypeOK, Entries, Crash,
     Gone
<1>18. ASSUME NEW d \in Daemons, LeadFails(d) PROVE RegTypes'
  BY <1>18, DaemonsAssumption, BoundsAssumption DEF RegTypes, TypeOK, Entries,
     LeadFails, Gone
<1>19. ASSUME NEW c \in calls, AcceptHandoff(c) PROVE RegTypes'
  <2>1. c.entry \in Entries
    BY CallFields DEF TypeOK
  <2> QED
    BY <1>19, <2>1 DEF RegTypes, TypeOK, AcceptHandoff, UpdateRegistry
<1>20. ASSUME NEW c \in calls, AcceptRelease(c) PROVE RegTypes'
  <2>1. c.entry \in Entries
    BY CallFields DEF TypeOK
  <2> QED
    BY <1>20, <2>1 DEF RegTypes, TypeOK, AcceptRelease, UpdateRegistry
<1> QED
  BY <1>1, <1>2, <1>3, <1>4, <1>5, <1>6, <1>7, <1>8, <1>9, <1>10, <1>11, <1>12, <1>13,
     <1>14, <1>15, <1>16, <1>17, <1>18, <1>19, <1>20 DEF Next, Caller, Start, Work,
     Watcher, Again, Peer, Client

\* The session in each daemon.
LEMMA SessTypesNext ==
    ASSUME TypeOK, [Next]_vars
    PROVE  SessTypes'
<1> USE DEF procVars, regVars, sessVars, handVars, wakeVars, wireVars, histVars
<1>1. ASSUME NEW d \in Daemons,
             LoadRegistry(d) \/ Run(d) \/ OpenClaim(d) \/ Supersede(d) \/
                OtherProgress(d) \/ Check(d) \/ Watch(d) \/ Reclaim(d) \/ Merge(d) \/
                ClientCall(d)
      PROVE  SessTypes'
  <2>1. UNCHANGED <<sess, ending, resuming>>
    BY <1>1 DEF LoadRegistry, Run, OpenClaim, Lead, Supersede, UpdateRegistry,
       OtherProgress, Notify, Check, Watch, Reclaim, Merge, ClientCall
  <2> QED
    BY <2>1 DEF SessTypes, TypeOK, Sess
<1>2. ASSUME NEW c \in calls,
             Relay(c) \/ Unreachable(c) \/ AcceptRelease(c) \/ Answer(c)
      PROVE  SessTypes'
  <2>1. UNCHANGED <<sess, ending, resuming>>
    BY <1>2 DEF Relay, Replace, Unreachable, AcceptRelease, UpdateRegistry, Answer,
       Notify
  <2> QED
    BY <2>1 DEF SessTypes, TypeOK, Sess
<1>3. CASE Dispatch \/ Connect \/ Forwarded
  <2>1. UNCHANGED <<sess, ending, resuming>>
    BY <1>3 DEF Dispatch, Returns, Connect, Goes, Forwarded
  <2> QED
    BY <2>1 DEF SessTypes, TypeOK, Sess
<1>4. CASE UNCHANGED vars
  <2>1. UNCHANGED <<sess, ending, resuming>>
    BY <1>4 DEF vars
  <2> QED
    BY <2>1 DEF SessTypes, TypeOK, Sess
<1>5. ASSUME NEW d \in Daemons, Takeover(d) PROVE SessTypes'
  BY <1>5, DaemonsAssumption, BoundsAssumption DEF SessTypes, TypeOK, Sess, Takeover,
     Notify
<1>6. ASSUME NEW d \in Daemons, ResumeMarked(d) PROVE SessTypes'
  BY <1>6, DaemonsAssumption, BoundsAssumption DEF SessTypes, TypeOK, Sess,
     ResumeMarked
<1>7. ASSUME NEW d \in Daemons, Spawn(d) PROVE SessTypes'
  BY <1>7, DaemonsAssumption, BoundsAssumption DEF SessTypes, TypeOK, Sess, Spawn,
     Notify, UpdateRegistry
<1>8. ASSUME NEW d \in Daemons, StartTurn(d) PROVE SessTypes'
  BY <1>8, DaemonsAssumption, BoundsAssumption DEF SessTypes, TypeOK, Sess, StartTurn,
     Notify
<1>9. ASSUME NEW d \in Daemons, EndTurn(d) PROVE SessTypes'
  BY <1>9, DaemonsAssumption, BoundsAssumption DEF SessTypes, TypeOK, Sess, EndTurn,
     Notify
<1>10. ASSUME NEW d \in Daemons, Adopt(d) PROVE SessTypes'
  BY <1>10, DaemonsAssumption, BoundsAssumption DEF SessTypes, TypeOK, Sess, Adopt
<1>11. ASSUME NEW d \in Daemons, ResumeHanded(d) PROVE SessTypes'
  BY <1>11, DaemonsAssumption, BoundsAssumption DEF SessTypes, TypeOK, Sess,
     ResumeHanded, Notify
<1>12. ASSUME NEW d \in Daemons, LaunchSettles(d) PROVE SessTypes'
  BY <1>12, DaemonsAssumption, BoundsAssumption DEF SessTypes, TypeOK, Sess,
     LaunchSettles, Notify, UpdateRegistry
<1>13. ASSUME NEW d \in Daemons, Ended(d) PROVE SessTypes'
  BY <1>13, DaemonsAssumption, BoundsAssumption DEF SessTypes, TypeOK, Sess, Ended,
     Notify, UpdateRegistry
<1>14. ASSUME NEW d \in Daemons, NEW k \in {"close", "forget"},
             EndSession(d, k)
      PROVE  SessTypes'
  BY <1>14, DaemonsAssumption, BoundsAssumption DEF SessTypes, TypeOK, Sess,
     EndSession, Notify
<1>15. ASSUME NEW d \in Daemons, Scan(d) PROVE SessTypes'
  BY <1>15, DaemonsAssumption, BoundsAssumption DEF SessTypes, TypeOK, Sess, Scan
<1>16. ASSUME NEW d \in Daemons, NEW c \in calls, Reported(d, c) PROVE SessTypes'
  BY <1>16, DaemonsAssumption, BoundsAssumption DEF SessTypes, TypeOK, Sess, Reported,
     Notify
<1>17. ASSUME NEW d \in Daemons, Exit(d) PROVE SessTypes'
  BY <1>17, DaemonsAssumption, BoundsAssumption DEF SessTypes, TypeOK, Sess, Exit,
     Gone
<1>18. ASSUME NEW d \in Daemons, Crash(d) PROVE SessTypes'
  BY <1>18, DaemonsAssumption, BoundsAssumption DEF SessTypes, TypeOK, Sess, Crash,
     Gone
<1>19. ASSUME NEW d \in Daemons, LeadFails(d) PROVE SessTypes'
  BY <1>19, DaemonsAssumption, BoundsAssumption DEF SessTypes, TypeOK, Sess,
     LeadFails, Gone
<1>20. ASSUME NEW c \in calls, ClaimHandoff(c) PROVE SessTypes'
  BY <1>20, DaemonsAssumption, BoundsAssumption DEF SessTypes, TypeOK, Sess,
     ClaimHandoff, Replace
<1>21. ASSUME NEW c \in calls, AcceptHandoff(c) PROVE SessTypes'
  BY <1>21, DaemonsAssumption, BoundsAssumption DEF SessTypes, TypeOK, Sess,
     AcceptHandoff, UpdateRegistry, Replace
<1> QED
  BY <1>1, <1>2, <1>3, <1>4, <1>5, <1>6, <1>7, <1>8, <1>9, <1>10, <1>11, <1>12, <1>13,
     <1>14, <1>15, <1>16, <1>17, <1>18, <1>19, <1>20, <1>21 DEF Next, Caller, Start,
     Work, Watcher, Again, Peer, Client

\* The handover state.
LEMMA HandTypesNext ==
    ASSUME TypeOK, [Next]_vars
    PROVE  HandTypes'
<1> USE DEF procVars, regVars, sessVars, handVars, wakeVars, wireVars, histVars
<1>1. ASSUME NEW d \in Daemons,
             LoadRegistry(d) \/ Run(d) \/ OpenClaim(d) \/ ResumeMarked(d) \/ Spawn(d)
                \/ StartTurn(d) \/ EndTurn(d) \/ Adopt(d) \/ ResumeHanded(d) \/
                LaunchSettles(d)
      PROVE  HandTypes'
  <2>1. UNCHANGED <<next, foreign, prev, shipped>>
    BY <1>1 DEF LoadRegistry, Run, OpenClaim, Lead, ResumeMarked, Spawn, Notify,
       UpdateRegistry, StartTurn, EndTurn, Adopt, ResumeHanded, LaunchSettles
  <2> QED
    BY <2>1 DEF HandTypes, TypeOK
<1>2. ASSUME NEW d \in Daemons,
             Ended(d) \/ OtherProgress(d) \/ Scan(d) \/ Check(d) \/ Watch(d) \/
                Reclaim(d) \/ ClientCall(d)
      PROVE  HandTypes'
  <2>1. UNCHANGED <<next, foreign, prev, shipped>>
    BY <1>2 DEF Ended, Notify, UpdateRegistry, OtherProgress, Scan, Check, Watch,
       Reclaim, ClientCall
  <2> QED
    BY <2>1 DEF HandTypes, TypeOK
<1>3. ASSUME NEW c \in calls,
             Relay(c) \/ Unreachable(c) \/ ClaimHandoff(c)
      PROVE  HandTypes'
  <2>1. UNCHANGED <<next, foreign, prev, shipped>>
    BY <1>3 DEF Relay, Replace, Unreachable, ClaimHandoff
  <2> QED
    BY <2>1 DEF HandTypes, TypeOK
<1>4. ASSUME NEW d \in Daemons, NEW k \in {"close", "forget"},
             EndSession(d, k)
      PROVE  HandTypes'
  <2>1. UNCHANGED <<next, foreign, prev, shipped>>
    BY <1>4 DEF EndSession, Notify
  <2> QED
    BY <2>1 DEF HandTypes, TypeOK
<1>5. CASE Dispatch \/ Forwarded
  <2>1. UNCHANGED <<next, foreign, prev, shipped>>
    BY <1>5 DEF Dispatch, Returns, Forwarded, Goes
  <2> QED
    BY <2>1 DEF HandTypes, TypeOK
<1>6. CASE UNCHANGED vars
  <2>1. UNCHANGED <<next, foreign, prev, shipped>>
    BY <1>6 DEF vars
  <2> QED
    BY <2>1 DEF HandTypes, TypeOK
<1>7. ASSUME NEW d \in Daemons, Takeover(d) PROVE HandTypes'
  BY <1>7, DaemonsAssumption, BoundsAssumption DEF HandTypes, TypeOK, Takeover, Notify
<1>8. ASSUME NEW d \in Daemons, Supersede(d) PROVE HandTypes'
  <2>1. report[d].owner \in Daemons \cup {None} /\ report[d].from \in Daemons \cup {None}
    BY <1>8 DEF TypeOK, Reports
  <2> QED
    BY <1>8, <2>1 DEF HandTypes, TypeOK, Supersede, Lead, UpdateRegistry
<1>9. ASSUME NEW d \in Daemons, NEW c \in calls, Reported(d, c) PROVE HandTypes'
  <2>1. UNCHANGED <<next, foreign, prev>>
    BY <1>9 DEF Reported
  <2>2. shipped' = [shipped EXCEPT ![d] = TRUE] \/ shipped' = shipped
    BY <1>9 DEF Reported, Notify
  <2> QED
    BY <2>1, <2>2 DEF HandTypes, TypeOK
<1>10. ASSUME NEW d \in Daemons, Merge(d) PROVE HandTypes'
  BY <1>10, DaemonsAssumption, BoundsAssumption DEF HandTypes, TypeOK, Merge
<1>11. ASSUME NEW d \in Daemons, Exit(d) PROVE HandTypes'
  BY <1>11, DaemonsAssumption, BoundsAssumption DEF HandTypes, TypeOK, Exit, Gone
<1>12. ASSUME NEW d \in Daemons, Crash(d) PROVE HandTypes'
  BY <1>12, DaemonsAssumption, BoundsAssumption DEF HandTypes, TypeOK, Crash, Gone
<1>13. ASSUME NEW d \in Daemons, LeadFails(d) PROVE HandTypes'
  BY <1>13, DaemonsAssumption, BoundsAssumption DEF HandTypes, TypeOK, LeadFails, Gone
<1>14. ASSUME NEW c \in calls, AcceptHandoff(c) PROVE HandTypes'
  BY <1>14, DaemonsAssumption, BoundsAssumption DEF HandTypes, TypeOK, AcceptHandoff,
     UpdateRegistry, Replace
<1>15. ASSUME NEW c \in calls, AcceptRelease(c) PROVE HandTypes'
  BY <1>15, DaemonsAssumption, BoundsAssumption DEF HandTypes, TypeOK, AcceptRelease,
     UpdateRegistry, Replace
<1>16. ASSUME NEW c \in calls, Answer(c) PROVE HandTypes'
  BY <1>16, DaemonsAssumption, BoundsAssumption DEF HandTypes, TypeOK, Answer,
     Replace, Notify
<1>17. CASE Connect
  BY <1>17, DaemonsAssumption, BoundsAssumption DEF HandTypes, TypeOK, Connect, Goes
<1> QED
  BY <1>1, <1>2, <1>3, <1>4, <1>5, <1>6, <1>7, <1>8, <1>9, <1>10, <1>11, <1>12, <1>13,
     <1>14, <1>15, <1>16, <1>17 DEF Next, Caller, Start, Work, Watcher, Again, Peer,
     Client

\* The watchers.
LEMMA WatchTypesNext ==
    ASSUME TypeOK, [Next]_vars
    PROVE  WatchTypes'
<1> USE DEF procVars, regVars, sessVars, handVars, wakeVars, wireVars, histVars
<1>1. ASSUME NEW d \in Daemons,
             LoadRegistry(d) \/ Run(d) \/ ResumeMarked(d) \/ Adopt(d) \/ Reclaim(d) \/
                ClientCall(d)
      PROVE  WatchTypes'
  <2>1. UNCHANGED <<watch, owned, woken>>
    BY <1>1 DEF LoadRegistry, Run, ResumeMarked, Adopt, Reclaim, ClientCall
  <2> QED
    BY <2>1 DEF WatchTypes, TypeOK
<1>2. ASSUME NEW c \in calls,
             Relay(c) \/ Unreachable(c) \/ ClaimHandoff(c) \/ AcceptHandoff(c) \/
                AcceptRelease(c)
      PROVE  WatchTypes'
  <2>1. UNCHANGED <<watch, owned, woken>>
    BY <1>2 DEF Relay, Replace, Unreachable, ClaimHandoff, AcceptHandoff,
       UpdateRegistry, AcceptRelease
  <2> QED
    BY <2>1 DEF WatchTypes, TypeOK
<1>3. CASE Dispatch \/ Connect \/ Forwarded
  <2>1. UNCHANGED <<watch, owned, woken>>
    BY <1>3 DEF Dispatch, Returns, Connect, Goes, Forwarded
  <2> QED
    BY <2>1 DEF WatchTypes, TypeOK
<1>4. CASE UNCHANGED vars
  <2>1. UNCHANGED <<watch, owned, woken>>
    BY <1>4 DEF vars
  <2> QED
    BY <2>1 DEF WatchTypes, TypeOK
<1>5. ASSUME NEW d \in Daemons, OpenClaim(d) PROVE WatchTypes'
  BY <1>5, DaemonsAssumption, BoundsAssumption DEF WatchTypes, TypeOK, OpenClaim, Lead
<1>6. ASSUME NEW d \in Daemons, Takeover(d) PROVE WatchTypes'
  BY <1>6, DaemonsAssumption, BoundsAssumption DEF WatchTypes, TypeOK, Takeover,
     Notify
<1>7. ASSUME NEW d \in Daemons, Supersede(d) PROVE WatchTypes'
  BY <1>7, DaemonsAssumption, BoundsAssumption DEF WatchTypes, TypeOK, Supersede,
     Lead, UpdateRegistry
<1>8. ASSUME NEW d \in Daemons, Spawn(d) PROVE WatchTypes'
  BY <1>8, DaemonsAssumption, BoundsAssumption DEF WatchTypes, TypeOK, Spawn, Notify,
     UpdateRegistry
<1>9. ASSUME NEW d \in Daemons, StartTurn(d) PROVE WatchTypes'
  BY <1>9, DaemonsAssumption, BoundsAssumption DEF WatchTypes, TypeOK, StartTurn,
     Notify
<1>10. ASSUME NEW d \in Daemons, EndTurn(d) PROVE WatchTypes'
  BY <1>10, DaemonsAssumption, BoundsAssumption DEF WatchTypes, TypeOK, EndTurn,
     Notify
<1>11. ASSUME NEW d \in Daemons, ResumeHanded(d) PROVE WatchTypes'
  BY <1>11, DaemonsAssumption, BoundsAssumption DEF WatchTypes, TypeOK, ResumeHanded,
     Notify
<1>12. ASSUME NEW d \in Daemons, LaunchSettles(d) PROVE WatchTypes'
  BY <1>12, DaemonsAssumption, BoundsAssumption DEF WatchTypes, TypeOK, LaunchSettles,
     Notify, UpdateRegistry
<1>13. ASSUME NEW d \in Daemons, Ended(d) PROVE WatchTypes'
  BY <1>13, DaemonsAssumption, BoundsAssumption DEF WatchTypes, TypeOK, Ended, Notify,
     UpdateRegistry
<1>14. ASSUME NEW d \in Daemons, NEW k \in {"close", "forget"},
             EndSession(d, k)
      PROVE  WatchTypes'
  BY <1>14, DaemonsAssumption, BoundsAssumption DEF WatchTypes, TypeOK, EndSession,
     Notify
<1>15. ASSUME NEW d \in Daemons, OtherProgress(d) PROVE WatchTypes'
  BY <1>15, DaemonsAssumption, BoundsAssumption DEF WatchTypes, TypeOK, OtherProgress,
     Notify, UpdateRegistry
<1>16. ASSUME NEW d \in Daemons, Scan(d) PROVE WatchTypes'
  <2>1. woken' = [woken EXCEPT ![d] = FALSE]
    BY <1>16 DEF Scan
  <2>2. watch' = [watch EXCEPT ![d] = "call"] \/ watch' = [watch EXCEPT ![d] = "check"]
    BY <1>16 DEF Scan
  <2>3. owned' = owned \/ \E b \in BOOLEAN : owned' = [owned EXCEPT ![d] = b]
    BY <1>16 DEF Scan
  <2> QED
    BY <2>1, <2>2, <2>3 DEF WatchTypes, TypeOK
<1>17. ASSUME NEW d \in Daemons, NEW c \in calls, Reported(d, c) PROVE WatchTypes'
  BY <1>17, DaemonsAssumption, BoundsAssumption DEF WatchTypes, TypeOK, Reported,
     Notify
<1>18. ASSUME NEW d \in Daemons, Check(d) PROVE WatchTypes'
  BY <1>18, DaemonsAssumption, BoundsAssumption DEF WatchTypes, TypeOK, Check
<1>19. ASSUME NEW d \in Daemons, Watch(d) PROVE WatchTypes'
  BY <1>19, DaemonsAssumption, BoundsAssumption DEF WatchTypes, TypeOK, Watch
<1>20. ASSUME NEW d \in Daemons, Merge(d) PROVE WatchTypes'
  BY <1>20, DaemonsAssumption, BoundsAssumption DEF WatchTypes, TypeOK, Merge
<1>21. ASSUME NEW d \in Daemons, Exit(d) PROVE WatchTypes'
  BY <1>21, DaemonsAssumption, BoundsAssumption DEF WatchTypes, TypeOK, Exit, Gone
<1>22. ASSUME NEW d \in Daemons, Crash(d) PROVE WatchTypes'
  BY <1>22, DaemonsAssumption, BoundsAssumption DEF WatchTypes, TypeOK, Crash, Gone
<1>23. ASSUME NEW d \in Daemons, LeadFails(d) PROVE WatchTypes'
  BY <1>23, DaemonsAssumption, BoundsAssumption DEF WatchTypes, TypeOK, LeadFails,
     Gone
<1>24. ASSUME NEW c \in calls, Answer(c) PROVE WatchTypes'
  BY <1>24, DaemonsAssumption, BoundsAssumption DEF WatchTypes, TypeOK, Answer,
     Replace, Notify
<1> QED
  BY <1>1, <1>2, <1>3, <1>4, <1>5, <1>6, <1>7, <1>8, <1>9, <1>10, <1>11, <1>12, <1>13,
     <1>14, <1>15, <1>16, <1>17, <1>18, <1>19, <1>20, <1>21, <1>22, <1>23, <1>24 DEF
     Next, Caller, Start, Work, Watcher, Again, Peer, Client

\* The reports of takeovers.
LEMMA ReportTypesNext ==
    ASSUME TypeOK, [Next]_vars
    PROVE  ReportTypes'
<1> USE DEF procVars, regVars, sessVars, handVars, wakeVars, wireVars, histVars
<1>1. ASSUME NEW d \in Daemons,
             LoadRegistry(d) \/ Run(d) \/ OpenClaim(d) \/ ResumeMarked(d) \/ Spawn(d)
                \/ StartTurn(d) \/ EndTurn(d) \/ Adopt(d) \/ ResumeHanded(d) \/
                LaunchSettles(d)
      PROVE  ReportTypes'
  <2>1. UNCHANGED <<report>>
    BY <1>1 DEF LoadRegistry, Run, OpenClaim, Lead, ResumeMarked, Spawn, Notify,
       UpdateRegistry, StartTurn, EndTurn, Adopt, ResumeHanded, LaunchSettles
  <2> QED
    BY <2>1 DEF ReportTypes, TypeOK, Reports, NoReport, Entries
<1>2. ASSUME NEW d \in Daemons,
             Ended(d) \/ OtherProgress(d) \/ Scan(d) \/ Check(d) \/ Watch(d) \/
                Reclaim(d) \/ Merge(d) \/ ClientCall(d)
      PROVE  ReportTypes'
  <2>1. UNCHANGED <<report>>
    BY <1>2 DEF Ended, Notify, UpdateRegistry, OtherProgress, Scan, Check, Watch,
       Reclaim, Merge, ClientCall
  <2> QED
    BY <2>1 DEF ReportTypes, TypeOK, Reports, NoReport, Entries
<1>3. ASSUME NEW c \in calls,
             Relay(c) \/ Unreachable(c) \/ ClaimHandoff(c) \/ AcceptHandoff(c) \/
                AcceptRelease(c) \/ Answer(c)
      PROVE  ReportTypes'
  <2>1. UNCHANGED <<report>>
    BY <1>3 DEF Relay, Replace, Unreachable, ClaimHandoff, AcceptHandoff,
       UpdateRegistry, AcceptRelease, Answer, Notify
  <2> QED
    BY <2>1 DEF ReportTypes, TypeOK, Reports, NoReport, Entries
<1>4. ASSUME NEW d \in Daemons, NEW k \in {"close", "forget"},
             EndSession(d, k)
      PROVE  ReportTypes'
  <2>1. UNCHANGED <<report>>
    BY <1>4 DEF EndSession, Notify
  <2> QED
    BY <2>1 DEF ReportTypes, TypeOK, Reports, NoReport, Entries
<1>5. ASSUME NEW d \in Daemons, NEW c \in calls, Reported(d, c) PROVE ReportTypes'
  <2>1. UNCHANGED <<report>>
    BY <1>5 DEF Reported, Notify
  <2> QED
    BY <2>1 DEF ReportTypes, TypeOK, Reports, NoReport, Entries
<1>6. CASE Dispatch \/ Connect \/ Forwarded
  <2>1. UNCHANGED <<report>>
    BY <1>6 DEF Dispatch, Returns, Connect, Goes, Forwarded
  <2> QED
    BY <2>1 DEF ReportTypes, TypeOK, Reports, NoReport, Entries
<1>7. CASE UNCHANGED vars
  <2>1. UNCHANGED <<report>>
    BY <1>7 DEF vars
  <2> QED
    BY <2>1 DEF ReportTypes, TypeOK, Reports, NoReport, Entries
<1>8. ASSUME NEW d \in Daemons, Takeover(d) PROVE ReportTypes'
  <2>1. Partition(claim) \in Reports /\ report' = [report EXCEPT ![d] = Partition(claim)]
    BY <1>8 DEF Takeover, TypeOK, Partition, Reports, NoReport, Entries
  <2> QED
    BY <1>8, <2>1 DEF ReportTypes, TypeOK
<1>9. ASSUME NEW d \in Daemons, Supersede(d) PROVE ReportTypes'
  BY <1>9, DaemonsAssumption, BoundsAssumption DEF ReportTypes, TypeOK, Reports,
     NoReport, Entries, Supersede, Lead, UpdateRegistry
<1>10. ASSUME NEW d \in Daemons, Exit(d) PROVE ReportTypes'
  BY <1>10, DaemonsAssumption, BoundsAssumption DEF ReportTypes, TypeOK, Reports,
     NoReport, Entries, Exit, Gone
<1>11. ASSUME NEW d \in Daemons, Crash(d) PROVE ReportTypes'
  BY <1>11, DaemonsAssumption, BoundsAssumption DEF ReportTypes, TypeOK, Reports,
     NoReport, Entries, Crash, Gone
<1>12. ASSUME NEW d \in Daemons, LeadFails(d) PROVE ReportTypes'
  BY <1>12, DaemonsAssumption, BoundsAssumption DEF ReportTypes, TypeOK, Reports,
     NoReport, Entries, LeadFails, Gone
<1> QED
  BY <1>1, <1>2, <1>3, <1>4, <1>5, <1>6, <1>7, <1>8, <1>9, <1>10, <1>11, <1>12 DEF
     Next, Caller, Start, Work, Watcher, Again, Peer, Client

\* The calls on the wire.
LEMMA CallTypesNext ==
    ASSUME TypeOK, Watches, [Next]_vars
    PROVE  CallTypes'
<1> USE DEF procVars, regVars, sessVars, handVars, wakeVars, wireVars, histVars
<1>1. ASSUME NEW d \in Daemons,
             LoadRegistry(d) \/ Run(d) \/ OpenClaim(d) \/ Takeover(d) \/ Supersede(d)
                \/ ResumeMarked(d) \/ Spawn(d) \/ StartTurn(d) \/ EndTurn(d) \/
                Adopt(d)
      PROVE  CallTypes'
  <2>1. UNCHANGED <<calls>>
    BY <1>1 DEF LoadRegistry, Run, OpenClaim, Lead, Takeover, Notify, Supersede,
       UpdateRegistry, ResumeMarked, Spawn, StartTurn, EndTurn, Adopt
  <2> QED
    BY <2>1 DEF CallTypes, TypeOK
<1>2. ASSUME NEW d \in Daemons,
             ResumeHanded(d) \/ LaunchSettles(d) \/ Ended(d) \/ OtherProgress(d) \/
                Check(d) \/ Watch(d) \/ Reclaim(d) \/ Merge(d) \/ ClientCall(d)
      PROVE  CallTypes'
  <2>1. UNCHANGED <<calls>>
    BY <1>2 DEF ResumeHanded, Notify, LaunchSettles, UpdateRegistry, Ended,
       OtherProgress, Check, Watch, Reclaim, Merge, ClientCall
  <2> QED
    BY <2>1 DEF CallTypes, TypeOK
<1>3. ASSUME NEW d \in Daemons, NEW k \in {"close", "forget"},
             EndSession(d, k)
      PROVE  CallTypes'
  <2>1. UNCHANGED <<calls>>
    BY <1>3 DEF EndSession, Notify
  <2> QED
    BY <2>1 DEF CallTypes, TypeOK
<1>4. CASE Dispatch \/ Connect \/ Forwarded
  <2>1. UNCHANGED <<calls>>
    BY <1>4 DEF Dispatch, Returns, Connect, Goes, Forwarded
  <2> QED
    BY <2>1 DEF CallTypes, TypeOK
<1>5. CASE UNCHANGED vars
  <2>1. UNCHANGED <<calls>>
    BY <1>5 DEF vars
  <2> QED
    BY <2>1 DEF CallTypes, TypeOK
<1>6. ASSUME NEW d \in Daemons, Scan(d) PROVE CallTypes'
  <2>1. next[d] # None
    BY <1>6 DEF Scan, Watches
  <2>2. \A k \in Kinds, x \in Entries : Call(d, k, x) \in Calls
    BY <2>1 DEF Call, Calls, Kinds, TypeOK
  <2> QED
    BY <1>6, <2>2 DEF Scan, CallTypes, TypeOK, Kinds, Entries
<1>7. ASSUME NEW d \in Daemons, NEW c \in calls, Reported(d, c) PROVE CallTypes'
  BY <1>7, DaemonsAssumption, BoundsAssumption DEF CallTypes, TypeOK, Reported, Notify
<1>8. ASSUME NEW d \in Daemons, Exit(d) PROVE CallTypes'
  <2>1. \A q \in calls' : \E c \in calls : q \in Cut(c, d)
    BY <1>8 DEF Exit, Gone
  <2> QED
    BY <2>1, CutWhere DEF CallTypes, TypeOK
<1>9. ASSUME NEW d \in Daemons, Crash(d) PROVE CallTypes'
  <2>1. \A q \in calls' : \E c \in calls : q \in Cut(c, d)
    BY <1>9 DEF Crash, Gone
  <2> QED
    BY <2>1, CutWhere DEF CallTypes, TypeOK
<1>10. ASSUME NEW d \in Daemons, LeadFails(d) PROVE CallTypes'
  <2>1. \A q \in calls' : \E c \in calls : q \in Cut(c, d)
    BY <1>10 DEF LeadFails, Gone
  <2> QED
    BY <2>1, CutWhere DEF CallTypes, TypeOK
<1>11. ASSUME NEW c \in calls, Relay(c) PROVE CallTypes'
  <2>1. c \in Calls
           /\ calls' = (calls \ {c}) \cup {[c EXCEPT !.path = Append(c.path,
                next[Server(c)])]}
    BY <1>11 DEF TypeOK, Replace, Relay
  <2>2. next[Server(c)] \in Daemons /\ c.path \in Seq(Daemons) /\ Server(c) \in Daemons
    BY <1>11, <2>1, CallFields, PathEnd DEF Relay, Superseded, Server, TypeOK
  <2>3. Append(c.path, next[Server(c)]) \in Seq(Daemons)
    BY <2>2, PathGrows
  <2>4. [c EXCEPT !.path = Append(c.path, next[Server(c)])] \in Calls
    BY <2>1, <2>3 DEF Calls
  <2> QED
    BY <2>1, <2>4 DEF CallTypes, TypeOK
<1>12. ASSUME NEW c \in calls, Unreachable(c) PROVE CallTypes'
  <2>1. c \in Calls /\ c.path # << >>
        /\ calls' = (calls \ {c}) \cup {[c EXCEPT !.stage = "err", !.path = Front(c.path)]}
    BY <1>12 DEF TypeOK, Replace, Unreachable
  <2>2. Front(c.path) \in Seq(Daemons)
    BY <2>1, CallFields, PathEnd
  <2>3. [c EXCEPT !.stage = "err", !.path = Front(c.path)] \in Calls
    BY <2>1, <2>2 DEF Calls
  <2> QED
    BY <2>1, <2>3 DEF CallTypes, TypeOK
<1>13. ASSUME NEW c \in calls, ClaimHandoff(c) PROVE CallTypes'
  <2>1. c \in Calls /\ calls' = (calls \ {c}) \cup {[c EXCEPT !.stage = "claimed"]}
    BY <1>13 DEF TypeOK, Replace, ClaimHandoff
  <2>2. [c EXCEPT !.stage = "claimed"] \in Calls
    BY <2>1 DEF Calls
  <2> QED
    BY <2>1, <2>2 DEF CallTypes, TypeOK
<1>14. ASSUME NEW c \in calls, AcceptHandoff(c) PROVE CallTypes'
  <2>1. c \in Calls /\ calls' = (calls \ {c}) \cup {[c EXCEPT !.stage = "ok"]}
    BY <1>14 DEF TypeOK, Replace, AcceptHandoff
  <2>2. [c EXCEPT !.stage = "ok"] \in Calls
    BY <2>1 DEF Calls
  <2> QED
    BY <2>1, <2>2 DEF CallTypes, TypeOK
<1>15. ASSUME NEW c \in calls, AcceptRelease(c) PROVE CallTypes'
  <2>1. c \in Calls /\ calls' = (calls \ {c}) \cup {[c EXCEPT !.stage = "ok"]}
    BY <1>15 DEF TypeOK, Replace, AcceptRelease
  <2>2. [c EXCEPT !.stage = "ok"] \in Calls
    BY <2>1 DEF Calls
  <2> QED
    BY <2>1, <2>2 DEF CallTypes, TypeOK
<1>16. ASSUME NEW c \in calls, Answer(c) PROVE CallTypes'
  <2>1. c \in Calls /\ c.path # << >>
        /\ \/ calls' = calls \ {c}
           \/ calls' = (calls \ {c}) \cup {[c EXCEPT !.path = Front(c.path)]}
    BY <1>16 DEF TypeOK, Replace, Answer
  <2>2. Front(c.path) \in Seq(Daemons)
    BY <2>1, CallFields, PathEnd
  <2>3. [c EXCEPT !.path = Front(c.path)] \in Calls
    BY <2>1, <2>2 DEF Calls
  <2> QED
    BY <2>1, <2>3 DEF CallTypes, TypeOK
<1> QED
  BY <1>1, <1>2, <1>3, <1>4, <1>5, <1>6, <1>7, <1>8, <1>9, <1>10, <1>11, <1>12, <1>13,
     <1>14, <1>15, <1>16 DEF Next, Caller, Start, Work, Watcher, Again, Peer, Client

Clients == [at : Daemons \cup {None}, n : 0..Attempts, to : Daemons \cup {None},
            stage : {"none", "route", "hold", "sent", "served", "ok", "err", "moved",
                     "unsettled"}]

\* The client.
LEMMA ClientTypesNext ==
    ASSUME TypeOK, ClientAt, [Next]_vars
    PROVE  ClientTypes'
<1> USE DEF procVars, regVars, sessVars, handVars, wakeVars, wireVars, histVars
<1>1. ASSUME NEW d \in Daemons,
             LoadRegistry(d) \/ Run(d) \/ OpenClaim(d) \/ Supersede(d) \/
                ResumeMarked(d) \/ Adopt(d) \/ Scan(d) \/ Check(d) \/ Watch(d) \/
                Reclaim(d)
      PROVE  ClientTypes'
  <2>1. UNCHANGED <<client>>
    BY <1>1 DEF LoadRegistry, Run, OpenClaim, Lead, Supersede, UpdateRegistry,
       ResumeMarked, Adopt, Scan, Check, Watch, Reclaim
  <2> QED
    BY <2>1 DEF ClientTypes, TypeOK, NoCall
<1>2. ASSUME NEW d \in Daemons, Merge(d) PROVE ClientTypes'
  <2>1. UNCHANGED <<client>>
    BY <1>2 DEF Merge
  <2> QED
    BY <2>1 DEF ClientTypes, TypeOK, NoCall
<1>3. ASSUME NEW c \in calls,
             Relay(c) \/ Unreachable(c) \/ ClaimHandoff(c) \/ AcceptHandoff(c) \/
                AcceptRelease(c)
      PROVE  ClientTypes'
  <2>1. UNCHANGED <<client>>
    BY <1>3 DEF Relay, Replace, Unreachable, ClaimHandoff, AcceptHandoff,
       UpdateRegistry, AcceptRelease
  <2> QED
    BY <2>1 DEF ClientTypes, TypeOK, NoCall
<1>4. CASE UNCHANGED vars
  <2>1. UNCHANGED <<client>>
    BY <1>4 DEF vars
  <2> QED
    BY <2>1 DEF ClientTypes, TypeOK, NoCall
<1>5. ASSUME NEW d \in Daemons, Takeover(d) PROVE ClientTypes'
  BY <1>5, DaemonsAssumption, BoundsAssumption DEF ClientTypes, TypeOK, NoCall,
     Takeover, Notify
<1>6. ASSUME NEW d \in Daemons, Spawn(d) PROVE ClientTypes'
  BY <1>6, DaemonsAssumption, BoundsAssumption DEF ClientTypes, TypeOK, NoCall, Spawn,
     Notify, UpdateRegistry
<1>7. ASSUME NEW d \in Daemons, StartTurn(d) PROVE ClientTypes'
  BY <1>7, DaemonsAssumption, BoundsAssumption DEF ClientTypes, TypeOK, NoCall,
     StartTurn, Notify
<1>8. ASSUME NEW d \in Daemons, EndTurn(d) PROVE ClientTypes'
  BY <1>8, DaemonsAssumption, BoundsAssumption DEF ClientTypes, TypeOK, NoCall,
     EndTurn, Notify
<1>9. ASSUME NEW d \in Daemons, ResumeHanded(d) PROVE ClientTypes'
  BY <1>9, DaemonsAssumption, BoundsAssumption DEF ClientTypes, TypeOK, NoCall,
     ResumeHanded, Notify
<1>10. ASSUME NEW d \in Daemons, LaunchSettles(d) PROVE ClientTypes'
  BY <1>10, DaemonsAssumption, BoundsAssumption DEF ClientTypes, TypeOK, NoCall,
     LaunchSettles, Notify, UpdateRegistry
<1>11. ASSUME NEW d \in Daemons, Ended(d) PROVE ClientTypes'
  BY <1>11, DaemonsAssumption, BoundsAssumption DEF ClientTypes, TypeOK, NoCall,
     Ended, Notify, UpdateRegistry
<1>12. ASSUME NEW d \in Daemons, NEW k \in {"close", "forget"},
             EndSession(d, k)
      PROVE  ClientTypes'
  BY <1>12, DaemonsAssumption, BoundsAssumption DEF ClientTypes, TypeOK, NoCall,
     EndSession, Notify
<1>13. ASSUME NEW d \in Daemons, OtherProgress(d) PROVE ClientTypes'
  BY <1>13, DaemonsAssumption, BoundsAssumption DEF ClientTypes, TypeOK, NoCall,
     OtherProgress, Notify, UpdateRegistry
<1>14. ASSUME NEW d \in Daemons, NEW c \in calls, Reported(d, c) PROVE ClientTypes'
  BY <1>14, DaemonsAssumption, BoundsAssumption DEF ClientTypes, TypeOK, NoCall,
     Reported, Notify
<1>15. ASSUME NEW d \in Daemons, Exit(d) PROVE ClientTypes'
  <2>1. client' = client \/ client' = NoCall
    BY <1>15 DEF Exit, Gone
  <2>2. NoCall \in Clients
    BY BoundsAssumption DEF NoCall, Clients
  <2> QED
    BY <2>1, <2>2 DEF ClientTypes, TypeOK, Clients
<1>16. ASSUME NEW d \in Daemons, Crash(d) PROVE ClientTypes'
  <2>1. client' = client \/ client' = NoCall
    BY <1>16 DEF Crash, Gone
  <2>2. NoCall \in Clients
    BY BoundsAssumption DEF NoCall, Clients
  <2> QED
    BY <2>1, <2>2 DEF ClientTypes, TypeOK, Clients
<1>17. ASSUME NEW d \in Daemons, LeadFails(d) PROVE ClientTypes'
  <2>1. client' = client \/ client' = NoCall
    BY <1>17 DEF LeadFails, Gone
  <2>2. NoCall \in Clients
    BY BoundsAssumption DEF NoCall, Clients
  <2> QED
    BY <2>1, <2>2 DEF ClientTypes, TypeOK, Clients
<1>18. ASSUME NEW d \in Daemons, ClientCall(d) PROVE ClientTypes'
  <2>1. [NoCall EXCEPT !.at = d, !.stage = "route"] \in Clients
    <3>1. 0 \in 0..Attempts /\ d \in Daemons
      BY <1>18, BoundsAssumption
    <3> QED
      BY <3>1 DEF NoCall, Clients
  <2> QED
    BY <1>18, <2>1 DEF ClientCall, ClientTypes, Clients
<1>19. ASSUME NEW c \in calls, Answer(c) PROVE ClientTypes'
  BY <1>19, DaemonsAssumption, BoundsAssumption DEF ClientTypes, TypeOK, NoCall,
     Answer, Replace, Notify
<1>20. CASE Dispatch
  <2>1. \A s \in {"ok", "err", "moved", "unsettled"} :
           [NoCall EXCEPT !.stage = s] \in Clients
    BY BoundsAssumption DEF NoCall, Clients
  <2>2. CASE \E s \in {"ok", "err", "moved", "unsettled"} :
                client' = [NoCall EXCEPT !.stage = s]
    BY <2>1, <2>2 DEF ClientTypes, Clients
  <2>3. CASE client.n # Attempts
             /\ client' = [client EXCEPT !.n = @ + 1, !.to = Route(client.at),
                  !.stage = IF Route(client.at) = None THEN "hold" ELSE "sent"]
    <3>1. client.n + 1 \in 0..Attempts
      <4>1. client.n \in 0..Attempts /\ client.n # Attempts
        BY <2>3 DEF TypeOK
      <4>2. Attempts \in Nat
        BY BoundsAssumption
      <4> QED
        BY <4>1, <4>2
    <3>2. Route(client.at) \in Daemons \cup {None}
      <4>1. CASE client.at \in Daemons
        BY <4>1 DEF Route, TypeOK
      <4>2. CASE client.at = None
        BY <1>20, <4>2 DEF ClientAt, Dispatch
      <4> QED
        BY <4>1, <4>2 DEF TypeOK
    <3> QED
      BY <2>3, <3>1, <3>2 DEF ClientTypes, TypeOK
  <2> QED
    BY <1>20, <2>2, <2>3 DEF Dispatch, Returns
<1>21. CASE Connect
  BY <1>21, DaemonsAssumption, BoundsAssumption DEF ClientTypes, TypeOK, NoCall,
     Connect, Goes
<1>22. CASE Forwarded
  <2>1. \A s \in {"ok", "err"} : [NoCall EXCEPT !.stage = s] \in Clients
    BY BoundsAssumption DEF NoCall, Clients
  <2> QED
    BY <1>22, <2>1 DEF Forwarded, Returns, Goes, ClientTypes, TypeOK, Clients
<1> QED
  BY <1>1, <1>2, <1>3, <1>4, <1>5, <1>6, <1>7, <1>8, <1>9, <1>10, <1>11, <1>12, <1>13,
     <1>14, <1>15, <1>16, <1>17, <1>18, <1>19, <1>20, <1>21, <1>22 DEF Next, Caller,
     Start, Work, Watcher, Again, Peer, Client

\* The history.
LEMMA HistTypesNext ==
    ASSUME TypeOK, [Next]_vars
    PROVE  HistTypes'
<1> USE DEF procVars, regVars, sessVars, handVars, wakeVars, wireVars, histVars
<1>1. ASSUME NEW d \in Daemons,
             LoadRegistry(d) \/ Run(d) \/ OpenClaim(d) \/ Takeover(d) \/ Supersede(d)
                \/ ResumeMarked(d) \/ StartTurn(d) \/ EndTurn(d) \/ Adopt(d) \/
                ResumeHanded(d)
      PROVE  HistTypes'
  <2>1. UNCHANGED <<born, forgot>>
    BY <1>1 DEF LoadRegistry, Run, OpenClaim, Lead, Takeover, Notify, Supersede,
       UpdateRegistry, ResumeMarked, StartTurn, EndTurn, Adopt, ResumeHanded
  <2> QED
    BY <2>1 DEF HistTypes, TypeOK
<1>2. ASSUME NEW d \in Daemons,
             LaunchSettles(d) \/ OtherProgress(d) \/ Scan(d) \/ Check(d) \/ Watch(d)
                \/ Reclaim(d) \/ Merge(d) \/ Exit(d) \/ Crash(d) \/ LeadFails(d)
      PROVE  HistTypes'
  <2>1. UNCHANGED <<born, forgot>>
    BY <1>2 DEF LaunchSettles, Notify, UpdateRegistry, OtherProgress, Scan, Check,
       Watch, Reclaim, Merge, Exit, Gone, Crash, LeadFails
  <2> QED
    BY <2>1 DEF HistTypes, TypeOK
<1>3. ASSUME NEW d \in Daemons, ClientCall(d) PROVE HistTypes'
  <2>1. UNCHANGED <<born, forgot>>
    BY <1>3 DEF ClientCall
  <2> QED
    BY <2>1 DEF HistTypes, TypeOK
<1>4. ASSUME NEW c \in calls,
             Relay(c) \/ Unreachable(c) \/ ClaimHandoff(c) \/ AcceptHandoff(c) \/
                AcceptRelease(c) \/ Answer(c)
      PROVE  HistTypes'
  <2>1. UNCHANGED <<born, forgot>>
    BY <1>4 DEF Relay, Replace, Unreachable, ClaimHandoff, AcceptHandoff,
       UpdateRegistry, AcceptRelease, Answer, Notify
  <2> QED
    BY <2>1 DEF HistTypes, TypeOK
<1>5. ASSUME NEW d \in Daemons, NEW k \in {"close", "forget"},
             EndSession(d, k)
      PROVE  HistTypes'
  <2>1. UNCHANGED <<born, forgot>>
    BY <1>5 DEF EndSession, Notify
  <2> QED
    BY <2>1 DEF HistTypes, TypeOK
<1>6. ASSUME NEW d \in Daemons, NEW c \in calls, Reported(d, c) PROVE HistTypes'
  <2>1. UNCHANGED <<born, forgot>>
    BY <1>6 DEF Reported, Notify
  <2> QED
    BY <2>1 DEF HistTypes, TypeOK
<1>7. CASE Dispatch \/ Connect \/ Forwarded
  <2>1. UNCHANGED <<born, forgot>>
    BY <1>7 DEF Dispatch, Returns, Connect, Goes, Forwarded
  <2> QED
    BY <2>1 DEF HistTypes, TypeOK
<1>8. CASE UNCHANGED vars
  <2>1. UNCHANGED <<born, forgot>>
    BY <1>8 DEF vars
  <2> QED
    BY <2>1 DEF HistTypes, TypeOK
<1>9. ASSUME NEW d \in Daemons, Spawn(d) PROVE HistTypes'
  BY <1>9, DaemonsAssumption, BoundsAssumption DEF HistTypes, TypeOK, Spawn, Notify,
     UpdateRegistry
<1>10. ASSUME NEW d \in Daemons, Ended(d) PROVE HistTypes'
  BY <1>10, DaemonsAssumption, BoundsAssumption DEF HistTypes, TypeOK, Ended, Notify,
     UpdateRegistry
<1> QED
  BY <1>1, <1>2, <1>3, <1>4, <1>5, <1>6, <1>7, <1>8, <1>9, <1>10 DEF Next, Caller,
     Start, Work, Watcher, Again, Peer, Client

\* A watcher runs where one should.
LEMMA WatchesNext ==
    ASSUME TypeOK, Watches, Waited, [Next]_vars
    PROVE  Watches'
<1> USE DEF procVars, regVars, sessVars, handVars, wakeVars, wireVars, histVars
<1>1. ASSUME NEW d \in Daemons,
             Spawn(d) \/ StartTurn(d) \/ EndTurn(d) \/ Adopt(d) \/ ResumeHanded(d) \/
                Ended(d) \/ OtherProgress(d) \/ ClientCall(d)
      PROVE  Watches'
  <2>1. UNCHANGED <<phase, claim, next, watch>>
    BY <1>1 DEF Spawn, Notify, UpdateRegistry, StartTurn, EndTurn, Adopt,
       ResumeHanded, Ended, OtherProgress, ClientCall
  <2> QED
    BY <2>1 DEF Watches
<1>2. ASSUME NEW c \in calls,
             Relay(c) \/ Unreachable(c) \/ ClaimHandoff(c) \/ AcceptHandoff(c) \/
                AcceptRelease(c) \/ Answer(c)
      PROVE  Watches'
  <2>1. UNCHANGED <<phase, claim, next, watch>>
    BY <1>2 DEF Relay, Replace, Unreachable, ClaimHandoff, AcceptHandoff,
       UpdateRegistry, AcceptRelease, Answer, Notify
  <2> QED
    BY <2>1 DEF Watches
<1>3. ASSUME NEW d \in Daemons, NEW k \in {"close", "forget"},
             EndSession(d, k)
      PROVE  Watches'
  <2>1. UNCHANGED <<phase, claim, next, watch>>
    BY <1>3 DEF EndSession, Notify
  <2> QED
    BY <2>1 DEF Watches
<1>4. CASE Dispatch \/ Connect \/ Forwarded
  <2>1. UNCHANGED <<phase, claim, next, watch>>
    BY <1>4 DEF Dispatch, Returns, Connect, Goes, Forwarded
  <2> QED
    BY <2>1 DEF Watches
<1>5. CASE UNCHANGED vars
  <2>1. UNCHANGED <<phase, claim, next, watch>>
    BY <1>5 DEF vars
  <2> QED
    BY <2>1 DEF Watches
<1>6. ASSUME NEW d \in Daemons, LoadRegistry(d) PROVE Watches'
  BY <1>6, DaemonsAssumption DEF TypeOK, Watches, LoadRegistry
<1>7. ASSUME NEW d \in Daemons, Run(d) PROVE Watches'
  BY <1>7, DaemonsAssumption DEF TypeOK, Watches, Run
<1>8. ASSUME NEW d \in Daemons, OpenClaim(d) PROVE Watches'
  BY <1>8, DaemonsAssumption DEF TypeOK, Watches, OpenClaim, Lead
<1>9. ASSUME NEW d \in Daemons, Takeover(d) PROVE Watches'
  <2>1. PICK p \in Daemons : p = claim
    BY <1>9 DEF Takeover, TypeOK
  <2>2. /\ watch' = [watch EXCEPT ![p] = "scan"] /\ next' = [next EXCEPT ![p] = d]
        /\ claim' = None /\ phase' = [phase EXCEPT ![d] = "reported"]
        /\ phase[d] = "calling" /\ phase[p] = "serving"
    BY <1>9, <2>1 DEF Takeover, Accepting
  <2> QED
    BY <1>9, <2>1, <2>2, DaemonsAssumption DEF Watches, TypeOK
<1>10. ASSUME NEW d \in Daemons, Supersede(d) PROVE Watches'
  BY <1>10, DaemonsAssumption DEF TypeOK, Watches, Supersede, Lead, UpdateRegistry
<1>11. ASSUME NEW d \in Daemons, ResumeMarked(d) PROVE Watches'
  BY <1>11, DaemonsAssumption DEF TypeOK, Watches, ResumeMarked
<1>12. ASSUME NEW d \in Daemons, LaunchSettles(d) PROVE Watches'
  BY <1>12, DaemonsAssumption DEF TypeOK, Watches, LaunchSettles, Notify,
     UpdateRegistry
<1>13. ASSUME NEW d \in Daemons, Scan(d) PROVE Watches'
  BY <1>13, DaemonsAssumption DEF TypeOK, Watches, Scan
<1>14. ASSUME NEW d \in Daemons, NEW c \in calls, Reported(d, c) PROVE Watches'
  BY <1>14, DaemonsAssumption DEF TypeOK, Watches, Reported, Notify, Waited
<1>15. ASSUME NEW d \in Daemons, Check(d) PROVE Watches'
  BY <1>15, DaemonsAssumption DEF TypeOK, Watches, Check
<1>16. ASSUME NEW d \in Daemons, Watch(d) PROVE Watches'
  BY <1>16, DaemonsAssumption DEF TypeOK, Watches, Watch
<1>17. ASSUME NEW d \in Daemons, Reclaim(d) PROVE Watches'
  BY <1>17, DaemonsAssumption DEF TypeOK, Watches, Reclaim
<1>18. ASSUME NEW d \in Daemons, Merge(d) PROVE Watches'
  BY <1>18, DaemonsAssumption DEF TypeOK, Watches, Merge
<1>19. ASSUME NEW d \in Daemons, Exit(d) PROVE Watches'
  BY <1>19, DaemonsAssumption DEF TypeOK, Watches, Exit, Gone
<1>20. ASSUME NEW d \in Daemons, Crash(d) PROVE Watches'
  BY <1>20, DaemonsAssumption DEF TypeOK, Watches, Crash, Gone
<1>21. ASSUME NEW d \in Daemons, LeadFails(d) PROVE Watches'
  BY <1>21, DaemonsAssumption DEF TypeOK, Watches, LeadFails, Gone
<1> QED
  BY <1>1, <1>2, <1>3, <1>4, <1>5, <1>6, <1>7, <1>8, <1>9, <1>10, <1>11, <1>12, <1>13,
     <1>14, <1>15, <1>16, <1>17, <1>18, <1>19, <1>20, <1>21 DEF Next, Caller, Start,
     Work, Watcher, Again, Peer, Client

\* A watcher waits for one call at a time.
LEMMA WaitedNext ==
    ASSUME TypeOK, Watches, Waited, [Next]_vars
    PROVE  Waited'
<1> USE DEF procVars, regVars, sessVars, handVars, wakeVars, wireVars, histVars
<1>1. ASSUME NEW d \in Daemons,
             LoadRegistry(d) \/ Run(d) \/ ResumeMarked(d) \/ Spawn(d) \/ StartTurn(d)
                \/ EndTurn(d) \/ Adopt(d) \/ ResumeHanded(d) \/ LaunchSettles(d) \/
                Ended(d)
      PROVE  Waited'
  <2>1. UNCHANGED <<watch, calls>>
    BY <1>1 DEF LoadRegistry, Run, ResumeMarked, Spawn, Notify, UpdateRegistry,
       StartTurn, EndTurn, Adopt, ResumeHanded, LaunchSettles, Ended
  <2> QED
    BY <2>1 DEF Waited
<1>2. ASSUME NEW d \in Daemons,
             OtherProgress(d) \/ Reclaim(d) \/ Merge(d) \/ ClientCall(d)
      PROVE  Waited'
  <2>1. UNCHANGED <<watch, calls>>
    BY <1>2 DEF OtherProgress, Notify, UpdateRegistry, Reclaim, Merge, ClientCall
  <2> QED
    BY <2>1 DEF Waited
<1>3. ASSUME NEW d \in Daemons, NEW k \in {"close", "forget"},
             EndSession(d, k)
      PROVE  Waited'
  <2>1. UNCHANGED <<watch, calls>>
    BY <1>3 DEF EndSession, Notify
  <2> QED
    BY <2>1 DEF Waited
<1>4. CASE Dispatch \/ Connect \/ Forwarded
  <2>1. UNCHANGED <<watch, calls>>
    BY <1>4 DEF Dispatch, Returns, Connect, Goes, Forwarded
  <2> QED
    BY <2>1 DEF Waited
<1>5. CASE UNCHANGED vars
  <2>1. UNCHANGED <<watch, calls>>
    BY <1>5 DEF vars
  <2> QED
    BY <2>1 DEF Waited
<1>6. ASSUME NEW d \in Daemons, OpenClaim(d) PROVE Waited'
  <2>1. calls' = calls /\ \A c \in calls : c.from # None => watch'[c.from] = watch[c.from]
    BY <1>6, CallFields DEF OpenClaim, Lead, Watches, Waited, TypeOK
  <2> QED
    BY <2>1 DEF Waited
<1>7. ASSUME NEW d \in Daemons, Takeover(d) PROVE Waited'
  <2>1. calls' = calls /\ \A c \in calls : c.from # None => watch'[c.from] = watch[c.from]
    BY <1>7, CallFields DEF Takeover, Notify, Accepting, Watches, Waited, TypeOK
  <2> QED
    BY <2>1 DEF Waited
<1>8. ASSUME NEW d \in Daemons, Supersede(d) PROVE Waited'
  <2>1. calls' = calls /\ \A c \in calls : c.from # None => watch'[c.from] = watch[c.from]
    BY <1>8, CallFields DEF Supersede, Lead, UpdateRegistry, Watches, Waited, TypeOK
  <2> QED
    BY <2>1 DEF Waited
<1>9. ASSUME NEW d \in Daemons, Scan(d) PROVE Waited'
  <2>1. \A c \in calls : c.from # d
    BY <1>9, DaemonsAssumption DEF Scan, Waited
  <2>2. \A k, x : Call(d, k, x).from = d
    BY DEF Call
  <2>3. CASE calls' = calls /\ watch' = [watch EXCEPT ![d] = "check"]
    BY <2>1, <2>3, CallFields DEF Waited, TypeOK
  <2>4. ASSUME NEW q, q.from = d, calls' = calls \cup {q},
               watch' = [watch EXCEPT ![d] = "call"]
        PROVE  Waited'
    BY <2>1, <2>4, CallFields DEF Waited, TypeOK
  <2> QED
    BY <1>9, <2>2, <2>3, <2>4 DEF Scan
<1>10. ASSUME NEW d \in Daemons, NEW c \in calls, Reported(d, c) PROVE Waited'
  <2>1. calls' = calls \ {c} /\ c.from = d /\ watch' = [watch EXCEPT ![d] = "check"]
    BY <1>10 DEF Reported
  <2> QED
    BY <2>1, CallFields, DaemonsAssumption DEF Waited, TypeOK
<1>11. ASSUME NEW d \in Daemons, Check(d) PROVE Waited'
  <2>1. calls' = calls /\ \A c \in calls : c.from # None => watch'[c.from] = watch[c.from]
    BY <1>11, CallFields DEF Check, Watches, Waited, TypeOK
  <2> QED
    BY <2>1 DEF Waited
<1>12. ASSUME NEW d \in Daemons, Watch(d) PROVE Waited'
  <2>1. calls' = calls /\ \A c \in calls : c.from # None => watch'[c.from] = watch[c.from]
    BY <1>12, CallFields DEF Watch, Watches, Waited, TypeOK
  <2> QED
    BY <2>1 DEF Waited
<1>13. ASSUME NEW d \in Daemons, Exit(d) PROVE Waited'
  <2>1. \A q \in calls' : \E c \in calls : q \in Cut(c, d)
    BY <1>13 DEF Exit, Gone
  <2>2. watch' = [watch EXCEPT ![d] = "off"]
    BY <1>13 DEF Exit, Gone
  <2>3. ASSUME NEW q \in calls', NEW b \in calls', q.from # None, b.from = q.from
        PROVE  watch'[q.from] = "call" /\ b = q
    <3>1. PICK c \in calls : q \in Cut(c, d)
      BY <2>1
    <3>2. PICK a \in calls : b \in Cut(a, d)
      BY <2>1
    <3>3. q.from = c.from /\ q.from # d /\ b.from = a.from /\ c.from \in Daemons
      BY <2>3, <3>1, <3>2, CutWhere, CallFields DEF TypeOK
    <3>4. a = c /\ watch[c.from] = "call"
      BY <2>3, <3>3 DEF Waited
    <3>5. b = q
      BY <2>3, <3>1, <3>2, <3>4, CutWhere DEF TypeOK
    <3> QED
      BY <2>2, <3>3, <3>4, <3>5 DEF TypeOK
  <2> QED
    BY <2>3 DEF Waited
<1>14. ASSUME NEW d \in Daemons, Crash(d) PROVE Waited'
  <2>1. \A q \in calls' : \E c \in calls : q \in Cut(c, d)
    BY <1>14 DEF Crash, Gone
  <2>2. watch' = [watch EXCEPT ![d] = "off"]
    BY <1>14 DEF Crash, Gone
  <2>3. ASSUME NEW q \in calls', NEW b \in calls', q.from # None, b.from = q.from
        PROVE  watch'[q.from] = "call" /\ b = q
    <3>1. PICK c \in calls : q \in Cut(c, d)
      BY <2>1
    <3>2. PICK a \in calls : b \in Cut(a, d)
      BY <2>1
    <3>3. q.from = c.from /\ q.from # d /\ b.from = a.from /\ c.from \in Daemons
      BY <2>3, <3>1, <3>2, CutWhere, CallFields DEF TypeOK
    <3>4. a = c /\ watch[c.from] = "call"
      BY <2>3, <3>3 DEF Waited
    <3>5. b = q
      BY <2>3, <3>1, <3>2, <3>4, CutWhere DEF TypeOK
    <3> QED
      BY <2>2, <3>3, <3>4, <3>5 DEF TypeOK
  <2> QED
    BY <2>3 DEF Waited
<1>15. ASSUME NEW d \in Daemons, LeadFails(d) PROVE Waited'
  <2>1. \A q \in calls' : \E c \in calls : q \in Cut(c, d)
    BY <1>15 DEF LeadFails, Gone
  <2>2. watch' = [watch EXCEPT ![d] = "off"]
    BY <1>15 DEF LeadFails, Gone
  <2>3. ASSUME NEW q \in calls', NEW b \in calls', q.from # None, b.from = q.from
        PROVE  watch'[q.from] = "call" /\ b = q
    <3>1. PICK c \in calls : q \in Cut(c, d)
      BY <2>1
    <3>2. PICK a \in calls : b \in Cut(a, d)
      BY <2>1
    <3>3. q.from = c.from /\ q.from # d /\ b.from = a.from /\ c.from \in Daemons
      BY <2>3, <3>1, <3>2, CutWhere, CallFields DEF TypeOK
    <3>4. a = c /\ watch[c.from] = "call"
      BY <2>3, <3>3 DEF Waited
    <3>5. b = q
      BY <2>3, <3>1, <3>2, <3>4, CutWhere DEF TypeOK
    <3> QED
      BY <2>2, <3>3, <3>4, <3>5 DEF TypeOK
  <2> QED
    BY <2>3 DEF Waited
<1>16. ASSUME NEW c \in calls, Relay(c) PROVE Waited'
  <2> DEFINE r == [c EXCEPT !.path = Append(c.path, next[Server(c)])]
  <2>1. r.from = c.from
    BY EditFields DEF TypeOK
  <2>2. calls' = (calls \ {c}) \cup {r} /\ watch' = watch
    BY <1>16 DEF Relay, Replace
  <2> HIDE DEF r
  <2> QED
    BY <2>1, <2>2 DEF Waited
<1>17. ASSUME NEW c \in calls, Unreachable(c) PROVE Waited'
  <2> DEFINE r == [c EXCEPT !.stage = "err", !.path = Front(c.path)]
  <2>1. r.from = c.from
    BY EditFields DEF TypeOK
  <2>2. calls' = (calls \ {c}) \cup {r} /\ watch' = watch
    BY <1>17 DEF Unreachable, Replace
  <2> HIDE DEF r
  <2> QED
    BY <2>1, <2>2 DEF Waited
<1>18. ASSUME NEW c \in calls, ClaimHandoff(c) PROVE Waited'
  <2> DEFINE r == [c EXCEPT !.stage = "claimed"]
  <2>1. r.from = c.from
    BY EditFields DEF TypeOK
  <2>2. calls' = (calls \ {c}) \cup {r} /\ watch' = watch
    BY <1>18 DEF ClaimHandoff, Replace
  <2> HIDE DEF r
  <2> QED
    BY <2>1, <2>2 DEF Waited
<1>19. ASSUME NEW c \in calls, AcceptHandoff(c) PROVE Waited'
  <2> DEFINE r == [c EXCEPT !.stage = "ok"]
  <2>1. r.from = c.from
    BY EditFields DEF TypeOK
  <2>2. calls' = (calls \ {c}) \cup {r} /\ watch' = watch
    BY <1>19 DEF AcceptHandoff, Replace
  <2> HIDE DEF r
  <2> QED
    BY <2>1, <2>2 DEF Waited
<1>20. ASSUME NEW c \in calls, AcceptRelease(c) PROVE Waited'
  <2> DEFINE r == [c EXCEPT !.stage = "ok"]
  <2>1. r.from = c.from
    BY EditFields DEF TypeOK
  <2>2. calls' = (calls \ {c}) \cup {r} /\ watch' = watch
    BY <1>20 DEF AcceptRelease, Replace
  <2> HIDE DEF r
  <2> QED
    BY <2>1, <2>2 DEF Waited
<1>21. ASSUME NEW c \in calls, Answer(c) PROVE Waited'
  <2> DEFINE r == [c EXCEPT !.path = Front(c.path)]
  <2>1. r.from = c.from
    BY EditFields DEF TypeOK
  <2>2. (calls' = (calls \ {c}) \cup {r} \/ calls' = calls \ {c}) /\ watch' = watch
    BY <1>21 DEF Answer, Replace
  <2> HIDE DEF r
  <2> QED
    BY <2>1, <2>2 DEF Waited
<1> QED
  BY <1>1, <1>2, <1>3, <1>4, <1>5, <1>6, <1>7, <1>8, <1>9, <1>10, <1>11, <1>12, <1>13,
     <1>14, <1>15, <1>16, <1>17, <1>18, <1>19, <1>20, <1>21 DEF Next, Caller, Start,
     Work, Watcher, Again, Peer, Client

\* A client's call stays at its daemon.
LEMMA ClientAtNext ==
    ASSUME TypeOK, ClientAt, [Next]_vars
    PROVE  ClientAt'
<1> USE DEF procVars, regVars, sessVars, handVars, wakeVars, wireVars, histVars
<1>1. ASSUME NEW d \in Daemons,
             LoadRegistry(d) \/ Run(d) \/ OpenClaim(d) \/ Supersede(d) \/
                ResumeMarked(d) \/ Adopt(d) \/ Scan(d) \/ Check(d) \/ Watch(d) \/
                Reclaim(d)
      PROVE  ClientAt'
  <2>1. UNCHANGED <<client>>
    BY <1>1 DEF LoadRegistry, Run, OpenClaim, Lead, Supersede, UpdateRegistry,
       ResumeMarked, Adopt, Scan, Check, Watch, Reclaim
  <2> QED
    BY <2>1 DEF ClientAt
<1>2. ASSUME NEW d \in Daemons, Merge(d) PROVE ClientAt'
  <2>1. UNCHANGED <<client>>
    BY <1>2 DEF Merge
  <2> QED
    BY <2>1 DEF ClientAt
<1>3. ASSUME NEW c \in calls,
             Relay(c) \/ Unreachable(c) \/ ClaimHandoff(c) \/ AcceptHandoff(c) \/
                AcceptRelease(c)
      PROVE  ClientAt'
  <2>1. UNCHANGED <<client>>
    BY <1>3 DEF Relay, Replace, Unreachable, ClaimHandoff, AcceptHandoff,
       UpdateRegistry, AcceptRelease
  <2> QED
    BY <2>1 DEF ClientAt
<1>4. CASE UNCHANGED vars
  <2>1. UNCHANGED <<client>>
    BY <1>4 DEF vars
  <2> QED
    BY <2>1 DEF ClientAt
<1>5. ASSUME NEW d \in Daemons, Takeover(d) PROVE ClientAt'
  BY <1>5, DaemonsAssumption DEF TypeOK, ClientAt, Takeover, Notify
<1>6. ASSUME NEW d \in Daemons, Spawn(d) PROVE ClientAt'
  BY <1>6, DaemonsAssumption DEF TypeOK, ClientAt, Spawn, Notify, UpdateRegistry
<1>7. ASSUME NEW d \in Daemons, StartTurn(d) PROVE ClientAt'
  BY <1>7, DaemonsAssumption DEF TypeOK, ClientAt, StartTurn, Notify
<1>8. ASSUME NEW d \in Daemons, EndTurn(d) PROVE ClientAt'
  BY <1>8, DaemonsAssumption DEF TypeOK, ClientAt, EndTurn, Notify
<1>9. ASSUME NEW d \in Daemons, ResumeHanded(d) PROVE ClientAt'
  BY <1>9, DaemonsAssumption DEF TypeOK, ClientAt, ResumeHanded, Notify
<1>10. ASSUME NEW d \in Daemons, LaunchSettles(d) PROVE ClientAt'
  BY <1>10, DaemonsAssumption DEF TypeOK, ClientAt, LaunchSettles, Notify,
     UpdateRegistry
<1>11. ASSUME NEW d \in Daemons, Ended(d) PROVE ClientAt'
  BY <1>11, DaemonsAssumption DEF TypeOK, ClientAt, Ended, Notify, UpdateRegistry
<1>12. ASSUME NEW d \in Daemons, NEW k \in {"close", "forget"},
             EndSession(d, k)
      PROVE  ClientAt'
  BY <1>12, DaemonsAssumption DEF TypeOK, ClientAt, EndSession, Notify
<1>13. ASSUME NEW d \in Daemons, OtherProgress(d) PROVE ClientAt'
  BY <1>13, DaemonsAssumption DEF TypeOK, ClientAt, OtherProgress, Notify,
     UpdateRegistry
<1>14. ASSUME NEW d \in Daemons, NEW c \in calls, Reported(d, c) PROVE ClientAt'
  BY <1>14, DaemonsAssumption DEF TypeOK, ClientAt, Reported, Notify
<1>15. ASSUME NEW d \in Daemons, Exit(d) PROVE ClientAt'
  BY <1>15, DaemonsAssumption DEF TypeOK, ClientAt, Exit, Gone, NoCall
<1>16. ASSUME NEW d \in Daemons, Crash(d) PROVE ClientAt'
  BY <1>16, DaemonsAssumption DEF TypeOK, ClientAt, Crash, Gone, NoCall
<1>17. ASSUME NEW d \in Daemons, LeadFails(d) PROVE ClientAt'
  BY <1>17, DaemonsAssumption DEF TypeOK, ClientAt, LeadFails, Gone, NoCall
<1>18. ASSUME NEW d \in Daemons, ClientCall(d) PROVE ClientAt'
  BY <1>18, DaemonsAssumption DEF TypeOK, ClientAt, ClientCall, NoCall
<1>19. ASSUME NEW c \in calls, Answer(c) PROVE ClientAt'
  BY <1>19, DaemonsAssumption DEF TypeOK, ClientAt, Answer, Replace, Notify
<1>20. CASE Dispatch
  <2>1. client.at # None
    BY <1>20 DEF Dispatch, ClientAt
  <2>2. client'.at = client.at \/ \E s \in {"ok", "err", "moved", "unsettled"} :
                                     client' = [NoCall EXCEPT !.stage = s]
    BY <1>20 DEF Dispatch, Returns, TypeOK
  <2> QED
    BY <2>1, <2>2 DEF ClientAt, NoCall
<1>21. CASE Connect
  BY <1>21, DaemonsAssumption DEF TypeOK, ClientAt, Connect, Goes
<1>22. CASE Forwarded
  BY <1>22, DaemonsAssumption DEF TypeOK, ClientAt, Forwarded, Goes, Returns, NoCall
<1> QED
  BY <1>1, <1>2, <1>3, <1>4, <1>5, <1>6, <1>7, <1>8, <1>9, <1>10, <1>11, <1>12, <1>13,
     <1>14, <1>15, <1>16, <1>17, <1>18, <1>19, <1>20, <1>21, <1>22 DEF Next, Caller,
     Start, Work, Watcher, Again, Peer, Client

\* Every step keeps the types.
LEMMA NextTyped == Typed /\ [Next]_vars => Typed'
<1> SUFFICES ASSUME Typed, [Next]_vars PROVE Typed'
  OBVIOUS
<1> USE DEF Typed
<1>1. ProcTypes' /\ RegTypes' /\ SessTypes' /\ HandTypes' /\ WatchTypes'
  BY ProcTypesNext, RegTypesNext, SessTypesNext, HandTypesNext, WatchTypesNext
<1>2. ReportTypes' /\ CallTypes' /\ ClientTypes' /\ HistTypes'
  BY ReportTypesNext, CallTypesNext, ClientTypesNext, HistTypesNext
<1>3. TypeOK'
  BY <1>1, <1>2 DEF TypeOK, ProcTypes, RegTypes, SessTypes, HandTypes, WatchTypes,
     ReportTypes, CallTypes, ClientTypes, HistTypes
<1>4. Watches' /\ Waited' /\ ClientAt'
  BY WatchesNext, WaitedNext, ClientAtNext
<1> QED
  BY <1>3, <1>4

\* One daemon serves, and nothing is on the wire.
LEMMA InitTyped == Init => Typed
<1> SUFFICES ASSUME Init PROVE Typed
  OBVIOUS
<1> USE DEF Init
<1>1. PICK d \in Daemons :
         /\ phase = [e \in Daemons |-> IF e = d THEN "serving" ELSE "off"]
         /\ claim = d /\ reg = [e \in Daemons |-> IF e = d THEN file ELSE "absent"]
         /\ \/ /\ born = TRUE /\ file = "plain"
               /\ \E s \in {"idle", "turn"} :
                    sess = [e \in Daemons |-> IF e = d THEN s ELSE "none"]
            \/ /\ born = FALSE /\ file = "absent"
               /\ sess = [e \in Daemons |-> "none"]
  OBVIOUS
<1>2. ProcTypes /\ RegTypes /\ SessTypes
  BY <1>1, BoundsAssumption
     DEF ProcTypes, RegTypes, SessTypes, Phases, Entries, Sess
<1>3. HandTypes /\ WatchTypes /\ HistTypes
  BY <1>1 DEF HandTypes, WatchTypes, HistTypes
<1>4. ReportTypes /\ CallTypes /\ ClientTypes
  BY BoundsAssumption
     DEF ReportTypes, CallTypes, ClientTypes, Reports, NoReport, NoCall, Entries
<1>5. TypeOK
  BY <1>2, <1>3, <1>4 DEF TypeOK, ProcTypes, RegTypes, SessTypes, HandTypes, WatchTypes,
     ReportTypes, CallTypes, ClientTypes, HistTypes
<1>6. Watches /\ Waited /\ ClientAt
  BY <1>1 DEF Watches, Waited, ClientAt, NoCall
<1> QED
  BY <1>5, <1>6 DEF Typed

\* So they hold throughout.
LEMMA TypedHolds == Spec => []Typed
<1> QED
  BY InitTyped, NextTyped, PTL DEF Spec

\* Every variable keeps its type, for any number of daemons, crashes and
\* attempts and whatever may happen besides (MCHandover's `generations`).
THEOREM HandoverTypeCorrect == Spec => []TypeOK
<1>1. Typed => TypeOK
  BY DEF Typed
<1> QED
  BY <1>1, TypedHolds, PTL

-----------------------------------------------------------------------------
(* The registry: a session that was started stays in it                    *)

\* A daemon with no trace of the session.
Nothing(d) ==
    /\ sess[d] = "none" /\ foreign[d] = None /\ resuming[d] = "no" /\ ~owned[d]
    /\ ending[d] = "none" /\ reg[d] = "absent" /\ report[d].kind = "none"
    /\ watch[d] \in {"off", "scan", "check", "done"}

\* Before the session starts there is no trace of it.
Unborn ==
    ~born => /\ \A d \in Daemons : Nothing(d) /\ recorded[d] = "absent"
             /\ file = "absent" /\ calls = {}

\* The succession lock is whoever leads's, and a daemon that serves without a
\* successor has the claim on the socket.
Leaders ==
    /\ \A d \in Daemons :
         /\ phase[d] \in {"leading", "calling", "reported", "merging"} <=> succession = d
         /\ phase[d] \in {"resume", "load", "serving"} /\ ~Superseded(d) => claim = d
         /\ phase[d] = "reported" => claim = None
         /\ claim = d => ~Superseded(d)
         /\ phase[d] \in {"off", "loaded", "leading", "calling", "reported", "exited"}
              => next[d] = None

\* Superseded before the session was started, and about to end.
Bystander(d) ==
    Superseded(d) /\ Nothing(d) /\ \A c \in calls : c.stage = "claimed" => Server(c) # d

\* Whatever is written to the registry, or may be later, has the session: the
\* file, the copy of every daemon, what one read that leads again, the entries
\* on the wire and in a report.
FileIn == born /\ ~forgot => file # "absent"
CopyIn == born /\ ~forgot => \A d \in Daemons : phase[d] \notin {"off", "exited"}
                                  => reg[d] # "absent" \/ Bystander(d)
ReadIn == born /\ ~forgot
    => \A d \in Daemons : phase[d] = "merging" => recorded[d] # "absent"
WireIn == born /\ ~forgot => \A c \in calls : c.entry # "absent"
HandedIn == \A d \in Daemons : report[d].kind = "handed" => report[d].entry # "absent"
OnFile == FileIn /\ CopyIn /\ ReadIn /\ WireIn /\ HandedIn

\* The session is there from the start, or starts on the newest daemon while
\* no daemon that is starting has read the registry.
SpawnsFresh == "spawn" \in Events => Events \cap {"old", "stale"} = {}

\* Step by step: no trace of the session before it starts.
LEMMA UnbornNext ==
    ASSUME Typed, Unborn, [Next]_vars
    PROVE  Unborn'
<1> USE DEF procVars, regVars, sessVars, handVars, wakeVars, wireVars, histVars
<1>1. ASSUME NEW d \in Daemons, Run(d) \/ ClientCall(d) PROVE Unborn'
  <2>1. UNCHANGED <<file, reg, recorded, sess, ending, resuming, foreign, watch,
     owned, report, calls, born>>
    BY <1>1 DEF Run, ClientCall
  <2> QED
    BY <2>1 DEF Unborn, Nothing
<1>2. CASE Dispatch \/ Forwarded
  <2>1. UNCHANGED <<file, reg, recorded, sess, ending, resuming, foreign, watch,
     owned, report, calls, born>>
    BY <1>2 DEF Dispatch, Returns, Forwarded, Goes
  <2> QED
    BY <2>1 DEF Unborn, Nothing
<1>3. CASE UNCHANGED vars
  <2>1. UNCHANGED <<file, reg, recorded, sess, ending, resuming, foreign, watch,
     owned, report, calls, born>>
    BY <1>3 DEF vars
  <2> QED
    BY <2>1 DEF Unborn, Nothing
<1>4. ASSUME NEW d \in Daemons, LoadRegistry(d) PROVE Unborn'
  BY <1>4, DaemonsAssumption DEF Typed, TypeOK, Unborn, Nothing, LoadRegistry
<1>5. ASSUME NEW d \in Daemons, OpenClaim(d) PROVE Unborn'
  BY <1>5, DaemonsAssumption DEF Typed, TypeOK, Unborn, Nothing, OpenClaim, Lead
<1>6. ASSUME NEW d \in Daemons, Takeover(d) PROVE Unborn'
  BY <1>6, DaemonsAssumption DEF Typed, TypeOK, Unborn, Nothing, Takeover, Notify,
     Handed, Partition, NoReport
<1>7. ASSUME NEW d \in Daemons, Supersede(d) PROVE Unborn'
  BY <1>7, DaemonsAssumption DEF Typed, TypeOK, Unborn, Nothing, Supersede, Lead,
     UpdateRegistry, NoReport
<1>8. ASSUME NEW d \in Daemons, ResumeMarked(d) PROVE Unborn'
  BY <1>8, DaemonsAssumption DEF Typed, TypeOK, Unborn, Nothing, ResumeMarked
<1>9. ASSUME NEW d \in Daemons, Spawn(d) PROVE Unborn'
  BY <1>9 DEF Spawn, Unborn
<1>10. ASSUME NEW d \in Daemons, StartTurn(d) PROVE Unborn'
  <2>1. ~born => FALSE
    BY <1>10 DEF StartTurn, Unborn, Nothing
  <2> QED
    BY <1>10, <2>1 DEF StartTurn, Notify, Unborn
<1>11. ASSUME NEW d \in Daemons, EndTurn(d) PROVE Unborn'
  <2>1. ~born => FALSE
    BY <1>11 DEF EndTurn, Unborn, Nothing
  <2> QED
    BY <1>11, <2>1 DEF EndTurn, Notify, Unborn
<1>12. ASSUME NEW d \in Daemons, Adopt(d) PROVE Unborn'
  <2>1. ~born => FALSE
    BY <1>12 DEF Adopt, Unborn, Nothing
  <2> QED
    BY <1>12, <2>1 DEF Adopt, Unborn
<1>13. ASSUME NEW d \in Daemons, ResumeHanded(d) PROVE Unborn'
  <2>1. ~born => FALSE
    BY <1>13 DEF ResumeHanded, Unborn, Nothing
  <2> QED
    BY <1>13, <2>1 DEF ResumeHanded, Notify, Unborn
<1>14. ASSUME NEW d \in Daemons, LaunchSettles(d) PROVE Unborn'
  <2>1. ~born => FALSE
    BY <1>14 DEF LaunchSettles, Unborn, Nothing
  <2> QED
    BY <1>14, <2>1 DEF LaunchSettles, Notify, UpdateRegistry, Unborn
<1>15. ASSUME NEW d \in Daemons, Ended(d) PROVE Unborn'
  <2>1. ~born => FALSE
    BY <1>15 DEF Ended, Unborn, Nothing
  <2> QED
    BY <1>15, <2>1 DEF Ended, Notify, UpdateRegistry, Unborn
<1>16. ASSUME NEW d \in Daemons, NEW k \in {"close", "forget"},
             EndSession(d, k)
      PROVE  Unborn'
  <2>1. ~born => FALSE
    BY <1>16 DEF EndSession, Unborn, Nothing
  <2> QED
    BY <1>16, <2>1 DEF EndSession, Notify, Unborn
<1>17. ASSUME NEW d \in Daemons, OtherProgress(d) PROVE Unborn'
  BY <1>17, DaemonsAssumption DEF Typed, TypeOK, Unborn, Nothing, OtherProgress,
     Notify, UpdateRegistry
<1>18. ASSUME NEW d \in Daemons, Scan(d) PROVE Unborn'
  BY <1>18, DaemonsAssumption DEF Typed, TypeOK, Unborn, Nothing, Scan
<1>19. ASSUME NEW d \in Daemons, NEW c \in calls, Reported(d, c) PROVE Unborn'
  <2>1. ~born => FALSE
    BY <1>19 DEF Reported, Unborn, Nothing
  <2> QED
    BY <1>19, <2>1 DEF Reported, Notify, Unborn
<1>20. ASSUME NEW d \in Daemons, Check(d) PROVE Unborn'
  BY <1>20, DaemonsAssumption DEF Typed, TypeOK, Unborn, Nothing, Check, Done
<1>21. ASSUME NEW d \in Daemons, Watch(d) PROVE Unborn'
  <2>1. ~born => FALSE
    BY <1>21 DEF Watch, Unborn, Nothing
  <2> QED
    BY <1>21, <2>1 DEF Watch, Unborn
<1>22. ASSUME NEW d \in Daemons, Reclaim(d) PROVE Unborn'
  BY <1>22, DaemonsAssumption DEF Typed, TypeOK, Unborn, Nothing, Reclaim
<1>23. ASSUME NEW d \in Daemons, Merge(d) PROVE Unborn'
  BY <1>23, DaemonsAssumption DEF Typed, TypeOK, Unborn, Nothing, Merge, Superseded
<1>24. ASSUME NEW d \in Daemons, Exit(d) PROVE Unborn'
  <2>1. ~born => calls' = {}
    BY <1>24 DEF Exit, Gone, Unborn
  <2> QED
    BY <1>24, <2>1 DEF Exit, Gone, Unborn, Nothing, Typed, TypeOK, NoReport
<1>25. ASSUME NEW d \in Daemons, Crash(d) PROVE Unborn'
  <2>1. ~born => calls' = {}
    BY <1>25 DEF Crash, Gone, Unborn
  <2> QED
    BY <1>25, <2>1 DEF Crash, Gone, Unborn, Nothing, Typed, TypeOK, NoReport
<1>26. ASSUME NEW d \in Daemons, LeadFails(d) PROVE Unborn'
  <2>1. ~born => calls' = {}
    BY <1>26 DEF LeadFails, Gone, Unborn
  <2> QED
    BY <1>26, <2>1 DEF LeadFails, Gone, Unborn, Nothing, Typed, TypeOK, NoReport
<1>27. ASSUME NEW c \in calls, Relay(c) PROVE Unborn'
  <2>1. born /\ born' = born
    BY <1>27 DEF Unborn, Relay, Replace
  <2> QED
    BY <2>1 DEF Unborn
<1>28. ASSUME NEW c \in calls, Unreachable(c) PROVE Unborn'
  <2>1. born /\ born' = born
    BY <1>28 DEF Unborn, Unreachable, Replace
  <2> QED
    BY <2>1 DEF Unborn
<1>29. ASSUME NEW c \in calls, ClaimHandoff(c) PROVE Unborn'
  <2>1. born /\ born' = born
    BY <1>29 DEF Unborn, ClaimHandoff, Replace
  <2> QED
    BY <2>1 DEF Unborn
<1>30. ASSUME NEW c \in calls, AcceptHandoff(c) PROVE Unborn'
  <2>1. born /\ born' = born
    BY <1>30 DEF Unborn, AcceptHandoff, UpdateRegistry, Replace
  <2> QED
    BY <2>1 DEF Unborn
<1>31. ASSUME NEW c \in calls, AcceptRelease(c) PROVE Unborn'
  <2>1. born /\ born' = born
    BY <1>31 DEF Unborn, AcceptRelease, UpdateRegistry, Replace
  <2> QED
    BY <2>1 DEF Unborn
<1>32. ASSUME NEW c \in calls, Answer(c) PROVE Unborn'
  <2>1. born /\ born' = born
    BY <1>32 DEF Unborn, Answer, Replace, Notify
  <2> QED
    BY <2>1 DEF Unborn
<1>33. CASE Connect
  BY <1>33, DaemonsAssumption DEF Typed, TypeOK, Unborn, Nothing, Connect, Goes
<1> QED
  BY <1>1, <1>2, <1>3, <1>4, <1>5, <1>6, <1>7, <1>8, <1>9, <1>10, <1>11, <1>12, <1>13,
     <1>14, <1>15, <1>16, <1>17, <1>18, <1>19, <1>20, <1>21, <1>22, <1>23, <1>24,
     <1>25, <1>26, <1>27, <1>28, <1>29, <1>30, <1>31, <1>32, <1>33 DEF Next, Caller,
     Start, Work, Watcher, Again, Peer, Client

\* Step by step: who leads, and who is superseded.
LEMMA LeadersNext ==
    ASSUME Typed, Typed', Leaders, [Next]_vars
    PROVE  Leaders'
<1> USE DEF procVars, regVars, sessVars, handVars, wakeVars, wireVars, histVars
<1>1. ASSUME NEW d \in Daemons,
             Spawn(d) \/ StartTurn(d) \/ EndTurn(d) \/ Adopt(d) \/ ResumeHanded(d) \/
                Ended(d) \/ OtherProgress(d) \/ Scan(d) \/ Check(d) \/ ClientCall(d)
      PROVE  Leaders'
  <2>1. UNCHANGED <<phase, succession, claim, next>>
    BY <1>1 DEF Spawn, Notify, UpdateRegistry, StartTurn, EndTurn, Adopt,
       ResumeHanded, Ended, OtherProgress, Scan, Check, ClientCall
  <2> QED
    BY <2>1 DEF Leaders, Superseded
<1>2. ASSUME NEW c \in calls,
             Relay(c) \/ Unreachable(c) \/ ClaimHandoff(c) \/ AcceptHandoff(c) \/
                AcceptRelease(c) \/ Answer(c)
      PROVE  Leaders'
  <2>1. UNCHANGED <<phase, succession, claim, next>>
    BY <1>2 DEF Relay, Replace, Unreachable, ClaimHandoff, AcceptHandoff,
       UpdateRegistry, AcceptRelease, Answer, Notify
  <2> QED
    BY <2>1 DEF Leaders, Superseded
<1>3. ASSUME NEW d \in Daemons, NEW k \in {"close", "forget"},
             EndSession(d, k)
      PROVE  Leaders'
  <2>1. UNCHANGED <<phase, succession, claim, next>>
    BY <1>3 DEF EndSession, Notify
  <2> QED
    BY <2>1 DEF Leaders, Superseded
<1>4. ASSUME NEW d \in Daemons, NEW c \in calls, Reported(d, c) PROVE Leaders'
  <2>1. UNCHANGED <<phase, succession, claim, next>>
    BY <1>4 DEF Reported, Notify
  <2> QED
    BY <2>1 DEF Leaders, Superseded
<1>5. CASE Dispatch \/ Connect \/ Forwarded
  <2>1. UNCHANGED <<phase, succession, claim, next>>
    BY <1>5 DEF Dispatch, Returns, Connect, Goes, Forwarded
  <2> QED
    BY <2>1 DEF Leaders, Superseded
<1>6. CASE UNCHANGED vars
  <2>1. UNCHANGED <<phase, succession, claim, next>>
    BY <1>6 DEF vars
  <2> QED
    BY <2>1 DEF Leaders, Superseded
<1>7. ASSUME NEW d \in Daemons, LoadRegistry(d) PROVE Leaders'
  BY <1>7, DaemonsAssumption DEF Typed, TypeOK, Leaders, Superseded, LoadRegistry
<1>8. ASSUME NEW d \in Daemons, Run(d) PROVE Leaders'
  BY <1>8, DaemonsAssumption DEF Typed, TypeOK, Leaders, Superseded, Run
<1>9. ASSUME NEW d \in Daemons, OpenClaim(d) PROVE Leaders'
  BY <1>9, DaemonsAssumption DEF Typed, TypeOK, Leaders, Superseded, OpenClaim, Lead,
     Watches
<1>10. ASSUME NEW d \in Daemons, Takeover(d) PROVE Leaders'
  <2>1. PICK p \in Daemons : p = claim
    BY <1>10 DEF Takeover, Typed, TypeOK
  <2>2. /\ next' = [next EXCEPT ![p] = d] /\ claim' = None /\ succession' = succession
        /\ phase' = [phase EXCEPT ![d] = "reported"]
        /\ phase[d] = "calling" /\ phase[p] = "serving"
    BY <1>10, <2>1 DEF Takeover, Accepting
  <2> QED
    BY <1>10, <2>1, <2>2, DaemonsAssumption DEF Leaders, Superseded, Typed, TypeOK
<1>11. ASSUME NEW d \in Daemons, Supersede(d) PROVE Leaders'
  BY <1>11, DaemonsAssumption DEF Typed, TypeOK, Leaders, Superseded, Supersede, Lead,
     UpdateRegistry, Watches
<1>12. ASSUME NEW d \in Daemons, ResumeMarked(d) PROVE Leaders'
  BY <1>12, DaemonsAssumption DEF Typed, TypeOK, Leaders, Superseded, ResumeMarked
<1>13. ASSUME NEW d \in Daemons, LaunchSettles(d) PROVE Leaders'
  BY <1>13, DaemonsAssumption DEF Typed, TypeOK, Leaders, Superseded, LaunchSettles,
     Notify, UpdateRegistry
<1>14. ASSUME NEW d \in Daemons, Watch(d) PROVE Leaders'
  BY <1>14, DaemonsAssumption DEF Typed, TypeOK, Leaders, Superseded, Watch, Watches
<1>15. ASSUME NEW d \in Daemons, Reclaim(d) PROVE Leaders'
  BY <1>15, DaemonsAssumption DEF Typed, TypeOK, Leaders, Superseded, Reclaim, Watches
<1>16. ASSUME NEW d \in Daemons, Merge(d) PROVE Leaders'
  BY <1>16, DaemonsAssumption DEF Typed, TypeOK, Leaders, Superseded, Merge, Watches
<1>17. ASSUME NEW d \in Daemons, Exit(d) PROVE Leaders'
  BY <1>17, DaemonsAssumption DEF Typed, TypeOK, Leaders, Superseded, Exit, Gone,
     Watches
<1>18. ASSUME NEW d \in Daemons, Crash(d) PROVE Leaders'
  BY <1>18, DaemonsAssumption DEF Typed, TypeOK, Leaders, Superseded, Crash, Gone
<1>19. ASSUME NEW d \in Daemons, LeadFails(d) PROVE Leaders'
  BY <1>19, DaemonsAssumption DEF Typed, TypeOK, Leaders, Superseded, LeadFails, Gone
<1> QED
  BY <1>1, <1>2, <1>3, <1>4, <1>5, <1>6, <1>7, <1>8, <1>9, <1>10, <1>11, <1>12, <1>13,
     <1>14, <1>15, <1>16, <1>17, <1>18, <1>19 DEF Next, Caller, Start, Work, Watcher,
     Again, Peer, Client

\* What is left of a call keeps its entry, and where it was claimed.
LEMMA CutKeeps ==
    ASSUME NEW c \in Calls, NEW d \in Daemons, NEW q \in Cut(c, d)
    PROVE  q.entry = c.entry
              /\ (q.stage = "claimed" => c.stage = "claimed" /\ Server(q) = Server(c))
<1> DEFINE i == CHOOSE i \in 1..Len(c.path) : c.path[i] = d
           u == Upstream(c, d)
           w == Downstream(c, d)
           free(p) == [p EXCEPT !.from = IF @ = d THEN None ELSE @]
<1>1. c.path \in Seq(Daemons) /\ Len(c.path) \in Nat
  BY CallFields
<1>2. \A p \in Calls : /\ free(p).entry = p.entry /\ free(p).stage = p.stage
                       /\ free(p).path = p.path
                       /\ free(p).from = IF p.from = d THEN None ELSE p.from
  BY DEF Calls
<1>3. ASSUME \E k \in 1..Len(c.path) : c.path[k] = d
      PROVE  /\ u \in Calls /\ u.entry = c.entry /\ u.stage = "err"
             /\ w \in Calls /\ w.entry = c.entry /\ w.stage = c.stage /\ w.from = None
             /\ w.path = << >> \/ Server(w) = Server(c)
  <2>1. i \in 1..Len(c.path)
    BY <1>3
  <2> DEFINE p == SubSeq(c.path, 1, i - 1)
             r == SubSeq(c.path, i + 1, Len(c.path))
             m == i + 1
             n == Len(c.path)
  <2>2. p \in Seq(Daemons)
    <3>1. i - 1 \in Int /\ i - 1 <= Len(c.path) /\ 1 \in Int /\ 1 <= 1
      BY <1>1, <2>1
    <3> HIDE DEF i
    <3> QED
      BY <1>1, <3>1, SubPath
  <2>3. /\ r \in Seq(Daemons) /\ Len(r) = IF m <= n THEN n - m + 1 ELSE 0
        /\ \A k \in 1 .. n - m + 1 : r[k] = c.path[m + k - 1]
    <3>1. m \in Int /\ 1 <= m /\ n \in Int /\ n <= n
      BY <1>1, <2>1
    <3> HIDE DEF i, m, n
    <3> QED
      BY <1>1, <3>1, SubPath DEF m, n
  <2>4. r = << >> \/ r[Len(r)] = c.path[n]
    <3>1. m \in Int /\ n \in Int
      BY <1>1, <2>1
    <3>2. CASE m <= n
      <4>1. Len(r) = n - m + 1 /\ n - m + 1 \in 1 .. n - m + 1 /\ m + (n - m + 1) - 1 = n
        <5> HIDE DEF m, n, r
        <5> QED
          BY <2>3, <3>1, <3>2
      <4> QED
        BY <2>3, <4>1
    <3>3. CASE ~(m <= n)
      <4>1. Len(r) = 0
        BY <2>3, <3>3
      <4> HIDE DEF r
      <4> QED
        BY <2>3, <4>1, EmptySeq
    <3> QED
      BY <3>2, <3>3
  <2>5. u = [c EXCEPT !.path = p, !.stage = "err"]
    BY DEF Upstream
  <2>6. w = [c EXCEPT !.from = None, !.path = r]
    BY DEF Downstream
  <2> HIDE DEF i, u, w, p, r, m
  <2>7. /\ u \in Calls /\ u.entry = c.entry /\ u.stage = "err"
        /\ w \in Calls /\ w.entry = c.entry /\ w.stage = c.stage /\ w.path = r
             /\ w.from = None
    BY <2>2, <2>3, <2>5, <2>6 DEF Calls
  <2> QED
    BY <2>4, <2>7 DEF Server
<1> HIDE DEF free, u, w, i
<1>4. CASE \E k \in 1..Len(c.path) : c.path[k] = d
  <2>1. q \in {free(u), free(w)} /\ (q.from # None \/ q.path # << >>)
    BY <1>4 DEF Cut, free, u, w
  <2>2. CASE q = free(u)
    BY <1>2, <1>3, <1>4, <2>2
  <2>3. CASE q = free(w)
    <3>1. w \in Calls /\ w.from = None
      BY <1>3, <1>4
    <3>2. q.from = None /\ q.path = w.path /\ q.stage = w.stage /\ q.entry = w.entry
      BY <1>2, <2>3, <3>1, DaemonsAssumption
    <3> QED
      BY <1>3, <1>4, <2>1, <3>2 DEF Server
  <2> QED
    BY <2>1, <2>2, <2>3
<1>5. CASE ~\E k \in 1..Len(c.path) : c.path[k] = d
  <2>1. q = free(c)
    BY <1>5 DEF Cut, free
  <2> QED
    BY <1>2, <2>1 DEF Server
<1> QED
  BY <1>4, <1>5

\* Before the session starts nobody leads again; where it starts, every other
\* daemon that runs is superseded.
LEMMA SpawnAlone ==
    ASSUME SpawnsFresh, Typed, Leaders, Unborn, NEW d \in Daemons, Spawn(d)
    PROVE  /\ ~Superseded(d) /\ phase[d] = "serving" /\ calls = {}
           /\ \A e \in Daemons : phase[e] # "merging"
           /\ \A e \in Daemons \ {d} :
                phase[e] \notin {"off", "exited"} => Superseded(e) /\ Nothing(e)
<1>1. ~born /\ Called(d) /\ "old" \notin Events
      /\ \A e \in Daemons : phase[e] \notin {"loaded", "leading", "calling"}
  BY DEF Spawn, Fresh, SpawnsFresh
<1>2. calls = {} /\ \A e \in Daemons : Nothing(e)
  BY <1>1 DEF Unborn
<1>3. \A e \in Daemons : watch[e] # "gone" /\ phase[e] \notin {"orphaned", "merging"}
  BY <1>2 DEF Nothing, Typed, Watches
<1>4. ~Superseded(d) /\ phase[d] = "serving"
  BY <1>1, <1>3 DEF Called, Working
<1>5. claim = d
  BY <1>4 DEF Leaders
<1>6. \A e \in Daemons \ {d} : phase[e] \notin {"off", "exited"} => Superseded(e)
  BY <1>1, <1>3, <1>5, DaemonsAssumption DEF Leaders, Typed, TypeOK, Phases
<1> QED
  BY <1>2, <1>3, <1>4, <1>6

\* A daemon that may be asked has the session's entry.
LEMMA HasEntry ==
    ASSUME CopyIn, born, ~forgot, NEW d \in Daemons, phase[d] \notin {"off", "exited"},
           ~Superseded(d) \/ ~Nothing(d)
    PROVE  reg[d] # "absent"
BY DEF CopyIn, Bystander

\* The file.
LEMMA FileInNext ==
    ASSUME SpawnsFresh, Typed, Typed', Leaders, Unborn, OnFile, [Next]_vars
    PROVE  FileIn'
<1> USE DEF procVars, regVars, sessVars, handVars, wakeVars, wireVars, histVars
<1>1. ASSUME NEW d \in Daemons,
             LoadRegistry(d) \/ Run(d) \/ OpenClaim(d) \/ Takeover(d) \/
                ResumeMarked(d) \/ StartTurn(d) \/ EndTurn(d) \/ Adopt(d) \/
                ResumeHanded(d) \/ Scan(d)
      PROVE  FileIn'
  <2>1. UNCHANGED <<file, born, forgot>>
    BY <1>1 DEF LoadRegistry, Run, OpenClaim, Lead, Takeover, Notify, ResumeMarked,
       StartTurn, EndTurn, Adopt, ResumeHanded, Scan
  <2> QED
    BY <2>1 DEF OnFile, FileIn
<1>2. ASSUME NEW d \in Daemons,
             Check(d) \/ Watch(d) \/ Reclaim(d) \/ Exit(d) \/ Crash(d) \/ LeadFails(d)
                \/ ClientCall(d)
      PROVE  FileIn'
  <2>1. UNCHANGED <<file, born, forgot>>
    BY <1>2 DEF Check, Watch, Reclaim, Exit, Gone, Crash, LeadFails, ClientCall
  <2> QED
    BY <2>1 DEF OnFile, FileIn
<1>3. ASSUME NEW c \in calls,
             Relay(c) \/ Unreachable(c) \/ ClaimHandoff(c) \/ Answer(c)
      PROVE  FileIn'
  <2>1. UNCHANGED <<file, born, forgot>>
    BY <1>3 DEF Relay, Replace, Unreachable, ClaimHandoff, Answer, Notify
  <2> QED
    BY <2>1 DEF OnFile, FileIn
<1>4. ASSUME NEW d \in Daemons, NEW k \in {"close", "forget"},
             EndSession(d, k)
      PROVE  FileIn'
  <2>1. UNCHANGED <<file, born, forgot>>
    BY <1>4 DEF EndSession, Notify
  <2> QED
    BY <2>1 DEF OnFile, FileIn
<1>5. ASSUME NEW d \in Daemons, NEW c \in calls, Reported(d, c) PROVE FileIn'
  <2>1. UNCHANGED <<file, born, forgot>>
    BY <1>5 DEF Reported, Notify
  <2> QED
    BY <2>1 DEF OnFile, FileIn
<1>6. CASE Dispatch \/ Connect \/ Forwarded
  <2>1. UNCHANGED <<file, born, forgot>>
    BY <1>6 DEF Dispatch, Returns, Connect, Goes, Forwarded
  <2> QED
    BY <2>1 DEF OnFile, FileIn
<1>7. CASE UNCHANGED vars
  <2>1. UNCHANGED <<file, born, forgot>>
    BY <1>7 DEF vars
  <2> QED
    BY <2>1 DEF OnFile, FileIn
<1>8. ASSUME NEW d \in Daemons, Supersede(d) PROVE FileIn'
  <2>1. phase[d] = "reported" /\ next[d] = None
    BY <1>8 DEF Supersede, Leaders
  <2>2. born /\ ~forgot => reg[d] # "absent"
    BY <2>1, HasEntry DEF OnFile, Superseded
  <2>3. report[d].kind = "handed" => report[d].entry # "absent"
    BY DEF OnFile, HandedIn
  <2>4. born /\ ~forgot => file' # "absent"
    BY <1>8, <2>1, <2>2, <2>3 DEF Supersede, UpdateRegistry, Superseded
  <2> QED
    BY <1>8, <2>4 DEF Supersede, FileIn
<1>9. ASSUME NEW d \in Daemons, Spawn(d) PROVE FileIn'
  <2>1. ~Superseded(d)
    BY <1>9, SpawnAlone
  <2> QED
    BY <1>9, <2>1 DEF Spawn, UpdateRegistry, Notify, FileIn
<1>10. ASSUME NEW d \in Daemons, LaunchSettles(d) PROVE FileIn'
  BY <1>10, DaemonsAssumption DEF Typed, TypeOK, OnFile, FileIn, LaunchSettles,
     Notify, UpdateRegistry
<1>11. ASSUME NEW d \in Daemons, Ended(d) PROVE FileIn'
  <2>1. born /\ ~forgot => reg[d] # "absent"
    BY <1>11, HasEntry, DaemonsAssumption DEF OnFile, Superseded, Nothing, Ended, Up
  <2> QED
    BY <1>11, <2>1 DEF Typed, TypeOK, OnFile, FileIn, Ended, UpdateRegistry, Notify
<1>12. ASSUME NEW d \in Daemons, OtherProgress(d) PROVE FileIn'
  <2>1. born /\ ~forgot /\ ~Superseded(d) => reg[d] # "absent"
    BY <1>12, HasEntry DEF OtherProgress, Working, OnFile
  <2> QED
    BY <1>12, <2>1 DEF OtherProgress, UpdateRegistry, Notify, OnFile, FileIn
<1>13. ASSUME NEW d \in Daemons, Merge(d) PROVE FileIn'
  <2>1. born /\ ~forgot => recorded[d] # "absent"
    BY <1>13 DEF Merge, OnFile, ReadIn
  <2> QED
    BY <1>13, <2>1 DEF Merge, OnFile, FileIn
<1>14. ASSUME NEW c \in calls, AcceptHandoff(c) PROVE FileIn'
  <2>1. born /\ ~forgot => c.entry # "absent"
    BY <1>14 DEF OnFile, WireIn
  <2> QED
    BY <1>14, <2>1 DEF FileIn, OnFile, UpdateRegistry, AcceptHandoff
<1>15. ASSUME NEW c \in calls, AcceptRelease(c) PROVE FileIn'
  <2>1. born /\ ~forgot => c.entry # "absent"
    BY <1>15 DEF OnFile, WireIn
  <2> QED
    BY <1>15, <2>1 DEF FileIn, OnFile, UpdateRegistry, AcceptRelease
<1> QED
  BY <1>1, <1>2, <1>3, <1>4, <1>5, <1>6, <1>7, <1>8, <1>9, <1>10, <1>11, <1>12, <1>13,
     <1>14, <1>15 DEF Next, Caller, Start, Work, Watcher, Again, Peer, Client

\* What a daemon that leads again has read.
LEMMA ReadInNext ==
    ASSUME SpawnsFresh, Typed, Typed', Leaders, Unborn, OnFile, [Next]_vars
    PROVE  ReadIn'
<1> USE DEF procVars, regVars, sessVars, handVars, wakeVars, wireVars, histVars
<1>1. ASSUME NEW d \in Daemons,
             StartTurn(d) \/ EndTurn(d) \/ Adopt(d) \/ ResumeHanded(d) \/
                OtherProgress(d) \/ Scan(d) \/ Check(d) \/ ClientCall(d)
      PROVE  ReadIn'
  <2>1. UNCHANGED <<phase, recorded, born, forgot>>
    BY <1>1 DEF StartTurn, Notify, EndTurn, Adopt, ResumeHanded, OtherProgress,
       UpdateRegistry, Scan, Check, ClientCall
  <2> QED
    BY <2>1 DEF OnFile, ReadIn
<1>2. ASSUME NEW c \in calls,
             Relay(c) \/ Unreachable(c) \/ ClaimHandoff(c) \/ AcceptHandoff(c) \/
                AcceptRelease(c) \/ Answer(c)
      PROVE  ReadIn'
  <2>1. UNCHANGED <<phase, recorded, born, forgot>>
    BY <1>2 DEF Relay, Replace, Unreachable, ClaimHandoff, AcceptHandoff,
       UpdateRegistry, AcceptRelease, Answer, Notify
  <2> QED
    BY <2>1 DEF OnFile, ReadIn
<1>3. ASSUME NEW d \in Daemons, NEW k \in {"close", "forget"},
             EndSession(d, k)
      PROVE  ReadIn'
  <2>1. UNCHANGED <<phase, recorded, born, forgot>>
    BY <1>3 DEF EndSession, Notify
  <2> QED
    BY <2>1 DEF OnFile, ReadIn
<1>4. ASSUME NEW d \in Daemons, NEW c \in calls, Reported(d, c) PROVE ReadIn'
  <2>1. UNCHANGED <<phase, recorded, born, forgot>>
    BY <1>4 DEF Reported, Notify
  <2> QED
    BY <2>1 DEF OnFile, ReadIn
<1>5. CASE Dispatch \/ Connect \/ Forwarded
  <2>1. UNCHANGED <<phase, recorded, born, forgot>>
    BY <1>5 DEF Dispatch, Returns, Connect, Goes, Forwarded
  <2> QED
    BY <2>1 DEF OnFile, ReadIn
<1>6. CASE UNCHANGED vars
  <2>1. UNCHANGED <<phase, recorded, born, forgot>>
    BY <1>6 DEF vars
  <2> QED
    BY <2>1 DEF OnFile, ReadIn
<1>7. ASSUME NEW d \in Daemons, LoadRegistry(d) PROVE ReadIn'
  BY <1>7, DaemonsAssumption DEF Typed, TypeOK, OnFile, ReadIn, LoadRegistry
<1>8. ASSUME NEW d \in Daemons, Run(d) PROVE ReadIn'
  BY <1>8, DaemonsAssumption DEF Typed, TypeOK, OnFile, ReadIn, Run
<1>9. ASSUME NEW d \in Daemons, OpenClaim(d) PROVE ReadIn'
  BY <1>9, DaemonsAssumption DEF Typed, TypeOK, OnFile, ReadIn, OpenClaim, Lead
<1>10. ASSUME NEW d \in Daemons, Takeover(d) PROVE ReadIn'
  BY <1>10, DaemonsAssumption DEF Typed, TypeOK, OnFile, ReadIn, Takeover, Notify
<1>11. ASSUME NEW d \in Daemons, Supersede(d) PROVE ReadIn'
  BY <1>11, DaemonsAssumption DEF Typed, TypeOK, OnFile, ReadIn, Supersede, Lead,
     UpdateRegistry
<1>12. ASSUME NEW d \in Daemons, ResumeMarked(d) PROVE ReadIn'
  BY <1>12, DaemonsAssumption DEF Typed, TypeOK, OnFile, ReadIn, ResumeMarked
<1>13. ASSUME NEW d \in Daemons, Spawn(d) PROVE ReadIn'
  <2>1. \A e \in Daemons : phase'[e] # "merging"
    BY <1>13, SpawnAlone DEF Spawn
  <2> QED
    BY <2>1 DEF ReadIn
<1>14. ASSUME NEW d \in Daemons, LaunchSettles(d) PROVE ReadIn'
  BY <1>14, DaemonsAssumption DEF Typed, TypeOK, OnFile, ReadIn, LaunchSettles,
     Notify, UpdateRegistry
<1>15. ASSUME NEW d \in Daemons, Ended(d) PROVE ReadIn'
  BY <1>15, DaemonsAssumption DEF Typed, TypeOK, OnFile, ReadIn, Ended, Notify,
     UpdateRegistry
<1>16. ASSUME NEW d \in Daemons, Watch(d) PROVE ReadIn'
  BY <1>16, DaemonsAssumption DEF Typed, TypeOK, OnFile, ReadIn, Watch
<1>17. ASSUME NEW d \in Daemons, Reclaim(d) PROVE ReadIn'
  BY <1>17, DaemonsAssumption DEF Typed, TypeOK, OnFile, ReadIn, Reclaim, FileIn
<1>18. ASSUME NEW d \in Daemons, Merge(d) PROVE ReadIn'
  BY <1>18, DaemonsAssumption DEF Typed, TypeOK, OnFile, ReadIn, Merge
<1>19. ASSUME NEW d \in Daemons, Exit(d) PROVE ReadIn'
  BY <1>19, DaemonsAssumption DEF Typed, TypeOK, OnFile, ReadIn, Exit, Gone
<1>20. ASSUME NEW d \in Daemons, Crash(d) PROVE ReadIn'
  BY <1>20, DaemonsAssumption DEF Typed, TypeOK, OnFile, ReadIn, Crash, Gone
<1>21. ASSUME NEW d \in Daemons, LeadFails(d) PROVE ReadIn'
  BY <1>21, DaemonsAssumption DEF Typed, TypeOK, OnFile, ReadIn, LeadFails, Gone
<1> QED
  BY <1>1, <1>2, <1>3, <1>4, <1>5, <1>6, <1>7, <1>8, <1>9, <1>10, <1>11, <1>12, <1>13,
     <1>14, <1>15, <1>16, <1>17, <1>18, <1>19, <1>20, <1>21 DEF Next, Caller, Start,
     Work, Watcher, Again, Peer, Client

\* The reports.
LEMMA HandedInNext ==
    ASSUME SpawnsFresh, Typed, Typed', Leaders, Unborn, OnFile, [Next]_vars
    PROVE  HandedIn'
<1> USE DEF procVars, regVars, sessVars, handVars, wakeVars, wireVars, histVars
<1>1. ASSUME NEW d \in Daemons,
             LoadRegistry(d) \/ Run(d) \/ OpenClaim(d) \/ ResumeMarked(d) \/
                StartTurn(d) \/ EndTurn(d) \/ Adopt(d) \/ ResumeHanded(d) \/
                LaunchSettles(d) \/ OtherProgress(d)
      PROVE  HandedIn'
  <2>1. UNCHANGED <<report, born, forgot>>
    BY <1>1 DEF LoadRegistry, Run, OpenClaim, Lead, ResumeMarked, StartTurn, Notify,
       EndTurn, Adopt, ResumeHanded, LaunchSettles, UpdateRegistry, OtherProgress
  <2> QED
    BY <2>1 DEF OnFile, HandedIn
<1>2. ASSUME NEW d \in Daemons,
             Scan(d) \/ Check(d) \/ Watch(d) \/ Reclaim(d) \/ Merge(d) \/
                ClientCall(d)
      PROVE  HandedIn'
  <2>1. UNCHANGED <<report, born, forgot>>
    BY <1>2 DEF Scan, Check, Watch, Reclaim, Merge, ClientCall
  <2> QED
    BY <2>1 DEF OnFile, HandedIn
<1>3. ASSUME NEW c \in calls,
             Relay(c) \/ Unreachable(c) \/ ClaimHandoff(c) \/ AcceptHandoff(c) \/
                AcceptRelease(c) \/ Answer(c)
      PROVE  HandedIn'
  <2>1. UNCHANGED <<report, born, forgot>>
    BY <1>3 DEF Relay, Replace, Unreachable, ClaimHandoff, AcceptHandoff,
       UpdateRegistry, AcceptRelease, Answer, Notify
  <2> QED
    BY <2>1 DEF OnFile, HandedIn
<1>4. ASSUME NEW d \in Daemons, NEW k \in {"close", "forget"},
             EndSession(d, k)
      PROVE  HandedIn'
  <2>1. UNCHANGED <<report, born, forgot>>
    BY <1>4 DEF EndSession, Notify
  <2> QED
    BY <2>1 DEF OnFile, HandedIn
<1>5. ASSUME NEW d \in Daemons, NEW c \in calls, Reported(d, c) PROVE HandedIn'
  <2>1. UNCHANGED <<report, born, forgot>>
    BY <1>5 DEF Reported, Notify
  <2> QED
    BY <2>1 DEF OnFile, HandedIn
<1>6. CASE Dispatch \/ Connect \/ Forwarded
  <2>1. UNCHANGED <<report, born, forgot>>
    BY <1>6 DEF Dispatch, Returns, Connect, Goes, Forwarded
  <2> QED
    BY <2>1 DEF OnFile, HandedIn
<1>7. CASE UNCHANGED vars
  <2>1. UNCHANGED <<report, born, forgot>>
    BY <1>7 DEF vars
  <2> QED
    BY <2>1 DEF OnFile, HandedIn
<1>8. ASSUME NEW d \in Daemons, Takeover(d) PROVE HandedIn'
  BY <1>8, DaemonsAssumption DEF Typed, TypeOK, OnFile, HandedIn, Handed, Partition,
     NoReport, Takeover, Notify
<1>9. ASSUME NEW d \in Daemons, Supersede(d) PROVE HandedIn'
  BY <1>9, DaemonsAssumption DEF Typed, TypeOK, OnFile, HandedIn, Handed, Partition,
     NoReport, Supersede, Lead, UpdateRegistry
<1>10. ASSUME NEW d \in Daemons, Spawn(d) PROVE HandedIn'
  BY <1>10, DaemonsAssumption DEF Typed, TypeOK, OnFile, HandedIn, Handed, Partition,
     NoReport, Spawn, Notify, UpdateRegistry
<1>11. ASSUME NEW d \in Daemons, Ended(d) PROVE HandedIn'
  BY <1>11, DaemonsAssumption DEF Typed, TypeOK, OnFile, HandedIn, Handed, Partition,
     NoReport, Ended, Notify, UpdateRegistry
<1>12. ASSUME NEW d \in Daemons, Exit(d) PROVE HandedIn'
  BY <1>12, DaemonsAssumption DEF Typed, TypeOK, OnFile, HandedIn, Handed, Partition,
     NoReport, Exit, Gone
<1>13. ASSUME NEW d \in Daemons, Crash(d) PROVE HandedIn'
  BY <1>13, DaemonsAssumption DEF Typed, TypeOK, OnFile, HandedIn, Handed, Partition,
     NoReport, Crash, Gone
<1>14. ASSUME NEW d \in Daemons, LeadFails(d) PROVE HandedIn'
  BY <1>14, DaemonsAssumption DEF Typed, TypeOK, OnFile, HandedIn, Handed, Partition,
     NoReport, LeadFails, Gone
<1> QED
  BY <1>1, <1>2, <1>3, <1>4, <1>5, <1>6, <1>7, <1>8, <1>9, <1>10, <1>11, <1>12, <1>13,
     <1>14 DEF Next, Caller, Start, Work, Watcher, Again, Peer, Client

\* The entries on the wire.
LEMMA WireInNext ==
    ASSUME SpawnsFresh, Typed, Typed', Leaders, Unborn, OnFile, [Next]_vars
    PROVE  WireIn'
<1> USE DEF procVars, regVars, sessVars, handVars, wakeVars, wireVars, histVars
<1>1. ASSUME NEW d \in Daemons,
             LoadRegistry(d) \/ Run(d) \/ OpenClaim(d) \/ Takeover(d) \/ Supersede(d)
                \/ ResumeMarked(d) \/ StartTurn(d) \/ EndTurn(d) \/ Adopt(d) \/
                ResumeHanded(d)
      PROVE  WireIn'
  <2>1. UNCHANGED <<calls, born, forgot>>
    BY <1>1 DEF LoadRegistry, Run, OpenClaim, Lead, Takeover, Notify, Supersede,
       UpdateRegistry, ResumeMarked, StartTurn, EndTurn, Adopt, ResumeHanded
  <2> QED
    BY <2>1 DEF OnFile, WireIn
<1>2. ASSUME NEW d \in Daemons,
             LaunchSettles(d) \/ OtherProgress(d) \/ Check(d) \/ Watch(d) \/
                Reclaim(d) \/ Merge(d) \/ ClientCall(d)
      PROVE  WireIn'
  <2>1. UNCHANGED <<calls, born, forgot>>
    BY <1>2 DEF LaunchSettles, Notify, UpdateRegistry, OtherProgress, Check, Watch,
       Reclaim, Merge, ClientCall
  <2> QED
    BY <2>1 DEF OnFile, WireIn
<1>3. ASSUME NEW d \in Daemons, NEW k \in {"close", "forget"},
             EndSession(d, k)
      PROVE  WireIn'
  <2>1. UNCHANGED <<calls, born, forgot>>
    BY <1>3 DEF EndSession, Notify
  <2> QED
    BY <2>1 DEF OnFile, WireIn
<1>4. CASE Dispatch \/ Connect \/ Forwarded
  <2>1. UNCHANGED <<calls, born, forgot>>
    BY <1>4 DEF Dispatch, Returns, Connect, Goes, Forwarded
  <2> QED
    BY <2>1 DEF OnFile, WireIn
<1>5. CASE UNCHANGED vars
  <2>1. UNCHANGED <<calls, born, forgot>>
    BY <1>5 DEF vars
  <2> QED
    BY <2>1 DEF OnFile, WireIn
<1>6. ASSUME NEW d \in Daemons, Spawn(d) PROVE WireIn'
  <2>1. calls' = {}
    BY <1>6, SpawnAlone DEF Spawn
  <2> QED
    BY <2>1 DEF WireIn
<1>7. ASSUME NEW d \in Daemons, Ended(d) PROVE WireIn'
  BY <1>7, DaemonsAssumption DEF Typed, TypeOK, OnFile, WireIn, Ended, Notify,
     UpdateRegistry
<1>8. ASSUME NEW d \in Daemons, Scan(d) PROVE WireIn'
  <2>1. owned[d] /\ born /\ ~forgot => reg[d] # "absent"
    BY <1>8, HasEntry DEF Scan, Up, OnFile, Nothing
  <2>2. \A k, x : Call(d, k, x).entry = x
    BY DEF Call
  <2> QED
    BY <1>8, <2>1, <2>2 DEF Scan, OnFile, WireIn
<1>9. ASSUME NEW d \in Daemons, NEW c \in calls, Reported(d, c) PROVE WireIn'
  BY <1>9, DaemonsAssumption DEF Typed, TypeOK, OnFile, WireIn, Reported, Notify
<1>10. ASSUME NEW d \in Daemons, Exit(d) PROVE WireIn'
  <2>1. \A q \in calls' : \E c \in calls : c \in Calls /\ q \in Cut(c, d)
    BY <1>10 DEF Exit, Gone, Typed, TypeOK
  <2> QED
    BY <1>10, <2>1, CutKeeps DEF Exit, Gone, OnFile, WireIn
<1>11. ASSUME NEW d \in Daemons, Crash(d) PROVE WireIn'
  <2>1. \A q \in calls' : \E c \in calls : c \in Calls /\ q \in Cut(c, d)
    BY <1>11 DEF Crash, Gone, Typed, TypeOK
  <2> QED
    BY <1>11, <2>1, CutKeeps DEF Crash, Gone, OnFile, WireIn
<1>12. ASSUME NEW d \in Daemons, LeadFails(d) PROVE WireIn'
  <2>1. \A q \in calls' : \E c \in calls : c \in Calls /\ q \in Cut(c, d)
    BY <1>12 DEF LeadFails, Gone, Typed, TypeOK
  <2> QED
    BY <1>12, <2>1, CutKeeps DEF LeadFails, Gone, OnFile, WireIn
<1>13. ASSUME NEW c \in calls, Relay(c) PROVE WireIn'
  <2> DEFINE r == [c EXCEPT !.path = Append(c.path, next[Server(c)])]
  <2>1. r.entry = c.entry
    BY EditFields DEF Typed, TypeOK
  <2>2. (calls' = (calls \ {c}) \cup {r} \/ calls' = calls \ {c})
           /\ UNCHANGED <<born, forgot>>
    BY <1>13 DEF Relay, Replace
  <2> HIDE DEF r
  <2> QED
    BY <2>1, <2>2 DEF OnFile, WireIn
<1>14. ASSUME NEW c \in calls, Unreachable(c) PROVE WireIn'
  <2> DEFINE r == [c EXCEPT !.stage = "err", !.path = Front(c.path)]
  <2>1. r.entry = c.entry
    BY EditFields DEF Typed, TypeOK
  <2>2. (calls' = (calls \ {c}) \cup {r} \/ calls' = calls \ {c})
           /\ UNCHANGED <<born, forgot>>
    BY <1>14 DEF Unreachable, Replace
  <2> HIDE DEF r
  <2> QED
    BY <2>1, <2>2 DEF OnFile, WireIn
<1>15. ASSUME NEW c \in calls, ClaimHandoff(c) PROVE WireIn'
  <2> DEFINE r == [c EXCEPT !.stage = "claimed"]
  <2>1. r.entry = c.entry
    BY EditFields DEF Typed, TypeOK
  <2>2. (calls' = (calls \ {c}) \cup {r} \/ calls' = calls \ {c})
           /\ UNCHANGED <<born, forgot>>
    BY <1>15 DEF ClaimHandoff, Replace
  <2> HIDE DEF r
  <2> QED
    BY <2>1, <2>2 DEF OnFile, WireIn
<1>16. ASSUME NEW c \in calls, AcceptHandoff(c) PROVE WireIn'
  <2> DEFINE r == [c EXCEPT !.stage = "ok"]
  <2>1. r.entry = c.entry
    BY EditFields DEF Typed, TypeOK
  <2>2. (calls' = (calls \ {c}) \cup {r} \/ calls' = calls \ {c})
           /\ UNCHANGED <<born, forgot>>
    BY <1>16 DEF AcceptHandoff, Replace
  <2> HIDE DEF r
  <2> QED
    BY <2>1, <2>2 DEF OnFile, WireIn
<1>17. ASSUME NEW c \in calls, AcceptRelease(c) PROVE WireIn'
  <2> DEFINE r == [c EXCEPT !.stage = "ok"]
  <2>1. r.entry = c.entry
    BY EditFields DEF Typed, TypeOK
  <2>2. (calls' = (calls \ {c}) \cup {r} \/ calls' = calls \ {c})
           /\ UNCHANGED <<born, forgot>>
    BY <1>17 DEF AcceptRelease, Replace
  <2> HIDE DEF r
  <2> QED
    BY <2>1, <2>2 DEF OnFile, WireIn
<1>18. ASSUME NEW c \in calls, Answer(c) PROVE WireIn'
  <2> DEFINE r == [c EXCEPT !.path = Front(c.path)]
  <2>1. r.entry = c.entry
    BY EditFields DEF Typed, TypeOK
  <2>2. (calls' = (calls \ {c}) \cup {r} \/ calls' = calls \ {c})
           /\ UNCHANGED <<born, forgot>>
    BY <1>18 DEF Answer, Replace
  <2> HIDE DEF r
  <2> QED
    BY <2>1, <2>2 DEF OnFile, WireIn
<1> QED
  BY <1>1, <1>2, <1>3, <1>4, <1>5, <1>6, <1>7, <1>8, <1>9, <1>10, <1>11, <1>12, <1>13,
     <1>14, <1>15, <1>16, <1>17, <1>18 DEF Next, Caller, Start, Work, Watcher, Again,
     Peer, Client

\* The copies.
LEMMA CopyInNext ==
    ASSUME SpawnsFresh, Typed, Typed', Leaders, Unborn, OnFile, [Next]_vars
    PROVE  CopyIn'
<1> USE DEF procVars, regVars, sessVars, handVars, wakeVars, wireVars, histVars
<1>1. ASSUME NEW d \in Daemons, ClientCall(d) PROVE CopyIn'
  <2>1. UNCHANGED <<phase, reg, sess, ending, resuming, next, foreign, watch, owned,
     report, calls, born, forgot>>
    BY <1>1 DEF ClientCall
  <2> QED
    BY <2>1 DEF OnFile, CopyIn, Bystander, Nothing, Superseded
<1>2. CASE Dispatch \/ Forwarded
  <2>1. UNCHANGED <<phase, reg, sess, ending, resuming, next, foreign, watch, owned,
     report, calls, born, forgot>>
    BY <1>2 DEF Dispatch, Returns, Forwarded, Goes
  <2> QED
    BY <2>1 DEF OnFile, CopyIn, Bystander, Nothing, Superseded
<1>3. CASE UNCHANGED vars
  <2>1. UNCHANGED <<phase, reg, sess, ending, resuming, next, foreign, watch, owned,
     report, calls, born, forgot>>
    BY <1>3 DEF vars
  <2> QED
    BY <2>1 DEF OnFile, CopyIn, Bystander, Nothing, Superseded
<1>4. ASSUME NEW d \in Daemons, LoadRegistry(d) PROVE CopyIn'
  BY <1>4, DaemonsAssumption DEF Typed, TypeOK, OnFile, CopyIn, Bystander, Nothing,
     Superseded, LoadRegistry, FileIn
<1>5. ASSUME NEW d \in Daemons, Run(d) PROVE CopyIn'
  BY <1>5, DaemonsAssumption DEF Typed, TypeOK, OnFile, CopyIn, Bystander, Nothing,
     Superseded, Run
<1>6. ASSUME NEW d \in Daemons, OpenClaim(d) PROVE CopyIn'
  BY <1>6, DaemonsAssumption DEF Typed, TypeOK, OnFile, CopyIn, Bystander, Nothing,
     Superseded, OpenClaim, Lead
<1>7. ASSUME NEW d \in Daemons, Takeover(d) PROVE CopyIn'
  <2>1. PICK p \in Daemons : p = claim
    BY <1>7 DEF Takeover, Typed, TypeOK
  <2>2. /\ next' = [next EXCEPT ![p] = d] /\ calls' = calls
        /\ phase' = [phase EXCEPT ![d] = "reported"] /\ phase[d] = "calling"
             /\ phase[p] = "serving"
        /\ UNCHANGED <<reg, ending, resuming, foreign, born, forgot>>
        /\ \A e \in Daemons \ {p, d} : sess'[e] = sess[e] /\ owned'[e] = owned[e]
                                       /\ watch'[e] = watch[e] /\ report'[e] = report[e]
    BY <1>7, <2>1 DEF Takeover, Accepting, Typed, TypeOK
  <2>3. ~Superseded(p) /\ ~Superseded(d)
    BY <2>1, <2>2 DEF Leaders, Superseded
  <2>4. born /\ ~forgot => reg[p] # "absent" /\ reg[d] # "absent"
    BY <2>2, <2>3, HasEntry DEF OnFile
  <2> QED
    BY <2>1, <2>2, <2>4 DEF Typed, TypeOK, OnFile, CopyIn, Bystander, Nothing, Superseded
<1>8. ASSUME NEW d \in Daemons, Supersede(d) PROVE CopyIn'
  <2>1. phase[d] = "reported" /\ next[d] = None
    BY <1>8 DEF Supersede, Leaders
  <2>2. born /\ ~forgot => reg[d] # "absent"
    BY <2>1, HasEntry DEF OnFile, Superseded
  <2>3. report[d].kind = "handed" => report[d].entry # "absent"
    BY DEF OnFile, HandedIn
  <2>4. /\ born /\ ~forgot => reg'[d] # "absent"
        /\ \A e \in Daemons \ {d} : reg'[e] = reg[e] /\ phase'[e] = phase[e]
             /\ foreign'[e] = foreign[e] /\ report'[e] = report[e] /\ watch'[e] = watch[e]
    BY <1>8, <2>1, <2>2, <2>3 DEF Supersede, UpdateRegistry, Lead, Typed, TypeOK
  <2> QED
    BY <1>8, <2>4 DEF Supersede, OnFile, CopyIn, Bystander, Nothing, Superseded
<1>9. ASSUME NEW d \in Daemons, ResumeMarked(d) PROVE CopyIn'
  BY <1>9, DaemonsAssumption DEF Typed, TypeOK, OnFile, CopyIn, Bystander, Nothing,
     Superseded, ResumeMarked
<1>10. ASSUME NEW d \in Daemons, Spawn(d) PROVE CopyIn'
  <2>1. /\ calls = {} /\ \A e \in Daemons \ {d} :
                phase[e] \notin {"off", "exited"} => Superseded(e) /\ Nothing(e)
    BY <1>10, SpawnAlone
  <2>2. /\ reg'[d] = "plain" /\ UNCHANGED <<phase, next, foreign, resuming, owned, ending,
                                            report, watch, calls>>
        /\ \A e \in Daemons \ {d} : reg'[e] = reg[e] /\ sess'[e] = sess[e]
    BY <1>10 DEF Spawn, UpdateRegistry, Notify, Typed, TypeOK
  <2> QED
    BY <2>1, <2>2 DEF CopyIn, Bystander, Nothing, Superseded
<1>11. ASSUME NEW d \in Daemons, StartTurn(d) PROVE CopyIn'
  <2>1. born /\ ~forgot => reg[d] # "absent"
    BY <1>11, HasEntry, DaemonsAssumption DEF OnFile, Superseded, Nothing, StartTurn,
       Up, Typed, Watches, Waited
  <2> QED
    BY <1>11, <2>1, DaemonsAssumption DEF Typed, TypeOK, OnFile, CopyIn, Bystander,
       Nothing, Superseded, StartTurn, Notify
<1>12. ASSUME NEW d \in Daemons, EndTurn(d) PROVE CopyIn'
  <2>1. born /\ ~forgot => reg[d] # "absent"
    BY <1>12, HasEntry, DaemonsAssumption DEF OnFile, Superseded, Nothing, EndTurn, Up,
       Typed, Watches, Waited
  <2> QED
    BY <1>12, <2>1, DaemonsAssumption DEF Typed, TypeOK, OnFile, CopyIn, Bystander,
       Nothing, Superseded, EndTurn, Notify
<1>13. ASSUME NEW d \in Daemons, Adopt(d) PROVE CopyIn'
  BY <1>13, DaemonsAssumption DEF Typed, TypeOK, OnFile, CopyIn, Bystander, Nothing,
     Superseded, Adopt
<1>14. ASSUME NEW d \in Daemons, ResumeHanded(d) PROVE CopyIn'
  <2>1. born /\ ~forgot => reg[d] # "absent"
    BY <1>14, HasEntry, DaemonsAssumption DEF OnFile, Superseded, Nothing,
       ResumeHanded, Up, Typed, Watches, Waited
  <2> QED
    BY <1>14, <2>1, DaemonsAssumption DEF Typed, TypeOK, OnFile, CopyIn, Bystander,
       Nothing, Superseded, ResumeHanded, Notify
<1>15. ASSUME NEW d \in Daemons, LaunchSettles(d) PROVE CopyIn'
  <2>1. born /\ ~forgot => reg[d] # "absent"
    BY <1>15, HasEntry, DaemonsAssumption DEF OnFile, Superseded, Nothing,
       LaunchSettles, Up
  <2> QED
    BY <1>15, <2>1, DaemonsAssumption DEF Typed, TypeOK, OnFile, CopyIn, Bystander,
       Nothing, Superseded, LaunchSettles, Notify, UpdateRegistry
<1>16. ASSUME NEW d \in Daemons, Ended(d) PROVE CopyIn'
  <2>1. born /\ ~forgot => reg[d] # "absent"
    BY <1>16, HasEntry DEF OnFile, Superseded, Nothing, Ended, Up
  <2>2. /\ born /\ ~forgot' => reg'[d] # "absent"
        /\ (forgot => forgot') /\ born' = born
        /\ UNCHANGED <<phase, next, sess, foreign, resuming, owned, report, watch, calls>>
        /\ \A e \in Daemons \ {d} : reg'[e] = reg[e] /\ ending'[e] = ending[e]
    BY <1>16, <2>1 DEF Ended, UpdateRegistry, Notify, Typed, TypeOK
  <2> QED
    BY <2>2 DEF OnFile, CopyIn, Bystander, Nothing, Superseded
<1>17. ASSUME NEW d \in Daemons, NEW k \in {"close", "forget"},
             EndSession(d, k)
      PROVE  CopyIn'
  <2>1. born /\ ~forgot => reg[d] # "absent"
    BY <1>17, HasEntry DEF EndSession, Reached, Working, OnFile, Nothing
  <2> QED
    BY <1>17, <2>1 DEF EndSession, Notify, Typed, TypeOK, OnFile, CopyIn, Bystander,
          Nothing, Superseded
<1>18. ASSUME NEW d \in Daemons, OtherProgress(d) PROVE CopyIn'
  BY <1>18, DaemonsAssumption DEF Typed, TypeOK, OnFile, CopyIn, Bystander, Nothing,
     Superseded, OtherProgress, Notify, UpdateRegistry
<1>19. ASSUME NEW d \in Daemons, Scan(d) PROVE CopyIn'
  <2>1. born /\ ~forgot => reg[d] # "absent" \/ (sess[d] = "none" /\ ~owned[d])
    BY <1>19, HasEntry DEF Scan, Up, OnFile, Nothing
  <2>2. \A k, x : Call(d, k, x).stage = "sent"
    BY DEF Call
  <2>3. \A e \in Daemons : (\A b \in calls : b.stage = "claimed" => Server(b) # e)
                             => \A b \in calls' : b.stage = "claimed" => Server(b) # e
    BY <1>19, <2>2 DEF Scan
  <2>4. /\ UNCHANGED <<phase, next, reg, foreign, resuming, ending, report, born, forgot>>
        /\ \A e \in Daemons \ {d} :
             sess'[e] = sess[e] /\ owned'[e] = owned[e] /\ watch'[e] = watch[e]
        /\ sess[d] = "none" /\ ~owned[d]
             => sess'[d] = "none" /\ ~owned'[d] /\ watch'[d] = "check"
    BY <1>19 DEF Scan, Typed, TypeOK
  <2> QED
    BY <2>1, <2>3, <2>4 DEF OnFile, CopyIn, Bystander, Nothing, Superseded
<1>20. ASSUME NEW d \in Daemons, NEW c \in calls, Reported(d, c) PROVE CopyIn'
  <2>1. born /\ ~forgot => reg[d] # "absent"
    BY <1>20, HasEntry, DaemonsAssumption DEF OnFile, Superseded, Nothing, Reported,
       Up, Typed, Watches, Waited
  <2> QED
    BY <1>20, <2>1, DaemonsAssumption DEF Typed, TypeOK, OnFile, CopyIn, Bystander,
       Nothing, Superseded, Reported, Notify
<1>21. ASSUME NEW d \in Daemons, Check(d) PROVE CopyIn'
  BY <1>21, DaemonsAssumption DEF Typed, TypeOK, OnFile, CopyIn, Bystander, Nothing,
     Superseded, Check, Done
<1>22. ASSUME NEW d \in Daemons, Watch(d) PROVE CopyIn'
  <2>1. born /\ ~forgot => reg[d] # "absent"
    BY <1>22, HasEntry, DaemonsAssumption DEF OnFile, Superseded, Nothing, Watch, Up,
       Typed, Watches, Waited
  <2> QED
    BY <1>22, <2>1, DaemonsAssumption DEF Typed, TypeOK, OnFile, CopyIn, Bystander,
       Nothing, Superseded, Watch
<1>23. ASSUME NEW d \in Daemons, Reclaim(d) PROVE CopyIn'
  BY <1>23, DaemonsAssumption DEF Typed, TypeOK, OnFile, CopyIn, Bystander, Nothing,
     Superseded, Reclaim
<1>24. ASSUME NEW d \in Daemons, Merge(d) PROVE CopyIn'
  <2>1. born /\ ~forgot => recorded[d] # "absent"
    BY <1>24 DEF Merge, OnFile, ReadIn
  <2>2. /\ born /\ ~forgot => reg'[d] # "absent"
        /\ \A e \in Daemons \ {d} : reg'[e] = reg[e] /\ phase'[e] = phase[e]
                                    /\ next'[e] = next[e] /\ owned'[e] = owned[e]
    BY <1>24, <2>1 DEF Merge, Typed, TypeOK
  <2> QED
    BY <1>24, <2>2 DEF Merge, OnFile, CopyIn, Bystander, Nothing, Superseded
<1>25. ASSUME NEW d \in Daemons, Exit(d) PROVE CopyIn'
  <2>1. \A q \in calls' : \E c \in calls : c \in Calls /\ q \in Cut(c, d)
    BY <1>25 DEF Exit, Gone, Typed, TypeOK
  <2>2. \A e \in Daemons : (\A b \in calls : b.stage = "claimed" => Server(b) # e)
                             => \A b \in calls' : b.stage = "claimed" => Server(b) # e
    BY <2>1, CutKeeps
  <2>3. /\ phase' = [phase EXCEPT ![d] = "exited"] /\ UNCHANGED <<born, forgot>>
        /\ \A e \in Daemons \ {d} :
             /\ sess'[e] = sess[e] /\ foreign'[e] = foreign[e] /\ resuming'[e] = resuming[e]
             /\ owned'[e] = owned[e] /\ ending'[e] = ending[e] /\ reg'[e] = reg[e]
             /\ report'[e] = report[e] /\ watch'[e] = watch[e] /\ next'[e] = next[e]
    BY <1>25 DEF Exit, Gone, Typed, TypeOK
  <2>4. phase'[d] = "exited" /\ \A e \in Daemons \ {d} : phase'[e] = phase[e]
    BY <2>3 DEF Typed, TypeOK
  <2>5. ASSUME NEW e \in Daemons \ {d}, Bystander(e) PROVE Bystander(e)'
    BY <2>2, <2>3, <2>5 DEF Bystander, Nothing, Superseded
  <2>6. ASSUME born, ~forgot, NEW e \in Daemons, phase'[e] \notin {"off", "exited"}
        PROVE  reg'[e] # "absent" \/ Bystander(e)'
    <3>1. e # d /\ phase[e] \notin {"off", "exited"} /\ reg'[e] = reg[e]
      BY <2>3, <2>4, <2>6
    <3>2. reg[e] # "absent" \/ Bystander(e)
      BY <2>6, <3>1 DEF OnFile, CopyIn
    <3> QED
      BY <2>5, <3>1, <3>2
  <2> QED
    BY <2>3, <2>6 DEF CopyIn
<1>26. ASSUME NEW d \in Daemons, Crash(d) PROVE CopyIn'
  <2>1. \A q \in calls' : \E c \in calls : c \in Calls /\ q \in Cut(c, d)
    BY <1>26 DEF Crash, Gone, Typed, TypeOK
  <2>2. \A e \in Daemons : (\A b \in calls : b.stage = "claimed" => Server(b) # e)
                             => \A b \in calls' : b.stage = "claimed" => Server(b) # e
    BY <2>1, CutKeeps
  <2>3. /\ phase' = [phase EXCEPT ![d] = "exited"] /\ UNCHANGED <<born, forgot>>
        /\ \A e \in Daemons \ {d} :
             /\ sess'[e] = sess[e] /\ foreign'[e] = foreign[e] /\ resuming'[e] = resuming[e]
             /\ owned'[e] = owned[e] /\ ending'[e] = ending[e] /\ reg'[e] = reg[e]
             /\ report'[e] = report[e] /\ watch'[e] = watch[e] /\ next'[e] = next[e]
    BY <1>26 DEF Crash, Gone, Typed, TypeOK
  <2>4. phase'[d] = "exited" /\ \A e \in Daemons \ {d} : phase'[e] = phase[e]
    BY <2>3 DEF Typed, TypeOK
  <2>5. ASSUME NEW e \in Daemons \ {d}, Bystander(e) PROVE Bystander(e)'
    BY <2>2, <2>3, <2>5 DEF Bystander, Nothing, Superseded
  <2>6. ASSUME born, ~forgot, NEW e \in Daemons, phase'[e] \notin {"off", "exited"}
        PROVE  reg'[e] # "absent" \/ Bystander(e)'
    <3>1. e # d /\ phase[e] \notin {"off", "exited"} /\ reg'[e] = reg[e]
      BY <2>3, <2>4, <2>6
    <3>2. reg[e] # "absent" \/ Bystander(e)
      BY <2>6, <3>1 DEF OnFile, CopyIn
    <3> QED
      BY <2>5, <3>1, <3>2
  <2> QED
    BY <2>3, <2>6 DEF CopyIn
<1>27. ASSUME NEW d \in Daemons, LeadFails(d) PROVE CopyIn'
  <2>1. \A q \in calls' : \E c \in calls : c \in Calls /\ q \in Cut(c, d)
    BY <1>27 DEF LeadFails, Gone, Typed, TypeOK
  <2>2. \A e \in Daemons : (\A b \in calls : b.stage = "claimed" => Server(b) # e)
                             => \A b \in calls' : b.stage = "claimed" => Server(b) # e
    BY <2>1, CutKeeps
  <2>3. /\ phase' = [phase EXCEPT ![d] = "exited"] /\ UNCHANGED <<born, forgot>>
        /\ \A e \in Daemons \ {d} :
             /\ sess'[e] = sess[e] /\ foreign'[e] = foreign[e] /\ resuming'[e] = resuming[e]
             /\ owned'[e] = owned[e] /\ ending'[e] = ending[e] /\ reg'[e] = reg[e]
             /\ report'[e] = report[e] /\ watch'[e] = watch[e] /\ next'[e] = next[e]
    BY <1>27 DEF LeadFails, Gone, Typed, TypeOK
  <2>4. phase'[d] = "exited" /\ \A e \in Daemons \ {d} : phase'[e] = phase[e]
    BY <2>3 DEF Typed, TypeOK
  <2>5. ASSUME NEW e \in Daemons \ {d}, Bystander(e) PROVE Bystander(e)'
    BY <2>2, <2>3, <2>5 DEF Bystander, Nothing, Superseded
  <2>6. ASSUME born, ~forgot, NEW e \in Daemons, phase'[e] \notin {"off", "exited"}
        PROVE  reg'[e] # "absent" \/ Bystander(e)'
    <3>1. e # d /\ phase[e] \notin {"off", "exited"} /\ reg'[e] = reg[e]
      BY <2>3, <2>4, <2>6
    <3>2. reg[e] # "absent" \/ Bystander(e)
      BY <2>6, <3>1 DEF OnFile, CopyIn
    <3> QED
      BY <2>5, <3>1, <3>2
  <2> QED
    BY <2>3, <2>6 DEF CopyIn
<1>28. ASSUME NEW c \in calls, Relay(c) PROVE CopyIn'
  <2> DEFINE r == [c EXCEPT !.path = Append(c.path, next[Server(c)])]
  <2>1. r.stage = "claimed" => c.stage = "claimed" /\ Server(r) = Server(c)
    BY <1>28, EditFields DEF Typed, TypeOK, Server, Relay
  <2>2. calls' = (calls \ {c}) \cup {r} \/ calls' = calls \ {c}
    BY <1>28 DEF Relay, Replace
  <2> HIDE DEF r
  <2>3. \A e \in Daemons : (\A b \in calls : b.stage = "claimed" => Server(b) # e)
                             => \A b \in calls' : b.stage = "claimed" => Server(b) # e
    BY <2>1, <2>2
  <2> QED
    BY <1>28, <2>3 DEF Relay, OnFile, CopyIn, Bystander, Nothing, Superseded
<1>29. ASSUME NEW c \in calls, Unreachable(c) PROVE CopyIn'
  <2> DEFINE r == [c EXCEPT !.stage = "err", !.path = Front(c.path)]
  <2>1. r.stage = "claimed" => c.stage = "claimed" /\ Server(r) = Server(c)
    BY <1>29, EditFields DEF Typed, TypeOK, Server, Unreachable
  <2>2. calls' = (calls \ {c}) \cup {r} \/ calls' = calls \ {c}
    BY <1>29 DEF Unreachable, Replace
  <2> HIDE DEF r
  <2>3. \A e \in Daemons : (\A b \in calls : b.stage = "claimed" => Server(b) # e)
                             => \A b \in calls' : b.stage = "claimed" => Server(b) # e
    BY <2>1, <2>2
  <2> QED
    BY <1>29, <2>3 DEF Unreachable, OnFile, CopyIn, Bystander, Nothing, Superseded
<1>30. ASSUME NEW c \in calls, ClaimHandoff(c) PROVE CopyIn'
  <2> DEFINE r == [c EXCEPT !.stage = "claimed"]
             s == Server(c)
  <2>1. Server(r) = s /\ calls' = (calls \ {c}) \cup {r}
    BY <1>30, EditFields DEF Typed, TypeOK, Server, ClaimHandoff, Replace
  <2>2. ~Superseded(s) /\ (\A e \in Daemons : e # s => resuming'[e] = resuming[e])
    BY <1>30 DEF ClaimHandoff, Typed, TypeOK
  <2> HIDE DEF r, s
  <2> QED
    BY <1>30, <2>1, <2>2 DEF ClaimHandoff, OnFile, CopyIn, Bystander, Nothing, Superseded
<1>31. ASSUME NEW c \in calls, AcceptHandoff(c) PROVE CopyIn'
  <2> DEFINE r == [c EXCEPT !.stage = "ok"]
             s == Server(c)
  <2>0. born /\ ~forgot => c.entry # "absent"
    BY <1>31 DEF OnFile, WireIn
  <2>1. r.stage = "ok" /\ calls' = (calls \ {c}) \cup {r}
    BY <1>31, EditFields DEF Typed, TypeOK, AcceptHandoff, Replace
  <2>2. /\ \A e \in Daemons : e # s => /\ resuming'[e] = resuming[e] /\ reg'[e] = reg[e]
                                       /\ foreign'[e] = foreign[e]
        /\ s \in Daemons => reg'[s] = c.entry
    BY <1>31 DEF AcceptHandoff, UpdateRegistry, Typed, TypeOK
  <2> HIDE DEF r, s
  <2> QED
    BY <1>31, <2>0, <2>1, <2>2 DEF AcceptHandoff, OnFile, CopyIn, Bystander, Nothing,
          Superseded
<1>32. ASSUME NEW c \in calls, AcceptRelease(c) PROVE CopyIn'
  <2> DEFINE r == [c EXCEPT !.stage = "ok"]
             s == Server(c)
  <2>0. born /\ ~forgot => c.entry # "absent"
    BY <1>32 DEF OnFile, WireIn
  <2>1. r.stage = "ok" /\ calls' = (calls \ {c}) \cup {r}
    BY <1>32, EditFields DEF Typed, TypeOK, AcceptRelease, Replace
  <2>2. /\ \A e \in Daemons : e # s => /\ resuming'[e] = resuming[e] /\ reg'[e] = reg[e]
                                       /\ foreign'[e] = foreign[e]
        /\ s \in Daemons => reg'[s] = c.entry
    BY <1>32 DEF AcceptRelease, UpdateRegistry, Typed, TypeOK
  <2> HIDE DEF r, s
  <2> QED
    BY <1>32, <2>0, <2>1, <2>2 DEF AcceptRelease, OnFile, CopyIn, Bystander, Nothing,
          Superseded
<1>33. ASSUME NEW c \in calls, Answer(c) PROVE CopyIn'
  <2> DEFINE r == [c EXCEPT !.path = Front(c.path)]
  <2>1. r.stage = "claimed" => c.stage = "claimed" /\ Server(r) = Server(c)
    BY <1>33, EditFields DEF Typed, TypeOK, Server, Answer
  <2>2. calls' = (calls \ {c}) \cup {r} \/ calls' = calls \ {c}
    BY <1>33 DEF Answer, Replace
  <2> HIDE DEF r
  <2>3. \A e \in Daemons : (\A b \in calls : b.stage = "claimed" => Server(b) # e)
                             => \A b \in calls' : b.stage = "claimed" => Server(b) # e
    BY <2>1, <2>2
  <2> QED
    BY <1>33, <2>3 DEF Answer, Typed, TypeOK, OnFile, CopyIn, Bystander, Nothing, Superseded
<1>34. CASE Connect
  BY <1>34, DaemonsAssumption DEF Typed, TypeOK, OnFile, CopyIn, Bystander, Nothing,
     Superseded, Connect, Goes
<1> QED
  BY <1>1, <1>2, <1>3, <1>4, <1>5, <1>6, <1>7, <1>8, <1>9, <1>10, <1>11, <1>12, <1>13,
     <1>14, <1>15, <1>16, <1>17, <1>18, <1>19, <1>20, <1>21, <1>22, <1>23, <1>24,
     <1>25, <1>26, <1>27, <1>28, <1>29, <1>30, <1>31, <1>32, <1>33, <1>34 DEF Next,
     Caller, Start, Work, Watcher, Again, Peer, Client

\* Step by step, together.
LEMMA OnFileNext ==
    ASSUME SpawnsFresh, Typed, Typed', Leaders, Unborn, OnFile, [Next]_vars
    PROVE  OnFile'
BY FileInNext, CopyInNext, ReadInNext, WireInNext, HandedInNext DEF OnFile

\* Where the session is not started there is no trace of it at first.
LEMMA InitUnborn == Init => Unborn
BY DEF Init, Unborn, Nothing, NoReport

\* At first one daemon leads, and it has the entry.
LEMMA InitOnFile == Init => Leaders /\ OnFile
<1> SUFFICES ASSUME Init PROVE Leaders /\ OnFile
  OBVIOUS
<1> USE DEF Init
<1>1. Leaders
  BY DaemonsAssumption DEF Leaders, Superseded
<1>2. OnFile
  BY DEF OnFile, FileIn, CopyIn, ReadIn, WireIn, HandedIn, NoReport
<1> QED
  BY <1>1, <1>2

\* A session that was started and not forgotten is in registry.json, whoever
\* wrote it last, with any number of daemons, crashes and attempts and whatever
\* else may happen, if it starts where SpawnsFresh says (MCHandover's
\* `generations`).
THEOREM RegisteredHolds ==
    ASSUME SpawnsFresh
    PROVE  Spec => []Registered
<1> DEFINE I == Typed /\ Leaders /\ Unborn /\ OnFile
<1>1. Init => I
  BY InitTyped, InitUnborn, InitOnFile
<1>2. I /\ [Next]_vars => I'
  BY NextTyped, UnbornNext, LeadersNext, OnFileNext
<1>3. I => Registered
  BY DEF OnFile, FileIn, Registered
<1> HIDE DEF I
<1> QED
  BY <1>1, <1>2, <1>3, PTL DEF Spec

-----------------------------------------------------------------------------
(* One owner: nobody is killed, nobody leads again                         *)

\* Calls reach only the newest daemon and what it forwards to, and a takeover
\* overlaps nothing.
Tidy == Events \cap {"old", "cross", "overlap"} = {}

\* Besides, no process is killed, and an exit waits for the answers it relays.
Orderly == Tidy /\ Crashes = 0 /\ "cut" \notin Events

\* So is a step, whatever other steps may be.
Plain ==
    /\ Events \cap {"old", "cross", "overlap"} = {}
    /\ \A d \in Daemons : ~Crash(d) /\ (Exit(d) => "cut" \notin Events)

\* With these constants every step is plain.
LEMMA PlainStep ==
    ASSUME Orderly, Typed
    PROVE  Plain
<1>1. ASSUME NEW d \in Daemons, Crash(d) PROVE FALSE
  BY <1>1, BoundsAssumption DEF Orderly, Crash, Typed, TypeOK
<1> QED
  BY <1>1 DEF Orderly, Tidy, Plain

\* No superseded daemon outlives its successor.
NoneLeadsAgain == \A d \in Daemons : phase[d] # "orphaned"

\* The claim's holder, or the daemon that has superseded it.
Newest(d) == claim = d \/ phase[d] = "reported"

\* One daemon leads at a time, one has the claim or is about to have it, and
\* every other daemon that serves is superseded.
Line ==
    /\ \A d \in Daemons :
         /\ phase[d] \in {"leading", "calling", "reported"} <=> succession = d
         /\ phase[d] \notin {"orphaned", "merging"} /\ watch[d] # "gone"
         /\ Superseded(d) => phase[d] = "serving" /\ watch[d] # "off" /\ claim # d
         /\ phase[d] \in {"resume", "load", "serving"} /\ ~Superseded(d) => claim = d
    /\ claim = None <=> \E d \in Daemons : phase[d] = "reported"
    /\ claim # None => phase[claim] \in {"resume", "load", "serving"}

\* A daemon that does not serve has nothing of the session, and before it leads
\* nobody knows of it.
Outside ==
    \A d \in Daemons :
        /\ phase[d] \in {"off", "loaded", "leading", "calling", "reported", "exited"}
             => /\ sess[d] = "none" /\ resuming[d] = "no" /\ ending[d] = "none"
                /\ foreign[d] = None /\ next[d] = None /\ ~owned[d]
        /\ phase[d] \in {"off", "loaded", "leading", "calling"}
             => \A e \in Daemons : next[e] # d
        /\ phase[d] \in {"off", "loaded", "leading", "calling", "reported"}
             => \A e \in Daemons : foreign[e] # d /\ report[e].owner # d
        /\ phase[d] # "reported" => report[d] = NoReport
        /\ phase[d] = "resume"
             => sess[d] = "none" /\ resuming[d] = "no" /\ ending[d] = "none"
        /\ phase[d] = "load" => sess[d] = "launching" /\ resuming[d] = "no"
        /\ phase[d] \in {"resume", "load"} => ending[d] = "none" /\ ~owned[d]
        /\ foreign[d] # d

\* A report's maker is superseded, and ships the session or has not got it.
CallFrom ==
    \A c \in calls :
        /\ c.from \in Daemons /\ Superseded(c.from)
        /\ c.kind = "handoff" => sess[c.from] = "handing" /\ c.entry = "marked"
        /\ c.kind = "release" => sess[c.from] = "none" /\ ~owned[c.from]

\* One that is claimed has its claim, alone.
CallClaimed ==
    \A c \in calls : c.stage = "claimed" =>
        /\ c.kind = "handoff" /\ c.path # << >> /\ resuming[Server(c)] = "claimed"
        /\ \A b \in calls : b.stage = "claimed" /\ b.path # << >> /\ Server(b) = Server(c)
                              => b = c

\* It is relayed along the successors.
CallPath ==
    \A c \in calls :
        /\ c.path # << >> => c.path[1] = next[c.from]
        /\ \A i \in 1..Len(c.path) : i < Len(c.path) =>
             Superseded(c.path[i]) /\ c.path[i + 1] = next[c.path[i]]

CallShape == CallFrom /\ CallClaimed /\ CallPath

\* Where a call can reach the session's tools: at the claim's holder, or where
\* that forwards to.
LEMMA ReachedWhere ==
    ASSUME Plain, Typed, Line, Outside, NEW d \in Daemons, Reached(d)
    PROVE  /\ phase[d] = "serving" /\ claim # None /\ phase[claim] = "serving"
           /\ claim = d => foreign[d] = None /\ resuming[d] = "no"
           /\ claim # d => foreign[claim] = d
<1>1. PICK e \in Daemons :
              Working(e) /\ ~Superseded(e) /\ Route(e) = d /\ d \in {e, foreign[e]}
  BY DEF Reached, Called, Plain
<1>2. phase[e] = "serving" /\ phase[d] = "serving"
  BY <1>1 DEF Reached, Working, Line
<1>3. claim = e
  BY <1>1, <1>2 DEF Line
<1>4. foreign[e] # e
  BY DEF Outside
<1>5. foreign[e] # None => foreign[e] = d
  BY <1>1 DEF Route
<1>6. foreign[e] = None => d = e /\ resuming[e] = "no"
  BY <1>1, DaemonsAssumption DEF Route
<1> QED
  BY <1>2, <1>3, <1>4, <1>5, <1>6, DaemonsAssumption

\* Who leads and who is superseded, step by step.
LEMMA LineNext ==
    ASSUME Plain, Typed, Typed', Line, NoneLeadsAgain, NoneLeadsAgain', [Next]_vars
    PROVE  Line'
<1> USE DEF procVars, regVars, sessVars, handVars, wakeVars, wireVars, histVars
<1>1. ASSUME NEW d \in Daemons,
             Spawn(d) \/ StartTurn(d) \/ EndTurn(d) \/ Adopt(d) \/ ResumeHanded(d) \/
                Ended(d) \/ OtherProgress(d) \/ ClientCall(d)
      PROVE  Line'
  <2>1. UNCHANGED <<phase, succession, claim, next, watch>>
    BY <1>1 DEF Spawn, Notify, UpdateRegistry, StartTurn, EndTurn, Adopt,
       ResumeHanded, Ended, OtherProgress, ClientCall
  <2> QED
    BY <2>1 DEF Line, Superseded
<1>2. ASSUME NEW c \in calls,
             Relay(c) \/ Unreachable(c) \/ ClaimHandoff(c) \/ AcceptHandoff(c) \/
                AcceptRelease(c) \/ Answer(c)
      PROVE  Line'
  <2>1. UNCHANGED <<phase, succession, claim, next, watch>>
    BY <1>2 DEF Relay, Replace, Unreachable, ClaimHandoff, AcceptHandoff,
       UpdateRegistry, AcceptRelease, Answer, Notify
  <2> QED
    BY <2>1 DEF Line, Superseded
<1>3. ASSUME NEW d \in Daemons, NEW k \in {"close", "forget"},
             EndSession(d, k)
      PROVE  Line'
  <2>1. UNCHANGED <<phase, succession, claim, next, watch>>
    BY <1>3 DEF EndSession, Notify
  <2> QED
    BY <2>1 DEF Line, Superseded
<1>4. CASE Dispatch \/ Connect \/ Forwarded
  <2>1. UNCHANGED <<phase, succession, claim, next, watch>>
    BY <1>4 DEF Dispatch, Returns, Connect, Goes, Forwarded
  <2> QED
    BY <2>1 DEF Line, Superseded
<1>5. CASE UNCHANGED vars
  <2>1. UNCHANGED <<phase, succession, claim, next, watch>>
    BY <1>5 DEF vars
  <2> QED
    BY <2>1 DEF Line, Superseded
<1>6. ASSUME NEW d \in Daemons, LoadRegistry(d) PROVE Line'
  BY <1>6, DaemonsAssumption DEF Typed, TypeOK, Line, Superseded, LoadRegistry
<1>7. ASSUME NEW d \in Daemons, Run(d) PROVE Line'
  BY <1>7, DaemonsAssumption DEF Typed, TypeOK, Line, Superseded, Run
<1>8. ASSUME NEW d \in Daemons, OpenClaim(d) PROVE Line'
  <2>1. claim # None
    BY <1>8, DaemonsAssumption DEF OpenClaim, Line
  <2> QED
    BY <1>8, <2>1, DaemonsAssumption DEF OpenClaim, Lead, Line, Superseded, Typed, TypeOK
<1>9. ASSUME NEW d \in Daemons, Takeover(d) PROVE Line'
  <2>1. PICK p \in Daemons : p = claim
    BY <1>9 DEF Takeover, Typed, TypeOK
  <2>2. /\ next' = [next EXCEPT ![p] = d] /\ claim' = None /\ succession' = succession
        /\ watch' = [watch EXCEPT ![p] = "scan"] /\ phase[d] = "calling"
             /\ phase[p] = "serving"
        /\ phase' = [phase EXCEPT ![d] = "reported"]
    BY <1>9, <2>1 DEF Takeover, Accepting
  <2> QED
    BY <1>9, <2>1, <2>2, DaemonsAssumption DEF Line, Superseded, Typed, TypeOK
<1>10. ASSUME NEW d \in Daemons, Supersede(d) PROVE Line'
  <2>1. /\ phase' = [phase EXCEPT ![d] = "resume"] /\ claim' = d /\ succession' = None
        /\ watch' = [watch EXCEPT ![d] = "off"] /\ next' = next /\ phase[d] = "reported"
    BY <1>10 DEF Supersede, Lead, Line
  <2>2. claim = None /\ succession = d /\ ~Superseded(d)
    BY <2>1 DEF Line
  <2> QED
    BY <1>10, <2>1, <2>2, DaemonsAssumption DEF Line, Superseded, Typed, TypeOK
<1>11. ASSUME NEW d \in Daemons, ResumeMarked(d) PROVE Line'
  BY <1>11, DaemonsAssumption DEF Typed, TypeOK, Line, Superseded, ResumeMarked
<1>12. ASSUME NEW d \in Daemons, LaunchSettles(d) PROVE Line'
  BY <1>12, DaemonsAssumption DEF Typed, TypeOK, Line, Superseded, LaunchSettles,
     Notify, UpdateRegistry
<1>13. ASSUME NEW d \in Daemons, Scan(d) PROVE Line'
  BY <1>13, DaemonsAssumption DEF Typed, TypeOK, Line, Superseded, Scan
<1>14. ASSUME NEW d \in Daemons, NEW c \in calls, Reported(d, c) PROVE Line'
  BY <1>14, DaemonsAssumption DEF Typed, TypeOK, Line, Superseded, Reported, Notify,
     Waited
<1>15. ASSUME NEW d \in Daemons, Check(d) PROVE Line'
  BY <1>15, DaemonsAssumption DEF Typed, TypeOK, Line, Superseded, Check
<1>16. ASSUME NEW d \in Daemons, Watch(d) PROVE Line'
  BY <1>16, DaemonsAssumption DEF Typed, TypeOK, Line, Superseded, Watch,
     NoneLeadsAgain
<1>17. ASSUME NEW d \in Daemons, Reclaim(d) PROVE Line'
  BY <1>17 DEF Reclaim, Line
<1>18. ASSUME NEW d \in Daemons, Merge(d) PROVE Line'
  BY <1>18 DEF Merge, Line
<1>19. ASSUME NEW d \in Daemons, Exit(d) PROVE Line'
  BY <1>19, DaemonsAssumption DEF Typed, TypeOK, Line, Superseded, Exit, Gone, Watches
<1>20. ASSUME NEW d \in Daemons, Crash(d) PROVE Line'
  BY <1>20 DEF Plain
<1>21. ASSUME NEW d \in Daemons, LeadFails(d) PROVE Line'
  BY <1>21 DEF LeadFails, Line
<1> QED
  BY <1>1, <1>2, <1>3, <1>4, <1>5, <1>6, <1>7, <1>8, <1>9, <1>10, <1>11, <1>12, <1>13,
     <1>14, <1>15, <1>16, <1>17, <1>18, <1>19, <1>20, <1>21 DEF Next, Caller, Start,
     Work, Watcher, Again, Peer, Client

\* Step by step: who has nothing of the session.
LEMMA OutsideNext ==
    ASSUME Plain, Typed, Typed', Line, Line', Outside, Unborn, CallShape, [Next]_vars
    PROVE  Outside'
<1> USE DEF procVars, regVars, sessVars, handVars, wakeVars, wireVars, histVars
<1>1. ASSUME NEW d \in Daemons,
             OtherProgress(d) \/ Check(d) \/ ClientCall(d)
      PROVE  Outside'
  <2>1. UNCHANGED <<phase, sess, ending, resuming, next, foreign, owned, report>>
    BY <1>1 DEF OtherProgress, Notify, UpdateRegistry, Check, ClientCall
  <2> QED
    BY <2>1 DEF Outside
<1>2. ASSUME NEW c \in calls, Relay(c) \/ Unreachable(c) PROVE Outside'
  <2>1. UNCHANGED <<phase, sess, ending, resuming, next, foreign, owned, report>>
    BY <1>2 DEF Relay, Replace, Unreachable
  <2> QED
    BY <2>1 DEF Outside
<1>3. CASE Dispatch \/ Forwarded
  <2>1. UNCHANGED <<phase, sess, ending, resuming, next, foreign, owned, report>>
    BY <1>3 DEF Dispatch, Returns, Forwarded, Goes
  <2> QED
    BY <2>1 DEF Outside
<1>4. CASE UNCHANGED vars
  <2>1. UNCHANGED <<phase, sess, ending, resuming, next, foreign, owned, report>>
    BY <1>4 DEF vars
  <2> QED
    BY <2>1 DEF Outside
<1>5. ASSUME NEW d \in Daemons, LoadRegistry(d) PROVE Outside'
  BY <1>5, DaemonsAssumption DEF Typed, TypeOK, Outside, LoadRegistry
<1>6. ASSUME NEW d \in Daemons, Run(d) PROVE Outside'
  BY <1>6, DaemonsAssumption DEF Typed, TypeOK, Outside, Run
<1>7. ASSUME NEW d \in Daemons, OpenClaim(d) PROVE Outside'
  BY <1>7, DaemonsAssumption DEF Typed, TypeOK, Outside, OpenClaim, Lead, Line
<1>8. ASSUME NEW d \in Daemons, Takeover(d) PROVE Outside'
  <2>1. PICK p \in Daemons : p = claim
    BY <1>8 DEF Takeover, Typed, TypeOK
  <2>2. /\ next' = [next EXCEPT ![p] = d] /\ phase' = [phase EXCEPT ![d] = "reported"]
        /\ phase[d] = "calling" /\ phase[p] = "serving" /\ p # d
        /\ report' = [report EXCEPT ![d] = Partition(p)]
        /\ UNCHANGED <<ending, resuming, foreign>>
        /\ \A e \in Daemons \ {p} : sess'[e] = sess[e] /\ owned'[e] = owned[e]
    BY <1>8, <2>1 DEF Takeover, Accepting, Typed, TypeOK
  <2>3. Partition(p).owner \in {None, p, foreign[p]}
    BY DEF Partition, NoReport
  <2> HIDE DEF Partition
  <2> QED
    BY <2>1, <2>2, <2>3, DaemonsAssumption DEF Outside, Typed, TypeOK
<1>9. ASSUME NEW d \in Daemons, Supersede(d) PROVE Outside'
  BY <1>9, DaemonsAssumption DEF Typed, TypeOK, Outside, Supersede, Lead,
     UpdateRegistry, NoReport, Reports
<1>10. ASSUME NEW d \in Daemons, ResumeMarked(d) PROVE Outside'
  BY <1>10, DaemonsAssumption DEF Typed, TypeOK, Outside, ResumeMarked
<1>11. ASSUME NEW d \in Daemons, Spawn(d) PROVE Outside'
  BY <1>11, DaemonsAssumption DEF Typed, TypeOK, Outside, Spawn, Notify,
     UpdateRegistry, Unborn, Nothing, Called, Working, Line, Plain
<1>12. ASSUME NEW d \in Daemons, StartTurn(d) PROVE Outside'
  BY <1>12, DaemonsAssumption DEF Typed, TypeOK, Outside, StartTurn, Notify
<1>13. ASSUME NEW d \in Daemons, EndTurn(d) PROVE Outside'
  BY <1>13, DaemonsAssumption DEF Typed, TypeOK, Outside, EndTurn, Notify
<1>14. ASSUME NEW d \in Daemons, Adopt(d) PROVE Outside'
  BY <1>14, DaemonsAssumption, ReachedWhere DEF Typed, TypeOK, Outside, Adopt
<1>15. ASSUME NEW d \in Daemons, ResumeHanded(d) PROVE Outside'
  BY <1>15, DaemonsAssumption DEF Typed, TypeOK, Outside, ResumeHanded, Notify
<1>16. ASSUME NEW d \in Daemons, LaunchSettles(d) PROVE Outside'
  BY <1>16, DaemonsAssumption DEF Typed, TypeOK, Outside, LaunchSettles, Notify,
     UpdateRegistry
<1>17. ASSUME NEW d \in Daemons, Ended(d) PROVE Outside'
  BY <1>17, DaemonsAssumption DEF Typed, TypeOK, Outside, Ended, Notify,
     UpdateRegistry, Up
<1>18. ASSUME NEW d \in Daemons, NEW k \in {"close", "forget"},
             EndSession(d, k)
      PROVE  Outside'
  BY <1>18, DaemonsAssumption, ReachedWhere DEF Typed, TypeOK, Outside, EndSession,
     Notify
<1>19. ASSUME NEW d \in Daemons, Scan(d) PROVE Outside'
  BY <1>19, DaemonsAssumption DEF Typed, TypeOK, Outside, Scan, Watches
<1>20. ASSUME NEW d \in Daemons, NEW c \in calls, Reported(d, c) PROVE Outside'
  BY <1>20, DaemonsAssumption DEF Typed, TypeOK, Outside, Reported, Notify, CallShape,
     CallFrom, Line
<1>21. ASSUME NEW d \in Daemons, Watch(d) PROVE Outside'
  BY <1>21, DaemonsAssumption DEF Typed, TypeOK, Outside, Watch, Line
<1>22. ASSUME NEW d \in Daemons, Reclaim(d) PROVE Outside'
  BY <1>22, DaemonsAssumption DEF Typed, TypeOK, Outside, Reclaim, Line
<1>23. ASSUME NEW d \in Daemons, Merge(d) PROVE Outside'
  BY <1>23, DaemonsAssumption DEF Typed, TypeOK, Outside, Merge, Line
<1>24. ASSUME NEW d \in Daemons, Exit(d) PROVE Outside'
  BY <1>24, DaemonsAssumption DEF Typed, TypeOK, Outside, Exit, Gone, Line, NoReport
<1>25. ASSUME NEW d \in Daemons, Crash(d) PROVE Outside'
  BY <1>25 DEF Plain
<1>26. ASSUME NEW d \in Daemons, LeadFails(d) PROVE Outside'
  BY <1>26, DaemonsAssumption DEF Typed, TypeOK, Outside, LeadFails, Gone, Line
<1>27. ASSUME NEW c \in calls, ClaimHandoff(c) PROVE Outside'
  <2>1. /\ resuming' = [resuming EXCEPT ![Server(c)] = "claimed"]
             /\ phase[Server(c)] = "serving"
        /\ UNCHANGED <<phase, sess, ending, next, foreign, owned, report>>
    BY <1>27 DEF ClaimHandoff, Accepting
  <2> QED
    BY <2>1 DEF Outside, Typed, TypeOK
<1>28. ASSUME NEW c \in calls, AcceptHandoff(c) PROVE Outside'
  <2>1. resuming[Server(c)] = "claimed"
    BY <1>28 DEF AcceptHandoff, CallShape, CallClaimed
  <2>2. /\ resuming' = [resuming EXCEPT ![Server(c)] = "pending"]
        /\ foreign' = [foreign EXCEPT ![Server(c)] = None]
        /\ UNCHANGED <<phase, sess, ending, next, owned, report>>
    BY <1>28 DEF AcceptHandoff
  <2> QED
    BY <2>1, <2>2, DaemonsAssumption DEF Outside, Typed, TypeOK
<1>29. ASSUME NEW c \in calls, AcceptRelease(c) PROVE Outside'
  <2>1. /\ foreign' = [foreign EXCEPT ![Server(c)] = None]
        /\ UNCHANGED <<phase, sess, ending, resuming, next, owned, report>>
    BY <1>29 DEF AcceptRelease
  <2> QED
    BY <2>1, DaemonsAssumption DEF Outside, Typed, TypeOK
<1>30. ASSUME NEW c \in calls, Answer(c) PROVE Outside'
  BY <1>30, DaemonsAssumption DEF Typed, TypeOK, Outside, Answer, Replace, Notify
<1>31. CASE Connect
  BY <1>31, DaemonsAssumption DEF Typed, TypeOK, Outside, Connect, Goes
<1> QED
  BY <1>1, <1>2, <1>3, <1>4, <1>5, <1>6, <1>7, <1>8, <1>9, <1>10, <1>11, <1>12, <1>13,
     <1>14, <1>15, <1>16, <1>17, <1>18, <1>19, <1>20, <1>21, <1>22, <1>23, <1>24,
     <1>25, <1>26, <1>27, <1>28, <1>29, <1>30, <1>31 DEF Next, Caller, Start, Work,
     Watcher, Again, Peer, Client

\* A watcher waits for the answer of the handoff it ships the session with.
Handing == \A d \in Daemons : sess[d] = "handing" => watch[d] = "call"

\* The resume of a handoff is on a daemon that is not superseded and has not got
\* the session yet, or launches it.
Resuming ==
    \A d \in Daemons :
        /\ resuming[d] \in {"claimed", "pending"}
             => ~Superseded(d) /\ sess[d] = "none" /\ ending[d] = "none"
        /\ resuming[d] = "loading" => sess[d] = "launching"
        /\ ending[d] # "none" => sess[d] = "none"

\* What is known of a call.
LEMMA PathIn ==
    ASSUME Typed, CallFrom, NEW c \in calls
    PROVE  /\ c \in Calls /\ c.from \in Daemons /\ c.path \in Seq(Daemons)
                /\ Len(c.path) \in Nat
           /\ \A k \in 1..Len(c.path) : c.path[k] \in Daemons
<1>1. c \in Calls /\ c.from \in Daemons
  BY DEF Typed, TypeOK, CallFrom
<1> QED
  BY <1>1, CallFields, ElementOfSeq

\* The server of a call, at the end of its path.
LEMMA ServerIs ==
    ASSUME Typed, NEW c \in calls, c.path # << >>
    PROVE  /\ c \in Calls /\ Server(c) \in Daemons /\ Len(c.path) \in Nat \ {0}
           /\ Server(c) = c.path[Len(c.path)]
<1>1. c \in Calls /\ c.path \in Seq(Daemons)
  BY CallFields DEF Typed, TypeOK
<1> QED
  BY <1>1, PathEnd DEF Server

\* Where a handoff is accepted.
LEMMA AcceptWhere ==
    ASSUME Typed, Line, Resuming, CallFrom, CallClaimed, NEW c \in calls, AcceptHandoff(c)
    PROVE  /\ Server(c) \in Daemons /\ c.path # << >> /\ c.from \in Daemons
           /\ resuming[Server(c)] = "claimed" /\ ~Superseded(Server(c))
                /\ c.kind = "handoff"
           /\ sess[c.from] = "handing" /\ Superseded(c.from) /\ c.entry = "marked"
           /\ sess[Server(c)] = "none" /\ ending[Server(c)] = "none"
<1>1. c.path # << >> /\ resuming[Server(c)] = "claimed" /\ c.kind = "handoff"
  BY DEF AcceptHandoff, CallClaimed
<1>2. Server(c) \in Daemons
  BY <1>1, ServerIs
<1> QED
  BY <1>1, <1>2 DEF CallFrom, Resuming

\* Whoever makes a report waits for it.
LEMMA MakerWaits ==
    ASSUME Typed, CallFrom, NEW c \in calls
    PROVE  /\ c.from \in Daemons /\ watch[c.from] = "call" /\ Superseded(c.from)
           /\ sess[c.from] \in {"handing", "none"}
           /\ \A b \in calls : b.from = c.from => b = c
<1>1. c \in Calls /\ c.from \in Daemons /\ c.from # None
  BY DaemonsAssumption DEF Typed, TypeOK, CallFrom
<1>2. c.kind \in Kinds
  BY <1>1, CallFields
<1> QED
  BY <1>1, <1>2 DEF Typed, Waited, CallFrom, Kinds

\* A daemon ends with no call left on a path through it, and none of its own.
LEMMA ExitCalls ==
    ASSUME Plain, Typed, CallFrom, NEW d \in Daemons, Exit(d)
    PROVE  calls' = calls
<1>1. /\ \A c \in calls : \A i \in 1..Len(c.path) : c.path[i] # d
      /\ calls' = UNION {Cut(c, d) : c \in calls} /\ watch[d] = "done"
  BY DEF Exit, Gone, Plain
<1>2. ASSUME NEW c \in calls PROVE Cut(c, d) = {c}
  <2>1. c \in Calls /\ c.from \in Daemons /\ c.from # d
    BY <1>1, <1>2, MakerWaits DEF Typed, TypeOK
  <2>2. [c EXCEPT !.from = IF @ = d THEN None ELSE @] = c
    BY <2>1 DEF Calls
  <2>3. Cut(c, d) = {p \in {[p EXCEPT !.from = IF @ = d THEN None ELSE @] : p \in {c}} :
                       p.from # None \/ p.path # << >>}
    BY <1>1, <1>2 DEF Cut
  <2>4. c.from # None
    BY <2>1, DaemonsAssumption
  <2> QED
    BY <2>2, <2>3, <2>4
<1> QED
  BY <1>1, <1>2

\* Who makes a report, step by step.
LEMMA CallFromNext ==
    ASSUME Plain, Typed, Typed', Line, Resuming, CallShape, [Next]_vars
    PROVE  CallFrom'
<1> USE DEF procVars, regVars, sessVars, handVars, wakeVars, wireVars, histVars
<1>1. ASSUME NEW d \in Daemons,
             LoadRegistry(d) \/ Run(d) \/ OpenClaim(d) \/ Supersede(d) \/ Ended(d) \/
                OtherProgress(d) \/ Check(d) \/ Watch(d) \/ Reclaim(d) \/
                ClientCall(d)
      PROVE  CallFrom'
  <2>1. UNCHANGED <<sess, next, owned, calls>>
    BY <1>1 DEF LoadRegistry, Run, OpenClaim, Lead, Supersede, UpdateRegistry, Ended,
       Notify, OtherProgress, Check, Watch, Reclaim, ClientCall
  <2> QED
    BY <2>1 DEF CallShape, CallFrom, Superseded
<1>2. CASE Dispatch \/ Connect \/ Forwarded
  <2>1. UNCHANGED <<sess, next, owned, calls>>
    BY <1>2 DEF Dispatch, Returns, Connect, Goes, Forwarded
  <2> QED
    BY <2>1 DEF CallShape, CallFrom, Superseded
<1>3. CASE UNCHANGED vars
  <2>1. UNCHANGED <<sess, next, owned, calls>>
    BY <1>3 DEF vars
  <2> QED
    BY <2>1 DEF CallShape, CallFrom, Superseded
<1>4. ASSUME NEW d \in Daemons, Takeover(d) PROVE CallFrom'
  <2>1. PICK p \in Daemons : p = claim
    BY <1>4 DEF Takeover, Typed, TypeOK
  <2>2. \A c \in calls : c.from # p
    BY <2>1 DEF CallShape, CallFrom, Line
  <2>3. calls' = calls /\ \A e \in Daemons \ {p} :
           next'[e] = next[e] /\ sess'[e] = sess[e] /\ owned'[e] = owned[e]
    BY <1>4, <2>1 DEF Takeover, Typed, TypeOK
  <2> QED
    BY <2>2, <2>3 DEF CallShape, CallFrom, Superseded
<1>5. ASSUME NEW d \in Daemons, ResumeMarked(d) PROVE CallFrom'
  <2>0. \A c \in calls :
           watch[c.from] = "call" /\ Superseded(c.from)
              /\ sess[c.from] \in {"handing", "none"}
    BY MakerWaits DEF CallShape
  <2>1. \A c \in calls : c.from # d
    BY <1>5, <2>0 DEF ResumeMarked, Line, Resuming, Quiet, Plain, Called, ResumeMarked
  <2>2. calls' = calls /\ \A e \in Daemons \ {d} :
           next'[e] = next[e] /\ sess'[e] = sess[e] /\ owned'[e] = owned[e]
    BY <1>5 DEF ResumeMarked, Typed, TypeOK, Notify
  <2> QED
    BY <2>1, <2>2 DEF CallShape, CallFrom, Superseded
<1>6. ASSUME NEW d \in Daemons, Spawn(d) PROVE CallFrom'
  <2>0. \A c \in calls :
           watch[c.from] = "call" /\ Superseded(c.from)
              /\ sess[c.from] \in {"handing", "none"}
    BY MakerWaits DEF CallShape
  <2>1. \A c \in calls : c.from # d
    BY <1>6, <2>0 DEF Spawn, Line, Resuming, Quiet, Plain, Called
  <2>2. calls' = calls /\ \A e \in Daemons \ {d} :
           next'[e] = next[e] /\ sess'[e] = sess[e] /\ owned'[e] = owned[e]
    BY <1>6 DEF Spawn, Typed, TypeOK, Notify
  <2> QED
    BY <2>1, <2>2 DEF CallShape, CallFrom, Superseded
<1>7. ASSUME NEW d \in Daemons, StartTurn(d) PROVE CallFrom'
  <2>0. \A c \in calls :
           watch[c.from] = "call" /\ Superseded(c.from)
              /\ sess[c.from] \in {"handing", "none"}
    BY MakerWaits DEF CallShape
  <2>1. \A c \in calls : c.from # d
    BY <1>7, <2>0 DEF StartTurn, Line, Resuming, Quiet, Plain, Called
  <2>2. calls' = calls /\ \A e \in Daemons \ {d} :
           next'[e] = next[e] /\ sess'[e] = sess[e] /\ owned'[e] = owned[e]
    BY <1>7 DEF StartTurn, Typed, TypeOK, Notify
  <2> QED
    BY <2>1, <2>2 DEF CallShape, CallFrom, Superseded
<1>8. ASSUME NEW d \in Daemons, EndTurn(d) PROVE CallFrom'
  <2>0. \A c \in calls :
           watch[c.from] = "call" /\ Superseded(c.from)
              /\ sess[c.from] \in {"handing", "none"}
    BY MakerWaits DEF CallShape
  <2>1. \A c \in calls : c.from # d
    BY <1>8, <2>0 DEF EndTurn, Line, Resuming, Quiet, Plain, Called
  <2>2. calls' = calls /\ \A e \in Daemons \ {d} :
           next'[e] = next[e] /\ sess'[e] = sess[e] /\ owned'[e] = owned[e]
    BY <1>8 DEF EndTurn, Typed, TypeOK, Notify
  <2> QED
    BY <2>1, <2>2 DEF CallShape, CallFrom, Superseded
<1>9. ASSUME NEW d \in Daemons, Adopt(d) PROVE CallFrom'
  <2>0. \A c \in calls :
           watch[c.from] = "call" /\ Superseded(c.from)
              /\ sess[c.from] \in {"handing", "none"}
    BY MakerWaits DEF CallShape
  <2>1. \A c \in calls : c.from # d
    BY <1>9, <2>0 DEF Adopt, Line, Resuming, Quiet, Plain, Called
  <2>2. calls' = calls /\ \A e \in Daemons \ {d} :
           next'[e] = next[e] /\ sess'[e] = sess[e] /\ owned'[e] = owned[e]
    BY <1>9 DEF Adopt, Typed, TypeOK, Notify
  <2> QED
    BY <2>1, <2>2 DEF CallShape, CallFrom, Superseded
<1>10. ASSUME NEW d \in Daemons, ResumeHanded(d) PROVE CallFrom'
  <2>0. \A c \in calls :
           watch[c.from] = "call" /\ Superseded(c.from)
              /\ sess[c.from] \in {"handing", "none"}
    BY MakerWaits DEF CallShape
  <2>1. \A c \in calls : c.from # d
    BY <1>10, <2>0 DEF ResumeHanded, Line, Resuming, Quiet, Plain, Called
  <2>2. calls' = calls /\ \A e \in Daemons \ {d} :
           next'[e] = next[e] /\ sess'[e] = sess[e] /\ owned'[e] = owned[e]
    BY <1>10 DEF ResumeHanded, Typed, TypeOK, Notify
  <2> QED
    BY <2>1, <2>2 DEF CallShape, CallFrom, Superseded
<1>11. ASSUME NEW d \in Daemons, LaunchSettles(d) PROVE CallFrom'
  <2>0. \A c \in calls :
           watch[c.from] = "call" /\ Superseded(c.from)
              /\ sess[c.from] \in {"handing", "none"}
    BY MakerWaits DEF CallShape
  <2>1. \A c \in calls : c.from # d
    BY <1>11, <2>0 DEF LaunchSettles, Line, Resuming, Quiet, Plain, Called
  <2>2. calls' = calls /\ \A e \in Daemons \ {d} :
           next'[e] = next[e] /\ sess'[e] = sess[e] /\ owned'[e] = owned[e]
    BY <1>11 DEF LaunchSettles, Typed, TypeOK, Notify
  <2> QED
    BY <2>1, <2>2 DEF CallShape, CallFrom, Superseded
<1>12. ASSUME NEW d \in Daemons, NEW k \in {"close", "forget"},
             EndSession(d, k)
      PROVE  CallFrom'
  <2>0. \A c \in calls :
           watch[c.from] = "call" /\ Superseded(c.from)
              /\ sess[c.from] \in {"handing", "none"}
    BY MakerWaits DEF CallShape
  <2>1. \A c \in calls : c.from # d
    BY <1>12, <2>0 DEF EndSession, Line, Resuming, Quiet, Plain, Called
  <2>2. calls' = calls /\ \A e \in Daemons \ {d} :
           next'[e] = next[e] /\ sess'[e] = sess[e] /\ owned'[e] = owned[e]
    BY <1>12 DEF EndSession, Typed, TypeOK, Notify
  <2> QED
    BY <2>1, <2>2 DEF CallShape, CallFrom, Superseded
<1>13. ASSUME NEW d \in Daemons, Scan(d) PROVE CallFrom'
  <2>1. \A c \in calls : c.from # d
    BY <1>13, MakerWaits DEF Scan, CallShape
  <2>2. Superseded(d) /\ next' = next /\ \A e \in Daemons \ {d} :
           sess'[e] = sess[e] /\ owned'[e] = owned[e]
    BY <1>13 DEF Scan, Typed, TypeOK, Watches, Superseded
  <2>3. \/ calls' = calls
        \/ calls' = calls \cup {Call(d, "handoff", "marked")} /\ sess'[d] = "handing"
        \/ calls' = calls \cup {Call(d, "release", reg[d])} /\ sess'[d] = "none"
             /\ ~owned'[d]
    BY <1>13 DEF Scan, Typed, TypeOK
  <2> QED
    BY <2>1, <2>2, <2>3 DEF CallShape, CallFrom, Superseded, Call
<1>14. ASSUME NEW d \in Daemons, NEW c \in calls, Reported(d, c) PROVE CallFrom'
  <2>1. \A b \in calls' : b \in calls /\ b.from # d
    BY <1>14, DaemonsAssumption DEF Reported, Typed, Waited
  <2>2. next' = next /\ \A e \in Daemons \ {d} : sess'[e] = sess[e] /\ owned'[e] = owned[e]
    BY <1>14 DEF Reported, Typed, TypeOK
  <2> QED
    BY <2>1, <2>2 DEF CallShape, CallFrom, Superseded
<1>15. ASSUME NEW d \in Daemons, Merge(d) PROVE CallFrom'
  BY <1>15 DEF Merge, Line
<1>16. ASSUME NEW d \in Daemons, Exit(d) PROVE CallFrom'
  <2>1. calls' = calls /\ watch[d] = "done"
    BY <1>16, ExitCalls DEF Exit, CallShape
  <2>2. \A e \in Daemons \ {d} :
           next'[e] = next[e] /\ sess'[e] = sess[e] /\ owned'[e] = owned[e]
    BY <1>16 DEF Exit, Gone, Typed, TypeOK
  <2>3. \A c \in calls : c.from # d
    BY <2>1, MakerWaits DEF CallShape
  <2> QED
    BY <2>1, <2>2, <2>3 DEF CallShape, CallFrom, Superseded
<1>17. ASSUME NEW d \in Daemons, Crash(d) PROVE CallFrom'
  BY <1>17 DEF Plain
<1>18. ASSUME NEW d \in Daemons, LeadFails(d) PROVE CallFrom'
  BY <1>18 DEF LeadFails, Line
<1>19. ASSUME NEW c \in calls, Relay(c) PROVE CallFrom'
  <2> DEFINE r == [c EXCEPT !.path = Append(c.path, next[Server(c)])]
  <2>1. /\ r.from = c.from /\ r.kind = c.kind /\ r.entry = c.entry
        /\ r.stage = c.stage /\ r.path = Append(c.path, next[Server(c)])
    BY EditFields DEF Typed, TypeOK
  <2>2. calls' = (calls \ {c}) \cup {r}
    BY <1>19 DEF Relay, Replace
  <2> HIDE DEF r
  <2>3. UNCHANGED <<sess, next, owned>>
    BY <1>19 DEF Relay
  <2> QED
    BY <2>1, <2>2, <2>3 DEF CallShape, CallFrom, Superseded
<1>20. ASSUME NEW c \in calls, Unreachable(c) PROVE CallFrom'
  <2> DEFINE r == [c EXCEPT !.stage = "err", !.path = Front(c.path)]
  <2>1. /\ r.from = c.from /\ r.kind = c.kind /\ r.entry = c.entry
        /\ r.stage = "err" /\ r.path = Front(c.path)
    BY EditFields DEF Typed, TypeOK
  <2>2. calls' = (calls \ {c}) \cup {r}
    BY <1>20 DEF Unreachable, Replace
  <2> HIDE DEF r
  <2>3. UNCHANGED <<sess, next, owned>>
    BY <1>20 DEF Unreachable
  <2> QED
    BY <2>1, <2>2, <2>3 DEF CallShape, CallFrom, Superseded
<1>21. ASSUME NEW c \in calls, ClaimHandoff(c) PROVE CallFrom'
  <2> DEFINE r == [c EXCEPT !.stage = "claimed"]
  <2>1. /\ r.from = c.from /\ r.kind = c.kind /\ r.entry = c.entry
        /\ r.stage = "claimed" /\ r.path = c.path
    BY EditFields DEF Typed, TypeOK
  <2>2. calls' = (calls \ {c}) \cup {r}
    BY <1>21 DEF ClaimHandoff, Replace
  <2> HIDE DEF r
  <2>3. UNCHANGED <<sess, next, owned>>
    BY <1>21 DEF ClaimHandoff
  <2> QED
    BY <2>1, <2>2, <2>3 DEF CallShape, CallFrom, Superseded
<1>22. ASSUME NEW c \in calls, AcceptHandoff(c) PROVE CallFrom'
  <2> DEFINE r == [c EXCEPT !.stage = "ok"]
  <2>1. /\ r.from = c.from /\ r.kind = c.kind /\ r.entry = c.entry
        /\ r.stage = "ok" /\ r.path = c.path
    BY EditFields DEF Typed, TypeOK
  <2>2. calls' = (calls \ {c}) \cup {r}
    BY <1>22 DEF AcceptHandoff, Replace
  <2> HIDE DEF r
  <2>3. UNCHANGED <<sess, next, owned>>
    BY <1>22 DEF AcceptHandoff
  <2> QED
    BY <2>1, <2>2, <2>3 DEF CallShape, CallFrom, Superseded
<1>23. ASSUME NEW c \in calls, AcceptRelease(c) PROVE CallFrom'
  <2> DEFINE r == [c EXCEPT !.stage = "ok"]
  <2>1. /\ r.from = c.from /\ r.kind = c.kind /\ r.entry = c.entry
        /\ r.stage = "ok" /\ r.path = c.path
    BY EditFields DEF Typed, TypeOK
  <2>2. calls' = (calls \ {c}) \cup {r}
    BY <1>23 DEF AcceptRelease, Replace
  <2> HIDE DEF r
  <2>3. UNCHANGED <<sess, next, owned>>
    BY <1>23 DEF AcceptRelease
  <2> QED
    BY <2>1, <2>2, <2>3 DEF CallShape, CallFrom, Superseded
<1>24. ASSUME NEW c \in calls, Answer(c) PROVE CallFrom'
  <2> DEFINE r == [c EXCEPT !.path = Front(c.path)]
  <2>1. /\ r.from = c.from /\ r.kind = c.kind /\ r.entry = c.entry
        /\ r.stage = c.stage /\ r.path = Front(c.path)
    BY EditFields DEF Typed, TypeOK
  <2>2. /\ calls' = (calls \ {c}) \cup {r} \/ (calls' = calls \ {c} /\ c.from = None)
        /\ c.path # << >> /\ c.stage \in {"ok", "err"}
    BY <1>24 DEF Answer, Replace
  <2> HIDE DEF r
  <2>3. UNCHANGED <<sess, next, owned>>
    BY <1>24 DEF Answer
  <2> QED
    BY <2>1, <2>2, <2>3 DEF CallShape, CallFrom, Superseded
<1> QED
  BY <1>1, <1>2, <1>3, <1>4, <1>5, <1>6, <1>7, <1>8, <1>9, <1>10, <1>11, <1>12, <1>13,
     <1>14, <1>15, <1>16, <1>17, <1>18, <1>19, <1>20, <1>21, <1>22, <1>23, <1>24 DEF
     Next, Caller, Start, Work, Watcher, Again, Peer, Client

\* Claims, step by step.
LEMMA CallClaimedNext ==
    ASSUME Plain, Typed, Typed', Line, Resuming, CallShape, [Next]_vars
    PROVE  CallClaimed'
<1> USE DEF procVars, regVars, sessVars, handVars, wakeVars, wireVars, histVars
<1>1. ASSUME NEW d \in Daemons,
             LoadRegistry(d) \/ Run(d) \/ OpenClaim(d) \/ Takeover(d) \/ Supersede(d)
                \/ ResumeMarked(d) \/ Spawn(d) \/ StartTurn(d) \/ EndTurn(d) \/
                Adopt(d)
      PROVE  CallClaimed'
  <2>1. UNCHANGED <<resuming, calls>>
    BY <1>1 DEF LoadRegistry, Run, OpenClaim, Lead, Takeover, Notify, Supersede,
       UpdateRegistry, ResumeMarked, Spawn, StartTurn, EndTurn, Adopt
  <2> QED
    BY <2>1 DEF CallShape, CallClaimed, Server
<1>2. ASSUME NEW d \in Daemons,
             Ended(d) \/ OtherProgress(d) \/ Check(d) \/ Watch(d) \/ Reclaim(d) \/
                Merge(d) \/ ClientCall(d)
      PROVE  CallClaimed'
  <2>1. UNCHANGED <<resuming, calls>>
    BY <1>2 DEF Ended, Notify, UpdateRegistry, OtherProgress, Check, Watch, Reclaim,
       Merge, ClientCall
  <2> QED
    BY <2>1 DEF CallShape, CallClaimed, Server
<1>3. ASSUME NEW d \in Daemons, NEW k \in {"close", "forget"},
             EndSession(d, k)
      PROVE  CallClaimed'
  <2>1. UNCHANGED <<resuming, calls>>
    BY <1>3 DEF EndSession, Notify
  <2> QED
    BY <2>1 DEF CallShape, CallClaimed, Server
<1>4. CASE Dispatch \/ Connect \/ Forwarded
  <2>1. UNCHANGED <<resuming, calls>>
    BY <1>4 DEF Dispatch, Returns, Connect, Goes, Forwarded
  <2> QED
    BY <2>1 DEF CallShape, CallClaimed, Server
<1>5. CASE UNCHANGED vars
  <2>1. UNCHANGED <<resuming, calls>>
    BY <1>5 DEF vars
  <2> QED
    BY <2>1 DEF CallShape, CallClaimed, Server
<1>6. ASSUME NEW d \in Daemons, ResumeHanded(d) PROVE CallClaimed'
  <2>1. \A c \in calls : c.path # << >> => Server(c) \in Daemons
    BY ServerIs
  <2>2. calls' = calls /\ \A e \in Daemons :
           resuming[e] = "claimed" => resuming'[e] = "claimed"
    BY <1>6 DEF ResumeHanded, Typed, TypeOK
  <2> QED
    BY <2>1, <2>2 DEF CallShape, CallClaimed, Server
<1>7. ASSUME NEW d \in Daemons, LaunchSettles(d) PROVE CallClaimed'
  <2>1. \A c \in calls : c.path # << >> => Server(c) \in Daemons
    BY ServerIs
  <2>2. calls' = calls /\ \A e \in Daemons :
           resuming[e] = "claimed" => resuming'[e] = "claimed"
    BY <1>7 DEF LaunchSettles, Typed, TypeOK
  <2> QED
    BY <2>1, <2>2 DEF CallShape, CallClaimed, Server
<1>8. ASSUME NEW d \in Daemons, Scan(d) PROVE CallClaimed'
  <2>1. \A c \in calls' : c \in calls \/ c.stage # "claimed"
    BY <1>8 DEF Scan, Call
  <2>2. resuming' = resuming
    BY <1>8 DEF Scan
  <2> QED
    BY <2>1, <2>2 DEF CallShape, CallClaimed, Server
<1>9. ASSUME NEW d \in Daemons, NEW c \in calls, Reported(d, c) PROVE CallClaimed'
  <2>1. calls' \subseteq calls /\ resuming' = resuming
    BY <1>9 DEF Reported
  <2> QED
    BY <2>1 DEF CallShape, CallClaimed, Server
<1>10. ASSUME NEW d \in Daemons, Exit(d) PROVE CallClaimed'
  <2>1. calls' = calls /\ watch[d] = "done"
    BY <1>10, ExitCalls DEF Exit, CallShape
  <2>2. resuming[d] # "claimed" /\ resuming' = [resuming EXCEPT ![d] = "no"]
    BY <1>10, <2>1 DEF Exit, Gone, Resuming, Superseded, Typed, Watches
  <2>3. \A c \in calls : c.path # << >> => Server(c) \in Daemons
    BY ServerIs
  <2> QED
    BY <2>1, <2>2, <2>3 DEF CallShape, CallClaimed, Server, Typed, TypeOK
<1>11. ASSUME NEW d \in Daemons, Crash(d) PROVE CallClaimed'
  BY <1>11 DEF Plain
<1>12. ASSUME NEW d \in Daemons, LeadFails(d) PROVE CallClaimed'
  BY <1>12 DEF LeadFails, Line
<1>13. ASSUME NEW c \in calls, Relay(c) PROVE CallClaimed'
  <2> DEFINE r == [c EXCEPT !.path = Append(c.path, next[Server(c)])]
  <2>1. /\ r.from = c.from /\ r.kind = c.kind /\ r.entry = c.entry
        /\ r.stage = c.stage /\ r.path = Append(c.path, next[Server(c)])
    BY EditFields DEF Typed, TypeOK
  <2>2. calls' = (calls \ {c}) \cup {r}
    BY <1>13 DEF Relay, Replace
  <2> HIDE DEF r
  <2>3. resuming' = resuming /\ c.stage = "sent" /\ r.stage # "claimed"
    BY <1>13, <2>1 DEF Relay
  <2> QED
    BY <2>1, <2>2, <2>3 DEF CallShape, CallClaimed, Server
<1>14. ASSUME NEW c \in calls, Unreachable(c) PROVE CallClaimed'
  <2> DEFINE r == [c EXCEPT !.stage = "err", !.path = Front(c.path)]
  <2>1. /\ r.from = c.from /\ r.kind = c.kind /\ r.entry = c.entry
        /\ r.stage = "err" /\ r.path = Front(c.path)
    BY EditFields DEF Typed, TypeOK
  <2>2. calls' = (calls \ {c}) \cup {r}
    BY <1>14 DEF Unreachable, Replace
  <2> HIDE DEF r
  <2>3. resuming' = resuming /\ c.stage = "sent" /\ r.stage # "claimed"
    BY <1>14, <2>1 DEF Unreachable
  <2> QED
    BY <2>1, <2>2, <2>3 DEF CallShape, CallClaimed, Server
<1>15. ASSUME NEW c \in calls, ClaimHandoff(c) PROVE CallClaimed'
  <2> DEFINE r == [c EXCEPT !.stage = "claimed"]
  <2>1. /\ r.from = c.from /\ r.kind = c.kind /\ r.entry = c.entry
        /\ r.stage = "claimed" /\ r.path = c.path
    BY EditFields DEF Typed, TypeOK
  <2>2. calls' = (calls \ {c}) \cup {r}
    BY <1>15 DEF ClaimHandoff, Replace
  <2> HIDE DEF r
  <2>3. /\ Server(c) \in Daemons /\ c.path # << >> /\ c.kind = "handoff"
             /\ resuming[Server(c)] = "no"
        /\ resuming' = [resuming EXCEPT ![Server(c)] = "claimed"]
    BY <1>15, ServerIs DEF ClaimHandoff
  <2>4. Server(r) = Server(c)
    BY <2>1 DEF Server
  <2>5. \A b \in calls :
           b.stage = "claimed"
              => b.path # << >> /\ Server(b) \in Daemons /\ Server(b) # Server(c)
    BY <2>3, ServerIs DEF CallShape, CallClaimed
  <2> DEFINE s == Server(c)
  <2>6. resuming'[s] = "claimed" /\ \A e \in Daemons \ {s} : resuming'[e] = resuming[e]
    BY <2>3 DEF Typed, TypeOK
  <2>7. \A b \in calls' : b = r \/ (b \in calls /\ b # c)
    BY <2>2
  <2> HIDE DEF s
  <2>8. \A b \in calls' :
           b.stage = "claimed"
              => b.kind = "handoff" /\ b.path # << >> /\ resuming'[Server(b)] = "claimed"
    BY <2>1, <2>3, <2>4, <2>5, <2>6, <2>7 DEF CallShape, CallClaimed, s
  <2>9. \A b, a \in calls' :
           b.stage = "claimed" /\ a.stage = "claimed" /\ Server(a) = Server(b) => a = b
    BY <2>1, <2>3, <2>4, <2>5, <2>7 DEF CallShape, CallClaimed
  <2> QED
    BY <2>8, <2>9 DEF CallClaimed, Server
<1>16. ASSUME NEW c \in calls, AcceptHandoff(c) PROVE CallClaimed'
  <2> DEFINE r == [c EXCEPT !.stage = "ok"]
  <2>1. /\ r.from = c.from /\ r.kind = c.kind /\ r.entry = c.entry
        /\ r.stage = "ok" /\ r.path = c.path
    BY EditFields DEF Typed, TypeOK
  <2>2. calls' = (calls \ {c}) \cup {r}
    BY <1>16 DEF AcceptHandoff, Replace
  <2> HIDE DEF r
  <2>3. /\ Server(c) \in Daemons /\ c.path # << >> /\ c.stage = "claimed" /\ r.stage = "ok"
        /\ resuming' = [resuming EXCEPT ![Server(c)] = "pending"]
    BY <1>16, <2>1, ServerIs DEF AcceptHandoff, CallShape, CallClaimed
  <2>4. \A b \in calls' : b = r \/ (b \in calls /\ b # c)
    BY <2>2
  <2>5. \A b \in calls' :
           b.stage = "claimed"
              => b \in calls /\ Server(b) \in Daemons /\ Server(b) # Server(c)
    BY <2>3, <2>4, ServerIs DEF CallShape, CallClaimed
  <2>6. \A e \in Daemons : e # Server(c) => resuming'[e] = resuming[e]
    BY <2>3 DEF Typed, TypeOK
  <2>7. \A b \in calls' :
           b.stage = "claimed"
              => b.kind = "handoff" /\ b.path # << >> /\ resuming'[Server(b)] = "claimed"
    BY <2>5, <2>6 DEF CallShape, CallClaimed
  <2>8. \A b, a \in calls' :
           b.stage = "claimed" /\ a.stage = "claimed" /\ Server(a) = Server(b) => a = b
    BY <2>5 DEF CallShape, CallClaimed
  <2> QED
    BY <2>7, <2>8 DEF CallClaimed, Server
<1>17. ASSUME NEW c \in calls, AcceptRelease(c) PROVE CallClaimed'
  <2> DEFINE r == [c EXCEPT !.stage = "ok"]
  <2>1. /\ r.from = c.from /\ r.kind = c.kind /\ r.entry = c.entry
        /\ r.stage = "ok" /\ r.path = c.path
    BY EditFields DEF Typed, TypeOK
  <2>2. calls' = (calls \ {c}) \cup {r}
    BY <1>17 DEF AcceptRelease, Replace
  <2> HIDE DEF r
  <2>3. resuming' = resuming /\ c.stage = "sent" /\ r.stage # "claimed"
    BY <1>17, <2>1 DEF AcceptRelease
  <2> QED
    BY <2>1, <2>2, <2>3 DEF CallShape, CallClaimed, Server
<1>18. ASSUME NEW c \in calls, Answer(c) PROVE CallClaimed'
  <2> DEFINE r == [c EXCEPT !.path = Front(c.path)]
  <2>1. /\ r.from = c.from /\ r.kind = c.kind /\ r.entry = c.entry
        /\ r.stage = c.stage /\ r.path = Front(c.path)
    BY EditFields DEF Typed, TypeOK
  <2>2. /\ calls' = (calls \ {c}) \cup {r} \/ (calls' = calls \ {c} /\ c.from = None)
        /\ c.path # << >> /\ c.stage \in {"ok", "err"}
    BY <1>18 DEF Answer, Replace
  <2> HIDE DEF r
  <2>3. resuming' = resuming
    BY <1>18 DEF Answer
  <2> QED
    BY <2>1, <2>2, <2>3 DEF CallShape, CallClaimed, Server
<1> QED
  BY <1>1, <1>2, <1>3, <1>4, <1>5, <1>6, <1>7, <1>8, <1>9, <1>10, <1>11, <1>12, <1>13,
     <1>14, <1>15, <1>16, <1>17, <1>18 DEF Next, Caller, Start, Work, Watcher, Again,
     Peer, Client

\* The path of a report, step by step.
LEMMA CallPathNext ==
    ASSUME Plain, Typed, Typed', Line, Resuming, CallShape, [Next]_vars
    PROVE  CallPath'
<1> USE DEF procVars, regVars, sessVars, handVars, wakeVars, wireVars, histVars
<1>1. ASSUME NEW d \in Daemons,
             LoadRegistry(d) \/ Run(d) \/ OpenClaim(d) \/ Supersede(d) \/
                ResumeMarked(d) \/ Spawn(d) \/ StartTurn(d) \/ EndTurn(d) \/ Adopt(d)
                \/ ResumeHanded(d)
      PROVE  CallPath'
  <2>1. UNCHANGED <<next, calls>>
    BY <1>1 DEF LoadRegistry, Run, OpenClaim, Lead, Supersede, UpdateRegistry,
       ResumeMarked, Spawn, Notify, StartTurn, EndTurn, Adopt, ResumeHanded
  <2> QED
    BY <2>1 DEF CallShape, CallPath, Superseded
<1>2. ASSUME NEW d \in Daemons,
             LaunchSettles(d) \/ Ended(d) \/ OtherProgress(d) \/ Check(d) \/ Watch(d)
                \/ Reclaim(d) \/ ClientCall(d)
      PROVE  CallPath'
  <2>1. UNCHANGED <<next, calls>>
    BY <1>2 DEF LaunchSettles, Notify, UpdateRegistry, Ended, OtherProgress, Check,
       Watch, Reclaim, ClientCall
  <2> QED
    BY <2>1 DEF CallShape, CallPath, Superseded
<1>3. ASSUME NEW d \in Daemons, NEW k \in {"close", "forget"},
             EndSession(d, k)
      PROVE  CallPath'
  <2>1. UNCHANGED <<next, calls>>
    BY <1>3 DEF EndSession, Notify
  <2> QED
    BY <2>1 DEF CallShape, CallPath, Superseded
<1>4. CASE Dispatch \/ Connect \/ Forwarded
  <2>1. UNCHANGED <<next, calls>>
    BY <1>4 DEF Dispatch, Returns, Connect, Goes, Forwarded
  <2> QED
    BY <2>1 DEF CallShape, CallPath, Superseded
<1>5. CASE UNCHANGED vars
  <2>1. UNCHANGED <<next, calls>>
    BY <1>5 DEF vars
  <2> QED
    BY <2>1 DEF CallShape, CallPath, Superseded
<1>6. ASSUME NEW d \in Daemons, Takeover(d) PROVE CallPath'
  <2>1. PICK p \in Daemons : p = claim
    BY <1>6 DEF Takeover, Typed, TypeOK
  <2>2. ~Superseded(p)
    BY <2>1 DEF Line
  <2>3. calls' = calls /\ \A e \in Daemons \ {p} : next'[e] = next[e]
    BY <1>6, <2>1 DEF Takeover, Typed, TypeOK
  <2>4. \A c \in calls :
           c.from \in Daemons /\ Superseded(c.from) /\ \A k \in 1..Len(c.path) :
              c.path[k] \in Daemons
    BY PathIn DEF CallShape, CallFrom
  <2> QED
    BY <2>2, <2>3, <2>4 DEF CallShape, CallPath, Superseded
<1>7. ASSUME NEW d \in Daemons, Scan(d) PROVE CallPath'
  <2>1. \A c \in calls' :
           c \in calls \/ c = Call(d, "handoff", "marked") \/ c = Call(d, "release", reg[d])
    BY <1>7 DEF Scan
  <2>2. next' = next
    BY <1>7 DEF Scan
  <2>3. ASSUME NEW x \in {Call(d, "handoff", "marked"), Call(d, "release", reg[d])}
        PROVE  x.from = d /\ x.path = <<next[d]>>
    BY <2>3 DEF Call
  <2>4. Len(<<next[d]>>) = 1 /\ <<next[d]>>[1] = next[d]
    OBVIOUS
  <2>5. \A i \in 1..1 : ~(i < 1)
    OBVIOUS
  <2> QED
    BY <2>1, <2>2, <2>3, <2>4, <2>5 DEF CallShape, CallPath, Superseded
<1>8. ASSUME NEW d \in Daemons, NEW c \in calls, Reported(d, c) PROVE CallPath'
  <2>1. calls' \subseteq calls /\ next' = next
    BY <1>8 DEF Reported
  <2> QED
    BY <2>1 DEF CallShape, CallPath, Superseded
<1>9. ASSUME NEW d \in Daemons, Merge(d) PROVE CallPath'
  BY <1>9 DEF Merge, Line
<1>10. ASSUME NEW d \in Daemons, Exit(d) PROVE CallPath'
  <2>1. calls' = calls /\ watch[d] = "done"
    BY <1>10, ExitCalls DEF Exit, CallShape
  <2>2. \A e \in Daemons \ {d} : next'[e] = next[e]
    BY <1>10 DEF Exit, Gone, Typed, TypeOK
  <2>3. \A c \in calls : c.from # d /\ \A i \in 1..Len(c.path) : c.path[i] # d
    BY <1>10, <2>1, MakerWaits DEF CallShape, Exit, Plain
  <2>4. \A c \in calls :
           c.from \in Daemons /\ \A k \in 1..Len(c.path) : c.path[k] \in Daemons
    BY PathIn DEF CallShape
  <2> QED
    BY <2>1, <2>2, <2>3, <2>4 DEF CallShape, CallPath, Superseded
<1>11. ASSUME NEW d \in Daemons, Crash(d) PROVE CallPath'
  BY <1>11 DEF Plain
<1>12. ASSUME NEW d \in Daemons, LeadFails(d) PROVE CallPath'
  BY <1>12 DEF LeadFails, Line
<1>13. ASSUME NEW c \in calls, Relay(c) PROVE CallPath'
  <2> DEFINE r == [c EXCEPT !.path = Append(c.path, next[Server(c)])]
  <2>1. /\ r.from = c.from /\ r.kind = c.kind /\ r.entry = c.entry
        /\ r.stage = c.stage /\ r.path = Append(c.path, next[Server(c)])
    BY EditFields DEF Typed, TypeOK
  <2>2. calls' = (calls \ {c}) \cup {r}
    BY <1>13 DEF Relay, Replace
  <2> HIDE DEF r
  <2>3. next' = next /\ c.path # << >> /\ Superseded(Server(c)) /\ Server(c) \in Daemons
           /\ c.stage = "sent"
    BY <1>13, ServerIs DEF Relay
  <2>4. c.path \in Seq(Daemons) /\ Len(c.path) \in Nat \ {0}
           /\ Server(c) = c.path[Len(c.path)]
    BY <2>3, ServerIs, PathIn DEF CallShape
  <2>5. next[Server(c)] \in Daemons
    BY <2>3 DEF Superseded, Typed, TypeOK
  <2> DEFINE p == c.path
             n == Len(p)
             x == next[Server(c)]
             q == Append(p, x)
  <2>6. Len(q) = n + 1 /\ (\A k \in 1..n : q[k] = p[k]) /\ q[n + 1] = x
    BY <2>4, <2>5, PathGrows
  <2>7. /\ q[1] = p[1]
        /\ \A i \in 1..Len(q) : i < Len(q) => i \in 1..n /\ q[i] = p[i]
                                  /\ (i < n => q[i + 1] = p[i + 1])
                                       /\ (~(i < n) => i = n /\ q[i + 1] = x)
    <3> HIDE DEF p, q
    <3>1. n \in Nat \ {0}
      BY <2>4 DEF p
    <3> HIDE DEF n, x
    <3> QED
      BY <2>6, <3>1
  <2>8. p[n] = Server(c) /\ x = next[Server(c)]
    BY <2>4
  <2> HIDE DEF p, n, q, x
  <2>9. /\ r.path # << >> => r.path[1] = next[r.from]
        /\ \A i \in 1..Len(r.path) :
             i < Len(r.path) => Superseded(r.path[i]) /\ r.path[i + 1] = next[r.path[i]]
    <3>1. r.path = q /\ r.from = c.from
      BY <2>1 DEF q, p, x
    <3>2. /\ p[1] = next[c.from]
          /\ \A i \in 1..n : i < n => Superseded(p[i]) /\ p[i + 1] = next[p[i]]
      BY <2>3 DEF CallShape, CallPath, p, n
    <3> QED
      BY <2>3, <2>7, <2>8, <3>1, <3>2
  <2> QED
    BY <2>2, <2>3, <2>9 DEF CallShape, CallPath, Superseded
<1>14. ASSUME NEW c \in calls, Unreachable(c) PROVE CallPath'
  <2> DEFINE r == [c EXCEPT !.stage = "err", !.path = Front(c.path)]
  <2>1. /\ r.from = c.from /\ r.kind = c.kind /\ r.entry = c.entry
        /\ r.stage = "err" /\ r.path = Front(c.path)
    BY EditFields DEF Typed, TypeOK
  <2>2. calls' = (calls \ {c}) \cup {r}
    BY <1>14 DEF Unreachable, Replace
  <2> HIDE DEF r
  <2>3. next' = next /\ c.path # << >>
    BY <1>14 DEF Unreachable
  <2>4. c.path \in Seq(Daemons)
    BY PathIn DEF CallShape
  <2>5. /\ Len(c.path) \in Nat \ {0} /\ Len(Front(c.path)) = Len(c.path) - 1
        /\ \A k \in 1..(Len(c.path) - 1) : Front(c.path)[k] = c.path[k]
    BY <2>3, <2>4, PathEnd
  <2>6. Front(c.path) # << >> => Len(c.path) - 1 # 0
    BY <2>3, <2>4, <2>5, PathEnd, EmptySeq
  <2> DEFINE p == c.path
             n == Len(p)
             q == Front(p)
  <2>7. /\ q # << >> => q[1] = p[1]
        /\ \A i \in 1..Len(q) :
             i < Len(q) => i \in 1..n /\ i < n /\ q[i] = p[i] /\ q[i + 1] = p[i + 1]
    <3> HIDE DEF p, q
    <3>1. n \in Nat \ {0} /\ Len(q) = n - 1 /\ \A k \in 1..(n - 1) : q[k] = p[k]
      BY <2>5 DEF p, q
    <3>2. q # << >> => n - 1 # 0
      BY <2>6 DEF p, q
    <3> HIDE DEF n
    <3> QED
      BY <3>1, <3>2
  <2> HIDE DEF p, n, q
  <2>8. /\ r.path # << >> => r.path[1] = next[r.from]
        /\ \A i \in 1..Len(r.path) :
             i < Len(r.path) => Superseded(r.path[i]) /\ r.path[i + 1] = next[r.path[i]]
    BY <2>1, <2>3, <2>7 DEF CallShape, CallPath, p, n, q
  <2> QED
    BY <2>2, <2>3, <2>8 DEF CallShape, CallPath, Superseded
<1>15. ASSUME NEW c \in calls, ClaimHandoff(c) PROVE CallPath'
  <2> DEFINE r == [c EXCEPT !.stage = "claimed"]
  <2>1. /\ r.from = c.from /\ r.kind = c.kind /\ r.entry = c.entry
        /\ r.stage = "claimed" /\ r.path = c.path
    BY EditFields DEF Typed, TypeOK
  <2>2. calls' = (calls \ {c}) \cup {r}
    BY <1>15 DEF ClaimHandoff, Replace
  <2> HIDE DEF r
  <2>3. next' = next
    BY <1>15 DEF ClaimHandoff
  <2> QED
    BY <2>1, <2>2, <2>3 DEF CallShape, CallPath, Superseded
<1>16. ASSUME NEW c \in calls, AcceptHandoff(c) PROVE CallPath'
  <2> DEFINE r == [c EXCEPT !.stage = "ok"]
  <2>1. /\ r.from = c.from /\ r.kind = c.kind /\ r.entry = c.entry
        /\ r.stage = "ok" /\ r.path = c.path
    BY EditFields DEF Typed, TypeOK
  <2>2. calls' = (calls \ {c}) \cup {r}
    BY <1>16 DEF AcceptHandoff, Replace
  <2> HIDE DEF r
  <2>3. next' = next
    BY <1>16 DEF AcceptHandoff
  <2> QED
    BY <2>1, <2>2, <2>3 DEF CallShape, CallPath, Superseded
<1>17. ASSUME NEW c \in calls, AcceptRelease(c) PROVE CallPath'
  <2> DEFINE r == [c EXCEPT !.stage = "ok"]
  <2>1. /\ r.from = c.from /\ r.kind = c.kind /\ r.entry = c.entry
        /\ r.stage = "ok" /\ r.path = c.path
    BY EditFields DEF Typed, TypeOK
  <2>2. calls' = (calls \ {c}) \cup {r}
    BY <1>17 DEF AcceptRelease, Replace
  <2> HIDE DEF r
  <2>3. next' = next
    BY <1>17 DEF AcceptRelease
  <2> QED
    BY <2>1, <2>2, <2>3 DEF CallShape, CallPath, Superseded
<1>18. ASSUME NEW c \in calls, Answer(c) PROVE CallPath'
  <2> DEFINE r == [c EXCEPT !.path = Front(c.path)]
  <2>1. /\ r.from = c.from /\ r.kind = c.kind /\ r.entry = c.entry
        /\ r.stage = c.stage /\ r.path = Front(c.path)
    BY EditFields DEF Typed, TypeOK
  <2>2. /\ calls' = (calls \ {c}) \cup {r} \/ (calls' = calls \ {c} /\ c.from = None)
        /\ c.path # << >> /\ c.stage \in {"ok", "err"}
    BY <1>18 DEF Answer, Replace
  <2> HIDE DEF r
  <2>3. next' = next /\ c.path # << >>
    BY <1>18 DEF Answer
  <2>4. c.path \in Seq(Daemons)
    BY PathIn DEF CallShape
  <2>5. /\ Len(c.path) \in Nat \ {0} /\ Len(Front(c.path)) = Len(c.path) - 1
        /\ \A k \in 1..(Len(c.path) - 1) : Front(c.path)[k] = c.path[k]
    BY <2>3, <2>4, PathEnd
  <2>6. Front(c.path) # << >> => Len(c.path) - 1 # 0
    BY <2>3, <2>4, <2>5, PathEnd, EmptySeq
  <2> DEFINE p == c.path
             n == Len(p)
             q == Front(p)
  <2>7. /\ q # << >> => q[1] = p[1]
        /\ \A i \in 1..Len(q) :
             i < Len(q) => i \in 1..n /\ i < n /\ q[i] = p[i] /\ q[i + 1] = p[i + 1]
    <3> HIDE DEF p, q
    <3>1. n \in Nat \ {0} /\ Len(q) = n - 1 /\ \A k \in 1..(n - 1) : q[k] = p[k]
      BY <2>5 DEF p, q
    <3>2. q # << >> => n - 1 # 0
      BY <2>6 DEF p, q
    <3> HIDE DEF n
    <3> QED
      BY <3>1, <3>2
  <2> HIDE DEF p, n, q
  <2>8. /\ r.path # << >> => r.path[1] = next[r.from]
        /\ \A i \in 1..Len(r.path) :
             i < Len(r.path) => Superseded(r.path[i]) /\ r.path[i + 1] = next[r.path[i]]
    BY <2>1, <2>3, <2>7 DEF CallShape, CallPath, p, n, q
  <2> QED
    BY <2>2, <2>3, <2>8 DEF CallShape, CallPath, Superseded
<1> QED
  BY <1>1, <1>2, <1>3, <1>4, <1>5, <1>6, <1>7, <1>8, <1>9, <1>10, <1>11, <1>12, <1>13,
     <1>14, <1>15, <1>16, <1>17, <1>18 DEF Next, Caller, Start, Work, Watcher, Again,
     Peer, Client

\* It forwards the session's calls to e, or its predecessor's report says so.
Forwards(n, e) == foreign[n] = e \/ (report[n].kind = "kept" /\ report[n].owner = e)

\* A superseded daemon that has the session or has yet to report on it, and
\* whose report is not accepted.
Keeps(e) ==
    /\ Superseded(e)
    /\ sess[e] # "none" \/ owned[e] \/ \E c \in calls : c.from = e
    /\ ~Accepted(e)

\* The newest daemon forwards to whatever superseded daemon keeps the session.
Kept == \A e \in Daemons : Keeps(e) => \A n \in Daemons : Newest(n) => Forwards(n, e)

\* It has not got the session itself then, and it forwards to a daemon that
\* forwards to nobody.
NewestForwards ==
    \A n \in Daemons : Newest(n) /\ (\E e \in Daemons : Forwards(n, e)) =>
        /\ sess[n] = "none" /\ resuming[n] \notin {"pending", "loading"}
        /\ phase[n] = "resume" => reg[n] # "marked"
ForwardsOnce == \A n, o \in Daemons : Forwards(n, o) => foreign[o] = None
Forwarding == NewestForwards /\ ForwardsOnce

\* A session a daemon has or forwards is in its registry, and none it forwards
\* is ending there.
Entered ==
    \A d \in Daemons :
        /\ sess[d] # "none" \/ foreign[d] # None \/ resuming[d] = "pending"
             => reg[d] # "absent"
        /\ report[d].kind = "kept" => report[d].entry # "absent"
        /\ report[d].kind = "handed" => report[d].entry = "marked" /\ report[d].owner = None
        /\ ending[d] # "none" => foreign[d] = None

\* Who waits for an answer keeps the session, while there is none.
LEMMA MakerKeeps ==
    ASSUME Typed, CallFrom, NEW c \in calls, c.stage # "ok"
    PROVE  Keeps(c.from)
BY MakerWaits DEF Keeps, Accepted

\* A daemon with no call waits for none.
LEMMA NotWaiting ==
    ASSUME Typed, CallFrom, NEW d \in Daemons, watch[d] # "call"
    PROVE  ~Accepted(d) /\ \A c \in calls : c.from # d
BY MakerWaits DEF Accepted

\* There is one newest daemon: the claim's holder, or the one with the report.
LEMMA NewestIs ==
    ASSUME Line, DaemonsAssumption, NEW n \in Daemons, NEW m \in Daemons, Newest(n)
    PROVE  /\ Newest(m) => m = n /\ ~Superseded(n)
           /\ claim # None => claim = n
           /\ phase[m] = "reported" => m = n /\ claim = None
BY DEF Line, Newest

\* The claim's holder forwards to whoever keeps the session.
LEMMA HolderForwards ==
    ASSUME Typed, Line, Outside, Kept, NEW e \in Daemons, Keeps(e), NEW n \in Daemons,
              claim = n
    PROVE  foreign[n] = e
<1>1. phase[n] # "reported"
  BY DaemonsAssumption DEF Line
<1>2. report[n] = NoReport
  BY <1>1 DEF Outside
<1> QED
  BY <1>2 DEF Kept, Newest, Forwards, NoReport

\* A handoff is claimed by the claim's holder, which serves.
LEMMA ClaimedAt ==
    ASSUME Typed, Line, Outside, Resuming, NEW d \in Daemons,
              resuming[d] \in {"claimed", "pending"}
    PROVE  phase[d] = "serving" /\ claim = d
<1>1. phase[d] \in Phases /\ phase[d] \notin {"orphaned", "merging"}
  BY DEF Line, Typed, TypeOK
<1>2. phase[d] = "serving"
  BY <1>1 DEF Outside, Phases
<1> QED
  BY <1>2 DEF Line, Resuming

\* A report is received by the claim's holder, which forwards to its maker.
LEMMA ReceivedAt ==
    ASSUME Typed, Line, Outside, Resuming, CallShape, Kept, NEW c \in calls,
           ClaimHandoff(c) \/ AcceptHandoff(c) \/ AcceptRelease(c)
    PROVE  /\ Server(c) \in Daemons /\ phase[Server(c)] = "serving" /\ claim = Server(c)
           /\ ~Superseded(Server(c)) /\ c.from \in Daemons /\ Keeps(c.from)
           /\ foreign[Server(c)] = c.from /\ c.path # << >> /\ c.from # Server(c)
           /\ \A e \in Daemons : Keeps(e) => e = c.from
<1>1. c.path # << >> /\ c.stage # "ok"
  BY DEF ClaimHandoff, AcceptHandoff, AcceptRelease, CallShape, CallClaimed
<1>2. Server(c) \in Daemons
  BY <1>1, ServerIs
<1>3. Keeps(c.from) /\ c.from \in Daemons
  BY <1>1, MakerKeeps, MakerWaits DEF CallShape
<1>4. phase[Server(c)] = "serving" /\ claim = Server(c)
  <2>1. CASE AcceptHandoff(c)
    BY <1>2, <2>1, AcceptWhere, ClaimedAt DEF CallShape
  <2>2. CASE ClaimHandoff(c) \/ AcceptRelease(c)
    BY <1>2, <2>2 DEF ClaimHandoff, AcceptRelease, Accepting, Line
  <2> QED
    BY <2>1, <2>2
<1>5. \A e \in Daemons : Keeps(e) => foreign[Server(c)] = e
  BY <1>2, <1>4, HolderForwards
<1>6. ~Superseded(Server(c))
  BY <1>2, <1>4 DEF Line
<1> QED
  BY <1>1, <1>2, <1>3, <1>4, <1>5, <1>6 DEF Keeps

\* The session a watcher ships, step by step.
LEMMA HandingNext ==
    ASSUME Plain, Typed, Typed', Line, Line', Outside, CallShape, Handing, Resuming,
       Kept, Forwarding, Entered, Unborn, [Next]_vars
    PROVE  Handing'
<1> USE DEF procVars, regVars, sessVars, handVars, wakeVars, wireVars, histVars
<1>1. ASSUME NEW d \in Daemons,
             LoadRegistry(d) \/ Run(d) \/ Ended(d) \/ OtherProgress(d) \/ Reclaim(d)
                \/ Merge(d) \/ ClientCall(d)
      PROVE  Handing'
  <2>1. UNCHANGED <<sess, watch>>
    BY <1>1 DEF LoadRegistry, Run, Ended, Notify, UpdateRegistry, OtherProgress,
       Reclaim, Merge, ClientCall
  <2> QED
    BY <2>1 DEF Handing
<1>2. ASSUME NEW c \in calls,
             Relay(c) \/ Unreachable(c) \/ ClaimHandoff(c) \/ AcceptHandoff(c) \/
                AcceptRelease(c) \/ Answer(c)
      PROVE  Handing'
  <2>1. UNCHANGED <<sess, watch>>
    BY <1>2 DEF Relay, Replace, Unreachable, ClaimHandoff, AcceptHandoff,
       UpdateRegistry, AcceptRelease, Answer, Notify
  <2> QED
    BY <2>1 DEF Handing
<1>3. CASE Dispatch \/ Connect \/ Forwarded
  <2>1. UNCHANGED <<sess, watch>>
    BY <1>3 DEF Dispatch, Returns, Connect, Goes, Forwarded
  <2> QED
    BY <2>1 DEF Handing
<1>4. CASE UNCHANGED vars
  <2>1. UNCHANGED <<sess, watch>>
    BY <1>4 DEF vars
  <2> QED
    BY <2>1 DEF Handing
<1>5. ASSUME NEW d \in Daemons, OpenClaim(d) PROVE Handing'
  BY <1>5, DaemonsAssumption DEF Typed, TypeOK, Handing, OpenClaim, Lead, Outside
<1>6. ASSUME NEW d \in Daemons, Takeover(d) PROVE Handing'
  <2>1. PICK p \in Daemons : p = claim
    BY <1>6 DEF Takeover, Typed, TypeOK
  <2>2. /\ sess' = [sess EXCEPT ![p] = IF Handed(p) THEN "none" ELSE @]
        /\ watch' = [watch EXCEPT ![p] = "scan"] /\ watch[p] = "off"
    BY <1>6, <2>1 DEF Takeover, Typed, Watches
  <2> QED
    BY <2>2 DEF Handing, Typed, TypeOK
<1>7. ASSUME NEW d \in Daemons, Supersede(d) PROVE Handing'
  BY <1>7, DaemonsAssumption DEF Typed, TypeOK, Handing, Supersede, Lead,
     UpdateRegistry, Outside
<1>8. ASSUME NEW d \in Daemons, ResumeMarked(d) PROVE Handing'
  BY <1>8, DaemonsAssumption DEF Typed, TypeOK, Handing, ResumeMarked
<1>9. ASSUME NEW d \in Daemons, Spawn(d) PROVE Handing'
  BY <1>9, DaemonsAssumption DEF Typed, TypeOK, Handing, Spawn, Notify, UpdateRegistry
<1>10. ASSUME NEW d \in Daemons, StartTurn(d) PROVE Handing'
  BY <1>10, DaemonsAssumption DEF Typed, TypeOK, Handing, StartTurn, Notify
<1>11. ASSUME NEW d \in Daemons, EndTurn(d) PROVE Handing'
  BY <1>11, DaemonsAssumption DEF Typed, TypeOK, Handing, EndTurn, Notify
<1>12. ASSUME NEW d \in Daemons, Adopt(d) PROVE Handing'
  BY <1>12, DaemonsAssumption DEF Typed, TypeOK, Handing, Adopt
<1>13. ASSUME NEW d \in Daemons, ResumeHanded(d) PROVE Handing'
  BY <1>13, DaemonsAssumption DEF Typed, TypeOK, Handing, ResumeHanded, Notify
<1>14. ASSUME NEW d \in Daemons, LaunchSettles(d) PROVE Handing'
  BY <1>14, DaemonsAssumption DEF Typed, TypeOK, Handing, LaunchSettles, Notify,
     UpdateRegistry
<1>15. ASSUME NEW d \in Daemons, NEW k \in {"close", "forget"},
             EndSession(d, k)
      PROVE  Handing'
  BY <1>15, DaemonsAssumption DEF Typed, TypeOK, Handing, EndSession, Notify
<1>16. ASSUME NEW d \in Daemons, Scan(d) PROVE Handing'
  BY <1>16, DaemonsAssumption DEF Typed, TypeOK, Handing, Scan
<1>17. ASSUME NEW d \in Daemons, NEW c \in calls, Reported(d, c) PROVE Handing'
  <2>1. c.kind = "release" => sess[d] = "none"
    BY <1>17 DEF Reported, CallShape, CallFrom
  <2>2. c.kind \in Kinds
    BY <1>17, PathIn, CallFields DEF CallShape, Reported
  <2> QED
    BY <1>17, <2>1, <2>2 DEF Reported, Handing, Typed, TypeOK, Kinds
<1>18. ASSUME NEW d \in Daemons, Check(d) PROVE Handing'
  BY <1>18, DaemonsAssumption DEF Typed, TypeOK, Handing, Check
<1>19. ASSUME NEW d \in Daemons, Watch(d) PROVE Handing'
  BY <1>19, DaemonsAssumption DEF Typed, TypeOK, Handing, Watch
<1>20. ASSUME NEW d \in Daemons, Exit(d) PROVE Handing'
  BY <1>20, DaemonsAssumption DEF Typed, TypeOK, Handing, Exit, Gone
<1>21. ASSUME NEW d \in Daemons, Crash(d) PROVE Handing'
  BY <1>21 DEF Plain
<1>22. ASSUME NEW d \in Daemons, LeadFails(d) PROVE Handing'
  BY <1>22 DEF LeadFails, Line
<1> QED
  BY <1>1, <1>2, <1>3, <1>4, <1>5, <1>6, <1>7, <1>8, <1>9, <1>10, <1>11, <1>12, <1>13,
     <1>14, <1>15, <1>16, <1>17, <1>18, <1>19, <1>20, <1>21, <1>22 DEF Next, Caller,
     Start, Work, Watcher, Again, Peer, Client

\* The resume of a handoff, step by step.
LEMMA ResumingNext ==
    ASSUME Plain, Typed, Typed', Line, Line', Outside, CallShape, Handing, Resuming,
       Kept, Forwarding, Entered, Unborn, [Next]_vars
    PROVE  Resuming'
<1> USE DEF procVars, regVars, sessVars, handVars, wakeVars, wireVars, histVars
<1>1. ASSUME NEW d \in Daemons,
             LoadRegistry(d) \/ Run(d) \/ OpenClaim(d) \/ Supersede(d) \/
                OtherProgress(d) \/ Check(d) \/ Watch(d) \/ Reclaim(d) \/
                ClientCall(d)
      PROVE  Resuming'
  <2>1. UNCHANGED <<sess, ending, resuming, next>>
    BY <1>1 DEF LoadRegistry, Run, OpenClaim, Lead, Supersede, UpdateRegistry,
       OtherProgress, Notify, Check, Watch, Reclaim, ClientCall
  <2> QED
    BY <2>1 DEF Resuming, Superseded
<1>2. ASSUME NEW c \in calls,
             Relay(c) \/ Unreachable(c) \/ AcceptRelease(c) \/ Answer(c)
      PROVE  Resuming'
  <2>1. UNCHANGED <<sess, ending, resuming, next>>
    BY <1>2 DEF Relay, Replace, Unreachable, AcceptRelease, UpdateRegistry, Answer,
       Notify
  <2> QED
    BY <2>1 DEF Resuming, Superseded
<1>3. CASE Dispatch \/ Connect \/ Forwarded
  <2>1. UNCHANGED <<sess, ending, resuming, next>>
    BY <1>3 DEF Dispatch, Returns, Connect, Goes, Forwarded
  <2> QED
    BY <2>1 DEF Resuming, Superseded
<1>4. CASE UNCHANGED vars
  <2>1. UNCHANGED <<sess, ending, resuming, next>>
    BY <1>4 DEF vars
  <2> QED
    BY <2>1 DEF Resuming, Superseded
<1>5. ASSUME NEW d \in Daemons, Takeover(d) PROVE Resuming'
  <2>1. PICK p \in Daemons : p = claim
    BY <1>5 DEF Takeover, Typed, TypeOK
  <2>2. /\ next' = [next EXCEPT ![p] = d] /\ UNCHANGED <<ending, resuming>>
             /\ resuming[p] \in {"no", "loading"}
        /\ sess' = [sess EXCEPT ![p] = IF sess[p] = "idle" THEN "none" ELSE @]
    BY <1>5, <2>1 DEF Takeover, Handed, Plain
  <2> QED
    BY <2>2 DEF Resuming, Superseded, Typed, TypeOK
<1>6. ASSUME NEW d \in Daemons, ResumeMarked(d) PROVE Resuming'
  BY <1>6, DaemonsAssumption DEF Typed, TypeOK, Resuming, Superseded, ResumeMarked,
     Outside, Line
<1>7. ASSUME NEW d \in Daemons, Spawn(d) PROVE Resuming'
  BY <1>7, DaemonsAssumption DEF Typed, TypeOK, Resuming, Superseded, Spawn, Notify,
     UpdateRegistry, Unborn, Nothing
<1>8. ASSUME NEW d \in Daemons, StartTurn(d) PROVE Resuming'
  BY <1>8, DaemonsAssumption DEF Typed, TypeOK, Resuming, Superseded, StartTurn,
     Notify
<1>9. ASSUME NEW d \in Daemons, EndTurn(d) PROVE Resuming'
  BY <1>9, DaemonsAssumption DEF Typed, TypeOK, Resuming, Superseded, EndTurn, Notify
<1>10. ASSUME NEW d \in Daemons, Adopt(d) PROVE Resuming'
  <2>1. resuming[d] \notin {"claimed", "pending"}
    BY <1>10, ReachedWhere DEF Adopt, Line, Resuming
  <2> QED
    BY <1>10, <2>1 DEF Adopt, Resuming, Superseded, Typed, TypeOK
<1>11. ASSUME NEW d \in Daemons, ResumeHanded(d) PROVE Resuming'
  BY <1>11, DaemonsAssumption DEF Typed, TypeOK, Resuming, Superseded, ResumeHanded,
     Notify
<1>12. ASSUME NEW d \in Daemons, LaunchSettles(d) PROVE Resuming'
  BY <1>12, DaemonsAssumption DEF Typed, TypeOK, Resuming, Superseded, LaunchSettles,
     Notify, UpdateRegistry
<1>13. ASSUME NEW d \in Daemons, Ended(d) PROVE Resuming'
  BY <1>13, DaemonsAssumption DEF Typed, TypeOK, Resuming, Superseded, Ended, Notify,
     UpdateRegistry
<1>14. ASSUME NEW d \in Daemons, NEW k \in {"close", "forget"},
             EndSession(d, k)
      PROVE  Resuming'
  <2>1. resuming[d] \notin {"claimed", "pending"}
    BY <1>14, ReachedWhere DEF EndSession, Line, Resuming
  <2> QED
    BY <1>14, <2>1 DEF EndSession, Resuming, Superseded, Typed, TypeOK
<1>15. ASSUME NEW d \in Daemons, Scan(d) PROVE Resuming'
  BY <1>15, DaemonsAssumption DEF Typed, TypeOK, Resuming, Superseded, Scan
<1>16. ASSUME NEW d \in Daemons, NEW c \in calls, Reported(d, c) PROVE Resuming'
  <2>1. c.kind = "handoff" => sess[d] = "handing"
    BY <1>16 DEF Reported, CallShape, CallFrom
  <2> QED
    BY <1>16, <2>1 DEF Reported, Resuming, Superseded, Typed, TypeOK
<1>17. ASSUME NEW d \in Daemons, Merge(d) PROVE Resuming'
  BY <1>17 DEF Merge, Line
<1>18. ASSUME NEW d \in Daemons, Exit(d) PROVE Resuming'
  BY <1>18, DaemonsAssumption DEF Typed, TypeOK, Resuming, Superseded, Exit, Gone
<1>19. ASSUME NEW d \in Daemons, Crash(d) PROVE Resuming'
  BY <1>19 DEF Plain
<1>20. ASSUME NEW d \in Daemons, LeadFails(d) PROVE Resuming'
  BY <1>20 DEF LeadFails, Line
<1>21. ASSUME NEW c \in calls, ClaimHandoff(c) PROVE Resuming'
  <2>1. /\ Server(c) \in Daemons /\ ~Superseded(Server(c)) /\ foreign[Server(c)] = c.from
             /\ c.from \in Daemons
        /\ claim = Server(c)
    BY <1>21, ReceivedAt
  <2>2. sess[Server(c)] = "none" /\ ending[Server(c)] = "none"
    BY <2>1, DaemonsAssumption DEF Forwarding, NewestForwards, Newest, Forwards, Entered
  <2>3. UNCHANGED <<sess, ending, next>>
           /\ resuming' = [resuming EXCEPT ![Server(c)] = "claimed"]
    BY <1>21 DEF ClaimHandoff
  <2> QED
    BY <2>1, <2>2, <2>3 DEF Resuming, Superseded, Typed, TypeOK
<1>22. ASSUME NEW c \in calls, AcceptHandoff(c) PROVE Resuming'
  <2>1. Server(c) \in Daemons /\ resuming[Server(c)] = "claimed"
    BY <1>22, AcceptWhere DEF CallShape
  <2>3. UNCHANGED <<sess, ending, next>>
           /\ resuming' = [resuming EXCEPT ![Server(c)] = "pending"]
    BY <1>22 DEF AcceptHandoff
  <2> QED
    BY <2>1, <2>3 DEF Resuming, Superseded, Typed, TypeOK
<1> QED
  BY <1>1, <1>2, <1>3, <1>4, <1>5, <1>6, <1>7, <1>8, <1>9, <1>10, <1>11, <1>12, <1>13,
     <1>14, <1>15, <1>16, <1>17, <1>18, <1>19, <1>20, <1>21, <1>22 DEF Next, Caller,
     Start, Work, Watcher, Again, Peer, Client

\* The registry entry of the session, step by step.
LEMMA EnteredNext ==
    ASSUME Plain, Typed, Typed', Line, Line', Outside, CallShape, Handing, Resuming,
       Kept, Forwarding, Entered, Unborn, [Next]_vars
    PROVE  Entered'
<1> USE DEF procVars, regVars, sessVars, handVars, wakeVars, wireVars, histVars
<1>1. ASSUME NEW d \in Daemons,
             Run(d) \/ OpenClaim(d) \/ Check(d) \/ Watch(d) \/ Reclaim(d) \/
                ClientCall(d)
      PROVE  Entered'
  <2>1. UNCHANGED <<reg, sess, ending, resuming, foreign, report>>
    BY <1>1 DEF Run, OpenClaim, Lead, Check, Watch, Reclaim, ClientCall
  <2> QED
    BY <2>1 DEF Entered
<1>2. ASSUME NEW c \in calls, Relay(c) \/ Unreachable(c) PROVE Entered'
  <2>1. UNCHANGED <<reg, sess, ending, resuming, foreign, report>>
    BY <1>2 DEF Relay, Replace, Unreachable
  <2> QED
    BY <2>1 DEF Entered
<1>3. CASE Dispatch \/ Forwarded
  <2>1. UNCHANGED <<reg, sess, ending, resuming, foreign, report>>
    BY <1>3 DEF Dispatch, Returns, Forwarded, Goes
  <2> QED
    BY <2>1 DEF Entered
<1>4. CASE UNCHANGED vars
  <2>1. UNCHANGED <<reg, sess, ending, resuming, foreign, report>>
    BY <1>4 DEF vars
  <2> QED
    BY <2>1 DEF Entered
<1>5. ASSUME NEW d \in Daemons, LoadRegistry(d) PROVE Entered'
  BY <1>5, DaemonsAssumption DEF Typed, TypeOK, Entered, LoadRegistry, Outside
<1>6. ASSUME NEW d \in Daemons, Takeover(d) PROVE Entered'
  <2>1. PICK p \in Daemons : p = claim
    BY <1>6 DEF Takeover, Typed, TypeOK
  <2>2. /\ \A e \in Daemons : sess'[e] # "none" => sess[e] # "none"
        /\ UNCHANGED <<reg, ending, resuming, foreign>>
        /\ report' = [report EXCEPT ![d] = Partition(p)]
    BY <1>6, <2>1 DEF Takeover, Typed, TypeOK
  <2>3. /\ Partition(p).kind = "kept" => Partition(p).entry # "absent"
        /\ Partition(p).kind = "handed"
             => Partition(p).entry = "marked" /\ Partition(p).owner = None
    BY DEF Partition, NoReport, Entered, Handed
  <2> HIDE DEF Partition
  <2> QED
    BY <2>2, <2>3 DEF Entered, Typed, TypeOK
<1>7. ASSUME NEW d \in Daemons, Supersede(d) PROVE Entered'
  <2> DEFINE r == report[d]
  <2>1. sess[d] = "none" /\ resuming[d] = "no" /\ ending[d] = "none" /\ foreign[d] = None
    BY <1>7 DEF Supersede, Outside
  <2>2. /\ foreign'[d] = IF r.kind = "kept" THEN r.owner ELSE None
        /\ r.kind = "kept" => reg'[d] = "plain"
        /\ UNCHANGED <<sess, ending, resuming>>
        /\ \A e \in Daemons \ {d} :
             foreign'[e] = foreign[e] /\ reg'[e] = reg[e] /\ report'[e] = report[e]
        /\ report'[d] = NoReport
    BY <1>7, <2>1 DEF Supersede, UpdateRegistry, Typed, TypeOK, Entered
  <2> QED
    BY <2>1, <2>2 DEF Entered, NoReport
<1>8. ASSUME NEW d \in Daemons, ResumeMarked(d) PROVE Entered'
  BY <1>8, DaemonsAssumption DEF Typed, TypeOK, Entered, ResumeMarked
<1>9. ASSUME NEW d \in Daemons, Spawn(d) PROVE Entered'
  BY <1>9, DaemonsAssumption DEF Typed, TypeOK, Entered, Spawn, Notify, UpdateRegistry
<1>10. ASSUME NEW d \in Daemons, StartTurn(d) PROVE Entered'
  BY <1>10, DaemonsAssumption DEF Typed, TypeOK, Entered, StartTurn, Notify
<1>11. ASSUME NEW d \in Daemons, EndTurn(d) PROVE Entered'
  BY <1>11, DaemonsAssumption DEF Typed, TypeOK, Entered, EndTurn, Notify
<1>12. ASSUME NEW d \in Daemons, Adopt(d) PROVE Entered'
  BY <1>12, DaemonsAssumption DEF Typed, TypeOK, Entered, Adopt
<1>13. ASSUME NEW d \in Daemons, ResumeHanded(d) PROVE Entered'
  BY <1>13, DaemonsAssumption DEF Typed, TypeOK, Entered, ResumeHanded, Notify
<1>14. ASSUME NEW d \in Daemons, LaunchSettles(d) PROVE Entered'
  BY <1>14, DaemonsAssumption DEF Typed, TypeOK, Entered, LaunchSettles, Notify,
     UpdateRegistry
<1>15. ASSUME NEW d \in Daemons, Ended(d) PROVE Entered'
  BY <1>15, DaemonsAssumption DEF Typed, TypeOK, Entered, Ended, Notify,
     UpdateRegistry, Resuming
<1>16. ASSUME NEW d \in Daemons, NEW k \in {"close", "forget"},
             EndSession(d, k)
      PROVE  Entered'
  <2>1. phase[d] = "serving" /\ claim # None /\ (claim = d => foreign[d] = None)
           /\ (claim # d => foreign[claim] = d)
    BY <1>16, ReachedWhere DEF EndSession
  <2>2. foreign[d] = None
    BY <2>1 DEF Forwarding, ForwardsOnce, Forwards, Typed, TypeOK
  <2>3. /\ UNCHANGED <<reg, resuming, foreign, report>>
             /\ sess' = [sess EXCEPT ![d] = "none"]
        /\ \A e \in Daemons \ {d} : ending'[e] = ending[e]
    BY <1>16 DEF EndSession, Typed, TypeOK
  <2> QED
    BY <2>2, <2>3 DEF Entered, Typed, TypeOK
<1>17. ASSUME NEW d \in Daemons, OtherProgress(d) PROVE Entered'
  BY <1>17, DaemonsAssumption DEF Typed, TypeOK, Entered, OtherProgress, Notify,
     UpdateRegistry
<1>18. ASSUME NEW d \in Daemons, Scan(d) PROVE Entered'
  BY <1>18, DaemonsAssumption DEF Typed, TypeOK, Entered, Scan
<1>19. ASSUME NEW d \in Daemons, NEW c \in calls, Reported(d, c) PROVE Entered'
  BY <1>19, DaemonsAssumption DEF Typed, TypeOK, Entered, Reported, Notify
<1>20. ASSUME NEW d \in Daemons, Merge(d) PROVE Entered'
  BY <1>20 DEF Merge, Line
<1>21. ASSUME NEW d \in Daemons, Exit(d) PROVE Entered'
  BY <1>21, DaemonsAssumption DEF Typed, TypeOK, Entered, Exit, Gone, NoReport
<1>22. ASSUME NEW d \in Daemons, Crash(d) PROVE Entered'
  BY <1>22 DEF Plain
<1>23. ASSUME NEW d \in Daemons, LeadFails(d) PROVE Entered'
  BY <1>23 DEF LeadFails, Line
<1>24. ASSUME NEW c \in calls, ClaimHandoff(c) PROVE Entered'
  <2>1. Server(c) \in Daemons
    BY <1>24, ReceivedAt
  <2>3. /\ UNCHANGED <<sess, ending, report, foreign, reg>>
             /\ resuming' = [resuming EXCEPT ![Server(c)] = "claimed"]
    BY <1>24 DEF ClaimHandoff
  <2> QED
    BY <2>1, <2>3 DEF Entered, Typed, TypeOK
<1>25. ASSUME NEW c \in calls, AcceptHandoff(c) PROVE Entered'
  <2>1. Server(c) \in Daemons /\ c.entry = "marked"
    BY <1>25, AcceptWhere DEF CallShape
  <2>3. /\ UNCHANGED <<sess, ending, report>>
             /\ foreign' = [foreign EXCEPT ![Server(c)] = None]
        /\ resuming' = [resuming EXCEPT ![Server(c)] = "pending"]
        /\ reg' = [reg EXCEPT ![Server(c)] = c.entry]
    BY <1>25 DEF AcceptHandoff, UpdateRegistry
  <2> QED
    BY <2>1, <2>3 DEF Entered, Typed, TypeOK
<1>26. ASSUME NEW c \in calls, AcceptRelease(c) PROVE Entered'
  <2>1. /\ Server(c) \in Daemons /\ foreign[Server(c)] = c.from /\ c.from \in Daemons
             /\ claim = Server(c)
    BY <1>26, ReceivedAt
  <2>2. sess[Server(c)] = "none" /\ resuming[Server(c)] # "pending"
    BY <2>1, DaemonsAssumption DEF Forwarding, NewestForwards, Newest, Forwards
  <2>3. /\ UNCHANGED <<sess, ending, resuming, report>>
             /\ foreign' = [foreign EXCEPT ![Server(c)] = None]
        /\ reg' = [reg EXCEPT ![Server(c)] = c.entry]
    BY <1>26 DEF AcceptRelease, UpdateRegistry
  <2> QED
    BY <2>1, <2>2, <2>3 DEF Entered, Typed, TypeOK
<1>27. ASSUME NEW c \in calls, Answer(c) PROVE Entered'
  <2>1. /\ UNCHANGED <<reg, sess, ending, resuming, report>>
        /\ \A e \in Daemons : foreign'[e] \in {foreign[e], None}
    BY <1>27 DEF Answer, Typed, TypeOK
  <2> QED
    BY <2>1 DEF Entered
<1>28. CASE Connect
  <2>1. /\ UNCHANGED <<reg, sess, ending, resuming, report>>
        /\ \A e \in Daemons : foreign'[e] \in {foreign[e], None}
    BY <1>28 DEF Connect, Typed, TypeOK
  <2> QED
    BY <2>1 DEF Entered
<1> QED
  BY <1>1, <1>2, <1>3, <1>4, <1>5, <1>6, <1>7, <1>8, <1>9, <1>10, <1>11, <1>12, <1>13,
     <1>14, <1>15, <1>16, <1>17, <1>18, <1>19, <1>20, <1>21, <1>22, <1>23, <1>24,
     <1>25, <1>26, <1>27, <1>28 DEF Next, Caller, Start, Work, Watcher, Again, Peer,
     Client

\* The newest daemon, while it forwards, step by step.
LEMMA NewestForwardsNext ==
    ASSUME Plain, Typed, Typed', Line, Line', Outside, CallShape, Handing, Resuming,
       Kept, Forwarding, Entered, Unborn, [Next]_vars
    PROVE  NewestForwards'
<1> USE DEF procVars, regVars, sessVars, handVars, wakeVars, wireVars, histVars
<1>1. ASSUME NEW d \in Daemons, Check(d) \/ ClientCall(d) PROVE NewestForwards'
  <2>1. UNCHANGED <<phase, claim, reg, sess, resuming, foreign, report>>
    BY <1>1 DEF Check, ClientCall
  <2> QED
    BY <2>1 DEF Forwarding, NewestForwards, Forwards, Newest
<1>2. ASSUME NEW c \in calls, Relay(c) \/ Unreachable(c) PROVE NewestForwards'
  <2>1. UNCHANGED <<phase, claim, reg, sess, resuming, foreign, report>>
    BY <1>2 DEF Relay, Replace, Unreachable
  <2> QED
    BY <2>1 DEF Forwarding, NewestForwards, Forwards, Newest
<1>3. CASE Dispatch \/ Forwarded
  <2>1. UNCHANGED <<phase, claim, reg, sess, resuming, foreign, report>>
    BY <1>3 DEF Dispatch, Returns, Forwarded, Goes
  <2> QED
    BY <2>1 DEF Forwarding, NewestForwards, Forwards, Newest
<1>4. CASE UNCHANGED vars
  <2>1. UNCHANGED <<phase, claim, reg, sess, resuming, foreign, report>>
    BY <1>4 DEF vars
  <2> QED
    BY <2>1 DEF Forwarding, NewestForwards, Forwards, Newest
<1>5. ASSUME NEW d \in Daemons, LoadRegistry(d) PROVE NewestForwards'
  BY <1>5, DaemonsAssumption DEF Typed, TypeOK, Forwarding, NewestForwards, Forwards,
     Newest, LoadRegistry, Line
<1>6. ASSUME NEW d \in Daemons, Run(d) PROVE NewestForwards'
  BY <1>6, DaemonsAssumption DEF Typed, TypeOK, Forwarding, NewestForwards, Forwards,
     Newest, Run, Line
<1>7. ASSUME NEW d \in Daemons, OpenClaim(d) PROVE NewestForwards'
  <2>1. claim # None
    BY <1>7, DaemonsAssumption DEF OpenClaim, Line
  <2>2. UNCHANGED <<claim, reg, sess, resuming, foreign, report>>
           /\ phase' = [phase EXCEPT ![d] = "calling"]
    BY <1>7, <2>1 DEF OpenClaim
  <2> QED
    BY <2>2 DEF Forwarding, NewestForwards, Forwards, Newest, Typed, TypeOK
<1>8. ASSUME NEW d \in Daemons, Takeover(d) PROVE NewestForwards'
  <2>1. PICK p \in Daemons : p = claim
    BY <1>8 DEF Takeover, Typed, TypeOK
  <2>2. /\ phase[d] = "calling" /\ claim' = None
             /\ phase' = [phase EXCEPT ![d] = "reported"]
        /\ resuming' = resuming /\ sess'[d] \in {sess[d], "none"}
    BY <1>8, <2>1 DEF Takeover, Typed, TypeOK
  <2>3. sess'[d] = "none" /\ resuming'[d] = "no"
    BY <2>2 DEF Outside
  <2>4. \A n \in Daemons : phase[n] # "reported"
    BY <2>1, DaemonsAssumption DEF Line
  <2>5. \A n \in Daemons : Newest(n)' => n = d
    BY <2>2, <2>4, DaemonsAssumption DEF Newest, Typed, TypeOK
  <2>6. phase'[d] = "reported"
    BY <2>2 DEF Typed, TypeOK
  <2> QED
    BY <2>3, <2>5, <2>6 DEF NewestForwards
<1>9. ASSUME NEW d \in Daemons, Supersede(d) PROVE NewestForwards'
  <2> DEFINE r == report[d]
  <2>1. sess[d] = "none" /\ resuming[d] = "no" /\ foreign[d] = None
           /\ phase[d] = "reported" /\ claim = None
    BY <1>9 DEF Supersede, Outside, Line
  <2>2. /\ foreign'[d] = IF r.kind = "kept" THEN r.owner ELSE None
        /\ r.kind = "kept" => reg'[d] = "plain"
        /\ UNCHANGED <<sess, resuming>>
        /\ report'[d] = NoReport /\ claim' = d /\ phase'[d] = "resume"
    BY <1>9, <2>1 DEF Supersede, UpdateRegistry, Typed, TypeOK, Entered, Lead, Line
  <2>3. \A n \in Daemons : Newest(n)' => n = d
    BY <1>9, <2>1, <2>2, DaemonsAssumption DEF Newest, Typed, TypeOK, Line
  <2>4. ASSUME NEW e \in Daemons, Forwards(d, e)' PROVE r.kind = "kept"
    BY <2>2, <2>4, DaemonsAssumption DEF Forwards, NoReport
  <2> QED
    BY <2>1, <2>2, <2>3, <2>4 DEF NewestForwards
<1>10. ASSUME NEW d \in Daemons, ResumeMarked(d) PROVE NewestForwards'
  BY <1>10, DaemonsAssumption DEF Typed, TypeOK, Forwarding, NewestForwards, Forwards,
     Newest, ResumeMarked
<1>11. ASSUME NEW d \in Daemons, Spawn(d) PROVE NewestForwards'
  BY <1>11, DaemonsAssumption DEF Typed, TypeOK, Forwarding, NewestForwards, Forwards,
     Newest, Spawn, Notify, UpdateRegistry, Unborn, Nothing
<1>12. ASSUME NEW d \in Daemons, StartTurn(d) PROVE NewestForwards'
  BY <1>12, DaemonsAssumption DEF Typed, TypeOK, Forwarding, NewestForwards, Forwards,
     Newest, StartTurn, Notify
<1>13. ASSUME NEW d \in Daemons, EndTurn(d) PROVE NewestForwards'
  BY <1>13, DaemonsAssumption DEF Typed, TypeOK, Forwarding, NewestForwards, Forwards,
     Newest, EndTurn, Notify
<1>14. ASSUME NEW d \in Daemons, Adopt(d) PROVE NewestForwards'
  <2>1. phase[d] = "serving" /\ claim # None /\ (claim = d => foreign[d] = None)
    BY <1>14, ReachedWhere DEF Adopt
  <2>2. report[d] = NoReport
    BY <2>1 DEF Outside
  <2>3. /\ UNCHANGED <<phase, claim, reg, resuming, foreign, report>>
        /\ \A e \in Daemons \ {d} : sess'[e] = sess[e]
    BY <1>14 DEF Adopt, Typed, TypeOK
  <2>4. ~(Newest(d) /\ \E e \in Daemons : Forwards(d, e))
    BY <2>1, <2>2, DaemonsAssumption DEF Newest, Forwards, NoReport
  <2> QED
    BY <2>3, <2>4 DEF Forwarding, NewestForwards, Forwards, Newest
<1>15. ASSUME NEW d \in Daemons, ResumeHanded(d) PROVE NewestForwards'
  BY <1>15, DaemonsAssumption DEF Typed, TypeOK, Forwarding, NewestForwards, Forwards,
     Newest, ResumeHanded, Notify
<1>16. ASSUME NEW d \in Daemons, LaunchSettles(d) PROVE NewestForwards'
  BY <1>16, DaemonsAssumption DEF Typed, TypeOK, Forwarding, NewestForwards, Forwards,
     Newest, LaunchSettles, Notify, UpdateRegistry
<1>17. ASSUME NEW d \in Daemons, Ended(d) PROVE NewestForwards'
  BY <1>17, DaemonsAssumption DEF Typed, TypeOK, Forwarding, NewestForwards, Forwards,
     Newest, Ended, Notify, UpdateRegistry
<1>18. ASSUME NEW d \in Daemons, NEW k \in {"close", "forget"},
             EndSession(d, k)
      PROVE  NewestForwards'
  BY <1>18, DaemonsAssumption DEF Typed, TypeOK, Forwarding, NewestForwards, Forwards,
     Newest, EndSession, Notify
<1>19. ASSUME NEW d \in Daemons, OtherProgress(d) PROVE NewestForwards'
  BY <1>19, DaemonsAssumption DEF Typed, TypeOK, Forwarding, NewestForwards, Forwards,
     Newest, OtherProgress, Notify, UpdateRegistry
<1>20. ASSUME NEW d \in Daemons, Scan(d) PROVE NewestForwards'
  <2>1. ~Newest(d)
    BY <1>20 DEF Scan, Newest, Typed, Watches
  <2> QED
    BY <1>20, <2>1 DEF Scan, Forwarding, NewestForwards, Forwards, Newest, Typed, TypeOK
<1>21. ASSUME NEW d \in Daemons, NEW c \in calls, Reported(d, c) PROVE NewestForwards'
  <2>1. ~Newest(d)
    BY <1>21, MakerWaits DEF Reported, Newest, Line, CallShape
  <2>2. \A e \in Daemons \ {d} : sess'[e] = sess[e]
    BY <1>21 DEF Reported, Typed, TypeOK
  <2> QED
    BY <1>21, <2>1, <2>2 DEF Reported, Forwarding, NewestForwards, Forwards, Newest
<1>22. ASSUME NEW d \in Daemons, Watch(d) PROVE NewestForwards'
  BY <1>22, DaemonsAssumption DEF Typed, TypeOK, Forwarding, NewestForwards, Forwards,
     Newest, Watch
<1>23. ASSUME NEW d \in Daemons, Reclaim(d) PROVE NewestForwards'
  BY <1>23 DEF Reclaim, Line
<1>24. ASSUME NEW d \in Daemons, Merge(d) PROVE NewestForwards'
  BY <1>24 DEF Merge, Line
<1>25. ASSUME NEW d \in Daemons, Exit(d) PROVE NewestForwards'
  BY <1>25, DaemonsAssumption DEF Typed, TypeOK, Forwarding, NewestForwards, Forwards,
     Newest, Exit, Gone
<1>26. ASSUME NEW d \in Daemons, Crash(d) PROVE NewestForwards'
  BY <1>26 DEF Plain
<1>27. ASSUME NEW d \in Daemons, LeadFails(d) PROVE NewestForwards'
  BY <1>27 DEF LeadFails, Line
<1>28. ASSUME NEW c \in calls, ClaimHandoff(c) PROVE NewestForwards'
  <2>1. /\ UNCHANGED <<phase, claim, reg, sess, foreign, report>>
        /\ \A e \in Daemons : resuming'[e] \in {resuming[e], "claimed"}
    BY <1>28 DEF ClaimHandoff, Typed, TypeOK
  <2> QED
    BY <2>1 DEF Forwarding, NewestForwards, Forwards, Newest
<1>29. ASSUME NEW c \in calls, AcceptHandoff(c) PROVE NewestForwards'
  <2> DEFINE s == Server(c)
  <2>1. /\ s \in Daemons /\ phase[s] = "serving"
        /\ UNCHANGED <<phase, claim, sess, report>>
             /\ foreign' = [foreign EXCEPT ![s] = None]
        /\ reg' = [reg EXCEPT ![s] = c.entry]
             /\ resuming' = [resuming EXCEPT ![s] = "pending"]
    BY <1>29, ReceivedAt DEF AcceptHandoff, UpdateRegistry
  <2>2. report[s] = NoReport
    BY <2>1 DEF Outside
  <2> HIDE DEF s
  <2>3. \A e \in Daemons : ~Forwards(s, e)'
    BY <2>1, <2>2, DaemonsAssumption DEF Forwards, NoReport, Typed, TypeOK
  <2>4. \A n \in Daemons \ {s} :
           reg'[n] = reg[n] /\ resuming'[n] = resuming[n] /\ foreign'[n] = foreign[n]
    BY <2>1 DEF Typed, TypeOK
  <2> QED
    BY <2>1, <2>3, <2>4 DEF Forwarding, NewestForwards, Forwards, Newest
<1>30. ASSUME NEW c \in calls, AcceptRelease(c) PROVE NewestForwards'
  <2> DEFINE s == Server(c)
  <2>1. /\ s \in Daemons /\ phase[s] = "serving"
        /\ UNCHANGED <<phase, claim, sess, resuming, report>>
             /\ foreign' = [foreign EXCEPT ![s] = None]
        /\ reg' = [reg EXCEPT ![s] = c.entry]
    BY <1>30, ReceivedAt DEF AcceptRelease, UpdateRegistry
  <2>2. report[s] = NoReport
    BY <2>1 DEF Outside
  <2> HIDE DEF s
  <2>3. \A e \in Daemons : ~Forwards(s, e)'
    BY <2>1, <2>2, DaemonsAssumption DEF Forwards, NoReport, Typed, TypeOK
  <2>4. \A n \in Daemons \ {s} : reg'[n] = reg[n] /\ foreign'[n] = foreign[n]
    BY <2>1 DEF Typed, TypeOK
  <2> QED
    BY <2>1, <2>3, <2>4 DEF Forwarding, NewestForwards, Forwards, Newest
<1>31. ASSUME NEW c \in calls, Answer(c) PROVE NewestForwards'
  <2>1. /\ UNCHANGED <<phase, claim, reg, sess, resuming, report>>
        /\ \A e \in Daemons : foreign'[e] \in {foreign[e], None}
    BY <1>31 DEF Answer, Typed, TypeOK
  <2> QED
    BY <2>1, DaemonsAssumption DEF Forwarding, NewestForwards, Forwards, Newest
<1>32. CASE Connect
  <2>1. /\ UNCHANGED <<phase, claim, reg, sess, resuming, report>>
        /\ \A e \in Daemons : foreign'[e] \in {foreign[e], None}
    BY <1>32 DEF Connect, Typed, TypeOK
  <2> QED
    BY <2>1, DaemonsAssumption DEF Forwarding, NewestForwards, Forwards, Newest
<1> QED
  BY <1>1, <1>2, <1>3, <1>4, <1>5, <1>6, <1>7, <1>8, <1>9, <1>10, <1>11, <1>12, <1>13,
     <1>14, <1>15, <1>16, <1>17, <1>18, <1>19, <1>20, <1>21, <1>22, <1>23, <1>24,
     <1>25, <1>26, <1>27, <1>28, <1>29, <1>30, <1>31, <1>32 DEF Next, Caller, Start,
     Work, Watcher, Again, Peer, Client

\* What is forwarded to, step by step.
LEMMA ForwardsOnceNext ==
    ASSUME Plain, Typed, Typed', Line, Line', Outside, CallShape, Handing, Resuming,
       Kept, Forwarding, Entered, Unborn, [Next]_vars
    PROVE  ForwardsOnce'
<1> USE DEF procVars, regVars, sessVars, handVars, wakeVars, wireVars, histVars
<1>1. ASSUME NEW d \in Daemons,
             LoadRegistry(d) \/ Run(d) \/ OpenClaim(d) \/ ResumeMarked(d) \/ Spawn(d)
                \/ StartTurn(d) \/ EndTurn(d) \/ Adopt(d) \/ ResumeHanded(d) \/
                LaunchSettles(d)
      PROVE  ForwardsOnce'
  <2>1. UNCHANGED <<foreign, report>>
    BY <1>1 DEF LoadRegistry, Run, OpenClaim, Lead, ResumeMarked, Spawn, Notify,
       UpdateRegistry, StartTurn, EndTurn, Adopt, ResumeHanded, LaunchSettles
  <2> QED
    BY <2>1 DEF Forwarding, ForwardsOnce, Forwards
<1>2. ASSUME NEW d \in Daemons,
             Ended(d) \/ OtherProgress(d) \/ Scan(d) \/ Check(d) \/ Watch(d) \/
                Reclaim(d) \/ Merge(d) \/ ClientCall(d)
      PROVE  ForwardsOnce'
  <2>1. UNCHANGED <<foreign, report>>
    BY <1>2 DEF Ended, Notify, UpdateRegistry, OtherProgress, Scan, Check, Watch,
       Reclaim, Merge, ClientCall
  <2> QED
    BY <2>1 DEF Forwarding, ForwardsOnce, Forwards
<1>3. ASSUME NEW c \in calls,
             Relay(c) \/ Unreachable(c) \/ ClaimHandoff(c)
      PROVE  ForwardsOnce'
  <2>1. UNCHANGED <<foreign, report>>
    BY <1>3 DEF Relay, Replace, Unreachable, ClaimHandoff
  <2> QED
    BY <2>1 DEF Forwarding, ForwardsOnce, Forwards
<1>4. ASSUME NEW d \in Daemons, NEW k \in {"close", "forget"},
             EndSession(d, k)
      PROVE  ForwardsOnce'
  <2>1. UNCHANGED <<foreign, report>>
    BY <1>4 DEF EndSession, Notify
  <2> QED
    BY <2>1 DEF Forwarding, ForwardsOnce, Forwards
<1>5. ASSUME NEW d \in Daemons, NEW c \in calls, Reported(d, c) PROVE ForwardsOnce'
  <2>1. UNCHANGED <<foreign, report>>
    BY <1>5 DEF Reported, Notify
  <2> QED
    BY <2>1 DEF Forwarding, ForwardsOnce, Forwards
<1>6. CASE Dispatch \/ Forwarded
  <2>1. UNCHANGED <<foreign, report>>
    BY <1>6 DEF Dispatch, Returns, Forwarded, Goes
  <2> QED
    BY <2>1 DEF Forwarding, ForwardsOnce, Forwards
<1>7. CASE UNCHANGED vars
  <2>1. UNCHANGED <<foreign, report>>
    BY <1>7 DEF vars
  <2> QED
    BY <2>1 DEF Forwarding, ForwardsOnce, Forwards
<1>8. ASSUME NEW d \in Daemons, Takeover(d) PROVE ForwardsOnce'
  <2>1. PICK p \in Daemons : p = claim
    BY <1>8 DEF Takeover, Typed, TypeOK
  <2>2. foreign' = foreign /\ report' = [report EXCEPT ![d] = Partition(p)]
    BY <1>8, <2>1 DEF Takeover
  <2>3. Partition(p).kind = "kept" => /\ foreign[p] # None
                                           => Partition(p).owner = foreign[p]
                                      /\ foreign[p] = None => Partition(p).owner = p
    BY DEF Partition, NoReport
  <2> HIDE DEF Partition
  <2>4. \A o \in Daemons : Forwards(d, o)' => foreign[o] = None
    <3>1. foreign[p] # None => foreign[p] \in Daemons /\ foreign[foreign[p]] = None
      BY <2>1 DEF Forwarding, ForwardsOnce, Forwards, Typed, TypeOK
    <3>2. report'[d] = Partition(p)
      BY <2>2 DEF Typed, TypeOK
    <3>3. foreign[d] = None
      BY <1>8 DEF Takeover, Outside
    <3> QED
      BY <2>1, <2>2, <2>3, <3>1, <3>2, <3>3, DaemonsAssumption DEF Forwards
  <2>5. \A n \in Daemons \ {d} : report'[n] = report[n]
    BY <2>2 DEF Typed, TypeOK
  <2> QED
    BY <2>2, <2>4, <2>5 DEF Forwarding, ForwardsOnce, Forwards
<1>9. ASSUME NEW d \in Daemons, Supersede(d) PROVE ForwardsOnce'
  <2> DEFINE r == report[d]
  <2>1. foreign[d] = None /\ phase[d] = "reported"
    BY <1>9 DEF Supersede, Outside
  <2>2. /\ foreign'[d] = IF r.kind = "kept" THEN r.owner ELSE None
        /\ \A e \in Daemons \ {d} : foreign'[e] = foreign[e] /\ report'[e] = report[e]
        /\ report'[d] = NoReport
    BY <1>9, <2>1 DEF Supersede, Typed, TypeOK
  <2>3. \A e \in Daemons : ~Forwards(e, d)
    BY <2>1 DEF Outside, Forwards
  <2>4. ASSUME NEW n \in Daemons, NEW o \in Daemons, Forwards(n, o)' PROVE Forwards(n, o)
    BY <2>1, <2>2, <2>4, DaemonsAssumption DEF Forwards, NoReport
  <2> QED
    BY <2>2, <2>3, <2>4 DEF Forwarding, ForwardsOnce
<1>10. ASSUME NEW d \in Daemons, Exit(d) PROVE ForwardsOnce'
  BY <1>10, DaemonsAssumption DEF Typed, TypeOK, Forwarding, ForwardsOnce, Forwards,
     Exit, Gone, NoReport
<1>11. ASSUME NEW d \in Daemons, Crash(d) PROVE ForwardsOnce'
  BY <1>11 DEF Plain
<1>12. ASSUME NEW d \in Daemons, LeadFails(d) PROVE ForwardsOnce'
  BY <1>12 DEF LeadFails, Line
<1>13. ASSUME NEW c \in calls, AcceptHandoff(c) PROVE ForwardsOnce'
  <2>1. report' = report /\ \A e \in Daemons : foreign'[e] \in {foreign[e], None}
    BY <1>13 DEF AcceptHandoff, Typed, TypeOK
  <2> QED
    BY <2>1, DaemonsAssumption DEF Forwarding, ForwardsOnce, Forwards
<1>14. ASSUME NEW c \in calls, AcceptRelease(c) PROVE ForwardsOnce'
  <2>1. report' = report /\ \A e \in Daemons : foreign'[e] \in {foreign[e], None}
    BY <1>14 DEF AcceptRelease, Typed, TypeOK
  <2> QED
    BY <2>1, DaemonsAssumption DEF Forwarding, ForwardsOnce, Forwards
<1>15. ASSUME NEW c \in calls, Answer(c) PROVE ForwardsOnce'
  <2>1. report' = report /\ \A e \in Daemons : foreign'[e] \in {foreign[e], None}
    BY <1>15 DEF Answer, Typed, TypeOK
  <2> QED
    BY <2>1, DaemonsAssumption DEF Forwarding, ForwardsOnce, Forwards
<1>16. CASE Connect
  <2>1. report' = report /\ \A e \in Daemons : foreign'[e] \in {foreign[e], None}
    BY <1>16 DEF Connect, Typed, TypeOK
  <2> QED
    BY <2>1, DaemonsAssumption DEF Forwarding, ForwardsOnce, Forwards
<1> QED
  BY <1>1, <1>2, <1>3, <1>4, <1>5, <1>6, <1>7, <1>8, <1>9, <1>10, <1>11, <1>12, <1>13,
     <1>14, <1>15, <1>16 DEF Next, Caller, Start, Work, Watcher, Again, Peer, Client

\* Who keeps the session, step by step.
LEMMA KeptNext ==
    ASSUME Plain, Typed, Typed', Line, Line', Outside, CallShape, Handing, Resuming,
       Kept, Forwarding, Entered, Unborn, [Next]_vars
    PROVE  Kept'
<1> USE DEF procVars, regVars, sessVars, handVars, wakeVars, wireVars, histVars
<1>1. ASSUME NEW d \in Daemons,
             Ended(d) \/ OtherProgress(d) \/ Check(d) \/ ClientCall(d)
      PROVE  Kept'
  <2>1. UNCHANGED <<phase, claim, sess, next, foreign, owned, report, calls>>
    BY <1>1 DEF Ended, Notify, UpdateRegistry, OtherProgress, Check, ClientCall
  <2> QED
    BY <2>1 DEF Kept, Keeps, Newest, Forwards, Accepted, Superseded
<1>2. CASE Dispatch \/ Forwarded
  <2>1. UNCHANGED <<phase, claim, sess, next, foreign, owned, report, calls>>
    BY <1>2 DEF Dispatch, Returns, Forwarded, Goes
  <2> QED
    BY <2>1 DEF Kept, Keeps, Newest, Forwards, Accepted, Superseded
<1>3. CASE UNCHANGED vars
  <2>1. UNCHANGED <<phase, claim, sess, next, foreign, owned, report, calls>>
    BY <1>3 DEF vars
  <2> QED
    BY <2>1 DEF Kept, Keeps, Newest, Forwards, Accepted, Superseded
<1>4. ASSUME NEW d \in Daemons, LoadRegistry(d) PROVE Kept'
  BY <1>4, DaemonsAssumption DEF Typed, TypeOK, Kept, Keeps, Newest, Forwards,
     Accepted, Superseded, LoadRegistry, Line
<1>5. ASSUME NEW d \in Daemons, Run(d) PROVE Kept'
  BY <1>5, DaemonsAssumption DEF Typed, TypeOK, Kept, Keeps, Newest, Forwards,
     Accepted, Superseded, Run, Line
<1>6. ASSUME NEW d \in Daemons, OpenClaim(d) PROVE Kept'
  <2>1. claim # None
    BY <1>6, DaemonsAssumption DEF OpenClaim, Line
  <2>2. UNCHANGED <<claim, sess, next, foreign, owned, report, calls>>
           /\ phase' = [phase EXCEPT ![d] = "calling"]
    BY <1>6, <2>1 DEF OpenClaim
  <2> QED
    BY <2>2 DEF Typed, TypeOK, Kept, Keeps, Newest, Forwards, Accepted, Superseded
<1>7. ASSUME NEW d \in Daemons, Takeover(d) PROVE Kept'
  <2>1. PICK p \in Daemons : p = claim
    BY <1>7 DEF Takeover, Typed, TypeOK
  <2>2. /\ next' = [next EXCEPT ![p] = d] /\ report' = [report EXCEPT ![d] = Partition(p)]
        /\ sess' = [sess EXCEPT ![p] = IF Handed(p) THEN "none" ELSE @]
        /\ owned' = [owned EXCEPT ![p] = sess[p] # "none" /\ ~Handed(p)]
        /\ claim' = None /\ phase' = [phase EXCEPT ![d] = "reported"]
             /\ UNCHANGED <<calls, foreign>>
    BY <1>7, <2>1 DEF Takeover
  <2>3. ~Superseded(p) /\ ~\E c \in calls : c.from = p
    BY <2>1, MakerWaits DEF Line, CallShape
  <2>4. \A n \in Daemons : phase[n] # "reported"
    BY <2>1, DaemonsAssumption DEF Line
  <2>5. \A n \in Daemons : Newest(n)' => n = d
    BY <2>2, <2>4, DaemonsAssumption DEF Newest, Typed, TypeOK
  <2>6. foreign[p] # None => sess[p] = "none"
    BY <2>1 DEF Forwarding, NewestForwards, Newest, Forwards, Typed, TypeOK
  <2>7. ASSUME NEW e \in Daemons, Keeps(e)'
        PROVE  (e = p /\ sess[p] # "none" /\ ~Handed(p)) \/ foreign[p] = e
    <3>1. CASE e = p
      <4>1. ~\E c \in calls' : c.from = p
        BY <2>2, <2>3
      <4>2. sess'[p] # "none" \/ owned'[p]
        BY <2>7, <3>1, <4>1 DEF Keeps
      <4>3. owned'[p] = (sess[p] # "none" /\ ~Handed(p))
        <5>1. owned \in [Daemons -> BOOLEAN]
          BY DEF Typed, TypeOK
        <5>2. owned' = [owned EXCEPT ![p] = sess[p] # "none" /\ ~Handed(p)]
          BY <2>2
        <5> QED
          BY <5>1, <5>2, Zenon
      <4>4. sess'[p] = IF Handed(p) THEN "none" ELSE sess[p]
        BY <2>2 DEF Typed, TypeOK
      <4> QED
        BY <3>1, <4>2, <4>3, <4>4
    <3>2. CASE e # p
      <4>1. Keeps(e)
        BY <2>2, <2>7, <3>2 DEF Keeps, Accepted, Superseded, Typed, TypeOK
      <4> QED
        BY <2>1, <4>1, HolderForwards
    <3> QED
      BY <3>1, <3>2
  <2>8. ASSUME NEW e \in Daemons, (e = p /\ sess[p] # "none" /\ ~Handed(p))
                  \/ foreign[p] = e
        PROVE  Partition(p).kind = "kept" /\ Partition(p).owner = e
    BY <2>6, <2>8, DaemonsAssumption DEF Partition, Handed
  <2>9. report'[d] = Partition(p)
    BY <2>2 DEF Typed, TypeOK
  <2> QED
    BY <2>5, <2>7, <2>8, <2>9 DEF Kept, Forwards
<1>8. ASSUME NEW d \in Daemons, Supersede(d) PROVE Kept'
  <2> DEFINE r == report[d]
  <2>1. foreign[d] = None /\ phase[d] = "reported"
    BY <1>8 DEF Supersede, Outside
  <2>2. /\ foreign'[d] = IF r.kind = "kept" THEN r.owner ELSE None
        /\ claim' = d
             /\ phase' = [phase EXCEPT ![d] = IF watch[d] = "gone" THEN "serving" ELSE "resume"]
        /\ UNCHANGED <<sess, next, owned, calls>>
    BY <1>8, <2>1 DEF Supersede, Typed, TypeOK, Lead
  <2>3. \A n \in Daemons : Newest(n)' => n = d
    BY <2>1, <2>2 DEF Newest, Typed, TypeOK, Line
  <2>4. \A e \in Daemons : Keeps(e)' => Keeps(e)
    BY <2>2 DEF Keeps, Accepted, Superseded
  <2>5. \A e \in Daemons : Keeps(e) => r.kind = "kept" /\ r.owner = e
    BY <2>1, DaemonsAssumption DEF Kept, Newest, Forwards
  <2> QED
    BY <2>2, <2>3, <2>4, <2>5 DEF Kept, Forwards
<1>9. ASSUME NEW d \in Daemons, ResumeMarked(d) PROVE Kept'
  BY <1>9, DaemonsAssumption DEF Typed, TypeOK, Kept, Keeps, Newest, Forwards,
     Accepted, Superseded, ResumeMarked, Line
<1>10. ASSUME NEW d \in Daemons, Spawn(d) PROVE Kept'
  BY <1>10, DaemonsAssumption DEF Typed, TypeOK, Kept, Keeps, Newest, Forwards,
     Accepted, Superseded, Spawn, Notify, UpdateRegistry, Plain, Called
<1>11. ASSUME NEW d \in Daemons, StartTurn(d) PROVE Kept'
  <2>1. UNCHANGED <<phase, claim, next, foreign, owned, report, calls>>
    BY <1>11 DEF StartTurn
  <2>2. \A e \in Daemons : sess'[e] # "none" => sess[e] # "none"
    BY <1>11 DEF StartTurn, Typed, TypeOK
  <2> QED
    BY <2>1, <2>2 DEF Kept, Keeps, Newest, Forwards, Accepted, Superseded
<1>12. ASSUME NEW d \in Daemons, EndTurn(d) PROVE Kept'
  <2>1. UNCHANGED <<phase, claim, next, foreign, owned, report, calls>>
    BY <1>12 DEF EndTurn
  <2>2. \A e \in Daemons : sess'[e] # "none" => sess[e] # "none"
    BY <1>12 DEF EndTurn, Typed, TypeOK
  <2> QED
    BY <2>1, <2>2 DEF Kept, Keeps, Newest, Forwards, Accepted, Superseded
<1>13. ASSUME NEW d \in Daemons, Adopt(d) PROVE Kept'
  <2>1. claim # None /\ (claim # d => foreign[claim] = d)
    BY <1>13, ReachedWhere DEF Adopt
  <2>2. /\ UNCHANGED <<phase, claim, next, foreign, owned, report, calls>>
        /\ \A e \in Daemons \ {d} : sess'[e] = sess[e]
    BY <1>13 DEF Adopt, Typed, TypeOK
  <2>3. \A n \in Daemons : Newest(n) => claim = n
    BY <2>1, NewestIs, DaemonsAssumption
  <2>4. claim = d => ~Superseded(d)
    BY DEF Line
  <2>5. ASSUME NEW e \in Daemons, Keeps(e)' PROVE Keeps(e) \/ (e = d /\ claim # d)
    BY <2>2, <2>4, <2>5 DEF Keeps, Accepted, Superseded
  <2>6. \A e, n \in Daemons : Forwards(n, e)' <=> Forwards(n, e)
    BY <2>2 DEF Forwards
  <2>7. \A n \in Daemons : Newest(n)' <=> Newest(n)
    BY <2>2 DEF Newest
  <2>8. \A n \in Daemons : Newest(n) /\ claim # d => Forwards(n, d)
    BY <2>1, <2>3 DEF Forwards
  <2> QED
    BY <2>5, <2>6, <2>7, <2>8 DEF Kept
<1>14. ASSUME NEW d \in Daemons, ResumeHanded(d) PROVE Kept'
  <2>1. UNCHANGED <<phase, claim, next, foreign, owned, report, calls>> /\ ~Superseded(d)
    BY <1>14 DEF ResumeHanded, Resuming
  <2>2. \A e \in Daemons \ {d} : sess'[e] = sess[e]
    BY <1>14 DEF ResumeHanded, Typed, TypeOK
  <2> QED
    BY <2>1, <2>2 DEF Kept, Keeps, Newest, Forwards, Accepted, Superseded
<1>15. ASSUME NEW d \in Daemons, LaunchSettles(d) PROVE Kept'
  <2>1. UNCHANGED <<claim, next, foreign, owned, report, calls>>
    BY <1>15 DEF LaunchSettles
  <2>2. /\ \A e \in Daemons : sess'[e] # "none" => sess[e] # "none"
        /\ \A e \in Daemons : phase'[e] = "reported" <=> phase[e] = "reported"
    BY <1>15 DEF LaunchSettles, Typed, TypeOK
  <2> QED
    BY <2>1, <2>2 DEF Kept, Keeps, Newest, Forwards, Accepted, Superseded
<1>16. ASSUME NEW d \in Daemons, NEW k \in {"close", "forget"},
             EndSession(d, k)
      PROVE  Kept'
  <2>1. UNCHANGED <<phase, claim, next, foreign, owned, report, calls>>
    BY <1>16 DEF EndSession
  <2>2. \A e \in Daemons : sess'[e] # "none" => sess[e] # "none"
    BY <1>16 DEF EndSession, Typed, TypeOK
  <2> QED
    BY <2>1, <2>2 DEF Kept, Keeps, Newest, Forwards, Accepted, Superseded
<1>17. ASSUME NEW d \in Daemons, Scan(d) PROVE Kept'
  <2>1. ~Accepted(d) /\ Superseded(d)
    BY <1>17, NotWaiting DEF Scan, CallShape, Typed, Watches, Superseded
  <2>2. /\ UNCHANGED <<phase, claim, next, foreign, report>>
        /\ \A e \in Daemons \ {d} : sess'[e] = sess[e] /\ owned'[e] = owned[e]
        /\ \A c \in calls' : c \in calls \/ c.from = d
        /\ calls \subseteq calls'
        /\ calls' # calls \/ sess'[d] # "none" \/ owned'[d] => sess[d] # "none" \/ owned[d]
    BY <1>17 DEF Scan, Typed, TypeOK, Call
  <2>3. ASSUME NEW e \in Daemons, Keeps(e)' PROVE Keeps(e)
    <3>1. CASE e = d
      BY <2>1, <2>2, <2>3, <3>1 DEF Keeps, Superseded
    <3>2. CASE e # d
      BY <2>1, <2>2, <2>3, <3>2 DEF Keeps, Superseded, Accepted
    <3> QED
      BY <3>1, <3>2
  <2> QED
    BY <2>2, <2>3 DEF Kept, Newest, Forwards
<1>18. ASSUME NEW d \in Daemons, NEW c \in calls, Reported(d, c) PROVE Kept'
  <2>1. /\ UNCHANGED <<phase, claim, next, foreign, report>>
        /\ \A e \in Daemons \ {d} : sess'[e] = sess[e] /\ owned'[e] = owned[e]
        /\ calls' = calls \ {c} /\ c.from = d /\ c \in calls
    BY <1>18 DEF Reported, Typed, TypeOK
  <2>2. ~\E b \in calls' : b.from = d
    BY <2>1, MakerWaits DEF CallShape
  <2>3. c.kind = "release" => sess'[d] = "none" /\ ~owned'[d]
    BY <1>18 DEF Reported, CallShape, CallFrom
  <2>4. c.kind = "handoff"
           => /\ sess[d] = "handing" /\ ~owned'[d] /\ (c.stage = "ok" => sess'[d] = "none")
    BY <1>18 DEF Reported, CallShape, CallFrom, Typed, TypeOK
  <2>5. c.kind \in Kinds /\ Superseded(d)
    BY <2>1, PathIn, MakerWaits, CallFields DEF CallShape
  <2>6. ASSUME Keeps(d)' PROVE Keeps(d)
    <3>1. c.kind = "handoff" /\ c.stage # "ok"
      BY <2>2, <2>3, <2>4, <2>5, <2>6 DEF Keeps, Kinds
    <3> QED
      BY <2>1, <3>1, MakerKeeps DEF CallShape
  <2>7. ASSUME NEW e \in Daemons \ {d}, Keeps(e)' PROVE Keeps(e)
    BY <2>1, <2>7 DEF Keeps, Superseded, Accepted
  <2> QED
    BY <2>1, <2>6, <2>7 DEF Kept, Newest, Forwards
<1>19. ASSUME NEW d \in Daemons, Watch(d) PROVE Kept'
  BY <1>19, DaemonsAssumption DEF Typed, TypeOK, Kept, Keeps, Newest, Forwards,
     Accepted, Superseded, Watch
<1>20. ASSUME NEW d \in Daemons, Reclaim(d) PROVE Kept'
  BY <1>20 DEF Reclaim, Line
<1>21. ASSUME NEW d \in Daemons, Merge(d) PROVE Kept'
  BY <1>21 DEF Merge, Line
<1>22. ASSUME NEW d \in Daemons, Exit(d) PROVE Kept'
  <2>1. calls' = calls /\ watch[d] = "done"
    BY <1>22, ExitCalls DEF Exit, CallShape
  <2>2. /\ phase' = [phase EXCEPT ![d] = "exited"] /\ claim' \in {claim, None}
        /\ next' = [next EXCEPT ![d] = None]
        /\ \A e \in Daemons \ {d} : /\ sess'[e] = sess[e] /\ owned'[e] = owned[e]
                                    /\ foreign'[e] = foreign[e] /\ report'[e] = report[e]
    BY <1>22 DEF Exit, Gone, Typed, TypeOK
  <2>3. ~Superseded(d)' /\ ~Newest(d)'
    BY <2>1, <2>2, DaemonsAssumption DEF Superseded, Newest, Typed, TypeOK, Watches
  <2>4. \A n \in Daemons \ {d} : Newest(n)' => Newest(n)
    BY <2>2, DaemonsAssumption DEF Newest, Typed, TypeOK
  <2>5. \A e \in Daemons \ {d} : Keeps(e)' => Keeps(e)
    BY <2>1, <2>2 DEF Keeps, Accepted, Superseded, Typed, TypeOK
  <2>6. \A n, e \in Daemons : n # d => (Forwards(n, e)' <=> Forwards(n, e))
    BY <2>2 DEF Forwards
  <2> QED
    BY <2>3, <2>4, <2>5, <2>6 DEF Kept, Keeps
<1>23. ASSUME NEW d \in Daemons, Crash(d) PROVE Kept'
  BY <1>23 DEF Plain
<1>24. ASSUME NEW d \in Daemons, LeadFails(d) PROVE Kept'
  BY <1>24 DEF LeadFails, Line
<1>25. ASSUME NEW c \in calls, Relay(c) PROVE Kept'
  <2> DEFINE r == [c EXCEPT !.path = Append(c.path, next[Server(c)])]
  <2>1. /\ r.from = c.from /\ r.kind = c.kind /\ r.entry = c.entry
        /\ r.stage = c.stage /\ r.path = Append(c.path, next[Server(c)])
    BY EditFields DEF Typed, TypeOK
  <2>2. calls' = (calls \ {c}) \cup {r}
    BY <1>25 DEF Relay, Replace
  <2> HIDE DEF r
  <2>4. UNCHANGED <<phase, claim, sess, next, foreign, owned, report>> /\ r.stage # "ok"
           /\ c.stage # "ok"
    BY <1>25, <2>1 DEF Relay
  <2>5. ASSUME NEW e \in Daemons, Keeps(e)' PROVE Keeps(e)
    <3>2. Accepted(e) => Accepted(e)'
      BY <2>1, <2>2, <2>4 DEF Accepted
    <3>3. (\E b \in calls' : b.from = e) => \E b \in calls : b.from = e
      BY <2>1, <2>2
    <3> QED
      BY <2>4, <2>5, <3>2, <3>3 DEF Keeps, Superseded
  <2> QED
    BY <2>4, <2>5 DEF Kept, Newest, Forwards
<1>26. ASSUME NEW c \in calls, Unreachable(c) PROVE Kept'
  <2> DEFINE r == [c EXCEPT !.stage = "err", !.path = Front(c.path)]
  <2>1. /\ r.from = c.from /\ r.kind = c.kind /\ r.entry = c.entry
        /\ r.stage = "err" /\ r.path = Front(c.path)
    BY EditFields DEF Typed, TypeOK
  <2>2. calls' = (calls \ {c}) \cup {r}
    BY <1>26 DEF Unreachable, Replace
  <2> HIDE DEF r
  <2>4. UNCHANGED <<phase, claim, sess, next, foreign, owned, report>> /\ r.stage # "ok"
           /\ c.stage # "ok"
    BY <1>26, <2>1 DEF Unreachable
  <2>5. ASSUME NEW e \in Daemons, Keeps(e)' PROVE Keeps(e)
    <3>2. Accepted(e) => Accepted(e)'
      BY <2>1, <2>2, <2>4 DEF Accepted
    <3>3. (\E b \in calls' : b.from = e) => \E b \in calls : b.from = e
      BY <2>1, <2>2
    <3> QED
      BY <2>4, <2>5, <3>2, <3>3 DEF Keeps, Superseded
  <2> QED
    BY <2>4, <2>5 DEF Kept, Newest, Forwards
<1>27. ASSUME NEW c \in calls, ClaimHandoff(c) PROVE Kept'
  <2> DEFINE r == [c EXCEPT !.stage = "claimed"]
  <2>1. /\ r.from = c.from /\ r.kind = c.kind /\ r.entry = c.entry
        /\ r.stage = "claimed" /\ r.path = c.path
    BY EditFields DEF Typed, TypeOK
  <2>2. calls' = (calls \ {c}) \cup {r}
    BY <1>27 DEF ClaimHandoff, Replace
  <2> HIDE DEF r
  <2>4. UNCHANGED <<phase, claim, sess, next, foreign, owned, report>> /\ r.stage # "ok"
           /\ c.stage # "ok"
    BY <1>27, <2>1 DEF ClaimHandoff
  <2>5. ASSUME NEW e \in Daemons, Keeps(e)' PROVE Keeps(e)
    <3>2. Accepted(e) => Accepted(e)'
      BY <2>1, <2>2, <2>4 DEF Accepted
    <3>3. (\E b \in calls' : b.from = e) => \E b \in calls : b.from = e
      BY <2>1, <2>2
    <3> QED
      BY <2>4, <2>5, <3>2, <3>3 DEF Keeps, Superseded
  <2> QED
    BY <2>4, <2>5 DEF Kept, Newest, Forwards
<1>28. ASSUME NEW c \in calls, AcceptHandoff(c) PROVE Kept'
  <2> DEFINE r == [c EXCEPT !.stage = "ok"]
  <2>1. /\ r.from = c.from /\ r.kind = c.kind /\ r.entry = c.entry
        /\ r.stage = "ok" /\ r.path = c.path
    BY EditFields DEF Typed, TypeOK
  <2>2. calls' = (calls \ {c}) \cup {r}
    BY <1>28 DEF AcceptHandoff, Replace
  <2> HIDE DEF r
  <2>3. /\ Server(c) \in Daemons /\ claim = Server(c) /\ c.stage # "ok" /\ r.stage = "ok"
        /\ \A e \in Daemons : Keeps(e) => e = c.from
    BY <1>28, <2>1, ReceivedAt DEF AcceptHandoff, AcceptRelease
  <2>4. UNCHANGED <<phase, claim, sess, next, owned, report>>
    BY <1>28 DEF AcceptHandoff
  <2>5. ASSUME NEW e \in Daemons, Keeps(e)' PROVE Keeps(e) /\ e # c.from
    <3>1. e # c.from
      BY <2>1, <2>2, <2>3, <2>5 DEF Keeps, Accepted
    <3>2. Accepted(e) => Accepted(e)'
      BY <2>2, <2>3, <3>1 DEF Accepted
    <3>3. (\E b \in calls' : b.from = e) => \E b \in calls : b.from = e
      BY <2>1, <2>2
    <3> QED
      BY <2>4, <2>5, <3>1, <3>2, <3>3 DEF Keeps, Superseded
  <2> QED
    BY <2>3, <2>5 DEF Kept
<1>29. ASSUME NEW c \in calls, AcceptRelease(c) PROVE Kept'
  <2> DEFINE r == [c EXCEPT !.stage = "ok"]
  <2>1. /\ r.from = c.from /\ r.kind = c.kind /\ r.entry = c.entry
        /\ r.stage = "ok" /\ r.path = c.path
    BY EditFields DEF Typed, TypeOK
  <2>2. calls' = (calls \ {c}) \cup {r}
    BY <1>29 DEF AcceptRelease, Replace
  <2> HIDE DEF r
  <2>3. /\ Server(c) \in Daemons /\ claim = Server(c) /\ c.stage # "ok" /\ r.stage = "ok"
        /\ \A e \in Daemons : Keeps(e) => e = c.from
    BY <1>29, <2>1, ReceivedAt DEF AcceptHandoff, AcceptRelease
  <2>4. UNCHANGED <<phase, claim, sess, next, owned, report>>
    BY <1>29 DEF AcceptRelease
  <2>5. ASSUME NEW e \in Daemons, Keeps(e)' PROVE Keeps(e) /\ e # c.from
    <3>1. e # c.from
      BY <2>1, <2>2, <2>3, <2>5 DEF Keeps, Accepted
    <3>2. Accepted(e) => Accepted(e)'
      BY <2>2, <2>3, <3>1 DEF Accepted
    <3>3. (\E b \in calls' : b.from = e) => \E b \in calls : b.from = e
      BY <2>1, <2>2
    <3> QED
      BY <2>4, <2>5, <3>1, <3>2, <3>3 DEF Keeps, Superseded
  <2> QED
    BY <2>3, <2>5 DEF Kept
<1>30. ASSUME NEW c \in calls, Answer(c) PROVE Kept'
  <2> DEFINE r == [c EXCEPT !.path = Front(c.path)]
  <2>1. /\ r.from = c.from /\ r.kind = c.kind /\ r.entry = c.entry
        /\ r.stage = c.stage /\ r.path = Front(c.path)
    BY EditFields DEF Typed, TypeOK
  <2>2. /\ calls' = (calls \ {c}) \cup {r} \/ (calls' = calls \ {c} /\ c.from = None)
        /\ c.path # << >> /\ c.stage \in {"ok", "err"}
    BY <1>30 DEF Answer, Replace
  <2> HIDE DEF r
  <2>3. UNCHANGED <<phase, claim, sess, next, owned, report>>
    BY <1>30 DEF Answer
  <2>4. ASSUME NEW e \in Daemons, Keeps(e)' PROVE Keeps(e)
    <3>1. c.from # None
      BY MakerWaits, DaemonsAssumption DEF CallShape
    <3>2. Accepted(e) => Accepted(e)'
      BY <2>1, <2>2, <3>1 DEF Accepted
    <3>3. (\E b \in calls' : b.from = e) => \E b \in calls : b.from = e
      BY <2>1, <2>2
    <3> QED
      BY <2>3, <2>4, <3>2, <3>3 DEF Keeps, Superseded
  <2>5. ASSUME NEW n \in Daemons, Newest(n) PROVE foreign'[n] = foreign[n]
    <3>1. ~Superseded(n)
      BY <2>5, NewestIs, DaemonsAssumption
    <3> DEFINE q == Front(c.path)
               x == q[Len(q)]
    <3>2. CASE q # << >> /\ c.stage = "ok"
      <4>1. foreign' = [foreign EXCEPT ![x] = None]
        BY <1>30, <3>2 DEF Answer
      <4>2. Superseded(x)
        <5>1. c.path \in Seq(Daemons)
          BY PathIn DEF CallShape
        <5>2. /\ Len(c.path) \in Nat \ {0} /\ q \in Seq(Daemons) /\ Len(q) = Len(c.path) - 1
              /\ \A k \in 1..(Len(c.path) - 1) : q[k] = c.path[k]
          BY <2>2, <5>1, PathEnd
        <5>3. Len(q) # 0
          BY <3>2, <5>2, EmptySeq
        <5>4. Len(q) \in 1..Len(c.path) /\ Len(q) < Len(c.path) /\ x = c.path[Len(q)]
          <6> DEFINE m == Len(q)
                     k == Len(c.path)
          <6>1. m \in 1..k /\ m < k /\ m \in 1..(k - 1)
            <7>1. m = k - 1 /\ m # 0 /\ k \in Nat \ {0}
              BY <5>2, <5>3
            <7> HIDE DEF m, k
            <7> QED
              BY <7>1
          <6> QED
            BY <5>2, <6>1
        <5> QED
          BY <5>4 DEF CallShape, CallPath
      <4> QED
        BY <3>1, <4>1, <4>2 DEF Typed, TypeOK
    <3>3. CASE ~(q # << >> /\ c.stage = "ok")
      BY <1>30, <3>3 DEF Answer
    <3> QED
      BY <3>2, <3>3
  <2> QED
    BY <2>3, <2>4, <2>5 DEF Kept, Newest, Forwards
<1>31. CASE Connect
  <2>1. UNCHANGED <<phase, claim, sess, next, owned, report, calls>>
    BY <1>31 DEF Connect
  <2>2. \A n \in Daemons : foreign'[n] = foreign[n] \/ ~Up(foreign[n])
    BY <1>31 DEF Connect, Typed, TypeOK
  <2>3. \A e \in Daemons : Keeps(e) => Up(e)
    BY DEF Keeps, Line, Up
  <2> QED
    BY <2>1, <2>2, <2>3 DEF Kept, Keeps, Newest, Forwards, Accepted, Superseded
<1> QED
  BY <1>1, <1>2, <1>3, <1>4, <1>5, <1>6, <1>7, <1>8, <1>9, <1>10, <1>11, <1>12, <1>13,
     <1>14, <1>15, <1>16, <1>17, <1>18, <1>19, <1>20, <1>21, <1>22, <1>23, <1>24,
     <1>25, <1>26, <1>27, <1>28, <1>29, <1>30, <1>31 DEF Next, Caller, Start, Work,
     Watcher, Again, Peer, Client

\* What holds while one daemon leads: the types, who leads, and where the
\* session, its reports and its forwards are.
Placed ==
    /\ Typed /\ Line /\ Outside /\ CallShape /\ Handing /\ Resuming
    /\ Kept /\ Forwarding /\ Entered /\ Unborn

\* It forwards to one daemon.
LEMMA ForwardsSame ==
    ASSUME Outside, NEW n \in Daemons, NEW d \in Daemons, NEW e \in Daemons,
           Forwards(n, d), Forwards(n, e)
    PROVE  d = e
BY DaemonsAssumption DEF Outside, Forwards, NoReport

\* There is a newest daemon.
LEMMA SomeNewest ==
    ASSUME Typed, Line
    PROVE  \E n \in Daemons : Newest(n)
BY DEF Line, Newest, Typed, TypeOK

\* Every state starts so.
LEMMA InitPlaced ==
    ASSUME Init
    PROVE  Placed
<1>1. Typed
  BY InitTyped
<1>2. Unborn
  BY InitUnborn
<1>3. PICK d \in Daemons :
        /\ phase = [e \in Daemons |-> IF e = d THEN "serving" ELSE "off"]
        /\ claim = d /\ \A e \in Daemons \ {d} : sess[e] = "none"
        /\ sess[d] \in {"none", "idle", "turn"} /\ file \in {"plain", "absent"}
        /\ sess[d] # "none" => file = "plain"
        /\ reg = [e \in Daemons |-> IF e = d THEN file ELSE "absent"]
  BY DEF Init
<1>4. /\ succession = None /\ \A e \in Daemons : /\ next[e] = None /\ foreign[e] = None
                                               /\ resuming[e] = "no" /\ ending[e] = "none"
                                               /\ watch[e] = "off" /\ owned[e] = FALSE
                                               /\ report[e] = NoReport
      /\ calls = {}
  BY DEF Init
<1>5. Line
  BY <1>3, <1>4, DaemonsAssumption DEF Line, Superseded
<1>6. Outside
  BY <1>3, <1>4, DaemonsAssumption DEF Outside, NoReport
<1>7. CallShape
  BY <1>4 DEF CallShape, CallFrom, CallClaimed, CallPath
<1>8. Handing /\ Resuming
  BY <1>3, <1>4 DEF Handing, Resuming
<1>9. Kept /\ Forwarding
  BY <1>4, DaemonsAssumption DEF Kept, Keeps, Superseded, Forwarding, NewestForwards,
        ForwardsOnce,
     Forwards, NoReport
<1>10. Entered
  BY <1>3, <1>4, DaemonsAssumption DEF Entered, NoReport
<1> QED
  BY <1>1, <1>2, <1>5, <1>6, <1>7, <1>8, <1>9, <1>10 DEF Placed

\* It stays so as long as nobody leads again.
LEMMA NextPlaced ==
    ASSUME Plain, Placed, NoneLeadsAgain, NoneLeadsAgain', [Next]_vars
    PROVE  Placed'
<1> USE DEF Placed
<1>1. Typed'
  BY NextTyped
<1>2. Line'
  BY <1>1, LineNext
<1>3. Outside'
  BY <1>1, <1>2, OutsideNext
<1>4. CallShape'
  BY <1>1, CallFromNext, CallClaimedNext, CallPathNext DEF CallShape
<1>5. Handing' /\ Resuming' /\ Kept' /\ Entered'
  BY <1>1, <1>2, HandingNext, ResumingNext, KeptNext, EnteredNext
<1>6. Forwarding'
  BY <1>1, <1>2, NewestForwardsNext, ForwardsOnceNext DEF Forwarding
<1>7. Unborn'
  BY UnbornNext
<1> QED
  BY <1>1, <1>2, <1>3, <1>4, <1>5, <1>6, <1>7

\* Two daemons with the session are one.
LEMMA PlacedOneOwner ==
    ASSUME Placed
    PROVE  OneOwner
<1> USE DEF Placed
<1>1. PICK n \in Daemons : Newest(n)
  BY SomeNewest
<1>2. ASSUME NEW d \in Daemons, Owning(d), Superseded(d) PROVE Keeps(d)
  <2>1. sess[d] \notin {"handing", "none"}
    BY <1>2 DEF Owning
  <2>2. ~\E c \in calls : c.from = d
    BY <2>1, MakerWaits DEF CallShape
  <2> QED
    BY <1>2, <2>1, <2>2 DEF Keeps, Accepted
<1>3. ASSUME NEW d \in Daemons, Owning(d), ~Superseded(d) PROVE claim = d
  <2>1. phase[d] \in Phases /\ sess[d] # "none"
    BY <1>3 DEF Owning, Typed, TypeOK
  <2> QED
    BY <1>3, <2>1 DEF Outside, Line, Phases
<1>4. ASSUME NEW d \in Daemons, NEW e \in Daemons, Owning(d), Owning(e), Superseded(d)
      PROVE  d = e
  <2>1. Keeps(d) /\ Forwards(n, d)
    BY <1>1, <1>2, <1>4 DEF Kept
  <2>2. CASE Superseded(e)
    <3>1. Forwards(n, e)
      BY <1>1, <1>2, <1>4, <2>2 DEF Kept
    <3> QED
      BY <2>1, <3>1, ForwardsSame
  <2>3. CASE ~Superseded(e)
    <3>1. claim = e
      BY <1>3, <1>4, <2>3
    <3>2. n = e
      BY <1>1, <3>1, NewestIs, DaemonsAssumption
    <3>3. sess[e] = "none"
      BY <1>1, <2>1, <3>2 DEF Forwarding, NewestForwards
    <3> QED
      BY <1>4, <3>3 DEF Owning
  <2> QED
    BY <2>2, <2>3
<1>5. ASSUME NEW d \in Daemons, NEW e \in Daemons, Owning(d), Owning(e) PROVE d = e
  BY <1>3, <1>4, <1>5
<1> QED
  BY <1>5 DEF OneOwner

\* The invariant of a behaviour in which nobody is killed and no superseded
\* daemon leads again.
LEMMA PlacedHolds ==
    ASSUME Orderly
    PROVE  Spec /\ []NoneLeadsAgain => []Placed
<1>1. Init => Placed
  BY InitPlaced
<1>2. Placed /\ NoneLeadsAgain /\ NoneLeadsAgain' /\ [Next]_vars => Placed'
  BY NextPlaced, PlainStep DEF Placed
<1> HIDE DEF Placed, NoneLeadsAgain, Init, Next, vars
<1> QED
  BY <1>1, <1>2, PTL DEF Spec

\* A daemon that nobody superseded and that has not got the session runs a call
\* for it only where it forwards to nobody, so nobody keeps it.
LEMMA PlacedNoGap ==
    ASSUME Placed
    PROVE  NoGap
<1> USE DEF Placed
<1> SUFFICES ASSUME NEW d \in Daemons, Accepting(d), ~Superseded(d), Route(d) = d,
                    sess[d] = "none"
             PROVE  /\ \A e \in Daemons : ~Owning(e)
                    /\ \A c \in calls : c.kind = "handoff" => c.stage \notin {"sent", "claimed"}
  BY DEF NoGap
<1>1. phase[d] = "serving" /\ claim = d /\ Newest(d)
  BY DEF Accepting, Line, Newest
<1>2. foreign[d] = None
  BY DEF Route, Outside
<1>3. report[d] = NoReport
  BY <1>1 DEF Outside
<1>4. ASSUME NEW e \in Daemons PROVE ~Keeps(e)
  <2>1. ~Forwards(d, e)
    BY <1>2, <1>3, DaemonsAssumption DEF Forwards, NoReport
  <2> QED
    BY <1>1, <2>1 DEF Kept
<1>5. ASSUME NEW e \in Daemons, Owning(e) PROVE FALSE
  <2>1. CASE Superseded(e)
    <3>1. sess[e] \notin {"handing", "none"}
      BY <1>5 DEF Owning
    <3>2. ~\E c \in calls : c.from = e
      BY <3>1, MakerWaits DEF CallShape
    <3> QED
      BY <1>4, <2>1, <3>1, <3>2 DEF Keeps, Accepted
  <2>2. CASE ~Superseded(e)
    <3>1. phase[e] \in Phases /\ sess[e] # "none"
      BY <1>5 DEF Owning, Typed, TypeOK
    <3>2. claim = e
      BY <2>2, <3>1 DEF Outside, Line, Phases
    <3> QED
      BY <1>1, <3>1, <3>2
  <2> QED
    BY <2>1, <2>2
<1>6. ASSUME NEW c \in calls, c.stage \in {"sent", "claimed"} PROVE FALSE
  <2>1. c.from \in Daemons /\ c.stage # "ok"
    BY <1>6, MakerWaits DEF CallShape
  <2>2. Keeps(c.from)
    BY <2>1, MakerKeeps DEF CallShape
  <2> QED
    BY <1>4, <2>1, <2>2
<1> QED
  BY <1>5, <1>6

\* OneOwner, of any number of daemons: as long as nobody is killed and no
\* superseded daemon leads again, at most one daemon has the session, however
\* takeovers, reports and relays interleave.
THEOREM OneOwnerHolds ==
    ASSUME Orderly
    PROVE  Spec /\ []NoneLeadsAgain => []OneOwner
<1>1. Placed => OneOwner
  BY PlacedOneOwner
<1>2. Spec /\ []NoneLeadsAgain => []Placed
  BY PlacedHolds
<1> HIDE DEF Placed, NoneLeadsAgain, Spec, OneOwner
<1> QED
  BY <1>1, <1>2, PTL

\* NoGap, under the same hypotheses.
THEOREM NoGapHolds ==
    ASSUME Orderly
    PROVE  Spec /\ []NoneLeadsAgain => []NoGap
<1>1. Placed => NoGap
  BY PlacedNoGap
<1>2. Spec /\ []NoneLeadsAgain => []Placed
  BY PlacedHolds
<1> HIDE DEF Placed, NoneLeadsAgain, Spec, NoGap
<1> QED
  BY <1>1, <1>2, PTL

=============================================================================
