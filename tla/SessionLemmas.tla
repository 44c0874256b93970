--------------------------- MODULE SessionLemmas ----------------------------
(* What the proofs about Session rest on: lists without repetitions, the   *)
(* types of its variables, and who holds what. One lemma per conjunct, one *)
(* step per action or group of actions that treat it alike.                *)
EXTENDS Session, SequenceTheorems, WellFoundedInduction, TLAPS

-----------------------------------------------------------------------------
(* The list operations of the model, for lists of any length: `retain` on  *)
(* the steer lists, and lists without repetitions.                         *)

\* A list in which nothing occurs twice.
Once(s) == \A i, j \in 1..Len(s) : s[i] = s[j] => i = j

\* A nonempty set of indices has its minimum (RemoveFirst picks that index).
LEMMA LeastIndex ==
    ASSUME NEW n \in Nat, NEW I \in SUBSET (1..n), I # {}
    PROVE  Min(I) \in I
<1> DEFINE R == {ij \in Nat \X Nat : ij[1] < ij[2]}
<1>1. \E x \in I : \A y \in I : ~(<<y, x>> \in R)
  BY NatLessThanWellFounded, WFMin, I \subseteq Nat, R = OpToRel(<, Nat) DEF OpToRel
<1>2. \A x, y \in I : ~(<<y, x>> \in R) => x <= y
  OBVIOUS
<1>3. \E x \in I : \A y \in I : x <= y
  BY <1>1, <1>2
<1> QED
  BY <1>3 DEF Min

\* RemoveFirst(s, e) is s without the entry at one index holding e.
LEMMA RemoveFirstShape ==
    ASSUME NEW S, NEW s \in Seq(S), NEW e, \E i \in 1..Len(s) : s[i] = e
    PROVE  \E k \in 1..Len(s) :
             /\ s[k] = e
             /\ RemoveFirst(s, e) \in Seq(S) /\ Len(RemoveFirst(s, e)) = Len(s) - 1
             /\ \A i \in 1..Len(RemoveFirst(s, e)) :
                  RemoveFirst(s, e)[i] = IF i < k THEN s[i] ELSE s[i + 1]
<1> DEFINE I == {i \in 1..Len(s) : s[i] = e}
           k == Min(I)
           t == SubSeq(s, 1, k - 1) \o SubSeq(s, k + 1, Len(s))
<1>1. k \in I
  <2>1. I \in SUBSET (1..Len(s)) /\ I # {} /\ Len(s) \in Nat
    OBVIOUS
  <2> HIDE DEF I
  <2> QED
    BY <2>1, LeastIndex
<1>2. RemoveFirst(s, e) = t
  BY DEF RemoveFirst, RemoveAt, SelectInSeq
<1>3. k \in 1..Len(s) /\ s[k] = e
  BY <1>1
<1> HIDE DEF k
<1>4. /\ t \in Seq(S) /\ Len(t) = Len(s) - 1
      /\ \A i \in 1..Len(t) : t[i] = IF i < k THEN s[i] ELSE s[i + 1]
  <2>1. Len(s) \in Nat /\ k \in Nat /\ k - 1 < Len(s) /\ k >= 1
    BY <1>3
  <2>2. /\ SubSeq(s, 1, k - 1) \in Seq(S) /\ Len(SubSeq(s, 1, k - 1)) = k - 1
        /\ \A i \in 1..(k - 1) : SubSeq(s, 1, k - 1)[i] = s[i]
    BY <2>1, SubSeqProperties
  <2>3. /\ SubSeq(s, k + 1, Len(s)) \in Seq(S)
        /\ Len(SubSeq(s, k + 1, Len(s))) = Len(s) - k
        /\ \A i \in 1..(Len(s) - k) : SubSeq(s, k + 1, Len(s))[i] = s[k + i]
    BY <2>1, SubSeqProperties
  <2> DEFINE a == SubSeq(s, 1, k - 1)
             b == SubSeq(s, k + 1, Len(s))
  <2> HIDE DEF a, b
  <2>4. /\ a \o b \in Seq(S) /\ Len(a \o b) = Len(a) + Len(b)
        /\ \A i \in 1..(Len(a) + Len(b)) :
             (a \o b)[i] = IF i <= Len(a) THEN a[i] ELSE b[i - Len(a)]
    BY <2>2, <2>3, ConcatProperties DEF a, b
  <2>5. /\ Len(a) = k - 1 /\ Len(b) = Len(s) - k
        /\ \A i \in 1..(k - 1) : a[i] = s[i]
        /\ \A i \in 1..(Len(s) - k) : b[i] = s[k + i]
    BY <2>2, <2>3 DEF a, b
  <2>6. t = a \o b
    BY DEF a, b
  <2> HIDE DEF t
  <2>7. t \in Seq(S) /\ Len(t) = Len(s) - 1
    BY <2>1, <2>4, <2>5, <2>6
  <2>8. ASSUME NEW i \in 1..Len(t) PROVE t[i] = IF i < k THEN s[i] ELSE s[i + 1]
    <3>1. i \in 1..(Len(a) + Len(b)) /\ i \in Nat
      BY <2>1, <2>5, <2>7
    <3>2. CASE i < k
      BY <3>1, <3>2, <2>1, <2>4, <2>5, <2>6
    <3>3. CASE ~(i < k)
      <4>1. i - Len(a) \in 1..(Len(s) - k) /\ k + (i - Len(a)) = i + 1
        BY <3>1, <3>3, <2>1, <2>5
      <4>2. t[i] = b[i - Len(a)]
        BY <3>1, <3>3, <2>1, <2>4, <2>5, <2>6
      <4> QED
        BY <4>1, <4>2, <2>5, <3>3
    <3> QED
      BY <3>2, <3>3
  <2> QED
    BY <2>7, <2>8
<1> HIDE DEF t
<1> QED
  BY <1>2, <1>3, <1>4

\* `retain` keeps a list of prompts a list of prompts.
LEMMA RemoveFirstType ==
    ASSUME NEW S, NEW s \in Seq(S), NEW e
    PROVE  RemoveFirst(s, e) \in Seq(S)
<1>1. CASE ~\E i \in 1..Len(s) : s[i] = e
  BY <1>1 DEF RemoveFirst
<1>2. CASE \E i \in 1..Len(s) : s[i] = e
  BY <1>2, RemoveFirstShape
<1> QED
  BY <1>1, <1>2

\* On a list without repetitions RemoveFirst is `retain`: e is gone, the
\* rest is still there once.
LEMMA RemoveFirstOnce ==
    ASSUME NEW S, NEW s \in Seq(S), NEW e, Once(s)
    PROVE  /\ \A i \in 1..Len(RemoveFirst(s, e)) :
                /\ RemoveFirst(s, e)[i] # e
                /\ \E j \in 1..Len(s) : RemoveFirst(s, e)[i] = s[j]
           /\ Once(RemoveFirst(s, e))
<1>1. CASE ~\E i \in 1..Len(s) : s[i] = e
  BY <1>1 DEF RemoveFirst
<1>2. CASE \E i \in 1..Len(s) : s[i] = e
  <2> DEFINE t == RemoveFirst(s, e)
  <2>1. PICK k \in 1..Len(s) :
             /\ s[k] = e /\ t \in Seq(S) /\ Len(t) = Len(s) - 1
             /\ \A i \in 1..Len(t) : t[i] = IF i < k THEN s[i] ELSE s[i + 1]
    BY <1>2, RemoveFirstShape
  <2> HIDE DEF t
  <2>2. \A i \in 1..Len(t) : t[i] # e /\ \E j \in 1..Len(s) : t[i] = s[j]
    BY <2>1 DEF Once
  <2>3. Once(t)
    BY <2>1 DEF Once
  <2> QED
    BY <2>2, <2>3 DEF t
<1> QED
  BY <1>1, <1>2

-----------------------------------------------------------------------------
(* Types: one lemma per group of variables.                                *)

\* A group of variables a step leaves alone keeps its type.
LEMMA TypeFrame ==
    ASSUME TypeOK
    PROVE  /\ UNCHANGED turnVars => TypeTurns'
           /\ UNCHANGED steerVars => TypeSteers'
           /\ UNCHANGED rtVars => TypeRuntime'
           /\ UNCHANGED taskVars => TypeTasks'
           /\ UNCHANGED soloVars => TypeSolo'
           /\ UNCHANGED permVars => TypePerms'
           /\ UNCHANGED agentVars => TypeAgent'
           /\ UNCHANGED histVars => TypeHist'
<1>1. UNCHANGED turnVars => TypeTurns'
  BY DEF TypeOK, TypeTurns, turnVars
<1>2. UNCHANGED steerVars => TypeSteers'
  BY DEF TypeOK, TypeSteers, steerVars
<1>3. UNCHANGED rtVars => TypeRuntime'
  BY DEF TypeOK, TypeRuntime, rtVars
<1>4. UNCHANGED taskVars => TypeTasks'
  BY DEF TypeOK, TypeTasks, taskVars
<1>5. UNCHANGED soloVars => TypeSolo'
  BY DEF TypeOK, TypeSolo, soloVars
<1>6. UNCHANGED permVars => TypePerms'
  BY DEF TypeOK, TypePerms, permVars
<1>7. UNCHANGED agentVars => TypeAgent'
  BY DEF TypeOK, TypeAgent, agentVars
<1>8. UNCHANGED histVars => TypeHist'
  BY DEF TypeOK, TypeHist, histVars
<1> QED
  BY <1>1, <1>2, <1>3, <1>4, <1>5, <1>6, <1>7, <1>8

\* The turn begin_turn stamps is a turn.
LEMMA StampType ==
    ASSUME TypeTurns, NEW p \in Prompts, StampTurn(p)
    PROVE  current' \in Turn /\ status' \in Statuses /\ pendingStart' \in BOOLEAN
<1>1. NextTurn \in Nat
  BY OffsetAssumption DEF NextTurn, TypeTurns
<1>2. current' \in Turn
  BY <1>1 DEF StampTurn, Turn
<1> QED
  BY <1>2 DEF StampTurn, Statuses

\* What CloseCurrent (settle_turn, fail_turn, park_turn) writes is well typed.
LEMMA CloseType ==
    ASSUME TypeTurns, TypeSteers, NEW p \in Prompts, CloseCurrent(p)
    PROVE  /\ current' \in Turn /\ turns' \in Seq(Settled) /\ recording' \in Nat
           /\ TypeSteers'
<1>1. current' \in Turn
  BY DEF CloseCurrent, NoTurn, Turn
<1>2. TypeSteers'
  BY DEF CloseCurrent, TypeSteers
<1>3. recording' \in Nat
  BY DEF CloseCurrent, TypeTurns, Turn
<1>4. [n |-> current.n, p |-> current.p, by |-> p, limited |-> outcome[p] = "limit"] \in Settled
  BY DEF TypeTurns, Turn, Settled
<1>5. turns' \in Seq(Settled)
  BY <1>4 DEF CloseCurrent, TypeTurns
<1> QED
  BY <1>1, <1>2, <1>3, <1>5

\* Changing the parked record of a registry entry leaves a registry entry.
LEMMA EntryType ==
    ASSUME TypeRuntime, NEW k \in Parked
    PROVE  [entry EXCEPT !.parked = k] \in RegistryEntry
  BY DEF TypeRuntime, RegistryEntry

\* The cleared parked record is one.
LEMMA NoParkType == NoPark \in Parked
  BY DEF NoPark, Parked

\* Every step keeps the turn state (`Inner`) well typed.
LEMMA TypeTurnsStep ==
    ASSUME TypeOK, [Next]_vars PROVE TypeTurns'
<1>a. TypeTurns /\ TypeSteers /\ TypeRuntime /\ TypeTasks /\ TypeTurns
  BY DEF TypeOK
<1>b. UNCHANGED turnVars => TypeTurns'
  BY TypeFrame
<1>1. ASSUME NEW p \in Prompts,
             Send(p) \/ SteerSend(p) \/ LogPrompt(p) \/ SteerPush(p) \/ SteerEnqueue(p)
             \/ SteerNoteLimit(p) \/ KickWire(p) \/ RecordTurnEnd(p) \/ NoteLimit(p) \/
             ClearParked(p) \/ Answer(p)
      PROVE  TypeTurns'
  BY <1>1, <1>b DEF Send, SteerSend, LogPrompt, SteerPush, SteerEnqueue,
     SteerNoteLimit, KickWire, RecordTurnEnd, NoteLimit, ClearParked, Answer, turnVars
<1>2. ASSUME NEW p \in Prompts, LogFails(p) PROVE TypeTurns'
  BY <1>2, <1>a DEF LogFails, FailedUnlessExited, NoTurn, TypeTurns, Statuses, Plans,
     Turn, Settled
<1>3. ASSUME NEW p \in Prompts, SendPrompt(p) PROVE TypeTurns'
  BY <1>3, <1>a DEF SendPrompt, TypeTurns, Statuses, Plans, Turn, Settled
<1>4. ASSUME NEW p \in Prompts, ClearRecording(p) PROVE TypeTurns'
  BY <1>4, <1>a DEF ClearRecording, TypeTurns, Statuses, Plans, Turn, Settled
<1>5. ASSUME NEW p \in Prompts, SendQueued(p) PROVE TypeTurns'
  <2>1. queue' = queue \/ queue' = Append(queue, p)
    BY <1>5 DEF SendQueued
  <2>2. queue' \in Seq(Prompts)
    BY <1>a, <2>1 DEF TypeTurns
  <2> QED
    BY <1>5, <1>a, <2>2 DEF SendQueued, TypeTurns
<1>6. ASSUME NEW p \in Prompts, BeginChecked(p) PROVE TypeTurns'
  <2>1. CASE StampTurn(p)
    BY <1>6, <1>a, <2>1, StampType DEF BeginChecked, TypeTurns
  <2>2. CASE UNCHANGED <<current, pendingStart, status>>
    BY <1>6, <1>a, <2>2 DEF BeginChecked, TypeTurns
  <2> QED
    BY <1>6, <2>1, <2>2 DEF BeginChecked
<1>7. ASSUME NEW p \in Prompts, SteerResolved(p) PROVE TypeTurns'
  <2> DEFINE heir == Oldest(WithoutFolded(p), WithoutSteer(p))
  <2>1. heir \in Prompts \cup {None}
    BY <1>a, RemoveFirstType DEF WithoutSteer, WithoutFolded, Oldest, TypeSteers
  <2> HIDE DEF heir
  <2>2. [current EXCEPT !.p = heir] \in Turn
    BY <1>a, <2>1 DEF TypeTurns, Turn
  <2>3. current' \in Turn
    BY <1>7, <1>a, <2>2 DEF SteerResolved, TypeTurns, heir
  <2>4. status' \in Statuses /\ queue' \in Seq(Prompts)
    BY <1>7, <1>a DEF SteerResolved, TypeTurns, Statuses
  <2> QED
    BY <1>7, <1>a, <2>3, <2>4 DEF SteerResolved, TypeTurns
<1>8. ASSUME NEW p \in Prompts, SettleTurn(p) PROVE TypeTurns'
  <2>1. CloseCurrent(p)
    BY <1>8 DEF SettleTurn
  <2>2. status' \in Statuses /\ plan' \in Plans
    BY <1>8, <1>a DEF SettleTurn, TypeTurns, Statuses, Plans
  <2>3. pendingStart' \in BOOLEAN
    BY <1>8, <1>a DEF SettleTurn, TypeTurns
  <2>4. queue' = queue \/ queue' = << >> \/ (queue # << >> /\ queue' = Tail(queue))
    BY <1>8 DEF SettleTurn, ChainReady
  <2>5. queue' \in Seq(Prompts)
    BY <1>a, <2>4, EmptySeq, HeadTailProperties DEF TypeTurns
  <2> QED
    BY <1>a, <2>1, <2>2, <2>3, <2>5, CloseType DEF TypeTurns
<1>9. ASSUME NEW p \in Prompts, FailTurn(p) PROVE TypeTurns'
  <2>1. CloseCurrent(p)
    BY <1>9 DEF FailTurn
  <2>2. status' \in Statuses /\ plan' \in Plans
    BY <1>9, <1>a DEF FailTurn, FailedUnlessExited, TypeTurns, Statuses, Plans
  <2>3. queue' \in Seq(Prompts) /\ pendingStart' \in BOOLEAN
    BY <1>9, <1>a DEF FailTurn, ChainReady, TypeTurns
  <2> QED
    BY <1>a, <2>1, <2>2, <2>3, CloseType DEF TypeTurns
<1>10. ASSUME NEW p \in Prompts, ParkTurn(p) PROVE TypeTurns'
  <2>1. CloseCurrent(p)
    BY <1>10 DEF ParkTurn
  <2>2. status' \in Statuses /\ plan' \in Plans
    BY <1>10, <1>a DEF ParkTurn, TypeTurns, Statuses, Plans
  <2>3. queue' \in Seq(Prompts) /\ pendingStart' \in BOOLEAN
    BY <1>10, <1>a DEF ParkTurn, ChainReady, TypeTurns
  <2> QED
    BY <1>a, <2>1, <2>2, <2>3, CloseType DEF TypeTurns
<1>11. ASSUME NEW p \in Prompts, SpawnChained(p) PROVE TypeTurns'
  <2>1. CASE StampTurn(p)
    BY <1>11, <1>a, <2>1, StampType DEF SpawnChained, TypeTurns
  <2>2. CASE UNCHANGED <<current, pendingStart, status>>
    BY <1>11, <1>a, <2>2 DEF SpawnChained, TypeTurns
  <2> QED
    BY <1>11, <2>1, <2>2 DEF SpawnChained
<1>12. ASSUME NEW p \in Prompts, Repark(p) PROVE TypeTurns'
  <2>1. queue' \in Seq(Prompts)
    BY <1>12, <1>a DEF Repark, Requeued, TypeTurns
  <2> QED
    BY <1>12, <1>a, <2>1 DEF Repark, TypeTurns, Statuses, Plans
<1>13. ASSUME NEW p \in Prompts, ReserveResume(p) PROVE TypeTurns'
  <2>1. queue' = queue \/ (queue # << >> /\ queue' = Tail(queue))
    BY <1>13 DEF ReserveResume
  <2>2. queue' \in Seq(Prompts)
    BY <1>a, <2>1, HeadTailProperties DEF TypeTurns
  <2> QED
    BY <1>13, <1>a, <2>2 DEF ReserveResume, ReserveSlot, TypeTurns, Statuses
<1>14. ASSUME NEW p \in Prompts, ResumeBegin(p) PROVE TypeTurns'
  <2>1. CASE StampTurn(p)
    BY <1>14, <1>a, <2>1, StampType DEF ResumeBegin, TypeTurns
  <2>2. CASE ~StampTurn(p)
    BY <1>14, <1>a, <2>2 DEF ResumeBegin, TypeTurns, Statuses
  <2> QED
    BY <2>1, <2>2
<1>15. ASSUME NEW r \in Perms, AskPermission(r) PROVE TypeTurns'
  BY <1>15, <1>b DEF AskPermission, turnVars
<1>16. ASSUME NEW r \in Perms, QueueForPermit(r) PROVE TypeTurns'
  BY <1>16, <1>a DEF QueueForPermit, TypeTurns, Statuses, Plans, Turn, Settled
<1>17. ASSUME NEW r \in Perms, Permit(r) PROVE TypeTurns'
  BY <1>17, <1>a DEF Permit, Unblocked, TypeTurns, Statuses, Plans, Turn, Settled
<1>18. ASSUME NEW r \in Perms, PermitAnswered(r) PROVE TypeTurns'
  BY <1>18, <1>a DEF PermitAnswered, Unblocked, TypeTurns, Statuses, Plans, Turn,
     Settled
<1>19. CASE RecordPark \/ ParkedDue \/ PassOver \/ ClearStale \/ UnscheduleResume \/
        CancelSend \/ GateRises \/ GateExpires \/ AgentDies \/ CloseSession \/ Supersede
        \/ WatchScan \/ HandoffOne \/ HandoffReported
  BY <1>19, <1>b DEF RecordPark, ParkedDue, PassOver, ClearStale, UnscheduleResume, CancelSend,
     GateRises, GateExpires, AgentDies, CloseSession, Supersede, WatchScan, HandoffOne,
     HandoffReported, turnVars
<1>20. CASE Teardown
  BY <1>20, <1>a DEF Teardown, CloseSub, DropQueue, AnswerPending, TypeTurns,
     Statuses, Plans, Turn, Settled
<1>21. CASE HandedClose
  BY <1>21, <1>a DEF HandedClose, CloseSub, DropQueue, AnswerPending, TypeTurns,
     Statuses, Plans, Turn, Settled
<1>22. CASE OnDisconnect
  <2>1. \/ UNCHANGED <<status, current, queue>>
        \/ status' = "exited" /\ current' = NoTurn /\ queue' = << >>
    BY <1>22 DEF OnDisconnect
  <2>2. NoTurn \in Turn
    BY DEF NoTurn, Turn
  <2>3. queue' \in Seq(Prompts) /\ current' \in Turn /\ status' \in Statuses
    BY <1>a, <2>1, <2>2, EmptySeq DEF TypeTurns, Statuses
  <2> QED
    BY <1>22, <1>a, <2>3 DEF OnDisconnect, TypeTurns
<1>23. CASE SessionUpdate
  <2>1. UpdateTurn \in Nat
    BY <1>a, OffsetAssumption DEF UpdateTurn, TypeTurns
  <2>2. OldestSteer \in Prompts \cup {None}
    BY <1>a DEF OldestSteer, Oldest, TypeSteers
  <2>3. current' \in Turn
    BY <1>23, <2>1, <2>2 DEF SessionUpdate, Turn
  <2> QED
    BY <1>23, <1>a, <2>3 DEF SessionUpdate, TypeTurns, Statuses
<1>24. CASE CancelTurn
  <2>1. [current EXCEPT !.cancelReq = TRUE] \in Turn
    BY <1>a, Zenon DEF TypeTurns, Turn
  <2>2. current' \in Turn
    BY <1>24, <1>a, <2>1 DEF CancelTurn, TypeTurns
  <2> QED
    BY <1>24, <1>a, <2>2 DEF CancelTurn, TypeTurns
<1>25. CASE UNCHANGED vars
  BY <1>25, <1>b DEF vars
<1> QED
  BY <1>1, <1>2, <1>3, <1>4, <1>5, <1>6, <1>7, <1>8, <1>9, <1>10, <1>11, <1>12,
     <1>13, <1>14, <1>15, <1>16, <1>17, <1>18, <1>19, <1>20, <1>21, <1>22, <1>23, <1>24,
     <1>25 DEF Next, WireFree, WireTaking, Scheduler, Teardowns, Prompts

\* Every step keeps the steer lists well typed.
LEMMA TypeSteersStep ==
    ASSUME TypeOK, [Next]_vars PROVE TypeSteers'
<1>a. TypeTurns /\ TypeSteers /\ TypeRuntime /\ TypeTasks /\ TypeSteers
  BY DEF TypeOK
<1>b. UNCHANGED steerVars => TypeSteers'
  BY TypeFrame
<1>1. ASSUME NEW p \in Prompts,
             Send(p) \/ SendQueued(p) \/ SteerSend(p) \/ BeginChecked(p) \/ LogPrompt(p)
             \/ LogFails(p) \/ SendPrompt(p) \/ SteerEnqueue(p) \/ SteerNoteLimit(p) \/
             KickWire(p) \/ RecordTurnEnd(p) \/ ClearRecording(p) \/ NoteLimit(p) \/
             SpawnChained(p) \/ Repark(p) \/ ReserveResume(p) \/ ClearParked(p) \/
             ResumeBegin(p) \/ Answer(p)
      PROVE  TypeSteers'
  BY <1>1, <1>b DEF Send, SendQueued, SteerSend, BeginChecked, LogPrompt, LogFails,
     SendPrompt, SteerEnqueue, SteerNoteLimit, KickWire, RecordTurnEnd, ClearRecording,
     NoteLimit, SpawnChained, Repark, ReserveResume, ClearParked, ResumeBegin, Answer,
     steerVars
<1>2. ASSUME NEW p \in Prompts, SteerPush(p) PROVE TypeSteers'
  BY <1>2, <1>a DEF SteerPush, TypeSteers
<1>3. ASSUME NEW p \in Prompts, SteerResolved(p) PROVE TypeSteers'
  <2>1. WithoutSteer(p) \in Seq(Prompts) /\ WithoutFolded(p) \in Seq(Prompts)
    BY <1>a, RemoveFirstType DEF WithoutSteer, WithoutFolded, TypeSteers
  <2>2. Oldest(WithoutFolded(p), WithoutSteer(p)) \in Prompts \cup {None}
    BY <2>1 DEF Oldest
  <2> QED
    BY <1>3, <1>a, <2>1, <2>2 DEF SteerResolved, TypeSteers
<1>4. ASSUME NEW p \in Prompts, SettleTurn(p) PROVE TypeSteers'
  BY <1>4, <1>a, CloseType DEF SettleTurn
<1>5. ASSUME NEW p \in Prompts, FailTurn(p) PROVE TypeSteers'
  BY <1>5, <1>a, CloseType DEF FailTurn
<1>6. ASSUME NEW p \in Prompts, ParkTurn(p) PROVE TypeSteers'
  BY <1>6, <1>a, CloseType DEF ParkTurn
<1>7. ASSUME NEW r \in Perms,
             AskPermission(r) \/ QueueForPermit(r) \/ Permit(r) \/ PermitAnswered(r)
      PROVE  TypeSteers'
  BY <1>7, <1>b DEF AskPermission, QueueForPermit, Permit, PermitAnswered, steerVars
<1>8. CASE RecordPark \/ ParkedDue \/ PassOver \/ ClearStale \/ UnscheduleResume \/
        CancelTurn \/ CancelSend \/ GateRises \/ GateExpires \/ AgentDies \/
        CloseSession \/ Supersede \/ WatchScan \/ HandoffOne \/ HandoffReported
  BY <1>8, <1>b DEF RecordPark, ParkedDue, PassOver, ClearStale, UnscheduleResume, CancelTurn,
     CancelSend, GateRises, GateExpires, AgentDies, CloseSession, Supersede, WatchScan,
     HandoffOne, HandoffReported, steerVars
<1>9. CASE Teardown
  BY <1>9, EmptySeq DEF Teardown, CloseSub, TypeSteers
<1>10. CASE HandedClose
  BY <1>10, EmptySeq DEF HandedClose, CloseSub, TypeSteers
<1>11. CASE OnDisconnect
  <2>1. \/ UNCHANGED steerVars
        \/ steerPending' = << >> /\ steerFolded' = << >> /\ steerOwner' = None
    BY <1>11 DEF OnDisconnect
  <2> QED
    BY <1>a, <2>1, EmptySeq DEF TypeSteers, steerVars
<1>12. CASE SessionUpdate
  <2>1. OldestSteer \in Prompts \cup {None}
    BY <1>a DEF OldestSteer, Oldest, TypeSteers
  <2> QED
    BY <1>12, <1>a, <2>1 DEF SessionUpdate, TypeSteers
<1>13. CASE UNCHANGED vars
  BY <1>13, <1>b DEF vars
<1> QED
  BY <1>1, <1>2, <1>3, <1>4, <1>5, <1>6, <1>7, <1>8, <1>9, <1>10, <1>11, <1>12, <1>13
     DEF Next, WireFree, WireTaking, Scheduler, Teardowns, Prompts

\* Every step keeps the runtime flags and the registry entry well typed.
LEMMA TypeRuntimeStep ==
    ASSUME TypeOK, [Next]_vars PROVE TypeRuntime'
<1>a. TypeTurns /\ TypeSteers /\ TypeRuntime /\ TypeTasks /\ TypeRuntime
  BY DEF TypeOK
<1>b. UNCHANGED rtVars => TypeRuntime'
  BY TypeFrame
<1>1. ASSUME NEW p \in Prompts,
             Send(p) \/ SendQueued(p) \/ SteerPush(p) \/ SteerResolved(p) \/ Repark(p)
             \/ ReserveResume(p) \/ Answer(p)
      PROVE  TypeRuntime'
  BY <1>1, <1>b DEF Send, SendQueued, SteerPush, SteerResolved, Repark,
     ReserveResume, Answer, rtVars
<1>2. ASSUME NEW p \in Prompts,
             SteerSend(p) \/ BeginChecked(p) \/ LogPrompt(p) \/ LogFails(p) \/
             SendPrompt(p) \/ SteerEnqueue(p) \/ SteerNoteLimit(p) \/ KickWire(p)
      PROVE  TypeRuntime'
  <2>1. CASE SteerSend(p) \/ BeginChecked(p) \/ LogPrompt(p) \/ LogFails(p)
    BY <2>1, <1>a DEF SteerSend, BeginChecked, LogPrompt, LogFails, StampTurn,
       TypeRuntime, RegistryEntry, Parked
  <2>2. CASE SendPrompt(p) \/ SteerEnqueue(p)
    BY <2>2, <1>a DEF SendPrompt, SteerEnqueue, StampTurn, TypeRuntime, RegistryEntry,
       Parked
  <2>3. CASE SteerNoteLimit(p) \/ KickWire(p)
    BY <2>3, <1>a DEF SteerNoteLimit, KickWire, TypeRuntime, RegistryEntry, Parked
  <2> QED
    BY <1>2, <2>1, <2>2, <2>3
<1>3. ASSUME NEW p \in Prompts,
             SettleTurn(p) \/ FailTurn(p) \/ ParkTurn(p) \/ ClearRecording(p) \/
             NoteLimit(p) \/ SpawnChained(p) \/ ResumeBegin(p)
      PROVE  TypeRuntime'
  BY <1>3, <1>a DEF SettleTurn, FailTurn, ParkTurn, ClearRecording, NoteLimit,
     SpawnChained, ResumeBegin, FinishBegins, UnchangedByFinish, StampTurn, TypeRuntime,
     RegistryEntry, Parked
<1>4. ASSUME NEW p \in Prompts, RecordTurnEnd(p) PROVE TypeRuntime'
  <2>1. ParkAfterTurn(outcome[p]) \in Parked
    BY <1>a, NoParkType DEF ParkAfterTurn, TypeRuntime, TypeTurns, RegistryEntry,
       Parked, Plans
  <2>2. Offset + Len(turns) \in Nat
    BY <1>a, OffsetAssumption DEF TypeTurns
  <2>3. entry' \in RegistryEntry
    BY <1>4, <2>1, <2>2 DEF RecordTurnEnd, RegistryEntry
  <2> QED
    BY <1>4, <1>a, <2>3 DEF RecordTurnEnd, TypeRuntime
<1>5. ASSUME NEW p \in Prompts, ClearParked(p) PROVE TypeRuntime'
  BY <1>5, <1>a, EntryType, NoParkType DEF ClearParked, TypeRuntime
<1>6. ASSUME NEW r \in Perms,
             AskPermission(r) \/ QueueForPermit(r) \/ Permit(r) \/ PermitAnswered(r)
      PROVE  TypeRuntime'
  BY <1>6, <1>b DEF AskPermission, QueueForPermit, Permit, PermitAnswered, rtVars
<1>7. CASE ParkedDue \/ PassOver \/ OnDisconnect \/ SessionUpdate \/ CancelTurn \/
        CancelSend \/ AgentDies \/ WatchScan
  BY <1>7, <1>b DEF ParkedDue, PassOver, OnDisconnect, SessionUpdate, CancelTurn, CancelSend,
     AgentDies, WatchScan, rtVars
<1>8. CASE Teardown \/ HandedClose \/ GateRises \/ GateExpires \/ CloseSession
        \/ Supersede \/ HandoffOne \/ HandoffReported
  BY <1>8, <1>a DEF Teardown, HandedClose, GateRises, GateExpires, CloseSession,
     Supersede, HandoffOne, HandoffReported, CloseSub, TypeRuntime, RegistryEntry,
     Parked
<1>9. CASE RecordPark
  <2>1. "queue" \in Parked
    BY DEF Parked, Plans
  <2>2. entry' \in RegistryEntry
    BY <1>9, <1>a, <2>1, EntryType DEF RecordPark, TypeRuntime
  <2> QED
    BY <1>9, <1>a, <2>2 DEF RecordPark, TypeRuntime
<1>10. CASE ClearStale
  BY <1>10, <1>a, EntryType, NoParkType DEF ClearStale, TypeRuntime
<1>11. CASE UnscheduleResume
  BY <1>11, <1>a, EntryType, NoParkType DEF UnscheduleResume, TypeRuntime
<1>12. CASE UNCHANGED vars
  BY <1>12, <1>b DEF vars
<1> QED
  BY <1>1, <1>2, <1>3, <1>4, <1>5, <1>6, <1>7, <1>8, <1>9, <1>10, <1>11, <1>12 DEF
     Next, WireFree, WireTaking, Scheduler, Teardowns, Prompts

\* Every step keeps the tasks' control state well typed.
LEMMA TypeTasksStep ==
    ASSUME TypeOK, [Next]_vars PROVE TypeTasks'
<1>a. TypeTurns /\ TypeSteers /\ TypeRuntime /\ TypeTasks /\ TypeTasks
  BY DEF TypeOK
<1>b. UNCHANGED taskVars => TypeTasks'
  BY TypeFrame
<1>1. ASSUME NEW p \in Prompts,
             SendQueued(p) \/ SteerSend(p) \/ BeginChecked(p) \/ LogPrompt(p) \/
             LogFails(p) \/ SendPrompt(p)
      PROVE  TypeTasks'
  BY <1>1, <1>a DEF SendQueued, SteerSend, BeginChecked, LogPrompt, LogFails,
     SendPrompt, StampTurn, TypeTasks, PCs, Outcomes, TypeTurns
<1>2. ASSUME NEW p \in Prompts,
             SteerPush(p) \/ SteerEnqueue(p) \/ SteerNoteLimit(p) \/ SteerResolved(p) \/
             KickWire(p) \/ SettleTurn(p)
      PROVE  TypeTasks'
  <2>1. CASE SteerPush(p) \/ SteerEnqueue(p) \/ SteerNoteLimit(p)
    BY <2>1, <1>a DEF SteerPush, SteerEnqueue, SteerNoteLimit, TypeTasks, PCs, Outcomes
  <2>2. CASE SteerResolved(p) \/ KickWire(p)
    BY <2>2, <1>a DEF SteerResolved, KickWire, ChainReady, TypeTasks, PCs, Outcomes,
       TypeTurns
  <2>3. CASE SettleTurn(p)
    BY <2>3, <1>a DEF SettleTurn, FinishBegins, UnchangedByFinish, DropQueue, TypeTasks,
       PCs, Outcomes, TypeTurns
  <2> QED
    BY <1>2, <2>1, <2>2, <2>3
<1>3. ASSUME NEW p \in Prompts,
             FailTurn(p) \/ ParkTurn(p) \/ RecordTurnEnd(p) \/ ClearRecording(p) \/
             NoteLimit(p) \/ SpawnChained(p)
      PROVE  TypeTasks'
  BY <1>3, <1>a DEF FailTurn, ParkTurn, RecordTurnEnd, ClearRecording, NoteLimit,
     SpawnChained, FinishBegins, UnchangedByFinish, DropQueue, StampTurn, Unstarted,
     TypeTasks, PCs, Outcomes, TypeTurns
<1>4. ASSUME NEW p \in Prompts,
             ReserveResume(p) \/ ClearParked(p) \/ ResumeBegin(p) \/ Answer(p)
      PROVE  TypeTasks'
  BY <1>4, <1>a DEF ReserveResume, ClearParked, ResumeBegin, Answer, StampTurn,
     Unstarted, TypeTasks, PCs, Outcomes, TypeTurns
<1>5. ASSUME NEW p \in Prompts, Send(p) PROVE TypeTasks'
  <2>1. PICK d \in PCs : pc' = [pc EXCEPT ![p] = d]
    BY <1>5, PoliciesAssumption DEF Send, PCs
  <2> QED
    BY <1>5, <1>a, <2>1 DEF Send, TypeTasks
<1>6. ASSUME NEW p \in Prompts, Repark(p) PROVE TypeTasks'
  BY <1>6, <1>a DEF Repark, TypeTasks, PCs
<1>7. ASSUME NEW r \in Perms,
             AskPermission(r) \/ QueueForPermit(r) \/ Permit(r) \/ PermitAnswered(r)
      PROVE  TypeTasks'
  BY <1>7, <1>b DEF AskPermission, QueueForPermit, Permit, PermitAnswered, taskVars
<1>8. CASE ParkedDue \/ PassOver \/ ClearStale \/ UnscheduleResume \/ SessionUpdate \/
        CancelSend \/ GateRises \/ GateExpires \/ AgentDies \/ CloseSession \/ Supersede
        \/ WatchScan \/ HandoffOne \/ HandoffReported
  BY <1>8, <1>b DEF ParkedDue, PassOver, ClearStale, UnscheduleResume, SessionUpdate,
     CancelSend, GateRises, GateExpires, AgentDies, CloseSession, Supersede, WatchScan,
     HandoffOne, HandoffReported, taskVars
<1>9. CASE Teardown \/ HandedClose \/ CancelTurn
  BY <1>9, <1>a DEF Teardown, HandedClose, CancelTurn, CloseSub, DropQueue,
     TypeTasks, PCs, Outcomes, TypeTurns
<1>10. CASE RecordPark
  BY <1>10, <1>a DEF RecordPark, TypeTasks
<1>11. CASE OnDisconnect
  <2>1. pc' = pc \/ pc' = DropQueue(pc)
    BY <1>11 DEF OnDisconnect
  <2> QED
    BY <1>11, <1>a, <2>1 DEF OnDisconnect, DropQueue, TypeTasks, PCs
<1>12. CASE UNCHANGED vars
  BY <1>12, <1>b DEF vars
<1> QED
  BY <1>1, <1>2, <1>3, <1>4, <1>5, <1>6, <1>7, <1>8, <1>9, <1>10, <1>11, <1>12 DEF
     Next, WireFree, WireTaking, Scheduler, Teardowns, Prompts

\* Every step keeps the canceller, the closer and the watcher well typed.
LEMMA TypeSoloStep ==
    ASSUME TypeOK, [Next]_vars PROVE TypeSolo'
<1>a. TypeTurns /\ TypeSteers /\ TypeRuntime /\ TypeTasks /\ TypeSolo
  BY DEF TypeOK
<1>b. UNCHANGED soloVars => TypeSolo'
  BY TypeFrame
<1>1. ASSUME NEW p \in Prompts,
             Send(p) \/ SendQueued(p) \/ SteerSend(p) \/ BeginChecked(p) \/ LogPrompt(p)
             \/ LogFails(p) \/ SendPrompt(p) \/ SteerPush(p) \/ SteerEnqueue(p) \/
             SteerNoteLimit(p) \/ SteerResolved(p) \/ KickWire(p) \/ SettleTurn(p) \/
             FailTurn(p) \/ ParkTurn(p) \/ RecordTurnEnd(p) \/ ClearRecording(p) \/
             NoteLimit(p) \/ SpawnChained(p) \/ Repark(p) \/
             ClearParked(p) \/ ResumeBegin(p) \/ Answer(p)
      PROVE  TypeSolo'
  BY <1>1, <1>b DEF Send, SendQueued, SteerSend, BeginChecked, LogPrompt, LogFails,
     SendPrompt, SteerPush, SteerEnqueue, SteerNoteLimit, SteerResolved, KickWire,
     SettleTurn, FailTurn, ParkTurn, RecordTurnEnd, ClearRecording, NoteLimit,
     SpawnChained, Repark, ClearParked, ResumeBegin, Answer,
     FinishBegins, UnchangedByFinish, soloVars
<1>2. ASSUME NEW r \in Perms,
             AskPermission(r) \/ QueueForPermit(r) \/ Permit(r) \/ PermitAnswered(r)
      PROVE  TypeSolo'
  BY <1>2, <1>b DEF AskPermission, QueueForPermit, Permit, PermitAnswered, soloVars
<1>3. CASE RecordPark \/ OnDisconnect \/ SessionUpdate \/ GateRises \/
        GateExpires \/ AgentDies
  BY <1>3, <1>b DEF RecordPark, OnDisconnect, SessionUpdate, GateRises, GateExpires,
     AgentDies, soloVars
<1>4. CASE ParkedDue \/ PassOver \/ ClearStale \/ UnscheduleResume \/ Teardown \/
        HandedClose \/ CancelSend
  BY <1>4, <1>a DEF ParkedDue, PassOver, ClearStale, UnscheduleResume, Teardown, HandedClose,
     CancelSend, CloseSub, TypeSolo, TypeTurns
<1>5. CASE CloseSession \/ Supersede \/ WatchScan \/ HandoffOne
  BY <1>5, <1>a DEF CloseSession, Supersede, WatchScan, HandoffOne, TypeSolo, TypeTurns
<1>6. CASE CancelTurn
  BY <1>6, <1>a DEF CancelTurn, TypeSolo
<1>7. CASE HandoffReported
  <2>1. /\ watcher' \in {"watch", "handed"}
        /\ shipped' = shipped \/ shipped' = << >>
    BY <1>7 DEF HandoffReported
  <2> QED
    BY <1>7, <1>a, <2>1, EmptySeq DEF HandoffReported, TypeSolo
<1>8. ASSUME NEW p \in Prompts, ReserveResume(p) PROVE TypeSolo'
  BY <1>8, <1>a DEF ReserveResume, TypeSolo
<1>9. CASE UNCHANGED vars
  BY <1>9, <1>b DEF vars
<1> QED
  BY <1>1, <1>2, <1>3, <1>4, <1>5, <1>6, <1>7, <1>8, <1>9 DEF Next, WireFree, WireTaking,
     Scheduler, Teardowns, Prompts

\* Every step keeps the permission requests well typed.
LEMMA TypePermsStep ==
    ASSUME TypeOK, [Next]_vars PROVE TypePerms'
<1>a. TypeTurns /\ TypeSteers /\ TypeRuntime /\ TypeTasks /\ TypePerms
  BY DEF TypeOK
<1>b. UNCHANGED permVars => TypePerms'
  BY TypeFrame
<1>1. ASSUME NEW p \in Prompts,
             Send(p) \/ SendQueued(p) \/ SteerSend(p) \/ BeginChecked(p) \/ LogPrompt(p)
             \/ LogFails(p) \/ SendPrompt(p) \/ SteerPush(p) \/ SteerEnqueue(p) \/
             SteerNoteLimit(p) \/ SteerResolved(p) \/ KickWire(p) \/ SettleTurn(p) \/
             FailTurn(p) \/ ParkTurn(p) \/ RecordTurnEnd(p) \/ ClearRecording(p) \/
             NoteLimit(p) \/ SpawnChained(p) \/ Repark(p) \/ ReserveResume(p) \/
             ClearParked(p) \/ ResumeBegin(p) \/ Answer(p)
      PROVE  TypePerms'
  BY <1>1, <1>b DEF Send, SendQueued, SteerSend, BeginChecked, LogPrompt, LogFails,
     SendPrompt, SteerPush, SteerEnqueue, SteerNoteLimit, SteerResolved, KickWire,
     SettleTurn, FailTurn, ParkTurn, RecordTurnEnd, ClearRecording, NoteLimit,
     SpawnChained, Repark, ReserveResume, ClearParked, ResumeBegin, Answer,
     FinishBegins, UnchangedByFinish, permVars
<1>2. ASSUME NEW r \in Perms,
             AskPermission(r) \/ QueueForPermit(r) \/ Permit(r) \/ PermitAnswered(r)
      PROVE  TypePerms'
  BY <1>2, <1>a DEF AskPermission, QueueForPermit, Permit, PermitAnswered, TypePerms
<1>3. CASE RecordPark \/ ParkedDue \/ PassOver \/ ClearStale \/ UnscheduleResume \/
        SessionUpdate \/ CancelSend \/ GateRises \/ GateExpires \/ AgentDies \/
        CloseSession \/ Supersede \/ WatchScan \/ HandoffOne \/ HandoffReported
  BY <1>3, <1>b DEF RecordPark, ParkedDue, PassOver, ClearStale, UnscheduleResume,
     SessionUpdate, CancelSend, GateRises, GateExpires, AgentDies, CloseSession,
     Supersede, WatchScan, HandoffOne, HandoffReported, permVars
<1>4. CASE Teardown \/ HandedClose \/ CancelTurn
  BY <1>4, <1>a DEF Teardown, HandedClose, CancelTurn, CloseSub, AnswerPending,
     TypePerms
<1>5. CASE OnDisconnect
  BY <1>5, <1>a DEF OnDisconnect, TypePerms, permVars, AnswerPending
<1>6. CASE UNCHANGED vars
  BY <1>6, <1>b DEF vars
<1> QED
  BY <1>1, <1>2, <1>3, <1>4, <1>5, <1>6 DEF Next, WireFree, WireTaking, Scheduler,
     Teardowns, Prompts

\* Every step keeps the agent's state well typed.
LEMMA TypeAgentStep ==
    ASSUME TypeOK, [Next]_vars PROVE TypeAgent'
<1>a. TypeTurns /\ TypeSteers /\ TypeRuntime /\ TypeTasks /\ TypeAgent
  BY DEF TypeOK
<1>b. UNCHANGED agentVars => TypeAgent'
  BY TypeFrame
<1>1. ASSUME NEW p \in Prompts,
             Send(p) \/ SendQueued(p) \/ SteerSend(p) \/ BeginChecked(p) \/ LogPrompt(p)
             \/ LogFails(p) \/ SteerPush(p) \/ SteerNoteLimit(p) \/ SteerResolved(p) \/
             KickWire(p) \/ SettleTurn(p) \/ FailTurn(p) \/ ParkTurn(p) \/
             RecordTurnEnd(p) \/ ClearRecording(p) \/ NoteLimit(p) \/ SpawnChained(p) \/
             Repark(p) \/ ReserveResume(p) \/ ClearParked(p) \/ ResumeBegin(p)
      PROVE  TypeAgent'
  BY <1>1, <1>b DEF Send, SendQueued, SteerSend, BeginChecked, LogPrompt, LogFails,
     SteerPush, SteerNoteLimit, SteerResolved, KickWire, SettleTurn, FailTurn, ParkTurn,
     RecordTurnEnd, ClearRecording, NoteLimit, SpawnChained, Repark, ReserveResume,
     ClearParked, ResumeBegin, FinishBegins, UnchangedByFinish, agentVars
<1>2. ASSUME NEW p \in Prompts,
             SendPrompt(p) \/ SteerEnqueue(p) \/ Answer(p)
      PROVE  TypeAgent'
  BY <1>2, <1>a DEF SendPrompt, SteerEnqueue, Answer, TypeAgent
<1>3. ASSUME NEW r \in Perms,
             AskPermission(r) \/ QueueForPermit(r) \/ Permit(r) \/ PermitAnswered(r)
      PROVE  TypeAgent'
  BY <1>3, <1>b DEF AskPermission, QueueForPermit, Permit, PermitAnswered, agentVars
<1>4. CASE RecordPark \/ ParkedDue \/ PassOver \/ ClearStale \/ UnscheduleResume \/
        SessionUpdate \/ CancelTurn \/ GateRises \/ GateExpires \/ CloseSession \/
        Supersede \/ WatchScan \/ HandoffOne \/ HandoffReported
  BY <1>4, <1>b DEF RecordPark, ParkedDue, PassOver, ClearStale, UnscheduleResume,
     SessionUpdate, CancelTurn, GateRises, GateExpires, CloseSession, Supersede,
     WatchScan, HandoffOne, HandoffReported, agentVars
<1>5. CASE Teardown \/ HandedClose \/ OnDisconnect \/ CancelSend \/ AgentDies
  BY <1>5, <1>a DEF Teardown, HandedClose, OnDisconnect, CancelSend, AgentDies,
     CloseSub, TypeAgent
<1>6. CASE UNCHANGED vars
  BY <1>6, <1>b DEF vars
<1> QED
  BY <1>1, <1>2, <1>3, <1>4, <1>5, <1>6 DEF Next, WireFree, WireTaking, Scheduler,
     Teardowns, Prompts

\* Every step keeps the history variables well typed.
LEMMA TypeHistStep ==
    ASSUME TypeOK, [Next]_vars PROVE TypeHist'
<1>a. TypeTurns /\ TypeSteers /\ TypeRuntime /\ TypeTasks /\ TypeHist
  BY DEF TypeOK
<1>b. UNCHANGED histVars => TypeHist'
  BY TypeFrame
<1>1. ASSUME NEW p \in Prompts,
             Send(p) \/ SteerSend(p) \/ BeginChecked(p) \/ LogPrompt(p) \/ LogFails(p)
             \/ SendPrompt(p) \/ SteerPush(p) \/ SteerEnqueue(p) \/ SteerNoteLimit(p) \/
             SteerResolved(p) \/ KickWire(p) \/ SettleTurn(p) \/ FailTurn(p) \/
             ParkTurn(p) \/ RecordTurnEnd(p) \/ ClearRecording(p) \/ NoteLimit(p) \/
             SpawnChained(p) \/ Repark(p) \/ ReserveResume(p) \/ ClearParked(p) \/
             ResumeBegin(p) \/ Answer(p)
      PROVE  TypeHist'
  BY <1>1, <1>b DEF Send, SteerSend, BeginChecked, LogPrompt, LogFails, SendPrompt,
     SteerPush, SteerEnqueue, SteerNoteLimit, SteerResolved, KickWire, SettleTurn,
     FailTurn, ParkTurn, RecordTurnEnd, ClearRecording, NoteLimit, SpawnChained, Repark,
     ReserveResume, ClearParked, ResumeBegin, Answer, FinishBegins, UnchangedByFinish,
     histVars
<1>2. ASSUME NEW p \in Prompts, SendQueued(p) PROVE TypeHist'
  <2>1. UNCHANGED histVars \/ accepted' = Append(accepted, p)
    BY <1>2 DEF SendQueued, histVars
  <2>2. CASE accepted' = Append(accepted, p)
    BY <1>2, <1>a, <2>2 DEF SendQueued, TypeHist
  <2> QED
    BY <1>b, <2>1, <2>2
<1>3. ASSUME NEW r \in Perms,
             AskPermission(r) \/ QueueForPermit(r) \/ Permit(r) \/ PermitAnswered(r)
      PROVE  TypeHist'
  BY <1>3, <1>b DEF AskPermission, QueueForPermit, Permit, PermitAnswered, histVars
<1>4. CASE RecordPark \/ ParkedDue \/ PassOver \/ ClearStale \/ UnscheduleResume \/ Teardown
        \/ HandedClose \/ OnDisconnect \/ SessionUpdate \/ CancelSend \/ GateRises \/
        GateExpires \/ AgentDies \/ CloseSession \/ Supersede \/ WatchScan \/ HandoffOne
        \/ HandoffReported
  BY <1>4, <1>b DEF RecordPark, ParkedDue, PassOver, ClearStale, UnscheduleResume, Teardown,
     HandedClose, OnDisconnect, SessionUpdate, CancelSend, GateRises, GateExpires,
     AgentDies, CloseSession, Supersede, WatchScan, HandoffOne, HandoffReported,
     CloseSub, histVars
<1>5. CASE CancelTurn
  <2>1. current.p \in Prompts \cup {None}
    BY <1>a DEF TypeTurns, Turn
  <2> QED
    BY <1>5, <1>a, <2>1 DEF CancelTurn, TypeHist, InGap
<1>6. CASE UNCHANGED vars
  BY <1>6, <1>b DEF vars
<1> QED
  BY <1>1, <1>2, <1>3, <1>4, <1>5, <1>6 DEF Next, WireFree, WireTaking, Scheduler,
     Teardowns, Prompts

\* Type correctness is inductive.
LEMMA TypeStep == TypeOK /\ [Next]_vars => TypeOK'
  BY TypeTurnsStep, TypeSteersStep, TypeRuntimeStep, TypeTasksStep, TypeSoloStep,
     TypePermsStep, TypeAgentStep, TypeHistStep DEF TypeOK

-----------------------------------------------------------------------------
(* Who holds the wire (`prompt_send`), the queue and the agent's unanswered *)
(* prompts. Each fact needs the others to be inductive.                    *)

\* A task in the middle of begin_turn, finish_turn, steer_send or
\* spawn_chained is the one that holds `prompt_send`.
WireOwned == \A p \in Prompts : pc[p] \in Holding => wire = p

\* While repark_prompt has its park to record it holds the wire; its prompt
\* is back in the queue, or where a resume, a kick or a drop took it.
ReparkOwned ==
    reparked # None =>
        /\ wire \in Prompts
        /\ pc[wire] \in {"queued", "reserved", "resuming", "kicked", "dropped"}

\* The queue holds each prompt once, and only prompts that wait in it.
QueueOwned == /\ Once(queue)
              /\ \A i \in 1..Len(queue) : pc[queue[i]] = "queued"

\* Only a running turn or a steer has a prompt the agent has not answered.
OutOwned == \A p \in out : pc[p] \in {"inturn", "steering"}

\* Who holds what, in one formula.
Ownership == WireOwned /\ ReparkOwned /\ QueueOwned /\ OutOwned

\* A step that leaves the queue and its prompts alone keeps QueueOwned.
LEMMA QueueKept ==
    ASSUME TypeTurns, QueueOwned, queue' = queue,
           \A q \in Prompts : pc[q] = "queued" => pc'[q] = "queued"
    PROVE  QueueOwned'
  BY DEF TypeTurns, QueueOwned

\* An empty queue is owned (cancel_turn, fail_turn, close_sub).
LEMMA QueueEmptied == ASSUME queue' = << >> PROVE QueueOwned'
  BY DEF QueueOwned, Once

\* Taking the head off (settle_turn, steer_resolved, reserve_resume_turn)
\* keeps the rest of the queue waiting, each prompt once.
LEMMA QueuePopped ==
    ASSUME TypeTurns, QueueOwned, queue # << >>, queue' = Tail(queue),
           \A q \in Prompts : pc[q] = "queued" /\ q # Head(queue) => pc'[q] = "queued"
    PROVE  QueueOwned'
<1>1. /\ Len(queue) \in Nat /\ Len(queue') = Len(queue) - 1 /\ Head(queue) = queue[1]
      /\ \A i \in 1..Len(queue') : queue'[i] = queue[i + 1] /\ i + 1 \in 1..Len(queue)
  BY DEF TypeTurns
<1>2. \A i \in 1..Len(queue) : queue[i] \in Prompts /\ pc[queue[i]] = "queued"
  BY DEF TypeTurns, QueueOwned
<1>3. \A i \in 1..Len(queue) : i # 1 => queue[i] # queue[1]
  BY <1>1 DEF QueueOwned, Once
<1>4. \A i \in 1..Len(queue') : pc'[queue'[i]] = "queued"
  BY <1>1, <1>2, <1>3
<1>5. Once(queue')
  BY <1>1 DEF QueueOwned, Once
<1> QED
  BY <1>4, <1>5 DEF QueueOwned

\* What dropping the queue touches are waiting prompts.
LEMMA RangeQueued ==
    ASSUME TypeTurns, QueueOwned PROVE \A q \in Range(queue) : pc[q] = "queued"
  BY DEF TypeTurns, QueueOwned, Range

\* The prompt a chain, a kick or a resume takes was waiting.
LEMMA HeadQueued ==
    ASSUME TypeTurns, QueueOwned, queue # << >>
    PROVE  /\ Head(queue) \in Prompts /\ Head(queue) \in Range(queue)
           /\ pc[Head(queue)] = "queued"
<1>1. 1 \in 1..Len(queue) /\ Head(queue) = queue[1]
  BY DEF TypeTurns
<1> QED
  BY <1>1 DEF TypeTurns, QueueOwned, Range

\* `prompt_send` excludes: no step gives the wire to a second task.
LEMMA WireOwnedStep ==
    ASSUME TypeOK, Ownership, [Next]_vars PROVE WireOwned'
<1>a. /\ TypeTurns /\ TypeTasks /\ TypeAgent
      /\ WireOwned /\ ReparkOwned /\ QueueOwned /\ OutOwned
  BY DEF TypeOK, Ownership
<1>1. ASSUME NEW p \in Prompts,
             SendQueued(p) \/ SteerSend(p) \/ BeginChecked(p) \/ LogPrompt(p) \/
             LogFails(p) \/ SendPrompt(p) \/ SteerPush(p) \/ SteerEnqueue(p)
      PROVE  WireOwned'
  BY <1>1, <1>a, PromptsAssumption DEF SendQueued, SteerSend, BeginChecked,
     LogPrompt, LogFails, SendPrompt, SteerPush, SteerEnqueue, StampTurn, WireOwned,
     Holding, TypeTasks, turnVars, rtVars, taskVars, agentVars
<1>2. ASSUME NEW p \in Prompts,
             SteerNoteLimit(p) \/ SteerResolved(p) \/ KickWire(p) \/ SettleTurn(p) \/
             FailTurn(p) \/ ParkTurn(p) \/ RecordTurnEnd(p) \/ ClearRecording(p)
      PROVE  WireOwned'
  <2>1. CASE SteerNoteLimit(p) \/ SteerResolved(p) \/ KickWire(p)
    BY <2>1, <1>a, PromptsAssumption DEF SteerNoteLimit, SteerResolved, KickWire,
       WireOwned, Holding, TypeTasks, turnVars, rtVars, taskVars, agentVars
  <2>2. CASE SettleTurn(p) \/ FailTurn(p)
    BY <2>2, <1>a, PromptsAssumption DEF SettleTurn, FailTurn, FinishBegins,
       UnchangedByFinish, DropQueue, WireOwned, Holding, TypeTasks, turnVars, rtVars,
       taskVars, agentVars
  <2>3. CASE ParkTurn(p) \/ RecordTurnEnd(p) \/ ClearRecording(p)
    BY <2>3, <1>a, PromptsAssumption DEF ParkTurn, RecordTurnEnd, ClearRecording,
       FinishBegins, UnchangedByFinish, DropQueue, WireOwned, Holding, TypeTasks,
       turnVars, rtVars, taskVars, agentVars
  <2> QED
    BY <1>2, <2>1, <2>2, <2>3
<1>3. ASSUME NEW p \in Prompts,
             NoteLimit(p) \/ SpawnChained(p) \/ Repark(p) \/ ReserveResume(p) \/
             ClearParked(p) \/ ResumeBegin(p) \/ Answer(p)
      PROVE  WireOwned'
  BY <1>3, <1>a, PromptsAssumption DEF NoteLimit, SpawnChained, Repark,
     ReserveResume, ClearParked, ResumeBegin, Answer, StampTurn, Unstarted, WireOwned,
     Holding, TypeTasks, turnVars, rtVars, taskVars, agentVars
<1>4. ASSUME NEW p \in Prompts, Send(p) PROVE WireOwned'
  <2>1. PICK d \in {"try", "queue", "steer"} : pc' = [pc EXCEPT ![p] = d]
    BY <1>4, PoliciesAssumption DEF Send
  <2>2. wire' = wire
    BY <1>4 DEF Send, rtVars
  <2> QED
    BY <1>a, <2>1, <2>2 DEF WireOwned, Holding, TypeTasks
<1>5. ASSUME NEW r \in Perms,
             AskPermission(r) \/ QueueForPermit(r) \/ Permit(r) \/ PermitAnswered(r)
      PROVE  WireOwned'
  BY <1>5, <1>a, PromptsAssumption DEF AskPermission, QueueForPermit, Permit,
     PermitAnswered, WireOwned, Holding, TypeTasks, turnVars, rtVars, taskVars,
     agentVars
<1>6. CASE ParkedDue \/ PassOver \/ ClearStale \/ UnscheduleResume \/ Teardown \/
        HandedClose \/ OnDisconnect \/ SessionUpdate \/ CancelTurn
  BY <1>6, <1>a, PromptsAssumption DEF ParkedDue, PassOver, ClearStale, UnscheduleResume,
     Teardown, HandedClose, OnDisconnect, SessionUpdate, CancelTurn, CloseSub,
     DropQueue, WireOwned, Holding, TypeTasks, turnVars, rtVars, taskVars, agentVars
<1>7. CASE CancelSend \/ GateRises \/ GateExpires \/ AgentDies \/ CloseSession
        \/ Supersede \/ WatchScan \/ HandoffOne
  BY <1>7, <1>a, PromptsAssumption DEF CancelSend, GateRises, GateExpires, AgentDies,
     CloseSession, Supersede, WatchScan, HandoffOne, WireOwned, Holding, TypeTasks,
     turnVars, rtVars, taskVars, agentVars
<1>8. CASE HandoffReported
  BY <1>8, <1>a, PromptsAssumption DEF HandoffReported, WireOwned, Holding,
     TypeTasks, turnVars, rtVars, taskVars, agentVars
<1>9. CASE RecordPark
  BY <1>9, <1>a, PromptsAssumption DEF RecordPark, WireOwned, ReparkOwned, Holding,
     TypeTasks
<1>10. CASE UNCHANGED vars
  BY <1>10, <1>a DEF vars, turnVars, rtVars, taskVars, agentVars, WireOwned
<1> QED
  BY <1>1, <1>2, <1>3, <1>4, <1>5, <1>6, <1>7, <1>8, <1>9, <1>10 DEF Next, WireFree,
     WireTaking, Scheduler, Teardowns, Prompts

\* No task takes the wire from a repark between its two halves.
LEMMA ReparkOwnedStep ==
    ASSUME TypeOK, Ownership, [Next]_vars PROVE ReparkOwned'
<1>a. /\ TypeTurns /\ TypeTasks /\ TypeAgent
      /\ WireOwned /\ ReparkOwned /\ QueueOwned /\ OutOwned
  BY DEF TypeOK, Ownership
<1>1. ASSUME NEW p \in Prompts,
             Send(p) \/ SendQueued(p) \/ SteerSend(p) \/ BeginChecked(p) \/ LogPrompt(p)
             \/ SteerPush(p) \/ SteerNoteLimit(p) \/ SteerResolved(p) \/ KickWire(p) \/
             SettleTurn(p) \/ FailTurn(p) \/ ParkTurn(p) \/ RecordTurnEnd(p) \/
             NoteLimit(p) \/ ReserveResume(p) \/ ClearParked(p) \/ ResumeBegin(p)
      PROVE  ReparkOwned'
  <2> USE <1>a, PromptsAssumption DEF ReparkOwned, TypeTasks, turnVars, rtVars, taskVars,
     agentVars
  <2>1. CASE Send(p) \/ SendQueued(p) \/ SteerSend(p) \/ BeginChecked(p)
    BY <2>1 DEF Send, SendQueued, SteerSend, BeginChecked, StampTurn
  <2>2. CASE LogPrompt(p) \/ SteerPush(p) \/ SteerNoteLimit(p) \/ SteerResolved(p)
    <3>1. CASE LogPrompt(p) \/ SteerPush(p)
      BY <3>1 DEF LogPrompt, SteerPush
    <3>2. CASE SteerNoteLimit(p)
      BY <3>2 DEF SteerNoteLimit
    <3>3. CASE SteerResolved(p)
      BY <3>3 DEF SteerResolved
    <3> QED
      BY <2>2, <3>1, <3>2, <3>3
  <2>3. CASE KickWire(p) \/ SettleTurn(p) \/ FailTurn(p) \/ ParkTurn(p)
    BY <2>3 DEF KickWire, SettleTurn, FailTurn, ParkTurn, FinishBegins,
       UnchangedByFinish, DropQueue, Unstarted
  <2>4. CASE RecordTurnEnd(p) \/ NoteLimit(p) \/ ReserveResume(p)
    BY <2>4 DEF RecordTurnEnd, NoteLimit, ReserveResume
  <2>5. CASE ClearParked(p) \/ ResumeBegin(p)
    BY <2>5 DEF ClearParked, ResumeBegin, StampTurn
  <2> QED
    BY <1>1, <2>1, <2>2, <2>3, <2>4, <2>5
<1>2. ASSUME NEW p \in Prompts, LogFails(p) PROVE ReparkOwned'
  <2>1. wire = p /\ pc[p] \in Holding
    BY <1>2, <1>a DEF LogFails, WireOwned, Holding
  <2>2. reparked' = None
    BY <1>2, <1>a, <2>1 DEF LogFails, ReparkOwned, Holding
  <2> QED
    BY <2>2 DEF ReparkOwned
<1>3. ASSUME NEW p \in Prompts, SendPrompt(p) PROVE ReparkOwned'
  <2>1. wire = p /\ pc[p] \in Holding
    BY <1>3, <1>a DEF SendPrompt, WireOwned, Holding
  <2>2. reparked' = None
    BY <1>3, <1>a, <2>1 DEF SendPrompt, ReparkOwned, Holding
  <2> QED
    BY <2>2 DEF ReparkOwned
<1>4. ASSUME NEW p \in Prompts, SteerEnqueue(p) PROVE ReparkOwned'
  <2>1. wire = p /\ pc[p] \in Holding
    BY <1>4, <1>a DEF SteerEnqueue, WireOwned, Holding
  <2>2. reparked' = None
    BY <1>4, <1>a, <2>1 DEF SteerEnqueue, ReparkOwned, Holding
  <2> QED
    BY <2>2 DEF ReparkOwned
<1>5. ASSUME NEW p \in Prompts, ClearRecording(p) PROVE ReparkOwned'
  <2>1. wire = p /\ pc[p] \in Holding
    BY <1>5, <1>a DEF ClearRecording, WireOwned, Holding
  <2>2. reparked' = None
    BY <1>5, <1>a, <2>1 DEF ClearRecording, ReparkOwned, Holding
  <2> QED
    BY <2>2 DEF ReparkOwned
<1>6. ASSUME NEW p \in Prompts, SpawnChained(p) PROVE ReparkOwned'
  <2>1. wire = p /\ pc[p] \in Holding
    BY <1>6, <1>a DEF SpawnChained, WireOwned, Holding
  <2>2. reparked' = None
    BY <1>6, <1>a, <2>1 DEF SpawnChained, ReparkOwned, Holding
  <2> QED
    BY <2>2 DEF ReparkOwned
<1>7. ASSUME NEW p \in Prompts, Repark(p) PROVE ReparkOwned'
  <2>1. wire' = p /\ pc'[p] = "queued"
    BY <1>7, <1>a DEF Repark, WireOwned, Holding, rtVars, TypeTasks
  <2> QED
    BY <2>1 DEF ReparkOwned
<1>8. ASSUME NEW p \in Prompts, Answer(p) PROVE ReparkOwned'
  <2>1. pc[p] \in {"inturn", "steering"}
    BY <1>8, <1>a DEF Answer, OutOwned
  <2>2. PICK x \in PCs : pc' = [pc EXCEPT ![p] = x]
    BY <1>8 DEF Answer, PCs
  <2>3. UNCHANGED <<reparked, wire>>
    BY <1>8 DEF Answer, rtVars
  <2> QED
    BY <1>a, <2>1, <2>2, <2>3 DEF ReparkOwned, TypeTasks
<1>9. ASSUME NEW r \in Perms,
             AskPermission(r) \/ QueueForPermit(r) \/ Permit(r) \/ PermitAnswered(r)
      PROVE  ReparkOwned'
  BY <1>9, <1>a, PromptsAssumption DEF AskPermission, QueueForPermit, Permit,
     PermitAnswered, ReparkOwned, TypeTasks, turnVars, rtVars, taskVars, agentVars
<1>10. CASE RecordPark \/ ParkedDue \/ PassOver \/ ClearStale \/ UnscheduleResume \/
        Teardown \/ HandedClose \/ OnDisconnect \/ SessionUpdate \/ CancelTurn \/
        CancelSend \/ GateRises \/ GateExpires \/ AgentDies \/ CloseSession \/ Supersede
        \/ WatchScan \/ HandoffOne \/ HandoffReported
  BY <1>10, <1>a, PromptsAssumption DEF RecordPark, ParkedDue, PassOver, ClearStale,
     UnscheduleResume, Teardown, HandedClose, OnDisconnect, SessionUpdate, CancelTurn,
     CancelSend, GateRises, GateExpires, AgentDies, CloseSession, Supersede, WatchScan,
     HandoffOne, HandoffReported, CloseSub, DropQueue, ReparkOwned, TypeTasks, turnVars,
     rtVars, taskVars, agentVars
<1>11. CASE UNCHANGED vars
  BY <1>11, <1>a DEF vars, turnVars, rtVars, taskVars, agentVars, ReparkOwned
<1> QED
  BY <1>1, <1>2, <1>3, <1>4, <1>5, <1>6, <1>7, <1>8, <1>9, <1>10, <1>11 DEF Next,
     WireFree, WireTaking, Scheduler, Teardowns, Prompts

\* No step loses track of where a queued prompt is.
LEMMA QueueOwnedStep ==
    ASSUME TypeOK, Ownership, [Next]_vars PROVE QueueOwned'
<1>a. /\ TypeTurns /\ TypeTasks /\ TypeAgent
      /\ WireOwned /\ ReparkOwned /\ QueueOwned /\ OutOwned
  BY DEF TypeOK, Ownership
<1>1. ASSUME NEW p \in Prompts,
             Send(p) \/ LogPrompt(p) \/ LogFails(p) \/ SendPrompt(p) \/ SteerPush(p) \/
             SteerEnqueue(p) \/ SteerNoteLimit(p) \/ KickWire(p)
      PROVE  QueueOwned'
  <2>1. \A q \in Prompts : pc[q] = "queued" => pc'[q] = "queued"
    BY <1>1, <1>a DEF Send, LogPrompt, LogFails, SendPrompt, SteerPush, SteerEnqueue,
       SteerNoteLimit, KickWire, taskVars, TypeTasks
  <2>2. queue' = queue
    BY <1>1 DEF Send, LogPrompt, LogFails, SendPrompt, SteerPush, SteerEnqueue,
       SteerNoteLimit, KickWire, turnVars
  <2> QED
    BY <1>a, <2>1, <2>2, QueueKept
<1>2. ASSUME NEW p \in Prompts,
             ParkTurn(p) \/ RecordTurnEnd(p) \/ NoteLimit(p) \/ ClearParked(p)
      PROVE  QueueOwned'
  <2>1. \A q \in Prompts : pc[q] = "queued" => pc'[q] = "queued"
    BY <1>2, <1>a DEF ParkTurn, RecordTurnEnd, NoteLimit, ClearParked, FinishBegins,
       taskVars, TypeTasks
  <2>2. queue' = queue
    BY <1>2 DEF ParkTurn, RecordTurnEnd, NoteLimit, ClearParked, FinishBegins,
       UnchangedByFinish, turnVars
  <2> QED
    BY <1>a, <2>1, <2>2, QueueKept
<1>3. ASSUME NEW p \in Prompts, SendQueued(p) PROVE QueueOwned'
  <2>1. CASE queue' = queue /\ \E x : pc' = [pc EXCEPT ![p] = x]
    <3>1. pc[p] # "queued"
      BY <1>3 DEF SendQueued
    <3> QED
      BY <1>a, <2>1, <3>1, QueueKept DEF TypeTasks
  <2>2. CASE queue' = Append(queue, p) /\ pc' = [pc EXCEPT ![p] = "queued"]
    <3>1. pc[p] # "queued"
      BY <1>3 DEF SendQueued
    <3>2. /\ Len(queue) \in Nat /\ Len(queue') = Len(queue) + 1
          /\ \A i \in 1..Len(queue') : queue'[i] = IF i \in 1..Len(queue) THEN queue[i] ELSE p
      BY <1>a, <2>2 DEF TypeTurns
    <3>3. \A i \in 1..Len(queue) : queue[i] \in Prompts /\ queue[i] # p /\ pc[queue[i]] = "queued"
      BY <1>a, <3>1 DEF QueueOwned, TypeTurns
    <3>4. \A i \in 1..Len(queue') : pc'[queue'[i]] = "queued"
      BY <1>a, <2>2, <3>2, <3>3 DEF TypeTasks
    <3>5. Once(queue')
      BY <1>a, <3>2, <3>3 DEF QueueOwned, Once
    <3> QED
      BY <3>4, <3>5 DEF QueueOwned
  <2> QED
    BY <1>3, <2>1, <2>2 DEF SendQueued
<1>4. ASSUME NEW p \in Prompts, SteerSend(p) PROVE QueueOwned'
  <2>1. PICK x : pc' = [pc EXCEPT ![p] = x]
    BY <1>4 DEF SteerSend
  <2>2. pc[p] # "queued" /\ queue' = queue
    BY <1>4 DEF SteerSend, turnVars
  <2> QED
    BY <1>a, <2>1, <2>2, QueueKept DEF TypeTasks
<1>5. ASSUME NEW p \in Prompts, BeginChecked(p) PROVE QueueOwned'
  <2>1. PICK x : pc' = pc \/ pc' = [pc EXCEPT ![p] = x]
    BY <1>5 DEF BeginChecked, StampTurn
  <2>2. pc[p] # "queued" /\ queue' = queue
    BY <1>5 DEF BeginChecked, turnVars
  <2> QED
    BY <1>a, <2>1, <2>2, QueueKept DEF TypeTasks
<1>6. ASSUME NEW p \in Prompts, SteerResolved(p) PROVE QueueOwned'
  <2>1. pc[p] = "steer_resolve"
    BY <1>6 DEF SteerResolved
  <2>2. CASE queue' = queue /\ \E x : pc' = [pc EXCEPT ![p] = x]
    BY <1>a, <2>1, <2>2, QueueKept DEF TypeTasks
  <2>3. CASE /\ queue # << >> /\ queue' = Tail(queue)
             /\ \E x : pc' = [pc EXCEPT ![p] = x, ![Head(queue)] = "kicked"]
    <3>1. \A q \in Prompts : pc[q] = "queued" /\ q # Head(queue) => pc'[q] = "queued"
      BY <1>a, <2>1, <2>3 DEF TypeTasks
    <3> QED
      BY <1>a, <2>3, <3>1, QueuePopped
  <2> QED
    BY <1>6, <2>2, <2>3 DEF SteerResolved
<1>7. ASSUME NEW p \in Prompts, SettleTurn(p) PROVE QueueOwned'
  <2>1. pc[p] = "ended"
    BY <1>7 DEF SettleTurn, FinishBegins
  <2>2. \/ queue' = << >>
        \/ queue' = queue /\ pc' = [pc EXCEPT ![p] = "recording"]
        \/ /\ queue # << >> /\ queue' = Tail(queue)
           /\ pc' = [pc EXCEPT ![p] = "recording", ![Head(queue)] = "popped"]
    BY <1>7 DEF SettleTurn, ChainReady
  <2>3. CASE queue' = queue /\ pc' = [pc EXCEPT ![p] = "recording"]
    BY <1>a, <2>1, <2>3, QueueKept DEF TypeTasks
  <2>4. CASE /\ queue # << >> /\ queue' = Tail(queue)
             /\ pc' = [pc EXCEPT ![p] = "recording", ![Head(queue)] = "popped"]
    <3>1. \A q \in Prompts : pc[q] = "queued" /\ q # Head(queue) => pc'[q] = "queued"
      BY <1>a, <2>1, <2>4 DEF TypeTasks
    <3> QED
      BY <1>a, <2>4, <3>1, QueuePopped
  <2> QED
    BY <2>2, <2>3, <2>4, QueueEmptied
<1>8. ASSUME NEW p \in Prompts, FailTurn(p) PROVE QueueOwned'
  <2>1. queue' = << >>
    BY <1>8 DEF FailTurn
  <2> QED
    BY <2>1, QueueEmptied
<1>9. ASSUME NEW p \in Prompts, ClearRecording(p) PROVE QueueOwned'
  <2>1. \A q \in Prompts : pc[q] = "queued" => pc'[q] = "queued"
    BY <1>9, <1>a DEF ClearRecording, TypeTasks
  <2>2. queue' = queue
    BY <1>9 DEF ClearRecording
  <2> QED
    BY <1>a, <2>1, <2>2, QueueKept
<1>10. ASSUME NEW p \in Prompts, SpawnChained(p) PROVE QueueOwned'
  <2>1. PICK x : pc' = [pc EXCEPT ![p] = x]
    BY <1>10 DEF SpawnChained, StampTurn
  <2>2. pc[p] # "queued" /\ queue' = queue
    BY <1>10 DEF SpawnChained, turnVars
  <2> QED
    BY <1>a, <2>1, <2>2, QueueKept DEF TypeTasks
<1>11. ASSUME NEW p \in Prompts, Repark(p) PROVE QueueOwned'
  <2>1. queue' = <<p>> \o queue /\ pc' = [pc EXCEPT ![p] = "queued"] /\ pc[p] # "queued"
    BY <1>11 DEF Repark, Requeued
  <2>2. /\ Len(queue') = Len(queue) + 1 /\ Len(queue) \in Nat
        /\ \A i \in 1..Len(queue') : queue'[i] = IF i = 1 THEN p ELSE queue[i - 1]
    BY <1>a, <2>1 DEF TypeTurns
  <2>3. \A i \in 1..Len(queue) : queue[i] \in Prompts /\ queue[i] # p /\ pc[queue[i]] = "queued"
    BY <1>a, <2>1 DEF QueueOwned, TypeTurns
  <2>4. \A i \in 1..Len(queue') : i # 1 => i - 1 \in 1..Len(queue)
    BY <2>2
  <2>5. \A i \in 1..Len(queue') : pc'[queue'[i]] = "queued"
    BY <1>a, <2>1, <2>2, <2>3, <2>4 DEF TypeTasks
  <2>6. Once(queue')
    BY <1>a, <2>2, <2>3, <2>4 DEF QueueOwned, Once
  <2> QED
    BY <2>5, <2>6 DEF QueueOwned
<1>12. ASSUME NEW p \in Prompts, ReserveResume(p) PROVE QueueOwned'
  <2>1. pc' = [pc EXCEPT ![p] = "reserved"]
    BY <1>12 DEF ReserveResume
  <2>2. CASE queue' = queue /\ pc[p] = "new"
    BY <1>a, <2>1, <2>2, QueueKept DEF TypeTasks
  <2>3. CASE queue # << >> /\ p = Head(queue) /\ queue' = Tail(queue)
    BY <1>a, <2>1, <2>3, QueuePopped DEF TypeTasks
  <2> QED
    BY <1>12, <2>2, <2>3 DEF ReserveResume
<1>13. ASSUME NEW p \in Prompts, ResumeBegin(p) PROVE QueueOwned'
  <2>1. PICK x : pc' = [pc EXCEPT ![p] = x]
    BY <1>13 DEF ResumeBegin, StampTurn
  <2>2. pc[p] # "queued" /\ queue' = queue
    BY <1>13 DEF ResumeBegin, turnVars
  <2> QED
    BY <1>a, <2>1, <2>2, QueueKept DEF TypeTasks
<1>14. ASSUME NEW p \in Prompts, Answer(p) PROVE QueueOwned'
  <2>1. PICK x : pc' = [pc EXCEPT ![p] = x]
    BY <1>14 DEF Answer
  <2>2. pc[p] # "queued" /\ queue' = queue
    BY <1>14, <1>a DEF Answer, turnVars, OutOwned
  <2> QED
    BY <1>a, <2>1, <2>2, QueueKept DEF TypeTasks
<1>15. ASSUME NEW r \in Perms,
             AskPermission(r) \/ QueueForPermit(r) \/ Permit(r) \/ PermitAnswered(r)
      PROVE  QueueOwned'
  <2>1. \A q \in Prompts : pc[q] = "queued" => pc'[q] = "queued"
    BY <1>15, <1>a DEF AskPermission, QueueForPermit, Permit, PermitAnswered,
       taskVars, TypeTasks
  <2>2. queue' = queue
    BY <1>15 DEF AskPermission, QueueForPermit, Permit, PermitAnswered, turnVars
  <2> QED
    BY <1>a, <2>1, <2>2, QueueKept
<1>16. CASE RecordPark \/ ParkedDue \/ PassOver \/ ClearStale \/ UnscheduleResume \/
        SessionUpdate \/ CancelSend \/ GateRises \/ GateExpires
  <2>1. \A q \in Prompts : pc[q] = "queued" => pc'[q] = "queued"
    BY <1>16, <1>a DEF RecordPark, ParkedDue, PassOver, ClearStale, UnscheduleResume,
       SessionUpdate, CancelSend, GateRises, GateExpires, taskVars, TypeTasks
  <2>2. queue' = queue
    BY <1>16 DEF RecordPark, ParkedDue, PassOver, ClearStale, UnscheduleResume, SessionUpdate,
       CancelSend, GateRises, GateExpires, turnVars
  <2> QED
    BY <1>a, <2>1, <2>2, QueueKept
<1>17. CASE AgentDies \/ CloseSession \/ Supersede \/ WatchScan \/ HandoffOne \/
        HandoffReported
  <2>1. \A q \in Prompts : pc[q] = "queued" => pc'[q] = "queued"
    BY <1>17, <1>a DEF AgentDies, CloseSession, Supersede, WatchScan, HandoffOne,
       HandoffReported, taskVars, TypeTasks
  <2>2. queue' = queue
    BY <1>17 DEF AgentDies, CloseSession, Supersede, WatchScan, HandoffOne,
       HandoffReported, turnVars
  <2> QED
    BY <1>a, <2>1, <2>2, QueueKept
<1>18. CASE Teardown
  <2>1. queue' = << >>
    BY <1>18 DEF Teardown, CloseSub
  <2> QED
    BY <2>1, QueueEmptied
<1>19. CASE HandedClose
  <2>1. queue' = << >>
    BY <1>19 DEF HandedClose, CloseSub
  <2> QED
    BY <2>1, QueueEmptied
<1>20. CASE OnDisconnect
  <2>1. queue' = << >> \/ UNCHANGED <<queue, pc>>
    BY <1>20 DEF OnDisconnect
  <2> QED
    BY <1>a, <2>1, QueueEmptied, QueueKept
<1>21. CASE CancelTurn
  <2>1. queue' = << >>
    BY <1>21 DEF CancelTurn
  <2> QED
    BY <2>1, QueueEmptied
<1>22. CASE UNCHANGED vars
  BY <1>22, <1>a DEF vars, turnVars, rtVars, taskVars, agentVars, QueueOwned
<1> QED
  BY <1>1, <1>2, <1>3, <1>4, <1>5, <1>6, <1>7, <1>8, <1>9, <1>10, <1>11, <1>12,
     <1>13, <1>14, <1>15, <1>16, <1>17, <1>18, <1>19, <1>20, <1>21, <1>22 DEF Next,
     WireFree, WireTaking, Scheduler, Teardowns, Prompts

\* No drop, pop or teardown moves a prompt the agent is working on.
LEMMA OutOwnedStep ==
    ASSUME TypeOK, Ownership, [Next]_vars PROVE OutOwned'
<1>a. /\ TypeTurns /\ TypeTasks /\ TypeAgent
      /\ WireOwned /\ ReparkOwned /\ QueueOwned /\ OutOwned
  BY DEF TypeOK, Ownership
<1>1. ASSUME NEW p \in Prompts,
             Send(p) \/ LogPrompt(p) \/ LogFails(p) \/ SteerPush(p) \/ SteerNoteLimit(p)
             \/ KickWire(p) \/ ParkTurn(p) \/ RecordTurnEnd(p) \/ NoteLimit(p) \/
             Repark(p) \/ ClearParked(p)
      PROVE  OutOwned'
  <2>1. \A q \in Prompts : pc[q] \in {"inturn", "steering"} => pc'[q] = pc[q]
    BY <1>1, <1>a DEF Send, LogPrompt, LogFails, SteerPush, SteerNoteLimit, KickWire,
       ParkTurn, RecordTurnEnd, NoteLimit, Repark, ClearParked, FinishBegins,
       UnchangedByFinish, taskVars, TypeTasks
  <2>2. out' = out
    BY <1>1 DEF Send, LogPrompt, LogFails, SteerPush, SteerNoteLimit, KickWire,
       ParkTurn, RecordTurnEnd, NoteLimit, Repark, ClearParked, FinishBegins,
       UnchangedByFinish, agentVars
  <2> QED
    BY <1>a, <2>1, <2>2 DEF OutOwned, TypeAgent
<1>2. ASSUME NEW p \in Prompts, SendQueued(p) PROVE OutOwned'
  <2>1. PICK x : pc' = pc \/ pc' = [pc EXCEPT ![p] = x]
    BY <1>2 DEF SendQueued
  <2>2. pc[p] \notin {"inturn", "steering"} /\ out' = out
    BY <1>2 DEF SendQueued, agentVars
  <2> QED
    BY <1>a, <2>1, <2>2 DEF OutOwned, TypeTasks, TypeAgent
<1>3. ASSUME NEW p \in Prompts, SteerSend(p) PROVE OutOwned'
  <2>1. PICK x : pc' = pc \/ pc' = [pc EXCEPT ![p] = x]
    BY <1>3 DEF SteerSend
  <2>2. pc[p] \notin {"inturn", "steering"} /\ out' = out
    BY <1>3 DEF SteerSend, agentVars
  <2> QED
    BY <1>a, <2>1, <2>2 DEF OutOwned, TypeTasks, TypeAgent
<1>4. ASSUME NEW p \in Prompts, BeginChecked(p) PROVE OutOwned'
  <2>1. PICK x : pc' = pc \/ pc' = [pc EXCEPT ![p] = x]
    BY <1>4 DEF BeginChecked, StampTurn
  <2>2. pc[p] \notin {"inturn", "steering"} /\ out' = out
    BY <1>4 DEF BeginChecked, agentVars
  <2> QED
    BY <1>a, <2>1, <2>2 DEF OutOwned, TypeTasks, TypeAgent
<1>5. ASSUME NEW p \in Prompts, SendPrompt(p) PROVE OutOwned'
  BY <1>5, <1>a DEF SendPrompt, OutOwned, TypeTasks, TypeAgent
<1>6. ASSUME NEW p \in Prompts, SteerEnqueue(p) PROVE OutOwned'
  BY <1>6, <1>a DEF SteerEnqueue, OutOwned, TypeTasks, TypeAgent
<1>7. ASSUME NEW p \in Prompts, SteerResolved(p) PROVE OutOwned'
  <2>1. pc[p] = "steer_resolve" /\ out' = out
    BY <1>7 DEF SteerResolved, agentVars
  <2>2. \A q \in Prompts : q \notin Range(queue) \cup {p} => pc'[q] = pc[q]
    BY <1>7, <1>a, HeadQueued DEF SteerResolved, ChainReady, DropQueue, TypeTasks
  <2>3. \A q \in Range(queue) : pc[q] = "queued"
    BY <1>a, RangeQueued
  <2> QED
    BY <1>a, <2>1, <2>2, <2>3 DEF OutOwned, TypeAgent
<1>8. ASSUME NEW p \in Prompts, SettleTurn(p) PROVE OutOwned'
  <2>1. pc[p] = "ended" /\ out' = out
    BY <1>8 DEF SettleTurn, FinishBegins, UnchangedByFinish, agentVars
  <2>2. \A q \in Prompts : q \notin Range(queue) \cup {p} => pc'[q] = pc[q]
    BY <1>8, <1>a, HeadQueued DEF SettleTurn, ChainReady, DropQueue, TypeTasks
  <2>3. \A q \in Range(queue) : pc[q] = "queued"
    BY <1>a, RangeQueued
  <2> QED
    BY <1>a, <2>1, <2>2, <2>3 DEF OutOwned, TypeAgent
<1>9. ASSUME NEW p \in Prompts, FailTurn(p) PROVE OutOwned'
  <2>1. pc[p] = "ended" /\ out' = out
    BY <1>9 DEF FailTurn, FinishBegins, UnchangedByFinish, agentVars
  <2>2. \A q \in Prompts : q \notin Range(queue) \cup {p} => pc'[q] = pc[q]
    BY <1>9, <1>a, HeadQueued DEF FailTurn, ChainReady, DropQueue, TypeTasks
  <2>3. \A q \in Range(queue) : pc[q] = "queued"
    BY <1>a, RangeQueued
  <2> QED
    BY <1>a, <2>1, <2>2, <2>3 DEF OutOwned, TypeAgent
<1>10. ASSUME NEW p \in Prompts, ClearRecording(p) PROVE OutOwned'
  <2>1. \A q \in Prompts : pc[q] \notin {"clearing", "popped"} => pc'[q] = pc[q]
    BY <1>10, <1>a DEF ClearRecording, TypeTasks
  <2>2. out' = out
    BY <1>10 DEF ClearRecording, agentVars
  <2> QED
    BY <1>a, <2>1, <2>2 DEF OutOwned, TypeAgent
<1>11. ASSUME NEW p \in Prompts, SpawnChained(p) PROVE OutOwned'
  <2>1. PICK x : pc' = pc \/ pc' = [pc EXCEPT ![p] = x]
    BY <1>11 DEF SpawnChained, StampTurn
  <2>2. pc[p] \notin {"inturn", "steering"} /\ out' = out
    BY <1>11 DEF SpawnChained, agentVars
  <2> QED
    BY <1>a, <2>1, <2>2 DEF OutOwned, TypeTasks, TypeAgent
<1>12. ASSUME NEW p \in Prompts, ReserveResume(p) PROVE OutOwned'
  <2>1. pc' = [pc EXCEPT ![p] = "reserved"] /\ out' = out
    BY <1>12 DEF ReserveResume, agentVars
  <2>2. pc[p] = "new" \/ (queue # << >> /\ p = Head(queue))
    BY <1>12 DEF ReserveResume
  <2>3. pc[p] \in {"new", "queued"}
    BY <1>a, <2>2, HeadQueued
  <2> QED
    BY <1>a, <2>1, <2>3 DEF OutOwned, TypeTasks, TypeAgent
<1>13. ASSUME NEW p \in Prompts, ResumeBegin(p) PROVE OutOwned'
  <2>1. PICK x : pc' = pc \/ pc' = [pc EXCEPT ![p] = x]
    BY <1>13 DEF ResumeBegin, StampTurn
  <2>2. pc[p] \notin {"inturn", "steering"} /\ out' = out
    BY <1>13 DEF ResumeBegin, agentVars
  <2> QED
    BY <1>a, <2>1, <2>2 DEF OutOwned, TypeTasks, TypeAgent
<1>14. ASSUME NEW p \in Prompts, Answer(p) PROVE OutOwned'
  BY <1>14, <1>a DEF Answer, OutOwned, TypeTasks, TypeAgent
<1>15. ASSUME NEW r \in Perms,
             AskPermission(r) \/ QueueForPermit(r) \/ Permit(r) \/ PermitAnswered(r)
      PROVE  OutOwned'
  <2>1. \A q \in Prompts : pc[q] \in {"inturn", "steering"} => pc'[q] = pc[q]
    BY <1>15, <1>a DEF AskPermission, QueueForPermit, Permit, PermitAnswered,
       taskVars, TypeTasks
  <2>2. out' = out
    BY <1>15 DEF AskPermission, QueueForPermit, Permit, PermitAnswered, agentVars
  <2> QED
    BY <1>a, <2>1, <2>2 DEF OutOwned, TypeAgent
<1>16. CASE RecordPark \/ ParkedDue \/ PassOver \/ ClearStale \/ UnscheduleResume \/
        SessionUpdate \/ CancelSend \/ GateRises \/ GateExpires \/ AgentDies \/
        CloseSession \/ Supersede \/ WatchScan \/ HandoffOne \/ HandoffReported
  <2>1. \A q \in Prompts : pc[q] \in {"inturn", "steering"} => pc'[q] = pc[q]
    BY <1>16, <1>a DEF RecordPark, ParkedDue, PassOver, ClearStale, UnscheduleResume,
       SessionUpdate, CancelSend, GateRises, GateExpires, AgentDies, CloseSession,
       Supersede, WatchScan, HandoffOne, HandoffReported, taskVars, TypeTasks
  <2>2. out' = out
    BY <1>16 DEF RecordPark, ParkedDue, PassOver, ClearStale, UnscheduleResume, SessionUpdate,
       CancelSend, GateRises, GateExpires, AgentDies, CloseSession, Supersede,
       WatchScan, HandoffOne, HandoffReported, agentVars
  <2> QED
    BY <1>a, <2>1, <2>2 DEF OutOwned, TypeAgent
<1>17. CASE Teardown
  <2>1. out' = out /\ (pc' = pc \/ pc' = DropQueue(pc))
    BY <1>17 DEF Teardown, CloseSub, agentVars
  <2>2. \A q \in Range(queue) : pc[q] = "queued"
    BY <1>a, RangeQueued
  <2> QED
    BY <1>a, <2>1, <2>2 DEF OutOwned, DropQueue, TypeAgent
<1>18. CASE HandedClose
  <2>1. out' = out /\ (pc' = pc \/ pc' = DropQueue(pc))
    BY <1>18 DEF HandedClose, CloseSub, agentVars
  <2>2. \A q \in Range(queue) : pc[q] = "queued"
    BY <1>a, RangeQueued
  <2> QED
    BY <1>a, <2>1, <2>2 DEF OutOwned, DropQueue, TypeAgent
<1>19. CASE OnDisconnect
  <2>1. out' = out /\ (pc' = pc \/ pc' = DropQueue(pc))
    BY <1>19 DEF OnDisconnect, agentVars
  <2>2. \A q \in Range(queue) : pc[q] = "queued"
    BY <1>a, RangeQueued
  <2> QED
    BY <1>a, <2>1, <2>2 DEF OutOwned, DropQueue, TypeAgent
<1>20. CASE CancelTurn
  <2>1. out' = out /\ (pc' = pc \/ pc' = DropQueue(pc))
    BY <1>20 DEF CancelTurn, agentVars
  <2>2. \A q \in Range(queue) : pc[q] = "queued"
    BY <1>a, RangeQueued
  <2> QED
    BY <1>a, <2>1, <2>2 DEF OutOwned, DropQueue, TypeAgent
<1>21. CASE UNCHANGED vars
  BY <1>21, <1>a DEF vars, turnVars, rtVars, taskVars, agentVars, OutOwned
<1> QED
  BY <1>1, <1>2, <1>3, <1>4, <1>5, <1>6, <1>7, <1>8, <1>9, <1>10, <1>11, <1>12,
     <1>13, <1>14, <1>15, <1>16, <1>17, <1>18, <1>19, <1>20, <1>21 DEF Next, WireFree,
     WireTaking, Scheduler, Teardowns, Prompts

=============================================================================
