---------------------------- MODULE WaitsProofs ----------------------------
(* Theorems about the waits and the watchdog: they drive the session only  *)
(* through the session's own steps; a wait that its turn's end lets go     *)
(* finds that end in the registry; without steers a wait always finds the  *)
(* start that its budget runs from, and it tells the end of its own turn.  *)
EXTENDS Waits, SessionSlot

-----------------------------------------------------------------------------
(* The session underneath                                                  *)

\* A step of Waits is a step of Session, or leaves the session alone.
LEMMA SessionStepOrNone ==
    [WaitNext]_allVars => [Next]_vars
<1> SUFFICES ASSUME [WaitNext]_allVars PROVE [Next]_vars
  OBVIOUS
<1>1. CASE SessionStep
  BY <1>1 DEF SessionStep
<1>2. ASSUME NEW w \in Waiters, Wait(w) \/ WaitTask(w) \/ TimesOut(w) \/ CallerGone(w)
      PROVE  UNCHANGED vars
  BY <1>2 DEF WaitTask, Wait, Attach, HostBind, WaitForTurn, AnswerWait, TimesOut, CallerGone
<1>3. CASE WatchdogPass \/ GracePasses
  BY <1>3 DEF WatchdogPass, GracePasses
<1>4. CASE WatchdogCloses
  BY <1>4 DEF WatchdogCloses, Next
<1>5. CASE UNCHANGED allVars
  BY <1>5 DEF allVars
<1> QED
  BY <1>1, <1>2, <1>3, <1>4, <1>5 DEF WaitNext, Watchdog

\* Waits, hosts and the watchdog add nothing to what the session does: every
\* behaviour with them is a behaviour of Session, whose theorems hold of it.
THEOREM WaitsImplementSession == WaitSpec => Spec
<1>1. WaitInit => Init
  BY DEF WaitInit
<1> QED
  BY <1>1, SessionStepOrNone, PTL DEF WaitSpec, Spec

-----------------------------------------------------------------------------
(* Types                                                                   *)

\* Whatever turn a wait binds to, or reports, is numbered.
LEMMA TurnNumbers ==
    ASSUME TypeOK, WaitTypes
    PROVE  NextTurn \in Nat /\ AwaitedTurn \in Nat /\ LatestTurn \in Nat /\ WatchedTurn \in Nat
<1> USE DEF TypeOK, TypeTurns, TypeSteers, WaitTypes
<1>1. NextTurn \in Nat /\ current.n \in Nat
  BY OffsetAssumption DEF NextTurn, Turn
<1>2. steerPending # << >> => Last(steerPending) \in Prompts
  BY DEF Last
<1>3. turns # << >> => Last(turns).n \in Nat
  <2>1. turns # << >> => turns[Len(turns)] \in Settled
    OBVIOUS
  <2> QED
    BY <2>1 DEF Last, Settled
<1>4. AwaitedTurn \in Nat
  BY <1>1, <1>2 DEF AwaitedTurn
<1> QED
  BY <1>1, <1>3, <1>4 DEF LatestTurn, WatchedTurn

\* What a wait or a host's prompt does keeps the types.
LEMMA WaiterTypes ==
    ASSUME TypeOK, WaitTypes, NEW w \in Waiters,
           Wait(w) \/ WaitTask(w) \/ TimesOut(w) \/ CallerGone(w)
    PROVE  WaitTypes'
<1> USE DEF WaitTypes, dogVars, WaitStages, Ends
<1>1. CASE Wait(w)
  <2>1. UNCHANGED <<answer, asleep, target, dog, dogWoken, clock, ripe, restarted>>
    BY <1>1 DEF Wait
  <2>2. wpc' \in [Waiters -> WaitStages]
    BY <1>1 DEF Wait
  <2>3. bound' \in [Waiters -> Nat] /\ told' \in [Waiters -> Ends]
    BY <1>1, TurnNumbers DEF Wait
  <2> QED
    BY <2>1, <2>2, <2>3
<1>2. CASE Attach(w)
  BY <1>2 DEF Attach
<1>3. CASE HostBind(w)
  <2>1. UNCHANGED <<answer, target, dog, clock, ripe, restarted>>
    BY <1>3 DEF HostBind
  <2>2. wpc' \in [Waiters -> WaitStages]
    BY <1>3 DEF HostBind, Detached
  <2>3. bound' \in [Waiters -> Nat] /\ told' \in [Waiters -> Ends]
    BY <1>3, TurnNumbers DEF HostBind
  <2>4. asleep' \in [Waiters -> BOOLEAN] /\ dogWoken' \in BOOLEAN
    BY <1>3 DEF HostBind, Detached
  <2> QED
    BY <2>1, <2>2, <2>3, <2>4
<1>4. CASE WaitForTurn(w)
  <2>1. UNCHANGED <<bound, answer, target, dog, clock, ripe, restarted>>
    BY <1>4 DEF WaitForTurn
  <2>2. wpc' \in [Waiters -> WaitStages]
    BY <1>4 DEF WaitForTurn, Detached
  <2>3. told' \in [Waiters -> Ends]
    BY <1>4 DEF WaitForTurn
  <2>4. asleep' \in [Waiters -> BOOLEAN] /\ dogWoken' \in BOOLEAN
    BY <1>4 DEF WaitForTurn, Detached
  <2> QED
    BY <2>1, <2>2, <2>3, <2>4
<1>5. CASE AnswerWait(w)
  <2>1. View(w) \in [turn : Nat, state : Statuses \cup {"none"}]
    <3>1. status \in Statuses /\ "rate_limited" \in Statuses
      BY DEF TypeOK, TypeTurns, Statuses
    <3>2. OwnEnd(bound[w]) \in {"done", "cancelled", "none"}
      BY DEF OwnEnd
    <3> QED
      BY <3>1, <3>2, TurnNumbers DEF View, Statuses
  <2> QED
    BY <1>5, <2>1 DEF AnswerWait, Detached
<1>6. CASE TimesOut(w) \/ CallerGone(w)
  BY <1>6 DEF TimesOut, CallerGone, Detached
<1> QED
  BY <1>1, <1>2, <1>3, <1>4, <1>5, <1>6 DEF WaitTask

\* Every step keeps the types of what waits and watches.
LEMMA WaitTypeStep ==
    ASSUME TypeOK, WaitTypes, [WaitNext]_allVars PROVE WaitTypes'
<1>1. CASE SessionStep
  <2>1. current.n \in Nat /\ NextTurn \in Nat
    BY TurnNumbers DEF TypeOK, TypeTurns, Turn
  <2> QED
    BY <1>1, <2>1 DEF SessionStep, WaitTypes, WaitStages
<1>2. ASSUME NEW w \in Waiters, Wait(w) \/ WaitTask(w) \/ TimesOut(w) \/ CallerGone(w)
      PROVE  WaitTypes'
  BY <1>2, WaiterTypes
<1>3. CASE WatchdogPass
  <2>1. UNCHANGED <<wpc, bound, told, answer, asleep, target>> /\ dogWoken' = FALSE
    BY <1>3 DEF WatchdogPass, waitVars
  <2>2. dog' \in {"watching", "closing", "gone"} /\ clock' \in Nat
    BY <1>3, TurnNumbers DEF WatchdogPass, WaitTypes
  <2>3. ripe' \in BOOLEAN
    BY <1>3 DEF WatchdogPass, WaitTypes
  <2>4. restarted' \in BOOLEAN
    BY <1>3 DEF WatchdogPass, WaitTypes
  <2> QED
    BY <2>1, <2>2, <2>3, <2>4 DEF WaitTypes
<1>4. CASE GracePasses \/ WatchdogCloses
  BY <1>4 DEF GracePasses, WatchdogCloses, WaitTypes, waitVars
<1>5. CASE UNCHANGED allVars
  BY <1>5 DEF allVars, waitVars, dogVars, WaitTypes
<1> QED
  BY <1>1, <1>2, <1>3, <1>4, <1>5 DEF WaitNext, Watchdog

\* What this module adds keeps its type, whatever the session does.
LEMMA WaitTypesKept == WaitSpec => []WaitTypes
<1>1. WaitInit => WaitTypes
  <2> SUFFICES ASSUME WaitInit PROVE WaitTypes
    OBVIOUS
  <2>1. NoAnswer \in [turn : Nat, state : Statuses \cup {"none"}]
    BY DEF NoAnswer
  <2>2. answer \in [Waiters -> [turn : Nat, state : Statuses \cup {"none"}]]
    BY <2>1 DEF WaitInit
  <2>3. wpc \in [Waiters -> WaitStages] /\ told \in [Waiters -> Ends]
    BY DEF WaitInit, WaitStages, Ends
  <2> QED
    BY <2>2, <2>3 DEF WaitInit, WaitTypes
<1>2. TypeOK /\ WaitTypes /\ [WaitNext]_allVars => WaitTypes'
  BY WaitTypeStep
<1> QED
  BY <1>1, <1>2, WaitsImplementSession, TypeCorrect, PTL DEF WaitSpec

\* The whole state keeps its type, the session's own and what waits and
\* watches it: in particular every wait is bound to a numbered turn.
THEOREM WaitTypeCorrect == WaitSpec => []WaitTypeOK
<1>1. TypeOK /\ WaitTypes => WaitTypeOK
  BY DEF WaitTypeOK
<1> QED
  BY <1>1, WaitTypesKept, WaitsImplementSession, TypeCorrect, PTL

-----------------------------------------------------------------------------
(* The end on record                                                       *)

\* The turn whose end is being recorded is the last that settled, and all
\* those before it are in the registry.
RecordingLast ==
    recording # 0 => /\ \E p \in Prompts : pc[p] \in {"recording", "clearing"}
                     /\ recording = Offset + Len(turns)
                     /\ entry.turns + 1 >= Offset + Len(turns)

\* A step that settles, records and clears nothing keeps it.
LEMMA RecordingKept ==
    ASSUME RecordingLast, turns' = turns, recording' = recording, entry'.turns = entry.turns,
           \A q \in Prompts : pc[q] \in {"recording", "clearing"} => pc'[q] = pc[q]
    PROVE  RecordingLast'
  BY DEF RecordingLast

\* finish_turn settles a turn when no other one's end is being recorded.
LEMMA RecordingClosed ==
    ASSUME TypeOK, WireOwned, Numbering, EndsRecorded, RecordingLast, wire = None,
           NEW p \in Prompts, CloseCurrent(p), entry' = entry, pc'[p] = "recording"
    PROVE  RecordingLast'
<1>1. \A q \in Prompts : pc[q] \notin {"recording", "clearing"}
  BY PromptsAssumption DEF WireOwned, Holding
<1>2. recording = 0 /\ entry.turns = Offset + Len(turns)
  BY <1>1 DEF RecordingLast, EndsRecorded
<1>3. CASE current = NoTurn
  BY <1>2, <1>3 DEF CloseCurrent, RecordingLast
<1>4. CASE current # NoTurn
  <2>1. Len(turns') = Len(turns) + 1 /\ recording' = Offset + Len(turns) + 1
    BY <1>4 DEF CloseCurrent, Numbering, NextTurn, TypeOK, TypeTurns
  <2>2. Len(turns) \in Nat /\ entry'.turns = Offset + Len(turns)
    BY <1>2 DEF TypeOK, TypeTurns
  <2> QED
    BY <2>1, <2>2, OffsetAssumption DEF RecordingLast
<1> QED
  BY <1>3, <1>4

\* One turn's end is recorded at a time, the last one's.
LEMMA RecordingStep ==
    ASSUME IndInv, RecordingLast, [Next]_vars PROVE RecordingLast'
<1> USE DEF turnVars, steerVars, rtVars, taskVars, soloVars, permVars, agentVars, histVars
<1>a. /\ TypeOK /\ TypeTurns /\ TypeRuntime /\ TypeTasks /\ WireOwned /\ QueueOwned
      /\ EndsRecorded /\ Numbering /\ OutOwned
  BY DEF IndInv, Ownership, TypeOK
<1>b. \A q \in Range(queue) : pc[q] = "queued"
  BY <1>a, RangeQueued
<1>1. ASSUME NEW r \in Perms,
             AskPermission(r) \/ QueueForPermit(r) \/ Permit(r) \/ PermitAnswered(r)
      PROVE  RecordingLast'
  BY <1>1, <1>a, <1>b, PoliciesAssumption, RecordingKept DEF AskPermission,
     QueueForPermit, Permit, Unblocked, PermitAnswered, TypeTasks, TypeRuntime,
     RegistryEntry, OutOwned
<1>2. CASE ParkedDue \/ PassOver \/ SessionUpdate \/ CancelSend \/ GateRises \/
   GateExpires \/ AgentDies \/ CloseSession \/ Supersede \/ WatchScan \/ HandoffOne \/
   HandoffReported
  BY <1>2, <1>a, <1>b, PoliciesAssumption, RecordingKept DEF ParkedDue, PassOver,
     SessionUpdate, CancelSend, GateRises, GateExpires, AgentDies, CloseSession,
     Supersede, WatchScan, HandoffOne, HandoffReported, TypeTasks, TypeRuntime,
     RegistryEntry, OutOwned
<1>3. CASE UNCHANGED vars
  BY <1>3, <1>a, <1>b, PoliciesAssumption, RecordingKept DEF vars, TypeTasks,
     TypeRuntime, RegistryEntry, OutOwned
<1>4. ASSUME NEW p \in Prompts, Send(p) PROVE RecordingLast'
  BY <1>4, <1>a, <1>b, PoliciesAssumption, RecordingKept DEF Send, TypeTasks,
     TypeRuntime, RegistryEntry
<1>5. ASSUME NEW p \in Prompts, SendQueued(p) PROVE RecordingLast'
  BY <1>5, <1>a, <1>b, PoliciesAssumption, RecordingKept DEF SendQueued, TypeTasks,
     TypeRuntime, RegistryEntry
<1>6. ASSUME NEW p \in Prompts, SteerSend(p) PROVE RecordingLast'
  BY <1>6, <1>a, <1>b, PoliciesAssumption, RecordingKept DEF SteerSend, TypeTasks,
     TypeRuntime, RegistryEntry
<1>7. ASSUME NEW p \in Prompts, BeginChecked(p) PROVE RecordingLast'
  BY <1>7, <1>a, <1>b, PoliciesAssumption, RecordingKept DEF BeginChecked, StampTurn,
     TypeTasks, TypeRuntime, RegistryEntry
<1>8. ASSUME NEW p \in Prompts, LogPrompt(p) PROVE RecordingLast'
  BY <1>8, <1>a, <1>b, PoliciesAssumption, RecordingKept DEF LogPrompt, TypeTasks,
     TypeRuntime, RegistryEntry
<1>9. ASSUME NEW p \in Prompts, LogFails(p) PROVE RecordingLast'
  BY <1>9, <1>a, <1>b, PoliciesAssumption, RecordingKept DEF LogFails, TypeTasks,
     TypeRuntime, RegistryEntry
<1>10. ASSUME NEW p \in Prompts, SendPrompt(p) PROVE RecordingLast'
  BY <1>10, <1>a, <1>b, PoliciesAssumption, RecordingKept DEF SendPrompt, TypeTasks,
     TypeRuntime, RegistryEntry
<1>11. ASSUME NEW p \in Prompts, SteerPush(p) PROVE RecordingLast'
  BY <1>11, <1>a, <1>b, PoliciesAssumption, RecordingKept DEF SteerPush, TypeTasks,
     TypeRuntime, RegistryEntry
<1>12. ASSUME NEW p \in Prompts, SteerEnqueue(p) PROVE RecordingLast'
  BY <1>12, <1>a, <1>b, PoliciesAssumption, RecordingKept DEF SteerEnqueue, TypeTasks,
     TypeRuntime, RegistryEntry
<1>13. ASSUME NEW p \in Prompts, SteerNoteLimit(p) PROVE RecordingLast'
  BY <1>13, <1>a, <1>b, PoliciesAssumption, RecordingKept DEF SteerNoteLimit, TypeTasks,
     TypeRuntime, RegistryEntry
<1>14. ASSUME NEW p \in Prompts, SteerResolved(p) PROVE RecordingLast'
  BY <1>14, <1>a, <1>b, PoliciesAssumption, RecordingKept, HeadQueued DEF SteerResolved,
     TypeTasks, TypeRuntime, RegistryEntry
<1>15. ASSUME NEW p \in Prompts, KickWire(p) PROVE RecordingLast'
  BY <1>15, <1>a, <1>b, PoliciesAssumption, RecordingKept DEF KickWire, TypeTasks,
     TypeRuntime, RegistryEntry
<1>16. ASSUME NEW p \in Prompts, SettleTurn(p) PROVE RecordingLast'
  <2>1. wire = None /\ entry' = entry /\ CloseCurrent(p) /\ pc[p] = "ended"
    BY <1>16 DEF SettleTurn, FinishBegins, UnchangedByFinish
  <2>2. p \notin Range(queue) /\ (queue # << >> => Head(queue) # p)
    BY <1>a, <2>1, RangeQueued, HeadQueued
  <2>3. pc'[p] = "recording"
    BY <1>16, <1>a, <2>2 DEF SettleTurn, DropQueue, ChainReady, TypeTasks
  <2> QED
    BY <1>a, <2>1, <2>3, RecordingClosed
<1>17. ASSUME NEW p \in Prompts, FailTurn(p) PROVE RecordingLast'
  <2>1. wire = None /\ entry' = entry /\ CloseCurrent(p) /\ pc[p] = "ended"
    BY <1>17 DEF FailTurn, FinishBegins, UnchangedByFinish
  <2>2. p \notin Range(queue) /\ (queue # << >> => Head(queue) # p)
    BY <1>a, <2>1, RangeQueued, HeadQueued
  <2>3. pc'[p] = "recording"
    BY <1>17, <1>a, <2>2 DEF FailTurn, DropQueue, TypeTasks
  <2> QED
    BY <1>a, <2>1, <2>3, RecordingClosed
<1>18. ASSUME NEW p \in Prompts, ParkTurn(p) PROVE RecordingLast'
  <2>1. wire = None /\ entry' = entry /\ CloseCurrent(p) /\ pc[p] = "ended"
    BY <1>18 DEF ParkTurn, FinishBegins, UnchangedByFinish
  <2>2. p \notin Range(queue) /\ (queue # << >> => Head(queue) # p)
    BY <1>a, <2>1, RangeQueued, HeadQueued
  <2>3. pc'[p] = "recording"
    BY <1>18, <1>a, <2>2 DEF ParkTurn, TypeTasks
  <2> QED
    BY <1>a, <2>1, <2>3, RecordingClosed
<1>19. ASSUME NEW p \in Prompts, RecordTurnEnd(p) PROVE RecordingLast'
  <2>1. UNCHANGED <<turns, recording>> /\ pc'[p] = "clearing" /\ entry'.turns = Offset + Len(turns)
    BY <1>19, <1>a DEF RecordTurnEnd, TypeTasks
  <2> QED
    BY <1>a, <2>1, OffsetAssumption DEF RecordingLast, TypeTurns
<1>20. ASSUME NEW p \in Prompts, ClearRecording(p) PROVE RecordingLast'
  BY <1>20 DEF ClearRecording, RecordingLast
<1>21. ASSUME NEW p \in Prompts, NoteLimit(p) PROVE RecordingLast'
  BY <1>21, <1>a, <1>b, PoliciesAssumption, RecordingKept DEF NoteLimit, TypeTasks,
     TypeRuntime, RegistryEntry
<1>22. ASSUME NEW p \in Prompts, SpawnChained(p) PROVE RecordingLast'
  BY <1>22, <1>a, <1>b, PoliciesAssumption, RecordingKept DEF SpawnChained, StampTurn,
     Unstarted, TypeTasks, TypeRuntime, RegistryEntry
<1>23. ASSUME NEW p \in Prompts, Repark(p) PROVE RecordingLast'
  BY <1>23, <1>a, <1>b, PoliciesAssumption, RecordingKept DEF Repark, Requeued,
     TypeTasks, TypeRuntime, RegistryEntry
<1>24. ASSUME NEW p \in Prompts, ReserveResume(p) PROVE RecordingLast'
  BY <1>24, <1>a, <1>b, PoliciesAssumption, RecordingKept, HeadQueued DEF ReserveResume,
     ReserveSlot, TypeTasks, TypeRuntime, RegistryEntry
<1>25. ASSUME NEW p \in Prompts, ClearParked(p) PROVE RecordingLast'
  BY <1>25, <1>a, <1>b, PoliciesAssumption, RecordingKept DEF ClearParked, TypeTasks,
     TypeRuntime, RegistryEntry
<1>26. ASSUME NEW p \in Prompts, ResumeBegin(p) PROVE RecordingLast'
  BY <1>26, <1>a, <1>b, PoliciesAssumption, RecordingKept DEF ResumeBegin, StampTurn,
     Unstarted, TypeTasks, TypeRuntime, RegistryEntry
<1>27. ASSUME NEW p \in Prompts, Answer(p) PROVE RecordingLast'
  BY <1>27, <1>a, <1>b, PoliciesAssumption, RecordingKept DEF Answer, TypeTasks,
     TypeRuntime, RegistryEntry, OutOwned
<1>28. CASE RecordPark
  BY <1>28, <1>a, <1>b, PoliciesAssumption, RecordingKept DEF RecordPark, TypeTasks,
     TypeRuntime, RegistryEntry
<1>29. CASE ClearStale
  BY <1>29, <1>a, <1>b, PoliciesAssumption, RecordingKept DEF ClearStale, TypeTasks,
     TypeRuntime, RegistryEntry
<1>30. CASE UnscheduleResume
  BY <1>30, <1>a, <1>b, PoliciesAssumption, RecordingKept DEF UnscheduleResume,
     TypeTasks, TypeRuntime, RegistryEntry
<1>31. CASE Teardown
  BY <1>31, <1>a, <1>b, PoliciesAssumption, RecordingKept DEF Teardown, CloseSub,
     DropQueue, AnswerPending, TypeTasks, TypeRuntime, RegistryEntry
<1>32. CASE HandedClose
  BY <1>32, <1>a, <1>b, PoliciesAssumption, RecordingKept DEF HandedClose, CloseSub,
     DropQueue, AnswerPending, TypeTasks, TypeRuntime, RegistryEntry
<1>33. CASE OnDisconnect
  BY <1>33, <1>a, <1>b, PoliciesAssumption, RecordingKept DEF OnDisconnect, DropQueue,
     AnswerPending, TypeTasks, TypeRuntime, RegistryEntry
<1>34. CASE CancelTurn
  BY <1>34, <1>a, <1>b, PoliciesAssumption, RecordingKept DEF CancelTurn, DropQueue,
     AnswerPending, TypeTasks, TypeRuntime, RegistryEntry
<1> QED
  BY <1>1, <1>2, <1>3, <1>4, <1>5, <1>6, <1>7, <1>8, <1>9, <1>10, <1>11, <1>12, <1>13,
     <1>14, <1>15, <1>16, <1>17, <1>18, <1>19, <1>20, <1>21, <1>22, <1>23, <1>24, <1>25,
     <1>26, <1>27, <1>28, <1>29, <1>30, <1>31, <1>32, <1>33, <1>34 DEF Next, WireFree,
     WireTaking, Scheduler, Teardowns, Prompts

\* One turn's end is recorded at a time, in every reachable state.
LEMMA RecordingInvariant == Spec => []RecordingLast
<1>1. Init => RecordingLast
  BY DEF Init, RecordingLast
<1>2. IndInv /\ RecordingLast /\ [Next]_vars => RecordingLast'
  BY RecordingStep
<1> QED
  BY <1>1, <1>2, Inductive, PTL DEF Spec

\* What the registry counts when a wait sees a settled turn as ended.
LEMMA EndedOnRecord ==
    ASSUME IndInv, RecordingLast, NEW n \in Nat, HasSettled(n), recording # n
    PROVE  entry.turns >= n
<1>a. /\ Len(turns) \in Nat /\ Offset \in Nat /\ entry.turns \in Nat
      /\ EndsRecorded /\ Numbering
  BY OffsetAssumption DEF IndInv, TypeOK, TypeTurns, TypeRuntime, RegistryEntry
<1>1. PICK i \in 1..Len(turns) : n = Offset + i
  BY <1>a DEF HasSettled, SettledTurns, Numbering
<1>2. CASE recording = 0
  BY <1>a, <1>1, <1>2 DEF EndsRecorded
<1>3. CASE recording # 0
  BY <1>a, <1>1, <1>3 DEF RecordingLast
<1> QED
  BY <1>2, <1>3

\* A wait, or a host's prompt, that its settled turn's end releases finds
\* that end in the registry, whatever else is being recorded meanwhile.
THEOREM EndOnRecordHolds == WaitSpec => EndOnRecord
<1> DEFINE Ended(w) ==
      told[w] = "none" /\ told'[w] \in {"ended", "limited"} /\ HasSettled(bound'[w])
        => entry.turns >= bound'[w]
<1>1. IndInv /\ RecordingLast /\ WaitTypes /\ [WaitNext]_allVars
        => [\A w \in Waiters : Ended(w)]_allVars
  <2> SUFFICES ASSUME IndInv, RecordingLast, WaitTypes, [WaitNext]_allVars,
                      NEW w \in Waiters,
                      told[w] = "none", told'[w] \in {"ended", "limited"}, HasSettled(bound'[w])
               PROVE  entry.turns >= bound'[w]
    OBVIOUS
  <2>1. told'[w] # told[w]
    OBVIOUS
  <2>2. ~HasSettled(0)
    BY OffsetAssumption DEF IndInv, Numbering, HasSettled, SettledTurns, TypeOK, TypeTurns
  <2>3. ASSUME NEW v \in Waiters, Wait(v) \/ HostBind(v) PROVE FALSE
    BY <2>1, <2>2, <2>3 DEF Wait, HostBind, WaitTypes
  <2>4. ASSUME NEW v \in Waiters, Attach(v) \/ AnswerWait(v) \/ CallerGone(v) PROVE FALSE
    BY <2>1, <2>4 DEF Attach, AnswerWait, CallerGone
  <2>5. ASSUME NEW v \in Waiters, TimesOut(v) PROVE FALSE
    BY <2>5 DEF TimesOut, WaitTypes
  <2>6. CASE SessionStep \/ Watchdog \/ GracePasses \/ UNCHANGED allVars
    BY <2>1, <2>6 DEF SessionStep, Watchdog, WatchdogPass, WatchdogCloses, GracePasses,
       waitVars, allVars
  <2>7. ASSUME NEW v \in Waiters, WaitForTurn(v) PROVE entry.turns >= bound'[w]
    <3>1. v = w /\ bound' = bound /\ Awaited(bound[w]) \in {"ended", "limited"}
      BY <2>1, <2>7 DEF WaitForTurn, WaitTypes
    <3>2. recording # bound[w]
      BY <3>1 DEF Awaited
    <3>3. HasSettled(bound[w])
      BY <3>1
    <3> QED
      BY <3>1, <3>2, <3>3, EndedOnRecord DEF WaitTypes
  <2> QED
    BY <2>3, <2>4, <2>5, <2>6, <2>7 DEF WaitNext, WaitTask
<1> QED
  BY <1>1, Inductive, RecordingInvariant, WaitTypesKept, WaitsImplementSession, PTL
     DEF WaitSpec, EndOnRecord

-----------------------------------------------------------------------------
(* The start a wait counts from                                            *)

\* Without a steer to wait for, a running turn's recorded start is all that a
\* wait asks the session for.
LEMMA StartFound ==
    ASSUME RunningHasStart, steerPending = << >>
    PROVE  ~NoStart /\ \A n : Awaited(n) # "internal"
<1>1. ~NoStart
  BY DEF NoStart, RunningHasStart
<1>2. Range(steerPending) = {}
  BY DEF Range
<1>3. status = "running" /\ current = NoTurn => pendingStart
  BY DEF RunningHasStart
<1>4. ASSUME NEW n PROVE Awaited(n) # "internal"
  BY <1>2, <1>3 DEF Awaited
<1> QED
  BY <1>1, <1>4

\* No step makes a `wait` fail while the start it looks for is there.
LEMMA NoInternalStep ==
    ASSUME RunningHasStart, steerPending = << >>, WaitTypes, NoInternal, [WaitNext]_allVars
    PROVE  NoInternal'
<1>f. ~NoStart /\ \A n : Awaited(n) # "internal"
  BY StartFound
<1>1. CASE SessionStep
  BY <1>1 DEF SessionStep, NoInternal, Waiters
<1>2. ASSUME NEW w \in Waiters, Wait(w) \/ WaitForTurn(w) \/ TimesOut(w) \/ CallerGone(w)
      PROVE  NoInternal'
  <2>1. \/ \E s \in WaitStages : wpc' = [wpc EXCEPT ![w] = s] /\ s # "internal"
        \/ wpc' = wpc
    BY <1>2, <1>f DEF Wait, WaitForTurn, TimesOut, CallerGone, Detached, WaitStages
  <2> QED
    BY <2>1 DEF NoInternal, WaitTypes, Waiters
<1>3. ASSUME NEW w \in Waiters, Attach(w) PROVE NoInternal'
  <2>1. wpc' = [wpc EXCEPT ![w] = "refused"] \/ wpc' = [wpc EXCEPT ![w] = "waiting"]
    BY <1>3, <1>f DEF Attach
  <2> QED
    BY <2>1 DEF NoInternal, WaitTypes, Waiters
<1>4. ASSUME NEW w \in Waiters, HostBind(w) PROVE NoInternal'
  <2>1. PICK s \in WaitStages : wpc' = [wpc EXCEPT ![w] = s] /\ s # "internal"
    BY <1>4, <1>f DEF HostBind, Detached, WaitStages
  <2> QED
    BY <2>1 DEF NoInternal, WaitTypes, Waiters
<1>5. ASSUME NEW w \in Waiters, AnswerWait(w) PROVE NoInternal'
  <2>1. CASE w \in Hosts
    <3>1. w \notin Waiting
      BY <2>1, HostsAssumption DEF Prompts
    <3>2. \E s : wpc' = [wpc EXCEPT ![w] = s]
      BY <1>5 DEF AnswerWait, Detached
    <3> QED
      BY <3>1, <3>2 DEF NoInternal, WaitTypes, Waiters
  <2>2. CASE w \notin Hosts
    <3>1. wpc' = [wpc EXCEPT ![w] = "answered"]
      BY <1>5, <2>2 DEF AnswerWait, Detached
    <3> QED
      BY <3>1 DEF NoInternal, WaitTypes, Waiters
  <2> QED
    BY <2>1, <2>2
<1>6. CASE Watchdog \/ GracePasses \/ UNCHANGED allVars
  <2>1. wpc' = wpc
    BY <1>6 DEF Watchdog, WatchdogPass, WatchdogCloses, GracePasses, waitVars, allVars
  <2> QED
    BY <2>1 DEF NoInternal
<1> QED
  BY <1>1, <1>2, <1>3, <1>4, <1>5, <1>6 DEF WaitNext, WaitTask

\* Without steers and permission requests no `wait` fails with
\* Error::Internal: whatever turn it is bound to, the session has that turn's
\* start at every look, however parks, resumes, closes, handovers, failed
\* writes and the agent's death end what it waits for.
THEOREM NoInternalHolds ==
    ASSUME "steer" \notin Policies, Perms = {} PROVE WaitSpec => []NoInternal
<1>1. WaitInit => NoInternal
  BY DEF WaitInit, NoInternal, Waiters
<1>2. RunningHasStart /\ SteersAbsent /\ WaitTypes /\ NoInternal /\ [WaitNext]_allVars
        => NoInternal'
  BY NoInternalStep DEF SteersAbsent
<1>3. Spec => []RunningHasStart
  BY RunningHasStartHolds
<1>4. Spec => []SteersAbsent
  BY SteersAbsentInvariant
<1> QED
  BY <1>1, <1>2, <1>3, <1>4, WaitTypesKept, WaitsImplementSession, PTL DEF WaitSpec

-----------------------------------------------------------------------------
(* What a wait reports                                                     *)

\* Where a `wait` released by its turn's end tells that end: nobody steers, no
\* permission is asked, the agent neither fails a prompt nor dies by itself, a
\* session is not closed while it is handed over, and where limits park it the
\* transcript can be written.
Reportable ==
    /\ "steer" \notin Policies /\ Perms = {} /\ Events \cap {"error", "die"} = {}
    /\ ~({"close", "handover"} \subseteq Events) /\ ~({"limit", "log"} \subseteq Events)

InTurn(p) == pc[p] \in TurnPCs
NoneInTurn == \A p \in Prompts : ~InTurn(p)

\* Who is in a turn has begun it, and it has not been taken away.
Stamped == \A p \in Prompts : InTurn(p) => current # NoTurn

\* What a step makes of the turns: it leaves them alone,
Rests == /\ UNCHANGED <<turns, status>> /\ (current' = NoTurn <=> current = NoTurn)
         /\ \A q \in Prompts : InTurn(q)' => InTurn(q)
\* begins the next one,
Begins == /\ UNCHANGED turns /\ current' # NoTurn /\ status' = "running"
          /\ alive \/ status = "running"
\* undoes one whose prompt could not be written,
Undoes == /\ "log" \in Events /\ UNCHANGED turns /\ current' = NoTurn
          /\ ~NoneInTurn /\ NoneInTurn'
\* settles it by the answer to its prompt,
Settles(p) ==
    /\ InTurn(p) /\ NoneInTurn' /\ current' = NoTurn
    /\ pc'[p] = "recording" /\ outcome[p] # "none" /\ outcome' = outcome
    /\ turns' = Append(turns, [n |-> NextTurn, p |-> current.p, by |-> p,
                               limited |-> outcome[p] = "limit"])
    /\ outcome[p] = "error" => status' \in {"failed", "exited"}
    /\ outcome[p] = "limit" => status' \in {"rate_limited", "exited"}
    /\ status' = "running" => status = "running"
\* takes the slot for the next one or gives it back to a park,
Takes == /\ UNCHANGED <<turns, current>> /\ alive
         /\ status' = "running" \/ (status' = "rate_limited" /\ current = NoTurn)
         /\ \A q \in Prompts : InTurn(q)' => InTurn(q)
\* or shuts the session down.
Shuts == /\ UNCHANGED <<turns, current>> /\ ~alive'
         /\ status' = IF status \in {"running", "needs_permission", "rate_limited"}
                      THEN "cancelled" ELSE status
         /\ \A q \in Prompts : InTurn(q)' => InTurn(q)
TurnMove == Rests \/ Begins \/ Undoes \/ (\E p \in Prompts : Settles(p)) \/ Takes \/ Shuts

\* A session whose agent is gone is out of `live`, and one that is has been
\* claimed by what ended it.
LEMMA ClaimedEnds ==
    ASSUME Events \cap {"error", "die"} = {}, ~({"close", "handover"} \subseteq Events),
           EndShape
    PROVE  /\ live => alive
           /\ closing = "none" => live
           /\ closing = "ending" => ~live
           /\ Guarded
<1>1. Guarded
  BY DEF Guarded
<1>2. live => alive
  BY DEF EndShape, AgentGone
<1>3. superseded /\ closer # "open" => FALSE
  BY DEF EndShape, Claimed
<1>4. closing = "none" => live
  BY <1>3 DEF EndShape, Claimed, ClosingMarked
<1>5. closing = "ending" => ~live
  BY <1>3 DEF EndShape, Claimed, ClosingMarked
<1> QED
  BY <1>1, <1>2, <1>4, <1>5

\* Every step is one of them.
LEMMA TurnMoves ==
    ASSUME Reportable, IndInv, Handoff, status # "needs_permission", Stamped, [Next]_vars
    PROVE  TurnMove
<1> USE DEF turnVars, steerVars, rtVars, taskVars, soloVars, permVars, agentVars, histVars
<1>a. /\ TypeOK /\ TypeTurns /\ TypeTasks /\ TypeAgent /\ TypeRuntime /\ TypeSolo
      /\ WireOwned /\ OutOwned /\ QueueOwned /\ Numbering
  BY DEF IndInv, TypeOK, Ownership
<1>b. \A q \in Range(queue) : pc[q] = "queued"
  BY <1>a, RangeQueued
<1>h. queue # << >> => pc[Head(queue)] = "queued" /\ Head(queue) \in Prompts
  BY <1>a, HeadQueued
<1>s. SteersAbsent /\ EndShape /\ Alone /\ GapReady
  BY DEF Handoff, Slot
<1>d. \A q \in Prompts : /\ pc[q] \notin {"steer", "steer_begin", "steer_push", "kicked"}
                         /\ pc[q] \notin SteerPCs
  BY <1>s DEF SteersAbsent
<1>f. None \notin Prompts /\ Policies \subseteq {"try", "queued"} /\ Perms = {}
  BY PromptsAssumption, PoliciesAssumption DEF Reportable
<1>u. /\ live => alive
      /\ closing = "none" => live
      /\ closing = "ending" => ~live
      /\ Guarded
  BY <1>s, ClaimedEnds DEF Reportable
<1>x. \A p, q \in Prompts : InTurn(p) /\ InTurn(q) => p = q
  BY <1>s, <1>u DEF Alone, InTurn, Busy

<1>1. CASE RecordPark \/ ParkedDue \/ PassOver \/ ClearStale \/ UnscheduleResume \/
   CancelSend \/ GateRises \/ GateExpires \/ AgentDies \/ WatchScan \/ CloseSession \/
   Supersede \/ HandoffOne \/ HandoffReported \/ UNCHANGED vars
  <2>1. UNCHANGED <<turns, status, current, pc>>
    BY <1>1 DEF RecordPark, ParkedDue, PassOver, ClearStale, UnscheduleResume, CancelSend,
       GateRises, GateExpires, AgentDies, WatchScan, CloseSession, Supersede, HandoffOne,
       HandoffReported, vars
  <2> QED
    BY <2>1 DEF Rests, TurnMove, InTurn
<1>2. ASSUME NEW p \in Prompts, Send(p) PROVE TurnMove
  <2>1. UNCHANGED <<turns, status, current>>
    BY <1>2, <1>d DEF Send, SteerPCs
  <2>2. \A q \in Prompts : InTurn(q)' => InTurn(q)
    BY <1>2, <1>a, <1>d, <1>f DEF Send, InTurn, TurnPCs, TypeTasks, SteerPCs
  <2> QED
    BY <2>1, <2>2 DEF Rests, TurnMove
<1>3. ASSUME NEW p \in Prompts, SendQueued(p) PROVE TurnMove
  <2>1. UNCHANGED <<turns, status, current>>
    BY <1>3, <1>d DEF SendQueued, SteerPCs
  <2>2. \A q \in Prompts : InTurn(q)' => InTurn(q)
    BY <1>3, <1>a, <1>d, <1>f DEF SendQueued, InTurn, TurnPCs, TypeTasks, SteerPCs
  <2> QED
    BY <2>1, <2>2 DEF Rests, TurnMove
<1>4. ASSUME NEW p \in Prompts, SteerSend(p) PROVE TurnMove
  <2>1. UNCHANGED <<turns, status, current>>
    BY <1>4, <1>d DEF SteerSend, SteerPCs
  <2>2. \A q \in Prompts : InTurn(q)' => InTurn(q)
    BY <1>4, <1>a, <1>d, <1>f DEF SteerSend, InTurn, TurnPCs, TypeTasks, SteerPCs
  <2> QED
    BY <2>1, <2>2 DEF Rests, TurnMove
<1>5. ASSUME NEW p \in Prompts, LogPrompt(p) PROVE TurnMove
  <2>1. UNCHANGED <<turns, status, current>>
    BY <1>5, <1>d DEF LogPrompt, SteerPCs
  <2>2. \A q \in Prompts : InTurn(q)' => InTurn(q)
    BY <1>5, <1>a, <1>d, <1>f DEF LogPrompt, InTurn, TurnPCs, TypeTasks, SteerPCs
  <2> QED
    BY <2>1, <2>2 DEF Rests, TurnMove
<1>6. ASSUME NEW p \in Prompts, SteerPush(p) PROVE TurnMove
  <2>1. UNCHANGED <<turns, status, current>>
    BY <1>6, <1>d DEF SteerPush, SteerPCs
  <2>2. \A q \in Prompts : InTurn(q)' => InTurn(q)
    BY <1>6, <1>a, <1>d, <1>f DEF SteerPush, InTurn, TurnPCs, TypeTasks, SteerPCs
  <2> QED
    BY <2>1, <2>2 DEF Rests, TurnMove
<1>7. ASSUME NEW p \in Prompts, SteerEnqueue(p) PROVE TurnMove
  <2>1. UNCHANGED <<turns, status, current>>
    BY <1>7, <1>d DEF SteerEnqueue, SteerPCs
  <2>2. \A q \in Prompts : InTurn(q)' => InTurn(q)
    BY <1>7, <1>a, <1>d, <1>f DEF SteerEnqueue, InTurn, TurnPCs, TypeTasks, SteerPCs
  <2> QED
    BY <2>1, <2>2 DEF Rests, TurnMove
<1>8. ASSUME NEW p \in Prompts, SteerNoteLimit(p) PROVE TurnMove
  <2>1. UNCHANGED <<turns, status, current>>
    BY <1>8, <1>d DEF SteerNoteLimit, SteerPCs
  <2>2. \A q \in Prompts : InTurn(q)' => InTurn(q)
    BY <1>8, <1>a, <1>d, <1>f DEF SteerNoteLimit, InTurn, TurnPCs, TypeTasks, SteerPCs
  <2> QED
    BY <2>1, <2>2 DEF Rests, TurnMove
<1>9. ASSUME NEW p \in Prompts, SteerResolved(p) PROVE TurnMove
  <2>1. UNCHANGED <<turns, status, current>>
    BY <1>9, <1>d DEF SteerResolved, SteerPCs
  <2>2. \A q \in Prompts : InTurn(q)' => InTurn(q)
    BY <1>9, <1>a, <1>d, <1>f DEF SteerResolved, InTurn, TurnPCs, TypeTasks, SteerPCs
  <2> QED
    BY <2>1, <2>2 DEF Rests, TurnMove
<1>10. ASSUME NEW p \in Prompts, KickWire(p) PROVE TurnMove
  <2>1. UNCHANGED <<turns, status, current>>
    BY <1>10, <1>d DEF KickWire, SteerPCs
  <2>2. \A q \in Prompts : InTurn(q)' => InTurn(q)
    BY <1>10, <1>a, <1>d, <1>f DEF KickWire, InTurn, TurnPCs, TypeTasks, SteerPCs
  <2> QED
    BY <2>1, <2>2 DEF Rests, TurnMove
<1>11. ASSUME NEW p \in Prompts, RecordTurnEnd(p) PROVE TurnMove
  <2>1. UNCHANGED <<turns, status, current>>
    BY <1>11, <1>d DEF RecordTurnEnd, SteerPCs
  <2>2. \A q \in Prompts : InTurn(q)' => InTurn(q)
    BY <1>11, <1>a, <1>d, <1>f DEF RecordTurnEnd, InTurn, TurnPCs, TypeTasks, SteerPCs
  <2> QED
    BY <2>1, <2>2 DEF Rests, TurnMove
<1>12. ASSUME NEW p \in Prompts, ClearRecording(p) PROVE TurnMove
  <2>1. UNCHANGED <<turns, status, current>>
    BY <1>12, <1>d DEF ClearRecording, SteerPCs
  <2>2. \A q \in Prompts : InTurn(q)' => InTurn(q)
    BY <1>12, <1>a, <1>d, <1>f DEF ClearRecording, InTurn, TurnPCs, TypeTasks, SteerPCs
  <2> QED
    BY <2>1, <2>2 DEF Rests, TurnMove
<1>13. ASSUME NEW p \in Prompts, NoteLimit(p) PROVE TurnMove
  <2>1. UNCHANGED <<turns, status, current>>
    BY <1>13, <1>d DEF NoteLimit, SteerPCs
  <2>2. \A q \in Prompts : InTurn(q)' => InTurn(q)
    BY <1>13, <1>a, <1>d, <1>f DEF NoteLimit, InTurn, TurnPCs, TypeTasks, SteerPCs
  <2> QED
    BY <2>1, <2>2 DEF Rests, TurnMove
<1>14. ASSUME NEW p \in Prompts, ClearParked(p) PROVE TurnMove
  <2>1. UNCHANGED <<turns, status, current>>
    BY <1>14, <1>d DEF ClearParked, SteerPCs
  <2>2. \A q \in Prompts : InTurn(q)' => InTurn(q)
    BY <1>14, <1>a, <1>d, <1>f DEF ClearParked, InTurn, TurnPCs, TypeTasks, SteerPCs
  <2> QED
    BY <2>1, <2>2 DEF Rests, TurnMove
<1>15. ASSUME NEW p \in Prompts, Answer(p) PROVE TurnMove
  <2>1. UNCHANGED <<turns, status, current>>
    BY <1>15, <1>d DEF Answer, SteerPCs, OutOwned
  <2>2. \A q \in Prompts : InTurn(q)' => InTurn(q)
    BY <1>15, <1>a, <1>d, <1>f DEF Answer, InTurn, TurnPCs, TypeTasks, SteerPCs, OutOwned
  <2> QED
    BY <2>1, <2>2 DEF Rests, TurnMove
<1>16. ASSUME NEW p \in Prompts, SendPrompt(p) PROVE TurnMove
  <2>1. UNCHANGED <<turns, status>>
    BY <1>16 DEF SendPrompt
  <2>2. current' = NoTurn <=> current = NoTurn
    <3>1. current' = current \/ (current # NoTurn /\ current'.onWire)
      BY <1>16, <1>a DEF SendPrompt, TypeTurns, Turn
    <3> QED
      BY <3>1 DEF NoTurn
  <2>3. \A q \in Prompts : InTurn(q)' => InTurn(q)
    BY <1>16, <1>a DEF SendPrompt, InTurn, TurnPCs, TypeTasks
  <2> QED
    BY <2>1, <2>2, <2>3 DEF Rests, TurnMove
<1>17. CASE CancelTurn
  <2>1. UNCHANGED <<turns, status>>
    BY <1>17 DEF CancelTurn
  <2>2. current' = NoTurn <=> current = NoTurn
    <3>1. current' = current \/ (current # NoTurn /\ current'.cancelReq)
      BY <1>17, <1>a DEF CancelTurn, OffWire, TypeTurns, Turn
    <3> QED
      BY <3>1 DEF NoTurn
  <2>3. \A q \in Prompts : InTurn(q)' => InTurn(q)
    BY <1>17, <1>a, <1>b DEF CancelTurn, DropQueue, InTurn, TurnPCs, TypeTasks
  <2> QED
    BY <2>1, <2>2, <2>3 DEF Rests, TurnMove
<1>18. ASSUME NEW p \in Prompts, BeginChecked(p) PROVE TurnMove
  <2>1. CASE CheckReady /\ StampTurn(p)
    <3>1. current'.p # None
      BY <2>1, <1>f DEF StampTurn
    <3>2. current' # NoTurn
      BY <3>1 DEF NoTurn
    <3>3. alive \/ status = "running"
      BY <2>1, <1>u DEF CheckReady, ChainedReady
    <3>4. UNCHANGED turns /\ status' = "running"
      BY <1>18, <2>1 DEF BeginChecked, StampTurn
    <3> QED
      BY <3>2, <3>3, <3>4 DEF Begins, TurnMove
  <2>2. CASE ~(CheckReady /\ StampTurn(p))
    <3>1. UNCHANGED <<turns, status, current>>
      BY <1>18, <2>2 DEF BeginChecked
    <3>2. \A q \in Prompts : InTurn(q)' => InTurn(q)
      BY <1>18, <2>2, <1>a DEF BeginChecked, Unstarted, InTurn, TurnPCs, TypeTasks
    <3> QED
      BY <3>1, <3>2 DEF Rests, TurnMove
  <2> QED
    BY <2>1, <2>2
<1>19. ASSUME NEW p \in Prompts, SpawnChained(p) PROVE TurnMove
  <2>1. CASE live /\ ChainedReady /\ StampTurn(p)
    <3>1. current'.p # None
      BY <2>1, <1>f DEF StampTurn
    <3>2. current' # NoTurn
      BY <3>1 DEF NoTurn
    <3>3. alive \/ status = "running"
      BY <2>1, <1>u DEF CheckReady, ChainedReady
    <3>4. UNCHANGED turns /\ status' = "running"
      BY <1>19, <2>1 DEF SpawnChained, StampTurn
    <3> QED
      BY <3>2, <3>3, <3>4 DEF Begins, TurnMove
  <2>2. CASE ~(live /\ ChainedReady /\ StampTurn(p))
    <3>1. UNCHANGED <<turns, status, current>>
      BY <1>19, <2>2 DEF SpawnChained
    <3>2. \A q \in Prompts : InTurn(q)' => InTurn(q)
      BY <1>19, <2>2, <1>a DEF SpawnChained, Unstarted, InTurn, TurnPCs, TypeTasks
    <3> QED
      BY <3>1, <3>2 DEF Rests, TurnMove
  <2> QED
    BY <2>1, <2>2
<1>20. ASSUME NEW p \in Prompts, ResumeBegin(p) PROVE TurnMove
  <2>0. ChainedReady \/ status = "exited" \/ closing # "none"
    BY <1>20, <1>s DEF ResumeBegin, GapReady, GapPCs, Ready, Closing, ChainedReady
  <2>1. CASE ChainedReady /\ StampTurn(p)
    <3>1. current'.p # None
      BY <2>1, <1>f DEF StampTurn
    <3>2. current' # NoTurn
      BY <3>1 DEF NoTurn
    <3>3. alive \/ status = "running"
      BY <2>1, <1>u DEF CheckReady, ChainedReady
    <3>4. UNCHANGED turns /\ status' = "running"
      BY <1>20, <2>1 DEF ResumeBegin, StampTurn
    <3> QED
      BY <3>2, <3>3, <3>4 DEF Begins, TurnMove
  <2>2. CASE ~(ChainedReady /\ StampTurn(p))
    <3>1. UNCHANGED <<turns, status, current>>
      BY <1>20, <2>2, <2>0 DEF ResumeBegin
    <3>2. \A q \in Prompts : InTurn(q)' => InTurn(q)
      BY <1>20, <2>2, <1>a DEF ResumeBegin, Unstarted, InTurn, TurnPCs, TypeTasks
    <3> QED
      BY <3>1, <3>2 DEF Rests, TurnMove
  <2> QED
    BY <2>1, <2>2
<1>21. ASSUME NEW p \in Prompts, LogFails(p) PROVE TurnMove
  <2>1. InTurn(p) /\ "log" \in Events /\ UNCHANGED turns /\ current' = NoTurn
    BY <1>21 DEF LogFails, InTurn, TurnPCs
  <2>2. NoneInTurn'
    BY <1>21, <1>a, <1>x, <2>1 DEF LogFails, NoneInTurn, InTurn, TurnPCs, TypeTasks
  <2> QED
    BY <2>1, <2>2 DEF Undoes, TurnMove, NoneInTurn
<1>22. ASSUME NEW p \in Prompts, SettleTurn(p) PROVE TurnMove
  <2>1. InTurn(p) /\ CloseCurrent(p) /\ UNCHANGED outcome /\ outcome[p] # "none"
    BY <1>22 DEF SettleTurn, FinishBegins, UnchangedByFinish, InTurn, TurnPCs
  <2>2. current # NoTurn /\ current.n = NextTurn
    BY <1>a, <2>1 DEF Stamped, Numbering
  <2>3. /\ current' = NoTurn
        /\ turns' = Append(turns, [n |-> NextTurn, p |-> current.p, by |-> p,
                                   limited |-> outcome[p] = "limit"])
    BY <2>1, <2>2 DEF CloseCurrent
  <2>4. /\ pc'[p] = "recording"
        /\ \A q \in Prompts : q # p => pc'[q] = pc[q] \/ pc'[q] \in {"dropped", "popped"}
    BY <1>22, <1>a, <1>b, <1>h DEF SettleTurn, FinishBegins, DropQueue, ChainReady,
       TypeTasks
  <2>5. NoneInTurn'
    BY <1>x, <2>1, <2>4 DEF NoneInTurn, InTurn, TurnPCs
  <2>6. /\ outcome[p] = "error" => status' \in {"failed", "exited"}
        /\ outcome[p] = "limit" => status' \in {"rate_limited", "exited"}
        /\ status' = "running" => status = "running"
    BY <1>22 DEF SettleTurn, DropQueue, ChainReady
  <2> QED
    BY <2>1, <2>3, <2>4, <2>5, <2>6 DEF Settles, TurnMove
<1>23. ASSUME NEW p \in Prompts, FailTurn(p) PROVE TurnMove
  <2>1. InTurn(p) /\ CloseCurrent(p) /\ UNCHANGED outcome /\ outcome[p] # "none"
    BY <1>23 DEF FailTurn, FinishBegins, UnchangedByFinish, InTurn, TurnPCs
  <2>2. current # NoTurn /\ current.n = NextTurn
    BY <1>a, <2>1 DEF Stamped, Numbering
  <2>3. /\ current' = NoTurn
        /\ turns' = Append(turns, [n |-> NextTurn, p |-> current.p, by |-> p,
                                   limited |-> outcome[p] = "limit"])
    BY <2>1, <2>2 DEF CloseCurrent
  <2>4. /\ pc'[p] = "recording"
        /\ \A q \in Prompts : q # p => pc'[q] = pc[q] \/ pc'[q] \in {"dropped", "popped"}
    BY <1>23, <1>a, <1>b, <1>h DEF FailTurn, FinishBegins, DropQueue, FailedUnlessExited,
       TypeTasks
  <2>5. NoneInTurn'
    BY <1>x, <2>1, <2>4 DEF NoneInTurn, InTurn, TurnPCs
  <2>6. /\ outcome[p] = "error" => status' \in {"failed", "exited"}
        /\ outcome[p] = "limit" => status' \in {"rate_limited", "exited"}
        /\ status' = "running" => status = "running"
    BY <1>23 DEF FailTurn, DropQueue, FailedUnlessExited
  <2> QED
    BY <2>1, <2>3, <2>4, <2>5, <2>6 DEF Settles, TurnMove
<1>24. ASSUME NEW p \in Prompts, ParkTurn(p) PROVE TurnMove
  <2>1. InTurn(p) /\ CloseCurrent(p) /\ UNCHANGED outcome /\ outcome[p] # "none"
    BY <1>24 DEF ParkTurn, FinishBegins, UnchangedByFinish, InTurn, TurnPCs
  <2>2. current # NoTurn /\ current.n = NextTurn
    BY <1>a, <2>1 DEF Stamped, Numbering
  <2>3. /\ current' = NoTurn
        /\ turns' = Append(turns, [n |-> NextTurn, p |-> current.p, by |-> p,
                                   limited |-> outcome[p] = "limit"])
    BY <2>1, <2>2 DEF CloseCurrent
  <2>4. /\ pc'[p] = "recording"
        /\ \A q \in Prompts : q # p => pc'[q] = pc[q] \/ pc'[q] \in {"dropped", "popped"}
    BY <1>24, <1>a, <1>b, <1>h DEF ParkTurn, FinishBegins, TypeTasks
  <2>5. NoneInTurn'
    BY <1>x, <2>1, <2>4 DEF NoneInTurn, InTurn, TurnPCs
  <2>6. /\ outcome[p] = "error" => status' \in {"failed", "exited"}
        /\ outcome[p] = "limit" => status' \in {"rate_limited", "exited"}
        /\ status' = "running" => status = "running"
    BY <1>24 DEF ParkTurn
  <2> QED
    BY <2>1, <2>3, <2>4, <2>5, <2>6 DEF Settles, TurnMove
<1>25. ASSUME NEW p \in Prompts, Repark(p) PROVE TurnMove
  <2>1. current = NoTurn
    BY <1>25, <1>s, <1>u DEF Repark, GapReady, GapPCs, Ready, Closing, EndShape, AgentGone
  <2>2. UNCHANGED <<turns, current>> /\ alive /\ status' = "rate_limited"
    BY <1>25, <1>u DEF Repark
  <2>3. \A q \in Prompts : InTurn(q)' => InTurn(q)
    BY <1>25, <1>a DEF Repark, InTurn, TurnPCs, TypeTasks
  <2> QED
    BY <2>1, <2>2, <2>3 DEF Takes, TurnMove
<1>26. ASSUME NEW p \in Prompts, ReserveResume(p) PROVE TurnMove
  <2>1. UNCHANGED <<turns, current>> /\ alive /\ status' = "running"
    BY <1>26, <1>u DEF ReserveResume, ReserveSlot
  <2>2. \A q \in Prompts : InTurn(q)' => InTurn(q)
    BY <1>26, <1>a DEF ReserveResume, InTurn, TurnPCs, TypeTasks
  <2> QED
    BY <2>1, <2>2 DEF Takes, TurnMove
<1>27. CASE Teardown
  <2>1. CloseSub
    BY <1>27 DEF Teardown
  <2>2. \A q \in Prompts : InTurn(q)' => InTurn(q)
    BY <2>1, <1>a, <1>b DEF CloseSub, DropQueue, InTurn, TurnPCs, TypeTasks
  <2> QED
    BY <2>1, <2>2 DEF CloseSub, Shuts, TurnMove
<1>28. CASE HandedClose
  <2>1. CloseSub
    BY <1>28 DEF HandedClose
  <2>2. \A q \in Prompts : InTurn(q)' => InTurn(q)
    BY <2>1, <1>a, <1>b DEF CloseSub, DropQueue, InTurn, TurnPCs, TypeTasks
  <2> QED
    BY <2>1, <2>2 DEF CloseSub, Shuts, TurnMove
<1>29. CASE OnDisconnect
  <2>1. closing # "none"
    BY <1>29, <1>u DEF OnDisconnect
  <2>2. UNCHANGED <<turns, status, current, pc>>
    BY <1>29, <2>1 DEF OnDisconnect
  <2> QED
    BY <2>2 DEF Rests, TurnMove, InTurn
<1>30. CASE SessionUpdate
  <2>1. FALSE
    BY <1>30, <1>s DEF SessionUpdate, SteersAbsent, OldestSteer, Oldest
  <2> QED
    BY <2>1
<1>31. ASSUME NEW r \in Perms PROVE TurnMove
  BY <1>f
<1> QED
  BY <1>1, <1>2, <1>3, <1>4, <1>5, <1>6, <1>7, <1>8, <1>9, <1>10, <1>11, <1>12, <1>13,
     <1>14, <1>15, <1>16, <1>17, <1>18, <1>19, <1>20, <1>21, <1>22, <1>23, <1>24, <1>25,
     <1>26, <1>27, <1>28, <1>29, <1>30, <1>31
     DEF Next, WireFree, WireTaking, Scheduler, Teardowns, Prompts

\* The stages of a prompt whose turn has settled.
After == {"recording", "clearing", "noting", "done"}

\* A prompt answered for good keeps its answer; a failed one failed
\* with its agent, and only where limits happen one meets a limit. The agent does
\* not come back, and only a turn that settles is marked as being recorded.
AnswerMove ==
    /\ \A q \in Prompts : pc[q] \in After => pc'[q] \in After /\ outcome'[q] = outcome[q]
    /\ \A q \in Prompts :
         /\ outcome'[q] = "error" => outcome[q] = "error" \/ ~alive
         /\ outcome'[q] = "limit" => outcome[q] = "limit" \/ "limit" \in Events
    /\ alive' => alive
    /\ recording' \in {recording, 0} \/ turns' # << >>

\* Every step is such a move.
LEMMA AnswersKept ==
    ASSUME Reportable, IndInv, Slot, [Next]_vars PROVE AnswerMove
<1> USE DEF turnVars, steerVars, rtVars, taskVars, soloVars, permVars, agentVars, histVars
<1>a. /\ TypeTurns /\ TypeTasks /\ TypeAgent /\ OutOwned /\ QueueOwned
  BY DEF IndInv, TypeOK, Ownership
<1>b. \A q \in Range(queue) : pc[q] = "queued"
  BY <1>a, RangeQueued
<1>h. queue # << >> => pc[Head(queue)] = "queued" /\ Head(queue) \in Prompts
  BY <1>a, HeadQueued
<1>s. SteersAbsent
  BY DEF Slot
<1>d. \A q \in Prompts : /\ pc[q] \notin {"steer", "steer_begin", "steer_push", "kicked"}
                         /\ pc[q] \notin SteerPCs
  BY <1>s DEF SteersAbsent
<1>e. "error" \notin Events /\ Perms = {}
  BY DEF Reportable
<1>z. ASSUME UNCHANGED outcome, alive' => alive,
             \A q \in Prompts : pc[q] \in After => pc'[q] \in After,
             recording' \in {recording, 0} \/ turns' # << >>
      PROVE  AnswerMove
  BY <1>z DEF AnswerMove
<1>c. ASSUME NEW p \in Prompts, CloseCurrent(p)
      PROVE  recording' \in {recording, 0} \/ turns' # << >>
  <2>1. recording' = recording \/ \E t : turns' = Append(turns, t)
    BY <1>c DEF CloseCurrent
  <2>2. \A t : Len(Append(turns, t)) = Len(turns) + 1 /\ Len(turns) \in Nat
    BY <1>a DEF TypeTurns
  <2> QED
    BY <2>1, <2>2

<1>1. CASE RecordPark \/ ParkedDue \/ PassOver \/ ClearStale \/ UnscheduleResume \/
   CancelSend \/ GateRises \/ GateExpires \/ AgentDies \/ WatchScan \/ CloseSession \/
   Supersede \/ HandoffOne \/ HandoffReported \/ SessionUpdate \/ UNCHANGED vars
  <2>1. UNCHANGED <<outcome, pc, recording>> /\ (alive' => alive)
    BY <1>1 DEF RecordPark, ParkedDue, PassOver, ClearStale, UnscheduleResume, CancelSend,
       GateRises, GateExpires, AgentDies, WatchScan, CloseSession, Supersede, HandoffOne,
       HandoffReported, SessionUpdate, vars
  <2> QED
    BY <2>1, <1>z
<1>2. ASSUME NEW p \in Prompts, Send(p) PROVE AnswerMove
  <2>1. UNCHANGED <<outcome, alive>>
    BY <1>2, <1>d DEF Send, SteerPCs
  <2>3. recording' \in {recording, 0} \/ turns' # << >>
    BY <1>2, <1>a, <1>d DEF Send, SteerPCs, TypeTurns
  <2>2. \A q \in Prompts : pc[q] \in After => pc'[q] \in After
    BY <1>2, <1>a, <1>b, <1>d, <1>h DEF Send, After, TypeTasks, SteerPCs
  <2> QED
    BY <2>1, <2>2, <2>3, <1>z
<1>3. ASSUME NEW p \in Prompts, SendQueued(p) PROVE AnswerMove
  <2>1. UNCHANGED <<outcome, alive>>
    BY <1>3, <1>d DEF SendQueued, SteerPCs
  <2>3. recording' \in {recording, 0} \/ turns' # << >>
    BY <1>3, <1>a, <1>d DEF SendQueued, SteerPCs, TypeTurns
  <2>2. \A q \in Prompts : pc[q] \in After => pc'[q] \in After
    BY <1>3, <1>a, <1>b, <1>d, <1>h DEF SendQueued, After, TypeTasks, SteerPCs
  <2> QED
    BY <2>1, <2>2, <2>3, <1>z
<1>4. ASSUME NEW p \in Prompts, SteerSend(p) PROVE AnswerMove
  <2>1. UNCHANGED <<outcome, alive>>
    BY <1>4, <1>d DEF SteerSend, SteerPCs
  <2>3. recording' \in {recording, 0} \/ turns' # << >>
    BY <1>4, <1>a, <1>d DEF SteerSend, SteerPCs, TypeTurns
  <2>2. \A q \in Prompts : pc[q] \in After => pc'[q] \in After
    BY <1>4, <1>a, <1>b, <1>d, <1>h DEF SteerSend, After, TypeTasks, SteerPCs
  <2> QED
    BY <2>1, <2>2, <2>3, <1>z
<1>5. ASSUME NEW p \in Prompts, BeginChecked(p) PROVE AnswerMove
  <2>1. UNCHANGED <<outcome, alive>>
    BY <1>5, <1>d DEF BeginChecked, SteerPCs, StampTurn
  <2>3. recording' \in {recording, 0} \/ turns' # << >>
    BY <1>5, <1>a, <1>d DEF BeginChecked, SteerPCs, TypeTurns, StampTurn
  <2>2. \A q \in Prompts : pc[q] \in After => pc'[q] \in After
    BY <1>5, <1>a, <1>b, <1>d, <1>h DEF BeginChecked, After, TypeTasks, SteerPCs, StampTurn
  <2> QED
    BY <2>1, <2>2, <2>3, <1>z
<1>6. ASSUME NEW p \in Prompts, LogPrompt(p) PROVE AnswerMove
  <2>1. UNCHANGED <<outcome, alive>>
    BY <1>6, <1>d DEF LogPrompt, SteerPCs
  <2>3. recording' \in {recording, 0} \/ turns' # << >>
    BY <1>6, <1>a, <1>d DEF LogPrompt, SteerPCs, TypeTurns
  <2>2. \A q \in Prompts : pc[q] \in After => pc'[q] \in After
    BY <1>6, <1>a, <1>b, <1>d, <1>h DEF LogPrompt, After, TypeTasks, SteerPCs
  <2> QED
    BY <2>1, <2>2, <2>3, <1>z
<1>7. ASSUME NEW p \in Prompts, LogFails(p) PROVE AnswerMove
  <2>1. UNCHANGED <<outcome, alive>>
    BY <1>7, <1>d DEF LogFails, SteerPCs
  <2>3. recording' \in {recording, 0} \/ turns' # << >>
    BY <1>7, <1>a, <1>d DEF LogFails, SteerPCs, TypeTurns
  <2>2. \A q \in Prompts : pc[q] \in After => pc'[q] \in After
    BY <1>7, <1>a, <1>b, <1>d, <1>h DEF LogFails, After, TypeTasks, SteerPCs
  <2> QED
    BY <2>1, <2>2, <2>3, <1>z
<1>8. ASSUME NEW p \in Prompts, SendPrompt(p) PROVE AnswerMove
  <2>1. UNCHANGED <<outcome, alive>>
    BY <1>8, <1>d DEF SendPrompt, SteerPCs
  <2>3. recording' \in {recording, 0} \/ turns' # << >>
    BY <1>8, <1>a, <1>d DEF SendPrompt, SteerPCs, TypeTurns
  <2>2. \A q \in Prompts : pc[q] \in After => pc'[q] \in After
    BY <1>8, <1>a, <1>b, <1>d, <1>h DEF SendPrompt, After, TypeTasks, SteerPCs
  <2> QED
    BY <2>1, <2>2, <2>3, <1>z
<1>9. ASSUME NEW p \in Prompts, SteerPush(p) PROVE AnswerMove
  <2>1. UNCHANGED <<outcome, alive>>
    BY <1>9, <1>d DEF SteerPush, SteerPCs
  <2>3. recording' \in {recording, 0} \/ turns' # << >>
    BY <1>9, <1>a, <1>d DEF SteerPush, SteerPCs, TypeTurns
  <2>2. \A q \in Prompts : pc[q] \in After => pc'[q] \in After
    BY <1>9, <1>a, <1>b, <1>d, <1>h DEF SteerPush, After, TypeTasks, SteerPCs
  <2> QED
    BY <2>1, <2>2, <2>3, <1>z
<1>10. ASSUME NEW p \in Prompts, SteerEnqueue(p) PROVE AnswerMove
  <2>1. UNCHANGED <<outcome, alive>>
    BY <1>10, <1>d DEF SteerEnqueue, SteerPCs
  <2>3. recording' \in {recording, 0} \/ turns' # << >>
    BY <1>10, <1>a, <1>d DEF SteerEnqueue, SteerPCs, TypeTurns
  <2>2. \A q \in Prompts : pc[q] \in After => pc'[q] \in After
    BY <1>10, <1>a, <1>b, <1>d, <1>h DEF SteerEnqueue, After, TypeTasks, SteerPCs
  <2> QED
    BY <2>1, <2>2, <2>3, <1>z
<1>11. ASSUME NEW p \in Prompts, SteerNoteLimit(p) PROVE AnswerMove
  <2>1. UNCHANGED <<outcome, alive>>
    BY <1>11, <1>d DEF SteerNoteLimit, SteerPCs
  <2>3. recording' \in {recording, 0} \/ turns' # << >>
    BY <1>11, <1>a, <1>d DEF SteerNoteLimit, SteerPCs, TypeTurns
  <2>2. \A q \in Prompts : pc[q] \in After => pc'[q] \in After
    BY <1>11, <1>a, <1>b, <1>d, <1>h DEF SteerNoteLimit, After, TypeTasks, SteerPCs
  <2> QED
    BY <2>1, <2>2, <2>3, <1>z
<1>12. ASSUME NEW p \in Prompts, SteerResolved(p) PROVE AnswerMove
  <2>1. UNCHANGED <<outcome, alive>>
    BY <1>12, <1>d DEF SteerResolved, SteerPCs
  <2>3. recording' \in {recording, 0} \/ turns' # << >>
    BY <1>12, <1>a, <1>d DEF SteerResolved, SteerPCs, TypeTurns
  <2>2. \A q \in Prompts : pc[q] \in After => pc'[q] \in After
    BY <1>12, <1>a, <1>b, <1>d, <1>h DEF SteerResolved, After, TypeTasks, SteerPCs
  <2> QED
    BY <2>1, <2>2, <2>3, <1>z
<1>13. ASSUME NEW p \in Prompts, KickWire(p) PROVE AnswerMove
  <2>1. UNCHANGED <<outcome, alive>>
    BY <1>13, <1>d DEF KickWire, SteerPCs
  <2>3. recording' \in {recording, 0} \/ turns' # << >>
    BY <1>13, <1>a, <1>d DEF KickWire, SteerPCs, TypeTurns
  <2>2. \A q \in Prompts : pc[q] \in After => pc'[q] \in After
    BY <1>13, <1>a, <1>b, <1>d, <1>h DEF KickWire, After, TypeTasks, SteerPCs
  <2> QED
    BY <2>1, <2>2, <2>3, <1>z
<1>14. ASSUME NEW p \in Prompts, SettleTurn(p) PROVE AnswerMove
  <2>1. UNCHANGED <<outcome, alive>>
    BY <1>14, <1>d DEF SettleTurn, SteerPCs, FinishBegins, UnchangedByFinish, DropQueue,
       ChainReady
  <2>3. recording' \in {recording, 0} \/ turns' # << >>
    BY <1>14, <1>c, <1>d DEF SettleTurn
  <2>2. \A q \in Prompts : pc[q] \in After => pc'[q] \in After
    BY <1>14, <1>a, <1>b, <1>d, <1>h DEF SettleTurn, After, TypeTasks, SteerPCs,
       FinishBegins, UnchangedByFinish, DropQueue, ChainReady
  <2> QED
    BY <2>1, <2>2, <2>3, <1>z
<1>15. ASSUME NEW p \in Prompts, FailTurn(p) PROVE AnswerMove
  <2>1. UNCHANGED <<outcome, alive>>
    BY <1>15, <1>d DEF FailTurn, SteerPCs, FinishBegins, UnchangedByFinish, DropQueue
  <2>3. recording' \in {recording, 0} \/ turns' # << >>
    BY <1>15, <1>c, <1>d DEF FailTurn
  <2>2. \A q \in Prompts : pc[q] \in After => pc'[q] \in After
    BY <1>15, <1>a, <1>b, <1>d, <1>h DEF FailTurn, After, TypeTasks, SteerPCs,
       FinishBegins, UnchangedByFinish, DropQueue
  <2> QED
    BY <2>1, <2>2, <2>3, <1>z
<1>16. ASSUME NEW p \in Prompts, ParkTurn(p) PROVE AnswerMove
  <2>1. UNCHANGED <<outcome, alive>>
    BY <1>16, <1>d DEF ParkTurn, SteerPCs, FinishBegins, UnchangedByFinish
  <2>3. recording' \in {recording, 0} \/ turns' # << >>
    BY <1>16, <1>c, <1>d DEF ParkTurn
  <2>2. \A q \in Prompts : pc[q] \in After => pc'[q] \in After
    BY <1>16, <1>a, <1>b, <1>d, <1>h DEF ParkTurn, After, TypeTasks, SteerPCs,
       FinishBegins, UnchangedByFinish
  <2> QED
    BY <2>1, <2>2, <2>3, <1>z
<1>17. ASSUME NEW p \in Prompts, RecordTurnEnd(p) PROVE AnswerMove
  <2>1. UNCHANGED <<outcome, alive>>
    BY <1>17, <1>d DEF RecordTurnEnd, SteerPCs
  <2>3. recording' \in {recording, 0} \/ turns' # << >>
    BY <1>17, <1>a, <1>d DEF RecordTurnEnd, SteerPCs, TypeTurns
  <2>2. \A q \in Prompts : pc[q] \in After => pc'[q] \in After
    BY <1>17, <1>a, <1>b, <1>d, <1>h DEF RecordTurnEnd, After, TypeTasks, SteerPCs
  <2> QED
    BY <2>1, <2>2, <2>3, <1>z
<1>18. ASSUME NEW p \in Prompts, ClearRecording(p) PROVE AnswerMove
  <2>1. UNCHANGED <<outcome, alive>>
    BY <1>18, <1>d DEF ClearRecording, SteerPCs
  <2>3. recording' = 0
    BY <1>18, <1>a, <1>d DEF ClearRecording, SteerPCs, TypeTurns
  <2>2. \A q \in Prompts : pc[q] \in After => pc'[q] \in After
    BY <1>18, <1>a, <1>b, <1>d, <1>h DEF ClearRecording, After, TypeTasks, SteerPCs
  <2> QED
    BY <2>1, <2>2, <2>3, <1>z
<1>19. ASSUME NEW p \in Prompts, NoteLimit(p) PROVE AnswerMove
  <2>1. UNCHANGED <<outcome, alive>>
    BY <1>19, <1>d DEF NoteLimit, SteerPCs
  <2>3. recording' \in {recording, 0} \/ turns' # << >>
    BY <1>19, <1>a, <1>d DEF NoteLimit, SteerPCs, TypeTurns
  <2>2. \A q \in Prompts : pc[q] \in After => pc'[q] \in After
    BY <1>19, <1>a, <1>b, <1>d, <1>h DEF NoteLimit, After, TypeTasks, SteerPCs
  <2> QED
    BY <2>1, <2>2, <2>3, <1>z
<1>20. ASSUME NEW p \in Prompts, SpawnChained(p) PROVE AnswerMove
  <2>1. UNCHANGED <<outcome, alive>>
    BY <1>20, <1>d DEF SpawnChained, SteerPCs, StampTurn, Unstarted
  <2>3. recording' \in {recording, 0} \/ turns' # << >>
    BY <1>20, <1>a, <1>d DEF SpawnChained, SteerPCs, TypeTurns, StampTurn, Unstarted
  <2>2. \A q \in Prompts : pc[q] \in After => pc'[q] \in After
    BY <1>20, <1>a, <1>b, <1>d, <1>h DEF SpawnChained, After, TypeTasks, SteerPCs,
       StampTurn, Unstarted
  <2> QED
    BY <2>1, <2>2, <2>3, <1>z
<1>21. ASSUME NEW p \in Prompts, Repark(p) PROVE AnswerMove
  <2>1. UNCHANGED <<outcome, alive>>
    BY <1>21, <1>d DEF Repark, SteerPCs
  <2>3. recording' \in {recording, 0} \/ turns' # << >>
    BY <1>21, <1>a, <1>d DEF Repark, SteerPCs, TypeTurns
  <2>2. \A q \in Prompts : pc[q] \in After => pc'[q] \in After
    BY <1>21, <1>a, <1>b, <1>d, <1>h DEF Repark, After, TypeTasks, SteerPCs
  <2> QED
    BY <2>1, <2>2, <2>3, <1>z
<1>22. ASSUME NEW p \in Prompts, ReserveResume(p) PROVE AnswerMove
  <2>1. UNCHANGED <<outcome, alive>>
    BY <1>22, <1>d DEF ReserveResume, SteerPCs
  <2>3. recording' \in {recording, 0} \/ turns' # << >>
    BY <1>22, <1>a, <1>d DEF ReserveResume, SteerPCs, TypeTurns
  <2>2. \A q \in Prompts : pc[q] \in After => pc'[q] \in After
    BY <1>22, <1>a, <1>b, <1>d, <1>h DEF ReserveResume, After, TypeTasks, SteerPCs
  <2> QED
    BY <2>1, <2>2, <2>3, <1>z
<1>23. ASSUME NEW p \in Prompts, ClearParked(p) PROVE AnswerMove
  <2>1. UNCHANGED <<outcome, alive>>
    BY <1>23, <1>d DEF ClearParked, SteerPCs
  <2>3. recording' \in {recording, 0} \/ turns' # << >>
    BY <1>23, <1>a, <1>d DEF ClearParked, SteerPCs, TypeTurns
  <2>2. \A q \in Prompts : pc[q] \in After => pc'[q] \in After
    BY <1>23, <1>a, <1>b, <1>d, <1>h DEF ClearParked, After, TypeTasks, SteerPCs
  <2> QED
    BY <2>1, <2>2, <2>3, <1>z
<1>24. ASSUME NEW p \in Prompts, ResumeBegin(p) PROVE AnswerMove
  <2>1. UNCHANGED <<outcome, alive>>
    BY <1>24, <1>d DEF ResumeBegin, SteerPCs, StampTurn, Unstarted
  <2>3. recording' \in {recording, 0} \/ turns' # << >>
    BY <1>24, <1>a, <1>d DEF ResumeBegin, SteerPCs, TypeTurns, StampTurn, Unstarted
  <2>2. \A q \in Prompts : pc[q] \in After => pc'[q] \in After
    BY <1>24, <1>a, <1>b, <1>d, <1>h DEF ResumeBegin, After, TypeTasks, SteerPCs,
       StampTurn, Unstarted
  <2> QED
    BY <2>1, <2>2, <2>3, <1>z
<1>25. ASSUME NEW p \in Prompts, Answer(p) PROVE AnswerMove
  <2>1. pc[p] \notin After
    BY <1>25, <1>a DEF Answer, OutOwned, After
  <2>2. PICK o \in Outcomes : /\ outcome' = [outcome EXCEPT ![p] = o]
                              /\ o = "limit" => "limit" \in Events
                              /\ o = "error" => ~alive
    BY <1>25, <1>e DEF Answer
  <2>3. UNCHANGED <<alive, recording>> /\ \A q \in Prompts : q # p => pc'[q] = pc[q]
    BY <1>25, <1>a DEF Answer, TypeTasks
  <2> QED
    BY <2>1, <2>2, <2>3, <1>a DEF TypeTasks, AnswerMove
<1>26. CASE Teardown
  <2>1. CloseSub
    BY <1>26 DEF Teardown
  <2>2. /\ UNCHANGED <<outcome, recording>>
        /\ \A q \in Prompts : pc[q] \in After => pc'[q] \in After
    BY <2>1, <1>a, <1>b DEF CloseSub, DropQueue, After, TypeTasks
  <2> QED
    BY <2>1, <2>2, <1>z DEF CloseSub
<1>27. CASE HandedClose
  <2>1. CloseSub
    BY <1>27 DEF HandedClose
  <2>2. /\ UNCHANGED <<outcome, recording>>
        /\ \A q \in Prompts : pc[q] \in After => pc'[q] \in After
    BY <2>1, <1>a, <1>b DEF CloseSub, DropQueue, After, TypeTasks
  <2> QED
    BY <2>1, <2>2, <1>z DEF CloseSub
<1>28. CASE OnDisconnect
  <2>1. /\ UNCHANGED <<outcome, alive, recording>>
        /\ \A q \in Prompts : pc[q] \in After => pc'[q] \in After
    BY <1>28, <1>a, <1>b DEF OnDisconnect, DropQueue, After, TypeTasks
  <2> QED
    BY <2>1, <1>z
<1>29. CASE CancelTurn
  <2>1. /\ UNCHANGED <<outcome, alive, recording>>
        /\ \A q \in Prompts : pc[q] \in After => pc'[q] \in After
    BY <1>29, <1>a, <1>b DEF CancelTurn, DropQueue, After, TypeTasks
  <2> QED
    BY <2>1, <1>z
<1>30. ASSUME NEW r \in Perms PROVE AnswerMove
  BY <1>e
<1> QED
  BY <1>1, <1>2, <1>3, <1>4, <1>5, <1>6, <1>7, <1>8, <1>9, <1>10, <1>11, <1>12, <1>13,
     <1>14, <1>15, <1>16, <1>17, <1>18, <1>19, <1>20, <1>21, <1>22, <1>23, <1>24, <1>25,
     <1>26, <1>27, <1>28, <1>29, <1>30
     DEF Next, WireFree, WireTaking, Scheduler, Teardowns, Prompts

\* A prompt fails with its agent, and meets a limit where limits happen.
Causes == \A p \in Prompts : /\ outcome[p] = "error" => ~alive
                             /\ outcome[p] = "limit" => "limit" \in Events

\* A settled turn is judged by the answer it was settled by.
Judged == \A i \in 1..Len(turns) :
    /\ pc[turns[i].by] \in After /\ outcome[turns[i].by] # "none"
    /\ turns[i].limited <=> outcome[turns[i].by] = "limit"

\* A turn that failed was the last one.
LastFailed ==
    (\E i \in 1..Len(turns) : outcome[turns[i].by] = "error")
        => ~alive /\ NoneInTurn /\ status \in {"failed", "exited", "cancelled"}

\* While the agent lives, a turn that has begun is running.
Working == current # NoTurn /\ alive => status = "running"

\* The end that is being recorded is a settled turn's.
Marked == recording # 0 => turns # << >>

\* What is known of the turns and the answers to their prompts.
JudgedInv == Stamped /\ Causes /\ Judged /\ LastFailed /\ Working /\ Marked

\* No step parts a settled turn from the answer it was settled by.
LEMMA JudgedStep ==
    ASSUME Reportable, IndInv, Handoff, status # "needs_permission", JudgedInv, [Next]_vars
    PROVE  JudgedInv'
<1>a. TypeTurns /\ TypeTasks
  BY DEF IndInv, TypeOK
<1>b. Stamped /\ Causes /\ Judged /\ LastFailed /\ Working /\ Marked
  BY DEF JudgedInv
<1>m. TurnMove
  BY TurnMoves, <1>b
<1>k. AnswerMove
  BY AnswersKept, <1>b DEF Handoff
<1>y. \A i \in 1..Len(turns) : turns[i].by \in Prompts
  <2>1. \A i \in 1..Len(turns) : turns[i] \in Settled
    BY <1>a DEF TypeTurns
  <2> QED
    BY <2>1 DEF Settled
<1>1. Stamped'
  <2>1. CASE Rests \/ Takes \/ Shuts
    BY <2>1, <1>b DEF Stamped, Rests, Takes, Shuts
  <2>2. CASE Begins
    BY <2>2 DEF Stamped, Begins
  <2>3. CASE Undoes
    BY <2>3 DEF Stamped, Undoes, NoneInTurn
  <2>4. ASSUME NEW p \in Prompts, Settles(p) PROVE Stamped'
    BY <2>4 DEF Stamped, Settles, NoneInTurn
  <2> QED
    BY <1>m, <2>1, <2>2, <2>3, <2>4 DEF TurnMove
<1>2. Causes'
  BY <1>b, <1>k DEF Causes, AnswerMove
<1>3. ASSUME UNCHANGED turns PROVE Judged'
  BY <1>3, <1>b, <1>k, <1>y DEF Judged, AnswerMove
<1>4. ASSUME UNCHANGED turns,
             \E i \in 1..Len(turns) : outcome'[turns[i].by] = "error"
      PROVE  ~alive /\ NoneInTurn /\ status \in {"failed", "exited", "cancelled"} /\ ~alive'
  BY <1>4, <1>b, <1>k, <1>y DEF Judged, LastFailed, AnswerMove
<1>5. ASSUME NEW p \in Prompts, Settles(p) PROVE Judged' /\ LastFailed' /\ Working'
  <2> DEFINE t == [n |-> NextTurn, p |-> current.p, by |-> p,
                   limited |-> outcome[p] = "limit"]
  <2>1. turns' = Append(turns, t) /\ turns \in Seq(Settled)
    BY <1>5, <1>a DEF Settles, TypeTurns
  <2>2. /\ Len(turns') = Len(turns) + 1 /\ Len(turns) \in Nat
        /\ \A i \in 1..Len(turns') : IF i = Len(turns) + 1 THEN turns'[i] = t
                                     ELSE i \in 1..Len(turns) /\ turns'[i] = turns[i]
    <3> HIDE DEF t
    <3> QED
      BY <2>1
  <2>3. Judged'
    <3>1. ASSUME NEW i \in 1..Len(turns')
          PROVE  /\ pc'[turns'[i].by] \in After /\ outcome'[turns'[i].by] # "none"
                 /\ turns'[i].limited <=> outcome'[turns'[i].by] = "limit"
      <4>1. CASE i = Len(turns) + 1
        <5>1. turns'[i].by = p /\ turns'[i].limited = (outcome[p] = "limit")
          BY <4>1, <2>2
        <5> QED
          BY <5>1, <1>5 DEF Settles, After
      <4>2. CASE i # Len(turns) + 1
        BY <4>2, <2>2, <1>b, <1>k, <1>y DEF Judged, AnswerMove
      <4> QED
        BY <4>1, <4>2
    <3> QED
      BY <3>1 DEF Judged
  <2>4. ASSUME NEW i \in 1..Len(turns'), outcome'[turns'[i].by] = "error"
        PROVE  ~alive' /\ NoneInTurn' /\ status' \in {"failed", "exited", "cancelled"}
    <3>1. ~alive'
      BY <2>4, <2>2, <1>2, <1>5, <1>y DEF Causes
    <3>2. CASE i = Len(turns) + 1
      <4>1. outcome[p] = "error"
        BY <2>2, <2>4, <3>2, <1>5 DEF Settles
      <4> QED
        BY <3>1, <4>1, <1>5 DEF Settles
    <3>3. CASE i # Len(turns) + 1
      <4>1. NoneInTurn
        BY <2>2, <2>4, <3>3, <1>5, <1>b DEF LastFailed, Settles
      <4> QED
        BY <4>1, <1>5 DEF NoneInTurn, Settles
    <3> QED
      BY <3>2, <3>3
  <2>5. LastFailed'
    BY <2>4 DEF LastFailed
  <2> QED
    BY <2>3, <2>5, <1>5 DEF Working, Settles
<1>6. ASSUME Rests PROVE Judged' /\ LastFailed' /\ Working'
  BY <1>3, <1>4, <1>6, <1>b, <1>k DEF Rests, LastFailed, Working, NoneInTurn, AnswerMove
<1>7. ASSUME Begins PROVE Judged' /\ LastFailed' /\ Working'
  BY <1>3, <1>4, <1>7 DEF Begins, LastFailed, Working
<1>8. ASSUME Undoes PROVE Judged' /\ LastFailed' /\ Working'
  BY <1>3, <1>4, <1>8 DEF Undoes, LastFailed, Working
<1>9. ASSUME Takes PROVE Judged' /\ LastFailed' /\ Working'
  BY <1>3, <1>4, <1>9, <1>b DEF Takes, LastFailed, Working
<1>10. ASSUME Shuts PROVE Judged' /\ LastFailed' /\ Working'
  BY <1>3, <1>4, <1>10, <1>b DEF Shuts, LastFailed, Working, NoneInTurn
<1>11. Judged' /\ LastFailed' /\ Working'
  BY <1>m, <1>5, <1>6, <1>7, <1>8, <1>9, <1>10 DEF TurnMove
<1>12. Marked'
  <2>1. turns # << >> => turns' # << >>
    <3>1. turns' = turns \/ \E t : turns' = Append(turns, t)
      BY <1>m DEF TurnMove, Rests, Begins, Undoes, Settles, Takes, Shuts
    <3>2. \A t : Len(Append(turns, t)) = Len(turns) + 1 /\ Len(turns) \in Nat
      BY <1>a DEF TypeTurns
    <3> QED
      BY <3>1, <3>2
  <2> QED
    BY <2>1, <1>b, <1>k DEF Marked, AnswerMove
<1> QED
  BY <1>1, <1>2, <1>11, <1>12 DEF JudgedInv

\* So it is in every reachable state.
LEMMA JudgedHolds == ASSUME Reportable PROVE Spec => []JudgedInv
<1>1. Init => JudgedInv
  <2> SUFFICES ASSUME Init PROVE JudgedInv
    OBVIOUS
  <2>1. \A p \in Prompts : pc[p] = "new" /\ outcome[p] = "none"
    BY DEF Init
  <2>2. turns = << >> /\ Len(turns) = 0 /\ current = NoTurn /\ recording = 0
    BY DEF Init
  <2> QED
    BY <2>1, <2>2 DEF JudgedInv, Stamped, Causes, Judged, LastFailed, Working, Marked,
       InTurn, TurnPCs
<1>2. IndInv /\ Handoff /\ status # "needs_permission" /\ JudgedInv /\ [Next]_vars
        => JudgedInv'
  BY JudgedStep
<1>3. Spec => [](status # "needs_permission")
  BY NeverAsks DEF Reportable
<1>4. Spec => []Handoff
  BY HandoffInvariant DEF Reportable
<1> QED
  BY <1>1, <1>2, <1>3, <1>4, Inductive, PTL DEF Spec

\* The turn a wait is bound to has settled, is in flight, is the next one of a
\* session that is working or parked, or the agent it was for is gone.
Coming(n) == \/ HasSettled(n)
             \/ /\ n = NextTurn
                /\ current # NoTurn \/ status \in {"running", "rate_limited"} \/ ~alive

\* A turn reported as over has an end other than a limit, or it was given up with its
\* agent and then nothing follows it.
Excuse(n) == \/ \E i \in SettledTurns(n) : ~turns[i].limited
             \/ /\ ~alive /\ status # "running"
                /\ HasSettled(n) => /\ NoneInTurn
                                    /\ status \in {"rate_limited", "failed", "exited",
                                                   "cancelled"}

BoundWaits == \A w \in Waiting :
    wpc[w] \in {"binding", "waiting"} => bound[w] \in Nat \ {0} /\ Coming(bound[w])
Excused == \A w \in Waiting :
    wpc[w] = "leaving" /\ told[w] = "ended" /\ bound[w] # 0 => Excuse(bound[w])

\* What a settled turn becomes with a step: more may settle, none is changed.
LEMMA SettledKept ==
    ASSUME TypeOK, Numbering, TurnMove, NEW n \in Nat
    PROVE  /\ HasSettled(n) => HasSettled(n)'
           /\ (\E i \in SettledTurns(n) : ~turns[i].limited)
                => (\E i \in SettledTurns(n) : ~turns[i].limited)'
           /\ UNCHANGED turns => (HasSettled(n)' <=> HasSettled(n)) /\ NextTurn' = NextTurn
<1>a. turns \in Seq(Settled) /\ Len(turns) \in Nat
  BY DEF TypeOK, TypeTurns
<1>1. CASE UNCHANGED turns
  BY <1>1 DEF HasSettled, SettledTurns, NextTurn
<1>2. ASSUME NEW t, turns' = Append(turns, t)
      PROVE  /\ HasSettled(n) => HasSettled(n)'
             /\ (\E i \in SettledTurns(n) : ~turns[i].limited)
                  => (\E i \in SettledTurns(n) : ~turns[i].limited)'
  <2>1. /\ Len(turns') = Len(turns) + 1
        /\ \A i \in 1..Len(turns) : turns'[i] = turns[i]
    BY <1>2, <1>a
  <2>2. SettledTurns(n) \subseteq SettledTurns(n)'
    BY <2>1, <1>a DEF SettledTurns
  <2>3. \A i \in SettledTurns(n) : i \in SettledTurns(n)' /\ turns'[i] = turns[i]
    BY <2>1, <2>2 DEF SettledTurns
  <2> QED
    BY <2>3 DEF HasSettled
<1>3. UNCHANGED turns \/ \E t : turns' = Append(turns, t)
  BY DEF TurnMove, Rests, Begins, Undoes, Settles, Takes, Shuts
<1>4. UNCHANGED turns => (HasSettled(n)' <=> HasSettled(n)) /\ NextTurn' = NextTurn
  BY <1>1
<1> QED
  BY <1>1, <1>2, <1>3, <1>4

\* What settles is the next turn, under the limit of the answer that settled it.
LEMMA SettledNext ==
    ASSUME TypeOK, Numbering, NEW p \in Prompts, Settles(p), NEW n \in Nat
    PROVE  /\ HasSettled(n)' => HasSettled(n) \/ n = NextTurn
           /\ n = NextTurn => HasSettled(n)'
           /\ n = NextTurn /\ outcome[p] # "limit"
                => (\E i \in SettledTurns(n) : ~turns[i].limited)'
<1> DEFINE t == [n |-> NextTurn, p |-> current.p, by |-> p,
                 limited |-> outcome[p] = "limit"]
<1>a. turns \in Seq(Settled) /\ Len(turns) \in Nat /\ turns' = Append(turns, t)
  BY DEF TypeOK, TypeTurns, Settles
<1>b. t.n = NextTurn /\ t.limited = (outcome[p] = "limit")
  OBVIOUS
<1> HIDE DEF t
<1>1. /\ Len(turns') = Len(turns) + 1 /\ turns'[Len(turns) + 1] = t
      /\ \A i \in 1..Len(turns) : turns'[i] = turns[i]
  BY <1>a
<1>2. Len(turns) + 1 \in 1..Len(turns')
  BY <1>a, <1>1
<1>3. n = NextTurn => Len(turns) + 1 \in SettledTurns(n)'
  BY <1>1, <1>2, <1>b DEF SettledTurns
<1>4. ASSUME HasSettled(n)' PROVE HasSettled(n) \/ n = NextTurn
  <2>1. PICK i \in 1..Len(turns') : turns'[i].n = n
    BY <1>4 DEF HasSettled, SettledTurns
  <2>2. CASE i = Len(turns) + 1
    BY <2>1, <2>2, <1>1, <1>b
  <2>3. CASE i # Len(turns) + 1
    <3>1. i \in 1..Len(turns) /\ turns[i].n = n
      BY <2>1, <2>3, <1>1, <1>a
    <3> QED
      BY <3>1 DEF HasSettled, SettledTurns
  <2> QED
    BY <2>2, <2>3
<1>5. n = NextTurn => HasSettled(n)'
  BY <1>3 DEF HasSettled
<1>6. n = NextTurn /\ outcome[p] # "limit"
        => (\E i \in SettledTurns(n) : ~turns[i].limited)'
  BY <1>1, <1>3, <1>b
<1> QED
  BY <1>4, <1>5, <1>6

\* The turn a wait is bound to stays in sight.
LEMMA ComingKept ==
    ASSUME Reportable, "limit" \in Events, TypeOK, Numbering, TurnMove, AnswerMove,
           NEW n \in Nat, Coming(n)
    PROVE  Coming(n)'
<1>1. CASE HasSettled(n)
  BY <1>1, SettledKept DEF Coming
<1>2. CASE ~HasSettled(n)
  <2>1. /\ n = NextTurn
        /\ current # NoTurn \/ status \in {"running", "rate_limited"} \/ ~alive
    BY <1>2 DEF Coming
  <2>2. CASE UNCHANGED turns
    <3>1. n = NextTurn'
      BY <2>1, <2>2, SettledKept
    <3>2. (current # NoTurn \/ status \in {"running", "rate_limited"} \/ ~alive)'
      <4>1. CASE Rests
        BY <4>1, <2>1 DEF Rests, AnswerMove
      <4>2. CASE Begins \/ Takes \/ Shuts
        BY <4>2 DEF Begins, Takes, Shuts
      <4>3. ~Undoes
        BY DEF Undoes, Reportable
      <4>4. ASSUME NEW p \in Prompts, Settles(p) PROVE FALSE
        <5>1. HasSettled(n)'
          BY <4>4, <2>1, SettledNext
        <5> QED
          BY <5>1, <1>2, <2>2, SettledKept
      <4> QED
        BY <4>1, <4>2, <4>3, <4>4 DEF TurnMove
    <3> QED
      BY <3>1, <3>2 DEF Coming
  <2>3. CASE ~UNCHANGED turns
    <3>1. PICK p \in Prompts : Settles(p)
      BY <2>3 DEF TurnMove, Rests, Begins, Undoes, Takes, Shuts
    <3>2. HasSettled(n)'
      BY <3>1, <2>1, SettledNext
    <3> QED
      BY <3>2 DEF Coming
  <2> QED
    BY <2>2, <2>3
<1> QED
  BY <1>1, <1>2

\* What a wait was told of its turn stays true of it.
LEMMA ExcuseKept ==
    ASSUME Reportable, "limit" \in Events, TypeOK, Numbering, TurnMove, AnswerMove,
           status # "needs_permission", NEW n \in Nat, Excuse(n)
    PROVE  Excuse(n)'
<1>1. CASE \E i \in SettledTurns(n) : ~turns[i].limited
  BY <1>1, SettledKept DEF Excuse
<1>2. CASE ~\E i \in SettledTurns(n) : ~turns[i].limited
  <2>a. /\ ~alive /\ status # "running" /\ ~alive'
        /\ HasSettled(n) => /\ NoneInTurn
                            /\ status \in {"rate_limited", "failed", "exited", "cancelled"}
    BY <1>2 DEF Excuse, AnswerMove
  <2>1. CASE Rests \/ Shuts
    <3>1. HasSettled(n)' <=> HasSettled(n)
      BY <2>1, SettledKept DEF Rests, Shuts
    <3>2. NoneInTurn => NoneInTurn'
      BY <2>1 DEF Rests, Shuts, NoneInTurn
    <3>3. status' \in {status, "cancelled"} /\ status' # "running"
      BY <2>1, <2>a DEF Rests, Shuts
    <3> QED
      BY <3>1, <3>2, <3>3, <2>a DEF Excuse
  <2>2. ~Begins /\ ~Takes /\ ~Undoes
    BY <2>a DEF Begins, Takes, Undoes, Reportable
  <2>3. ASSUME NEW p \in Prompts, Settles(p) PROVE Excuse(n)'
    <3>1. ~HasSettled(n)
      BY <2>3, <2>a DEF Settles, NoneInTurn
    <3>2. status' # "running" /\ NoneInTurn'
      BY <2>3, <2>a DEF Settles
    <3>3. CASE n = NextTurn
      <4>1. CASE outcome[p] = "limit"
        <5>1. status' \in {"rate_limited", "failed", "exited", "cancelled"}
          BY <2>3, <4>1 DEF Settles
        <5> QED
          BY <5>1, <3>2, <2>a DEF Excuse
      <4>2. CASE outcome[p] # "limit"
        <5>1. (\E i \in SettledTurns(n) : ~turns[i].limited)'
          BY <2>3, <3>3, <4>2, SettledNext
        <5> QED
          BY <5>1 DEF Excuse
      <4> QED
        BY <4>1, <4>2
    <3>4. CASE n # NextTurn
      <4>1. ~HasSettled(n)'
        BY <3>1, <3>4, <2>3, SettledNext
      <4> QED
        BY <4>1, <3>2, <2>a DEF Excuse
    <3> QED
      BY <3>3, <3>4
  <2> QED
    BY <2>1, <2>2, <2>3 DEF TurnMove
<1> QED
  BY <1>1, <1>2

\* What a `wait` of a session that limits may park knows of its turn.
WaitsTold == "limit" \in Events => BoundWaits /\ Excused

\* The turn a `wait` binds to is in sight.
LEMMA BoundComing ==
    ASSUME TypeOK, Numbering, RecordingLast, Marked, steerPending = << >>, AwaitedTurn # 0
    PROVE  AwaitedTurn \in Nat \ {0} /\ Coming(AwaitedTurn)
<1>a. /\ Len(turns) \in Nat /\ turns \in Seq(Settled) /\ recording \in Nat
      /\ NextTurn \in Nat \ {0} /\ current.n \in Nat
  BY OffsetAssumption DEF TypeOK, TypeTurns, NextTurn, Turn
<1>1. CASE current # NoTurn /\ (recording # 0 \/ status = "running")
  <2>1. AwaitedTurn = current.n /\ current.n = NextTurn
    BY <1>1 DEF AwaitedTurn, Numbering
  <2> QED
    BY <1>1, <1>a, <2>1 DEF Coming
<1>2. CASE current = NoTurn /\ recording # 0
  <2>1. AwaitedTurn = recording /\ recording = Offset + Len(turns) /\ turns # << >>
    BY <1>2 DEF AwaitedTurn, RecordingLast, Marked
  <2>2. Len(turns) \in 1..Len(turns) /\ turns[Len(turns)].n = recording
    BY <1>a, <2>1 DEF Numbering
  <2>3. HasSettled(recording)
    BY <2>2 DEF HasSettled, SettledTurns
  <2> QED
    BY <1>2, <1>a, <2>1, <2>3 DEF Coming
<1>3. CASE current = NoTurn /\ recording = 0 /\ status = "running"
  BY <1>3, <1>a DEF AwaitedTurn, Coming
<1>4. CASE recording = 0 /\ status = "rate_limited"
  BY <1>4, <1>a DEF AwaitedTurn, Coming
<1> QED
  BY <1>1, <1>2, <1>3, <1>4 DEF AwaitedTurn

\* A wait that finds its turn ended finds it excused.
LEMMA EndedExcused ==
    ASSUME TypeOK, Numbering, Working, steerPending = << >>,
           NEW n \in Nat \ {0}, Coming(n), Awaited(n) = "ended"
    PROVE  Excuse(n)
<1>a. Range(steerPending) = {} /\ Len(turns) \in Nat /\ turns \in Seq(Settled)
  BY DEF Range, TypeOK, TypeTurns
<1>1. CASE current # NoTurn /\ current.n = n
  <2>1. status # "running" /\ ~alive
    BY <1>1 DEF Awaited, Working
  <2>2. ~HasSettled(n)
    BY <1>1, <1>a, OffsetAssumption DEF Numbering, NextTurn, HasSettled, SettledTurns
  <2> QED
    BY <2>1, <2>2 DEF Excuse
<1>2. CASE ~(current # NoTurn /\ current.n = n)
  <2>1. /\ ~\E i \in SettledTurns(n) : turns[i].limited
        /\ ~(status = "running" /\ current = NoTurn /\ NextTurn = n)
        /\ status # "rate_limited"
    BY <1>2, <1>a DEF Awaited
  <2>2. CASE HasSettled(n)
    <3>1. PICK i \in SettledTurns(n) : TRUE
      BY <2>2 DEF HasSettled
    <3> QED
      BY <2>1, <3>1 DEF Excuse
  <2>3. CASE ~HasSettled(n)
    <3>1. current = NoTurn /\ n = NextTurn /\ ~alive
      BY <2>1, <2>3, <1>2 DEF Coming, Numbering
    <3> QED
      BY <2>1, <2>3, <3>1 DEF Excuse
  <2> QED
    BY <2>2, <2>3
<1> QED
  BY <1>1, <1>2

\* Every step keeps what the waits know.
LEMMA ToldStep ==
    ASSUME Reportable, IndInv, Handoff, status # "needs_permission", JudgedInv,
           RecordingLast, WaitTypes, WaitsTold, [WaitNext]_allVars
    PROVE  WaitsTold'
<1> SUFFICES ASSUME "limit" \in Events PROVE BoundWaits' /\ Excused'
  BY DEF WaitsTold
<1>a. /\ TypeOK /\ Numbering /\ Stamped /\ Working /\ Marked /\ Slot
      /\ BoundWaits /\ Excused /\ steerPending = << >>
  BY DEF IndInv, JudgedInv, Handoff, Slot, SteersAbsent, WaitsTold
<1>m. TurnMove /\ AnswerMove
  BY <1>a, SessionStepOrNone, TurnMoves, AnswersKept
<1>w. /\ Waiting \subseteq Waiters /\ Waiting \cap Hosts = {}
      /\ \A w \in Waiting : bound[w] \in Nat
  BY HostsAssumption DEF Waiters, WaitTypes, Prompts
<1> DEFINE Told(w) ==
      /\ wpc[w] \in {"binding", "waiting"} => bound[w] \in Nat \ {0} /\ Coming(bound[w])
      /\ wpc[w] = "leaving" /\ told[w] = "ended" /\ bound[w] # 0 => Excuse(bound[w])
<1>1. ASSUME NEW w \in Waiting, UNCHANGED <<wpc[w], bound[w], told[w]>> PROVE Told(w)'
  <2>1. CASE wpc[w] \in {"binding", "waiting"}
    <3>1. bound[w] \in Nat \ {0} /\ Coming(bound[w])
      BY <2>1, <1>a DEF BoundWaits
    <3>2. \A n \in Nat : Coming(n) => Coming(n)'
      BY <1>a, <1>m, ComingKept
    <3> QED
      BY <1>1, <2>1, <3>1, <3>2 DEF Coming, HasSettled, SettledTurns
  <2>2. CASE wpc[w] = "leaving" /\ told[w] = "ended" /\ bound[w] # 0
    <3>1. Excuse(bound[w])
      BY <2>2, <1>a DEF Excused
    <3>2. \A n \in Nat : Excuse(n) => Excuse(n)'
      BY <1>a, <1>m, ExcuseKept
    <3> QED
      BY <1>1, <1>w, <2>2, <3>1, <3>2, SMTT(30) DEF Excuse, HasSettled, SettledTurns
  <2> QED
    BY <1>1, <2>1, <2>2
<1>u. ASSUME UNCHANGED vars
      PROVE  \A n : (Coming(n)' <=> Coming(n)) /\ (Excuse(n)' <=> Excuse(n))
  BY <1>u DEF vars, turnVars, rtVars, taskVars, agentVars, Coming, Excuse, HasSettled,
     SettledTurns, NextTurn, NoneInTurn, InTurn
<1>2. ASSUME NEW w \in Waiting, Wait(w) PROVE Told(w)'
  <2>1. UNCHANGED vars
    BY <1>2 DEF Wait
  <2>2. CASE AwaitedTurn # 0 /\ ~NoStart
    <3>1. AwaitedTurn \in Nat \ {0} /\ Coming(AwaitedTurn)
      BY <2>2, <1>a, BoundComing
    <3>2. wpc'[w] = "binding" /\ bound'[w] = AwaitedTurn
      BY <1>2, <1>w, <2>2 DEF Wait, WaitTypes
    <3> QED
      BY <3>1, <3>2, <2>1, <1>u
  <2>3. CASE AwaitedTurn = 0 /\ ~NoStart
    BY <1>2, <1>w, <2>3 DEF Wait, WaitTypes
  <2>4. CASE NoStart
    BY <1>2, <1>w, <2>4 DEF Wait, WaitTypes
  <2> QED
    BY <2>2, <2>3, <2>4
<1>3. ASSUME NEW w \in Waiting, Attach(w) PROVE Told(w)'
  <2>1. UNCHANGED vars /\ UNCHANGED <<bound, told>> /\ wpc[w] = "binding"
    BY <1>3 DEF Attach
  <2>2. wpc'[w] \in {"internal", "refused", "waiting"}
    BY <1>3, <1>w DEF Attach, WaitTypes
  <2>3. bound[w] \in Nat \ {0} /\ Coming(bound[w])
    BY <2>1, <1>a DEF BoundWaits
  <2> QED
    BY <2>1, <2>2, <2>3, <1>u
<1>4. ASSUME NEW w \in Waiting, WaitForTurn(w) PROVE Told(w)'
  <2>1. UNCHANGED vars /\ UNCHANGED bound /\ wpc[w] = "waiting"
    BY <1>4 DEF WaitForTurn
  <2>2. bound[w] \in Nat \ {0} /\ Coming(bound[w])
    BY <2>1, <1>a DEF BoundWaits
  <2>3. CASE wpc'[w] = "leaving" /\ told'[w] = "ended"
    <3>1. Awaited(bound[w]) = "ended"
      BY <1>4, <1>w, <2>3 DEF WaitForTurn, Detached, WaitTypes
    <3>2. Excuse(bound[w])
      BY <3>1, <2>2, <1>a, EndedExcused
    <3> QED
      BY <2>1, <2>3, <3>2, <1>u
  <2>4. CASE ~(wpc'[w] = "leaving" /\ told'[w] = "ended")
    BY <2>1, <2>2, <2>4, <1>u
  <2> QED
    BY <2>3, <2>4
<1>5. ASSUME NEW w \in Waiting, TimesOut(w) PROVE Told(w)'
  BY <1>5, <1>w DEF TimesOut, WaitTypes
<1>6. ASSUME NEW w \in Waiting, AnswerWait(w) \/ CallerGone(w) PROVE Told(w)'
  BY <1>6, <1>w DEF AnswerWait, CallerGone, Detached, WaitTypes
<1>7. ASSUME NEW v \in Waiters, Wait(v) \/ WaitTask(v) \/ TimesOut(v) \/ CallerGone(v),
             NEW w \in Waiting, w # v \/ HostBind(v)
      PROVE  Told(w)'
  <2>1. w # v
    BY <1>7, <1>w DEF HostBind
  <2>2. UNCHANGED <<wpc[w], bound[w], told[w]>>
    BY <1>7, <1>w, <2>1 DEF Wait, WaitTask, Attach, HostBind, WaitForTurn, AnswerWait,
       TimesOut, CallerGone, Detached, WaitTypes
  <2> QED
    BY <2>2, <1>1
<1>8. ASSUME SessionStep \/ Watchdog \/ GracePasses \/ UNCHANGED allVars,
             NEW w \in Waiting
      PROVE  Told(w)'
  <2>1. UNCHANGED <<wpc[w], bound[w], told[w]>>
    <3>1. CASE SessionStep
      BY <3>1, <1>w DEF SessionStep
    <3>2. CASE Watchdog \/ GracePasses \/ UNCHANGED allVars
      BY <3>2 DEF Watchdog, WatchdogPass, WatchdogCloses, GracePasses, waitVars, allVars
    <3> QED
      BY <1>8, <3>1, <3>2
  <2> QED
    BY <2>1, <1>1
<1>9. ASSUME NEW w \in Waiting PROVE Told(w)'
  <2>1. CASE SessionStep \/ Watchdog \/ GracePasses \/ UNCHANGED allVars
    BY <2>1, <1>8
  <2>2. ASSUME NEW v \in Waiters, Wait(v) \/ WaitTask(v) \/ TimesOut(v) \/ CallerGone(v)
        PROVE  Told(w)'
    <3>1. CASE v = w /\ ~HostBind(v)
      BY <2>2, <3>1, <1>2, <1>3, <1>4, <1>5, <1>6 DEF WaitTask
    <3> QED
      BY <2>2, <3>1, <1>7
  <2> QED
    BY <2>1, <2>2 DEF WaitNext
<1> QED
  BY <1>9 DEF BoundWaits, Excused

\* Nothing a `wait` knows of its turn is taken back, in any reachable state.
LEMMA ToldHolds == ASSUME Reportable PROVE WaitSpec => []WaitsTold
<1>1. WaitInit => WaitsTold
  BY DEF WaitInit, WaitsTold, BoundWaits, Excused, Waiters
<1>2. IndInv /\ Handoff /\ status # "needs_permission" /\ JudgedInv /\ RecordingLast
        /\ WaitTypes /\ WaitsTold /\ [WaitNext]_allVars
        => WaitsTold'
  BY ToldStep
<1>3. Spec => [](status # "needs_permission")
  BY NeverAsks DEF Reportable
<1>4. Spec => []Handoff
  BY HandoffInvariant DEF Reportable
<1>5. Spec => []JudgedInv
  BY JudgedHolds
<1> QED
  BY <1>1, <1>2, <1>3, <1>4, <1>5, Inductive, RecordingInvariant, WaitTypesKept,
     WaitsImplementSession, PTL DEF WaitSpec

\* What a `wait` that its turn's end released reports, of a settled turn.
LEMMA TellsOwnEnd ==
    ASSUME IndInv, JudgedInv, WaitTypes, WaitsTold, NEW w \in Waiting, AnswerWait(w),
           told[w] = "ended", HasSettled(bound[w])
    PROVE  \/ answer'[w].state = OwnEnd(bound[w])
           \/ /\ answer'[w].state = "rate_limited"
              /\ \E i \in SettledTurns(bound[w]) : turns[i].limited
           \/ /\ OwnEnd(bound[w]) = "none"
              /\ answer'[w].state \in {"failed", "exited", "cancelled"}
<1> DEFINE n == bound[w]
<1>a. /\ TypeOK /\ TypeTurns /\ TypeTasks /\ Numbering /\ Causes /\ Judged /\ LastFailed
      /\ Len(turns) \in Nat
  BY DEF IndInv, JudgedInv, TypeOK, TypeTurns
<1>w. w \in Waiters /\ w \notin Hosts
  BY HostsAssumption DEF Waiters, Prompts
<1>1. PICK i \in 1..Len(turns) : turns[i].n = n
  BY DEF HasSettled, SettledTurns
<1>2. SettledTurns(n) = {i} /\ n # 0
  BY <1>1, <1>a, OffsetAssumption DEF SettledTurns, Numbering
<1>3. answer'[w].state = IF OwnEnd(n) # "none" THEN OwnEnd(n) ELSE status
  <2>1. answer'[w] = View(w)
    BY <1>w DEF AnswerWait, WaitTypes
  <2> QED
    BY <2>1, <1>w, <1>2 DEF View
<1>4. CASE outcome[turns[i].by] \in {"ok", "cancelled"}
  <2>1. OwnEnd(n) # "none"
    BY <1>2, <1>4 DEF OwnEnd
  <2> QED
    BY <2>1, <1>3
<1>5. CASE outcome[turns[i].by] \notin {"ok", "cancelled"}
  <2>1. OwnEnd(n) = "none"
    BY <1>2, <1>5 DEF OwnEnd
  <2>2. CASE outcome[turns[i].by] = "error"
    <3>1. status \in {"failed", "exited", "cancelled"}
      BY <2>2, <1>a DEF LastFailed
    <3> QED
      BY <1>3, <2>1, <3>1
  <2>3. CASE outcome[turns[i].by] = "limit"
    <3>1. turns[i].limited /\ "limit" \in Events
      <4>1. turns[i] \in Settled
        BY <1>a DEF TypeTurns
      <4>2. turns[i].by \in Prompts
        BY <4>1 DEF Settled
      <4> QED
        BY <2>3, <1>a, <4>2 DEF Judged, Causes
    <3>2. Excuse(n)
      BY <3>1, <1>2 DEF WaitsTold, Excused, AnswerWait
    <3>3. status \in {"rate_limited", "failed", "exited", "cancelled"}
      BY <3>1, <3>2, <1>2 DEF Excuse
    <3> QED
      BY <1>2, <1>3, <2>1, <3>1, <3>3
  <2>4. outcome[turns[i].by] \in {"error", "limit"}
    <3>1. turns[i] \in Settled
      BY <1>a DEF TypeTurns
    <3>2. turns[i].by \in Prompts
      BY <3>1 DEF Settled
    <3> QED
      BY <3>2, <1>5, <1>a DEF Judged, TypeTasks, Outcomes
  <2> QED
    BY <2>2, <2>3, <2>4
<1> QED
  BY <1>4, <1>5

\* A `wait` released by the end of its turn reports that turn's own end and not that
\* of the turn which chained, was sent or resumed after it; a failed turn has none, and
\* then the session has ended with it.
THEOREM TellsHolds == ASSUME Reportable PROVE WaitSpec => Tells
<1> DEFINE Tell(w) ==
      wpc'[w] = "answered" /\ wpc[w] = "leaving" /\ told[w] = "ended" /\ HasSettled(bound[w])
        => \/ answer'[w].state = OwnEnd(bound[w])
           \/ /\ answer'[w].state = "rate_limited"
              /\ \E i \in SettledTurns(bound[w]) : turns[i].limited
           \/ /\ OwnEnd(bound[w]) = "none"
              /\ answer'[w].state \in {"failed", "exited", "cancelled"}
<1>1. IndInv /\ JudgedInv /\ WaitTypes /\ WaitsTold /\ [WaitNext]_allVars
        => [\A w \in Waiting : Tell(w)]_allVars
  <2> SUFFICES ASSUME IndInv, JudgedInv, WaitTypes, WaitsTold, [WaitNext]_allVars,
                      NEW w \in Waiting, wpc'[w] = "answered", wpc[w] = "leaving",
                      told[w] = "ended", HasSettled(bound[w])
               PROVE  Tell(w)
    OBVIOUS
  <2>w. w \in Waiters /\ w \notin Hosts
    BY HostsAssumption DEF Waiters, Prompts
  <2>1. CASE SessionStep
    BY <2>1, <2>w DEF SessionStep
  <2>2. CASE Watchdog \/ GracePasses \/ UNCHANGED allVars
    BY <2>2 DEF Watchdog, WatchdogPass, WatchdogCloses, GracePasses, waitVars, allVars
  <2>3. ASSUME NEW v \in Waiters,
               Wait(v) \/ Attach(v) \/ HostBind(v) \/ WaitForTurn(v) \/ TimesOut(v)
                 \/ CallerGone(v)
        PROVE  FALSE
    BY <2>3, <2>w DEF Wait, Attach, HostBind, WaitForTurn, TimesOut, CallerGone, Detached,
       WaitTypes
  <2>4. ASSUME NEW v \in Waiters, AnswerWait(v) PROVE Tell(w)
    <3>1. v = w
      BY <2>4, <2>w DEF AnswerWait, Detached, WaitTypes
    <3> QED
      BY <2>4, <3>1, TellsOwnEnd
  <2> QED
    BY <2>1, <2>2, <2>3, <2>4 DEF WaitNext, WaitTask
<1>2. Spec => []JudgedInv
  BY JudgedHolds
<1>3. WaitSpec => []WaitsTold
  BY ToldHolds
<1> QED
  BY <1>1, <1>2, <1>3, Inductive, WaitTypesKept, WaitsImplementSession, PTL
     DEF WaitSpec, Tells

=============================================================================
