---------------------------- MODULE SessionSlot ----------------------------
(* The session's prompt slot and what queues up behind it: who holds the   *)
(* slot, in which order the queue is served, what a cancel, a park and a   *)
(* handover may rely on.                                                   *)
(*                                                                         *)
(* A steer that is sent while a slot is reserved gets a turn of its own,   *)
(* and most of these facts fail with it: the theorems say which of the     *)
(* other features they need absent.                                        *)
EXTENDS SessionProofs

-----------------------------------------------------------------------------
(* How a session ends                                                      *)

\* Which of close and handover claimed the session, and what that says of
\* `closing`, `live` and the agent.
Claimed ==
    /\ watcher # "off" <=> superseded
    /\ superseded => "handover" \in Events
    /\ closer # "open" => "close" \in Events /\ ~live
    /\ watcher \in {"handed", "gone"} => ~live
    /\ ~live => closer # "open" \/ watcher \in {"handed", "gone"}
ClosingMarked ==
    /\ closing = "ending" => closer # "open" \/ watcher = "gone"
    /\ closing = "handing_off" => watcher \in {"shipping", "handed"}
    /\ watcher \in {"shipping", "handed", "gone"} => closing # "none"
    /\ ~superseded /\ closer # "open" => closing = "ending"
AgentGone ==
    /\ ~alive => "die" \in Events \/ ~live
    /\ status = "exited" => ~alive
    /\ epilogue => ~alive
EndShape == Claimed /\ ClosingMarked /\ AgentGone

\* Close and the handover are never undone.
LEMMA ClaimedStep ==
    ASSUME TypeOK, Claimed, ClosingMarked, [Next]_vars
    PROVE  (Claimed /\ ClosingMarked)'
<1> USE DEF turnVars, steerVars, rtVars, taskVars, soloVars, permVars, agentVars, histVars
<1>a. TypeTurns /\ TypeRuntime /\ TypeTasks /\ TypeSolo /\ TypeAgent
  BY DEF TypeOK
<1>1. ASSUME NEW p \in Prompts,
             Send(p) \/ SendQueued(p) \/ SteerSend(p) \/ BeginChecked(p) \/ LogPrompt(p)
                \/ LogFails(p) \/ SendPrompt(p) \/ SteerPush(p) \/ SteerEnqueue(p) \/
                SteerNoteLimit(p) \/ SteerResolved(p) \/ KickWire(p)
      PROVE  (Claimed /\ ClosingMarked)'
  <2>1. UNCHANGED <<closing, live, superseded, closer, watcher>>
    BY <1>1 DEF Send, SendQueued, SteerSend, BeginChecked, StampTurn, LogPrompt,
       LogFails, SendPrompt, SteerPush, SteerEnqueue, SteerNoteLimit, SteerResolved,
       KickWire
  <2> QED
    BY <2>1, <1>a DEF Claimed, ClosingMarked, TypeSolo, TypeRuntime
<1>2. ASSUME NEW p \in Prompts,
             SettleTurn(p) \/ FailTurn(p) \/ ParkTurn(p) \/ RecordTurnEnd(p) \/
                ClearRecording(p) \/ NoteLimit(p) \/ SpawnChained(p) \/ Repark(p) \/
                ReserveResume(p) \/ ClearParked(p) \/ ResumeBegin(p) \/ Answer(p)
      PROVE  (Claimed /\ ClosingMarked)'
  <2>1. UNCHANGED <<closing, live, superseded, closer, watcher>>
    BY <1>2 DEF SettleTurn, CloseCurrent, FinishBegins, UnchangedByFinish, DropQueue,
       ChainReady, FailTurn, ParkTurn, RecordTurnEnd, ClearRecording, NoteLimit,
       SpawnChained, StampTurn, Unstarted, Repark, Requeued, ReserveResume, ReserveSlot,
       ClearParked, ResumeBegin, Answer
  <2> QED
    BY <2>1, <1>a DEF Claimed, ClosingMarked, TypeSolo, TypeRuntime
<1>3. ASSUME NEW r \in Perms,
             AskPermission(r) \/ QueueForPermit(r) \/ Permit(r) \/ PermitAnswered(r)
      PROVE  (Claimed /\ ClosingMarked)'
  <2>1. UNCHANGED <<closing, live, superseded, closer, watcher>>
    BY <1>3 DEF AskPermission, QueueForPermit, Permit, Unblocked, PermitAnswered
  <2> QED
    BY <2>1, <1>a DEF Claimed, ClosingMarked, TypeSolo, TypeRuntime
<1>4. CASE RecordPark \/ ParkedDue \/ PassOver \/ ClearStale \/ OnDisconnect \/
   SessionUpdate \/ CancelTurn \/ CancelSend \/ GateRises \/ GateExpires \/ AgentDies \/
   UNCHANGED vars
  <2>1. UNCHANGED <<closing, live, superseded, closer, watcher>>
    BY <1>4 DEF RecordPark, ParkedDue, PassOver, ClearStale, OnDisconnect, DropQueue,
       AnswerPending, SessionUpdate, CancelTurn, CancelSend, GateRises, GateExpires,
       AgentDies, vars
  <2> QED
    BY <2>1, <1>a DEF Claimed, ClosingMarked, TypeSolo, TypeRuntime
<1>5. CASE UnscheduleResume
  BY <1>5, <1>a DEF UnscheduleResume, Claimed, ClosingMarked, TypeSolo, TypeRuntime
<1>6. CASE Teardown
  BY <1>6, <1>a DEF Teardown, CloseSub, DropQueue, AnswerPending, Claimed,
     ClosingMarked, TypeSolo, TypeRuntime
<1>7. CASE HandedClose
  BY <1>7, <1>a DEF HandedClose, CloseSub, DropQueue, AnswerPending, Claimed,
     ClosingMarked, TypeSolo, TypeRuntime
<1>8. CASE CloseSession
  BY <1>8, <1>a DEF CloseSession, Claimed, ClosingMarked, TypeSolo, TypeRuntime
<1>9. CASE Supersede
  BY <1>9, <1>a DEF Supersede, Claimed, ClosingMarked, TypeSolo, TypeRuntime
<1>10. CASE WatchScan
  BY <1>10, <1>a DEF WatchScan, Claimed, ClosingMarked, TypeSolo, TypeRuntime
<1>11. CASE HandoffOne
  BY <1>11, <1>a DEF HandoffOne, Claimed, ClosingMarked, TypeSolo, TypeRuntime
<1>12. CASE HandoffReported
  BY <1>12, <1>a DEF HandoffReported, Claimed, ClosingMarked, TypeSolo, TypeRuntime
<1> QED
  BY <1>1, <1>2, <1>3, <1>4, <1>5, <1>6, <1>7, <1>8, <1>9, <1>10, <1>11, <1>12 DEF Next,
     WireFree, WireTaking, Scheduler, Teardowns, Prompts

\* A dead agent is not replaced, and only its end makes the session `exited`.
LEMMA AgentGoneStep ==
    ASSUME TypeOK, Claimed, AgentGone, [Next]_vars PROVE AgentGone'
<1> USE DEF turnVars, steerVars, rtVars, taskVars, soloVars, permVars, agentVars, histVars
<1>a. TypeTurns /\ TypeRuntime /\ TypeTasks /\ TypeSolo /\ TypeAgent
  BY DEF TypeOK
<1>1. ASSUME NEW p \in Prompts,
             Send(p) \/ SendQueued(p) \/ SteerSend(p) \/ LogPrompt(p) \/ SendPrompt(p)
                \/ SteerPush(p) \/ SteerEnqueue(p) \/ SteerNoteLimit(p) \/ KickWire(p)
                \/ RecordTurnEnd(p) \/ ClearRecording(p) \/ NoteLimit(p)
      PROVE  AgentGone'
  <2>1. UNCHANGED <<status, live, alive, epilogue>>
    BY <1>1 DEF Send, SendQueued, SteerSend, LogPrompt, SendPrompt, SteerPush,
       SteerEnqueue, SteerNoteLimit, KickWire, RecordTurnEnd, ClearRecording, NoteLimit
  <2> QED
    BY <2>1, <1>a DEF Claimed, AgentGone, FailedUnlessExited, TypeSolo, TypeRuntime
<1>2. ASSUME NEW p \in Prompts, ClearParked(p) \/ Answer(p) PROVE AgentGone'
  <2>1. UNCHANGED <<status, live, alive, epilogue>>
    BY <1>2 DEF ClearParked, Answer
  <2> QED
    BY <2>1, <1>a DEF Claimed, AgentGone, FailedUnlessExited, TypeSolo, TypeRuntime
<1>3. ASSUME NEW r \in Perms, AskPermission(r) PROVE AgentGone'
  <2>1. UNCHANGED <<status, live, alive, epilogue>>
    BY <1>3 DEF AskPermission
  <2> QED
    BY <2>1, <1>a DEF Claimed, AgentGone, FailedUnlessExited, TypeSolo, TypeRuntime
<1>4. CASE RecordPark \/ ParkedDue \/ PassOver \/ ClearStale \/ UnscheduleResume \/
   CancelTurn \/ CancelSend \/ GateRises \/ GateExpires \/ WatchScan \/ HandoffOne \/
   UNCHANGED vars
  <2>1. UNCHANGED <<status, live, alive, epilogue>>
    BY <1>4 DEF RecordPark, ParkedDue, PassOver, ClearStale, UnscheduleResume,
       CancelTurn, DropQueue, AnswerPending, CancelSend, GateRises, GateExpires,
       WatchScan, HandoffOne, vars
  <2> QED
    BY <2>1, <1>a DEF Claimed, AgentGone, FailedUnlessExited, TypeSolo, TypeRuntime
<1>5. ASSUME NEW p \in Prompts, BeginChecked(p) PROVE AgentGone'
  BY <1>5, <1>a DEF BeginChecked, StampTurn, Claimed, AgentGone, FailedUnlessExited,
     TypeSolo, TypeRuntime
<1>6. ASSUME NEW p \in Prompts, LogFails(p) PROVE AgentGone'
  BY <1>6, <1>a DEF LogFails, Claimed, AgentGone, FailedUnlessExited, TypeSolo,
     TypeRuntime
<1>7. ASSUME NEW p \in Prompts, SteerResolved(p) PROVE AgentGone'
  BY <1>7, <1>a DEF SteerResolved, Claimed, AgentGone, FailedUnlessExited, TypeSolo,
     TypeRuntime
<1>8. ASSUME NEW p \in Prompts, SettleTurn(p) PROVE AgentGone'
  BY <1>8, <1>a DEF SettleTurn, CloseCurrent, FinishBegins, UnchangedByFinish,
     DropQueue, ChainReady, Claimed, AgentGone, FailedUnlessExited, TypeSolo,
     TypeRuntime
<1>9. ASSUME NEW p \in Prompts, FailTurn(p) PROVE AgentGone'
  BY <1>9, <1>a DEF FailTurn, CloseCurrent, FinishBegins, UnchangedByFinish, DropQueue,
     Claimed, AgentGone, FailedUnlessExited, TypeSolo, TypeRuntime
<1>10. ASSUME NEW p \in Prompts, ParkTurn(p) PROVE AgentGone'
  BY <1>10, <1>a DEF ParkTurn, CloseCurrent, FinishBegins, UnchangedByFinish, Claimed,
     AgentGone, FailedUnlessExited, TypeSolo, TypeRuntime
<1>11. ASSUME NEW p \in Prompts, SpawnChained(p) PROVE AgentGone'
  BY <1>11, <1>a DEF SpawnChained, StampTurn, Unstarted, Claimed, AgentGone,
     FailedUnlessExited, TypeSolo, TypeRuntime
<1>12. ASSUME NEW p \in Prompts, Repark(p) PROVE AgentGone'
  BY <1>12, <1>a DEF Repark, Requeued, Claimed, AgentGone, FailedUnlessExited, TypeSolo,
     TypeRuntime
<1>13. ASSUME NEW p \in Prompts, ReserveResume(p) PROVE AgentGone'
  BY <1>13, <1>a DEF ReserveResume, ReserveSlot, Claimed, AgentGone, FailedUnlessExited,
     TypeSolo, TypeRuntime
<1>14. ASSUME NEW p \in Prompts, ResumeBegin(p) PROVE AgentGone'
  BY <1>14, <1>a DEF ResumeBegin, StampTurn, Unstarted, Claimed, AgentGone,
     FailedUnlessExited, TypeSolo, TypeRuntime
<1>15. ASSUME NEW r \in Perms, QueueForPermit(r) PROVE AgentGone'
  BY <1>15, <1>a DEF QueueForPermit, Claimed, AgentGone, FailedUnlessExited, TypeSolo,
     TypeRuntime
<1>16. ASSUME NEW r \in Perms, Permit(r) PROVE AgentGone'
  BY <1>16, <1>a DEF Permit, Unblocked, Claimed, AgentGone, FailedUnlessExited,
     TypeSolo, TypeRuntime
<1>17. ASSUME NEW r \in Perms, PermitAnswered(r) PROVE AgentGone'
  BY <1>17, <1>a DEF PermitAnswered, Unblocked, Claimed, AgentGone, FailedUnlessExited,
     TypeSolo, TypeRuntime
<1>18. CASE Teardown
  BY <1>18, <1>a DEF Teardown, CloseSub, DropQueue, AnswerPending, Claimed, AgentGone,
     FailedUnlessExited, TypeSolo, TypeRuntime
<1>19. CASE HandedClose
  BY <1>19, <1>a DEF HandedClose, CloseSub, DropQueue, AnswerPending, Claimed,
     AgentGone, FailedUnlessExited, TypeSolo, TypeRuntime
<1>20. CASE OnDisconnect
  BY <1>20, <1>a DEF OnDisconnect, DropQueue, AnswerPending, Claimed, AgentGone,
     FailedUnlessExited, TypeSolo, TypeRuntime
<1>21. CASE SessionUpdate
  BY <1>21, <1>a DEF SessionUpdate, Claimed, AgentGone, FailedUnlessExited, TypeSolo,
     TypeRuntime
<1>22. CASE AgentDies
  BY <1>22, <1>a DEF AgentDies, Claimed, AgentGone, FailedUnlessExited, TypeSolo,
     TypeRuntime
<1>23. CASE CloseSession
  BY <1>23, <1>a DEF CloseSession, Claimed, AgentGone, FailedUnlessExited, TypeSolo,
     TypeRuntime
<1>24. CASE Supersede
  BY <1>24, <1>a DEF Supersede, Claimed, AgentGone, FailedUnlessExited, TypeSolo,
     TypeRuntime
<1>25. CASE HandoffReported
  BY <1>25, <1>a DEF HandoffReported, Claimed, AgentGone, FailedUnlessExited, TypeSolo,
     TypeRuntime
<1> QED
  BY <1>1, <1>2, <1>3, <1>4, <1>5, <1>6, <1>7, <1>8, <1>9, <1>10, <1>11, <1>12, <1>13,
     <1>14, <1>15, <1>16, <1>17, <1>18, <1>19, <1>20, <1>21, <1>22, <1>23, <1>24, <1>25
     DEF Next, WireFree, WireTaking, Scheduler, Teardowns, Prompts

LEMMA EndsInvariant == Spec => []EndShape
<1>1. Init => EndShape
  BY DEF Init, EndShape, Claimed, ClosingMarked, AgentGone
<1>2. TypeOK /\ EndShape /\ [Next]_vars => EndShape'
  BY ClaimedStep, AgentGoneStep DEF EndShape
<1> QED
  BY <1>1, <1>2, TypeCorrect, PTL DEF Spec

-----------------------------------------------------------------------------
(* A session nobody steers                                                 *)

\* Without the steer policy no prompt is ever a steer.
SteersAbsent ==
    /\ steerPending = << >> /\ steerFolded = << >> /\ steerOwner = None
    /\ \A p \in Prompts : pc[p] \notin {"steer", "steer_begin", "steer_push", "kicked"} \cup SteerPCs

\* Nothing but a `send` with the steer policy makes a steer.
LEMMA SteersAbsentStep ==
    ASSUME "steer" \notin Policies, TypeOK, Ownership, SteersAbsent, [Next]_vars
    PROVE  SteersAbsent'
<1> USE DEF turnVars, steerVars, rtVars, taskVars, soloVars, permVars, agentVars, histVars
<1>a. /\ TypeTurns /\ TypeSteers /\ TypeTasks /\ TypeAgent /\ OutOwned /\ QueueOwned
  BY DEF TypeOK, Ownership
<1>b. /\ Policies \subseteq {"try", "queued"} /\ None \notin Prompts
      /\ OldestSteer = None /\ steerFolded \o steerPending = << >>
  BY PoliciesAssumption, PromptsAssumption DEF SteersAbsent, OldestSteer, Oldest
<1>1. ASSUME NEW r \in Perms,
             AskPermission(r) \/ QueueForPermit(r) \/ Permit(r) \/ PermitAnswered(r)
      PROVE  SteersAbsent'
  <2>1. UNCHANGED <<steerPending, steerFolded, steerOwner, pc>>
    BY <1>1 DEF AskPermission, QueueForPermit, Permit, Unblocked, PermitAnswered
  <2> QED
    BY <2>1, <1>a, <1>b DEF SteersAbsent, SteerPCs, TypeTasks
<1>2. CASE RecordPark \/ ParkedDue \/ PassOver \/ ClearStale \/ UnscheduleResume \/
   CancelSend \/ GateRises \/ GateExpires \/ AgentDies \/ CloseSession \/ Supersede \/
   WatchScan
  <2>1. UNCHANGED <<steerPending, steerFolded, steerOwner, pc>>
    BY <1>2 DEF RecordPark, ParkedDue, PassOver, ClearStale, UnscheduleResume,
       CancelSend, GateRises, GateExpires, AgentDies, CloseSession, Supersede, WatchScan
  <2> QED
    BY <2>1, <1>a, <1>b DEF SteersAbsent, SteerPCs, TypeTasks
<1>3. CASE HandoffOne \/ HandoffReported \/ UNCHANGED vars
  <2>1. UNCHANGED <<steerPending, steerFolded, steerOwner, pc>>
    BY <1>3 DEF HandoffOne, HandoffReported, vars
  <2> QED
    BY <2>1, <1>a, <1>b DEF SteersAbsent, SteerPCs, TypeTasks
<1>4. ASSUME NEW p \in Prompts, Send(p) PROVE SteersAbsent'
  BY <1>4, <1>a, <1>b DEF Send, SteersAbsent, SteerPCs, TypeTasks
<1>5. ASSUME NEW p \in Prompts, SendQueued(p) PROVE SteersAbsent'
  BY <1>5, <1>a, <1>b DEF SendQueued, SteersAbsent, SteerPCs, TypeTasks
<1>6. ASSUME NEW p \in Prompts, SteerSend(p) PROVE SteersAbsent'
  BY <1>6, <1>a, <1>b DEF SteerSend, SteersAbsent, SteerPCs, TypeTasks
<1>7. ASSUME NEW p \in Prompts, BeginChecked(p) PROVE SteersAbsent'
  BY <1>7, <1>a, <1>b DEF BeginChecked, StampTurn, SteersAbsent, SteerPCs, TypeTasks
<1>8. ASSUME NEW p \in Prompts, LogPrompt(p) PROVE SteersAbsent'
  BY <1>8, <1>a, <1>b DEF LogPrompt, SteersAbsent, SteerPCs, TypeTasks
<1>9. ASSUME NEW p \in Prompts, LogFails(p) PROVE SteersAbsent'
  BY <1>9, <1>a, <1>b DEF LogFails, SteersAbsent, SteerPCs, TypeTasks
<1>10. ASSUME NEW p \in Prompts, SendPrompt(p) PROVE SteersAbsent'
  BY <1>10, <1>a, <1>b DEF SendPrompt, SteersAbsent, SteerPCs, TypeTasks
<1>11. ASSUME NEW p \in Prompts, SteerPush(p) PROVE SteersAbsent'
  BY <1>11, <1>a, <1>b DEF SteerPush, SteersAbsent, SteerPCs, TypeTasks
<1>12. ASSUME NEW p \in Prompts, SteerEnqueue(p) PROVE SteersAbsent'
  BY <1>12, <1>a, <1>b DEF SteerEnqueue, SteersAbsent, SteerPCs, TypeTasks
<1>13. ASSUME NEW p \in Prompts, SteerNoteLimit(p) PROVE SteersAbsent'
  BY <1>13, <1>a, <1>b DEF SteerNoteLimit, SteersAbsent, SteerPCs, TypeTasks
<1>14. ASSUME NEW p \in Prompts, SteerResolved(p) PROVE SteersAbsent'
  BY <1>14, <1>a, <1>b DEF SteerResolved, SteersAbsent, SteerPCs, TypeTasks
<1>15. ASSUME NEW p \in Prompts, KickWire(p) PROVE SteersAbsent'
  BY <1>15, <1>a, <1>b DEF KickWire, SteersAbsent, SteerPCs, TypeTasks
<1>16. ASSUME NEW p \in Prompts, SettleTurn(p) PROVE SteersAbsent'
  BY <1>16, <1>a, <1>b DEF SettleTurn, CloseCurrent, FinishBegins, UnchangedByFinish,
     DropQueue, ChainReady, SteersAbsent, SteerPCs, TypeTasks
<1>17. ASSUME NEW p \in Prompts, FailTurn(p) PROVE SteersAbsent'
  BY <1>17, <1>a, <1>b DEF FailTurn, CloseCurrent, FinishBegins, UnchangedByFinish,
     DropQueue, SteersAbsent, SteerPCs, TypeTasks
<1>18. ASSUME NEW p \in Prompts, ParkTurn(p) PROVE SteersAbsent'
  BY <1>18, <1>a, <1>b DEF ParkTurn, CloseCurrent, FinishBegins, UnchangedByFinish,
     SteersAbsent, SteerPCs, TypeTasks
<1>19. ASSUME NEW p \in Prompts, RecordTurnEnd(p) PROVE SteersAbsent'
  BY <1>19, <1>a, <1>b DEF RecordTurnEnd, SteersAbsent, SteerPCs, TypeTasks
<1>20. ASSUME NEW p \in Prompts, ClearRecording(p) PROVE SteersAbsent'
  BY <1>20, <1>a, <1>b DEF ClearRecording, SteersAbsent, SteerPCs, TypeTasks
<1>21. ASSUME NEW p \in Prompts, NoteLimit(p) PROVE SteersAbsent'
  BY <1>21, <1>a, <1>b DEF NoteLimit, SteersAbsent, SteerPCs, TypeTasks
<1>22. ASSUME NEW p \in Prompts, SpawnChained(p) PROVE SteersAbsent'
  BY <1>22, <1>a, <1>b DEF SpawnChained, StampTurn, Unstarted, SteersAbsent, SteerPCs,
     TypeTasks
<1>23. ASSUME NEW p \in Prompts, Repark(p) PROVE SteersAbsent'
  BY <1>23, <1>a, <1>b DEF Repark, Requeued, SteersAbsent, SteerPCs, TypeTasks
<1>24. ASSUME NEW p \in Prompts, ReserveResume(p) PROVE SteersAbsent'
  BY <1>24, <1>a, <1>b, HeadQueued DEF ReserveResume, ReserveSlot, SteersAbsent,
     SteerPCs, TypeTasks
<1>25. ASSUME NEW p \in Prompts, ClearParked(p) PROVE SteersAbsent'
  BY <1>25, <1>a, <1>b DEF ClearParked, SteersAbsent, SteerPCs, TypeTasks
<1>26. ASSUME NEW p \in Prompts, ResumeBegin(p) PROVE SteersAbsent'
  BY <1>26, <1>a, <1>b DEF ResumeBegin, StampTurn, Unstarted, SteersAbsent, SteerPCs,
     TypeTasks
<1>27. ASSUME NEW p \in Prompts, Answer(p) PROVE SteersAbsent'
  BY <1>27, <1>a, <1>b DEF Answer, SteersAbsent, SteerPCs, TypeTasks, OutOwned
<1>28. CASE Teardown
  BY <1>28, <1>a, <1>b DEF Teardown, CloseSub, DropQueue, AnswerPending, SteersAbsent,
     SteerPCs, TypeTasks
<1>29. CASE HandedClose
  BY <1>29, <1>a, <1>b DEF HandedClose, CloseSub, DropQueue, AnswerPending,
     SteersAbsent, SteerPCs, TypeTasks
<1>30. CASE OnDisconnect
  BY <1>30, <1>a, <1>b DEF OnDisconnect, DropQueue, AnswerPending, SteersAbsent,
     SteerPCs, TypeTasks
<1>31. CASE SessionUpdate
  BY <1>31, <1>a, <1>b DEF SessionUpdate, SteersAbsent, SteerPCs, TypeTasks
<1>32. CASE CancelTurn
  BY <1>32, <1>a, <1>b DEF CancelTurn, DropQueue, AnswerPending, SteersAbsent, SteerPCs,
     TypeTasks
<1> QED
  BY <1>1, <1>2, <1>3, <1>4, <1>5, <1>6, <1>7, <1>8, <1>9, <1>10, <1>11, <1>12, <1>13,
     <1>14, <1>15, <1>16, <1>17, <1>18, <1>19, <1>20, <1>21, <1>22, <1>23, <1>24, <1>25,
     <1>26, <1>27, <1>28, <1>29, <1>30, <1>31, <1>32 DEF Next, WireFree, WireTaking,
     Scheduler, Teardowns, Prompts

LEMMA SteersAbsentInvariant ==
    ASSUME "steer" \notin Policies PROVE Spec => []SteersAbsent
<1>1. Init => SteersAbsent
  BY DEF Init, SteersAbsent, SteerPCs
<1>2. IndInv /\ SteersAbsent /\ [Next]_vars => SteersAbsent'
  BY SteersAbsentStep DEF IndInv
<1> QED
  BY <1>1, <1>2, Inductive, PTL DEF Spec

\* A superseded daemon stays superseded.
LEMMA SupersededKept ==
    ASSUME TypeOK, [Next]_vars PROVE (superseded' = superseded \/ superseded')
<1> USE DEF turnVars, steerVars, rtVars, taskVars, soloVars, permVars, agentVars, histVars
<1>a. TypeTurns /\ TypeRuntime /\ TypeTasks /\ TypeSolo /\ TypeAgent
  BY DEF TypeOK
<1>1. ASSUME NEW p \in Prompts,
             Send(p) \/ SendQueued(p) \/ SteerSend(p) \/ BeginChecked(p) \/ LogPrompt(p)
                \/ LogFails(p) \/ SendPrompt(p) \/ SteerPush(p) \/ SteerEnqueue(p) \/
                SteerNoteLimit(p) \/ SteerResolved(p) \/ KickWire(p)
      PROVE  (superseded' = superseded \/ superseded')
  <2>1. UNCHANGED <<superseded>>
    BY <1>1 DEF Send, SendQueued, SteerSend, BeginChecked, StampTurn, LogPrompt,
       LogFails, SendPrompt, SteerPush, SteerEnqueue, SteerNoteLimit, SteerResolved,
       KickWire
  <2> QED
    BY <2>1, <1>a DEF TypeRuntime
<1>2. ASSUME NEW p \in Prompts,
             SettleTurn(p) \/ FailTurn(p) \/ ParkTurn(p) \/ RecordTurnEnd(p) \/
                ClearRecording(p) \/ NoteLimit(p) \/ SpawnChained(p) \/ Repark(p) \/
                ReserveResume(p) \/ ClearParked(p) \/ ResumeBegin(p) \/ Answer(p)
      PROVE  (superseded' = superseded \/ superseded')
  <2>1. UNCHANGED <<superseded>>
    BY <1>2 DEF SettleTurn, CloseCurrent, FinishBegins, UnchangedByFinish, DropQueue,
       ChainReady, FailTurn, ParkTurn, RecordTurnEnd, ClearRecording, NoteLimit,
       SpawnChained, StampTurn, Unstarted, Repark, Requeued, ReserveResume, ReserveSlot,
       ClearParked, ResumeBegin, Answer
  <2> QED
    BY <2>1, <1>a DEF TypeRuntime
<1>3. ASSUME NEW r \in Perms,
             AskPermission(r) \/ QueueForPermit(r) \/ Permit(r) \/ PermitAnswered(r)
      PROVE  (superseded' = superseded \/ superseded')
  <2>1. UNCHANGED <<superseded>>
    BY <1>3 DEF AskPermission, QueueForPermit, Permit, Unblocked, PermitAnswered
  <2> QED
    BY <2>1, <1>a DEF TypeRuntime
<1>4. CASE RecordPark \/ ParkedDue \/ PassOver \/ ClearStale \/ UnscheduleResume \/
   Teardown \/ HandedClose \/ OnDisconnect \/ SessionUpdate \/ CancelTurn \/ CancelSend
   \/ GateRises
  <2>1. UNCHANGED <<superseded>>
    BY <1>4 DEF RecordPark, ParkedDue, PassOver, ClearStale, UnscheduleResume, Teardown,
       CloseSub, DropQueue, AnswerPending, HandedClose, OnDisconnect, SessionUpdate,
       CancelTurn, CancelSend, GateRises
  <2> QED
    BY <2>1, <1>a DEF TypeRuntime
<1>5. CASE GateExpires \/ AgentDies \/ CloseSession \/ WatchScan \/ HandoffOne \/
   HandoffReported \/ UNCHANGED vars
  <2>1. UNCHANGED <<superseded>>
    BY <1>5 DEF GateExpires, AgentDies, CloseSession, WatchScan, HandoffOne,
       HandoffReported, vars
  <2> QED
    BY <2>1, <1>a DEF TypeRuntime
<1>6. CASE Supersede
  BY <1>6, <1>a DEF Supersede, TypeRuntime
<1> QED
  BY <1>1, <1>2, <1>3, <1>4, <1>5, <1>6 DEF Next, WireFree, WireTaking, Scheduler,
     Teardowns, Prompts

-----------------------------------------------------------------------------
(* One prompt at a time                                                    *)

\* A prompt whose turn has not settled, and one that a slot is reserved for.
TurnPCs == {"logging", "sending", "inturn", "ended"}
GapPCs  == {"popped", "chained", "kicked", "reserved", "resuming"}
Busy    == TurnPCs \cup GapPCs

\* A failed hand-off clears `closing` even when a close had set it since.
Guarded == ~superseded \/ ~({"close", "handover"} \subseteq Events)

\* At most one prompt has the slot ...
Alone ==
    Guarded => \A p, q \in Prompts : pc[p] \in Busy /\ pc[q] \in Busy => p = q

\* ... and the status says so, until the session is closed.
Blocks ==
    Guarded => \A p \in Prompts :
        pc[p] \in Busy => \/ status \in {"running", "needs_permission", "exited"}
                          \/ closing = "ending" /\ status = "cancelled"

\* Losing the guard is final.
LEMMA GuardedKept == ASSUME TypeOK, [Next]_vars PROVE Guarded' => Guarded
<1>1. superseded' = superseded \/ superseded'
  BY SupersededKept
<1> QED
  BY <1>1 DEF Guarded

\* No step gives the slot to a second prompt.
LEMMA AloneStep ==
    ASSUME TypeOK, Ownership, SteersAbsent, Alone, Blocks, [Next]_vars
    PROVE  Alone'
<1> USE DEF turnVars, steerVars, rtVars, taskVars, soloVars, permVars, agentVars, histVars
<1>a. /\ TypeTurns /\ TypeTasks /\ TypeAgent /\ TypeRuntime
      /\ WireOwned /\ OutOwned /\ QueueOwned
  BY DEF TypeOK, Ownership
<1>b. \A q \in Range(queue) : pc[q] = "queued"
  BY <1>a, RangeQueued
<1>c. Guarded' => Guarded
  BY GuardedKept
<1>d. \A q \in Prompts : pc[q] # "kicked" /\ pc[q] \notin SteerPCs
  BY DEF SteersAbsent
<1>e. steerPending = << >>
  BY DEF SteersAbsent
<1>f. None \notin Prompts /\ Policies \subseteq {"try", "queued", "steer"}
  BY PromptsAssumption, PoliciesAssumption
<1>1. ASSUME NEW r \in Perms,
             AskPermission(r) \/ QueueForPermit(r) \/ Permit(r) \/ PermitAnswered(r)
      PROVE  Alone'
  <2>1. UNCHANGED <<superseded, pc>>
    BY <1>1 DEF AskPermission, QueueForPermit, Permit, Unblocked, PermitAnswered
  <2> QED
    BY <2>1, <1>c DEF Alone, Guarded
<1>2. CASE RecordPark \/ ParkedDue \/ PassOver \/ ClearStale \/ UnscheduleResume \/
   SessionUpdate \/ CancelSend \/ GateRises \/ GateExpires \/ AgentDies \/ CloseSession
   \/ WatchScan
  <2>1. UNCHANGED <<superseded, pc>>
    BY <1>2 DEF RecordPark, ParkedDue, PassOver, ClearStale, UnscheduleResume,
       SessionUpdate, CancelSend, GateRises, GateExpires, AgentDies, CloseSession,
       WatchScan
  <2> QED
    BY <2>1, <1>c DEF Alone, Guarded
<1>3. CASE HandoffOne \/ HandoffReported \/ UNCHANGED vars
  <2>1. UNCHANGED <<superseded, pc>>
    BY <1>3 DEF HandoffOne, HandoffReported, vars
  <2> QED
    BY <2>1, <1>c DEF Alone, Guarded
<1>4. ASSUME NEW p \in Prompts, Send(p) PROVE Alone'
  <2>1. \A q \in Prompts : pc'[q] \in Busy => pc[q] \in Busy
    BY <1>4, <1>a, <1>b, <1>d, <1>f DEF Send, Busy, TurnPCs, GapPCs, TypeTasks
  <2> QED
    BY <1>c, <2>1 DEF Alone
<1>5. ASSUME NEW p \in Prompts, SendQueued(p) PROVE Alone'
  <2>1. \A q \in Prompts : pc'[q] \in Busy => pc[q] \in Busy
    BY <1>5, <1>a, <1>b, <1>d, <1>f DEF SendQueued, Busy, TurnPCs, GapPCs, TypeTasks
  <2> QED
    BY <1>c, <2>1 DEF Alone
<1>6. ASSUME NEW p \in Prompts, SteerSend(p) PROVE Alone'
  <2>1. \A q \in Prompts : pc'[q] \in Busy => pc[q] \in Busy
    BY <1>6, <1>a, <1>b, <1>d, <1>f DEF SteerSend, Busy, TurnPCs, GapPCs, TypeTasks,
       SteerPCs
  <2> QED
    BY <1>c, <2>1 DEF Alone
<1>7. ASSUME NEW p \in Prompts, BeginChecked(p) PROVE Alone'
  <2>1. CASE pc' = pc
    BY <1>c, <2>1 DEF Alone
  <2>2. ASSUME NEW x \in {"queue", "refused"}, pc' = [pc EXCEPT ![p] = x] PROVE Alone'
    <3>1. \A q \in Prompts : pc'[q] \in Busy => pc[q] \in Busy
      BY <1>a, <2>2 DEF Busy, TurnPCs, GapPCs, TypeTasks
    <3> QED
      BY <1>c, <3>1 DEF Alone
  <2>3. CASE CheckReady /\ pc' = [pc EXCEPT ![p] = "logging"]
    <3>1. Guarded => \A q \in Prompts : pc[q] \notin Busy
      BY <2>3 DEF Blocks, CheckReady, SlotFree, AcceptsPrompt
    <3> QED
      BY <1>a, <1>c, <2>3, <3>1 DEF Alone, TypeTasks
  <2> QED
    BY <1>7, <2>1, <2>2, <2>3 DEF BeginChecked, StampTurn
<1>8. ASSUME NEW p \in Prompts, LogPrompt(p) PROVE Alone'
  <2>1. \A q \in Prompts : pc'[q] \in Busy => pc[q] \in Busy
    BY <1>8, <1>a, <1>b, <1>d, <1>f DEF LogPrompt, Busy, TurnPCs, GapPCs, TypeTasks
  <2> QED
    BY <1>c, <2>1 DEF Alone
<1>9. ASSUME NEW p \in Prompts, LogFails(p) PROVE Alone'
  <2>1. \A q \in Prompts : pc'[q] \in Busy => pc[q] \in Busy
    BY <1>9, <1>a, <1>b, <1>d, <1>f DEF LogFails, Busy, TurnPCs, GapPCs, TypeTasks
  <2> QED
    BY <1>c, <2>1 DEF Alone
<1>10. ASSUME NEW p \in Prompts, SendPrompt(p) PROVE Alone'
  <2>1. \A q \in Prompts : pc'[q] \in Busy => pc[q] \in Busy
    BY <1>10, <1>a, <1>b, <1>d, <1>f DEF SendPrompt, Busy, TurnPCs, GapPCs, TypeTasks
  <2> QED
    BY <1>c, <2>1 DEF Alone
<1>11. ASSUME NEW p \in Prompts, SteerPush(p) PROVE Alone'
  <2>1. \A q \in Prompts : pc'[q] \in Busy => pc[q] \in Busy
    BY <1>11, <1>a, <1>b, <1>d, <1>f DEF SteerPush, Busy, TurnPCs, GapPCs, TypeTasks,
       SteerPCs
  <2> QED
    BY <1>c, <2>1 DEF Alone
<1>12. ASSUME NEW p \in Prompts, SteerEnqueue(p) PROVE Alone'
  <2>1. \A q \in Prompts : pc'[q] \in Busy => pc[q] \in Busy
    BY <1>12, <1>a, <1>b, <1>d, <1>f DEF SteerEnqueue, Busy, TurnPCs, GapPCs, TypeTasks,
       SteerPCs
  <2> QED
    BY <1>c, <2>1 DEF Alone
<1>13. ASSUME NEW p \in Prompts, SteerNoteLimit(p) PROVE Alone'
  <2>1. \A q \in Prompts : pc'[q] \in Busy => pc[q] \in Busy
    BY <1>13, <1>a, <1>b, <1>d, <1>f DEF SteerNoteLimit, Busy, TurnPCs, GapPCs,
       TypeTasks, SteerPCs
  <2> QED
    BY <1>c, <2>1 DEF Alone
<1>14. ASSUME NEW p \in Prompts, SteerResolved(p) PROVE Alone'
  <2>1. \A q \in Prompts : pc'[q] \in Busy => pc[q] \in Busy
    BY <1>14, <1>a, <1>b, <1>d, <1>f DEF SteerResolved, Busy, TurnPCs, GapPCs, TypeTasks,
       SteerPCs
  <2> QED
    BY <1>c, <2>1 DEF Alone
<1>15. ASSUME NEW p \in Prompts, KickWire(p) PROVE Alone'
  <2>1. \A q \in Prompts : pc'[q] \in Busy => pc[q] \in Busy
    BY <1>15, <1>a, <1>b, <1>d, <1>f DEF KickWire, Busy, TurnPCs, GapPCs, TypeTasks
  <2> QED
    BY <1>c, <2>1 DEF Alone
<1>16. ASSUME NEW p \in Prompts, SettleTurn(p) PROVE Alone'
  <2>1. CASE ~(\E q \in Prompts : pc'[q] \in Busy /\ pc[q] \notin Busy)
    BY <1>c, <2>1 DEF Alone
  <2>2. CASE \E q \in Prompts : pc'[q] \in Busy /\ pc[q] \notin Busy
    <3>1. /\ ~superseded /\ queue # << >> /\ pc[p] = "ended"
          /\ pc' = [pc EXCEPT ![p] = "recording", ![Head(queue)] = "popped"]
      BY <1>16, <1>a, <1>b, <2>2 DEF SettleTurn, FinishBegins, DropQueue, ChainReady,
         Busy, TurnPCs, GapPCs, TypeTasks
    <3>2. Head(queue) \in Prompts /\ Head(queue) # p
      BY <1>a, <3>1, HeadQueued
    <3>3. \A q \in Prompts : pc[q] \in Busy => q = p
      BY <3>1 DEF Alone, Guarded, Busy, TurnPCs
    <3>4. \A q \in Prompts : pc'[q] \in Busy => q = Head(queue)
      BY <1>a, <3>1, <3>2, <3>3 DEF Busy, TurnPCs, GapPCs, TypeTasks
    <3> QED
      BY <3>4 DEF Alone
  <2> QED
    BY <2>1, <2>2
<1>17. ASSUME NEW p \in Prompts, FailTurn(p) PROVE Alone'
  <2>1. \A q \in Prompts : pc'[q] \in Busy => pc[q] \in Busy
    BY <1>17, <1>a, <1>b, <1>d, <1>f DEF FailTurn, CloseCurrent, FinishBegins,
       UnchangedByFinish, DropQueue, Busy, TurnPCs, GapPCs, TypeTasks
  <2> QED
    BY <1>c, <2>1 DEF Alone
<1>18. ASSUME NEW p \in Prompts, ParkTurn(p) PROVE Alone'
  <2>1. \A q \in Prompts : pc'[q] \in Busy => pc[q] \in Busy
    BY <1>18, <1>a, <1>b, <1>d, <1>f DEF ParkTurn, CloseCurrent, FinishBegins,
       UnchangedByFinish, Busy, TurnPCs, GapPCs, TypeTasks
  <2> QED
    BY <1>c, <2>1 DEF Alone
<1>19. ASSUME NEW p \in Prompts, RecordTurnEnd(p) PROVE Alone'
  <2>1. \A q \in Prompts : pc'[q] \in Busy => pc[q] \in Busy
    BY <1>19, <1>a, <1>b, <1>d, <1>f DEF RecordTurnEnd, Busy, TurnPCs, GapPCs, TypeTasks
  <2> QED
    BY <1>c, <2>1 DEF Alone
<1>20. ASSUME NEW p \in Prompts, ClearRecording(p) PROVE Alone'
  <2>1. \A q \in Prompts : pc'[q] \in Busy => pc[q] \in Busy
    BY <1>20, <1>a, <1>b, <1>d, <1>f DEF ClearRecording, Busy, TurnPCs, GapPCs, TypeTasks
  <2> QED
    BY <1>c, <2>1 DEF Alone
<1>21. ASSUME NEW p \in Prompts, NoteLimit(p) PROVE Alone'
  <2>1. \A q \in Prompts : pc'[q] \in Busy => pc[q] \in Busy
    BY <1>21, <1>a, <1>b, <1>d, <1>f DEF NoteLimit, Busy, TurnPCs, GapPCs, TypeTasks
  <2> QED
    BY <1>c, <2>1 DEF Alone
<1>22. ASSUME NEW p \in Prompts, SpawnChained(p) PROVE Alone'
  <2>1. \A q \in Prompts : pc'[q] \in Busy => pc[q] \in Busy
    BY <1>22, <1>a, <1>b, <1>d, <1>f DEF SpawnChained, StampTurn, Unstarted, Busy,
       TurnPCs, GapPCs, TypeTasks
  <2> QED
    BY <1>c, <2>1 DEF Alone
<1>23. ASSUME NEW p \in Prompts, Repark(p) PROVE Alone'
  <2>1. \A q \in Prompts : pc'[q] \in Busy => pc[q] \in Busy
    BY <1>23, <1>a, <1>b, <1>d, <1>f DEF Repark, Requeued, Busy, TurnPCs, GapPCs,
       TypeTasks
  <2> QED
    BY <1>c, <2>1 DEF Alone
<1>24. ASSUME NEW p \in Prompts, ReserveResume(p) PROVE Alone'
  <2>1. /\ status = "rate_limited" /\ ~superseded /\ closing = "none"
        /\ pc' = [pc EXCEPT ![p] = "reserved"]
    BY <1>24 DEF ReserveResume
  <2>2. \A q \in Prompts : pc[q] \notin Busy
    BY <2>1 DEF Blocks, Guarded
  <2> QED
    BY <1>a, <2>1, <2>2 DEF Alone, TypeTasks
<1>25. ASSUME NEW p \in Prompts, ClearParked(p) PROVE Alone'
  <2>1. \A q \in Prompts : pc'[q] \in Busy => pc[q] \in Busy
    BY <1>25, <1>a, <1>b, <1>d, <1>f DEF ClearParked, Busy, TurnPCs, GapPCs, TypeTasks
  <2> QED
    BY <1>c, <2>1 DEF Alone
<1>26. ASSUME NEW p \in Prompts, ResumeBegin(p) PROVE Alone'
  <2>1. \A q \in Prompts : pc'[q] \in Busy => pc[q] \in Busy
    BY <1>26, <1>a, <1>b, <1>d, <1>f DEF ResumeBegin, StampTurn, Unstarted, Busy,
       TurnPCs, GapPCs, TypeTasks
  <2> QED
    BY <1>c, <2>1 DEF Alone
<1>27. ASSUME NEW p \in Prompts, Answer(p) PROVE Alone'
  <2>1. \A q \in Prompts : pc'[q] \in Busy => pc[q] \in Busy
    BY <1>27, <1>a, <1>b, <1>d, <1>f DEF Answer, Busy, TurnPCs, GapPCs, TypeTasks,
       OutOwned
  <2> QED
    BY <1>c, <2>1 DEF Alone
<1>28. CASE Teardown
  <2>1. \A q \in Prompts : pc'[q] \in Busy => pc[q] \in Busy
    BY <1>28, <1>a, <1>b, <1>d, <1>f DEF Teardown, CloseSub, DropQueue, AnswerPending,
       Busy, TurnPCs, GapPCs, TypeTasks
  <2> QED
    BY <1>c, <2>1 DEF Alone
<1>29. CASE HandedClose
  <2>1. \A q \in Prompts : pc'[q] \in Busy => pc[q] \in Busy
    BY <1>29, <1>a, <1>b, <1>d, <1>f DEF HandedClose, CloseSub, DropQueue, AnswerPending,
       Busy, TurnPCs, GapPCs, TypeTasks
  <2> QED
    BY <1>c, <2>1 DEF Alone
<1>30. CASE OnDisconnect
  <2>1. \A q \in Prompts : pc'[q] \in Busy => pc[q] \in Busy
    BY <1>30, <1>a, <1>b, <1>d, <1>f DEF OnDisconnect, DropQueue, AnswerPending, Busy,
       TurnPCs, GapPCs, TypeTasks
  <2> QED
    BY <1>c, <2>1 DEF Alone
<1>31. CASE CancelTurn
  <2>1. \A q \in Prompts : pc'[q] \in Busy => pc[q] \in Busy
    BY <1>31, <1>a, <1>b, <1>d, <1>f DEF CancelTurn, DropQueue, AnswerPending, Busy,
       TurnPCs, GapPCs, TypeTasks
  <2> QED
    BY <1>c, <2>1 DEF Alone
<1>32. CASE Supersede
  <2>1. \A q \in Prompts : pc'[q] \in Busy => pc[q] \in Busy
    BY <1>32, <1>a, <1>b, <1>d, <1>f DEF Supersede, Busy, TurnPCs, GapPCs, TypeTasks
  <2> QED
    BY <1>c, <2>1 DEF Alone
<1> QED
  BY <1>1, <1>2, <1>3, <1>4, <1>5, <1>6, <1>7, <1>8, <1>9, <1>10, <1>11, <1>12, <1>13,
     <1>14, <1>15, <1>16, <1>17, <1>18, <1>19, <1>20, <1>21, <1>22, <1>23, <1>24, <1>25,
     <1>26, <1>27, <1>28, <1>29, <1>30, <1>31, <1>32 DEF Next, WireFree, WireTaking,
     Scheduler, Teardowns, Prompts

\* While a prompt has the slot, the status refuses another.
LEMMA BlocksStep ==
    ASSUME TypeOK, Ownership, SteersAbsent, EndShape, Alone, Blocks, [Next]_vars
    PROVE  Blocks'
<1> USE DEF turnVars, steerVars, rtVars, taskVars, soloVars, permVars, agentVars, histVars
<1>a. /\ TypeTurns /\ TypeTasks /\ TypeAgent /\ TypeRuntime
      /\ WireOwned /\ OutOwned /\ QueueOwned
  BY DEF TypeOK, Ownership
<1>b. \A q \in Range(queue) : pc[q] = "queued"
  BY <1>a, RangeQueued
<1>c. Guarded' => Guarded
  BY GuardedKept
<1>d. \A q \in Prompts : pc[q] # "kicked" /\ pc[q] \notin SteerPCs
  BY DEF SteersAbsent
<1>e. steerPending = << >>
  BY DEF SteersAbsent
<1>f. None \notin Prompts /\ Policies \subseteq {"try", "queued", "steer"}
  BY PromptsAssumption, PoliciesAssumption
<1>1. ASSUME NEW r \in Perms, AskPermission(r) PROVE Blocks'
  <2>1. UNCHANGED <<status, closing, superseded, pc>>
    BY <1>1 DEF AskPermission
  <2> QED
    BY <2>1, <1>c DEF Blocks, Guarded
<1>2. CASE RecordPark \/ ParkedDue \/ PassOver \/ ClearStale \/ UnscheduleResume \/
   CancelSend \/ GateRises \/ GateExpires \/ AgentDies \/ WatchScan \/ UNCHANGED vars
  <2>1. UNCHANGED <<status, closing, superseded, pc>>
    BY <1>2 DEF RecordPark, ParkedDue, PassOver, ClearStale, UnscheduleResume,
       CancelSend, GateRises, GateExpires, AgentDies, WatchScan, vars
  <2> QED
    BY <2>1, <1>c DEF Blocks, Guarded
<1>3. ASSUME NEW p \in Prompts, Send(p) PROVE Blocks'
  <2>1. \A q \in Prompts : pc'[q] \in Busy => pc[q] \in Busy
    BY <1>3, <1>a, <1>b, <1>d, <1>f DEF Send, Busy, TurnPCs, GapPCs, TypeTasks
  <2>2. closing' = closing /\ (status' = status \/ status' \in {"running", "needs_permission", "exited"})
    BY <1>3, <1>d DEF Send
  <2> QED
    BY <1>c, <2>1, <2>2 DEF Blocks
<1>4. ASSUME NEW p \in Prompts, SendQueued(p) PROVE Blocks'
  <2>1. \A q \in Prompts : pc'[q] \in Busy => pc[q] \in Busy
    BY <1>4, <1>a, <1>b, <1>d, <1>f DEF SendQueued, Busy, TurnPCs, GapPCs, TypeTasks
  <2>2. closing' = closing /\ (status' = status \/ status' \in {"running", "needs_permission", "exited"})
    BY <1>4, <1>d DEF SendQueued
  <2> QED
    BY <1>c, <2>1, <2>2 DEF Blocks
<1>5. ASSUME NEW p \in Prompts, SteerSend(p) PROVE Blocks'
  <2>1. \A q \in Prompts : pc'[q] \in Busy => pc[q] \in Busy
    BY <1>5, <1>a, <1>b, <1>d, <1>f DEF SteerSend, Busy, TurnPCs, GapPCs, TypeTasks,
       SteerPCs
  <2>2. closing' = closing /\ (status' = status \/ status' \in {"running", "needs_permission", "exited"})
    BY <1>5, <1>d DEF SteerSend, SteerPCs
  <2> QED
    BY <1>c, <2>1, <2>2 DEF Blocks
<1>6. ASSUME NEW p \in Prompts, BeginChecked(p) PROVE Blocks'
  <2>1. CASE status' = "running"
    BY <2>1 DEF Blocks
  <2>2. CASE status' = status /\ \A q \in Prompts : pc'[q] \in Busy => pc[q] \in Busy
    <3>1. closing' = closing
      BY <1>6 DEF BeginChecked
    <3> QED
      BY <1>c, <2>2, <3>1 DEF Blocks
  <2> QED
    BY <1>6, <1>a, <2>1, <2>2 DEF BeginChecked, StampTurn, Busy, TurnPCs, GapPCs, TypeTasks
<1>7. ASSUME NEW p \in Prompts, LogPrompt(p) PROVE Blocks'
  <2>1. \A q \in Prompts : pc'[q] \in Busy => pc[q] \in Busy
    BY <1>7, <1>a, <1>b, <1>d, <1>f DEF LogPrompt, Busy, TurnPCs, GapPCs, TypeTasks
  <2>2. closing' = closing /\ (status' = status \/ status' \in {"running", "needs_permission", "exited"})
    BY <1>7, <1>d DEF LogPrompt
  <2> QED
    BY <1>c, <2>1, <2>2 DEF Blocks
<1>8. ASSUME NEW p \in Prompts, LogFails(p) PROVE Blocks'
  <2>1. Guarded => \A q \in Prompts : pc[q] \in Busy => q = p
    BY <1>8 DEF LogFails, FinishBegins, Alone, Busy, TurnPCs, GapPCs
  <2>2. \A q \in Prompts : pc'[q] \in Busy => q # p /\ pc[q] \in Busy
    BY <1>8, <1>a, <1>b DEF LogFails, Busy, TurnPCs, GapPCs, TypeTasks
  <2> QED
    BY <1>c, <2>1, <2>2 DEF Blocks
<1>9. ASSUME NEW p \in Prompts, SendPrompt(p) PROVE Blocks'
  <2>1. \A q \in Prompts : pc'[q] \in Busy => pc[q] \in Busy
    BY <1>9, <1>a, <1>b, <1>d, <1>f DEF SendPrompt, Busy, TurnPCs, GapPCs, TypeTasks
  <2>2. closing' = closing /\ (status' = status \/ status' \in {"running", "needs_permission", "exited"})
    BY <1>9, <1>d DEF SendPrompt
  <2> QED
    BY <1>c, <2>1, <2>2 DEF Blocks
<1>10. ASSUME NEW p \in Prompts, SteerPush(p) PROVE Blocks'
  <2>1. \A q \in Prompts : pc'[q] \in Busy => pc[q] \in Busy
    BY <1>10, <1>a, <1>b, <1>d, <1>f DEF SteerPush, Busy, TurnPCs, GapPCs, TypeTasks,
       SteerPCs
  <2>2. closing' = closing /\ (status' = status \/ status' \in {"running", "needs_permission", "exited"})
    BY <1>10, <1>d DEF SteerPush, SteerPCs
  <2> QED
    BY <1>c, <2>1, <2>2 DEF Blocks
<1>11. ASSUME NEW p \in Prompts, SteerEnqueue(p) PROVE Blocks'
  <2>1. \A q \in Prompts : pc'[q] \in Busy => pc[q] \in Busy
    BY <1>11, <1>a, <1>b, <1>d, <1>f DEF SteerEnqueue, Busy, TurnPCs, GapPCs, TypeTasks,
       SteerPCs
  <2>2. closing' = closing /\ (status' = status \/ status' \in {"running", "needs_permission", "exited"})
    BY <1>11, <1>d DEF SteerEnqueue, SteerPCs
  <2> QED
    BY <1>c, <2>1, <2>2 DEF Blocks
<1>12. ASSUME NEW p \in Prompts, SteerNoteLimit(p) PROVE Blocks'
  <2>1. \A q \in Prompts : pc'[q] \in Busy => pc[q] \in Busy
    BY <1>12, <1>a, <1>b, <1>d, <1>f DEF SteerNoteLimit, Busy, TurnPCs, GapPCs,
       TypeTasks, SteerPCs
  <2>2. closing' = closing /\ (status' = status \/ status' \in {"running", "needs_permission", "exited"})
    BY <1>12, <1>d DEF SteerNoteLimit, SteerPCs
  <2> QED
    BY <1>c, <2>1, <2>2 DEF Blocks
<1>13. ASSUME NEW p \in Prompts, SteerResolved(p) PROVE Blocks'
  <2>1. \A q \in Prompts : pc'[q] \in Busy => pc[q] \in Busy
    BY <1>13, <1>a, <1>b, <1>d, <1>f DEF SteerResolved, Busy, TurnPCs, GapPCs, TypeTasks,
       SteerPCs
  <2>2. closing' = closing /\ (status' = status \/ status' \in {"running", "needs_permission", "exited"})
    BY <1>13, <1>d DEF SteerResolved, SteerPCs
  <2> QED
    BY <1>c, <2>1, <2>2 DEF Blocks
<1>14. ASSUME NEW p \in Prompts, KickWire(p) PROVE Blocks'
  <2>1. \A q \in Prompts : pc'[q] \in Busy => pc[q] \in Busy
    BY <1>14, <1>a, <1>b, <1>d, <1>f DEF KickWire, Busy, TurnPCs, GapPCs, TypeTasks
  <2>2. closing' = closing /\ (status' = status \/ status' \in {"running", "needs_permission", "exited"})
    BY <1>14, <1>d DEF KickWire
  <2> QED
    BY <1>c, <2>1, <2>2 DEF Blocks
<1>15. ASSUME NEW p \in Prompts, SettleTurn(p) PROVE Blocks'
  <2>1. Guarded => \A q \in Prompts : pc[q] \in Busy => q = p
    BY <1>15 DEF SettleTurn, FinishBegins, Alone, Busy, TurnPCs
  <2>2. CASE \A q \in Prompts : pc'[q] \in Busy => q # p /\ pc[q] \in Busy
    BY <1>c, <2>1, <2>2 DEF Blocks
  <2>3. CASE ~(\A q \in Prompts : pc'[q] \in Busy => q # p /\ pc[q] \in Busy)
    <3>1. status' = status /\ closing' = closing /\ pc[p] \in Busy
      BY <1>15, <1>a, <1>b, <2>3 DEF SettleTurn, FinishBegins, UnchangedByFinish, DropQueue,
         Busy, TurnPCs, GapPCs, TypeTasks
    <3> QED
      BY <1>c, <3>1 DEF Blocks
  <2> QED
    BY <2>2, <2>3
<1>16. ASSUME NEW p \in Prompts, FailTurn(p) PROVE Blocks'
  <2>1. Guarded => \A q \in Prompts : pc[q] \in Busy => q = p
    BY <1>16 DEF FailTurn, FinishBegins, Alone, Busy, TurnPCs, GapPCs
  <2>2. \A q \in Prompts : pc'[q] \in Busy => q # p /\ pc[q] \in Busy
    BY <1>16, <1>a, <1>b DEF FailTurn, CloseCurrent, FinishBegins, UnchangedByFinish,
       DropQueue, Busy, TurnPCs, GapPCs, TypeTasks
  <2> QED
    BY <1>c, <2>1, <2>2 DEF Blocks
<1>17. ASSUME NEW p \in Prompts, ParkTurn(p) PROVE Blocks'
  <2>1. Guarded => \A q \in Prompts : pc[q] \in Busy => q = p
    BY <1>17 DEF ParkTurn, FinishBegins, Alone, Busy, TurnPCs, GapPCs
  <2>2. \A q \in Prompts : pc'[q] \in Busy => q # p /\ pc[q] \in Busy
    BY <1>17, <1>a, <1>b DEF ParkTurn, CloseCurrent, FinishBegins, UnchangedByFinish,
       Busy, TurnPCs, GapPCs, TypeTasks
  <2> QED
    BY <1>c, <2>1, <2>2 DEF Blocks
<1>18. ASSUME NEW p \in Prompts, RecordTurnEnd(p) PROVE Blocks'
  <2>1. \A q \in Prompts : pc'[q] \in Busy => pc[q] \in Busy
    BY <1>18, <1>a, <1>b, <1>d, <1>f DEF RecordTurnEnd, Busy, TurnPCs, GapPCs, TypeTasks
  <2>2. closing' = closing /\ (status' = status \/ status' \in {"running", "needs_permission", "exited"})
    BY <1>18, <1>d DEF RecordTurnEnd
  <2> QED
    BY <1>c, <2>1, <2>2 DEF Blocks
<1>19. ASSUME NEW p \in Prompts, ClearRecording(p) PROVE Blocks'
  <2>1. \A q \in Prompts : pc'[q] \in Busy => pc[q] \in Busy
    BY <1>19, <1>a, <1>b, <1>d, <1>f DEF ClearRecording, Busy, TurnPCs, GapPCs, TypeTasks
  <2>2. closing' = closing /\ (status' = status \/ status' \in {"running", "needs_permission", "exited"})
    BY <1>19, <1>d DEF ClearRecording
  <2> QED
    BY <1>c, <2>1, <2>2 DEF Blocks
<1>20. ASSUME NEW p \in Prompts, NoteLimit(p) PROVE Blocks'
  <2>1. \A q \in Prompts : pc'[q] \in Busy => pc[q] \in Busy
    BY <1>20, <1>a, <1>b, <1>d, <1>f DEF NoteLimit, Busy, TurnPCs, GapPCs, TypeTasks
  <2>2. closing' = closing /\ (status' = status \/ status' \in {"running", "needs_permission", "exited"})
    BY <1>20, <1>d DEF NoteLimit
  <2> QED
    BY <1>c, <2>1, <2>2 DEF Blocks
<1>21. ASSUME NEW p \in Prompts, SpawnChained(p) PROVE Blocks'
  <2>1. \A q \in Prompts : pc'[q] \in Busy => pc[q] \in Busy
    BY <1>21, <1>a, <1>b, <1>d, <1>f DEF SpawnChained, StampTurn, Unstarted, Busy,
       TurnPCs, GapPCs, TypeTasks
  <2>2. closing' = closing /\ (status' = status \/ status' \in {"running", "needs_permission", "exited"})
    BY <1>21, <1>d DEF SpawnChained, StampTurn, Unstarted
  <2> QED
    BY <1>c, <2>1, <2>2 DEF Blocks
<1>22. ASSUME NEW p \in Prompts, Repark(p) PROVE Blocks'
  <2>1. Guarded => \A q \in Prompts : pc[q] \in Busy => q = p
    BY <1>22 DEF Repark, FinishBegins, Alone, Busy, TurnPCs, GapPCs
  <2>2. \A q \in Prompts : pc'[q] \in Busy => q # p /\ pc[q] \in Busy
    BY <1>22, <1>a, <1>b DEF Repark, Requeued, Busy, TurnPCs, GapPCs, TypeTasks
  <2> QED
    BY <1>c, <2>1, <2>2 DEF Blocks
<1>23. ASSUME NEW p \in Prompts, ReserveResume(p) PROVE Blocks'
  <2>1. status' = "running"
    BY <1>23 DEF ReserveResume, ReserveSlot
  <2> QED
    BY <2>1 DEF Blocks
<1>24. ASSUME NEW p \in Prompts, ClearParked(p) PROVE Blocks'
  <2>1. \A q \in Prompts : pc'[q] \in Busy => pc[q] \in Busy
    BY <1>24, <1>a, <1>b, <1>d, <1>f DEF ClearParked, Busy, TurnPCs, GapPCs, TypeTasks
  <2>2. closing' = closing /\ (status' = status \/ status' \in {"running", "needs_permission", "exited"})
    BY <1>24, <1>d DEF ClearParked
  <2> QED
    BY <1>c, <2>1, <2>2 DEF Blocks
<1>25. ASSUME NEW p \in Prompts, ResumeBegin(p) PROVE Blocks'
  <2>1. CASE status' \in {"running", "exited"}
    BY <2>1 DEF Blocks
  <2>2. CASE status' \notin {"running", "exited"}
    <3>1. Guarded => \A q \in Prompts : pc[q] \in Busy => q = p
      BY <1>25 DEF ResumeBegin, Alone, Busy, GapPCs
    <3>2. \A q \in Prompts : pc'[q] \in Busy => q # p /\ pc[q] \in Busy
      BY <1>25, <1>a, <2>2 DEF ResumeBegin, StampTurn, Unstarted, Busy, TurnPCs, GapPCs, TypeTasks
    <3> QED
      BY <1>c, <3>1, <3>2 DEF Blocks
  <2> QED
    BY <2>1, <2>2
<1>26. ASSUME NEW p \in Prompts, Answer(p) PROVE Blocks'
  <2>1. \A q \in Prompts : pc'[q] \in Busy => pc[q] \in Busy
    BY <1>26, <1>a, <1>b, <1>d, <1>f DEF Answer, Busy, TurnPCs, GapPCs, TypeTasks,
       OutOwned
  <2>2. closing' = closing /\ (status' = status \/ status' \in {"running", "needs_permission", "exited"})
    BY <1>26, <1>d DEF Answer
  <2> QED
    BY <1>c, <2>1, <2>2 DEF Blocks
<1>27. ASSUME NEW r \in Perms, QueueForPermit(r) PROVE Blocks'
  <2>1. UNCHANGED <<pc, closing>> /\ (status' = status \/ status' \in {"running", "needs_permission"})
    BY <1>27 DEF QueueForPermit
  <2> QED
    BY <1>c, <2>1 DEF Blocks
<1>28. ASSUME NEW r \in Perms, Permit(r) PROVE Blocks'
  <2>1. UNCHANGED <<pc, closing>> /\ (status' = status \/ status' \in {"running", "needs_permission"})
    BY <1>28 DEF Permit, Unblocked
  <2> QED
    BY <1>c, <2>1 DEF Blocks
<1>29. ASSUME NEW r \in Perms, PermitAnswered(r) PROVE Blocks'
  <2>1. UNCHANGED <<pc, closing>> /\ (status' = status \/ status' \in {"running", "needs_permission"})
    BY <1>29 DEF PermitAnswered, Unblocked
  <2> QED
    BY <1>c, <2>1 DEF Blocks
<1>30. CASE Teardown
  <2>1. \A q \in Prompts : pc'[q] \in Busy => pc[q] \in Busy
    BY <1>30, <1>a, <1>b DEF Teardown, CloseSub, DropQueue, Busy, TurnPCs, GapPCs, TypeTasks
  <2>2. closing' = "ending"
        /\ status' = IF status \in {"running", "needs_permission", "rate_limited"}
                     THEN "cancelled" ELSE status
    BY <1>30 DEF Teardown, CloseSub
  <2> QED
    BY <1>c, <2>1, <2>2 DEF Blocks
<1>31. CASE HandedClose
  <2>1. \A q \in Prompts : pc'[q] \in Busy => pc[q] \in Busy
    BY <1>31, <1>a, <1>b DEF HandedClose, CloseSub, DropQueue, Busy, TurnPCs, GapPCs, TypeTasks
  <2>2. closing' = "ending"
        /\ status' = IF status \in {"running", "needs_permission", "rate_limited"}
                     THEN "cancelled" ELSE status
    BY <1>31 DEF HandedClose, CloseSub
  <2> QED
    BY <1>c, <2>1, <2>2 DEF Blocks
<1>32. CASE OnDisconnect
  <2>1. \A q \in Prompts : pc'[q] \in Busy => pc[q] \in Busy
    BY <1>32, <1>a, <1>b DEF OnDisconnect, DropQueue, Busy, TurnPCs, GapPCs, TypeTasks
  <2>2. closing' = closing /\ (status' = status \/ status' = "exited")
    BY <1>32 DEF OnDisconnect
  <2> QED
    BY <1>c, <2>1, <2>2 DEF Blocks
<1>33. CASE SessionUpdate
  <2>1. UNCHANGED <<pc, closing>> /\ status' = "running"
    BY <1>33 DEF SessionUpdate
  <2> QED
    BY <2>1 DEF Blocks
<1>34. CASE CancelTurn
  <2>1. \A q \in Prompts : pc'[q] \in Busy => pc[q] \in Busy
    BY <1>34, <1>a, <1>b, <1>d, <1>f DEF CancelTurn, DropQueue, AnswerPending, Busy,
       TurnPCs, GapPCs, TypeTasks
  <2>2. closing' = closing /\ (status' = status \/ status' \in {"running", "needs_permission", "exited"})
    BY <1>34, <1>d DEF CancelTurn, DropQueue, AnswerPending
  <2> QED
    BY <1>c, <2>1, <2>2 DEF Blocks
<1>35. CASE CloseSession
  <2>1. closing' = "ending" /\ status' = status /\ pc' = pc
    BY <1>35 DEF CloseSession
  <2> QED
    BY <1>c, <2>1 DEF Blocks
<1>36. CASE Supersede
  <2>1. closing = "ending" => closing' = "ending"
    BY <1>36 DEF Supersede
  <2>2. UNCHANGED <<pc, status>>
    BY <1>36 DEF Supersede
  <2> QED
    BY <1>c, <2>1, <2>2 DEF Blocks
<1>37. CASE HandoffOne
  <2>1. Guarded => closing # "ending"
    BY <1>37 DEF HandoffOne, EndShape, Claimed, ClosingMarked, Guarded
  <2>2. UNCHANGED <<pc, status>>
    BY <1>37 DEF HandoffOne
  <2> QED
    BY <1>c, <2>1, <2>2 DEF Blocks
<1>38. CASE HandoffReported
  <2>1. closing = "ending" => closing' = "ending"
    BY <1>38 DEF HandoffReported
  <2>2. UNCHANGED <<pc, status>>
    BY <1>38 DEF HandoffReported
  <2> QED
    BY <1>c, <2>1, <2>2 DEF Blocks
<1> QED
  BY <1>1, <1>2, <1>3, <1>4, <1>5, <1>6, <1>7, <1>8, <1>9, <1>10, <1>11, <1>12, <1>13,
     <1>14, <1>15, <1>16, <1>17, <1>18, <1>19, <1>20, <1>21, <1>22, <1>23, <1>24, <1>25,
     <1>26, <1>27, <1>28, <1>29, <1>30, <1>31, <1>32, <1>33, <1>34, <1>35, <1>36, <1>37,
     <1>38 DEF Next, WireFree, WireTaking, Scheduler, Teardowns, Prompts

\* One prompt at a time, without steers.
Slot == SteersAbsent /\ EndShape /\ Alone /\ Blocks

LEMMA SlotInvariant == ASSUME "steer" \notin Policies PROVE Spec => []Slot
<1>1. Init => Alone /\ Blocks
  BY DEF Init, Alone, Blocks, Busy, TurnPCs, GapPCs
<1>2. IndInv /\ SteersAbsent /\ EndShape /\ Alone /\ Blocks /\ [Next]_vars => (Alone /\ Blocks)'
  BY AloneStep, BlocksStep DEF IndInv
<1>3. SteersAbsent /\ EndShape /\ Alone /\ Blocks => Slot
  BY DEF Slot
<1> QED
  BY <1>1, <1>2, <1>3, Inductive, EndsInvariant, SteersAbsentInvariant, PTL DEF Spec

-----------------------------------------------------------------------------
(* The turn in flight and its cancel                                       *)

\* The current turn is its prompt's, which has been enqueued or is about to
\* be.
CurrentOwned ==
    current # NoTurn =>
        /\ current.p \in Prompts /\ pc[current.p] \in TurnPCs
        /\ ~current.onWire => pc[current.p] \in {"logging", "sending"}

\* begin_turn keeps the turn it stamped until it has sent the prompt: only
\* the agent's death takes it away.
BeginsOwn ==
    \A p \in Prompts : pc[p] \in {"logging", "sending"} =>
        IF current = NoTurn THEN ~alive ELSE current.p = p /\ ~current.onWire

\* A prompt a cancel was aimed at had its turn begun by then; until it is
\* sent the cancel is noted on its turn, then it is told or about to be.
CancelTold ==
    /\ \A p \in Prompts : p \in doomed =>
         pc[p] \in TurnPCs \cup {"recording", "clearing", "noting", "done", "dropped"}
    /\ alive => \A p \in Prompts : p \in doomed =>
         /\ pc[p] \in {"logging", "sending"} => current.cancelReq
         /\ p \in out => canceller \/ p \in toCancel

\* The current turn stays its prompt's until it settles or dies.
LEMMA CurrentStep ==
    ASSUME TypeOK, Ownership, Numbering, SteersAbsent, CurrentOwned, BeginsOwn,
       [Next]_vars
    PROVE  CurrentOwned'
<1> USE DEF turnVars, steerVars, rtVars, taskVars, soloVars, permVars, agentVars, histVars
<1>a. /\ TypeTurns /\ TypeTasks /\ TypeAgent /\ TypeRuntime /\ TypeSolo
      /\ WireOwned /\ OutOwned /\ QueueOwned
  BY DEF TypeOK, Ownership
<1>b. \A q \in Range(queue) : pc[q] = "queued"
  BY <1>a, RangeQueued
<1>d. \A q \in Prompts : pc[q] # "kicked" /\ pc[q] \notin SteerPCs
  BY DEF SteersAbsent
<1>e. steerPending = << >>
  BY DEF SteersAbsent
<1>f. None \notin Prompts /\ Policies \subseteq {"try", "queued", "steer"}
  BY PromptsAssumption, PoliciesAssumption
<1>1. ASSUME NEW r \in Perms,
             AskPermission(r) \/ QueueForPermit(r) \/ Permit(r) \/ PermitAnswered(r)
      PROVE  CurrentOwned'
  <2>1. UNCHANGED <<current, pc>>
    BY <1>1 DEF AskPermission, QueueForPermit, Permit, Unblocked, PermitAnswered
  <2> QED
    BY <2>1, <1>a DEF CurrentOwned
<1>2. CASE RecordPark \/ ParkedDue \/ PassOver \/ ClearStale \/ UnscheduleResume \/
   CancelSend \/ GateRises \/ GateExpires \/ AgentDies \/ CloseSession \/ Supersede \/
   WatchScan
  <2>1. UNCHANGED <<current, pc>>
    BY <1>2 DEF RecordPark, ParkedDue, PassOver, ClearStale, UnscheduleResume,
       CancelSend, GateRises, GateExpires, AgentDies, CloseSession, Supersede, WatchScan
  <2> QED
    BY <2>1, <1>a DEF CurrentOwned
<1>3. CASE HandoffOne \/ HandoffReported \/ UNCHANGED vars
  <2>1. UNCHANGED <<current, pc>>
    BY <1>3 DEF HandoffOne, HandoffReported, vars
  <2> QED
    BY <2>1, <1>a DEF CurrentOwned
<1>4. ASSUME NEW p \in Prompts, Send(p) PROVE CurrentOwned'
  <2>1. \A q \in Prompts : pc[q] \in TurnPCs
                 => /\ pc'[q] \in TurnPCs
                    /\ pc[q] \in {"logging", "sending"} => pc'[q] \in {"logging", "sending"}
    BY <1>4, <1>a, <1>b, <1>d, <1>f DEF Send, TurnPCs, TypeTasks
  <2>2. current' = current
    BY <1>4, <1>d DEF Send
  <2> QED
    BY <2>1, <2>2 DEF CurrentOwned
<1>5. ASSUME NEW p \in Prompts, SendQueued(p) PROVE CurrentOwned'
  <2>1. \A q \in Prompts : pc[q] \in TurnPCs
                 => /\ pc'[q] \in TurnPCs
                    /\ pc[q] \in {"logging", "sending"} => pc'[q] \in {"logging", "sending"}
    BY <1>5, <1>a, <1>b, <1>d, <1>f DEF SendQueued, TurnPCs, TypeTasks
  <2>2. current' = current
    BY <1>5, <1>d DEF SendQueued
  <2> QED
    BY <2>1, <2>2 DEF CurrentOwned
<1>6. ASSUME NEW p \in Prompts, SteerSend(p) PROVE CurrentOwned'
  <2>1. \A q \in Prompts : pc[q] \in TurnPCs
                 => /\ pc'[q] \in TurnPCs
                    /\ pc[q] \in {"logging", "sending"} => pc'[q] \in {"logging", "sending"}
    BY <1>6, <1>a, <1>b, <1>d, <1>f DEF SteerSend, TurnPCs, TypeTasks, SteerPCs
  <2>2. current' = current
    BY <1>6, <1>d DEF SteerSend, SteerPCs
  <2> QED
    BY <2>1, <2>2 DEF CurrentOwned
<1>7. ASSUME NEW p \in Prompts, BeginChecked(p) PROVE CurrentOwned'
  <2>1. CASE /\ current' = [n |-> NextTurn, p |-> p, onWire |-> FALSE, cancelReq |-> FALSE]
             /\ pc' = [pc EXCEPT ![p] = "logging"]
    BY <1>a, <2>1 DEF CurrentOwned, TurnPCs, TypeTasks
  <2>2. CASE /\ current' = current
             /\ \A q \in Prompts : pc[q] \in TurnPCs => pc'[q] = pc[q]
    BY <2>2 DEF CurrentOwned, TurnPCs
  <2> QED
    BY <1>7, <1>a, <2>1, <2>2 DEF BeginChecked, StampTurn, TurnPCs, TypeTasks
<1>8. ASSUME NEW p \in Prompts, LogPrompt(p) PROVE CurrentOwned'
  <2>1. \A q \in Prompts : pc[q] \in TurnPCs
                 => /\ pc'[q] \in TurnPCs
                    /\ pc[q] \in {"logging", "sending"} => pc'[q] \in {"logging", "sending"}
    BY <1>8, <1>a, <1>b, <1>d, <1>f DEF LogPrompt, TurnPCs, TypeTasks
  <2>2. current' = current
    BY <1>8, <1>d DEF LogPrompt
  <2> QED
    BY <2>1, <2>2 DEF CurrentOwned
<1>9. ASSUME NEW p \in Prompts, LogFails(p) PROVE CurrentOwned'
  <2>1. current' = NoTurn
    BY <1>9 DEF LogFails, CloseCurrent
  <2> QED
    BY <2>1 DEF CurrentOwned
<1>10. ASSUME NEW p \in Prompts, SendPrompt(p) PROVE CurrentOwned'
  <2>1. /\ pc[p] = "sending" /\ pc' = [pc EXCEPT ![p] = "inturn"]
        /\ current # NoTurn => current.p = p /\ current.n = NextTurn
    BY <1>10 DEF SendPrompt, BeginsOwn, Numbering
  <2>2. CASE current = NoTurn
    BY <1>10, <2>2 DEF SendPrompt, CurrentOwned
  <2>3. CASE current # NoTurn
    <3>1. current' = [current EXCEPT !.onWire = TRUE, !.cancelReq = FALSE]
      BY <1>10, <2>1, <2>3 DEF SendPrompt
    <3>2. current'.p = p /\ current'.onWire
      BY <1>a, <2>1, <2>3, <3>1 DEF TypeTurns, Turn
    <3> QED
      BY <1>a, <2>1, <3>2 DEF CurrentOwned, TurnPCs, TypeTasks
  <2> QED
    BY <2>2, <2>3
<1>11. ASSUME NEW p \in Prompts, SteerPush(p) PROVE CurrentOwned'
  <2>1. \A q \in Prompts : pc[q] \in TurnPCs
                 => /\ pc'[q] \in TurnPCs
                    /\ pc[q] \in {"logging", "sending"} => pc'[q] \in {"logging", "sending"}
    BY <1>11, <1>a, <1>b, <1>d, <1>f DEF SteerPush, TurnPCs, TypeTasks, SteerPCs
  <2>2. current' = current
    BY <1>11, <1>d DEF SteerPush, SteerPCs
  <2> QED
    BY <2>1, <2>2 DEF CurrentOwned
<1>12. ASSUME NEW p \in Prompts, SteerEnqueue(p) PROVE CurrentOwned'
  <2>1. \A q \in Prompts : pc[q] \in TurnPCs
                 => /\ pc'[q] \in TurnPCs
                    /\ pc[q] \in {"logging", "sending"} => pc'[q] \in {"logging", "sending"}
    BY <1>12, <1>a, <1>b, <1>d, <1>f DEF SteerEnqueue, TurnPCs, TypeTasks, SteerPCs
  <2>2. current' = current
    BY <1>12, <1>d DEF SteerEnqueue, SteerPCs
  <2> QED
    BY <2>1, <2>2 DEF CurrentOwned
<1>13. ASSUME NEW p \in Prompts, SteerNoteLimit(p) PROVE CurrentOwned'
  <2>1. \A q \in Prompts : pc[q] \in TurnPCs
                 => /\ pc'[q] \in TurnPCs
                    /\ pc[q] \in {"logging", "sending"} => pc'[q] \in {"logging", "sending"}
    BY <1>13, <1>a, <1>b, <1>d, <1>f DEF SteerNoteLimit, TurnPCs, TypeTasks, SteerPCs
  <2>2. current' = current
    BY <1>13, <1>d DEF SteerNoteLimit, SteerPCs
  <2> QED
    BY <2>1, <2>2 DEF CurrentOwned
<1>14. ASSUME NEW p \in Prompts, SteerResolved(p) PROVE CurrentOwned'
  <2>1. \A q \in Prompts : pc[q] \in TurnPCs
                 => /\ pc'[q] \in TurnPCs
                    /\ pc[q] \in {"logging", "sending"} => pc'[q] \in {"logging", "sending"}
    BY <1>14, <1>a, <1>b, <1>d, <1>f DEF SteerResolved, TurnPCs, TypeTasks, SteerPCs
  <2>2. current' = current
    BY <1>14, <1>d DEF SteerResolved, SteerPCs
  <2> QED
    BY <2>1, <2>2 DEF CurrentOwned
<1>15. ASSUME NEW p \in Prompts, KickWire(p) PROVE CurrentOwned'
  <2>1. \A q \in Prompts : pc[q] \in TurnPCs
                 => /\ pc'[q] \in TurnPCs
                    /\ pc[q] \in {"logging", "sending"} => pc'[q] \in {"logging", "sending"}
    BY <1>15, <1>a, <1>b, <1>d, <1>f DEF KickWire, TurnPCs, TypeTasks
  <2>2. current' = current
    BY <1>15, <1>d DEF KickWire
  <2> QED
    BY <2>1, <2>2 DEF CurrentOwned
<1>16. ASSUME NEW p \in Prompts, SettleTurn(p) PROVE CurrentOwned'
  <2>1. current' = NoTurn
    BY <1>16 DEF SettleTurn, CloseCurrent
  <2> QED
    BY <2>1 DEF CurrentOwned
<1>17. ASSUME NEW p \in Prompts, FailTurn(p) PROVE CurrentOwned'
  <2>1. current' = NoTurn
    BY <1>17 DEF FailTurn, CloseCurrent
  <2> QED
    BY <2>1 DEF CurrentOwned
<1>18. ASSUME NEW p \in Prompts, ParkTurn(p) PROVE CurrentOwned'
  <2>1. current' = NoTurn
    BY <1>18 DEF ParkTurn, CloseCurrent
  <2> QED
    BY <2>1 DEF CurrentOwned
<1>19. ASSUME NEW p \in Prompts, RecordTurnEnd(p) PROVE CurrentOwned'
  <2>1. \A q \in Prompts : pc[q] \in TurnPCs
                 => /\ pc'[q] \in TurnPCs
                    /\ pc[q] \in {"logging", "sending"} => pc'[q] \in {"logging", "sending"}
    BY <1>19, <1>a, <1>b, <1>d, <1>f DEF RecordTurnEnd, TurnPCs, TypeTasks
  <2>2. current' = current
    BY <1>19, <1>d DEF RecordTurnEnd
  <2> QED
    BY <2>1, <2>2 DEF CurrentOwned
<1>20. ASSUME NEW p \in Prompts, ClearRecording(p) PROVE CurrentOwned'
  <2>1. \A q \in Prompts : pc[q] \in TurnPCs
                 => /\ pc'[q] \in TurnPCs
                    /\ pc[q] \in {"logging", "sending"} => pc'[q] \in {"logging", "sending"}
    BY <1>20, <1>a, <1>b, <1>d, <1>f DEF ClearRecording, TurnPCs, TypeTasks
  <2>2. current' = current
    BY <1>20, <1>d DEF ClearRecording
  <2> QED
    BY <2>1, <2>2 DEF CurrentOwned
<1>21. ASSUME NEW p \in Prompts, NoteLimit(p) PROVE CurrentOwned'
  <2>1. \A q \in Prompts : pc[q] \in TurnPCs
                 => /\ pc'[q] \in TurnPCs
                    /\ pc[q] \in {"logging", "sending"} => pc'[q] \in {"logging", "sending"}
    BY <1>21, <1>a, <1>b, <1>d, <1>f DEF NoteLimit, TurnPCs, TypeTasks
  <2>2. current' = current
    BY <1>21, <1>d DEF NoteLimit
  <2> QED
    BY <2>1, <2>2 DEF CurrentOwned
<1>22. ASSUME NEW p \in Prompts, SpawnChained(p) PROVE CurrentOwned'
  <2>1. CASE /\ current' = [n |-> NextTurn, p |-> p, onWire |-> FALSE, cancelReq |-> FALSE]
             /\ pc' = [pc EXCEPT ![p] = "logging"]
    BY <1>a, <2>1 DEF CurrentOwned, TurnPCs, TypeTasks
  <2>2. CASE /\ current' = current
             /\ \A q \in Prompts : pc[q] \in TurnPCs => pc'[q] = pc[q]
    BY <2>2 DEF CurrentOwned, TurnPCs
  <2> QED
    BY <1>22, <1>a, <2>1, <2>2 DEF SpawnChained, StampTurn, Unstarted, TurnPCs, TypeTasks
<1>23. ASSUME NEW p \in Prompts, Repark(p) PROVE CurrentOwned'
  <2>1. \A q \in Prompts : pc[q] \in TurnPCs
                 => /\ pc'[q] \in TurnPCs
                    /\ pc[q] \in {"logging", "sending"} => pc'[q] \in {"logging", "sending"}
    BY <1>23, <1>a, <1>b, <1>d, <1>f DEF Repark, Requeued, TurnPCs, TypeTasks
  <2>2. current' = current
    BY <1>23, <1>d DEF Repark, Requeued
  <2> QED
    BY <2>1, <2>2 DEF CurrentOwned
<1>24. ASSUME NEW p \in Prompts, ReserveResume(p) PROVE CurrentOwned'
  <2>1. \A q \in Prompts : pc[q] \in TurnPCs
                 => /\ pc'[q] \in TurnPCs
                    /\ pc[q] \in {"logging", "sending"} => pc'[q] \in {"logging", "sending"}
    BY <1>24, <1>a, <1>b, <1>d, <1>f, HeadQueued DEF ReserveResume, ReserveSlot, TurnPCs,
       TypeTasks
  <2>2. current' = current
    BY <1>24, <1>d DEF ReserveResume, ReserveSlot
  <2> QED
    BY <2>1, <2>2 DEF CurrentOwned
<1>25. ASSUME NEW p \in Prompts, ClearParked(p) PROVE CurrentOwned'
  <2>1. \A q \in Prompts : pc[q] \in TurnPCs
                 => /\ pc'[q] \in TurnPCs
                    /\ pc[q] \in {"logging", "sending"} => pc'[q] \in {"logging", "sending"}
    BY <1>25, <1>a, <1>b, <1>d, <1>f DEF ClearParked, TurnPCs, TypeTasks
  <2>2. current' = current
    BY <1>25, <1>d DEF ClearParked
  <2> QED
    BY <2>1, <2>2 DEF CurrentOwned
<1>26. ASSUME NEW p \in Prompts, ResumeBegin(p) PROVE CurrentOwned'
  <2>1. CASE /\ current' = [n |-> NextTurn, p |-> p, onWire |-> FALSE, cancelReq |-> FALSE]
             /\ pc' = [pc EXCEPT ![p] = "logging"]
    BY <1>a, <2>1 DEF CurrentOwned, TurnPCs, TypeTasks
  <2>2. CASE /\ current' = current
             /\ \A q \in Prompts : pc[q] \in TurnPCs => pc'[q] = pc[q]
    BY <2>2 DEF CurrentOwned, TurnPCs
  <2> QED
    BY <1>26, <1>a, <2>1, <2>2 DEF ResumeBegin, StampTurn, Unstarted, TurnPCs, TypeTasks
<1>27. ASSUME NEW p \in Prompts, Answer(p) PROVE CurrentOwned'
  <2>1. \A q \in Prompts : pc[q] \in TurnPCs
                 => /\ pc'[q] \in TurnPCs
                    /\ pc[q] \in {"logging", "sending"} => pc'[q] \in {"logging", "sending"}
    BY <1>27, <1>a, <1>b, <1>d, <1>f DEF Answer, TurnPCs, TypeTasks, OutOwned
  <2>2. current' = current
    BY <1>27, <1>d DEF Answer, OutOwned
  <2> QED
    BY <2>1, <2>2 DEF CurrentOwned
<1>28. CASE Teardown
  <2>1. \A q \in Prompts : pc[q] \in TurnPCs
                 => /\ pc'[q] \in TurnPCs
                    /\ pc[q] \in {"logging", "sending"} => pc'[q] \in {"logging", "sending"}
    BY <1>28, <1>a, <1>b, <1>d, <1>f DEF Teardown, CloseSub, DropQueue, AnswerPending,
       TurnPCs, TypeTasks
  <2>2. current' = current
    BY <1>28, <1>d DEF Teardown, CloseSub, DropQueue, AnswerPending
  <2> QED
    BY <2>1, <2>2 DEF CurrentOwned
<1>29. CASE HandedClose
  <2>1. \A q \in Prompts : pc[q] \in TurnPCs
                 => /\ pc'[q] \in TurnPCs
                    /\ pc[q] \in {"logging", "sending"} => pc'[q] \in {"logging", "sending"}
    BY <1>29, <1>a, <1>b, <1>d, <1>f DEF HandedClose, CloseSub, DropQueue, AnswerPending,
       TurnPCs, TypeTasks
  <2>2. current' = current
    BY <1>29, <1>d DEF HandedClose, CloseSub, DropQueue, AnswerPending
  <2> QED
    BY <2>1, <2>2 DEF CurrentOwned
<1>30. CASE OnDisconnect
  <2>1. CASE current' = NoTurn
    BY <2>1 DEF CurrentOwned
  <2>2. CASE current' = current /\ pc' = pc
    BY <2>2 DEF CurrentOwned
  <2> QED
    BY <1>30, <2>1, <2>2 DEF OnDisconnect
<1>31. CASE SessionUpdate
  <2>1. FALSE
    BY <1>31 DEF SessionUpdate, SteersAbsent, OldestSteer, Oldest
  <2> QED
    BY <2>1
<1>32. CASE CancelTurn
  <2>1. \A q \in Prompts : pc[q] \in TurnPCs => pc'[q] = pc[q]
    BY <1>32, <1>a, <1>b DEF CancelTurn, DropQueue, TurnPCs, TypeTasks
  <2>2. CASE current' = current
    BY <2>1, <2>2 DEF CurrentOwned, TurnPCs
  <2>3. CASE OffWire /\ current' = [current EXCEPT !.cancelReq = TRUE]
    <3>1. current # NoTurn /\ current'.p = current.p /\ current'.onWire = current.onWire
      BY <1>a, <2>3 DEF OffWire, TypeTurns, Turn
    <3> QED
      BY <2>1, <3>1 DEF CurrentOwned, TurnPCs
  <2> QED
    BY <1>32, <2>2, <2>3 DEF CancelTurn
<1> QED
  BY <1>1, <1>2, <1>3, <1>4, <1>5, <1>6, <1>7, <1>8, <1>9, <1>10, <1>11, <1>12, <1>13,
     <1>14, <1>15, <1>16, <1>17, <1>18, <1>19, <1>20, <1>21, <1>22, <1>23, <1>24, <1>25,
     <1>26, <1>27, <1>28, <1>29, <1>30, <1>31, <1>32 DEF Next, WireFree, WireTaking,
     Scheduler, Teardowns, Prompts

\* Nothing touches the turn between its stamp and its prompt.
LEMMA BeginsStep ==
    ASSUME TypeOK, Ownership, Numbering, SteersAbsent, CurrentOwned, BeginsOwn,
       [Next]_vars
    PROVE  BeginsOwn'
<1> USE DEF turnVars, steerVars, rtVars, taskVars, soloVars, permVars, agentVars, histVars
<1>a. /\ TypeTurns /\ TypeTasks /\ TypeAgent /\ TypeRuntime /\ TypeSolo
      /\ WireOwned /\ OutOwned /\ QueueOwned
  BY DEF TypeOK, Ownership
<1>b. \A q \in Range(queue) : pc[q] = "queued"
  BY <1>a, RangeQueued
<1>d. \A q \in Prompts : pc[q] # "kicked" /\ pc[q] \notin SteerPCs
  BY DEF SteersAbsent
<1>e. steerPending = << >>
  BY DEF SteersAbsent
<1>f. None \notin Prompts /\ Policies \subseteq {"try", "queued", "steer"}
  BY PromptsAssumption, PoliciesAssumption
<1>1. ASSUME NEW r \in Perms,
             AskPermission(r) \/ QueueForPermit(r) \/ Permit(r) \/ PermitAnswered(r)
      PROVE  BeginsOwn'
  <2>1. UNCHANGED <<current, pc, alive>>
    BY <1>1 DEF AskPermission, QueueForPermit, Permit, Unblocked, PermitAnswered
  <2> QED
    BY <2>1, <1>a DEF BeginsOwn
<1>2. CASE RecordPark \/ ParkedDue \/ PassOver \/ ClearStale \/ UnscheduleResume \/
   CancelSend \/ GateRises \/ GateExpires \/ CloseSession \/ Supersede \/ WatchScan \/
   HandoffOne
  <2>1. UNCHANGED <<current, pc, alive>>
    BY <1>2 DEF RecordPark, ParkedDue, PassOver, ClearStale, UnscheduleResume,
       CancelSend, GateRises, GateExpires, CloseSession, Supersede, WatchScan,
       HandoffOne
  <2> QED
    BY <2>1, <1>a DEF BeginsOwn
<1>3. CASE HandoffReported \/ UNCHANGED vars
  <2>1. UNCHANGED <<current, pc, alive>>
    BY <1>3 DEF HandoffReported, vars
  <2> QED
    BY <2>1, <1>a DEF BeginsOwn
<1>4. ASSUME NEW p \in Prompts, Send(p) PROVE BeginsOwn'
  <2>1. \A q \in Prompts : pc'[q] \in {"logging", "sending"} => pc[q] \in {"logging", "sending"}
    BY <1>4, <1>a, <1>b, <1>d, <1>f DEF Send, TypeTasks
  <2>2. current' = current /\ (~alive => ~alive')
    BY <1>4, <1>d DEF Send
  <2> QED
    BY <2>1, <2>2 DEF BeginsOwn
<1>5. ASSUME NEW p \in Prompts, SendQueued(p) PROVE BeginsOwn'
  <2>1. \A q \in Prompts : pc'[q] \in {"logging", "sending"} => pc[q] \in {"logging", "sending"}
    BY <1>5, <1>a, <1>b, <1>d, <1>f DEF SendQueued, TypeTasks
  <2>2. current' = current /\ (~alive => ~alive')
    BY <1>5, <1>d DEF SendQueued
  <2> QED
    BY <2>1, <2>2 DEF BeginsOwn
<1>6. ASSUME NEW p \in Prompts, SteerSend(p) PROVE BeginsOwn'
  <2>1. \A q \in Prompts : pc'[q] \in {"logging", "sending"} => pc[q] \in {"logging", "sending"}
    BY <1>6, <1>a, <1>b, <1>d, <1>f DEF SteerSend, TypeTasks, SteerPCs
  <2>2. current' = current /\ (~alive => ~alive')
    BY <1>6, <1>d DEF SteerSend, SteerPCs
  <2> QED
    BY <2>1, <2>2 DEF BeginsOwn
<1>7. ASSUME NEW p \in Prompts, BeginChecked(p) PROVE BeginsOwn'
  <2>1. CASE /\ current' = [n |-> NextTurn, p |-> p, onWire |-> FALSE, cancelReq |-> FALSE]
             /\ pc' = [pc EXCEPT ![p] = "logging"]
    <3>1. \A q \in Prompts : pc[q] \in {"logging", "sending"} => q = p
      BY <1>7, <1>a, <1>f DEF BeginChecked, WireOwned, Holding
    <3>2. \A q \in Prompts : pc'[q] \in {"logging", "sending"} => q = p
      BY <1>a, <2>1, <3>1 DEF TypeTasks
    <3>3. current' # NoTurn /\ current'.p = p /\ ~current'.onWire
      BY <1>f, <2>1 DEF NoTurn
    <3> QED
      BY <3>2, <3>3 DEF BeginsOwn
  <2>2. CASE /\ current' = current /\ alive' = alive
             /\ \A q \in Prompts : pc'[q] \in {"logging", "sending"} => pc[q] = pc'[q]
    BY <2>2 DEF BeginsOwn
  <2> QED
    BY <1>7, <1>a, <2>1, <2>2 DEF BeginChecked, StampTurn, TypeTasks
<1>8. ASSUME NEW p \in Prompts, LogPrompt(p) PROVE BeginsOwn'
  <2>1. \A q \in Prompts : pc'[q] \in {"logging", "sending"} => pc[q] \in {"logging", "sending"}
    BY <1>8, <1>a, <1>b, <1>d, <1>f DEF LogPrompt, TypeTasks
  <2>2. current' = current /\ (~alive => ~alive')
    BY <1>8, <1>d DEF LogPrompt
  <2> QED
    BY <2>1, <2>2 DEF BeginsOwn
<1>9. ASSUME NEW p \in Prompts, LogFails(p) PROVE BeginsOwn'
  <2>1. \A q \in Prompts : pc'[q] \notin {"logging", "sending"}
    BY <1>9, <1>a, <1>f DEF LogFails, WireOwned, Holding, TypeTasks
  <2> QED
    BY <2>1 DEF BeginsOwn
<1>10. ASSUME NEW p \in Prompts, SendPrompt(p) PROVE BeginsOwn'
  <2>1. \A q \in Prompts : pc'[q] \notin {"logging", "sending"}
    BY <1>10, <1>a, <1>f DEF SendPrompt, WireOwned, Holding, TypeTasks
  <2> QED
    BY <2>1 DEF BeginsOwn
<1>11. ASSUME NEW p \in Prompts, SteerPush(p) PROVE BeginsOwn'
  <2>1. \A q \in Prompts : pc'[q] \in {"logging", "sending"} => pc[q] \in {"logging", "sending"}
    BY <1>11, <1>a, <1>b, <1>d, <1>f DEF SteerPush, TypeTasks, SteerPCs
  <2>2. current' = current /\ (~alive => ~alive')
    BY <1>11, <1>d DEF SteerPush, SteerPCs
  <2> QED
    BY <2>1, <2>2 DEF BeginsOwn
<1>12. ASSUME NEW p \in Prompts, SteerEnqueue(p) PROVE BeginsOwn'
  <2>1. \A q \in Prompts : pc'[q] \in {"logging", "sending"} => pc[q] \in {"logging", "sending"}
    BY <1>12, <1>a, <1>b, <1>d, <1>f DEF SteerEnqueue, TypeTasks, SteerPCs
  <2>2. current' = current /\ (~alive => ~alive')
    BY <1>12, <1>d DEF SteerEnqueue, SteerPCs
  <2> QED
    BY <2>1, <2>2 DEF BeginsOwn
<1>13. ASSUME NEW p \in Prompts, SteerNoteLimit(p) PROVE BeginsOwn'
  <2>1. \A q \in Prompts : pc'[q] \in {"logging", "sending"} => pc[q] \in {"logging", "sending"}
    BY <1>13, <1>a, <1>b, <1>d, <1>f DEF SteerNoteLimit, TypeTasks, SteerPCs
  <2>2. current' = current /\ (~alive => ~alive')
    BY <1>13, <1>d DEF SteerNoteLimit, SteerPCs
  <2> QED
    BY <2>1, <2>2 DEF BeginsOwn
<1>14. ASSUME NEW p \in Prompts, SteerResolved(p) PROVE BeginsOwn'
  <2>1. \A q \in Prompts : pc'[q] \in {"logging", "sending"} => pc[q] \in {"logging", "sending"}
    BY <1>14, <1>a, <1>b, <1>d, <1>f DEF SteerResolved, TypeTasks, SteerPCs
  <2>2. current' = current /\ (~alive => ~alive')
    BY <1>14, <1>d DEF SteerResolved, SteerPCs
  <2> QED
    BY <2>1, <2>2 DEF BeginsOwn
<1>15. ASSUME NEW p \in Prompts, KickWire(p) PROVE BeginsOwn'
  <2>1. \A q \in Prompts : pc'[q] \in {"logging", "sending"} => pc[q] \in {"logging", "sending"}
    BY <1>15, <1>a, <1>b, <1>d, <1>f DEF KickWire, TypeTasks
  <2>2. current' = current /\ (~alive => ~alive')
    BY <1>15, <1>d DEF KickWire
  <2> QED
    BY <2>1, <2>2 DEF BeginsOwn
<1>16. ASSUME NEW p \in Prompts, SettleTurn(p) PROVE BeginsOwn'
  <2>1. wire = None
    BY <1>16 DEF SettleTurn, FinishBegins
  <2>2. \A q \in Prompts : pc'[q] \notin {"logging", "sending"}
    BY <1>16, <1>a, <1>b, <1>f, <2>1 DEF SettleTurn, CloseCurrent, FinishBegins,
       UnchangedByFinish, DropQueue, ChainReady, WireOwned, Holding, TypeTasks
  <2> QED
    BY <2>2 DEF BeginsOwn
<1>17. ASSUME NEW p \in Prompts, FailTurn(p) PROVE BeginsOwn'
  <2>1. wire = None
    BY <1>17 DEF FailTurn, FinishBegins
  <2>2. \A q \in Prompts : pc'[q] \notin {"logging", "sending"}
    BY <1>17, <1>a, <1>b, <1>f, <2>1 DEF FailTurn, CloseCurrent, FinishBegins,
       UnchangedByFinish, DropQueue, WireOwned, Holding, TypeTasks
  <2> QED
    BY <2>2 DEF BeginsOwn
<1>18. ASSUME NEW p \in Prompts, ParkTurn(p) PROVE BeginsOwn'
  <2>1. wire = None
    BY <1>18 DEF ParkTurn, FinishBegins
  <2>2. \A q \in Prompts : pc'[q] \notin {"logging", "sending"}
    BY <1>18, <1>a, <1>b, <1>f, <2>1 DEF ParkTurn, CloseCurrent, FinishBegins,
       UnchangedByFinish, WireOwned, Holding, TypeTasks
  <2> QED
    BY <2>2 DEF BeginsOwn
<1>19. ASSUME NEW p \in Prompts, RecordTurnEnd(p) PROVE BeginsOwn'
  <2>1. \A q \in Prompts : pc'[q] \in {"logging", "sending"} => pc[q] \in {"logging", "sending"}
    BY <1>19, <1>a, <1>b, <1>d, <1>f DEF RecordTurnEnd, TypeTasks
  <2>2. current' = current /\ (~alive => ~alive')
    BY <1>19, <1>d DEF RecordTurnEnd
  <2> QED
    BY <2>1, <2>2 DEF BeginsOwn
<1>20. ASSUME NEW p \in Prompts, ClearRecording(p) PROVE BeginsOwn'
  <2>1. \A q \in Prompts : pc'[q] \in {"logging", "sending"} => pc[q] \in {"logging", "sending"}
    BY <1>20, <1>a, <1>b, <1>d, <1>f DEF ClearRecording, TypeTasks
  <2>2. current' = current /\ (~alive => ~alive')
    BY <1>20, <1>d DEF ClearRecording
  <2> QED
    BY <2>1, <2>2 DEF BeginsOwn
<1>21. ASSUME NEW p \in Prompts, NoteLimit(p) PROVE BeginsOwn'
  <2>1. \A q \in Prompts : pc'[q] \in {"logging", "sending"} => pc[q] \in {"logging", "sending"}
    BY <1>21, <1>a, <1>b, <1>d, <1>f DEF NoteLimit, TypeTasks
  <2>2. current' = current /\ (~alive => ~alive')
    BY <1>21, <1>d DEF NoteLimit
  <2> QED
    BY <2>1, <2>2 DEF BeginsOwn
<1>22. ASSUME NEW p \in Prompts, SpawnChained(p) PROVE BeginsOwn'
  <2>1. CASE /\ current' = [n |-> NextTurn, p |-> p, onWire |-> FALSE, cancelReq |-> FALSE]
             /\ pc' = [pc EXCEPT ![p] = "logging"]
    <3>1. \A q \in Prompts : pc[q] \in {"logging", "sending"} => q = p
      BY <1>22, <1>a, <1>f DEF SpawnChained, WireOwned, Holding
    <3>2. \A q \in Prompts : pc'[q] \in {"logging", "sending"} => q = p
      BY <1>a, <2>1, <3>1 DEF TypeTasks
    <3>3. current' # NoTurn /\ current'.p = p /\ ~current'.onWire
      BY <1>f, <2>1 DEF NoTurn
    <3> QED
      BY <3>2, <3>3 DEF BeginsOwn
  <2>2. CASE /\ current' = current /\ alive' = alive
             /\ \A q \in Prompts : pc'[q] \in {"logging", "sending"} => pc[q] = pc'[q]
    BY <2>2 DEF BeginsOwn
  <2> QED
    BY <1>22, <1>a, <2>1, <2>2 DEF SpawnChained, StampTurn, Unstarted, TypeTasks
<1>23. ASSUME NEW p \in Prompts, Repark(p) PROVE BeginsOwn'
  <2>1. \A q \in Prompts : pc'[q] \in {"logging", "sending"} => pc[q] \in {"logging", "sending"}
    BY <1>23, <1>a, <1>b, <1>d, <1>f DEF Repark, Requeued, TypeTasks
  <2>2. current' = current /\ (~alive => ~alive')
    BY <1>23, <1>d DEF Repark, Requeued
  <2> QED
    BY <2>1, <2>2 DEF BeginsOwn
<1>24. ASSUME NEW p \in Prompts, ReserveResume(p) PROVE BeginsOwn'
  <2>1. \A q \in Prompts : pc'[q] \in {"logging", "sending"} => pc[q] \in {"logging", "sending"}
    BY <1>24, <1>a, <1>b, <1>d, <1>f, HeadQueued DEF ReserveResume, ReserveSlot,
       TypeTasks
  <2>2. current' = current /\ (~alive => ~alive')
    BY <1>24, <1>d DEF ReserveResume, ReserveSlot
  <2> QED
    BY <2>1, <2>2 DEF BeginsOwn
<1>25. ASSUME NEW p \in Prompts, ClearParked(p) PROVE BeginsOwn'
  <2>1. \A q \in Prompts : pc'[q] \in {"logging", "sending"} => pc[q] \in {"logging", "sending"}
    BY <1>25, <1>a, <1>b, <1>d, <1>f DEF ClearParked, TypeTasks
  <2>2. current' = current /\ (~alive => ~alive')
    BY <1>25, <1>d DEF ClearParked
  <2> QED
    BY <2>1, <2>2 DEF BeginsOwn
<1>26. ASSUME NEW p \in Prompts, ResumeBegin(p) PROVE BeginsOwn'
  <2>1. CASE /\ current' = [n |-> NextTurn, p |-> p, onWire |-> FALSE, cancelReq |-> FALSE]
             /\ pc' = [pc EXCEPT ![p] = "logging"]
    <3>1. \A q \in Prompts : pc[q] \in {"logging", "sending"} => q = p
      BY <1>26, <1>a, <1>f DEF ResumeBegin, WireOwned, Holding
    <3>2. \A q \in Prompts : pc'[q] \in {"logging", "sending"} => q = p
      BY <1>a, <2>1, <3>1 DEF TypeTasks
    <3>3. current' # NoTurn /\ current'.p = p /\ ~current'.onWire
      BY <1>f, <2>1 DEF NoTurn
    <3> QED
      BY <3>2, <3>3 DEF BeginsOwn
  <2>2. CASE /\ current' = current /\ alive' = alive
             /\ \A q \in Prompts : pc'[q] \in {"logging", "sending"} => pc[q] = pc'[q]
    BY <2>2 DEF BeginsOwn
  <2> QED
    BY <1>26, <1>a, <2>1, <2>2 DEF ResumeBegin, StampTurn, Unstarted, TypeTasks
<1>27. ASSUME NEW p \in Prompts, Answer(p) PROVE BeginsOwn'
  <2>1. \A q \in Prompts : pc'[q] \in {"logging", "sending"} => pc[q] \in {"logging", "sending"}
    BY <1>27, <1>a, <1>b, <1>d, <1>f DEF Answer, TypeTasks, OutOwned
  <2>2. current' = current /\ (~alive => ~alive')
    BY <1>27, <1>d DEF Answer, OutOwned
  <2> QED
    BY <2>1, <2>2 DEF BeginsOwn
<1>28. CASE Teardown
  <2>1. \A q \in Prompts : pc'[q] \in {"logging", "sending"} => pc[q] \in {"logging", "sending"}
    BY <1>28, <1>a, <1>b, <1>d, <1>f DEF Teardown, CloseSub, DropQueue, AnswerPending,
       TypeTasks
  <2>2. current' = current /\ (~alive => ~alive')
    BY <1>28, <1>d DEF Teardown, CloseSub, DropQueue, AnswerPending
  <2> QED
    BY <2>1, <2>2 DEF BeginsOwn
<1>29. CASE HandedClose
  <2>1. \A q \in Prompts : pc'[q] \in {"logging", "sending"} => pc[q] \in {"logging", "sending"}
    BY <1>29, <1>a, <1>b, <1>d, <1>f DEF HandedClose, CloseSub, DropQueue, AnswerPending,
       TypeTasks
  <2>2. current' = current /\ (~alive => ~alive')
    BY <1>29, <1>d DEF HandedClose, CloseSub, DropQueue, AnswerPending
  <2> QED
    BY <2>1, <2>2 DEF BeginsOwn
<1>30. CASE OnDisconnect
  <2>1. ~alive' /\ \A q \in Prompts : pc'[q] \in {"logging", "sending"} => pc'[q] = pc[q]
    BY <1>30, <1>a, <1>b DEF OnDisconnect, DropQueue, TypeTasks
  <2>2. current' = NoTurn \/ current' = current
    BY <1>30 DEF OnDisconnect
  <2> QED
    BY <2>1, <2>2 DEF BeginsOwn
<1>31. CASE SessionUpdate
  <2>1. FALSE
    BY <1>31 DEF SessionUpdate, SteersAbsent, OldestSteer, Oldest
  <2> QED
    BY <2>1
<1>32. CASE CancelTurn
  <2>1. \A q \in Prompts : pc'[q] \in {"logging", "sending"} => pc'[q] = pc[q]
    BY <1>32, <1>a, <1>b DEF CancelTurn, DropQueue, TypeTasks
  <2>2. alive' = alive
    BY <1>32 DEF CancelTurn
  <2>3. CASE current' = current
    BY <2>1, <2>2, <2>3 DEF BeginsOwn
  <2>4. CASE OffWire /\ current' = [current EXCEPT !.cancelReq = TRUE]
    <3>1. /\ current # NoTurn /\ current'.p = current.p /\ current'.onWire = current.onWire
          /\ current'.cancelReq
      BY <1>a, <2>4 DEF OffWire, TypeTurns, Turn
    <3>2. current' # NoTurn
      BY <3>1 DEF NoTurn
    <3> QED
      BY <2>1, <2>2, <3>1, <3>2 DEF BeginsOwn
  <2> QED
    BY <1>32, <2>3, <2>4 DEF CancelTurn
<1>33. CASE AgentDies
  <2>1. \A q \in Prompts : pc'[q] \in {"logging", "sending"} => pc[q] \in {"logging", "sending"}
    BY <1>33, <1>a, <1>b, <1>d, <1>f DEF AgentDies, TypeTasks
  <2>2. current' = current /\ (~alive => ~alive')
    BY <1>33, <1>d DEF AgentDies
  <2> QED
    BY <2>1, <2>2 DEF BeginsOwn
<1> QED
  BY <1>1, <1>2, <1>3, <1>4, <1>5, <1>6, <1>7, <1>8, <1>9, <1>10, <1>11, <1>12, <1>13,
     <1>14, <1>15, <1>16, <1>17, <1>18, <1>19, <1>20, <1>21, <1>22, <1>23, <1>24, <1>25,
     <1>26, <1>27, <1>28, <1>29, <1>30, <1>31, <1>32, <1>33 DEF Next, WireFree,
     WireTaking, Scheduler, Teardowns, Prompts

\* What CancelTold says of one prompt survives a step that leaves the turn,
\* the cancels in transit and the agent's prompts alone.
LEMMA ToldKept ==
    ASSUME CancelTold, current' = current, alive' => alive,
           doomed' = doomed, out' = out, canceller' = canceller, toCancel' = toCancel,
           \A q \in Prompts : q \in doomed =>
               /\ pc'[q] \in TurnPCs \cup {"recording", "clearing", "noting", "done", "dropped"}
               /\ pc'[q] \in {"logging", "sending"} => pc[q] \in {"logging", "sending"}
    PROVE  CancelTold'
  BY DEF CancelTold

\* A cancel stays with its turn until the agent is told.
LEMMA CancelToldStep ==
    ASSUME TypeOK, Ownership, Numbering, SteersAbsent, CurrentOwned, BeginsOwn,
       CancelTold, [Next]_vars
    PROVE  CancelTold'
<1> USE DEF turnVars, steerVars, rtVars, taskVars, soloVars, permVars, agentVars, histVars
<1>a. /\ TypeTurns /\ TypeTasks /\ TypeAgent /\ TypeRuntime /\ TypeSolo
      /\ WireOwned /\ OutOwned /\ QueueOwned
  BY DEF TypeOK, Ownership
<1>b. \A q \in Range(queue) : pc[q] = "queued"
  BY <1>a, RangeQueued
<1>d. \A q \in Prompts : pc[q] # "kicked" /\ pc[q] \notin SteerPCs
  BY DEF SteersAbsent
<1>e. steerPending = << >>
  BY DEF SteersAbsent
<1>f. None \notin Prompts /\ Policies \subseteq {"try", "queued", "steer"}
  BY PromptsAssumption, PoliciesAssumption
<1>g. \A q \in Prompts : q \in doomed => pc[q] \in TurnPCs \cup {"recording", "clearing", "noting", "done", "dropped"}
  BY DEF CancelTold
<1>1. ASSUME NEW r \in Perms,
             AskPermission(r) \/ QueueForPermit(r) \/ Permit(r) \/ PermitAnswered(r)
      PROVE  CancelTold'
  <2>1. UNCHANGED <<current, pc, canceller, alive, out, toCancel, doomed>>
    BY <1>1 DEF AskPermission, QueueForPermit, Permit, Unblocked, PermitAnswered
  <2> QED
    BY <2>1, <1>a DEF CancelTold
<1>2. CASE RecordPark \/ ParkedDue \/ PassOver \/ ClearStale \/ UnscheduleResume \/
   GateRises \/ GateExpires \/ CloseSession \/ Supersede \/ WatchScan \/ HandoffOne \/
   HandoffReported
  <2>1. UNCHANGED <<current, pc, canceller, alive, out, toCancel, doomed>>
    BY <1>2 DEF RecordPark, ParkedDue, PassOver, ClearStale, UnscheduleResume,
       GateRises, GateExpires, CloseSession, Supersede, WatchScan, HandoffOne,
       HandoffReported
  <2> QED
    BY <2>1, <1>a DEF CancelTold
<1>3. CASE UNCHANGED vars
  <2>1. UNCHANGED <<current, pc, canceller, alive, out, toCancel, doomed>>
    BY <1>3 DEF vars
  <2> QED
    BY <2>1, <1>a DEF CancelTold
<1>4. ASSUME NEW p \in Prompts, Send(p) PROVE CancelTold'
  <2>1. \A q \in Prompts : q \in doomed
            => /\ pc'[q] \in TurnPCs \cup {"recording", "clearing", "noting", "done", "dropped"}
               /\ pc'[q] \in {"logging", "sending"} => pc[q] \in {"logging", "sending"}
    BY <1>4, <1>a, <1>b, <1>d, <1>f, <1>g DEF Send, TurnPCs, TypeTasks
  <2>2. UNCHANGED <<current, doomed, out, canceller, toCancel>> /\ (alive' => alive)
    BY <1>4, <1>d DEF Send
  <2> QED
    BY <2>1, <2>2, ToldKept
<1>5. ASSUME NEW p \in Prompts, SendQueued(p) PROVE CancelTold'
  <2>1. \A q \in Prompts : q \in doomed
            => /\ pc'[q] \in TurnPCs \cup {"recording", "clearing", "noting", "done", "dropped"}
               /\ pc'[q] \in {"logging", "sending"} => pc[q] \in {"logging", "sending"}
    BY <1>5, <1>a, <1>b, <1>d, <1>f, <1>g DEF SendQueued, TurnPCs, TypeTasks
  <2>2. UNCHANGED <<current, doomed, out, canceller, toCancel>> /\ (alive' => alive)
    BY <1>5, <1>d DEF SendQueued
  <2> QED
    BY <2>1, <2>2, ToldKept
<1>6. ASSUME NEW p \in Prompts, SteerSend(p) PROVE CancelTold'
  <2>1. \A q \in Prompts : q \in doomed
            => /\ pc'[q] \in TurnPCs \cup {"recording", "clearing", "noting", "done", "dropped"}
               /\ pc'[q] \in {"logging", "sending"} => pc[q] \in {"logging", "sending"}
    BY <1>6, <1>a, <1>b, <1>d, <1>f, <1>g DEF SteerSend, TurnPCs, TypeTasks, SteerPCs
  <2>2. UNCHANGED <<current, doomed, out, canceller, toCancel>> /\ (alive' => alive)
    BY <1>6, <1>d DEF SteerSend, SteerPCs
  <2> QED
    BY <2>1, <2>2, ToldKept
<1>7. ASSUME NEW p \in Prompts, BeginChecked(p) PROVE CancelTold'
  <2>1. CASE pc' = [pc EXCEPT ![p] = "logging"]
    <3>1. \A q \in Prompts : pc[q] \in {"logging", "sending"} => q = p
      BY <1>7, <1>a, <1>f DEF BeginChecked, WireOwned, Holding
    <3>2. p \notin doomed
      BY <1>7, <1>g DEF BeginChecked, TurnPCs
    <3>3. UNCHANGED <<doomed, out, canceller, toCancel, alive>>
      BY <1>7 DEF BeginChecked
    <3> QED
      BY <1>a, <2>1, <3>1, <3>2, <3>3 DEF CancelTold, TypeTasks
  <2>2. CASE current' = current /\ pc' # [pc EXCEPT ![p] = "logging"]
    <3>1. \A q \in Prompts : q \in doomed => pc'[q] = pc[q]
      BY <1>7, <1>a, <1>g, <2>2 DEF BeginChecked, StampTurn, TypeTasks, TurnPCs
    <3>2. UNCHANGED <<doomed, out, canceller, toCancel, alive>>
      BY <1>7 DEF BeginChecked
    <3> QED
      BY <1>g, <2>2, <3>1, <3>2, ToldKept
  <2> QED
    BY <1>7, <2>1, <2>2 DEF BeginChecked, StampTurn
<1>8. ASSUME NEW p \in Prompts, LogPrompt(p) PROVE CancelTold'
  <2>1. \A q \in Prompts : q \in doomed
            => /\ pc'[q] \in TurnPCs \cup {"recording", "clearing", "noting", "done", "dropped"}
               /\ pc'[q] \in {"logging", "sending"} => pc[q] \in {"logging", "sending"}
    BY <1>8, <1>a, <1>b, <1>d, <1>f, <1>g DEF LogPrompt, TurnPCs, TypeTasks
  <2>2. UNCHANGED <<current, doomed, out, canceller, toCancel>> /\ (alive' => alive)
    BY <1>8, <1>d DEF LogPrompt
  <2> QED
    BY <2>1, <2>2, ToldKept
<1>9. ASSUME NEW p \in Prompts, LogFails(p) PROVE CancelTold'
  <2>1. \A q \in Prompts : q \in doomed
            => /\ pc'[q] \in TurnPCs \cup {"recording", "clearing", "noting", "done", "dropped"}
               /\ pc'[q] \notin {"logging", "sending"}
    BY <1>9, <1>a, <1>f, <1>g DEF LogFails, WireOwned, Holding, TypeTasks, TurnPCs
  <2>2. UNCHANGED <<doomed, out, canceller, toCancel, alive>>
    BY <1>9 DEF LogFails
  <2> QED
    BY <2>1, <2>2 DEF CancelTold
<1>10. ASSUME NEW p \in Prompts, SendPrompt(p) PROVE CancelTold'
  <2>1. \A q \in Prompts : q \in doomed
            => /\ pc'[q] \in TurnPCs \cup {"recording", "clearing", "noting", "done", "dropped"}
               /\ pc'[q] \notin {"logging", "sending"}
    BY <1>10, <1>a, <1>f, <1>g DEF SendPrompt, WireOwned, Holding, TypeTasks, TurnPCs
  <2>2. /\ UNCHANGED <<doomed, canceller, alive>> /\ out' = out \cup {p}
        /\ pc[p] = "sending" /\ toCancel \subseteq toCancel'
    BY <1>10 DEF SendPrompt
  <2>3. alive /\ p \in doomed => p \in toCancel'
    <3>1. SUFFICES ASSUME alive, p \in doomed PROVE p \in toCancel'
      OBVIOUS
    <3>2. current # NoTurn /\ current.n = NextTurn
      BY <2>2, <3>1 DEF BeginsOwn, Numbering
    <3>3. current.cancelReq
      BY <2>2, <3>1 DEF CancelTold
    <3> QED
      BY <1>10, <2>2, <3>2, <3>3 DEF SendPrompt
  <2> QED
    BY <2>1, <2>2, <2>3 DEF CancelTold
<1>11. ASSUME NEW p \in Prompts, SteerPush(p) PROVE CancelTold'
  <2>1. \A q \in Prompts : q \in doomed
            => /\ pc'[q] \in TurnPCs \cup {"recording", "clearing", "noting", "done", "dropped"}
               /\ pc'[q] \in {"logging", "sending"} => pc[q] \in {"logging", "sending"}
    BY <1>11, <1>a, <1>b, <1>d, <1>f, <1>g DEF SteerPush, TurnPCs, TypeTasks, SteerPCs
  <2>2. UNCHANGED <<current, doomed, out, canceller, toCancel>> /\ (alive' => alive)
    BY <1>11, <1>d DEF SteerPush, SteerPCs
  <2> QED
    BY <2>1, <2>2, ToldKept
<1>12. ASSUME NEW p \in Prompts, SteerEnqueue(p) PROVE CancelTold'
  BY <1>12, <1>d DEF SteerEnqueue, SteerPCs
<1>13. ASSUME NEW p \in Prompts, SteerNoteLimit(p) PROVE CancelTold'
  <2>1. \A q \in Prompts : q \in doomed
            => /\ pc'[q] \in TurnPCs \cup {"recording", "clearing", "noting", "done", "dropped"}
               /\ pc'[q] \in {"logging", "sending"} => pc[q] \in {"logging", "sending"}
    BY <1>13, <1>a, <1>b, <1>d, <1>f, <1>g DEF SteerNoteLimit, TurnPCs, TypeTasks,
       SteerPCs
  <2>2. UNCHANGED <<current, doomed, out, canceller, toCancel>> /\ (alive' => alive)
    BY <1>13, <1>d DEF SteerNoteLimit, SteerPCs
  <2> QED
    BY <2>1, <2>2, ToldKept
<1>14. ASSUME NEW p \in Prompts, SteerResolved(p) PROVE CancelTold'
  <2>1. \A q \in Prompts : q \in doomed
            => /\ pc'[q] \in TurnPCs \cup {"recording", "clearing", "noting", "done", "dropped"}
               /\ pc'[q] \in {"logging", "sending"} => pc[q] \in {"logging", "sending"}
    BY <1>14, <1>a, <1>b, <1>d, <1>f, <1>g DEF SteerResolved, TurnPCs, TypeTasks,
       SteerPCs
  <2>2. UNCHANGED <<current, doomed, out, canceller, toCancel>> /\ (alive' => alive)
    BY <1>14, <1>d DEF SteerResolved, SteerPCs
  <2> QED
    BY <2>1, <2>2, ToldKept
<1>15. ASSUME NEW p \in Prompts, KickWire(p) PROVE CancelTold'
  <2>1. \A q \in Prompts : q \in doomed
            => /\ pc'[q] \in TurnPCs \cup {"recording", "clearing", "noting", "done", "dropped"}
               /\ pc'[q] \in {"logging", "sending"} => pc[q] \in {"logging", "sending"}
    BY <1>15, <1>a, <1>b, <1>d, <1>f, <1>g DEF KickWire, TurnPCs, TypeTasks
  <2>2. UNCHANGED <<current, doomed, out, canceller, toCancel>> /\ (alive' => alive)
    BY <1>15, <1>d DEF KickWire
  <2> QED
    BY <2>1, <2>2, ToldKept
<1>16. ASSUME NEW p \in Prompts, SettleTurn(p) PROVE CancelTold'
  <2>1. wire = None
    BY <1>16 DEF SettleTurn, FinishBegins
  <2>0. queue # << >> => pc[Head(queue)] = "queued" /\ Head(queue) \in Prompts
    BY <1>a, HeadQueued
  <2>2. \A q \in Prompts : q \in doomed
            => /\ pc'[q] \in TurnPCs \cup {"recording", "clearing", "noting", "done", "dropped"}
               /\ pc'[q] \notin {"logging", "sending"}
    BY <1>16, <1>a, <1>b, <1>f, <1>g, <2>0, <2>1 DEF SettleTurn, CloseCurrent, FinishBegins,
       UnchangedByFinish, DropQueue, ChainReady, WireOwned, Holding, TypeTasks, TurnPCs
  <2>3. UNCHANGED <<doomed, out, canceller, toCancel, alive>>
    BY <1>16 DEF SettleTurn, FinishBegins, UnchangedByFinish
  <2> QED
    BY <2>2, <2>3 DEF CancelTold
<1>17. ASSUME NEW p \in Prompts, FailTurn(p) PROVE CancelTold'
  <2>1. wire = None
    BY <1>17 DEF FailTurn, FinishBegins
  <2>2. \A q \in Prompts : q \in doomed
            => /\ pc'[q] \in TurnPCs \cup {"recording", "clearing", "noting", "done", "dropped"}
               /\ pc'[q] \notin {"logging", "sending"}
    BY <1>17, <1>a, <1>b, <1>f, <1>g, <2>1 DEF FailTurn, CloseCurrent, FinishBegins,
       UnchangedByFinish, DropQueue, WireOwned, Holding, TypeTasks, TurnPCs
  <2>3. UNCHANGED <<doomed, out, canceller, toCancel, alive>>
    BY <1>17 DEF FailTurn, FinishBegins, UnchangedByFinish
  <2> QED
    BY <2>2, <2>3 DEF CancelTold
<1>18. ASSUME NEW p \in Prompts, ParkTurn(p) PROVE CancelTold'
  <2>1. wire = None
    BY <1>18 DEF ParkTurn, FinishBegins
  <2>2. \A q \in Prompts : q \in doomed
            => /\ pc'[q] \in TurnPCs \cup {"recording", "clearing", "noting", "done", "dropped"}
               /\ pc'[q] \notin {"logging", "sending"}
    BY <1>18, <1>a, <1>b, <1>f, <1>g, <2>1 DEF ParkTurn, CloseCurrent, FinishBegins,
       UnchangedByFinish, WireOwned, Holding, TypeTasks, TurnPCs
  <2>3. UNCHANGED <<doomed, out, canceller, toCancel, alive>>
    BY <1>18 DEF ParkTurn, FinishBegins, UnchangedByFinish
  <2> QED
    BY <2>2, <2>3 DEF CancelTold
<1>19. ASSUME NEW p \in Prompts, RecordTurnEnd(p) PROVE CancelTold'
  <2>1. \A q \in Prompts : q \in doomed
            => /\ pc'[q] \in TurnPCs \cup {"recording", "clearing", "noting", "done", "dropped"}
               /\ pc'[q] \in {"logging", "sending"} => pc[q] \in {"logging", "sending"}
    BY <1>19, <1>a, <1>b, <1>d, <1>f, <1>g DEF RecordTurnEnd, TurnPCs, TypeTasks
  <2>2. UNCHANGED <<current, doomed, out, canceller, toCancel>> /\ (alive' => alive)
    BY <1>19, <1>d DEF RecordTurnEnd
  <2> QED
    BY <2>1, <2>2, ToldKept
<1>20. ASSUME NEW p \in Prompts, ClearRecording(p) PROVE CancelTold'
  <2>1. \A q \in Prompts : q \in doomed
            => /\ pc'[q] \in TurnPCs \cup {"recording", "clearing", "noting", "done", "dropped"}
               /\ pc'[q] \in {"logging", "sending"} => pc[q] \in {"logging", "sending"}
    BY <1>20, <1>a, <1>b, <1>d, <1>f, <1>g DEF ClearRecording, TurnPCs, TypeTasks
  <2>2. UNCHANGED <<current, doomed, out, canceller, toCancel>> /\ (alive' => alive)
    BY <1>20, <1>d DEF ClearRecording
  <2> QED
    BY <2>1, <2>2, ToldKept
<1>21. ASSUME NEW p \in Prompts, NoteLimit(p) PROVE CancelTold'
  <2>1. \A q \in Prompts : q \in doomed
            => /\ pc'[q] \in TurnPCs \cup {"recording", "clearing", "noting", "done", "dropped"}
               /\ pc'[q] \in {"logging", "sending"} => pc[q] \in {"logging", "sending"}
    BY <1>21, <1>a, <1>b, <1>d, <1>f, <1>g DEF NoteLimit, TurnPCs, TypeTasks
  <2>2. UNCHANGED <<current, doomed, out, canceller, toCancel>> /\ (alive' => alive)
    BY <1>21, <1>d DEF NoteLimit
  <2> QED
    BY <2>1, <2>2, ToldKept
<1>22. ASSUME NEW p \in Prompts, SpawnChained(p) PROVE CancelTold'
  <2>1. CASE pc' = [pc EXCEPT ![p] = "logging"]
    <3>1. \A q \in Prompts : pc[q] \in {"logging", "sending"} => q = p
      BY <1>22, <1>a, <1>f DEF SpawnChained, WireOwned, Holding
    <3>2. p \notin doomed
      BY <1>22, <1>g DEF SpawnChained, TurnPCs
    <3>3. UNCHANGED <<doomed, out, canceller, toCancel, alive>>
      BY <1>22 DEF SpawnChained
    <3> QED
      BY <1>a, <2>1, <3>1, <3>2, <3>3 DEF CancelTold, TypeTasks
  <2>2. CASE current' = current /\ pc' # [pc EXCEPT ![p] = "logging"]
    <3>1. \A q \in Prompts : q \in doomed => pc'[q] = pc[q]
      BY <1>22, <1>a, <1>g, <2>2 DEF SpawnChained, StampTurn, Unstarted, TypeTasks, TurnPCs
    <3>2. UNCHANGED <<doomed, out, canceller, toCancel, alive>>
      BY <1>22 DEF SpawnChained
    <3> QED
      BY <1>g, <2>2, <3>1, <3>2, ToldKept
  <2> QED
    BY <1>22, <2>1, <2>2 DEF SpawnChained, StampTurn
<1>23. ASSUME NEW p \in Prompts, Repark(p) PROVE CancelTold'
  <2>1. \A q \in Prompts : q \in doomed
            => /\ pc'[q] \in TurnPCs \cup {"recording", "clearing", "noting", "done", "dropped"}
               /\ pc'[q] \in {"logging", "sending"} => pc[q] \in {"logging", "sending"}
    BY <1>23, <1>a, <1>b, <1>d, <1>f, <1>g DEF Repark, Requeued, TurnPCs, TypeTasks
  <2>2. UNCHANGED <<current, doomed, out, canceller, toCancel>> /\ (alive' => alive)
    BY <1>23, <1>d DEF Repark, Requeued
  <2> QED
    BY <2>1, <2>2, ToldKept
<1>24. ASSUME NEW p \in Prompts, ReserveResume(p) PROVE CancelTold'
  <2>1. \A q \in Prompts : q \in doomed
            => /\ pc'[q] \in TurnPCs \cup {"recording", "clearing", "noting", "done", "dropped"}
               /\ pc'[q] \in {"logging", "sending"} => pc[q] \in {"logging", "sending"}
    BY <1>24, <1>a, <1>b, <1>d, <1>f, <1>g, HeadQueued DEF ReserveResume, ReserveSlot,
       TurnPCs, TypeTasks
  <2>2. UNCHANGED <<current, doomed, out, canceller, toCancel>> /\ (alive' => alive)
    BY <1>24, <1>d DEF ReserveResume, ReserveSlot
  <2> QED
    BY <2>1, <2>2, ToldKept
<1>25. ASSUME NEW p \in Prompts, ClearParked(p) PROVE CancelTold'
  <2>1. \A q \in Prompts : q \in doomed
            => /\ pc'[q] \in TurnPCs \cup {"recording", "clearing", "noting", "done", "dropped"}
               /\ pc'[q] \in {"logging", "sending"} => pc[q] \in {"logging", "sending"}
    BY <1>25, <1>a, <1>b, <1>d, <1>f, <1>g DEF ClearParked, TurnPCs, TypeTasks
  <2>2. UNCHANGED <<current, doomed, out, canceller, toCancel>> /\ (alive' => alive)
    BY <1>25, <1>d DEF ClearParked
  <2> QED
    BY <2>1, <2>2, ToldKept
<1>26. ASSUME NEW p \in Prompts, ResumeBegin(p) PROVE CancelTold'
  <2>1. CASE pc' = [pc EXCEPT ![p] = "logging"]
    <3>1. \A q \in Prompts : pc[q] \in {"logging", "sending"} => q = p
      BY <1>26, <1>a, <1>f DEF ResumeBegin, WireOwned, Holding
    <3>2. p \notin doomed
      BY <1>26, <1>g DEF ResumeBegin, TurnPCs
    <3>3. UNCHANGED <<doomed, out, canceller, toCancel, alive>>
      BY <1>26 DEF ResumeBegin
    <3> QED
      BY <1>a, <2>1, <3>1, <3>2, <3>3 DEF CancelTold, TypeTasks
  <2>2. CASE current' = current /\ pc' # [pc EXCEPT ![p] = "logging"]
    <3>1. \A q \in Prompts : q \in doomed => pc'[q] = pc[q]
      BY <1>26, <1>a, <1>g, <2>2 DEF ResumeBegin, StampTurn, Unstarted, TypeTasks, TurnPCs
    <3>2. UNCHANGED <<doomed, out, canceller, toCancel, alive>>
      BY <1>26 DEF ResumeBegin
    <3> QED
      BY <1>g, <2>2, <3>1, <3>2, ToldKept
  <2> QED
    BY <1>26, <2>1, <2>2 DEF ResumeBegin, StampTurn
<1>27. ASSUME NEW p \in Prompts, Answer(p) PROVE CancelTold'
  <2>1. /\ UNCHANGED <<current, doomed, canceller, alive>>
        /\ out' = out \ {p} /\ toCancel' = toCancel \ {p}
    BY <1>27 DEF Answer
  <2>2. pc[p] = "inturn"
    BY <1>27, <1>a, <1>d DEF Answer, OutOwned, SteerPCs
  <2>3. pc' = [pc EXCEPT ![p] = "ended"]
    BY <1>27, <2>2 DEF Answer
  <2> QED
    BY <1>a, <2>1, <2>2, <2>3 DEF CancelTold, TurnPCs, TypeTasks
<1>28. CASE Teardown
  <2>1. \A q \in Prompts : q \in doomed
            => /\ pc'[q] \in TurnPCs \cup {"recording", "clearing", "noting", "done", "dropped"}
               /\ pc'[q] \in {"logging", "sending"} => pc[q] \in {"logging", "sending"}
    BY <1>28, <1>a, <1>b, <1>d, <1>f, <1>g DEF Teardown, CloseSub, DropQueue,
       AnswerPending, TurnPCs, TypeTasks
  <2>2. UNCHANGED <<current, doomed, out, canceller, toCancel>> /\ (alive' => alive)
    BY <1>28, <1>d DEF Teardown, CloseSub, DropQueue, AnswerPending
  <2> QED
    BY <2>1, <2>2, ToldKept
<1>29. CASE HandedClose
  <2>1. \A q \in Prompts : q \in doomed
            => /\ pc'[q] \in TurnPCs \cup {"recording", "clearing", "noting", "done", "dropped"}
               /\ pc'[q] \in {"logging", "sending"} => pc[q] \in {"logging", "sending"}
    BY <1>29, <1>a, <1>b, <1>d, <1>f, <1>g DEF HandedClose, CloseSub, DropQueue,
       AnswerPending, TurnPCs, TypeTasks
  <2>2. UNCHANGED <<current, doomed, out, canceller, toCancel>> /\ (alive' => alive)
    BY <1>29, <1>d DEF HandedClose, CloseSub, DropQueue, AnswerPending
  <2> QED
    BY <2>1, <2>2, ToldKept
<1>30. CASE OnDisconnect
  <2>1. ~alive' /\ doomed' = doomed
    BY <1>30 DEF OnDisconnect
  <2>2. \A q \in Prompts : q \in doomed => pc'[q] = pc[q]
    BY <1>30, <1>a, <1>b, <1>g DEF OnDisconnect, DropQueue, TypeTasks, TurnPCs
  <2> QED
    BY <1>g, <2>1, <2>2 DEF CancelTold
<1>31. CASE SessionUpdate
  <2>1. FALSE
    BY <1>31 DEF SessionUpdate, SteersAbsent, OldestSteer, Oldest
  <2> QED
    BY <2>1
<1>32. CASE CancelTurn
  <2>1. \A q \in Prompts : q \in doomed \/ pc[q] \in TurnPCs => pc'[q] = pc[q]
    BY <1>32, <1>a, <1>b, <1>g DEF CancelTurn, DropQueue, TypeTasks, TurnPCs
  <2>2. UNCHANGED <<alive, out, toCancel>>
    BY <1>32 DEF CancelTurn
  <2>3. CASE current = NoTurn
    <3>1. UNCHANGED <<doomed, current>> /\ canceller'
      BY <1>32, <2>3 DEF CancelTurn, OffWire
    <3> QED
      BY <1>g, <2>1, <2>2, <3>1 DEF CancelTold
  <2>4. CASE current # NoTurn /\ ~current.onWire
    <3>1. /\ current' = [current EXCEPT !.cancelReq = TRUE]
          /\ doomed' = doomed \cup {current.p} /\ canceller' = canceller
      BY <1>32, <2>4 DEF CancelTurn, OffWire
    <3>2. current'.cancelReq
      BY <1>a, <3>1 DEF TypeTurns, Turn
    <3>3. pc[current.p] \in {"logging", "sending"} /\ current.p \notin out
      BY <1>a, <2>4 DEF CurrentOwned, OutOwned
    <3>4. \A q \in Prompts : q \in doomed' =>
            pc'[q] \in TurnPCs \cup {"recording", "clearing", "noting", "done", "dropped"}
      BY <1>g, <2>1, <3>1, <3>3 DEF TurnPCs
    <3> QED
      BY <2>2, <3>1, <3>2, <3>3, <3>4 DEF CancelTold
  <2>5. CASE current # NoTurn /\ current.onWire
    <3>1. current' = current /\ doomed' = doomed \cup {current.p} /\ canceller'
      BY <1>32, <2>5 DEF CancelTurn, OffWire
    <3>2. pc[current.p] \in TurnPCs \ {"logging", "sending"}
      BY <2>5 DEF CurrentOwned, BeginsOwn
    <3>3. \A q \in Prompts : q \in doomed' =>
            pc'[q] \in TurnPCs \cup {"recording", "clearing", "noting", "done", "dropped"}
      BY <1>g, <2>1, <3>1, <3>2
    <3>4. \A q \in Prompts : q \in doomed' /\ pc'[q] \in {"logging", "sending"} => q \in doomed
      BY <2>1, <3>1, <3>2
    <3> QED
      BY <2>1, <2>2, <3>1, <3>3, <3>4, <1>g DEF CancelTold
  <2> QED
    BY <2>3, <2>4, <2>5
<1>33. CASE CancelSend
  <2>1. UNCHANGED <<pc, current, doomed, out, alive>> /\ toCancel' = toCancel \cup out
    BY <1>33 DEF CancelSend
  <2> QED
    BY <2>1 DEF CancelTold
<1>34. CASE AgentDies
  <2>1. \A q \in Prompts : q \in doomed
            => /\ pc'[q] \in TurnPCs \cup {"recording", "clearing", "noting", "done", "dropped"}
               /\ pc'[q] \in {"logging", "sending"} => pc[q] \in {"logging", "sending"}
    BY <1>34, <1>a, <1>b, <1>d, <1>f, <1>g DEF AgentDies, TurnPCs, TypeTasks
  <2>2. UNCHANGED <<current, doomed, out, canceller, toCancel>> /\ (alive' => alive)
    BY <1>34, <1>d DEF AgentDies
  <2> QED
    BY <2>1, <2>2, ToldKept
<1> QED
  BY <1>1, <1>2, <1>3, <1>4, <1>5, <1>6, <1>7, <1>8, <1>9, <1>10, <1>11, <1>12, <1>13,
     <1>14, <1>15, <1>16, <1>17, <1>18, <1>19, <1>20, <1>21, <1>22, <1>23, <1>24, <1>25,
     <1>26, <1>27, <1>28, <1>29, <1>30, <1>31, <1>32, <1>33, <1>34 DEF Next, WireFree,
     WireTaking, Scheduler, Teardowns, Prompts

\* In a session nobody steers a cancel reaches the agent behind the prompt of
\* the turn it was aimed at, whenever it comes: cancel_turn defers it to
\* begin_turn or sends it, and no other turn, close, park, permission or
\* handover takes it away.
THEOREM CancelReachesHolds ==
    ASSUME "steer" \notin Policies PROVE Spec => []CancelReaches
<1> DEFINE I == CurrentOwned /\ BeginsOwn /\ CancelTold
<1>1. Init => I
  BY DEF Init, CurrentOwned, BeginsOwn, CancelTold
<1>2. IndInv /\ SteersAbsent /\ I /\ [Next]_vars => I'
  BY CurrentStep, BeginsStep, CancelToldStep DEF IndInv
<1>3. IndInv /\ I => CancelReaches
  BY DEF IndInv, TypeOK, TypeAgent, CancelTold, CancelReaches
<1> QED
  BY <1>1, <1>2, <1>3, Inductive, SteersAbsentInvariant, PTL DEF Spec

\* Own answers, as long as the guard is not lost.
OwnAnswers == Guarded => OwnAnswer

\* finish_turn closes the turn of the prompt that was answered.
LEMMA OwnClosed ==
    ASSUME TypeTurns, CurrentOwned, Alone, OwnAnswers, Guarded' => Guarded,
           NEW p \in Prompts, pc[p] = "ended", CloseCurrent(p)
    PROVE  OwnAnswers'
<1>1. SUFFICES ASSUME Guarded PROVE OwnAnswer'
  BY DEF OwnAnswers
<1>2. OwnAnswer
  BY <1>1 DEF OwnAnswers
<1>3. CASE current = NoTurn
  BY <1>2, <1>3 DEF CloseCurrent, OwnAnswer
<1>4. CASE current # NoTurn
  <2>1. current.p = p
    BY <1>1, <1>4 DEF CurrentOwned, Alone, Busy, TurnPCs
  <2>2. PICK t : t.p = p /\ t.by = p /\ turns' = Append(turns, t)
    <3> DEFINE t == [n |-> current.n, p |-> current.p, by |-> p, limited |-> outcome[p] = "limit"]
    <3>1. t.p = p /\ t.by = p
      BY <2>1
    <3> QED
      BY <1>4, <3>1 DEF CloseCurrent
  <2>3. Len(turns') = Len(turns) + 1 /\ Len(turns) \in Nat
        /\ \A i \in 1..Len(turns') : turns'[i] = IF i <= Len(turns) THEN turns[i] ELSE t
    BY <2>2 DEF TypeTurns
  <2> QED
    BY <1>2, <2>2, <2>3 DEF OwnAnswer
<1> QED
  BY <1>3, <1>4

\* Every settled turn was ended by its own answer.
LEMMA OwnAnswerStep ==
    ASSUME TypeOK, CurrentOwned, Alone, OwnAnswers, [Next]_vars PROVE OwnAnswers'
<1> USE DEF turnVars, steerVars, rtVars, taskVars, soloVars, permVars, agentVars, histVars
<1>a. TypeTurns
  BY DEF TypeOK
<1>c. Guarded' => Guarded
  BY GuardedKept
<1>1. ASSUME NEW p \in Prompts,
             Send(p) \/ SendQueued(p) \/ SteerSend(p) \/ BeginChecked(p) \/ LogPrompt(p)
                \/ LogFails(p) \/ SendPrompt(p) \/ SteerPush(p) \/ SteerEnqueue(p) \/
                SteerNoteLimit(p) \/ SteerResolved(p) \/ KickWire(p)
      PROVE  OwnAnswers'
  <2>1. UNCHANGED <<turns>>
    BY <1>1 DEF Send, SendQueued, SteerSend, BeginChecked, StampTurn, LogPrompt,
       LogFails, SendPrompt, SteerPush, SteerEnqueue, SteerNoteLimit, SteerResolved,
       KickWire
  <2> QED
    BY <2>1, <1>c DEF OwnAnswers, OwnAnswer
<1>2. ASSUME NEW p \in Prompts,
             RecordTurnEnd(p) \/ ClearRecording(p) \/ NoteLimit(p) \/ SpawnChained(p) \/
                Repark(p) \/ ReserveResume(p) \/ ClearParked(p) \/ ResumeBegin(p) \/
                Answer(p)
      PROVE  OwnAnswers'
  <2>1. UNCHANGED <<turns>>
    BY <1>2 DEF RecordTurnEnd, ClearRecording, NoteLimit, SpawnChained, StampTurn,
       Unstarted, Repark, Requeued, ReserveResume, ReserveSlot, ClearParked,
       ResumeBegin, Answer
  <2> QED
    BY <2>1, <1>c DEF OwnAnswers, OwnAnswer
<1>3. ASSUME NEW r \in Perms,
             AskPermission(r) \/ QueueForPermit(r) \/ Permit(r) \/ PermitAnswered(r)
      PROVE  OwnAnswers'
  <2>1. UNCHANGED <<turns>>
    BY <1>3 DEF AskPermission, QueueForPermit, Permit, Unblocked, PermitAnswered
  <2> QED
    BY <2>1, <1>c DEF OwnAnswers, OwnAnswer
<1>4. CASE RecordPark \/ ParkedDue \/ PassOver \/ ClearStale \/ UnscheduleResume \/
   Teardown \/ HandedClose \/ OnDisconnect \/ SessionUpdate \/ CancelTurn \/ CancelSend
   \/ GateRises
  <2>1. UNCHANGED <<turns>>
    BY <1>4 DEF RecordPark, ParkedDue, PassOver, ClearStale, UnscheduleResume, Teardown,
       CloseSub, DropQueue, AnswerPending, HandedClose, OnDisconnect, SessionUpdate,
       CancelTurn, CancelSend, GateRises
  <2> QED
    BY <2>1, <1>c DEF OwnAnswers, OwnAnswer
<1>5. CASE GateExpires \/ AgentDies \/ CloseSession \/ Supersede \/ WatchScan \/
   HandoffOne \/ HandoffReported \/ UNCHANGED vars
  <2>1. UNCHANGED <<turns>>
    BY <1>5 DEF GateExpires, AgentDies, CloseSession, Supersede, WatchScan, HandoffOne,
       HandoffReported, vars
  <2> QED
    BY <2>1, <1>c DEF OwnAnswers, OwnAnswer
<1>6. ASSUME NEW p \in Prompts, SettleTurn(p) PROVE OwnAnswers'
  <2>1. pc[p] = "ended" /\ CloseCurrent(p)
    BY <1>6 DEF SettleTurn, FinishBegins
  <2> QED
    BY <1>a, <1>c, <2>1, OwnClosed
<1>7. ASSUME NEW p \in Prompts, FailTurn(p) PROVE OwnAnswers'
  <2>1. pc[p] = "ended" /\ CloseCurrent(p)
    BY <1>7 DEF FailTurn, FinishBegins
  <2> QED
    BY <1>a, <1>c, <2>1, OwnClosed
<1>8. ASSUME NEW p \in Prompts, ParkTurn(p) PROVE OwnAnswers'
  <2>1. pc[p] = "ended" /\ CloseCurrent(p)
    BY <1>8 DEF ParkTurn, FinishBegins
  <2> QED
    BY <1>a, <1>c, <2>1, OwnClosed
<1> QED
  BY <1>1, <1>2, <1>3, <1>4, <1>5, <1>6, <1>7, <1>8 DEF Next, WireFree, WireTaking,
     Scheduler, Teardowns, Prompts

\* In a session nobody steers, in a daemon where closes and handovers do not
\* meet, every settled turn was ended by the answer to its own prompt.
THEOREM OwnAnswerHolds ==
    ASSUME "steer" \notin Policies, ~({"close", "handover"} \subseteq Events)
    PROVE  Spec => []OwnAnswer
<1> DEFINE I == CurrentOwned /\ BeginsOwn /\ OwnAnswers
<1>1. Init => I
  BY DEF Init, CurrentOwned, BeginsOwn, OwnAnswers, OwnAnswer
<1>2. IndInv /\ Slot /\ I /\ [Next]_vars => I'
  BY CurrentStep, BeginsStep, OwnAnswerStep DEF IndInv, Slot
<1>3. I => OwnAnswer
  BY DEF OwnAnswers, Guarded
<1> QED
  BY <1>1, <1>2, <1>3, Inductive, SlotInvariant, PTL DEF Spec

-----------------------------------------------------------------------------
(* Parked for the queue                                                    *)

\* A session parked for its queue keeps one, whatever ends it meanwhile.
QueueParked == status = "rate_limited" /\ plan = "queue" => queue # << >>

\* A parked session's queue is not taken from it.
LEMMA QueueParkedStep ==
    ASSUME TypeOK, SteersAbsent, Blocks, QueueParked, [Next]_vars
    PROVE  QueueParked'
<1> USE DEF turnVars, steerVars, rtVars, taskVars, soloVars, permVars, agentVars, histVars
<1>a. /\ TypeTurns /\ TypeTasks /\ TypeRuntime
  BY DEF TypeOK
<1>d. \A q \in Prompts : pc[q] \notin SteerPCs
  BY DEF SteersAbsent
<1>1. ASSUME NEW p \in Prompts,
             Send(p) \/ SteerSend(p) \/ LogPrompt(p) \/ SendPrompt(p) \/ SteerPush(p) \/
                SteerEnqueue(p) \/ SteerNoteLimit(p) \/ KickWire(p) \/ RecordTurnEnd(p)
                \/ ClearRecording(p) \/ NoteLimit(p) \/ ClearParked(p)
      PROVE  QueueParked'
  <2>1. UNCHANGED <<status, plan, queue>>
    BY <1>1 DEF Send, SteerSend, LogPrompt, SendPrompt, SteerPush, SteerEnqueue,
       SteerNoteLimit, KickWire, RecordTurnEnd, ClearRecording, NoteLimit, ClearParked
  <2> QED
    BY <2>1, <1>a DEF QueueParked
<1>2. ASSUME NEW p \in Prompts, Answer(p) PROVE QueueParked'
  <2>1. UNCHANGED <<status, plan, queue>>
    BY <1>2 DEF Answer
  <2> QED
    BY <2>1, <1>a DEF QueueParked
<1>3. ASSUME NEW r \in Perms, AskPermission(r) PROVE QueueParked'
  <2>1. UNCHANGED <<status, plan, queue>>
    BY <1>3 DEF AskPermission
  <2> QED
    BY <2>1, <1>a DEF QueueParked
<1>4. CASE RecordPark \/ ParkedDue \/ PassOver \/ ClearStale \/ UnscheduleResume \/
   CancelSend \/ GateRises \/ GateExpires \/ AgentDies \/ CloseSession \/ Supersede \/
   WatchScan
  <2>1. UNCHANGED <<status, plan, queue>>
    BY <1>4 DEF RecordPark, ParkedDue, PassOver, ClearStale, UnscheduleResume,
       CancelSend, GateRises, GateExpires, AgentDies, CloseSession, Supersede, WatchScan
  <2> QED
    BY <2>1, <1>a DEF QueueParked
<1>5. CASE HandoffOne \/ HandoffReported \/ UNCHANGED vars
  <2>1. UNCHANGED <<status, plan, queue>>
    BY <1>5 DEF HandoffOne, HandoffReported, vars
  <2> QED
    BY <2>1, <1>a DEF QueueParked
<1>6. ASSUME NEW p \in Prompts, SendQueued(p) PROVE QueueParked'
  <2>1. UNCHANGED <<status, plan>> /\ (queue' = queue \/ queue' = Append(queue, p))
    BY <1>6 DEF SendQueued
  <2>2. Append(queue, p) # << >>
    BY <1>a DEF TypeTurns
  <2> QED
    BY <2>1, <2>2 DEF QueueParked
<1>7. ASSUME NEW p \in Prompts, BeginChecked(p) PROVE QueueParked'
  <2>1. status' = "rate_limited" /\ plan' = "queue"
          => status = "rate_limited" /\ plan = "queue" /\ queue' = queue
    BY <1>7, <1>a, <1>d DEF BeginChecked, StampTurn, AcceptsPrompt, CheckReady, SlotFree
  <2> QED
    BY <2>1 DEF QueueParked
<1>8. ASSUME NEW p \in Prompts, LogFails(p) PROVE QueueParked'
  <2>1. status' = "rate_limited" /\ plan' = "queue"
          => status = "rate_limited" /\ plan = "queue" /\ queue' = queue
    BY <1>8, <1>a, <1>d DEF LogFails, FailedUnlessExited
  <2> QED
    BY <2>1 DEF QueueParked
<1>9. ASSUME NEW p \in Prompts, SteerResolved(p) PROVE QueueParked'
  <2>1. status' = "rate_limited" /\ plan' = "queue"
          => status = "rate_limited" /\ plan = "queue" /\ queue' = queue
    BY <1>9, <1>a, <1>d DEF SteerResolved, SteerPCs, AcceptsPrompt, CheckReady, SlotFree
  <2> QED
    BY <2>1 DEF QueueParked
<1>10. ASSUME NEW p \in Prompts, SettleTurn(p) PROVE QueueParked'
  <2>1. CASE queue' = queue \/ status' = "cancelled"
    BY <1>10, <2>1 DEF SettleTurn, QueueParked
  <2>2. CASE status' = status /\ ~superseded /\ pc[p] = "ended"
    BY <2>2 DEF Blocks, Guarded, Busy, TurnPCs, QueueParked
  <2> QED
    BY <1>10, <2>1, <2>2 DEF SettleTurn, FinishBegins, ChainReady
<1>11. ASSUME NEW p \in Prompts, FailTurn(p) PROVE QueueParked'
  <2>1. status' # "rate_limited"
    BY <1>11 DEF FailTurn, FailedUnlessExited
  <2> QED
    BY <2>1 DEF QueueParked
<1>12. ASSUME NEW p \in Prompts, ParkTurn(p) PROVE QueueParked'
  <2>1. status' = "rate_limited" /\ plan' = "queue"
          => status = "rate_limited" /\ plan = "queue" /\ queue' = queue
    BY <1>12, <1>a, <1>d DEF ParkTurn, CloseCurrent, FinishBegins, UnchangedByFinish
  <2> QED
    BY <2>1 DEF QueueParked
<1>13. ASSUME NEW p \in Prompts, SpawnChained(p) PROVE QueueParked'
  <2>1. status' = "rate_limited" /\ plan' = "queue"
          => status = "rate_limited" /\ plan = "queue" /\ queue' = queue
    BY <1>13, <1>a, <1>d DEF SpawnChained, StampTurn, Unstarted
  <2> QED
    BY <2>1 DEF QueueParked
<1>14. ASSUME NEW p \in Prompts, Repark(p) PROVE QueueParked'
  <2>1. queue' = <<p>> \o queue
    BY <1>14 DEF Repark, Requeued
  <2>2. Len(queue') = Len(queue) + 1 /\ Len(queue) \in Nat
    BY <1>a, <2>1 DEF TypeTurns
  <2>3. queue' # << >>
    BY <2>2
  <2> QED
    BY <2>3 DEF QueueParked
<1>15. ASSUME NEW p \in Prompts, ReserveResume(p) PROVE QueueParked'
  <2>1. status' = "rate_limited" /\ plan' = "queue"
          => status = "rate_limited" /\ plan = "queue" /\ queue' = queue
    BY <1>15, <1>a, <1>d DEF ReserveResume, ReserveSlot
  <2> QED
    BY <2>1 DEF QueueParked
<1>16. ASSUME NEW p \in Prompts, ResumeBegin(p) PROVE QueueParked'
  <2>1. status' = "rate_limited" /\ plan' = "queue"
          => status = "rate_limited" /\ plan = "queue" /\ queue' = queue
    BY <1>16, <1>a, <1>d DEF ResumeBegin, StampTurn, Unstarted
  <2> QED
    BY <2>1 DEF QueueParked
<1>17. ASSUME NEW r \in Perms, QueueForPermit(r) PROVE QueueParked'
  <2>1. status' = "rate_limited" /\ plan' = "queue"
          => status = "rate_limited" /\ plan = "queue" /\ queue' = queue
    BY <1>17, <1>a, <1>d DEF QueueForPermit
  <2> QED
    BY <2>1 DEF QueueParked
<1>18. ASSUME NEW r \in Perms, Permit(r) PROVE QueueParked'
  <2>1. status' = "rate_limited" /\ plan' = "queue"
          => status = "rate_limited" /\ plan = "queue" /\ queue' = queue
    BY <1>18, <1>a, <1>d DEF Permit, Unblocked
  <2> QED
    BY <2>1 DEF QueueParked
<1>19. ASSUME NEW r \in Perms, PermitAnswered(r) PROVE QueueParked'
  <2>1. status' = "rate_limited" /\ plan' = "queue"
          => status = "rate_limited" /\ plan = "queue" /\ queue' = queue
    BY <1>19, <1>a, <1>d DEF PermitAnswered, Unblocked
  <2> QED
    BY <2>1 DEF QueueParked
<1>20. CASE Teardown
  <2>1. status' = "rate_limited" /\ plan' = "queue"
          => status = "rate_limited" /\ plan = "queue" /\ queue' = queue
    BY <1>20, <1>a, <1>d DEF Teardown, CloseSub, DropQueue, AnswerPending
  <2> QED
    BY <2>1 DEF QueueParked
<1>21. CASE HandedClose
  <2>1. status' = "rate_limited" /\ plan' = "queue"
          => status = "rate_limited" /\ plan = "queue" /\ queue' = queue
    BY <1>21, <1>a, <1>d DEF HandedClose, CloseSub, DropQueue, AnswerPending
  <2> QED
    BY <2>1 DEF QueueParked
<1>22. CASE OnDisconnect
  <2>1. status' = "rate_limited" /\ plan' = "queue"
          => status = "rate_limited" /\ plan = "queue" /\ queue' = queue
    BY <1>22, <1>a, <1>d DEF OnDisconnect, DropQueue, AnswerPending
  <2> QED
    BY <2>1 DEF QueueParked
<1>23. CASE SessionUpdate
  <2>1. status' = "rate_limited" /\ plan' = "queue"
          => status = "rate_limited" /\ plan = "queue" /\ queue' = queue
    BY <1>23, <1>a, <1>d DEF SessionUpdate
  <2> QED
    BY <2>1 DEF QueueParked
<1>24. CASE CancelTurn
  <2>1. status' = "rate_limited" /\ plan' = "queue"
          => status = "rate_limited" /\ plan = "queue" /\ queue' = queue
    BY <1>24, <1>a, <1>d DEF CancelTurn, DropQueue, AnswerPending
  <2> QED
    BY <2>1 DEF QueueParked
<1> QED
  BY <1>1, <1>2, <1>3, <1>4, <1>5, <1>6, <1>7, <1>8, <1>9, <1>10, <1>11, <1>12, <1>13,
     <1>14, <1>15, <1>16, <1>17, <1>18, <1>19, <1>20, <1>21, <1>22, <1>23, <1>24 DEF
     Next, WireFree, WireTaking, Scheduler, Teardowns, Prompts

\* In a session nobody steers, one that is parked for its queue has a prompt
\* to resume with: reserve_resume_turn never finds the queue empty.
THEOREM ParkedQueueHasPromptHolds ==
    ASSUME "steer" \notin Policies PROVE Spec => []ParkedQueueHasPrompt
<1>1. Init => QueueParked
  BY DEF Init, QueueParked
<1>2. IndInv /\ Slot /\ QueueParked /\ [Next]_vars => QueueParked'
  BY QueueParkedStep DEF IndInv, Slot
<1>3. QueueParked => ParkedQueueHasPrompt
  BY DEF QueueParked, ParkedQueueHasPrompt
<1> QED
  BY <1>1, <1>2, <1>3, Inductive, SlotInvariant, PTL DEF Spec

-----------------------------------------------------------------------------
(* From the queue to the turn                                              *)

\* Without requests to answer the status never says there is one.
LEMMA NeverAsks == ASSUME Perms = {} PROVE Spec => [](status # "needs_permission")
<1>1. TypeOK /\ PermissionBacked => status # "needs_permission"
  BY DEF TypeOK, TypePerms, PermissionBacked
<1> QED
  BY <1>1, TypeCorrect, PermissionBackedHolds, PTL

\* Who takes a prompt off the queue leaves the slot to it alone ...
AloneGap ==
    \A q, p \in Prompts : pc[q] \in GapPCs /\ pc[p] \in Busy => p = q

\* ... and ready for its turn, unless the session ends first.
Ready   == /\ status = "running" /\ current = NoTurn /\ live
           /\ closing = "none" /\ watcher \in {"off", "watch"}
Closing == closing = "ending" /\ watcher \in {"off", "watch"}
GapReady ==
    \A q \in Prompts : pc[q] \in GapPCs => status = "exited" \/ Closing \/ Ready

\* No step that takes no slot and no prompt off the queue disturbs it.
LEMMA AloneGapKept ==
    ASSUME AloneGap,
           \A q \in Prompts : /\ pc'[q] \in Busy => pc[q] \in Busy
                              /\ pc'[q] \in GapPCs => pc[q] \in GapPCs
    PROVE  AloneGap'
<1>1. SUFFICES ASSUME NEW q \in Prompts, NEW p \in Prompts, pc'[q] \in GapPCs, pc'[p] \in Busy
               PROVE  p = q
  BY DEF AloneGap
<1>2. pc[q] \in GapPCs /\ pc[p] \in Busy
  BY <1>1
<1> QED
  BY <1>2 DEF AloneGap

\* A prompt taken off the queue is not overtaken by another turn.
LEMMA AloneGapStep ==
    ASSUME Perms = {}, TypeOK, Ownership, status # "needs_permission", Slot,
       CurrentOwned, AloneGap, GapReady, [Next]_vars
    PROVE  AloneGap'
<1> USE DEF turnVars, steerVars, rtVars, taskVars, soloVars, permVars, agentVars, histVars
<1>a. /\ TypeTurns /\ TypeTasks /\ TypeAgent /\ TypeRuntime /\ TypeSolo
      /\ WireOwned /\ OutOwned /\ QueueOwned
  BY DEF TypeOK, Ownership
<1>b. \A q \in Range(queue) : pc[q] = "queued"
  BY <1>a, RangeQueued
<1>s. SteersAbsent /\ EndShape /\ Alone /\ Blocks
  BY DEF Slot
<1>d. \A q \in Prompts : pc[q] # "kicked" /\ pc[q] \notin SteerPCs
  BY <1>s DEF SteersAbsent
<1>e. steerPending = << >>
  BY <1>s DEF SteersAbsent
<1>f. None \notin Prompts /\ Policies \subseteq {"try", "queued", "steer"}
  BY PromptsAssumption, PoliciesAssumption
<1>1. ASSUME NEW r \in Perms,
             AskPermission(r) \/ QueueForPermit(r) \/ Permit(r) \/ PermitAnswered(r)
      PROVE  AloneGap'
  <2>1. UNCHANGED <<pc>>
    BY <1>1 DEF AskPermission, QueueForPermit, Permit, Unblocked, PermitAnswered
  <2> QED
    BY <2>1, <1>a DEF AloneGap
<1>2. CASE RecordPark \/ ParkedDue \/ PassOver \/ ClearStale \/ UnscheduleResume \/
   SessionUpdate \/ CancelSend \/ GateRises \/ GateExpires \/ AgentDies \/ CloseSession
   \/ Supersede
  <2>1. UNCHANGED <<pc>>
    BY <1>2 DEF RecordPark, ParkedDue, PassOver, ClearStale, UnscheduleResume,
       SessionUpdate, CancelSend, GateRises, GateExpires, AgentDies, CloseSession,
       Supersede
  <2> QED
    BY <2>1, <1>a DEF AloneGap
<1>3. CASE WatchScan \/ HandoffOne \/ HandoffReported \/ UNCHANGED vars
  <2>1. UNCHANGED <<pc>>
    BY <1>3 DEF WatchScan, HandoffOne, HandoffReported, vars
  <2> QED
    BY <2>1, <1>a DEF AloneGap
<1>4. ASSUME NEW p \in Prompts, Send(p) PROVE AloneGap'
  <2>1. \A q \in Prompts : /\ pc'[q] \in Busy => pc[q] \in Busy
                           /\ pc'[q] \in GapPCs => pc[q] \in GapPCs
    BY <1>4, <1>a, <1>b, <1>d, <1>f DEF Send, Busy, TurnPCs, GapPCs, TypeTasks
  <2> QED
    BY <2>1, AloneGapKept
<1>5. ASSUME NEW p \in Prompts, SendQueued(p) PROVE AloneGap'
  <2>1. \A q \in Prompts : /\ pc'[q] \in Busy => pc[q] \in Busy
                           /\ pc'[q] \in GapPCs => pc[q] \in GapPCs
    BY <1>5, <1>a, <1>b, <1>d, <1>f DEF SendQueued, Busy, TurnPCs, GapPCs, TypeTasks
  <2> QED
    BY <2>1, AloneGapKept
<1>6. ASSUME NEW p \in Prompts, SteerSend(p) PROVE AloneGap'
  <2>1. \A q \in Prompts : /\ pc'[q] \in Busy => pc[q] \in Busy
                           /\ pc'[q] \in GapPCs => pc[q] \in GapPCs
    BY <1>6, <1>a, <1>b, <1>d, <1>f DEF SteerSend, Busy, TurnPCs, GapPCs, TypeTasks,
       SteerPCs
  <2> QED
    BY <2>1, AloneGapKept
<1>7. ASSUME NEW p \in Prompts, BeginChecked(p) PROVE AloneGap'
  <2>1. CASE \A q \in Prompts : /\ pc'[q] \in Busy => pc[q] \in Busy
                                /\ pc'[q] \in GapPCs => pc[q] \in GapPCs
    BY <2>1, AloneGapKept
  <2>2. CASE CheckReady /\ pc' = [pc EXCEPT ![p] = "logging"]
    <3>1. \A q \in Prompts : pc[q] \notin GapPCs
      BY <2>2 DEF GapReady, Ready, Closing, CheckReady, SlotFree, AcceptsPrompt
    <3> QED
      BY <1>a, <2>2, <3>1 DEF AloneGap, GapPCs, TypeTasks
  <2> QED
    BY <1>7, <1>a, <2>1, <2>2 DEF BeginChecked, StampTurn, Busy, TurnPCs, GapPCs, TypeTasks
<1>8. ASSUME NEW p \in Prompts, LogPrompt(p) PROVE AloneGap'
  <2>1. \A q \in Prompts : /\ pc'[q] \in Busy => pc[q] \in Busy
                           /\ pc'[q] \in GapPCs => pc[q] \in GapPCs
    BY <1>8, <1>a, <1>b, <1>d, <1>f DEF LogPrompt, Busy, TurnPCs, GapPCs, TypeTasks
  <2> QED
    BY <2>1, AloneGapKept
<1>9. ASSUME NEW p \in Prompts, LogFails(p) PROVE AloneGap'
  <2>1. \A q \in Prompts : /\ pc'[q] \in Busy => pc[q] \in Busy
                           /\ pc'[q] \in GapPCs => pc[q] \in GapPCs
    BY <1>9, <1>a, <1>b, <1>d, <1>f DEF LogFails, Busy, TurnPCs, GapPCs, TypeTasks
  <2> QED
    BY <2>1, AloneGapKept
<1>10. ASSUME NEW p \in Prompts, SendPrompt(p) PROVE AloneGap'
  <2>1. \A q \in Prompts : /\ pc'[q] \in Busy => pc[q] \in Busy
                           /\ pc'[q] \in GapPCs => pc[q] \in GapPCs
    BY <1>10, <1>a, <1>b, <1>d, <1>f DEF SendPrompt, Busy, TurnPCs, GapPCs, TypeTasks
  <2> QED
    BY <2>1, AloneGapKept
<1>11. ASSUME NEW p \in Prompts, SteerPush(p) PROVE AloneGap'
  <2>1. \A q \in Prompts : /\ pc'[q] \in Busy => pc[q] \in Busy
                           /\ pc'[q] \in GapPCs => pc[q] \in GapPCs
    BY <1>11, <1>a, <1>b, <1>d, <1>f DEF SteerPush, Busy, TurnPCs, GapPCs, TypeTasks,
       SteerPCs
  <2> QED
    BY <2>1, AloneGapKept
<1>12. ASSUME NEW p \in Prompts, SteerEnqueue(p) PROVE AloneGap'
  <2>1. \A q \in Prompts : /\ pc'[q] \in Busy => pc[q] \in Busy
                           /\ pc'[q] \in GapPCs => pc[q] \in GapPCs
    BY <1>12, <1>a, <1>b, <1>d, <1>f DEF SteerEnqueue, Busy, TurnPCs, GapPCs, TypeTasks,
       SteerPCs
  <2> QED
    BY <2>1, AloneGapKept
<1>13. ASSUME NEW p \in Prompts, SteerNoteLimit(p) PROVE AloneGap'
  <2>1. \A q \in Prompts : /\ pc'[q] \in Busy => pc[q] \in Busy
                           /\ pc'[q] \in GapPCs => pc[q] \in GapPCs
    BY <1>13, <1>a, <1>b, <1>d, <1>f DEF SteerNoteLimit, Busy, TurnPCs, GapPCs,
       TypeTasks, SteerPCs
  <2> QED
    BY <2>1, AloneGapKept
<1>14. ASSUME NEW p \in Prompts, SteerResolved(p) PROVE AloneGap'
  <2>1. \A q \in Prompts : /\ pc'[q] \in Busy => pc[q] \in Busy
                           /\ pc'[q] \in GapPCs => pc[q] \in GapPCs
    BY <1>14, <1>a, <1>b, <1>d, <1>f DEF SteerResolved, Busy, TurnPCs, GapPCs, TypeTasks,
       SteerPCs
  <2> QED
    BY <2>1, AloneGapKept
<1>15. ASSUME NEW p \in Prompts, KickWire(p) PROVE AloneGap'
  <2>1. \A q \in Prompts : /\ pc'[q] \in Busy => pc[q] \in Busy
                           /\ pc'[q] \in GapPCs => pc[q] \in GapPCs
    BY <1>15, <1>a, <1>b, <1>d, <1>f DEF KickWire, Busy, TurnPCs, GapPCs, TypeTasks
  <2> QED
    BY <2>1, AloneGapKept
<1>16. ASSUME NEW p \in Prompts, SettleTurn(p) PROVE AloneGap'
  <2>1. CASE \A q \in Prompts : /\ pc'[q] \in Busy => pc[q] \in Busy
                                /\ pc'[q] \in GapPCs => pc[q] \in GapPCs
    BY <2>1, AloneGapKept
  <2>2. CASE ~(\A q \in Prompts : /\ pc'[q] \in Busy => pc[q] \in Busy
                                  /\ pc'[q] \in GapPCs => pc[q] \in GapPCs)
    <3>1. /\ ~superseded /\ queue # << >> /\ pc[p] = "ended"
          /\ pc' = [pc EXCEPT ![p] = "recording", ![Head(queue)] = "popped"]
      BY <1>16, <1>a, <1>b, <2>2 DEF SettleTurn, FinishBegins, DropQueue, ChainReady,
         Busy, TurnPCs, GapPCs, TypeTasks
    <3>2. Head(queue) \in Prompts /\ Head(queue) # p
      BY <1>a, <3>1, HeadQueued
    <3>3. \A q \in Prompts : pc[q] \in Busy => q = p
      BY <1>s, <3>1 DEF Alone, Guarded, Busy, TurnPCs
    <3>4. \A q \in Prompts : pc'[q] \in Busy => q = Head(queue)
      BY <1>a, <3>1, <3>2, <3>3 DEF Busy, TurnPCs, GapPCs, TypeTasks
    <3> QED
      BY <3>4 DEF AloneGap, Busy
  <2> QED
    BY <2>1, <2>2
<1>17. ASSUME NEW p \in Prompts, FailTurn(p) PROVE AloneGap'
  <2>1. \A q \in Prompts : /\ pc'[q] \in Busy => pc[q] \in Busy
                           /\ pc'[q] \in GapPCs => pc[q] \in GapPCs
    BY <1>17, <1>a, <1>b, <1>d, <1>f DEF FailTurn, CloseCurrent, FinishBegins,
       UnchangedByFinish, DropQueue, Busy, TurnPCs, GapPCs, TypeTasks
  <2> QED
    BY <2>1, AloneGapKept
<1>18. ASSUME NEW p \in Prompts, ParkTurn(p) PROVE AloneGap'
  <2>1. \A q \in Prompts : /\ pc'[q] \in Busy => pc[q] \in Busy
                           /\ pc'[q] \in GapPCs => pc[q] \in GapPCs
    BY <1>18, <1>a, <1>b, <1>d, <1>f DEF ParkTurn, CloseCurrent, FinishBegins,
       UnchangedByFinish, Busy, TurnPCs, GapPCs, TypeTasks
  <2> QED
    BY <2>1, AloneGapKept
<1>19. ASSUME NEW p \in Prompts, RecordTurnEnd(p) PROVE AloneGap'
  <2>1. \A q \in Prompts : /\ pc'[q] \in Busy => pc[q] \in Busy
                           /\ pc'[q] \in GapPCs => pc[q] \in GapPCs
    BY <1>19, <1>a, <1>b, <1>d, <1>f DEF RecordTurnEnd, Busy, TurnPCs, GapPCs, TypeTasks
  <2> QED
    BY <2>1, AloneGapKept
<1>20. ASSUME NEW p \in Prompts, ClearRecording(p) PROVE AloneGap'
  <2>1. \A q \in Prompts : /\ pc'[q] \in Busy => pc[q] \in Busy
                           /\ pc'[q] \in GapPCs => pc[q] \in GapPCs
    BY <1>20, <1>a, <1>b, <1>d, <1>f DEF ClearRecording, Busy, TurnPCs, GapPCs, TypeTasks
  <2> QED
    BY <2>1, AloneGapKept
<1>21. ASSUME NEW p \in Prompts, NoteLimit(p) PROVE AloneGap'
  <2>1. \A q \in Prompts : /\ pc'[q] \in Busy => pc[q] \in Busy
                           /\ pc'[q] \in GapPCs => pc[q] \in GapPCs
    BY <1>21, <1>a, <1>b, <1>d, <1>f DEF NoteLimit, Busy, TurnPCs, GapPCs, TypeTasks
  <2> QED
    BY <2>1, AloneGapKept
<1>22. ASSUME NEW p \in Prompts, SpawnChained(p) PROVE AloneGap'
  <2>1. \A q \in Prompts : /\ pc'[q] \in Busy => pc[q] \in Busy
                           /\ pc'[q] \in GapPCs => pc[q] \in GapPCs
    BY <1>22, <1>a, <1>b, <1>d, <1>f DEF SpawnChained, StampTurn, Unstarted, Busy,
       TurnPCs, GapPCs, TypeTasks
  <2> QED
    BY <2>1, AloneGapKept
<1>23. ASSUME NEW p \in Prompts, Repark(p) PROVE AloneGap'
  <2>1. \A q \in Prompts : /\ pc'[q] \in Busy => pc[q] \in Busy
                           /\ pc'[q] \in GapPCs => pc[q] \in GapPCs
    BY <1>23, <1>a, <1>b, <1>d, <1>f DEF Repark, Requeued, Busy, TurnPCs, GapPCs,
       TypeTasks
  <2> QED
    BY <2>1, AloneGapKept
<1>24. ASSUME NEW p \in Prompts, ReserveResume(p) PROVE AloneGap'
  <2>1. /\ status = "rate_limited" /\ ~superseded /\ closing = "none"
        /\ pc' = [pc EXCEPT ![p] = "reserved"]
    BY <1>24 DEF ReserveResume
  <2>2. \A q \in Prompts : pc[q] \notin Busy
    BY <1>s, <2>1 DEF Blocks, Guarded
  <2> QED
    BY <1>a, <2>1, <2>2 DEF AloneGap, Busy, TypeTasks
<1>25. ASSUME NEW p \in Prompts, ClearParked(p) PROVE AloneGap'
  <2>1. \A q \in Prompts : /\ pc'[q] \in Busy => pc[q] \in Busy
                           /\ pc'[q] \in GapPCs => pc[q] \in GapPCs
    BY <1>25, <1>a, <1>b, <1>d, <1>f DEF ClearParked, Busy, TurnPCs, GapPCs, TypeTasks
  <2> QED
    BY <2>1, AloneGapKept
<1>26. ASSUME NEW p \in Prompts, ResumeBegin(p) PROVE AloneGap'
  <2>1. \A q \in Prompts : /\ pc'[q] \in Busy => pc[q] \in Busy
                           /\ pc'[q] \in GapPCs => pc[q] \in GapPCs
    BY <1>26, <1>a, <1>b, <1>d, <1>f DEF ResumeBegin, StampTurn, Unstarted, Busy,
       TurnPCs, GapPCs, TypeTasks
  <2> QED
    BY <2>1, AloneGapKept
<1>27. ASSUME NEW p \in Prompts, Answer(p) PROVE AloneGap'
  <2>1. \A q \in Prompts : /\ pc'[q] \in Busy => pc[q] \in Busy
                           /\ pc'[q] \in GapPCs => pc[q] \in GapPCs
    BY <1>27, <1>a, <1>b, <1>d, <1>f DEF Answer, Busy, TurnPCs, GapPCs, TypeTasks,
       OutOwned
  <2> QED
    BY <2>1, AloneGapKept
<1>28. CASE Teardown
  <2>1. \A q \in Prompts : /\ pc'[q] \in Busy => pc[q] \in Busy
                           /\ pc'[q] \in GapPCs => pc[q] \in GapPCs
    BY <1>28, <1>a, <1>b, <1>d, <1>f DEF Teardown, CloseSub, DropQueue, AnswerPending,
       Busy, TurnPCs, GapPCs, TypeTasks
  <2> QED
    BY <2>1, AloneGapKept
<1>29. CASE HandedClose
  <2>1. \A q \in Prompts : /\ pc'[q] \in Busy => pc[q] \in Busy
                           /\ pc'[q] \in GapPCs => pc[q] \in GapPCs
    BY <1>29, <1>a, <1>b, <1>d, <1>f DEF HandedClose, CloseSub, DropQueue, AnswerPending,
       Busy, TurnPCs, GapPCs, TypeTasks
  <2> QED
    BY <2>1, AloneGapKept
<1>30. CASE OnDisconnect
  <2>1. \A q \in Prompts : /\ pc'[q] \in Busy => pc[q] \in Busy
                           /\ pc'[q] \in GapPCs => pc[q] \in GapPCs
    BY <1>30, <1>a, <1>b, <1>d, <1>f DEF OnDisconnect, DropQueue, AnswerPending, Busy,
       TurnPCs, GapPCs, TypeTasks
  <2> QED
    BY <2>1, AloneGapKept
<1>31. CASE CancelTurn
  <2>1. \A q \in Prompts : /\ pc'[q] \in Busy => pc[q] \in Busy
                           /\ pc'[q] \in GapPCs => pc[q] \in GapPCs
    BY <1>31, <1>a, <1>b, <1>d, <1>f DEF CancelTurn, DropQueue, AnswerPending, Busy,
       TurnPCs, GapPCs, TypeTasks
  <2> QED
    BY <2>1, AloneGapKept
<1> QED
  BY <1>1, <1>2, <1>3, <1>4, <1>5, <1>6, <1>7, <1>8, <1>9, <1>10, <1>11, <1>12, <1>13,
     <1>14, <1>15, <1>16, <1>17, <1>18, <1>19, <1>20, <1>21, <1>22, <1>23, <1>24, <1>25,
     <1>26, <1>27, <1>28, <1>29, <1>30, <1>31 DEF Next, WireFree, WireTaking, Scheduler,
     Teardowns, Prompts

\* A reserved slot waits for its prompt, or the session ends.
LEMMA GapReadyStep ==
    ASSUME Perms = {}, TypeOK, Ownership, status # "needs_permission", Slot,
       CurrentOwned, AloneGap, GapReady, [Next]_vars
    PROVE  GapReady'
<1> USE DEF turnVars, steerVars, rtVars, taskVars, soloVars, permVars, agentVars, histVars
<1>a. /\ TypeTurns /\ TypeTasks /\ TypeAgent /\ TypeRuntime /\ TypeSolo
      /\ WireOwned /\ OutOwned /\ QueueOwned
  BY DEF TypeOK, Ownership
<1>b. \A q \in Range(queue) : pc[q] = "queued"
  BY <1>a, RangeQueued
<1>s. SteersAbsent /\ EndShape /\ Alone /\ Blocks
  BY DEF Slot
<1>d. \A q \in Prompts : pc[q] # "kicked" /\ pc[q] \notin SteerPCs
  BY <1>s DEF SteersAbsent
<1>e. steerPending = << >>
  BY <1>s DEF SteersAbsent
<1>f. None \notin Prompts /\ Policies \subseteq {"try", "queued", "steer"}
  BY PromptsAssumption, PoliciesAssumption
<1>1. ASSUME NEW r \in Perms, AskPermission(r) PROVE GapReady'
  <2>1. UNCHANGED <<status, current, closing, live, pc, watcher>>
    BY <1>1 DEF AskPermission
  <2> QED
    BY <2>1, <1>a DEF GapReady, Ready, Closing
<1>2. CASE RecordPark \/ ParkedDue \/ PassOver \/ ClearStale \/ UnscheduleResume \/
   CancelSend \/ GateRises \/ GateExpires \/ AgentDies \/ UNCHANGED vars
  <2>1. UNCHANGED <<status, current, closing, live, pc, watcher>>
    BY <1>2 DEF RecordPark, ParkedDue, PassOver, ClearStale, UnscheduleResume,
       CancelSend, GateRises, GateExpires, AgentDies, vars
  <2> QED
    BY <2>1, <1>a DEF GapReady, Ready, Closing
<1>3. ASSUME NEW p \in Prompts, Send(p) PROVE GapReady'
  <2>1. \A q \in Prompts : pc'[q] \in GapPCs => pc[q] \in GapPCs
    BY <1>3, <1>a, <1>b, <1>d, <1>f DEF Send, GapPCs, TypeTasks
  <2>2. UNCHANGED <<status, current, live, closing, watcher>>
    BY <1>3, <1>d DEF Send
  <2> QED
    BY <2>1, <2>2 DEF GapReady, Ready, Closing
<1>4. ASSUME NEW p \in Prompts, SendQueued(p) PROVE GapReady'
  <2>1. \A q \in Prompts : pc'[q] \in GapPCs => pc[q] \in GapPCs
    BY <1>4, <1>a, <1>b, <1>d, <1>f DEF SendQueued, GapPCs, TypeTasks
  <2>2. UNCHANGED <<status, current, live, closing, watcher>>
    BY <1>4, <1>d DEF SendQueued
  <2> QED
    BY <2>1, <2>2 DEF GapReady, Ready, Closing
<1>5. ASSUME NEW p \in Prompts, SteerSend(p) PROVE GapReady'
  <2>1. \A q \in Prompts : pc'[q] \in GapPCs => pc[q] \in GapPCs
    BY <1>5, <1>a, <1>b, <1>d, <1>f DEF SteerSend, GapPCs, TypeTasks, SteerPCs
  <2>2. UNCHANGED <<status, current, live, closing, watcher>>
    BY <1>5, <1>d DEF SteerSend, SteerPCs
  <2> QED
    BY <2>1, <2>2 DEF GapReady, Ready, Closing
<1>6. ASSUME NEW p \in Prompts, BeginChecked(p) PROVE GapReady'
  <2>1. CASE CheckReady /\ pc' = [pc EXCEPT ![p] = "logging"]
    <3>1. \A q \in Prompts : pc[q] \notin GapPCs
      BY <2>1 DEF GapReady, Ready, Closing, CheckReady, SlotFree, AcceptsPrompt
    <3> QED
      BY <1>a, <2>1, <3>1 DEF GapReady, GapPCs, TypeTasks
  <2>2. CASE /\ UNCHANGED <<status, current, live, closing, watcher>>
             /\ \A q \in Prompts : pc'[q] \in GapPCs => pc[q] \in GapPCs
    BY <2>2 DEF GapReady, Ready, Closing
  <2> QED
    BY <1>6, <1>a, <2>1, <2>2 DEF BeginChecked, StampTurn, GapPCs, TypeTasks
<1>7. ASSUME NEW p \in Prompts, LogPrompt(p) PROVE GapReady'
  <2>1. \A q \in Prompts : pc'[q] \in GapPCs => pc[q] \in GapPCs
    BY <1>7, <1>a, <1>b, <1>d, <1>f DEF LogPrompt, GapPCs, TypeTasks
  <2>2. UNCHANGED <<status, current, live, closing, watcher>>
    BY <1>7, <1>d DEF LogPrompt
  <2> QED
    BY <2>1, <2>2 DEF GapReady, Ready, Closing
<1>8. ASSUME NEW p \in Prompts, LogFails(p) PROVE GapReady'
  <2>1. \A q \in Prompts : pc[q] \in GapPCs => q = p
    BY <1>8 DEF LogFails, AloneGap, Busy, TurnPCs, GapPCs
  <2>2. \A q \in Prompts : pc'[q] \in GapPCs => q # p /\ pc[q] \in GapPCs
    BY <1>8, <1>a, <1>b DEF LogFails, GapPCs, TypeTasks
  <2> QED
    BY <2>1, <2>2 DEF GapReady
<1>9. ASSUME NEW p \in Prompts, SendPrompt(p) PROVE GapReady'
  <2>1. \A q \in Prompts : pc[q] \in GapPCs => q = p
    BY <1>9 DEF SendPrompt, AloneGap, Busy, TurnPCs, GapPCs
  <2>2. \A q \in Prompts : pc'[q] \in GapPCs => q # p /\ pc[q] \in GapPCs
    BY <1>9, <1>a, <1>b DEF SendPrompt, GapPCs, TypeTasks
  <2> QED
    BY <2>1, <2>2 DEF GapReady
<1>10. ASSUME NEW p \in Prompts, SteerPush(p) PROVE GapReady'
  <2>1. \A q \in Prompts : pc'[q] \in GapPCs => pc[q] \in GapPCs
    BY <1>10, <1>a, <1>b, <1>d, <1>f DEF SteerPush, GapPCs, TypeTasks, SteerPCs
  <2>2. UNCHANGED <<status, current, live, closing, watcher>>
    BY <1>10, <1>d DEF SteerPush, SteerPCs
  <2> QED
    BY <2>1, <2>2 DEF GapReady, Ready, Closing
<1>11. ASSUME NEW p \in Prompts, SteerEnqueue(p) PROVE GapReady'
  <2>1. \A q \in Prompts : pc'[q] \in GapPCs => pc[q] \in GapPCs
    BY <1>11, <1>a, <1>b, <1>d, <1>f DEF SteerEnqueue, GapPCs, TypeTasks, SteerPCs
  <2>2. UNCHANGED <<status, current, live, closing, watcher>>
    BY <1>11, <1>d DEF SteerEnqueue, SteerPCs
  <2> QED
    BY <2>1, <2>2 DEF GapReady, Ready, Closing
<1>12. ASSUME NEW p \in Prompts, SteerNoteLimit(p) PROVE GapReady'
  <2>1. \A q \in Prompts : pc'[q] \in GapPCs => pc[q] \in GapPCs
    BY <1>12, <1>a, <1>b, <1>d, <1>f DEF SteerNoteLimit, GapPCs, TypeTasks, SteerPCs
  <2>2. UNCHANGED <<status, current, live, closing, watcher>>
    BY <1>12, <1>d DEF SteerNoteLimit, SteerPCs
  <2> QED
    BY <2>1, <2>2 DEF GapReady, Ready, Closing
<1>13. ASSUME NEW p \in Prompts, SteerResolved(p) PROVE GapReady'
  BY <1>13, <1>d DEF SteerResolved, SteerPCs
<1>14. ASSUME NEW p \in Prompts, KickWire(p) PROVE GapReady'
  <2>1. \A q \in Prompts : pc'[q] \in GapPCs => pc[q] \in GapPCs
    BY <1>14, <1>a, <1>b, <1>d, <1>f DEF KickWire, GapPCs, TypeTasks
  <2>2. UNCHANGED <<status, current, live, closing, watcher>>
    BY <1>14, <1>d DEF KickWire
  <2> QED
    BY <2>1, <2>2 DEF GapReady, Ready, Closing
<1>15. ASSUME NEW p \in Prompts, SettleTurn(p) PROVE GapReady'
  <2>1. pc[p] = "ended" /\ current' = NoTurn
        /\ UNCHANGED <<live, closing, watcher, superseded, closer>>
    BY <1>15 DEF SettleTurn, FinishBegins, CloseCurrent, UnchangedByFinish
  <2>2. \A q \in Prompts : pc[q] \notin GapPCs
    BY <2>1 DEF AloneGap, Busy, TurnPCs, GapPCs
  <2>3. CASE \A q \in Prompts : pc'[q] \notin GapPCs
    BY <2>3 DEF GapReady
  <2>4. CASE \E q \in Prompts : pc'[q] \in GapPCs
    <3>1. ~superseded /\ status' = status /\ status # "exited"
      BY <1>15, <1>a, <1>b, <2>2, <2>4 DEF SettleTurn, DropQueue, ChainReady, GapPCs, TypeTasks
    <3>2. watcher = "off" /\ closing \in {"none", "ending"}
      BY <1>a, <1>s, <3>1 DEF EndShape, Claimed, ClosingMarked, TypeRuntime
    <3>3. ~live => closing = "ending"
      BY <1>s, <3>1, <3>2 DEF EndShape, Claimed, ClosingMarked
    <3>4. status = "running" \/ closing = "ending"
      BY <1>s, <2>1, <3>1 DEF Blocks, Guarded, Busy, TurnPCs
    <3> QED
      BY <2>1, <3>1, <3>2, <3>3, <3>4 DEF GapReady, Ready, Closing
  <2> QED
    BY <2>3, <2>4
<1>16. ASSUME NEW p \in Prompts, FailTurn(p) PROVE GapReady'
  <2>1. \A q \in Prompts : pc[q] \in GapPCs => q = p
    BY <1>16 DEF FailTurn, FinishBegins, AloneGap, Busy, TurnPCs, GapPCs
  <2>2. \A q \in Prompts : pc'[q] \in GapPCs => q # p /\ pc[q] \in GapPCs
    BY <1>16, <1>a, <1>b DEF FailTurn, CloseCurrent, FinishBegins, UnchangedByFinish,
       DropQueue, GapPCs, TypeTasks
  <2> QED
    BY <2>1, <2>2 DEF GapReady
<1>17. ASSUME NEW p \in Prompts, ParkTurn(p) PROVE GapReady'
  <2>1. \A q \in Prompts : pc[q] \in GapPCs => q = p
    BY <1>17 DEF ParkTurn, FinishBegins, AloneGap, Busy, TurnPCs, GapPCs
  <2>2. \A q \in Prompts : pc'[q] \in GapPCs => q # p /\ pc[q] \in GapPCs
    BY <1>17, <1>a, <1>b DEF ParkTurn, CloseCurrent, FinishBegins, UnchangedByFinish,
       GapPCs, TypeTasks
  <2> QED
    BY <2>1, <2>2 DEF GapReady
<1>18. ASSUME NEW p \in Prompts, RecordTurnEnd(p) PROVE GapReady'
  <2>1. \A q \in Prompts : pc'[q] \in GapPCs => pc[q] \in GapPCs
    BY <1>18, <1>a, <1>b, <1>d, <1>f DEF RecordTurnEnd, GapPCs, TypeTasks
  <2>2. UNCHANGED <<status, current, live, closing, watcher>>
    BY <1>18, <1>d DEF RecordTurnEnd
  <2> QED
    BY <2>1, <2>2 DEF GapReady, Ready, Closing
<1>19. ASSUME NEW p \in Prompts, ClearRecording(p) PROVE GapReady'
  <2>1. \A q \in Prompts : pc'[q] \in GapPCs => pc[q] \in GapPCs
    BY <1>19, <1>a, <1>b, <1>d, <1>f DEF ClearRecording, GapPCs, TypeTasks
  <2>2. UNCHANGED <<status, current, live, closing, watcher>>
    BY <1>19, <1>d DEF ClearRecording
  <2> QED
    BY <2>1, <2>2 DEF GapReady, Ready, Closing
<1>20. ASSUME NEW p \in Prompts, NoteLimit(p) PROVE GapReady'
  <2>1. \A q \in Prompts : pc'[q] \in GapPCs => pc[q] \in GapPCs
    BY <1>20, <1>a, <1>b, <1>d, <1>f DEF NoteLimit, GapPCs, TypeTasks
  <2>2. UNCHANGED <<status, current, live, closing, watcher>>
    BY <1>20, <1>d DEF NoteLimit
  <2> QED
    BY <2>1, <2>2 DEF GapReady, Ready, Closing
<1>21. ASSUME NEW p \in Prompts, SpawnChained(p) PROVE GapReady'
  <2>1. \A q \in Prompts : pc[q] \in GapPCs => q = p
    BY <1>21 DEF SpawnChained, AloneGap, Busy, TurnPCs, GapPCs
  <2>2. \A q \in Prompts : pc'[q] \in GapPCs => q # p /\ pc[q] \in GapPCs
    BY <1>21, <1>a, <1>b DEF SpawnChained, StampTurn, Unstarted, GapPCs, TypeTasks
  <2> QED
    BY <2>1, <2>2 DEF GapReady
<1>22. ASSUME NEW p \in Prompts, Repark(p) PROVE GapReady'
  <2>1. \A q \in Prompts : pc[q] \in GapPCs => q = p
    BY <1>22 DEF Repark, AloneGap, Busy, TurnPCs, GapPCs
  <2>2. \A q \in Prompts : pc'[q] \in GapPCs => q # p /\ pc[q] \in GapPCs
    BY <1>22, <1>a, <1>b DEF Repark, Requeued, GapPCs, TypeTasks
  <2> QED
    BY <2>1, <2>2 DEF GapReady
<1>23. ASSUME NEW p \in Prompts, ReserveResume(p) PROVE GapReady'
  <2>1. /\ status = "rate_limited" /\ ~superseded /\ closing = "none" /\ live
        /\ status' = "running" /\ UNCHANGED <<current, live, closing, watcher>>
    BY <1>23 DEF ReserveResume, ReserveSlot
  <2>2. \A q \in Prompts : pc[q] \notin Busy
    BY <1>s, <2>1 DEF Blocks, Guarded
  <2>3. current = NoTurn
    BY <2>2 DEF CurrentOwned, Busy
  <2>4. watcher = "off"
    BY <1>s, <2>1 DEF EndShape, Claimed
  <2> QED
    BY <2>1, <2>3, <2>4 DEF GapReady, Ready
<1>24. ASSUME NEW p \in Prompts, ClearParked(p) PROVE GapReady'
  <2>1. \A q \in Prompts : pc'[q] \in GapPCs => pc[q] \in GapPCs
    BY <1>24, <1>a, <1>b, <1>d, <1>f DEF ClearParked, GapPCs, TypeTasks
  <2>2. UNCHANGED <<status, current, live, closing, watcher>>
    BY <1>24, <1>d DEF ClearParked
  <2> QED
    BY <2>1, <2>2 DEF GapReady, Ready, Closing
<1>25. ASSUME NEW p \in Prompts, ResumeBegin(p) PROVE GapReady'
  <2>1. \A q \in Prompts : pc[q] \in GapPCs => q = p
    BY <1>25 DEF ResumeBegin, AloneGap, Busy, TurnPCs, GapPCs
  <2>2. \A q \in Prompts : pc'[q] \in GapPCs => q # p /\ pc[q] \in GapPCs
    BY <1>25, <1>a, <1>b DEF ResumeBegin, StampTurn, Unstarted, GapPCs, TypeTasks
  <2> QED
    BY <2>1, <2>2 DEF GapReady
<1>26. ASSUME NEW p \in Prompts, Answer(p) PROVE GapReady'
  <2>1. \A q \in Prompts : pc'[q] \in GapPCs => pc[q] \in GapPCs
    BY <1>26, <1>a, <1>b, <1>d, <1>f DEF Answer, GapPCs, TypeTasks, OutOwned
  <2>2. UNCHANGED <<status, current, live, closing, watcher>>
    BY <1>26, <1>d DEF Answer, OutOwned
  <2> QED
    BY <2>1, <2>2 DEF GapReady, Ready, Closing
<1>27. ASSUME NEW r \in Perms, QueueForPermit(r) PROVE GapReady'
  BY <1>27
<1>28. ASSUME NEW r \in Perms, Permit(r) PROVE GapReady'
  BY <1>28
<1>29. ASSUME NEW r \in Perms, PermitAnswered(r) PROVE GapReady'
  BY <1>29
<1>30. CASE Teardown
  <2>1. \A q \in Prompts : pc'[q] \in GapPCs => pc[q] \in GapPCs
    BY <1>30, <1>a, <1>b DEF Teardown, CloseSub, DropQueue, GapPCs, TypeTasks
  <2>2. closing' = "ending" /\ watcher' = watcher /\ (status = "exited" => status' = "exited")
    BY <1>30 DEF Teardown, CloseSub
  <2> QED
    BY <2>1, <2>2 DEF GapReady, Ready, Closing
<1>31. CASE HandedClose
  <2>1. \A q \in Prompts : pc'[q] \in GapPCs => pc[q] \in GapPCs
    BY <1>31, <1>a, <1>b DEF HandedClose, CloseSub, DropQueue, GapPCs, TypeTasks
  <2>2. watcher = "handed" /\ (status = "exited" => status' = "exited")
    BY <1>31 DEF HandedClose, CloseSub
  <2> QED
    BY <2>1, <2>2 DEF GapReady, Ready, Closing
<1>32. CASE OnDisconnect
  <2>1. \A q \in Prompts : pc'[q] \in GapPCs => pc[q] \in GapPCs
    BY <1>32, <1>a, <1>b DEF OnDisconnect, DropQueue, GapPCs, TypeTasks
  <2>2. \/ status' = "exited"
        \/ UNCHANGED <<status, current, live, closing, watcher>>
    BY <1>32 DEF OnDisconnect
  <2> QED
    BY <2>1, <2>2 DEF GapReady, Ready, Closing
<1>33. CASE SessionUpdate
  <2>1. FALSE
    BY <1>33, <1>s DEF SessionUpdate, SteersAbsent, OldestSteer, Oldest
  <2> QED
    BY <2>1
<1>34. CASE CancelTurn
  <2>1. UNCHANGED <<status, live, closing, watcher>> /\ (current = NoTurn => current' = NoTurn)
    BY <1>34 DEF CancelTurn, OffWire
  <2>2. \A q \in Prompts : pc'[q] \in GapPCs => pc[q] \in GapPCs
    BY <1>34, <1>a, <1>b DEF CancelTurn, DropQueue, GapPCs, TypeTasks
  <2> QED
    BY <2>1, <2>2 DEF GapReady, Ready, Closing
<1>35. CASE CloseSession
  <2>1. closing' = "ending" /\ UNCHANGED <<pc, watcher, status>>
    BY <1>35 DEF CloseSession
  <2> QED
    BY <2>1 DEF GapReady, Ready, Closing
<1>36. CASE Supersede
  <2>1. UNCHANGED <<pc, status, current>>
    BY <1>36 DEF Supersede
  <2>2. status = "running" \/ closing = "ending"
          => watcher' = "watch" /\ UNCHANGED <<closing, live>>
    BY <1>36 DEF Supersede, InFlight
  <2> QED
    BY <2>1, <2>2 DEF GapReady, Ready, Closing
<1>37. CASE WatchScan
  <2>1. UNCHANGED <<pc, status>> /\ status # "running" /\ closing # "ending"
    BY <1>37 DEF WatchScan, InFlight
  <2> QED
    BY <2>1 DEF GapReady, Ready, Closing
<1>38. CASE HandoffOne
  <2>1. UNCHANGED <<pc, status>> /\ watcher \in {"chosen", "shipping"}
    BY <1>38 DEF HandoffOne
  <2> QED
    BY <2>1 DEF GapReady, Ready, Closing
<1>39. CASE HandoffReported
  <2>1. UNCHANGED <<pc, status>> /\ watcher \in {"chosen", "shipping"}
    BY <1>39 DEF HandoffReported
  <2> QED
    BY <2>1 DEF GapReady, Ready, Closing
<1> QED
  BY <1>1, <1>2, <1>3, <1>4, <1>5, <1>6, <1>7, <1>8, <1>9, <1>10, <1>11, <1>12, <1>13,
     <1>14, <1>15, <1>16, <1>17, <1>18, <1>19, <1>20, <1>21, <1>22, <1>23, <1>24, <1>25,
     <1>26, <1>27, <1>28, <1>29, <1>30, <1>31, <1>32, <1>33, <1>34, <1>35, <1>36, <1>37,
     <1>38, <1>39 DEF Next, WireFree, WireTaking, Scheduler, Teardowns, Prompts

\* A prompt taken off the queue begins, or its session was ended.
LEMMA NoLostStep ==
    ASSUME Perms = {}, TypeOK, Ownership, status # "needs_permission", Slot,
       CurrentOwned, AloneGap, GapReady, NoLostPrompt, [Next]_vars
    PROVE  NoLostPrompt'
<1> USE DEF turnVars, steerVars, rtVars, taskVars, soloVars, permVars, agentVars, histVars
<1>a. /\ TypeTurns /\ TypeTasks /\ TypeAgent /\ TypeRuntime /\ TypeSolo
      /\ WireOwned /\ OutOwned /\ QueueOwned
  BY DEF TypeOK, Ownership
<1>b. \A q \in Range(queue) : pc[q] = "queued"
  BY <1>a, RangeQueued
<1>s. SteersAbsent /\ EndShape /\ Alone /\ Blocks
  BY DEF Slot
<1>d. \A q \in Prompts : pc[q] # "kicked" /\ pc[q] \notin SteerPCs
  BY <1>s DEF SteersAbsent
<1>e. steerPending = << >>
  BY <1>s DEF SteersAbsent
<1>f. None \notin Prompts /\ Policies \subseteq {"try", "queued", "steer"}
  BY PromptsAssumption, PoliciesAssumption
<1>1. ASSUME NEW r \in Perms,
             AskPermission(r) \/ QueueForPermit(r) \/ Permit(r) \/ PermitAnswered(r)
      PROVE  NoLostPrompt'
  <2>1. UNCHANGED <<pc>>
    BY <1>1 DEF AskPermission, QueueForPermit, Permit, Unblocked, PermitAnswered
  <2> QED
    BY <2>1, <1>a DEF NoLostPrompt
<1>2. CASE RecordPark \/ ParkedDue \/ PassOver \/ ClearStale \/ UnscheduleResume \/
   SessionUpdate \/ CancelSend \/ GateRises \/ GateExpires \/ AgentDies \/ CloseSession
   \/ Supersede
  <2>1. UNCHANGED <<pc>>
    BY <1>2 DEF RecordPark, ParkedDue, PassOver, ClearStale, UnscheduleResume,
       SessionUpdate, CancelSend, GateRises, GateExpires, AgentDies, CloseSession,
       Supersede
  <2> QED
    BY <2>1, <1>a DEF NoLostPrompt
<1>3. CASE WatchScan \/ HandoffOne \/ HandoffReported \/ UNCHANGED vars
  <2>1. UNCHANGED <<pc>>
    BY <1>3 DEF WatchScan, HandoffOne, HandoffReported, vars
  <2> QED
    BY <2>1, <1>a DEF NoLostPrompt
<1>4. ASSUME NEW p \in Prompts, Send(p) PROVE NoLostPrompt'
  <2>1. \A q \in Prompts : pc'[q] = "lost" => pc[q] = "lost"
    BY <1>4, <1>a, <1>b, <1>d, <1>f DEF Send, TypeTasks
  <2> QED
    BY <2>1 DEF NoLostPrompt
<1>5. ASSUME NEW p \in Prompts, SendQueued(p) PROVE NoLostPrompt'
  <2>1. \A q \in Prompts : pc'[q] = "lost" => pc[q] = "lost"
    BY <1>5, <1>a, <1>b, <1>d, <1>f DEF SendQueued, TypeTasks
  <2> QED
    BY <2>1 DEF NoLostPrompt
<1>6. ASSUME NEW p \in Prompts, SteerSend(p) PROVE NoLostPrompt'
  <2>1. \A q \in Prompts : pc'[q] = "lost" => pc[q] = "lost"
    BY <1>6, <1>a, <1>b, <1>d, <1>f DEF SteerSend, TypeTasks, SteerPCs
  <2> QED
    BY <2>1 DEF NoLostPrompt
<1>7. ASSUME NEW p \in Prompts, BeginChecked(p) PROVE NoLostPrompt'
  <2>1. \A q \in Prompts : pc'[q] = "lost" => pc[q] = "lost"
    BY <1>7, <1>a, <1>b, <1>d, <1>f DEF BeginChecked, StampTurn, TypeTasks
  <2> QED
    BY <2>1 DEF NoLostPrompt
<1>8. ASSUME NEW p \in Prompts, LogPrompt(p) PROVE NoLostPrompt'
  <2>1. \A q \in Prompts : pc'[q] = "lost" => pc[q] = "lost"
    BY <1>8, <1>a, <1>b, <1>d, <1>f DEF LogPrompt, TypeTasks
  <2> QED
    BY <2>1 DEF NoLostPrompt
<1>9. ASSUME NEW p \in Prompts, LogFails(p) PROVE NoLostPrompt'
  <2>1. \A q \in Prompts : pc'[q] = "lost" => pc[q] = "lost"
    BY <1>9, <1>a, <1>b, <1>d, <1>f DEF LogFails, TypeTasks
  <2> QED
    BY <2>1 DEF NoLostPrompt
<1>10. ASSUME NEW p \in Prompts, SendPrompt(p) PROVE NoLostPrompt'
  <2>1. \A q \in Prompts : pc'[q] = "lost" => pc[q] = "lost"
    BY <1>10, <1>a, <1>b, <1>d, <1>f DEF SendPrompt, TypeTasks
  <2> QED
    BY <2>1 DEF NoLostPrompt
<1>11. ASSUME NEW p \in Prompts, SteerPush(p) PROVE NoLostPrompt'
  <2>1. \A q \in Prompts : pc'[q] = "lost" => pc[q] = "lost"
    BY <1>11, <1>a, <1>b, <1>d, <1>f DEF SteerPush, TypeTasks, SteerPCs
  <2> QED
    BY <2>1 DEF NoLostPrompt
<1>12. ASSUME NEW p \in Prompts, SteerEnqueue(p) PROVE NoLostPrompt'
  <2>1. \A q \in Prompts : pc'[q] = "lost" => pc[q] = "lost"
    BY <1>12, <1>a, <1>b, <1>d, <1>f DEF SteerEnqueue, TypeTasks, SteerPCs
  <2> QED
    BY <2>1 DEF NoLostPrompt
<1>13. ASSUME NEW p \in Prompts, SteerNoteLimit(p) PROVE NoLostPrompt'
  <2>1. \A q \in Prompts : pc'[q] = "lost" => pc[q] = "lost"
    BY <1>13, <1>a, <1>b, <1>d, <1>f DEF SteerNoteLimit, TypeTasks, SteerPCs
  <2> QED
    BY <2>1 DEF NoLostPrompt
<1>14. ASSUME NEW p \in Prompts, SteerResolved(p) PROVE NoLostPrompt'
  <2>1. \A q \in Prompts : pc'[q] = "lost" => pc[q] = "lost"
    BY <1>14, <1>a, <1>b, <1>d, <1>f DEF SteerResolved, TypeTasks, SteerPCs
  <2> QED
    BY <2>1 DEF NoLostPrompt
<1>15. ASSUME NEW p \in Prompts, KickWire(p) PROVE NoLostPrompt'
  <2>1. \A q \in Prompts : pc'[q] = "lost" => pc[q] = "lost"
    BY <1>15, <1>a, <1>b, <1>d, <1>f DEF KickWire, TypeTasks
  <2> QED
    BY <2>1 DEF NoLostPrompt
<1>16. ASSUME NEW p \in Prompts, SettleTurn(p) PROVE NoLostPrompt'
  <2>1. \A q \in Prompts : pc'[q] = "lost" => pc[q] = "lost"
    BY <1>16, <1>a, <1>b, <1>d, <1>f DEF SettleTurn, CloseCurrent, FinishBegins,
       UnchangedByFinish, DropQueue, ChainReady, TypeTasks
  <2> QED
    BY <2>1 DEF NoLostPrompt
<1>17. ASSUME NEW p \in Prompts, FailTurn(p) PROVE NoLostPrompt'
  <2>1. \A q \in Prompts : pc'[q] = "lost" => pc[q] = "lost"
    BY <1>17, <1>a, <1>b, <1>d, <1>f DEF FailTurn, CloseCurrent, FinishBegins,
       UnchangedByFinish, DropQueue, TypeTasks
  <2> QED
    BY <2>1 DEF NoLostPrompt
<1>18. ASSUME NEW p \in Prompts, ParkTurn(p) PROVE NoLostPrompt'
  <2>1. \A q \in Prompts : pc'[q] = "lost" => pc[q] = "lost"
    BY <1>18, <1>a, <1>b, <1>d, <1>f DEF ParkTurn, CloseCurrent, FinishBegins,
       UnchangedByFinish, TypeTasks
  <2> QED
    BY <2>1 DEF NoLostPrompt
<1>19. ASSUME NEW p \in Prompts, RecordTurnEnd(p) PROVE NoLostPrompt'
  <2>1. \A q \in Prompts : pc'[q] = "lost" => pc[q] = "lost"
    BY <1>19, <1>a, <1>b, <1>d, <1>f DEF RecordTurnEnd, TypeTasks
  <2> QED
    BY <2>1 DEF NoLostPrompt
<1>20. ASSUME NEW p \in Prompts, ClearRecording(p) PROVE NoLostPrompt'
  <2>1. \A q \in Prompts : pc'[q] = "lost" => pc[q] = "lost"
    BY <1>20, <1>a, <1>b, <1>d, <1>f DEF ClearRecording, TypeTasks
  <2> QED
    BY <2>1 DEF NoLostPrompt
<1>21. ASSUME NEW p \in Prompts, NoteLimit(p) PROVE NoLostPrompt'
  <2>1. \A q \in Prompts : pc'[q] = "lost" => pc[q] = "lost"
    BY <1>21, <1>a, <1>b, <1>d, <1>f DEF NoteLimit, TypeTasks
  <2> QED
    BY <2>1 DEF NoLostPrompt
<1>22. ASSUME NEW p \in Prompts, SpawnChained(p) PROVE NoLostPrompt'
  <2>1. closing = "none" /\ status # "exited" => Ready
    BY <1>22 DEF SpawnChained, GapReady, Closing, GapPCs
  <2>2. \A q \in Prompts : pc'[q] = "lost" => pc[q] = "lost"
    BY <1>22, <1>a, <2>1 DEF SpawnChained, StampTurn, Unstarted, ChainedReady, Ready, TypeTasks
  <2> QED
    BY <2>2 DEF NoLostPrompt
<1>23. ASSUME NEW p \in Prompts, Repark(p) PROVE NoLostPrompt'
  <2>1. \A q \in Prompts : pc'[q] = "lost" => pc[q] = "lost"
    BY <1>23, <1>a, <1>b, <1>d, <1>f DEF Repark, Requeued, TypeTasks
  <2> QED
    BY <2>1 DEF NoLostPrompt
<1>24. ASSUME NEW p \in Prompts, ReserveResume(p) PROVE NoLostPrompt'
  <2>1. \A q \in Prompts : pc'[q] = "lost" => pc[q] = "lost"
    BY <1>24, <1>a, <1>b, <1>d, <1>f DEF ReserveResume, ReserveSlot, TypeTasks
  <2> QED
    BY <2>1 DEF NoLostPrompt
<1>25. ASSUME NEW p \in Prompts, ClearParked(p) PROVE NoLostPrompt'
  <2>1. \A q \in Prompts : pc'[q] = "lost" => pc[q] = "lost"
    BY <1>25, <1>a, <1>b, <1>d, <1>f DEF ClearParked, TypeTasks
  <2> QED
    BY <2>1 DEF NoLostPrompt
<1>26. ASSUME NEW p \in Prompts, ResumeBegin(p) PROVE NoLostPrompt'
  <2>1. closing = "none" /\ status # "exited" => Ready
    BY <1>26 DEF ResumeBegin, GapReady, Closing, GapPCs
  <2>2. \A q \in Prompts : pc'[q] = "lost" => pc[q] = "lost"
    BY <1>26, <1>a, <2>1 DEF ResumeBegin, StampTurn, Unstarted, ChainedReady, Ready, TypeTasks
  <2> QED
    BY <2>2 DEF NoLostPrompt
<1>27. ASSUME NEW p \in Prompts, Answer(p) PROVE NoLostPrompt'
  <2>1. \A q \in Prompts : pc'[q] = "lost" => pc[q] = "lost"
    BY <1>27, <1>a, <1>b, <1>d, <1>f DEF Answer, TypeTasks, OutOwned
  <2> QED
    BY <2>1 DEF NoLostPrompt
<1>28. CASE Teardown
  <2>1. \A q \in Prompts : pc'[q] = "lost" => pc[q] = "lost"
    BY <1>28, <1>a, <1>b, <1>d, <1>f DEF Teardown, CloseSub, DropQueue, AnswerPending,
       TypeTasks
  <2> QED
    BY <2>1 DEF NoLostPrompt
<1>29. CASE HandedClose
  <2>1. \A q \in Prompts : pc'[q] = "lost" => pc[q] = "lost"
    BY <1>29, <1>a, <1>b, <1>d, <1>f DEF HandedClose, CloseSub, DropQueue, AnswerPending,
       TypeTasks
  <2> QED
    BY <2>1 DEF NoLostPrompt
<1>30. CASE OnDisconnect
  <2>1. \A q \in Prompts : pc'[q] = "lost" => pc[q] = "lost"
    BY <1>30, <1>a, <1>b, <1>d, <1>f DEF OnDisconnect, DropQueue, AnswerPending,
       TypeTasks
  <2> QED
    BY <2>1 DEF NoLostPrompt
<1>31. CASE CancelTurn
  <2>1. \A q \in Prompts : pc'[q] = "lost" => pc[q] = "lost"
    BY <1>31, <1>a, <1>b, <1>d, <1>f DEF CancelTurn, DropQueue, AnswerPending, TypeTasks
  <2> QED
    BY <2>1 DEF NoLostPrompt
<1> QED
  BY <1>1, <1>2, <1>3, <1>4, <1>5, <1>6, <1>7, <1>8, <1>9, <1>10, <1>11, <1>12, <1>13,
     <1>14, <1>15, <1>16, <1>17, <1>18, <1>19, <1>20, <1>21, <1>22, <1>23, <1>24, <1>25,
     <1>26, <1>27, <1>28, <1>29, <1>30, <1>31 DEF Next, WireFree, WireTaking, Scheduler,
     Teardowns, Prompts

\* The slot of a session nobody steers and that asks nobody.
Handoff == Slot /\ CurrentOwned /\ BeginsOwn /\ AloneGap /\ GapReady /\ NoLostPrompt

LEMMA HandoffInvariant ==
    ASSUME "steer" \notin Policies, Perms = {} PROVE Spec => []Handoff
<1> DEFINE I == CurrentOwned /\ BeginsOwn /\ AloneGap /\ GapReady /\ NoLostPrompt
           Calm == status # "needs_permission"
<1>1. Init => I
  BY DEF Init, CurrentOwned, BeginsOwn, AloneGap, GapReady, GapPCs, NoLostPrompt
<1>2. IndInv /\ Slot /\ Calm /\ I /\ [Next]_vars => I'
  BY CurrentStep, BeginsStep, AloneGapStep, GapReadyStep, NoLostStep DEF IndInv, Slot
<1>3. Slot /\ I => Handoff
  BY DEF Handoff
<1>4. Spec => []Calm
  BY NeverAsks
<1> HIDE DEF Calm, I
<1> QED
  BY <1>1, <1>2, <1>3, <1>4, Inductive, SlotInvariant, PTL DEF Spec

\* In a session nobody steers and that raises no permission request, an
\* accepted prompt is never lost between the queue and its turn: the chain,
\* the resume and the re-park find the session ready for it, or ended.
THEOREM NoLostPromptHolds ==
    ASSUME "steer" \notin Policies, Perms = {} PROVE Spec => []NoLostPrompt
<1>1. Handoff => NoLostPrompt
  BY DEF Handoff
<1> QED
  BY <1>1, HandoffInvariant, PTL

-----------------------------------------------------------------------------
(* The queue is served in order                                            *)

\* A prompt on its way to its turn or past its start.
Runs == Begun \cup GapPCs

\* A prompt is accepted once, and from then on queued, run or dropped.
AcceptedOnce == Once(accepted)
AcceptedGone ==
    \A i \in 1..Len(accepted) : pc[accepted[i]] \in {"queued", "dropped"} \cup Runs
WasAccepted ==
    \A p \in Prompts : pc[p] \in {"queued", "popped", "chained"} =>
        \E i \in 1..Len(accepted) : accepted[i] = p

\* The queue holds the prompts that wait, in the order of their acceptance.
QueuedQueued ==
    \A p \in Prompts : pc[p] = "queued" => \E k \in 1..Len(queue) : queue[k] = p
QueueSorted ==
    \A i, j \in 1..Len(accepted), k, l \in 1..Len(queue) :
        accepted[i] = queue[k] /\ accepted[j] = queue[l] /\ k < l => i < j

\* Who was accepted before one that runs has run or is dropped.
InOrder ==
    \A i, j \in 1..Len(accepted) :
        i < j /\ pc[accepted[j]] \in Runs => pc[accepted[i]] \in Begun \cup {"dropped"}

Order == /\ AcceptedOnce /\ AcceptedGone /\ WasAccepted
         /\ QueuedQueued /\ QueueSorted /\ InOrder

\* How a prompt goes on, in a step that neither queues nor unqueues it.
Onward(a, b) ==
    /\ a \in Begun => b \in Begun \cup {"dropped"}
    /\ a \in GapPCs => b \in Runs \cup {"dropped"}
    /\ a = "dropped" => b = "dropped"
    /\ a = "queued" <=> b = "queued"
    /\ b \in {"popped", "chained"} => a \in {"popped", "chained"}


\* A step that leaves the queue alone keeps the order ...
LEMMA OrderKept ==
    ASSUME TypeHist, Order, queue' = queue, accepted' = accepted,
           \A q \in Prompts : Onward(pc[q], pc'[q])
    PROVE  Order'
<1>1. \A i \in 1..Len(accepted) : accepted[i] \in Prompts
  BY DEF TypeHist
<1>2. (AcceptedOnce /\ QueueSorted)'
  BY DEF Order, AcceptedOnce, QueueSorted
<1>3. AcceptedGone'
  BY <1>1 DEF Order, AcceptedGone, Onward, Runs
<1>4. WasAccepted'
  BY DEF Order, WasAccepted, Onward
<1>5. QueuedQueued'
  BY DEF Order, QueuedQueued, Onward
<1>6. InOrder'
  <2>1. \A i \in 1..Len(accepted) : pc'[accepted[i]] \in Runs => pc[accepted[i]] \in Runs
    BY <1>1 DEF Order, AcceptedGone, Onward, Runs, Begun, GapPCs
  <2> QED
    BY <1>1, <2>1 DEF Order, InOrder, Onward
<1> QED
  BY <1>2, <1>3, <1>4, <1>5, <1>6 DEF Order

\* ... so does one that drops the whole queue ...
LEMMA OrderDropped ==
    ASSUME TypeHist, Order, queue' = << >>, accepted' = accepted,
           \A q \in Prompts : IF pc[q] = "queued" THEN pc'[q] = "dropped"
                                                  ELSE Onward(pc[q], pc'[q])
    PROVE  Order'
<1>1. \A i \in 1..Len(accepted) : accepted[i] \in Prompts
  BY DEF TypeHist
<1>2. (AcceptedOnce /\ QueueSorted)'
  BY DEF Order, AcceptedOnce, QueueSorted
<1>3. AcceptedGone'
  BY <1>1 DEF Order, AcceptedGone, Onward, Runs
<1>4. WasAccepted'
  BY DEF Order, WasAccepted, Onward
<1>5. QueuedQueued'
  BY DEF Order, QueuedQueued, Onward
<1>6. InOrder'
  <2>1. \A i \in 1..Len(accepted) : pc'[accepted[i]] \in Runs => pc[accepted[i]] \in Runs
    BY <1>1 DEF Order, AcceptedGone, Onward, Runs, Begun, GapPCs
  <2>2. \A i \in 1..Len(accepted) :
           pc[accepted[i]] \in Begun \cup {"dropped"} => pc'[accepted[i]] \in Begun \cup {"dropped"}
    BY <1>1 DEF Onward, Begun
  <2> QED
    BY <2>1, <2>2 DEF Order, InOrder
<1> QED
  BY <1>2, <1>3, <1>4, <1>5, <1>6 DEF Order

\* ... one that pops the queue's head while nothing else is on its way ...
LEMMA OrderPopped ==
    ASSUME TypeTurns, TypeHist, QueueOwned, Order, queue # << >>,
           \A q \in Prompts : pc[q] \notin GapPCs,
           queue' = Tail(queue), accepted' = accepted,
           pc'[Head(queue)] \in {"popped", "reserved"},
           \A q \in Prompts : q # Head(queue) => Onward(pc[q], pc'[q])
    PROVE  Order'
<1> DEFINE h == Head(queue)
<1>0. h \in Prompts /\ pc[h] = "queued" /\ h = queue[1]
  BY HeadQueued DEF QueueOwned
<1>1. \A i \in 1..Len(accepted) : accepted[i] \in Prompts
  BY DEF TypeHist
<1>t. /\ Len(queue) \in Nat \ {0} /\ Len(queue') = Len(queue) - 1
      /\ \A k \in 1..Len(queue') : queue'[k] = queue[k + 1]
  BY DEF TypeTurns
<1>a. AcceptedOnce'
  BY DEF Order, AcceptedOnce
<1>b. QueueSorted'
  BY <1>t DEF Order, QueueSorted
<1>c. AcceptedGone'
  BY <1>1 DEF Order, AcceptedGone, Onward, Runs, GapPCs
<1>d. WasAccepted'
  BY <1>0 DEF Order, WasAccepted, Onward
<1>e. QueuedQueued'
  <2>1. SUFFICES ASSUME NEW q \in Prompts, pc'[q] = "queued"
                 PROVE  \E k \in 1..Len(queue') : queue'[k] = q
    BY DEF QueuedQueued
  <2>2. q # h /\ pc[q] = "queued"
    BY <2>1 DEF Onward
  <2>3. PICK k \in 1..Len(queue) : queue[k] = q
    BY <2>2 DEF Order, QueuedQueued
  <2>4. k - 1 \in 1..Len(queue') /\ queue'[k - 1] = q
    BY <1>0, <1>t, <2>2, <2>3
  <2> QED
    BY <2>4
<1>f. InOrder'
  <2>1. SUFFICES ASSUME NEW i \in 1..Len(accepted), NEW j \in 1..Len(accepted),
                        i < j, pc'[accepted[j]] \in Runs
                 PROVE  pc'[accepted[i]] \in Begun \cup {"dropped"}
    BY DEF InOrder
  <2>2. pc[accepted[i]] \in Begun \cup {"dropped"}
    <3>1. CASE accepted[j] = h
      <4>1. pc[accepted[i]] # "queued"
        <5>1. SUFFICES ASSUME pc[accepted[i]] = "queued" PROVE FALSE
          OBVIOUS
        <5>2. PICK k \in 1..Len(queue) : queue[k] = accepted[i]
          BY <1>1, <5>1 DEF Order, QueuedQueued
        <5>3. k # 1
          BY <1>0, <2>1, <3>1, <5>2 DEF Order, AcceptedOnce, Once
        <5> QED
          BY <1>0, <1>t, <2>1, <3>1, <5>2, <5>3 DEF Order, QueueSorted
      <4> QED
        BY <1>1, <4>1 DEF Order, AcceptedGone, Runs
    <3>2. CASE accepted[j] # h
      <4>1. pc[accepted[j]] \in Runs
        BY <1>1, <2>1, <3>2 DEF Order, AcceptedGone, Onward, Runs, Begun, GapPCs
      <4> QED
        BY <2>1, <4>1 DEF Order, InOrder
    <3> QED
      BY <3>1, <3>2
  <2>3. accepted[i] # h
    BY <1>0, <2>2 DEF Begun
  <2> QED
    BY <1>1, <2>2, <2>3 DEF Onward
<1> QED
  BY <1>a, <1>b, <1>c, <1>d, <1>e, <1>f DEF Order

\* ... one that queues a prompt behind the others ...
LEMMA OrderPushed ==
    ASSUME TypeTurns, TypeTasks, TypeHist, QueueOwned, Order, NEW c \in Prompts, pc[c] = "queue",
           queue' = Append(queue, c), accepted' = Append(accepted, c),
           pc' = [pc EXCEPT ![c] = "queued"]
    PROVE  Order'
<1>1. /\ Len(accepted) \in Nat /\ Len(accepted') = Len(accepted) + 1
      /\ \A i \in 1..Len(accepted) : accepted[i] \in Prompts /\ accepted'[i] = accepted[i]
      /\ accepted'[Len(accepted) + 1] = c
  BY DEF TypeHist
<1>2. /\ Len(queue) \in Nat /\ Len(queue') = Len(queue) + 1
      /\ \A k \in 1..Len(queue) : queue[k] \in Prompts /\ queue'[k] = queue[k]
      /\ queue'[Len(queue) + 1] = c
  BY DEF TypeTurns
<1>3. /\ pc'[c] = "queued"
      /\ \A q \in Prompts : q # c => pc'[q] = pc[q]
  BY DEF TypeTasks
<1>4. \A i \in 1..Len(accepted) : accepted[i] # c
  BY DEF Order, AcceptedGone, Runs, Begun, GapPCs
<1>5. \A k \in 1..Len(queue) : queue[k] # c
  BY DEF QueueOwned
<1>a. AcceptedOnce'
  BY <1>1, <1>4 DEF Order, AcceptedOnce, Once
<1>b. QueueSorted'
  <2>q. SUFFICES \A i, j \in 1..Len(accepted'), k, l \in 1..Len(queue') :
                   accepted'[i] = queue'[k] /\ accepted'[j] = queue'[l] /\ k < l => i < j
    BY DEF QueueSorted
  <2> TAKE i, j \in 1..Len(accepted'), k, l \in 1..Len(queue')
  <2>1. HAVE accepted'[i] = queue'[k] /\ accepted'[j] = queue'[l] /\ k < l
  <2>2. k \in 1..Len(queue) /\ i \in 1..Len(accepted) /\ accepted[i] = queue[k]
    BY <1>1, <1>2, <1>5, <2>1
  <2>3. CASE l = Len(queue) + 1
    BY <1>1, <1>2, <1>4, <2>1, <2>2, <2>3
  <2>4. CASE l \in 1..Len(queue)
    <3>1. j \in 1..Len(accepted) /\ accepted[j] = queue[l]
      BY <1>1, <1>2, <1>5, <2>1, <2>4
    <3> QED
      BY <2>1, <2>2, <2>4, <3>1 DEF Order, QueueSorted
  <2> QED
    BY <1>2, <2>3, <2>4
<1>c. AcceptedGone'
  BY <1>1, <1>3 DEF Order, AcceptedGone
<1>d. WasAccepted'
  <2>1. SUFFICES ASSUME NEW q \in Prompts, pc'[q] \in {"queued", "popped", "chained"}
                 PROVE  \E i \in 1..Len(accepted') : accepted'[i] = q
    BY DEF WasAccepted
  <2>2. CASE q = c
    BY <1>1, <2>2
  <2>3. CASE q # c
    <3>1. PICK i \in 1..Len(accepted) : accepted[i] = q
      BY <1>3, <2>1, <2>3 DEF Order, WasAccepted
    <3> QED
      BY <1>1, <3>1
  <2> QED
    BY <2>2, <2>3
<1>e. QueuedQueued'
  <2>1. SUFFICES ASSUME NEW q \in Prompts, pc'[q] = "queued"
                 PROVE  \E k \in 1..Len(queue') : queue'[k] = q
    BY DEF QueuedQueued
  <2>2. CASE q = c
    BY <1>2, <2>2
  <2>3. CASE q # c
    <3>1. PICK k \in 1..Len(queue) : queue[k] = q
      BY <1>3, <2>1, <2>3 DEF Order, QueuedQueued
    <3> QED
      BY <1>2, <3>1
  <2> QED
    BY <2>2, <2>3
<1>f. InOrder'
  <2>1. SUFFICES ASSUME NEW i \in 1..Len(accepted'), NEW j \in 1..Len(accepted'),
                        i < j, pc'[accepted'[j]] \in Runs
                 PROVE  pc'[accepted'[i]] \in Begun \cup {"dropped"}
    BY DEF InOrder
  <2>2. accepted'[j] # c
    BY <1>3, <2>1 DEF Runs, Begun, GapPCs
  <2>a. j # Len(accepted) + 1
    BY <1>1, <2>2
  <2>3. i \in 1..Len(accepted) /\ j \in 1..Len(accepted)
    <3> DEFINE n == Len(accepted)
    <3>1. i \in Nat /\ j \in Nat /\ n \in Nat /\ j <= n + 1 /\ i >= 1 /\ i < j /\ j # n + 1
      BY <1>1, <2>1, <2>a
    <3> HIDE DEF n
    <3>2. i \in 1..n /\ j \in 1..n
      BY <3>1
    <3> QED
      BY <3>2 DEF n
  <2>4. pc[accepted[j]] \in Runs
    BY <1>1, <1>3, <1>4, <2>1, <2>3
  <2>5. pc[accepted[i]] \in Begun \cup {"dropped"}
    BY <2>1, <2>3, <2>4 DEF Order, InOrder
  <2> QED
    BY <1>1, <1>3, <1>4, <2>3, <2>5
<1> QED
  BY <1>a, <1>b, <1>c, <1>d, <1>e, <1>f DEF Order

\* ... and one that puts a popped prompt back in front.
LEMMA OrderReparked ==
    ASSUME TypeTurns, TypeTasks, TypeHist, QueueOwned, Order, NEW q \in Prompts, pc[q] = "chained",
           queue' = <<q>> \o queue, accepted' = accepted, pc' = [pc EXCEPT ![q] = "queued"]
    PROVE  Order'
<1>1. \A i \in 1..Len(accepted) : accepted[i] \in Prompts
  BY DEF TypeHist
<1>2. /\ Len(queue) \in Nat /\ Len(queue') = Len(queue) + 1 /\ queue'[1] = q
      /\ \A k \in 1..Len(queue') : k # 1 => queue'[k] = queue[k - 1]
  BY DEF TypeTurns
<1>3. pc'[q] = "queued" /\ \A p \in Prompts : p # q => pc'[p] = pc[p]
  BY DEF TypeTasks
<1>a. AcceptedOnce'
  BY DEF Order, AcceptedOnce
<1>b. QueueSorted'
  <2>q. SUFFICES \A i, j \in 1..Len(accepted'), k, l \in 1..Len(queue') :
                   accepted'[i] = queue'[k] /\ accepted'[j] = queue'[l] /\ k < l => i < j
    BY DEF QueueSorted
  <2> TAKE i, j \in 1..Len(accepted'), k, l \in 1..Len(queue')
  <2>0. HAVE accepted'[i] = queue'[k] /\ accepted'[j] = queue'[l] /\ k < l
  <2>1. /\ i \in 1..Len(accepted) /\ j \in 1..Len(accepted) /\ Len(accepted) \in Nat
        /\ accepted[i] = queue'[k] /\ accepted[j] = queue'[l] /\ k < l
    BY <2>0 DEF TypeHist
  <2>2. l - 1 \in 1..Len(queue) /\ accepted[j] = queue[l - 1]
    BY <1>2, <2>1
  <2>3. CASE k = 1
    <3>1. accepted[i] = q /\ pc[accepted[j]] = "queued"
      BY <1>2, <2>1, <2>2, <2>3 DEF QueueOwned
    <3>2. ~(j < i)
      BY <2>1, <3>1 DEF Order, InOrder, Runs, GapPCs, Begun
    <3> QED
      BY <2>1, <3>1, <3>2
  <2>4. CASE k # 1
    <3>1. k - 1 \in 1..Len(queue) /\ accepted[i] = queue[k - 1]
      BY <1>2, <2>1, <2>4
    <3>2. k - 1 < l - 1
      BY <1>2, <2>1
    <3>3. \A m, n \in 1..Len(queue) :
             accepted[i] = queue[m] /\ accepted[j] = queue[n] /\ m < n => i < j
      BY <2>1 DEF Order, QueueSorted
    <3> QED
      BY <2>2, <3>1, <3>2, <3>3
  <2> QED
    BY <2>3, <2>4
<1>c. AcceptedGone'
  BY <1>1, <1>3 DEF Order, AcceptedGone
<1>d. WasAccepted'
  BY <1>3 DEF Order, WasAccepted
<1>e. QueuedQueued'
  <2>1. SUFFICES ASSUME NEW p \in Prompts, pc'[p] = "queued"
                 PROVE  \E k \in 1..Len(queue') : queue'[k] = p
    BY DEF QueuedQueued
  <2>2. CASE p = q
    BY <1>2, <2>2
  <2>3. CASE p # q
    <3>1. PICK k \in 1..Len(queue) : queue[k] = p
      BY <1>3, <2>1, <2>3 DEF Order, QueuedQueued
    <3>2. k + 1 \in 1..Len(queue') /\ queue'[k + 1] = p
      BY <1>2, <3>1
    <3> QED
      BY <3>2
  <2> QED
    BY <2>2, <2>3
<1>f. InOrder'
  <2>1. \A i \in 1..Len(accepted) : pc'[accepted[i]] \in Runs => pc[accepted[i]] \in Runs
    BY <1>1, <1>3 DEF Runs, Begun, GapPCs
  <2>2. \A i \in 1..Len(accepted) :
           pc[accepted[i]] \in Begun \cup {"dropped"} => pc'[accepted[i]] \in Begun \cup {"dropped"}
    BY <1>1, <1>3 DEF Begun
  <2> QED
    BY <2>1, <2>2 DEF Order, InOrder
<1> QED
  BY <1>a, <1>b, <1>c, <1>d, <1>e, <1>f DEF Order

\* Every step keeps the queue in the order of acceptance.
LEMMA OrderStep ==
    ASSUME TypeOK, Ownership, Slot, AloneGap, NoLostPrompt', Order, [Next]_vars
    PROVE  Order'
<1> USE DEF turnVars, steerVars, rtVars, taskVars, soloVars, permVars, agentVars, histVars
<1>a. /\ TypeTurns /\ TypeTasks /\ TypeAgent /\ TypeRuntime /\ TypeSolo /\ TypeHist
      /\ WireOwned /\ OutOwned /\ QueueOwned
  BY DEF TypeOK, Ownership
<1>b. \A q \in Range(queue) : pc[q] = "queued"
  BY <1>a, RangeQueued
<1>s. SteersAbsent /\ EndShape /\ Alone /\ Blocks
  BY DEF Slot
<1>d. \A q \in Prompts : pc[q] # "kicked" /\ pc[q] \notin SteerPCs
  BY <1>s DEF SteersAbsent
<1>e. steerPending = << >>
  BY <1>s DEF SteersAbsent
<1>f. None \notin Prompts /\ Policies \subseteq {"try", "queued", "steer"}
  BY PromptsAssumption, PoliciesAssumption
<1>g. \A q \in Prompts : pc[q] = "queued" => q \in Range(queue)
  BY DEF Order, QueuedQueued, Range
<1>h. \A q \in Prompts : pc'[q] # "lost"
  BY DEF NoLostPrompt
<1>1. ASSUME NEW r \in Perms,
             AskPermission(r) \/ QueueForPermit(r) \/ Permit(r) \/ PermitAnswered(r)
      PROVE  Order'
  <2>1. UNCHANGED <<queue, pc, accepted>>
    BY <1>1 DEF AskPermission, QueueForPermit, Permit, Unblocked, PermitAnswered
  <2> QED
    BY <2>1, <1>a DEF Order, AcceptedOnce, AcceptedGone, WasAccepted, QueuedQueued,
       QueueSorted, InOrder
<1>2. CASE RecordPark \/ ParkedDue \/ PassOver \/ ClearStale \/ UnscheduleResume \/
   SessionUpdate \/ CancelSend \/ GateRises \/ GateExpires \/ AgentDies \/ CloseSession
   \/ Supersede
  <2>1. UNCHANGED <<queue, pc, accepted>>
    BY <1>2 DEF RecordPark, ParkedDue, PassOver, ClearStale, UnscheduleResume,
       SessionUpdate, CancelSend, GateRises, GateExpires, AgentDies, CloseSession,
       Supersede
  <2> QED
    BY <2>1, <1>a DEF Order, AcceptedOnce, AcceptedGone, WasAccepted, QueuedQueued,
       QueueSorted, InOrder
<1>3. CASE WatchScan \/ HandoffOne \/ HandoffReported \/ UNCHANGED vars
  <2>1. UNCHANGED <<queue, pc, accepted>>
    BY <1>3 DEF WatchScan, HandoffOne, HandoffReported, vars
  <2> QED
    BY <2>1, <1>a DEF Order, AcceptedOnce, AcceptedGone, WasAccepted, QueuedQueued,
       QueueSorted, InOrder
<1>4. ASSUME NEW p \in Prompts, Send(p) PROVE Order'
  <2>1. \A q \in Prompts : Onward(pc[q], pc'[q])
    BY <1>4, <1>a, <1>b, <1>d, <1>f, <1>h DEF Send, Onward, Runs, Begun, GapPCs,
       TypeTasks
  <2>2. UNCHANGED <<queue, accepted>>
    BY <1>4, <1>d DEF Send
  <2> QED
    BY <1>a, <2>1, <2>2, OrderKept
<1>5. ASSUME NEW p \in Prompts, SendQueued(p) PROVE Order'
  <2>1. CASE UNCHANGED <<queue, accepted>>
    <3>1. \A q \in Prompts : Onward(pc[q], pc'[q])
      BY <1>5, <1>a, <2>1 DEF SendQueued, Onward, Runs, Begun, GapPCs, TypeTasks, TypeHist
    <3> QED
      BY <1>a, <2>1, <3>1, OrderKept
  <2>2. CASE ~UNCHANGED <<queue, accepted>>
    <3>1. /\ pc[p] = "queue" /\ queue' = Append(queue, p) /\ accepted' = Append(accepted, p)
          /\ pc' = [pc EXCEPT ![p] = "queued"]
      BY <1>5, <2>2 DEF SendQueued
    <3> QED
      BY <1>a, <3>1, OrderPushed
  <2> QED
    BY <2>1, <2>2
<1>6. ASSUME NEW p \in Prompts, SteerSend(p) PROVE Order'
  <2>1. \A q \in Prompts : Onward(pc[q], pc'[q])
    BY <1>6, <1>a, <1>b, <1>d, <1>f, <1>h DEF SteerSend, Onward, Runs, Begun, GapPCs,
       TypeTasks, SteerPCs
  <2>2. UNCHANGED <<queue, accepted>>
    BY <1>6, <1>d DEF SteerSend, SteerPCs
  <2> QED
    BY <1>a, <2>1, <2>2, OrderKept
<1>7. ASSUME NEW p \in Prompts, BeginChecked(p) PROVE Order'
  <2>1. \A q \in Prompts : Onward(pc[q], pc'[q])
    BY <1>7, <1>a, <1>b, <1>d, <1>f, <1>h DEF BeginChecked, StampTurn, Onward, Runs,
       Begun, GapPCs, TypeTasks
  <2>2. UNCHANGED <<queue, accepted>>
    BY <1>7, <1>d DEF BeginChecked, StampTurn
  <2> QED
    BY <1>a, <2>1, <2>2, OrderKept
<1>8. ASSUME NEW p \in Prompts, LogPrompt(p) PROVE Order'
  <2>1. \A q \in Prompts : Onward(pc[q], pc'[q])
    BY <1>8, <1>a, <1>b, <1>d, <1>f, <1>h DEF LogPrompt, Onward, Runs, Begun, GapPCs,
       TypeTasks
  <2>2. UNCHANGED <<queue, accepted>>
    BY <1>8, <1>d DEF LogPrompt
  <2> QED
    BY <1>a, <2>1, <2>2, OrderKept
<1>9. ASSUME NEW p \in Prompts, LogFails(p) PROVE Order'
  <2>1. \A q \in Prompts : Onward(pc[q], pc'[q])
    BY <1>9, <1>a, <1>b, <1>d, <1>f, <1>h DEF LogFails, Onward, Runs, Begun, GapPCs,
       TypeTasks
  <2>2. UNCHANGED <<queue, accepted>>
    BY <1>9, <1>d DEF LogFails
  <2> QED
    BY <1>a, <2>1, <2>2, OrderKept
<1>10. ASSUME NEW p \in Prompts, SendPrompt(p) PROVE Order'
  <2>1. \A q \in Prompts : Onward(pc[q], pc'[q])
    BY <1>10, <1>a, <1>b, <1>d, <1>f, <1>h DEF SendPrompt, Onward, Runs, Begun, GapPCs,
       TypeTasks
  <2>2. UNCHANGED <<queue, accepted>>
    BY <1>10, <1>d DEF SendPrompt
  <2> QED
    BY <1>a, <2>1, <2>2, OrderKept
<1>11. ASSUME NEW p \in Prompts, SteerPush(p) PROVE Order'
  <2>1. \A q \in Prompts : Onward(pc[q], pc'[q])
    BY <1>11, <1>a, <1>b, <1>d, <1>f, <1>h DEF SteerPush, Onward, Runs, Begun, GapPCs,
       TypeTasks, SteerPCs
  <2>2. UNCHANGED <<queue, accepted>>
    BY <1>11, <1>d DEF SteerPush, SteerPCs
  <2> QED
    BY <1>a, <2>1, <2>2, OrderKept
<1>12. ASSUME NEW p \in Prompts, SteerEnqueue(p) PROVE Order'
  <2>1. \A q \in Prompts : Onward(pc[q], pc'[q])
    BY <1>12, <1>a, <1>b, <1>d, <1>f, <1>h DEF SteerEnqueue, Onward, Runs, Begun, GapPCs,
       TypeTasks, SteerPCs
  <2>2. UNCHANGED <<queue, accepted>>
    BY <1>12, <1>d DEF SteerEnqueue, SteerPCs
  <2> QED
    BY <1>a, <2>1, <2>2, OrderKept
<1>13. ASSUME NEW p \in Prompts, SteerNoteLimit(p) PROVE Order'
  <2>1. \A q \in Prompts : Onward(pc[q], pc'[q])
    BY <1>13, <1>a, <1>b, <1>d, <1>f, <1>h DEF SteerNoteLimit, Onward, Runs, Begun,
       GapPCs, TypeTasks, SteerPCs
  <2>2. UNCHANGED <<queue, accepted>>
    BY <1>13, <1>d DEF SteerNoteLimit, SteerPCs
  <2> QED
    BY <1>a, <2>1, <2>2, OrderKept
<1>14. ASSUME NEW p \in Prompts, SteerResolved(p) PROVE Order'
  <2>1. \A q \in Prompts : Onward(pc[q], pc'[q])
    BY <1>14, <1>a, <1>b, <1>d, <1>f, <1>h DEF SteerResolved, Onward, Runs, Begun,
       GapPCs, TypeTasks, SteerPCs
  <2>2. UNCHANGED <<queue, accepted>>
    BY <1>14, <1>d DEF SteerResolved, SteerPCs
  <2> QED
    BY <1>a, <2>1, <2>2, OrderKept
<1>15. ASSUME NEW p \in Prompts, KickWire(p) PROVE Order'
  <2>1. \A q \in Prompts : Onward(pc[q], pc'[q])
    BY <1>15, <1>a, <1>b, <1>d, <1>f, <1>h DEF KickWire, Onward, Runs, Begun, GapPCs,
       TypeTasks
  <2>2. UNCHANGED <<queue, accepted>>
    BY <1>15, <1>d DEF KickWire
  <2> QED
    BY <1>a, <2>1, <2>2, OrderKept
<1>16. ASSUME NEW p \in Prompts, SettleTurn(p) PROVE Order'
  <2>1. pc[p] = "ended" /\ accepted' = accepted
    BY <1>16 DEF SettleTurn, FinishBegins, UnchangedByFinish
  <2>2. CASE queue' = queue /\ pc' = [pc EXCEPT ![p] = "recording"]
    <3>1. \A q \in Prompts : Onward(pc[q], pc'[q])
      BY <1>a, <2>1, <2>2 DEF Onward, Runs, Begun, GapPCs, TypeTasks
    <3> QED
      BY <1>a, <2>1, <2>2, <3>1, OrderKept
  <2>3. CASE queue' = << >> /\ pc' = DropQueue([pc EXCEPT ![p] = "recording"])
    <3>1. \A q \in Prompts : IF pc[q] = "queued" THEN pc'[q] = "dropped"
                                                 ELSE Onward(pc[q], pc'[q])
      BY <1>a, <1>b, <1>g, <2>1, <2>3 DEF DropQueue, Onward, Runs, Begun, GapPCs, TypeTasks
    <3> QED
      BY <1>a, <2>1, <2>3, <3>1, OrderDropped
  <2>4. CASE /\ queue # << >> /\ queue' = Tail(queue)
             /\ pc' = [pc EXCEPT ![p] = "recording", ![Head(queue)] = "popped"]
    <3>1. Head(queue) \in Prompts /\ pc[Head(queue)] = "queued"
      BY <1>a, <2>4, HeadQueued
    <3>2. \A q \in Prompts : pc[q] \notin GapPCs
      BY <2>1 DEF AloneGap, Busy, TurnPCs, GapPCs
    <3>3. pc'[Head(queue)] = "popped"
      BY <1>a, <2>4, <3>1 DEF TypeTasks
    <3>4. \A q \in Prompts : q # Head(queue) => Onward(pc[q], pc'[q])
      BY <1>a, <2>1, <2>4, <3>1 DEF Onward, Runs, Begun, GapPCs, TypeTasks
    <3> QED
      BY <1>a, <2>1, <2>4, <3>2, <3>3, <3>4, OrderPopped
  <2> QED
    BY <1>16, <2>2, <2>3, <2>4 DEF SettleTurn, ChainReady
<1>17. ASSUME NEW p \in Prompts, FailTurn(p) PROVE Order'
  <2>1. queue' = << >> /\ accepted' = accepted
    BY <1>17 DEF FailTurn, CloseCurrent, FinishBegins, UnchangedByFinish, DropQueue
  <2>2. \A q \in Prompts : IF pc[q] = "queued" THEN pc'[q] = "dropped"
                                               ELSE Onward(pc[q], pc'[q])
    BY <1>17, <1>a, <1>b, <1>g DEF FailTurn, CloseCurrent, FinishBegins,
       UnchangedByFinish, DropQueue, Onward, Runs, Begun, GapPCs, TypeTasks
  <2> QED
    BY <1>a, <2>1, <2>2, OrderDropped
<1>18. ASSUME NEW p \in Prompts, ParkTurn(p) PROVE Order'
  <2>1. \A q \in Prompts : Onward(pc[q], pc'[q])
    BY <1>18, <1>a, <1>b, <1>d, <1>f, <1>h DEF ParkTurn, CloseCurrent, FinishBegins,
       UnchangedByFinish, Onward, Runs, Begun, GapPCs, TypeTasks
  <2>2. UNCHANGED <<queue, accepted>>
    BY <1>18, <1>d DEF ParkTurn, CloseCurrent, FinishBegins, UnchangedByFinish
  <2> QED
    BY <1>a, <2>1, <2>2, OrderKept
<1>19. ASSUME NEW p \in Prompts, RecordTurnEnd(p) PROVE Order'
  <2>1. \A q \in Prompts : Onward(pc[q], pc'[q])
    BY <1>19, <1>a, <1>b, <1>d, <1>f, <1>h DEF RecordTurnEnd, Onward, Runs, Begun,
       GapPCs, TypeTasks
  <2>2. UNCHANGED <<queue, accepted>>
    BY <1>19, <1>d DEF RecordTurnEnd
  <2> QED
    BY <1>a, <2>1, <2>2, OrderKept
<1>20. ASSUME NEW p \in Prompts, ClearRecording(p) PROVE Order'
  <2>1. \A q \in Prompts : Onward(pc[q], pc'[q])
    BY <1>20, <1>a, <1>b, <1>d, <1>f, <1>h DEF ClearRecording, Onward, Runs, Begun,
       GapPCs, TypeTasks
  <2>2. UNCHANGED <<queue, accepted>>
    BY <1>20, <1>d DEF ClearRecording
  <2> QED
    BY <1>a, <2>1, <2>2, OrderKept
<1>21. ASSUME NEW p \in Prompts, NoteLimit(p) PROVE Order'
  <2>1. \A q \in Prompts : Onward(pc[q], pc'[q])
    BY <1>21, <1>a, <1>b, <1>d, <1>f, <1>h DEF NoteLimit, Onward, Runs, Begun, GapPCs,
       TypeTasks
  <2>2. UNCHANGED <<queue, accepted>>
    BY <1>21, <1>d DEF NoteLimit
  <2> QED
    BY <1>a, <2>1, <2>2, OrderKept
<1>22. ASSUME NEW p \in Prompts, SpawnChained(p) PROVE Order'
  <2>1. \A q \in Prompts : Onward(pc[q], pc'[q])
    BY <1>22, <1>a, <1>b, <1>d, <1>f, <1>h DEF SpawnChained, StampTurn, Unstarted,
       Onward, Runs, Begun, GapPCs, TypeTasks
  <2>2. UNCHANGED <<queue, accepted>>
    BY <1>22, <1>d DEF SpawnChained, StampTurn, Unstarted
  <2> QED
    BY <1>a, <2>1, <2>2, OrderKept
<1>23. ASSUME NEW p \in Prompts, Repark(p) PROVE Order'
  <2>1. /\ pc[p] = "chained" /\ queue' = <<p>> \o queue /\ accepted' = accepted
        /\ pc' = [pc EXCEPT ![p] = "queued"]
    BY <1>23 DEF Repark, Requeued
  <2> QED
    BY <1>a, <2>1, OrderReparked
<1>24. ASSUME NEW p \in Prompts, ReserveResume(p) PROVE Order'
  <2>1. /\ status = "rate_limited" /\ ~superseded /\ closing = "none"
        /\ pc' = [pc EXCEPT ![p] = "reserved"] /\ accepted' = accepted
    BY <1>24 DEF ReserveResume
  <2>2. CASE queue' = queue /\ pc[p] = "new"
    <3>1. \A q \in Prompts : Onward(pc[q], pc'[q])
      BY <1>a, <2>1, <2>2 DEF Onward, Runs, Begun, GapPCs, TypeTasks
    <3> QED
      BY <1>a, <2>1, <2>2, <3>1, OrderKept
  <2>3. CASE queue # << >> /\ p = Head(queue) /\ queue' = Tail(queue)
    <3>1. \A q \in Prompts : pc[q] \notin GapPCs
      BY <1>s, <2>1 DEF Blocks, Guarded, Busy
    <3>2. pc'[Head(queue)] = "reserved"
      BY <1>a, <2>1, <2>3 DEF TypeTasks
    <3>3. \A q \in Prompts : q # Head(queue) => Onward(pc[q], pc'[q])
      BY <1>a, <2>1, <2>3 DEF Onward, Runs, TypeTasks
    <3> QED
      BY <1>a, <2>1, <2>3, <3>1, <3>2, <3>3, OrderPopped
  <2> QED
    BY <1>24, <2>2, <2>3 DEF ReserveResume
<1>25. ASSUME NEW p \in Prompts, ClearParked(p) PROVE Order'
  <2>1. \A q \in Prompts : Onward(pc[q], pc'[q])
    BY <1>25, <1>a, <1>b, <1>d, <1>f, <1>h DEF ClearParked, Onward, Runs, Begun, GapPCs,
       TypeTasks
  <2>2. UNCHANGED <<queue, accepted>>
    BY <1>25, <1>d DEF ClearParked
  <2> QED
    BY <1>a, <2>1, <2>2, OrderKept
<1>26. ASSUME NEW p \in Prompts, ResumeBegin(p) PROVE Order'
  <2>1. \A q \in Prompts : Onward(pc[q], pc'[q])
    BY <1>26, <1>a, <1>b, <1>d, <1>f, <1>h DEF ResumeBegin, StampTurn, Unstarted, Onward,
       Runs, Begun, GapPCs, TypeTasks
  <2>2. UNCHANGED <<queue, accepted>>
    BY <1>26, <1>d DEF ResumeBegin, StampTurn, Unstarted
  <2> QED
    BY <1>a, <2>1, <2>2, OrderKept
<1>27. ASSUME NEW p \in Prompts, Answer(p) PROVE Order'
  <2>1. \A q \in Prompts : Onward(pc[q], pc'[q])
    BY <1>27, <1>a, <1>b, <1>d, <1>f, <1>h DEF Answer, Onward, Runs, Begun, GapPCs,
       TypeTasks, OutOwned
  <2>2. UNCHANGED <<queue, accepted>>
    BY <1>27, <1>d DEF Answer, OutOwned
  <2> QED
    BY <1>a, <2>1, <2>2, OrderKept
<1>28. CASE Teardown
  <2>1. queue' = << >> /\ accepted' = accepted
    BY <1>28 DEF Teardown, CloseSub, DropQueue, AnswerPending
  <2>2. \A q \in Prompts : IF pc[q] = "queued" THEN pc'[q] = "dropped"
                                               ELSE Onward(pc[q], pc'[q])
    BY <1>28, <1>a, <1>b, <1>g DEF Teardown, CloseSub, DropQueue, AnswerPending, Onward,
       Runs, Begun, GapPCs, TypeTasks
  <2> QED
    BY <1>a, <2>1, <2>2, OrderDropped
<1>29. CASE HandedClose
  <2>1. queue' = << >> /\ accepted' = accepted
    BY <1>29 DEF HandedClose, CloseSub, DropQueue, AnswerPending
  <2>2. \A q \in Prompts : IF pc[q] = "queued" THEN pc'[q] = "dropped"
                                               ELSE Onward(pc[q], pc'[q])
    BY <1>29, <1>a, <1>b, <1>g DEF HandedClose, CloseSub, DropQueue, AnswerPending,
       Onward, Runs, Begun, GapPCs, TypeTasks
  <2> QED
    BY <1>a, <2>1, <2>2, OrderDropped
<1>30. CASE OnDisconnect
  <2>1. CASE UNCHANGED <<pc, queue>>
    <3>1. \A q \in Prompts : Onward(pc[q], pc'[q])
      BY <2>1 DEF Onward, Runs
    <3>2. accepted' = accepted
      BY <1>30 DEF OnDisconnect
    <3> QED
      BY <1>a, <2>1, <3>1, <3>2, OrderKept
  <2>2. CASE queue' = << >> /\ pc' = DropQueue(pc)
    <3>1. accepted' = accepted
      BY <1>30 DEF OnDisconnect
    <3>2. \A q \in Prompts : IF pc[q] = "queued" THEN pc'[q] = "dropped"
                                                 ELSE Onward(pc[q], pc'[q])
      BY <1>a, <1>b, <1>g, <2>2 DEF DropQueue, Onward, Runs, TypeTasks
    <3> QED
      BY <1>a, <2>2, <3>1, <3>2, OrderDropped
  <2> QED
    BY <1>30, <2>1, <2>2 DEF OnDisconnect
<1>31. CASE CancelTurn
  <2>1. queue' = << >> /\ accepted' = accepted
    BY <1>31 DEF CancelTurn, DropQueue, AnswerPending
  <2>2. \A q \in Prompts : IF pc[q] = "queued" THEN pc'[q] = "dropped"
                                               ELSE Onward(pc[q], pc'[q])
    BY <1>31, <1>a, <1>b, <1>g DEF CancelTurn, DropQueue, AnswerPending, Onward, Runs,
       Begun, GapPCs, TypeTasks
  <2> QED
    BY <1>a, <2>1, <2>2, OrderDropped
<1> QED
  BY <1>1, <1>2, <1>3, <1>4, <1>5, <1>6, <1>7, <1>8, <1>9, <1>10, <1>11, <1>12, <1>13,
     <1>14, <1>15, <1>16, <1>17, <1>18, <1>19, <1>20, <1>21, <1>22, <1>23, <1>24, <1>25,
     <1>26, <1>27, <1>28, <1>29, <1>30, <1>31 DEF Next, WireFree, WireTaking, Scheduler,
     Teardowns, Prompts

\* In a session nobody steers and that raises no permission request, queued
\* prompts start in the order `send` accepted them: pops, re-parks in front of
\* the queue and resumes from it never overtake.
THEOREM QueueOrderHolds ==
    ASSUME "steer" \notin Policies, Perms = {} PROVE Spec => []QueueOrder
<1>1. Init => Order
  BY DEF Init, Order, AcceptedOnce, AcceptedGone, WasAccepted, QueuedQueued, QueueSorted,
     InOrder, Once
<1>2. IndInv /\ Handoff /\ Handoff' /\ Order /\ [Next]_vars => Order'
  BY OrderStep DEF IndInv, Handoff
<1>3. Order => QueueOrder
  BY DEF Order, InOrder, QueueOrder, Runs
<1> QED
  BY <1>1, <1>2, <1>3, Inductive, HandoffInvariant, PTL DEF Spec

-----------------------------------------------------------------------------
(* No prompt waits for nothing                                             *)

\* A session that takes prompts and is neither closing nor superseded has an
\* empty queue.
NoneWaits == ~superseded /\ AcceptsPrompt /\ closing = "none" => queue = << >>

\* No step makes a session with a queue promptable, or queues on one that is.
LEMMA NoneWaitsStep ==
    ASSUME "log" \notin Events, Perms = {}, TypeOK, Slot, GapReady, NoneWaits,
       [Next]_vars
    PROVE  NoneWaits'
<1> USE DEF turnVars, steerVars, rtVars, taskVars, soloVars, permVars, agentVars, histVars
<1>a. TypeTurns /\ TypeRuntime /\ TypeSolo
  BY DEF TypeOK
<1>s. SteersAbsent /\ EndShape
  BY DEF Slot
<1>d. \A q \in Prompts : pc[q] \notin SteerPCs
  BY <1>s DEF SteersAbsent
<1>e. steerPending = << >> /\ OldestSteer = None
  BY <1>s DEF SteersAbsent, OldestSteer, Oldest
<1>1. ASSUME NEW p \in Prompts,
             Send(p) \/ SteerSend(p) \/ LogPrompt(p) \/ SendPrompt(p) \/ SteerPush(p) \/
                SteerEnqueue(p) \/ SteerNoteLimit(p) \/ KickWire(p) \/ RecordTurnEnd(p)
                \/ ClearRecording(p) \/ NoteLimit(p) \/ ClearParked(p)
      PROVE  NoneWaits'
  <2>1. UNCHANGED <<status, queue, closing, superseded>>
    BY <1>1 DEF Send, SteerSend, LogPrompt, SendPrompt, SteerPush, SteerEnqueue,
       SteerNoteLimit, KickWire, RecordTurnEnd, ClearRecording, NoteLimit, ClearParked
  <2> QED
    BY <2>1, <1>a DEF NoneWaits, AcceptsPrompt
<1>2. ASSUME NEW p \in Prompts, Answer(p) PROVE NoneWaits'
  <2>1. UNCHANGED <<status, queue, closing, superseded>>
    BY <1>2 DEF Answer
  <2> QED
    BY <2>1, <1>a DEF NoneWaits, AcceptsPrompt
<1>3. ASSUME NEW r \in Perms, AskPermission(r) PROVE NoneWaits'
  <2>1. UNCHANGED <<status, queue, closing, superseded>>
    BY <1>3 DEF AskPermission
  <2> QED
    BY <2>1, <1>a DEF NoneWaits, AcceptsPrompt
<1>4. CASE RecordPark \/ ParkedDue \/ PassOver \/ ClearStale \/ UnscheduleResume \/
   CancelSend \/ GateRises \/ GateExpires \/ AgentDies \/ WatchScan \/ UNCHANGED vars
  <2>1. UNCHANGED <<status, queue, closing, superseded>>
    BY <1>4 DEF RecordPark, ParkedDue, PassOver, ClearStale, UnscheduleResume,
       CancelSend, GateRises, GateExpires, AgentDies, WatchScan, vars
  <2> QED
    BY <2>1, <1>a DEF NoneWaits, AcceptsPrompt
<1>5. ASSUME NEW p \in Prompts, SendQueued(p) PROVE NoneWaits'
  <2>1. UNCHANGED <<superseded, status, closing>>
    BY <1>5 DEF SendQueued
  <2>2. queue' = queue \/ ~(AcceptsPrompt /\ queue = << >>)
    BY <1>5, <1>e DEF SendQueued, SlotFree
  <2> QED
    BY <2>1, <2>2 DEF NoneWaits, AcceptsPrompt
<1>6. ASSUME NEW p \in Prompts, BeginChecked(p) PROVE NoneWaits'
  <2>1. ~superseded' /\ AcceptsPrompt' /\ closing' = "none"
          => \/ queue' = << >>
             \/ ~superseded /\ AcceptsPrompt /\ closing = "none" /\ queue' = queue
    BY <1>6, <1>a, <1>d DEF BeginChecked, StampTurn, AcceptsPrompt
  <2> QED
    BY <2>1 DEF NoneWaits
<1>7. ASSUME NEW p \in Prompts, LogFails(p) PROVE NoneWaits'
  BY <1>7 DEF LogFails
<1>8. ASSUME NEW p \in Prompts, SteerResolved(p) PROVE NoneWaits'
  <2>1. ~superseded' /\ AcceptsPrompt' /\ closing' = "none"
          => \/ queue' = << >>
             \/ ~superseded /\ AcceptsPrompt /\ closing = "none" /\ queue' = queue
    BY <1>8, <1>a, <1>d DEF SteerResolved, AcceptsPrompt, SteerPCs
  <2> QED
    BY <2>1 DEF NoneWaits
<1>9. ASSUME NEW p \in Prompts, SettleTurn(p) PROVE NoneWaits'
  <2>1. superseded' = superseded /\ closing' = closing
    BY <1>9 DEF SettleTurn, FinishBegins, UnchangedByFinish
  <2>2. CASE status' = "done" /\ ~ChainReady /\ queue' = queue
    BY <1>e, <2>1, <2>2 DEF NoneWaits, ChainReady
  <2>3. CASE status' = status /\ pc[p] = "ended"
    BY <2>1, <2>3 DEF Slot, Blocks, Guarded, NoneWaits, Busy, TurnPCs, AcceptsPrompt
  <2>4. CASE queue' = << >>
    BY <2>4 DEF NoneWaits
  <2> QED
    BY <1>9, <2>2, <2>3, <2>4 DEF SettleTurn, FinishBegins
<1>10. ASSUME NEW p \in Prompts, FailTurn(p) PROVE NoneWaits'
  <2>1. ~superseded' /\ AcceptsPrompt' /\ closing' = "none"
          => \/ queue' = << >>
             \/ ~superseded /\ AcceptsPrompt /\ closing = "none" /\ queue' = queue
    BY <1>10, <1>a, <1>d DEF FailTurn, CloseCurrent, FinishBegins, UnchangedByFinish,
       DropQueue, AcceptsPrompt
  <2> QED
    BY <2>1 DEF NoneWaits
<1>11. ASSUME NEW p \in Prompts, ParkTurn(p) PROVE NoneWaits'
  <2>1. ~superseded' /\ AcceptsPrompt' /\ closing' = "none"
          => \/ queue' = << >>
             \/ ~superseded /\ AcceptsPrompt /\ closing = "none" /\ queue' = queue
    BY <1>11, <1>a, <1>d DEF ParkTurn, CloseCurrent, FinishBegins, UnchangedByFinish,
       AcceptsPrompt
  <2> QED
    BY <2>1 DEF NoneWaits
<1>12. ASSUME NEW p \in Prompts, SpawnChained(p) PROVE NoneWaits'
  <2>1. ~superseded' /\ AcceptsPrompt' /\ closing' = "none"
          => \/ queue' = << >>
             \/ ~superseded /\ AcceptsPrompt /\ closing = "none" /\ queue' = queue
    BY <1>12, <1>a, <1>d DEF SpawnChained, StampTurn, Unstarted, AcceptsPrompt
  <2> QED
    BY <2>1 DEF NoneWaits
<1>13. ASSUME NEW p \in Prompts, Repark(p) PROVE NoneWaits'
  <2>1. ~superseded' /\ AcceptsPrompt' /\ closing' = "none"
          => \/ queue' = << >>
             \/ ~superseded /\ AcceptsPrompt /\ closing = "none" /\ queue' = queue
    BY <1>13, <1>a, <1>d DEF Repark, Requeued, AcceptsPrompt
  <2> QED
    BY <2>1 DEF NoneWaits
<1>14. ASSUME NEW p \in Prompts, ReserveResume(p) PROVE NoneWaits'
  <2>1. ~superseded' /\ AcceptsPrompt' /\ closing' = "none"
          => \/ queue' = << >>
             \/ ~superseded /\ AcceptsPrompt /\ closing = "none" /\ queue' = queue
    BY <1>14, <1>a, <1>d DEF ReserveResume, ReserveSlot, AcceptsPrompt
  <2> QED
    BY <2>1 DEF NoneWaits
<1>15. ASSUME NEW p \in Prompts, ResumeBegin(p) PROVE NoneWaits'
  <2>1. superseded' = superseded /\ closing' = closing /\ queue' = queue
    BY <1>15 DEF ResumeBegin
  <2>2. \/ status' = "running" \/ status' = status
    BY <1>15 DEF ResumeBegin, StampTurn, ChainedReady, GapReady, GapPCs, Ready, Closing
  <2> QED
    BY <2>1, <2>2 DEF NoneWaits, AcceptsPrompt
<1>16. ASSUME NEW r \in Perms, QueueForPermit(r) PROVE NoneWaits'
  BY <1>16
<1>17. ASSUME NEW r \in Perms, Permit(r) PROVE NoneWaits'
  BY <1>17
<1>18. ASSUME NEW r \in Perms, PermitAnswered(r) PROVE NoneWaits'
  BY <1>18
<1>19. CASE Teardown
  <2>1. ~superseded' /\ AcceptsPrompt' /\ closing' = "none"
          => \/ queue' = << >>
             \/ ~superseded /\ AcceptsPrompt /\ closing = "none" /\ queue' = queue
    BY <1>19, <1>a, <1>d DEF Teardown, CloseSub, DropQueue, AnswerPending, AcceptsPrompt
  <2> QED
    BY <2>1 DEF NoneWaits
<1>20. CASE HandedClose
  <2>1. ~superseded' /\ AcceptsPrompt' /\ closing' = "none"
          => \/ queue' = << >>
             \/ ~superseded /\ AcceptsPrompt /\ closing = "none" /\ queue' = queue
    BY <1>20, <1>a, <1>d DEF HandedClose, CloseSub, DropQueue, AnswerPending,
       AcceptsPrompt
  <2> QED
    BY <2>1 DEF NoneWaits
<1>21. CASE OnDisconnect
  <2>1. ~superseded' /\ AcceptsPrompt' /\ closing' = "none"
          => \/ queue' = << >>
             \/ ~superseded /\ AcceptsPrompt /\ closing = "none" /\ queue' = queue
    BY <1>21, <1>a, <1>d DEF OnDisconnect, DropQueue, AnswerPending, AcceptsPrompt
  <2> QED
    BY <2>1 DEF NoneWaits
<1>22. CASE SessionUpdate
  BY <1>22, <1>e DEF SessionUpdate
<1>23. CASE CancelTurn
  <2>1. ~superseded' /\ AcceptsPrompt' /\ closing' = "none"
          => \/ queue' = << >>
             \/ ~superseded /\ AcceptsPrompt /\ closing = "none" /\ queue' = queue
    BY <1>23, <1>a, <1>d DEF CancelTurn, DropQueue, AnswerPending, AcceptsPrompt
  <2> QED
    BY <2>1 DEF NoneWaits
<1>24. CASE CloseSession
  <2>1. ~superseded' /\ AcceptsPrompt' /\ closing' = "none"
          => \/ queue' = << >>
             \/ ~superseded /\ AcceptsPrompt /\ closing = "none" /\ queue' = queue
    BY <1>24, <1>a, <1>d DEF CloseSession, AcceptsPrompt
  <2> QED
    BY <2>1 DEF NoneWaits
<1>25. CASE Supersede
  <2>1. ~superseded' /\ AcceptsPrompt' /\ closing' = "none"
          => \/ queue' = << >>
             \/ ~superseded /\ AcceptsPrompt /\ closing = "none" /\ queue' = queue
    BY <1>25, <1>a, <1>d DEF Supersede, AcceptsPrompt
  <2> QED
    BY <2>1 DEF NoneWaits
<1>26. CASE HandoffOne
  <2>1. ~superseded' /\ AcceptsPrompt' /\ closing' = "none"
          => \/ queue' = << >>
             \/ ~superseded /\ AcceptsPrompt /\ closing = "none" /\ queue' = queue
    BY <1>26, <1>a, <1>d DEF HandoffOne, AcceptsPrompt
  <2> QED
    BY <2>1 DEF NoneWaits
<1>27. CASE HandoffReported
  <2>1. superseded'
    BY <1>27, <1>s DEF HandoffReported, EndShape, Claimed
  <2> QED
    BY <2>1 DEF NoneWaits
<1> QED
  BY <1>1, <1>2, <1>3, <1>4, <1>5, <1>6, <1>7, <1>8, <1>9, <1>10, <1>11, <1>12, <1>13,
     <1>14, <1>15, <1>16, <1>17, <1>18, <1>19, <1>20, <1>21, <1>22, <1>23, <1>24, <1>25,
     <1>26, <1>27 DEF Next, WireFree, WireTaking, Scheduler, Teardowns, Prompts

\* In a session nobody steers, that raises no permission request and whose
\* transcript writes succeed, no prompt is left waiting behind a session that
\* takes prompts again: whatever frees the slot empties the queue or starts it.
THEOREM NoStrandedQueueHolds ==
    ASSUME "steer" \notin Policies, Perms = {}, "log" \notin Events
    PROVE  Spec => []NoStrandedQueue
<1>1. Init => NoneWaits
  BY DEF Init, NoneWaits
<1>2. IndInv /\ Handoff /\ NoneWaits /\ [Next]_vars => NoneWaits'
  BY NoneWaitsStep DEF IndInv, Handoff
<1>3. NoneWaits => NoStrandedQueue
  BY DEF NoneWaits, NoStrandedQueue, CheckReady, SlotFree
<1> QED
  BY <1>1, <1>2, <1>3, Inductive, HandoffInvariant, PTL DEF Spec

-----------------------------------------------------------------------------
(* The resume schedule                                                     *)

\* A turn the agent works on is the current one, until the session ends.
TurnHasCurrent ==
    closing = "none" /\ status # "exited" =>
        \A p \in Prompts : pc[p] \in TurnPCs => current.p = p

Flagged == entry.parked # NoPark
Limited(p) == pc[p] = "recording" /\ outcome[p] = "limit"

\* The registry's flag is up for a parked session, and until a resume that
\* took the slot has cleared it.
FlagShown ==
    Flagged => status \in {"rate_limited", "exited"} \/ \E p \in Prompts : pc[p] = "reserved"
\* The scheduler takes up flagged sessions only, one resume at a time.
DueFlagged == sched # "stale" /\ (sched = "due" => Flagged)
ResumeOnce == \A p \in Prompts : pc[p] \in {"reserved", "resuming"} => sched = "idle"
\* Who has the slot has no flag over it, but for the resume about to clear it.
BusyUnflagged == \A p \in Prompts : pc[p] \in Busy \ {"reserved"} => ~Flagged
\* A park is on record or on its way there, and then nothing else goes on.
ParkTold ==
    status = "rate_limited" => Flagged \/ reparked # None \/ \E p \in Prompts : Limited(p)
Recorder ==
    reparked # None \/ (\E p \in Prompts : Limited(p)) =>
        /\ status \in {"rate_limited", "exited"} /\ ~Flagged
        /\ \A q \in Prompts : pc[q] \notin Busy
\* A settled turn's end is marked until it is recorded.
EndMarked == \A p \in Prompts : pc[p] = "recording" /\ recording = 0 => status = "exited"

OnSchedule == /\ FlagShown /\ DueFlagged /\ ResumeOnce /\ BusyUnflagged
              /\ ParkTold /\ Recorder /\ EndMarked
Scheduled == closing = "none" => OnSchedule

\* Without a handover only a close ends a session on purpose.
LEMMA NotHandedOver ==
    ASSUME "handover" \notin Events, EndShape
    PROVE  ~superseded /\ watcher = "off" /\ Guarded /\ (closing = "none" => live /\ closer = "open")
  BY DEF EndShape, Claimed, ClosingMarked, Guarded

\* A step that neither takes nor leaves the slot, settles nothing and leaves
\* the status, the flag and the scheduler alone keeps the schedule.
LEMMA ScheduleKept ==
    ASSUME Scheduled, closing' = closing, status' = status, entry'.parked = entry.parked,
           sched' = sched, reparked' = reparked, recording' = recording,
           \A q \in Prompts :
               /\ pc'[q] \in Busy \ {"reserved"} => pc[q] \in Busy \ {"reserved"}
               /\ pc'[q] = "reserved" <=> pc[q] = "reserved"
               /\ pc'[q] = "resuming" => pc[q] = "resuming"
               /\ pc'[q] = "recording" <=> pc[q] = "recording"
               /\ pc[q] = "recording" => outcome'[q] = outcome[q]
    PROVE  Scheduled'
<1>1. SUFFICES ASSUME closing = "none" PROVE OnSchedule'
  BY DEF Scheduled
<1>2. /\ FlagShown /\ DueFlagged /\ ResumeOnce /\ BusyUnflagged
      /\ ParkTold /\ Recorder /\ EndMarked
  BY <1>1 DEF Scheduled, OnSchedule
<1>3. Flagged' = Flagged
  BY DEF Flagged
<1>4. \A q \in Prompts : Limited(q)' = Limited(q)
  BY DEF Limited
<1>5. \A q \in Prompts : pc'[q] \in Busy => pc[q] \in Busy
  BY DEF Busy, GapPCs
<1>a. FlagShown'
  BY <1>2, <1>3 DEF FlagShown
<1>b. DueFlagged'
  BY <1>2, <1>3 DEF DueFlagged
<1>c. ResumeOnce'
  BY <1>2 DEF ResumeOnce
<1>d. BusyUnflagged'
  BY <1>2, <1>3 DEF BusyUnflagged
<1>e. ParkTold'
  BY <1>2, <1>3, <1>4 DEF ParkTold
<1>f. Recorder'
  BY <1>2, <1>3, <1>4, <1>5 DEF Recorder
<1>g. EndMarked'
  BY <1>2 DEF EndMarked
<1> QED
  BY <1>a, <1>b, <1>c, <1>d, <1>e, <1>f, <1>g DEF OnSchedule

\* The turn in flight stays the current one until it settles or the session ends.
LEMMA TurnHasCurrentStep ==
    ASSUME "handover" \notin Events, Perms = {}, TypeOK, Ownership, Slot,
       TurnHasCurrent, [Next]_vars
    PROVE  TurnHasCurrent'
<1> USE DEF turnVars, steerVars, rtVars, taskVars, soloVars, permVars, agentVars, histVars
<1>a. /\ TypeTurns /\ TypeTasks /\ TypeAgent /\ TypeRuntime /\ TypeSolo
      /\ WireOwned /\ ReparkOwned /\ OutOwned /\ QueueOwned
  BY DEF TypeOK, Ownership
<1>b. \A q \in Range(queue) : pc[q] = "queued"
  BY <1>a, RangeQueued
<1>s. SteersAbsent /\ EndShape /\ Alone /\ Blocks
  BY DEF Slot
<1>d. \A q \in Prompts : pc[q] # "kicked" /\ pc[q] \notin SteerPCs
  BY <1>s DEF SteersAbsent
<1>e. steerPending = << >>
  BY <1>s DEF SteersAbsent
<1>f. None \notin Prompts /\ Policies \subseteq {"try", "queued", "steer"}
  BY PromptsAssumption, PoliciesAssumption
<1>u. ~superseded /\ watcher = "off" /\ Guarded /\ (closing = "none" => live /\ closer = "open")
  BY <1>s, NotHandedOver
<1>1. ASSUME NEW r \in Perms, AskPermission(r) PROVE TurnHasCurrent'
  <2>1. UNCHANGED <<status, current, closing, pc>>
    BY <1>1 DEF AskPermission
  <2> QED
    BY <2>1, <1>a DEF TurnHasCurrent
<1>2. CASE RecordPark \/ ParkedDue \/ PassOver \/ ClearStale \/ UnscheduleResume \/
   CancelSend \/ GateRises \/ GateExpires \/ AgentDies \/ WatchScan \/ UNCHANGED vars
  <2>1. UNCHANGED <<status, current, closing, pc>>
    BY <1>2 DEF RecordPark, ParkedDue, PassOver, ClearStale, UnscheduleResume,
       CancelSend, GateRises, GateExpires, AgentDies, WatchScan, vars
  <2> QED
    BY <2>1, <1>a DEF TurnHasCurrent
<1>3. ASSUME NEW p \in Prompts, Send(p) PROVE TurnHasCurrent'
  <2>1. \A q \in Prompts : pc'[q] \in TurnPCs => pc[q] \in TurnPCs
    BY <1>3, <1>a, <1>b, <1>d, <1>f DEF Send, TurnPCs, TypeTasks
  <2>2. /\ closing' = "none" => closing = "none"
        /\ status' # "exited" => status # "exited"
        /\ current' = current
    BY <1>3, <1>d, <1>u DEF Send
  <2> QED
    BY <2>1, <2>2 DEF TurnHasCurrent
<1>4. ASSUME NEW p \in Prompts, SendQueued(p) PROVE TurnHasCurrent'
  <2>1. \A q \in Prompts : pc'[q] \in TurnPCs => pc[q] \in TurnPCs
    BY <1>4, <1>a, <1>b, <1>d, <1>f DEF SendQueued, TurnPCs, TypeTasks
  <2>2. /\ closing' = "none" => closing = "none"
        /\ status' # "exited" => status # "exited"
        /\ current' = current
    BY <1>4, <1>d, <1>u DEF SendQueued
  <2> QED
    BY <2>1, <2>2 DEF TurnHasCurrent
<1>5. ASSUME NEW p \in Prompts, SteerSend(p) PROVE TurnHasCurrent'
  <2>1. \A q \in Prompts : pc'[q] \in TurnPCs => pc[q] \in TurnPCs
    BY <1>5, <1>a, <1>b, <1>d, <1>f DEF SteerSend, TurnPCs, TypeTasks, SteerPCs
  <2>2. /\ closing' = "none" => closing = "none"
        /\ status' # "exited" => status # "exited"
        /\ current' = current
    BY <1>5, <1>d, <1>u DEF SteerSend, SteerPCs
  <2> QED
    BY <2>1, <2>2 DEF TurnHasCurrent
<1>6. ASSUME NEW p \in Prompts, BeginChecked(p) PROVE TurnHasCurrent'
  <2>1. CASE /\ CheckReady /\ pc' = [pc EXCEPT ![p] = "logging"]
             /\ current' = [n |-> NextTurn, p |-> p, onWire |-> FALSE, cancelReq |-> FALSE]
    <3>1. \A q \in Prompts : pc[q] \notin Busy
      BY <1>s, <1>u, <2>1 DEF Blocks, CheckReady, SlotFree, AcceptsPrompt
    <3>2. current'.p = p
      BY <2>1
    <3> QED
      BY <1>a, <2>1, <3>1, <3>2 DEF TurnHasCurrent, Busy, TypeTasks
  <2>2. CASE /\ current' = current /\ closing' = closing /\ status' = status
             /\ \A q \in Prompts : pc'[q] \in TurnPCs => pc[q] \in TurnPCs
    BY <2>2 DEF TurnHasCurrent
  <2> QED
    BY <1>6, <1>a, <2>1, <2>2 DEF BeginChecked, StampTurn, TurnPCs, TypeTasks
<1>7. ASSUME NEW p \in Prompts, LogPrompt(p) PROVE TurnHasCurrent'
  <2>1. \A q \in Prompts : pc'[q] \in TurnPCs => pc[q] \in TurnPCs
    BY <1>7, <1>a, <1>b, <1>d, <1>f DEF LogPrompt, TurnPCs, TypeTasks
  <2>2. /\ closing' = "none" => closing = "none"
        /\ status' # "exited" => status # "exited"
        /\ current' = current
    BY <1>7, <1>d, <1>u DEF LogPrompt
  <2> QED
    BY <2>1, <2>2 DEF TurnHasCurrent
<1>8. ASSUME NEW p \in Prompts, LogFails(p) PROVE TurnHasCurrent'
  <2>1. \A q \in Prompts : pc[q] \in Busy => q = p
    BY <1>8, <1>s, <1>u DEF LogFails, Alone, Busy, TurnPCs, GapPCs
  <2>2. \A q \in Prompts : pc'[q] \in TurnPCs => q # p /\ pc[q] \in TurnPCs
    BY <1>8, <1>a, <1>b DEF LogFails, TurnPCs, TypeTasks
  <2> QED
    BY <2>1, <2>2 DEF TurnHasCurrent, Busy
<1>9. ASSUME NEW p \in Prompts, SendPrompt(p) PROVE TurnHasCurrent'
  <2>1. \A q \in Prompts : pc'[q] \in TurnPCs => pc[q] \in TurnPCs
    BY <1>9, <1>a DEF SendPrompt, TurnPCs, TypeTasks
  <2>2. current'.p = current.p
    BY <1>9, <1>a DEF SendPrompt, TypeTurns, Turn
  <2>3. UNCHANGED <<status, closing>>
    BY <1>9 DEF SendPrompt
  <2> QED
    BY <2>1, <2>2, <2>3 DEF TurnHasCurrent
<1>10. ASSUME NEW p \in Prompts, SteerPush(p) PROVE TurnHasCurrent'
  <2>1. \A q \in Prompts : pc'[q] \in TurnPCs => pc[q] \in TurnPCs
    BY <1>10, <1>a, <1>b, <1>d, <1>f DEF SteerPush, TurnPCs, TypeTasks, SteerPCs
  <2>2. /\ closing' = "none" => closing = "none"
        /\ status' # "exited" => status # "exited"
        /\ current' = current
    BY <1>10, <1>d, <1>u DEF SteerPush, SteerPCs
  <2> QED
    BY <2>1, <2>2 DEF TurnHasCurrent
<1>11. ASSUME NEW p \in Prompts, SteerEnqueue(p) PROVE TurnHasCurrent'
  <2>1. \A q \in Prompts : pc'[q] \in TurnPCs => pc[q] \in TurnPCs
    BY <1>11, <1>a, <1>b, <1>d, <1>f DEF SteerEnqueue, TurnPCs, TypeTasks, SteerPCs
  <2>2. /\ closing' = "none" => closing = "none"
        /\ status' # "exited" => status # "exited"
        /\ current' = current
    BY <1>11, <1>d, <1>u DEF SteerEnqueue, SteerPCs
  <2> QED
    BY <2>1, <2>2 DEF TurnHasCurrent
<1>12. ASSUME NEW p \in Prompts, SteerNoteLimit(p) PROVE TurnHasCurrent'
  <2>1. \A q \in Prompts : pc'[q] \in TurnPCs => pc[q] \in TurnPCs
    BY <1>12, <1>a, <1>b, <1>d, <1>f DEF SteerNoteLimit, TurnPCs, TypeTasks, SteerPCs
  <2>2. /\ closing' = "none" => closing = "none"
        /\ status' # "exited" => status # "exited"
        /\ current' = current
    BY <1>12, <1>d, <1>u DEF SteerNoteLimit, SteerPCs
  <2> QED
    BY <2>1, <2>2 DEF TurnHasCurrent
<1>13. ASSUME NEW p \in Prompts, SteerResolved(p) PROVE TurnHasCurrent'
  <2>1. \A q \in Prompts : pc'[q] \in TurnPCs => pc[q] \in TurnPCs
    BY <1>13, <1>a, <1>b, <1>d, <1>f DEF SteerResolved, TurnPCs, TypeTasks, SteerPCs
  <2>2. /\ closing' = "none" => closing = "none"
        /\ status' # "exited" => status # "exited"
        /\ current' = current
    BY <1>13, <1>d, <1>u DEF SteerResolved, SteerPCs
  <2> QED
    BY <2>1, <2>2 DEF TurnHasCurrent
<1>14. ASSUME NEW p \in Prompts, KickWire(p) PROVE TurnHasCurrent'
  <2>1. \A q \in Prompts : pc'[q] \in TurnPCs => pc[q] \in TurnPCs
    BY <1>14, <1>a, <1>b, <1>d, <1>f DEF KickWire, TurnPCs, TypeTasks
  <2>2. /\ closing' = "none" => closing = "none"
        /\ status' # "exited" => status # "exited"
        /\ current' = current
    BY <1>14, <1>d, <1>u DEF KickWire
  <2> QED
    BY <2>1, <2>2 DEF TurnHasCurrent
<1>15. ASSUME NEW p \in Prompts, SettleTurn(p) PROVE TurnHasCurrent'
  <2>1. \A q \in Prompts : pc[q] \in Busy => q = p
    BY <1>15, <1>s, <1>u DEF SettleTurn, FinishBegins, Alone, Busy, TurnPCs, GapPCs
  <2>0. queue # << >> => pc[Head(queue)] = "queued" /\ Head(queue) \in Prompts
    BY <1>a, HeadQueued
  <2>2. \A q \in Prompts : pc'[q] \in TurnPCs => q # p /\ pc[q] \in TurnPCs
    BY <1>15, <1>a, <1>b, <2>0 DEF SettleTurn, CloseCurrent, FinishBegins, UnchangedByFinish,
       DropQueue, ChainReady, TurnPCs, TypeTasks
  <2> QED
    BY <2>1, <2>2 DEF TurnHasCurrent, Busy
<1>16. ASSUME NEW p \in Prompts, FailTurn(p) PROVE TurnHasCurrent'
  <2>1. \A q \in Prompts : pc[q] \in Busy => q = p
    BY <1>16, <1>s, <1>u DEF FailTurn, FinishBegins, Alone, Busy, TurnPCs, GapPCs
  <2>2. \A q \in Prompts : pc'[q] \in TurnPCs => q # p /\ pc[q] \in TurnPCs
    BY <1>16, <1>a, <1>b DEF FailTurn, CloseCurrent, FinishBegins, UnchangedByFinish,
       DropQueue, TurnPCs, TypeTasks
  <2> QED
    BY <2>1, <2>2 DEF TurnHasCurrent, Busy
<1>17. ASSUME NEW p \in Prompts, ParkTurn(p) PROVE TurnHasCurrent'
  <2>1. \A q \in Prompts : pc[q] \in Busy => q = p
    BY <1>17, <1>s, <1>u DEF ParkTurn, FinishBegins, Alone, Busy, TurnPCs, GapPCs
  <2>2. \A q \in Prompts : pc'[q] \in TurnPCs => q # p /\ pc[q] \in TurnPCs
    BY <1>17, <1>a, <1>b DEF ParkTurn, CloseCurrent, FinishBegins, UnchangedByFinish,
       TurnPCs, TypeTasks
  <2> QED
    BY <2>1, <2>2 DEF TurnHasCurrent, Busy
<1>18. ASSUME NEW p \in Prompts, RecordTurnEnd(p) PROVE TurnHasCurrent'
  <2>1. \A q \in Prompts : pc'[q] \in TurnPCs => pc[q] \in TurnPCs
    BY <1>18, <1>a, <1>b, <1>d, <1>f DEF RecordTurnEnd, TurnPCs, TypeTasks
  <2>2. /\ closing' = "none" => closing = "none"
        /\ status' # "exited" => status # "exited"
        /\ current' = current
    BY <1>18, <1>d, <1>u DEF RecordTurnEnd
  <2> QED
    BY <2>1, <2>2 DEF TurnHasCurrent
<1>19. ASSUME NEW p \in Prompts, ClearRecording(p) PROVE TurnHasCurrent'
  <2>1. \A q \in Prompts : pc'[q] \in TurnPCs => pc[q] \in TurnPCs
    BY <1>19, <1>a, <1>b, <1>d, <1>f DEF ClearRecording, TurnPCs, TypeTasks
  <2>2. /\ closing' = "none" => closing = "none"
        /\ status' # "exited" => status # "exited"
        /\ current' = current
    BY <1>19, <1>d, <1>u DEF ClearRecording
  <2> QED
    BY <2>1, <2>2 DEF TurnHasCurrent
<1>20. ASSUME NEW p \in Prompts, NoteLimit(p) PROVE TurnHasCurrent'
  <2>1. \A q \in Prompts : pc'[q] \in TurnPCs => pc[q] \in TurnPCs
    BY <1>20, <1>a, <1>b, <1>d, <1>f DEF NoteLimit, TurnPCs, TypeTasks
  <2>2. /\ closing' = "none" => closing = "none"
        /\ status' # "exited" => status # "exited"
        /\ current' = current
    BY <1>20, <1>d, <1>u DEF NoteLimit
  <2> QED
    BY <2>1, <2>2 DEF TurnHasCurrent
<1>21. ASSUME NEW p \in Prompts, SpawnChained(p) PROVE TurnHasCurrent'
  <2>1. CASE /\ current' = [n |-> NextTurn, p |-> p, onWire |-> FALSE, cancelReq |-> FALSE]
             /\ pc' = [pc EXCEPT ![p] = "logging"]
    <3>1. \A q \in Prompts : pc[q] \in Busy => q = p
      BY <1>21, <1>s, <1>u DEF SpawnChained, Alone, Busy, GapPCs
    <3>2. current'.p = p
      BY <2>1
    <3> QED
      BY <1>a, <2>1, <3>1, <3>2 DEF TurnHasCurrent, Busy, TypeTasks
  <2>2. CASE /\ current' = current /\ closing' = closing /\ (status' # "exited" => status # "exited")
             /\ \A q \in Prompts : pc'[q] \in TurnPCs => pc[q] \in TurnPCs
    BY <2>2 DEF TurnHasCurrent
  <2> QED
    BY <1>21, <1>a, <2>1, <2>2 DEF SpawnChained, StampTurn, Unstarted, TurnPCs, TypeTasks
<1>22. ASSUME NEW p \in Prompts, Repark(p) PROVE TurnHasCurrent'
  <2>1. \A q \in Prompts : pc[q] \in Busy => q = p
    BY <1>22, <1>s, <1>u DEF Repark, Alone, Busy, TurnPCs, GapPCs
  <2>2. \A q \in Prompts : pc'[q] \in TurnPCs => q # p /\ pc[q] \in TurnPCs
    BY <1>22, <1>a, <1>b DEF Repark, Requeued, TurnPCs, TypeTasks
  <2> QED
    BY <2>1, <2>2 DEF TurnHasCurrent, Busy
<1>23. ASSUME NEW p \in Prompts, ReserveResume(p) PROVE TurnHasCurrent'
  <2>1. \A q \in Prompts : pc'[q] \in TurnPCs => pc[q] \in TurnPCs
    BY <1>23, <1>a, <1>b, <1>d, <1>f DEF ReserveResume, ReserveSlot, TurnPCs, TypeTasks
  <2>2. /\ closing' = "none" => closing = "none"
        /\ status' # "exited" => status # "exited"
        /\ current' = current
    BY <1>23, <1>d, <1>u DEF ReserveResume, ReserveSlot
  <2> QED
    BY <2>1, <2>2 DEF TurnHasCurrent
<1>24. ASSUME NEW p \in Prompts, ClearParked(p) PROVE TurnHasCurrent'
  <2>1. \A q \in Prompts : pc'[q] \in TurnPCs => pc[q] \in TurnPCs
    BY <1>24, <1>a, <1>b, <1>d, <1>f DEF ClearParked, TurnPCs, TypeTasks
  <2>2. /\ closing' = "none" => closing = "none"
        /\ status' # "exited" => status # "exited"
        /\ current' = current
    BY <1>24, <1>d, <1>u DEF ClearParked
  <2> QED
    BY <2>1, <2>2 DEF TurnHasCurrent
<1>25. ASSUME NEW p \in Prompts, ResumeBegin(p) PROVE TurnHasCurrent'
  <2>1. CASE /\ current' = [n |-> NextTurn, p |-> p, onWire |-> FALSE, cancelReq |-> FALSE]
             /\ pc' = [pc EXCEPT ![p] = "logging"]
    <3>1. \A q \in Prompts : pc[q] \in Busy => q = p
      BY <1>25, <1>s, <1>u DEF ResumeBegin, Alone, Busy, GapPCs
    <3>2. current'.p = p
      BY <2>1
    <3> QED
      BY <1>a, <2>1, <3>1, <3>2 DEF TurnHasCurrent, Busy, TypeTasks
  <2>2. CASE /\ current' = current /\ closing' = closing /\ (status' # "exited" => status # "exited")
             /\ \A q \in Prompts : pc'[q] \in TurnPCs => pc[q] \in TurnPCs
    BY <2>2 DEF TurnHasCurrent
  <2> QED
    BY <1>25, <1>a, <2>1, <2>2 DEF ResumeBegin, StampTurn, Unstarted, TurnPCs, TypeTasks
<1>26. ASSUME NEW p \in Prompts, Answer(p) PROVE TurnHasCurrent'
  <2>1. \A q \in Prompts : pc'[q] \in TurnPCs => pc[q] \in TurnPCs
    BY <1>26, <1>a, <1>b, <1>d, <1>f DEF Answer, TurnPCs, TypeTasks, OutOwned
  <2>2. /\ closing' = "none" => closing = "none"
        /\ status' # "exited" => status # "exited"
        /\ current' = current
    BY <1>26, <1>d, <1>u DEF Answer, OutOwned
  <2> QED
    BY <2>1, <2>2 DEF TurnHasCurrent
<1>27. ASSUME NEW r \in Perms, QueueForPermit(r) PROVE TurnHasCurrent'
  BY <1>27
<1>28. ASSUME NEW r \in Perms, Permit(r) PROVE TurnHasCurrent'
  BY <1>28
<1>29. ASSUME NEW r \in Perms, PermitAnswered(r) PROVE TurnHasCurrent'
  BY <1>29
<1>30. CASE Teardown
  <2>1. closing' # "none"
    BY <1>30 DEF Teardown, CloseSub, DropQueue, AnswerPending
  <2> QED
    BY <2>1 DEF TurnHasCurrent
<1>31. CASE HandedClose
  <2>1. closing' # "none"
    BY <1>31 DEF HandedClose, CloseSub, DropQueue, AnswerPending
  <2> QED
    BY <2>1 DEF TurnHasCurrent
<1>32. CASE OnDisconnect
  <2>1. closing' = closing /\ (closing = "none" => status' = "exited")
    BY <1>32 DEF OnDisconnect
  <2>2. closing # "none" => pc' = pc
    BY <1>32 DEF OnDisconnect
  <2> QED
    BY <2>1, <2>2 DEF TurnHasCurrent
<1>33. CASE SessionUpdate
  <2>1. FALSE
    BY <1>33, <1>s DEF SessionUpdate, SteersAbsent, OldestSteer, Oldest
  <2> QED
    BY <2>1
<1>34. CASE CancelTurn
  <2>1. \A q \in Prompts : pc'[q] \in TurnPCs => pc[q] \in TurnPCs
    BY <1>34, <1>a, <1>b DEF CancelTurn, DropQueue, TurnPCs, TypeTasks
  <2>2. current'.p = current.p
    BY <1>34, <1>a DEF CancelTurn, TypeTurns, Turn
  <2>3. UNCHANGED <<status, closing>>
    BY <1>34 DEF CancelTurn
  <2> QED
    BY <2>1, <2>2, <2>3 DEF TurnHasCurrent
<1>35. CASE CloseSession
  <2>1. closing' # "none"
    BY <1>35 DEF CloseSession
  <2> QED
    BY <2>1 DEF TurnHasCurrent
<1>36. CASE Supersede
  <2>1. \A q \in Prompts : pc'[q] \in TurnPCs => pc[q] \in TurnPCs
    BY <1>36, <1>a, <1>b, <1>d, <1>f DEF Supersede, TurnPCs, TypeTasks
  <2>2. /\ closing' = "none" => closing = "none"
        /\ status' # "exited" => status # "exited"
        /\ current' = current
    BY <1>36, <1>d, <1>u DEF Supersede
  <2> QED
    BY <2>1, <2>2 DEF TurnHasCurrent
<1>37. CASE HandoffOne
  <2>1. \A q \in Prompts : pc'[q] \in TurnPCs => pc[q] \in TurnPCs
    BY <1>37, <1>a, <1>b, <1>d, <1>f DEF HandoffOne, TurnPCs, TypeTasks
  <2>2. /\ closing' = "none" => closing = "none"
        /\ status' # "exited" => status # "exited"
        /\ current' = current
    BY <1>37, <1>d, <1>u DEF HandoffOne
  <2> QED
    BY <2>1, <2>2 DEF TurnHasCurrent
<1>38. CASE HandoffReported
  <2>1. \A q \in Prompts : pc'[q] \in TurnPCs => pc[q] \in TurnPCs
    BY <1>38, <1>a, <1>b, <1>d, <1>f DEF HandoffReported, TurnPCs, TypeTasks
  <2>2. /\ closing' = "none" => closing = "none"
        /\ status' # "exited" => status # "exited"
        /\ current' = current
    BY <1>38, <1>d, <1>u DEF HandoffReported
  <2> QED
    BY <2>1, <2>2 DEF TurnHasCurrent
<1> QED
  BY <1>1, <1>2, <1>3, <1>4, <1>5, <1>6, <1>7, <1>8, <1>9, <1>10, <1>11, <1>12, <1>13,
     <1>14, <1>15, <1>16, <1>17, <1>18, <1>19, <1>20, <1>21, <1>22, <1>23, <1>24, <1>25,
     <1>26, <1>27, <1>28, <1>29, <1>30, <1>31, <1>32, <1>33, <1>34, <1>35, <1>36, <1>37,
     <1>38 DEF Next, WireFree, WireTaking, Scheduler, Teardowns, Prompts

\* Every step keeps a parked session on the schedule.
LEMMA ScheduledStep ==
    ASSUME "handover" \notin Events, Perms = {}, TypeOK, Ownership, Slot, Numbering,
       GapReady, TurnHasCurrent, Scheduled, [Next]_vars
    PROVE  Scheduled'
<1> USE DEF turnVars, steerVars, rtVars, taskVars, soloVars, permVars, agentVars, histVars
<1>a. /\ TypeTurns /\ TypeTasks /\ TypeAgent /\ TypeRuntime /\ TypeSolo
      /\ WireOwned /\ ReparkOwned /\ OutOwned /\ QueueOwned
  BY DEF TypeOK, Ownership
<1>b. \A q \in Range(queue) : pc[q] = "queued"
  BY <1>a, RangeQueued
<1>s. SteersAbsent /\ EndShape /\ Alone /\ Blocks
  BY DEF Slot
<1>d. \A q \in Prompts : pc[q] # "kicked" /\ pc[q] \notin SteerPCs
  BY <1>s DEF SteersAbsent
<1>e. steerPending = << >>
  BY <1>s DEF SteersAbsent
<1>f. None \notin Prompts /\ Policies \subseteq {"try", "queued", "steer"}
  BY PromptsAssumption, PoliciesAssumption
<1>u. ~superseded /\ watcher = "off" /\ Guarded /\ (closing = "none" => live /\ closer = "open")
  BY <1>s, NotHandedOver
<1>1. ASSUME NEW r \in Perms, AskPermission(r) PROVE Scheduled'
  <2>1. UNCHANGED <<status, recording, closing, entry, pc, outcome, reparked, sched>>
    BY <1>1 DEF AskPermission
  <2> QED
    BY <2>1, <1>a DEF Scheduled, OnSchedule, FlagShown, DueFlagged, ResumeOnce,
       BusyUnflagged, ParkTold, Recorder, EndMarked, Flagged, Limited
<1>2. CASE CancelSend \/ GateRises \/ GateExpires \/ AgentDies \/ WatchScan \/ UNCHANGED
   vars
  <2>1. UNCHANGED <<status, recording, closing, entry, pc, outcome, reparked, sched>>
    BY <1>2 DEF CancelSend, GateRises, GateExpires, AgentDies, WatchScan, vars
  <2> QED
    BY <2>1, <1>a DEF Scheduled, OnSchedule, FlagShown, DueFlagged, ResumeOnce,
       BusyUnflagged, ParkTold, Recorder, EndMarked, Flagged, Limited
<1>3. ASSUME NEW p \in Prompts, Send(p) PROVE Scheduled'
  <2>1. \A q \in Prompts :
           /\ pc'[q] \in Busy \ {"reserved"} => pc[q] \in Busy \ {"reserved"}
           /\ pc'[q] = "reserved" <=> pc[q] = "reserved"
           /\ pc'[q] = "resuming" => pc[q] = "resuming"
           /\ pc'[q] = "recording" <=> pc[q] = "recording"
           /\ pc[q] = "recording" => outcome'[q] = outcome[q]
    BY <1>3, <1>a, <1>b, <1>d, <1>f DEF Send, Busy, TurnPCs, GapPCs, TypeTasks
  <2>2. /\ UNCHANGED <<closing, status, sched, reparked, recording>>
        /\ entry'.parked = entry.parked
    BY <1>3, <1>a, <1>d, <1>u DEF Send
  <2> QED
    BY <2>1, <2>2, ScheduleKept
<1>4. ASSUME NEW p \in Prompts, SendQueued(p) PROVE Scheduled'
  <2>1. \A q \in Prompts :
           /\ pc'[q] \in Busy \ {"reserved"} => pc[q] \in Busy \ {"reserved"}
           /\ pc'[q] = "reserved" <=> pc[q] = "reserved"
           /\ pc'[q] = "resuming" => pc[q] = "resuming"
           /\ pc'[q] = "recording" <=> pc[q] = "recording"
           /\ pc[q] = "recording" => outcome'[q] = outcome[q]
    BY <1>4, <1>a, <1>b, <1>d, <1>f DEF SendQueued, Busy, TurnPCs, GapPCs, TypeTasks
  <2>2. /\ UNCHANGED <<closing, status, sched, reparked, recording>>
        /\ entry'.parked = entry.parked
    BY <1>4, <1>a, <1>d, <1>u DEF SendQueued
  <2> QED
    BY <2>1, <2>2, ScheduleKept
<1>5. ASSUME NEW p \in Prompts, SteerSend(p) PROVE Scheduled'
  <2>1. \A q \in Prompts :
           /\ pc'[q] \in Busy \ {"reserved"} => pc[q] \in Busy \ {"reserved"}
           /\ pc'[q] = "reserved" <=> pc[q] = "reserved"
           /\ pc'[q] = "resuming" => pc[q] = "resuming"
           /\ pc'[q] = "recording" <=> pc[q] = "recording"
           /\ pc[q] = "recording" => outcome'[q] = outcome[q]
    BY <1>5, <1>a, <1>b, <1>d, <1>f DEF SteerSend, Busy, TurnPCs, GapPCs, TypeTasks,
       SteerPCs
  <2>2. /\ UNCHANGED <<closing, status, sched, reparked, recording>>
        /\ entry'.parked = entry.parked
    BY <1>5, <1>a, <1>d, <1>u DEF SteerSend, SteerPCs
  <2> QED
    BY <2>1, <2>2, ScheduleKept
<1>6. ASSUME NEW p \in Prompts, BeginChecked(p) PROVE Scheduled'
  <2>1. CASE CheckReady /\ StampTurn(p)
    <3>s. SUFFICES ASSUME closing = "none" PROVE OnSchedule'
      BY <1>6 DEF BeginChecked, Scheduled
    <3>1. FlagShown /\ DueFlagged /\ ResumeOnce /\ BusyUnflagged /\ ParkTold /\ Recorder /\ EndMarked
      BY <3>s DEF Scheduled, OnSchedule
    <3>2. /\ UNCHANGED <<entry, sched, reparked, recording, outcome>>
          /\ status' = "running" /\ status \notin {"running", "rate_limited", "exited"}
      BY <1>6, <2>1 DEF BeginChecked, StampTurn, CheckReady, SlotFree, AcceptsPrompt
    <3>3. \A q \in Prompts : pc'[q] = IF q = p THEN "logging" ELSE pc[q]
      BY <1>a, <2>1 DEF StampTurn, TypeTasks
    <3>4. \A q \in Prompts : pc[q] \notin Busy
      BY <1>s, <1>u, <2>1 DEF Blocks, CheckReady, SlotFree, AcceptsPrompt
    <3>5. ~Flagged /\ ~Flagged'
      BY <3>1, <3>2, <3>4 DEF FlagShown, Busy, GapPCs, Flagged
    <3>6. reparked = None /\ \A q \in Prompts : ~Limited(q) /\ ~Limited(q)'
      BY <3>1, <3>2, <3>3 DEF Recorder, Limited
    <3>a. FlagShown' /\ BusyUnflagged' /\ ParkTold' /\ Recorder'
      BY <3>2, <3>5, <3>6 DEF FlagShown, BusyUnflagged, ParkTold, Recorder
    <3>b. DueFlagged' /\ ResumeOnce'
      BY <3>1, <3>2, <3>3, <3>5 DEF DueFlagged, ResumeOnce, Flagged
    <3>c. EndMarked'
      BY <3>1, <3>2, <3>3 DEF EndMarked
    <3> QED
      BY <3>a, <3>b, <3>c DEF OnSchedule
  <2>2. CASE ~(CheckReady /\ StampTurn(p))
    <3>1. /\ UNCHANGED <<closing, status, entry, sched, reparked, recording, outcome>>
          /\ pc' = pc \/ \E x \in {"queue", "refused"} : pc' = [pc EXCEPT ![p] = x]
          /\ pc[p] \in {"try", "fresh", "steer_begin"}
      BY <1>6, <2>2 DEF BeginChecked
    <3>2. \A q \in Prompts : pc'[q] = pc[q] \/ (q = p /\ pc'[q] \in {"queue", "refused"})
      BY <1>a, <3>1 DEF TypeTasks
    <3>3. \A q \in Prompts :
             /\ pc'[q] \in Busy \ {"reserved"} => pc[q] \in Busy \ {"reserved"}
             /\ pc'[q] = "reserved" <=> pc[q] = "reserved"
             /\ pc'[q] = "resuming" => pc[q] = "resuming"
             /\ pc'[q] = "recording" <=> pc[q] = "recording"
             /\ pc[q] = "recording" => outcome'[q] = outcome[q]
      BY <3>1, <3>2 DEF Busy, TurnPCs, GapPCs
    <3> QED
      BY <3>1, <3>3, ScheduleKept
  <2> QED
    BY <2>1, <2>2
<1>7. ASSUME NEW p \in Prompts, LogPrompt(p) PROVE Scheduled'
  <2>1. \A q \in Prompts :
           /\ pc'[q] \in Busy \ {"reserved"} => pc[q] \in Busy \ {"reserved"}
           /\ pc'[q] = "reserved" <=> pc[q] = "reserved"
           /\ pc'[q] = "resuming" => pc[q] = "resuming"
           /\ pc'[q] = "recording" <=> pc[q] = "recording"
           /\ pc[q] = "recording" => outcome'[q] = outcome[q]
    BY <1>7, <1>a, <1>b, <1>d, <1>f DEF LogPrompt, Busy, TurnPCs, GapPCs, TypeTasks
  <2>2. /\ UNCHANGED <<closing, status, sched, reparked, recording>>
        /\ entry'.parked = entry.parked
    BY <1>7, <1>a, <1>d, <1>u DEF LogPrompt, TypeRuntime, RegistryEntry
  <2> QED
    BY <2>1, <2>2, ScheduleKept
<1>8. ASSUME NEW p \in Prompts, LogFails(p) PROVE Scheduled'
  <2>s. SUFFICES ASSUME closing = "none" PROVE OnSchedule'
    BY <1>8 DEF LogFails, Scheduled
  <2>0. FlagShown /\ DueFlagged /\ ResumeOnce /\ BusyUnflagged /\ ParkTold /\ Recorder /\ EndMarked
    BY <2>s DEF Scheduled, OnSchedule
  <2>1. /\ UNCHANGED <<entry, sched, reparked, recording, outcome>> /\ pc[p] = "logging"
        /\ status' = (IF status = "exited" THEN status ELSE "failed")
    BY <1>8 DEF LogFails, FailedUnlessExited
  <2>2. \A q \in Prompts : pc'[q] = IF q = p THEN "dropped" ELSE pc[q]
    BY <1>8, <1>a DEF LogFails, TypeTasks
  <2>3. ~Flagged /\ ~Flagged' /\ pc[p] \in Busy
    BY <2>0, <2>1 DEF BusyUnflagged, Busy, TurnPCs, Flagged
  <2>4. reparked = None /\ \A q \in Prompts : ~Limited(q)
    BY <2>0, <2>3 DEF Recorder
  <2>5. \A q \in Prompts : pc[q] \notin {"recording", "reserved"}
    BY <1>a, <1>f, <1>s, <1>u, <2>1, <2>3 DEF WireOwned, Holding, Alone, Busy, GapPCs
  <2>a. FlagShown'
    BY <2>0, <2>1, <2>2, <2>3, <2>4, <2>5 DEF FlagShown
  <2>b. DueFlagged'
    BY <2>0, <2>1, <2>2, <2>3, <2>4, <2>5 DEF DueFlagged
  <2>c. ResumeOnce'
    BY <2>0, <2>1, <2>2, <2>3, <2>4, <2>5 DEF ResumeOnce
  <2>d. BusyUnflagged'
    BY <2>0, <2>1, <2>2, <2>3, <2>4, <2>5 DEF BusyUnflagged
  <2>e. ParkTold'
    BY <2>0, <2>1, <2>2, <2>3, <2>4, <2>5 DEF ParkTold
  <2>f. Recorder'
    BY <2>0, <2>1, <2>2, <2>3, <2>4, <2>5 DEF Recorder, Limited
  <2>g. EndMarked'
    BY <2>0, <2>1, <2>2, <2>3, <2>4, <2>5 DEF EndMarked
  <2> QED
    BY <2>a, <2>b, <2>c, <2>d, <2>e, <2>f, <2>g DEF OnSchedule
<1>9. ASSUME NEW p \in Prompts, SendPrompt(p) PROVE Scheduled'
  <2>1. \A q \in Prompts :
           /\ pc'[q] \in Busy \ {"reserved"} => pc[q] \in Busy \ {"reserved"}
           /\ pc'[q] = "reserved" <=> pc[q] = "reserved"
           /\ pc'[q] = "resuming" => pc[q] = "resuming"
           /\ pc'[q] = "recording" <=> pc[q] = "recording"
           /\ pc[q] = "recording" => outcome'[q] = outcome[q]
    BY <1>9, <1>a, <1>b, <1>d, <1>f DEF SendPrompt, Busy, TurnPCs, GapPCs, TypeTasks
  <2>2. /\ UNCHANGED <<closing, status, sched, reparked, recording>>
        /\ entry'.parked = entry.parked
    BY <1>9, <1>a, <1>d, <1>u DEF SendPrompt
  <2> QED
    BY <2>1, <2>2, ScheduleKept
<1>10. ASSUME NEW p \in Prompts, SteerPush(p) PROVE Scheduled'
  <2>1. \A q \in Prompts :
           /\ pc'[q] \in Busy \ {"reserved"} => pc[q] \in Busy \ {"reserved"}
           /\ pc'[q] = "reserved" <=> pc[q] = "reserved"
           /\ pc'[q] = "resuming" => pc[q] = "resuming"
           /\ pc'[q] = "recording" <=> pc[q] = "recording"
           /\ pc[q] = "recording" => outcome'[q] = outcome[q]
    BY <1>10, <1>a, <1>b, <1>d, <1>f DEF SteerPush, Busy, TurnPCs, GapPCs, TypeTasks,
       SteerPCs
  <2>2. /\ UNCHANGED <<closing, status, sched, reparked, recording>>
        /\ entry'.parked = entry.parked
    BY <1>10, <1>a, <1>d, <1>u DEF SteerPush, SteerPCs
  <2> QED
    BY <2>1, <2>2, ScheduleKept
<1>11. ASSUME NEW p \in Prompts, SteerEnqueue(p) PROVE Scheduled'
  <2>1. \A q \in Prompts :
           /\ pc'[q] \in Busy \ {"reserved"} => pc[q] \in Busy \ {"reserved"}
           /\ pc'[q] = "reserved" <=> pc[q] = "reserved"
           /\ pc'[q] = "resuming" => pc[q] = "resuming"
           /\ pc'[q] = "recording" <=> pc[q] = "recording"
           /\ pc[q] = "recording" => outcome'[q] = outcome[q]
    BY <1>11, <1>a, <1>b, <1>d, <1>f DEF SteerEnqueue, Busy, TurnPCs, GapPCs, TypeTasks,
       SteerPCs
  <2>2. /\ UNCHANGED <<closing, status, sched, reparked, recording>>
        /\ entry'.parked = entry.parked
    BY <1>11, <1>a, <1>d, <1>u DEF SteerEnqueue, SteerPCs
  <2> QED
    BY <2>1, <2>2, ScheduleKept
<1>12. ASSUME NEW p \in Prompts, SteerNoteLimit(p) PROVE Scheduled'
  <2>1. \A q \in Prompts :
           /\ pc'[q] \in Busy \ {"reserved"} => pc[q] \in Busy \ {"reserved"}
           /\ pc'[q] = "reserved" <=> pc[q] = "reserved"
           /\ pc'[q] = "resuming" => pc[q] = "resuming"
           /\ pc'[q] = "recording" <=> pc[q] = "recording"
           /\ pc[q] = "recording" => outcome'[q] = outcome[q]
    BY <1>12, <1>a, <1>b, <1>d, <1>f DEF SteerNoteLimit, Busy, TurnPCs, GapPCs,
       TypeTasks, SteerPCs
  <2>2. /\ UNCHANGED <<closing, status, sched, reparked, recording>>
        /\ entry'.parked = entry.parked
    BY <1>12, <1>a, <1>d, <1>u DEF SteerNoteLimit, SteerPCs
  <2> QED
    BY <2>1, <2>2, ScheduleKept
<1>13. ASSUME NEW p \in Prompts, SteerResolved(p) PROVE Scheduled'
  <2>1. \A q \in Prompts :
           /\ pc'[q] \in Busy \ {"reserved"} => pc[q] \in Busy \ {"reserved"}
           /\ pc'[q] = "reserved" <=> pc[q] = "reserved"
           /\ pc'[q] = "resuming" => pc[q] = "resuming"
           /\ pc'[q] = "recording" <=> pc[q] = "recording"
           /\ pc[q] = "recording" => outcome'[q] = outcome[q]
    BY <1>13, <1>a, <1>b, <1>d, <1>f DEF SteerResolved, Busy, TurnPCs, GapPCs, TypeTasks,
       SteerPCs
  <2>2. /\ UNCHANGED <<closing, status, sched, reparked, recording>>
        /\ entry'.parked = entry.parked
    BY <1>13, <1>a, <1>d, <1>u DEF SteerResolved, SteerPCs
  <2> QED
    BY <2>1, <2>2, ScheduleKept
<1>14. ASSUME NEW p \in Prompts, KickWire(p) PROVE Scheduled'
  <2>1. \A q \in Prompts :
           /\ pc'[q] \in Busy \ {"reserved"} => pc[q] \in Busy \ {"reserved"}
           /\ pc'[q] = "reserved" <=> pc[q] = "reserved"
           /\ pc'[q] = "resuming" => pc[q] = "resuming"
           /\ pc'[q] = "recording" <=> pc[q] = "recording"
           /\ pc[q] = "recording" => outcome'[q] = outcome[q]
    BY <1>14, <1>a, <1>b, <1>d, <1>f DEF KickWire, Busy, TurnPCs, GapPCs, TypeTasks
  <2>2. /\ UNCHANGED <<closing, status, sched, reparked, recording>>
        /\ entry'.parked = entry.parked
    BY <1>14, <1>a, <1>d, <1>u DEF KickWire
  <2> QED
    BY <2>1, <2>2, ScheduleKept
<1>15. ASSUME NEW p \in Prompts, SettleTurn(p) PROVE Scheduled'
  <2>s. SUFFICES ASSUME closing = "none" PROVE OnSchedule'
    BY <1>15 DEF SettleTurn, FinishBegins, UnchangedByFinish, Scheduled
  <2>0. FlagShown /\ DueFlagged /\ ResumeOnce /\ BusyUnflagged /\ ParkTold /\ Recorder /\ EndMarked
    BY <2>s DEF Scheduled, OnSchedule
  <2>1. /\ UNCHANGED <<entry, sched, reparked, outcome>> /\ pc[p] = "ended"
        /\ CloseCurrent(p) /\ wire = None
    BY <1>15 DEF SettleTurn, FinishBegins, UnchangedByFinish
  <2>h. queue # << >> => Head(queue) \in Prompts /\ pc[Head(queue)] = "queued"
    BY <1>a, HeadQueued
  <2>w. \/ pc' = [pc EXCEPT ![p] = "recording"]
        \/ pc' = DropQueue([pc EXCEPT ![p] = "recording"])
        \/ queue # << >> /\ pc' = [pc EXCEPT ![p] = "recording", ![Head(queue)] = "popped"]
    BY <1>15 DEF SettleTurn, ChainReady
  <2>2. /\ pc'[p] = "recording"
        /\ \A q \in Prompts : q # p => pc'[q] = pc[q] \/ (pc[q] = "queued" /\ pc'[q] \in {"popped", "dropped"})
    BY <1>a, <1>b, <2>1, <2>h, <2>w DEF DropQueue, TypeTasks
  <2>3. ~Flagged /\ ~Flagged' /\ pc[p] \in Busy
    BY <2>0, <2>1 DEF BusyUnflagged, Busy, TurnPCs, Flagged
  <2>4. reparked = None /\ \A q \in Prompts : ~Limited(q)
    BY <2>0, <2>3 DEF Recorder
  <2>5. \A q \in Prompts : pc[q] # "recording" /\ (q # p => pc[q] \notin Busy)
    BY <1>a, <1>f, <1>s, <1>u, <2>1, <2>3 DEF WireOwned, Holding, Alone
  <2>6. status' # "rate_limited" /\ outcome'[p] # "limit"
    BY <1>15, <1>s, <1>u, <2>1, <2>3 DEF SettleTurn, FinishBegins, UnchangedByFinish, Blocks
  <2>7. status' # "exited" => recording' # 0
    <3>1. SUFFICES ASSUME status # "exited" PROVE recording' # 0
      BY <1>15 DEF SettleTurn, FailedUnlessExited
    <3>2. current.p = p
      BY <2>s, <2>1, <3>1 DEF TurnHasCurrent, TurnPCs
    <3>3. current # NoTurn
      BY <1>f, <3>2 DEF NoTurn
    <3>4. current.n = Offset + Len(turns) + 1 /\ Len(turns) \in Nat
      BY <1>a, <3>3 DEF Numbering, NextTurn, TypeTurns
    <3> QED
      BY <2>1, <3>3, <3>4, OffsetAssumption DEF CloseCurrent
  <2>a. FlagShown'
    BY <2>0, <2>1, <2>2, <2>3, <2>4, <2>5, <2>6, <2>7 DEF FlagShown, Busy, GapPCs
  <2>b. DueFlagged'
    BY <2>0, <2>1, <2>2, <2>3, <2>4, <2>5, <2>6, <2>7 DEF DueFlagged
  <2>c. ResumeOnce'
    BY <2>0, <2>1, <2>2, <2>3, <2>4, <2>5, <2>6, <2>7 DEF ResumeOnce, Busy, GapPCs
  <2>d. BusyUnflagged'
    BY <2>0, <2>1, <2>2, <2>3, <2>4, <2>5, <2>6, <2>7 DEF BusyUnflagged, Busy, TurnPCs, GapPCs
  <2>e. ParkTold'
    BY <2>0, <2>1, <2>2, <2>3, <2>4, <2>5, <2>6, <2>7 DEF ParkTold, Limited
  <2>f. Recorder'
    BY <2>0, <2>1, <2>2, <2>3, <2>4, <2>5, <2>6, <2>7 DEF Recorder, Limited, Busy, TurnPCs, GapPCs
  <2>g. EndMarked'
    BY <2>0, <2>1, <2>2, <2>3, <2>4, <2>5, <2>6, <2>7 DEF EndMarked
  <2> QED
    BY <2>a, <2>b, <2>c, <2>d, <2>e, <2>f, <2>g DEF OnSchedule
<1>16. ASSUME NEW p \in Prompts, FailTurn(p) PROVE Scheduled'
  <2>s. SUFFICES ASSUME closing = "none" PROVE OnSchedule'
    BY <1>16 DEF FailTurn, FinishBegins, UnchangedByFinish, Scheduled
  <2>0. FlagShown /\ DueFlagged /\ ResumeOnce /\ BusyUnflagged /\ ParkTold /\ Recorder /\ EndMarked
    BY <2>s DEF Scheduled, OnSchedule
  <2>1. /\ UNCHANGED <<entry, sched, reparked, outcome>> /\ pc[p] = "ended"
        /\ CloseCurrent(p) /\ wire = None
    BY <1>16 DEF FailTurn, FinishBegins, UnchangedByFinish
  <2>2. /\ pc'[p] = "recording"
        /\ \A q \in Prompts : q # p => pc'[q] = pc[q] \/ (pc[q] = "queued" /\ pc'[q] \in {"popped", "dropped"})
    BY <1>16, <1>a, <1>b, <2>1, HeadQueued DEF FailTurn, FinishBegins, DropQueue, TypeTasks
  <2>3. ~Flagged /\ ~Flagged' /\ pc[p] \in Busy
    BY <2>0, <2>1 DEF BusyUnflagged, Busy, TurnPCs, Flagged
  <2>4. reparked = None /\ \A q \in Prompts : ~Limited(q)
    BY <2>0, <2>3 DEF Recorder
  <2>5. \A q \in Prompts : pc[q] # "recording" /\ (q # p => pc[q] \notin Busy)
    BY <1>a, <1>f, <1>s, <1>u, <2>1, <2>3 DEF WireOwned, Holding, Alone
  <2>6. status' # "rate_limited" /\ outcome'[p] # "limit"
    BY <1>16 DEF FailTurn, FinishBegins, UnchangedByFinish, FailedUnlessExited
  <2>7. status' # "exited" => recording' # 0
    <3>1. SUFFICES ASSUME status # "exited" PROVE recording' # 0
      BY <1>16 DEF FailTurn, FailedUnlessExited
    <3>2. current.p = p
      BY <2>s, <2>1, <3>1 DEF TurnHasCurrent, TurnPCs
    <3>3. current # NoTurn
      BY <1>f, <3>2 DEF NoTurn
    <3>4. current.n = Offset + Len(turns) + 1 /\ Len(turns) \in Nat
      BY <1>a, <3>3 DEF Numbering, NextTurn, TypeTurns
    <3> QED
      BY <2>1, <3>3, <3>4, OffsetAssumption DEF CloseCurrent
  <2>a. FlagShown'
    BY <2>0, <2>1, <2>2, <2>3, <2>4, <2>5, <2>6, <2>7 DEF FlagShown, Busy, GapPCs
  <2>b. DueFlagged'
    BY <2>0, <2>1, <2>2, <2>3, <2>4, <2>5, <2>6, <2>7 DEF DueFlagged
  <2>c. ResumeOnce'
    BY <2>0, <2>1, <2>2, <2>3, <2>4, <2>5, <2>6, <2>7 DEF ResumeOnce, Busy, GapPCs
  <2>d. BusyUnflagged'
    BY <2>0, <2>1, <2>2, <2>3, <2>4, <2>5, <2>6, <2>7 DEF BusyUnflagged, Busy, TurnPCs, GapPCs
  <2>e. ParkTold'
    BY <2>0, <2>1, <2>2, <2>3, <2>4, <2>5, <2>6, <2>7 DEF ParkTold, Limited
  <2>f. Recorder'
    BY <2>0, <2>1, <2>2, <2>3, <2>4, <2>5, <2>6, <2>7 DEF Recorder, Limited, Busy, TurnPCs, GapPCs
  <2>g. EndMarked'
    BY <2>0, <2>1, <2>2, <2>3, <2>4, <2>5, <2>6, <2>7 DEF EndMarked
  <2> QED
    BY <2>a, <2>b, <2>c, <2>d, <2>e, <2>f, <2>g DEF OnSchedule
<1>17. ASSUME NEW p \in Prompts, ParkTurn(p) PROVE Scheduled'
  <2>s. SUFFICES ASSUME closing = "none" PROVE OnSchedule'
    BY <1>17 DEF ParkTurn, FinishBegins, UnchangedByFinish, Scheduled
  <2>0. FlagShown /\ DueFlagged /\ ResumeOnce /\ BusyUnflagged /\ ParkTold /\ Recorder /\ EndMarked
    BY <2>s DEF Scheduled, OnSchedule
  <2>1. /\ UNCHANGED <<entry, sched, reparked, outcome>> /\ pc[p] = "ended"
        /\ CloseCurrent(p) /\ wire = None
    BY <1>17 DEF ParkTurn, FinishBegins, UnchangedByFinish
  <2>2. /\ pc'[p] = "recording"
        /\ \A q \in Prompts : q # p => pc'[q] = pc[q] \/ (pc[q] = "queued" /\ pc'[q] \in {"popped", "dropped"})
    BY <1>17, <1>a, <1>b, <2>1, HeadQueued DEF ParkTurn, FinishBegins, DropQueue, TypeTasks
  <2>3. ~Flagged /\ ~Flagged' /\ pc[p] \in Busy
    BY <2>0, <2>1 DEF BusyUnflagged, Busy, TurnPCs, Flagged
  <2>4. reparked = None /\ \A q \in Prompts : ~Limited(q)
    BY <2>0, <2>3 DEF Recorder
  <2>5. \A q \in Prompts : pc[q] # "recording" /\ (q # p => pc[q] \notin Busy)
    BY <1>a, <1>f, <1>s, <1>u, <2>1, <2>3 DEF WireOwned, Holding, Alone
  <2>6. /\ status' \in {"rate_limited", "exited"} /\ outcome'[p] = "limit"
        /\ \A q \in Prompts : q # p => pc'[q] = pc[q]
    BY <1>17, <1>a DEF ParkTurn, FinishBegins, UnchangedByFinish, TypeTasks
  <2>7. status' # "exited" => recording' # 0
    <3>1. SUFFICES ASSUME status # "exited" PROVE recording' # 0
      BY <1>17 DEF ParkTurn, FailedUnlessExited
    <3>2. current.p = p
      BY <2>s, <2>1, <3>1 DEF TurnHasCurrent, TurnPCs
    <3>3. current # NoTurn
      BY <1>f, <3>2 DEF NoTurn
    <3>4. current.n = Offset + Len(turns) + 1 /\ Len(turns) \in Nat
      BY <1>a, <3>3 DEF Numbering, NextTurn, TypeTurns
    <3> QED
      BY <2>1, <3>3, <3>4, OffsetAssumption DEF CloseCurrent
  <2>a. FlagShown'
    BY <2>0, <2>1, <2>2, <2>3, <2>4, <2>5, <2>6, <2>7 DEF FlagShown, Busy, GapPCs
  <2>b. DueFlagged'
    BY <2>0, <2>1, <2>2, <2>3, <2>4, <2>5, <2>6, <2>7 DEF DueFlagged
  <2>c. ResumeOnce'
    BY <2>0, <2>1, <2>2, <2>3, <2>4, <2>5, <2>6, <2>7 DEF ResumeOnce, Busy, GapPCs
  <2>d. BusyUnflagged'
    BY <2>0, <2>1, <2>2, <2>3, <2>4, <2>5, <2>6, <2>7 DEF BusyUnflagged, Busy, TurnPCs, GapPCs
  <2>e. ParkTold'
    BY <2>0, <2>1, <2>2, <2>3, <2>4, <2>5, <2>6, <2>7 DEF ParkTold, Limited
  <2>f. Recorder'
    BY <2>0, <2>1, <2>2, <2>3, <2>4, <2>5, <2>6, <2>7 DEF Recorder, Limited, Busy, TurnPCs, GapPCs
  <2>g. EndMarked'
    BY <2>0, <2>1, <2>2, <2>3, <2>4, <2>5, <2>6, <2>7 DEF EndMarked
  <2> QED
    BY <2>a, <2>b, <2>c, <2>d, <2>e, <2>f, <2>g DEF OnSchedule
<1>18. ASSUME NEW p \in Prompts, RecordTurnEnd(p) PROVE Scheduled'
  <2>s. SUFFICES ASSUME closing = "none" PROVE OnSchedule'
    BY <1>18 DEF RecordTurnEnd, Scheduled
  <2>0. FlagShown /\ DueFlagged /\ ResumeOnce /\ BusyUnflagged /\ ParkTold /\ Recorder /\ EndMarked
    BY <2>s DEF Scheduled, OnSchedule
  <2>1. /\ UNCHANGED <<status, sched, reparked, recording, outcome>> /\ pc[p] = "recording"
        /\ entry'.parked = ParkAfterTurn(outcome[p])
    BY <1>18 DEF RecordTurnEnd
  <2>2. \A q \in Prompts : pc'[q] = IF q = p THEN "clearing" ELSE pc[q]
    BY <1>18, <1>a DEF RecordTurnEnd, TypeTasks
  <2>3. reparked = None /\ \A q \in Prompts : pc'[q] # "recording"
    BY <1>a, <1>f, <2>1, <2>2 DEF WireOwned, ReparkOwned, Holding
  <2>r. \A q \in Prompts : pc[q] = "recording" => q = p
    BY <2>2, <2>3
  <2>4. CASE outcome[p] = "limit"
    <3>1. status \in {"rate_limited", "exited"} /\ \A q \in Prompts : pc[q] \notin Busy
      BY <2>0, <2>1, <2>4 DEF Recorder, Limited
    <3>2. Flagged'
      BY <2>s, <2>1, <2>4 DEF Flagged, ParkAfterTurn, NoPark
    <3>3. \A q \in Prompts : pc'[q] \notin Busy
      BY <2>2, <3>1 DEF Busy, TurnPCs, GapPCs
    <3>4. FlagShown' /\ BusyUnflagged' /\ ResumeOnce' /\ Recorder'
      BY <2>1, <2>3, <3>1, <3>3 DEF FlagShown, BusyUnflagged, ResumeOnce, Recorder, Limited, Busy, GapPCs
    <3>5. DueFlagged' /\ ParkTold' /\ EndMarked'
      BY <2>0, <2>1, <2>3, <3>2 DEF DueFlagged, ParkTold, EndMarked
    <3> QED
      BY <3>4, <3>5 DEF OnSchedule
  <2>5. CASE outcome[p] # "limit"
    <3>1. entry'.parked = IF status \in {"rate_limited", "exited"} THEN entry.parked ELSE NoPark
      BY <2>1, <2>5 DEF ParkAfterTurn
    <3>2. status \in {"rate_limited", "exited"} => Flagged' = Flagged
      BY <3>1 DEF Flagged
    <3>3. Flagged' => Flagged /\ status \in {"rate_limited", "exited"}
      BY <3>1 DEF Flagged
    <3>4. FlagShown'
      BY <2>1, <3>3 DEF FlagShown
    <3>5. DueFlagged'
      BY <2>0, <2>1, <3>2 DEF DueFlagged, FlagShown, ResumeOnce
    <3>6. BusyUnflagged' /\ ResumeOnce'
      BY <2>0, <2>1, <2>2, <3>3 DEF BusyUnflagged, ResumeOnce, Busy, TurnPCs, GapPCs
    <3>7. ParkTold'
      BY <2>0, <2>1, <2>3, <2>5, <2>r, <3>2 DEF ParkTold, Limited
    <3>8. Recorder' /\ EndMarked'
      BY <2>1, <2>3 DEF Recorder, EndMarked, Limited
    <3> QED
      BY <3>4, <3>5, <3>6, <3>7, <3>8 DEF OnSchedule
  <2> QED
    BY <2>4, <2>5
<1>19. ASSUME NEW p \in Prompts, ClearRecording(p) PROVE Scheduled'
  <2>s. SUFFICES ASSUME closing = "none" PROVE OnSchedule'
    BY <1>19 DEF ClearRecording, Scheduled
  <2>0. FlagShown /\ DueFlagged /\ ResumeOnce /\ BusyUnflagged /\ ParkTold /\ Recorder /\ EndMarked
    BY <2>s DEF Scheduled, OnSchedule
  <2>1. /\ UNCHANGED <<status, sched, reparked, outcome, entry>> /\ pc[p] = "clearing"
    BY <1>19 DEF ClearRecording
  <2>2. \A q \in Prompts : IF pc[q] = "popped" THEN pc'[q] \in {"popped", "chained"}
                           ELSE IF q = p THEN pc'[q] \in {"noting", "done"} ELSE pc'[q] = pc[q]
    BY <1>19, <1>a DEF ClearRecording, TypeTasks
  <2>3. \A q \in Prompts : pc[q] # "recording" /\ pc'[q] # "recording"
    BY <1>a, <1>f, <2>1, <2>2 DEF WireOwned, Holding
  <2>4. Flagged' = Flagged
    BY <2>1 DEF Flagged
  <2>a. FlagShown'
    BY <2>0, <2>1, <2>2, <2>3, <2>4 DEF FlagShown
  <2>b. DueFlagged'
    BY <2>0, <2>1, <2>2, <2>3, <2>4 DEF DueFlagged
  <2>c. ResumeOnce'
    BY <2>0, <2>1, <2>2, <2>3, <2>4 DEF ResumeOnce
  <2>d. BusyUnflagged'
    BY <2>0, <2>1, <2>2, <2>3, <2>4 DEF BusyUnflagged, Busy, TurnPCs, GapPCs
  <2>e. ParkTold'
    BY <2>0, <2>1, <2>2, <2>3, <2>4 DEF ParkTold, Limited
  <2>f. Recorder'
    BY <2>0, <2>1, <2>2, <2>3, <2>4 DEF Recorder, Limited, Busy, TurnPCs, GapPCs
  <2>g. EndMarked'
    BY <2>0, <2>1, <2>2, <2>3, <2>4 DEF EndMarked
  <2> QED
    BY <2>a, <2>b, <2>c, <2>d, <2>e, <2>f, <2>g DEF OnSchedule
<1>20. ASSUME NEW p \in Prompts, NoteLimit(p) PROVE Scheduled'
  <2>1. \A q \in Prompts :
           /\ pc'[q] \in Busy \ {"reserved"} => pc[q] \in Busy \ {"reserved"}
           /\ pc'[q] = "reserved" <=> pc[q] = "reserved"
           /\ pc'[q] = "resuming" => pc[q] = "resuming"
           /\ pc'[q] = "recording" <=> pc[q] = "recording"
           /\ pc[q] = "recording" => outcome'[q] = outcome[q]
    BY <1>20, <1>a, <1>b, <1>d, <1>f DEF NoteLimit, Busy, TurnPCs, GapPCs, TypeTasks
  <2>2. /\ UNCHANGED <<closing, status, sched, reparked, recording>>
        /\ entry'.parked = entry.parked
    BY <1>20, <1>a, <1>d, <1>u DEF NoteLimit
  <2> QED
    BY <2>1, <2>2, ScheduleKept
<1>21. ASSUME NEW p \in Prompts, SpawnChained(p) PROVE Scheduled'
  <2>1. /\ UNCHANGED <<closing, entry, sched, reparked, recording, outcome>>
        /\ pc[p] = "chained" /\ \E y \in {"logging", "dropped", "lost"} : pc' = [pc EXCEPT ![p] = y]
    BY <1>21 DEF SpawnChained, StampTurn, Unstarted
  <2>2. CASE closing = "none"
    <3>1. status' = status
      BY <1>21, <2>1, <2>2 DEF SpawnChained, StampTurn, GapReady, GapPCs, Ready, Closing, ChainedReady
    <3>2. \A q \in Prompts : pc'[q] = pc[q] \/ (q = p /\ pc'[q] \in {"logging", "dropped", "lost"})
      BY <1>a, <2>1 DEF TypeTasks
    <3>3. \A q \in Prompts :
             /\ pc'[q] \in Busy \ {"reserved"} => pc[q] \in Busy \ {"reserved"}
             /\ pc'[q] = "reserved" <=> pc[q] = "reserved"
             /\ pc'[q] = "resuming" => pc[q] = "resuming"
             /\ pc'[q] = "recording" <=> pc[q] = "recording"
             /\ pc[q] = "recording" => outcome'[q] = outcome[q]
      BY <2>1, <3>2 DEF Busy, TurnPCs, GapPCs
    <3> QED
      BY <2>1, <3>1, <3>3, ScheduleKept
  <2>3. CASE closing # "none"
    BY <2>1, <2>3 DEF Scheduled
  <2> QED
    BY <2>2, <2>3
<1>22. ASSUME NEW p \in Prompts, Repark(p) PROVE Scheduled'
  <2>s. SUFFICES ASSUME closing = "none" PROVE OnSchedule'
    BY <1>22 DEF Repark, Scheduled
  <2>0. FlagShown /\ DueFlagged /\ ResumeOnce /\ BusyUnflagged /\ ParkTold /\ Recorder /\ EndMarked
    BY <2>s DEF Scheduled, OnSchedule
  <2>1. /\ UNCHANGED <<entry, sched, recording, outcome>> /\ pc[p] = "chained"
        /\ reparked' = p /\ status' = "rate_limited"
    BY <1>22 DEF Repark
  <2>2. \A q \in Prompts : pc'[q] = IF q = p THEN "queued" ELSE pc[q]
    BY <1>22, <1>a DEF Repark, TypeTasks
  <2>3. ~Flagged /\ ~Flagged' /\ pc[p] \in Busy
    BY <2>0, <2>1 DEF BusyUnflagged, Busy, GapPCs, Flagged
  <2>4. \A q \in Prompts : pc[q] # "recording" /\ (q # p => pc[q] \notin Busy)
    BY <1>a, <1>f, <1>s, <1>u, <2>1, <2>3 DEF WireOwned, Holding, Alone
  <2>5. p # None
    BY <1>f
  <2>a. FlagShown'
    BY <2>0, <2>1, <2>2, <2>3, <2>4, <2>5 DEF FlagShown
  <2>b. DueFlagged'
    BY <2>0, <2>1, <2>2, <2>3, <2>4, <2>5 DEF DueFlagged
  <2>c. ResumeOnce'
    BY <2>0, <2>1, <2>2, <2>3, <2>4, <2>5 DEF ResumeOnce, Busy, GapPCs
  <2>d. BusyUnflagged'
    BY <2>0, <2>1, <2>2, <2>3, <2>4, <2>5 DEF BusyUnflagged, Busy, TurnPCs, GapPCs
  <2>e. ParkTold'
    BY <2>0, <2>1, <2>2, <2>3, <2>4, <2>5 DEF ParkTold
  <2>f. Recorder'
    BY <2>0, <2>1, <2>2, <2>3, <2>4, <2>5 DEF Recorder, Limited, Busy, TurnPCs, GapPCs
  <2>g. EndMarked'
    BY <2>0, <2>1, <2>2, <2>3, <2>4, <2>5 DEF EndMarked
  <2> QED
    BY <2>a, <2>b, <2>c, <2>d, <2>e, <2>f, <2>g DEF OnSchedule
<1>23. ASSUME NEW p \in Prompts, ReserveResume(p) PROVE Scheduled'
  <2>s. SUFFICES ASSUME closing = "none" PROVE OnSchedule'
    BY <1>23 DEF ReserveResume, Scheduled
  <2>0. FlagShown /\ DueFlagged /\ ResumeOnce /\ BusyUnflagged /\ ParkTold /\ Recorder /\ EndMarked
    BY <2>s DEF Scheduled, OnSchedule
  <2>1. /\ UNCHANGED <<entry, recording, outcome, reparked>> /\ sched = "due" /\ sched' = "idle"
        /\ status = "rate_limited" /\ status' = "running"
    BY <1>23 DEF ReserveResume, ReserveSlot
  <2>2. \A q \in Prompts : pc'[q] = IF q = p THEN "reserved" ELSE pc[q]
    BY <1>23, <1>a DEF ReserveResume, TypeTasks
  <2>3. Flagged /\ Flagged'
    BY <2>0, <2>1 DEF DueFlagged, Flagged
  <2>4. reparked = None /\ \A q \in Prompts : ~Limited(q)
    BY <2>0, <2>3 DEF Recorder
  <2>5. \A q \in Prompts : pc[q] \notin Busy
    BY <1>s, <1>u, <2>1 DEF Blocks
  <2>a. FlagShown'
    BY <2>0, <2>1, <2>2, <2>3, <2>4, <2>5 DEF FlagShown
  <2>b. DueFlagged'
    BY <2>0, <2>1, <2>2, <2>3, <2>4, <2>5 DEF DueFlagged
  <2>c. ResumeOnce'
    BY <2>0, <2>1, <2>2, <2>3, <2>4, <2>5 DEF ResumeOnce
  <2>d. BusyUnflagged'
    BY <2>0, <2>1, <2>2, <2>3, <2>4, <2>5 DEF BusyUnflagged, Busy
  <2>e. ParkTold'
    BY <2>0, <2>1, <2>2, <2>3, <2>4, <2>5 DEF ParkTold
  <2>f. Recorder'
    BY <2>0, <2>1, <2>2, <2>3, <2>4, <2>5 DEF Recorder, Limited
  <2>g. EndMarked'
    BY <2>0, <2>1, <2>2, <2>3, <2>4, <2>5 DEF EndMarked
  <2> QED
    BY <2>a, <2>b, <2>c, <2>d, <2>e, <2>f, <2>g DEF OnSchedule
<1>24. ASSUME NEW p \in Prompts, ClearParked(p) PROVE Scheduled'
  <2>s. SUFFICES ASSUME closing = "none" PROVE OnSchedule'
    BY <1>24 DEF ClearParked, Scheduled
  <2>0. FlagShown /\ DueFlagged /\ ResumeOnce /\ BusyUnflagged /\ ParkTold /\ Recorder /\ EndMarked
    BY <2>s DEF Scheduled, OnSchedule
  <2>1. UNCHANGED <<status, sched, recording, outcome, reparked>> /\ pc[p] = "reserved"
    BY <1>24 DEF ClearParked
  <2>2. \A q \in Prompts : pc'[q] = IF q = p THEN "resuming" ELSE pc[q]
    BY <1>24, <1>a DEF ClearParked, TypeTasks
  <2>3. ~Flagged'
    BY <1>24, <1>a DEF ClearParked, TypeRuntime, RegistryEntry, Flagged
  <2>4. pc[p] \in Busy
    BY <2>1 DEF Busy, GapPCs
  <2>5. status # "rate_limited" /\ sched = "idle"
    BY <1>s, <1>u, <2>s, <2>0, <2>1, <2>4 DEF Blocks, ResumeOnce
  <2>6. reparked = None /\ \A q \in Prompts : ~Limited(q)
    BY <2>0, <2>4 DEF Recorder
  <2>a. FlagShown'
    BY <2>0, <2>1, <2>2, <2>3, <2>5, <2>6 DEF FlagShown
  <2>b. DueFlagged'
    BY <2>0, <2>1, <2>2, <2>3, <2>5, <2>6 DEF DueFlagged
  <2>c. ResumeOnce'
    BY <2>0, <2>1, <2>2, <2>3, <2>5, <2>6 DEF ResumeOnce
  <2>d. BusyUnflagged'
    BY <2>0, <2>1, <2>2, <2>3, <2>5, <2>6 DEF BusyUnflagged
  <2>e. ParkTold'
    BY <2>0, <2>1, <2>2, <2>3, <2>5, <2>6 DEF ParkTold
  <2>f. Recorder'
    BY <2>0, <2>1, <2>2, <2>3, <2>5, <2>6 DEF Recorder, Limited
  <2>g. EndMarked'
    BY <2>0, <2>1, <2>2, <2>3, <2>5, <2>6 DEF EndMarked
  <2> QED
    BY <2>a, <2>b, <2>c, <2>d, <2>e, <2>f, <2>g DEF OnSchedule
<1>25. ASSUME NEW p \in Prompts, ResumeBegin(p) PROVE Scheduled'
  <2>1. /\ UNCHANGED <<closing, entry, sched, reparked, recording, outcome>>
        /\ pc[p] = "resuming" /\ \E y \in {"logging", "dropped", "lost"} : pc' = [pc EXCEPT ![p] = y]
    BY <1>25 DEF ResumeBegin, StampTurn, Unstarted
  <2>2. CASE closing = "none"
    <3>1. status' = status
      BY <1>25, <2>1, <2>2 DEF ResumeBegin, StampTurn, GapReady, GapPCs, Ready, Closing, ChainedReady
    <3>2. \A q \in Prompts : pc'[q] = pc[q] \/ (q = p /\ pc'[q] \in {"logging", "dropped", "lost"})
      BY <1>a, <2>1 DEF TypeTasks
    <3>3. \A q \in Prompts :
             /\ pc'[q] \in Busy \ {"reserved"} => pc[q] \in Busy \ {"reserved"}
             /\ pc'[q] = "reserved" <=> pc[q] = "reserved"
             /\ pc'[q] = "resuming" => pc[q] = "resuming"
             /\ pc'[q] = "recording" <=> pc[q] = "recording"
             /\ pc[q] = "recording" => outcome'[q] = outcome[q]
      BY <2>1, <3>2 DEF Busy, TurnPCs, GapPCs
    <3> QED
      BY <2>1, <3>1, <3>3, ScheduleKept
  <2>3. CASE closing # "none"
    BY <2>1, <2>3 DEF Scheduled
  <2> QED
    BY <2>2, <2>3
<1>26. ASSUME NEW p \in Prompts, Answer(p) PROVE Scheduled'
  <2>1. \A q \in Prompts :
           /\ pc'[q] \in Busy \ {"reserved"} => pc[q] \in Busy \ {"reserved"}
           /\ pc'[q] = "reserved" <=> pc[q] = "reserved"
           /\ pc'[q] = "resuming" => pc[q] = "resuming"
           /\ pc'[q] = "recording" <=> pc[q] = "recording"
           /\ pc[q] = "recording" => outcome'[q] = outcome[q]
    BY <1>26, <1>a, <1>b, <1>d, <1>f DEF Answer, Busy, TurnPCs, GapPCs, TypeTasks,
       OutOwned
  <2>2. /\ UNCHANGED <<closing, status, sched, reparked, recording>>
        /\ entry'.parked = entry.parked
    BY <1>26, <1>a, <1>d, <1>u DEF Answer, OutOwned
  <2> QED
    BY <2>1, <2>2, ScheduleKept
<1>27. ASSUME NEW r \in Perms, QueueForPermit(r) PROVE Scheduled'
  BY <1>27
<1>28. ASSUME NEW r \in Perms, Permit(r) PROVE Scheduled'
  BY <1>28
<1>29. ASSUME NEW r \in Perms, PermitAnswered(r) PROVE Scheduled'
  BY <1>29
<1>30. CASE RecordPark
  <2>s. SUFFICES ASSUME closing = "none" PROVE OnSchedule'
    BY <1>30 DEF RecordPark, Scheduled
  <2>0. FlagShown /\ DueFlagged /\ ResumeOnce /\ BusyUnflagged /\ ParkTold /\ Recorder /\ EndMarked
    BY <2>s DEF Scheduled, OnSchedule
  <2>1. /\ UNCHANGED <<status, sched, recording, outcome, pc>>
        /\ reparked # None /\ reparked' = None
    BY <1>30 DEF RecordPark
  <2>2. entry'.parked = "queue"
    BY <1>30, <1>a, <2>s DEF RecordPark, TypeRuntime, RegistryEntry
  <2>3. Flagged' /\ status \in {"rate_limited", "exited"} /\ \A q \in Prompts : pc[q] \notin Busy
    BY <2>0, <2>1, <2>2 DEF Recorder, Flagged, NoPark
  <2>4. \A q \in Prompts : pc[q] # "recording"
    BY <1>a, <1>f, <2>1 DEF WireOwned, ReparkOwned, Holding
  <2>a. FlagShown'
    BY <2>0, <2>1, <2>3, <2>4 DEF FlagShown
  <2>b. DueFlagged'
    BY <2>0, <2>1, <2>3, <2>4 DEF DueFlagged
  <2>c. ResumeOnce'
    BY <2>0, <2>1, <2>3, <2>4 DEF ResumeOnce
  <2>d. BusyUnflagged'
    BY <2>0, <2>1, <2>3, <2>4 DEF BusyUnflagged, Busy
  <2>e. ParkTold'
    BY <2>0, <2>1, <2>3, <2>4 DEF ParkTold
  <2>f. Recorder'
    BY <2>0, <2>1, <2>3, <2>4 DEF Recorder, Limited
  <2>g. EndMarked'
    BY <2>0, <2>1, <2>3, <2>4 DEF EndMarked
  <2> QED
    BY <2>a, <2>b, <2>c, <2>d, <2>e, <2>f, <2>g DEF OnSchedule
<1>31. CASE ParkedDue
  <2>s. SUFFICES ASSUME closing = "none" PROVE OnSchedule'
    BY <1>31 DEF ParkedDue, Scheduled
  <2>0. FlagShown /\ DueFlagged /\ ResumeOnce /\ BusyUnflagged /\ ParkTold /\ Recorder /\ EndMarked
    BY <2>s DEF Scheduled, OnSchedule
  <2>1. UNCHANGED <<entry, status, recording, outcome, pc, reparked>> /\ sched' = "due"
    BY <1>31 DEF ParkedDue
  <2>2. Flagged /\ \A q \in Prompts : pc[q] \notin {"reserved", "resuming"}
    BY <1>31 DEF ParkedDue, SchedulerFree, Due, Flagged
  <2>3. Flagged' = Flagged
    BY <2>1 DEF Flagged
  <2>a. FlagShown'
    BY <2>0, <2>1, <2>2, <2>3 DEF FlagShown
  <2>b. DueFlagged'
    BY <2>0, <2>1, <2>2, <2>3 DEF DueFlagged
  <2>c. ResumeOnce'
    BY <2>0, <2>1, <2>2, <2>3 DEF ResumeOnce
  <2>d. BusyUnflagged'
    BY <2>0, <2>1, <2>2, <2>3 DEF BusyUnflagged
  <2>e. ParkTold'
    BY <2>0, <2>1, <2>2, <2>3 DEF ParkTold, Limited
  <2>f. Recorder'
    BY <2>0, <2>1, <2>2, <2>3 DEF Recorder, Limited
  <2>g. EndMarked'
    BY <2>0, <2>1, <2>2, <2>3 DEF EndMarked
  <2> QED
    BY <2>a, <2>b, <2>c, <2>d, <2>e, <2>f, <2>g DEF OnSchedule
<1>32. CASE PassOver
  <2>s. SUFFICES ASSUME closing = "none" PROVE OnSchedule'
    BY <1>32 DEF PassOver, Scheduled
  <2>0. FlagShown /\ DueFlagged /\ ResumeOnce /\ BusyUnflagged /\ ParkTold /\ Recorder /\ EndMarked
    BY <2>s DEF Scheduled, OnSchedule
  <2>1. UNCHANGED <<entry, status, recording, outcome, pc, reparked>> /\ sched = "due"
    BY <1>32 DEF PassOver
  <2>2. Flagged /\ Flagged' = Flagged
    BY <2>0, <2>1 DEF DueFlagged, Flagged
  <2>3. status # "rate_limited"
    BY <1>32, <1>u, <2>s DEF PassOver
  <2>4. sched' = "idle"
    BY <1>32, <1>u, <2>0, <2>1, <2>2, <2>3 DEF PassOver, FlagShown, ResumeOnce
  <2>a. FlagShown'
    BY <2>0, <2>1, <2>2, <2>4 DEF FlagShown
  <2>b. DueFlagged'
    BY <2>0, <2>1, <2>2, <2>4 DEF DueFlagged
  <2>c. ResumeOnce'
    BY <2>0, <2>1, <2>2, <2>4 DEF ResumeOnce
  <2>d. BusyUnflagged'
    BY <2>0, <2>1, <2>2, <2>4 DEF BusyUnflagged
  <2>e. ParkTold'
    BY <2>0, <2>1, <2>2, <2>4 DEF ParkTold, Limited
  <2>f. Recorder'
    BY <2>0, <2>1, <2>2, <2>4 DEF Recorder, Limited
  <2>g. EndMarked'
    BY <2>0, <2>1, <2>2, <2>4 DEF EndMarked
  <2> QED
    BY <2>a, <2>b, <2>c, <2>d, <2>e, <2>f, <2>g DEF OnSchedule
<1>33. CASE ClearStale
  <2>1. closing' = closing /\ sched = "stale"
    BY <1>33 DEF ClearStale
  <2> QED
    BY <2>1 DEF Scheduled, OnSchedule, DueFlagged
<1>34. CASE UnscheduleResume
  <2>1. closing' = closing /\ closer = "unschedule"
    BY <1>34 DEF UnscheduleResume
  <2> QED
    BY <1>u, <2>1 DEF Scheduled
<1>35. CASE Teardown
  <2>1. closing' # "none"
    BY <1>35 DEF Teardown, CloseSub, DropQueue, AnswerPending
  <2> QED
    BY <2>1 DEF Scheduled
<1>36. CASE HandedClose
  <2>1. closing' # "none"
    BY <1>36 DEF HandedClose, CloseSub, DropQueue, AnswerPending
  <2> QED
    BY <2>1 DEF Scheduled
<1>37. CASE OnDisconnect
  <2>1. CASE closing # "none"
    <3>1. closing' # "none"
      BY <1>37, <2>1 DEF OnDisconnect
    <3> QED
      BY <3>1 DEF Scheduled
  <2>2. CASE closing = "none"
    <3>1. FlagShown /\ DueFlagged /\ ResumeOnce /\ BusyUnflagged /\ ParkTold /\ Recorder /\ EndMarked
      BY <2>2 DEF Scheduled, OnSchedule
    <3>2. UNCHANGED <<entry, sched, reparked, recording, outcome>> /\ status' = "exited"
      BY <1>37, <2>2 DEF OnDisconnect
    <3>3. \A q \in Prompts : pc'[q] = pc[q] \/ (pc[q] = "queued" /\ pc'[q] = "dropped")
      BY <1>37, <1>a, <1>b, <2>2 DEF OnDisconnect, DropQueue, TypeTasks
    <3>4. Flagged' = Flagged
      BY <3>2 DEF Flagged
    <3>5. \A q \in Prompts : Limited(q)' = Limited(q)
      BY <3>2, <3>3 DEF Limited
    <3>6. \A q \in Prompts : pc'[q] \in Busy => pc'[q] = pc[q]
      BY <3>3 DEF Busy, TurnPCs, GapPCs
    <3>a. FlagShown' /\ ParkTold' /\ EndMarked'
      BY <3>2 DEF FlagShown, ParkTold, EndMarked
    <3>b. DueFlagged' /\ ResumeOnce'
      BY <3>1, <3>2, <3>3, <3>4 DEF DueFlagged, ResumeOnce
    <3>c. BusyUnflagged'
      BY <3>1, <3>4, <3>6 DEF BusyUnflagged
    <3>d. Recorder'
      BY <3>1, <3>2, <3>4, <3>5, <3>6 DEF Recorder
    <3> QED
      BY <3>a, <3>b, <3>c, <3>d DEF OnSchedule, Scheduled
  <2> QED
    BY <2>1, <2>2
<1>38. CASE SessionUpdate
  <2>1. FALSE
    BY <1>38, <1>s DEF SessionUpdate, SteersAbsent, OldestSteer, Oldest
  <2> QED
    BY <2>1
<1>39. CASE CancelTurn
  <2>1. \A q \in Prompts :
           /\ pc'[q] \in Busy \ {"reserved"} => pc[q] \in Busy \ {"reserved"}
           /\ pc'[q] = "reserved" <=> pc[q] = "reserved"
           /\ pc'[q] = "resuming" => pc[q] = "resuming"
           /\ pc'[q] = "recording" <=> pc[q] = "recording"
           /\ pc[q] = "recording" => outcome'[q] = outcome[q]
    BY <1>39, <1>a, <1>b, <1>d, <1>f DEF CancelTurn, DropQueue, AnswerPending, Busy,
       TurnPCs, GapPCs, TypeTasks
  <2>2. /\ UNCHANGED <<closing, status, sched, reparked, recording>>
        /\ entry'.parked = entry.parked
    BY <1>39, <1>a, <1>d, <1>u DEF CancelTurn, DropQueue, AnswerPending
  <2> QED
    BY <2>1, <2>2, ScheduleKept
<1>40. CASE CloseSession
  <2>1. closing' # "none"
    BY <1>40 DEF CloseSession
  <2> QED
    BY <2>1 DEF Scheduled
<1>41. CASE Supersede
  BY <1>41 DEF Supersede
<1>42. CASE HandoffOne
  BY <1>42, <1>u DEF HandoffOne
<1>43. CASE HandoffReported
  BY <1>43, <1>u DEF HandoffReported
<1> QED
  BY <1>1, <1>2, <1>3, <1>4, <1>5, <1>6, <1>7, <1>8, <1>9, <1>10, <1>11, <1>12, <1>13,
     <1>14, <1>15, <1>16, <1>17, <1>18, <1>19, <1>20, <1>21, <1>22, <1>23, <1>24, <1>25,
     <1>26, <1>27, <1>28, <1>29, <1>30, <1>31, <1>32, <1>33, <1>34, <1>35, <1>36, <1>37,
     <1>38, <1>39, <1>40, <1>41, <1>42, <1>43 DEF Next, WireFree, WireTaking, Scheduler,
     Teardowns, Prompts

\* In a session nobody steers, that raises no permission request, in a daemon
\* that is not taken over: outside the windows in which its park is being
\* recorded, a parked session has its registry flag up, and so a resume.
THEOREM ParkedHasScheduleHolds ==
    ASSUME "steer" \notin Policies, Perms = {}, "handover" \notin Events
    PROVE  Spec => []ParkedHasSchedule
<1> DEFINE I == TurnHasCurrent /\ Scheduled
<1>1. Init => I
  BY DEF Init, TurnHasCurrent, TurnPCs, Busy, GapPCs, Scheduled, OnSchedule, FlagShown, DueFlagged,
     ResumeOnce, BusyUnflagged, ParkTold, Recorder, EndMarked, Flagged, Limited
<1>2. IndInv /\ Handoff /\ I /\ [Next]_vars => I'
  BY TurnHasCurrentStep, ScheduledStep DEF IndInv, Handoff
<1>3. I => ParkedHasSchedule
  BY DEF Scheduled, OnSchedule, ParkTold, EndMarked, Flagged, Limited, ParkedHasSchedule
<1> HIDE DEF I
<1> QED
  BY <1>1, <1>2, <1>3, Inductive, HandoffInvariant, PTL DEF Spec

-----------------------------------------------------------------------------
(* A session that meets no limit                                           *)

\* Nobody meets a limit, so the scope's gate never goes up.
Unlimited ==
    /\ ~gate
    /\ \A p \in Prompts : outcome[p] # "limit" /\ pc[p] \notin {"noting", "steer_noting"}

\* Only a limit that is met raises the gate.
LEMMA UnlimitedStep ==
    ASSUME "limit" \notin Events, TypeOK, Ownership, Unlimited, [Next]_vars
    PROVE  Unlimited'
<1> USE DEF turnVars, steerVars, rtVars, taskVars, soloVars, permVars, agentVars, histVars
<1>a. /\ TypeTurns /\ TypeTasks /\ TypeRuntime /\ TypeSolo
      /\ OutOwned /\ QueueOwned
  BY DEF TypeOK, Ownership
<1>b. \A q \in Range(queue) : pc[q] = "queued"
  BY <1>a, RangeQueued
<1>f. None \notin Prompts /\ Policies \subseteq {"try", "queued", "steer"}
  BY PromptsAssumption, PoliciesAssumption
<1>1. ASSUME NEW r \in Perms,
             AskPermission(r) \/ QueueForPermit(r) \/ Permit(r) \/ PermitAnswered(r)
      PROVE  Unlimited'
  <2>1. UNCHANGED <<gate, pc, outcome>>
    BY <1>1 DEF AskPermission, QueueForPermit, Permit, Unblocked, PermitAnswered
  <2> QED
    BY <2>1, <1>a DEF Unlimited
<1>2. CASE RecordPark \/ ParkedDue \/ PassOver \/ ClearStale \/ UnscheduleResume \/
   SessionUpdate \/ CancelSend \/ AgentDies \/ CloseSession \/ Supersede \/ WatchScan \/
   HandoffOne
  <2>1. UNCHANGED <<gate, pc, outcome>>
    BY <1>2 DEF RecordPark, ParkedDue, PassOver, ClearStale, UnscheduleResume,
       SessionUpdate, CancelSend, AgentDies, CloseSession, Supersede, WatchScan,
       HandoffOne
  <2> QED
    BY <2>1, <1>a DEF Unlimited
<1>3. CASE HandoffReported \/ UNCHANGED vars
  <2>1. UNCHANGED <<gate, pc, outcome>>
    BY <1>3 DEF HandoffReported, vars
  <2> QED
    BY <2>1, <1>a DEF Unlimited
<1>4. ASSUME NEW p \in Prompts, Send(p) PROVE Unlimited'
  <2>1. \A q \in Prompts : pc'[q] \in {"noting", "steer_noting"} => pc[q] = pc'[q]
    BY <1>4, <1>a, <1>b, <1>f DEF Send, TypeTasks
  <2>2. outcome' = outcome /\ (gate' => gate)
    BY <1>4 DEF Send
  <2> QED
    BY <2>1, <2>2 DEF Unlimited
<1>5. ASSUME NEW p \in Prompts, SendQueued(p) PROVE Unlimited'
  <2>1. \A q \in Prompts : pc'[q] \in {"noting", "steer_noting"} => pc[q] = pc'[q]
    BY <1>5, <1>a, <1>b, <1>f DEF SendQueued, TypeTasks
  <2>2. outcome' = outcome /\ (gate' => gate)
    BY <1>5 DEF SendQueued
  <2> QED
    BY <2>1, <2>2 DEF Unlimited
<1>6. ASSUME NEW p \in Prompts, SteerSend(p) PROVE Unlimited'
  <2>1. \A q \in Prompts : pc'[q] \in {"noting", "steer_noting"} => pc[q] = pc'[q]
    BY <1>6, <1>a, <1>b, <1>f DEF SteerSend, TypeTasks, SteerPCs
  <2>2. outcome' = outcome /\ (gate' => gate)
    BY <1>6 DEF SteerSend
  <2> QED
    BY <2>1, <2>2 DEF Unlimited
<1>7. ASSUME NEW p \in Prompts, BeginChecked(p) PROVE Unlimited'
  <2>1. \A q \in Prompts : pc'[q] \in {"noting", "steer_noting"} => pc[q] = pc'[q]
    BY <1>7, <1>a, <1>b, <1>f DEF BeginChecked, StampTurn, TypeTasks
  <2>2. outcome' = outcome /\ (gate' => gate)
    BY <1>7 DEF BeginChecked, StampTurn
  <2> QED
    BY <2>1, <2>2 DEF Unlimited
<1>8. ASSUME NEW p \in Prompts, LogPrompt(p) PROVE Unlimited'
  <2>1. \A q \in Prompts : pc'[q] \in {"noting", "steer_noting"} => pc[q] = pc'[q]
    BY <1>8, <1>a, <1>b, <1>f DEF LogPrompt, TypeTasks
  <2>2. outcome' = outcome /\ (gate' => gate)
    BY <1>8 DEF LogPrompt
  <2> QED
    BY <2>1, <2>2 DEF Unlimited
<1>9. ASSUME NEW p \in Prompts, LogFails(p) PROVE Unlimited'
  <2>1. \A q \in Prompts : pc'[q] \in {"noting", "steer_noting"} => pc[q] = pc'[q]
    BY <1>9, <1>a, <1>b, <1>f DEF LogFails, TypeTasks
  <2>2. outcome' = outcome /\ (gate' => gate)
    BY <1>9 DEF LogFails
  <2> QED
    BY <2>1, <2>2 DEF Unlimited
<1>10. ASSUME NEW p \in Prompts, SendPrompt(p) PROVE Unlimited'
  <2>1. \A q \in Prompts : pc'[q] \in {"noting", "steer_noting"} => pc[q] = pc'[q]
    BY <1>10, <1>a, <1>b, <1>f DEF SendPrompt, TypeTasks
  <2>2. outcome' = outcome /\ (gate' => gate)
    BY <1>10 DEF SendPrompt
  <2> QED
    BY <2>1, <2>2 DEF Unlimited
<1>11. ASSUME NEW p \in Prompts, SteerPush(p) PROVE Unlimited'
  <2>1. \A q \in Prompts : pc'[q] \in {"noting", "steer_noting"} => pc[q] = pc'[q]
    BY <1>11, <1>a, <1>b, <1>f DEF SteerPush, TypeTasks, SteerPCs
  <2>2. outcome' = outcome /\ (gate' => gate)
    BY <1>11 DEF SteerPush
  <2> QED
    BY <2>1, <2>2 DEF Unlimited
<1>12. ASSUME NEW p \in Prompts, SteerEnqueue(p) PROVE Unlimited'
  <2>1. \A q \in Prompts : pc'[q] \in {"noting", "steer_noting"} => pc[q] = pc'[q]
    BY <1>12, <1>a, <1>b, <1>f DEF SteerEnqueue, TypeTasks, SteerPCs
  <2>2. outcome' = outcome /\ (gate' => gate)
    BY <1>12 DEF SteerEnqueue
  <2> QED
    BY <2>1, <2>2 DEF Unlimited
<1>13. ASSUME NEW p \in Prompts, SteerNoteLimit(p) PROVE Unlimited'
  BY <1>13 DEF SteerNoteLimit, Unlimited
<1>14. ASSUME NEW p \in Prompts, SteerResolved(p) PROVE Unlimited'
  <2>1. queue # << >> => Head(queue) \in Prompts
    BY <1>a, HeadQueued
  <2>2. \A q \in Prompts : pc'[q] \in {"noting", "steer_noting"} => pc[q] = pc'[q]
    BY <1>14, <1>a, <2>1 DEF SteerResolved, TypeTasks
  <2>3. UNCHANGED <<outcome, gate>>
    BY <1>14 DEF SteerResolved
  <2> QED
    BY <2>2, <2>3 DEF Unlimited
<1>15. ASSUME NEW p \in Prompts, KickWire(p) PROVE Unlimited'
  <2>1. \A q \in Prompts : pc'[q] \in {"noting", "steer_noting"} => pc[q] = pc'[q]
    BY <1>15, <1>a, <1>b, <1>f DEF KickWire, TypeTasks
  <2>2. outcome' = outcome /\ (gate' => gate)
    BY <1>15 DEF KickWire
  <2> QED
    BY <2>1, <2>2 DEF Unlimited
<1>16. ASSUME NEW p \in Prompts, SettleTurn(p) PROVE Unlimited'
  <2>1. \A q \in Prompts : pc'[q] \in {"noting", "steer_noting"} => pc[q] = pc'[q]
    BY <1>16, <1>a, <1>b, <1>f DEF SettleTurn, CloseCurrent, FinishBegins,
       UnchangedByFinish, DropQueue, ChainReady, TypeTasks
  <2>2. outcome' = outcome /\ (gate' => gate)
    BY <1>16 DEF SettleTurn, CloseCurrent, FinishBegins, UnchangedByFinish, DropQueue,
       ChainReady
  <2> QED
    BY <2>1, <2>2 DEF Unlimited
<1>17. ASSUME NEW p \in Prompts, FailTurn(p) PROVE Unlimited'
  <2>1. \A q \in Prompts : pc'[q] \in {"noting", "steer_noting"} => pc[q] = pc'[q]
    BY <1>17, <1>a, <1>b, <1>f DEF FailTurn, CloseCurrent, FinishBegins,
       UnchangedByFinish, DropQueue, TypeTasks
  <2>2. outcome' = outcome /\ (gate' => gate)
    BY <1>17 DEF FailTurn, CloseCurrent, FinishBegins, UnchangedByFinish, DropQueue
  <2> QED
    BY <2>1, <2>2 DEF Unlimited
<1>18. ASSUME NEW p \in Prompts, ParkTurn(p) PROVE Unlimited'
  <2>1. \A q \in Prompts : pc'[q] \in {"noting", "steer_noting"} => pc[q] = pc'[q]
    BY <1>18, <1>a, <1>b, <1>f DEF ParkTurn, CloseCurrent, FinishBegins,
       UnchangedByFinish, TypeTasks
  <2>2. outcome' = outcome /\ (gate' => gate)
    BY <1>18 DEF ParkTurn, CloseCurrent, FinishBegins, UnchangedByFinish
  <2> QED
    BY <2>1, <2>2 DEF Unlimited
<1>19. ASSUME NEW p \in Prompts, RecordTurnEnd(p) PROVE Unlimited'
  <2>1. \A q \in Prompts : pc'[q] \in {"noting", "steer_noting"} => pc[q] = pc'[q]
    BY <1>19, <1>a, <1>b, <1>f DEF RecordTurnEnd, TypeTasks
  <2>2. outcome' = outcome /\ (gate' => gate)
    BY <1>19 DEF RecordTurnEnd
  <2> QED
    BY <2>1, <2>2 DEF Unlimited
<1>20. ASSUME NEW p \in Prompts, ClearRecording(p) PROVE Unlimited'
  <2>1. \A q \in Prompts : pc'[q] \in {"noting", "steer_noting"} => pc[q] = pc'[q]
    BY <1>20, <1>a DEF ClearRecording, Unlimited, TypeTasks
  <2>2. UNCHANGED <<outcome, gate>>
    BY <1>20 DEF ClearRecording
  <2> QED
    BY <2>1, <2>2 DEF Unlimited
<1>21. ASSUME NEW p \in Prompts, NoteLimit(p) PROVE Unlimited'
  BY <1>21 DEF NoteLimit, Unlimited
<1>22. ASSUME NEW p \in Prompts, SpawnChained(p) PROVE Unlimited'
  <2>1. \A q \in Prompts : pc'[q] \in {"noting", "steer_noting"} => pc[q] = pc'[q]
    BY <1>22, <1>a, <1>b, <1>f DEF SpawnChained, StampTurn, Unstarted, TypeTasks
  <2>2. outcome' = outcome /\ (gate' => gate)
    BY <1>22 DEF SpawnChained, StampTurn, Unstarted
  <2> QED
    BY <2>1, <2>2 DEF Unlimited
<1>23. ASSUME NEW p \in Prompts, Repark(p) PROVE Unlimited'
  <2>1. \A q \in Prompts : pc'[q] \in {"noting", "steer_noting"} => pc[q] = pc'[q]
    BY <1>23, <1>a, <1>b, <1>f DEF Repark, Requeued, TypeTasks
  <2>2. outcome' = outcome /\ (gate' => gate)
    BY <1>23 DEF Repark, Requeued
  <2> QED
    BY <2>1, <2>2 DEF Unlimited
<1>24. ASSUME NEW p \in Prompts, ReserveResume(p) PROVE Unlimited'
  <2>1. \A q \in Prompts : pc'[q] \in {"noting", "steer_noting"} => pc[q] = pc'[q]
    BY <1>24, <1>a, <1>b, <1>f, HeadQueued DEF ReserveResume, ReserveSlot, TypeTasks
  <2>2. outcome' = outcome /\ (gate' => gate)
    BY <1>24 DEF ReserveResume, ReserveSlot
  <2> QED
    BY <2>1, <2>2 DEF Unlimited
<1>25. ASSUME NEW p \in Prompts, ClearParked(p) PROVE Unlimited'
  <2>1. \A q \in Prompts : pc'[q] \in {"noting", "steer_noting"} => pc[q] = pc'[q]
    BY <1>25, <1>a, <1>b, <1>f DEF ClearParked, TypeTasks
  <2>2. outcome' = outcome /\ (gate' => gate)
    BY <1>25 DEF ClearParked
  <2> QED
    BY <2>1, <2>2 DEF Unlimited
<1>26. ASSUME NEW p \in Prompts, ResumeBegin(p) PROVE Unlimited'
  <2>1. \A q \in Prompts : pc'[q] \in {"noting", "steer_noting"} => pc[q] = pc'[q]
    BY <1>26, <1>a, <1>b, <1>f DEF ResumeBegin, StampTurn, Unstarted, TypeTasks
  <2>2. outcome' = outcome /\ (gate' => gate)
    BY <1>26 DEF ResumeBegin, StampTurn, Unstarted
  <2> QED
    BY <2>1, <2>2 DEF Unlimited
<1>27. ASSUME NEW p \in Prompts, Answer(p) PROVE Unlimited'
  <2>1. PICK o \in Outcomes : /\ o # "limit" /\ outcome' = [outcome EXCEPT ![p] = o]
                              /\ pc' = [pc EXCEPT ![p] = IF pc[p] = "inturn" THEN "ended"
                                        ELSE IF o = "limit" THEN "steer_noting" ELSE "steer_resolve"]
    BY <1>27 DEF Answer
  <2>2. gate' = gate
    BY <1>27 DEF Answer
  <2> QED
    BY <1>a, <2>1, <2>2 DEF Unlimited, TypeTasks
<1>28. CASE Teardown
  <2>1. \A q \in Prompts : pc'[q] \in {"noting", "steer_noting"} => pc[q] = pc'[q]
    BY <1>28, <1>a, <1>b, <1>f DEF Teardown, CloseSub, DropQueue, AnswerPending,
       TypeTasks
  <2>2. outcome' = outcome /\ (gate' => gate)
    BY <1>28 DEF Teardown, CloseSub, DropQueue, AnswerPending
  <2> QED
    BY <2>1, <2>2 DEF Unlimited
<1>29. CASE HandedClose
  <2>1. \A q \in Prompts : pc'[q] \in {"noting", "steer_noting"} => pc[q] = pc'[q]
    BY <1>29, <1>a, <1>b, <1>f DEF HandedClose, CloseSub, DropQueue, AnswerPending,
       TypeTasks
  <2>2. outcome' = outcome /\ (gate' => gate)
    BY <1>29 DEF HandedClose, CloseSub, DropQueue, AnswerPending
  <2> QED
    BY <2>1, <2>2 DEF Unlimited
<1>30. CASE OnDisconnect
  <2>1. \A q \in Prompts : pc'[q] \in {"noting", "steer_noting"} => pc[q] = pc'[q]
    BY <1>30, <1>a, <1>b, <1>f DEF OnDisconnect, DropQueue, AnswerPending, TypeTasks
  <2>2. outcome' = outcome /\ (gate' => gate)
    BY <1>30 DEF OnDisconnect, DropQueue, AnswerPending
  <2> QED
    BY <2>1, <2>2 DEF Unlimited
<1>31. CASE CancelTurn
  <2>1. \A q \in Prompts : pc'[q] \in {"noting", "steer_noting"} => pc[q] = pc'[q]
    BY <1>31, <1>a, <1>b, <1>f DEF CancelTurn, DropQueue, AnswerPending, TypeTasks
  <2>2. outcome' = outcome /\ (gate' => gate)
    BY <1>31 DEF CancelTurn, DropQueue, AnswerPending
  <2> QED
    BY <2>1, <2>2 DEF Unlimited
<1>32. CASE GateRises
  BY <1>32 DEF GateRises
<1>33. CASE GateExpires
  <2>1. \A q \in Prompts : pc'[q] \in {"noting", "steer_noting"} => pc[q] = pc'[q]
    BY <1>33, <1>a, <1>b, <1>f DEF GateExpires, TypeTasks
  <2>2. outcome' = outcome /\ (gate' => gate)
    BY <1>33 DEF GateExpires
  <2> QED
    BY <2>1, <2>2 DEF Unlimited
<1> QED
  BY <1>1, <1>2, <1>3, <1>4, <1>5, <1>6, <1>7, <1>8, <1>9, <1>10, <1>11, <1>12, <1>13,
     <1>14, <1>15, <1>16, <1>17, <1>18, <1>19, <1>20, <1>21, <1>22, <1>23, <1>24, <1>25,
     <1>26, <1>27, <1>28, <1>29, <1>30, <1>31, <1>32, <1>33 DEF Next, WireFree,
     WireTaking, Scheduler, Teardowns, Prompts

LEMMA UnlimitedInvariant ==
    ASSUME "limit" \notin Events PROVE Spec => []Unlimited
<1>1. Init => Unlimited
  BY DEF Init, Unlimited
<1>2. IndInv /\ Unlimited /\ [Next]_vars => Unlimited'
  BY UnlimitedStep DEF IndInv
<1> QED
  BY <1>1, <1>2, Inductive, PTL DEF Spec

\* Nothing replaces `exited` once the epilogue has run.
LEMMA ExitedStep ==
    ASSUME "handover" \notin Events, Perms = {}, EndShape, Unlimited, ExitedSticks,
       [Next]_vars
    PROVE  ExitedSticks'
<1> USE DEF turnVars, steerVars, rtVars, taskVars, soloVars, permVars, agentVars, histVars
<1>u. watcher = "off"
  BY DEF EndShape, Claimed, ClosingMarked
<1>e. epilogue => ~alive
  BY DEF EndShape, AgentGone
<1>g. ~gate
  BY DEF Unlimited
<1>1. ASSUME NEW p \in Prompts,
             Send(p) \/ SendQueued(p) \/ SteerSend(p) \/ LogPrompt(p) \/ SendPrompt(p)
                \/ SteerPush(p) \/ SteerEnqueue(p) \/ SteerNoteLimit(p) \/ KickWire(p)
                \/ RecordTurnEnd(p) \/ ClearRecording(p) \/ NoteLimit(p)
      PROVE  ExitedSticks'
  <2>1. UNCHANGED <<status, closing, epilogue>>
    BY <1>1 DEF Send, SendQueued, SteerSend, LogPrompt, SendPrompt, SteerPush,
       SteerEnqueue, SteerNoteLimit, KickWire, RecordTurnEnd, ClearRecording, NoteLimit
  <2> QED
    BY <2>1, <1>e DEF ExitedSticks
<1>2. ASSUME NEW p \in Prompts, ClearParked(p) \/ Answer(p) PROVE ExitedSticks'
  <2>1. UNCHANGED <<status, closing, epilogue>>
    BY <1>2 DEF ClearParked, Answer
  <2> QED
    BY <2>1, <1>e DEF ExitedSticks
<1>3. ASSUME NEW r \in Perms, AskPermission(r) PROVE ExitedSticks'
  <2>1. UNCHANGED <<status, closing, epilogue>>
    BY <1>3 DEF AskPermission
  <2> QED
    BY <2>1, <1>e DEF ExitedSticks
<1>4. CASE RecordPark \/ ParkedDue \/ PassOver \/ ClearStale \/ UnscheduleResume \/
   CancelTurn \/ CancelSend \/ GateRises \/ GateExpires \/ AgentDies \/ WatchScan \/
   UNCHANGED vars
  <2>1. UNCHANGED <<status, closing, epilogue>>
    BY <1>4 DEF RecordPark, ParkedDue, PassOver, ClearStale, UnscheduleResume,
       CancelTurn, DropQueue, AnswerPending, CancelSend, GateRises, GateExpires,
       AgentDies, WatchScan, vars
  <2> QED
    BY <2>1, <1>e DEF ExitedSticks
<1>5. ASSUME NEW p \in Prompts, BeginChecked(p) PROVE ExitedSticks'
  <2>1. epilogue' = epilogue /\ (closing' = "none" => closing = "none")
    BY <1>5, <1>u DEF BeginChecked, StampTurn
  <2>2. epilogue /\ status = "exited" => status' = "exited"
    BY <1>5, <1>e, <1>g DEF BeginChecked, StampTurn, AcceptsPrompt, CheckReady,
       SlotFree, ChainedReady, FailedUnlessExited
  <2> QED
    BY <2>1, <2>2 DEF ExitedSticks
<1>6. ASSUME NEW p \in Prompts, LogFails(p) PROVE ExitedSticks'
  <2>1. epilogue' = epilogue /\ (closing' = "none" => closing = "none")
    BY <1>6, <1>u DEF LogFails
  <2>2. epilogue /\ status = "exited" => status' = "exited"
    BY <1>6, <1>e, <1>g DEF LogFails, AcceptsPrompt, CheckReady, SlotFree, ChainedReady,
       FailedUnlessExited
  <2> QED
    BY <2>1, <2>2 DEF ExitedSticks
<1>7. ASSUME NEW p \in Prompts, SteerResolved(p) PROVE ExitedSticks'
  <2>1. epilogue' = epilogue /\ (closing' = "none" => closing = "none")
    BY <1>7, <1>u DEF SteerResolved
  <2>2. epilogue /\ status = "exited" => status' = "exited"
    BY <1>7, <1>e, <1>g DEF SteerResolved, AcceptsPrompt, CheckReady, SlotFree,
       ChainedReady, FailedUnlessExited
  <2> QED
    BY <2>1, <2>2 DEF ExitedSticks
<1>8. ASSUME NEW p \in Prompts, SettleTurn(p) PROVE ExitedSticks'
  <2>1. epilogue' = epilogue /\ (closing' = "none" => closing = "none")
    BY <1>8, <1>u DEF SettleTurn, CloseCurrent, FinishBegins, UnchangedByFinish,
       DropQueue, ChainReady
  <2>2. epilogue /\ status = "exited" => status' = "exited"
    BY <1>8, <1>e, <1>g DEF SettleTurn, CloseCurrent, FinishBegins, UnchangedByFinish,
       DropQueue, ChainReady, AcceptsPrompt, CheckReady, SlotFree, ChainedReady,
       FailedUnlessExited
  <2> QED
    BY <2>1, <2>2 DEF ExitedSticks
<1>9. ASSUME NEW p \in Prompts, FailTurn(p) PROVE ExitedSticks'
  <2>1. epilogue' = epilogue /\ (closing' = "none" => closing = "none")
    BY <1>9, <1>u DEF FailTurn, CloseCurrent, FinishBegins, UnchangedByFinish, DropQueue
  <2>2. epilogue /\ status = "exited" => status' = "exited"
    BY <1>9, <1>e, <1>g DEF FailTurn, CloseCurrent, FinishBegins, UnchangedByFinish,
       DropQueue, AcceptsPrompt, CheckReady, SlotFree, ChainedReady, FailedUnlessExited
  <2> QED
    BY <2>1, <2>2 DEF ExitedSticks
<1>10. ASSUME NEW p \in Prompts, ParkTurn(p) PROVE ExitedSticks'
  <2>1. epilogue' = epilogue /\ (closing' = "none" => closing = "none")
    BY <1>10, <1>u DEF ParkTurn, CloseCurrent, FinishBegins, UnchangedByFinish
  <2>2. epilogue /\ status = "exited" => status' = "exited"
    BY <1>10, <1>e, <1>g DEF ParkTurn, CloseCurrent, FinishBegins, UnchangedByFinish,
       AcceptsPrompt, CheckReady, SlotFree, ChainedReady, FailedUnlessExited
  <2> QED
    BY <2>1, <2>2 DEF ExitedSticks
<1>11. ASSUME NEW p \in Prompts, SpawnChained(p) PROVE ExitedSticks'
  <2>1. epilogue' = epilogue /\ (closing' = "none" => closing = "none")
    BY <1>11, <1>u DEF SpawnChained, StampTurn, Unstarted
  <2>2. epilogue /\ status = "exited" => status' = "exited"
    BY <1>11, <1>e, <1>g DEF SpawnChained, StampTurn, Unstarted, AcceptsPrompt,
       CheckReady, SlotFree, ChainedReady, FailedUnlessExited
  <2> QED
    BY <2>1, <2>2 DEF ExitedSticks
<1>12. ASSUME NEW p \in Prompts, Repark(p) PROVE ExitedSticks'
  <2>1. epilogue' = epilogue /\ (closing' = "none" => closing = "none")
    BY <1>12, <1>u DEF Repark, Requeued
  <2>2. epilogue /\ status = "exited" => status' = "exited"
    BY <1>12, <1>e, <1>g DEF Repark, Requeued, AcceptsPrompt, CheckReady, SlotFree,
       ChainedReady, FailedUnlessExited
  <2> QED
    BY <2>1, <2>2 DEF ExitedSticks
<1>13. ASSUME NEW p \in Prompts, ReserveResume(p) PROVE ExitedSticks'
  <2>1. epilogue' = epilogue /\ (closing' = "none" => closing = "none")
    BY <1>13, <1>u DEF ReserveResume, ReserveSlot
  <2>2. epilogue /\ status = "exited" => status' = "exited"
    BY <1>13, <1>e, <1>g DEF ReserveResume, ReserveSlot, AcceptsPrompt, CheckReady,
       SlotFree, ChainedReady, FailedUnlessExited
  <2> QED
    BY <2>1, <2>2 DEF ExitedSticks
<1>14. ASSUME NEW p \in Prompts, ResumeBegin(p) PROVE ExitedSticks'
  <2>1. epilogue' = epilogue /\ (closing' = "none" => closing = "none")
    BY <1>14, <1>u DEF ResumeBegin, StampTurn, Unstarted
  <2>2. epilogue /\ status = "exited" => status' = "exited"
    BY <1>14, <1>e, <1>g DEF ResumeBegin, StampTurn, Unstarted, AcceptsPrompt,
       CheckReady, SlotFree, ChainedReady, FailedUnlessExited
  <2> QED
    BY <2>1, <2>2 DEF ExitedSticks
<1>15. ASSUME NEW r \in Perms, QueueForPermit(r) PROVE ExitedSticks'
  BY <1>15
<1>16. ASSUME NEW r \in Perms, Permit(r) PROVE ExitedSticks'
  BY <1>16
<1>17. ASSUME NEW r \in Perms, PermitAnswered(r) PROVE ExitedSticks'
  BY <1>17
<1>18. CASE Teardown
  <2>1. closing' = "ending"
    BY <1>18 DEF Teardown, CloseSub
  <2> QED
    BY <2>1 DEF ExitedSticks
<1>19. CASE HandedClose
  <2>1. closing' = "ending"
    BY <1>19 DEF HandedClose, CloseSub
  <2> QED
    BY <2>1 DEF ExitedSticks
<1>20. CASE OnDisconnect
  BY <1>20 DEF OnDisconnect, ExitedSticks
<1>21. CASE SessionUpdate
  <2>1. epilogue' = epilogue /\ (closing' = "none" => closing = "none")
    BY <1>21, <1>u DEF SessionUpdate
  <2>2. epilogue /\ status = "exited" => status' = "exited"
    BY <1>21, <1>e, <1>g DEF SessionUpdate, AcceptsPrompt, CheckReady, SlotFree,
       ChainedReady, FailedUnlessExited
  <2> QED
    BY <2>1, <2>2 DEF ExitedSticks
<1>22. CASE CloseSession
  <2>1. epilogue' = epilogue /\ (closing' = "none" => closing = "none")
    BY <1>22, <1>u DEF CloseSession
  <2>2. epilogue /\ status = "exited" => status' = "exited"
    BY <1>22, <1>e, <1>g DEF CloseSession, AcceptsPrompt, CheckReady, SlotFree,
       ChainedReady, FailedUnlessExited
  <2> QED
    BY <2>1, <2>2 DEF ExitedSticks
<1>23. CASE Supersede
  <2>1. epilogue' = epilogue /\ (closing' = "none" => closing = "none")
    BY <1>23, <1>u DEF Supersede
  <2>2. epilogue /\ status = "exited" => status' = "exited"
    BY <1>23, <1>e, <1>g DEF Supersede, AcceptsPrompt, CheckReady, SlotFree,
       ChainedReady, FailedUnlessExited
  <2> QED
    BY <2>1, <2>2 DEF ExitedSticks
<1>24. CASE HandoffOne
  <2>1. epilogue' = epilogue /\ (closing' = "none" => closing = "none")
    BY <1>24, <1>u DEF HandoffOne
  <2>2. epilogue /\ status = "exited" => status' = "exited"
    BY <1>24, <1>e, <1>g DEF HandoffOne, AcceptsPrompt, CheckReady, SlotFree,
       ChainedReady, FailedUnlessExited
  <2> QED
    BY <2>1, <2>2 DEF ExitedSticks
<1>25. CASE HandoffReported
  <2>1. epilogue' = epilogue /\ (closing' = "none" => closing = "none")
    BY <1>25, <1>u DEF HandoffReported
  <2>2. epilogue /\ status = "exited" => status' = "exited"
    BY <1>25, <1>e, <1>g DEF HandoffReported, AcceptsPrompt, CheckReady, SlotFree,
       ChainedReady, FailedUnlessExited
  <2> QED
    BY <2>1, <2>2 DEF ExitedSticks
<1> QED
  BY <1>1, <1>2, <1>3, <1>4, <1>5, <1>6, <1>7, <1>8, <1>9, <1>10, <1>11, <1>12, <1>13,
     <1>14, <1>15, <1>16, <1>17, <1>18, <1>19, <1>20, <1>21, <1>22, <1>23, <1>24, <1>25
     DEF Next, WireFree, WireTaking, Scheduler, Teardowns, Prompts

\* Without limits, permission requests and handovers a session whose
\* connection's epilogue has run stays `exited` until it is closed: no late
\* turn end, steer, agent update or resume makes it look promptable again.
THEOREM ExitedSticksHolds ==
    ASSUME "limit" \notin Events, "handover" \notin Events, Perms = {}
    PROVE  Spec => []ExitedSticks
<1>1. Init => ExitedSticks
  BY DEF Init, ExitedSticks
<1>2. EndShape /\ Unlimited /\ ExitedSticks /\ [Next]_vars => ExitedSticks'
  BY ExitedStep
<1> QED
  BY <1>1, <1>2, EndsInvariant, UnlimitedInvariant, PTL DEF Spec

-----------------------------------------------------------------------------
(* The shipped queue                                                       *)

\* From the moment the queue is copied for the successor its prompts wait or
\* are dropped here, and it grows no more.
Ships ==
    /\ watcher \in {"shipping", "handed", "gone"} =>
         \A q \in Range(shipped) \cap Prompts : pc[q] \in {"queued", "dropped"}
    /\ watcher \in {"shipping", "handed"} => Range(queue) \subseteq Range(shipped)

LEMMA ShipsKept ==
    ASSUME Ships, UNCHANGED <<watcher, shipped>>, queue' \in {queue, << >>},
           \A q \in Prompts : pc[q] \in {"queued", "dropped"} => pc'[q] \in {"queued", "dropped"}
    PROVE  Ships'
<1>1. Range(<< >>) = {}
  BY DEF Range
<1> QED
  BY <1>1 DEF Ships

\* No step starts a shipped prompt here or queues one behind the report.
LEMMA ShipsStep ==
    ASSUME TypeOK, Ownership, EndShape, Unlimited, Ships, [Next]_vars
    PROVE  Ships'
<1> USE DEF turnVars, steerVars, rtVars, taskVars, soloVars, permVars, agentVars, histVars
<1>a. /\ TypeTurns /\ TypeTasks /\ TypeRuntime /\ TypeSolo
      /\ OutOwned /\ QueueOwned
  BY DEF TypeOK, Ownership
<1>b. \A q \in Range(queue) : pc[q] = "queued"
  BY <1>a, RangeQueued
<1>f. None \notin Prompts /\ Policies \subseteq {"try", "queued", "steer"}
  BY PromptsAssumption, PoliciesAssumption
<1>u. superseded <=> watcher # "off"
  BY DEF EndShape, Claimed
<1>v. watcher \in {"shipping", "handed", "gone"} => closing # "none"
  BY DEF EndShape, ClosingMarked
<1>w. watcher' = watcher /\ watcher = "off" => Ships'
  BY DEF Ships
<1>1. ASSUME NEW r \in Perms,
             AskPermission(r) \/ QueueForPermit(r) \/ Permit(r) \/ PermitAnswered(r)
      PROVE  Ships'
  <2>1. UNCHANGED <<queue, pc, watcher, shipped>>
    BY <1>1 DEF AskPermission, QueueForPermit, Permit, Unblocked, PermitAnswered
  <2> QED
    BY <2>1, <1>a DEF Ships
<1>2. CASE RecordPark \/ ParkedDue \/ PassOver \/ ClearStale \/ UnscheduleResume \/
   SessionUpdate \/ CancelSend \/ GateRises \/ GateExpires \/ AgentDies \/ CloseSession
   \/ UNCHANGED vars
  <2>1. UNCHANGED <<queue, pc, watcher, shipped>>
    BY <1>2 DEF RecordPark, ParkedDue, PassOver, ClearStale, UnscheduleResume,
       SessionUpdate, CancelSend, GateRises, GateExpires, AgentDies, CloseSession, vars
  <2> QED
    BY <2>1, <1>a DEF Ships
<1>3. ASSUME NEW p \in Prompts, Send(p) PROVE Ships'
  <2>1. \A q \in Prompts : pc[q] \in {"queued", "dropped"} => pc'[q] \in {"queued", "dropped"}
    BY <1>3, <1>a, <1>b, <1>f DEF Send, TypeTasks
  <2>2. UNCHANGED <<watcher, shipped>> /\ queue' \in {queue, << >>}
    BY <1>3 DEF Send
  <2> QED
    BY <2>1, <2>2, ShipsKept
<1>4. ASSUME NEW p \in Prompts, SendQueued(p) PROVE Ships'
  <2>1. UNCHANGED <<watcher, shipped>>
    BY <1>4 DEF SendQueued
  <2>2. \A q \in Prompts : pc[q] \in {"queued", "dropped"} => pc'[q] \in {"queued", "dropped"}
    BY <1>4, <1>a DEF SendQueued, TypeTasks
  <2>3. CASE queue' = queue
    BY <2>1, <2>2, <2>3, ShipsKept
  <2>4. CASE closing = "none"
    BY <1>v, <2>1, <2>4 DEF Ships
  <2> QED
    BY <1>4, <2>3, <2>4 DEF SendQueued
<1>5. ASSUME NEW p \in Prompts, SteerSend(p) PROVE Ships'
  <2>1. \A q \in Prompts : pc[q] \in {"queued", "dropped"} => pc'[q] \in {"queued", "dropped"}
    BY <1>5, <1>a, <1>b, <1>f DEF SteerSend, TypeTasks, SteerPCs
  <2>2. UNCHANGED <<watcher, shipped>> /\ queue' \in {queue, << >>}
    BY <1>5 DEF SteerSend
  <2> QED
    BY <2>1, <2>2, ShipsKept
<1>6. ASSUME NEW p \in Prompts, BeginChecked(p) PROVE Ships'
  <2>1. \A q \in Prompts : pc[q] \in {"queued", "dropped"} => pc'[q] \in {"queued", "dropped"}
    BY <1>6, <1>a, <1>b, <1>f DEF BeginChecked, StampTurn, TypeTasks
  <2>2. UNCHANGED <<watcher, shipped>> /\ queue' \in {queue, << >>}
    BY <1>6 DEF BeginChecked, StampTurn
  <2> QED
    BY <2>1, <2>2, ShipsKept
<1>7. ASSUME NEW p \in Prompts, LogPrompt(p) PROVE Ships'
  <2>1. \A q \in Prompts : pc[q] \in {"queued", "dropped"} => pc'[q] \in {"queued", "dropped"}
    BY <1>7, <1>a, <1>b, <1>f DEF LogPrompt, TypeTasks
  <2>2. UNCHANGED <<watcher, shipped>> /\ queue' \in {queue, << >>}
    BY <1>7 DEF LogPrompt
  <2> QED
    BY <2>1, <2>2, ShipsKept
<1>8. ASSUME NEW p \in Prompts, LogFails(p) PROVE Ships'
  <2>1. \A q \in Prompts : pc[q] \in {"queued", "dropped"} => pc'[q] \in {"queued", "dropped"}
    BY <1>8, <1>a, <1>b, <1>f DEF LogFails, TypeTasks
  <2>2. UNCHANGED <<watcher, shipped>> /\ queue' \in {queue, << >>}
    BY <1>8 DEF LogFails
  <2> QED
    BY <2>1, <2>2, ShipsKept
<1>9. ASSUME NEW p \in Prompts, SendPrompt(p) PROVE Ships'
  <2>1. \A q \in Prompts : pc[q] \in {"queued", "dropped"} => pc'[q] \in {"queued", "dropped"}
    BY <1>9, <1>a, <1>b, <1>f DEF SendPrompt, TypeTasks
  <2>2. UNCHANGED <<watcher, shipped>> /\ queue' \in {queue, << >>}
    BY <1>9 DEF SendPrompt
  <2> QED
    BY <2>1, <2>2, ShipsKept
<1>10. ASSUME NEW p \in Prompts, SteerPush(p) PROVE Ships'
  <2>1. \A q \in Prompts : pc[q] \in {"queued", "dropped"} => pc'[q] \in {"queued", "dropped"}
    BY <1>10, <1>a, <1>b, <1>f DEF SteerPush, TypeTasks, SteerPCs
  <2>2. UNCHANGED <<watcher, shipped>> /\ queue' \in {queue, << >>}
    BY <1>10 DEF SteerPush
  <2> QED
    BY <2>1, <2>2, ShipsKept
<1>11. ASSUME NEW p \in Prompts, SteerEnqueue(p) PROVE Ships'
  <2>1. \A q \in Prompts : pc[q] \in {"queued", "dropped"} => pc'[q] \in {"queued", "dropped"}
    BY <1>11, <1>a, <1>b, <1>f DEF SteerEnqueue, TypeTasks, SteerPCs
  <2>2. UNCHANGED <<watcher, shipped>> /\ queue' \in {queue, << >>}
    BY <1>11 DEF SteerEnqueue
  <2> QED
    BY <2>1, <2>2, ShipsKept
<1>12. ASSUME NEW p \in Prompts, SteerNoteLimit(p) PROVE Ships'
  <2>1. \A q \in Prompts : pc[q] \in {"queued", "dropped"} => pc'[q] \in {"queued", "dropped"}
    BY <1>12, <1>a, <1>b, <1>f DEF SteerNoteLimit, TypeTasks, SteerPCs
  <2>2. UNCHANGED <<watcher, shipped>> /\ queue' \in {queue, << >>}
    BY <1>12 DEF SteerNoteLimit
  <2> QED
    BY <2>1, <2>2, ShipsKept
<1>13. ASSUME NEW p \in Prompts, SteerResolved(p) PROVE Ships'
  <2>1. UNCHANGED <<watcher, shipped>> /\ pc[p] = "steer_resolve"
    BY <1>13 DEF SteerResolved
  <2>2. CASE watcher = "off"
    BY <1>w, <2>1, <2>2
  <2>3. CASE watcher # "off"
    <3>1. queue' = queue
      BY <1>13, <1>u, <2>3 DEF SteerResolved
    <3>2. \A q \in Prompts : pc[q] \in {"queued", "dropped"} => pc'[q] \in {"queued", "dropped"}
      BY <1>13, <1>a, <1>u, <2>3 DEF SteerResolved, TypeTasks
    <3> QED
      BY <2>1, <3>1, <3>2, ShipsKept
  <2> QED
    BY <2>2, <2>3
<1>14. ASSUME NEW p \in Prompts, KickWire(p) PROVE Ships'
  <2>1. \A q \in Prompts : pc[q] \in {"queued", "dropped"} => pc'[q] \in {"queued", "dropped"}
    BY <1>14, <1>a, <1>b, <1>f DEF KickWire, TypeTasks
  <2>2. UNCHANGED <<watcher, shipped>> /\ queue' \in {queue, << >>}
    BY <1>14 DEF KickWire
  <2> QED
    BY <2>1, <2>2, ShipsKept
<1>15. ASSUME NEW p \in Prompts, SettleTurn(p) PROVE Ships'
  <2>1. UNCHANGED <<watcher, shipped>> /\ pc[p] = "ended"
    BY <1>15 DEF SettleTurn, FinishBegins, UnchangedByFinish
  <2>2. CASE watcher = "off"
    BY <1>w, <2>1, <2>2
  <2>3. CASE watcher # "off"
    <3>1. queue' \in {queue, << >>}
      BY <1>15, <1>u, <2>3 DEF SettleTurn, ChainReady
    <3>2. \/ pc' = [pc EXCEPT ![p] = "recording"]
          \/ pc' = DropQueue([pc EXCEPT ![p] = "recording"])
      BY <1>15, <1>u, <2>3 DEF SettleTurn, ChainReady
    <3>3. \A q \in Prompts : pc[q] \in {"queued", "dropped"} => pc'[q] \in {"queued", "dropped"}
      BY <1>a, <2>1, <3>2 DEF DropQueue, TypeTasks
    <3> QED
      BY <2>1, <3>1, <3>3, ShipsKept
  <2> QED
    BY <2>2, <2>3
<1>16. ASSUME NEW p \in Prompts, FailTurn(p) PROVE Ships'
  <2>1. \A q \in Prompts : pc[q] \in {"queued", "dropped"} => pc'[q] \in {"queued", "dropped"}
    BY <1>16, <1>a, <1>b, <1>f DEF FailTurn, CloseCurrent, FinishBegins,
       UnchangedByFinish, DropQueue, TypeTasks
  <2>2. UNCHANGED <<watcher, shipped>> /\ queue' \in {queue, << >>}
    BY <1>16 DEF FailTurn, CloseCurrent, FinishBegins, UnchangedByFinish, DropQueue
  <2> QED
    BY <2>1, <2>2, ShipsKept
<1>17. ASSUME NEW p \in Prompts, ParkTurn(p) PROVE Ships'
  <2>1. \A q \in Prompts : pc[q] \in {"queued", "dropped"} => pc'[q] \in {"queued", "dropped"}
    BY <1>17, <1>a, <1>b, <1>f DEF ParkTurn, CloseCurrent, FinishBegins,
       UnchangedByFinish, TypeTasks
  <2>2. UNCHANGED <<watcher, shipped>> /\ queue' \in {queue, << >>}
    BY <1>17 DEF ParkTurn, CloseCurrent, FinishBegins, UnchangedByFinish
  <2> QED
    BY <2>1, <2>2, ShipsKept
<1>18. ASSUME NEW p \in Prompts, RecordTurnEnd(p) PROVE Ships'
  <2>1. \A q \in Prompts : pc[q] \in {"queued", "dropped"} => pc'[q] \in {"queued", "dropped"}
    BY <1>18, <1>a, <1>b, <1>f DEF RecordTurnEnd, TypeTasks
  <2>2. UNCHANGED <<watcher, shipped>> /\ queue' \in {queue, << >>}
    BY <1>18 DEF RecordTurnEnd
  <2> QED
    BY <2>1, <2>2, ShipsKept
<1>19. ASSUME NEW p \in Prompts, ClearRecording(p) PROVE Ships'
  <2>1. \A q \in Prompts : pc[q] \in {"queued", "dropped"} => pc'[q] \in {"queued", "dropped"}
    BY <1>19, <1>a, <1>b, <1>f DEF ClearRecording, TypeTasks
  <2>2. UNCHANGED <<watcher, shipped>> /\ queue' \in {queue, << >>}
    BY <1>19 DEF ClearRecording
  <2> QED
    BY <2>1, <2>2, ShipsKept
<1>20. ASSUME NEW p \in Prompts, NoteLimit(p) PROVE Ships'
  <2>1. \A q \in Prompts : pc[q] \in {"queued", "dropped"} => pc'[q] \in {"queued", "dropped"}
    BY <1>20, <1>a, <1>b, <1>f DEF NoteLimit, TypeTasks
  <2>2. UNCHANGED <<watcher, shipped>> /\ queue' \in {queue, << >>}
    BY <1>20 DEF NoteLimit
  <2> QED
    BY <2>1, <2>2, ShipsKept
<1>21. ASSUME NEW p \in Prompts, SpawnChained(p) PROVE Ships'
  <2>1. \A q \in Prompts : pc[q] \in {"queued", "dropped"} => pc'[q] \in {"queued", "dropped"}
    BY <1>21, <1>a, <1>b, <1>f DEF SpawnChained, StampTurn, Unstarted, TypeTasks
  <2>2. UNCHANGED <<watcher, shipped>> /\ queue' \in {queue, << >>}
    BY <1>21 DEF SpawnChained, StampTurn, Unstarted
  <2> QED
    BY <2>1, <2>2, ShipsKept
<1>22. ASSUME NEW p \in Prompts, Repark(p) PROVE Ships'
  BY <1>22 DEF Repark, Unlimited
<1>23. ASSUME NEW p \in Prompts, ReserveResume(p) PROVE Ships'
  <2>1. ~superseded /\ watcher' = watcher
    BY <1>23 DEF ReserveResume
  <2> QED
    BY <1>u, <1>w, <2>1
<1>24. ASSUME NEW p \in Prompts, ClearParked(p) PROVE Ships'
  <2>1. \A q \in Prompts : pc[q] \in {"queued", "dropped"} => pc'[q] \in {"queued", "dropped"}
    BY <1>24, <1>a, <1>b, <1>f DEF ClearParked, TypeTasks
  <2>2. UNCHANGED <<watcher, shipped>> /\ queue' \in {queue, << >>}
    BY <1>24 DEF ClearParked
  <2> QED
    BY <2>1, <2>2, ShipsKept
<1>25. ASSUME NEW p \in Prompts, ResumeBegin(p) PROVE Ships'
  <2>1. \A q \in Prompts : pc[q] \in {"queued", "dropped"} => pc'[q] \in {"queued", "dropped"}
    BY <1>25, <1>a, <1>b, <1>f DEF ResumeBegin, StampTurn, Unstarted, TypeTasks
  <2>2. UNCHANGED <<watcher, shipped>> /\ queue' \in {queue, << >>}
    BY <1>25 DEF ResumeBegin, StampTurn, Unstarted
  <2> QED
    BY <2>1, <2>2, ShipsKept
<1>26. ASSUME NEW p \in Prompts, Answer(p) PROVE Ships'
  <2>1. \A q \in Prompts : pc[q] \in {"queued", "dropped"} => pc'[q] \in {"queued", "dropped"}
    BY <1>26, <1>a, <1>b, <1>f DEF Answer, TypeTasks, OutOwned
  <2>2. UNCHANGED <<watcher, shipped>> /\ queue' \in {queue, << >>}
    BY <1>26 DEF Answer
  <2> QED
    BY <2>1, <2>2, ShipsKept
<1>27. CASE Teardown
  <2>1. \A q \in Prompts : pc[q] \in {"queued", "dropped"} => pc'[q] \in {"queued", "dropped"}
    BY <1>27, <1>a, <1>b DEF Teardown, CloseSub, DropQueue, TypeTasks
  <2>2. shipped' = shipped /\ queue' = << >> /\ (watcher' = watcher \/ (watcher = "handed" /\ watcher' = "gone"))
    BY <1>27 DEF Teardown, CloseSub
  <2>3. Range(<< >>) = {}
    BY DEF Range
  <2> QED
    BY <2>1, <2>2, <2>3 DEF Ships
<1>28. CASE HandedClose
  <2>1. \A q \in Prompts : pc[q] \in {"queued", "dropped"} => pc'[q] \in {"queued", "dropped"}
    BY <1>28, <1>a, <1>b DEF HandedClose, CloseSub, DropQueue, TypeTasks
  <2>2. shipped' = shipped /\ queue' = << >> /\ (watcher' = watcher \/ (watcher = "handed" /\ watcher' = "gone"))
    BY <1>28 DEF HandedClose, CloseSub
  <2>3. Range(<< >>) = {}
    BY DEF Range
  <2> QED
    BY <2>1, <2>2, <2>3 DEF Ships
<1>29. CASE OnDisconnect
  <2>1. \A q \in Prompts : pc[q] \in {"queued", "dropped"} => pc'[q] \in {"queued", "dropped"}
    BY <1>29, <1>a, <1>b, <1>f DEF OnDisconnect, DropQueue, AnswerPending, TypeTasks
  <2>2. UNCHANGED <<watcher, shipped>> /\ queue' \in {queue, << >>}
    BY <1>29 DEF OnDisconnect, DropQueue, AnswerPending
  <2> QED
    BY <2>1, <2>2, ShipsKept
<1>30. CASE CancelTurn
  <2>1. \A q \in Prompts : pc[q] \in {"queued", "dropped"} => pc'[q] \in {"queued", "dropped"}
    BY <1>30, <1>a, <1>b, <1>f DEF CancelTurn, DropQueue, AnswerPending, TypeTasks
  <2>2. UNCHANGED <<watcher, shipped>> /\ queue' \in {queue, << >>}
    BY <1>30 DEF CancelTurn, DropQueue, AnswerPending
  <2> QED
    BY <2>1, <2>2, ShipsKept
<1>31. CASE Supersede
  <2>1. pc' = pc /\ queue' = queue
    BY <1>31 DEF Supersede
  <2>2. watcher' = "watch" \/ shipped' = queue
    BY <1>31 DEF Supersede
  <2> QED
    BY <1>b, <2>1, <2>2 DEF Ships
<1>32. CASE WatchScan
  <2>1. watcher' = "chosen"
    BY <1>32 DEF WatchScan
  <2> QED
    BY <2>1 DEF Ships
<1>33. CASE HandoffOne
  <2>1. pc' = pc /\ queue' = queue
    BY <1>33 DEF HandoffOne
  <2>2. watcher' = "watch" \/ shipped' = queue
    BY <1>33 DEF HandoffOne
  <2> QED
    BY <1>b, <2>1, <2>2 DEF Ships
<1>34. CASE HandoffReported
  <2>1. UNCHANGED <<pc, queue>> /\ watcher = "shipping"
    BY <1>34 DEF HandoffReported
  <2>2. watcher' = "watch" \/ shipped' = shipped
    BY <1>34 DEF HandoffReported
  <2> QED
    BY <2>1, <2>2 DEF Ships
<1> QED
  BY <1>1, <1>2, <1>3, <1>4, <1>5, <1>6, <1>7, <1>8, <1>9, <1>10, <1>11, <1>12, <1>13,
     <1>14, <1>15, <1>16, <1>17, <1>18, <1>19, <1>20, <1>21, <1>22, <1>23, <1>24, <1>25,
     <1>26, <1>27, <1>28, <1>29, <1>30, <1>31, <1>32, <1>33, <1>34 DEF Next, WireFree,
     WireTaking, Scheduler, Teardowns, Prompts

\* Without limits the queue a handover ships is the successor's alone: none of
\* its prompts starts here too, and none is accepted here behind the report,
\* whatever steers, cancels, closes and failed hand-offs come in between.
THEOREM ShippedOnceHolds ==
    ASSUME "limit" \notin Events PROVE Spec => []ShippedOnce
<1>1. Init => Ships
  BY DEF Init, Ships
<1>2. IndInv /\ EndShape /\ Unlimited /\ Ships /\ [Next]_vars => Ships'
  BY ShipsStep DEF IndInv
<1>3. IndInv /\ Ships => ShippedOnce
  <2>1. IndInv => Range(shipped) \subseteq Prompts
    BY DEF IndInv, TypeOK, TypeSolo, Range
  <2> QED
    BY <2>1 DEF Ships, ShippedOnce
<1> QED
  BY <1>1, <1>2, <1>3, Inductive, EndsInvariant, UnlimitedInvariant, PTL DEF Spec

-----------------------------------------------------------------------------
(* The start of a running turn                                             *)

\* A turn that is stamped has a positive number, so a stamp is not NoTurn.
LEMMA StampedTurn ==
    ASSUME TypeTurns PROVE NextTurn > 0 /\ UpdateTurn > 0 /\ NoTurn.n = 0
  BY OffsetAssumption DEF TypeTurns, NextTurn, UpdateTurn, NoTurn

\* Whatever makes the session `running` stamps a turn or a start.
LEMMA RunningStartStep ==
    ASSUME Perms = {}, TypeOK, Numbering, RunningHasStart, [Next]_vars
    PROVE  RunningHasStart'
<1> USE DEF turnVars, steerVars, rtVars, taskVars, soloVars, permVars, agentVars, histVars
<1>a. /\ NextTurn > 0 /\ UpdateTurn > 0
      /\ NoTurn.n = 0 /\ NoTurn.onWire = FALSE /\ NoTurn.cancelReq = FALSE
  BY StampedTurn DEF TypeOK, NoTurn
<1>b. current \in Turn /\ (current # NoTurn => current.n = NextTurn)
  BY DEF TypeOK, TypeTurns, Numbering
<1>1. ASSUME NEW p \in Prompts,
             Send(p) \/ SendQueued(p) \/ SteerSend(p) \/ LogPrompt(p) \/ SteerPush(p) \/
                SteerEnqueue(p) \/ SteerNoteLimit(p) \/ KickWire(p) \/ RecordTurnEnd(p)
                \/ ClearRecording(p) \/ NoteLimit(p) \/ ClearParked(p)
      PROVE  RunningHasStart'
  <2>1. UNCHANGED <<status, current, pendingStart>>
    BY <1>1 DEF Send, SendQueued, SteerSend, LogPrompt, SteerPush, SteerEnqueue,
       SteerNoteLimit, KickWire, RecordTurnEnd, ClearRecording, NoteLimit, ClearParked
  <2> QED
    BY <2>1, <1>a DEF RunningHasStart, FailedUnlessExited
<1>2. ASSUME NEW p \in Prompts, Answer(p) PROVE RunningHasStart'
  <2>1. UNCHANGED <<status, current, pendingStart>>
    BY <1>2 DEF Answer
  <2> QED
    BY <2>1, <1>a DEF RunningHasStart, FailedUnlessExited
<1>3. ASSUME NEW r \in Perms, AskPermission(r) PROVE RunningHasStart'
  <2>1. UNCHANGED <<status, current, pendingStart>>
    BY <1>3 DEF AskPermission
  <2> QED
    BY <2>1, <1>a DEF RunningHasStart, FailedUnlessExited
<1>4. CASE RecordPark \/ ParkedDue \/ PassOver \/ ClearStale \/ UnscheduleResume \/
   CancelSend \/ GateRises \/ GateExpires \/ AgentDies \/ CloseSession \/ Supersede \/
   WatchScan
  <2>1. UNCHANGED <<status, current, pendingStart>>
    BY <1>4 DEF RecordPark, ParkedDue, PassOver, ClearStale, UnscheduleResume,
       CancelSend, GateRises, GateExpires, AgentDies, CloseSession, Supersede, WatchScan
  <2> QED
    BY <2>1, <1>a DEF RunningHasStart, FailedUnlessExited
<1>5. CASE HandoffOne \/ HandoffReported \/ UNCHANGED vars
  <2>1. UNCHANGED <<status, current, pendingStart>>
    BY <1>5 DEF HandoffOne, HandoffReported, vars
  <2> QED
    BY <2>1, <1>a DEF RunningHasStart, FailedUnlessExited
<1>6. ASSUME NEW p \in Prompts, BeginChecked(p) PROVE RunningHasStart'
  <2>1. CASE StampTurn(p)
    BY <1>a, <2>1 DEF StampTurn, RunningHasStart
  <2>2. CASE ~StampTurn(p)
    BY <1>6, <2>2 DEF BeginChecked, ChainedReady, RunningHasStart
  <2> QED
    BY <2>1, <2>2
<1>7. ASSUME NEW p \in Prompts, LogFails(p) PROVE RunningHasStart'
  BY <1>7, <1>a DEF LogFails, RunningHasStart, FailedUnlessExited
<1>8. ASSUME NEW p \in Prompts, SendPrompt(p) PROVE RunningHasStart'
  <2>1. [current EXCEPT !.onWire = TRUE, !.cancelReq = FALSE].onWire
    BY <1>b DEF Turn
  <2>2. current # NoTurn => current' # NoTurn
    BY <1>8, <1>a, <2>1 DEF SendPrompt
  <2> QED
    BY <1>8, <2>2 DEF SendPrompt, RunningHasStart
<1>9. ASSUME NEW p \in Prompts, SteerResolved(p) PROVE RunningHasStart'
  <2>1. status' = "running" => status = "running" \/ pendingStart'
    BY <1>9 DEF SteerResolved
  <2>2. pendingStart => pendingStart'
    BY <1>9 DEF SteerResolved
  <2>3. current' = current \/ \E h : current' = [current EXCEPT !.p = h] /\ current # NoTurn
    BY <1>9 DEF SteerResolved
  <2>4. ASSUME NEW h, current # NoTurn PROVE [current EXCEPT !.p = h] # NoTurn
    <3>1. [current EXCEPT !.p = h].n = current.n
      BY <1>b DEF Turn
    <3>2. current.n # NoTurn.n
      BY <1>a, <1>b, <2>4
    <3> QED
      BY <3>1, <3>2
  <2>5. current # NoTurn => current' # NoTurn
    BY <2>3, <2>4
  <2> QED
    BY <2>1, <2>2, <2>5 DEF RunningHasStart
<1>10. ASSUME NEW p \in Prompts, SettleTurn(p) PROVE RunningHasStart'
  BY <1>10, <1>a DEF SettleTurn, CloseCurrent, FinishBegins, UnchangedByFinish,
     DropQueue, ChainReady, RunningHasStart, FailedUnlessExited
<1>11. ASSUME NEW p \in Prompts, FailTurn(p) PROVE RunningHasStart'
  BY <1>11, <1>a DEF FailTurn, CloseCurrent, FinishBegins, UnchangedByFinish, DropQueue,
     RunningHasStart, FailedUnlessExited
<1>12. ASSUME NEW p \in Prompts, ParkTurn(p) PROVE RunningHasStart'
  BY <1>12, <1>a DEF ParkTurn, CloseCurrent, FinishBegins, UnchangedByFinish,
     RunningHasStart, FailedUnlessExited
<1>13. ASSUME NEW p \in Prompts, SpawnChained(p) PROVE RunningHasStart'
  <2>1. CASE StampTurn(p)
    BY <1>a, <2>1 DEF StampTurn, RunningHasStart
  <2>2. CASE ~StampTurn(p)
    BY <1>13, <2>2 DEF SpawnChained, ChainedReady, RunningHasStart
  <2> QED
    BY <2>1, <2>2
<1>14. ASSUME NEW p \in Prompts, Repark(p) PROVE RunningHasStart'
  BY <1>14, <1>a DEF Repark, Requeued, RunningHasStart, FailedUnlessExited
<1>15. ASSUME NEW p \in Prompts, ReserveResume(p) PROVE RunningHasStart'
  BY <1>15, <1>a DEF ReserveResume, ReserveSlot, RunningHasStart, FailedUnlessExited
<1>16. ASSUME NEW p \in Prompts, ResumeBegin(p) PROVE RunningHasStart'
  <2>1. CASE StampTurn(p)
    BY <1>a, <2>1 DEF StampTurn, RunningHasStart
  <2>2. CASE ~StampTurn(p)
    BY <1>16, <2>2 DEF ResumeBegin, ChainedReady, RunningHasStart
  <2> QED
    BY <2>1, <2>2
<1>17. ASSUME NEW r \in Perms, QueueForPermit(r) PROVE RunningHasStart'
  BY <1>17
<1>18. ASSUME NEW r \in Perms, Permit(r) PROVE RunningHasStart'
  BY <1>18
<1>19. ASSUME NEW r \in Perms, PermitAnswered(r) PROVE RunningHasStart'
  BY <1>19
<1>20. CASE Teardown
  BY <1>20, <1>a DEF Teardown, CloseSub, DropQueue, AnswerPending, RunningHasStart,
     FailedUnlessExited
<1>21. CASE HandedClose
  BY <1>21, <1>a DEF HandedClose, CloseSub, DropQueue, AnswerPending, RunningHasStart,
     FailedUnlessExited
<1>22. CASE OnDisconnect
  BY <1>22, <1>a DEF OnDisconnect, DropQueue, AnswerPending, RunningHasStart,
     FailedUnlessExited
<1>23. CASE SessionUpdate
  <2>1. current'.n = UpdateTurn
    BY <1>23 DEF SessionUpdate
  <2> QED
    BY <1>a, <2>1 DEF RunningHasStart
<1>24. CASE CancelTurn
  <2>1. [current EXCEPT !.cancelReq = TRUE].cancelReq
    BY <1>b DEF Turn
  <2>2. current # NoTurn => current' # NoTurn
    BY <1>24, <1>a, <2>1 DEF CancelTurn
  <2> QED
    BY <1>24, <2>2 DEF CancelTurn, RunningHasStart
<1> QED
  BY <1>1, <1>2, <1>3, <1>4, <1>5, <1>6, <1>7, <1>8, <1>9, <1>10, <1>11, <1>12, <1>13,
     <1>14, <1>15, <1>16, <1>17, <1>18, <1>19, <1>20, <1>21, <1>22, <1>23, <1>24 DEF
     Next, WireFree, WireTaking, Scheduler, Teardowns, Prompts

\* Without permission requests `running` never lacks a recorded start
\* (settle_turn's comment), with any policies, limits, cancels and ends: a
\* slot is reserved with its start stamped, and nothing that clears the
\* stamp, a resume that could not begin included, leaves the status behind.
THEOREM RunningHasStartHolds ==
    ASSUME Perms = {} PROVE Spec => []RunningHasStart
<1>1. Init => RunningHasStart
  BY DEF Init, RunningHasStart
<1>2. IndInv /\ RunningHasStart /\ [Next]_vars => RunningHasStart'
  BY RunningStartStep DEF IndInv
<1> QED
  BY <1>1, <1>2, Inductive, PTL DEF Spec

=============================================================================
