--------------------------- MODULE SessionProofs ---------------------------
(* Theorems about the session's turn machine, for every set of calls,      *)
(* continuations and permission requests, every offset and every choice    *)
(* of events.                                                              *)
EXTENDS SessionLemmas

\* Numbering survives a step that settles nothing and whose turn, if it
\* has one, carries the next number.
LEMMA NumberingKept ==
    ASSUME TypeTurns, Numbering, turns' = turns,
           \/ current' = current \/ current' = NoTurn \/ current'.n = NextTurn
           \/ current # NoTurn /\ current'.n = current.n
    PROVE  Numbering'
<1>1. NextTurn' = NextTurn
  BY DEF NextTurn
<1> QED
  BY <1>1 DEF Numbering

\* Settling the current turn appends exactly the number that was due.
LEMMA NumberingClosed ==
    ASSUME TypeTurns, Numbering, NEW p \in Prompts, CloseCurrent(p)
    PROVE  Numbering'
<1>1. current' = NoTurn
  BY DEF CloseCurrent
<1>2. CASE current = NoTurn
  BY <1>1, <1>2 DEF CloseCurrent, Numbering
<1>3. CASE current # NoTurn
  <2>1. PICK t : t.n = Offset + Len(turns) + 1 /\ turns' = Append(turns, t)
    BY <1>3 DEF CloseCurrent, Numbering, NextTurn
  <2>2. \A i \in 1..Len(turns') : turns'[i].n = Offset + i
    BY <2>1, OffsetAssumption DEF TypeTurns, Numbering
  <2> QED
    BY <1>1, <2>2 DEF Numbering
<1> QED
  BY <1>2, <1>3

\* Numbering is inductive: begin_turn and session_update number turns by
\* the same sum, and settling consumes it.
LEMMA NumberingStep ==
    ASSUME TypeOK, Numbering, [Next]_vars PROVE Numbering'
<1>a. TypeTurns
  BY DEF TypeOK
<1>1. ASSUME NEW p \in Prompts,
             Send(p) \/ SendQueued(p) \/ SteerSend(p) \/ LogPrompt(p) \/ SteerPush(p) \/
             SteerEnqueue(p) \/ SteerNoteLimit(p) \/ KickWire(p) \/ RecordTurnEnd(p) \/
             ClearRecording(p) \/ NoteLimit(p) \/ Repark(p) \/ ReserveResume(p) \/
             ClearParked(p) \/ Answer(p)
      PROVE  Numbering'
  BY <1>1, <1>a, NumberingKept DEF Send, SendQueued, SteerSend, LogPrompt, SteerPush,
     SteerEnqueue, SteerNoteLimit, KickWire, RecordTurnEnd, ClearRecording, NoteLimit,
     Repark, ReserveResume, ClearParked, Answer, turnVars
<1>2. ASSUME NEW p \in Prompts, BeginChecked(p) PROVE Numbering'
  <2>1. turns' = turns
    BY <1>2 DEF BeginChecked
  <2>2. current' = current \/ current'.n = NextTurn
    BY <1>2 DEF BeginChecked, StampTurn
  <2> QED
    BY <1>a, <2>1, <2>2, NumberingKept
<1>3. ASSUME NEW p \in Prompts, LogFails(p) PROVE Numbering'
  BY <1>3, <1>a, NumberingKept DEF LogFails
<1>4. ASSUME NEW p \in Prompts, SendPrompt(p) PROVE Numbering'
  <2>1. turns' = turns
    BY <1>4 DEF SendPrompt
  <2>2. current' = current \/ (current # NoTurn /\ current'.n = current.n)
    BY <1>4, <1>a DEF SendPrompt, TypeTurns, Turn
  <2> QED
    BY <1>a, <2>1, <2>2, NumberingKept
<1>5. ASSUME NEW p \in Prompts, SteerResolved(p) PROVE Numbering'
  <2>1. turns' = turns
    BY <1>5 DEF SteerResolved
  <2>2. current' = current \/ (current # NoTurn /\ current'.n = current.n)
    BY <1>5, <1>a DEF SteerResolved, TypeTurns, Turn
  <2> QED
    BY <1>a, <2>1, <2>2, NumberingKept
<1>6. ASSUME NEW p \in Prompts, SettleTurn(p) PROVE Numbering'
  BY <1>6, <1>a, NumberingClosed DEF SettleTurn
<1>7. ASSUME NEW p \in Prompts, FailTurn(p) PROVE Numbering'
  BY <1>7, <1>a, NumberingClosed DEF FailTurn
<1>8. ASSUME NEW p \in Prompts, ParkTurn(p) PROVE Numbering'
  BY <1>8, <1>a, NumberingClosed DEF ParkTurn
<1>9. ASSUME NEW p \in Prompts, SpawnChained(p) PROVE Numbering'
  <2>1. turns' = turns
    BY <1>9 DEF SpawnChained
  <2>2. current' = current \/ current'.n = NextTurn
    BY <1>9 DEF SpawnChained, StampTurn
  <2> QED
    BY <1>a, <2>1, <2>2, NumberingKept
<1>10. ASSUME NEW p \in Prompts, ResumeBegin(p) PROVE Numbering'
  <2>1. turns' = turns
    BY <1>10 DEF ResumeBegin
  <2>2. current' = current \/ current'.n = NextTurn
    BY <1>10 DEF ResumeBegin, StampTurn
  <2> QED
    BY <1>a, <2>1, <2>2, NumberingKept
<1>11. ASSUME NEW r \in Perms,
             AskPermission(r) \/ QueueForPermit(r) \/ Permit(r) \/ PermitAnswered(r)
      PROVE  Numbering'
  BY <1>11, <1>a, NumberingKept DEF AskPermission, QueueForPermit, Permit,
     PermitAnswered, turnVars
<1>12. CASE RecordPark \/ ParkedDue \/ PassOver \/ ClearStale \/ UnscheduleResume \/
        Teardown \/ HandedClose \/ CancelSend \/ GateRises \/ GateExpires \/ AgentDies
        \/ CloseSession \/ Supersede \/ WatchScan \/ HandoffOne \/ HandoffReported
  BY <1>12, <1>a, NumberingKept DEF RecordPark, ParkedDue, PassOver, ClearStale,
     UnscheduleResume, Teardown, HandedClose, CancelSend, GateRises, GateExpires,
     AgentDies, CloseSession, Supersede, WatchScan, HandoffOne, HandoffReported,
     turnVars, CloseSub
<1>13. CASE OnDisconnect
  <2>1. turns' = turns /\ (current' = current \/ current' = NoTurn)
    BY <1>13 DEF OnDisconnect
  <2> QED
    BY <1>a, <2>1, NumberingKept
<1>14. CASE SessionUpdate
  BY <1>14, <1>a, NumberingKept DEF SessionUpdate, UpdateTurn, NextTurn
<1>15. CASE CancelTurn
  <2>1. turns' = turns
    BY <1>15 DEF CancelTurn
  <2>2. current' = current \/ (current # NoTurn /\ current'.n = current.n)
    BY <1>15, <1>a DEF CancelTurn, OffWire, TypeTurns, Turn
  <2> QED
    BY <1>a, <2>1, <2>2, NumberingKept
<1>16. CASE UNCHANGED vars
  BY <1>16, <1>a, NumberingKept DEF vars, turnVars
<1> QED
  BY <1>1, <1>2, <1>3, <1>4, <1>5, <1>6, <1>7, <1>8, <1>9, <1>10, <1>11, <1>12,
     <1>13, <1>14, <1>15, <1>16 DEF Next, WireFree, WireTaking, Scheduler, Teardowns,
     Prompts

\* A finish_turn past its registry write has counted every settled turn;
\* no other turn settles before it clears `recording`.
ClearingRecorded ==
    \A p \in Prompts : pc[p] = "clearing" => entry.turns = Offset + Len(turns)

\* A step that settles, records and clears nothing keeps the two facts.
LEMMA EndsKept ==
    ASSUME EndsRecorded, ClearingRecorded, turns' = turns,
           recording' = recording, entry'.turns = entry.turns,
           \A q \in Prompts : pc'[q] = "clearing" => pc[q] = "clearing"
    PROVE  EndsRecorded' /\ ClearingRecorded'
  BY DEF EndsRecorded, ClearingRecorded

\* A turn settles only with the wire free, so no earlier end is between its
\* registry write and its clear; the new one is marked `recording`.
LEMMA EndsClosed ==
    ASSUME TypeOK, WireOwned, Numbering, EndsRecorded, wire = None,
           NEW p \in Prompts, CloseCurrent(p), entry' = entry,
           \A q \in Prompts : pc'[q] = "clearing" => pc[q] = "clearing"
    PROVE  EndsRecorded' /\ ClearingRecorded'
<1>1. \A q \in Prompts : pc[q] # "clearing"
  BY PromptsAssumption DEF WireOwned, Holding
<1>2. CASE current = NoTurn
  BY <1>1, <1>2 DEF CloseCurrent, EndsRecorded, ClearingRecorded
<1>3. CASE current # NoTurn
  <2>1. recording' # 0
    BY <1>3, OffsetAssumption DEF CloseCurrent, Numbering, NextTurn, TypeOK, TypeTurns
  <2> QED
    BY <1>1, <2>1 DEF EndsRecorded, ClearingRecorded
<1> QED
  BY <1>2, <1>3

\* The registry's turn count is behind only while a turn is `recording`.
LEMMA EndsStep ==
    ASSUME TypeOK, Ownership, Numbering, EndsRecorded, ClearingRecorded, [Next]_vars
    PROVE  (EndsRecorded /\ ClearingRecorded)'
<1>a. TypeOK /\ TypeTurns /\ TypeRuntime /\ TypeTasks /\ WireOwned
  BY DEF TypeOK, Ownership
<1>1. ASSUME NEW p \in Prompts,
             Send(p) \/ SendQueued(p) \/ SteerSend(p) \/ BeginChecked(p) \/ LogPrompt(p)
             \/ LogFails(p) \/ SendPrompt(p) \/ SteerPush(p) \/ SteerEnqueue(p) \/
             SteerNoteLimit(p) \/ SteerResolved(p) \/ KickWire(p) \/ NoteLimit(p) \/
             SpawnChained(p) \/ Repark(p) \/ ReserveResume(p) \/ ClearParked(p) \/
             ResumeBegin(p) \/ Answer(p)
      PROVE  (EndsRecorded /\ ClearingRecorded)'
  <2>1. turns' = turns /\ recording' = recording /\ entry'.turns = entry.turns
    BY <1>1, <1>a DEF Send, SendQueued, SteerSend, BeginChecked, LogPrompt, LogFails,
       SendPrompt, SteerPush, SteerEnqueue, SteerNoteLimit, SteerResolved, KickWire,
       NoteLimit, SpawnChained, Repark, ReserveResume, ClearParked, ResumeBegin, Answer,
       turnVars, rtVars, TypeRuntime, RegistryEntry
  <2>2. \A q \in Prompts : pc'[q] = "clearing" => pc[q] = "clearing"
    BY <1>1, <1>a, PoliciesAssumption DEF Send, SendQueued, SteerSend, BeginChecked,
       LogPrompt, LogFails, SendPrompt, SteerPush, SteerEnqueue, SteerNoteLimit,
       SteerResolved, KickWire, NoteLimit, SpawnChained, Repark, ReserveResume,
       ClearParked, ResumeBegin, Answer, StampTurn, Unstarted, taskVars, TypeTasks
  <2> QED
    BY <1>a, <2>1, <2>2, EndsKept
<1>2. ASSUME NEW p \in Prompts, SettleTurn(p) PROVE (EndsRecorded /\ ClearingRecorded)'
  <2>1. wire = None /\ entry' = entry /\ CloseCurrent(p)
    BY <1>2 DEF SettleTurn, FinishBegins, UnchangedByFinish
  <2>2. \A q \in Prompts : pc'[q] = "clearing" => pc[q] = "clearing"
    BY <1>2, <1>a DEF SettleTurn, DropQueue, TypeTasks
  <2> QED
    BY <1>a, <2>1, <2>2, EndsClosed
<1>3. ASSUME NEW p \in Prompts, FailTurn(p) PROVE (EndsRecorded /\ ClearingRecorded)'
  <2>1. wire = None /\ entry' = entry /\ CloseCurrent(p)
    BY <1>3 DEF FailTurn, FinishBegins, UnchangedByFinish
  <2>2. \A q \in Prompts : pc'[q] = "clearing" => pc[q] = "clearing"
    BY <1>3, <1>a DEF FailTurn, DropQueue, TypeTasks
  <2> QED
    BY <1>a, <2>1, <2>2, EndsClosed
<1>4. ASSUME NEW p \in Prompts, ParkTurn(p) PROVE (EndsRecorded /\ ClearingRecorded)'
  <2>1. wire = None /\ entry' = entry /\ CloseCurrent(p)
    BY <1>4 DEF ParkTurn, FinishBegins, UnchangedByFinish
  <2>2. \A q \in Prompts : pc'[q] = "clearing" => pc[q] = "clearing"
    BY <1>4, <1>a DEF ParkTurn, DropQueue, TypeTasks
  <2> QED
    BY <1>a, <2>1, <2>2, EndsClosed
<1>5. ASSUME NEW p \in Prompts, RecordTurnEnd(p) PROVE (EndsRecorded /\
        ClearingRecorded)'
  <2>1. turns' = turns /\ entry'.turns = Offset + Len(turns)
    BY <1>5 DEF RecordTurnEnd, turnVars
  <2> QED
    BY <2>1 DEF EndsRecorded, ClearingRecorded
<1>6. ASSUME NEW p \in Prompts, ClearRecording(p) PROVE (EndsRecorded /\
        ClearingRecorded)'
  <2>1. turns' = turns /\ entry' = entry
    BY <1>6 DEF ClearRecording
  <2>2. entry.turns = Offset + Len(turns)
    BY <1>6, <1>a DEF ClearRecording, ClearingRecorded
  <2> QED
    BY <2>1, <2>2 DEF EndsRecorded, ClearingRecorded
<1>7. ASSUME NEW r \in Perms,
             AskPermission(r) \/ QueueForPermit(r) \/ Permit(r) \/ PermitAnswered(r)
      PROVE  (EndsRecorded /\ ClearingRecorded)'
  <2>1. turns' = turns /\ recording' = recording /\ entry'.turns = entry.turns
    BY <1>7, <1>a DEF AskPermission, QueueForPermit, Permit, PermitAnswered,
       turnVars, rtVars, TypeRuntime, RegistryEntry
  <2>2. \A q \in Prompts : pc'[q] = "clearing" => pc[q] = "clearing"
    BY <1>7, <1>a DEF AskPermission, QueueForPermit, Permit, PermitAnswered,
       taskVars, TypeTasks
  <2> QED
    BY <1>a, <2>1, <2>2, EndsKept
<1>8. CASE RecordPark \/ ParkedDue \/ PassOver \/ ClearStale \/ UnscheduleResume \/ Teardown
        \/ HandedClose \/ OnDisconnect \/ SessionUpdate \/ CancelTurn \/ CancelSend \/
        GateRises \/ GateExpires \/ AgentDies \/ CloseSession \/ Supersede \/ WatchScan
        \/ HandoffOne \/ HandoffReported
  <2>1. turns' = turns /\ recording' = recording /\ entry'.turns = entry.turns
    BY <1>8, <1>a DEF RecordPark, ParkedDue, PassOver, ClearStale, UnscheduleResume, Teardown,
       HandedClose, OnDisconnect, SessionUpdate, CancelTurn, CancelSend, GateRises,
       GateExpires, AgentDies, CloseSession, Supersede, WatchScan, HandoffOne,
       HandoffReported, CloseSub, turnVars, rtVars, TypeRuntime, RegistryEntry
  <2>2. \A q \in Prompts : pc'[q] = "clearing" => pc[q] = "clearing"
    BY <1>8, <1>a DEF RecordPark, ParkedDue, PassOver, ClearStale, UnscheduleResume, Teardown,
       HandedClose, OnDisconnect, SessionUpdate, CancelTurn, CancelSend, GateRises,
       GateExpires, AgentDies, CloseSession, Supersede, WatchScan, HandoffOne,
       HandoffReported, CloseSub, DropQueue, taskVars, TypeTasks
  <2> QED
    BY <1>a, <2>1, <2>2, EndsKept
<1>9. CASE UNCHANGED vars
  BY <1>9, <1>a, EndsKept DEF vars, turnVars, rtVars, taskVars
<1> QED
  BY <1>1, <1>2, <1>3, <1>4, <1>5, <1>6, <1>7, <1>8, <1>9 DEF Next, WireFree,
     WireTaking, Scheduler, Teardowns, Prompts

\* A steer between steer_turn's push and its resolution.
SteerPCs == {"steer_log", "steering", "steer_noting", "steer_resolve"}

\* The two steer lists are disjoint, hold each steer once, and only steers
\* that are not resolved yet.
SteersOwned ==
    /\ Once(steerPending) /\ Once(steerFolded)
    /\ \A i \in 1..Len(steerPending) : pc[steerPending[i]] \in SteerPCs
    /\ \A i \in 1..Len(steerFolded) : pc[steerFolded[i]] \in SteerPCs
    /\ \A i \in 1..Len(steerPending), j \in 1..Len(steerFolded) :
         steerPending[i] # steerFolded[j]

\* A step that leaves the lists and the steers alone keeps SteersOwned.
LEMMA SteersKept ==
    ASSUME TypeSteers, SteersOwned, UNCHANGED <<steerPending, steerFolded>>,
           \A q \in Prompts : pc[q] \in SteerPCs => pc'[q] \in SteerPCs
    PROVE  SteersOwned'
  BY DEF TypeSteers, SteersOwned

\* Emptied lists are owned (close_sub, on_disconnect).
LEMMA SteersEmptied ==
    ASSUME steerPending' = << >>, steerFolded' = << >> PROVE SteersOwned'
  BY DEF SteersOwned, Once

\* fold_pending_steers moves the waiting steers over without a repetition.
LEMMA SteersClosed ==
    ASSUME TypeSteers, SteersOwned, NEW p \in Prompts, CloseCurrent(p),
           \A q \in Prompts : pc[q] \in SteerPCs => pc'[q] \in SteerPCs
    PROVE  SteersOwned'
<1>1. CASE ~Folded
  BY <1>1, SteersKept DEF CloseCurrent
<1>2. CASE Folded
  <2> DEFINE a == steerFolded
             b == steerPending
             c == a \o b
  <2>1. steerPending' = << >> /\ steerFolded' = c
    BY <1>2 DEF CloseCurrent
  <2>2. /\ Len(a) \in Nat /\ Len(b) \in Nat /\ Len(c) = Len(a) + Len(b)
        /\ \A i \in 1..Len(c) : c[i] = IF i <= Len(a) THEN a[i] ELSE b[i - Len(a)]
    BY ConcatProperties, LenProperties DEF TypeSteers
  <2>3. /\ \A i \in 1..Len(a) : a[i] \in Prompts /\ pc[a[i]] \in SteerPCs
        /\ \A i \in 1..Len(b) : b[i] \in Prompts /\ pc[b[i]] \in SteerPCs
        /\ \A i \in 1..Len(b), j \in 1..Len(a) : b[i] # a[j]
        /\ Once(a) /\ Once(b)
    BY DEF TypeSteers, SteersOwned
  <2> HIDE DEF a, b, c
  <2>4. \A i \in 1..Len(c) : \/ i \in 1..Len(a) /\ c[i] = a[i]
                             \/ i - Len(a) \in 1..Len(b) /\ c[i] = b[i - Len(a)]
    BY <2>2
  <2>5. \A i \in 1..Len(c) : pc'[c[i]] \in SteerPCs
    BY <2>3, <2>4
  <2>6. Once(c)
    <3> SUFFICES ASSUME NEW i \in 1..Len(c), NEW j \in 1..Len(c), c[i] = c[j] PROVE i = j
      BY DEF Once
    <3>1. CASE i \in 1..Len(a) /\ j \in 1..Len(a)
      BY <3>1, <2>2, <2>3 DEF Once
    <3>2. CASE i \notin 1..Len(a) /\ j \notin 1..Len(a)
      <4>1. /\ i - Len(a) \in 1..Len(b) /\ c[i] = b[i - Len(a)]
            /\ j - Len(a) \in 1..Len(b) /\ c[j] = b[j - Len(a)]
        BY <3>2, <2>4
      <4>2. i - Len(a) = j - Len(a)
        BY <4>1, <2>3 DEF Once
      <4> QED
        BY <4>2, <2>2
    <3>3. CASE i \in 1..Len(a) /\ j \notin 1..Len(a)
      <4>1. c[i] = a[i] /\ j - Len(a) \in 1..Len(b) /\ c[j] = b[j - Len(a)]
        BY <3>3, <2>2, <2>4
      <4>2. b[j - Len(a)] # a[i]
        BY <3>3, <4>1, <2>3
      <4> QED
        BY <4>1, <4>2
    <3>4. CASE i \notin 1..Len(a) /\ j \in 1..Len(a)
      <4>1. c[j] = a[j] /\ i - Len(a) \in 1..Len(b) /\ c[i] = b[i - Len(a)]
        BY <3>4, <2>2, <2>4
      <4>2. b[i - Len(a)] # a[j]
        BY <3>4, <4>1, <2>3
      <4> QED
        BY <4>1, <4>2
    <3> QED
      BY <3>1, <3>2, <3>3, <3>4
  <2> QED
    BY <2>1, <2>5, <2>6 DEF SteersOwned, Once
<1> QED
  BY <1>1, <1>2

\* A resolved steer is in no list: steer_resolved's `retain` removes it for
\* good, and it can never own a turn again.
LEMMA SteersStep ==
    ASSUME TypeOK, Ownership, SteersOwned, [Next]_vars PROVE SteersOwned'
<1>a. TypeTurns /\ TypeSteers /\ TypeTasks /\ QueueOwned /\ OutOwned
  BY DEF TypeOK, Ownership
<1>1. ASSUME NEW p \in Prompts,
             Send(p) \/ SendQueued(p) \/ SteerSend(p) \/ BeginChecked(p) \/ LogPrompt(p)
             \/ LogFails(p) \/ SendPrompt(p) \/ SteerEnqueue(p) \/ SteerNoteLimit(p) \/
             KickWire(p) \/ RecordTurnEnd(p) \/ ClearRecording(p) \/ NoteLimit(p) \/
             SpawnChained(p) \/ Repark(p) \/ ClearParked(p) \/ ResumeBegin(p)
      PROVE  SteersOwned'
  <2>1. \A q \in Prompts : pc[q] \in SteerPCs => pc'[q] \in SteerPCs
    BY <1>1, <1>a DEF Send, SendQueued, SteerSend, BeginChecked, LogPrompt, LogFails,
       SendPrompt, SteerEnqueue, SteerNoteLimit, KickWire, RecordTurnEnd,
       ClearRecording, NoteLimit, SpawnChained, Repark, ClearParked, ResumeBegin,
       StampTurn, Unstarted, taskVars, TypeTasks, SteerPCs
  <2>2. UNCHANGED <<steerPending, steerFolded>>
    BY <1>1 DEF Send, SendQueued, SteerSend, BeginChecked, LogPrompt, LogFails,
       SendPrompt, SteerEnqueue, SteerNoteLimit, KickWire, RecordTurnEnd,
       ClearRecording, NoteLimit, SpawnChained, Repark, ClearParked, ResumeBegin,
       steerVars
  <2> QED
    BY <1>a, <2>1, <2>2, SteersKept
<1>2. ASSUME NEW p \in Prompts, SteerPush(p) PROVE SteersOwned'
  <2> DEFINE c == Append(steerPending, p)
  <2>1. steerPending' = c /\ steerFolded' = steerFolded /\ pc' = [pc EXCEPT ![p] = "steer_log"]
    BY <1>2 DEF SteerPush
  <2>2. pc[p] \notin SteerPCs
    BY <1>2 DEF SteerPush, SteerPCs
  <2>3. /\ Len(steerPending) \in Nat /\ Len(c) = Len(steerPending) + 1
        /\ \A i \in 1..Len(c) : c[i] = IF i \in 1..Len(steerPending) THEN steerPending[i] ELSE p
    BY <1>a DEF TypeSteers
  <2>4. /\ \A i \in 1..Len(steerPending) : steerPending[i] \in Prompts /\ steerPending[i] # p
        /\ \A i \in 1..Len(steerFolded) : steerFolded[i] \in Prompts /\ steerFolded[i] # p
    BY <1>a, <2>2 DEF TypeSteers, SteersOwned
  <2>5. \A q \in Prompts : pc[q] \in SteerPCs \/ q = p => pc'[q] \in SteerPCs
    BY <1>a, <2>1 DEF TypeTasks, SteerPCs
  <2> HIDE DEF c
  <2>6. Once(c)
    BY <1>a, <2>3, <2>4 DEF SteersOwned, Once
  <2>7. /\ \A i \in 1..Len(c) : pc'[c[i]] \in SteerPCs
        /\ \A i \in 1..Len(steerFolded) : pc'[steerFolded[i]] \in SteerPCs
    BY <1>a, <2>3, <2>4, <2>5 DEF SteersOwned
  <2>8. \A i \in 1..Len(c), j \in 1..Len(steerFolded) : c[i] # steerFolded[j]
    BY <1>a, <2>3, <2>4 DEF SteersOwned
  <2> QED
    BY <1>a, <2>1, <2>6, <2>7, <2>8 DEF SteersOwned
<1>3. ASSUME NEW p \in Prompts, SteerResolved(p) PROVE SteersOwned'
  <2> DEFINE a == WithoutSteer(p)
             b == WithoutFolded(p)
  <2>1. steerPending' = a /\ steerFolded' = b
    BY <1>3 DEF SteerResolved
  <2>2. /\ Once(a)
        /\ \A i \in 1..Len(a) : a[i] # p /\ \E j \in 1..Len(steerPending) : a[i] = steerPending[j]
    BY <1>a, RemoveFirstOnce DEF WithoutSteer, TypeSteers, SteersOwned
  <2>3. /\ Once(b)
        /\ \A i \in 1..Len(b) : b[i] # p /\ \E j \in 1..Len(steerFolded) : b[i] = steerFolded[j]
    BY <1>a, RemoveFirstOnce DEF WithoutFolded, TypeSteers, SteersOwned
  <2> HIDE DEF a, b
  <2>4. \A q \in Prompts : q # p /\ pc[q] \in SteerPCs => pc'[q] \in SteerPCs
    <3>1. \/ \E x : pc' = [pc EXCEPT ![p] = x]
          \/ queue # << >> /\ \E x : pc' = [pc EXCEPT ![p] = x, ![Head(queue)] = "kicked"]
      BY <1>3 DEF SteerResolved
    <3> QED
      BY <1>a, <3>1, HeadQueued DEF TypeTasks, SteerPCs
  <2>5. /\ \A i \in 1..Len(steerPending) : steerPending[i] \in Prompts
        /\ \A i \in 1..Len(steerFolded) : steerFolded[i] \in Prompts
    BY <1>a DEF TypeSteers
  <2>6. /\ \A i \in 1..Len(a) : pc'[a[i]] \in SteerPCs
        /\ \A i \in 1..Len(b) : pc'[b[i]] \in SteerPCs
    BY <1>a, <2>2, <2>3, <2>4, <2>5 DEF SteersOwned
  <2>7. \A i \in 1..Len(a), j \in 1..Len(b) : a[i] # b[j]
    BY <1>a, <2>2, <2>3 DEF SteersOwned
  <2> QED
    BY <2>1, <2>2, <2>3, <2>6, <2>7 DEF SteersOwned
<1>4. ASSUME NEW p \in Prompts, SettleTurn(p) PROVE SteersOwned'
  <2>1. pc[p] = "ended" /\ CloseCurrent(p)
    BY <1>4 DEF SettleTurn, FinishBegins
  <2>2. \A q \in Range(queue) : pc[q] = "queued"
    BY <1>a, RangeQueued
  <2>3. \A q \in Prompts : q \notin Range(queue) \cup {p} => pc'[q] = pc[q]
    BY <1>4, <1>a, HeadQueued DEF SettleTurn, ChainReady, DropQueue, TypeTasks
  <2>4. \A q \in Prompts : pc[q] \in SteerPCs => pc'[q] \in SteerPCs
    BY <2>1, <2>2, <2>3 DEF SteerPCs
  <2> QED
    BY <1>a, <2>1, <2>4, SteersClosed
<1>5. ASSUME NEW p \in Prompts, FailTurn(p) PROVE SteersOwned'
  <2>1. pc[p] = "ended" /\ CloseCurrent(p)
    BY <1>5 DEF FailTurn, FinishBegins
  <2>2. \A q \in Range(queue) : pc[q] = "queued"
    BY <1>a, RangeQueued
  <2>3. \A q \in Prompts : q \notin Range(queue) \cup {p} => pc'[q] = pc[q]
    BY <1>5, <1>a, HeadQueued DEF FailTurn, ChainReady, DropQueue, TypeTasks
  <2>4. \A q \in Prompts : pc[q] \in SteerPCs => pc'[q] \in SteerPCs
    BY <2>1, <2>2, <2>3 DEF SteerPCs
  <2> QED
    BY <1>a, <2>1, <2>4, SteersClosed
<1>6. ASSUME NEW p \in Prompts, ParkTurn(p) PROVE SteersOwned'
  <2>1. pc[p] = "ended" /\ CloseCurrent(p)
    BY <1>6 DEF ParkTurn, FinishBegins
  <2>2. \A q \in Range(queue) : pc[q] = "queued"
    BY <1>a, RangeQueued
  <2>3. \A q \in Prompts : q \notin Range(queue) \cup {p} => pc'[q] = pc[q]
    BY <1>6, <1>a, HeadQueued DEF ParkTurn, ChainReady, DropQueue, TypeTasks
  <2>4. \A q \in Prompts : pc[q] \in SteerPCs => pc'[q] \in SteerPCs
    BY <2>1, <2>2, <2>3 DEF SteerPCs
  <2> QED
    BY <1>a, <2>1, <2>4, SteersClosed
<1>7. ASSUME NEW p \in Prompts, ReserveResume(p) PROVE SteersOwned'
  <2>1. pc' = [pc EXCEPT ![p] = "reserved"] /\ UNCHANGED <<steerPending, steerFolded>>
    BY <1>7 DEF ReserveResume, steerVars
  <2>2. pc[p] = "new" \/ (queue # << >> /\ p = Head(queue))
    BY <1>7 DEF ReserveResume
  <2>3. \A q \in Prompts : pc[q] \in SteerPCs => pc'[q] \in SteerPCs
    BY <1>a, <2>1, <2>2, HeadQueued DEF TypeTasks, SteerPCs
  <2> QED
    BY <1>a, <2>1, <2>3, SteersKept
<1>8. ASSUME NEW p \in Prompts, Answer(p) PROVE SteersOwned'
  <2>1. pc[p] \in {"inturn", "steering"}
    BY <1>8, <1>a DEF Answer, OutOwned
  <2>2. \A q \in Prompts : pc[q] \in SteerPCs => pc'[q] \in SteerPCs
    BY <1>8, <1>a, <2>1 DEF Answer, TypeTasks, SteerPCs
  <2>3. UNCHANGED <<steerPending, steerFolded>>
    BY <1>8 DEF Answer, steerVars
  <2> QED
    BY <1>a, <2>2, <2>3, SteersKept
<1>9. ASSUME NEW r \in Perms,
             AskPermission(r) \/ QueueForPermit(r) \/ Permit(r) \/ PermitAnswered(r)
      PROVE  SteersOwned'
  <2>1. \A q \in Prompts : pc[q] \in SteerPCs => pc'[q] \in SteerPCs
    BY <1>9, <1>a DEF AskPermission, QueueForPermit, Permit, PermitAnswered,
       taskVars, TypeTasks, SteerPCs
  <2>2. UNCHANGED <<steerPending, steerFolded>>
    BY <1>9 DEF AskPermission, QueueForPermit, Permit, PermitAnswered, steerVars
  <2> QED
    BY <1>a, <2>1, <2>2, SteersKept
<1>10. CASE RecordPark \/ ParkedDue \/ PassOver \/ ClearStale \/ UnscheduleResume \/
        SessionUpdate \/ CancelSend \/ GateRises \/ GateExpires \/ AgentDies \/
        CloseSession \/ Supersede \/ WatchScan \/ HandoffOne \/ HandoffReported
  <2>1. \A q \in Prompts : pc[q] \in SteerPCs => pc'[q] \in SteerPCs
    BY <1>10, <1>a DEF RecordPark, ParkedDue, PassOver, ClearStale, UnscheduleResume,
       SessionUpdate, CancelSend, GateRises, GateExpires, AgentDies, CloseSession,
       Supersede, WatchScan, HandoffOne, HandoffReported, taskVars, TypeTasks, SteerPCs
  <2>2. UNCHANGED <<steerPending, steerFolded>>
    BY <1>10 DEF RecordPark, ParkedDue, PassOver, ClearStale, UnscheduleResume, SessionUpdate,
       CancelSend, GateRises, GateExpires, AgentDies, CloseSession, Supersede,
       WatchScan, HandoffOne, HandoffReported, steerVars
  <2> QED
    BY <1>a, <2>1, <2>2, SteersKept
<1>11. CASE Teardown
  BY <1>11, SteersEmptied DEF Teardown, CloseSub
<1>12. CASE HandedClose
  BY <1>12, SteersEmptied DEF HandedClose, CloseSub
<1>13. CASE OnDisconnect
  <2>1. \/ UNCHANGED <<steerPending, steerFolded, pc>>
        \/ steerPending' = << >> /\ steerFolded' = << >>
    BY <1>13 DEF OnDisconnect, steerVars
  <2> QED
    BY <1>a, <2>1, SteersEmptied, SteersKept
<1>14. CASE CancelTurn
  <2>1. pc' = DropQueue(pc) /\ UNCHANGED <<steerPending, steerFolded>>
    BY <1>14 DEF CancelTurn, steerVars
  <2>2. \A q \in Range(queue) : pc[q] = "queued"
    BY <1>a, RangeQueued
  <2>3. \A q \in Prompts : pc[q] \in SteerPCs => pc'[q] \in SteerPCs
    BY <2>1, <2>2 DEF DropQueue, SteerPCs
  <2> QED
    BY <1>a, <2>1, <2>3, SteersKept
<1>15. CASE UNCHANGED vars
  BY <1>15, <1>a, SteersKept DEF vars, steerVars, taskVars
<1> QED
  BY <1>1, <1>2, <1>3, <1>4, <1>5, <1>6, <1>7, <1>8, <1>9, <1>10, <1>11, <1>12,
     <1>13, <1>14, <1>15 DEF Next, WireFree, WireTaking, Scheduler, Teardowns, Prompts

\* The turn whose prompt is being or has been sent has its start in the
\* registry, and no earlier end is still waiting for its registry write.
StartOwned ==
    \A p \in Prompts :
        pc[p] \in {"sending", "inturn"} /\ current.p = p
            => entry.started /\ \A q \in Prompts : pc[q] # "recording"

\* StartOwned survives a step that changes neither the turn's prompt nor
\* the recorded start.
LEMMA StartKept ==
    ASSUME StartOwned, current'.p = current.p, entry'.started = entry.started,
           \A q \in Prompts : /\ pc'[q] \in {"sending", "inturn"} => pc[q] \in {"sending", "inturn"}
                              /\ pc'[q] = "recording" => pc[q] = "recording"
    PROVE  StartOwned'
  BY DEF StartOwned

\* It holds trivially when the current turn's prompt is not on the wire.
LEMMA StartGone ==
    ASSUME \A q \in Prompts : pc'[q] \in {"sending", "inturn"} => current'.p # q
    PROVE  StartOwned'
  BY DEF StartOwned

\* oldest_steer is an entry of one of the lists, or there is none.
LEMMA OldestOwned ==
    ASSUME NEW a \in Seq(Prompts), NEW b \in Seq(Prompts)
    PROVE  \/ Oldest(a, b) = None
           \/ \E i \in 1..Len(a) : Oldest(a, b) = a[i]
           \/ \E i \in 1..Len(b) : Oldest(a, b) = b[i]
<1>1. CASE a # << >>
  <2>1. 1 \in 1..Len(a) /\ Head(a) = a[1]
    BY <1>1
  <2> QED
    BY <1>1, <2>1 DEF Oldest
<1>2. CASE a = << >> /\ b # << >>
  <2>1. 1 \in 1..Len(b) /\ Head(b) = b[1]
    BY <1>2
  <2> QED
    BY <1>2, <2>1 DEF Oldest
<1>3. CASE a = << >> /\ b = << >>
  BY <1>3 DEF Oldest
<1> QED
  BY <1>1, <1>2, <1>3

\* No record of an earlier turn's end clears the start of the turn the
\* agent is working on.
LEMMA StartStep ==
    ASSUME TypeOK, Ownership, SteersOwned, StartOwned, [Next]_vars PROVE StartOwned'
<1>a. TypeTurns /\ TypeSteers /\ TypeRuntime /\ TypeTasks /\ WireOwned
  BY DEF TypeOK, Ownership
<1>1. ASSUME NEW p \in Prompts,
             Send(p) \/ SendQueued(p) \/ SteerSend(p) \/ SteerPush(p) \/ SteerEnqueue(p)
             \/ SteerNoteLimit(p) \/ KickWire(p) \/ ClearRecording(p) \/ NoteLimit(p) \/
             Repark(p) \/ ReserveResume(p) \/ ClearParked(p)
      PROVE  StartOwned'
  <2>1. current'.p = current.p /\ entry'.started = entry.started
    BY <1>1, <1>a DEF Send, SendQueued, SteerSend, SteerPush, SteerEnqueue,
       SteerNoteLimit, KickWire, ClearRecording, NoteLimit, Repark, ReserveResume,
       ClearParked, turnVars, rtVars, TypeRuntime, RegistryEntry, TypeTurns, Turn
  <2>2. \A q \in Prompts : /\ pc'[q] \in {"sending", "inturn"} => pc[q] \in {"sending", "inturn"}
                           /\ pc'[q] = "recording" => pc[q] = "recording"
    BY <1>1, <1>a, PoliciesAssumption DEF Send, SendQueued, SteerSend, SteerPush,
       SteerEnqueue, SteerNoteLimit, KickWire, ClearRecording, NoteLimit, Repark,
       ReserveResume, ClearParked, taskVars, TypeTasks
  <2> QED
    BY <1>a, <2>1, <2>2, StartKept
<1>2. ASSUME NEW p \in Prompts, BeginChecked(p) PROVE StartOwned'
  <2>1. CASE StampTurn(p)
    <3>1. current'.p = p /\ pc' = [pc EXCEPT ![p] = "logging"]
      BY <2>1 DEF StampTurn
    <3> QED
      BY <1>a, <3>1, StartGone DEF TypeTasks
  <2>2. CASE /\ current' = current
             /\ \E x : \/ pc' = pc
                      \/ /\ pc' = [pc EXCEPT ![p] = x]
                         /\ x \notin {"sending", "inturn", "recording"}
    <3>1. entry' = entry
      BY <1>2 DEF BeginChecked
    <3> QED
      BY <1>a, <2>2, <3>1, StartKept DEF TypeTasks
  <2> QED
    BY <1>2, <2>1, <2>2 DEF BeginChecked, Unstarted
<1>3. ASSUME NEW p \in Prompts, LogPrompt(p) PROVE StartOwned'
  <2>1. entry'.started = TRUE
    BY <1>3, <1>a DEF LogPrompt, TypeRuntime, RegistryEntry
  <2>2. \A q \in Prompts : pc[q] # "recording"
    BY <1>3, <1>a DEF LogPrompt, WireOwned, Holding
  <2>3. \A q \in Prompts : pc'[q] # "recording"
    BY <1>3, <1>a, <2>2 DEF LogPrompt, TypeTasks
  <2> QED
    BY <2>1, <2>3 DEF StartOwned
<1>4. ASSUME NEW p \in Prompts, LogFails(p) PROVE StartOwned'
  <2>1. current' = NoTurn
    BY <1>4 DEF LogFails
  <2> QED
    BY <2>1, StartGone, PromptsAssumption DEF NoTurn
<1>5. ASSUME NEW p \in Prompts, SendPrompt(p) PROVE StartOwned'
  <2>1. current'.p = current.p /\ entry' = entry
    BY <1>5, <1>a DEF SendPrompt, TypeTurns, Turn
  <2>2. pc[p] = "sending" /\ pc' = [pc EXCEPT ![p] = "inturn"]
    BY <1>5 DEF SendPrompt
  <2> QED
    BY <1>a, <2>1, <2>2, StartKept DEF TypeTasks
<1>6. ASSUME NEW p \in Prompts, SteerResolved(p) PROVE StartOwned'
  <2> DEFINE heir == Oldest(WithoutFolded(p), WithoutSteer(p))
  <2>1. /\ WithoutSteer(p) \in Seq(Prompts) /\ WithoutFolded(p) \in Seq(Prompts)
        /\ \A i \in 1..Len(WithoutSteer(p)) :
              \E j \in 1..Len(steerPending) : WithoutSteer(p)[i] = steerPending[j]
        /\ \A i \in 1..Len(WithoutFolded(p)) :
              \E j \in 1..Len(steerFolded) : WithoutFolded(p)[i] = steerFolded[j]
    BY <1>a, RemoveFirstType, RemoveFirstOnce DEF WithoutSteer, WithoutFolded,
       TypeSteers, SteersOwned
  <2>2. heir = None \/ pc[heir] \in SteerPCs
    <3>1. /\ \A j \in 1..Len(steerPending) : pc[steerPending[j]] \in SteerPCs
          /\ \A j \in 1..Len(steerFolded) : pc[steerFolded[j]] \in SteerPCs
      BY <1>a DEF SteersOwned
    <3>2. CASE \E i \in 1..Len(WithoutSteer(p)) : heir = WithoutSteer(p)[i]
      BY <2>1, <3>1, <3>2
    <3>3. CASE \E i \in 1..Len(WithoutFolded(p)) : heir = WithoutFolded(p)[i]
      BY <2>1, <3>1, <3>3
    <3>4. \/ heir = None
          \/ \E i \in 1..Len(WithoutSteer(p)) : heir = WithoutSteer(p)[i]
          \/ \E i \in 1..Len(WithoutFolded(p)) : heir = WithoutFolded(p)[i]
      BY <2>1, OldestOwned
    <3> QED
      BY <3>2, <3>3, <3>4
  <2> HIDE DEF heir
  <2>3. \A q \in Prompts : /\ pc'[q] \in {"sending", "inturn"} => pc[q] \in {"sending", "inturn"}
                           /\ pc'[q] = "recording" => pc[q] = "recording"
    <3>1. \/ \E x \in {"ended", "done"} : pc' = [pc EXCEPT ![p] = x]
          \/ \E x \in {"ended", "done"} : pc' = [pc EXCEPT ![p] = x, ![Head(queue)] = "kicked"]
      BY <1>6 DEF SteerResolved
    <3> QED
      BY <1>a, <3>1 DEF TypeTasks
  <2>4. entry' = entry
    BY <1>6 DEF SteerResolved, rtVars
  <2>5. CASE current' = current
    BY <1>a, <2>3, <2>4, <2>5, StartKept
  <2>6. CASE current'.p = heir
    BY <2>2, <2>3, <2>6, StartGone, PromptsAssumption DEF SteerPCs
  <2>7. current' = current \/ current' = [current EXCEPT !.p = heir]
    BY <1>6 DEF SteerResolved, heir
  <2>8. [current EXCEPT !.p = heir].p = heir
    BY <1>a DEF TypeTurns, Turn
  <2> QED
    BY <2>5, <2>6, <2>7, <2>8
<1>7. ASSUME NEW p \in Prompts, SettleTurn(p) PROVE StartOwned'
  <2>1. current' = NoTurn
    BY <1>7 DEF SettleTurn, CloseCurrent
  <2> QED
    BY <2>1, StartGone, PromptsAssumption DEF NoTurn
<1>8. ASSUME NEW p \in Prompts, FailTurn(p) PROVE StartOwned'
  <2>1. current' = NoTurn
    BY <1>8 DEF FailTurn, CloseCurrent
  <2> QED
    BY <2>1, StartGone, PromptsAssumption DEF NoTurn
<1>9. ASSUME NEW p \in Prompts, ParkTurn(p) PROVE StartOwned'
  <2>1. current' = NoTurn
    BY <1>9 DEF ParkTurn, CloseCurrent
  <2> QED
    BY <2>1, StartGone, PromptsAssumption DEF NoTurn
<1>10. ASSUME NEW p \in Prompts, RecordTurnEnd(p) PROVE StartOwned'
  <2>1. current' = current /\ pc[p] = "recording"
    BY <1>10 DEF RecordTurnEnd, turnVars
  <2>2. \A q \in Prompts : pc'[q] \in {"sending", "inturn"} => pc[q] \in {"sending", "inturn"}
    BY <1>10, <1>a DEF RecordTurnEnd, TypeTasks
  <2> QED
    BY <1>a, <2>1, <2>2, StartGone DEF StartOwned
<1>11. ASSUME NEW p \in Prompts, SpawnChained(p) PROVE StartOwned'
  <2>1. CASE StampTurn(p)
    <3>1. current'.p = p /\ pc' = [pc EXCEPT ![p] = "logging"]
      BY <2>1 DEF StampTurn
    <3> QED
      BY <1>a, <3>1, StartGone DEF TypeTasks
  <2>2. CASE /\ current' = current
             /\ \E x : \/ pc' = pc
                      \/ /\ pc' = [pc EXCEPT ![p] = x]
                         /\ x \notin {"sending", "inturn", "recording"}
    <3>1. entry' = entry
      BY <1>11 DEF SpawnChained
    <3> QED
      BY <1>a, <2>2, <3>1, StartKept DEF TypeTasks
  <2> QED
    BY <1>11, <2>1, <2>2 DEF SpawnChained, Unstarted
<1>12. ASSUME NEW p \in Prompts, ResumeBegin(p) PROVE StartOwned'
  <2>1. CASE StampTurn(p)
    <3>1. current'.p = p /\ pc' = [pc EXCEPT ![p] = "logging"]
      BY <2>1 DEF StampTurn
    <3> QED
      BY <1>a, <3>1, StartGone DEF TypeTasks
  <2>2. CASE /\ current' = current
             /\ \E x : \/ pc' = pc
                      \/ /\ pc' = [pc EXCEPT ![p] = x]
                         /\ x \notin {"sending", "inturn", "recording"}
    <3>1. entry' = entry
      BY <1>12 DEF ResumeBegin
    <3> QED
      BY <1>a, <2>2, <3>1, StartKept DEF TypeTasks
  <2> QED
    BY <1>12, <2>1, <2>2 DEF ResumeBegin, Unstarted
<1>13. ASSUME NEW p \in Prompts, Answer(p) PROVE StartOwned'
  <2>1. PICK x : pc' = [pc EXCEPT ![p] = x] /\ x \in {"ended", "steer_noting", "steer_resolve"}
    BY <1>13 DEF Answer
  <2>2. UNCHANGED <<current, entry>>
    BY <1>13 DEF Answer, turnVars, rtVars
  <2> QED
    BY <1>a, <2>1, <2>2, StartKept DEF TypeTasks
<1>14. ASSUME NEW r \in Perms,
             AskPermission(r) \/ QueueForPermit(r) \/ Permit(r) \/ PermitAnswered(r)
      PROVE  StartOwned'
  <2>1. current'.p = current.p /\ entry'.started = entry.started
    BY <1>14, <1>a DEF AskPermission, QueueForPermit, Permit, PermitAnswered,
       turnVars, rtVars, TypeRuntime, RegistryEntry, TypeTurns, Turn
  <2>2. \A q \in Prompts : /\ pc'[q] \in {"sending", "inturn"} => pc[q] \in {"sending", "inturn"}
                           /\ pc'[q] = "recording" => pc[q] = "recording"
    BY <1>14, <1>a DEF AskPermission, QueueForPermit, Permit, PermitAnswered,
       taskVars, TypeTasks
  <2> QED
    BY <1>a, <2>1, <2>2, StartKept
<1>15. CASE RecordPark \/ ParkedDue \/ PassOver \/ ClearStale \/ UnscheduleResume \/
        Teardown \/ HandedClose \/ CancelSend \/ GateRises \/ GateExpires \/ AgentDies
        \/ CloseSession \/ Supersede \/ WatchScan \/ HandoffOne \/ HandoffReported
  <2>1. current'.p = current.p /\ entry'.started = entry.started
    BY <1>15, <1>a DEF RecordPark, ParkedDue, PassOver, ClearStale, UnscheduleResume, Teardown,
       HandedClose, CancelSend, GateRises, GateExpires, AgentDies, CloseSession,
       Supersede, WatchScan, HandoffOne, HandoffReported, CloseSub, turnVars, rtVars,
       TypeRuntime, RegistryEntry, TypeTurns, Turn
  <2>2. \A q \in Prompts : /\ pc'[q] \in {"sending", "inturn"} => pc[q] \in {"sending", "inturn"}
                           /\ pc'[q] = "recording" => pc[q] = "recording"
    BY <1>15, <1>a DEF RecordPark, ParkedDue, PassOver, ClearStale, UnscheduleResume, Teardown,
       HandedClose, CancelSend, GateRises, GateExpires, AgentDies, CloseSession,
       Supersede, WatchScan, HandoffOne, HandoffReported, CloseSub, DropQueue, taskVars,
       TypeTasks
  <2> QED
    BY <1>a, <2>1, <2>2, StartKept
<1>16. CASE OnDisconnect
  <2>1. \/ current' = NoTurn
        \/ UNCHANGED <<current, pc>>
    BY <1>16 DEF OnDisconnect
  <2>2. entry' = entry
    BY <1>16 DEF OnDisconnect, rtVars
  <2> QED
    BY <1>a, <2>1, <2>2, StartGone, StartKept, PromptsAssumption DEF NoTurn
<1>17. CASE SessionUpdate
  <2>1. current'.p = OldestSteer /\ OldestSteer # None /\ pc' = pc
    BY <1>17 DEF SessionUpdate, taskVars
  <2>2. pc[OldestSteer] \in SteerPCs
    BY <1>a, <2>1, OldestOwned DEF OldestSteer, SteersOwned, TypeSteers
  <2> QED
    BY <2>1, <2>2, StartGone DEF SteerPCs
<1>18. CASE CancelTurn
  <2>1. current'.p = current.p /\ entry' = entry
    BY <1>18, <1>a DEF CancelTurn, TypeTurns, Turn, rtVars
  <2>2. \A q \in Prompts : pc'[q] = pc[q] \/ pc'[q] = "dropped"
    BY <1>18 DEF CancelTurn, DropQueue
  <2> QED
    BY <1>a, <2>1, <2>2, StartKept
<1>19. CASE UNCHANGED vars
  BY <1>19, <1>a, StartKept DEF vars, turnVars, rtVars, taskVars
<1> QED
  BY <1>1, <1>2, <1>3, <1>4, <1>5, <1>6, <1>7, <1>8, <1>9, <1>10, <1>11, <1>12,
     <1>13, <1>14, <1>15, <1>16, <1>17, <1>18, <1>19 DEF Next, WireFree, WireTaking,
     Scheduler, Teardowns, Prompts

\* A step that leaves the requests alone and does not enter
\* `needs_permission` keeps PermissionBacked.
LEMMA PermissionKept ==
    ASSUME PermissionBacked, UNCHANGED <<pending, permPc>>,
           status' = "needs_permission" => status = "needs_permission"
    PROVE  PermissionBacked'
  BY DEF PermissionBacked

\* PermissionBacked is inductive.
LEMMA PermissionStep ==
    ASSUME TypeOK, PermissionBacked, [Next]_vars PROVE PermissionBacked'
<1>a. TypePerms
  BY DEF TypeOK
<1>1. ASSUME NEW p \in Prompts,
             Send(p) \/ SendQueued(p) \/ SteerSend(p) \/ BeginChecked(p) \/ LogPrompt(p)
             \/ LogFails(p) \/ SendPrompt(p) \/ SteerPush(p) \/ SteerEnqueue(p) \/
             SteerNoteLimit(p) \/ SteerResolved(p) \/ KickWire(p) \/ SettleTurn(p) \/
             FailTurn(p) \/ ParkTurn(p) \/ RecordTurnEnd(p) \/ ClearRecording(p) \/
             NoteLimit(p) \/ SpawnChained(p) \/ Repark(p) \/ ReserveResume(p) \/
             ClearParked(p) \/ ResumeBegin(p) \/ Answer(p)
      PROVE  PermissionBacked'
  <2>1. UNCHANGED <<pending, permPc>>
    BY <1>1 DEF Send, SendQueued, SteerSend, BeginChecked, LogPrompt, LogFails,
       SendPrompt, SteerPush, SteerEnqueue, SteerNoteLimit, SteerResolved, KickWire,
       SettleTurn, FailTurn, ParkTurn, RecordTurnEnd, ClearRecording, NoteLimit,
       SpawnChained, Repark, ReserveResume, ClearParked, ResumeBegin, Answer,
       FinishBegins, UnchangedByFinish, permVars
  <2>2. status' = "needs_permission" => status = "needs_permission"
    BY <1>1 DEF Send, SendQueued, SteerSend, BeginChecked, LogPrompt, LogFails,
       SendPrompt, SteerPush, SteerEnqueue, SteerNoteLimit, SteerResolved, KickWire,
       SettleTurn, FailTurn, ParkTurn, RecordTurnEnd, ClearRecording, NoteLimit,
       SpawnChained, Repark, ReserveResume, ClearParked, ResumeBegin, Answer, StampTurn,
       FailedUnlessExited, FinishBegins, UnchangedByFinish, ReserveSlot, turnVars
  <2> QED
    BY <1>a, <2>1, <2>2, PermissionKept
<1>2. ASSUME NEW r \in Perms, AskPermission(r) PROVE PermissionBacked'
  <2>1. permPc' = [permPc EXCEPT ![r] = "asked"] /\ permPc[r] = "new"
    BY <1>2 DEF AskPermission
  <2>2. status' = status /\ pending' = pending
    BY <1>2 DEF AskPermission, turnVars
  <2> QED
    BY <1>a, <2>1, <2>2 DEF PermissionBacked, TypePerms
<1>3. ASSUME NEW r \in Perms, QueueForPermit(r) PROVE PermissionBacked'
  BY <1>3 DEF QueueForPermit, PermissionBacked
<1>4. ASSUME NEW r \in Perms, Permit(r) PROVE PermissionBacked'
  BY <1>4, <1>a DEF Permit, PermissionBacked, TypePerms
<1>5. ASSUME NEW r \in Perms, PermitAnswered(r) PROVE PermissionBacked'
  <2>1. pending' = pending /\ status' = Unblocked(pending)
    BY <1>5 DEF PermitAnswered
  <2> QED
    BY <2>1 DEF PermissionBacked, Unblocked
<1>6. CASE RecordPark \/ ParkedDue \/ PassOver \/ ClearStale \/ UnscheduleResume \/
        SessionUpdate \/ CancelSend \/ GateRises \/ GateExpires \/ AgentDies \/
        CloseSession \/ Supersede \/ WatchScan \/ HandoffOne \/ HandoffReported
  <2>1. UNCHANGED <<pending, permPc>>
    BY <1>6 DEF RecordPark, ParkedDue, PassOver, ClearStale, UnscheduleResume, SessionUpdate,
       CancelSend, GateRises, GateExpires, AgentDies, CloseSession, Supersede,
       WatchScan, HandoffOne, HandoffReported, permVars
  <2>2. status' = "needs_permission" => status = "needs_permission"
    BY <1>6 DEF RecordPark, ParkedDue, PassOver, ClearStale, UnscheduleResume, SessionUpdate,
       CancelSend, GateRises, GateExpires, AgentDies, CloseSession, Supersede,
       WatchScan, HandoffOne, HandoffReported, turnVars
  <2> QED
    BY <1>a, <2>1, <2>2, PermissionKept
<1>7. CASE Teardown
  <2>1. permPc' = AnswerPending \/ UNCHANGED <<pending, permPc>>
    BY <1>7 DEF Teardown, CloseSub, permVars
  <2>2. status' = "needs_permission" => status = "needs_permission"
    BY <1>7 DEF Teardown, CloseSub
  <2>3. CASE UNCHANGED <<pending, permPc>>
    BY <1>a, <2>2, <2>3, PermissionKept
  <2>4. CASE permPc' = AnswerPending
    BY <1>a, <2>2, <2>4 DEF PermissionBacked, AnswerPending, TypePerms
  <2> QED
    BY <2>1, <2>3, <2>4
<1>8. CASE HandedClose
  <2>1. permPc' = AnswerPending \/ UNCHANGED <<pending, permPc>>
    BY <1>8 DEF HandedClose, CloseSub, permVars
  <2>2. status' = "needs_permission" => status = "needs_permission"
    BY <1>8 DEF HandedClose, CloseSub
  <2>3. CASE UNCHANGED <<pending, permPc>>
    BY <1>a, <2>2, <2>3, PermissionKept
  <2>4. CASE permPc' = AnswerPending
    BY <1>a, <2>2, <2>4 DEF PermissionBacked, AnswerPending, TypePerms
  <2> QED
    BY <2>1, <2>3, <2>4
<1>9. CASE OnDisconnect
  <2>1. permPc' = AnswerPending \/ UNCHANGED <<pending, permPc>>
    BY <1>9 DEF OnDisconnect, permVars
  <2>2. status' = "needs_permission" => status = "needs_permission"
    BY <1>9 DEF OnDisconnect
  <2>3. CASE UNCHANGED <<pending, permPc>>
    BY <1>a, <2>2, <2>3, PermissionKept
  <2>4. CASE permPc' = AnswerPending
    BY <1>a, <2>2, <2>4 DEF PermissionBacked, AnswerPending, TypePerms
  <2> QED
    BY <2>1, <2>3, <2>4
<1>10. CASE CancelTurn
  <2>1. permPc' = AnswerPending \/ UNCHANGED <<pending, permPc>>
    BY <1>10 DEF CancelTurn, permVars
  <2>2. status' = "needs_permission" => status = "needs_permission"
    BY <1>10 DEF CancelTurn
  <2>3. CASE UNCHANGED <<pending, permPc>>
    BY <1>a, <2>2, <2>3, PermissionKept
  <2>4. CASE permPc' = AnswerPending
    BY <1>a, <2>2, <2>4 DEF PermissionBacked, AnswerPending, TypePerms
  <2> QED
    BY <2>1, <2>3, <2>4
<1>11. CASE UNCHANGED vars
  BY <1>11, <1>a, PermissionKept DEF vars, turnVars, permVars
<1> QED
  BY <1>1, <1>2, <1>3, <1>4, <1>5, <1>6, <1>7, <1>8, <1>9, <1>10, <1>11 DEF Next,
     WireFree, WireTaking, Scheduler, Teardowns, Prompts

\* Without a handover nobody takes `closing` back from a close.
CloseWins ==
    /\ watcher = "off"
    /\ closer # "open" => closing = "ending"
    /\ NoResurrection

\* A step that leaves the close alone may only park an open session.
LEMMA CloseKept ==
    ASSUME CloseWins, UNCHANGED <<watcher, closer, closing>>,
           entry'.parked = entry.parked \/ entry'.parked = NoPark \/ closing = "none"
    PROVE  CloseWins'
  BY DEF CloseWins, NoResurrection

\* Once unschedule_resume ran, record_turn_end and record_park see the
\* closing flag and arm nothing.
LEMMA CloseStep ==
    ASSUME TypeOK, "handover" \notin Events, CloseWins, [Next]_vars PROVE CloseWins'
<1>a. TypeRuntime
  BY DEF TypeOK
<1>1. ASSUME NEW p \in Prompts,
             Send(p) \/ SendQueued(p) \/ SteerSend(p) \/ BeginChecked(p) \/ LogPrompt(p)
             \/ LogFails(p) \/ SendPrompt(p) \/ SteerPush(p) \/ SteerEnqueue(p) \/
             SteerNoteLimit(p) \/ SteerResolved(p) \/ KickWire(p) \/ SettleTurn(p) \/
             FailTurn(p) \/ ParkTurn(p) \/ ClearRecording(p) \/ NoteLimit(p) \/
             SpawnChained(p) \/ Repark(p) \/ ReserveResume(p) \/ ClearParked(p) \/
             ResumeBegin(p) \/ Answer(p)
      PROVE  CloseWins'
  <2>1. UNCHANGED <<watcher, closer, closing>>
    BY <1>1 DEF Send, SendQueued, SteerSend, BeginChecked, LogPrompt, LogFails,
       SendPrompt, SteerPush, SteerEnqueue, SteerNoteLimit, SteerResolved, KickWire,
       SettleTurn, FailTurn, ParkTurn, ClearRecording, NoteLimit, SpawnChained, Repark,
       ReserveResume, ClearParked, ResumeBegin, Answer, FinishBegins, UnchangedByFinish,
       soloVars, rtVars
  <2>2. entry'.parked = entry.parked \/ entry'.parked = NoPark
    BY <1>1, <1>a DEF Send, SendQueued, SteerSend, BeginChecked, LogPrompt, LogFails,
       SendPrompt, SteerPush, SteerEnqueue, SteerNoteLimit, SteerResolved, KickWire,
       SettleTurn, FailTurn, ParkTurn, ClearRecording, NoteLimit, SpawnChained, Repark,
       ReserveResume, ClearParked, ResumeBegin, Answer, FinishBegins, UnchangedByFinish,
       rtVars, TypeRuntime, RegistryEntry
  <2> QED
    BY <1>a, <2>1, <2>2, CloseKept
<1>2. ASSUME NEW p \in Prompts, RecordTurnEnd(p) PROVE CloseWins'
  <2>1. UNCHANGED <<watcher, closer, closing>>
    BY <1>2 DEF RecordTurnEnd, soloVars
  <2>2. entry'.parked = ParkAfterTurn(outcome[p])
    BY <1>2 DEF RecordTurnEnd
  <2> QED
    BY <1>a, <2>1, <2>2, CloseKept DEF ParkAfterTurn
<1>3. ASSUME NEW r \in Perms,
             AskPermission(r) \/ QueueForPermit(r) \/ Permit(r) \/ PermitAnswered(r)
      PROVE  CloseWins'
  <2>1. UNCHANGED <<watcher, closer, closing>>
    BY <1>3 DEF AskPermission, QueueForPermit, Permit, PermitAnswered, soloVars, rtVars
  <2>2. entry'.parked = entry.parked \/ entry'.parked = NoPark
    BY <1>3, <1>a DEF AskPermission, QueueForPermit, Permit, PermitAnswered, rtVars,
       TypeRuntime, RegistryEntry
  <2> QED
    BY <1>a, <2>1, <2>2, CloseKept
<1>4. CASE ParkedDue \/ PassOver \/ ClearStale \/ OnDisconnect \/ SessionUpdate \/
        CancelTurn \/ CancelSend \/ GateRises \/ GateExpires \/ AgentDies
  <2>1. UNCHANGED <<watcher, closer, closing>>
    BY <1>4 DEF ParkedDue, PassOver, ClearStale, OnDisconnect, SessionUpdate, CancelTurn,
       CancelSend, GateRises, GateExpires, AgentDies, soloVars, rtVars
  <2>2. entry'.parked = entry.parked \/ entry'.parked = NoPark
    BY <1>4, <1>a DEF ParkedDue, PassOver, ClearStale, OnDisconnect, SessionUpdate, CancelTurn,
       CancelSend, GateRises, GateExpires, AgentDies, rtVars, TypeRuntime, RegistryEntry
  <2> QED
    BY <1>a, <2>1, <2>2, CloseKept
<1>5. CASE RecordPark
  <2>1. UNCHANGED <<watcher, closer, closing>>
    BY <1>5 DEF RecordPark, soloVars
  <2>2. closing = "none" \/ entry' = entry
    BY <1>5 DEF RecordPark
  <2> QED
    BY <1>a, <2>1, <2>2, CloseKept
<1>6. CASE UnscheduleResume
  <2>1. closer = "unschedule" /\ entry'.parked = NoPark /\ UNCHANGED <<watcher, closing>>
    BY <1>6, <1>a DEF UnscheduleResume, TypeRuntime, RegistryEntry
  <2> QED
    BY <1>a, <2>1 DEF CloseWins, NoResurrection
<1>7. CASE Teardown
  <2>1. closer = "teardown" /\ closing' = "ending" /\ UNCHANGED <<watcher, entry>>
    BY <1>7 DEF Teardown, CloseSub
  <2> QED
    BY <1>a, <2>1 DEF CloseWins, NoResurrection
<1>8. CASE HandedClose
  BY <1>8, <1>a DEF HandedClose, CloseWins
<1>9. CASE CloseSession
  <2>1. closing' = "ending" /\ closer' = "unschedule" /\ watcher' = watcher
    BY <1>9 DEF CloseSession
  <2> QED
    BY <1>a, <2>1 DEF CloseWins, NoResurrection
<1>10. CASE Supersede
  BY <1>10 DEF Supersede
<1>11. CASE WatchScan
  BY <1>11, <1>a DEF WatchScan, CloseWins
<1>12. CASE HandoffOne
  BY <1>12, <1>a DEF HandoffOne, CloseWins
<1>13. CASE HandoffReported
  BY <1>13, <1>a DEF HandoffReported, CloseWins
<1>14. CASE UNCHANGED vars
  BY <1>14, <1>a, CloseKept DEF vars, soloVars, rtVars
<1> QED
  BY <1>1, <1>2, <1>3, <1>4, <1>5, <1>6, <1>7, <1>8, <1>9, <1>10, <1>11, <1>12,
     <1>13, <1>14 DEF Next, WireFree, WireTaking, Scheduler, Teardowns, Prompts


\* The specification is type correct, for every set of prompts and events.
THEOREM TypeCorrect == Spec => []TypeOK
<1>1. Init => TypeOK
  <2> SUFFICES ASSUME Init PROVE TypeOK
    OBVIOUS
  <2> USE OffsetAssumption, EmptySeq DEF Init
  <2>1. TypeTurns
    BY DEF TypeTurns, Statuses, Plans, NoTurn, Turn
  <2>2. TypeSteers
    BY DEF TypeSteers
  <2>3. TypeRuntime
    <3>1. entry \in RegistryEntry
      BY NoParkType DEF RegistryEntry
    <3> QED
      BY <3>1 DEF TypeRuntime
  <2>4. TypeTasks
    BY DEF TypeTasks, PCs
  <2>5. TypeSolo /\ TypePerms /\ TypeAgent /\ TypeHist
    BY DEF TypeSolo, TypePerms, TypeAgent, TypeHist
  <2> QED
    BY <2>1, <2>2, <2>3, <2>4, <2>5 DEF TypeOK
<1> QED
  BY <1>1, TypeStep, PTL DEF Spec

\* The inductive invariant behind the three theorems that follow it.
IndInv == /\ TypeOK /\ Ownership /\ SteersOwned
          /\ Numbering /\ EndsRecorded /\ ClearingRecorded /\ StartOwned

\* IndInv holds in every reachable state.
THEOREM Inductive == Spec => []IndInv
<1>1. Init => /\ Ownership /\ SteersOwned /\ Numbering
              /\ EndsRecorded /\ ClearingRecorded /\ StartOwned
  <2> SUFFICES ASSUME Init
               PROVE  /\ Ownership /\ SteersOwned /\ Numbering
                      /\ EndsRecorded /\ ClearingRecorded /\ StartOwned
    OBVIOUS
  <2>1. Ownership
    BY DEF Init, Ownership, WireOwned, ReparkOwned, QueueOwned, OutOwned, Holding, Once
  <2>2. SteersOwned
    BY DEF Init, SteersOwned, Once
  <2>3. Numbering /\ EndsRecorded
    BY OffsetAssumption DEF Init, Numbering, EndsRecorded
  <2>4. ClearingRecorded /\ StartOwned
    BY DEF Init, ClearingRecorded, StartOwned
  <2> QED
    BY <2>1, <2>2, <2>3, <2>4
<1>2. IndInv /\ [Next]_vars => IndInv'
  <2> SUFFICES ASSUME IndInv, [Next]_vars PROVE IndInv'
    OBVIOUS
  <2>1. /\ TypeOK /\ Ownership /\ SteersOwned
        /\ Numbering /\ EndsRecorded /\ ClearingRecorded /\ StartOwned
    BY DEF IndInv
  <2>2. TypeOK' /\ Numbering'
    BY <2>1, TypeStep, NumberingStep
  <2>3. WireOwned' /\ ReparkOwned' /\ QueueOwned' /\ OutOwned'
    BY <2>1, WireOwnedStep, ReparkOwnedStep, QueueOwnedStep, OutOwnedStep
  <2>4. EndsRecorded' /\ ClearingRecorded'
    BY <2>1, EndsStep
  <2>5. SteersOwned' /\ StartOwned'
    BY <2>1, SteersStep, StartStep
  <2> QED
    BY <2>2, <2>3, <2>4, <2>5 DEF IndInv, Ownership
<1>3. Spec => []TypeOK
  BY TypeCorrect
<1>4. Init /\ TypeOK => IndInv
  BY <1>1 DEF IndInv
<1> QED
  BY <1>2, <1>3, <1>4, PTL DEF Spec

\* Turn numbers have no gap and no repeat over the session's whole life,
\* resumed lives (`turn_offset`) included: begin_turn, session_update and
\* the three ways a turn ends agree on next_turn_number.
THEOREM NumberingHolds == Spec => []Numbering
<1>1. IndInv => Numbering
  BY DEF IndInv
<1> QED
  BY <1>1, Inductive, PTL

\* A turn end that is not marked `recording` is in the registry: wait, status
\* and the handover, which read past the mark, never report an end that a
\* crash of the daemon would take back.
THEOREM EndsRecordedHolds == Spec => []EndsRecorded
<1>1. IndInv => EndsRecorded
  BY DEF IndInv
<1> QED
  BY <1>1, Inductive, PTL

\* While the agent works on a turn's prompt the registry has the turn's start:
\* finish_turn's record of the turn before cannot overwrite it, since both
\* are made under `prompt_send`.
THEOREM StartRecordedHolds == Spec => []StartRecorded
<1>1. IndInv => StartRecorded
  BY DEF IndInv, StartOwned, StartRecorded
<1> QED
  BY <1>1, Inductive, PTL

\* A session shows `needs_permission` only while a request or an answer is
\* outstanding, whatever permit, cancel, close and the agent's death do.
THEOREM PermissionBackedHolds == Spec => []PermissionBacked
<1>1. Init => PermissionBacked
  BY DEF Init, PermissionBacked
<1>2. TypeOK /\ PermissionBacked /\ [Next]_vars => PermissionBacked'
  BY PermissionStep
<1> QED
  BY <1>1, <1>2, TypeCorrect, PTL DEF Spec

\* In a daemon that is not being superseded, close consumes the resume schedule for
\* good: neither record_turn_end nor record_park arms it behind
\* unschedule_resume. (A failed hand-off does take the closing flag back.)
THEOREM NoResurrectionHolds ==
    ASSUME "handover" \notin Events PROVE Spec => []NoResurrection
<1>1. Init => CloseWins
  BY DEF Init, CloseWins, NoResurrection
<1>2. TypeOK /\ CloseWins /\ [Next]_vars => CloseWins'
  BY CloseStep
<1>3. CloseWins => NoResurrection
  BY DEF CloseWins
<1> QED
  BY <1>1, <1>2, <1>3, TypeCorrect, PTL DEF Spec

=============================================================================
