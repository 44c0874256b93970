------------------------------ MODULE Session ------------------------------
(* One subagent session inside one acpsub daemon: the turn state machine   *)
(* (`Inner`), the tasks and tool calls that drive it, the agent process,   *)
(* the registry entry and the handover watcher.                            *)
(*                                                                         *)
(* A step is one critical section of the code: what runs between two       *)
(* points where a task awaits (a lock, a file write, the agent's answer)   *)
(* or lets go of the `inner` mutex it decided under.                       *)
EXTENDS Integers, SequencesExt

CONSTANTS
    Calls,       \* `send` calls, each carrying one prompt; also its name
    Resumes,     \* continuation prompts the resume scheduler may send
    Perms,       \* permission requests the agent may raise (`ask` policy)
    Policies,    \* delivery policies the callers use
    Folded,      \* the agent's SteerSemantics is Folded
    Offset,      \* turns of the session's earlier life (`turn_offset`)
    Events,      \* what the environment may do
    None

Prompts == Calls \cup Resumes

ASSUME PromptsAssumption == None \notin Prompts /\ Calls \cap Resumes = {}
ASSUME PoliciesAssumption == Policies \subseteq {"try", "queued", "steer"}
ASSUME OffsetAssumption == Offset \in Nat
ASSUME FoldedAssumption == Folded \in BOOLEAN
ASSUME EventsAssumption ==
    Events \subseteq {"log", "limit", "error", "die", "close", "cancel", "handover"}

VARIABLES
    \* Inner: what the `inner` mutex guards
    status, plan, current, pendingStart, turns, queue,
    steerPending, steerFolded, steerOwner, pending, recording,
    \* the rest of SubRuntime and the daemon's view of the session
    closing, wire, live, superseded, gate, entry,
    \* tasks: one per prompt, one per permission request, and four singletons
    \* (`reparked`: the prompt whose re-park is being recorded)
    pc, outcome, reparked, permPc, sched, canceller, closer, watcher, shipped,
    \* the agent process and the prompts it has not answered
    alive, epilogue, out, toCancel,
    \* history: queue acceptance order, prompts a cancel was aimed at
    accepted, doomed, doomedGap

turnVars  == <<status, plan, current, pendingStart, turns, queue, recording>>
steerVars == <<steerPending, steerFolded, steerOwner>>
rtVars    == <<closing, wire, live, superseded, gate, entry>>
taskVars  == <<pc, outcome, reparked>>
soloVars  == <<sched, canceller, closer, watcher, shipped>>
permVars  == <<pending, permPc>>
agentVars == <<alive, epilogue, out, toCancel>>
histVars  == <<accepted, doomed, doomedGap>>
vars == <<turnVars, steerVars, rtVars, taskVars, soloVars, permVars,
          agentVars, histVars>>

-----------------------------------------------------------------------------
(* Types                                                                   *)

Statuses == {"idle", "running", "needs_permission", "done", "cancelled",
             "failed", "rate_limited", "exited"}
Plans    == {"continue", "queue"}
Outcomes == {"ok", "cancelled", "limit", "error"}

\* A turn; `p` is the prompt it runs, for a materialized turn the steer that owns it.
NoTurn == [n |-> 0, p |-> None, onWire |-> FALSE, cancelReq |-> FALSE]
Turn   == [n : Nat, p : Prompts \cup {None}, onWire : BOOLEAN, cancelReq : BOOLEAN]
\* A settled turn; `by` is the prompt whose answer settled it.
Settled == [n : Nat, p : Prompts \cup {None}, by : Prompts, limited : BOOLEAN]

\* The registry's `rate_limited` record, by its plan.
\* (The queue it carries matters to the process that resumes from it.)
NoPark == "none"
Parked == Plans \cup {NoPark}
RegistryEntry == [turns : Nat, started : BOOLEAN, parked : Parked]

(* Where a prompt is:                                                      *)
(*  new                    not sent yet                                    *)
(*  try fresh steer queue  `send` passed its entry checks; `fresh` is the  *)
(*                         queued policy's start, `queue` its decision     *)
(*  steer_begin steer_push `steer_send` read the status, holds the wire    *)
(*  logging sending        `begin_turn` past its gate / past its records   *)
(*  inturn ended           `turn_task` before / after the agent's answer   *)
(*  recording clearing noting   the stages of `finish_turn`                *)
(*  queued popped          on `queue` / taken off by `settle_turn`         *)
(*  chained                `spawn_chained`, holding the wire               *)
(*  kicked                 taken off by `steer_resolved`                   *)
(*  reserved resuming      taken by `reserve_resume_turn` / flag cleared   *)
(*  steer_log steering steer_noting steer_resolve   a steer's life         *)
(*  done refused dropped   ran / the call failed / dropped on the record   *)
(*  lost                   accepted, then dropped with only a log line     *)
PCs == {"new", "try", "fresh", "steer", "queue", "steer_begin", "steer_push",
        "logging", "sending", "inturn", "ended", "recording", "clearing",
        "noting", "queued", "popped", "chained", "kicked",
        "reserved", "resuming", "steer_log", "steering", "steer_noting",
        "steer_resolve", "done", "refused", "dropped", "lost"}

\* Tasks that hold `prompt_send` between two of their steps.
Holding == {"steer_begin", "steer_push", "steer_log", "logging", "sending",
            "recording", "clearing", "chained"}

TypeTurns ==
    /\ status \in Statuses /\ plan \in Plans
    /\ current \in Turn /\ pendingStart \in BOOLEAN
    /\ turns \in Seq(Settled) /\ queue \in Seq(Prompts)
    /\ recording \in Nat
TypeSteers ==
    /\ steerPending \in Seq(Prompts) /\ steerFolded \in Seq(Prompts)
    /\ steerOwner \in Prompts \cup {None}
TypeRuntime ==
    /\ closing \in {"none", "ending", "handing_off"}
    /\ wire \in Prompts \cup {None}
    /\ live \in BOOLEAN /\ superseded \in BOOLEAN /\ gate \in BOOLEAN
    /\ entry \in RegistryEntry
TypeTasks ==
    /\ pc \in [Prompts -> PCs]
    /\ outcome \in [Prompts -> Outcomes \cup {"none"}]
    /\ reparked \in Prompts \cup {None}
TypeSolo ==
    /\ sched \in {"idle", "due", "stale"}
    /\ canceller \in BOOLEAN
    /\ closer \in {"open", "unschedule", "teardown", "closed"}
    /\ watcher \in {"off", "watch", "chosen", "shipping", "handed", "gone"}
    /\ shipped \in Seq(Prompts)
TypePerms ==
    /\ pending \subseteq Perms
    /\ permPc \in [Perms -> {"new", "asked", "waiting", "answered", "done"}]
TypeAgent ==
    /\ alive \in BOOLEAN /\ epilogue \in BOOLEAN
    /\ out \subseteq Prompts /\ toCancel \subseteq Prompts
TypeHist ==
    /\ accepted \in Seq(Prompts)
    /\ doomed \subseteq Prompts \cup {None} /\ doomedGap \subseteq Prompts

\* Every variable has its type, group by group.
TypeOK == /\ TypeTurns /\ TypeSteers /\ TypeRuntime /\ TypeTasks
          /\ TypeSolo /\ TypePerms /\ TypeAgent /\ TypeHist

\* A session `launch` just put in `live`, no prompt sent.
Init ==
    /\ status = "idle" /\ plan = "continue" /\ current = NoTurn
    /\ pendingStart = FALSE /\ turns = << >> /\ queue = << >> /\ recording = 0
    /\ steerPending = << >> /\ steerFolded = << >> /\ steerOwner = None
    /\ pending = {} /\ permPc = [r \in Perms |-> "new"]
    /\ closing = "none" /\ wire = None /\ live = TRUE /\ superseded = FALSE
    /\ gate = FALSE
    /\ entry = [turns |-> Offset, started |-> FALSE, parked |-> NoPark]
    /\ pc = [p \in Prompts |-> "new"]
    /\ outcome = [p \in Prompts |-> "none"] /\ reparked = None
    /\ sched = "idle" /\ canceller = FALSE /\ closer = "open"
    /\ watcher = "off" /\ shipped = << >>
    /\ alive = TRUE /\ epilogue = FALSE /\ out = {} /\ toCancel = {}
    /\ accepted = << >> /\ doomed = {} /\ doomedGap = {}

-----------------------------------------------------------------------------
(* State formulae                                                          *)

AcceptsPrompt == status \in {"idle", "done", "cancelled", "failed"}

\* The prompt slot is free: promptable, and no steer still on the wire.
SlotFree == AcceptsPrompt /\ steerPending = << >>

\* next_turn_number
NextTurn == Offset + Len(turns) + 1

UpdateTurnUnshifted == Len(turns) + 1                                \* mutant
\* session_update numbers the turn it materializes by its own sum.
UpdateTurn == Offset + Len(turns) + 1

Oldest(folded, waiting) == IF folded # << >> THEN Head(folded)
                           ELSE IF waiting # << >> THEN Head(waiting)
                           ELSE None
OldestSteer == Oldest(steerFolded, steerPending)

InFlight == \/ status \in {"running", "needs_permission"}
            \/ steerPending # << >>
            \/ recording # 0

\* begin_turn's two gates.
CheckReady   == SlotFree /\ closing = "none"
ChainedReadyAsCheck == CheckReady                                    \* mutant
ChainedReady == status = "running" /\ current = NoTurn

ChainReadyGated      == ~superseded /\ queue # << >> /\ ~gate        \* mutant
ChainReadyUnfolded   == ~superseded /\ queue # << >> /\ steerPending = << >> \* mutant
ChainReadySuperseded == queue # << >> /\ (Folded \/ steerPending = << >>)     \* mutant
\* settle_turn chains the queue's head: no handover, no steer left in flight
\* once a Folded agent's are settled.
ChainReady == ~superseded /\ queue # << >> /\ (Folded \/ steerPending = << >>)

ReserveSlotUnstamped == status' = "running" /\ UNCHANGED pendingStart \* mutant
\* A reserved slot is `running` with its start stamped.
ReserveSlot == status' = "running" /\ pendingStart' = TRUE

FailedAlways == "failed"                                             \* mutant
\* `failed`, unless the agent's death already owns the status.
FailedUnlessExited == IF status = "exited" THEN status ELSE "failed"

\* Every prompt on the queue is dropped; the others are where f says.
DropQueue(f) == [q \in Prompts |-> IF q \in Range(queue) THEN "dropped" ELSE f[q]]

\* What a popped prompt becomes when its turn cannot start: a session that
\* was closed or lost its agent drops it, otherwise it just disappears.
Unstarted == IF closing = "none" /\ status # "exited" THEN "lost" ELSE "dropped"

AnswerNobody == permPc                                               \* mutant
\* Every permission request waiting for an answer gets `cancelled`.
AnswerPending == [r \in Perms |-> IF r \in pending THEN "answered" ELSE permPc[r]]

-----------------------------------------------------------------------------
(* send: entry checks, then the policy                                     *)

\* SendTool::call up to its `match args.policy`: the session is live and
\* its quota scope is not limited.
Send(c) ==
    /\ pc[c] = "new" /\ live /\ ~gate
    /\ \E policy \in Policies :
         pc' = [pc EXCEPT ![c] = IF policy = "queued" THEN "queue" ELSE policy]
    /\ UNCHANGED <<turnVars, steerVars, rtVars, outcome, reparked, soloVars,
                   permVars, agentVars, histVars>>

\* The queued policy's decision under `inner`: `fresh` when the slot and the
\* queue are free, an error when closing or exited, else a push. While
\* `handing_off` holds the call waits; once shipped it is refused.
SendQueued(c) ==
    /\ pc[c] = "queue"
    /\ \/ /\ closing = "none" /\ SlotFree /\ queue = << >>
          /\ pc' = [pc EXCEPT ![c] = "fresh"]
          /\ UNCHANGED <<queue, accepted>>
       \/ /\ \/ closing = "ending"
             \/ closing = "none" /\ status = "exited"
             \/ closing = "handing_off" /\ ~live
          /\ pc' = [pc EXCEPT ![c] = "refused"]
          /\ UNCHANGED <<queue, accepted>>
       \/ /\ closing = "none" /\ status # "exited"
          /\ ~(SlotFree /\ queue = << >>)
          /\ queue' = Append(queue, c) /\ accepted' = Append(accepted, c)
          /\ pc' = [pc EXCEPT ![c] = "queued"]
    /\ UNCHANGED <<status, plan, current, pendingStart, turns, recording,
                   steerVars, rtVars, outcome, reparked, soloVars, permVars,
                   agentVars, doomed, doomedGap>>

\* steer_send takes the wire and reads the status, letting go of `inner`
\* before it acts on what it read.
SteerSend(c) ==
    /\ pc[c] = "steer" /\ wire = None
    /\ \/ /\ AcceptsPrompt
          /\ wire' = c /\ pc' = [pc EXCEPT ![c] = "steer_begin"]
       \/ /\ status \in {"running", "needs_permission"}
          /\ wire' = c /\ pc' = [pc EXCEPT ![c] = "steer_push"]
       \/ /\ status \in {"rate_limited", "exited"}
          /\ pc' = [pc EXCEPT ![c] = "refused"] /\ UNCHANGED wire
    /\ UNCHANGED <<turnVars, steerVars, closing, live, superseded, gate, entry,
                   outcome, reparked, soloVars, permVars, agentVars, histVars>>

-----------------------------------------------------------------------------
(* begin_turn                                                              *)

\* The gate opens: `current` is stamped and the wire is p's until the
\* prompt is sent.
StampTurn(p) ==
    /\ current' = [n |-> NextTurn, p |-> p, onWire |-> FALSE, cancelReq |-> FALSE]
    /\ pendingStart' = FALSE /\ status' = "running"
    /\ wire' = p /\ pc' = [pc EXCEPT ![p] = "logging"]

\* start_turn, or steer_send on a session it read as promptable: begin_turn
\* with Gate::Check. A `handing_off` refusal keeps the wire and waits for
\* the ship; a queued send that lost the slot goes back to its decision.
BeginChecked(c) ==
    /\ pc[c] \in {"try", "fresh", "steer_begin"} /\ wire \in {None, c}
    /\ \/ CheckReady /\ StampTurn(c)
       \/ /\ ~CheckReady /\ closing = "handing_off" /\ live /\ wire = None
          /\ wire' = c
          /\ UNCHANGED <<current, pendingStart, status, pc>>
       \/ /\ ~CheckReady /\ (closing = "handing_off" => ~live)
          /\ wire' = None
          /\ pc' = [pc EXCEPT ![c] = IF pc[c] = "fresh" /\ closing # "handing_off"
                                     THEN "queue" ELSE "refused"]
          /\ UNCHANGED <<current, pendingStart, status>>
    /\ UNCHANGED <<plan, turns, queue, recording, steerVars, closing, live,
                   superseded, gate, entry, outcome, reparked, soloVars, permVars,
                   agentVars, histVars>>

\* The `prompt` transcript record, then the registry's `turn_started`.
LogPrompt(p) ==
    /\ pc[p] = "logging"
    /\ pc' = [pc EXCEPT ![p] = "sending"]
    /\ entry' = [entry EXCEPT !.started = TRUE]
    /\ UNCHANGED <<turnVars, steerVars, closing, wire, live, superseded, gate,
                   outcome, reparked, soloVars, permVars, agentVars, histVars>>

\* The transcript write failed: the turn is undone, the session `failed`.
LogFails(p) ==
    /\ "log" \in Events /\ pc[p] = "logging"
    /\ current' = NoTurn
    /\ status' = FailedUnlessExited
    /\ wire' = None /\ pc' = [pc EXCEPT ![p] = "dropped"]
    /\ UNCHANGED <<plan, pendingStart, turns, queue, recording, steerVars,
                   closing, live, superseded, gate, entry, outcome, reparked,
                   soloVars, permVars, agentVars, histVars>>

\* enqueue_prompt, then the deferred cancel behind it. No turn settles while
\* p holds the wire, so p's turn number is still NextTurn. A cancel reaches
\* every prompt the agent has not answered.
SendPrompt(p) ==
    LET mine == current # NoTurn /\ current.n = NextTurn IN
    /\ pc[p] = "sending"
    /\ pc' = [pc EXCEPT ![p] = "inturn"]
    /\ out' = out \cup {p}
    /\ toCancel' = IF mine /\ current.cancelReq THEN toCancel \cup out' ELSE toCancel
    /\ current' = IF mine THEN [current EXCEPT !.onWire = TRUE, !.cancelReq = FALSE]
                  ELSE current
    /\ wire' = None
    /\ UNCHANGED <<status, plan, pendingStart, turns, queue, recording, steerVars,
                   closing, live, superseded, gate, entry, outcome, reparked, soloVars,
                   permVars, alive, epilogue, histVars>>

-----------------------------------------------------------------------------
(* steer_turn, steer_waiter and steer_resolved                             *)

\* steer_turn: the steer joins `steer_pending`, whatever the session has
\* become since its status was read.
SteerPush(c) ==
    /\ pc[c] = "steer_push"
    /\ steerPending' = Append(steerPending, c)
    /\ pc' = [pc EXCEPT ![c] = "steer_log"]
    /\ UNCHANGED <<turnVars, steerFolded, steerOwner, rtVars, outcome, reparked,
                   soloVars, permVars, agentVars, histVars>>

\* After its transcript record the steer's prompt is enqueued.
SteerEnqueue(c) ==
    /\ pc[c] = "steer_log"
    /\ pc' = [pc EXCEPT ![c] = "steering"]
    /\ out' = out \cup {c} /\ wire' = None
    /\ UNCHANGED <<turnVars, steerVars, closing, live, superseded, gate, entry,
                   outcome, reparked, soloVars, permVars, alive, epilogue, toCancel,
                   histVars>>

\* note_limit: the scope's gate goes up (steer_resolved's first act).
SteerNoteLimit(c) ==
    /\ pc[c] = "steer_noting"
    /\ gate' = TRUE /\ pc' = [pc EXCEPT ![c] = "steer_resolve"]
    /\ UNCHANGED <<turnVars, steerVars, closing, wire, live, superseded, entry,
                   outcome, reparked, soloVars, permVars, agentVars, histVars>>

IsErr(o) == o \in {"limit", "error"}

\* A steer is pushed once, so `retain` takes out at most one entry.
WithoutSteer(c)  == RemoveFirst(steerPending, c)
WithoutFolded(c) == RemoveFirst(steerFolded, c)

OwnsAny(c) == steerOwner # None                                      \* mutant
Owns(c) == steerOwner = c

\* steer_resolved: the steer leaves its list; the turn it owns ends with it
\* unless it was rejected and another steer can own the turn; and the last
\* steer out starts the queue it held up, reserving the slot before the
\* wire is taken.
SteerResolved(c) ==
    LET owner == Owns(c)
        heir  == Oldest(WithoutFolded(c), WithoutSteer(c))
        mine  == owner /\ ~(IsErr(outcome[c]) /\ heir # None)
        kick  == /\ ~mine /\ WithoutSteer(c) = << >> /\ current = NoTurn
                 /\ AcceptsPrompt /\ ~superseded /\ queue # << >>
        after == IF mine THEN "ended" ELSE "done"
    IN
    /\ pc[c] = "steer_resolve"
    /\ steerPending' = WithoutSteer(c)
    /\ steerFolded' = WithoutFolded(c)
    /\ steerOwner' = IF ~owner THEN steerOwner ELSE IF mine THEN None ELSE heir
    /\ current' = IF owner /\ ~mine /\ current # NoTurn
                  THEN [current EXCEPT !.p = heir] ELSE current
    /\ status' = IF kick THEN "running" ELSE status
    /\ pendingStart' = IF kick THEN TRUE ELSE pendingStart
    /\ queue' = IF kick THEN Tail(queue) ELSE queue
    /\ pc' = IF kick THEN [pc EXCEPT ![c] = after, ![Head(queue)] = "kicked"]
                     ELSE [pc EXCEPT ![c] = after]
    /\ UNCHANGED <<plan, turns, recording, rtVars, outcome, reparked, soloVars,
                   permVars, agentVars, histVars>>

\* The kicked prompt's wire: spawn_chained runs under it.
KickWire(q) ==
    /\ pc[q] = "kicked" /\ wire = None
    /\ wire' = q /\ pc' = [pc EXCEPT ![q] = "chained"]
    /\ UNCHANGED <<turnVars, steerVars, closing, live, superseded, gate, entry,
                   outcome, reparked, soloVars, permVars, agentVars, histVars>>

\* session_update with no current turn: the oldest outstanding steer gets a
\* turn of its own. (Updates during a turn only add to its reply.)
SessionUpdate ==
    /\ alive /\ current = NoTurn /\ OldestSteer # None
    /\ current' = [n |-> UpdateTurn, p |-> OldestSteer,
                   onWire |-> FALSE, cancelReq |-> FALSE]
    /\ pendingStart' = FALSE /\ steerOwner' = OldestSteer /\ status' = "running"
    /\ UNCHANGED <<plan, turns, queue, recording, steerPending, steerFolded,
                   rtVars, taskVars, soloVars, permVars, agentVars, histVars>>

-----------------------------------------------------------------------------
(* finish_turn: settle, record, clear                                      *)

\* The current turn moves to `turns`, marked as being recorded; on a Folded
\* agent the steers still waiting settle as folded with it.
CloseCurrent(p) ==
    /\ turns' = IF current = NoTurn THEN turns
                ELSE Append(turns, [n |-> current.n, p |-> current.p, by |-> p,
                                    limited |-> outcome[p] = "limit"])
    /\ recording' = IF current = NoTurn THEN recording ELSE current.n
    /\ current' = NoTurn
    /\ steerPending' = IF Folded THEN << >> ELSE steerPending
    /\ steerFolded' = IF Folded THEN steerFolded \o steerPending ELSE steerFolded
    /\ UNCHANGED steerOwner

UnchangedByFinish == UNCHANGED <<closing, live, superseded, gate, entry, outcome,
                                 reparked, soloVars, permVars, agentVars, histVars>>

FinishUnheld(p) == pc[p] = "ended" /\ wire = None /\ wire' = None     \* mutant
                   /\ UnchangedByFinish
FinishIfLive(p) == pc[p] = "ended" /\ live /\ wire = None /\ wire' = p \* mutant
                   /\ UnchangedByFinish
\* finish_turn owns the wire from here to the cleared record.
FinishBegins(p) == pc[p] = "ended" /\ wire = None /\ wire' = p
                   /\ UnchangedByFinish

\* settle_turn: a cancelled turn drops the queue; otherwise the queue's head
\* reserves the next slot unless a steer or the handover holds it back.
SettleTurn(p) ==
    LET rec == [pc EXCEPT ![p] = "recording"] IN
    /\ outcome[p] \in {"ok", "cancelled"}
    /\ \/ /\ status = "exited"
          /\ pc' = rec
          /\ UNCHANGED <<status, pendingStart, queue>>
       \/ /\ status # "exited" /\ outcome[p] = "cancelled"
          /\ status' = "cancelled" /\ queue' = << >> /\ pc' = DropQueue(rec)
          /\ UNCHANGED pendingStart
       \/ /\ status # "exited" /\ outcome[p] = "ok" /\ ChainReady
          /\ pendingStart' = TRUE /\ queue' = Tail(queue)
          /\ pc' = [rec EXCEPT ![Head(queue)] = "popped"]
          /\ UNCHANGED status
       \/ /\ status # "exited" /\ outcome[p] = "ok" /\ ~ChainReady
          /\ status' = "done" /\ pc' = rec
          /\ UNCHANGED <<pendingStart, queue>>
    /\ UNCHANGED plan
    /\ CloseCurrent(p)
    /\ FinishBegins(p)

\* fail_turn: the session fails, unless its agent is gone; the queue drops.
FailTurn(p) ==
    /\ outcome[p] = "error"
    /\ status' = FailedUnlessExited
    /\ queue' = << >> /\ pc' = DropQueue([pc EXCEPT ![p] = "recording"])
    /\ UNCHANGED <<plan, pendingStart>>
    /\ CloseCurrent(p)
    /\ FinishBegins(p)

\* park_turn: the session waits for its quota, the queue survives.
ParkTurn(p) ==
    /\ outcome[p] = "limit"
    /\ status' = IF status = "exited" THEN status ELSE "rate_limited"
    /\ plan' = IF status = "exited" THEN plan ELSE "continue"
    /\ pendingStart' = FALSE
    /\ pc' = [pc EXCEPT ![p] = "recording"]
    /\ UNCHANGED queue
    /\ CloseCurrent(p)
    /\ FinishBegins(p)

ParkThoughClosing(o) ==                                              \* mutant
    IF o = "limit" THEN "continue"
    ELSE IF status \in {"rate_limited", "exited"} THEN entry.parked ELSE NoPark
ParkIfQueued(o) ==                                                   \* mutant
    IF o = "limit" /\ closing = "none" /\ queue # << >>
    THEN "continue"
    ELSE IF status \in {"rate_limited", "exited"} THEN entry.parked ELSE NoPark
\* What record_turn_end leaves in the registry's parked flag: armed by a
\* parked turn unless the session is closing, spent by any other settled one.
ParkAfterTurn(o) ==
    IF o = "limit" /\ closing = "none"
    THEN "continue"
    ELSE IF status \in {"rate_limited", "exited"} THEN entry.parked ELSE NoPark

\* record_turn_end, under `registry_write`.
RecordTurnEnd(p) ==
    /\ pc[p] = "recording"
    /\ pc' = [pc EXCEPT ![p] = "clearing"]
    /\ entry' = [turns |-> Offset + Len(turns), started |-> FALSE,
                 parked |-> ParkAfterTurn(outcome[p])]
    /\ UNCHANGED <<turnVars, steerVars, closing, wire, live, superseded, gate,
                   outcome, reparked, soloVars, permVars, agentVars, histVars>>

\* The record is in: `recording` clears and the wire goes to the popped
\* prompt's task, or is free.
ClearRecording(p) ==
    LET after == IF outcome[p] = "limit" THEN "noting" ELSE "done" IN
    /\ pc[p] = "clearing"
    /\ recording' = 0
    /\ \/ \E q \in Prompts :
            /\ pc[q] = "popped"
            /\ wire' = q /\ pc' = [pc EXCEPT ![p] = after, ![q] = "chained"]
       \/ /\ \A q \in Prompts : pc[q] # "popped"
          /\ wire' = None /\ pc' = [pc EXCEPT ![p] = after]
    /\ UNCHANGED <<status, plan, current, pendingStart, turns, queue, steerVars,
                   closing, live, superseded, gate, entry, outcome, reparked, soloVars,
                   permVars, agentVars, histVars>>

\* finish_turn's last act for a rate-limited turn: note_limit.
NoteLimit(p) ==
    /\ pc[p] = "noting"
    /\ gate' = TRUE /\ pc' = [pc EXCEPT ![p] = "done"]
    /\ UNCHANGED <<turnVars, steerVars, closing, wire, live, superseded, entry,
                   outcome, reparked, soloVars, permVars, agentVars, histVars>>

-----------------------------------------------------------------------------
(* spawn_chained and repark_prompt                                         *)

\* The queued-turn handoff: the popped prompt starts its turn under
\* Gate::Chained; without a live session or with the gate shut it is gone.
SpawnChained(q) ==
    /\ pc[q] = "chained" /\ (live => ~gate)
    /\ \/ live /\ ChainedReady /\ StampTurn(q)
       \/ /\ ~(live /\ ChainedReady)
          /\ wire' = None /\ pc' = [pc EXCEPT ![q] = Unstarted]
          /\ UNCHANGED <<current, pendingStart, status>>
    /\ UNCHANGED <<plan, turns, queue, recording, steerVars, closing, live,
                   superseded, gate, entry, outcome, reparked, soloVars, permVars,
                   agentVars, histVars>>

RequeuedLast(q) == Append(queue, q)                                  \* mutant
RequeuedNot(q)  == queue                                             \* mutant
Requeued(q) == <<q>> \o queue

\* repark_prompt: a limit learned since the pop puts the prompt back in front.
Repark(q) ==
    /\ pc[q] = "chained" /\ live /\ gate
    /\ pendingStart' = FALSE /\ status' = "rate_limited" /\ plan' = "queue"
    /\ queue' = Requeued(q) /\ reparked' = q
    /\ pc' = [pc EXCEPT ![q] = "queued"]
    /\ UNCHANGED <<current, turns, recording, steerVars, rtVars, outcome, soloVars,
                   permVars, agentVars, histVars>>

\* record_park's registry half, under `registry_write`; the wire is free after it.
RecordPark ==
    /\ reparked # None /\ reparked' = None
    /\ entry' = IF closing = "none" THEN [entry EXCEPT !.parked = "queue"] ELSE entry
    /\ wire' = None
    /\ UNCHANGED <<turnVars, steerVars, closing, live, superseded, gate, pc, outcome,
                   soloVars, permVars, agentVars, histVars>>

-----------------------------------------------------------------------------
(* The resume scheduler on this session                                    *)

\* The parked record's time has come. note_limit moves it to the gate's, so
\* it is due under a raised gate only before that note.
Due == entry.parked # NoPark /\ (gate => \E p \in Prompts : pc[p] = "noting")

SchedulerFree ==
    sched = "idle" /\ \A p \in Prompts : pc[p] \notin {"reserved", "resuming"}

\* parked_due: the session is on the scheduler's list, whose entries are
\* taken up one by one, RESUME_STAGGER apart.
ParkedDue ==
    /\ SchedulerFree /\ Due /\ sched' = "due"
    /\ UNCHANGED <<turnVars, steerVars, rtVars, taskVars, canceller, closer,
                   watcher, shipped, permVars, agentVars, histVars>>

\* reserve_resume_turn: a continuation, or the queue's first prompt.
ReserveResume(p) ==
    /\ sched = "due" /\ sched' = "idle" /\ live /\ ~superseded
    /\ status = "rate_limited" /\ closing = "none"
    /\ \/ /\ plan = "continue" /\ p \in Resumes /\ pc[p] = "new"
          /\ UNCHANGED queue
       \/ /\ plan = "queue" /\ queue # << >> /\ p = Head(queue)
          /\ queue' = Tail(queue)
    /\ ReserveSlot
    /\ pc' = [pc EXCEPT ![p] = "reserved"]
    /\ UNCHANGED <<plan, current, turns, recording, steerVars, rtVars, outcome,
                   reparked, canceller, closer, watcher, shipped, permVars, agentVars,
                   histVars>>

\* resume_live: the parked flag is consumed before the turn starts.
ClearParked(p) ==
    /\ pc[p] = "reserved"
    /\ entry' = [entry EXCEPT !.parked = NoPark]
    /\ pc' = [pc EXCEPT ![p] = "resuming"]
    /\ UNCHANGED <<turnVars, steerVars, closing, wire, live, superseded, gate,
                   outcome, reparked, soloVars, permVars, agentVars, histVars>>

\* resume_live takes the wire and begins the reserved turn.
ResumeBegin(p) ==
    /\ pc[p] = "resuming" /\ wire = None
    /\ \/ ChainedReady /\ StampTurn(p)
       \/ /\ ~ChainedReady
          /\ pendingStart' = FALSE
          /\ status' = IF status = "exited" \/ closing # "none" THEN status ELSE "failed"
          /\ pc' = [pc EXCEPT ![p] = Unstarted]
          /\ UNCHANGED <<current, wire>>
    /\ UNCHANGED <<plan, turns, queue, recording, steerVars, closing, live,
                   superseded, gate, entry, outcome, reparked, soloVars, permVars,
                   agentVars, histVars>>

\* resume_parked on a session it does not resume here: a superseded daemon
\* leaves it alone, one that is gone or `exited` is resume_loaded's; on any
\* other the flag is stale, and cleared by a registry write after the look.
PassOver ==
    /\ sched = "due"
    /\ ~(live /\ ~superseded /\ status = "rate_limited" /\ closing = "none")
    /\ sched' = IF live /\ ~superseded /\ status # "exited" THEN "stale" ELSE "idle"
    /\ UNCHANGED <<turnVars, steerVars, rtVars, taskVars, canceller, closer,
                   watcher, shipped, permVars, agentVars, histVars>>

ClearStale ==
    /\ sched = "stale" /\ sched' = "idle"
    /\ entry' = [entry EXCEPT !.parked = NoPark]
    /\ UNCHANGED <<turnVars, steerVars, closing, wire, live, superseded, gate,
                   taskVars, canceller, closer, watcher, shipped, permVars,
                   agentVars, histVars>>

-----------------------------------------------------------------------------
(* cancel and permit                                                       *)

\* The prompts whose slot is reserved but whose turn is not stamped.
InGap == {q \in Prompts : pc[q] \in {"popped", "chained", "kicked", "reserved", "resuming"}}

OffWireNever == FALSE                                                \* mutant
\* The current turn's prompt is not on the wire yet.
OffWire == current # NoTurn /\ ~current.onWire

\* cancel_turn under `inner`. A turn whose prompt is not on the wire has the
\* cancel deferred to begin_turn; any other cancel is sent after the
\* `queue_dropped` record (`canceller`), whatever the session has become.
CancelTurn ==
    /\ "cancel" \in Events /\ ~canceller /\ live
    /\ status \in {"running", "needs_permission"}
    /\ pending' = {} /\ permPc' = AnswerPending
    /\ queue' = << >> /\ pc' = DropQueue(pc)
    /\ \/ /\ OffWire
          /\ current' = [current EXCEPT !.cancelReq = TRUE]
          /\ UNCHANGED canceller
       \/ /\ ~OffWire
          /\ canceller' = TRUE
          /\ UNCHANGED current
    /\ doomed' = IF current = NoTurn THEN doomed ELSE doomed \cup {current.p}
    /\ doomedGap' = IF current = NoTurn THEN doomedGap \cup InGap ELSE doomedGap
    /\ UNCHANGED <<status, plan, pendingStart, turns, recording, steerVars, rtVars,
                   outcome, reparked, sched, closer, watcher, shipped, agentVars, accepted>>

\* session/cancel on the wire.
CancelSend ==
    /\ canceller /\ canceller' = FALSE
    /\ toCancel' = toCancel \cup out
    /\ UNCHANGED <<turnVars, steerVars, rtVars, taskVars, sched, closer, watcher,
                   shipped, permVars, alive, epilogue, out, histVars>>

\* The agent raises a permission request: the handler's task is spawned.
AskPermission(r) ==
    /\ permPc[r] = "new" /\ alive /\ out # {}
    /\ permPc' = [permPc EXCEPT ![r] = "asked"]
    /\ UNCHANGED <<turnVars, steerVars, rtVars, taskVars, soloVars, pending,
                   agentVars, histVars>>

\* queue_for_permit, first half: whatever the status was, it is now
\* `needs_permission`.
QueueForPermit(r) ==
    /\ permPc[r] = "asked"
    /\ permPc' = [permPc EXCEPT ![r] = "waiting"]
    /\ pending' = pending \cup {r} /\ status' = "needs_permission"
    /\ UNCHANGED <<plan, current, pendingStart, turns, queue, recording, steerVars,
                   rtVars, taskVars, soloVars, agentVars, histVars>>

\* The last answered request lets the turn run on.
Unblocked(waiting) ==
    IF waiting = {} /\ status = "needs_permission" THEN "running" ELSE status

\* PermitTool::permit.
Permit(r) ==
    /\ r \in pending /\ live
    /\ pending' = pending \ {r} /\ status' = Unblocked(pending \ {r})
    /\ permPc' = [permPc EXCEPT ![r] = "answered"]
    /\ UNCHANGED <<plan, current, pendingStart, turns, queue, recording, steerVars,
                   rtVars, taskVars, soloVars, agentVars, histVars>>

\* queue_for_permit, second half: the answer reached the handler's task.
PermitAnswered(r) ==
    /\ permPc[r] = "answered"
    /\ permPc' = [permPc EXCEPT ![r] = "done"] /\ status' = Unblocked(pending)
    /\ UNCHANGED <<plan, current, pendingStart, turns, queue, recording, steerVars,
                   rtVars, taskVars, soloVars, pending, agentVars, histVars>>

-----------------------------------------------------------------------------
(* The agent and the passage of time                                       *)

\* The agent answers a prompt; a dead one fails every prompt it had. Only a
\* cancel that reached it makes it answer `cancelled`.
Answer(p) ==
    /\ p \in out
    /\ \E o \in Outcomes :
         /\ o = "ok" => alive
         /\ o = "cancelled" => alive /\ p \in toCancel
         /\ o = "limit" => alive /\ "limit" \in Events
         /\ o = "error" => ~alive \/ "error" \in Events
         /\ outcome' = [outcome EXCEPT ![p] = o]
         /\ pc' = [pc EXCEPT ![p] = IF pc[p] = "inturn" THEN "ended"
                                    ELSE IF o = "limit" THEN "steer_noting"
                                    ELSE "steer_resolve"]
    /\ out' = out \ {p} /\ toCancel' = toCancel \ {p}
    /\ UNCHANGED <<turnVars, steerVars, rtVars, reparked, soloVars, permVars, alive,
                   epilogue, histVars>>

\* Another session of the scope hits the limit, and every limit expires.
GateRises ==
    /\ "limit" \in Events /\ ~gate /\ gate' = TRUE
    /\ UNCHANGED <<turnVars, steerVars, closing, wire, live, superseded, entry,
                   taskVars, soloVars, permVars, agentVars, histVars>>

GateExpires ==
    /\ gate /\ gate' = FALSE
    /\ UNCHANGED <<turnVars, steerVars, closing, wire, live, superseded, entry,
                   taskVars, soloVars, permVars, agentVars, histVars>>

\* The agent process ends by itself, or close_sub has killed it and has yet
\* to drain what waits.
AgentDies ==
    /\ "die" \in Events \/ closer = "teardown" \/ watcher = "handed"
    /\ alive /\ alive' = FALSE
    /\ UNCHANGED <<turnVars, steerVars, rtVars, taskVars, soloVars, permVars,
                   epilogue, out, toCancel, histVars>>

\* on_disconnect: the connection task's epilogue, a no-op while closing.
OnDisconnect ==
    /\ ~alive /\ ~epilogue /\ epilogue' = TRUE
    /\ \/ /\ closing # "none"
          /\ UNCHANGED <<status, current, queue, steerVars, pc, permVars>>
       \/ /\ closing = "none"
          /\ status' = "exited" /\ current' = NoTurn
          /\ pending' = {} /\ permPc' = AnswerPending
          /\ queue' = << >> /\ pc' = DropQueue(pc)
          /\ steerPending' = << >> /\ steerFolded' = << >> /\ steerOwner' = None
    /\ UNCHANGED <<plan, pendingStart, turns, recording, rtVars, outcome, reparked,
                   soloVars, alive, out, toCancel, histVars>>

-----------------------------------------------------------------------------
(* close: end_session                                                      *)

\* end_target takes the session out of `live`; `closing` is set before any
\* mark is cleared.
CloseSession ==
    /\ "close" \in Events /\ closer = "open" /\ live
    /\ live' = FALSE /\ closing' = "ending" /\ closer' = "unschedule"
    /\ UNCHANGED <<turnVars, steerVars, wire, superseded, gate, entry, taskVars,
                   sched, canceller, watcher, shipped, permVars, agentVars, histVars>>

UnscheduleResume ==
    /\ closer = "unschedule" /\ closer' = "teardown"
    /\ entry' = [entry EXCEPT !.parked = NoPark]
    /\ UNCHANGED <<turnVars, steerVars, closing, wire, live, superseded, gate,
                   taskVars, sched, canceller, watcher, shipped, permVars,
                   agentVars, histVars>>

\* close_sub: the process dies, what waits is dropped, a session at work or
\* parked is `cancelled`. `current` stays for its task to settle.
CloseSub ==
    /\ closing' = "ending" /\ alive' = FALSE
    /\ pending' = {} /\ permPc' = AnswerPending
    /\ queue' = << >> /\ pc' = DropQueue(pc)
    /\ steerPending' = << >> /\ steerFolded' = << >> /\ steerOwner' = None
    /\ status' = IF status \in {"running", "needs_permission", "rate_limited"}
                 THEN "cancelled" ELSE status
    /\ UNCHANGED <<plan, current, pendingStart, turns, recording, wire, live,
                   superseded, gate, entry, outcome, reparked, sched, canceller,
                   shipped, epilogue, out, toCancel, histVars>>

Teardown ==
    /\ closer = "teardown" /\ closer' = "closed"
    /\ CloseSub
    /\ UNCHANGED watcher

-----------------------------------------------------------------------------
(* The handover to the next daemon generation                              *)

\* TakeoverTool: a settled session ships in the report, marked under the
\* lock it was found settled with; any other is left to the watcher.
Supersede ==
    /\ "handover" \in Events /\ watcher = "off" /\ superseded' = TRUE
    /\ \/ /\ live /\ ~InFlight /\ closing = "none"
          /\ closing' = "handing_off" /\ live' = FALSE
          /\ shipped' = queue /\ watcher' = "handed"
       \/ /\ ~(live /\ ~InFlight /\ closing = "none")
          /\ watcher' = "watch"
          /\ UNCHANGED <<closing, live, shipped>>
    /\ UNCHANGED <<turnVars, steerVars, wire, gate, entry, taskVars, sched,
                   canceller, closer, permVars, agentVars, histVars>>

\* handover_watch's scan finds the session settled and drops the locks.
WatchScan ==
    /\ watcher = "watch" /\ live /\ ~InFlight /\ closing = "none"
    /\ watcher' = "chosen"
    /\ UNCHANGED <<turnVars, steerVars, rtVars, taskVars, sched, canceller, closer,
                   shipped, permVars, agentVars, histVars>>

\* handoff_one marks the session and snapshots its queue.
HandoffOne ==
    /\ watcher = "chosen" /\ watcher' = "shipping"
    /\ closing' = "handing_off" /\ shipped' = queue
    /\ UNCHANGED <<turnVars, steerVars, wire, live, superseded, gate, entry, taskVars,
                   sched, canceller, closer, permVars, agentVars, histVars>>

\* The successor took the report, or it did not and the mark clears.
HandoffReported ==
    /\ watcher = "shipping"
    /\ \/ /\ watcher' = "handed" /\ live' = FALSE
          /\ UNCHANGED <<closing, shipped>>
       \/ /\ watcher' = "watch" /\ shipped' = << >>
          /\ closing' = IF closing = "handing_off" THEN "none" ELSE closing
          /\ UNCHANGED live
    /\ UNCHANGED <<turnVars, steerVars, wire, superseded, gate, entry, taskVars,
                   sched, canceller, closer, permVars, agentVars, histVars>>

HandedClose ==
    /\ watcher = "handed" /\ watcher' = "gone"
    /\ CloseSub
    /\ UNCHANGED closer

-----------------------------------------------------------------------------
(* The specification                                                       *)

\* What runs on its own once started: the daemon's tasks, by prompt.
WireFree(p) == \/ LogPrompt(p) \/ SendPrompt(p) \/ SteerPush(p) \/ SteerEnqueue(p)
               \/ SteerNoteLimit(p) \/ SteerResolved(p) \/ RecordTurnEnd(p)
               \/ ClearRecording(p) \/ NoteLimit(p) \/ SpawnChained(p) \/ Repark(p)
               \/ ClearParked(p) \/ SendQueued(p)

\* Steps that wait for the `prompt_send` mutex.
WireTaking(p) == \/ SteerSend(p) \/ BeginChecked(p) \/ SettleTurn(p) \/ FailTurn(p)
                 \/ ParkTurn(p) \/ KickWire(p) \/ ResumeBegin(p)

Scheduler == ParkedDue \/ PassOver \/ ClearStale \/ \E p \in Prompts : ReserveResume(p)

Teardowns == UnscheduleResume \/ Teardown \/ HandedClose \/ OnDisconnect

Next ==
    \/ \E c \in Calls : Send(c)
    \/ \E p \in Prompts : WireFree(p) \/ WireTaking(p) \/ LogFails(p) \/ Answer(p)
    \/ RecordPark \/ Scheduler \/ Teardowns
    \/ SessionUpdate
    \/ CancelTurn \/ CancelSend
    \/ \E r \in Perms : AskPermission(r) \/ QueueForPermit(r) \/ Permit(r) \/ PermitAnswered(r)
    \/ GateRises \/ GateExpires \/ AgentDies
    \/ CloseSession
    \/ Supersede \/ WatchScan \/ HandoffOne \/ HandoffReported

Spec == Init /\ [][Next]_vars

\* The runtime polls every ready task, tokio's mutex hands `prompt_send` over
\* in FIFO order, the agent answers what it was sent, a handoff report comes
\* back (done or failed), and time passes. The callers, the agent's death and
\* the other sessions owe nothing.
Fairness ==
    /\ \A p \in Prompts : WF_vars(WireFree(p)) /\ SF_vars(WireTaking(p)) /\ WF_vars(Answer(p))
    /\ WF_vars(RecordPark) /\ SF_vars(Scheduler) /\ WF_vars(Teardowns)
    /\ WF_vars(CancelSend) /\ WF_vars(GateExpires) /\ WF_vars(HandoffReported)

FairSpec == Spec /\ Fairness

-----------------------------------------------------------------------------
(* Properties                                                              *)

\* Turn numbers are consecutive: whatever settles, fails, parks, materializes
\* or is cut off by a disconnect, `turns` has no gap and no repeat, and the
\* turn in flight carries the number next_turn_number predicts for it.
Numbering ==
    /\ \A i \in 1..Len(turns) : turns[i].n = Offset + i
    /\ current # NoTurn => current.n = NextTurn

\* Whenever no turn end is marked `recording`, the registry counts every
\* settled turn: an end that `wait`, `status` or a handover reports is on
\* record, with any interleaving of closes, disconnects and other turns.
EndsRecorded == recording = 0 => entry.turns = Offset + Len(turns)

\* A turn whose prompt the agent is working on has its start in the
\* registry: no record of an earlier turn's end clears it (finish_turn holds
\* the wire over both).
StartRecorded == \A p \in Prompts : pc[p] = "inturn" /\ current.p = p => entry.started

\* `running` never lacks a recorded start (settle_turn's comment;
\* awaited_turn answers Error::Internal otherwise).
RunningHasStart == status = "running" => current # NoTurn \/ pendingStart

\* A session reports `needs_permission` only while there is a request left
\* to answer, or an answer on its way to the task that reports it: cancels,
\* answers in any order and late requests never leave it stuck there.
PermissionBacked ==
    status = "needs_permission" => pending # {} \/ \E r \in Perms : permPc[r] = "answered"

\* An accepted queued prompt runs, or is dropped because its turn was
\* cancelled or failed or the session was cancelled, closed or died: it
\* never vanishes between the queue and its turn.
NoLostPrompt == \A p \in Prompts : pc[p] # "lost"

\* Queued prompts start in the order `send` accepted them, through pops,
\* kicks, re-parks and resumes.
Begun == {"logging", "sending", "inturn", "ended", "recording", "clearing",
          "noting", "done"}
QueueOrder ==
    \A i, j \in 1..Len(accepted) :
        i < j /\ pc[accepted[j]] \in Begun => pc[accepted[i]] \in Begun \cup {"dropped"}

\* A session that takes prompts again has no prompt left waiting in its
\* queue: nothing would ever start it.
NoStrandedQueue == CheckReady /\ ~superseded => queue = << >>

\* Every settled turn was ended by the answer to its own prompt, never by
\* the answer to another one.
OwnAnswer == \A i \in 1..Len(turns) : turns[i].p = turns[i].by

\* Once close has consumed the resume schedule, no task that parks late
\* (record_turn_end, record_park) arms it again.
NoResurrection == closer \in {"teardown", "closed"} => entry.parked = NoPark

\* A parked session is on the scheduler's list: outside the two windows in
\* which its park is being recorded, the registry flag is armed.
ParkedHasSchedule ==
    status = "rate_limited" /\ closing = "none" /\ recording = 0 /\ reparked = None
        => entry.parked # NoPark

\* A session parked for its queue has a prompt to resume with
\* (reserve_resume_turn panics otherwise).
ParkedQueueHasPrompt ==
    status = "rate_limited" /\ plan = "queue" /\ closing = "none" => queue # << >>

\* Once on_disconnect ran on a session nobody is closing, it is `exited` and
\* stays so: no late turn end, permission or park makes it look promptable.
ExitedSticks == epilogue /\ closing = "none" => status = "exited"

\* A cancel aimed at the current turn reaches the agent behind that turn's
\* prompt: once no cancel is in transit, no prompt it was aimed at is still
\* being worked on uncancelled.
CancelReaches == alive /\ ~canceller => doomed \cap out \subseteq toCancel

\* The same for a cancel aimed at a turn whose slot is reserved but whose
\* prompt is still with the task that will start it.
CancelReachesReserved == alive /\ ~canceller => doomedGap \cap out \subseteq toCancel

\* handoff_one marks a session only while nothing is in flight on it and no
\* close has claimed it: a turn that started keeps the session here, and a
\* session ended on purpose is not relaunched by the successor.
ShipsSettled ==
    [][watcher = "chosen" /\ watcher' = "shipping" => ~InFlight /\ closing = "none"]_vars

\* The shipped queue is what the successor replays: a shipped prompt never
\* starts here too, and no prompt is accepted here behind the report.
ShippedOnce ==
    /\ watcher \in {"shipping", "handed", "gone"} =>
         \A q \in Range(shipped) : pc[q] \in {"queued", "dropped"}
    /\ watcher = "handed" => Range(queue) \subseteq Range(shipped)

\* A queued prompt does not wait for ever: it starts or is dropped, unless it
\* rides a handover, or the instance has no continuation left to resume a
\* parked session with.
QueueDrains ==
    \A p \in Prompts :
        pc[p] = "queued" ~> \/ pc[p] # "queued"
                           \/ superseded
                           \/ \A r \in Resumes : pc[r] # "new"

\* An answered or failed prompt's turn settles, is recorded and ends: no
\* interleaving of closes, cancels and other turns leaves it half finished.
TurnsFinish == \A p \in Prompts : pc[p] \in {"logging", "inturn"} ~> pc[p] = "done"

=============================================================================
