------------------------------- MODULE Waits -------------------------------
(* Whoever waits for a turn, and the watchdog that ends a turn nobody waits *)
(* for, on the session of module Session: the `wait` tool, a library host's *)
(* `prompt`, and watchdog::run. Every step of the session is one of         *)
(* Session's; here it also wakes the tasks that sleep on `notify`.          *)
EXTENDS Session

CONSTANTS
    Waiting,     \* `wait` calls
    Hosts        \* calls made by a library host's `prompt` (policy `try`)

Waiters == Waiting \cup Hosts

ASSUME HostsAssumption == Hosts \subseteq Calls /\ Waiting \cap Prompts = {}

VARIABLES
    \* each waiting task: where it is, the turn it is bound to, how its loop
    \* ended, what it answered, whether only a notify or a deadline wakes it
    wpc, bound, told, answer, asleep,
    \* Steer::target of each steer
    target,
    \* the watchdog: its state, a wake-up it has not seen, the turn whose
    \* grace runs (0 for none), whether it ran out, its `superseded`
    dog, dogWoken, clock, ripe, restarted

waitVars == <<wpc, bound, told, answer, asleep>>
dogVars  == <<dog, dogWoken, clock, ripe, restarted>>
allVars  == <<vars, waitVars, target, dogVars>>

-----------------------------------------------------------------------------
(* Types                                                                   *)

(*  new starting   not called; a host's start_turn is under way            *)
(*  binding        `wait` has its turn and has not attached yet            *)
(*  waiting        in wait_for_turn                                        *)
(*  leaving        its loop ended, the answer not read yet                 *)
(*  answered       returned; `internal`: with Error::Internal; `refused`   *)
(*  dropped        the caller is gone                                      *)
WaitStages == {"new", "starting", "binding", "waiting", "leaving", "answered",
               "internal", "refused", "dropped"}
Ends == {"none", "ended", "limited", "timeout"}
NoAnswer == [turn |-> 0, state |-> "none"]

\* Types of what this module adds to the session's state.
WaitTypes ==
    /\ wpc \in [Waiters -> WaitStages] /\ bound \in [Waiters -> Nat]
    /\ told \in [Waiters -> Ends]
    /\ answer \in [Waiters -> [turn : Nat, state : Statuses \cup {"none"}]]
    /\ asleep \in [Waiters -> BOOLEAN] /\ target \in [Prompts -> Nat]
    /\ dog \in {"watching", "closing", "gone"} /\ dogWoken \in BOOLEAN
    /\ clock \in Nat /\ ripe \in BOOLEAN /\ restarted \in BOOLEAN

\* Types of the whole state, the session's own included.
WaitTypeOK == TypeOK /\ WaitTypes

WaitInit ==
    /\ Init
    /\ wpc = [w \in Waiters |-> "new"] /\ bound = [w \in Waiters |-> 0]
    /\ told = [w \in Waiters |-> "none"] /\ answer = [w \in Waiters |-> NoAnswer]
    /\ asleep = [w \in Waiters |-> FALSE] /\ target = [p \in Prompts |-> 0]
    /\ dog = "watching" /\ dogWoken = TRUE /\ clock = 0 /\ ripe = FALSE
    /\ restarted = FALSE

-----------------------------------------------------------------------------
(* State formulae                                                          *)

\* The Waiter guards that are held.
Attached == {w \in Waiters : \/ wpc[w] \in {"waiting", "leaving"} /\ bound[w] # 0
                             \/ w \in Hosts /\ wpc[w] \in {"starting", "leaving"}}

SettledTurns(n) == {i \in 1..Len(turns) : turns[i].n = n}
HasSettled(n) == SettledTurns(n) # {}

\* awaited_turn's Error::Internal: `running` with no recorded turn start.
NoStart == recording = 0 /\ status = "running" /\ current = NoTurn /\ ~pendingStart

\* awaited_turn: the turn a wait called now binds to; 0 for none.
AwaitedTurn ==
    CASE current # NoTurn /\ (recording # 0 \/ status = "running") -> current.n
      [] current = NoTurn /\ recording # 0                         -> recording
      [] current = NoTurn /\ recording = 0 /\ status = "running"   -> NextTurn
      [] recording = 0 /\ status = "rate_limited"                  -> NextTurn
      [] recording = 0 /\ status \in {"idle", "done", "cancelled", "failed"}
           -> IF steerPending = << >> THEN 0 ELSE target[Last(steerPending)]
      [] OTHER -> 0

AwaitedUnrecorded(n) ==                                              \* mutant
    IF current # NoTurn /\ current.n = n /\ status = "running" THEN "running"
    ELSE IF \E i \in SettledTurns(n) : turns[i].limited THEN "limited"
    ELSE IF status = "running" /\ current = NoTurn /\ NextTurn = n THEN "running"
    ELSE IF status = "rate_limited" THEN "paused"
    ELSE IF \E s \in Range(steerPending) : target[s] = n THEN "steers"
    ELSE "ended"
\* awaited_elapsed: what the turn a wait is bound to is doing.
Awaited(n) ==
    IF recording = n THEN "running"
    ELSE IF current # NoTurn /\ current.n = n
         THEN (IF status = "running" THEN "running" ELSE "ended")
    ELSE IF \E i \in SettledTurns(n) : turns[i].limited THEN "limited"
    ELSE IF status = "running" /\ current = NoTurn /\ NextTurn = n
         THEN (IF pendingStart THEN "running" ELSE "internal")
    ELSE IF status = "rate_limited" THEN "paused"
    ELSE IF \E s \in Range(steerPending) : target[s] = n
         THEN (IF HasSettled(n) THEN "steers" ELSE "internal")
    ELSE "ended"

\* The stop reason of turn n, as the status it makes; "none" without one.
OwnEnd(n) ==
    IF \E i \in SettledTurns(n) : outcome[turns[i].by] = "ok" THEN "done"
    ELSE IF \E i \in SettledTurns(n) : outcome[turns[i].by] = "cancelled" THEN "cancelled"
    ELSE "none"

LatestTurn == IF current # NoTurn THEN current.n
              ELSE IF turns # << >> THEN Last(turns).n ELSE 0

ViewStatus(w) ==                                                     \* mutant
    [turn |-> IF bound[w] = 0 THEN LatestTurn ELSE bound[w],
     state |-> IF told[w] = "limited" THEN "rate_limited" ELSE status]
ViewOutcome(w) == [turn |-> bound[w], state |-> told[w]]              \* mutant
\* wait_snapshot, and what wait_view or turn_outcome makes of it: the turn's
\* own end wins over the status, except that a host's wait looks for a park
\* first. A wait that timed out reports the status as it is.
View(w) ==
    LET n == bound[w] IN
    [turn  |-> IF n = 0 THEN LatestTurn ELSE n,
     state |-> IF \/ told[w] = "limited"
                  \/ w \in Hosts /\ status = "rate_limited" THEN "rate_limited"
               ELSE IF n # 0 /\ OwnEnd(n) # "none" THEN OwnEnd(n) ELSE status]

-----------------------------------------------------------------------------
(* The session's steps, and whom they wake                                 *)

Leaves(stage) == \E p \in Prompts : pc[p] = stage /\ pc'[p] # stage

NotifiesTurns ==                                                     \* mutant
    \/ Leaves("logging") \/ Leaves("clearing") \/ accepted' # accepted
    \/ pending' # pending \/ canceller' # canceller
\* The steps that end in `rt.notify.notify_waiters()`: begin_turn's records,
\* the end of finish_turn, steer_resolved, a materialized turn, a permission
\* raised or answered, a queued prompt, a cancel, a park recorded, a limit
\* noted, a resume refused, the agent's disconnect and close_sub.
Notifies ==
    \/ \E s \in {"logging", "clearing", "steer_resolve", "noting", "steer_noting"} :
         Leaves(s)
    \/ \E p \in Prompts : pc[p] = "resuming" /\ pc'[p] \in {"lost", "dropped"}
    \/ accepted' # accepted \/ (current = NoTurn /\ steerOwner' # steerOwner)
    \/ pending' # pending \/ \E r \in Perms : permPc[r] = "answered" /\ permPc'[r] = "done"
    \/ canceller' # canceller \/ (current # NoTurn /\ current'.cancelReq # current.cancelReq)
    \/ reparked' # reparked \/ epilogue' # epilogue \/ closer' = "closed"
    \/ watcher' # watcher

\* `handover.progressed`, besides.
Progresses == superseded' # superseded \/ live' # live

\* A step of the session itself. A host calls with start_turn and is
\* attached before it does; a new steer targets the turn in flight, or the
\* one whose slot is reserved.
SessionStep ==
    /\ Next
    /\ \A h \in Hosts : pc[h] = "new" => pc'[h] \in {"new", "try"}
    /\ wpc' = [w \in Waiters |-> IF w \in Hosts /\ pc[w] = "new" /\ pc'[w] = "try"
                                 THEN "starting" ELSE wpc[w]]
    /\ target' = [p \in Prompts |->
                    IF p \in Range(steerPending') \ Range(steerPending)
                    THEN (IF current # NoTurn THEN current.n ELSE NextTurn)
                    ELSE target[p]]
    /\ asleep' = [w \in Waiters |-> asleep[w] /\ ~Notifies]
    /\ dogWoken' = (dogWoken \/ Notifies \/ Progresses \/ wpc' # wpc)
    /\ UNCHANGED <<bound, told, answer, dog, clock, ripe, restarted>>

-----------------------------------------------------------------------------
(* wait, and a host's prompt                                               *)

DetachedQuietly(w, stage) ==                                         \* mutant
    /\ wpc' = [wpc EXCEPT ![w] = stage] /\ asleep' = [asleep EXCEPT ![w] = FALSE]
    /\ UNCHANGED dogWoken
\* The task is done waiting; dropping its Waiter wakes the watchdog.
Detached(w, stage) ==
    /\ wpc' = [wpc EXCEPT ![w] = stage]
    /\ dogWoken' = (dogWoken \/ w \in Attached)
    /\ asleep' = [asleep EXCEPT ![w] = FALSE]

\* WaitTool::call up to its binding: with no turn to wait for it answers.
Wait(w) ==
    /\ w \in Waiting /\ wpc[w] = "new" /\ live
    /\ \/ /\ NoStart /\ wpc' = [wpc EXCEPT ![w] = "internal"]
          /\ UNCHANGED <<bound, told>>
       \/ /\ ~NoStart /\ bound' = [bound EXCEPT ![w] = AwaitedTurn]
          /\ wpc' = [wpc EXCEPT ![w] = IF AwaitedTurn = 0 THEN "leaving" ELSE "binding"]
          /\ told' = [told EXCEPT ![w] = IF AwaitedTurn = 0 THEN "ended" ELSE "none"]
    /\ UNCHANGED <<vars, answer, asleep, target, dogVars>>

\* check_expect_not_past on another look at the turn, then the attachment.
Attach(w) ==
    /\ w \in Waiting /\ wpc[w] = "binding"
    /\ \/ Awaited(bound[w]) = "internal" /\ wpc' = [wpc EXCEPT ![w] = "internal"]
          /\ UNCHANGED dogWoken
       \/ Awaited(bound[w]) \in {"running", "steers"}
          /\ wpc' = [wpc EXCEPT ![w] = "refused"] /\ UNCHANGED dogWoken
       \/ Awaited(bound[w]) # "internal" /\ wpc' = [wpc EXCEPT ![w] = "waiting"]
          /\ dogWoken' = TRUE
    /\ UNCHANGED <<vars, bound, told, answer, asleep, target, dog, clock, ripe, restarted>>

\* start_turn has returned: the prompt is with the agent, or was.
Started(h) == pc[h] \notin {"new", "try", "logging", "sending", "refused", "dropped"}

\* Session::prompt after start_turn: it binds to what is in flight by then.
HostBind(h) ==
    /\ h \in Hosts /\ wpc[h] = "starting" /\ UNCHANGED answer
    /\ \/ /\ pc[h] \in {"refused", "dropped"} /\ Detached(h, "refused")
          /\ UNCHANGED <<bound, told>>
       \/ /\ Started(h) /\ NoStart /\ Detached(h, "internal")
          /\ UNCHANGED <<bound, told>>
       \/ /\ Started(h) /\ ~NoStart /\ bound' = [bound EXCEPT ![h] = AwaitedTurn]
          /\ wpc' = [wpc EXCEPT ![h] = IF AwaitedTurn = 0 THEN "leaving" ELSE "waiting"]
          /\ told' = [told EXCEPT ![h] = IF AwaitedTurn = 0 THEN "ended" ELSE "none"]
          /\ UNCHANGED <<asleep, dogWoken>>
    /\ UNCHANGED <<vars, target, dog, clock, ripe, restarted>>

\* One pass of wait_for_turn. It comes round every 0.25 s, and a `wait` at
\* least at every progress report; a host's, which reports nothing, sleeps
\* until a notify while steers hold its turn.
WaitForTurn(w) ==
    /\ wpc[w] = "waiting" /\ ~asleep[w]
    /\ LET a == Awaited(bound[w]) IN
       \/ /\ a \in {"ended", "limited"} /\ wpc' = [wpc EXCEPT ![w] = "leaving"]
          /\ told' = [told EXCEPT ![w] = a] /\ UNCHANGED <<asleep, dogWoken>>
       \/ a = "steers" /\ w \in Hosts /\ asleep' = [asleep EXCEPT ![w] = TRUE]
          /\ UNCHANGED <<wpc, told, dogWoken>>
       \/ a = "internal" /\ Detached(w, "internal") /\ UNCHANGED told
    /\ UNCHANGED <<vars, bound, answer, target, dog, clock, ripe, restarted>>

\* `expect_secs` or `max_wait_secs` runs out; a host's wait has neither.
TimesOut(w) ==
    /\ w \in Waiting /\ wpc[w] = "waiting"
    /\ Awaited(bound[w]) \in {"running", "steers", "paused"}
    /\ wpc' = [wpc EXCEPT ![w] = "leaving"] /\ told' = [told EXCEPT ![w] = "timeout"]
    /\ UNCHANGED <<vars, bound, answer, asleep, target, dogVars>>

\* turn_outcome finds no end to report for a host.
NoOutcome(w) == LET v == View(w) IN
    \/ v.turn = 0
    \/ told[w] = "limited" /\ status # "rate_limited"
    \/ v.state \in {"idle", "running"}
    \/ v.state = "needs_permission" /\ pending = {}

\* The answer, from a second look at the session; the waiter detaches.
AnswerWait(w) ==
    /\ wpc[w] = "leaving"
    /\ answer' = [answer EXCEPT ![w] = View(w)]
    /\ Detached(w, IF w \in Hosts /\ NoOutcome(w) THEN "internal" ELSE "answered")
    /\ UNCHANGED <<vars, bound, told, target, dog, clock, ripe, restarted>>

\* The caller's connection closes, or the host drops the future.
CallerGone(w) ==
    /\ wpc[w] = "waiting" /\ Detached(w, "dropped")
    /\ UNCHANGED <<vars, bound, told, answer, target, dog, clock, ripe, restarted>>

-----------------------------------------------------------------------------
(* watchdog::run                                                           *)

\* The turn it watches: only a running one, reserved or begun.
WatchedTurn == IF status # "running" THEN 0
               ELSE IF current # NoTurn THEN current.n ELSE NextTurn

\* One pass of its loop, on a wake-up or when the grace ran out: the clock
\* runs while one turn stays unwatched; a takeover restarts it once.
WatchdogPass ==
    LET restart == superseded /\ ~restarted
        keep    == WatchedTurn # 0 /\ Attached = {} /\ clock = WatchedTurn
    IN
    /\ dog = "watching" /\ (dogWoken \/ (clock # 0 /\ ripe))
    /\ dogWoken' = FALSE
    /\ IF closing # "none" \/ ~live
       THEN dog' = "gone" /\ UNCHANGED <<clock, ripe, restarted>>
       ELSE /\ restarted' = (restarted \/ superseded)
            /\ clock' = IF Attached = {} THEN WatchedTurn ELSE 0
            /\ ripe' = (keep /\ ripe /\ ~restart)
            /\ dog' = IF ripe' THEN "closing" ELSE "watching"
    /\ UNCHANGED <<vars, waitVars, target>>

\* Without "close" in Events every grace outlasts the run.
GracePasses ==
    /\ "close" \in Events /\ dog = "watching" /\ clock # 0 /\ ~ripe /\ ripe' = TRUE
    /\ UNCHANGED <<vars, waitVars, target, dog, dogWoken, clock, restarted>>

\* end_target and end_session, on whatever the session is by now.
WatchdogCloses ==
    /\ dog = "closing" /\ dog' = "gone"
    /\ CloseSession \/ (~live /\ UNCHANGED vars)
    /\ UNCHANGED <<waitVars, target, dogWoken, clock, ripe, restarted>>

-----------------------------------------------------------------------------
(* The specification                                                       *)

WaitTask(w) == Attach(w) \/ HostBind(w) \/ WaitForTurn(w) \/ AnswerWait(w)
Watchdog == WatchdogPass \/ WatchdogCloses

WaitNext == \/ SessionStep
            \/ \E w \in Waiters : Wait(w) \/ WaitTask(w) \/ TimesOut(w) \/ CallerGone(w)
            \/ Watchdog \/ GracePasses

WaitSpec == WaitInit /\ [][WaitNext]_allVars

\* As in Session, but that the agent owes nobody an answer while it lives;
\* a dead one's prompts fail. The waiting tasks and the watchdog are polled,
\* and the watchdog's timer runs out.
WaitFairness ==
    /\ \A p \in Prompts : /\ WF_vars(WireFree(p)) /\ SF_vars(WireTaking(p))
                          /\ WF_vars(~alive /\ Answer(p))
    /\ WF_vars(RecordPark) /\ SF_vars(Scheduler) /\ WF_vars(Teardowns)
    /\ WF_vars(CancelSend) /\ WF_vars(GateExpires) /\ WF_vars(HandoffReported)
    /\ \A w \in Waiters : WF_allVars(WaitTask(w))
    /\ WF_allVars(Watchdog) /\ WF_allVars(GracePasses)

WaitFairSpec == WaitSpec /\ WaitFairness

-----------------------------------------------------------------------------
(* Properties                                                              *)

\* A `wait` never fails with Error::Internal: whichever turn it bound to,
\* reserved, in flight, settled or held by its steers, each later look at
\* the session finds the start its budget runs from.
NoInternal == \A w \in Waiting : wpc[w] # "internal"

\* A wait that returns for the end of a settled turn finds that end on
\* record: the registry a restart or a successor reads counts the turn
\* (awaited_elapsed: in flight until the registry holds its end).
EndOnRecord == [][\A w \in Waiters :
    told[w] = "none" /\ told'[w] \in {"ended", "limited"} /\ HasSettled(bound'[w])
        => entry.turns >= bound'[w]]_allVars

\* A `wait` released by the end of its turn reports that turn's own end,
\* its stop reason or its limit, and not the turn that chained, was sent or
\* materialized after it; only for a turn without either it reports how the
\* session itself ended.
Tells == [][\A w \in Waiting :
    wpc'[w] = "answered" /\ wpc[w] = "leaving" /\ told[w] = "ended" /\ HasSettled(bound[w])
        => \/ answer'[w].state = OwnEnd(bound[w])
           \/ /\ answer'[w].state = "rate_limited"
              /\ \E i \in SettledTurns(bound[w]) : turns[i].limited
           \/ /\ OwnEnd(bound[w]) = "none"
              /\ answer'[w].state \in {"failed", "exited", "cancelled"}]_allVars

\* A running turn does not stay unwatched for ever: a waiter attaches, the
\* turn ends, or the watchdog closes the session, however waits attach and
\* detach and turns follow each other around its passes.
Abandoned == ~<>[](status = "running" /\ live /\ closing = "none" /\ Attached = {})

\* Nobody waits for ever on a turn that is over or a session that is
\* closed: some notify reaches every sleeper (wait_for_turn's comment).
Woken == \A w \in Waiters : ~<>[](/\ wpc[w] = "waiting"
                                 /\ \/ closer = "closed"
                                    \/ Awaited(bound[w]) \in {"ended", "limited"})
=============================================================================
