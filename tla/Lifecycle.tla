----------------------------- MODULE Lifecycle -----------------------------
(* One session id inside one acpsub daemon: the launches that bring it up  *)
(* (`spawn`, `adopt`, the rate-limit scheduler's and the restart's resume),*)
(* the calls that end it (`close`, `forget`), the claim a launch holds on  *)
(* it, its registry entry in memory and on disk, and a daemon that dies    *)
(* and starts again. What a session does once it is up is Session's.       *)
(*                                                                         *)
(* Different ids share no state but the registry's write lock, so one id   *)
(* shows every race.                                                       *)
EXTENDS Naturals

CONSTANTS
    Launches,    \* launches, each with the Subagent it may establish
    Ends,        \* `close` and `forget` calls
    Events,      \* what may go wrong
    None

Actors == Launches \cup Ends

ASSUME ActorsAssumption == None \notin Actors /\ Launches \cap Ends = {}
(*  fail     the agent cannot be started or fails its handshake            *)
(*  die      an agent process ends by itself                               *)
(*  crash    the daemon dies and is started again                          *)
(*  limit    the session's quota runs out                                  *)
(*  overlap  a launch claims the id while an earlier one that has already  *)
(*           given up its claim is still on its way out                    *)
(*  busy     another caller's `send` takes the turn slot of a session that *)
(*           is live before its launch starts the first turn               *)
(*  early    a call uses the id of a spawn that has not gone live: the     *)
(*           registry lists it a little before                             *)
ASSUME EventsAssumption ==
    Events \subseteq {"fail", "die", "crash", "limit", "overlap", "busy", "early"}

VARIABLES
    \* the daemon's maps, at this id, and how far its start is
    live, reserved, boot,
    \* the registry entry in memory and on disk; who holds `registry_write`
    entry, disk, writer,
    \* one task per launch and per ending call; the Subagent it tears down
    pc, kind, victim, drops,
    \* the Subagent of each launch
    alive, closing, status,
    \* history: launches an end hit; ends called since the id was last
    \* claimed, and whether one of them returned: a close, a forget
    ended, since, closed, forgot

daemonVars == <<live, reserved, boot>>
regVars    == <<entry, disk, writer>>
taskVars   == <<pc, kind, victim, drops>>
subVars    == <<alive, closing, status>>
histVars   == <<ended, since, closed, forgot>>
vars == <<daemonVars, regVars, taskVars, subVars, histVars>>

-----------------------------------------------------------------------------
(* Types                                                                   *)

NoClaim == [held |-> FALSE, closed |-> FALSE, forgotten |-> FALSE]
Reservation == {NoClaim} \cup [held : {TRUE}, closed : BOOLEAN, forgotten : BOOLEAN]

\* The entry by what relaunches the session: the parked record, the restart
\* mark.
NoEntry == [known |-> FALSE, parked |-> FALSE, mark |-> FALSE]
RegistryEntry == {NoEntry} \cup [known : {TRUE}, parked : BOOLEAN, mark : BOOLEAN]

\* `reparked` is a restart's resume of a session that was parked as well.
Kinds == {"none", "spawn", "adopt", "loaded", "marked", "reparked", "close", "forget"}

(* Where a task is:                                                        *)
(*  new                 not called yet                                     *)
(*  loading             a resume read the entry and awaits the config      *)
(*  reap                claimed the id, closing the husk it found          *)
(*  connect handshake register bind golive release start   launch_inner    *)
(*  restore             resume_one after its launch                        *)
(*  unschedule kill     end_session of the Subagent in `victim`            *)
(*  unregister          removing the registry entry                        *)
(*  failing ending      launch's error return; ClosedWhileLaunching        *)
(*  note                a resume records that its launch failed            *)
(*  park                the turn machine records a park                    *)
(*  done failed         the call returned                                  *)
(*  panicked gone       the task panicked; the daemon died                 *)
PCs == {"new", "loading", "reap", "connect", "handshake", "register", "bind",
        "release", "start", "restore", "unschedule", "kill", "unregister",
        "failing", "ending", "note", "park", "done", "failed", "panicked", "gone"}

\* The call is not running: `park` is the turn machine's, after a launch.
Returned == {"new", "done", "failed", "park", "panicked", "gone"}

TypeMaps == /\ live \in Launches \cup {None} /\ reserved \in Reservation
            /\ boot \in {"scan", "resume", "serving"}
TypeRegistry == /\ entry \in RegistryEntry /\ disk \in RegistryEntry
                /\ writer \in Actors \cup {None}
TypeTasks == /\ pc \in [Actors -> PCs] /\ kind \in [Actors -> Kinds]
             /\ victim \in [Actors -> Launches \cup {None}]
             /\ drops \in [Actors -> BOOLEAN]
TypeSubs == /\ alive \in [Launches -> BOOLEAN] /\ closing \in [Launches -> BOOLEAN]
            /\ status \in [Launches -> {"live", "parked", "exited"}]
TypeHist == /\ ended \subseteq Launches /\ since \subseteq Ends
            /\ closed \in BOOLEAN /\ forgot \in BOOLEAN

\* Every variable has its type: in particular a claim that is not held
\* carries no mark, and no schedule outlives its registry entry.
TypeOK == TypeMaps /\ TypeRegistry /\ TypeTasks /\ TypeSubs /\ TypeHist

\* A daemon that just read its registry file, whatever an earlier one left.
Init ==
    /\ live = None /\ reserved = NoClaim /\ boot = "scan"
    /\ disk \in RegistryEntry /\ entry = disk
    /\ writer = None
    /\ pc = [a \in Actors |-> "new"] /\ kind = [a \in Actors |-> "none"]
    /\ victim = [a \in Actors |-> None] /\ drops = [a \in Actors |-> FALSE]
    /\ alive = [l \in Launches |-> FALSE] /\ closing = [l \in Launches |-> FALSE]
    /\ status = [l \in Launches |-> "live"]
    /\ ended = {} /\ since = {} /\ closed = FALSE /\ forgot = FALSE

-----------------------------------------------------------------------------
(* State formulae                                                          *)

\* An `exited` session still in `live`: its agent is gone.
Husk == live # None /\ status[live] = "exited"

ClaimFreeUnclaimed == live = None \/ Husk                            \* mutant
\* launch may claim the id: nobody else has it but a husk.
ClaimFree == (live = None \/ Husk) /\ ~reserved.held

\* Callers know the id: a spawn's is unknown until its agent gave it.
Addressable == /\ boot = "serving"
               /\ \A l \in Launches : kind[l] = "spawn"
                    => pc[l] \notin {"connect", "handshake"} \cup
                                    IF "early" \in Events THEN {} ELSE {"register", "bind"}

\* l is between its claim and its release.
Claiming(l) == /\ kind[l] # "spawn"
               /\ pc[l] \in {"reap", "connect", "handshake", "register", "bind", "release"}

\* Launches that gave up their claim and have yet to return.
Returning == {"start", "unschedule", "kill", "unregister", "failing", "ending"}
Overlaps(l) == \E k \in Launches \ {l} : pc[k] \in Returning

KilledNot(l) == UNCHANGED <<closing, alive>>                         \* mutant
\* close_sub's first words: the Subagent is marked, its process killed.
Killed(l) == /\ closing' = [closing EXCEPT ![l] = TRUE]
             /\ alive' = [alive EXCEPT ![l] = FALSE]

MarkUnforgotten(f) == [reserved EXCEPT !.closed = TRUE]              \* mutant
MarkUnclosed(f) == [reserved EXCEPT !.forgotten = @ \/ f]            \* mutant
\* end_target on an id a launch holds.
Mark(f) == [reserved EXCEPT !.closed = TRUE, !.forgotten = @ \/ f]

\* The registry writes: what each leaves of the entry it finds.
UnscheduledHalf == [entry EXCEPT !.parked = FALSE]                   \* mutant
Unscheduled == [entry EXCEPT !.parked = FALSE, !.mark = FALSE]
Registered  == [known |-> TRUE, parked |-> FALSE, mark |-> FALSE]
ParkedUnregistered(l) == [entry EXCEPT !.parked = TRUE]              \* mutant
ParkedBy(l) == [entry EXCEPT !.parked = IF closing[l] THEN @ ELSE entry.known]

\* update_registry: the entry changes in memory under `registry_write`,
\* which a holds until Persist.
Write(a, e) == writer = None /\ writer' = a /\ entry' = e /\ UNCHANGED disk

-----------------------------------------------------------------------------
(* Who launches                                                            *)

\* resume_loaded, up to its first await: the scheduler found the id parked
\* and due, neither claimed nor live (but for a husk), and reads its entry.
\* One task resumes one session after the other.
ReadParked(l) ==
    /\ pc[l] = "new" /\ entry.parked /\ ~reserved.held /\ (live = None \/ Husk)
    /\ \A k \in Launches : kind[k] = "loaded" => pc[k] \in Returned
    /\ pc' = [pc EXCEPT ![l] = "loading"] /\ kind' = [kind EXCEPT ![l] = "loaded"]
    /\ UNCHANGED <<daemonVars, regVars, victim, drops, subVars, histVars>>

\* load_config failed, or launch did before its claim: the resume is over.
ConfigFails(l) ==
    /\ "fail" \in Events /\ pc[l] = "loading"
    /\ pc' = [pc EXCEPT ![l] = "note"]
    /\ UNCHANGED <<daemonVars, regVars, kind, victim, drops, subVars, histVars>>

\* resume_marked, before the daemon serves anybody: a marked session is
\* launched with what its entry carried; otherwise there is nothing to do.
\* (Without a launch left in the instance the pass counts as failed.)
ResumeMarked ==
    /\ boot = "scan"
    /\ \/ \E l \in Launches :
            /\ entry.mark /\ pc[l] = "new" /\ boot' = "resume"
            /\ pc' = [pc EXCEPT ![l] = "loading"]
            /\ kind' = [kind EXCEPT ![l] = IF entry.parked THEN "reparked" ELSE "marked"]
       \/ /\ entry.mark => "fail" \in Events \/ \A l \in Launches : pc[l] # "new"
          /\ boot' = "serving" /\ UNCHANGED <<pc, kind>>
    /\ UNCHANGED <<live, reserved, regVars, victim, drops, subVars, histVars>>

\* The resume pass is over: the daemon accepts clients.
Serve ==
    /\ boot = "resume" /\ boot' = "serving"
    /\ \A l \in Launches : kind[l] \in {"marked", "reparked"} => pc[l] \in Returned
    /\ UNCHANGED <<live, reserved, regVars, taskVars, subVars, histVars>>

\* spawn: the agent gives its session an id nobody has seen.
Spawn(l) ==
    /\ boot = "serving" /\ pc[l] = "new"
    /\ ~entry.known /\ ~disk.known /\ \A a \in Actors : pc[a] = "new"
    /\ pc' = [pc EXCEPT ![l] = "connect"] /\ kind' = [kind EXCEPT ![l] = "spawn"]
    /\ UNCHANGED <<daemonVars, regVars, victim, drops, subVars, histVars>>

-----------------------------------------------------------------------------
(* launch                                                                  *)

\* What a failed launch leaves its caller to do.
AfterError(l) == IF kind[l] \in {"loaded", "marked", "reparked"} THEN "note" ELSE "failed"

\* launch's preflight: the claim is atomic over `live` and `reserved`, and
\* takes a husk out of `live`.
Preflight(l) ==
    /\ "overlap" \in Events \/ ~Overlaps(l)
    /\ \/ /\ ClaimFree
          /\ reserved' = [NoClaim EXCEPT !.held = TRUE]
          /\ victim' = [victim EXCEPT ![l] = live] /\ live' = None
          /\ pc' = [pc EXCEPT ![l] = IF live # None THEN "reap" ELSE "connect"]
          /\ since' = {} /\ closed' = FALSE /\ forgot' = FALSE
       \/ /\ ~ClaimFree
          /\ pc' = [pc EXCEPT ![l] = AfterError(l)]
          /\ UNCHANGED <<reserved, victim, live, since, closed, forgot>>
    /\ UNCHANGED <<boot, regVars, drops, subVars, ended>>

\* adopt, of a registered session or of one made elsewhere.
Adopt(l) ==
    /\ pc[l] = "new" /\ Addressable
    /\ kind' = [kind EXCEPT ![l] = "adopt"] /\ Preflight(l)

\* resume_loaded or resume_one, past the await.
Resume(l) == pc[l] = "loading" /\ UNCHANGED kind /\ Preflight(l)

\* close_sub on the husk.
Reap(l) ==
    /\ pc[l] = "reap" /\ Killed(victim[l])
    /\ pc' = [pc EXCEPT ![l] = "connect"] /\ victim' = [victim EXCEPT ![l] = None]
    /\ UNCHANGED <<daemonVars, regVars, kind, drops, status, histVars>>

Connect(l) ==
    /\ pc[l] = "connect"
    /\ \/ /\ alive' = [alive EXCEPT ![l] = TRUE]
          /\ pc' = [pc EXCEPT ![l] = "handshake"]
       \/ /\ "fail" \in Events
          /\ pc' = [pc EXCEPT ![l] = "failing"] /\ UNCHANGED alive
    /\ UNCHANGED <<daemonVars, regVars, kind, victim, drops, closing, status, histVars>>

\* The handshake fails, or its agent is gone: the process is killed.
Abort(l) ==
    /\ pc[l] = "handshake" /\ ("fail" \in Events \/ ~alive[l])
    /\ Killed(l) /\ pc' = [pc EXCEPT ![l] = "failing"]
    /\ UNCHANGED <<daemonVars, regVars, kind, victim, drops, status, histVars>>

\* The handshake's last step, register_session: the entry is there again,
\* and with the session about to be live no schedule of it is left.
Register(l) ==
    /\ pc[l] = "handshake" /\ alive[l]
    /\ Write(l, Registered) /\ pc' = [pc EXCEPT ![l] = "register"]
    /\ UNCHANGED <<daemonVars, kind, victim, drops, subVars, histVars>>

\* go_live: a session id that is live already is refused and killed.
GoLive(l) ==
    /\ pc[l] = "bind"
    /\ IF live = None
       THEN /\ live' = l
            /\ pc' = [pc EXCEPT ![l] = IF kind[l] = "spawn" THEN "start" ELSE "release"]
            /\ UNCHANGED <<alive, closing>>
       ELSE /\ Killed(l) /\ pc' = [pc EXCEPT ![l] = "failing"] /\ UNCHANGED live
    /\ UNCHANGED <<reserved, boot, regVars, kind, victim, drops, status, histVars>>

\* release_reservation: an end that marked the claim makes this launch end
\* the session; one that found it live already is ending it. Without its
\* claim the launch panics (with both maps locked: their mutexes are
\* poisoned, and nothing the daemon does afterwards is modelled).
Release(l) ==
    LET marked == reserved.closed /\ live # None
        clean  == ~reserved.closed /\ live # None
        after  == IF ~reserved.held THEN "panicked"
                  ELSE IF clean THEN "start"
                  ELSE IF marked THEN "unschedule"
                  ELSE IF reserved.forgotten THEN "unregister" ELSE "ending"
    IN
    /\ pc[l] = "release"
    /\ reserved' = NoClaim
    /\ live' = IF reserved.held /\ marked THEN None ELSE live
    /\ victim' = [victim EXCEPT ![l] = IF after = "unschedule" THEN l ELSE None]
    /\ closing' = [closing EXCEPT ![l] = @ \/ after = "unschedule"]
    /\ drops' = [drops EXCEPT ![l] = reserved.forgotten]
    /\ pc' = [pc EXCEPT ![l] = after]
    /\ UNCHANGED <<boot, regVars, kind, alive, status, histVars>>

StartRefused(l) == closing[l] \/ status[l] # "live" \/ "busy" \in Events

\* The launch's first turn, if it has one: start_turn refuses a session
\* that is closing, lost its agent or runs somebody else's turn; the id
\* leaves `live`, the agent process stays.
Start(l) ==
    /\ pc[l] = "start"
    /\ \/ /\ pc' = [pc EXCEPT ![l] = IF kind[l] \in {"marked", "reparked"}
                                     THEN "restore" ELSE "done"]
          /\ UNCHANGED live
       \/ /\ StartRefused(l) /\ kind[l] \notin {"marked", "reparked"}
          /\ live' = None /\ pc' = [pc EXCEPT ![l] = "failing"]
    /\ UNCHANGED <<reserved, boot, regVars, kind, victim, drops, subVars, histVars>>

FailingKeepsClaim(l) == reserved                                     \* mutant
\* launch's error return drops the id's claim, whoever holds it.
DropsClaim(l) == IF kind[l] = "spawn" THEN reserved ELSE NoClaim

Failing(l) ==
    /\ pc[l] \in {"failing", "ending"}
    /\ reserved' = DropsClaim(l)
    /\ pc' = [pc EXCEPT ![l] = IF pc[l] = "ending" THEN "failed" ELSE AfterError(l)]
    /\ UNCHANGED <<live, boot, regVars, kind, victim, drops, subVars, histVars>>

\* resume_one after its launch: the carried status and the parked record
\* come back, the record only if nobody is closing the session.
Restore(l) ==
    /\ pc[l] = "restore"
    /\ \/ /\ kind[l] = "reparked"
          /\ status' = [status EXCEPT ![l] = "parked"]
          /\ Write(l, ParkedBy(l)) /\ pc' = [pc EXCEPT ![l] = "park"]
       \/ /\ kind[l] = "marked"
          /\ status' \in {status, [status EXCEPT ![l] = "live"]}
          /\ pc' = [pc EXCEPT ![l] = "done"] /\ UNCHANGED regVars
    /\ UNCHANGED <<daemonVars, kind, victim, drops, alive, closing, histVars>>

\* A resume whose launch failed: resume_loaded consumes the parked flag
\* (clear_parked), resume_one keeps the mark for the next restart.
NoteFailure(l) ==
    /\ pc[l] = "note"
    /\ Write(l, [entry EXCEPT !.parked = @ /\ kind[l] # "loaded"])
    /\ UNCHANGED <<daemonVars, taskVars, subVars, histVars>>

-----------------------------------------------------------------------------
(* close and forget                                                        *)

\* end_target: the id leaves `live`, or the launch that holds it is told,
\* or it is only registered. The Subagent is marked closing at once.
EndTarget(e) ==
    /\ pc[e] = "new" /\ Addressable /\ since' = since \cup {e}
    /\ \E k \in {"close", "forget"} :
         /\ kind' = [kind EXCEPT ![e] = k]
         /\ drops' = [drops EXCEPT ![e] = (k = "forget")]
         /\ \/ /\ live # None
               /\ live' = None /\ victim' = [victim EXCEPT ![e] = live]
               /\ closing' = [closing EXCEPT ![live] = TRUE]
               /\ ended' = ended \cup {live}
               /\ pc' = [pc EXCEPT ![e] = IF k = "close" THEN "unschedule" ELSE "kill"]
               /\ UNCHANGED reserved
            \/ /\ live = None /\ reserved.held
               /\ reserved' = Mark(k = "forget")
               /\ ended' = ended \cup {l \in Launches : Claiming(l)}
               /\ pc' = [pc EXCEPT ![e] = IF k = "close" THEN "unschedule" ELSE "unregister"]
               /\ UNCHANGED <<live, victim, closing>>
            \/ /\ live = None /\ ~reserved.held
               /\ pc' = [pc EXCEPT ![e] = IF k = "forget" THEN "unregister"
                                          ELSE IF entry.known THEN "unschedule" ELSE "failed"]
               /\ UNCHANGED <<live, reserved, victim, closing, ended>>
    /\ UNCHANGED <<boot, regVars, alive, status, closed, forgot>>

\* unschedule_resume.
Unschedule(a) ==
    /\ pc[a] = "unschedule" /\ Write(a, Unscheduled)
    /\ UNCHANGED <<daemonVars, taskVars, subVars, histVars>>

\* close_sub.
Kill(a) ==
    /\ pc[a] = "kill" /\ Killed(victim[a])
    /\ pc' = [pc EXCEPT ![a] = IF drops[a] THEN "unregister"
                               ELSE IF a \in Ends THEN "done" ELSE "ending"]
    /\ victim' = [victim EXCEPT ![a] = None]
    /\ closed' = (closed \/ (a \in since /\ kind[a] = "close"))
    /\ UNCHANGED <<daemonVars, regVars, kind, drops, status, ended, since, forgot>>

\* forget's removal, and that of a launch a forget landed on.
Unregister(a) ==
    /\ pc[a] = "unregister" /\ Write(a, NoEntry)
    /\ UNCHANGED <<daemonVars, taskVars, subVars, histVars>>

-----------------------------------------------------------------------------
(* The registry file, the agents and the daemon                            *)

\* Where a's task is once its registry write is on disk.
Written(a) ==
    CASE pc[a] = "register"   -> "bind"
      [] pc[a] = "unschedule" -> IF victim[a] # None THEN "kill" ELSE "done"
      [] pc[a] = "unregister" -> IF a \in Ends THEN "done" ELSE "ending"
      [] pc[a] = "note"       -> "failed"
      [] pc[a] = "park"       -> "done"

Persist(a) ==
    /\ writer = a /\ writer' = None /\ disk' = entry
    /\ pc' = [pc EXCEPT ![a] = Written(a)]
    /\ closed' = (closed \/ (a \in since /\ kind[a] = "close" /\ Written(a) = "done"))
    /\ forgot' = (forgot \/ (a \in since /\ kind[a] = "forget" /\ Written(a) = "done"))
    /\ UNCHANGED <<entry, daemonVars, kind, victim, drops, subVars, ended, since>>

\* A live session parks (record_turn_end, record_park): the flag is armed
\* unless the session is closing.
Park(l) ==
    /\ "limit" \in Events /\ pc[l] = "done" /\ alive[l] /\ status[l] = "live"
    /\ status' = [status EXCEPT ![l] = "parked"]
    /\ Write(l, ParkedBy(l)) /\ pc' = [pc EXCEPT ![l] = "park"]
    /\ UNCHANGED <<daemonVars, kind, victim, drops, alive, closing, histVars>>

\* An agent process ends by itself; on_disconnect makes its session a husk.
Die(l) ==
    /\ "die" \in Events /\ alive[l] /\ alive' = [alive EXCEPT ![l] = FALSE]
    /\ status' = [status EXCEPT ![l] = IF closing[l] THEN @ ELSE "exited"]
    /\ UNCHANGED <<daemonVars, regVars, taskVars, closing, histVars>>

\* The daemon dies, its agents with it, and starts again from the file. A
\* launch cut off after a forget leaves the entry it re-created behind.
Crash ==
    /\ "crash" \in Events /\ boot # "scan"
    /\ live' = None /\ reserved' = NoClaim /\ boot' = "scan"
    /\ entry' = disk /\ writer' = None
    /\ pc' = [a \in Actors |-> IF pc[a] = "new" THEN "new" ELSE "gone"]
    /\ kind' = [a \in Actors |-> "none"] /\ victim' = [a \in Actors |-> None]
    /\ drops' = [a \in Actors |-> FALSE]
    /\ alive' = [l \in Launches |-> FALSE] /\ closing' = [l \in Launches |-> FALSE]
    /\ status' = [l \in Launches |-> "live"]
    /\ ended' = {} /\ since' = {} /\ forgot' = (forgot /\ ~disk.known)
    /\ UNCHANGED <<disk, closed>>

-----------------------------------------------------------------------------
(* The specification                                                       *)

LaunchStep(l) == \/ ConfigFails(l) \/ Adopt(l) \/ Resume(l) \/ Reap(l)
                 \/ Connect(l) \/ Abort(l) \/ Register(l) \/ GoLive(l) \/ Release(l) \/ Start(l) \/ Failing(l)
                 \/ Restore(l) \/ NoteFailure(l)

EndStep(a) == Unschedule(a) \/ Kill(a) \/ Unregister(a) \/ Persist(a)

Next ==
    \/ ResumeMarked \/ Serve \/ Crash
    \/ \E l \in Launches : ReadParked(l) \/ Spawn(l) \/ LaunchStep(l) \/ Park(l) \/ Die(l)
    \/ \E e \in Ends : EndTarget(e)
    \/ \E a \in Actors : EndStep(a)

Spec == Init /\ [][Next]_vars

-----------------------------------------------------------------------------
(* Properties                                                              *)

\* Two launches never run the session at once: however adopts, resumes,
\* ends and restarts interleave, at most one agent process that nobody is
\* closing has the session (launch's claim is what keeps a second
\* session/load out).
OneAgent ==
    \A k, l \in Launches : k # l => ~(alive[k] /\ alive[l] /\ ~closing[k] /\ ~closing[l])

\* release_reservation finds the claim it `expect`s: from claim to release
\* no other launch, end or failure takes it away.
ReservationHeld == \A l \in Launches : Claiming(l) => reserved.held

\* A claim does not outlive its launch: otherwise nobody could ever adopt
\* the session again.
NoLeakedClaim ==
    reserved.held => \E l \in Launches : Claiming(l) \/ pc[l] = "failing"

\* A close or forget is never overtaken: a session it found live, or found
\* a launch bringing up, is not live once that launch has released its claim.
EndNotOvertaken == live \in ended => pc[live] = "release"

\* No orphan: an agent process that nobody is closing is still being
\* launched, or is addressable in `live`. So a launch that fails kills the
\* process it started, and a session that went live stays until an end
\* takes it out.
NoOrphan ==
    \A l \in Launches : alive[l] /\ ~closing[l]
        => live = l \/ pc[l] \in {"handshake", "register", "bind"}

\* Once a close has returned, no mark is left, in memory or in the file a
\* restarted daemon reads, that would bring the session back.
ClosedStaysClosed ==
    closed => ~(entry.parked \/ entry.mark \/ disk.parked \/ disk.mark)

\* A forgotten session leaves no registry entry, once the launch the forget
\* landed on (which may re-create it) has returned.
ForgottenGone ==
    forgot /\ (\A l \in Launches : pc[l] \in Returned \cup {"loading", "note"})
        => ~entry.known /\ ~disk.known

\* A closed session never comes back on its own (CloseTool's doc): no
\* resume launches it once its close has returned.
NoReturn ==
    [][\A l \in Launches : pc[l] = "loading" /\ pc'[l] \in {"reap", "connect"} => ~closed]_vars

=============================================================================
