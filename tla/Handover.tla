------------------------------ MODULE Handover ------------------------------
(* One session across the generations of the acpsub daemon: a restart that *)
(* takes the public socket over from the daemon before it, the sessions    *)
(* the superseded daemon keeps until they settle, the reports that ship or *)
(* release them, the relay through a daemon superseded in its turn, the    *)
(* superseded daemon that leads again when its successor dies, and the     *)
(* dispatch of a client's call to whichever daemon has the session.        *)
(*                                                                         *)
(* A session is what another generation can tell of it: who has it, whether*)
(* it is settled, and its registry entry. Its turns are Session's and its  *)
(* launches inside one daemon are Lifecycle's.                             *)
EXTENDS Naturals, Sequences, FiniteSets

CONSTANTS
    Daemons,     \* daemon processes, each started once
    Crashes,     \* how many of them may be killed
    Attempts,    \* DISPATCH_ATTEMPTS
    Events,      \* what may happen, besides
    None

ASSUME DaemonsAssumption == None \notin Daemons /\ IsFiniteSet(Daemons)
ASSUME BoundsAssumption == Crashes \in Nat /\ Attempts \in Nat \ {0}
(*  fail     a launch fails                                                *)
(*  spawn    the session is started during the behaviour                   *)
(*  old      calls still reach a superseded daemon on connections made     *)
(*           before, or by the guess that it has what its successor has    *)
(*           never heard of                                                *)
(*  call     a client calls the newest daemon for the session              *)
(*  others   other sessions of a daemon make progress, which writes the    *)
(*           registry and wakes whoever waits on `progressed`              *)
(*  cross    a `close`, a `forget`, an `adopt` or a failing launch overlaps*)
(*           a takeover of the daemon it runs on, or a watcher's pass      *)
(*  stale    the session starts, ends or is released between a starting    *)
(*           daemon's read of the registry and its takeover                *)
(*  overlap  a takeover reaches a daemon between the handoff it accepted   *)
(*           and the launch that resumes the session                       *)
(*  cut      a daemon exits before an answer it relays is on the wire      *)
ASSUME EventsAssumption ==
    Events \subseteq {"fail", "spawn", "old", "call", "others", "cross", "stale",
                      "overlap", "cut"}

VARIABLES
    \* each process; the succession lock and the claim on the socket
    phase, succession, claim, crashed,
    \* registry.json, each daemon's copy, what a daemon that leads again read
    file, reg, recorded,
    \* the session in each daemon, the call that is ending it, the resume
    \* of a handoff (`resuming` and its task)
    sess, ending, resuming,
    \* Handover: `superseded` holds while `next` is set
    next, foreign, prev, shipped,
    \* handover_watch: where it is, its `owned`, whether it has been woken
    watch, owned, woken,
    \* takeover reports and handoff or release calls on the wire
    report, calls,
    \* one client's call through dispatch
    client,
    \* history: the session was started; it was forgotten
    born, forgot

procVars == <<phase, succession, claim, crashed>>
regVars  == <<file, reg, recorded>>
sessVars == <<sess, ending, resuming>>
handVars == <<next, foreign, prev, shipped>>
wakeVars == <<woken, client>>
wireVars == <<report, calls>>
histVars == <<born, forgot>>
vars == <<procVars, regVars, sessVars, handVars, watch, owned, wakeVars, wireVars,
          histVars>>

-----------------------------------------------------------------------------
(* Types                                                                   *)

(*  off  loaded       not started; its registry is read                    *)
(*  leading           holds the succession lock, about to open the claim   *)
(*  calling reported  its daemon/takeover is on the wire; is answered      *)
(*  resume load       resume_marked, and its session/load                  *)
(*  serving           accepting                                            *)
(*  orphaned merging  reclaim, waiting for the lock; with what it read     *)
(*  exited            the process ended                                    *)
Phases == {"off", "loaded", "leading", "calling", "reported", "resume", "load",
           "serving", "orphaned", "merging", "exited"}

\* Registry entries by the mark that resumes them.
Entries == {"absent", "plain", "marked"}

\* `handing` is a live session marked HandingOff; `launching` is reserved.
Sess == {"none", "launching", "idle", "turn", "handing"}
Owning(d) == sess[d] \in {"launching", "idle", "turn"}

Reports == [kind : {"none", "kept", "handed"}, owner : Daemons \cup {None},
            from : Daemons \cup {None}, entry : Entries]
NoReport == [kind |-> "none", owner |-> None, from |-> None, entry |-> "absent"]

\* A handoff or release call: the watcher that waits for it (None once that
\* daemon is gone), and the daemons that serve it, each relaying to the next.
Calls == [from : Daemons \cup {None}, kind : {"handoff", "release"}, entry : Entries,
          path : Seq(Daemons), stage : {"sent", "claimed", "ok", "err"}]

NoCall == [at |-> None, stage |-> "none", n |-> 0, to |-> None]

\* The types of the state; in particular `dispatch` gives up after Attempts.
TypeOK ==
    /\ phase \in [Daemons -> Phases]
    /\ succession \in Daemons \cup {None} /\ claim \in Daemons \cup {None}
    /\ crashed \in 0..Crashes
    /\ file \in Entries /\ reg \in [Daemons -> Entries]
    /\ recorded \in [Daemons -> Entries]
    /\ sess \in [Daemons -> Sess]
    /\ ending \in [Daemons -> {"none", "close", "forget"}]
    /\ resuming \in [Daemons -> {"no", "claimed", "pending", "loading"}]
    /\ next \in [Daemons -> Daemons \cup {None}]
    /\ foreign \in [Daemons -> Daemons \cup {None}]
    /\ prev \in [Daemons -> Daemons \cup {None}]
    /\ shipped \in [Daemons -> BOOLEAN]
    /\ watch \in [Daemons -> {"off", "scan", "call", "check", "idle", "gone", "done"}]
    /\ owned \in [Daemons -> BOOLEAN] /\ woken \in [Daemons -> BOOLEAN]
    /\ report \in [Daemons -> Reports] /\ calls \subseteq Calls
    /\ client \in [at : Daemons \cup {None}, n : 0..Attempts, to : Daemons \cup {None},
                   stage : {"none", "route", "hold", "sent", "served", "ok", "err",
                            "moved", "unsettled"}]
    /\ born \in BOOLEAN /\ forgot \in BOOLEAN

\* A daemon leads and serves the session, settled or not; or it leads and the
\* session is not started yet.
Init ==
    /\ \E d \in Daemons :
          /\ phase = [e \in Daemons |-> IF e = d THEN "serving" ELSE "off"]
          /\ claim = d
          /\ \/ /\ born = TRUE /\ file = "plain"
                /\ sess \in {[e \in Daemons |-> IF e = d THEN s ELSE "none"] :
                             s \in {"idle", "turn"}}
             \/ /\ "spawn" \in Events /\ born = FALSE /\ file = "absent"
                /\ sess = [e \in Daemons |-> "none"]
          /\ reg = [e \in Daemons |-> IF e = d THEN file ELSE "absent"]
    /\ succession = None /\ crashed = 0 /\ recorded = [d \in Daemons |-> "absent"]
    /\ ending = [d \in Daemons |-> "none"] /\ resuming = [d \in Daemons |-> "no"]
    /\ next = [d \in Daemons |-> None] /\ foreign = [d \in Daemons |-> None]
    /\ prev = [d \in Daemons |-> None] /\ shipped = [d \in Daemons |-> FALSE]
    /\ watch = [d \in Daemons |-> "off"] /\ owned = [d \in Daemons |-> FALSE]
    /\ woken = [d \in Daemons |-> FALSE]
    /\ report = [d \in Daemons |-> NoReport] /\ calls = {} /\ client = NoCall
    /\ forgot = FALSE

-----------------------------------------------------------------------------
(* State formulae and effects                                              *)

Up(d) == phase[d] \notin {"off", "loaded", "exited"}

\* The accept loop takes a connection: never while it starts or reclaims.
Accepting(d) == phase[d] = "serving" /\ watch[d] # "done"

\* Tasks of accepted connections run on.
Working(d) == phase[d] \in {"serving", "orphaned", "merging"}
              \/ (phase[d] \in {"leading", "calling", "reported"} /\ watch[d] = "gone")

Superseded(d) == next[d] # None

\* `progressed`: the watcher scans again, a held dispatch looks again.
Notify(d) ==
    /\ woken' = [woken EXCEPT ![d] = TRUE]
    /\ client' = IF client.at = d /\ client.stage = "hold"
                 THEN [client EXCEPT !.stage = "route"] ELSE client

\* update_registry: a superseded daemon's change stays in its memory.
UpdateRegistry(d, e) ==
    /\ reg' = [reg EXCEPT ![d] = e]
    /\ file' = IF Superseded(d) THEN file ELSE e

RouteLocal(d) == IF resuming[d] # "no" THEN None ELSE d                      \* mutant
\* route: where a call on d's public socket goes; None while it must wait.
Route(d) ==
    LET unknown == sess[d] = "none" /\ reg[d] = "absent"
    IN  IF foreign[d] # None THEN foreign[d]
        ELSE IF resuming[d] # "no" THEN None
        ELSE IF unknown /\ prev[d] # None THEN prev[d]
        ELSE d

\* A client may call d on its public socket.
Called(d) == Working(d) /\ (Superseded(d) => "old" \in Events)

\* A client's call can reach d's tools: by its own dispatch, or forwarded.
Reached(d) ==
    /\ Working(d)
    /\ \E e \in Daemons : /\ Called(e) /\ Route(e) = d
                          /\ "old" \in Events \/ d \in {e, foreign[e]}

\* No daemon is between its read of the registry and its takeover.
Fresh == (\A e \in Daemons : phase[e] \notin {"loaded", "leading", "calling"})
         \/ "stale" \in Events

\* The watcher is between two passes.
Quiet(d) == watch[d] \in {"call", "check"} => "cross" \in Events

-----------------------------------------------------------------------------
(* Starting and superseding                                                *)

\* AppState::new, before `run`: the registry is read before any lock.
LoadRegistry(d) ==
    /\ phase[d] = "off" /\ phase' = [phase EXCEPT ![d] = "loaded"]
    /\ (\A e \in Daemons : ending[e] = "none") \/ "stale" \in Events
    /\ reg' = [reg EXCEPT ![d] = file]
    /\ UNCHANGED <<succession, claim, crashed, file, recorded, sessVars, handVars, watch,
                   owned, wakeVars, wireVars, histVars>>

\* run: lock_succession, or the start fails before it touches anything.
Run(d) ==
    /\ phase[d] = "loaded"
    /\ \/ /\ succession = None /\ succession' = d
          /\ phase' = [phase EXCEPT ![d] = "leading"]
       \/ /\ succession # None /\ phase' = [phase EXCEPT ![d] = "exited"]
          /\ UNCHANGED succession
    /\ UNCHANGED <<claim, crashed, regVars, sessVars, handVars, watch, owned, wakeVars,
                   wireVars, histVars>>

\* The end of lead: the claim held, the pid written, the lock dropped. A
\* start goes on to resume_marked, a reclaim to the accept loop and the
\* sessions' queues.
Lead(d) ==
    /\ claim' = d /\ succession' = None
    /\ phase' = [phase EXCEPT ![d] = IF watch[d] = "gone" THEN "serving" ELSE "resume"]
    /\ watch' = [watch EXCEPT ![d] = "off"]

\* lead: a free claim is a fresh start, a held one names the daemon to
\* supersede.
OpenClaim(d) ==
    /\ phase[d] = "leading"
    /\ \/ claim = None /\ Lead(d)
       \/ /\ claim # None /\ phase' = [phase EXCEPT ![d] = "calling"]
          /\ UNCHANGED <<succession, claim, watch>>
    /\ UNCHANGED <<crashed, regVars, sessVars, handVars, owned, wakeVars, wireVars,
                   histVars>>

\* partition: settled sessions are handed over in the report.
Handed(p) == sess[p] = "idle"

\* The report: a session this daemon has and keeps by its own socket, one it
\* forwards by the older owner's.
Partition(p) ==
    IF Handed(p) THEN [kind |-> "handed", owner |-> None, from |-> p, entry |-> "marked"]
    ELSE IF foreign[p] # None
         THEN [kind |-> "kept", owner |-> foreign[p], from |-> p, entry |-> reg[p]]
    ELSE IF sess[p] # "none"
         THEN [kind |-> "kept", owner |-> p, from |-> p, entry |-> reg[p]]
    ELSE [NoReport EXCEPT !.from = p]

\* TakeoverTool, at the claim's holder p: superseded, its sessions split, its
\* watcher spawned, its claim let go.
Takeover(d) ==
    /\ phase[d] = "calling" /\ claim # None
    /\ LET p == claim
           kept == sess[p] # "none" /\ ~Handed(p)
       IN  /\ Accepting(p)
           /\ resuming[p] \in {"no", "loading"} \/ "overlap" \in Events
           /\ ending[p] = "none" \/ "cross" \in Events
           /\ next' = [next EXCEPT ![p] = d]
           /\ report' = [report EXCEPT ![d] = Partition(p)]
           /\ sess' = [sess EXCEPT ![p] = IF Handed(p) THEN "none" ELSE @]
           /\ shipped' = [shipped EXCEPT ![p] = @ \/ Handed(p)]
           /\ watch' = [watch EXCEPT ![p] = "scan"]
           /\ owned' = [owned EXCEPT ![p] = kept]
           /\ Notify(p)
    /\ claim' = None /\ phase' = [phase EXCEPT ![d] = "reported"]
    /\ UNCHANGED <<succession, crashed, regVars, ending, resuming, foreign, prev, calls,
                   histVars>>

\* mutant: the report replaces the registry that was read
SupersedeReplaces(d) ==
    /\ phase[d] = "reported"
    /\ LET r == report[d] IN
       /\ foreign' = [foreign EXCEPT ![d] = IF r.kind = "kept" THEN r.owner ELSE @]
       /\ prev' = [prev EXCEPT ![d] = r.from]
       /\ UpdateRegistry(d, r.entry)
    /\ report' = [report EXCEPT ![d] = NoReport]
    /\ Lead(d)
    /\ UNCHANGED <<crashed, recorded, sessVars, next, shipped, owned, wakeVars, calls,
                   histVars>>

\* supersede: the report applied, then the end of lead.
Supersede(d) ==
    /\ phase[d] = "reported"
    /\ LET r == report[d] IN
       /\ foreign' = [foreign EXCEPT ![d] = IF r.kind = "kept" THEN r.owner ELSE @]
       /\ prev' = [prev EXCEPT ![d] = r.from]
       /\ UpdateRegistry(d, CASE r.kind = "kept" /\ r.entry # "absent" -> "plain"
                              [] r.kind = "handed" -> r.entry
                              [] OTHER -> reg[d])
    /\ report' = [report EXCEPT ![d] = NoReport]
    /\ Lead(d)
    /\ UNCHANGED <<crashed, recorded, sessVars, next, shipped, owned, wakeVars, calls,
                   histVars>>

\* resume_marked: the marked session is loaded before any client is served.
ResumeMarked(d) ==
    /\ phase[d] = "resume"
    /\ \/ /\ reg[d] = "marked" /\ sess' = [sess EXCEPT ![d] = "launching"]
          /\ phase' = [phase EXCEPT ![d] = "load"]
       \/ /\ reg[d] # "marked" \/ "fail" \in Events
          /\ phase' = [phase EXCEPT ![d] = "serving"] /\ UNCHANGED sess
    /\ UNCHANGED <<succession, claim, crashed, regVars, ending, resuming, handVars, watch,
                   owned, wakeVars, wireVars, histVars>>

-----------------------------------------------------------------------------
(* The session inside a daemon                                             *)

\* The `spawn` tool, and any connection it came on.
Spawn(d) ==
    /\ "spawn" \in Events /\ ~born /\ born' = TRUE /\ Called(d) /\ Fresh
    /\ sess' = [sess EXCEPT ![d] = "idle"] /\ UpdateRegistry(d, "plain")
    /\ Notify(d)
    /\ UNCHANGED <<procVars, recorded, ending, resuming, handVars, watch, owned, wireVars,
                   forgot>>

\* A turn starts, by a send or from the queue.
StartTurn(d) ==
    /\ Up(d) /\ sess[d] = "idle" /\ sess' = [sess EXCEPT ![d] = "turn"] /\ Notify(d)
    /\ UNCHANGED <<procVars, regVars, ending, resuming, handVars, watch, owned, wireVars,
                   histVars>>

EndTurn(d) ==
    /\ Up(d) /\ sess[d] = "turn" /\ sess' = [sess EXCEPT ![d] = "idle"] /\ Notify(d)
    /\ UNCHANGED <<procVars, regVars, ending, resuming, handVars, watch, owned, wireVars,
                   histVars>>

\* `adopt`: a registered session is claimed for a launch.
Adopt(d) ==
    /\ Reached(d) /\ sess[d] = "none" /\ ending[d] = "none"
    /\ ~shipped[d] /\ reg[d] # "absent"
    /\ Quiet(d)
    /\ sess' = [sess EXCEPT ![d] = "launching"]
    /\ UNCHANGED <<procVars, regVars, ending, resuming, handVars, watch, owned, wakeVars,
                   wireVars, histVars>>

\* resume_handed: the handed session is launched, unless the daemon has it.
ResumeHanded(d) ==
    /\ Up(d) /\ resuming[d] = "pending"
    /\ \/ /\ sess[d] = "none" /\ sess' = [sess EXCEPT ![d] = "launching"]
          /\ resuming' = [resuming EXCEPT ![d] = "loading"] /\ UNCHANGED wakeVars
       \/ /\ sess[d] # "none" \/ "fail" \in Events
          /\ resuming' = [resuming EXCEPT ![d] = "no"] /\ Notify(d) /\ UNCHANGED sess
    /\ UNCHANGED <<procVars, regVars, ending, handVars, watch, owned, wireVars, histVars>>

\* A launch settles: live, its mark consumed, or failed, its mark kept.
LaunchSettles(d) ==
    /\ Up(d) /\ sess[d] = "launching"
    /\ \/ /\ sess' = [sess EXCEPT ![d] = "idle"] /\ UpdateRegistry(d, "plain")
       \/ /\ "fail" \in Events /\ Quiet(d) /\ sess' = [sess EXCEPT ![d] = "none"]
          /\ UNCHANGED <<file, reg>>
    /\ resuming' = [resuming EXCEPT ![d] = IF @ = "loading" THEN "no" ELSE @]
    /\ phase' = [phase EXCEPT ![d] = IF @ = "load" THEN "serving" ELSE @]
    /\ Notify(d)
    /\ UNCHANGED <<succession, claim, crashed, recorded, ending, handVars, watch, owned,
                   wireVars, histVars>>

\* `close` and `forget`, first half: the session leaves `live`; a registered
\* one is only unscheduled or removed.
EndSession(d, kind) ==
    /\ Reached(d) /\ ending[d] = "none" /\ sess[d] # "launching"
    /\ sess[d] = "none" => ~shipped[d] /\ reg[d] # "absent"
    /\ Quiet(d) /\ Fresh
    /\ sess' = [sess EXCEPT ![d] = "none"]
    /\ ending' = [ending EXCEPT ![d] = kind]
    /\ Notify(d)
    /\ UNCHANGED <<procVars, regVars, resuming, handVars, watch, owned, wireVars, histVars>>

\* Second half, with the process down: the marks, or the entry, removed.
Ended(d) ==
    /\ Up(d) /\ ending[d] # "none" /\ ending' = [ending EXCEPT ![d] = "none"]
    /\ UpdateRegistry(d, IF ending[d] = "forget" \/ reg[d] = "absent" THEN "absent"
                         ELSE "plain")
    /\ forgot' = (forgot \/ ending[d] = "forget")
    /\ Notify(d)
    /\ UNCHANGED <<procVars, recorded, sess, resuming, handVars, watch, owned, wireVars,
                   born>>

\* Another session's turn ends, launch settles or end comes: the whole
\* registry is written.
OtherProgress(d) ==
    /\ "others" \in Events /\ Working(d) /\ UpdateRegistry(d, reg[d]) /\ Notify(d)
    /\ UNCHANGED <<procVars, recorded, sessVars, handVars, watch, owned, wireVars,
                   histVars>>

-----------------------------------------------------------------------------
(* handover_watch, on a superseded daemon                                  *)

Call(d, k, e) == [from |-> d, kind |-> k, entry |-> e, path |-> <<next[d]>>,
                  stage |-> "sent"]

\* One scan: a settled session is marked and shipped (handoff_one), one that
\* left without a handoff is released (released_one) with the entry this
\* daemon has for it by now.
Scan(d) ==
    /\ Up(d) /\ watch[d] = "scan" /\ woken' = [woken EXCEPT ![d] = FALSE]
    /\ ending[d] = "none" \/ "cross" \in Events
    /\ \/ /\ sess[d] = "idle" /\ sess' = [sess EXCEPT ![d] = "handing"]
          /\ calls' = calls \cup {Call(d, "handoff", "marked")}
          /\ watch' = [watch EXCEPT ![d] = "call"] /\ UNCHANGED owned
       \/ /\ sess[d] \in {"launching", "turn"} /\ owned' = [owned EXCEPT ![d] = TRUE]
          /\ watch' = [watch EXCEPT ![d] = "check"] /\ UNCHANGED <<sess, calls>>
       \/ /\ sess[d] = "none" /\ owned[d] /\ owned' = [owned EXCEPT ![d] = FALSE]
          /\ calls' = calls \cup {Call(d, "release", reg[d])}
          /\ watch' = [watch EXCEPT ![d] = "call"] /\ UNCHANGED sess
       \/ /\ sess[d] = "none" /\ ~owned[d]
          /\ watch' = [watch EXCEPT ![d] = "check"] /\ UNCHANGED <<sess, owned, calls>>
    /\ UNCHANGED <<procVars, regVars, ending, resuming, handVars, client, report,
                   histVars>>

\* mutant: an accepted handoff leaves the session live here
ReportedKeeps(d, c) ==
    /\ Up(d) /\ c \in calls /\ c.from = d /\ c.path = << >> /\ calls' = calls \ {c}
    /\ watch' = [watch EXCEPT ![d] = "check"]
    /\ sess' = [sess EXCEPT ![d] = IF @ = "handing" THEN "idle" ELSE @]
    /\ owned' = [owned EXCEPT ![d] = FALSE] /\ Notify(d)
    /\ UNCHANGED <<procVars, regVars, ending, resuming, handVars, report, histVars>>

\* mutant: a refused handoff leaves the session marked HandingOff
ReportedStuck(d, c) ==
    /\ Up(d) /\ c \in calls /\ c.from = d /\ c.path = << >> /\ calls' = calls \ {c}
    /\ watch' = [watch EXCEPT ![d] = "check"]
    /\ owned' = [owned EXCEPT ![d] = FALSE] /\ Notify(d)
    /\ UNCHANGED <<procVars, regVars, sessVars, handVars, report, histVars>>

\* The rest of handoff_one and released_one: the report's answer. A refused
\* handoff leaves the session here; a refused release is only logged.
Reported(d, c) ==
    /\ Up(d) /\ c \in calls /\ c.from = d /\ c.path = << >> /\ calls' = calls \ {c}
    /\ watch' = [watch EXCEPT ![d] = "check"]
    /\ \/ /\ c.kind = "handoff" /\ owned' = [owned EXCEPT ![d] = FALSE] /\ Notify(d)
          /\ IF c.stage = "ok"
             THEN /\ shipped' = [shipped EXCEPT ![d] = TRUE]
                  /\ sess' = [sess EXCEPT ![d] = "none"]
             ELSE /\ sess' = [sess EXCEPT ![d] = IF @ = "handing" THEN "idle" ELSE @]
                  /\ UNCHANGED shipped
       \/ c.kind = "release" /\ UNCHANGED <<sess, shipped, owned, wakeVars>>
    /\ UNCHANGED <<procVars, regVars, ending, resuming, next, foreign, prev, report,
                   histVars>>

\* It owns nothing and relays for nobody.
Done(d) == sess[d] = "none" /\ foreign[d] = None

Check(d) ==
    /\ Up(d) /\ watch[d] = "check"
    /\ watch' = [watch EXCEPT ![d] = IF Done(d) THEN "done" ELSE "idle"]
    /\ UNCHANGED <<procVars, regVars, sessVars, handVars, owned, wakeVars, wireVars,
                   histVars>>

\* mutant: the successor's death is not watched
WatchDeaf(d) ==
    /\ Up(d) /\ watch[d] = "idle" /\ woken[d] /\ watch' = [watch EXCEPT ![d] = "scan"]
    /\ UNCHANGED <<procVars, regVars, sessVars, handVars, owned, wakeVars, wireVars,
                   histVars>>

\* The select: the successor's death first, then a wake.
Watch(d) ==
    /\ Up(d) /\ watch[d] = "idle"
    /\ \/ /\ ~Up(next[d]) /\ watch' = [watch EXCEPT ![d] = "gone"]
          /\ phase' = [phase EXCEPT ![d] = "orphaned"]
       \/ /\ Up(next[d]) /\ woken[d] /\ watch' = [watch EXCEPT ![d] = "scan"]
          /\ UNCHANGED phase
    /\ UNCHANGED <<succession, claim, crashed, regVars, sessVars, handVars, owned,
                   wakeVars, wireVars, histVars>>

-----------------------------------------------------------------------------
(* daemon/handoff and daemon/release                                       *)

Server(c) == c.path[Len(c.path)]
Front(p) == SubSeq(p, 1, Len(p) - 1)
Replace(c, r) == calls' = (calls \ {c}) \cup {r}

\* A superseded daemon relays the report to its own successor.
Relay(c) ==
    /\ c \in calls /\ c.stage = "sent" /\ c.path # << >>
    /\ LET d == Server(c) IN
       /\ Accepting(d) /\ Superseded(d)
       /\ Replace(c, [c EXCEPT !.path = Append(@, next[d])])
    /\ UNCHANGED <<procVars, regVars, sessVars, handVars, watch, owned, wakeVars, report,
                   histVars>>

\* peer_call: nobody answers at the socket.
Unreachable(c) ==
    /\ c \in calls /\ c.stage = "sent" /\ c.path # << >> /\ ~Up(Server(c))
    /\ Replace(c, [c EXCEPT !.stage = "err", !.path = Front(@)])
    /\ UNCHANGED <<procVars, regVars, sessVars, handVars, watch, owned, wakeVars, report,
                   histVars>>

\* mutant: the forward is dropped first, the claim comes with the registration
ClaimUnforwards(c) ==
    /\ c \in calls /\ c.stage = "sent" /\ c.path # << >> /\ c.kind = "handoff"
    /\ LET d == Server(c) IN
       /\ Accepting(d) /\ ~Superseded(d) /\ resuming[d] = "no"
       /\ foreign' = [foreign EXCEPT ![d] = None]
    /\ Replace(c, [c EXCEPT !.stage = "claimed"])
    /\ UNCHANGED <<procVars, regVars, sessVars, next, prev, shipped, watch, owned,
                   wakeVars, report, histVars>>

\* HandoffTool: the id is claimed as resuming before anything else.
ClaimHandoff(c) ==
    /\ c \in calls /\ c.stage = "sent" /\ c.path # << >> /\ c.kind = "handoff"
    /\ LET d == Server(c) IN
       /\ Accepting(d) /\ ~Superseded(d) /\ resuming[d] = "no"
       /\ resuming' = [resuming EXCEPT ![d] = "claimed"]
    /\ Replace(c, [c EXCEPT !.stage = "claimed"])
    /\ UNCHANGED <<procVars, regVars, sess, ending, handVars, watch, owned, wakeVars,
                   report, histVars>>

\* Then the entry is registered, the forward dropped, the resume spawned.
AcceptHandoff(c) ==
    /\ c \in calls /\ c.stage = "claimed"
    /\ LET d == Server(c) IN
       /\ Up(d) /\ UpdateRegistry(d, c.entry)
       /\ foreign' = [foreign EXCEPT ![d] = None]
       /\ resuming' = [resuming EXCEPT ![d] = "pending"]
    /\ Replace(c, [c EXCEPT !.stage = "ok"])
    /\ UNCHANGED <<procVars, recorded, sess, ending, next, prev, shipped, watch, owned,
                   wakeVars, report, histVars>>

\* mutant: a null entry is not taken for a removal
ReleaseKeeps(c) ==
    /\ c \in calls /\ c.stage = "sent" /\ c.path # << >> /\ c.kind = "release"
    /\ LET d == Server(c) IN
       /\ Accepting(d) /\ ~Superseded(d) /\ Fresh
       /\ UpdateRegistry(d, IF c.entry = "absent" THEN reg[d] ELSE c.entry)
       /\ foreign' = [foreign EXCEPT ![d] = None]
    /\ Replace(c, [c EXCEPT !.stage = "ok"])
    /\ UNCHANGED <<procVars, recorded, sessVars, next, prev, shipped, watch, owned,
                   wakeVars, report, histVars>>

\* ReleaseTool: the final entry, or none, then the forward dropped.
AcceptRelease(c) ==
    /\ c \in calls /\ c.stage = "sent" /\ c.path # << >> /\ c.kind = "release"
    /\ LET d == Server(c) IN
       /\ Accepting(d) /\ ~Superseded(d) /\ Fresh /\ UpdateRegistry(d, c.entry)
       /\ foreign' = [foreign EXCEPT ![d] = None]
    /\ Replace(c, [c EXCEPT !.stage = "ok"])
    /\ UNCHANGED <<procVars, recorded, sessVars, next, prev, shipped, watch, owned,
                   wakeVars, report, histVars>>

\* mutant: a relaying daemon keeps its forward
AnswerRelays(c) ==
    /\ c \in calls /\ c.stage \in {"ok", "err"} /\ c.path # << >>
    /\ IF Front(c.path) = << >> /\ c.from = None THEN calls' = calls \ {c}
       ELSE Replace(c, [c EXCEPT !.path = Front(@)])
    /\ UNCHANGED <<procVars, regVars, sessVars, handVars, watch, owned, wakeVars, report,
                   histVars>>

\* The answer reaches whoever waits for the server: a relaying daemon drops
\* its forward, the watcher is left with an empty path.
Answer(c) ==
    /\ c \in calls /\ c.stage \in {"ok", "err"} /\ c.path # << >>
    /\ LET rest == Front(c.path) IN
       /\ IF rest # << >> /\ c.stage = "ok"
          THEN LET d == rest[Len(rest)] IN
               foreign' = [foreign EXCEPT ![d] = None] /\ Notify(d)
          ELSE UNCHANGED <<foreign, wakeVars>>
       /\ IF rest = << >> /\ c.from = None THEN calls' = calls \ {c}
          ELSE Replace(c, [c EXCEPT !.path = rest])
    /\ UNCHANGED <<procVars, regVars, sessVars, next, prev, shipped, watch, owned, report,
                   histVars>>

-----------------------------------------------------------------------------
(* Leading again, and the end of a process                                 *)

\* reclaim: with the succession lock, read the dead successor's registry.
Reclaim(d) ==
    /\ phase[d] = "orphaned" /\ succession = None /\ succession' = d
    /\ phase' = [phase EXCEPT ![d] = "merging"]
    /\ recorded' = [recorded EXCEPT ![d] = file]
    /\ UNCHANGED <<claim, crashed, file, reg, sessVars, handVars, watch, owned, wakeVars,
                   wireVars, histVars>>

\* Nothing is relayed or shipped any more; the daemon's own entry stays for
\* a session it owns or forwards, else the recorded one counts. From here
\* on its registry is written again.
Merge(d) ==
    /\ phase[d] = "merging" /\ phase' = [phase EXCEPT ![d] = "leading"]
    /\ LET own == (sess[d] # "none" \/ foreign[d] # None) /\ reg[d] # "absent"
           e == IF own THEN reg[d] ELSE recorded[d]
       IN  reg' = [reg EXCEPT ![d] = e] /\ file' = e
    /\ next' = [next EXCEPT ![d] = None] /\ shipped' = [shipped EXCEPT ![d] = FALSE]
    /\ recorded' = [recorded EXCEPT ![d] = "absent"]
    /\ owned' = [owned EXCEPT ![d] = FALSE]
    /\ UNCHANGED <<succession, claim, crashed, sessVars, foreign, prev, watch, wakeVars,
                   wireVars, histVars>>

\* What is left of a call when process d ends: the callers above d see the
\* connection fail, the servers below it finish for nobody.
Upstream(c, d) == LET i == CHOOSE i \in 1..Len(c.path) : c.path[i] = d
                  IN  [c EXCEPT !.path = SubSeq(@, 1, i - 1), !.stage = "err"]
Downstream(c, d) == LET i == CHOOSE i \in 1..Len(c.path) : c.path[i] = d
                    IN  [c EXCEPT !.from = None, !.path = SubSeq(@, i + 1, Len(@))]
Cut(c, d) ==
    LET parts == IF \E i \in 1..Len(c.path) : c.path[i] = d
                 THEN {Upstream(c, d), Downstream(c, d)}
                 ELSE {c}
        freed == {[p EXCEPT !.from = IF @ = d THEN None ELSE @] : p \in parts}
    IN  {p \in freed : p.from # None \/ p.path # << >>}

\* The process ends: its locks, its sessions and its connections with it.
Gone(d) ==
    /\ phase' = [phase EXCEPT ![d] = "exited"]
    /\ succession' = IF succession = d THEN None ELSE succession
    /\ claim' = IF claim = d THEN None ELSE claim
    /\ reg' = [reg EXCEPT ![d] = "absent"]
    /\ recorded' = [recorded EXCEPT ![d] = "absent"]
    /\ sess' = [sess EXCEPT ![d] = "none"] /\ ending' = [ending EXCEPT ![d] = "none"]
    /\ resuming' = [resuming EXCEPT ![d] = "no"]
    /\ next' = [next EXCEPT ![d] = None] /\ foreign' = [foreign EXCEPT ![d] = None]
    /\ prev' = [prev EXCEPT ![d] = None] /\ shipped' = [shipped EXCEPT ![d] = FALSE]
    /\ watch' = [watch EXCEPT ![d] = "off"] /\ owned' = [owned EXCEPT ![d] = FALSE]
    /\ woken' = [woken EXCEPT ![d] = FALSE]
    /\ report' = [report EXCEPT ![d] = NoReport]
    /\ calls' = UNION {Cut(c, d) : c \in calls}
    /\ client' = IF client.at = d /\ client.stage \in {"route", "hold", "sent", "served"}
                 THEN NoCall ELSE client
    /\ UNCHANGED <<file, histVars>>

\* serve: the accept loop saw `finished`.
Exit(d) ==
    /\ Up(d) /\ watch[d] = "done"
    /\ "cut" \in Events \/ \A c \in calls : \A i \in 1..Len(c.path) : c.path[i] # d
    /\ Gone(d) /\ UNCHANGED crashed

Crash(d) ==
    /\ phase[d] \notin {"off", "exited"} /\ crashed < Crashes /\ crashed' = crashed + 1
    /\ Gone(d)

\* lead fails: the daemon to supersede died before it answered.
LeadFails(d) ==
    /\ phase[d] = "calling" /\ claim = None
    /\ Gone(d) /\ UNCHANGED crashed

-----------------------------------------------------------------------------
(* dispatch: one client's call for the session on the newest daemon        *)

\* What a daemon's own tools say of the session: it has it, or registered.
Answers(d) == sess[d] # "none" \/ (~shipped[d] /\ reg[d] # "absent")

ClientCall(d) ==
    /\ "call" \in Events /\ client.stage = "none" /\ Accepting(d) /\ ~Superseded(d)
    /\ born /\ ~forgot
    /\ client' = [NoCall EXCEPT !.at = d, !.stage = "route"]
    /\ UNCHANGED <<procVars, regVars, sessVars, handVars, watch, owned, woken, wireVars,
                   histVars>>

Returns(stage) == client' = [NoCall EXCEPT !.stage = stage]
Goes(stage) == client' = [client EXCEPT !.stage = stage]

\* mutant: the attempts are not bounded
DispatchForever ==
    /\ client.stage = "route"
    /\ LET d == client.at
           to == Route(d)
       IN  IF to = d
           THEN Returns(IF Answers(d) THEN "ok" ELSE IF shipped[d] THEN "moved" ELSE "err")
           ELSE client' = [client EXCEPT !.n = @ + 1, !.to = to,
                                         !.stage = IF to = None THEN "hold" ELSE "sent"]
    /\ UNCHANGED <<procVars, regVars, sessVars, handVars, watch, owned, woken, wireVars,
                   histVars>>

\* dispatch_inner's loop: classify, then wait, run here or forward. Run here,
\* the call finds the session, a session that was shipped, or nothing.
Dispatch ==
    /\ client.stage = "route"
    /\ LET d == client.at
           to == Route(d)
       IN  IF client.n = Attempts THEN Returns("unsettled")
           ELSE IF to = d
                THEN Returns(IF Answers(d) THEN "ok" ELSE IF shipped[d] THEN "moved" ELSE "err")
           ELSE client' = [client EXCEPT !.n = @ + 1, !.to = to,
                                         !.stage = IF to = None THEN "hold" ELSE "sent"]
    /\ UNCHANGED <<procVars, regVars, sessVars, handVars, watch, owned, woken, wireVars,
                   histVars>>

StillOwnedAlways == TRUE                                                     \* mutant
\* still_owned: the session has not moved since the call was routed.
StillOwned == Route(client.at) = client.to

\* peer_call connects. Nobody there: the daemon exited and owns nothing
\* (owner_gone).
Connect ==
    /\ client.stage = "sent"
    /\ \/ Accepting(client.to) /\ Goes("served") /\ UNCHANGED <<foreign, prev>>
       \/ /\ ~Up(client.to) /\ Goes("route")
          /\ foreign' = [foreign EXCEPT ![client.at] = IF @ = client.to THEN None ELSE @]
          /\ prev' = [prev EXCEPT ![client.at] = IF @ = client.to THEN None ELSE @]
    /\ UNCHANGED <<procVars, regVars, sessVars, next, shipped, watch, owned, woken,
                   wireVars, histVars>>

\* The owner answers, or its process ends first. An error about a session
\* that moved is routed again.
Forwarded ==
    /\ client.stage = "served"
    /\ IF Up(client.to) /\ Answers(client.to) THEN Returns("ok")
       ELSE IF StillOwned THEN Returns("err") ELSE Goes("route")
    /\ UNCHANGED <<procVars, regVars, sessVars, handVars, watch, owned, woken, wireVars,
                   histVars>>

-----------------------------------------------------------------------------

Start(d) == Run(d) \/ OpenClaim(d) \/ Takeover(d) \/ Supersede(d) \/ ResumeMarked(d)
            \/ LeadFails(d)
Caller(d) == Spawn(d) \/ Adopt(d) \/ (\E k \in {"close", "forget"} : EndSession(d, k))
             \/ ClientCall(d) \/ StartTurn(d) \/ OtherProgress(d)
Work(d) == EndTurn(d) \/ ResumeHanded(d) \/ LaunchSettles(d) \/ Ended(d)
Watcher(d) == Scan(d) \/ (\E c \in calls : Reported(d, c)) \/ Check(d) \/ Watch(d)
Again(d) == Reclaim(d) \/ Merge(d) \/ Exit(d)
Peer == \E c \in calls : \/ Relay(c) \/ Unreachable(c) \/ ClaimHandoff(c)
                         \/ AcceptHandoff(c) \/ AcceptRelease(c) \/ Answer(c)
Client == Dispatch \/ Connect \/ Forwarded

Next == \/ \E d \in Daemons : \/ LoadRegistry(d) \/ Crash(d) \/ Caller(d)
                               \/ Start(d) \/ Work(d) \/ Watcher(d) \/ Again(d)
        \/ Peer \/ Client

Spec == Init /\ [][Next]_vars

\* A started daemon's tasks run, the operating system grants a free lock and
\* delivers what is written, an agent ends its turns (or the turn watchdog
\* does). Nothing makes anybody start a daemon or call one.
Fairness ==
    /\ \A d \in Daemons : /\ WF_vars(Start(d)) /\ WF_vars(EndTurn(d))
                          /\ WF_vars(ResumeHanded(d)) /\ WF_vars(LaunchSettles(d))
                          /\ WF_vars(Ended(d)) /\ WF_vars(Watcher(d))
                          /\ WF_vars(Again(d))
    /\ WF_vars(Peer) /\ WF_vars(Client)

FairSpec == Spec /\ Fairness

-----------------------------------------------------------------------------
(* Properties                                                              *)

\* At most one daemon has the session, live or launching, whichever
\* generation it is: two agents on one session would both write it.
OneOwner == \A d, e \in Daemons : Owning(d) /\ Owning(e) => d = e

\* The newest daemon refuses a call only for a session that was forgotten:
\* a session that moves while the call is on the wire is found again. Found is
\* one that is registered, too; that a call which runs here should not have run
\* elsewhere is NoGap.
NoRefusal == client.stage \in {"err", "unsettled"} => forgot

\* HandoffTool's claim as resuming before the registration, and the forward's
\* drop after it, leave no gap: a daemon that nobody superseded runs a call for
\* a session it does not have only when no daemon has it and none is shipping
\* it. `adopt` would load it a second time, `send` report it gone.
NoGap == \A d \in Daemons :
    Accepting(d) /\ ~Superseded(d) /\ Route(d) = d /\ sess[d] = "none"
        => /\ \A e \in Daemons : ~Owning(e)
           /\ \A c \in calls : c.kind = "handoff" => c.stage \notin {"sent", "claimed"}

\* A session that was started and not forgotten is in registry.json, whoever
\* wrote it last: a crash of every daemon leaves it adoptable.
Registered == born /\ ~forgot /\ (\A d \in Daemons : ending[d] # "forget")
              => file # "absent"

\* The session is between two daemons: marked HandingOff and not accepted
\* yet, in a takeover's report, or with a daemon that is about to load it.
Accepted(d) == \E c \in calls : c.from = d /\ c.stage = "ok"
Moving == \E d \in Daemons : \/ sess[d] = "handing" /\ ~Accepted(d)
                             \/ report[d].kind = "handed"
                             \/ resuming[d] \in {"claimed", "pending"}
                             \/ phase[d] = "resume" /\ reg[d] = "marked"

\* A superseded daemon does not stay: it exits, or leads again because its
\* successor died, unless calls for what superseded daemons keep never stop.
Retires == \/ []<><<\E d \in Daemons : Superseded(d) /\ Caller(d)>>_vars
           \/ \A d \in Daemons : Superseded(d) ~> ~Superseded(d)

\* A session on its way arrives, or fails to.
Arrives == Moving ~> ~Moving

\* A forgotten session leaves registry.json for good, whichever generation
\* served the `forget`.
ForgetSticks == forgot ~> [](file = "absent")

\* The generations keep the promise of Ownership.
Promise == INSTANCE Ownership WITH
    Faults <- Crashes > 0 \/ "fail" \in Events,
    where  <- IF \E d \in Daemons : Owning(d) THEN "with"
              ELSE IF Moving THEN "moving"
              ELSE IF forgot THEN "gone"
              ELSE IF born THEN "resting" ELSE "unborn",
    owner  <- IF \E d \in Daemons : Owning(d) THEN CHOOSE d \in Daemons : Owning(d)
              ELSE None
KeepsPromise == Promise!Spec
=============================================================================
