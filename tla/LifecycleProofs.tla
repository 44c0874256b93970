-------------------------- MODULE LifecycleProofs --------------------------
(* What holds of one session id's launches and ends for any number of them *)
(* and any interleaving: the invariants of module Lifecycle, by induction  *)
(* over its steps.                                                         *)
EXTENDS Lifecycle, TLAPS

-----------------------------------------------------------------------------
(* The inductive invariant, in three parts: what every step keeps; what    *)
(* holds when no launch claims the id while another is on its way out; what*)
(* holds when, besides, nobody uses the id of a spawn before it is live.   *)

\* From the claim to its release, and from there to the return.
Bringing == {"reap", "connect", "handshake", "register", "bind", "release"}
Awaited == {"loaded", "marked", "reparked"}

\* What a launch of each kind does, and where.
LaunchShape ==
    \A l \in Launches :
        /\ kind[l] \in {"none", "spawn", "adopt"} \cup Awaited
        /\ kind[l] = "none" <=> pc[l] \in {"new", "gone"}
        /\ kind[l] = "spawn" => pc[l] \in {"connect", "handshake", "register", "bind",
                                           "start", "failing", "done", "failed", "park"}
        /\ pc[l] \in {"loading", "note"} => kind[l] \in Awaited
        /\ pc[l] = "restore" => kind[l] \in {"marked", "reparked"}
        /\ pc[l] = "reap" => victim[l] \in Launches
        /\ pc[l] \in {"unschedule", "kill"} => victim[l] = l

\* What a close and a forget do, and where.
EndShape ==
    \A e \in Ends :
        /\ kind[e] \in {"none", "close", "forget"}
        /\ pc[e] \in {"new", "unschedule", "kill", "unregister", "done", "failed", "gone"}
        /\ kind[e] = "close" => ~drops[e] /\ pc[e] # "unregister"
        /\ kind[e] = "forget" => pc[e] # "unschedule"
        /\ pc[e] = "kill" => victim[e] \in Launches

\* Who holds `registry_write` is in a registry write.
WriterShape ==
    writer # None => pc[writer] \in {"register", "unschedule", "unregister", "note", "park"}

\* A claim belongs to a launch that will drop it.
ClaimOwned ==
    reserved.held => \E l \in Launches : kind[l] # "spawn" /\ pc[l] \in Bringing \cup {"failing"}

Shape == TypeOK /\ LaunchShape /\ EndShape /\ WriterShape /\ ClaimOwned

\* A launch, not a spawn, that has or had the claim and has not returned.
Busy(l) == kind[l] # "spawn" /\ pc[l] \in Bringing \cup Returning

\* One of them at a time, and it holds the claim until its release.
Exclusive ==
    /\ \A k, l \in Launches : Busy(k) /\ Busy(l) => k = l
    /\ ReservationHeld

\* Who is live has gone live, and an end that hit a launch told it so.
Told ==
    /\ live # None => pc[live] \notin {"new", "loading"} \cup (Bringing \ {"release"})
    /\ \A l \in ended :
         /\ pc[l] \notin {"new", "loading"}
         /\ pc[l] \in Bringing \ {"release"} => kind[l] # "spawn" /\ reserved.closed
         /\ live = l => pc[l] = "release" /\ reserved.closed

\* While a spawn has no id yet nobody calls, and nothing is parked.
SpawnAlone ==
    \A l \in Launches : kind[l] = "spawn" /\ pc[l] \in Bringing
        => /\ boot = "serving" /\ live = None /\ ~reserved.held /\ ~entry.parked
           /\ \A a \in Actors \ {l} : pc[a] = "new"
           /\ since = {} /\ ~closed /\ ~forgot

\* While a launch has not returned, nobody else is live or launching.
Solo ==
    \A l \in Launches : pc[l] \in Bringing \cup Returning
        => /\ live \in {l, None} /\ (live = l => pc[l] \notin Bringing \ {"release"})
           /\ \A k \in Launches \ {l} : pc[k] \notin Bringing \cup Returning

\* An agent starts with its launch, and a dead one is all an exited session has.
Fresh ==
    \A l \in Launches :
        /\ pc[l] \in {"new", "loading", "reap", "connect"} => ~alive[l] /\ status[l] = "live"
        /\ pc[l] \in Bringing \cup {"start"} => status[l] # "parked"
        /\ status[l] = "exited" => ~alive[l]

\* NoOrphan, and what is left of it when a launch's first turn is refused.
Owned ==
    \A l \in Launches : alive[l] /\ ~closing[l]
        => \/ live = l \/ pc[l] \in {"handshake", "register", "bind"}
           \/ "busy" \in Events /\ pc[l] \in {"failing", "failed", "note", "gone"}

Clean(e) == ~e.parked /\ ~e.mark

\* A close, or a forget, was called since the id was last claimed.
CloseCalled  == closed \/ \E e \in since : kind[e] = "close"
ForgetCalled == forgot \/ \E e \in since : kind[e] = "forget"

\* A restart's resume is over before anybody calls, and a call is made.
Calm ==
    /\ \A e \in since : pc[e] # "new"
    /\ boot # "serving" => since = {}
    /\ \A l \in Launches : kind[l] \in {"marked", "reparked"} /\ pc[l] \notin Returned
         => boot = "resume"
    /\ \A l \in Launches : kind[l] \in {"marked", "reparked"}
         /\ pc[l] \in Bringing \cup Returning \cup {"restore"} => ~closed
    /\ closed \/ forgot => \E a \in Actors : pc[a] # "new"

\* Once a close was called nobody is live, or about to be, who could park.
CloseHits ==
    CloseCalled => /\ live # None => pc[live] = "release"
                   /\ \A l \in Launches : pc[l] \in Bringing
                        => reserved.closed \/ (pc[l] = "release" /\ live = None)

\* A close clears the schedule before it returns, and it stays cleared.
Cleared ==
    /\ closed => Clean(entry) /\ Clean(disk)
    /\ \A e \in since : kind[e] = "close" =>
         /\ pc[e] = "kill" => Clean(entry) /\ Clean(disk)
         /\ pc[e] = "unschedule" /\ writer = e => Clean(entry)

\* l removes the entry before it returns.
WillDrop(l) == \/ pc[l] \in {"register", "bind", "release"} /\ reserved.forgotten
               \/ pc[l] \in {"unschedule", "kill"} /\ drops[l]
               \/ pc[l] = "unregister"

\* A forget removes the entry; a launch that may write it again was told.
Removed ==
    /\ reserved.forgotten => reserved.closed
    /\ writer # None => (pc[writer] = "unregister" => ~entry.known)
    /\ ForgetCalled => \A l \in Launches : pc[l] \in {"reap", "connect", "handshake"}
                          => reserved.forgotten
    /\ forgot => \/ ~entry.known /\ ~disk.known
                 \/ \E l \in Launches : WillDrop(l)

-----------------------------------------------------------------------------
(* Types and shapes *)

\* A registry entry, field by field: only a known session has a schedule.
LEMMA EntryFields ==
    ASSUME NEW e
    PROVE  e \in RegistryEntry <=> /\ e \in [known : BOOLEAN, parked : BOOLEAN, mark : BOOLEAN]
                                   /\ ~e.known => ~e.parked /\ ~e.mark
<1>1. ASSUME e \in [known : BOOLEAN, parked : BOOLEAN, mark : BOOLEAN],
             ~e.known, ~e.parked, ~e.mark
      PROVE  e = NoEntry
  BY <1>1 DEF NoEntry
<1>2. ASSUME e \in [known : BOOLEAN, parked : BOOLEAN, mark : BOOLEAN], e.known
      PROVE  e \in [known : {TRUE}, parked : BOOLEAN, mark : BOOLEAN]
  BY <1>2
<1>3. ASSUME e \in RegistryEntry
      PROVE  /\ e \in [known : BOOLEAN, parked : BOOLEAN, mark : BOOLEAN]
             /\ ~e.known => ~e.parked /\ ~e.mark
  <2>1. CASE e = NoEntry
    BY <2>1 DEF NoEntry
  <2>2. CASE e # NoEntry
    BY <1>3, <2>2 DEF RegistryEntry
  <2> QED
    BY <2>1, <2>2
<1> QED
  BY <1>1, <1>2, <1>3 DEF RegistryEntry

\* Every registry write leaves an entry.
LEMMA EntryTypes ==
    ASSUME TypeRegistry, TypeSubs
    PROVE  /\ NoEntry \in RegistryEntry /\ Registered \in RegistryEntry
           /\ Unscheduled \in RegistryEntry
           /\ \A l \in Launches : ParkedBy(l) \in RegistryEntry
           /\ \A b \in BOOLEAN : [entry EXCEPT !.parked = @ /\ b] \in RegistryEntry
<1>1. entry \in RegistryEntry
  BY DEF TypeRegistry
<1>2. NoEntry \in RegistryEntry /\ Registered \in RegistryEntry
  BY EntryFields DEF Registered, RegistryEntry
<1>3. Unscheduled \in RegistryEntry
  <2> DEFINE half == [entry EXCEPT !.parked = FALSE]
  <2> entry \in [known : BOOLEAN, parked : BOOLEAN, mark : BOOLEAN]
    BY <1>1, EntryFields
  <2>1. half \in [known : BOOLEAN, parked : BOOLEAN, mark : BOOLEAN] /\ ~half.parked
    OBVIOUS
  <2>2. Unscheduled = [half EXCEPT !.mark = FALSE]
    BY DEF Unscheduled
  <2> HIDE DEF half
  <2> QED
    BY <2>1, <2>2, EntryFields
<1>4. ASSUME NEW l \in Launches PROVE ParkedBy(l) \in RegistryEntry
  BY <1>1, EntryFields DEF ParkedBy
<1>5. ASSUME NEW b \in BOOLEAN
      PROVE  [entry EXCEPT !.parked = @ /\ b] \in RegistryEntry
  BY <1>1, EntryFields
<1> QED
  BY <1>2, <1>3, <1>4, <1>5

\* A claim, field by field: only a held one carries marks.
LEMMA ClaimFields ==
    ASSUME NEW r
    PROVE  r \in Reservation <=> /\ r \in [held : BOOLEAN, closed : BOOLEAN, forgotten : BOOLEAN]
                                 /\ ~r.held => ~r.closed /\ ~r.forgotten
<1>1. ASSUME r \in [held : BOOLEAN, closed : BOOLEAN, forgotten : BOOLEAN],
             ~r.held, ~r.closed, ~r.forgotten
      PROVE  r = NoClaim
  BY <1>1 DEF NoClaim
<1>2. ASSUME r \in [held : BOOLEAN, closed : BOOLEAN, forgotten : BOOLEAN], r.held
      PROVE  r \in [held : {TRUE}, closed : BOOLEAN, forgotten : BOOLEAN]
  BY <1>2
<1>3. ASSUME r \in Reservation
      PROVE  /\ r \in [held : BOOLEAN, closed : BOOLEAN, forgotten : BOOLEAN]
             /\ ~r.held => ~r.closed /\ ~r.forgotten
  <2>1. CASE r = NoClaim
    BY <2>1 DEF NoClaim
  <2>2. CASE r # NoClaim
    BY <1>3, <2>2 DEF Reservation
  <2> QED
    BY <2>1, <2>2
<1> QED
  BY <1>1, <1>2, <1>3 DEF Reservation

\* What Persist writes is one of the registry writes, and its task goes on.
LEMMA PersistWrites ==
    ASSUME TypeOK, LaunchShape, EndShape, WriterShape, NEW a \in Actors, Persist(a)
    PROVE  /\ pc' = [pc EXCEPT ![a] = Written(a)]
           /\ \/ a \in Launches /\ pc[a] = "register" /\ Written(a) = "bind"
              \/ pc[a] = "unschedule" /\ victim[a] # None /\ Written(a) = "kill"
              \/ a \in Ends /\ pc[a] = "unschedule" /\ victim[a] = None /\ Written(a) = "done"
              \/ a \in Ends /\ pc[a] = "unregister" /\ Written(a) = "done"
              \/ a \in Launches /\ pc[a] = "unregister" /\ Written(a) = "ending"
              \/ a \in Launches /\ pc[a] = "note" /\ Written(a) = "failed"
              \/ a \in Launches /\ pc[a] = "park" /\ Written(a) = "done"
<1>1. pc' = [pc EXCEPT ![a] = Written(a)] /\ writer = a
  BY DEF Persist
<1>2. pc[a] \in {"register", "unschedule", "unregister", "note", "park"}
  BY <1>1, ActorsAssumption DEF WriterShape, Actors
<1>3. a \in Ends => pc[a] \in {"unschedule", "unregister"}
  BY <1>2 DEF EndShape
<1>4. a \in Launches /\ pc[a] = "unschedule" => victim[a] # None
  BY ActorsAssumption DEF LaunchShape
<1>5. a \in Ends => a \notin Launches
  BY ActorsAssumption
<1> QED
  BY <1>1, <1>2, <1>3, <1>4, <1>5 DEF Written, Actors

\* An end that finds a claim marks it closed, and forgotten for a forget.
LEMMA MarkFields ==
    ASSUME TypeMaps, NEW f \in BOOLEAN
    PROVE  /\ Mark(f).held = reserved.held /\ Mark(f).closed
           /\ Mark(f).forgotten = (reserved.forgotten \/ f)
<1> DEFINE half == [reserved EXCEPT !.closed = TRUE]
<1>1. /\ half \in [held : BOOLEAN, closed : BOOLEAN, forgotten : BOOLEAN]
      /\ half.held = reserved.held /\ half.closed /\ half.forgotten = reserved.forgotten
  <2> reserved \in [held : BOOLEAN, closed : BOOLEAN, forgotten : BOOLEAN]
    BY ClaimFields DEF TypeMaps
  <2> QED
    OBVIOUS
<1>2. Mark(f) = [half EXCEPT !.forgotten = half.forgotten \/ f]
  BY <1>1 DEF Mark
<1> HIDE DEF half
<1> QED
  BY <1>1, <1>2

\* What a forget or close does to the claim: at most mark it.
LEMMA EndMarks ==
    ASSUME TypeOK, NEW e \in Ends, EndTarget(e)
    PROVE  /\ reserved'.held = reserved.held
           /\ reserved' # reserved => live = None /\ reserved.held /\ reserved'.closed
           /\ reserved.closed => reserved'.closed
           /\ reserved.forgotten => reserved'.forgotten
           /\ reserved'.forgotten => reserved.forgotten \/ (kind'[e] = "forget" /\ reserved'.closed)
           /\ live = None /\ reserved.held
                => reserved'.closed /\ (kind'[e] = "forget" => reserved'.forgotten)
<1>1. PICK k \in {"close", "forget"} :
        /\ kind' = [kind EXCEPT ![e] = k]
        /\ \/ reserved' = reserved /\ ~(live = None /\ reserved.held)
           \/ live = None /\ reserved.held /\ reserved' = Mark(k = "forget")
  BY DEF EndTarget
<1>2. kind'[e] = k
  BY <1>1 DEF TypeOK, TypeTasks, Actors
<1>3. CASE k = "close"
  <2>1. Mark(FALSE).held = reserved.held /\ Mark(FALSE).closed
        /\ Mark(FALSE).forgotten = (reserved.forgotten \/ FALSE)
    BY MarkFields DEF TypeOK
  <2>2. \/ reserved' = reserved /\ ~(live = None /\ reserved.held)
        \/ live = None /\ reserved.held /\ reserved' = Mark(FALSE)
    BY <1>1, <1>3
  <2>3. reserved.forgotten \in BOOLEAN
    BY ClaimFields DEF TypeOK, TypeMaps
  <2> QED
    BY <1>2, <1>3, <2>1, <2>2, <2>3
<1>4. CASE k = "forget"
  <2>1. Mark(TRUE).held = reserved.held /\ Mark(TRUE).closed
        /\ Mark(TRUE).forgotten = (reserved.forgotten \/ TRUE)
    BY MarkFields DEF TypeOK
  <2>2. \/ reserved' = reserved /\ ~(live = None /\ reserved.held)
        \/ live = None /\ reserved.held /\ reserved' = Mark(TRUE)
    BY <1>1, <1>4
  <2> QED
    BY <1>2, <1>4, <2>1, <2>2
<1> QED
  BY <1>3, <1>4

\* Every step keeps the daemon's maps well typed.
LEMMA TypeMapsStep ==
    ASSUME TypeOK, LaunchShape, EndShape, WriterShape, [Next]_vars
    PROVE  TypeMaps'
<1> USE DEF daemonVars, regVars, taskVars, subVars, histVars
<1>1. ASSUME NEW l \in Launches,
             ReadParked(l) \/ Spawn(l) \/ ConfigFails(l) \/ Reap(l) \/ Connect(l) \/
                Abort(l) \/ Register(l) \/ Restore(l) \/ NoteFailure(l) \/ Park(l) \/
                Die(l)
      PROVE  TypeMaps'
  BY <1>1 DEF ReadParked, Husk, Spawn, ConfigFails, Reap, Killed, Connect, Abort,
     Register, Write, Registered, Restore, ParkedBy, NoteFailure, Park, Die, TypeOK,
     TypeMaps, TypeRegistry, TypeTasks, Reservation, NoClaim
<1>2. ASSUME NEW a \in Actors,
             Unschedule(a) \/ Kill(a) \/ Unregister(a) \/ Persist(a)
      PROVE  TypeMaps'
  BY <1>2 DEF Unschedule, Write, Unscheduled, Kill, Killed, Unregister, NoEntry,
     Persist, Written, TypeOK, TypeMaps, TypeRegistry, TypeTasks, Reservation, NoClaim
<1>3. ASSUME NEW l \in Launches, Adopt(l) PROVE TypeMaps'
  BY <1>3 DEF Adopt, Preflight, ClaimFree, Husk, AfterError, Addressable, TypeOK,
     TypeMaps, TypeRegistry, TypeTasks, Reservation, NoClaim
<1>4. ASSUME NEW l \in Launches, Resume(l) PROVE TypeMaps'
  BY <1>4 DEF Resume, Preflight, ClaimFree, Husk, AfterError, TypeOK, TypeMaps,
     TypeRegistry, TypeTasks, Reservation, NoClaim
<1>5. ASSUME NEW l \in Launches, GoLive(l) PROVE TypeMaps'
  BY <1>5 DEF GoLive, Killed, TypeOK, TypeMaps, TypeRegistry, TypeTasks, Reservation,
     NoClaim
<1>6. ASSUME NEW l \in Launches, Release(l) PROVE TypeMaps'
  BY <1>6 DEF Release, TypeOK, TypeMaps, TypeRegistry, TypeTasks, Reservation, NoClaim
<1>7. ASSUME NEW l \in Launches, Start(l) PROVE TypeMaps'
  BY <1>7 DEF Start, StartRefused, TypeOK, TypeMaps, TypeRegistry, TypeTasks,
     Reservation, NoClaim
<1>8. ASSUME NEW l \in Launches, Failing(l) PROVE TypeMaps'
  BY <1>8 DEF Failing, DropsClaim, AfterError, TypeOK, TypeMaps, TypeRegistry,
     TypeTasks, Reservation, NoClaim
<1>9. ASSUME NEW e \in Ends, EndTarget(e) PROVE TypeMaps'
  <2>1. live' = None \/ live' = live
    BY <1>9 DEF EndTarget
  <2>2. reserved' = reserved \/ \E f \in BOOLEAN : reserved.held /\ reserved' = Mark(f)
    BY <1>9 DEF EndTarget
  <2> QED
    BY <1>9, <2>1, <2>2 DEF EndTarget, Mark, TypeOK, TypeMaps, Reservation, NoClaim
<1>10. CASE ResumeMarked
  BY <1>10 DEF ResumeMarked, TypeOK, TypeMaps, TypeRegistry, TypeTasks, Reservation,
     NoClaim
<1>11. CASE Serve
  BY <1>11 DEF Serve, TypeOK, TypeMaps, TypeRegistry, TypeTasks, Reservation, NoClaim
<1>12. CASE Crash
  BY <1>12 DEF Crash, TypeOK, TypeMaps, TypeRegistry, TypeTasks, Reservation, NoClaim
<1>13. CASE UNCHANGED vars
  BY <1>13 DEF vars, TypeOK, TypeMaps, TypeRegistry, TypeTasks, Reservation, NoClaim
<1> QED
  BY <1>1, <1>2, <1>3, <1>4, <1>5, <1>6, <1>7, <1>8, <1>9, <1>10, <1>11, <1>12, <1>13
     DEF Next, LaunchStep, EndStep

\* Every step keeps the registry well typed.
LEMMA TypeRegistryStep ==
    ASSUME TypeOK, LaunchShape, EndShape, WriterShape, [Next]_vars
    PROVE  TypeRegistry'
<1> USE DEF daemonVars, regVars, taskVars, subVars, histVars
<1>1. ASSUME NEW l \in Launches,
             ReadParked(l) \/ Spawn(l) \/ ConfigFails(l) \/ Adopt(l) \/ Resume(l) \/
                Reap(l) \/ Connect(l) \/ Abort(l) \/ GoLive(l) \/ Release(l) \/ Start(l)
                \/ Failing(l) \/ Die(l)
      PROVE  TypeRegistry'
  BY <1>1, EntryTypes DEF ReadParked, Husk, Spawn, ConfigFails, Adopt, Preflight,
     ClaimFree, AfterError, Addressable, Resume, Reap, Killed, Connect, Abort, GoLive,
     Release, Start, StartRefused, Failing, DropsClaim, Die, TypeOK, TypeRegistry,
     TypeTasks, TypeSubs, Actors
<1>2. ASSUME NEW a \in Actors, Kill(a) PROVE TypeRegistry'
  BY <1>2, EntryTypes DEF Kill, Killed, TypeOK, TypeRegistry, TypeTasks, TypeSubs,
     Actors
<1>3. ASSUME NEW e \in Ends, EndTarget(e) PROVE TypeRegistry'
  BY <1>3, EntryTypes DEF EndTarget, Mark, Claiming, Addressable, TypeOK, TypeRegistry,
     TypeTasks, TypeSubs, Actors
<1>4. ASSUME NEW l \in Launches, Register(l) PROVE TypeRegistry'
  BY <1>4, EntryTypes DEF Register, Write, TypeOK, TypeRegistry, TypeTasks, TypeSubs,
     Actors
<1>5. ASSUME NEW l \in Launches, Restore(l) PROVE TypeRegistry'
  BY <1>5, EntryTypes DEF Restore, Write, TypeOK, TypeRegistry, TypeTasks, TypeSubs,
     Actors
<1>6. ASSUME NEW l \in Launches, NoteFailure(l) PROVE TypeRegistry'
  BY <1>6, EntryTypes DEF NoteFailure, Write, TypeOK, TypeRegistry, TypeTasks, TypeSubs,
     Actors
<1>7. ASSUME NEW l \in Launches, Park(l) PROVE TypeRegistry'
  BY <1>7, EntryTypes DEF Park, Write, TypeOK, TypeRegistry, TypeTasks, TypeSubs, Actors
<1>8. ASSUME NEW a \in Actors, Unschedule(a) PROVE TypeRegistry'
  BY <1>8, EntryTypes DEF Unschedule, Write, TypeOK, TypeRegistry, TypeTasks, TypeSubs,
     Actors
<1>9. ASSUME NEW a \in Actors, Unregister(a) PROVE TypeRegistry'
  BY <1>9, EntryTypes DEF Unregister, Write, TypeOK, TypeRegistry, TypeTasks, TypeSubs,
     Actors
<1>10. ASSUME NEW a \in Actors, Persist(a) PROVE TypeRegistry'
  BY <1>10, EntryTypes DEF Persist, Written, TypeOK, TypeRegistry, TypeTasks, TypeSubs,
     Actors
<1>11. CASE Crash
  BY <1>11, EntryTypes DEF Crash, TypeOK, TypeRegistry, TypeTasks, TypeSubs, Actors
<1>12. CASE ResumeMarked \/ Serve \/ UNCHANGED vars
  BY <1>12, EntryTypes DEF ResumeMarked, Serve, vars, TypeOK, TypeRegistry, TypeTasks,
     TypeSubs, Actors
<1> QED
  BY <1>1, <1>2, <1>3, <1>4, <1>5, <1>6, <1>7, <1>8, <1>9, <1>10, <1>11, <1>12 DEF Next,
     LaunchStep, EndStep

\* Every step keeps the tasks well typed.
LEMMA TypeTasksStep ==
    ASSUME TypeOK, LaunchShape, EndShape, WriterShape, [Next]_vars
    PROVE  TypeTasks'
<1> USE DEF daemonVars, regVars, taskVars, subVars, histVars
<1>1. ASSUME NEW l \in Launches, NoteFailure(l) \/ Die(l) PROVE TypeTasks'
  BY <1>1 DEF NoteFailure, Write, Die, TypeOK, TypeMaps, TypeTasks, Actors, PCs, Kinds
<1>2. ASSUME NEW a \in Actors, Unschedule(a) \/ Unregister(a) PROVE TypeTasks'
  BY <1>2 DEF Unschedule, Write, Unscheduled, Unregister, NoEntry, TypeOK, TypeMaps,
     TypeTasks, Actors, PCs, Kinds
<1>3. ASSUME NEW l \in Launches, ReadParked(l) PROVE TypeTasks'
  BY <1>3 DEF ReadParked, Husk, TypeOK, TypeMaps, TypeTasks, Actors, PCs, Kinds
<1>4. ASSUME NEW l \in Launches, Spawn(l) PROVE TypeTasks'
  BY <1>4 DEF Spawn, TypeOK, TypeMaps, TypeTasks, Actors, PCs, Kinds
<1>5. ASSUME NEW l \in Launches, ConfigFails(l) PROVE TypeTasks'
  BY <1>5 DEF ConfigFails, TypeOK, TypeMaps, TypeTasks, Actors, PCs, Kinds
<1>6. ASSUME NEW l \in Launches, Adopt(l) PROVE TypeTasks'
  BY <1>6 DEF Adopt, Preflight, ClaimFree, Husk, AfterError, Addressable, TypeOK,
     TypeMaps, TypeTasks, Actors, PCs, Kinds
<1>7. ASSUME NEW l \in Launches, Resume(l) PROVE TypeTasks'
  BY <1>7 DEF Resume, Preflight, ClaimFree, Husk, AfterError, TypeOK, TypeMaps,
     TypeTasks, Actors, PCs, Kinds
<1>8. ASSUME NEW l \in Launches, Reap(l) PROVE TypeTasks'
  BY <1>8 DEF Reap, Killed, TypeOK, TypeMaps, TypeTasks, Actors, PCs, Kinds
<1>9. ASSUME NEW l \in Launches, Connect(l) PROVE TypeTasks'
  BY <1>9 DEF Connect, TypeOK, TypeMaps, TypeTasks, Actors, PCs, Kinds
<1>10. ASSUME NEW l \in Launches, Abort(l) PROVE TypeTasks'
  BY <1>10 DEF Abort, Killed, TypeOK, TypeMaps, TypeTasks, Actors, PCs, Kinds
<1>11. ASSUME NEW l \in Launches, Register(l) PROVE TypeTasks'
  BY <1>11 DEF Register, Write, Registered, TypeOK, TypeMaps, TypeTasks, Actors, PCs,
     Kinds
<1>12. ASSUME NEW l \in Launches, GoLive(l) PROVE TypeTasks'
  BY <1>12 DEF GoLive, Killed, TypeOK, TypeMaps, TypeTasks, Actors, PCs, Kinds
<1>13. ASSUME NEW l \in Launches, Release(l) PROVE TypeTasks'
  <2> DEFINE marked == reserved.closed /\ live # None
             after  == pc'[l]
  <2>1. after \in {"panicked", "start", "unschedule", "unregister", "ending"}
        /\ pc' = [pc EXCEPT ![l] = after]
    BY <1>13 DEF Release, TypeOK, TypeTasks, Actors
  <2>2. drops' = [drops EXCEPT ![l] = reserved.forgotten] /\ reserved.forgotten \in BOOLEAN
    BY <1>13, ClaimFields DEF Release, TypeOK, TypeMaps
  <2>3. victim' \in [Actors -> Launches \cup {None}] /\ kind' = kind
    BY <1>13 DEF Release, TypeOK, TypeTasks, Actors
  <2>4. pc' \in [Actors -> PCs]
    BY <2>1 DEF TypeOK, TypeTasks, PCs
  <2> QED
    BY <2>2, <2>3, <2>4 DEF TypeOK, TypeTasks
<1>14. ASSUME NEW l \in Launches, Start(l) PROVE TypeTasks'
  BY <1>14 DEF Start, StartRefused, TypeOK, TypeMaps, TypeTasks, Actors, PCs, Kinds
<1>15. ASSUME NEW l \in Launches, Failing(l) PROVE TypeTasks'
  BY <1>15 DEF Failing, DropsClaim, AfterError, TypeOK, TypeMaps, TypeTasks, Actors,
     PCs, Kinds
<1>16. ASSUME NEW l \in Launches, Restore(l) PROVE TypeTasks'
  BY <1>16 DEF Restore, Write, ParkedBy, TypeOK, TypeMaps, TypeTasks, Actors, PCs, Kinds
<1>17. ASSUME NEW l \in Launches, Park(l) PROVE TypeTasks'
  BY <1>17 DEF Park, Write, ParkedBy, TypeOK, TypeMaps, TypeTasks, Actors, PCs, Kinds
<1>18. ASSUME NEW e \in Ends, EndTarget(e) PROVE TypeTasks'
  BY <1>18 DEF EndTarget, Mark, Claiming, Addressable, TypeOK, TypeMaps, TypeTasks,
     Actors, PCs, Kinds
<1>19. ASSUME NEW a \in Actors, Kill(a) PROVE TypeTasks'
  BY <1>19 DEF Kill, Killed, TypeOK, TypeMaps, TypeTasks, Actors, PCs, Kinds
<1>20. ASSUME NEW a \in Actors, Persist(a) PROVE TypeTasks'
  <2>1. pc' \in [Actors -> PCs]
    BY <1>20, PersistWrites DEF TypeOK, TypeTasks, PCs
  <2> QED
    BY <1>20, <2>1 DEF Persist, TypeOK, TypeTasks
<1>21. CASE ResumeMarked
  BY <1>21 DEF ResumeMarked, TypeOK, TypeMaps, TypeTasks, Actors, PCs, Kinds
<1>22. CASE Crash
  BY <1>22 DEF Crash, TypeOK, TypeMaps, TypeTasks, Actors, PCs, Kinds
<1>23. CASE Serve \/ UNCHANGED vars
  BY <1>23 DEF Serve, vars, TypeOK, TypeMaps, TypeTasks, Actors, PCs, Kinds
<1> QED
  BY <1>1, <1>2, <1>3, <1>4, <1>5, <1>6, <1>7, <1>8, <1>9, <1>10, <1>11, <1>12, <1>13,
     <1>14, <1>15, <1>16, <1>17, <1>18, <1>19, <1>20, <1>21, <1>22, <1>23 DEF Next,
     LaunchStep, EndStep

\* Every step keeps the Subagents well typed.
LEMMA TypeSubsStep ==
    ASSUME TypeOK, LaunchShape, EndShape, WriterShape, [Next]_vars
    PROVE  TypeSubs'
<1> USE DEF daemonVars, regVars, taskVars, subVars, histVars
<1>1. ASSUME NEW l \in Launches,
             ReadParked(l) \/ Spawn(l) \/ ConfigFails(l) \/ Adopt(l) \/ Resume(l) \/
                Register(l) \/ Start(l) \/ Failing(l) \/ NoteFailure(l)
      PROVE  TypeSubs'
  BY <1>1 DEF ReadParked, Husk, Spawn, ConfigFails, Adopt, Preflight, ClaimFree,
     AfterError, Addressable, Resume, Register, Write, Registered, Start, StartRefused,
     Failing, DropsClaim, NoteFailure, TypeOK, TypeMaps, TypeTasks, TypeSubs, Actors
<1>2. ASSUME NEW a \in Actors,
             Unschedule(a) \/ Unregister(a) \/ Persist(a)
      PROVE  TypeSubs'
  BY <1>2 DEF Unschedule, Write, Unscheduled, Unregister, NoEntry, Persist, Written,
     TypeOK, TypeMaps, TypeTasks, TypeSubs, Actors
<1>3. ASSUME NEW l \in Launches, Reap(l) PROVE TypeSubs'
  BY <1>3 DEF Reap, Killed, TypeOK, TypeMaps, TypeTasks, TypeSubs, Actors, LaunchShape
<1>4. ASSUME NEW l \in Launches, Connect(l) PROVE TypeSubs'
  BY <1>4 DEF Connect, TypeOK, TypeMaps, TypeTasks, TypeSubs, Actors
<1>5. ASSUME NEW l \in Launches, Abort(l) PROVE TypeSubs'
  BY <1>5 DEF Abort, Killed, TypeOK, TypeMaps, TypeTasks, TypeSubs, Actors
<1>6. ASSUME NEW l \in Launches, GoLive(l) PROVE TypeSubs'
  BY <1>6 DEF GoLive, Killed, TypeOK, TypeMaps, TypeTasks, TypeSubs, Actors
<1>7. ASSUME NEW l \in Launches, Release(l) PROVE TypeSubs'
  BY <1>7 DEF Release, TypeOK, TypeMaps, TypeTasks, TypeSubs, Actors
<1>8. ASSUME NEW l \in Launches, Restore(l) PROVE TypeSubs'
  BY <1>8 DEF Restore, Write, ParkedBy, TypeOK, TypeMaps, TypeTasks, TypeSubs, Actors
<1>9. ASSUME NEW l \in Launches, Park(l) PROVE TypeSubs'
  BY <1>9 DEF Park, Write, ParkedBy, TypeOK, TypeMaps, TypeTasks, TypeSubs, Actors
<1>10. ASSUME NEW l \in Launches, Die(l) PROVE TypeSubs'
  BY <1>10 DEF Die, TypeOK, TypeMaps, TypeTasks, TypeSubs, Actors
<1>11. ASSUME NEW e \in Ends, EndTarget(e) PROVE TypeSubs'
  BY <1>11 DEF EndTarget, Mark, Claiming, Addressable, TypeOK, TypeMaps, TypeTasks,
     TypeSubs, Actors
<1>12. ASSUME NEW a \in Actors, Kill(a) PROVE TypeSubs'
  BY <1>12 DEF Kill, Killed, TypeOK, TypeMaps, TypeTasks, TypeSubs, Actors, LaunchShape,
     EndShape
<1>13. CASE Crash
  BY <1>13 DEF Crash, TypeOK, TypeMaps, TypeTasks, TypeSubs, Actors
<1>14. CASE ResumeMarked \/ Serve \/ UNCHANGED vars
  BY <1>14 DEF ResumeMarked, Serve, vars, TypeOK, TypeMaps, TypeTasks, TypeSubs, Actors
<1> QED
  BY <1>1, <1>2, <1>3, <1>4, <1>5, <1>6, <1>7, <1>8, <1>9, <1>10, <1>11, <1>12, <1>13,
     <1>14 DEF Next, LaunchStep, EndStep

\* Every step keeps the history well typed.
LEMMA TypeHistStep ==
    ASSUME TypeOK, LaunchShape, EndShape, WriterShape, [Next]_vars
    PROVE  TypeHist'
<1> USE DEF daemonVars, regVars, taskVars, subVars, histVars
<1>1. ASSUME NEW l \in Launches,
             ReadParked(l) \/ Spawn(l) \/ ConfigFails(l) \/ Reap(l) \/ Connect(l) \/
                Abort(l) \/ Register(l) \/ GoLive(l) \/ Release(l) \/ Start(l) \/
                Failing(l) \/ Restore(l) \/ NoteFailure(l) \/ Park(l) \/ Die(l)
      PROVE  TypeHist'
  BY <1>1 DEF ReadParked, Husk, Spawn, ConfigFails, Reap, Killed, Connect, Abort,
     Register, Write, Registered, GoLive, Release, Start, StartRefused, Failing,
     DropsClaim, AfterError, Restore, ParkedBy, NoteFailure, Park, Die, TypeOK,
     TypeMaps, TypeTasks, TypeHist, Actors
<1>2. ASSUME NEW a \in Actors, Unschedule(a) \/ Unregister(a) PROVE TypeHist'
  BY <1>2 DEF Unschedule, Write, Unscheduled, Unregister, NoEntry, TypeOK, TypeMaps,
     TypeTasks, TypeHist, Actors
<1>3. ASSUME NEW l \in Launches, Adopt(l) PROVE TypeHist'
  BY <1>3 DEF Adopt, Preflight, ClaimFree, Husk, AfterError, Addressable, TypeOK,
     TypeMaps, TypeTasks, TypeHist, Actors
<1>4. ASSUME NEW l \in Launches, Resume(l) PROVE TypeHist'
  BY <1>4 DEF Resume, Preflight, ClaimFree, Husk, AfterError, TypeOK, TypeMaps,
     TypeTasks, TypeHist, Actors
<1>5. ASSUME NEW e \in Ends, EndTarget(e) PROVE TypeHist'
  BY <1>5 DEF EndTarget, Mark, Claiming, Addressable, TypeOK, TypeMaps, TypeTasks,
     TypeHist, Actors
<1>6. ASSUME NEW a \in Actors, Kill(a) PROVE TypeHist'
  BY <1>6 DEF Kill, Killed, TypeOK, TypeMaps, TypeTasks, TypeHist, Actors
<1>7. ASSUME NEW a \in Actors, Persist(a) PROVE TypeHist'
  BY <1>7 DEF Persist, Written, TypeOK, TypeMaps, TypeTasks, TypeHist, Actors
<1>8. CASE Crash
  BY <1>8 DEF Crash, TypeOK, TypeMaps, TypeTasks, TypeHist, Actors
<1>9. CASE ResumeMarked \/ Serve \/ UNCHANGED vars
  BY <1>9 DEF ResumeMarked, Serve, vars, TypeOK, TypeMaps, TypeTasks, TypeHist, Actors
<1> QED
  BY <1>1, <1>2, <1>3, <1>4, <1>5, <1>6, <1>7, <1>8, <1>9 DEF Next, LaunchStep, EndStep

\* Every step keeps every variable well typed.
LEMMA TypeStep ==
    ASSUME TypeOK, LaunchShape, EndShape, WriterShape, [Next]_vars PROVE TypeOK'
  BY TypeMapsStep, TypeRegistryStep, TypeTasksStep, TypeSubsStep, TypeHistStep DEF TypeOK

\* A launch goes only where its kind goes.
LEMMA LaunchShapeStep ==
    ASSUME TypeOK, LaunchShape, EndShape, WriterShape, [Next]_vars
    PROVE  LaunchShape'
<1> USE DEF daemonVars, regVars, taskVars, subVars, histVars
<1>1. ASSUME NEW l \in Launches, NoteFailure(l) \/ Die(l) PROVE LaunchShape'
  BY <1>1, ActorsAssumption DEF NoteFailure, Write, Die, TypeOK, TypeTasks, Actors,
     TypeMaps, LaunchShape, Awaited
<1>2. ASSUME NEW a \in Actors, Unschedule(a) \/ Unregister(a) PROVE LaunchShape'
  BY <1>2, ActorsAssumption DEF Unschedule, Write, Unscheduled, Unregister, NoEntry,
     TypeOK, TypeTasks, Actors, TypeMaps, LaunchShape, Awaited
<1>3. ASSUME NEW l \in Launches, ReadParked(l) PROVE LaunchShape'
  BY <1>3, ActorsAssumption DEF ReadParked, Husk, TypeOK, TypeTasks, Actors, TypeMaps,
     LaunchShape, Awaited
<1>4. ASSUME NEW l \in Launches, Spawn(l) PROVE LaunchShape'
  BY <1>4, ActorsAssumption DEF Spawn, TypeOK, TypeTasks, Actors, TypeMaps, LaunchShape,
     Awaited
<1>5. ASSUME NEW l \in Launches, ConfigFails(l) PROVE LaunchShape'
  BY <1>5, ActorsAssumption DEF ConfigFails, TypeOK, TypeTasks, Actors, TypeMaps,
     LaunchShape, Awaited
<1>6. ASSUME NEW l \in Launches, Adopt(l) PROVE LaunchShape'
  <2>1. CASE ClaimFree
    BY <1>6, <2>1, ActorsAssumption DEF Adopt, Preflight, ClaimFree, TypeOK, TypeTasks, TypeMaps, Actors, LaunchShape, Awaited
  <2>2. CASE ~ClaimFree
    BY <1>6, <2>2, ActorsAssumption DEF Adopt, Preflight, AfterError, TypeOK, TypeTasks, TypeMaps, Actors, LaunchShape, Awaited
  <2> QED
    BY <2>1, <2>2
<1>7. ASSUME NEW l \in Launches, Resume(l) PROVE LaunchShape'
  BY <1>7, ActorsAssumption DEF Resume, Preflight, ClaimFree, Husk, AfterError, TypeOK,
     TypeTasks, Actors, TypeMaps, LaunchShape, Awaited
<1>8. ASSUME NEW l \in Launches, Reap(l) PROVE LaunchShape'
  BY <1>8, ActorsAssumption DEF Reap, Killed, TypeOK, TypeTasks, Actors, TypeMaps,
     LaunchShape, Awaited
<1>9. ASSUME NEW l \in Launches, Connect(l) PROVE LaunchShape'
  BY <1>9, ActorsAssumption DEF Connect, TypeOK, TypeTasks, Actors, TypeMaps,
     LaunchShape, Awaited
<1>10. ASSUME NEW l \in Launches, Abort(l) PROVE LaunchShape'
  BY <1>10, ActorsAssumption DEF Abort, Killed, TypeOK, TypeTasks, Actors, TypeMaps,
     LaunchShape, Awaited
<1>11. ASSUME NEW l \in Launches, Register(l) PROVE LaunchShape'
  BY <1>11, ActorsAssumption DEF Register, Write, Registered, TypeOK, TypeTasks, Actors,
     TypeMaps, LaunchShape, Awaited
<1>12. ASSUME NEW l \in Launches, GoLive(l) PROVE LaunchShape'
  BY <1>12, ActorsAssumption DEF GoLive, Killed, TypeOK, TypeTasks, Actors, TypeMaps,
     LaunchShape, Awaited
<1>13. ASSUME NEW l \in Launches, Release(l) PROVE LaunchShape'
  BY <1>13, ActorsAssumption DEF Release, TypeOK, TypeTasks, Actors, TypeMaps,
     LaunchShape, Awaited
<1>14. ASSUME NEW l \in Launches, Start(l) PROVE LaunchShape'
  BY <1>14, ActorsAssumption DEF Start, StartRefused, TypeOK, TypeTasks, Actors,
     TypeMaps, LaunchShape, Awaited
<1>15. ASSUME NEW l \in Launches, Failing(l) PROVE LaunchShape'
  BY <1>15, ActorsAssumption DEF Failing, DropsClaim, AfterError, TypeOK, TypeTasks,
     Actors, TypeMaps, LaunchShape, Awaited
<1>16. ASSUME NEW l \in Launches, Restore(l) PROVE LaunchShape'
  BY <1>16, ActorsAssumption DEF Restore, Write, ParkedBy, TypeOK, TypeTasks, Actors,
     TypeMaps, LaunchShape, Awaited
<1>17. ASSUME NEW l \in Launches, Park(l) PROVE LaunchShape'
  BY <1>17, ActorsAssumption DEF Park, Write, ParkedBy, TypeOK, TypeTasks, Actors,
     TypeMaps, LaunchShape, Awaited
<1>18. ASSUME NEW e \in Ends, EndTarget(e) PROVE LaunchShape'
  BY <1>18, ActorsAssumption DEF EndTarget, Mark, Claiming, Addressable, TypeOK,
     TypeTasks, Actors, TypeMaps, LaunchShape, Awaited
<1>19. ASSUME NEW a \in Actors, Kill(a) PROVE LaunchShape'
  BY <1>19, ActorsAssumption DEF Kill, Killed, TypeOK, TypeTasks, Actors, TypeMaps,
     LaunchShape, Awaited
<1>20. ASSUME NEW a \in Actors, Persist(a) PROVE LaunchShape'
  <2>1. \A l \in Launches : pc'[l] = pc[l] \/ l = a
    BY <1>20, PersistWrites DEF TypeOK, TypeTasks, Actors
  <2>2. a \in Launches => pc'[a] = Written(a)
    BY <1>20, PersistWrites DEF TypeOK, TypeTasks, Actors
  <2>3. kind' = kind /\ victim' = victim
    BY <1>20 DEF Persist
  <2> QED
    BY <1>20, <2>1, <2>2, <2>3, PersistWrites DEF LaunchShape, Awaited
<1>21. CASE ResumeMarked
  BY <1>21, ActorsAssumption DEF ResumeMarked, TypeOK, TypeTasks, Actors, TypeMaps,
     LaunchShape, Awaited
<1>22. CASE Crash
  BY <1>22, ActorsAssumption DEF Crash, TypeOK, TypeTasks, Actors, TypeMaps,
     LaunchShape, Awaited
<1>23. CASE Serve \/ UNCHANGED vars
  BY <1>23, ActorsAssumption DEF Serve, vars, TypeOK, TypeTasks, Actors, TypeMaps,
     LaunchShape, Awaited
<1> QED
  BY <1>1, <1>2, <1>3, <1>4, <1>5, <1>6, <1>7, <1>8, <1>9, <1>10, <1>11, <1>12, <1>13,
     <1>14, <1>15, <1>16, <1>17, <1>18, <1>19, <1>20, <1>21, <1>22, <1>23 DEF Next,
     LaunchStep, EndStep

\* A close or forget goes only where its kind goes.
LEMMA EndShapeStep ==
    ASSUME TypeOK, LaunchShape, EndShape, WriterShape, [Next]_vars
    PROVE  EndShape'
<1> USE DEF daemonVars, regVars, taskVars, subVars, histVars
<1>1. ASSUME NEW l \in Launches, NoteFailure(l) \/ Die(l) PROVE EndShape'
  BY <1>1, ActorsAssumption DEF NoteFailure, Write, Die, TypeOK, TypeTasks, Actors,
     TypeMaps, EndShape
<1>2. ASSUME NEW a \in Actors, Unschedule(a) \/ Unregister(a) PROVE EndShape'
  BY <1>2, ActorsAssumption DEF Unschedule, Write, Unscheduled, Unregister, NoEntry,
     TypeOK, TypeTasks, Actors, TypeMaps, EndShape
<1>3. ASSUME NEW l \in Launches, ReadParked(l) PROVE EndShape'
  BY <1>3, ActorsAssumption DEF ReadParked, Husk, TypeOK, TypeTasks, Actors, TypeMaps,
     EndShape
<1>4. ASSUME NEW l \in Launches, Spawn(l) PROVE EndShape'
  BY <1>4, ActorsAssumption DEF Spawn, TypeOK, TypeTasks, Actors, TypeMaps, EndShape
<1>5. ASSUME NEW l \in Launches, ConfigFails(l) PROVE EndShape'
  BY <1>5, ActorsAssumption DEF ConfigFails, TypeOK, TypeTasks, Actors, TypeMaps,
     EndShape
<1>6. ASSUME NEW l \in Launches, Adopt(l) PROVE EndShape'
  BY <1>6, ActorsAssumption DEF Adopt, Preflight, ClaimFree, Husk, AfterError,
     Addressable, TypeOK, TypeTasks, Actors, TypeMaps, EndShape
<1>7. ASSUME NEW l \in Launches, Resume(l) PROVE EndShape'
  BY <1>7, ActorsAssumption DEF Resume, Preflight, ClaimFree, Husk, AfterError, TypeOK,
     TypeTasks, Actors, TypeMaps, EndShape
<1>8. ASSUME NEW l \in Launches, Reap(l) PROVE EndShape'
  BY <1>8, ActorsAssumption DEF Reap, Killed, TypeOK, TypeTasks, Actors, TypeMaps,
     EndShape
<1>9. ASSUME NEW l \in Launches, Connect(l) PROVE EndShape'
  BY <1>9, ActorsAssumption DEF Connect, TypeOK, TypeTasks, Actors, TypeMaps, EndShape
<1>10. ASSUME NEW l \in Launches, Abort(l) PROVE EndShape'
  BY <1>10, ActorsAssumption DEF Abort, Killed, TypeOK, TypeTasks, Actors, TypeMaps,
     EndShape
<1>11. ASSUME NEW l \in Launches, Register(l) PROVE EndShape'
  BY <1>11, ActorsAssumption DEF Register, Write, Registered, TypeOK, TypeTasks, Actors,
     TypeMaps, EndShape
<1>12. ASSUME NEW l \in Launches, GoLive(l) PROVE EndShape'
  BY <1>12, ActorsAssumption DEF GoLive, Killed, TypeOK, TypeTasks, Actors, TypeMaps,
     EndShape
<1>13. ASSUME NEW l \in Launches, Release(l) PROVE EndShape'
  BY <1>13, ActorsAssumption DEF Release, TypeOK, TypeTasks, Actors, TypeMaps, EndShape
<1>14. ASSUME NEW l \in Launches, Start(l) PROVE EndShape'
  BY <1>14, ActorsAssumption DEF Start, StartRefused, TypeOK, TypeTasks, Actors,
     TypeMaps, EndShape
<1>15. ASSUME NEW l \in Launches, Failing(l) PROVE EndShape'
  BY <1>15, ActorsAssumption DEF Failing, DropsClaim, AfterError, TypeOK, TypeTasks,
     Actors, TypeMaps, EndShape
<1>16. ASSUME NEW l \in Launches, Restore(l) PROVE EndShape'
  BY <1>16, ActorsAssumption DEF Restore, Write, ParkedBy, TypeOK, TypeTasks, Actors,
     TypeMaps, EndShape
<1>17. ASSUME NEW l \in Launches, Park(l) PROVE EndShape'
  BY <1>17, ActorsAssumption DEF Park, Write, ParkedBy, TypeOK, TypeTasks, Actors,
     TypeMaps, EndShape
<1>18. ASSUME NEW e \in Ends, EndTarget(e) PROVE EndShape'
  <2>1. PICK k \in {"close", "forget"} :
             /\ kind' = [kind EXCEPT ![e] = k] /\ drops' = [drops EXCEPT ![e] = (k = "forget")]
             /\ pc'[e] \in (IF k = "forget" THEN {"kill", "unregister"}
                                          ELSE {"unschedule", "failed"})
             /\ pc'[e] = "kill" => victim'[e] \in Launches
    BY <1>18 DEF EndTarget, TypeOK, TypeTasks, TypeMaps, Actors
  <2>2. \A d \in Ends \ {e} : pc'[d] = pc[d] /\ victim'[d] = victim[d]
    BY <1>18 DEF EndTarget, TypeOK, TypeTasks, Actors
  <2>3. CASE k = "close"
    BY <2>1, <2>2, <2>3 DEF TypeOK, TypeTasks, Actors, EndShape
  <2>4. CASE k = "forget"
    BY <2>1, <2>2, <2>4 DEF TypeOK, TypeTasks, Actors, EndShape
  <2> QED
    BY <2>3, <2>4
<1>19. ASSUME NEW a \in Actors, Kill(a) PROVE EndShape'
  BY <1>19, ActorsAssumption DEF Kill, Killed, TypeOK, TypeTasks, Actors, TypeMaps,
     EndShape
<1>20. ASSUME NEW a \in Actors, Persist(a) PROVE EndShape'
  <2>1. kind' = kind /\ victim' = victim /\ drops' = drops
    BY <1>20 DEF Persist
  <2>2. ASSUME NEW e \in Ends, e # a
        PROVE  pc'[e] = pc[e]
    BY <1>20, <2>2, PersistWrites DEF TypeOK, TypeTasks, Actors
  <2>3. ASSUME a \in Ends
        PROVE  /\ pc'[a] \in {"kill", "done"} /\ (pc'[a] = "kill" => victim[a] \in Launches)
    BY <1>20, <2>3, PersistWrites, ActorsAssumption DEF TypeOK, TypeTasks, Actors
  <2> QED
    BY <2>1, <2>2, <2>3 DEF EndShape
<1>21. CASE ResumeMarked
  BY <1>21, ActorsAssumption DEF ResumeMarked, TypeOK, TypeTasks, Actors, TypeMaps,
     EndShape
<1>22. CASE Crash
  BY <1>22, ActorsAssumption DEF Crash, TypeOK, TypeTasks, Actors, TypeMaps, EndShape
<1>23. CASE Serve \/ UNCHANGED vars
  BY <1>23, ActorsAssumption DEF Serve, vars, TypeOK, TypeTasks, Actors, TypeMaps,
     EndShape
<1> QED
  BY <1>1, <1>2, <1>3, <1>4, <1>5, <1>6, <1>7, <1>8, <1>9, <1>10, <1>11, <1>12, <1>13,
     <1>14, <1>15, <1>16, <1>17, <1>18, <1>19, <1>20, <1>21, <1>22, <1>23 DEF Next,
     LaunchStep, EndStep

\* The registry's lock is held by a write that is under way.
LEMMA WriterShapeStep ==
    ASSUME TypeOK, LaunchShape, EndShape, WriterShape, [Next]_vars
    PROVE  WriterShape'
<1> USE DEF daemonVars, regVars, taskVars, subVars, histVars
<1>1. ASSUME NEW l \in Launches, Die(l) PROVE WriterShape'
  BY <1>1, ActorsAssumption DEF Die, TypeOK, TypeTasks, Actors, TypeRegistry,
     WriterShape
<1>2. ASSUME NEW l \in Launches, ReadParked(l) PROVE WriterShape'
  BY <1>2, ActorsAssumption DEF ReadParked, Husk, TypeOK, TypeTasks, Actors,
     TypeRegistry, WriterShape
<1>3. ASSUME NEW l \in Launches, Spawn(l) PROVE WriterShape'
  BY <1>3, ActorsAssumption DEF Spawn, TypeOK, TypeTasks, Actors, TypeRegistry,
     WriterShape
<1>4. ASSUME NEW l \in Launches, ConfigFails(l) PROVE WriterShape'
  BY <1>4, ActorsAssumption DEF ConfigFails, TypeOK, TypeTasks, Actors, TypeRegistry,
     WriterShape
<1>5. ASSUME NEW l \in Launches, Adopt(l) PROVE WriterShape'
  BY <1>5, ActorsAssumption DEF Adopt, Preflight, ClaimFree, Husk, AfterError,
     Addressable, TypeOK, TypeTasks, Actors, TypeRegistry, WriterShape
<1>6. ASSUME NEW l \in Launches, Resume(l) PROVE WriterShape'
  BY <1>6, ActorsAssumption DEF Resume, Preflight, ClaimFree, Husk, AfterError, TypeOK,
     TypeTasks, Actors, TypeRegistry, WriterShape
<1>7. ASSUME NEW l \in Launches, Reap(l) PROVE WriterShape'
  BY <1>7, ActorsAssumption DEF Reap, Killed, TypeOK, TypeTasks, Actors, TypeRegistry,
     WriterShape
<1>8. ASSUME NEW l \in Launches, Connect(l) PROVE WriterShape'
  BY <1>8, ActorsAssumption DEF Connect, TypeOK, TypeTasks, Actors, TypeRegistry,
     WriterShape
<1>9. ASSUME NEW l \in Launches, Abort(l) PROVE WriterShape'
  BY <1>9, ActorsAssumption DEF Abort, Killed, TypeOK, TypeTasks, Actors, TypeRegistry,
     WriterShape
<1>10. ASSUME NEW l \in Launches, Register(l) PROVE WriterShape'
  BY <1>10, ActorsAssumption DEF Register, Write, Registered, TypeOK, TypeTasks, Actors,
     TypeRegistry, WriterShape
<1>11. ASSUME NEW l \in Launches, GoLive(l) PROVE WriterShape'
  BY <1>11, ActorsAssumption DEF GoLive, Killed, TypeOK, TypeTasks, Actors,
     TypeRegistry, WriterShape
<1>12. ASSUME NEW l \in Launches, Release(l) PROVE WriterShape'
  BY <1>12, ActorsAssumption DEF Release, TypeOK, TypeTasks, Actors, TypeRegistry,
     WriterShape
<1>13. ASSUME NEW l \in Launches, Start(l) PROVE WriterShape'
  BY <1>13, ActorsAssumption DEF Start, StartRefused, TypeOK, TypeTasks, Actors,
     TypeRegistry, WriterShape
<1>14. ASSUME NEW l \in Launches, Failing(l) PROVE WriterShape'
  BY <1>14, ActorsAssumption DEF Failing, DropsClaim, AfterError, TypeOK, TypeTasks,
     Actors, TypeRegistry, WriterShape
<1>15. ASSUME NEW l \in Launches, Restore(l) PROVE WriterShape'
  BY <1>15, ActorsAssumption DEF Restore, Write, ParkedBy, TypeOK, TypeTasks, Actors,
     TypeRegistry, WriterShape
<1>16. ASSUME NEW l \in Launches, NoteFailure(l) PROVE WriterShape'
  BY <1>16, ActorsAssumption DEF NoteFailure, Write, TypeOK, TypeTasks, Actors,
     TypeRegistry, WriterShape
<1>17. ASSUME NEW l \in Launches, Park(l) PROVE WriterShape'
  BY <1>17, ActorsAssumption DEF Park, Write, ParkedBy, TypeOK, TypeTasks, Actors,
     TypeRegistry, WriterShape
<1>18. ASSUME NEW e \in Ends, EndTarget(e) PROVE WriterShape'
  BY <1>18, ActorsAssumption DEF EndTarget, Mark, Claiming, Addressable, TypeOK,
     TypeTasks, Actors, TypeRegistry, WriterShape
<1>19. ASSUME NEW a \in Actors, Unschedule(a) PROVE WriterShape'
  BY <1>19, ActorsAssumption DEF Unschedule, Write, Unscheduled, TypeOK, TypeTasks,
     Actors, TypeRegistry, WriterShape
<1>20. ASSUME NEW a \in Actors, Kill(a) PROVE WriterShape'
  BY <1>20, ActorsAssumption DEF Kill, Killed, TypeOK, TypeTasks, Actors, TypeRegistry,
     WriterShape
<1>21. ASSUME NEW a \in Actors, Unregister(a) PROVE WriterShape'
  BY <1>21, ActorsAssumption DEF Unregister, Write, NoEntry, TypeOK, TypeTasks, Actors,
     TypeRegistry, WriterShape
<1>22. ASSUME NEW a \in Actors, Persist(a) PROVE WriterShape'
  BY <1>22, ActorsAssumption DEF Persist, Written, TypeOK, TypeTasks, Actors,
     TypeRegistry, WriterShape
<1>23. CASE ResumeMarked
  BY <1>23, ActorsAssumption DEF ResumeMarked, TypeOK, TypeTasks, Actors, TypeRegistry,
     WriterShape
<1>24. CASE Crash
  BY <1>24, ActorsAssumption DEF Crash, TypeOK, TypeTasks, Actors, TypeRegistry,
     WriterShape
<1>25. CASE Serve \/ UNCHANGED vars
  BY <1>25, ActorsAssumption DEF Serve, vars, TypeOK, TypeTasks, Actors, TypeRegistry,
     WriterShape
<1> QED
  BY <1>1, <1>2, <1>3, <1>4, <1>5, <1>6, <1>7, <1>8, <1>9, <1>10, <1>11, <1>12, <1>13,
     <1>14, <1>15, <1>16, <1>17, <1>18, <1>19, <1>20, <1>21, <1>22, <1>23, <1>24, <1>25
     DEF Next, LaunchStep, EndStep

\* The claim goes when the launch it belongs to is past its release.
LEMMA ClaimOwnedStep ==
    ASSUME TypeOK, LaunchShape, EndShape, WriterShape, [Next]_vars, ClaimOwned
    PROVE  ClaimOwned'
<1> USE DEF daemonVars, regVars, taskVars, subVars, histVars
<1>1. ASSUME NEW l \in Launches, NoteFailure(l) \/ Die(l) PROVE ClaimOwned'
  BY <1>1, ActorsAssumption DEF NoteFailure, Write, Die, TypeOK, TypeTasks, Actors,
     TypeMaps, ClaimOwned, LaunchShape, Bringing, Awaited, NoClaim
<1>2. ASSUME NEW a \in Actors, Unschedule(a) \/ Unregister(a) PROVE ClaimOwned'
  BY <1>2, ActorsAssumption DEF Unschedule, Write, Unscheduled, Unregister, NoEntry,
     TypeOK, TypeTasks, Actors, TypeMaps, ClaimOwned, LaunchShape, Bringing, Awaited,
     NoClaim
<1>3. ASSUME NEW l \in Launches, ReadParked(l) PROVE ClaimOwned'
  BY <1>3, ActorsAssumption DEF ReadParked, Husk, TypeOK, TypeTasks, Actors, TypeMaps,
     ClaimOwned, LaunchShape, Bringing, Awaited, NoClaim
<1>4. ASSUME NEW l \in Launches, Spawn(l) PROVE ClaimOwned'
  BY <1>4, ActorsAssumption DEF Spawn, TypeOK, TypeTasks, Actors, TypeMaps, ClaimOwned,
     LaunchShape, Bringing, Awaited, NoClaim
<1>5. ASSUME NEW l \in Launches, ConfigFails(l) PROVE ClaimOwned'
  BY <1>5, ActorsAssumption DEF ConfigFails, TypeOK, TypeTasks, Actors, TypeMaps,
     ClaimOwned, LaunchShape, Bringing, Awaited, NoClaim
<1>6. ASSUME NEW l \in Launches, Adopt(l) PROVE ClaimOwned'
  BY <1>6, ActorsAssumption DEF Adopt, Preflight, ClaimFree, Husk, AfterError,
     Addressable, TypeOK, TypeTasks, Actors, TypeMaps, ClaimOwned, LaunchShape,
     Bringing, Awaited, NoClaim
<1>7. ASSUME NEW l \in Launches, Resume(l) PROVE ClaimOwned'
  BY <1>7, ActorsAssumption DEF Resume, Preflight, ClaimFree, Husk, AfterError, TypeOK,
     TypeTasks, Actors, TypeMaps, ClaimOwned, LaunchShape, Bringing, Awaited, NoClaim
<1>8. ASSUME NEW l \in Launches, Reap(l) PROVE ClaimOwned'
  BY <1>8, ActorsAssumption DEF Reap, Killed, TypeOK, TypeTasks, Actors, TypeMaps,
     ClaimOwned, LaunchShape, Bringing, Awaited, NoClaim
<1>9. ASSUME NEW l \in Launches, Connect(l) PROVE ClaimOwned'
  BY <1>9, ActorsAssumption DEF Connect, TypeOK, TypeTasks, Actors, TypeMaps,
     ClaimOwned, LaunchShape, Bringing, Awaited, NoClaim
<1>10. ASSUME NEW l \in Launches, Abort(l) PROVE ClaimOwned'
  BY <1>10, ActorsAssumption DEF Abort, Killed, TypeOK, TypeTasks, Actors, TypeMaps,
     ClaimOwned, LaunchShape, Bringing, Awaited, NoClaim
<1>11. ASSUME NEW l \in Launches, Register(l) PROVE ClaimOwned'
  BY <1>11, ActorsAssumption DEF Register, Write, Registered, TypeOK, TypeTasks, Actors,
     TypeMaps, ClaimOwned, LaunchShape, Bringing, Awaited, NoClaim
<1>12. ASSUME NEW l \in Launches, GoLive(l) PROVE ClaimOwned'
  BY <1>12, ActorsAssumption DEF GoLive, Killed, TypeOK, TypeTasks, Actors, TypeMaps,
     ClaimOwned, LaunchShape, Bringing, Awaited, NoClaim
<1>13. ASSUME NEW l \in Launches, Release(l) PROVE ClaimOwned'
  BY <1>13, ActorsAssumption DEF Release, TypeOK, TypeTasks, Actors, TypeMaps,
     ClaimOwned, LaunchShape, Bringing, Awaited, NoClaim
<1>14. ASSUME NEW l \in Launches, Start(l) PROVE ClaimOwned'
  BY <1>14, ActorsAssumption DEF Start, StartRefused, TypeOK, TypeTasks, Actors,
     TypeMaps, ClaimOwned, LaunchShape, Bringing, Awaited, NoClaim
<1>15. ASSUME NEW l \in Launches, Failing(l) PROVE ClaimOwned'
  BY <1>15, ActorsAssumption DEF Failing, DropsClaim, AfterError, TypeOK, TypeTasks,
     Actors, TypeMaps, ClaimOwned, LaunchShape, Bringing, Awaited, NoClaim
<1>16. ASSUME NEW l \in Launches, Restore(l) PROVE ClaimOwned'
  BY <1>16, ActorsAssumption DEF Restore, Write, ParkedBy, TypeOK, TypeTasks, Actors,
     TypeMaps, ClaimOwned, LaunchShape, Bringing, Awaited, NoClaim
<1>17. ASSUME NEW l \in Launches, Park(l) PROVE ClaimOwned'
  BY <1>17, ActorsAssumption DEF Park, Write, ParkedBy, TypeOK, TypeTasks, Actors,
     TypeMaps, ClaimOwned, LaunchShape, Bringing, Awaited, NoClaim
<1>18. ASSUME NEW e \in Ends, EndTarget(e) PROVE ClaimOwned'
  BY <1>18, ActorsAssumption DEF EndTarget, Mark, Claiming, Addressable, TypeOK,
     TypeTasks, Actors, TypeMaps, ClaimOwned, LaunchShape, Bringing, Awaited, NoClaim
<1>19. ASSUME NEW a \in Actors, Kill(a) PROVE ClaimOwned'
  BY <1>19, ActorsAssumption DEF Kill, Killed, TypeOK, TypeTasks, Actors, TypeMaps,
     ClaimOwned, LaunchShape, Bringing, Awaited, NoClaim
<1>20. ASSUME NEW a \in Actors, Persist(a) PROVE ClaimOwned'
  <2> SUFFICES ASSUME reserved.held PROVE ClaimOwned'
    BY <1>20 DEF Persist, ClaimOwned
  <2>1. PICK l \in Launches : kind[l] # "spawn" /\ pc[l] \in Bringing \cup {"failing"}
    BY DEF ClaimOwned
  <2>2. pc'[l] \in Bringing \cup {"failing"}
    BY <1>20, <2>1, PersistWrites DEF TypeOK, TypeTasks, Actors, Bringing
  <2> QED
    BY <1>20, <2>1, <2>2 DEF Persist, ClaimOwned
<1>21. CASE ResumeMarked
  BY <1>21, ActorsAssumption DEF ResumeMarked, TypeOK, TypeTasks, Actors, TypeMaps,
     ClaimOwned, LaunchShape, Bringing, Awaited, NoClaim
<1>22. CASE Crash
  BY <1>22, ActorsAssumption DEF Crash, TypeOK, TypeTasks, Actors, TypeMaps, ClaimOwned,
     LaunchShape, Bringing, Awaited, NoClaim
<1>23. CASE Serve \/ UNCHANGED vars
  BY <1>23, ActorsAssumption DEF Serve, vars, TypeOK, TypeTasks, Actors, TypeMaps,
     ClaimOwned, LaunchShape, Bringing, Awaited, NoClaim
<1> QED
  BY <1>1, <1>2, <1>3, <1>4, <1>5, <1>6, <1>7, <1>8, <1>9, <1>10, <1>11, <1>12, <1>13,
     <1>14, <1>15, <1>16, <1>17, <1>18, <1>19, <1>20, <1>21, <1>22, <1>23 DEF Next,
     LaunchStep, EndStep

-----------------------------------------------------------------------------
(* One claim at a time *)

\* Where a launch goes when its registry write is on disk, on its way out or up.
LEMMA PersistMoves ==
    ASSUME Shape, NEW a \in Actors, Persist(a), NEW l \in Launches
    PROVE  \/ pc'[l] = pc[l]
           \/ l = a /\ pc[l] = "register" /\ pc'[l] = "bind"
           \/ l = a /\ pc[l] = "unschedule" /\ pc'[l] = "kill"
           \/ l = a /\ pc[l] = "unregister" /\ pc'[l] = "ending"
           \/ l = a /\ pc[l] = "note" /\ pc'[l] = "failed"
           \/ l = a /\ pc[l] = "park" /\ pc'[l] = "done"
<1>1. CASE l # a
  BY <1>1, PersistWrites DEF Shape, TypeOK, TypeTasks, Actors
<1>2. CASE l = a
  <2>1. a \notin Ends /\ pc'[a] = Written(a)
    BY <1>2, ActorsAssumption, PersistWrites DEF Shape, TypeOK, TypeTasks
  <2>2. victim[a] # None \/ pc[a] # "unschedule"
    BY <1>2, ActorsAssumption DEF Shape, LaunchShape
  <2> QED
    BY <1>2, <2>1, <2>2, PersistWrites DEF Shape
<1> QED
  BY <1>1, <1>2

\* Launches take turns at the id: a claim waits for those that gave theirs up.
LEMMA ExclusiveStep ==
    ASSUME "overlap" \notin Events, Shape, Exclusive, [Next]_vars
    PROVE  Exclusive'
<1> USE DEF daemonVars, regVars, taskVars, subVars, histVars
<1>1. ASSUME NEW l \in Launches, NoteFailure(l) \/ Die(l) PROVE Exclusive'
  BY <1>1, ActorsAssumption DEF NoteFailure, Write, Die, TypeOK, TypeTasks, Actors,
     TypeMaps, Shape, LaunchShape, Exclusive, Busy, ReservationHeld, Claiming, Bringing,
     Returning, NoClaim, Awaited
<1>2. ASSUME NEW a \in Actors, Unschedule(a) \/ Unregister(a) PROVE Exclusive'
  BY <1>2, ActorsAssumption DEF Unschedule, Write, Unscheduled, Unregister, NoEntry,
     TypeOK, TypeTasks, Actors, TypeMaps, Shape, LaunchShape, Exclusive, Busy,
     ReservationHeld, Claiming, Bringing, Returning, NoClaim, Awaited
<1>3. ASSUME NEW l \in Launches, ReadParked(l) PROVE Exclusive'
  BY <1>3, ActorsAssumption DEF ReadParked, Husk, TypeOK, TypeTasks, Actors, TypeMaps,
     Shape, LaunchShape, Exclusive, Busy, ReservationHeld, Claiming, Bringing,
     Returning, NoClaim, Awaited
<1>4. ASSUME NEW l \in Launches, Spawn(l) PROVE Exclusive'
  BY <1>4, ActorsAssumption DEF Spawn, TypeOK, TypeTasks, Actors, TypeMaps, Shape,
     LaunchShape, Exclusive, Busy, ReservationHeld, Claiming, Bringing, Returning,
     NoClaim, Awaited
<1>5. ASSUME NEW l \in Launches, ConfigFails(l) PROVE Exclusive'
  BY <1>5, ActorsAssumption DEF ConfigFails, TypeOK, TypeTasks, Actors, TypeMaps, Shape,
     LaunchShape, Exclusive, Busy, ReservationHeld, Claiming, Bringing, Returning,
     NoClaim, Awaited
<1>6. ASSUME NEW l \in Launches, Adopt(l) PROVE Exclusive'
  BY <1>6, ActorsAssumption DEF Adopt, Preflight, ClaimFree, Husk, AfterError,
     Addressable, TypeOK, TypeTasks, Actors, TypeMaps, Shape, LaunchShape, Exclusive,
     Busy, ReservationHeld, Claiming, Bringing, Returning, NoClaim, Awaited, Overlaps
<1>7. ASSUME NEW l \in Launches, Resume(l) PROVE Exclusive'
  BY <1>7, ActorsAssumption DEF Resume, Preflight, ClaimFree, Husk, AfterError, TypeOK,
     TypeTasks, Actors, TypeMaps, Shape, LaunchShape, Exclusive, Busy, ReservationHeld,
     Claiming, Bringing, Returning, NoClaim, Awaited, Overlaps
<1>8. ASSUME NEW l \in Launches, Reap(l) PROVE Exclusive'
  BY <1>8, ActorsAssumption DEF Reap, Killed, TypeOK, TypeTasks, Actors, TypeMaps,
     Shape, LaunchShape, Exclusive, Busy, ReservationHeld, Claiming, Bringing,
     Returning, NoClaim, Awaited
<1>9. ASSUME NEW l \in Launches, Connect(l) PROVE Exclusive'
  BY <1>9, ActorsAssumption DEF Connect, TypeOK, TypeTasks, Actors, TypeMaps, Shape,
     LaunchShape, Exclusive, Busy, ReservationHeld, Claiming, Bringing, Returning,
     NoClaim, Awaited
<1>10. ASSUME NEW l \in Launches, Abort(l) PROVE Exclusive'
  BY <1>10, ActorsAssumption DEF Abort, Killed, TypeOK, TypeTasks, Actors, TypeMaps,
     Shape, LaunchShape, Exclusive, Busy, ReservationHeld, Claiming, Bringing,
     Returning, NoClaim, Awaited
<1>11. ASSUME NEW l \in Launches, Register(l) PROVE Exclusive'
  BY <1>11, ActorsAssumption DEF Register, Write, Registered, TypeOK, TypeTasks, Actors,
     TypeMaps, Shape, LaunchShape, Exclusive, Busy, ReservationHeld, Claiming, Bringing,
     Returning, NoClaim, Awaited
<1>12. ASSUME NEW l \in Launches, GoLive(l) PROVE Exclusive'
  BY <1>12, ActorsAssumption DEF GoLive, Killed, TypeOK, TypeTasks, Actors, TypeMaps,
     Shape, LaunchShape, Exclusive, Busy, ReservationHeld, Claiming, Bringing,
     Returning, NoClaim, Awaited
<1>13. ASSUME NEW l \in Launches, Release(l) PROVE Exclusive'
  BY <1>13, ActorsAssumption DEF Release, TypeOK, TypeTasks, Actors, TypeMaps, Shape,
     LaunchShape, Exclusive, Busy, ReservationHeld, Claiming, Bringing, Returning,
     NoClaim, Awaited
<1>14. ASSUME NEW l \in Launches, Start(l) PROVE Exclusive'
  BY <1>14, ActorsAssumption DEF Start, StartRefused, TypeOK, TypeTasks, Actors,
     TypeMaps, Shape, LaunchShape, Exclusive, Busy, ReservationHeld, Claiming, Bringing,
     Returning, NoClaim, Awaited
<1>15. ASSUME NEW l \in Launches, Failing(l) PROVE Exclusive'
  BY <1>15, ActorsAssumption DEF Failing, DropsClaim, AfterError, TypeOK, TypeTasks,
     Actors, TypeMaps, Shape, LaunchShape, Exclusive, Busy, ReservationHeld, Claiming,
     Bringing, Returning, NoClaim, Awaited
<1>16. ASSUME NEW l \in Launches, Restore(l) PROVE Exclusive'
  BY <1>16, ActorsAssumption DEF Restore, Write, ParkedBy, TypeOK, TypeTasks, Actors,
     TypeMaps, Shape, LaunchShape, Exclusive, Busy, ReservationHeld, Claiming, Bringing,
     Returning, NoClaim, Awaited
<1>17. ASSUME NEW l \in Launches, Park(l) PROVE Exclusive'
  BY <1>17, ActorsAssumption DEF Park, Write, ParkedBy, TypeOK, TypeTasks, Actors,
     TypeMaps, Shape, LaunchShape, Exclusive, Busy, ReservationHeld, Claiming, Bringing,
     Returning, NoClaim, Awaited
<1>18. ASSUME NEW e \in Ends, EndTarget(e) PROVE Exclusive'
  <2>1. \A l \in Launches : pc'[l] = pc[l] /\ kind'[l] = kind[l]
    BY <1>18, ActorsAssumption DEF EndTarget, Shape, TypeOK, TypeTasks, Actors
  <2>2. reserved'.held = reserved.held
    BY <1>18, EndMarks DEF Shape
  <2> QED
    BY <2>1, <2>2 DEF Exclusive, ReservationHeld, Busy, Claiming
<1>19. ASSUME NEW a \in Actors, Kill(a) PROVE Exclusive'
  BY <1>19, ActorsAssumption DEF Kill, Killed, TypeOK, TypeTasks, Actors, TypeMaps,
     Shape, LaunchShape, Exclusive, Busy, ReservationHeld, Claiming, Bringing,
     Returning, NoClaim, Awaited
<1>20. ASSUME NEW a \in Actors, Persist(a) PROVE Exclusive'
  <2>1. kind' = kind /\ reserved' = reserved
    BY <1>20 DEF Persist
  <2>2. \A l \in Launches : Busy(l)' => Busy(l)
    BY <1>20, <2>1, PersistMoves DEF Busy, Bringing, Returning
  <2>3. \A l \in Launches : Claiming(l)' => Claiming(l)
    BY <1>20, <2>1, PersistMoves DEF Claiming
  <2> QED
    BY <2>1, <2>2, <2>3 DEF Exclusive, ReservationHeld
<1>21. CASE ResumeMarked
  BY <1>21, ActorsAssumption DEF ResumeMarked, TypeOK, TypeTasks, Actors, TypeMaps,
     Shape, LaunchShape, Exclusive, Busy, ReservationHeld, Claiming, Bringing,
     Returning, NoClaim, Awaited
<1>22. CASE Crash
  BY <1>22, ActorsAssumption DEF Crash, TypeOK, TypeTasks, Actors, TypeMaps, Shape,
     LaunchShape, Exclusive, Busy, ReservationHeld, Claiming, Bringing, Returning,
     NoClaim, Awaited
<1>23. CASE Serve \/ UNCHANGED vars
  BY <1>23, ActorsAssumption DEF Serve, vars, TypeOK, TypeTasks, Actors, TypeMaps,
     Shape, LaunchShape, Exclusive, Busy, ReservationHeld, Claiming, Bringing,
     Returning, NoClaim, Awaited
<1> QED
  BY <1>1, <1>2, <1>3, <1>4, <1>5, <1>6, <1>7, <1>8, <1>9, <1>10, <1>11, <1>12, <1>13,
     <1>14, <1>15, <1>16, <1>17, <1>18, <1>19, <1>20, <1>21, <1>22, <1>23 DEF Next,
     LaunchStep, EndStep

\* An end that hits a launch is seen at its release.
LEMMA ToldStep ==
    ASSUME "overlap" \notin Events, Shape, Exclusive, Told, [Next]_vars
    PROVE  Told'
<1> USE DEF daemonVars, regVars, taskVars, subVars, histVars
<1>1. ASSUME NEW l \in Launches, NoteFailure(l) \/ Die(l) PROVE Told'
  BY <1>1, ActorsAssumption DEF NoteFailure, Write, Die, TypeOK, TypeTasks, Actors,
     TypeMaps, Shape, LaunchShape, Exclusive, Busy, ReservationHeld, Claiming, Bringing,
     Returning, NoClaim, Awaited, Told, TypeHist
<1>2. ASSUME NEW a \in Actors, Unschedule(a) \/ Unregister(a) PROVE Told'
  BY <1>2, ActorsAssumption DEF Unschedule, Write, Unscheduled, Unregister, NoEntry,
     TypeOK, TypeTasks, Actors, TypeMaps, Shape, LaunchShape, Exclusive, Busy,
     ReservationHeld, Claiming, Bringing, Returning, NoClaim, Awaited, Told, TypeHist
<1>3. ASSUME NEW l \in Launches, ReadParked(l) PROVE Told'
  BY <1>3, ActorsAssumption DEF ReadParked, Husk, TypeOK, TypeTasks, Actors, TypeMaps,
     Shape, LaunchShape, Exclusive, Busy, ReservationHeld, Claiming, Bringing,
     Returning, NoClaim, Awaited, Told, TypeHist
<1>4. ASSUME NEW l \in Launches, Spawn(l) PROVE Told'
  BY <1>4, ActorsAssumption DEF Spawn, TypeOK, TypeTasks, Actors, TypeMaps, Shape,
     LaunchShape, Exclusive, Busy, ReservationHeld, Claiming, Bringing, Returning,
     NoClaim, Awaited, Told, TypeHist
<1>5. ASSUME NEW l \in Launches, ConfigFails(l) PROVE Told'
  BY <1>5, ActorsAssumption DEF ConfigFails, TypeOK, TypeTasks, Actors, TypeMaps, Shape,
     LaunchShape, Exclusive, Busy, ReservationHeld, Claiming, Bringing, Returning,
     NoClaim, Awaited, Told, TypeHist
<1>6. ASSUME NEW l \in Launches, Adopt(l) PROVE Told'
  BY <1>6, ActorsAssumption DEF Adopt, Preflight, ClaimFree, Husk, AfterError,
     Addressable, TypeOK, TypeTasks, Actors, TypeMaps, Shape, LaunchShape, Exclusive,
     Busy, ReservationHeld, Claiming, Bringing, Returning, NoClaim, Awaited, Told,
     TypeHist
<1>7. ASSUME NEW l \in Launches, Resume(l) PROVE Told'
  BY <1>7, ActorsAssumption DEF Resume, Preflight, ClaimFree, Husk, AfterError, TypeOK,
     TypeTasks, Actors, TypeMaps, Shape, LaunchShape, Exclusive, Busy, ReservationHeld,
     Claiming, Bringing, Returning, NoClaim, Awaited, Told, TypeHist
<1>8. ASSUME NEW l \in Launches, Reap(l) PROVE Told'
  BY <1>8, ActorsAssumption DEF Reap, Killed, TypeOK, TypeTasks, Actors, TypeMaps,
     Shape, LaunchShape, Exclusive, Busy, ReservationHeld, Claiming, Bringing,
     Returning, NoClaim, Awaited, Told, TypeHist
<1>9. ASSUME NEW l \in Launches, Connect(l) PROVE Told'
  BY <1>9, ActorsAssumption DEF Connect, TypeOK, TypeTasks, Actors, TypeMaps, Shape,
     LaunchShape, Exclusive, Busy, ReservationHeld, Claiming, Bringing, Returning,
     NoClaim, Awaited, Told, TypeHist
<1>10. ASSUME NEW l \in Launches, Abort(l) PROVE Told'
  BY <1>10, ActorsAssumption DEF Abort, Killed, TypeOK, TypeTasks, Actors, TypeMaps,
     Shape, LaunchShape, Exclusive, Busy, ReservationHeld, Claiming, Bringing,
     Returning, NoClaim, Awaited, Told, TypeHist
<1>11. ASSUME NEW l \in Launches, Register(l) PROVE Told'
  BY <1>11, ActorsAssumption DEF Register, Write, Registered, TypeOK, TypeTasks, Actors,
     TypeMaps, Shape, LaunchShape, Exclusive, Busy, ReservationHeld, Claiming, Bringing,
     Returning, NoClaim, Awaited, Told, TypeHist
<1>12. ASSUME NEW l \in Launches, GoLive(l) PROVE Told'
  BY <1>12, ActorsAssumption DEF GoLive, Killed, TypeOK, TypeTasks, Actors, TypeMaps,
     Shape, LaunchShape, Exclusive, Busy, ReservationHeld, Claiming, Bringing,
     Returning, NoClaim, Awaited, Told, TypeHist
<1>13. ASSUME NEW l \in Launches, Release(l) PROVE Told'
  BY <1>13, ActorsAssumption DEF Release, TypeOK, TypeTasks, Actors, TypeMaps, Shape,
     LaunchShape, Exclusive, Busy, ReservationHeld, Claiming, Bringing, Returning,
     NoClaim, Awaited, Told, TypeHist
<1>14. ASSUME NEW l \in Launches, Start(l) PROVE Told'
  BY <1>14, ActorsAssumption DEF Start, StartRefused, TypeOK, TypeTasks, Actors,
     TypeMaps, Shape, LaunchShape, Exclusive, Busy, ReservationHeld, Claiming, Bringing,
     Returning, NoClaim, Awaited, Told, TypeHist
<1>15. ASSUME NEW l \in Launches, Failing(l) PROVE Told'
  BY <1>15, ActorsAssumption DEF Failing, DropsClaim, AfterError, TypeOK, TypeTasks,
     Actors, TypeMaps, Shape, LaunchShape, Exclusive, Busy, ReservationHeld, Claiming,
     Bringing, Returning, NoClaim, Awaited, Told, TypeHist
<1>16. ASSUME NEW l \in Launches, Restore(l) PROVE Told'
  BY <1>16, ActorsAssumption DEF Restore, Write, ParkedBy, TypeOK, TypeTasks, Actors,
     TypeMaps, Shape, LaunchShape, Exclusive, Busy, ReservationHeld, Claiming, Bringing,
     Returning, NoClaim, Awaited, Told, TypeHist
<1>17. ASSUME NEW l \in Launches, Park(l) PROVE Told'
  BY <1>17, ActorsAssumption DEF Park, Write, ParkedBy, TypeOK, TypeTasks, Actors,
     TypeMaps, Shape, LaunchShape, Exclusive, Busy, ReservationHeld, Claiming, Bringing,
     Returning, NoClaim, Awaited, Told, TypeHist
<1>18. ASSUME NEW e \in Ends, EndTarget(e) PROVE Told'
  <2>1. \A l \in Launches : pc'[l] = pc[l] /\ kind'[l] = kind[l]
    BY <1>18, ActorsAssumption DEF EndTarget, Shape, TypeOK, TypeTasks, Actors
  <2>2. live' = None \/ (live' = live /\ live = None)
    BY <1>18 DEF EndTarget
  <2>3. reserved.closed => reserved'.closed
    BY <1>18, EndMarks DEF Shape
  <2>4. \/ ended' = ended
        \/ ended' = ended \cup {live} /\ live # None
        \/ ended' = ended \cup {l \in Launches : Claiming(l)} /\ live = None /\ reserved.held
    BY <1>18 DEF EndTarget
  <2>5. CASE ended' = ended
    BY <2>1, <2>2, <2>3, <2>5, ActorsAssumption DEF Told, Shape, TypeOK, TypeMaps, TypeHist, Actors
  <2>6. CASE ended' = ended \cup {live} /\ live # None
    BY <2>1, <2>2, <2>3, <2>6, ActorsAssumption DEF Told, Shape, TypeOK, TypeMaps, TypeHist, Actors
  <2>7. CASE ended' = ended \cup {l \in Launches : Claiming(l)} /\ live = None /\ reserved.held
    <3>1. reserved'.closed
      BY <1>18, <2>7, EndMarks DEF Shape
    <3> QED
      BY <2>1, <2>2, <2>7, <3>1, ActorsAssumption DEF Told, Actors, Claiming, Shape, TypeOK, TypeMaps, TypeHist, Bringing
  <2> QED
    BY <2>4, <2>5, <2>6, <2>7
<1>19. ASSUME NEW a \in Actors, Kill(a) PROVE Told'
  BY <1>19, ActorsAssumption DEF Kill, Killed, TypeOK, TypeTasks, Actors, TypeMaps,
     Shape, LaunchShape, Exclusive, Busy, ReservationHeld, Claiming, Bringing,
     Returning, NoClaim, Awaited, Told, TypeHist
<1>20. ASSUME NEW a \in Actors, Persist(a) PROVE Told'
  <2>1. UNCHANGED <<kind, reserved, live, ended>>
    BY <1>20 DEF Persist
  <2>2. TypeOK /\ \A l \in Launches : pc'[l] \in {"new", "loading"} \cup (Bringing \ {"release"})
                     => pc[l] \in {"new", "loading"} \cup (Bringing \ {"release"})
                        /\ (pc'[l] \in {"new", "loading"} <=> pc[l] \in {"new", "loading"})
    BY <1>20, PersistMoves DEF Bringing, Shape
  <2>3. \A l \in Launches : pc[l] = "release" => pc'[l] = "release"
    BY <1>20, PersistMoves
  <2> QED
    BY <2>1, <2>2, <2>3 DEF Told, TypeOK, TypeMaps, TypeHist, Bringing
<1>21. CASE ResumeMarked
  BY <1>21, ActorsAssumption DEF ResumeMarked, TypeOK, TypeTasks, Actors, TypeMaps,
     Shape, LaunchShape, Exclusive, Busy, ReservationHeld, Claiming, Bringing,
     Returning, NoClaim, Awaited, Told, TypeHist
<1>22. CASE Crash
  BY <1>22, ActorsAssumption DEF Crash, TypeOK, TypeTasks, Actors, TypeMaps, Shape,
     LaunchShape, Exclusive, Busy, ReservationHeld, Claiming, Bringing, Returning,
     NoClaim, Awaited, Told, TypeHist
<1>23. CASE Serve \/ UNCHANGED vars
  BY <1>23, ActorsAssumption DEF Serve, vars, TypeOK, TypeTasks, Actors, TypeMaps,
     Shape, LaunchShape, Exclusive, Busy, ReservationHeld, Claiming, Bringing,
     Returning, NoClaim, Awaited, Told, TypeHist
<1> QED
  BY <1>1, <1>2, <1>3, <1>4, <1>5, <1>6, <1>7, <1>8, <1>9, <1>10, <1>11, <1>12, <1>13,
     <1>14, <1>15, <1>16, <1>17, <1>18, <1>19, <1>20, <1>21, <1>22, <1>23 DEF Next,
     LaunchStep, EndStep

-----------------------------------------------------------------------------
(* Calls that wait for a spawn to have its id *)

\* A spawn is alone until its session is live.
LEMMA SpawnAloneStep ==
    ASSUME "overlap" \notin Events, "early" \notin Events, Shape, Exclusive, Told,
       SpawnAlone, Calm, [Next]_vars
    PROVE  SpawnAlone'
<1> USE DEF daemonVars, regVars, taskVars, subVars, histVars
<1>1. ASSUME NEW l \in Launches, Die(l) PROVE SpawnAlone'
  BY <1>1, ActorsAssumption DEF Die, TypeOK, TypeTasks, Actors, TypeMaps, TypeRegistry,
     TypeHist, Shape, SpawnAlone, Bringing, LaunchShape
<1>2. ASSUME NEW l \in Launches, ReadParked(l) PROVE SpawnAlone'
  BY <1>2, ActorsAssumption DEF ReadParked, Husk, TypeOK, TypeTasks, Actors, TypeMaps,
     TypeRegistry, TypeHist, Shape, SpawnAlone, Bringing, LaunchShape
<1>3. ASSUME NEW l \in Launches, Spawn(l) PROVE SpawnAlone'
  BY <1>3, ActorsAssumption, EntryFields DEF Spawn, TypeOK, TypeTasks, Actors, TypeMaps,
     TypeRegistry, TypeHist, Shape, SpawnAlone, Bringing, LaunchShape, Told, Calm,
     ClaimOwned
<1>4. ASSUME NEW l \in Launches, ConfigFails(l) PROVE SpawnAlone'
  BY <1>4, ActorsAssumption DEF ConfigFails, TypeOK, TypeTasks, Actors, TypeMaps,
     TypeRegistry, TypeHist, Shape, SpawnAlone, Bringing, LaunchShape
<1>5. ASSUME NEW l \in Launches, Adopt(l) PROVE SpawnAlone'
  BY <1>5, ActorsAssumption DEF Adopt, Preflight, ClaimFree, Husk, AfterError,
     Addressable, TypeOK, TypeTasks, Actors, TypeMaps, TypeRegistry, TypeHist, Shape,
     SpawnAlone, Bringing, LaunchShape
<1>6. ASSUME NEW l \in Launches, Resume(l) PROVE SpawnAlone'
  BY <1>6, ActorsAssumption DEF Resume, Preflight, ClaimFree, Husk, AfterError, TypeOK,
     TypeTasks, Actors, TypeMaps, TypeRegistry, TypeHist, Shape, SpawnAlone, Bringing,
     LaunchShape
<1>7. ASSUME NEW l \in Launches, Reap(l) PROVE SpawnAlone'
  BY <1>7, ActorsAssumption DEF Reap, Killed, TypeOK, TypeTasks, Actors, TypeMaps,
     TypeRegistry, TypeHist, Shape, SpawnAlone, Bringing, LaunchShape
<1>8. ASSUME NEW l \in Launches, Connect(l) PROVE SpawnAlone'
  BY <1>8, ActorsAssumption DEF Connect, TypeOK, TypeTasks, Actors, TypeMaps,
     TypeRegistry, TypeHist, Shape, SpawnAlone, Bringing, LaunchShape
<1>9. ASSUME NEW l \in Launches, Abort(l) PROVE SpawnAlone'
  BY <1>9, ActorsAssumption DEF Abort, Killed, TypeOK, TypeTasks, Actors, TypeMaps,
     TypeRegistry, TypeHist, Shape, SpawnAlone, Bringing, LaunchShape
<1>10. ASSUME NEW l \in Launches, Register(l) PROVE SpawnAlone'
  BY <1>10, ActorsAssumption DEF Register, Write, Registered, TypeOK, TypeTasks, Actors,
     TypeMaps, TypeRegistry, TypeHist, Shape, SpawnAlone, Bringing, LaunchShape
<1>11. ASSUME NEW l \in Launches, GoLive(l) PROVE SpawnAlone'
  BY <1>11, ActorsAssumption DEF GoLive, Killed, TypeOK, TypeTasks, Actors, TypeMaps,
     TypeRegistry, TypeHist, Shape, SpawnAlone, Bringing, LaunchShape
<1>12. ASSUME NEW l \in Launches, Release(l) PROVE SpawnAlone'
  BY <1>12, ActorsAssumption DEF Release, TypeOK, TypeTasks, Actors, TypeMaps,
     TypeRegistry, TypeHist, Shape, SpawnAlone, Bringing, LaunchShape
<1>13. ASSUME NEW l \in Launches, Start(l) PROVE SpawnAlone'
  BY <1>13, ActorsAssumption DEF Start, StartRefused, TypeOK, TypeTasks, Actors,
     TypeMaps, TypeRegistry, TypeHist, Shape, SpawnAlone, Bringing, LaunchShape
<1>14. ASSUME NEW l \in Launches, Failing(l) PROVE SpawnAlone'
  BY <1>14, ActorsAssumption DEF Failing, DropsClaim, AfterError, TypeOK, TypeTasks,
     Actors, TypeMaps, TypeRegistry, TypeHist, Shape, SpawnAlone, Bringing, LaunchShape
<1>15. ASSUME NEW l \in Launches, Restore(l) PROVE SpawnAlone'
  BY <1>15, ActorsAssumption DEF Restore, Write, ParkedBy, TypeOK, TypeTasks, Actors,
     TypeMaps, TypeRegistry, TypeHist, Shape, SpawnAlone, Bringing, LaunchShape
<1>16. ASSUME NEW l \in Launches, NoteFailure(l) PROVE SpawnAlone'
  BY <1>16, ActorsAssumption DEF NoteFailure, Write, TypeOK, TypeTasks, Actors,
     TypeMaps, TypeRegistry, TypeHist, Shape, SpawnAlone, Bringing, LaunchShape
<1>17. ASSUME NEW l \in Launches, Park(l) PROVE SpawnAlone'
  BY <1>17, ActorsAssumption DEF Park, Write, ParkedBy, TypeOK, TypeTasks, Actors,
     TypeMaps, TypeRegistry, TypeHist, Shape, SpawnAlone, Bringing, LaunchShape
<1>18. ASSUME NEW e \in Ends, EndTarget(e) PROVE SpawnAlone'
  BY <1>18, ActorsAssumption DEF EndTarget, Mark, Claiming, Addressable, TypeOK,
     TypeTasks, Actors, TypeMaps, TypeRegistry, TypeHist, Shape, SpawnAlone, Bringing,
     LaunchShape
<1>19. ASSUME NEW a \in Actors, Unschedule(a) PROVE SpawnAlone'
  BY <1>19, ActorsAssumption DEF Unschedule, Write, Unscheduled, TypeOK, TypeTasks,
     Actors, TypeMaps, TypeRegistry, TypeHist, Shape, SpawnAlone, Bringing, LaunchShape
<1>20. ASSUME NEW a \in Actors, Kill(a) PROVE SpawnAlone'
  BY <1>20, ActorsAssumption DEF Kill, Killed, TypeOK, TypeTasks, Actors, TypeMaps,
     TypeRegistry, TypeHist, Shape, SpawnAlone, Bringing, LaunchShape
<1>21. ASSUME NEW a \in Actors, Unregister(a) PROVE SpawnAlone'
  BY <1>21, ActorsAssumption DEF Unregister, Write, NoEntry, TypeOK, TypeTasks, Actors,
     TypeMaps, TypeRegistry, TypeHist, Shape, SpawnAlone, Bringing, LaunchShape
<1>22. ASSUME NEW a \in Actors, Persist(a) PROVE SpawnAlone'
  <2>1. UNCHANGED <<entry, live, reserved, boot, kind, victim, drops, alive, closing, status, since>>
        /\ disk' = entry /\ writer' = None /\ writer = a
    BY <1>22 DEF Persist
  <2> SUFFICES ASSUME NEW l \in Launches, kind'[l] = "spawn", pc'[l] \in Bringing
             PROVE  /\ boot = "serving" /\ live = None /\ ~reserved.held /\ ~entry.parked
                    /\ \A b \in Actors \ {l} : pc'[b] = "new"
                    /\ since = {} /\ ~closed' /\ ~forgot'
    BY <2>1 DEF SpawnAlone
  <2>2. kind[l] = "spawn" /\ pc[l] \in Bringing
    BY <1>22, <2>1, PersistMoves DEF Bringing
  <2>3. pc[a] # "new"
    BY <2>1, ActorsAssumption DEF Shape, WriterShape, Actors
  <2>4. a = l /\ \A b \in Actors \ {l} : pc'[b] = pc[b]
    BY <1>22, <2>2, <2>3 DEF SpawnAlone, Persist, Shape, TypeOK, TypeTasks
  <2>5. since = {} /\ ~closed /\ ~forgot
    BY <2>2 DEF SpawnAlone
  <2>6. ~closed' /\ ~forgot'
    BY <1>22, <2>5 DEF Persist
  <2> QED
    BY <2>2, <2>4, <2>5, <2>6 DEF SpawnAlone
<1>23. CASE ResumeMarked
  BY <1>23, ActorsAssumption DEF ResumeMarked, TypeOK, TypeTasks, Actors, TypeMaps,
     TypeRegistry, TypeHist, Shape, SpawnAlone, Bringing, LaunchShape
<1>24. CASE Serve
  BY <1>24, ActorsAssumption DEF Serve, TypeOK, TypeTasks, Actors, TypeMaps,
     TypeRegistry, TypeHist, Shape, SpawnAlone, Bringing, LaunchShape
<1>25. CASE Crash
  BY <1>25, ActorsAssumption DEF Crash, TypeOK, TypeTasks, Actors, TypeMaps,
     TypeRegistry, TypeHist, Shape, SpawnAlone, Bringing, LaunchShape
<1>26. CASE UNCHANGED vars
  BY <1>26, ActorsAssumption DEF vars, TypeOK, TypeTasks, Actors, TypeMaps,
     TypeRegistry, TypeHist, Shape, SpawnAlone, Bringing, LaunchShape
<1> QED
  BY <1>1, <1>2, <1>3, <1>4, <1>5, <1>6, <1>7, <1>8, <1>9, <1>10, <1>11, <1>12, <1>13,
     <1>14, <1>15, <1>16, <1>17, <1>18, <1>19, <1>20, <1>21, <1>22, <1>23, <1>24, <1>25,
     <1>26 DEF Next, LaunchStep, EndStep

\* Nobody else is live or launching before a launch has returned.
LEMMA SoloStep ==
    ASSUME "overlap" \notin Events, "early" \notin Events, Shape, Exclusive, Told,
       SpawnAlone, Solo, [Next]_vars
    PROVE  Solo'
<1> USE DEF daemonVars, regVars, taskVars, subVars, histVars
<1>1. ASSUME NEW l \in Launches, NoteFailure(l) \/ Die(l) PROVE Solo'
  BY <1>1, ActorsAssumption DEF NoteFailure, Write, Die, TypeOK, TypeTasks, Actors,
     Shape, LaunchShape, Bringing, Returning, Busy, Exclusive, ReservationHeld,
     Claiming, Awaited, NoClaim, TypeMaps, Solo, Told
<1>2. ASSUME NEW a \in Actors, Unschedule(a) \/ Unregister(a) PROVE Solo'
  BY <1>2, ActorsAssumption DEF Unschedule, Write, Unscheduled, Unregister, NoEntry,
     TypeOK, TypeTasks, Actors, Shape, LaunchShape, Bringing, Returning, Busy,
     Exclusive, ReservationHeld, Claiming, Awaited, NoClaim, TypeMaps, Solo, Told
<1>3. ASSUME NEW l \in Launches, ReadParked(l) PROVE Solo'
  BY <1>3, ActorsAssumption DEF ReadParked, Husk, TypeOK, TypeTasks, Actors, Shape,
     LaunchShape, Bringing, Returning, Busy, Exclusive, ReservationHeld, Claiming,
     Awaited, NoClaim, TypeMaps, Solo, Told
<1>4. ASSUME NEW l \in Launches, Spawn(l) PROVE Solo'
  BY <1>4, ActorsAssumption DEF Spawn, TypeOK, TypeTasks, Actors, Shape, LaunchShape,
     Bringing, Returning, Busy, Exclusive, ReservationHeld, Claiming, Awaited, NoClaim,
     TypeMaps, Solo, Told
<1>5. ASSUME NEW l \in Launches, ConfigFails(l) PROVE Solo'
  BY <1>5, ActorsAssumption DEF ConfigFails, TypeOK, TypeTasks, Actors, Shape,
     LaunchShape, Bringing, Returning, Busy, Exclusive, ReservationHeld, Claiming,
     Awaited, NoClaim, TypeMaps, Solo, Told
<1>6. ASSUME NEW l \in Launches, Adopt(l) PROVE Solo'
  BY <1>6, ActorsAssumption DEF Adopt, Preflight, ClaimFree, Husk, AfterError,
     Addressable, TypeOK, TypeTasks, Actors, Shape, LaunchShape, Bringing, Returning,
     Busy, Exclusive, ReservationHeld, Claiming, Awaited, NoClaim, TypeMaps, Solo, Told,
     Overlaps
<1>7. ASSUME NEW l \in Launches, Resume(l) PROVE Solo'
  BY <1>7, ActorsAssumption DEF Resume, Preflight, ClaimFree, Husk, AfterError, TypeOK,
     TypeTasks, Actors, Shape, LaunchShape, Bringing, Returning, Busy, Exclusive,
     ReservationHeld, Claiming, Awaited, NoClaim, TypeMaps, Solo, Told, Overlaps,
     SpawnAlone
<1>8. ASSUME NEW l \in Launches, Reap(l) PROVE Solo'
  BY <1>8, ActorsAssumption DEF Reap, Killed, TypeOK, TypeTasks, Actors, Shape,
     LaunchShape, Bringing, Returning, Busy, Exclusive, ReservationHeld, Claiming,
     Awaited, NoClaim, TypeMaps, Solo, Told
<1>9. ASSUME NEW l \in Launches, Connect(l) PROVE Solo'
  BY <1>9, ActorsAssumption DEF Connect, TypeOK, TypeTasks, Actors, Shape, LaunchShape,
     Bringing, Returning, Busy, Exclusive, ReservationHeld, Claiming, Awaited, NoClaim,
     TypeMaps, Solo, Told
<1>10. ASSUME NEW l \in Launches, Abort(l) PROVE Solo'
  BY <1>10, ActorsAssumption DEF Abort, Killed, TypeOK, TypeTasks, Actors, Shape,
     LaunchShape, Bringing, Returning, Busy, Exclusive, ReservationHeld, Claiming,
     Awaited, NoClaim, TypeMaps, Solo, Told
<1>11. ASSUME NEW l \in Launches, Register(l) PROVE Solo'
  BY <1>11, ActorsAssumption DEF Register, Write, Registered, TypeOK, TypeTasks, Actors,
     Shape, LaunchShape, Bringing, Returning, Busy, Exclusive, ReservationHeld,
     Claiming, Awaited, NoClaim, TypeMaps, Solo, Told
<1>12. ASSUME NEW l \in Launches, GoLive(l) PROVE Solo'
  BY <1>12, ActorsAssumption DEF GoLive, Killed, TypeOK, TypeTasks, Actors, Shape,
     LaunchShape, Bringing, Returning, Busy, Exclusive, ReservationHeld, Claiming,
     Awaited, NoClaim, TypeMaps, Solo, Told
<1>13. ASSUME NEW l \in Launches, Release(l) PROVE Solo'
  BY <1>13, ActorsAssumption DEF Release, TypeOK, TypeTasks, Actors, Shape, LaunchShape,
     Bringing, Returning, Busy, Exclusive, ReservationHeld, Claiming, Awaited, NoClaim,
     TypeMaps, Solo, Told
<1>14. ASSUME NEW l \in Launches, Start(l) PROVE Solo'
  BY <1>14, ActorsAssumption DEF Start, StartRefused, TypeOK, TypeTasks, Actors, Shape,
     LaunchShape, Bringing, Returning, Busy, Exclusive, ReservationHeld, Claiming,
     Awaited, NoClaim, TypeMaps, Solo, Told
<1>15. ASSUME NEW l \in Launches, Failing(l) PROVE Solo'
  BY <1>15, ActorsAssumption DEF Failing, DropsClaim, AfterError, TypeOK, TypeTasks,
     Actors, Shape, LaunchShape, Bringing, Returning, Busy, Exclusive, ReservationHeld,
     Claiming, Awaited, NoClaim, TypeMaps, Solo, Told
<1>16. ASSUME NEW l \in Launches, Restore(l) PROVE Solo'
  BY <1>16, ActorsAssumption DEF Restore, Write, ParkedBy, TypeOK, TypeTasks, Actors,
     Shape, LaunchShape, Bringing, Returning, Busy, Exclusive, ReservationHeld,
     Claiming, Awaited, NoClaim, TypeMaps, Solo, Told
<1>17. ASSUME NEW l \in Launches, Park(l) PROVE Solo'
  BY <1>17, ActorsAssumption DEF Park, Write, ParkedBy, TypeOK, TypeTasks, Actors,
     Shape, LaunchShape, Bringing, Returning, Busy, Exclusive, ReservationHeld,
     Claiming, Awaited, NoClaim, TypeMaps, Solo, Told
<1>18. ASSUME NEW e \in Ends, EndTarget(e) PROVE Solo'
  BY <1>18, ActorsAssumption DEF EndTarget, Mark, Claiming, Addressable, TypeOK,
     TypeTasks, Actors, Shape, LaunchShape, Bringing, Returning, Busy, Exclusive,
     ReservationHeld, Awaited, NoClaim, TypeMaps, Solo, Told
<1>19. ASSUME NEW a \in Actors, Kill(a) PROVE Solo'
  BY <1>19, ActorsAssumption DEF Kill, Killed, TypeOK, TypeTasks, Actors, Shape,
     LaunchShape, Bringing, Returning, Busy, Exclusive, ReservationHeld, Claiming,
     Awaited, NoClaim, TypeMaps, Solo, Told
<1>20. ASSUME NEW a \in Actors, Persist(a) PROVE Solo'
  <2>1. UNCHANGED <<entry, live, reserved, boot, kind, victim, drops, alive, closing, status, since>>
        /\ disk' = entry /\ writer' = None /\ writer = a
    BY <1>20 DEF Persist
  <2>2. \A l \in Launches : pc'[l] \in Bringing \cup Returning => pc[l] \in Bringing \cup Returning
    BY <1>20, PersistMoves DEF Bringing, Returning
  <2>3. \A l \in Launches : pc'[l] \in Bringing \ {"release"} => pc[l] \in Bringing \ {"release"}
    BY <1>20, PersistMoves DEF Bringing
  <2> QED
    BY <2>1, <2>2, <2>3 DEF Solo
<1>21. CASE ResumeMarked
  BY <1>21, ActorsAssumption DEF ResumeMarked, TypeOK, TypeTasks, Actors, Shape,
     LaunchShape, Bringing, Returning, Busy, Exclusive, ReservationHeld, Claiming,
     Awaited, NoClaim, TypeMaps, Solo, Told
<1>22. CASE Crash
  BY <1>22, ActorsAssumption DEF Crash, TypeOK, TypeTasks, Actors, Shape, LaunchShape,
     Bringing, Returning, Busy, Exclusive, ReservationHeld, Claiming, Awaited, NoClaim,
     TypeMaps, Solo, Told
<1>23. CASE Serve \/ UNCHANGED vars
  BY <1>23, ActorsAssumption DEF Serve, vars, TypeOK, TypeTasks, Actors, Shape,
     LaunchShape, Bringing, Returning, Busy, Exclusive, ReservationHeld, Claiming,
     Awaited, NoClaim, TypeMaps, Solo, Told
<1> QED
  BY <1>1, <1>2, <1>3, <1>4, <1>5, <1>6, <1>7, <1>8, <1>9, <1>10, <1>11, <1>12, <1>13,
     <1>14, <1>15, <1>16, <1>17, <1>18, <1>19, <1>20, <1>21, <1>22, <1>23 DEF Next,
     LaunchStep, EndStep

\* Agents and sessions begin with their launch.
LEMMA FreshStep ==
    ASSUME "overlap" \notin Events, "early" \notin Events, Shape, Exclusive, Told,
       Fresh, [Next]_vars
    PROVE  Fresh'
<1> USE DEF daemonVars, regVars, taskVars, subVars, histVars
<1>1. ASSUME NEW l \in Launches, NoteFailure(l) PROVE Fresh'
  BY <1>1, ActorsAssumption DEF NoteFailure, Write, TypeOK, TypeTasks, Actors, TypeMaps,
     TypeSubs, Shape, LaunchShape, EndShape, Fresh, Bringing
<1>2. ASSUME NEW a \in Actors, Unschedule(a) \/ Unregister(a) PROVE Fresh'
  BY <1>2, ActorsAssumption DEF Unschedule, Write, Unscheduled, Unregister, NoEntry,
     TypeOK, TypeTasks, Actors, TypeMaps, TypeSubs, Shape, LaunchShape, EndShape, Fresh,
     Bringing
<1>3. ASSUME NEW l \in Launches, ReadParked(l) PROVE Fresh'
  BY <1>3, ActorsAssumption DEF ReadParked, Husk, TypeOK, TypeTasks, Actors, TypeMaps,
     TypeSubs, Shape, LaunchShape, EndShape, Fresh, Bringing
<1>4. ASSUME NEW l \in Launches, Spawn(l) PROVE Fresh'
  BY <1>4, ActorsAssumption DEF Spawn, TypeOK, TypeTasks, Actors, TypeMaps, TypeSubs,
     Shape, LaunchShape, EndShape, Fresh, Bringing
<1>5. ASSUME NEW l \in Launches, ConfigFails(l) PROVE Fresh'
  BY <1>5, ActorsAssumption DEF ConfigFails, TypeOK, TypeTasks, Actors, TypeMaps,
     TypeSubs, Shape, LaunchShape, EndShape, Fresh, Bringing
<1>6. ASSUME NEW l \in Launches, Adopt(l) PROVE Fresh'
  BY <1>6, ActorsAssumption DEF Adopt, Preflight, ClaimFree, Husk, AfterError,
     Addressable, TypeOK, TypeTasks, Actors, TypeMaps, TypeSubs, Shape, LaunchShape,
     EndShape, Fresh, Bringing
<1>7. ASSUME NEW l \in Launches, Resume(l) PROVE Fresh'
  BY <1>7, ActorsAssumption DEF Resume, Preflight, ClaimFree, Husk, AfterError, TypeOK,
     TypeTasks, Actors, TypeMaps, TypeSubs, Shape, LaunchShape, EndShape, Fresh,
     Bringing
<1>8. ASSUME NEW l \in Launches, Reap(l) PROVE Fresh'
  BY <1>8, ActorsAssumption DEF Reap, Killed, TypeOK, TypeTasks, Actors, TypeMaps,
     TypeSubs, Shape, LaunchShape, EndShape, Fresh, Bringing
<1>9. ASSUME NEW l \in Launches, Connect(l) PROVE Fresh'
  BY <1>9, ActorsAssumption DEF Connect, TypeOK, TypeTasks, Actors, TypeMaps, TypeSubs,
     Shape, LaunchShape, EndShape, Fresh, Bringing
<1>10. ASSUME NEW l \in Launches, Abort(l) PROVE Fresh'
  BY <1>10, ActorsAssumption DEF Abort, Killed, TypeOK, TypeTasks, Actors, TypeMaps,
     TypeSubs, Shape, LaunchShape, EndShape, Fresh, Bringing
<1>11. ASSUME NEW l \in Launches, Register(l) PROVE Fresh'
  BY <1>11, ActorsAssumption DEF Register, Write, Registered, TypeOK, TypeTasks, Actors,
     TypeMaps, TypeSubs, Shape, LaunchShape, EndShape, Fresh, Bringing
<1>12. ASSUME NEW l \in Launches, GoLive(l) PROVE Fresh'
  BY <1>12, ActorsAssumption DEF GoLive, Killed, TypeOK, TypeTasks, Actors, TypeMaps,
     TypeSubs, Shape, LaunchShape, EndShape, Fresh, Bringing
<1>13. ASSUME NEW l \in Launches, Release(l) PROVE Fresh'
  BY <1>13, ActorsAssumption DEF Release, TypeOK, TypeTasks, Actors, TypeMaps, TypeSubs,
     Shape, LaunchShape, EndShape, Fresh, Bringing
<1>14. ASSUME NEW l \in Launches, Start(l) PROVE Fresh'
  BY <1>14, ActorsAssumption DEF Start, StartRefused, TypeOK, TypeTasks, Actors,
     TypeMaps, TypeSubs, Shape, LaunchShape, EndShape, Fresh, Bringing
<1>15. ASSUME NEW l \in Launches, Failing(l) PROVE Fresh'
  BY <1>15, ActorsAssumption DEF Failing, DropsClaim, AfterError, TypeOK, TypeTasks,
     Actors, TypeMaps, TypeSubs, Shape, LaunchShape, EndShape, Fresh, Bringing
<1>16. ASSUME NEW l \in Launches, Restore(l) PROVE Fresh'
  BY <1>16, ActorsAssumption DEF Restore, Write, ParkedBy, TypeOK, TypeTasks, Actors,
     TypeMaps, TypeSubs, Shape, LaunchShape, EndShape, Fresh, Bringing
<1>17. ASSUME NEW l \in Launches, Park(l) PROVE Fresh'
  BY <1>17, ActorsAssumption DEF Park, Write, ParkedBy, TypeOK, TypeTasks, Actors,
     TypeMaps, TypeSubs, Shape, LaunchShape, EndShape, Fresh, Bringing
<1>18. ASSUME NEW l \in Launches, Die(l) PROVE Fresh'
  BY <1>18, ActorsAssumption DEF Die, TypeOK, TypeTasks, Actors, TypeMaps, TypeSubs,
     Shape, LaunchShape, EndShape, Fresh, Bringing
<1>19. ASSUME NEW e \in Ends, EndTarget(e) PROVE Fresh'
  BY <1>19, ActorsAssumption DEF EndTarget, Mark, Claiming, Addressable, TypeOK,
     TypeTasks, Actors, TypeMaps, TypeSubs, Shape, LaunchShape, EndShape, Fresh,
     Bringing
<1>20. ASSUME NEW a \in Actors, Kill(a) PROVE Fresh'
  BY <1>20, ActorsAssumption DEF Kill, Killed, TypeOK, TypeTasks, Actors, TypeMaps,
     TypeSubs, Shape, LaunchShape, EndShape, Fresh, Bringing
<1>21. ASSUME NEW a \in Actors, Persist(a) PROVE Fresh'
  <2>1. UNCHANGED <<entry, live, reserved, boot, kind, victim, drops, alive, closing, status, since>>
        /\ disk' = entry /\ writer' = None /\ writer = a
    BY <1>21 DEF Persist
  <2>2. \A l \in Launches : pc'[l] \in {"new", "loading", "reap", "connect"} => pc'[l] = pc[l]
    BY <1>21, PersistMoves
  <2>3. \A l \in Launches : pc'[l] \in Bringing \cup {"start"} => pc[l] \in Bringing
                                 \cup {"start"}
    BY <1>21, PersistMoves DEF Bringing
  <2> QED
    BY <2>1, <2>2, <2>3 DEF Fresh
<1>22. CASE ResumeMarked
  BY <1>22, ActorsAssumption DEF ResumeMarked, TypeOK, TypeTasks, Actors, TypeMaps,
     TypeSubs, Shape, LaunchShape, EndShape, Fresh, Bringing
<1>23. CASE Crash
  BY <1>23, ActorsAssumption DEF Crash, TypeOK, TypeTasks, Actors, TypeMaps, TypeSubs,
     Shape, LaunchShape, EndShape, Fresh, Bringing
<1>24. CASE Serve \/ UNCHANGED vars
  BY <1>24, ActorsAssumption DEF Serve, vars, TypeOK, TypeTasks, Actors, TypeMaps,
     TypeSubs, Shape, LaunchShape, EndShape, Fresh, Bringing
<1> QED
  BY <1>1, <1>2, <1>3, <1>4, <1>5, <1>6, <1>7, <1>8, <1>9, <1>10, <1>11, <1>12, <1>13,
     <1>14, <1>15, <1>16, <1>17, <1>18, <1>19, <1>20, <1>21, <1>22, <1>23, <1>24 DEF
     Next, LaunchStep, EndStep

\* An agent that nobody closes is launching, or live.
LEMMA OwnedStep ==
    ASSUME "overlap" \notin Events, "early" \notin Events, Shape, Exclusive, Told, Solo,
       Fresh, Owned, [Next]_vars
    PROVE  Owned'
<1> USE DEF daemonVars, regVars, taskVars, subVars, histVars
<1>1. ASSUME NEW l \in Launches, NoteFailure(l) PROVE Owned'
  BY <1>1, ActorsAssumption DEF NoteFailure, Write, TypeOK, TypeTasks, Actors, Shape,
     LaunchShape, Bringing, Returning, Busy, Exclusive, ReservationHeld, Claiming,
     Awaited, NoClaim, TypeMaps, TypeSubs, Solo, Fresh, Owned
<1>2. ASSUME NEW a \in Actors, Unschedule(a) \/ Unregister(a) PROVE Owned'
  BY <1>2, ActorsAssumption DEF Unschedule, Write, Unscheduled, Unregister, NoEntry,
     TypeOK, TypeTasks, Actors, Shape, LaunchShape, Bringing, Returning, Busy,
     Exclusive, ReservationHeld, Claiming, Awaited, NoClaim, TypeMaps, TypeSubs, Solo,
     Fresh, Owned
<1>3. ASSUME NEW l \in Launches, ReadParked(l) PROVE Owned'
  BY <1>3, ActorsAssumption DEF ReadParked, Husk, TypeOK, TypeTasks, Actors, Shape,
     LaunchShape, Bringing, Returning, Busy, Exclusive, ReservationHeld, Claiming,
     Awaited, NoClaim, TypeMaps, TypeSubs, Solo, Fresh, Owned
<1>4. ASSUME NEW l \in Launches, Spawn(l) PROVE Owned'
  BY <1>4, ActorsAssumption DEF Spawn, TypeOK, TypeTasks, Actors, Shape, LaunchShape,
     Bringing, Returning, Busy, Exclusive, ReservationHeld, Claiming, Awaited, NoClaim,
     TypeMaps, TypeSubs, Solo, Fresh, Owned
<1>5. ASSUME NEW l \in Launches, ConfigFails(l) PROVE Owned'
  BY <1>5, ActorsAssumption DEF ConfigFails, TypeOK, TypeTasks, Actors, Shape,
     LaunchShape, Bringing, Returning, Busy, Exclusive, ReservationHeld, Claiming,
     Awaited, NoClaim, TypeMaps, TypeSubs, Solo, Fresh, Owned
<1>6. ASSUME NEW l \in Launches, Adopt(l) PROVE Owned'
  BY <1>6, ActorsAssumption DEF Adopt, Preflight, ClaimFree, Husk, AfterError,
     Addressable, TypeOK, TypeTasks, Actors, Shape, LaunchShape, Bringing, Returning,
     Busy, Exclusive, ReservationHeld, Claiming, Awaited, NoClaim, TypeMaps, TypeSubs,
     Solo, Fresh, Owned
<1>7. ASSUME NEW l \in Launches, Resume(l) PROVE Owned'
  BY <1>7, ActorsAssumption DEF Resume, Preflight, ClaimFree, Husk, AfterError, TypeOK,
     TypeTasks, Actors, Shape, LaunchShape, Bringing, Returning, Busy, Exclusive,
     ReservationHeld, Claiming, Awaited, NoClaim, TypeMaps, TypeSubs, Solo, Fresh, Owned
<1>8. ASSUME NEW l \in Launches, Reap(l) PROVE Owned'
  BY <1>8, ActorsAssumption DEF Reap, Killed, TypeOK, TypeTasks, Actors, Shape,
     LaunchShape, Bringing, Returning, Busy, Exclusive, ReservationHeld, Claiming,
     Awaited, NoClaim, TypeMaps, TypeSubs, Solo, Fresh, Owned
<1>9. ASSUME NEW l \in Launches, Connect(l) PROVE Owned'
  BY <1>9, ActorsAssumption DEF Connect, TypeOK, TypeTasks, Actors, Shape, LaunchShape,
     Bringing, Returning, Busy, Exclusive, ReservationHeld, Claiming, Awaited, NoClaim,
     TypeMaps, TypeSubs, Solo, Fresh, Owned
<1>10. ASSUME NEW l \in Launches, Abort(l) PROVE Owned'
  BY <1>10, ActorsAssumption DEF Abort, Killed, TypeOK, TypeTasks, Actors, Shape,
     LaunchShape, Bringing, Returning, Busy, Exclusive, ReservationHeld, Claiming,
     Awaited, NoClaim, TypeMaps, TypeSubs, Solo, Fresh, Owned
<1>11. ASSUME NEW l \in Launches, Register(l) PROVE Owned'
  BY <1>11, ActorsAssumption DEF Register, Write, Registered, TypeOK, TypeTasks, Actors,
     Shape, LaunchShape, Bringing, Returning, Busy, Exclusive, ReservationHeld,
     Claiming, Awaited, NoClaim, TypeMaps, TypeSubs, Solo, Fresh, Owned
<1>12. ASSUME NEW l \in Launches, GoLive(l) PROVE Owned'
  BY <1>12, ActorsAssumption DEF GoLive, Killed, TypeOK, TypeTasks, Actors, Shape,
     LaunchShape, Bringing, Returning, Busy, Exclusive, ReservationHeld, Claiming,
     Awaited, NoClaim, TypeMaps, TypeSubs, Solo, Fresh, Owned
<1>13. ASSUME NEW l \in Launches, Release(l) PROVE Owned'
  BY <1>13, ActorsAssumption DEF Release, TypeOK, TypeTasks, Actors, Shape, LaunchShape,
     Bringing, Returning, Busy, Exclusive, ReservationHeld, Claiming, Awaited, NoClaim,
     TypeMaps, TypeSubs, Solo, Fresh, Owned
<1>14. ASSUME NEW l \in Launches, Start(l) PROVE Owned'
  BY <1>14, ActorsAssumption DEF Start, StartRefused, TypeOK, TypeTasks, Actors, Shape,
     LaunchShape, Bringing, Returning, Busy, Exclusive, ReservationHeld, Claiming,
     Awaited, NoClaim, TypeMaps, TypeSubs, Solo, Fresh, Owned
<1>15. ASSUME NEW l \in Launches, Failing(l) PROVE Owned'
  BY <1>15, ActorsAssumption DEF Failing, DropsClaim, AfterError, TypeOK, TypeTasks,
     Actors, Shape, LaunchShape, Bringing, Returning, Busy, Exclusive, ReservationHeld,
     Claiming, Awaited, NoClaim, TypeMaps, TypeSubs, Solo, Fresh, Owned
<1>16. ASSUME NEW l \in Launches, Restore(l) PROVE Owned'
  BY <1>16, ActorsAssumption DEF Restore, Write, ParkedBy, TypeOK, TypeTasks, Actors,
     Shape, LaunchShape, Bringing, Returning, Busy, Exclusive, ReservationHeld,
     Claiming, Awaited, NoClaim, TypeMaps, TypeSubs, Solo, Fresh, Owned
<1>17. ASSUME NEW l \in Launches, Park(l) PROVE Owned'
  BY <1>17, ActorsAssumption DEF Park, Write, ParkedBy, TypeOK, TypeTasks, Actors,
     Shape, LaunchShape, Bringing, Returning, Busy, Exclusive, ReservationHeld,
     Claiming, Awaited, NoClaim, TypeMaps, TypeSubs, Solo, Fresh, Owned
<1>18. ASSUME NEW l \in Launches, Die(l) PROVE Owned'
  BY <1>18, ActorsAssumption DEF Die, TypeOK, TypeTasks, Actors, Shape, LaunchShape,
     Bringing, Returning, Busy, Exclusive, ReservationHeld, Claiming, Awaited, NoClaim,
     TypeMaps, TypeSubs, Solo, Fresh, Owned
<1>19. ASSUME NEW e \in Ends, EndTarget(e) PROVE Owned'
  BY <1>19, ActorsAssumption DEF EndTarget, Mark, Claiming, Addressable, TypeOK,
     TypeTasks, Actors, Shape, LaunchShape, Bringing, Returning, Busy, Exclusive,
     ReservationHeld, Awaited, NoClaim, TypeMaps, TypeSubs, Solo, Fresh, Owned
<1>20. ASSUME NEW a \in Actors, Kill(a) PROVE Owned'
  BY <1>20, ActorsAssumption DEF Kill, Killed, TypeOK, TypeTasks, Actors, Shape,
     LaunchShape, Bringing, Returning, Busy, Exclusive, ReservationHeld, Claiming,
     Awaited, NoClaim, TypeMaps, TypeSubs, Solo, Fresh, Owned
<1>21. ASSUME NEW a \in Actors, Persist(a) PROVE Owned'
  <2>1. UNCHANGED <<entry, live, reserved, boot, kind, victim, drops, alive, closing, status, since>>
        /\ disk' = entry /\ writer' = None /\ writer = a
    BY <1>21 DEF Persist
  <2>2. \A l \in Launches : pc[l] \in {"handshake", "register", "bind"}
                            => pc'[l] \in {"handshake", "register", "bind"}
    BY <1>21, PersistMoves
  <2>3. \A l \in Launches : pc[l] \in {"failing", "failed", "note", "gone"}
                            => pc'[l] \in {"failing", "failed", "note", "gone"}
    BY <1>21, PersistMoves
  <2> QED
    BY <2>1, <2>2, <2>3 DEF Owned
<1>22. CASE ResumeMarked
  BY <1>22, ActorsAssumption DEF ResumeMarked, TypeOK, TypeTasks, Actors, Shape,
     LaunchShape, Bringing, Returning, Busy, Exclusive, ReservationHeld, Claiming,
     Awaited, NoClaim, TypeMaps, TypeSubs, Solo, Fresh, Owned
<1>23. CASE Crash
  BY <1>23, ActorsAssumption DEF Crash, TypeOK, TypeTasks, Actors, Shape, LaunchShape,
     Bringing, Returning, Busy, Exclusive, ReservationHeld, Claiming, Awaited, NoClaim,
     TypeMaps, TypeSubs, Solo, Fresh, Owned
<1>24. CASE Serve \/ UNCHANGED vars
  BY <1>24, ActorsAssumption DEF Serve, vars, TypeOK, TypeTasks, Actors, Shape,
     LaunchShape, Bringing, Returning, Busy, Exclusive, ReservationHeld, Claiming,
     Awaited, NoClaim, TypeMaps, TypeSubs, Solo, Fresh, Owned
<1> QED
  BY <1>1, <1>2, <1>3, <1>4, <1>5, <1>6, <1>7, <1>8, <1>9, <1>10, <1>11, <1>12, <1>13,
     <1>14, <1>15, <1>16, <1>17, <1>18, <1>19, <1>20, <1>21, <1>22, <1>23, <1>24 DEF
     Next, LaunchStep, EndStep

\* Ends come after the resume of a restart.
LEMMA CalmStep ==
    ASSUME "overlap" \notin Events, "early" \notin Events, Shape, Exclusive, Told, Calm,
       [Next]_vars
    PROVE  Calm'
<1> USE DEF daemonVars, regVars, taskVars, subVars, histVars
<1>1. ASSUME NEW l \in Launches, NoteFailure(l) \/ Die(l) PROVE Calm'
  BY <1>1, ActorsAssumption DEF NoteFailure, Write, Die, TypeOK, TypeTasks, Actors,
     TypeMaps, TypeHist, Shape, LaunchShape, Calm, Returned, Bringing, Returning
<1>2. ASSUME NEW a \in Actors, Unschedule(a) \/ Unregister(a) PROVE Calm'
  BY <1>2, ActorsAssumption DEF Unschedule, Write, Unscheduled, Unregister, NoEntry,
     TypeOK, TypeTasks, Actors, TypeMaps, TypeHist, Shape, LaunchShape, Calm, Returned,
     Bringing, Returning
<1>3. ASSUME NEW l \in Launches, ReadParked(l) PROVE Calm'
  BY <1>3, ActorsAssumption DEF ReadParked, Husk, TypeOK, TypeTasks, Actors, TypeMaps,
     TypeHist, Shape, LaunchShape, Calm, Returned, Bringing, Returning
<1>4. ASSUME NEW l \in Launches, Spawn(l) PROVE Calm'
  BY <1>4, ActorsAssumption DEF Spawn, TypeOK, TypeTasks, Actors, TypeMaps, TypeHist,
     Shape, LaunchShape, Calm, Returned, Bringing, Returning
<1>5. ASSUME NEW l \in Launches, ConfigFails(l) PROVE Calm'
  BY <1>5, ActorsAssumption DEF ConfigFails, TypeOK, TypeTasks, Actors, TypeMaps,
     TypeHist, Shape, LaunchShape, Calm, Returned, Bringing, Returning
<1>6. ASSUME NEW l \in Launches, Adopt(l) PROVE Calm'
  BY <1>6, ActorsAssumption DEF Adopt, Preflight, ClaimFree, Husk, AfterError,
     Addressable, TypeOK, TypeTasks, Actors, TypeMaps, TypeHist, Shape, LaunchShape,
     Calm, Returned, Bringing, Returning
<1>7. ASSUME NEW l \in Launches, Resume(l) PROVE Calm'
  BY <1>7, ActorsAssumption DEF Resume, Preflight, ClaimFree, Husk, AfterError, TypeOK,
     TypeTasks, Actors, TypeMaps, TypeHist, Shape, LaunchShape, Calm, Returned,
     Bringing, Returning
<1>8. ASSUME NEW l \in Launches, Reap(l) PROVE Calm'
  BY <1>8, ActorsAssumption DEF Reap, Killed, TypeOK, TypeTasks, Actors, TypeMaps,
     TypeHist, Shape, LaunchShape, Calm, Returned, Bringing, Returning
<1>9. ASSUME NEW l \in Launches, Connect(l) PROVE Calm'
  BY <1>9, ActorsAssumption DEF Connect, TypeOK, TypeTasks, Actors, TypeMaps, TypeHist,
     Shape, LaunchShape, Calm, Returned, Bringing, Returning
<1>10. ASSUME NEW l \in Launches, Abort(l) PROVE Calm'
  BY <1>10, ActorsAssumption DEF Abort, Killed, TypeOK, TypeTasks, Actors, TypeMaps,
     TypeHist, Shape, LaunchShape, Calm, Returned, Bringing, Returning
<1>11. ASSUME NEW l \in Launches, Register(l) PROVE Calm'
  BY <1>11, ActorsAssumption DEF Register, Write, Registered, TypeOK, TypeTasks, Actors,
     TypeMaps, TypeHist, Shape, LaunchShape, Calm, Returned, Bringing, Returning
<1>12. ASSUME NEW l \in Launches, GoLive(l) PROVE Calm'
  BY <1>12, ActorsAssumption DEF GoLive, Killed, TypeOK, TypeTasks, Actors, TypeMaps,
     TypeHist, Shape, LaunchShape, Calm, Returned, Bringing, Returning
<1>13. ASSUME NEW l \in Launches, Release(l) PROVE Calm'
  BY <1>13, ActorsAssumption DEF Release, TypeOK, TypeTasks, Actors, TypeMaps, TypeHist,
     Shape, LaunchShape, Calm, Returned, Bringing, Returning
<1>14. ASSUME NEW l \in Launches, Start(l) PROVE Calm'
  BY <1>14, ActorsAssumption DEF Start, StartRefused, TypeOK, TypeTasks, Actors,
     TypeMaps, TypeHist, Shape, LaunchShape, Calm, Returned, Bringing, Returning
<1>15. ASSUME NEW l \in Launches, Failing(l) PROVE Calm'
  BY <1>15, ActorsAssumption DEF Failing, DropsClaim, AfterError, TypeOK, TypeTasks,
     Actors, TypeMaps, TypeHist, Shape, LaunchShape, Calm, Returned, Bringing, Returning
<1>16. ASSUME NEW l \in Launches, Restore(l) PROVE Calm'
  BY <1>16, ActorsAssumption DEF Restore, Write, ParkedBy, TypeOK, TypeTasks, Actors,
     TypeMaps, TypeHist, Shape, LaunchShape, Calm, Returned, Bringing, Returning
<1>17. ASSUME NEW l \in Launches, Park(l) PROVE Calm'
  BY <1>17, ActorsAssumption DEF Park, Write, ParkedBy, TypeOK, TypeTasks, Actors,
     TypeMaps, TypeHist, Shape, LaunchShape, Calm, Returned, Bringing, Returning
<1>18. ASSUME NEW e \in Ends, EndTarget(e) PROVE Calm'
  BY <1>18, ActorsAssumption DEF EndTarget, Mark, Claiming, Addressable, TypeOK,
     TypeTasks, Actors, TypeMaps, TypeHist, Shape, LaunchShape, Calm, Returned,
     Bringing, Returning
<1>19. ASSUME NEW a \in Actors, Kill(a) PROVE Calm'
  BY <1>19, ActorsAssumption DEF Kill, Killed, TypeOK, TypeTasks, Actors, TypeMaps,
     TypeHist, Shape, LaunchShape, Calm, Returned, Bringing, Returning
<1>20. ASSUME NEW a \in Actors, Persist(a) PROVE Calm'
  <2>1. UNCHANGED <<entry, live, reserved, boot, kind, victim, drops, alive, closing, status, since>>
        /\ disk' = entry /\ writer' = None /\ writer = a
    BY <1>20 DEF Persist
  <2>2. \A b \in Actors : pc[b] # "new" => pc'[b] # "new"
    BY <1>20, PersistWrites DEF Shape, TypeOK, TypeTasks
  <2>3. \A l \in Launches : pc[l] \in Returned => pc'[l] \in Returned
    BY <1>20, PersistMoves DEF Returned
  <2>4. \A l \in Launches : pc'[l] \in Bringing \cup Returning \cup {"restore"}
                            => pc[l] \in Bringing \cup Returning \cup {"restore"}
    BY <1>20, PersistMoves DEF Bringing, Returning
  <2>5. (closed' => closed \/ since # {}) /\ (forgot' => forgot \/ since # {})
    BY <1>20 DEF Persist
  <2>6. \A l \in Launches : kind[l] \in {"marked", "reparked"}
              /\ pc[l] \in Bringing \cup Returning \cup {"restore"} => ~closed'
    BY <2>5 DEF Calm, Bringing, Returning, Returned
  <2>7. closed' \/ forgot' => \E b \in Actors : pc[b] # "new"
    BY <2>5 DEF Calm, Shape, TypeOK, TypeHist, Actors
  <2>8. since \subseteq Actors
    BY DEF Shape, TypeOK, TypeHist, Actors
  <2>9. \A b \in since' : pc'[b] # "new"
    BY <2>1, <2>2, <2>8 DEF Calm
  <2>10. \A l \in Launches : kind'[l] \in {"marked", "reparked"} /\ pc'[l] \notin Returned
                            => boot' = "resume"
    BY <2>1, <2>3 DEF Calm
  <2>11. \A l \in Launches : kind'[l] \in {"marked", "reparked"}
              /\ pc'[l] \in Bringing \cup Returning \cup {"restore"} => ~closed'
    BY <2>1, <2>4, <2>6
  <2>12. closed' \/ forgot' => \E b \in Actors : pc'[b] # "new"
    BY <2>2, <2>7
  <2> QED
    BY <2>1, <2>9, <2>10, <2>11, <2>12 DEF Calm
<1>21. CASE ResumeMarked
  BY <1>21, ActorsAssumption DEF ResumeMarked, TypeOK, TypeTasks, Actors, TypeMaps,
     TypeHist, Shape, LaunchShape, Calm, Returned, Bringing, Returning
<1>22. CASE Serve
  BY <1>22, ActorsAssumption DEF Serve, TypeOK, TypeTasks, Actors, TypeMaps, TypeHist,
     Shape, LaunchShape, Calm, Returned, Bringing, Returning
<1>23. CASE Crash
  BY <1>23, ActorsAssumption DEF Crash, TypeOK, TypeTasks, Actors, TypeMaps, TypeHist,
     Shape, LaunchShape, Calm, Returned, Bringing, Returning
<1>24. CASE UNCHANGED vars
  BY <1>24, ActorsAssumption DEF vars, TypeOK, TypeTasks, Actors, TypeMaps, TypeHist,
     Shape, LaunchShape, Calm, Returned, Bringing, Returning
<1> QED
  BY <1>1, <1>2, <1>3, <1>4, <1>5, <1>6, <1>7, <1>8, <1>9, <1>10, <1>11, <1>12, <1>13,
     <1>14, <1>15, <1>16, <1>17, <1>18, <1>19, <1>20, <1>21, <1>22, <1>23, <1>24 DEF
     Next, LaunchStep, EndStep

\* A close reaches whoever is live or launching.
LEMMA CloseHitsStep ==
    ASSUME "overlap" \notin Events, "early" \notin Events, Shape, Exclusive, Told,
       SpawnAlone, Solo, Calm, CloseHits, [Next]_vars
    PROVE  CloseHits'
<1> USE DEF daemonVars, regVars, taskVars, subVars, histVars
<1>1. ASSUME NEW l \in Launches, NoteFailure(l) \/ Die(l) PROVE CloseHits'
  BY <1>1, ActorsAssumption DEF NoteFailure, Write, Die, TypeOK, TypeTasks, Actors,
     Shape, LaunchShape, Bringing, Returning, Busy, Exclusive, ReservationHeld,
     Claiming, Awaited, NoClaim, TypeMaps, TypeHist, SpawnAlone, Solo, Calm, CloseHits,
     CloseCalled
<1>2. ASSUME NEW a \in Actors, Unschedule(a) \/ Unregister(a) PROVE CloseHits'
  BY <1>2, ActorsAssumption DEF Unschedule, Write, Unscheduled, Unregister, NoEntry,
     TypeOK, TypeTasks, Actors, Shape, LaunchShape, Bringing, Returning, Busy,
     Exclusive, ReservationHeld, Claiming, Awaited, NoClaim, TypeMaps, TypeHist,
     SpawnAlone, Solo, Calm, CloseHits, CloseCalled
<1>3. ASSUME NEW l \in Launches, ReadParked(l) PROVE CloseHits'
  BY <1>3, ActorsAssumption DEF ReadParked, Husk, TypeOK, TypeTasks, Actors, Shape,
     LaunchShape, Bringing, Returning, Busy, Exclusive, ReservationHeld, Claiming,
     Awaited, NoClaim, TypeMaps, TypeHist, SpawnAlone, Solo, Calm, CloseHits,
     CloseCalled
<1>4. ASSUME NEW l \in Launches, Spawn(l) PROVE CloseHits'
  BY <1>4, ActorsAssumption DEF Spawn, TypeOK, TypeTasks, Actors, Shape, LaunchShape,
     Bringing, Returning, Busy, Exclusive, ReservationHeld, Claiming, Awaited, NoClaim,
     TypeMaps, TypeHist, SpawnAlone, Solo, Calm, CloseHits, CloseCalled
<1>5. ASSUME NEW l \in Launches, ConfigFails(l) PROVE CloseHits'
  BY <1>5, ActorsAssumption DEF ConfigFails, TypeOK, TypeTasks, Actors, Shape,
     LaunchShape, Bringing, Returning, Busy, Exclusive, ReservationHeld, Claiming,
     Awaited, NoClaim, TypeMaps, TypeHist, SpawnAlone, Solo, Calm, CloseHits,
     CloseCalled
<1>6. ASSUME NEW l \in Launches, Adopt(l) PROVE CloseHits'
  BY <1>6, ActorsAssumption DEF Adopt, Preflight, ClaimFree, Husk, AfterError,
     Addressable, TypeOK, TypeTasks, Actors, Shape, LaunchShape, Bringing, Returning,
     Busy, Exclusive, ReservationHeld, Claiming, Awaited, NoClaim, TypeMaps, TypeHist,
     SpawnAlone, Solo, Calm, CloseHits, CloseCalled
<1>7. ASSUME NEW l \in Launches, Resume(l) PROVE CloseHits'
  BY <1>7, ActorsAssumption DEF Resume, Preflight, ClaimFree, Husk, AfterError, TypeOK,
     TypeTasks, Actors, Shape, LaunchShape, Bringing, Returning, Busy, Exclusive,
     ReservationHeld, Claiming, Awaited, NoClaim, TypeMaps, TypeHist, SpawnAlone, Solo,
     Calm, CloseHits, CloseCalled
<1>8. ASSUME NEW l \in Launches, Reap(l) PROVE CloseHits'
  BY <1>8, ActorsAssumption DEF Reap, Killed, TypeOK, TypeTasks, Actors, Shape,
     LaunchShape, Bringing, Returning, Busy, Exclusive, ReservationHeld, Claiming,
     Awaited, NoClaim, TypeMaps, TypeHist, SpawnAlone, Solo, Calm, CloseHits,
     CloseCalled
<1>9. ASSUME NEW l \in Launches, Connect(l) PROVE CloseHits'
  BY <1>9, ActorsAssumption DEF Connect, TypeOK, TypeTasks, Actors, Shape, LaunchShape,
     Bringing, Returning, Busy, Exclusive, ReservationHeld, Claiming, Awaited, NoClaim,
     TypeMaps, TypeHist, SpawnAlone, Solo, Calm, CloseHits, CloseCalled
<1>10. ASSUME NEW l \in Launches, Abort(l) PROVE CloseHits'
  BY <1>10, ActorsAssumption DEF Abort, Killed, TypeOK, TypeTasks, Actors, Shape,
     LaunchShape, Bringing, Returning, Busy, Exclusive, ReservationHeld, Claiming,
     Awaited, NoClaim, TypeMaps, TypeHist, SpawnAlone, Solo, Calm, CloseHits,
     CloseCalled
<1>11. ASSUME NEW l \in Launches, Register(l) PROVE CloseHits'
  BY <1>11, ActorsAssumption DEF Register, Write, Registered, TypeOK, TypeTasks, Actors,
     Shape, LaunchShape, Bringing, Returning, Busy, Exclusive, ReservationHeld,
     Claiming, Awaited, NoClaim, TypeMaps, TypeHist, SpawnAlone, Solo, Calm, CloseHits,
     CloseCalled
<1>12. ASSUME NEW l \in Launches, GoLive(l) PROVE CloseHits'
  BY <1>12, ActorsAssumption DEF GoLive, Killed, TypeOK, TypeTasks, Actors, Shape,
     LaunchShape, Bringing, Returning, Busy, Exclusive, ReservationHeld, Claiming,
     Awaited, NoClaim, TypeMaps, TypeHist, SpawnAlone, Solo, Calm, CloseHits,
     CloseCalled
<1>13. ASSUME NEW l \in Launches, Release(l) PROVE CloseHits'
  BY <1>13, ActorsAssumption DEF Release, TypeOK, TypeTasks, Actors, Shape, LaunchShape,
     Bringing, Returning, Busy, Exclusive, ReservationHeld, Claiming, Awaited, NoClaim,
     TypeMaps, TypeHist, SpawnAlone, Solo, Calm, CloseHits, CloseCalled
<1>14. ASSUME NEW l \in Launches, Start(l) PROVE CloseHits'
  BY <1>14, ActorsAssumption DEF Start, StartRefused, TypeOK, TypeTasks, Actors, Shape,
     LaunchShape, Bringing, Returning, Busy, Exclusive, ReservationHeld, Claiming,
     Awaited, NoClaim, TypeMaps, TypeHist, SpawnAlone, Solo, Calm, CloseHits,
     CloseCalled
<1>15. ASSUME NEW l \in Launches, Failing(l) PROVE CloseHits'
  BY <1>15, ActorsAssumption DEF Failing, DropsClaim, AfterError, TypeOK, TypeTasks,
     Actors, Shape, LaunchShape, Bringing, Returning, Busy, Exclusive, ReservationHeld,
     Claiming, Awaited, NoClaim, TypeMaps, TypeHist, SpawnAlone, Solo, Calm, CloseHits,
     CloseCalled
<1>16. ASSUME NEW l \in Launches, Restore(l) PROVE CloseHits'
  BY <1>16, ActorsAssumption DEF Restore, Write, ParkedBy, TypeOK, TypeTasks, Actors,
     Shape, LaunchShape, Bringing, Returning, Busy, Exclusive, ReservationHeld,
     Claiming, Awaited, NoClaim, TypeMaps, TypeHist, SpawnAlone, Solo, Calm, CloseHits,
     CloseCalled
<1>17. ASSUME NEW l \in Launches, Park(l) PROVE CloseHits'
  BY <1>17, ActorsAssumption DEF Park, Write, ParkedBy, TypeOK, TypeTasks, Actors,
     Shape, LaunchShape, Bringing, Returning, Busy, Exclusive, ReservationHeld,
     Claiming, Awaited, NoClaim, TypeMaps, TypeHist, SpawnAlone, Solo, Calm, CloseHits,
     CloseCalled
<1>18. ASSUME NEW e \in Ends, EndTarget(e) PROVE CloseHits'
  <2>1. \A l \in Launches : pc'[l] = pc[l] /\ kind'[l] = kind[l]
    BY <1>18, ActorsAssumption DEF EndTarget, Shape, TypeOK, TypeTasks, Actors
  <2>2. live' = None
    BY <1>18 DEF EndTarget
  <2>3. reserved.closed => reserved'.closed
    BY <1>18, EndMarks DEF Shape
  <2> SUFFICES ASSUME NEW l \in Launches, pc[l] \in Bringing
             PROVE  reserved'.closed \/ pc[l] = "release"
    BY <2>1, <2>2, ActorsAssumption DEF CloseHits, Actors
  <2>4. live = None \/ (live = l /\ pc[l] = "release")
    BY DEF Solo, Bringing
  <2>5. kind[l] # "spawn"
    BY <1>18 DEF EndTarget, Addressable, Shape, LaunchShape, Bringing
  <2>6. reserved.held
    BY <2>5 DEF Exclusive, ReservationHeld, Claiming, Bringing
  <2> QED
    BY <1>18, <2>4, <2>6, EndMarks DEF Shape
<1>19. ASSUME NEW a \in Actors, Kill(a) PROVE CloseHits'
  BY <1>19, ActorsAssumption DEF Kill, Killed, TypeOK, TypeTasks, Actors, Shape,
     LaunchShape, Bringing, Returning, Busy, Exclusive, ReservationHeld, Claiming,
     Awaited, NoClaim, TypeMaps, TypeHist, SpawnAlone, Solo, Calm, CloseHits,
     CloseCalled
<1>20. ASSUME NEW a \in Actors, Persist(a) PROVE CloseHits'
  <2>1. UNCHANGED <<entry, live, reserved, boot, kind, victim, drops, alive, closing, status, since>>
        /\ disk' = entry /\ writer' = None /\ writer = a
    BY <1>20 DEF Persist
  <2>2. CloseCalled' => CloseCalled
    BY <1>20 DEF Persist, CloseCalled
  <2>3. \A l \in Launches : pc'[l] \in Bringing => pc[l] \in Bringing
    BY <1>20, PersistMoves DEF Bringing
  <2>4. \A l \in Launches : pc[l] = "release" <=> pc'[l] = "release"
    BY <1>20, PersistMoves
  <2> QED
    BY <2>1, <2>2, <2>3, <2>4 DEF CloseHits, Shape, TypeOK, TypeMaps
<1>21. CASE ResumeMarked
  BY <1>21, ActorsAssumption DEF ResumeMarked, TypeOK, TypeTasks, Actors, Shape,
     LaunchShape, Bringing, Returning, Busy, Exclusive, ReservationHeld, Claiming,
     Awaited, NoClaim, TypeMaps, TypeHist, SpawnAlone, Solo, Calm, CloseHits,
     CloseCalled
<1>22. CASE Crash
  BY <1>22, ActorsAssumption DEF Crash, TypeOK, TypeTasks, Actors, Shape, LaunchShape,
     Bringing, Returning, Busy, Exclusive, ReservationHeld, Claiming, Awaited, NoClaim,
     TypeMaps, TypeHist, SpawnAlone, Solo, Calm, CloseHits, CloseCalled
<1>23. CASE Serve \/ UNCHANGED vars
  BY <1>23, ActorsAssumption DEF Serve, vars, TypeOK, TypeTasks, Actors, Shape,
     LaunchShape, Bringing, Returning, Busy, Exclusive, ReservationHeld, Claiming,
     Awaited, NoClaim, TypeMaps, TypeHist, SpawnAlone, Solo, Calm, CloseHits,
     CloseCalled
<1> QED
  BY <1>1, <1>2, <1>3, <1>4, <1>5, <1>6, <1>7, <1>8, <1>9, <1>10, <1>11, <1>12, <1>13,
     <1>14, <1>15, <1>16, <1>17, <1>18, <1>19, <1>20, <1>21, <1>22, <1>23 DEF Next,
     LaunchStep, EndStep

\* Nothing schedules a session again after its close.
LEMMA ClearedStep ==
    ASSUME "overlap" \notin Events, "early" \notin Events, Shape, Exclusive, Told,
       SpawnAlone, Solo, Fresh, Owned, Calm, CloseHits, Cleared, [Next]_vars
    PROVE  Cleared'
<1> USE DEF daemonVars, regVars, taskVars, subVars, histVars
<1>1. ASSUME NEW l \in Launches, Die(l) PROVE Cleared'
  BY <1>1, ActorsAssumption DEF Die, TypeOK, TypeTasks, Actors, TypeMaps, TypeRegistry,
     TypeHist, Shape, EndShape, Cleared, Clean
<1>2. ASSUME NEW l \in Launches, ReadParked(l) PROVE Cleared'
  BY <1>2, ActorsAssumption DEF ReadParked, Husk, TypeOK, TypeTasks, Actors, TypeMaps,
     TypeRegistry, TypeHist, Shape, EndShape, Cleared, Clean
<1>3. ASSUME NEW l \in Launches, Spawn(l) PROVE Cleared'
  BY <1>3, ActorsAssumption DEF Spawn, TypeOK, TypeTasks, Actors, TypeMaps,
     TypeRegistry, TypeHist, Shape, EndShape, Cleared, Clean
<1>4. ASSUME NEW l \in Launches, ConfigFails(l) PROVE Cleared'
  BY <1>4, ActorsAssumption DEF ConfigFails, TypeOK, TypeTasks, Actors, TypeMaps,
     TypeRegistry, TypeHist, Shape, EndShape, Cleared, Clean
<1>5. ASSUME NEW l \in Launches, Adopt(l) PROVE Cleared'
  BY <1>5, ActorsAssumption DEF Adopt, Preflight, ClaimFree, Husk, AfterError,
     Addressable, TypeOK, TypeTasks, Actors, TypeMaps, TypeRegistry, TypeHist, Shape,
     EndShape, Cleared, Clean
<1>6. ASSUME NEW l \in Launches, Resume(l) PROVE Cleared'
  BY <1>6, ActorsAssumption DEF Resume, Preflight, ClaimFree, Husk, AfterError, TypeOK,
     TypeTasks, Actors, TypeMaps, TypeRegistry, TypeHist, Shape, EndShape, Cleared,
     Clean
<1>7. ASSUME NEW l \in Launches, Reap(l) PROVE Cleared'
  BY <1>7, ActorsAssumption DEF Reap, Killed, TypeOK, TypeTasks, Actors, TypeMaps,
     TypeRegistry, TypeHist, Shape, EndShape, Cleared, Clean
<1>8. ASSUME NEW l \in Launches, Connect(l) PROVE Cleared'
  BY <1>8, ActorsAssumption DEF Connect, TypeOK, TypeTasks, Actors, TypeMaps,
     TypeRegistry, TypeHist, Shape, EndShape, Cleared, Clean
<1>9. ASSUME NEW l \in Launches, Abort(l) PROVE Cleared'
  BY <1>9, ActorsAssumption DEF Abort, Killed, TypeOK, TypeTasks, Actors, TypeMaps,
     TypeRegistry, TypeHist, Shape, EndShape, Cleared, Clean
<1>10. ASSUME NEW l \in Launches, Register(l) PROVE Cleared'
  BY <1>10, ActorsAssumption DEF Register, Write, Registered, TypeOK, TypeTasks, Actors,
     TypeMaps, TypeRegistry, TypeHist, Shape, EndShape, Cleared, Clean
<1>11. ASSUME NEW l \in Launches, GoLive(l) PROVE Cleared'
  BY <1>11, ActorsAssumption DEF GoLive, Killed, TypeOK, TypeTasks, Actors, TypeMaps,
     TypeRegistry, TypeHist, Shape, EndShape, Cleared, Clean
<1>12. ASSUME NEW l \in Launches, Release(l) PROVE Cleared'
  BY <1>12, ActorsAssumption DEF Release, TypeOK, TypeTasks, Actors, TypeMaps,
     TypeRegistry, TypeHist, Shape, EndShape, Cleared, Clean
<1>13. ASSUME NEW l \in Launches, Start(l) PROVE Cleared'
  BY <1>13, ActorsAssumption DEF Start, StartRefused, TypeOK, TypeTasks, Actors,
     TypeMaps, TypeRegistry, TypeHist, Shape, EndShape, Cleared, Clean
<1>14. ASSUME NEW l \in Launches, Failing(l) PROVE Cleared'
  BY <1>14, ActorsAssumption DEF Failing, DropsClaim, AfterError, TypeOK, TypeTasks,
     Actors, TypeMaps, TypeRegistry, TypeHist, Shape, EndShape, Cleared, Clean
<1>15. ASSUME NEW l \in Launches, Restore(l) PROVE Cleared'
  <2>1. ~closed /\ since = {}
    BY <1>15 DEF Restore, Calm, Shape, LaunchShape, Returned
  <2>2. UNCHANGED <<closed, since>>
    BY <1>15 DEF Restore
  <2> QED
    BY <2>1, <2>2 DEF Cleared
<1>16. ASSUME NEW l \in Launches, NoteFailure(l) PROVE Cleared'
  <2>1. UNCHANGED <<kind, pc, disk, since, closed>> /\ writer = None /\ writer' = l
    BY <1>16 DEF NoteFailure, Write
  <2>2. entry \in [known : BOOLEAN, parked : BOOLEAN, mark : BOOLEAN]
    BY EntryFields DEF Shape, TypeOK, TypeRegistry
  <2>3. Clean(entry) => Clean(entry')
    BY <1>16, <2>2 DEF NoteFailure, Write, Clean
  <2>4. \A e \in since : e # l
    BY ActorsAssumption DEF Shape, TypeOK, TypeHist
  <2> QED
    BY <2>1, <2>3, <2>4 DEF Cleared, Clean
<1>17. ASSUME NEW l \in Launches, Park(l) PROVE Cleared'
  BY <1>17, ActorsAssumption DEF Park, Write, ParkedBy, TypeOK, TypeTasks, Actors,
     TypeMaps, TypeRegistry, TypeHist, Shape, EndShape, Cleared, Clean, Owned,
     CloseHits, CloseCalled
<1>18. ASSUME NEW e \in Ends, EndTarget(e) PROVE Cleared'
  <2>1. UNCHANGED <<entry, disk, writer, closed>> /\ since' = since \cup {e} /\ pc[e] = "new"
    BY <1>18 DEF EndTarget
  <2>2. \A d \in Ends \ {e} : pc'[d] = pc[d] /\ kind'[d] = kind[d]
    BY <1>18 DEF EndTarget, Shape, TypeOK, TypeTasks, Actors
  <2>3. writer # e
    BY <2>1, ActorsAssumption DEF Shape, WriterShape, Actors
  <2>4. PICK k \in {"close", "forget"} :
             /\ kind' = [kind EXCEPT ![e] = k]
             /\ pc'[e] = "kill" => k # "close"
    BY <1>18 DEF EndTarget, Shape, TypeOK, TypeTasks, Actors
  <2>5. kind'[e] = "close" => pc'[e] # "kill"
    BY <2>4 DEF Shape, TypeOK, TypeTasks, Actors
  <2> QED
    BY <2>1, <2>2, <2>3, <2>5 DEF Cleared, Clean, Shape, TypeOK, TypeHist
<1>19. ASSUME NEW a \in Actors, Unschedule(a) PROVE Cleared'
  BY <1>19, ActorsAssumption DEF Unschedule, Write, Unscheduled, TypeOK, TypeTasks,
     Actors, TypeMaps, TypeRegistry, TypeHist, Shape, EndShape, Cleared, Clean
<1>20. ASSUME NEW a \in Actors, Kill(a) PROVE Cleared'
  BY <1>20, ActorsAssumption DEF Kill, Killed, TypeOK, TypeTasks, Actors, TypeMaps,
     TypeRegistry, TypeHist, Shape, EndShape, Cleared, Clean
<1>21. ASSUME NEW a \in Actors, Unregister(a) PROVE Cleared'
  BY <1>21, ActorsAssumption DEF Unregister, Write, NoEntry, TypeOK, TypeTasks, Actors,
     TypeMaps, TypeRegistry, TypeHist, Shape, EndShape, Cleared, Clean
<1>22. ASSUME NEW a \in Actors, Persist(a) PROVE Cleared'
  <2>1. UNCHANGED <<entry, live, reserved, boot, kind, victim, drops, alive, closing, status, since>>
        /\ disk' = entry /\ writer' = None /\ writer = a
    BY <1>22 DEF Persist
  <2>2. \A e \in Ends : e # a => pc'[e] = pc[e]
    BY <1>22 DEF Persist, Shape, TypeOK, TypeTasks, Actors
  <2>3. \A e \in since : e \in Ends
    BY DEF Shape, TypeOK, TypeHist
  <2>4. a \in since /\ kind[a] = "close" => Clean(entry)
    BY <1>22, <2>1, <2>3, PersistWrites DEF Cleared, Shape, EndShape
  <2>5. closed' => closed \/ (a \in since /\ kind[a] = "close")
    BY <1>22 DEF Persist
  <2>6. closed' => Clean(entry)
    BY <2>4, <2>5 DEF Cleared
  <2>7. ASSUME NEW e \in since, kind[e] = "close", pc'[e] = "kill" PROVE Clean(entry)
    BY <2>2, <2>3, <2>4, <2>7 DEF Cleared
  <2> QED
    BY <2>1, <2>3, <2>6, <2>7, ActorsAssumption DEF Cleared, Clean, Actors
<1>23. CASE ResumeMarked
  BY <1>23, ActorsAssumption DEF ResumeMarked, TypeOK, TypeTasks, Actors, TypeMaps,
     TypeRegistry, TypeHist, Shape, EndShape, Cleared, Clean
<1>24. CASE Crash
  BY <1>24, ActorsAssumption DEF Crash, TypeOK, TypeTasks, Actors, TypeMaps,
     TypeRegistry, TypeHist, Shape, EndShape, Cleared, Clean
<1>25. CASE Serve \/ UNCHANGED vars
  BY <1>25, ActorsAssumption DEF Serve, vars, TypeOK, TypeTasks, Actors, TypeMaps,
     TypeRegistry, TypeHist, Shape, EndShape, Cleared, Clean
<1> QED
  BY <1>1, <1>2, <1>3, <1>4, <1>5, <1>6, <1>7, <1>8, <1>9, <1>10, <1>11, <1>12, <1>13,
     <1>14, <1>15, <1>16, <1>17, <1>18, <1>19, <1>20, <1>21, <1>22, <1>23, <1>24, <1>25
     DEF Next, LaunchStep, EndStep

\* A forget's entry is gone, or a launch is about to remove it.
LEMMA RemovedStep ==
    ASSUME "overlap" \notin Events, "early" \notin Events, Shape, Exclusive, Told,
       SpawnAlone, Solo, Calm, Removed, [Next]_vars
    PROVE  Removed'
<1> USE DEF daemonVars, regVars, taskVars, subVars, histVars
<1>1. ASSUME NEW l \in Launches, Die(l) PROVE Removed'
  BY <1>1, ActorsAssumption DEF Die, TypeOK, TypeTasks, Actors, Shape, LaunchShape,
     Bringing, Returning, Busy, Exclusive, ReservationHeld, Claiming, Awaited, NoClaim,
     TypeMaps, TypeRegistry, TypeHist, WriterShape, SpawnAlone, Solo, Calm, Removed,
     ForgetCalled, WillDrop
<1>2. ASSUME NEW l \in Launches, ReadParked(l) PROVE Removed'
  BY <1>2, ActorsAssumption DEF ReadParked, Husk, TypeOK, TypeTasks, Actors, Shape,
     LaunchShape, Bringing, Returning, Busy, Exclusive, ReservationHeld, Claiming,
     Awaited, NoClaim, TypeMaps, TypeRegistry, TypeHist, WriterShape, SpawnAlone, Solo,
     Calm, Removed, ForgetCalled, WillDrop
<1>3. ASSUME NEW l \in Launches, Spawn(l) PROVE Removed'
  BY <1>3, ActorsAssumption DEF Spawn, TypeOK, TypeTasks, Actors, Shape, LaunchShape,
     Bringing, Returning, Busy, Exclusive, ReservationHeld, Claiming, Awaited, NoClaim,
     TypeMaps, TypeRegistry, TypeHist, WriterShape, SpawnAlone, Solo, Calm, Removed,
     ForgetCalled, WillDrop
<1>4. ASSUME NEW l \in Launches, ConfigFails(l) PROVE Removed'
  BY <1>4, ActorsAssumption DEF ConfigFails, TypeOK, TypeTasks, Actors, Shape,
     LaunchShape, Bringing, Returning, Busy, Exclusive, ReservationHeld, Claiming,
     Awaited, NoClaim, TypeMaps, TypeRegistry, TypeHist, WriterShape, SpawnAlone, Solo,
     Calm, Removed, ForgetCalled, WillDrop
<1>5. ASSUME NEW l \in Launches, Adopt(l) PROVE Removed'
  BY <1>5, ActorsAssumption DEF Adopt, Preflight, ClaimFree, Husk, AfterError,
     Addressable, TypeOK, TypeTasks, Actors, Shape, LaunchShape, Bringing, Returning,
     Busy, Exclusive, ReservationHeld, Claiming, Awaited, NoClaim, TypeMaps,
     TypeRegistry, TypeHist, WriterShape, SpawnAlone, Solo, Calm, Removed, ForgetCalled,
     WillDrop
<1>6. ASSUME NEW l \in Launches, Resume(l) PROVE Removed'
  BY <1>6, ActorsAssumption DEF Resume, Preflight, ClaimFree, Husk, AfterError, TypeOK,
     TypeTasks, Actors, Shape, LaunchShape, Bringing, Returning, Busy, Exclusive,
     ReservationHeld, Claiming, Awaited, NoClaim, TypeMaps, TypeRegistry, TypeHist,
     WriterShape, SpawnAlone, Solo, Calm, Removed, ForgetCalled, WillDrop
<1>7. ASSUME NEW l \in Launches, Reap(l) PROVE Removed'
  BY <1>7, ActorsAssumption DEF Reap, Killed, TypeOK, TypeTasks, Actors, Shape,
     LaunchShape, Bringing, Returning, Busy, Exclusive, ReservationHeld, Claiming,
     Awaited, NoClaim, TypeMaps, TypeRegistry, TypeHist, WriterShape, SpawnAlone, Solo,
     Calm, Removed, ForgetCalled, WillDrop
<1>8. ASSUME NEW l \in Launches, Connect(l) PROVE Removed'
  BY <1>8, ActorsAssumption DEF Connect, TypeOK, TypeTasks, Actors, Shape, LaunchShape,
     Bringing, Returning, Busy, Exclusive, ReservationHeld, Claiming, Awaited, NoClaim,
     TypeMaps, TypeRegistry, TypeHist, WriterShape, SpawnAlone, Solo, Calm, Removed,
     ForgetCalled, WillDrop
<1>9. ASSUME NEW l \in Launches, Abort(l) PROVE Removed'
  BY <1>9, ActorsAssumption DEF Abort, Killed, TypeOK, TypeTasks, Actors, Shape,
     LaunchShape, Bringing, Returning, Busy, Exclusive, ReservationHeld, Claiming,
     Awaited, NoClaim, TypeMaps, TypeRegistry, TypeHist, WriterShape, SpawnAlone, Solo,
     Calm, Removed, ForgetCalled, WillDrop
<1>10. ASSUME NEW l \in Launches, Register(l) PROVE Removed'
  BY <1>10, ActorsAssumption DEF Register, Write, Registered, TypeOK, TypeTasks, Actors,
     Shape, LaunchShape, Bringing, Returning, Busy, Exclusive, ReservationHeld,
     Claiming, Awaited, NoClaim, TypeMaps, TypeRegistry, TypeHist, WriterShape,
     SpawnAlone, Solo, Calm, Removed, ForgetCalled, WillDrop
<1>11. ASSUME NEW l \in Launches, GoLive(l) PROVE Removed'
  BY <1>11, ActorsAssumption DEF GoLive, Killed, TypeOK, TypeTasks, Actors, Shape,
     LaunchShape, Bringing, Returning, Busy, Exclusive, ReservationHeld, Claiming,
     Awaited, NoClaim, TypeMaps, TypeRegistry, TypeHist, WriterShape, SpawnAlone, Solo,
     Calm, Removed, ForgetCalled, WillDrop
<1>12. ASSUME NEW l \in Launches, Release(l) PROVE Removed'
  BY <1>12, ActorsAssumption DEF Release, TypeOK, TypeTasks, Actors, Shape, LaunchShape,
     Bringing, Returning, Busy, Exclusive, ReservationHeld, Claiming, Awaited, NoClaim,
     TypeMaps, TypeRegistry, TypeHist, WriterShape, SpawnAlone, Solo, Calm, Removed,
     ForgetCalled, WillDrop
<1>13. ASSUME NEW l \in Launches, Start(l) PROVE Removed'
  BY <1>13, ActorsAssumption DEF Start, StartRefused, TypeOK, TypeTasks, Actors, Shape,
     LaunchShape, Bringing, Returning, Busy, Exclusive, ReservationHeld, Claiming,
     Awaited, NoClaim, TypeMaps, TypeRegistry, TypeHist, WriterShape, SpawnAlone, Solo,
     Calm, Removed, ForgetCalled, WillDrop
<1>14. ASSUME NEW l \in Launches, Failing(l) PROVE Removed'
  BY <1>14, ActorsAssumption DEF Failing, DropsClaim, AfterError, TypeOK, TypeTasks,
     Actors, Shape, LaunchShape, Bringing, Returning, Busy, Exclusive, ReservationHeld,
     Claiming, Awaited, NoClaim, TypeMaps, TypeRegistry, TypeHist, WriterShape,
     SpawnAlone, Solo, Calm, Removed, ForgetCalled, WillDrop
<1>15. ASSUME NEW l \in Launches, Restore(l) PROVE Removed'
  <2>1. UNCHANGED <<reserved, drops, forgot, since, kind, disk>> /\ pc[l] = "restore"
    BY <1>15 DEF Restore, Write
  <2>2. entry'.known = entry.known
    BY <1>15, EntryFields DEF Restore, Write, ParkedBy, Shape, TypeOK, TypeRegistry
  <2>3. pc'[l] \in {"park", "done"} /\ \A k \in Actors \ {l} : pc'[k] = pc[k]
    BY <1>15 DEF Restore, Shape, TypeOK, TypeTasks, Actors
  <2>4. \A k \in Launches : WillDrop(k) => WillDrop(k)'
    BY <2>1, <2>3 DEF WillDrop, Actors
  <2>5. writer' = writer \/ writer' = l
    BY <1>15 DEF Restore, Write
  <2>6. writer' # None => (pc'[writer'] = "unregister" => ~entry'.known)
    BY <2>2, <2>3, <2>5, ActorsAssumption DEF Removed, Shape, TypeOK, TypeRegistry
  <2>7. ForgetCalled' => ForgetCalled
    BY <2>1 DEF ForgetCalled
  <2> QED
    BY <2>1, <2>2, <2>3, <2>4, <2>6, <2>7 DEF Removed, Actors
<1>16. ASSUME NEW l \in Launches, NoteFailure(l) PROVE Removed'
  BY <1>16, ActorsAssumption DEF NoteFailure, Write, TypeOK, TypeTasks, Actors, Shape,
     LaunchShape, Bringing, Returning, Busy, Exclusive, ReservationHeld, Claiming,
     Awaited, NoClaim, TypeMaps, TypeRegistry, TypeHist, WriterShape, SpawnAlone, Solo,
     Calm, Removed, ForgetCalled, WillDrop
<1>17. ASSUME NEW l \in Launches, Park(l) PROVE Removed'
  BY <1>17, ActorsAssumption DEF Park, Write, ParkedBy, TypeOK, TypeTasks, Actors,
     Shape, LaunchShape, Bringing, Returning, Busy, Exclusive, ReservationHeld,
     Claiming, Awaited, NoClaim, TypeMaps, TypeRegistry, TypeHist, WriterShape,
     SpawnAlone, Solo, Calm, Removed, ForgetCalled, WillDrop
<1>18. ASSUME NEW e \in Ends, EndTarget(e) PROVE Removed'
  <2>1. \A l \in Launches : pc'[l] = pc[l] /\ kind'[l] = kind[l] /\ drops'[l] = drops[l]
    BY <1>18, ActorsAssumption DEF EndTarget, Shape, TypeOK, TypeTasks, Actors
  <2>2. UNCHANGED <<entry, disk, writer, forgot>> /\ since' = since \cup {e} /\ pc[e] = "new"
    BY <1>18 DEF EndTarget
  <2>3. (reserved.forgotten => reserved'.forgotten) /\ (reserved'.forgotten => reserved'.closed)
    BY <1>18, EndMarks DEF Removed, Shape
  <2>4. \A l \in Launches : WillDrop(l) => WillDrop(l)'
    BY <2>1, <2>3 DEF WillDrop
  <2>5. writer # e
    BY <2>2, ActorsAssumption DEF Shape, WriterShape, Actors
  <2>6. writer # None => pc'[writer] = pc[writer]
    BY <1>18, <2>5 DEF EndTarget, Shape, TypeOK, TypeRegistry, TypeTasks
  <2>7. ASSUME ForgetCalled', NEW l \in Launches, pc[l] \in {"reap", "connect", "handshake"}
        PROVE  reserved'.forgotten
    <3>1. \A d \in since : d # e /\ kind'[d] = kind[d]
      BY <1>18, <2>2 DEF Calm, EndTarget, Shape, TypeOK, TypeTasks, TypeHist, Actors
    <3>2. ForgetCalled \/ kind'[e] = "forget"
      BY <2>2, <2>7, <3>1 DEF ForgetCalled
    <3>3. CASE ForgetCalled
      BY <2>3, <2>7, <3>3 DEF Removed
    <3>4. CASE kind'[e] = "forget"
      <4>1. live = None
        BY <2>7 DEF Solo, Bringing
      <4>2. kind[l] # "spawn"
        BY <1>18, <2>7 DEF EndTarget, Addressable, Shape, LaunchShape
      <4>3. reserved.held
        BY <2>7, <4>2 DEF Exclusive, ReservationHeld, Claiming
      <4> QED
        BY <1>18, <3>4, <4>1, <4>3, EndMarks DEF Shape
    <3> QED
      BY <3>2, <3>3, <3>4
  <2> QED
    BY <2>1, <2>2, <2>3, <2>4, <2>6, <2>7 DEF Removed
<1>19. ASSUME NEW a \in Actors, Unschedule(a) PROVE Removed'
  BY <1>19, ActorsAssumption DEF Unschedule, Write, Unscheduled, TypeOK, TypeTasks,
     Actors, Shape, LaunchShape, Bringing, Returning, Busy, Exclusive, ReservationHeld,
     Claiming, Awaited, NoClaim, TypeMaps, TypeRegistry, TypeHist, WriterShape,
     SpawnAlone, Solo, Calm, Removed, ForgetCalled, WillDrop
<1>20. ASSUME NEW a \in Actors, Kill(a) PROVE Removed'
  BY <1>20, ActorsAssumption DEF Kill, Killed, TypeOK, TypeTasks, Actors, Shape,
     LaunchShape, Bringing, Returning, Busy, Exclusive, ReservationHeld, Claiming,
     Awaited, NoClaim, TypeMaps, TypeRegistry, TypeHist, WriterShape, SpawnAlone, Solo,
     Calm, Removed, ForgetCalled, WillDrop
<1>21. ASSUME NEW a \in Actors, Unregister(a) PROVE Removed'
  BY <1>21, ActorsAssumption DEF Unregister, Write, NoEntry, TypeOK, TypeTasks, Actors,
     Shape, LaunchShape, Bringing, Returning, Busy, Exclusive, ReservationHeld,
     Claiming, Awaited, NoClaim, TypeMaps, TypeRegistry, TypeHist, WriterShape,
     SpawnAlone, Solo, Calm, Removed, ForgetCalled, WillDrop
<1>22. ASSUME NEW a \in Actors, Persist(a) PROVE Removed'
  <2>1. UNCHANGED <<entry, live, reserved, boot, kind, victim, drops, alive, closing, status, since>>
        /\ disk' = entry /\ writer' = None /\ writer = a
    BY <1>22 DEF Persist
  <2>2. \A l \in Launches : pc'[l] \in {"reap", "connect", "handshake"} => pc'[l] = pc[l]
    BY <1>22, PersistMoves
  <2>3. ForgetCalled' => ForgetCalled
    BY <1>22 DEF Persist, ForgetCalled
  <2>4. pc[a] = "unregister" => ~entry.known
    BY <2>1, ActorsAssumption DEF Removed, Actors
  <2>5. \A l \in Launches : WillDrop(l) => WillDrop(l)' \/ (l = a /\ pc[a] = "unregister")
    BY <1>22, <2>1, PersistMoves DEF WillDrop
  <2>6. forgot' => forgot \/ pc[a] = "unregister"
    BY <1>22, PersistWrites DEF Persist, Shape, TypeOK, TypeHist, EndShape
  <2>7. forgot' => (~entry.known \/ \E l \in Launches : WillDrop(l)')
    BY <2>4, <2>5, <2>6 DEF Removed
  <2> QED
    BY <2>1, <2>2, <2>3, <2>7 DEF Removed
<1>23. CASE ResumeMarked
  BY <1>23, ActorsAssumption DEF ResumeMarked, TypeOK, TypeTasks, Actors, Shape,
     LaunchShape, Bringing, Returning, Busy, Exclusive, ReservationHeld, Claiming,
     Awaited, NoClaim, TypeMaps, TypeRegistry, TypeHist, WriterShape, SpawnAlone, Solo,
     Calm, Removed, ForgetCalled, WillDrop
<1>24. CASE Crash
  BY <1>24, ActorsAssumption DEF Crash, TypeOK, TypeTasks, Actors, Shape, LaunchShape,
     Bringing, Returning, Busy, Exclusive, ReservationHeld, Claiming, Awaited, NoClaim,
     TypeMaps, TypeRegistry, TypeHist, WriterShape, SpawnAlone, Solo, Calm, Removed,
     ForgetCalled, WillDrop
<1>25. CASE Serve \/ UNCHANGED vars
  BY <1>25, ActorsAssumption DEF Serve, vars, TypeOK, TypeTasks, Actors, Shape,
     LaunchShape, Bringing, Returning, Busy, Exclusive, ReservationHeld, Claiming,
     Awaited, NoClaim, TypeMaps, TypeRegistry, TypeHist, WriterShape, SpawnAlone, Solo,
     Calm, Removed, ForgetCalled, WillDrop
<1> QED
  BY <1>1, <1>2, <1>3, <1>4, <1>5, <1>6, <1>7, <1>8, <1>9, <1>10, <1>11, <1>12, <1>13,
     <1>14, <1>15, <1>16, <1>17, <1>18, <1>19, <1>20, <1>21, <1>22, <1>23, <1>24, <1>25
     DEF Next, LaunchStep, EndStep

-----------------------------------------------------------------------------
(* The theorems *)

\* The first daemon starts with nothing but a registry file.
LEMMA InitShape ==
    ASSUME Init PROVE Shape
<1>1. TypeOK
  BY EntryFields, ClaimFields DEF Init, TypeOK, TypeMaps, TypeRegistry, TypeTasks, TypeSubs,
     TypeHist, Actors, PCs, Kinds, NoClaim
<1>2. LaunchShape /\ EndShape /\ WriterShape /\ ClaimOwned
  BY DEF Init, LaunchShape, EndShape, WriterShape, ClaimOwned, NoClaim, Actors
<1> QED
  BY <1>1, <1>2 DEF Shape

\* ... nobody launching, live or closed.
LEMMA InitRest ==
    ASSUME Init
    PROVE  /\ Exclusive /\ Told /\ SpawnAlone /\ Solo /\ Fresh /\ Owned /\ Calm
           /\ CloseHits /\ Cleared /\ Removed
<1> USE DEF Init
<1>1. Exclusive /\ Told
  BY DEF Exclusive, Told, Busy, ReservationHeld, Claiming, Bringing, Returning, Actors
<1>2. SpawnAlone /\ Solo /\ Fresh /\ Owned
  BY DEF SpawnAlone, Solo, Fresh, Owned, Bringing, Returning, Actors
<1>3. Calm /\ CloseHits
  BY DEF Calm, CloseHits, CloseCalled, Bringing, Returning, Returned, Actors
<1>4. Cleared /\ Removed
  BY DEF Cleared, Removed, ForgetCalled, NoClaim, Actors
<1> QED
  BY <1>1, <1>2, <1>3, <1>4

\* Whatever may go wrong: types and shapes.
LEMMA ShapeInvariant == Spec => []Shape
<1>1. ASSUME Shape, [Next]_vars PROVE Shape'
  BY <1>1, TypeStep, LaunchShapeStep, EndShapeStep, WriterShapeStep, ClaimOwnedStep DEF Shape
<1> QED
  BY InitShape, <1>1, PTL DEF Spec

\* Every variable of the daemon, of its tasks and of the registry has its
\* type, whatever goes wrong: a claim that is not held carries no mark, and
\* no schedule outlives its registry entry.
THEOREM LifecycleTypeCorrect == Spec => []TypeOK
<1>1. Shape => TypeOK
  BY DEF Shape
<1> QED
  BY ShapeInvariant, <1>1, PTL

\* A claim on the id does not outlive its launch, whatever goes wrong: there
\* always is a launch that will drop it (launch's release or error return).
THEOREM NoLeakedClaimHolds == Spec => []NoLeakedClaim
<1>1. Shape => NoLeakedClaim
  BY DEF Shape, ClaimOwned, NoLeakedClaim, Claiming, Bringing
<1> QED
  BY ShapeInvariant, <1>1, PTL

\* What launches that wait for one another keep.
LEMMA ExclusiveInvariant ==
    ASSUME "overlap" \notin Events
    PROVE  Spec => [](Shape /\ Exclusive /\ Told)
<1>1. Init => Exclusive /\ Told
  BY InitRest
<1>2. Shape /\ Exclusive /\ Told /\ [Next]_vars => Exclusive' /\ Told'
  BY ExclusiveStep, ToldStep
<1> QED
  BY ShapeInvariant, <1>1, <1>2, PTL DEF Spec

\* release_reservation finds the claim it `expect`s, however ends, failures,
\* crashes and early callers interleave with the launch, as long as no launch
\* claims the id while another has yet to return.
THEOREM ReservationHeldHolds ==
    ASSUME "overlap" \notin Events PROVE Spec => []ReservationHeld
<1>1. Exclusive => ReservationHeld
  BY DEF Exclusive
<1> QED
  BY ExclusiveInvariant, <1>1, PTL

\* A close or forget is never overtaken by the launch it hit: past the
\* release of its claim that session is not live.
THEOREM EndNotOvertakenHolds ==
    ASSUME "overlap" \notin Events PROVE Spec => []EndNotOvertaken
<1>1. Told => EndNotOvertaken
  BY DEF Told, EndNotOvertaken
<1> QED
  BY ExclusiveInvariant, <1>1, PTL

\* What holds when nobody calls an id its spawn has not returned, besides.
Alone == SpawnAlone /\ Solo /\ Fresh /\ Owned /\ Calm /\ CloseHits /\ Cleared /\ Removed

LEMMA AloneInvariant ==
    ASSUME "overlap" \notin Events, "early" \notin Events
    PROVE  Spec => [](Shape /\ Exclusive /\ Told /\ Alone)
<1>1. Init => Alone
  BY InitRest DEF Alone
<1>2. Shape /\ Exclusive /\ Told /\ Alone /\ [Next]_vars => Alone'
  <2> SUFFICES ASSUME Shape, Exclusive, Told, Alone, [Next]_vars PROVE Alone'
    OBVIOUS
  <2>1. SpawnAlone /\ Solo /\ Fresh /\ Owned /\ Calm /\ CloseHits /\ Cleared /\ Removed
    BY DEF Alone
  <2>2. SpawnAlone' /\ Solo' /\ Fresh' /\ Owned'
    BY <2>1, SpawnAloneStep, SoloStep, FreshStep, OwnedStep
  <2>3. Calm' /\ CloseHits'
    BY <2>1, CalmStep, CloseHitsStep
  <2>4. Cleared' /\ Removed'
    BY <2>1, ClearedStep, RemovedStep
  <2> QED
    BY <2>2, <2>3, <2>4 DEF Alone
<1> QED
  BY ExclusiveInvariant, <1>1, <1>2, PTL DEF Spec

\* No orphan: an agent process that nobody closes is being launched, or is
\* addressable in `live`, through failures, ends and crashes, unless another
\* caller's turn makes a launch fail after it went live.
THEOREM NoOrphanHolds ==
    ASSUME "overlap" \notin Events, "early" \notin Events, "busy" \notin Events
    PROVE  Spec => []NoOrphan
<1>1. Alone => NoOrphan
  BY DEF Alone, Owned, NoOrphan
<1> QED
  BY AloneInvariant, <1>1, PTL

\* At most one agent process has the session: every other one is dead, or
\* is being closed.
THEOREM OneAgentHolds ==
    ASSUME "overlap" \notin Events, "early" \notin Events, "busy" \notin Events
    PROVE  Spec => []OneAgent
<1>1. Alone => OneAgent
  BY ActorsAssumption DEF Alone, Owned, Solo, OneAgent, Bringing, Actors
<1> QED
  BY AloneInvariant, <1>1, PTL

\* Once a close has returned nothing in the registry, in memory or on disk,
\* brings the session back, across crashes and whoever parks meanwhile.
THEOREM ClosedStaysClosedHolds ==
    ASSUME "overlap" \notin Events, "early" \notin Events
    PROVE  Spec => []ClosedStaysClosed
<1>1. Alone => ClosedStaysClosed
  BY DEF Alone, Cleared, Clean, ClosedStaysClosed
<1> QED
  BY AloneInvariant, <1>1, PTL

\* A forgotten session leaves no registry entry once the launches that were
\* under way have returned, a launch the forget landed on among them.
THEOREM ForgottenGoneHolds ==
    ASSUME "overlap" \notin Events, "early" \notin Events
    PROVE  Spec => []ForgottenGone
<1>1. Alone => ForgottenGone
  BY DEF Alone, Removed, WillDrop, ForgottenGone, Returned
<1> QED
  BY AloneInvariant, <1>1, PTL

=============================================================================
