------------------------------ MODULE Lifecycle ------------------------------
(***************************************************************************)
(* The life of the config entry: set-up, failed set-up, unload and reload, *)
(* and what they start and must stop: services, listeners, the upkeep of   *)
(* the audio cache and the registration of the card and the dashboard with *)
(* Lovelace.  __init__.py, services.py, frontend_registry.py and           *)
(* channel_tts_hume.py.                                                    *)
(*                                                                         *)
(* A set-up waits for storage, threads and Lovelace, and between its steps *)
(* timers fire, notifications are spoken and users edit their dashboard.   *)
(* What a coordinator started may still be running when it is unloaded and *)
(* the next one is set up: each is known by its generation.                *)
(***************************************************************************)
EXTENDS Integers, FiniteSets

CONSTANTS
    Retries,     \* slots for runs of the registration that a timer starts
    Homes,       \* how Lovelace is used: see home
    MaxFiles,    \* files the audio cache keeps
    MaxGen, MaxFailures, MaxEdits, MaxSpoken  \* bounds on set-ups, failures, edits and deliveries

Gens == 1..MaxGen
Main == "main"                 \* the registration that the set-up waits for
Runs == {Main} \cup Retries

ASSUME BoundsAssumption ==
    /\ {MaxFiles, MaxGen, MaxFailures, MaxEdits, MaxSpoken} \subseteq Nat
    /\ Main \notin Retries
    /\ Homes \subseteq {"storage", "yaml", "own", "taken"}

VARIABLES
    op,        \* where the set-up or unload in progress is, or "idle"
    entry,     \* state of the config entry: "out", "loaded" or "stuck"
    gen,       \* the newest coordinator
    coords,    \* DATA_COORDINATORS
    services,  \* services_registered
    listeners, \* the coordinators that listen to events
    reg,       \* DATA_FRONTEND_REGISTRATION, 0 when there is none
    closed,    \* the registrations that are closed
    retry,     \* the registrations whose timer is set
    runs,      \* the registrations in progress
    home,      \* dashboards in storage, in YAML, one written by hand, or the path taken
    lovelace,  \* "absent", "starting" (its dashboards not there yet) or "ready"
    boards,    \* whether its runtime has the dashboard, with its panel
    resource,  \* the card among its resources: "none", "old" or "current"
    fetched,   \* whether these are loaded
    disk,      \* the dashboard in storage: listed, and its layout
    raised,    \* the registrations that an exception ended
    hushed,    \* the audio caches that are shut down
    upkeep,    \* those whose timer is set
    tidy,      \* the upkeep in progress
    speech,    \* the delivery that stores audio
    cache,     \* files in the cache
    failures, edits, spoken \* counters for the bounds
entryVars == <<op, entry, gen, coords, services, listeners>>
frontVars == <<reg, closed, retry, runs, raised>>
lovelaceVars == <<home, lovelace, boards, resource, fetched, disk>>
audioVars == <<hushed, upkeep, tidy, speech, cache>>
bounds == <<failures, edits, spoken>>
vars == <<entryVars, frontVars, lovelaceVars, audioVars, bounds>>

None == [pc |-> "none", gen |-> 0]
Quiet == [pc |-> "none", gen |-> 0, card |-> FALSE, late |-> FALSE]

Init ==
    /\ op = "idle" /\ entry = "out" /\ gen = 0 /\ coords = {} /\ services = FALSE /\ listeners = {}
    /\ reg = 0 /\ closed = {} /\ retry = {} /\ runs = [r \in Runs |-> Quiet] /\ raised = {}
    /\ home \in Homes
    /\ lovelace = "absent" /\ fetched = FALSE
    /\ boards = (home = "taken")
    /\ resource \in {"none", "old"}
    /\ disk = [listed |-> FALSE, layout |-> "none"]
    /\ hushed = {} /\ upkeep = {} /\ tidy = None /\ speech = None /\ cache \in 0..MaxFiles + 1
    /\ failures = 0 /\ edits = 0 /\ spoken = 0

Fails == failures < MaxFailures /\ failures' = failures + 1
NoFailure == failures' = failures

-----------------------------------------------------------------------------
(* The audio cache, HeraldHumeTTSChannel.                                  *)

Locked(g) == \E t \in {tidy, speech} : t.pc = "working" /\ t.gen = g
Least(a, b) == IF a < b THEN a ELSE b
Pruned(n) == Least(n, MaxFiles)

\* Mistaken variant: the timer is set again whether the channel is shut down or not.
ScheduledAlways(g) == upkeep \cup {g}

\* _schedule_cleanup
Scheduled(g) == IF g \in hushed THEN upkeep ELSE upkeep \cup {g}

\* The hourly timer fires; it waits for the lock of the cache.
UpkeepFires(g) ==
    /\ g \in upkeep /\ tidy = None
    /\ upkeep' = upkeep \ {g}
    /\ tidy' = IF g \in hushed THEN None ELSE [pc |-> "waiting", gen |-> g]
    /\ UNCHANGED <<entryVars, frontVars, lovelaceVars, hushed, speech, cache, bounds>>

\* A notification is spoken: its audio waits for the lock too.
Speak ==
    /\ coords # {} /\ gen \in listeners /\ speech = None /\ spoken < MaxSpoken
    /\ spoken' = spoken + 1
    /\ speech' = [pc |-> "waiting", gen |-> gen]
    /\ UNCHANGED <<entryVars, frontVars, lovelaceVars, hushed, upkeep, tidy, cache, failures, edits>>

TakeLock ==
    /\ \/ tidy.pc = "waiting" /\ ~Locked(tidy.gen) /\ tidy' = [tidy EXCEPT !.pc = "working"] /\ UNCHANGED speech
       \/ speech.pc = "waiting" /\ ~Locked(speech.gen) /\ speech' = [speech EXCEPT !.pc = "working"] /\ UNCHANGED tidy
    /\ UNCHANGED <<entryVars, frontVars, lovelaceVars, hushed, upkeep, cache, bounds>>

\* The thread of the upkeep ends, with an OSError or not; the timer is set again.
Tidied ==
    /\ tidy.pc = "working"
    /\ \/ NoFailure /\ cache' = Pruned(cache)
       \/ Fails /\ cache' = cache
    /\ tidy' = None
    /\ upkeep' = Scheduled(tidy.gen)
    /\ UNCHANGED <<entryVars, frontVars, lovelaceVars, hushed, speech, edits, spoken>>

\* The thread that stores audio prunes as well; its delivery goes on and the
\* timer is set if it was not.  When it fails, so does the delivery.
Stored ==
    /\ speech.pc = "working"
    /\ speech' = None
    /\ \/ NoFailure /\ cache' = Pruned(cache + 1) /\ upkeep' = Scheduled(speech.gen)
       \/ Fails /\ cache' \in {cache, cache + 1} /\ UNCHANGED upkeep
    /\ UNCHANGED <<entryVars, frontVars, lovelaceVars, hushed, tidy, edits, spoken>>

-----------------------------------------------------------------------------
(* The registration, HeraldFrontendRegistration.                           *)

\* async_shutdown of the registrations of G: closed, no timer left.
Shut(G) == closed' = closed \cup G /\ retry' = retry \ G

\* Mistaken variant: the handle of the timer is cleared when its run has ended,
\* and until then stands in the way of another timer.
RetryingOnce(g) == IF g \in closed \/ (\E r \in Retries : runs[r].gen = g) THEN retry ELSE retry \cup {g}

\* _async_schedule_retry
Retrying(g) == IF g \in closed THEN retry ELSE retry \cup {g}

\* What the end of a run means for the set-up, when that waits for it.
Ended(r) ==
    /\ runs' = [runs EXCEPT ![r] = Quiet]
    /\ IF r = Main
       THEN op' = "services" /\ reg' = runs[Main].gen
       ELSE UNCHANGED <<op, reg>>
    /\ UNCHANGED <<closed, raised>>

\* An exception: it ends the retries, or the registration of the set-up, which
\* goes on without.
Raises(r) ==
    LET g == runs[r].gen IN
    /\ runs' = [runs EXCEPT ![r] = Quiet]
    /\ raised' = raised \cup {g}
    /\ IF r = Main
       THEN op' = "services" /\ Shut({g})
       ELSE UNCHANGED <<op, closed, retry>>
    /\ UNCHANGED reg

\* Both are there, or another try follows.
Finish(r, card, board) ==
    /\ retry' = IF card /\ board THEN retry \ {runs[r].gen} ELSE Retrying(runs[r].gen)
    /\ Ended(r)

Goes(r, pc, card) ==
    /\ runs' = [runs EXCEPT ![r].pc = pc, ![r].card = card, ![r].late = FALSE]
    /\ UNCHANGED <<op, reg, closed, raised>>

\* _prefer_yaml_dashboard and the first look of _async_register_storage_dashboard.
Settled == home \in {"yaml", "own"} \/ (home = "storage" /\ boards)
Dashboard(r, card, timers) ==
    IF Settled THEN Finish(r, card, TRUE) ELSE Goes(r, "check", card) /\ retry' = timers

\* _async_register_lovelace_artifacts up to its first wait.
Begin(r) ==
    /\ runs[r].pc = "begin"
    /\ CASE runs[r].gen \in closed -> Ended(r) /\ UNCHANGED retry
         [] runs[r].gen \notin closed /\ lovelace = "absent" -> retry' = Retrying(runs[r].gen) /\ Ended(r)
         [] OTHER -> IF home = "yaml" THEN Finish(r, TRUE, TRUE) ELSE Goes(r, "look", FALSE) /\ UNCHANGED retry
    /\ UNCHANGED <<entry, gen, coords, services, listeners, lovelaceVars, audioVars, bounds>>

\* Resources are loaded, or that fails; the card is there, or is put there.
Look(r) ==
    /\ runs[r].pc = "look"
    /\ \/ NoFailure /\ fetched' = TRUE
       \/ Fails /\ ~fetched /\ fetched' = FALSE
    /\ IF fetched' /\ resource = "current"
       THEN Dashboard(r, TRUE, retry)
       ELSE Goes(r, "put", FALSE) /\ UNCHANGED retry
    /\ UNCHANGED <<entry, gen, coords, services, listeners, home, lovelace, boards, resource, disk, audioVars, edits, spoken>>

\* An outdated entry is updated, or else one is created.  A failure when the
\* resources are not loaded sets the timer while this run goes on.
Put(r) ==
    /\ runs[r].pc = "put"
    /\ \/ /\ NoFailure /\ resource' = "current"
          /\ Dashboard(r, TRUE, retry)
       \/ /\ Fails /\ UNCHANGED resource
          /\ Dashboard(r, resource = "current", IF fetched THEN retry ELSE Retrying(runs[r].gen))
    /\ UNCHANGED <<entry, gen, coords, services, listeners, home, lovelace, boards, fetched, disk, audioVars, edits, spoken>>

\* Mistaken variant: what Lovelace has at run time is all that counts.
CheckRuntime(r) ==
    /\ runs[r].pc = "check"
    /\ IF boards THEN Finish(r, runs[r].card, TRUE) ELSE Goes(r, "list", runs[r].card) /\ UNCHANGED retry
    /\ UNCHANGED <<entry, gen, coords, services, listeners, lovelaceVars, audioVars, bounds>>

\* A dashboard in the stored list, or a panel at its path, is left alone.
Check(r) ==
    /\ runs[r].pc = "check"
    /\ IF disk.listed \/ boards
       THEN Finish(r, runs[r].card, TRUE)
       ELSE Goes(r, "list", runs[r].card) /\ UNCHANGED retry
    /\ UNCHANGED <<entry, gen, coords, services, listeners, lovelaceVars, audioVars, bounds>>

\* _async_upsert_dashboard_registry
List(r) ==
    /\ runs[r].pc = "list"
    /\ \/ /\ NoFailure /\ disk' = [disk EXCEPT !.listed = TRUE]
          /\ runs' = [runs EXCEPT ![r].pc = "save"]
          /\ UNCHANGED <<op, reg, closed, retry, raised>>
       \/ Fails /\ UNCHANGED disk /\ Raises(r)
    /\ UNCHANGED <<entry, gen, coords, services, listeners, home, lovelace, boards, resource, fetched, audioVars, edits, spoken>>

\* The generated layout is saved; registering a panel that exists raises.
SaveLayout(r) ==
    /\ runs[r].pc = "save"
    /\ \/ /\ NoFailure /\ disk' = [disk EXCEPT !.layout = "generated"]
          /\ boards' = TRUE
          /\ IF boards THEN Raises(r) ELSE Finish(r, runs[r].card, TRUE)
       \/ Fails /\ UNCHANGED <<disk, boards>> /\ Raises(r)
    /\ UNCHANGED <<entry, gen, coords, services, listeners, home, lovelace, resource, fetched, audioVars, edits, spoken>>

\* Five seconds later the timer fires: another run, beside one still in progress.
RetryFires(g, r) ==
    /\ g \in retry /\ runs[r].pc = "none"
    /\ retry' = retry \ {g}
    /\ runs' = [runs EXCEPT ![r] = [Quiet EXCEPT !.pc = "begin", !.gen = g]]
    /\ UNCHANGED <<entryVars, reg, closed, raised, lovelaceVars, audioVars, bounds>>

\* Lovelace comes up, and then has the dashboards that are stored.
LovelaceStarts ==
    /\ lovelace # "ready"
    /\ lovelace' = IF lovelace = "absent" THEN "starting" ELSE "ready"
    /\ boards' = (boards \/ (lovelace = "starting" /\ disk.listed))
    /\ UNCHANGED <<entryVars, frontVars, home, resource, fetched, disk, audioVars, bounds>>

\* The user saves a layout of the dashboard, which is the user's from then on.
UserEdits ==
    /\ edits < MaxEdits /\ boards /\ disk.listed
    /\ edits' = edits + 1
    /\ disk' = [disk EXCEPT !.layout = "user"]
    /\ runs' = [r \in Runs |-> [runs[r] EXCEPT !.late = runs[r].pc \in {"list", "save"}]]
    /\ UNCHANGED <<entryVars, reg, closed, retry, raised, home, lovelace, boards, resource, fetched, audioVars, failures, spoken>>

-----------------------------------------------------------------------------
(* Set-up and unload of the entry.                                         *)

\* async_setup_entry: a new coordinator, known before it is ready.
SetUp ==
    /\ op = "idle" /\ entry = "out" /\ gen < MaxGen
    /\ gen' = gen + 1 /\ coords' = {gen'}
    /\ op' = "audio"
    /\ UNCHANGED <<entry, services, listeners, frontVars, lovelaceVars, audioVars, bounds>>

\* The router sets up the cache, in its turn.
AudioReady ==
    /\ op = "audio"
    /\ cache' = Pruned(cache) /\ upkeep' = Scheduled(gen)
    /\ op' = "refresh"
    /\ UNCHANGED <<entry, gen, coords, services, listeners, frontVars, lovelaceVars, hushed, tidy, speech, bounds>>

\* The coordinator listens and has refreshed; the registration begins.
Refreshed ==
    /\ op = "refresh"
    /\ listeners' = listeners \cup {gen}
    /\ IF reg # 0
       THEN op' = "services" /\ UNCHANGED runs
       ELSE op' = "front" /\ runs' = [runs EXCEPT ![Main] = [Quiet EXCEPT !.pc = "begin", !.gen = gen]]
    /\ UNCHANGED <<entry, gen, coords, services, reg, closed, retry, raised, lovelaceVars, audioVars, bounds>>

\* async_setup_services
ServicesUp ==
    /\ op = "services"
    /\ services' = TRUE
    /\ op' = "platforms"
    /\ UNCHANGED <<entry, gen, coords, listeners, frontVars, lovelaceVars, audioVars, bounds>>

PlatformsUp ==
    /\ op = "platforms"
    /\ entry' = "loaded" /\ op' = "idle"
    /\ UNCHANGED <<gen, coords, services, listeners, frontVars, lovelaceVars, audioVars, bounds>>

\* A step of the set-up raises, or it is cancelled while it waits: nobody finds
\* the coordinator any more, and what it started is closed.
SetUpFails ==
    /\ op \in {"audio", "refresh", "front", "platforms"} /\ Fails
    /\ op' = "cleanup"
    /\ coords' = {}
    /\ Shut({reg, runs[Main].gen} \ {0})
    /\ runs' = [runs EXCEPT ![Main] = Quiet] /\ reg' = 0
    /\ UNCHANGED <<entry, gen, services, listeners, raised, lovelaceVars, audioVars, edits, spoken>>

\* The clean-ups run together, the services first.
Cleanup ==
    /\ op = "cleanup"
    /\ op' = "shutdown"
    /\ services' = FALSE
    /\ listeners' = listeners \ {gen}
    /\ UNCHANGED <<entry, gen, coords, frontVars, lovelaceVars, audioVars, bounds>>

\* async_unload_entry: the platforms may refuse; then the coordinator stops
\* listening and waits for its queue.
Unload ==
    /\ op = "idle" /\ entry = "loaded"
    /\ op' \in {"idle", "draining"} \ (IF failures < MaxFailures THEN {} ELSE {"idle"})
    /\ IF op' = "idle" THEN failures' = failures + 1 /\ UNCHANGED listeners
       ELSE NoFailure /\ listeners' = listeners \ {gen}
    /\ UNCHANGED <<entry, gen, coords, services, frontVars, lovelaceVars, audioVars, edits, spoken>>

\* Nothing is being delivered: the router shuts the cache down, and the state is saved.
Drained ==
    /\ op \in {"draining", "shutdown"}
    /\ speech.gen # gen
    /\ hushed' = hushed \cup {gen} /\ upkeep' = upkeep \ {gen}
    /\ op' = IF op = "draining" THEN "closing" ELSE "idle"
    /\ UNCHANGED <<entry, gen, coords, services, listeners, frontVars, lovelaceVars, tidy, speech, cache, bounds>>

\* The registration is closed, whether the save failed or not; if it did the
\* entry is neither loaded nor out.
Unloaded ==
    /\ op = "closing"
    /\ op' = "idle"
    /\ Shut({reg} \ {0})
    /\ \/ /\ NoFailure
          /\ entry' = "out" /\ coords' = {} /\ services' = FALSE /\ reg' = 0
       \/ /\ Fails
          /\ entry' = "stuck" /\ UNCHANGED <<coords, services, reg>>
    /\ UNCHANGED <<gen, listeners, runs, raised, lovelaceVars, audioVars, edits, spoken>>

\* Home Assistant stops at once; files and what is stored remain.
Crash ==
    /\ Fails
    /\ op' = "idle" /\ entry' = "out" /\ coords' = {} /\ services' = FALSE /\ listeners' = {}
    /\ reg' = 0 /\ closed' = {} /\ retry' = {} /\ runs' = [r \in Runs |-> Quiet] /\ raised' = {}
    /\ lovelace' = "absent" /\ fetched' = FALSE /\ boards' = (home = "taken")
    /\ hushed' = {} /\ upkeep' = {} /\ tidy' = None /\ speech' = None
    /\ UNCHANGED <<gen, home, resource, disk, cache, edits, spoken>>

EntryStep ==
    \/ SetUp \/ AudioReady \/ Refreshed \/ ServicesUp \/ PlatformsUp \/ Cleanup \/ Drained \/ Unloaded
RunStep(r) == Begin(r) \/ Look(r) \/ Put(r) \/ Check(r) \/ List(r) \/ SaveLayout(r)
AudioStep == TakeLock \/ Tidied \/ Stored

Next ==
    \/ EntryStep \/ SetUpFails \/ Unload \/ Crash
    \/ \E r \in Runs : RunStep(r)
    \/ \E g \in Gens, r \in Retries : RetryFires(g, r)
    \/ LovelaceStarts \/ UserEdits
    \/ \E g \in Gens : UpkeepFires(g)
    \/ Speak \/ AudioStep

Spec == Init /\ [][Next]_vars

\* The event loop runs what is ready, timers fire, threads end, Lovelace comes up.
FairSpec ==
    /\ Spec
    /\ WF_vars(EntryStep) /\ WF_vars(AudioStep) /\ WF_vars(LovelaceStarts)
    /\ \A r \in Runs : WF_vars(RunStep(r))
    /\ \A g \in Gens : WF_vars(\E r \in Retries : RetryFires(g, r)) /\ WF_vars(UpkeepFires(g))

-----------------------------------------------------------------------------
\* An entry that is out has left nothing behind, whatever failed on the way and
\* whatever was in progress: no service, listener, timer or coordinator.  One
\* that is loaded has them all, services always find a coordinator, and the cache
\* is looked after for as long as it may grow.
NothingLeft ==
    /\ op = "idle" /\ entry = "out" =>
          coords = {} /\ ~services /\ listeners = {} /\ retry = {} /\ upkeep = {} /\ reg = 0
    /\ op = "idle" /\ entry = "stuck" => listeners = {} /\ retry = {} /\ upkeep = {}
    /\ entry = "loaded" /\ op = "idle" =>
          coords = {gen} /\ services /\ listeners = {gen} /\ retry \subseteq {gen} /\ reg \in {0, gen}
    /\ services => coords # {} \/ op = "cleanup"
    /\ gen \in listeners => gen \in upkeep \/ tidy.gen = gen

\* A layout the user has saved is not replaced by a generated one, over reloads,
\* restarts and Lovelace coming up late, by any registration that looked for the
\* dashboard after the edit.  (One that had looked before goes on.)
UserLayoutKept ==
    [][disk.layout = "user" /\ disk'.layout = "generated"
        => \E r \in Runs : runs[r].pc = "save" /\ runs[r].late]_vars

\* While the entry stays loaded, the card and the dashboard come to be registered,
\* unless an exception ended the registration.
EventuallyRegistered ==
    <>[](entry = "loaded" /\ op = "idle" /\ gen \notin raised =>
            /\ home = "yaml" \/ resource = "current"
            /\ home = "storage" => disk.listed)
=============================================================================
