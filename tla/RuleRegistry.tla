---------------------------- MODULE RuleRegistry ----------------------------
(***************************************************************************)
(* The registry of notification rules: the scan of the configuration files *)
(* for calls of herald.notify, the registry it gives, the rules users save *)
(* for the keys found, and the timer that keeps the registry current.      *)
(* custom_components/herald/notification_policies.py, policy_editor.py and *)
(* the registry part of coordinator.py.                                    *)
(*                                                                         *)
(* A scan runs in a thread and reads one file after the other while they   *)
(* are edited; several scans overlap, those of the timer, of service calls *)
(* and of the setup, and each of them is followed by a save.  Nothing      *)
(* serialises them, and they go on after the entry has been unloaded.      *)
(***************************************************************************)
EXTENDS Integers, FiniteSets, Sequences, SequencesExt

CONSTANTS
    Files, Roots, Allowed, \* Roots: read by their names, in order; Allowed: not hidden, secret or outside
    Contents,              \* texts a file may have
    Missing,               \* instead of one
    Readable,              \* those that parse
    Includes,              \* Includes[x]: the files that structural tags of x name, in order
    Calls,                 \* Calls[x]: its literal calls, a sequence
    Dynamic,               \* texts with a call whose key is a template
    Route, NoRoute,        \* Route[x]: the default channels of its selected-event automation
    Codes,                 \* Codes[x]: the keys its selected-event sensor names
    Keys, NoKey, Unknown,  \* the keys; the sensor shows none of them; a request not known
    Channels, Types, Kind, \* the configured channels, and the kind of each
    Edits,                 \* partial edits of a rule
    Stored,                \* the rules saved to begin with
    Layouts,               \* the configurations that the files may hold
    Callers,               \* service calls, each made once
    FileLimit,             \* files one scan reads
    MaxChanges, MaxFailures, MaxGen  \* bounds on file edits, failures and set-ups

Default == [enabled |-> TRUE, mode |-> "inherit", channels |-> {}]
Modes == {"inherit", "disabled", "custom", "voice_only", "push_only", "text_only"}
Rules == [enabled : BOOLEAN, mode : Modes, channels : SUBSET Channels]
Gens == 1..MaxGen
Tick(g) == g                      \* the set-up and the timer of a generation
Ops == Gens \cup Callers

ASSUME FilesAssumption ==
    /\ Roots \in Seq(Allowed) /\ Allowed \subseteq Files
    /\ Missing \notin Contents /\ Readable \subseteq Contents /\ Dynamic \subseteq Contents
    /\ \A x \in Contents :
        /\ Includes[x] \in Seq(Files) /\ Calls[x] \in Seq(Range(Calls[x]))
        /\ Codes[x] \subseteq Keys /\ IsFiniteSet(Codes[x])
    /\ Layouts \subseteq [Files -> Contents \cup {Missing}]
ASSUME RulesAssumption ==
    /\ Stored \in [Keys -> Rules]
    /\ \A e \in Edits :
        /\ "enabled" \in DOMAIN e => e.enabled \in BOOLEAN
        /\ "mode" \in DOMAIN e => e.mode \in Modes
ASSUME BoundsAssumption ==
    /\ {FileLimit, MaxChanges, MaxFailures, MaxGen} \subseteq Nat
    /\ Callers \cap Nat = {}
    /\ \A c \in Channels : Kind[c] \in Types

VARIABLES
    files,     \* the configuration on disk
    sensor,    \* the key the selected-event sensor shows, or NoKey
    gen,       \* the coordinator that is set up, 0 before the first
    loaded,    \* whether its listeners are registered
    armed,     \* the generations whose timer is set
    registry,  \* _notification_registry and its refreshed_at, per generation
    policies,  \* _notification_policy_overrides, per generation
    disk,      \* the two storage files
    ops,       \* the calls in progress
    changes, failures, \* counters for the bounds
    overtaken  \* a save of the rules failed, or one of an older coordinator was the last
vars == <<files, sensor, gen, loaded, armed, registry, policies, disk, ops, changes, failures, overtaken>>

-----------------------------------------------------------------------------
(* Rules.                                                                  *)

\* merge_policy: the fields of the edit over the rule, channels that exist.
Merged(p, e) ==
    LET Value(f) == IF f \in DOMAIN e THEN e[f] ELSE p[f]
    IN  [enabled |-> Value("enabled"), mode |-> Value("mode"), channels |-> Value("channels") \cap Channels]

\* resolve_channels and effective_policy: what an event whose own channels are
\* inherited is given; None drops it.
None == "none"
OfKinds(kinds) == {c \in Channels : Kind[c] \in kinds}
Effective(p, inherited) ==
    IF ~p.enabled \/ p.mode = "disabled" THEN None
    ELSE CASE p.mode = "inherit" -> inherited
           [] p.mode = "custom" -> p.channels \cap Channels
           [] p.mode = "voice_only" -> OfKinds({"tts", "tts_hume", "tv"})
           [] p.mode = "push_only" -> OfKinds({"mobile_app"})
           [] p.mode = "text_only" -> Channels \ OfKinds({"tts", "tts_hume", "tv"})

-----------------------------------------------------------------------------
(* Entries.  A document is a file with the text parsed and the raw text     *)
(* read again when the scan looks for routes; a call has a key, default    *)
(* channels, whether these are dynamic, and the request a preview repeats. *)

Of(table, x, none) == IF x \in Contents THEN table[x] ELSE none

CallsOf(docs) == FlattenSeq([i \in DOMAIN docs |-> Calls[docs[i].text]])

\* _discover_delivery_routes: a document with a call whose raw text has the
\* automation of a selected-event sensor.
IsRoute(d) == (Calls[d.text] # <<>> \/ d.text \in Dynamic) /\ Of(Route, d.raw, NoRoute) # NoRoute

\* _discover_router_meta and _extract_event_codes: the keys that the first
\* definition of the sensor names, or else the key it shows.
RouterKeys(docs, shown) ==
    LET first == SelectInSeq(docs, LAMBDA d : Codes[d.text] # {} /\ Of(Codes, d.raw, {}) # {})
    IN  IF first # 0 THEN Codes[docs[first].text] ELSE {shown} \ {NoKey}

RouteCalls(docs, shown) ==
    LET keys == SetToSeq(RouterKeys(docs, shown))
    IN  FlattenSeq([i \in DOMAIN docs |->
            IF IsRoute(docs[i])
            THEN [j \in DOMAIN keys |->
                    [key |-> keys[j], default |-> Route[docs[i].raw], dynamic |-> FALSE, request |-> Unknown]]
            ELSE <<>>])

AllCalls(R) == CallsOf(R.docs) \o RouteCalls(R.docs, R.shown)
Known(R) == {AllCalls(R)[i].key : i \in DOMAIN AllCalls(R)}

\* Mistaken variant: the later call wins.
MergeEntryLast(prev, c) ==
    [default |-> c.default, request |-> c.request, dynamic |-> c.dynamic, ambiguous |-> FALSE]

\* _merge_registry_entry: the first call gives the entry, and what two calls of
\* a key do not share is not claimed.
NoEntry == [none |-> TRUE]
MergeEntry(prev, c) ==
    IF prev = NoEntry
    THEN [default |-> c.default, request |-> c.request, dynamic |-> c.dynamic, ambiguous |-> FALSE]
    ELSE [default |-> IF prev.default = c.default THEN c.default ELSE {},
          request |-> IF prev.request = c.request THEN c.request ELSE Unknown,
          dynamic |-> prev.dynamic \/ c.dynamic,
          ambiguous |-> prev.ambiguous \/ prev.default # c.default \/ prev.request # c.request]

\* The entry of a key, after all calls.
Entry(R, k) ==
    LET all == AllCalls(R)
        after[n \in 0..Len(all)] ==
            IF n = 0 THEN NoEntry
            ELSE IF all[n].key = k THEN MergeEntry(after[n - 1], all[n]) ELSE after[n - 1]
    IN  after[Len(all)]

-----------------------------------------------------------------------------
(* Operations.                                                             *)

NoRegistry == [docs |-> <<>>, shown |-> NoKey, fresh |-> FALSE, since |-> [f \in Files |-> {}]]
NoPolicies == [k \in Keys |-> Default]
Idle == [pc |-> "idle"]
Made == [pc |-> "made"]

Init ==
    /\ files \in Layouts
    /\ sensor = NoKey
    /\ gen = 0 /\ loaded = FALSE /\ armed = {}
    /\ registry = [g \in Gens |-> NoRegistry]
    /\ policies = [g \in Gens |-> NoPolicies]
    /\ disk = [registry |-> NoRegistry, policies |-> Stored]
    /\ ops = [o \in Ops |-> Idle]
    /\ changes = 0 /\ failures = 0 /\ overtaken = FALSE

\* What was read may be as old as the moment the scan took its time.
Seen(since) == [f \in Files |-> since[f] \cup {files'[f]}]
SeenBy(R) == IF R.docs = <<>> THEN R ELSE [R EXCEPT !.since = Seen(@)]

\* A file of the configuration is edited.
EditFile ==
    /\ changes < MaxChanges
    /\ changes' = changes + 1
    /\ files' \in Layouts
    /\ \E f \in Files : {g \in Files : files'[g] # files[g]} = {f}
    /\ registry' = [g \in Gens |-> SeenBy(registry[g])]
    /\ disk' = [disk EXCEPT !.registry = SeenBy(@)]
    /\ ops' = [o \in Ops |-> IF ops[o].pc \in {"scan", "scanned"} THEN [ops[o] EXCEPT !.since = Seen(@)] ELSE ops[o]]
    /\ UNCHANGED <<sensor, gen, loaded, armed, policies, failures, overtaken>>

\* The selected-event sensor shows something else.
SensorChanges ==
    /\ changes < MaxChanges
    /\ changes' = changes + 1
    /\ sensor' \in (Keys \cup {NoKey}) \ {sensor}
    /\ UNCHANGED <<files, gen, loaded, armed, registry, policies, disk, ops, failures, overtaken>>

\* Ten minutes pass without a scan.
GrowsOld ==
    /\ \A o \in Ops : ops[o].pc \notin {"scan", "scanned"}
    /\ registry' = [g \in Gens |-> [registry[g] EXCEPT !.fresh = FALSE]]
    /\ disk' = [disk EXCEPT !.registry.fresh = FALSE]
    /\ UNCHANGED <<files, sensor, gen, loaded, armed, policies, ops, changes, failures, overtaken>>

\* A scan begins; it takes its time and the states before it reads a file.
Scanning(g, task) ==
    [pc |-> "scan", gen |-> g, task |-> task, roots |-> Roots, todo |-> <<>>, visited |-> {}, docs |-> <<>>,
     named |-> {}, shown |-> sensor, since |-> [f \in Files |-> {files[f]}]]

\* No step of a call or of a scan changes these.
Quiet == UNCHANGED <<files, sensor, gen, changes>>

\* The rest of a set-up: listeners and timer.
Ready(g) ==
    /\ loaded' = TRUE
    /\ armed' = armed \cup {g}

\* async_set_notification_policy after its refresh: unknown keys are refused.
SetRule(o, g, e) ==
    IF e.key \in Known(registry'[g])
    THEN /\ policies' = [policies EXCEPT ![g][e.key] = Merged(@, e.changes)]
         /\ ops' = [ops EXCEPT ![o] = [pc |-> "rules", gen |-> g, task |-> e]]
    ELSE /\ ops' = [ops EXCEPT ![o] = Made]
         /\ UNCHANGED policies

\* Mistaken variant: the timer is set again whether its coordinator is unloaded or not.
RearmAlways(g) == armed' = armed \cup {g}

\* _schedule_notification_registry_tick, when the listeners are still there.
Rearm(g) == armed' = IF loaded /\ g = gen THEN armed \cup {g} ELSE armed

\* What follows a refresh of generation g, whether it gave a new registry or not.
Refreshed(o, g, task) ==
    CASE task.kind = "setup" ->
           /\ Ready(g)
           /\ ops' = [ops EXCEPT ![o] = Idle]
           /\ UNCHANGED policies
      [] task.kind = "tick" ->
           /\ Rearm(g)
           /\ ops' = [ops EXCEPT ![o] = Idle]
           /\ UNCHANGED <<loaded, policies>>
      [] task.kind = "refresh" ->
           /\ ops' = [ops EXCEPT ![o] = Made]
           /\ UNCHANGED <<loaded, armed, policies>>
      [] task.kind = "set" ->
           /\ SetRule(o, g, task)
           /\ UNCHANGED <<loaded, armed>>

\* The memory of a coordinator goes with its last call.
Kept(memory, none) ==
    [g \in Gens |-> IF \E o \in Ops : ops[o].pc \notin {"idle", "made"} /\ ops[o].gen = g THEN memory[g] ELSE none]

\* A new coordinator loads both files and refreshes, the first time or after a
\* reload or a restart.
SetUp ==
    /\ ~loaded /\ gen < MaxGen
    /\ \A g \in Gens : ops[Tick(g)].pc # "idle" => ops[Tick(g)].task.kind # "setup"
    /\ gen' = gen + 1
    /\ registry' = [Kept(registry, NoRegistry) EXCEPT ![gen'] = disk.registry]
    /\ policies' = [Kept(policies, NoPolicies) EXCEPT ![gen'] = disk.policies]
    /\ IF disk.registry.fresh
       THEN Ready(gen') /\ UNCHANGED ops
       ELSE ops' = [ops EXCEPT ![Tick(gen')] = Scanning(gen', [kind |-> "setup"])] /\ UNCHANGED <<loaded, armed>>
    /\ overtaken' = FALSE
    /\ UNCHANGED <<files, sensor, disk, changes, failures>>

\* The timer fires after 15 minutes and forces a refresh.
TimerFires(g) ==
    /\ g \in armed
    /\ armed' = armed \ {g}
    /\ ops' = [ops EXCEPT ![Tick(g)] = Scanning(g, [kind |-> "tick"])]
    /\ UNCHANGED <<files, sensor, gen, loaded, registry, policies, disk, changes, failures, overtaken>>

\* A notification, a snapshot or the service refreshes, forced or when old.
CallRefresh(c, force) ==
    /\ loaded /\ ops[c].pc = "idle"
    /\ force \/ ~registry[gen].fresh
    /\ ops' = [ops EXCEPT ![c] = Scanning(gen, [kind |-> "refresh"])]
    /\ UNCHANGED <<files, sensor, gen, loaded, armed, registry, policies, disk, changes, failures, overtaken>>

\* A rule is saved; an unknown key is first looked for in the files.
CallSet(c, k, e) ==
    /\ loaded /\ ops[c].pc = "idle"
    /\ LET task == [kind |-> "set", key |-> k, changes |-> e]
       IN  IF k \in Known(registry[gen])
           THEN registry' = registry /\ SetRule(c, gen, task)
           ELSE ops' = [ops EXCEPT ![c] = Scanning(gen, task)] /\ UNCHANGED <<registry, policies>>
    /\ UNCHANGED <<files, sensor, gen, loaded, armed, disk, changes, failures, overtaken>>

\* Mistaken variant: the reset is left to the next save.
CallResetUnsaved(c, k) ==
    /\ loaded /\ ops[c].pc = "idle"
    /\ policies' = [policies EXCEPT ![gen][k] = Default]
    /\ ops' = [ops EXCEPT ![c] = Made]
    /\ UNCHANGED <<files, sensor, gen, loaded, armed, registry, disk, changes, failures, overtaken>>

\* A rule is reset.
CallReset(c, k) ==
    /\ loaded /\ ops[c].pc = "idle"
    /\ policies' = [policies EXCEPT ![gen][k] = Default]
    /\ ops' = [ops EXCEPT ![c] = [pc |-> "rules", gen |-> gen, task |-> [kind |-> "reset", key |-> k]]]
    /\ UNCHANGED <<files, sensor, gen, loaded, armed, registry, disk, changes, failures, overtaken>>

-----------------------------------------------------------------------------
(* The scan, _load_config_documents.                                       *)

\* Mistaken variant: a file over the limit is left out silently.
ReadOneSilent(s, f) ==
    LET x == files[f]
        read == [s EXCEPT !.visited = @ \cup {f}]
    IN  IF f \in s.visited \/ f \notin Allowed \/ Cardinality(read.visited) > FileLimit THEN s
        ELSE IF x \notin Readable
        THEN [read EXCEPT !.named = @ \cup {f}]
        ELSE [read EXCEPT
                 !.docs = Append(@, [file |-> f, text |-> x, raw |-> x]),
                 !.todo = Includes[x] \o @,
                 !.named = @ \cup {g \in {f} : x \in Dynamic \/ ~(Range(Includes[x]) \subseteq Allowed)}]

\* load: each file once, up to the limit; what is not read is an issue, and an
\* include of what is not allowed is passed over and one of the including file.
ReadOne(s, f) ==
    LET x == files[f]
        read == [s EXCEPT !.visited = @ \cup {f}]
    IN  IF f \in s.visited \/ f \notin Allowed THEN s
        ELSE IF Cardinality(read.visited) > FileLimit \/ x \notin Readable
        THEN [read EXCEPT !.named = @ \cup {f}]
        ELSE [read EXCEPT
                 !.docs = Append(@, [file |-> f, text |-> x, raw |-> x]),
                 !.todo = Includes[x] \o @,
                 !.named = @ \cup {g \in {f} : x \in Dynamic \/ ~(Range(Includes[x]) \subseteq Allowed)}]

\* The next included file, or, when there is none, the next of the names a
\* configuration has, if it exists.
Read(o) ==
    /\ ops[o].pc = "scan"
    /\ LET s == ops[o]
       IN  IF s.todo # <<>>
           THEN ops' = [ops EXCEPT ![o] = ReadOne([s EXCEPT !.todo = Tail(@)], Head(s.todo))]
           ELSE /\ s.roots # <<>>
                /\ LET t == [s EXCEPT !.roots = Tail(@)]
                       f == Head(s.roots)
                   IN  ops' = [ops EXCEPT ![o] = IF files[f] = Missing THEN t ELSE ReadOne(t, f)]
    /\ UNCHANGED <<loaded, armed, registry, policies, disk, failures, overtaken>> /\ Quiet

\* The calls and routes are looked up, the latter in texts read again; the
\* thread ends with scan_issues.
ScanEnds(o) ==
    /\ ops[o].pc = "scan" /\ ops[o].roots = <<>> /\ ops[o].todo = <<>>
    /\ LET docs == ops[o].docs
       IN  ops' = [ops EXCEPT ![o].pc = "scanned",
                              ![o].docs = [i \in DOMAIN docs |-> [docs[i] EXCEPT !.raw = files[docs[i].file]]]]
    /\ UNCHANGED <<loaded, armed, registry, policies, disk, failures, overtaken>> /\ Quiet

\* It raises: the registry stays, and the refresh ends as if it had been new.
ScanFails(o) ==
    /\ ops[o].pc = "scan"
    /\ failures < MaxFailures
    /\ failures' = failures + 1
    /\ registry' = registry
    /\ Refreshed(o, ops[o].gen, ops[o].task)
    /\ UNCHANGED <<disk, overtaken>> /\ Quiet

\* Mistaken variant: the time is taken when the registry is replaced.
ResultNow(s) == [docs |-> s.docs, shown |-> s.shown, fresh |-> TRUE, since |-> [f \in Files |-> {files[f]}]]

\* The registry a scan gives, with the time it began.
Result(s) == [docs |-> s.docs, shown |-> s.shown, fresh |-> TRUE, since |-> s.since]

\* The loop goes on with the result: registry and refreshed_at together.
Adopt(o) ==
    /\ ops[o].pc = "scanned"
    /\ registry' = [registry EXCEPT ![ops[o].gen] = Result(ops[o])]
    /\ ops' = [ops EXCEPT ![o] = [pc |-> "save", gen |-> ops[o].gen, task |-> ops[o].task]]
    /\ UNCHANGED <<loaded, armed, policies, disk, failures, overtaken>> /\ Quiet

\* The registry is written, the newest one of its coordinator.
Save(o) ==
    /\ ops[o].pc = "save"
    /\ disk' = [disk EXCEPT !.registry = registry[ops[o].gen]]
    /\ registry' = registry
    /\ Refreshed(o, ops[o].gen, ops[o].task)
    /\ UNCHANGED <<failures, overtaken>> /\ Quiet

\* Mistaken variant: the timer is set again after a success only.
SaveFailsNoTimer(o) ==
    /\ ops[o].pc \in {"save", "rules"}
    /\ failures < MaxFailures
    /\ failures' = failures + 1
    /\ ops' = [ops EXCEPT ![o] = IF o \in Gens THEN Idle ELSE Made]
    /\ overtaken' = (overtaken \/ ops[o].pc = "rules")
    /\ UNCHANGED <<loaded, armed, registry, policies, disk>> /\ Quiet

\* A save raises, and so does the call or the set-up; the timer is set again
\* all the same.
SaveFails(o) ==
    /\ ops[o].pc \in {"save", "rules"}
    /\ failures < MaxFailures
    /\ failures' = failures + 1
    /\ ops' = [ops EXCEPT ![o] = IF o \in Gens THEN Idle ELSE Made]
    /\ overtaken' = (overtaken \/ ops[o].pc = "rules")
    /\ IF ops[o].task.kind = "tick" THEN Rearm(ops[o].gen) ELSE armed' = armed
    /\ UNCHANGED <<loaded, registry, policies, disk>> /\ Quiet

\* The rules are written, those of the coordinator at that moment.
SaveRules(o) ==
    /\ ops[o].pc = "rules"
    /\ disk' = [disk EXCEPT !.policies = policies[ops[o].gen]]
    /\ overtaken' = (gen # ops[o].gen)
    /\ ops' = [ops EXCEPT ![o] = Made]
    /\ UNCHANGED <<loaded, armed, registry, policies, failures>> /\ Quiet

-----------------------------------------------------------------------------
\* async_shutdown stops the timer; what is in progress goes on.
Unload ==
    /\ loaded
    /\ loaded' = FALSE
    /\ armed' = armed \ {gen}
    /\ registry' = Kept(registry, NoRegistry) /\ policies' = Kept(policies, NoPolicies)
    /\ UNCHANGED <<files, sensor, gen, disk, ops, changes, failures, overtaken>>

\* Home Assistant stops at once.
Crash ==
    /\ failures < MaxFailures
    /\ failures' = failures + 1
    /\ loaded' = FALSE
    /\ armed' = {}
    /\ ops' = [o \in Ops |-> IF o \in Gens \/ ops[o].pc = "idle" THEN Idle ELSE Made]
    /\ registry' = [g \in Gens |-> NoRegistry] /\ policies' = [g \in Gens |-> NoPolicies]
    /\ UNCHANGED <<files, sensor, gen, disk, changes, overtaken>>

ScanStep(o) == Read(o) \/ ScanEnds(o) \/ Adopt(o) \/ Save(o) \/ SaveRules(o)

Next ==
    \/ EditFile \/ SensorChanges \/ GrowsOld \/ SetUp \/ Unload \/ Crash
    \/ \E g \in Gens : TimerFires(g)
    \/ \E c \in Callers, force \in BOOLEAN : CallRefresh(c, force)
    \/ \E c \in Callers, k \in Keys, e \in Edits : CallSet(c, k, e)
    \/ \E c \in Callers, k \in Keys : CallReset(c, k)
    \/ \E o \in Ops : ScanStep(o) \/ ScanFails(o) \/ SaveFails(o)

Spec == Init /\ [][Next]_vars

\* The timer fires, threads end and writes are done.
FairSpec ==
    /\ Spec
    /\ \A g \in Gens : WF_vars(TimerFires(g))
    /\ \A o \in Ops : WF_vars(ScanStep(o))

-----------------------------------------------------------------------------
\* Types.  A timer is set for the loaded coordinator only: that of an unloaded
\* one would keep it and its scans alive for ever.
TypeOK ==
    /\ files \in [Files -> Contents \cup {Missing}]
    /\ gen \in 0..MaxGen /\ loaded \in BOOLEAN
    /\ armed \subseteq IF loaded THEN {gen} ELSE {}
    /\ \A g \in Gens : policies[g] \in [Keys -> Rules]
    /\ \A o \in Ops : ops[o].pc \in {"idle", "scan", "scanned", "save", "rules", "made"}

\* What refreshed_at promises: every text in a registry, in memory or in the
\* file, was in its place at that time or later, however scans and edits overlap.
\* And what scan_issues promises: at the end of a scan no file that it should
\* have read is missing without an issue that names it or the file naming it.
Current(R) ==
    \A i \in DOMAIN R.docs :
        R.docs[i].file \in Allowed /\ {R.docs[i].text, R.docs[i].raw} \subseteq R.since[R.docs[i].file]
Complete(s) ==
    LET found == s.named \cup {s.docs[i].file : i \in DOMAIN s.docs}
    IN  /\ \A f \in Range(Roots) : f \in found \/ Missing \in s.since[f]
        /\ \A i \in DOMAIN s.docs :
              s.docs[i].file \in s.named \/ Range(Includes[s.docs[i].text]) \subseteq found
Honest ==
    /\ Current(disk.registry) /\ \A g \in Gens : Current(registry[g])
    /\ \A o \in Ops : ops[o].pc = "scanned" => Current(ops[o]) /\ Complete(ops[o])

\* The rule editor shows what an event will do: unless the entry is marked
\* ambiguous or dynamic, its rule with the entry's channels gives what it gives
\* with those of each call of the key, and the preview repeats each call's request.
ShownIsUsed ==
    loaded => LET R == registry[gen] IN
        \A i \in DOMAIN AllCalls(R) :
            LET c == AllCalls(R)[i]
                e == Entry(R, c.key)
                p == policies[gen][c.key]
            IN  \/ e.ambiguous \/ e.dynamic
                \/ /\ Effective(p, e.default) = Effective(p, c.default)
                   /\ e.request = c.request

\* Once no save of the rules is under way, and none failed or came from an older
\* coordinator last, a restart would find the rules that are in use.
PolicySaved ==
    loaded /\ ~overtaken /\ (\A o \in Ops : ops[o].pc # "rules")
        => disk.policies = policies[gen]

\* The registry follows the configuration: when edits end, a loaded coordinator
\* comes to have what is on disk, whatever failed and whichever scan ended last.
EventuallyCurrent ==
    <>[](loaded => \A i \in DOMAIN registry[gen].docs :
            LET d == registry[gen].docs[i] IN d.text = files[d.file] /\ d.raw = files[d.file])
=============================================================================
