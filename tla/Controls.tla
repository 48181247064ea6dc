------------------------------ MODULE Controls ------------------------------
(***************************************************************************)
(* Settings that have two owners: controls.py and effective_config.py of   *)
(* custom_components/herald, with the options form of config_flow.py, the  *)
(* update listener of __init__.py and the coordinator's store.             *)
(*                                                                         *)
(* A control (a switch, a number, a select) has a value in RuntimeState,   *)
(* with its source and the revision of the last options edit it consumed.  *)
(* Many controls share a setting with the configuration, whose layers are  *)
(* YAML, the entry's data and its options.  The options form edits such a  *)
(* setting by a value in the options and a revisioned control update; the  *)
(* entity edits it in RuntimeState; a setting nobody edited follows the    *)
(* layers.  An options edit calls the update listener, which applies it to *)
(* RuntimeState, saves, and reloads the entry.                             *)
(*                                                                         *)
(* Values are already of the control's type (coercion is left out), the    *)
(* overrides of flows from older stores are left out, Home Assistant saves *)
(* the options at once, and what an unloaded coordinator still saves is    *)
(* written before its successor loads.                                     *)
(***************************************************************************)
EXTENDS Integers

CONSTANTS
    Settings,      \* keys of controls
    Values,        \* what they can be
    None,          \* no value
    Default,       \* Default[s]: what the typed configuration defaults to
    Entry,         \* Entry[s]: the value in the entry's data, or None
    Legacy,        \* Legacy[s]: the state of its old helper entity, or None
    HasPath,       \* controls that share a setting with the configuration
    FormFields,    \* those that the options form edits
    AiEnabled,     \* the control of AI, which a stored value cannot switch on
    Off,           \* the value that disables AI
    Dynamic,       \* controls of channels that only discovery defines
    YamlFiles,     \* what configuration.yaml may say: value or None of each
    FirstOptions,  \* the values of the options before the first edit
    FirstStores,   \* the values of the storage file of an older release
    FormsInSetup,  \* somebody may use the form while the entry is set up
    LoadMayFail,   \* reading the storage file may raise
    MaxEdits,      \* bound on the explicit edits
    MaxStops       \* bound on crashes and failed set-ups

\* What a RuntimeState says of the controls: values, sources, revisions.
FromConfig == {"yaml", "entry", "options", "default"}
Controls == [Settings -> [value : Values \cup {None},
                          source : FromConfig \cup {"none", "legacy", "restored", "runtime"},
                          rev : 0..MaxEdits]]

ASSUME SettingsAssumption ==
    /\ HasPath \subseteq Settings /\ FormFields \subseteq HasPath
    /\ AiEnabled \subseteq HasPath \ FormFields /\ Dynamic \subseteq FormFields
ASSUME ValuesAssumption ==
    /\ None \notin Values /\ None \notin Controls /\ Off \in Values
    /\ Default \in [Settings -> Values]
    /\ {Entry, Legacy} \cup YamlFiles \cup FirstOptions \cup FirstStores
        \subseteq [Settings -> Values \cup {None}]
    /\ \A s \in FormFields : Legacy[s] = None
    /\ \A s \in Dynamic \cup (Settings \ HasPath) :
        Entry[s] = None /\ \A y \in YamlFiles : y[s] = None
ASSUME BoundsAssumption == MaxEdits \in Nat /\ MaxStops \in Nat
ASSUME SwitchesAssumption == FormsInSetup \in BOOLEAN /\ LoadMayFail \in BOOLEAN

VARIABLES
    yaml,      \* yaml[s]: the value in configuration.yaml, or None
    options,   \* options[s]: the value and the control update in the options
    present,   \* the controls whose channel exists
    phase,     \* where the entry is between set-up and unload
    mem,       \* mem[s]: control_values and control_metadata
    toSave,    \* the snapshot the Store has not written, or None
    disk,      \* the storage file
    form,      \* form[s]: the value an open options form displays, or None
    edits,     \* explicit edits so far; their numbers serve as revisions
    stops,     \* crashes and failed set-ups so far
    expected,  \* expected[s]: the value of the latest edit that is not lost
    unsaved    \* settings whose latest edit is not in a file

storeVars == <<mem, toSave, disk>>
editVars == <<edits, expected, unsaved>>
vars == <<yaml, options, present, phase, storeVars, form, stops, editVars>>

Unset == [value |-> None, source |-> "none", rev |-> 0]
Blank == [s \in Settings |-> Unset]
Closed == [s \in FormFields |-> None]

(***************************************************************************)
(* The first start finds a file of an older release, which has values      *)
(* without sources, or none, and options without revisions, or none.       *)
(***************************************************************************)
Init ==
    /\ yaml \in YamlFiles
    /\ \E o \in FirstOptions : options = [s \in Settings |-> [value |-> o[s], rev |-> 0]]
    /\ present = Settings
    /\ phase = "absent"
    /\ mem = Blank
    /\ toSave = None
    /\ \E d \in FirstStores : disk = [s \in Settings |-> [Unset EXCEPT !.value = d[s]]]
    /\ form = Closed
    /\ edits = 0
    /\ stops = 0
    /\ expected = [s \in Settings |-> None]
    /\ unsaved = {}

-----------------------------------------------------------------------------
(* Layers and stored values.  m is a RuntimeState and o the options.       *)

\* inherited_setting: the value of the highest layer that has one.
Inherited(s, o) ==
    CASE s \in HasPath /\ o[s].value # None -> [value |-> o[s].value, source |-> "options"]
      [] s \in HasPath /\ o[s].value = None /\ Entry[s] # None ->
            [value |-> Entry[s], source |-> "entry"]
      [] s \in HasPath /\ o[s].value = None /\ Entry[s] = None /\ yaml[s] # None ->
            [value |-> yaml[s], source |-> "yaml"]
      [] OTHER -> [value |-> Default[s], source |-> "default"]

\* A stored value of ai_enabled from before there were sources counts only
\* when the configuration agrees.
Agreed(s, v, o) == IF s \in AiEnabled /\ Inherited(s, o).value = Off THEN Off ELSE v

\* Mistaken variant: only the first update is applied.
PendingFirst(s, m, o) == o[s].rev # 0 /\ m[s].rev = 0

\* RuntimeState m has not consumed the update of s.
Pending(s, m, o) == o[s].rev # 0 /\ m[s].rev # o[s].rev

\* apply_option_updates, for the controls that exist.
ApplyOptions(m, o, there) ==
    [s \in Settings |->
        IF s \in there /\ Pending(s, m, o)
        THEN [value |-> o[s].value, source |-> "options", rev |-> o[s].rev]
        ELSE m[s]]

\* The value was inherited and not edited.
Follows(e) == e.source \in FromConfig /\ e.rev = 0

\* Mistaken variant: what was inherited once is kept.
EnsuredSeeded(s, e, o) ==
    IF e.value = None THEN [value |-> Inherited(s, o).value, source |-> Inherited(s, o).source, rev |-> 0]
    ELSE e

\* Mistaken variant: a value without source is left as it is.
EnsuredUnlabelled(s, e, o) ==
    IF e.value = None \/ Follows(e)
    THEN [value |-> Inherited(s, o).value, source |-> Inherited(s, o).source, rev |-> 0]
    ELSE e

\* ensure_defaults, for one control.
Ensured(s, e, o) ==
    CASE e.value = None /\ Legacy[s] # None ->
            [value |-> Agreed(s, Legacy[s], o), source |-> "legacy", rev |-> 0]
      [] (e.value = None /\ Legacy[s] = None) \/ Follows(e) ->
            [value |-> Inherited(s, o).value, source |-> Inherited(s, o).source, rev |-> 0]
      [] e.value # None /\ e.source = "none" ->
            [value |-> Agreed(s, e.value, o), source |-> "restored", rev |-> 0]
      [] OTHER -> e

\* _sync_controls.
Synced(m, o, there) ==
    LET a == ApplyOptions(m, o, there)
    IN [s \in Settings |-> IF s \in there THEN Ensured(s, a[s], o) ELSE a[s]]

-----------------------------------------------------------------------------
(* Set-up and unload of the entry, and its store.                          *)

Start ==
    /\ phase = "absent"
    /\ phase' = "loading"
    /\ UNCHANGED <<yaml, options, present, storeVars, form, stops, editVars>>

\* The coordinator, registered already, reads its state.
LoadState ==
    /\ phase = "loading"
    /\ phase' = "loaded"
    /\ mem' = disk
    /\ UNCHANGED <<yaml, options, present, toSave, disk, form, stops, editVars>>

\* Discovery finds the channels of there, and the set-up synchronises; its
\* first summary always differs from none, so it always saves.
SyncSetup(there) ==
    /\ phase = "loaded"
    /\ Settings \ Dynamic \subseteq there
    /\ phase' = "starting"
    /\ present' = there
    /\ mem' = Synced(mem, options, there)
    /\ toSave' = mem'
    /\ UNCHANGED <<yaml, options, disk, form, stops, editVars>>

\* The listener for options updates is added last.
Ready ==
    /\ phase = "starting"
    /\ phase' = "running"
    /\ UNCHANGED <<yaml, options, present, storeVars, form, stops, editVars>>

\* A set-up that fails shuts its coordinator down, which saves its state.
SetupFails ==
    /\ phase \in {"loaded", "starting"} \/ (LoadMayFail /\ phase = "loading")
    /\ stops < MaxStops
    /\ stops' = stops + 1
    /\ phase' = "failing"
    /\ toSave' = mem
    /\ UNCHANGED <<yaml, options, present, mem, disk, form, editVars>>

\* A periodic refresh, which saves, or the synchronisation before an event,
\* which leaves that to a later save.
Refresh(there, saves) ==
    /\ phase \in {"starting", "running", "unloading"}
    /\ Settings \ Dynamic \subseteq there
    /\ present' = there
    /\ mem' = Synced(mem, options, there)
    /\ toSave' = IF saves /\ (mem' # mem \/ there # present) THEN mem' ELSE toSave
    /\ UNCHANGED <<yaml, options, phase, disk, form, stops, editVars>>

\* For the reload that an options update asks for, or somebody else's.
Unload ==
    /\ phase = "running"
    /\ phase' = "unloading"
    /\ UNCHANGED <<yaml, options, present, storeVars, form, stops, editVars>>

FinalSave ==
    /\ phase = "unloading"
    /\ phase' = "saving"
    /\ toSave' = mem
    /\ UNCHANGED <<yaml, options, present, mem, disk, form, stops, editVars>>

Unloaded ==
    /\ phase \in {"saving", "failing"}
    /\ toSave = None
    /\ phase' = "absent"
    /\ mem' = Blank
    /\ UNCHANGED <<yaml, options, present, toSave, disk, form, stops, editVars>>

WriteStore ==
    /\ toSave # None
    /\ disk' = toSave
    /\ toSave' = None
    /\ unsaved' = {}
    /\ UNCHANGED <<yaml, options, present, phase, mem, form, stops, edits, expected>>

\* Home Assistant ends at once, and starts with another configuration.yaml.
Crash(y) ==
    /\ stops < MaxStops
    /\ stops' = stops + 1
    /\ yaml' = y
    /\ phase' = "absent"
    /\ mem' = Blank
    /\ toSave' = None
    /\ form' = Closed
    /\ expected' = [s \in Settings |-> IF s \in unsaved THEN None ELSE expected[s]]
    /\ unsaved' = {}
    /\ UNCHANGED <<options, present, disk, edits>>

-----------------------------------------------------------------------------
(* Edits.                                                                  *)

Listening == phase \in {"running", "unloading", "saving"}

\* The controls were synchronised since the set-up began.
Live == phase = "starting" \/ Listening

\* The options flow is used when it may be.
FormsUsed == FormsInSetup \/ Listening \/ phase = "absent"

\* A dynamic channel is in the configuration by its options only, before
\* discovery has added it.
Configured(s) == s \notin Dynamic \/ options[s].value # None

\* async_options_config with a coordinator: effective_settings.
CoordinatorView(s) ==
    CASE ~Configured(s) /\ phase \in {"loading", "loaded"} -> Default[s]
      [] mem[s].value # None -> mem[s].value
      [] OTHER -> Inherited(s, options).value

\* Mistaken variant: a stored value counts, inherited or not.
OfflineViewSeeded(s) ==
    CASE ~Configured(s) -> Default[s]
      [] Configured(s) /\ Pending(s, disk, options) -> options[s].value
      [] Configured(s) /\ ~Pending(s, disk, options) /\ disk[s].value # None ->
            IF disk[s].source = "none" THEN Agreed(s, disk[s].value, options) ELSE disk[s].value
      [] OTHER -> Inherited(s, options).value

\* async_options_config without: the layers, over them what is stored and
\* not inherited, over that an update that was not consumed.
OfflineView(s) ==
    CASE ~Configured(s) -> Default[s]
      [] Configured(s) /\ Pending(s, disk, options) -> options[s].value
      [] Configured(s) /\ ~Pending(s, disk, options) /\ disk[s].value # None /\ ~Follows(disk[s]) ->
            IF disk[s].source = "none" THEN Agreed(s, disk[s].value, options) ELSE disk[s].value
      [] OTHER -> Inherited(s, options).value

View(s) == IF phase \in {"absent", "failing"} THEN OfflineView(s) ELSE CoordinatorView(s)

\* The form shows the fields of the channels there are, as they are now.
OpenForm ==
    /\ FormsUsed
    /\ form = Closed
    /\ form' = [s \in FormFields |-> IF s \in present THEN View(s) ELSE None]
    /\ UNCHANGED <<yaml, options, present, phase, storeVars, stops, editVars>>

Changed(submitted) == {s \in FormFields : form[s] # None /\ submitted[s] # form[s]}

\* edited_options: a patch of what was changed in the form.
EditedOptions(submitted, rev) ==
    [s \in Settings |->
        IF s \in Changed(submitted) THEN [value |-> submitted[s], rev |-> rev] ELSE options[s]]

\* Home Assistant stores the options and calls the listener, which applies
\* them to the controls there are, and saves when one has changed.
Submit(submitted) ==
    /\ FormsUsed
    /\ form # Closed
    /\ edits < MaxEdits
    /\ Changed(submitted) # {}
    /\ edits' = edits + 1
    /\ options' = EditedOptions(submitted, edits')
    /\ mem' = IF Listening THEN ApplyOptions(mem, options', present) ELSE mem
    /\ toSave' = IF mem' # mem THEN mem' ELSE toSave
    /\ form' = Closed
    /\ expected' = [s \in Settings |-> IF s \in Changed(submitted) THEN submitted[s] ELSE expected[s]]
    /\ unsaved' = unsaved \ Changed(submitted)
    /\ UNCHANGED <<yaml, present, phase, disk, stops>>

\* Mistaken variant: the entity's edit forgets the revision.
SetValueAnew(e, v) == [value |-> v, source |-> "runtime", rev |-> 0]

SetValue(e, v) == [e EXCEPT !.value = v, !.source = "runtime"]

\* set_value, by an entity or a service, and the save that follows.
SetRuntime(s, v) ==
    /\ Live
    /\ s \in present
    /\ edits < MaxEdits
    /\ mem[s] # SetValue(mem[s], v)
    /\ edits' = edits + 1
    /\ mem' = [mem EXCEPT ![s] = SetValue(@, v)]
    /\ toSave' = mem'
    /\ expected' = [expected EXCEPT ![s] = v]
    /\ unsaved' = unsaved \cup {s}
    /\ UNCHANGED <<yaml, options, present, phase, disk, form, stops>>

Next ==
    \/ Start \/ LoadState \/ Ready \/ SetupFails \/ Unload \/ FinalSave \/ Unloaded \/ WriteStore
    \/ \E there \in SUBSET Settings : SyncSetup(there)
    \/ \E there \in SUBSET Settings, saves \in BOOLEAN : Refresh(there, saves)
    \/ \E y \in YamlFiles : Crash(y)
    \/ OpenForm
    \/ \E submitted \in [FormFields -> Values] : Submit(submitted)
    \/ \E s \in Settings, v \in Values : SetRuntime(s, v)

Spec == Init /\ [][Next]_vars

(***************************************************************************)
(* Home Assistant sets up an entry that is not disabled and goes on with   *)
(* every set-up, unload and save it began.  Nobody has to edit anything.   *)
(***************************************************************************)
FairSpec ==
    /\ Spec
    /\ WF_vars(Start) /\ WF_vars(LoadState) /\ WF_vars(Ready)
    /\ WF_vars(\E there \in SUBSET Settings : SyncSetup(there))
    /\ WF_vars(FinalSave) /\ WF_vars(Unloaded) /\ WF_vars(WriteStore)

-----------------------------------------------------------------------------
(* Properties.                                                             *)

\* The set-up has synchronised the controls there are.
Settled(s) == Listening /\ s \in present

\* Types; an update has a value, and a control that was synchronised has one
\* and says where it is from.
TypeOK ==
    /\ yaml \in YamlFiles
    /\ options \in [Settings -> [value : Values \cup {None}, rev : 0..MaxEdits]]
    /\ \A s \in Settings : options[s].rev # 0 => options[s].value # None
    /\ present \subseteq Settings /\ Settings \ Dynamic \subseteq present
    /\ phase \in {"absent", "loading", "loaded", "starting", "running", "unloading", "saving", "failing"}
    /\ mem \in Controls /\ disk \in Controls /\ toSave \in Controls \cup {None}
    /\ form \in [FormFields -> Values \cup {None}]
    /\ edits \in 0..MaxEdits /\ stops \in 0..MaxStops
    /\ expected \in [Settings -> Values \cup {None}]
    /\ unsaved \subseteq Settings
    /\ Live => \A s \in present : mem[s].value # None /\ mem[s].source # "none"

\* A control has the value of the latest edit that was not lost, whether the
\* form or the entity made it, through refreshes, reloads, crashes, failed
\* set-ups and channels that come and go: an update is "applied once and
\* persisted before entry reload" (docs/controls.md 48), a form changes only
\* what was edited in it, and no older update comes back.
LastEditWins == \A s \in Settings : Settled(s) /\ expected[s] # None => mem[s].value = expected[s]

\* A value from a form's update is the latest edit: "later entity edits are
\* not overwritten by stale Options snapshots" (docs/controls.md 48-49).
NoStaleForm ==
    \A s \in Settings :
        Settled(s) /\ expected[s] # None /\ mem[s].source = "options" /\ mem[s].rev # 0 =>
            mem[s].value = expected[s]

\* What nobody has edited follows the configuration as it is now, and no
\* value that was once inherited outlives its layer.
InheritedFollows ==
    \A s \in Settings :
        Settled(s) /\ Follows(mem[s]) =>
            mem[s] = [value |-> Inherited(s, options).value, source |-> Inherited(s, options).source, rev |-> 0]

\* Without a coordinator the form computes by itself what the next set-up
\* would: the two implementations of layers, stored values and updates agree.
OfflineAgrees ==
    phase = "absent" =>
        \A s \in FormFields \cup AiEnabled :
            s \notin Dynamic /\ (disk[s].value # None \/ Legacy[s] = None) =>
                OfflineView(s) = Synced(disk, options, present)[s].value

\* Every options edit of a channel that stays is consumed in the end, also
\* one that was stored while the entry was away, crashed or failed.
EditTakesEffect ==
    \A s \in FormFields \ Dynamic :
        options[s].rev # 0 ~> (Listening /\ mem[s].rev = options[s].rev)
=============================================================================
