--------------------------- MODULE ControlsProofs ---------------------------
(***************************************************************************)
(* Proofs about Controls for every set of settings, every configuration    *)
(* and every number of edits and crashes.                                  *)
(***************************************************************************)
EXTENDS Controls, TLAPS

-----------------------------------------------------------------------------
(* The inductive invariant.                                                *)

\* Where the coordinator has read its state and not dropped it.
HasState == {"loaded", "starting", "running", "unloading", "saving"}

\* In m the control s has the value v, or will have it when it is synchronised
\* with the options o.
Current(m, o, s, v) ==
    IF Pending(s, m, o) THEN o[s].value = v
    ELSE m[s].value = v /\ m[s].source # "none" /\ ~Follows(m[s])

\* A revision is the number of one of the n edits; what has one is a value.
Sound(e, n) == e.rev <= n /\ (e.rev # 0 => e.value # None /\ e.source # "none")

Revisions ==
    \A s \in Settings :
        /\ options[s].rev <= edits /\ Sound(mem[s], edits) /\ Sound(disk[s], edits)
        /\ toSave # None => Sound(toSave[s], edits)

\* No update waits for a control there is.
Consumed == Live => \A s \in present : ~Pending(s, mem, options)

\* What is not in the file is in a snapshot that waits.
Snapshots ==
    /\ unsaved # {} => toSave # None
    /\ phase \in {"absent", "loading", "loaded"} => toSave = None

\* Every copy that may count next has the latest edits.
EditsKept ==
    \A s \in Settings : expected[s] # None =>
        /\ s \in unsaved \/ Current(disk, options, s, expected[s])
        /\ toSave # None => Current(toSave, options, s, expected[s])
        /\ phase \in HasState => Current(mem, options, s, expected[s])

\* What follows the configuration has its present value.
Inheriting ==
    Live => \A s \in present :
        Follows(mem[s]) => /\ mem[s].value = Inherited(s, options).value
                           /\ mem[s].source = Inherited(s, options).source

IInv == TypeOK /\ Revisions /\ Consumed /\ Snapshots /\ EditsKept /\ Inheriting

-----------------------------------------------------------------------------
(* What one synchronisation does to one control.                           *)

Sources == FromConfig \cup {"none", "legacy", "restored", "runtime"}
Control == [value : Values \cup {None}, source : Sources, rev : 0..MaxEdits]
Options == [Settings -> [value : Values \cup {None}, rev : 0..MaxEdits]]

\* Some layer, or the default, has a value of the control's type.
LEMMA InheritedType ==
    ASSUME NEW s \in Settings, NEW o \in Options, yaml \in YamlFiles
    PROVE  Inherited(s, o) \in [value : Values, source : FromConfig]
<1>1. Entry[s] \in Values \cup {None} /\ yaml[s] \in Values \cup {None} /\ Default[s] \in Values
  BY ValuesAssumption
<1>2. o[s].value \in Values \cup {None}
  BY DEF Options
<1> QED
  BY <1>1, <1>2 DEF Inherited, FromConfig

\* ensure_defaults leaves a typed value that says where it is from.
LEMMA EnsuredType ==
    ASSUME NEW s \in Settings, NEW e \in Control, NEW o \in Options, yaml \in YamlFiles
    PROVE  /\ Ensured(s, e, o) \in Control
           /\ Ensured(s, e, o).value # None /\ Ensured(s, e, o).source # "none"
<1>1. Inherited(s, o).value \in Values /\ Inherited(s, o).source \in FromConfig
  BY InheritedType
<1>2. /\ Off \in Values /\ None \notin Values /\ Legacy[s] \in Values \cup {None}
      /\ 0 \in 0..MaxEdits
  BY ValuesAssumption, BoundsAssumption
<1>3. \A v \in Values : Agreed(s, v, o) \in Values
  BY <1>2 DEF Agreed
<1>4. /\ e = [value |-> e.value, source |-> e.source, rev |-> e.rev]
      /\ e.value \in Values \cup {None} /\ e.source \in Sources /\ e.rev \in 0..MaxEdits
  BY DEF Control
<1> QED
  BY <1>1, <1>2, <1>3, <1>4 DEF Ensured, Control, Sources, FromConfig, Follows

\* It keeps an edit.
LEMMA EnsuredKeeps ==
    ASSUME NEW s \in Settings, NEW e \in Control, NEW o,
           e.value # None, e.source # "none", ~Follows(e)
    PROVE  Ensured(s, e, o) = e
BY DEF Ensured

\* It drops no revision.
LEMMA EnsuredRevision ==
    ASSUME NEW s \in Settings, NEW e \in Control, NEW o,
           e.rev # 0 => e.value # None /\ e.source # "none"
    PROVE  Ensured(s, e, o).rev = e.rev
BY DEF Ensured, Control, Follows

\* apply_option_updates keeps types, and afterwards nothing is pending.
LEMMA ApplyOptionsType ==
    ASSUME NEW m \in Controls, NEW o \in Options, NEW there
    PROVE  /\ ApplyOptions(m, o, there) \in Controls
           /\ \A s \in there \cap Settings : ~Pending(s, ApplyOptions(m, o, there), o)
BY DEF ApplyOptions, Pending, Controls, Options, FromConfig

\* So does _sync_controls, which gives every control there is a value.
LEMMA SyncedType ==
    ASSUME NEW m \in Controls, NEW o \in Options, NEW there \in SUBSET Settings, yaml \in YamlFiles
    PROVE  /\ Synced(m, o, there) \in Controls
           /\ \A s \in there : /\ Synced(m, o, there)[s].value # None
                               /\ Synced(m, o, there)[s].source # "none"
<1> DEFINE a == ApplyOptions(m, o, there)
<1>1. a \in [Settings -> Control] /\ Controls = [Settings -> Control]
  BY ApplyOptionsType DEF Controls, Control, Sources
<1>2. \A s \in Settings : a[s] \in Control
  BY <1>1
<1> HIDE DEF a
<1>3. \A s \in there : /\ Ensured(s, a[s], o) \in Control
                       /\ Ensured(s, a[s], o).value # None /\ Ensured(s, a[s], o).source # "none"
  BY <1>2, EnsuredType
<1>4. Synced(m, o, there) = [s \in Settings |-> IF s \in there THEN Ensured(s, a[s], o) ELSE a[s]]
  BY DEF Synced, a
<1> QED
  BY <1>1, <1>2, <1>3, <1>4

\* It keeps what is sound sound, and leaves nothing pending.
LEMMA SyncedSound ==
    ASSUME NEW m \in Controls, NEW o \in Options, NEW there \in SUBSET Settings, NEW n \in Nat,
           \A s \in Settings : o[s].rev <= n /\ (o[s].rev # 0 => o[s].value # None) /\ Sound(m[s], n)
    PROVE  /\ \A s \in Settings : Sound(Synced(m, o, there)[s], n)
           /\ \A s \in there : ~Pending(s, Synced(m, o, there), o)
<1> DEFINE a == ApplyOptions(m, o, there)
<1>1. /\ a \in [Settings -> Control]
      /\ \A s \in there : ~Pending(s, a, o)
  BY ApplyOptionsType DEF Controls, Control, Sources
<1>2. \A s \in Settings : Sound(a[s], n)
  BY DEF ApplyOptions, Pending, Sound, Options
<1>3. Synced(m, o, there) = [s \in Settings |-> IF s \in there THEN Ensured(s, a[s], o) ELSE a[s]]
  BY DEF Synced
<1> HIDE DEF a
<1>4. ASSUME NEW s \in there PROVE Ensured(s, a[s], o).rev = a[s].rev
  BY <1>1, <1>2, EnsuredRevision DEF Sound
<1>5. ASSUME NEW s \in there, Ensured(s, a[s], o).rev # 0
      PROVE  Ensured(s, a[s], o).value # None /\ Ensured(s, a[s], o).source # "none"
  <2>1. a[s].value # None /\ a[s].source # "none" /\ ~Follows(a[s])
    BY <1>2, <1>4, <1>5 DEF Sound, Follows
  <2> QED
    BY <1>1, <2>1, EnsuredKeeps
<1>6. \A s \in there : Sound(Ensured(s, a[s], o), n)
  BY <1>2, <1>4, <1>5 DEF Sound
<1> QED
  BY <1>1, <1>2, <1>3, <1>4, <1>6 DEF Pending

\* It keeps the latest edit, pending or not.
LEMMA SyncedCurrent ==
    ASSUME NEW m \in Controls, NEW o \in Options, NEW there \in SUBSET Settings,
           NEW s \in Settings, NEW v, v # None, Current(m, o, s, v)
    PROVE  Current(Synced(m, o, there), o, s, v)
<1> DEFINE a == ApplyOptions(m, o, there)
           e == [value |-> o[s].value, source |-> "options", rev |-> o[s].rev]
<1>1. a \in [Settings -> Control] /\ m \in [Settings -> Control]
  BY ApplyOptionsType DEF Controls, Control, Sources
<1>2. Synced(m, o, there)[s] = IF s \in there THEN Ensured(s, a[s], o) ELSE a[s]
  BY DEF Synced
<1>3. a[s] = IF s \in there /\ Pending(s, m, o) THEN e ELSE m[s]
  BY DEF ApplyOptions
<1>4. CASE s \notin there
  BY <1>2, <1>3, <1>4 DEF Current, Pending
<1>5. CASE s \in there /\ Pending(s, m, o)
  <2>1. /\ e.value = v /\ e.source # "none" /\ ~Follows(e)
    BY <1>5 DEF Current, Pending, Follows
  <2>2. Synced(m, o, there)[s] = e
    BY <1>1, <1>2, <1>3, <1>5, <2>1, EnsuredKeeps
  <2> QED
    BY <2>1, <2>2 DEF Current, Pending
<1>6. CASE s \in there /\ ~Pending(s, m, o)
  <2>1. Synced(m, o, there)[s] = m[s]
    BY <1>1, <1>2, <1>3, <1>6, EnsuredKeeps DEF Current
  <2> QED
    BY <1>6, <2>1 DEF Current, Pending
<1> QED
  BY <1>4, <1>5, <1>6

-----------------------------------------------------------------------------
(* Types.                                                                  *)

\* What the synchronisation leaves is typed, for the state it starts from.
LEMMA SyncedTypeOK ==
    ASSUME TypeOK, NEW there \in SUBSET Settings
    PROVE  /\ Synced(mem, options, there) \in Controls
           /\ \A s \in there : /\ Synced(mem, options, there)[s].value # None
                               /\ Synced(mem, options, there)[s].source # "none"
BY SyncedType DEF TypeOK, Options

LEMMA InitTypeOK == Init => TypeOK
<1> SUFFICES ASSUME Init PROVE TypeOK
  OBVIOUS
<1>1. Unset \in Control
  BY BoundsAssumption DEF Unset, Control, Sources
<1>2. mem \in Controls
  BY <1>1 DEF Init, Blank, Controls, Control, Sources
<1>3. disk \in Controls
  <2>1. PICK d \in FirstStores : disk = [s \in Settings |-> [Unset EXCEPT !.value = d[s]]]
    BY DEF Init
  <2>2. d \in [Settings -> Values \cup {None}]
    BY ValuesAssumption
  <2> QED
    BY <2>1, <2>2, BoundsAssumption DEF Controls, Unset
<1>4. /\ options \in [Settings -> [value : Values \cup {None}, rev : 0..MaxEdits]]
      /\ \A s \in Settings : options[s].rev = 0
  <2>1. PICK o \in FirstOptions : options = [s \in Settings |-> [value |-> o[s], rev |-> 0]]
    BY DEF Init
  <2>2. o \in [Settings -> Values \cup {None}]
    BY ValuesAssumption
  <2> QED
    BY <2>1, <2>2, BoundsAssumption
<1> QED
  BY <1>2, <1>3, <1>4, BoundsAssumption DEF Init, TypeOK, Closed, Live, Listening

LEMMA EditTypeOK ==
    ASSUME TypeOK, NEW submitted \in [FormFields -> Values], Submit(submitted)
    PROVE  TypeOK'
<1>1. /\ edits' \in 1..MaxEdits
      /\ \A s \in Changed(submitted) : s \in Settings /\ submitted[s] \in Values
  BY SettingsAssumption, BoundsAssumption DEF Submit, TypeOK, Changed
<1>2. /\ options' \in [Settings -> [value : Values \cup {None}, rev : 0..MaxEdits]]
      /\ \A s \in Settings : options'[s].rev # 0 => options'[s].value # None
  BY <1>1, ValuesAssumption DEF Submit, EditedOptions, TypeOK
<1>3. ApplyOptions(mem, options', present) \in Controls
  BY <1>2, ApplyOptionsType DEF TypeOK, Options
<1>4. \A s \in Settings : \/ ApplyOptions(mem, options', present)[s] = mem[s]
                          \/ /\ ApplyOptions(mem, options', present)[s].value # None
                             /\ ApplyOptions(mem, options', present)[s].source # "none"
  BY <1>2 DEF ApplyOptions, Pending
<1>5. mem' \in Controls /\ toSave' \in Controls \cup {None}
  BY <1>3 DEF Submit, TypeOK
<1>6. Live' => \A s \in present' : mem'[s].value # None /\ mem'[s].source # "none"
  BY <1>4 DEF Submit, TypeOK, Live, Listening
<1>7. expected' \in [Settings -> Values \cup {None}]
  BY <1>1 DEF Submit, TypeOK
<1>8. form' \in [FormFields -> Values \cup {None}] /\ unsaved' \subseteq Settings
  BY DEF Submit, TypeOK, Closed
<1> QED
  BY <1>1, <1>2, <1>5, <1>6, <1>7, <1>8 DEF Submit, TypeOK

LEMMA RuntimeTypeOK ==
    ASSUME TypeOK, NEW s \in Settings, NEW v \in Values, SetRuntime(s, v)
    PROVE  TypeOK'
<1>1. mem \in [Settings -> Control] /\ Controls = [Settings -> Control]
  BY DEF TypeOK, Controls, Control, Sources
<1>2. SetValue(mem[s], v) \in Control /\ SetValue(mem[s], v).value = v
      /\ SetValue(mem[s], v).source = "runtime"
  BY <1>1 DEF SetValue, Control, Sources
<1>3. mem' = [mem EXCEPT ![s] = SetValue(mem[s], v)]
  BY DEF SetRuntime
<1>4. mem' \in Controls
  BY <1>1, <1>2, <1>3
<1>5. Live' => \A t \in present' : mem'[t].value # None /\ mem'[t].source # "none"
  BY <1>1, <1>2, <1>3, ValuesAssumption DEF SetRuntime, TypeOK, Live, Listening
<1>6. edits' \in 0..MaxEdits
  BY BoundsAssumption DEF SetRuntime, TypeOK
<1>7. expected' \in [Settings -> Values \cup {None}] /\ unsaved' \subseteq Settings
  BY DEF SetRuntime, TypeOK
<1> QED
  BY <1>4, <1>5, <1>6, <1>7 DEF SetRuntime, TypeOK

LEMMA FormTypeOK == ASSUME TypeOK, OpenForm PROVE TypeOK'
<1>1. ASSUME NEW s \in FormFields PROVE View(s) \in Values \cup {None}
  <2>1. s \in Settings /\ options \in Options /\ yaml \in YamlFiles
    BY SettingsAssumption DEF TypeOK, Options
  <2>2. /\ Inherited(s, options).value \in Values /\ options[s].value \in Values \cup {None}
        /\ mem[s].value \in Values \cup {None} /\ disk[s].value \in Values \cup {None}
    BY <2>1, InheritedType DEF TypeOK, Controls, Options
  <2>3. Default[s] \in Values /\ Agreed(s, disk[s].value, options) \in Values \cup {None}
    BY <2>1, <2>2, ValuesAssumption DEF Agreed
  <2>4. OfflineView(s) \in Values \cup {None}
    BY <2>2, <2>3 DEF OfflineView
  <2>5. CoordinatorView(s) \in Values \cup {None}
    BY <2>2, <2>3 DEF CoordinatorView
  <2> QED
    BY <2>4, <2>5 DEF View
<1>2. form' \in [FormFields -> Values \cup {None}]
  BY <1>1 DEF OpenForm
<1> QED
  BY <1>2 DEF OpenForm, TypeOK, storeVars, editVars, Live, Listening

\* Every step keeps the types.
LEMMA NextTypeOK == TypeOK /\ [Next]_vars => TypeOK'
<1> SUFFICES ASSUME TypeOK, [Next]_vars PROVE TypeOK'
  OBVIOUS
<1> USE DEF Live, Listening, storeVars, editVars
<1>1. CASE Start
  BY <1>1 DEF Start, TypeOK
<1>2. CASE LoadState
  BY <1>2 DEF LoadState, TypeOK
<1>3. CASE Ready
  BY <1>3 DEF Ready, TypeOK
<1>4. CASE SetupFails
  BY <1>4, BoundsAssumption DEF SetupFails, TypeOK
<1>5. CASE Unload
  BY <1>5 DEF Unload, TypeOK
<1>6. CASE FinalSave
  BY <1>6 DEF FinalSave, TypeOK
<1>7. CASE Unloaded
  <2>1. mem' \in Controls
    BY <1>7, BoundsAssumption DEF Unloaded, Blank, Unset, Controls
  <2> QED
    BY <1>7, <2>1 DEF Unloaded, TypeOK
<1>8. CASE WriteStore
  BY <1>8 DEF WriteStore, TypeOK
<1>9. CASE \E there \in SUBSET Settings : SyncSetup(there)
  BY <1>9, SyncedTypeOK DEF SyncSetup, TypeOK
<1>10. CASE \E there \in SUBSET Settings, saves \in BOOLEAN : Refresh(there, saves)
  BY <1>10, SyncedTypeOK DEF Refresh, TypeOK
<1>11. CASE \E y \in YamlFiles : Crash(y)
  <2>1. mem' \in Controls
    BY <1>11, BoundsAssumption DEF Crash, Blank, Unset, Controls
  <2> QED
    BY <1>11, <2>1, BoundsAssumption DEF Crash, TypeOK, Closed
<1>12. CASE OpenForm
  BY <1>12, FormTypeOK
<1>13. CASE \E submitted \in [FormFields -> Values] : Submit(submitted)
  BY <1>13, EditTypeOK
<1>14. CASE \E s \in Settings, v \in Values : SetRuntime(s, v)
  BY <1>14, RuntimeTypeOK
<1>15. CASE UNCHANGED vars
  BY <1>15 DEF vars, TypeOK
<1> QED
  BY <1>1, <1>2, <1>3, <1>4, <1>5, <1>6, <1>7, <1>8, <1>9, <1>10, <1>11, <1>12, <1>13, <1>14, <1>15
     DEF Next

\* Values stay typed, and every control that was synchronised has one.
THEOREM TypeCorrect == Spec => []TypeOK
BY InitTypeOK, NextTypeOK, PTL DEF Spec

-----------------------------------------------------------------------------
(* The latest edits.                                                       *)

\* A blank state, or one from before there were revisions, is sound.
LEMMA InitIInv == Init => IInv
<1> SUFFICES ASSUME Init PROVE IInv
  OBVIOUS
<1>1. TypeOK
  BY InitTypeOK
<1>2. \A s \in Settings : options[s].rev = 0 /\ mem[s].rev = 0 /\ disk[s].rev = 0
  <2>1. PICK o \in FirstOptions : options = [s \in Settings |-> [value |-> o[s], rev |-> 0]]
    BY DEF Init
  <2>2. PICK d \in FirstStores : disk = [s \in Settings |-> [Unset EXCEPT !.value = d[s]]]
    BY DEF Init
  <2> QED
    BY <2>1, <2>2 DEF Init, Blank, Unset
<1>3. edits = 0 /\ toSave = None
  BY DEF Init
<1>4. Revisions
  <2>1. ASSUME NEW s \in Settings
        PROVE  options[s].rev <= edits /\ Sound(mem[s], edits) /\ Sound(disk[s], edits)
    BY <1>2, <1>3 DEF Sound
  <2> QED
    BY <1>3, <2>1 DEF Revisions
<1>5. Consumed /\ Snapshots /\ EditsKept /\ Inheriting
  BY DEF Init, Consumed, Snapshots, EditsKept, Inheriting, Live, Listening
<1> QED
  BY <1>1, <1>4, <1>5 DEF IInv

\* Steps of the set-up, the unload and the store that change no control.
LEMMA QuietSteps ==
    ASSUME IInv, \/ Start \/ Ready \/ Unload \/ OpenForm \/ UNCHANGED vars
    PROVE  (Revisions /\ Consumed /\ Snapshots /\ EditsKept /\ Inheriting)'
<1>1. /\ UNCHANGED <<yaml, options, present, mem, toSave, disk, edits, expected, unsaved>>
      /\ Live' => Live
      /\ phase' \in HasState => phase \in HasState
      /\ phase' \in {"absent", "loading", "loaded"} => phase \in {"absent", "loading", "loaded"}
  BY DEF Start, Ready, Unload, OpenForm, vars, storeVars, editVars, Live, Listening, HasState
<1>2. Revisions' /\ Snapshots'
  BY <1>1 DEF IInv, Revisions, Sound, Snapshots
<1>3. Consumed'
  BY <1>1 DEF IInv, Consumed, Pending
<1>4. EditsKept'
  BY <1>1 DEF IInv, EditsKept, Current, Pending
<1>5. Inheriting'
  BY <1>1 DEF IInv, Inheriting, Inherited, Follows
<1> QED
  BY <1>2, <1>3, <1>4, <1>5

\* The state is read when no snapshot waits, so the file has every edit.
LEMMA LoadStep ==
    ASSUME IInv, LoadState
    PROVE  (Revisions /\ Consumed /\ Snapshots /\ EditsKept /\ Inheriting)'
<1>1. unsaved = {} /\ toSave = None
  BY DEF IInv, Snapshots, LoadState
<1>2. Revisions' /\ Snapshots'
  BY <1>1 DEF IInv, Revisions, Sound, Snapshots, LoadState, editVars
<1>3. EditsKept'
  BY <1>1 DEF IInv, EditsKept, Current, Pending, LoadState, editVars
<1>4. Consumed' /\ Inheriting'
  BY DEF Consumed, Inheriting, LoadState, Live, Listening
<1> QED
  BY <1>2, <1>3, <1>4

\* What the set-up and the refresh have in common.
LEMMA SyncStep ==
    ASSUME IInv, NEW there \in SUBSET Settings,
           phase \in HasState,
           present' = there, mem' = Synced(mem, options, there), toSave' \in {toSave, mem'},
           phase' \in HasState, phase' = "loaded" => FALSE,
           UNCHANGED <<yaml, options, disk, edits, expected, unsaved>>
    PROVE  (Revisions /\ Consumed /\ Snapshots /\ EditsKept /\ Inheriting)'
<1> DEFINE synced == Synced(mem, options, there)
<1>1. /\ mem \in Controls /\ options \in Options /\ edits \in Nat /\ yaml \in YamlFiles
      /\ \A s \in Settings : /\ options[s].rev <= edits
                             /\ options[s].rev # 0 => options[s].value # None
                             /\ Sound(mem[s], edits)
  BY BoundsAssumption DEF IInv, TypeOK, Revisions, Options
<1>2. /\ \A s \in Settings : Sound(synced[s], edits)
      /\ \A s \in there : ~Pending(s, synced, options)
  BY <1>1, SyncedSound
<1>3. synced \in Controls
  BY <1>1, SyncedType
<1>4. toSave' # None => toSave' = synced \/ (toSave' = toSave /\ toSave # None)
  OBVIOUS
<1>5. Revisions'
  BY <1>2, <1>4 DEF IInv, Revisions, Sound
<1>6. Consumed'
  BY <1>2 DEF Consumed, Pending
<1>7. Snapshots'
  BY <1>3, ValuesAssumption DEF IInv, Snapshots, HasState
<1>8. ASSUME NEW s \in Settings, expected[s] # None
      PROVE  Current(synced, options, s, expected[s])
  BY <1>1, <1>8, SyncedCurrent DEF IInv, EditsKept
<1>9. EditsKept'
  BY <1>4, <1>8 DEF IInv, EditsKept, Current, Pending
<1>10. ASSUME NEW s \in there, Follows(synced[s])
       PROVE  /\ synced[s].value = Inherited(s, options).value
              /\ synced[s].source = Inherited(s, options).source
  <2> DEFINE a == ApplyOptions(mem, options, there)
  <2>1. synced[s] = Ensured(s, a[s], options)
    BY DEF Synced
  <2> QED
    BY <1>10, <2>1 DEF Ensured, Follows, FromConfig
<1>11. Inheriting'
  BY <1>10 DEF Inheriting, Follows, Inherited
<1> QED
  BY <1>5, <1>6, <1>7, <1>9, <1>11

LEMMA SynchronisingSteps ==
    ASSUME IInv, NEW there \in SUBSET Settings, NEW saves \in BOOLEAN,
           SyncSetup(there) \/ Refresh(there, saves)
    PROVE  (Revisions /\ Consumed /\ Snapshots /\ EditsKept /\ Inheriting)'
<1>1. /\ phase \in HasState /\ present' = there /\ mem' = Synced(mem, options, there)
      /\ toSave' \in {toSave, mem'} /\ phase' \in HasState /\ (phase' = "loaded" => FALSE)
      /\ UNCHANGED <<yaml, options, disk, edits, expected, unsaved>>
  BY DEF SyncSetup, Refresh, HasState, editVars
<1> QED
  BY <1>1, SyncStep

\* A snapshot of a state that has been read replaces an older one.
LEMMA SnapshotSteps ==
    ASSUME IInv, ~LoadMayFail, SetupFails \/ FinalSave
    PROVE  (Revisions /\ Consumed /\ Snapshots /\ EditsKept /\ Inheriting)'
<1>1. /\ phase \in HasState /\ toSave' = mem /\ phase' \in {"failing", "saving"}
      /\ phase' = "saving" => Live
      /\ UNCHANGED <<yaml, options, present, mem, disk, edits, expected, unsaved>>
  BY DEF SetupFails, FinalSave, HasState, editVars, Live, Listening
<1>2. mem # None
  BY ValuesAssumption DEF IInv, TypeOK
<1>3. Revisions' /\ Snapshots'
  BY <1>1, <1>2 DEF IInv, Revisions, Sound, Snapshots
<1>4. EditsKept'
  BY <1>1 DEF IInv, EditsKept, Current, Pending
<1>5. Consumed' /\ Inheriting'
  BY <1>1 DEF IInv, Consumed, Inheriting, Pending, Follows, Inherited, Live, Listening
<1> QED
  BY <1>3, <1>4, <1>5

\* The coordinator goes when everything is in the file, or goes down.
LEMMA EndingSteps ==
    ASSUME IInv, Unloaded \/ \E y \in YamlFiles : Crash(y)
    PROVE  (Revisions /\ Consumed /\ Snapshots /\ EditsKept /\ Inheriting)'
<1>1. /\ phase' = "absent" /\ mem' = Blank /\ toSave' = None /\ unsaved' = {}
      /\ UNCHANGED <<options, disk, edits>>
      /\ \A s \in Settings : expected'[s] # None => expected'[s] = expected[s] /\ s \notin unsaved
  BY DEF IInv, Snapshots, TypeOK, Unloaded, Crash, editVars
<1>2. Revisions'
  BY <1>1, BoundsAssumption DEF IInv, TypeOK, Revisions, Sound, Blank, Unset
<1>3. Snapshots' /\ Consumed' /\ Inheriting'
  BY <1>1 DEF Snapshots, Consumed, Inheriting, Live, Listening
<1>4. EditsKept'
  BY <1>1 DEF IInv, EditsKept, Current, Pending, HasState
<1> QED
  BY <1>2, <1>3, <1>4

LEMMA WriteStep ==
    ASSUME IInv, WriteStore
    PROVE  (Revisions /\ Consumed /\ Snapshots /\ EditsKept /\ Inheriting)'
<1>1. Revisions' /\ Snapshots'
  BY DEF IInv, Revisions, Sound, Snapshots, WriteStore
<1>2. EditsKept'
  BY DEF IInv, EditsKept, Current, Pending, WriteStore
<1>3. Consumed' /\ Inheriting'
  BY DEF IInv, Consumed, Inheriting, Pending, Follows, Inherited, WriteStore, Live, Listening
<1> QED
  BY <1>1, <1>2, <1>3

\* What was edited in the form is pending in every copy but the coordinator's,
\* which has consumed it; what was not is as before.
LEMMA SubmitStep ==
    ASSUME IInv, ~FormsInSetup, NEW submitted \in [FormFields -> Values], Submit(submitted)
    PROVE  (Revisions /\ Consumed /\ Snapshots /\ EditsKept /\ Inheriting)'
<1> DEFINE changed == Changed(submitted)
<1>1. /\ edits \in Nat /\ edits' = edits + 1 /\ changed \subseteq Settings
      /\ options' = [s \in Settings |-> IF s \in changed THEN [value |-> submitted[s], rev |-> edits']
                                        ELSE options[s]]
      /\ \A s \in changed : submitted[s] \in Values
      /\ Listening \/ phase = "absent"
  BY SettingsAssumption, BoundsAssumption
  DEF IInv, TypeOK, Submit, EditedOptions, Changed, FormsUsed
<1>2. /\ expected' = [s \in Settings |-> IF s \in changed THEN submitted[s] ELSE expected[s]]
      /\ unsaved' = unsaved \ changed
      /\ UNCHANGED <<yaml, present, phase, disk>>
  BY DEF Submit
<1>3. ASSUME NEW s \in Settings, s \notin changed
      PROVE  mem'[s] = mem[s] /\ options'[s] = options[s]
  BY <1>1, <1>3 DEF IInv, Consumed, Submit, ApplyOptions, Pending, Live
<1>4. ASSUME NEW s \in changed
      PROVE  mem'[s] = IF Listening /\ s \in present
                       THEN [value |-> submitted[s], source |-> "options", rev |-> edits']
                       ELSE mem[s]
  BY <1>1 DEF IInv, Revisions, Sound, Submit, ApplyOptions, Pending
<1>5. toSave' = mem' \/ toSave' = toSave
  BY DEF Submit
<1>6. ASSUME NEW s \in Settings
      PROVE  Sound(mem'[s], edits')
  <2>1. mem[s].rev \in Nat /\ Sound(mem[s], edits)
    BY BoundsAssumption DEF IInv, TypeOK, Controls, Revisions
  <2>2. CASE mem'[s] = mem[s]
    BY <1>1, <2>1, <2>2 DEF Sound
  <2>3. CASE s \in changed /\ mem'[s] = [value |-> submitted[s], source |-> "options", rev |-> edits']
    BY <1>1, <2>3, ValuesAssumption DEF Sound
  <2> QED
    BY <1>3, <1>4, <2>2, <2>3
<1>7. ASSUME NEW s \in Settings
      PROVE  /\ options'[s].rev <= edits' /\ Sound(disk'[s], edits')
             /\ toSave' # None => Sound(toSave'[s], edits')
  <2>1. /\ options[s].rev \in Nat /\ disk[s].rev \in Nat
        /\ toSave # None => toSave[s].rev \in Nat
    BY BoundsAssumption DEF IInv, TypeOK, Controls
  <2> QED
    BY <1>1, <1>2, <1>5, <1>6, <2>1 DEF IInv, Revisions, Sound
<1>8. Revisions'
  BY <1>6, <1>7 DEF Revisions
<1>9. Consumed'
  <2>1. ASSUME Live, NEW s \in present PROVE ~Pending(s, mem', options')
    <3>1. s \in Settings /\ Listening
      BY <1>1, <2>1 DEF IInv, TypeOK, Live, Listening
    <3>2. CASE s \in changed
      <4>1. /\ mem'[s] = [value |-> submitted[s], source |-> "options", rev |-> edits']
            /\ options'[s] = [value |-> submitted[s], rev |-> edits']
        BY <1>1, <1>4, <2>1, <3>1, <3>2
      <4> QED
        BY <4>1 DEF Pending
    <3>3. CASE s \notin changed
      BY <1>3, <2>1, <3>1, <3>3 DEF IInv, Consumed, Pending
    <3> QED
      BY <3>2, <3>3
  <2> QED
    BY <1>2, <2>1 DEF Consumed, Pending, Live, Listening
<1>10. Snapshots'
  <2>1. mem' = mem \/ toSave' = mem'
    BY DEF Submit
  <2>2. mem' # None
    BY EditTypeOK, ValuesAssumption DEF IInv, TypeOK
  <2>3. phase = "absent" => toSave' = toSave
    BY DEF Submit, Listening
  <2> QED
    BY <1>1, <1>2, <1>5, <2>2, <2>3 DEF IInv, Snapshots, Listening
<1>11. ASSUME NEW s \in Settings, expected'[s] # None
       PROVE  /\ s \in unsaved' \/ Current(disk, options', s, expected'[s])
              /\ toSave' # None => Current(toSave', options', s, expected'[s])
              /\ phase \in HasState => Current(mem', options', s, expected'[s])
  <2>1. CASE s \in changed
    <3>1. /\ expected'[s] = submitted[s]
          /\ options'[s] = [value |-> submitted[s], rev |-> edits']
      BY <1>1, <1>2, <2>1
    <3>2. disk[s].rev # edits' /\ mem[s].rev # edits' /\ edits' # 0
          /\ (toSave # None => toSave[s].rev # edits')
      BY <1>1, BoundsAssumption DEF IInv, TypeOK, Controls, Revisions, Sound
    <3>3. Current(mem', options', s, expected'[s])
      <4>1. CASE Listening /\ s \in present
        <5>1. mem'[s] = [value |-> submitted[s], source |-> "options", rev |-> edits']
          BY <1>4, <2>1, <4>1
        <5> QED
          BY <3>1, <3>2, <5>1 DEF Current, Pending, Follows
      <4>2. CASE ~(Listening /\ s \in present)
        <5>1. mem'[s] = mem[s]
          BY <1>4, <2>1, <4>2
        <5> QED
          BY <3>1, <3>2, <5>1 DEF Current, Pending
      <4> QED
        BY <4>1, <4>2
    <3> QED
      BY <1>5, <3>1, <3>2, <3>3 DEF Current, Pending
  <2>2. CASE s \notin changed
    <3>1. /\ expected'[s] = expected[s] /\ (s \in unsaved' <=> s \in unsaved)
          /\ mem'[s] = mem[s] /\ options'[s] = options[s]
      BY <1>2, <1>3, <2>2
    <3>2. Current(disk, options, s, expected[s]) => Current(disk, options', s, expected'[s])
      BY <3>1 DEF Current, Pending
    <3>3. phase \in HasState => Current(mem', options', s, expected'[s])
      BY <1>11, <3>1 DEF IInv, EditsKept, Current, Pending
    <3>4. toSave' = toSave \/ (toSave' = mem' /\ phase \in HasState)
      BY DEF Submit, Listening, HasState
    <3>5. toSave # None => Current(toSave, options', s, expected'[s])
      BY <1>11, <3>1 DEF IInv, EditsKept, Current, Pending
    <3> QED
      BY <1>11, <3>1, <3>2, <3>3, <3>4, <3>5 DEF IInv, EditsKept
  <2> QED
    BY <2>1, <2>2
<1>12. EditsKept'
  BY <1>2, <1>11 DEF EditsKept
<1>13. Inheriting'
  <2>1. ASSUME Live, NEW s \in present, s \in changed PROVE ~Follows(mem'[s])
    <3>1. Listening /\ mem'[s] = [value |-> submitted[s], source |-> "options", rev |-> edits']
      BY <1>1, <1>4, <2>1 DEF Live, Listening
    <3> QED
      BY <1>1, <3>1 DEF Follows
  <2>2. ASSUME Live, NEW s \in present, s \notin changed, Follows(mem'[s])
        PROVE  /\ mem'[s].value = Inherited(s, options').value
               /\ mem'[s].source = Inherited(s, options').source
    <3>1. s \in Settings /\ mem'[s] = mem[s] /\ options'[s] = options[s]
      BY <1>3, <2>2 DEF IInv, TypeOK
    <3>2. Inherited(s, options') = Inherited(s, options)
      BY <3>1 DEF Inherited
    <3> QED
      BY <2>2, <3>1, <3>2 DEF IInv, Inheriting
  <2>3. /\ Live' <=> Live
        /\ present' = present
        /\ \A s \in present : Inherited(s, options)' = Inherited(s, options')
    BY <1>2 DEF Live, Listening, Inherited
  <2> QED
    BY <2>1, <2>2, <2>3 DEF Inheriting, Follows
<1> QED
  BY <1>8, <1>9, <1>10, <1>12, <1>13

\* An edit by the entity keeps the revision that its control has consumed.
LEMMA RuntimeStep ==
    ASSUME IInv, NEW s \in Settings, NEW v \in Values, SetRuntime(s, v)
    PROVE  (Revisions /\ Consumed /\ Snapshots /\ EditsKept /\ Inheriting)'
<1>1. /\ Live /\ s \in present /\ toSave' = mem' /\ edits' = edits + 1
      /\ mem' = [mem EXCEPT ![s] = [mem[s] EXCEPT !.value = v, !.source = "runtime"]]
      /\ expected' = [expected EXCEPT ![s] = v] /\ unsaved' = unsaved \cup {s}
      /\ UNCHANGED <<yaml, options, present, phase, disk>>
  BY DEF SetRuntime, SetValue
<1>2. mem \in [Settings -> Control] /\ v # None /\ expected \in [Settings -> Values \cup {None}]
  BY ValuesAssumption DEF IInv, TypeOK, Controls, Control, Sources
<1>3. /\ mem'[s].value = v /\ mem'[s].source = "runtime" /\ mem'[s].rev = mem[s].rev
      /\ \A t \in Settings \ {s} : mem'[t] = mem[t]
  BY <1>1, <1>2 DEF Control
<1>4. Revisions'
  <2>1. ASSUME NEW t \in Settings
        PROVE  options[t].rev \in Nat /\ mem[t].rev \in Nat /\ disk[t].rev \in Nat
    BY BoundsAssumption DEF IInv, TypeOK, Controls
  <2>2. edits \in Nat
    BY BoundsAssumption DEF IInv, TypeOK
  <2> QED
    BY <1>1, <1>2, <1>3, <2>1, <2>2 DEF IInv, Revisions, Sound
<1>5. Consumed'
  BY <1>1, <1>3 DEF IInv, TypeOK, Consumed, Pending, Live, Listening
<1>6. Snapshots'
  <2>1. mem' # None
    BY RuntimeTypeOK, ValuesAssumption DEF IInv, TypeOK
  <2> QED
    BY <1>1, <2>1 DEF Snapshots, Live, Listening
<1>7. ASSUME NEW t \in Settings, expected'[t] # None
      PROVE  /\ t \in unsaved' \/ Current(disk, options, t, expected'[t])
             /\ Current(mem', options, t, expected'[t])
  <2>1. CASE t = s
    <3>1. ~Pending(s, mem', options)
      BY <1>1, <1>3 DEF IInv, Consumed, Pending
    <3> QED
      BY <1>1, <1>2, <1>3, <2>1, <3>1 DEF Current, Follows, FromConfig
  <2>2. CASE t # s
    <3>1. expected'[t] = expected[t] /\ mem'[t] = mem[t] /\ phase \in HasState
      BY <1>1, <1>2, <1>3, <2>2 DEF Live, Listening, HasState
    <3> QED
      BY <1>1, <1>7, <3>1 DEF IInv, EditsKept, Current, Pending
  <2> QED
    BY <2>1, <2>2
<1>8. EditsKept'
  BY <1>1, <1>7 DEF EditsKept
<1>9. Inheriting'
  <2>1. ~Follows(mem'[s])
    BY <1>3 DEF Follows, FromConfig
  <2>2. \A t \in present : Inherited(t, options)' = Inherited(t, options)
    BY <1>1 DEF Inherited
  <2> QED
    BY <1>1, <1>3, <2>1, <2>2 DEF IInv, TypeOK, Inheriting, Follows, Live, Listening
<1> QED
  BY <1>4, <1>5, <1>6, <1>8, <1>9

\* Every step keeps the inductive invariant, when no form is used during the
\* set-up and the file can be read.
LEMMA NextIInv ==
    ASSUME ~FormsInSetup, ~LoadMayFail, IInv, [Next]_vars
    PROVE  IInv'
<1>1. TypeOK'
  BY NextTypeOK DEF IInv
<1>2. CASE Start \/ Ready \/ Unload \/ OpenForm \/ UNCHANGED vars
  BY <1>1, <1>2, QuietSteps DEF IInv
<1>3. CASE LoadState
  BY <1>1, <1>3, LoadStep DEF IInv
<1>4. CASE SetupFails \/ FinalSave
  BY <1>1, <1>4, SnapshotSteps DEF IInv
<1>5. CASE Unloaded \/ \E y \in YamlFiles : Crash(y)
  BY <1>1, <1>5, EndingSteps DEF IInv
<1>6. CASE WriteStore
  BY <1>1, <1>6, WriteStep DEF IInv
<1>7. CASE \E there \in SUBSET Settings : SyncSetup(there)
  BY <1>1, <1>7, SynchronisingSteps DEF IInv
<1>8. CASE \E there \in SUBSET Settings, saves \in BOOLEAN : Refresh(there, saves)
  BY <1>1, <1>8, SynchronisingSteps DEF IInv
<1>9. CASE \E submitted \in [FormFields -> Values] : Submit(submitted)
  BY <1>1, <1>9, SubmitStep DEF IInv
<1>10. CASE \E s \in Settings, v \in Values : SetRuntime(s, v)
  BY <1>1, <1>10, RuntimeStep DEF IInv
<1> QED
  BY <1>2, <1>3, <1>4, <1>5, <1>6, <1>7, <1>8, <1>9, <1>10 DEF Next

\* A control has the value of its latest edit, whoever made it, and through
\* every reload and crash that did not lose it.
THEOREM LatestEditWins ==
    ASSUME ~FormsInSetup, ~LoadMayFail
    PROVE  Spec => []LastEditWins
<1>1. IInv => LastEditWins
  BY DEF IInv, Consumed, EditsKept, LastEditWins, Settled, Current, Live, Listening, HasState
<1> QED
  BY <1>1, InitIInv, NextIInv, PTL DEF Spec

\* A control nobody has edited follows the configuration.
THEOREM InheritedAlwaysFollows ==
    ASSUME ~FormsInSetup, ~LoadMayFail
    PROVE  Spec => []InheritedFollows
<1>1. ASSUME IInv, NEW s \in Settings, Settled(s), Follows(mem[s])
      PROVE  mem[s] = [value |-> Inherited(s, options).value,
                       source |-> Inherited(s, options).source, rev |-> 0]
  <2>1. mem[s] \in Control
    BY <1>1 DEF IInv, TypeOK, Controls, Control, Sources
  <2>2. mem[s] = [value |-> mem[s].value, source |-> mem[s].source, rev |-> mem[s].rev]
    BY <2>1 DEF Control
  <2> QED
    BY <1>1, <2>2 DEF IInv, Inheriting, Follows, Settled, Live
<1>2. IInv => InheritedFollows
  BY <1>1 DEF InheritedFollows
<1> QED
  BY <1>2, InitIInv, NextIInv, PTL DEF Spec

\* The form's own reading of the file and the next set-up agree.
THEOREM OfflineAlwaysAgrees ==
    ASSUME ~FormsInSetup, ~LoadMayFail
    PROVE  Spec => []OfflineAgrees
<1>1. ASSUME IInv, phase = "absent", NEW s \in FormFields \cup AiEnabled,
             s \notin Dynamic, disk[s].value # None \/ Legacy[s] = None
      PROVE  OfflineView(s) = Synced(disk, options, present)[s].value
  <2>1. /\ s \in present /\ s \in Settings /\ Configured(s)
        /\ disk \in [Settings -> Control] /\ options \in Options
    BY <1>1, SettingsAssumption DEF IInv, TypeOK, Configured, Controls, Control, Sources, Options
  <2>2. Sound(disk[s], edits) /\ (options[s].rev # 0 => options[s].value # None)
    BY <1>1, <2>1 DEF IInv, TypeOK, Revisions
  <2> DEFINE a == ApplyOptions(disk, options, present)
             e == [value |-> options[s].value, source |-> "options", rev |-> options[s].rev]
  <2>3. Synced(disk, options, present)[s] = Ensured(s, a[s], options)
    BY <2>1 DEF Synced
  <2>4. CASE Pending(s, disk, options)
    <3>1. a[s] = e /\ e.value # None /\ e.source # "none" /\ ~Follows(e)
      BY <2>1, <2>2, <2>4 DEF ApplyOptions, Pending, Follows
    <3>2. Ensured(s, e, options) = e
      BY <3>1 DEF Ensured
    <3> QED
      BY <2>1, <2>3, <2>4, <3>1, <3>2 DEF OfflineView
  <2>5. CASE ~Pending(s, disk, options)
    <3>1. a[s] = disk[s]
      BY <2>1, <2>5 DEF ApplyOptions
    <3>2. disk[s].value = None \/ Follows(disk[s])
          => Ensured(s, disk[s], options).value = Inherited(s, options).value
      BY <1>1 DEF Ensured, Follows, FromConfig
    <3>3. disk[s].value # None /\ ~Follows(disk[s])
          => Ensured(s, disk[s], options).value =
                IF disk[s].source = "none" THEN Agreed(s, disk[s].value, options) ELSE disk[s].value
      BY DEF Ensured
    <3> QED
      BY <2>1, <2>3, <2>5, <3>1, <3>2, <3>3 DEF OfflineView
  <2> QED
    BY <2>4, <2>5
<1>2. IInv => OfflineAgrees
  BY <1>1 DEF OfflineAgrees
<1> QED
  BY <1>2, InitIInv, NextIInv, PTL DEF Spec
=============================================================================
