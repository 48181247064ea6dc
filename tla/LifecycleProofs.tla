-------------------------- MODULE LifecycleProofs --------------------------
(***************************************************************************)
(* That set-up, unload and their failures leave nothing behind, for any    *)
(* number of set-ups, failures and retries and however Lovelace is used.   *)
(*                                                                         *)
(* NothingLeft only speaks of the moments at which no set-up or unload is  *)
(* in progress.  The invariant says what is there at each of their steps   *)
(* (Phases), and that whatever may still set a timer either belongs to a   *)
(* coordinator that is not yet shut down, the newest one, or has been told *)
(* that it is (Registered, Tended).                                        *)
(***************************************************************************)
EXTENDS Lifecycle, TLAPS

Ops == {"idle", "audio", "refresh", "front", "services", "platforms",
        "cleanup", "shutdown", "draining", "closing"}
RunState == [pc : {"none", "begin", "look", "put", "check", "list", "save"},
             gen : Nat, card : BOOLEAN, late : BOOLEAN]
AudioState == [pc : {"none", "waiting", "working"}, gen : Nat]

TypeOK ==
    /\ op \in Ops /\ entry \in {"out", "loaded", "stuck"} /\ gen \in Nat /\ services \in BOOLEAN
    /\ runs \in [Runs -> RunState]
    /\ tidy \in AudioState /\ speech \in AudioState
    /\ hushed \subseteq 1..gen

\* What the entry has at each step of its life.
Phases ==
    /\ op \notin {"idle", "draining", "closing"} => entry = "out"
    /\ op \in {"draining", "closing"} => entry = "loaded"
    /\ op # "idle" \/ entry # "out" => gen > 0
    /\ op = "idle" /\ entry = "out" => coords = {} /\ ~services /\ listeners = {} /\ reg = 0
    /\ op \in {"audio", "refresh", "front"} => coords = {gen} /\ ~services /\ reg = 0
    /\ op \in {"services", "platforms"} => coords = {gen} /\ reg \in {0, gen} /\ (services <=> op = "platforms")
    /\ op \in {"audio", "refresh", "shutdown", "draining", "closing"} => listeners = {}
    /\ op \in {"front", "services", "platforms"} => listeners = {gen}
    /\ op \in {"cleanup", "shutdown"} => coords = {} /\ reg = 0
    /\ op = "cleanup" => listeners \subseteq {gen}
    /\ op = "shutdown" => ~services
    /\ op = "idle" /\ entry = "loaded" => listeners = {gen}
    /\ entry = "stuck" => listeners = {}
    /\ entry # "out" => coords = {gen} /\ services /\ reg \in {0, gen}

\* The registration that may set its timer.
Live == IF op = "front" THEN {gen} ELSE IF entry = "stuck" THEN {} ELSE {reg} \ {0}

Registered ==
    /\ retry \subseteq Live
    /\ \A r \in Runs : runs[r].pc # "none" => runs[r].gen \in closed \cup Live
    /\ runs[Main].pc # "none" <=> op = "front"
    /\ runs[Main].gen = IF op = "front" THEN gen ELSE 0

\* The coordinator whose audio cache may set its timer.
Alive == IF op = "closing" \/ (op = "idle" /\ entry # "loaded") THEN {} ELSE {gen}

Tended ==
    /\ upkeep \subseteq Alive
    /\ Alive \cap hushed = {}
    /\ tidy.pc # "none" => tidy.gen \in hushed \cup Alive
    /\ speech.pc # "none" => speech.gen \in hushed \cup Alive
    /\ gen \in listeners \/ op = "refresh" => gen \in upkeep \/ tidy.gen = gen

IInv == TypeOK /\ Phases /\ Registered /\ Tended

-----------------------------------------------------------------------------
(* The runs of the registration.                                           *)

\* What a step of a run may do: it goes on, ends, or ends with an exception,
\* and sets its own timer only.
Advances(r) ==
    /\ runs[r].pc # "none"
    /\ retry' \subseteq retry \cup ({runs[r].gen} \ closed)
    /\ \/ /\ runs' \in [Runs -> RunState]
          /\ \A q \in Runs \ {r} : runs'[q] = runs[q]
          /\ runs'[r].pc # "none" /\ runs'[r].gen = runs[r].gen
          /\ UNCHANGED <<op, reg, closed>>
       \/ runs' = [runs EXCEPT ![r] = Quiet] /\ UNCHANGED closed
          /\ IF r = Main THEN op' = "services" /\ reg' = runs[Main].gen ELSE UNCHANGED <<op, reg>>
       \/ runs' = [runs EXCEPT ![r] = Quiet] /\ UNCHANGED reg
          /\ IF r = Main THEN op' = "services" /\ Shut({runs[r].gen}) ELSE UNCHANGED <<op, closed, retry>>
    /\ UNCHANGED <<entry, gen, coords, services, listeners, audioVars>>

LEMMA GoesAdvances ==
    ASSUME TypeOK, NEW r \in Runs, runs[r].pc # "none",
           NEW pc \in {"look", "put", "check", "list", "save"}, NEW card \in BOOLEAN, Goes(r, pc, card),
           retry' \subseteq retry \cup ({runs[r].gen} \ closed),
           UNCHANGED <<entry, gen, coords, services, listeners, audioVars>>
    PROVE  Advances(r)
<1>1. runs[r] \in RunState
    BY DEF TypeOK
<1>2. /\ runs' \in [Runs -> RunState]
      /\ \A q \in Runs \ {r} : runs'[q] = runs[q]
      /\ runs'[r].pc # "none" /\ runs'[r].gen = runs[r].gen
    BY <1>1 DEF TypeOK, Goes, RunState
<1>3. UNCHANGED <<op, reg, closed>>
    BY DEF Goes
<1> QED
    BY <1>2, <1>3 DEF Advances

LEMMA FinishAdvances ==
    ASSUME NEW r \in Runs, runs[r].pc # "none", NEW card \in BOOLEAN, NEW board \in BOOLEAN,
           Finish(r, card, board),
           UNCHANGED <<entry, gen, coords, services, listeners, audioVars>>
    PROVE  Advances(r)
BY DEF Finish, Ended, Retrying, Advances

LEMMA RaisesAdvances ==
    ASSUME NEW r \in Runs, runs[r].pc # "none", Raises(r),
           UNCHANGED <<entry, gen, coords, services, listeners, audioVars>>
    PROVE  Advances(r)
BY DEF Raises, Shut, Advances

LEMMA DashboardAdvances ==
    ASSUME TypeOK, NEW r \in Runs, runs[r].pc # "none", NEW card \in BOOLEAN, NEW timers,
           Dashboard(r, card, timers), timers \subseteq retry \cup ({runs[r].gen} \ closed),
           UNCHANGED <<entry, gen, coords, services, listeners, audioVars>>
    PROVE  Advances(r)
<1>1. CASE Settled
    BY <1>1, FinishAdvances DEF Dashboard
<1>2. CASE ~Settled
    BY <1>2, GoesAdvances DEF Dashboard
<1> QED
    BY <1>1, <1>2

LEMMA RunStepAdvances ==
    ASSUME TypeOK, NEW r \in Runs, RunStep(r)
    PROVE  Advances(r)
<1>0. runs[r].card \in BOOLEAN
    BY DEF TypeOK, RunState
<1>1. CASE Begin(r)
    <2>1. runs[r].pc # "none" /\ UNCHANGED <<entry, gen, coords, services, listeners, audioVars>>
        BY <1>1 DEF Begin
    <2>2. CASE runs[r].gen \in closed \/ lovelace = "absent"
        BY <1>1, <2>1, <2>2 DEF Begin, Ended, Retrying, Advances
    <2>3. CASE runs[r].gen \notin closed /\ lovelace # "absent"
        <3>1. CASE home = "yaml"
            BY <1>1, <2>1, <2>3, <3>1, FinishAdvances DEF Begin
        <3>2. CASE home # "yaml"
            <4>1. Goes(r, "look", FALSE) /\ UNCHANGED retry
                BY <1>1, <2>3, <3>2 DEF Begin
            <4> QED
                BY <2>1, <4>1, GoesAdvances
        <3> QED
            BY <3>1, <3>2
    <2> QED
        BY <2>2, <2>3
<1>2. CASE Look(r)
    <2>1. runs[r].pc # "none" /\ UNCHANGED <<entry, gen, coords, services, listeners, audioVars>>
        BY <1>2 DEF Look
    <2>2. Dashboard(r, TRUE, retry) \/ (Goes(r, "put", FALSE) /\ UNCHANGED retry)
        BY <1>2 DEF Look
    <2> QED
        BY <2>1, <2>2, DashboardAdvances, GoesAdvances
<1>3. CASE Put(r)
    <2>1. runs[r].pc # "none" /\ UNCHANGED <<entry, gen, coords, services, listeners, audioVars>>
        BY <1>3 DEF Put
    <2>2. CASE Dashboard(r, TRUE, retry)
        BY <2>1, <2>2, DashboardAdvances
    <2>3. CASE Dashboard(r, resource = "current", IF fetched THEN retry ELSE Retrying(runs[r].gen))
        <3>1. (IF fetched THEN retry ELSE Retrying(runs[r].gen)) \subseteq retry \cup ({runs[r].gen} \ closed)
            BY DEF Retrying
        <3>2. (resource = "current") \in BOOLEAN
            OBVIOUS
        <3> QED
            BY <2>1, <2>3, <3>1, <3>2, DashboardAdvances
    <2> QED
        BY <1>3, <2>2, <2>3 DEF Put
<1>4. CASE Check(r)
    BY <1>0, <1>4, FinishAdvances, GoesAdvances DEF Check
<1>5. CASE List(r)
    <2>1. runs[r].pc # "none" /\ UNCHANGED <<entry, gen, coords, services, listeners, audioVars>>
        BY <1>5 DEF List
    <2>2. CASE runs' = [runs EXCEPT ![r].pc = "save"] /\ UNCHANGED <<op, reg, closed, retry>>
        <3>1. runs[r] \in RunState
            BY DEF TypeOK
        <3>2. /\ runs' \in [Runs -> RunState]
              /\ \A q \in Runs \ {r} : runs'[q] = runs[q]
              /\ runs'[r].pc # "none" /\ runs'[r].gen = runs[r].gen
            BY <2>2, <3>1 DEF TypeOK, RunState
        <3> QED
            BY <2>1, <2>2, <3>2 DEF Advances
    <2>3. CASE Raises(r)
        BY <2>1, <2>3, RaisesAdvances
    <2> QED
        BY <1>5, <2>2, <2>3 DEF List
<1>6. CASE SaveLayout(r)
    <2>1. runs[r].pc # "none" /\ UNCHANGED <<entry, gen, coords, services, listeners, audioVars>>
        BY <1>6 DEF SaveLayout
    <2>2. Raises(r) \/ Finish(r, runs[r].card, TRUE)
        BY <1>6 DEF SaveLayout
    <2> QED
        BY <1>0, <2>1, <2>2, RaisesAdvances, FinishAdvances
<1> QED
    BY <1>1, <1>2, <1>3, <1>4, <1>5, <1>6 DEF RunStep

LEMMA RunKeeps ==
    ASSUME IInv, NEW r \in Runs, Advances(r)
    PROVE  IInv'
<1> USE DEF IInv
<1>0. Main \in Runs
    BY DEF Runs
<1>1. TypeOK'
    <2>1. Quiet \in RunState
        BY DEF Quiet, RunState
    <2>2. runs' \in [Runs -> RunState]
        BY <2>1 DEF TypeOK, Advances
    <2>3. op' \in Ops
        BY DEF TypeOK, Advances, Ops
    <2> QED
        BY <2>2, <2>3 DEF TypeOK, Advances, audioVars
<1>2. op' = op \/ (r = Main /\ op = "front" /\ op' = "services" /\ reg' \in {reg, gen})
    BY DEF Advances, Registered
<1>3. op' = op => reg' = reg
    BY <1>0 DEF Advances, Registered
<1>4. Phases'
    <2>1. UNCHANGED <<entry, gen, coords, services, listeners>>
        BY DEF Advances
    <2> QED
        BY <1>2, <1>3, <2>1 DEF Phases
<1>5. Registered'
    <2>1. UNCHANGED <<entry, gen>>
        BY DEF Advances
    <2>2. runs[r].gen \in closed \cup Live
        BY DEF Registered, Advances
    <2>3. CASE UNCHANGED <<op, reg, closed>> /\ runs' \in [Runs -> RunState]
               /\ (\A q \in Runs \ {r} : runs'[q] = runs[q])
               /\ runs'[r].pc # "none" /\ runs'[r].gen = runs[r].gen
        BY <1>0, <2>1, <2>2, <2>3 DEF Registered, Live, Advances
    <2>4. CASE r # Main /\ runs' = [runs EXCEPT ![r] = Quiet] /\ UNCHANGED <<op, reg, closed>>
        BY <1>0, <2>1, <2>2, <2>4 DEF Registered, Live, Advances, TypeOK, Quiet
    <2>5. CASE r = Main /\ runs' = [runs EXCEPT ![r] = Quiet] /\ op' = "services"
        <3>1. op = "front" /\ runs[Main].gen = gen /\ Live = {gen} /\ gen > 0 /\ gen \in Nat /\ entry = "out"
            BY <2>5 DEF Registered, Advances, Live, Phases, TypeOK
        <3>2. runs'[Main] = Quiet /\ \A q \in Runs \ {Main} : runs'[q] = runs[q]
            BY <1>0, <2>5 DEF TypeOK
        <3>3. CASE UNCHANGED closed /\ reg' = gen
            <4>1. Live' = {gen}
                BY <2>1, <2>5, <3>1, <3>3 DEF Live
            <4> QED
                BY <2>5, <3>1, <3>2, <3>3, <4>1 DEF Registered, Advances, Quiet
        <3>4. CASE reg' = reg /\ closed' = closed \cup {gen} /\ retry' = retry \ {gen}
            <4>1. Live' = {}
                BY <2>1, <2>5, <3>1, <3>4 DEF Live, Phases
            <4> QED
                BY <2>5, <3>1, <3>2, <3>4, <4>1 DEF Registered, Quiet
        <3> QED
            BY <2>5, <3>1, <3>3, <3>4 DEF Advances, Shut, Registered
    <2> QED
        BY <2>3, <2>4, <2>5 DEF Advances
<1>6. Tended'
    <2>1. Alive' = Alive
        BY <1>2 DEF Alive, Advances
    <2> QED
        BY <1>2, <2>1 DEF Tended, Advances, audioVars
<1> QED
    BY <1>1, <1>4, <1>5, <1>6

\* The timer's run belongs to the registration whose timer it was.
LEMMA RetryKeeps ==
    ASSUME IInv, NEW g \in Gens, NEW r \in Retries, RetryFires(g, r)
    PROVE  IInv'
<1> USE DEF IInv
<1>1. r \in Runs /\ r # Main /\ Main \in Runs
    BY BoundsAssumption DEF Runs
<1>2. g \in Nat
    BY BoundsAssumption DEF Gens
<1> DEFINE run == [Quiet EXCEPT !.pc = "begin", !.gen = g]
<1>3. run \in RunState /\ run.pc = "begin" /\ run.gen = g
    BY <1>2 DEF Quiet, RunState
<1>9. runs' = [runs EXCEPT ![r] = run]
    BY DEF RetryFires
<1> HIDE DEF run
<1>4. UNCHANGED <<entryVars, reg, closed, audioVars>> /\ retry' \subseteq retry /\ g \in retry
    BY DEF RetryFires
<1>5. TypeOK'
    BY <1>1, <1>3, <1>9, <1>4 DEF TypeOK, entryVars, audioVars
<1>6. Phases'
    BY <1>4 DEF Phases, entryVars
<1>7. Registered'
    <2>1. Live' = Live /\ g \in Live
        BY <1>4 DEF Live, entryVars, Registered
    <2>2. runs'[r].gen = g /\ \A q \in Runs \ {r} : runs'[q] = runs[q]
        BY <1>1, <1>3, <1>9 DEF TypeOK
    <2> QED
        BY <1>1, <1>4, <2>1, <2>2 DEF Registered, entryVars
<1>8. Tended'
    BY <1>4 DEF Tended, Alive, entryVars, audioVars
<1> QED
    BY <1>5, <1>6, <1>7, <1>8

-----------------------------------------------------------------------------
(* Lovelace and the audio cache.                                           *)

LEMMA LateIsFlag ==
    ASSUME NEW q \in RunState, NEW b \in BOOLEAN
    PROVE  /\ [q EXCEPT !.late = b] \in RunState
           /\ [q EXCEPT !.late = b].pc = q.pc
           /\ [q EXCEPT !.late = b].gen = q.gen
BY DEF RunState

\* Nothing but Lovelace, its users and the counters move.
LEMMA LovelaceKeeps ==
    ASSUME IInv, LovelaceStarts \/ UserEdits
    PROVE  IInv'
<1> USE DEF IInv
<1>0. Main \in Runs
    BY DEF Runs
<1>1. UNCHANGED <<entryVars, reg, closed, retry, audioVars>>
    BY DEF LovelaceStarts, UserEdits, frontVars
<1>2. /\ runs' \in [Runs -> RunState]
      /\ \A r \in Runs : runs'[r].pc = runs[r].pc /\ runs'[r].gen = runs[r].gen
    <2>1. CASE UserEdits
        <3> SUFFICES ASSUME NEW r \in Runs
                     PROVE  /\ [runs[r] EXCEPT !.late = runs[r].pc \in {"list", "save"}] \in RunState
                            /\ [runs[r] EXCEPT !.late = runs[r].pc \in {"list", "save"}].pc = runs[r].pc
                            /\ [runs[r] EXCEPT !.late = runs[r].pc \in {"list", "save"}].gen = runs[r].gen
            BY <2>1 DEF UserEdits
        <3>1. runs[r] \in RunState
            BY DEF TypeOK
        <3>2. (runs[r].pc \in {"list", "save"}) \in BOOLEAN
            OBVIOUS
        <3> QED
            BY <3>1, <3>2, LateIsFlag
    <2>2. CASE LovelaceStarts
        BY <2>2 DEF LovelaceStarts, frontVars, TypeOK
    <2> QED
        BY <2>1, <2>2
<1>3. TypeOK' /\ Phases' /\ Tended'
    BY <1>1, <1>2 DEF TypeOK, Phases, Tended, Alive, entryVars, audioVars
<1>4. Registered'
    BY <1>0, <1>1, <1>2 DEF Registered, Live, entryVars
<1> QED
    BY <1>3, <1>4

\* A cache that is shut down sets no timer; that of the newest coordinator has
\* one, or is being looked after.
LEMMA AudioKeeps ==
    ASSUME IInv, AudioStep \/ Speak \/ \E g \in Gens : UpkeepFires(g)
    PROVE  IInv'
<1> USE DEF IInv
<1>1. UNCHANGED <<entryVars, frontVars, hushed>>
    BY DEF AudioStep, TakeLock, Tidied, Stored, Speak, UpkeepFires
<1>2. Phases' /\ Registered'
    BY <1>1 DEF Phases, Registered, Live, entryVars, frontVars
<1>3. Alive' = Alive
    BY <1>1 DEF Alive, entryVars
<1>4. gen \in listeners => gen \in Alive
    BY DEF Alive, Phases, TypeOK
<1>5. CASE \E g \in Gens : UpkeepFires(g)
    <2>1. PICK g \in Gens : UpkeepFires(g)
        BY <1>5
    <2>2. g \in Nat /\ g = gen /\ g \notin hushed /\ g \in Alive /\ tidy = None
        BY <2>1, BoundsAssumption DEF UpkeepFires, Tended, Alive, Gens
    <2>3. tidy' = [pc |-> "waiting", gen |-> g] /\ upkeep' = upkeep \ {g} /\ speech' = speech
        BY <2>1, <2>2 DEF UpkeepFires
    <2>4. TypeOK'
        BY <1>1, <2>2, <2>3 DEF TypeOK, AudioState, entryVars, frontVars
    <2>5. Tended'
        BY <1>1, <1>3, <2>2, <2>3 DEF Tended, entryVars
    <2> QED
        BY <1>2, <2>4, <2>5
<1>6. CASE Speak
    <2>1. gen \in Alive
        BY <1>4, <1>6 DEF Speak
    <2>2. speech' = [pc |-> "waiting", gen |-> gen] /\ UNCHANGED <<upkeep, tidy>>
        BY <1>6 DEF Speak
    <2>3. TypeOK'
        BY <1>1, <2>2 DEF TypeOK, AudioState, entryVars, frontVars
    <2>4. Tended'
        BY <1>1, <1>3, <2>1, <2>2 DEF Tended, entryVars
    <2> QED
        BY <1>2, <2>3, <2>4
<1>7. CASE TakeLock
    <2>1. CASE tidy.pc = "waiting" /\ tidy' = [tidy EXCEPT !.pc = "working"] /\ UNCHANGED speech
        <3>1. tidy' \in AudioState /\ tidy'.gen = tidy.gen /\ UNCHANGED upkeep
            BY <1>7, <2>1 DEF TakeLock, TypeOK, AudioState
        <3> QED
            BY <1>1, <1>2, <1>3, <2>1, <3>1 DEF TypeOK, Tended, entryVars, frontVars
    <2>2. CASE speech.pc = "waiting" /\ speech' = [speech EXCEPT !.pc = "working"] /\ UNCHANGED tidy
        <3>1. speech' \in AudioState /\ speech'.gen = speech.gen /\ UNCHANGED upkeep
            BY <1>7, <2>2 DEF TakeLock, TypeOK, AudioState
        <3> QED
            BY <1>1, <1>2, <1>3, <2>2, <3>1 DEF TypeOK, Tended, entryVars, frontVars
    <2> QED
        BY <1>7, <2>1, <2>2 DEF TakeLock
<1>8. CASE Tidied
    <2>1. tidy' = None /\ upkeep' = Scheduled(tidy.gen) /\ UNCHANGED speech /\ tidy.gen \in hushed \cup Alive
        BY <1>8 DEF Tidied, Tended
    <2>2. TypeOK'
        BY <1>1, <2>1 DEF TypeOK, AudioState, None, entryVars, frontVars
    <2>3. tidy'.pc = "none"
        BY <2>1 DEF None
    <2>4. upkeep' \subseteq Alive /\ upkeep \subseteq upkeep'
        BY <2>1 DEF Scheduled, Tended
    <2>5. gen \in listeners \/ op = "refresh" => gen \in upkeep'
        <3> SUFFICES ASSUME gen \in listeners \/ op = "refresh"
                     PROVE  gen \in upkeep'
            OBVIOUS
        <3>1. gen \in Alive /\ gen \notin hushed
            BY <1>4 DEF Alive, Tended
        <3> QED
            BY <2>1, <2>4, <3>1 DEF Tended, Scheduled
    <2>6. Tended'
        BY <1>1, <1>3, <2>1, <2>3, <2>4, <2>5 DEF Tended, entryVars
    <2> QED
        BY <1>2, <2>2, <2>6
<1>9. CASE Stored
    <2>1. /\ speech' = None /\ UNCHANGED tidy /\ speech.gen \in hushed \cup Alive
          /\ upkeep' \in {upkeep, Scheduled(speech.gen)}
        BY <1>9 DEF Stored, Tended
    <2>2. TypeOK'
        BY <1>1, <2>1 DEF TypeOK, AudioState, None, entryVars, frontVars
    <2>3. speech'.pc = "none"
        BY <2>1 DEF None
    <2>4. upkeep' \subseteq Alive /\ upkeep \subseteq upkeep'
        BY <2>1 DEF Scheduled, Tended
    <2>5. Tended'
        BY <1>1, <1>3, <2>1, <2>3, <2>4 DEF Tended, entryVars
    <2> QED
        BY <1>2, <2>2, <2>5
<1> QED
    BY <1>5, <1>6, <1>7, <1>8, <1>9 DEF AudioStep

-----------------------------------------------------------------------------
(* Set-up and unload.                                                      *)

\* A coordinator that is set up is the newest; what older ones left is told so.
LEMMA SetUpKeeps ==
    ASSUME IInv, SetUp
    PROVE  IInv'
<1> USE DEF IInv
<1>1. UNCHANGED <<entry, services, listeners, frontVars, audioVars>> /\ op = "idle" /\ entry = "out"
    BY DEF SetUp
<1>2. gen' = gen + 1 /\ gen \in Nat /\ coords' = {gen'} /\ op' = "audio"
    BY DEF SetUp, TypeOK
<1>3. hushed \subseteq 1..gen
    BY DEF TypeOK
<1>4. TypeOK'
    BY <1>1, <1>2, <1>3 DEF TypeOK, Ops, frontVars, audioVars
<1>5. Phases'
    BY <1>1, <1>2 DEF Phases, frontVars
<1>6. Registered'
    <2>1. Live = {} /\ Live' = {}
        BY <1>1, <1>2 DEF Live, Phases, frontVars
    <2> QED
        BY <1>1, <1>2, <2>1 DEF Registered, frontVars
<1>7. Tended'
    <2>1. Alive = {} /\ Alive' = {gen + 1} /\ gen + 1 \notin hushed
        BY <1>1, <1>2, <1>3 DEF Alive
    <2> QED
        BY <1>1, <1>2, <2>1 DEF Tended, audioVars, Phases
<1> QED
    BY <1>4, <1>5, <1>6, <1>7

LEMMA AudioReadyKeeps ==
    ASSUME IInv, AudioReady
    PROVE  IInv'
<1> USE DEF IInv
<1>1. /\ UNCHANGED <<entry, gen, coords, services, listeners, frontVars, hushed, tidy, speech>>
      /\ op = "audio" /\ op' = "refresh" /\ upkeep' = Scheduled(gen)
    BY DEF AudioReady
<1>2. TypeOK'
    BY <1>1 DEF TypeOK, Ops, frontVars
<1>3. Phases'
    BY <1>1 DEF Phases, frontVars
<1>4. Registered'
    BY <1>1 DEF Registered, Live, frontVars
<1>5. Tended'
    BY <1>1 DEF Tended, Alive, Scheduled
<1> QED
    BY <1>2, <1>3, <1>4, <1>5

LEMMA RefreshedKeeps ==
    ASSUME IInv, Refreshed
    PROVE  IInv'
<1> USE DEF IInv
<1>1. reg = 0 /\ entry = "out" /\ listeners = {} /\ gen > 0 /\ gen \in Nat
    BY DEF Refreshed, Phases, TypeOK
<1> DEFINE run == [Quiet EXCEPT !.pc = "begin", !.gen = gen]
<1>2. run \in RunState /\ run.pc = "begin" /\ run.gen = gen
    BY <1>1 DEF Quiet, RunState
<1>3. runs' = [runs EXCEPT ![Main] = run]
    BY <1>1 DEF Refreshed
<1> HIDE DEF run
<1>4. /\ UNCHANGED <<entry, gen, coords, services, reg, closed, retry, audioVars>>
      /\ op = "refresh" /\ op' = "front" /\ listeners' = {gen}
    BY <1>1 DEF Refreshed
<1>5. TypeOK'
    BY <1>2, <1>3, <1>4 DEF TypeOK, Ops, audioVars
<1>6. Phases'
    BY <1>1, <1>4 DEF Phases
<1>7. Registered'
    <2>1. Live = {} /\ Live' = {gen}
        BY <1>1, <1>4 DEF Live
    <2>2. Main \in Runs /\ runs'[Main].gen = gen /\ runs'[Main].pc # "none"
        BY <1>2, <1>3 DEF TypeOK, Runs
    <2>3. \A r \in Runs \ {Main} : runs'[r] = runs[r]
        BY <1>3 DEF TypeOK
    <2> QED
        BY <1>4, <2>1, <2>2, <2>3 DEF Registered
<1>8. Tended'
    BY <1>4 DEF Tended, Alive, audioVars
<1> QED
    BY <1>5, <1>6, <1>7, <1>8

\* The steps that follow one another without a change to timers or runs.
LEMMA QuietStepKeeps ==
    ASSUME IInv, ServicesUp \/ PlatformsUp \/ Cleanup \/ Unload
    PROVE  IInv'
<1> USE DEF IInv
<1>1. UNCHANGED <<gen, coords, frontVars, audioVars>>
    BY DEF ServicesUp, PlatformsUp, Cleanup, Unload
<1>2. op' # "front" /\ op # "front" /\ op # "refresh" /\ op' # "refresh" /\ op' \in Ops
    BY DEF ServicesUp, PlatformsUp, Cleanup, Unload, Ops
<1>3. services' \in BOOLEAN /\ entry' \in {"out", "loaded"} /\ (entry # "stuck" \/ entry' = entry)
    BY DEF ServicesUp, PlatformsUp, Cleanup, Unload, TypeOK, Phases
<1>4. TypeOK'
    BY <1>1, <1>2, <1>3 DEF TypeOK, frontVars, audioVars
<1>5. Phases'
    <2>1. CASE ServicesUp
        BY <1>1, <2>1 DEF ServicesUp, Phases, frontVars
    <2>2. CASE PlatformsUp
        BY <1>1, <2>2 DEF PlatformsUp, Phases, frontVars
    <2>3. CASE Cleanup
        BY <1>1, <2>3 DEF Cleanup, Phases, frontVars
    <2>4. CASE Unload
        BY <1>1, <2>4 DEF Unload, Phases, frontVars
    <2> QED
        BY <2>1, <2>2, <2>3, <2>4
<1>6. Registered'
    <2>1. entry # "stuck"
        BY DEF ServicesUp, PlatformsUp, Cleanup, Unload, Phases
    <2>2. Live' = Live
        BY <1>1, <1>2, <1>3, <2>1 DEF Live, frontVars
    <2> QED
        BY <1>1, <1>2, <2>2 DEF Registered, frontVars
<1>7. Tended'
    <2>1. Alive' = Alive
        BY <1>1 DEF Alive, ServicesUp, PlatformsUp, Cleanup, Unload, Phases
    <2>2. listeners' \subseteq listeners
        BY DEF ServicesUp, PlatformsUp, Cleanup, Unload
    <2> QED
        BY <1>1, <1>2, <2>1, <2>2 DEF Tended, audioVars
<1> QED
    BY <1>4, <1>5, <1>6, <1>7

LEMMA SetUpFailsKeeps ==
    ASSUME IInv, SetUpFails
    PROVE  IInv'
<1> USE DEF IInv
<1>1. /\ UNCHANGED <<entry, gen, services, listeners, audioVars>> /\ op' = "cleanup"
      /\ coords' = {} /\ reg' = 0 /\ op \in {"audio", "refresh", "front", "platforms"}
      /\ runs' = [runs EXCEPT ![Main] = Quiet]
      /\ closed' = closed \cup ({reg, runs[Main].gen} \ {0})
      /\ retry' = retry \ ({reg, runs[Main].gen} \ {0})
    BY DEF SetUpFails, Shut
<1>2. TypeOK'
    <2>1. Quiet \in RunState
        BY DEF Quiet, RunState
    <2> QED
        BY <1>1, <2>1 DEF TypeOK, Ops, audioVars
<1>3. Phases'
    BY <1>1 DEF Phases
<1>4. Registered'
    <2>1. entry = "out" /\ gen > 0 /\ gen \in Nat
        BY <1>1 DEF Phases, TypeOK
    <2>2. Live \subseteq {reg, runs[Main].gen} \ {0}
        BY <1>1, <2>1 DEF Live, Registered
    <2>3. Live' = {}
        BY <1>1, <2>1 DEF Live
    <2>4. /\ Main \in Runs /\ runs'[Main] = Quiet
          /\ \A r \in Runs \ {Main} : runs'[r] = runs[r]
        BY <1>1 DEF TypeOK, Runs
    <2> QED
        BY <1>1, <2>2, <2>3, <2>4 DEF Registered, Quiet
<1>5. Tended'
    BY <1>1 DEF Tended, Alive, audioVars
<1> QED
    BY <1>2, <1>3, <1>4, <1>5

\* The cache is shut down once nothing is being delivered.
LEMMA DrainedKeeps ==
    ASSUME IInv, Drained
    PROVE  IInv'
<1> USE DEF IInv
<1>1. /\ UNCHANGED <<entry, gen, coords, services, listeners, frontVars, tidy, speech>>
      /\ hushed' = hushed \cup {gen} /\ upkeep' = upkeep \ {gen}
      /\ \/ op = "draining" /\ op' = "closing"
         \/ op = "shutdown" /\ op' = "idle"
    BY DEF Drained
<1>2. gen > 0 /\ gen \in Nat
    BY <1>1 DEF Phases, TypeOK
<1>3. TypeOK'
    BY <1>1, <1>2 DEF TypeOK, Ops, frontVars
<1>4. Phases'
    BY <1>1 DEF Phases, frontVars
<1>5. Registered'
    BY <1>1 DEF Registered, Live, frontVars
<1>6. Tended'
    <2>1. Alive = {gen} /\ Alive' = {} /\ listeners' = {} /\ op' # "refresh"
        BY <1>1 DEF Alive, Phases
    <2> QED
        BY <1>1, <2>1 DEF Tended
<1> QED
    BY <1>3, <1>4, <1>5, <1>6

LEMMA UnloadedKeeps ==
    ASSUME IInv, Unloaded
    PROVE  IInv'
<1> USE DEF IInv
<1>1. /\ UNCHANGED <<gen, listeners, runs, audioVars>> /\ op = "closing" /\ op' = "idle"
      /\ closed' = closed \cup ({reg} \ {0}) /\ retry' = retry \ ({reg} \ {0})
    BY DEF Unloaded, Shut
<1>2. \/ entry' = "out" /\ coords' = {} /\ services' = FALSE /\ reg' = 0
      \/ entry' = "stuck" /\ UNCHANGED <<coords, services, reg>>
    BY DEF Unloaded
<1>3. TypeOK'
    BY <1>1, <1>2 DEF TypeOK, Ops, audioVars
<1>4. Phases'
    BY <1>1, <1>2 DEF Phases
<1>5. Registered'
    <2>1. Live = {reg} \ {0} /\ Live' = {}
        BY <1>1, <1>2 DEF Live, Phases
    <2> QED
        BY <1>1, <2>1 DEF Registered
<1>6. Tended'
    <2>1. Alive = {} /\ Alive' = {}
        BY <1>1, <1>2 DEF Alive
    <2> QED
        BY <1>1, <2>1 DEF Tended, audioVars
<1> QED
    BY <1>3, <1>4, <1>5, <1>6

LEMMA CrashKeeps ==
    ASSUME IInv, Crash
    PROVE  IInv'
<1> USE DEF IInv
<1>1. /\ UNCHANGED gen /\ op' = "idle" /\ entry' = "out" /\ coords' = {} /\ services' = FALSE /\ listeners' = {}
      /\ reg' = 0 /\ closed' = {} /\ retry' = {} /\ runs' = [r \in Runs |-> Quiet]
      /\ hushed' = {} /\ upkeep' = {} /\ tidy' = None /\ speech' = None
    BY DEF Crash
<1>2. TypeOK'
    <2>1. Quiet \in RunState /\ None \in AudioState
        BY DEF Quiet, RunState, None, AudioState
    <2> QED
        BY <1>1, <2>1 DEF TypeOK, Ops
<1>3. Phases'
    BY <1>1 DEF Phases
<1>4. Registered'
    BY <1>1 DEF Registered, Quiet, Runs
<1>5. Tended'
    BY <1>1 DEF Tended, Alive, None
<1> QED
    BY <1>2, <1>3, <1>4, <1>5

-----------------------------------------------------------------------------
(* The invariant, and what it says of an entry at rest.                    *)

LEMMA Initially == Init => IInv
<1> SUFFICES ASSUME Init
             PROVE  IInv
    OBVIOUS
<1>1. Quiet \in RunState /\ None \in AudioState
    BY DEF Quiet, RunState, None, AudioState
<1>2. TypeOK
    BY <1>1 DEF Init, TypeOK, Ops
<1>3. Phases /\ Tended
    BY DEF Init, Phases, Tended, Alive, None
<1>4. Registered
    BY DEF Init, Registered, Quiet, Runs
<1> QED
    BY <1>2, <1>3, <1>4 DEF IInv

LEMMA Inductive == IInv /\ [Next]_vars => IInv'
<1> SUFFICES ASSUME IInv, [Next]_vars
             PROVE  IInv'
    OBVIOUS
<1>1. CASE EntryStep
    BY <1>1, SetUpKeeps, AudioReadyKeeps, RefreshedKeeps, QuietStepKeeps, DrainedKeeps, UnloadedKeeps
       DEF EntryStep
<1>2. CASE SetUpFails \/ Unload \/ Crash
    BY <1>2, SetUpFailsKeeps, QuietStepKeeps, CrashKeeps
<1>3. ASSUME NEW r \in Runs, RunStep(r)
      PROVE  IInv'
    <2>1. TypeOK
        BY DEF IInv
    <2> QED
        BY <1>3, <2>1, RunStepAdvances, RunKeeps
<1>4. ASSUME NEW g \in Gens, NEW r \in Retries, RetryFires(g, r)
      PROVE  IInv'
    BY <1>4, RetryKeeps
<1>5. CASE LovelaceStarts \/ UserEdits
    BY <1>5, LovelaceKeeps
<1>6. CASE Speak \/ AudioStep \/ \E g \in Gens : UpkeepFires(g)
    BY <1>6, AudioKeeps
<1>7. CASE UNCHANGED vars
    BY <1>7 DEF IInv, TypeOK, Phases, Registered, Live, Tended, Alive,
                vars, entryVars, frontVars, audioVars
<1> QED
    BY <1>1, <1>2, <1>3, <1>4, <1>5, <1>6, <1>7 DEF Next

\* Every state of the set-up, the registration and the audio cache is one of
\* those that the code has.
THEOREM TypeCorrect == Spec => []TypeOK
<1>1. IInv => TypeOK
    BY DEF IInv
<1> QED
    BY <1>1, Initially, Inductive, PTL DEF Spec

\* Whatever fails on the way, and whatever of older coordinators still runs, an
\* entry that is out has left no service, listener or timer, and a loaded one
\* has them all (__init__.py 41-203).
THEOREM NothingLeftEver == Spec => []NothingLeft
<1>1. IInv => NothingLeft
    <2> SUFFICES ASSUME IInv
                 PROVE  NothingLeft
        OBVIOUS
    <2>1. TypeOK /\ Phases /\ Tended /\ retry \subseteq Live
        BY DEF IInv, Registered
    <2>2. op = "idle" /\ entry # "loaded" => Live = {} /\ Alive = {}
        BY <2>1 DEF Phases, Live, Alive, TypeOK
    <2>3. upkeep \subseteq Alive
        BY <2>1 DEF Tended
    <2>4. op = "idle" /\ entry = "loaded" => retry \subseteq {gen} /\ reg \in {0, gen}
        BY <2>1 DEF Phases, Live
    <2>5. services => coords # {} \/ op = "cleanup"
        BY <2>1 DEF Phases, TypeOK, Ops
    <2>6. op = "idle" /\ entry = "loaded" => coords = {gen} /\ services /\ listeners = {gen}
        BY <2>1 DEF Phases
    <2>7. /\ op = "idle" /\ entry = "out" => coords = {} /\ ~services /\ listeners = {} /\ reg = 0
          /\ op = "idle" /\ entry = "stuck" => listeners = {}
        BY <2>1 DEF Phases
    <2>8. gen \in listeners => gen \in upkeep \/ tidy.gen = gen
        BY <2>1 DEF Tended
    <2> QED
        BY <2>1, <2>2, <2>3, <2>4, <2>5, <2>6, <2>7, <2>8 DEF NothingLeft
<1> QED
    BY <1>1, Initially, Inductive, PTL DEF Spec

-----------------------------------------------------------------------------
(* The user's layout.                                                      *)

\* A layout of the user's is in the stored list, where every later look for the
\* dashboard finds it; who is past that look was overtaken by the edit.
Warned ==
    /\ disk \in [listed : BOOLEAN, layout : {"none", "generated", "user"}]
    /\ disk.layout = "user" =>
          disk.listed /\ \A r \in Runs : runs[r].pc \in {"list", "save"} => runs[r].late

\* What UserLayoutKept says of one step.
LayoutStep ==
    disk.layout = "user" /\ disk'.layout = "generated"
        => \E r \in Runs : runs[r].pc = "save" /\ runs[r].late

\* Most steps leave the stored dashboard alone and bring no run past its look.
Elsewhere == disk' = disk /\ \A r \in Runs : runs'[r].pc \in {"list", "save"} => runs'[r] = runs[r]

LEMMA ElsewhereKeeps ==
    ASSUME Warned, Elsewhere
    PROVE  Warned' /\ LayoutStep
BY DEF Warned, Elsewhere, LayoutStep

LEMMA QuietElsewhere ==
    ASSUME IInv, NEW r \in Runs, runs' = [runs EXCEPT ![r] = Quiet], disk' = disk
    PROVE  Elsewhere
BY DEF IInv, TypeOK, Quiet, Elsewhere

LEMMA GoesElsewhere ==
    ASSUME IInv, NEW r \in Runs, NEW pc, pc \notin {"list", "save"}, NEW card, Goes(r, pc, card), disk' = disk
    PROVE  Elsewhere
<1>1. runs[r] \in RunState
    BY DEF IInv, TypeOK
<1>2. runs'[r].pc = pc
    BY <1>1 DEF IInv, TypeOK, Goes, RunState
<1>3. \A q \in Runs \ {r} : runs'[q] = runs[q]
    BY DEF IInv, TypeOK, Goes
<1> QED
    BY <1>2, <1>3 DEF Elsewhere

LEMMA DashboardElsewhere ==
    ASSUME IInv, NEW r \in Runs, NEW card, NEW timers, Dashboard(r, card, timers), disk' = disk
    PROVE  Elsewhere
<1>1. Finish(r, card, TRUE) \/ Goes(r, "check", card)
    BY DEF Dashboard
<1> QED
    BY <1>1, QuietElsewhere, GoesElsewhere DEF Finish, Ended

LEMMA RunWarned ==
    ASSUME IInv, Warned, NEW r \in Runs, RunStep(r)
    PROVE  Warned' /\ LayoutStep
<1>0. runs[r] \in RunState /\ runs \in [Runs -> RunState]
    BY DEF IInv, TypeOK
<1>1. CASE Begin(r)
    <2>1. disk' = disk
        BY <1>1 DEF Begin, lovelaceVars
    <2>2. Ended(r) \/ Goes(r, "look", FALSE)
        BY <1>1 DEF Begin, Finish
    <2> QED
        BY <2>1, <2>2, QuietElsewhere, GoesElsewhere, ElsewhereKeeps DEF Ended
<1>2. CASE Look(r)
    <2>1. disk' = disk /\ (Dashboard(r, TRUE, retry) \/ Goes(r, "put", FALSE))
        BY <1>2 DEF Look
    <2> QED
        BY <2>1, DashboardElsewhere, GoesElsewhere, ElsewhereKeeps
<1>3. CASE Put(r)
    <2>1. disk' = disk
        BY <1>3 DEF Put
    <2>2. CASE Dashboard(r, TRUE, retry)
        BY <2>1, <2>2, DashboardElsewhere, ElsewhereKeeps
    <2>3. CASE Dashboard(r, resource = "current", IF fetched THEN retry ELSE Retrying(runs[r].gen))
        BY <2>1, <2>3, DashboardElsewhere, ElsewhereKeeps
    <2> QED
        BY <1>3, <2>2, <2>3 DEF Put
<1>4. CASE Check(r)
    <2>1. disk' = disk
        BY <1>4 DEF Check, lovelaceVars
    <2>2. CASE disk.listed \/ boards
        BY <1>4, <2>1, <2>2, QuietElsewhere, ElsewhereKeeps DEF Check, Finish, Ended
    <2>3. CASE ~disk.listed
        BY <2>1, <2>3 DEF Warned, LayoutStep
    <2> QED
        BY <2>2, <2>3
<1>5. CASE List(r)
    <2>1. CASE Raises(r) /\ UNCHANGED disk
        BY <2>1, QuietElsewhere, ElsewhereKeeps DEF Raises
    <2>2. CASE disk' = [disk EXCEPT !.listed = TRUE] /\ runs' = [runs EXCEPT ![r].pc = "save"]
        <3>1. /\ disk' \in [listed : BOOLEAN, layout : {"none", "generated", "user"}]
              /\ disk'.listed /\ disk'.layout = disk.layout
            BY <2>2 DEF Warned
        <3>2. runs[r].pc = "list" /\ runs'[r].late = runs[r].late
            BY <1>0, <1>5, <2>2 DEF RunState, List
        <3>3. \A q \in Runs \ {r} : runs'[q] = runs[q]
            BY <1>0, <2>2
        <3> QED
            BY <3>1, <3>2, <3>3 DEF Warned, LayoutStep
    <2> QED
        BY <1>5, <2>1, <2>2 DEF List
<1>6. CASE SaveLayout(r)
    <2>1. CASE Raises(r) /\ UNCHANGED disk
        BY <2>1, QuietElsewhere, ElsewhereKeeps DEF Raises
    <2>2. CASE disk' = [disk EXCEPT !.layout = "generated"]
        <3>1. /\ disk' \in [listed : BOOLEAN, layout : {"none", "generated", "user"}]
              /\ disk'.layout # "user"
            BY <2>2 DEF Warned
        <3>2. runs[r].pc = "save"
            BY <1>6 DEF SaveLayout
        <3> QED
            BY <3>1, <3>2 DEF Warned, LayoutStep
    <2> QED
        BY <1>6, <2>1, <2>2 DEF SaveLayout
<1> QED
    BY <1>1, <1>2, <1>3, <1>4, <1>5, <1>6 DEF RunStep

LEMMA EditWarned ==
    ASSUME IInv, Warned, UserEdits
    PROVE  Warned' /\ LayoutStep
<1>1. /\ disk' \in [listed : BOOLEAN, layout : {"none", "generated", "user"}]
      /\ disk'.listed /\ disk'.layout = "user"
    BY DEF UserEdits, Warned
<1>2. ASSUME NEW r \in Runs
      PROVE  runs'[r].pc = runs[r].pc /\ runs'[r].late = (runs[r].pc \in {"list", "save"})
    BY DEF UserEdits, IInv, TypeOK, RunState
<1> QED
    BY <1>1, <1>2 DEF Warned, LayoutStep

LEMMA WarnedInductive == IInv /\ Warned /\ [Next]_vars => Warned' /\ LayoutStep
<1> SUFFICES ASSUME IInv, Warned, [Next]_vars
             PROVE  Warned' /\ LayoutStep
    OBVIOUS
<1>0. Main \in Runs /\ runs \in [Runs -> RunState]
    BY DEF Runs, IInv, TypeOK
<1>1. CASE UNCHANGED <<disk, runs>>
    BY <1>1, ElsewhereKeeps DEF Elsewhere
<1>2. CASE SetUp \/ AudioReady \/ ServicesUp \/ PlatformsUp \/ Cleanup \/ Drained \/ Unloaded
           \/ Unload \/ LovelaceStarts \/ Speak \/ AudioStep \/ \E g \in Gens : UpkeepFires(g)
    BY <1>1, <1>2 DEF SetUp, AudioReady, ServicesUp, PlatformsUp, Cleanup, Drained, Unloaded, Unload,
           LovelaceStarts, Speak, AudioStep, TakeLock, Tidied, Stored, UpkeepFires, frontVars, lovelaceVars
<1>3. CASE Refreshed
    <2>1. /\ disk' = disk
          /\ \/ UNCHANGED runs
             \/ runs' = [runs EXCEPT ![Main] = [Quiet EXCEPT !.pc = "begin", !.gen = gen]]
        BY <1>3 DEF Refreshed, lovelaceVars
    <2>2. [Quiet EXCEPT !.pc = "begin", !.gen = gen].pc = "begin"
        BY DEF Quiet
    <2> QED
        BY <1>0, <2>1, <2>2, ElsewhereKeeps DEF Elsewhere
<1>4. CASE SetUpFails
    BY <1>0, <1>4, QuietElsewhere, ElsewhereKeeps DEF SetUpFails, lovelaceVars
<1>5. CASE Crash
    BY <1>5, ElsewhereKeeps DEF Crash, Elsewhere, Quiet
<1>6. ASSUME NEW r \in Runs, RunStep(r)
      PROVE  Warned' /\ LayoutStep
    BY <1>6, RunWarned
<1>7. ASSUME NEW g \in Gens, NEW r \in Retries, RetryFires(g, r)
      PROVE  Warned' /\ LayoutStep
    <2>1. disk' = disk /\ runs' = [runs EXCEPT ![r] = [Quiet EXCEPT !.pc = "begin", !.gen = g]]
        BY <1>7 DEF RetryFires, lovelaceVars
    <2>2. [Quiet EXCEPT !.pc = "begin", !.gen = g].pc = "begin"
        BY DEF Quiet
    <2> QED
        BY <1>0, <2>1, <2>2, ElsewhereKeeps DEF Elsewhere
<1>8. CASE UserEdits
    BY <1>8, EditWarned
<1>9. CASE UNCHANGED vars
    BY <1>1, <1>9 DEF vars, frontVars, lovelaceVars
<1> QED
    BY <1>2, <1>3, <1>4, <1>5, <1>6, <1>7, <1>8, <1>9 DEF Next, EntryStep

\* A layout that the user has saved is replaced only by a run that had looked for
\* the dashboard before the edit, over all reloads, failures and restarts
\* (frontend_registry.py 202-259).
THEOREM UserLayoutAlwaysKept == Spec => UserLayoutKept
<1>1. Init => Warned
    BY DEF Init, Warned
<1>2. IInv /\ Warned /\ [Next]_vars => Warned' /\ [LayoutStep]_vars
    BY WarnedInductive
<1> QED
    BY <1>1, <1>2, Initially, Inductive, PTL DEF Spec, UserLayoutKept, LayoutStep
=============================================================================
