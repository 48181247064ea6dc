------------------------- MODULE RuleRegistryProofs -------------------------
(***************************************************************************)
(* What the registry of notification rules promises, for any files, texts, *)
(* keys and rules and any number of set-ups, calls, edits and failures:    *)
(* what it lists was there, what it could not read it names, the entry of  *)
(* a key claims no more than all its calls share, and the rules in use are *)
(* the saved ones.                                                         *)
(***************************************************************************)
EXTENDS RuleRegistry, FiniteSetTheorems, WellFoundedInduction, TLAPS

Texts == Contents \cup {Missing}
Docs == [file : Files, text : Contents, raw : Texts]
Registries == [docs : Seq(Docs), shown : Keys \cup {NoKey}, fresh : BOOLEAN, since : [Files -> SUBSET Texts]]
Copies == [registry : Registries, policies : [Keys -> Rules]]
Sets == [kind : {"set"}, key : Keys, changes : Edits]
Tasks == [kind : {"setup", "tick", "refresh"}] \cup Sets
Resets == [kind : {"reset"}, key : Keys]

Idles == [pc : {"idle", "made"}]
Scans == [pc : {"scan", "scanned"}, gen : Gens, task : Tasks, roots : Seq(Allowed), todo : Seq(Files),
          visited : SUBSET Files, docs : Seq(Docs), named : SUBSET Files, shown : Keys \cup {NoKey},
          since : [Files -> SUBSET Texts]]
Saves == [pc : {"save"}, gen : Gens, task : Tasks]
Writes == [pc : {"rules"}, gen : Gens, task : Sets \cup Resets]
Calling == Idles \cup Scans \cup Saves \cup Writes

Typed ==
    /\ files \in Layouts
    /\ sensor \in Keys \cup {NoKey}
    /\ gen \in 0..MaxGen /\ loaded \in BOOLEAN /\ overtaken \in BOOLEAN
    /\ armed \subseteq IF loaded THEN {gen} ELSE {}
    /\ registry \in [Gens -> Registries] /\ policies \in [Gens -> [Keys -> Rules]]
    /\ disk \in Copies
    /\ ops \in [Ops -> Calling]

\* The timer's tasks are set-ups and ticks; a set-up in progress is one of the
\* coordinator in charge, whose listeners are not there yet.
Busy(s) == s.pc \notin {"idle", "made"}
SetsUp(s) == Busy(s) /\ s.task.kind = "setup"
Owned(o, s) == Busy(s) => (o \in Gens <=> s.task.kind \in {"setup", "tick"})

SetUps ==
    /\ loaded => gen \in Gens
    /\ \A o \in Ops : Owned(o, ops[o])
    /\ \A o \in Ops : SetsUp(ops[o]) => ~loaded /\ o = gen /\ ops[o].gen = gen

\* A scan has read nothing but what was there, and has still to do, has found
\* or has named whatever it should read.
Found(s) == s.named \cup {s.docs[i].file : i \in DOMAIN s.docs}

Covers(s) ==
    /\ s.visited \subseteq Found(s)
    /\ \A f \in Range(Roots) : f \in Found(s) \/ Missing \in s.since[f] \/ f \in Range(s.roots)
    /\ \A i \in DOMAIN s.docs :
        \/ s.docs[i].file \in s.named
        \/ Range(Includes[s.docs[i].text]) \subseteq Allowed \cap (Found(s) \cup Range(s.todo))

InOrder(s, fs) ==
    s.pc \in {"scan", "scanned"} =>
        /\ Current(s) /\ Covers(s)
        /\ \A f \in Files : fs[f] \in s.since[f]
        /\ s.pc = "scanned" => s.roots = <<>> /\ s.todo = <<>>

Scanned == \A o \in Ops : InOrder(ops[o], files)

Listed == Current(disk.registry) /\ \A g \in Gens : Current(registry[g])

\* The rules of the coordinator in charge, from its first moment on.
InCharge == loaded \/ \E o \in Ops : SetsUp(ops[o])
Writing == \E o \in Ops : ops[o].pc = "rules"
Saved == InCharge /\ ~overtaken /\ ~Writing => disk.policies = policies[gen]

IInv == Typed /\ SetUps /\ Scanned /\ Listed /\ Saved

-----------------------------------------------------------------------------
(* Sequences.                                                              *)

LEMMA HeadTail ==
    ASSUME NEW S, NEW s \in Seq(S), s # <<>>
    PROVE  /\ Head(s) \in S /\ Tail(s) \in Seq(S)
           /\ \A x : x \in Range(s) <=> x = Head(s) \/ x \in Range(Tail(s))
<1>1. Len(s) \in Nat /\ Len(s) > 0 /\ DOMAIN s = 1..Len(s) /\ Head(s) = s[1] /\ Head(s) \in S /\ Tail(s) \in Seq(S)
  OBVIOUS
<1>2. DOMAIN Tail(s) = 1..(Len(s) - 1) /\ \A i \in 1..(Len(s) - 1) : Tail(s)[i] = s[i + 1]
  BY <1>1
<1>3. \A i \in 1..Len(s) : i = 1 \/ (i - 1 \in 1..(Len(s) - 1) /\ s[i] = Tail(s)[i - 1])
  BY <1>1, <1>2
<1>4. \A i \in 1..(Len(s) - 1) : i + 1 \in 1..Len(s)
  BY <1>1
<1>5. ASSUME NEW x \in Range(s) PROVE x = Head(s) \/ x \in Range(Tail(s))
  BY <1>1, <1>2, <1>3, <1>5 DEF Range
<1>6. Head(s) \in Range(s)
  BY <1>1 DEF Range
<1>7. ASSUME NEW x \in Range(Tail(s)) PROVE x \in Range(s)
  BY <1>1, <1>2, <1>4, <1>7 DEF Range
<1>. QED
  BY <1>1, <1>5, <1>6, <1>7

LEMMA Concatenated ==
    ASSUME NEW S, NEW s \in Seq(S), NEW t \in Seq(S)
    PROVE  /\ s \o t \in Seq(S)
           /\ \A x : x \in Range(s \o t) <=> x \in Range(s) \/ x \in Range(t)
<1>1. /\ Len(s) \in Nat /\ Len(t) \in Nat /\ DOMAIN s = 1..Len(s) /\ DOMAIN t = 1..Len(t)
      /\ s \o t \in Seq(S) /\ DOMAIN (s \o t) = 1..(Len(s) + Len(t))
  OBVIOUS
<1>2. \A i \in 1..Len(s) : i \in 1..(Len(s) + Len(t)) /\ (s \o t)[i] = s[i]
  BY <1>1
<1>3. \A i \in 1..Len(t) : Len(s) + i \in 1..(Len(s) + Len(t)) /\ (s \o t)[Len(s) + i] = t[i]
  BY <1>1
<1>4. \A i \in 1..(Len(s) + Len(t)) :
        \/ i \in 1..Len(s) /\ (s \o t)[i] = s[i]
        \/ i - Len(s) \in 1..Len(t) /\ (s \o t)[i] = t[i - Len(s)]
  BY <1>1
<1>5. ASSUME NEW x \in Range(s \o t) PROVE x \in Range(s) \/ x \in Range(t)
  BY <1>1, <1>4, <1>5 DEF Range
<1>6. ASSUME NEW x \in Range(s) PROVE x \in Range(s \o t)
  BY <1>1, <1>2, <1>6 DEF Range
<1>7. ASSUME NEW x \in Range(t) PROVE x \in Range(s \o t)
  BY <1>1, <1>3, <1>7 DEF Range
<1>. QED
  BY <1>1, <1>5, <1>6, <1>7

LEMMA Appended ==
    ASSUME NEW S, NEW s \in Seq(S), NEW d \in S
    PROVE  /\ Append(s, d) \in Seq(S) /\ DOMAIN Append(s, d) = DOMAIN s \cup {Len(s) + 1}
           /\ \A i \in DOMAIN s : Append(s, d)[i] = s[i]
           /\ Append(s, d)[Len(s) + 1] = d
<1>1. /\ Len(s) \in Nat /\ DOMAIN s = 1..Len(s)
      /\ Append(s, d) \in Seq(S) /\ DOMAIN Append(s, d) = 1..(Len(s) + 1)
      /\ \A i \in 1..Len(s) : Append(s, d)[i] = s[i]
      /\ Append(s, d)[Len(s) + 1] = d
  OBVIOUS
<1>. QED
  BY <1>1

LEMMA DocsAre ==
    ASSUME NEW docs \in Seq(Docs)
    PROVE  \A i \in DOMAIN docs :
            docs[i] \in Docs /\ docs[i].file \in Files /\ docs[i].text \in Contents /\ docs[i].raw \in Texts
<1>1. \A i \in DOMAIN docs : docs[i] \in Docs
  OBVIOUS
<1>. QED
  BY <1>1 DEF Docs

-----------------------------------------------------------------------------
(* Rules.                                                                  *)

LEMMA MergedIs == ASSUME NEW p \in Rules, NEW e \in Edits PROVE Merged(p, e) \in Rules
<1> DEFINE Value(f) == IF f \in DOMAIN e THEN e[f] ELSE p[f]
<1>1. p.enabled \in BOOLEAN /\ p.mode \in Modes
  BY DEF Rules
<1>2. Value("enabled") \in BOOLEAN
  <2>1. CASE "enabled" \in DOMAIN e
    BY <2>1, RulesAssumption, Zenon
  <2>2. CASE "enabled" \notin DOMAIN e
    BY <1>1, <2>2, Zenon
  <2>. QED
    BY <2>1, <2>2
<1>3. Value("mode") \in Modes
  <2>1. CASE "mode" \in DOMAIN e
    BY <2>1, RulesAssumption, Zenon
  <2>2. CASE "mode" \notin DOMAIN e
    BY <1>1, <2>2, Zenon
  <2>. QED
    BY <2>1, <2>2
<1>4. Merged(p, e) = [enabled |-> Value("enabled"), mode |-> Value("mode"), channels |-> Value("channels") \cap Channels]
  BY DEF Merged
<1> HIDE DEF Value
<1>. QED
  BY <1>2, <1>3, <1>4 DEF Rules

LEMMA DefaultIs == Default \in Rules /\ NoPolicies \in [Keys -> Rules] /\ NoRegistry \in Registries /\ Current(NoRegistry)
  BY DEF Default, Rules, Modes, NoPolicies, NoRegistry, Registries, Current

\* What a coordinator without calls forgets.
LEMMA KeptIs ==
    ASSUME NEW S, NEW memory \in [Gens -> S], NEW none \in S
    PROVE  /\ Kept(memory, none) \in [Gens -> S]
           /\ \A g \in Gens : Kept(memory, none)[g] \in {memory[g], none}
  BY DEF Kept

-----------------------------------------------------------------------------
(* Generations and calls.                                                  *)

LEMMA GensAre ==
    ASSUME Typed
    PROVE  /\ gen \in Nat /\ Gens \subseteq Nat /\ Gens \cap Callers = {}
           /\ gen < MaxGen => gen + 1 \in Gens /\ gen + 1 \in 0..MaxGen
           /\ gen > 0 => gen \in Gens
  BY BoundsAssumption DEF Typed, Gens

LEMMA CallIs ==
    ASSUME NEW s \in Calling
    PROVE  /\ s.pc \in {"idle", "made", "scan", "scanned", "save", "rules"}
           /\ s.pc \in {"scan", "scanned"} => s \in Scans
           /\ s.pc = "save" => s \in Saves
           /\ s.pc = "rules" => s \in Writes /\ s.task.kind \in {"set", "reset"}
           /\ Busy(s) => s.gen \in Gens /\ s.task \in Tasks \cup Resets
           /\ s.pc \in {"scan", "scanned", "save"} => s.task \in Tasks
  BY DEF Calling, Idles, Scans, Saves, Writes, Busy, Tasks, Sets, Resets

LEMMA TaskIs ==
    ASSUME NEW t \in Tasks \cup Resets
    PROVE  /\ t.kind \in {"setup", "tick", "refresh", "set", "reset"}
           /\ t \in Tasks => t.kind # "reset"
           /\ t.kind = "set" => t \in Sets /\ t.key \in Keys /\ t.changes \in Edits
  BY DEF Tasks, Sets, Resets

LEMMA IdleIs == Idle \in Calling /\ Made \in Calling /\ ~Busy(Idle) /\ ~Busy(Made) /\ Idle.pc = "idle" /\ Made.pc = "made"
  BY DEF Idle, Made, Calling, Idles, Busy

\* One call goes on, or ends: what the other parts of the state need of it.
Step(o, s) == ops' = [ops EXCEPT ![o] = s] /\ s \in Calling /\ Owned(o, s)

LEMMA StepIs ==
    ASSUME Typed, NEW o \in Ops, NEW s, Step(o, s)
    PROVE  /\ ops' \in [Ops -> Calling] /\ ops'[o] = s
           /\ \A q \in Ops : q # o => ops'[q] = ops[q]
  BY DEF Typed, Step

\* A rule is set, to be written next, or its key is not known.
LEMMA SetRuleIs ==
    ASSUME Typed, NEW o \in Ops \ Gens, NEW g \in Gens, NEW t \in Tasks, t.kind = "set", SetRule(o, g, t)
    PROVE  /\ policies' \in [Gens -> [Keys -> Rules]]
           /\ \/ policies' = policies /\ Step(o, Made)
              \/ Step(o, [pc |-> "rules", gen |-> g, task |-> t])
<1>1. t \in Sets /\ t.key \in Keys /\ t.changes \in Edits
  BY TaskIs
<1>2. policies \in [Gens -> [Keys -> Rules]]
  BY DEF Typed
<1>3. CASE t.key \in Known(registry'[g])
  <2>1. /\ policies' = [policies EXCEPT ![g][t.key] = Merged(@, t.changes)]
        /\ ops' = [ops EXCEPT ![o] = [pc |-> "rules", gen |-> g, task |-> t]]
    BY <1>3 DEF SetRule
  <2>2. Merged(policies[g][t.key], t.changes) \in Rules
    BY <1>1, <1>2, MergedIs
  <2>3. policies' \in [Gens -> [Keys -> Rules]]
    BY <1>1, <1>2, <2>1, <2>2
  <2>4. [pc |-> "rules", gen |-> g, task |-> t] \in Writes
    BY <1>1 DEF Writes
  <2>5. Owned(o, [pc |-> "rules", gen |-> g, task |-> t])
    BY DEF Owned
  <2>. QED
    BY <2>1, <2>3, <2>4, <2>5 DEF Step, Calling
<1>4. CASE t.key \notin Known(registry'[g])
  BY <1>2, <1>4, IdleIs DEF SetRule, Step, Owned
<1>. QED
  BY <1>3, <1>4

\* What follows a refresh: the call is over, or has a rule to write.
LEMMA RefreshedIs ==
    ASSUME Typed, SetUps, NEW o \in Ops, ops[o].pc \in {"scan", "save"},
           Refreshed(o, ops[o].gen, ops[o].task), gen' = gen
    PROVE  /\ policies' \in [Gens -> [Keys -> Rules]]
           /\ loaded' = (loaded \/ ops[o].task.kind = "setup")
           /\ armed' \subseteq IF loaded' THEN {gen} ELSE {}
           /\ \/ policies' = policies /\ (Step(o, Idle) \/ Step(o, Made))
              \/ Step(o, [pc |-> "rules", gen |-> ops[o].gen, task |-> ops[o].task]) /\ ops[o].task.kind = "set"
<1> DEFINE g == ops[o].gen
           t == ops[o].task
<1>1. g \in Gens /\ t \in Tasks /\ t.kind \in {"setup", "tick", "refresh", "set"} /\ Busy(ops[o])
  BY CallIs, TaskIs DEF Typed, Busy
<1>2. (o \in Gens <=> t.kind \in {"setup", "tick"}) /\ (t.kind = "setup" => ~loaded /\ g = gen)
  BY <1>1 DEF SetUps, Owned, SetsUp
<1>3. /\ policies \in [Gens -> [Keys -> Rules]] /\ loaded \in BOOLEAN
      /\ armed \subseteq IF loaded THEN {gen} ELSE {}
  BY DEF Typed
<1>4. Owned(o, Idle) /\ Owned(o, Made)
  BY IdleIs DEF Owned
<1>5. CASE t.kind = "setup"
  <2>1. loaded' = TRUE /\ armed' = armed \cup {g} /\ ops' = [ops EXCEPT ![o] = Idle] /\ policies' = policies
    BY <1>5 DEF Refreshed, Ready
  <2>. QED
    BY <1>2, <1>3, <1>4, <1>5, <2>1, IdleIs DEF Step
<1>6. CASE t.kind = "tick"
  <2>1. Rearm(g) /\ ops' = [ops EXCEPT ![o] = Idle] /\ policies' = policies /\ loaded' = loaded
    BY <1>6 DEF Refreshed
  <2>2. armed' \subseteq IF loaded THEN {gen} ELSE {}
    BY <1>3, <2>1 DEF Rearm
  <2>. QED
    BY <1>3, <1>4, <1>6, <2>1, <2>2, IdleIs DEF Step
<1>7. CASE t.kind = "refresh"
  <2>1. ops' = [ops EXCEPT ![o] = Made] /\ policies' = policies /\ loaded' = loaded /\ armed' = armed
    BY <1>7 DEF Refreshed
  <2>. QED
    BY <1>3, <1>4, <1>7, <2>1, IdleIs DEF Step
<1>8. CASE t.kind = "set"
  <2>1. SetRule(o, g, t) /\ loaded' = loaded /\ armed' = armed
    BY <1>8 DEF Refreshed
  <2>2. o \in Ops \ Gens
    BY <1>2, <1>8
  <2>3. /\ policies' \in [Gens -> [Keys -> Rules]]
        /\ \/ policies' = policies /\ Step(o, Made)
           \/ Step(o, [pc |-> "rules", gen |-> g, task |-> t])
    BY <1>1, <1>8, <2>1, <2>2, SetRuleIs
  <2>. QED
    BY <1>3, <1>8, <2>1, <2>3
<1>. QED
  BY <1>1, <1>5, <1>6, <1>7, <1>8

-----------------------------------------------------------------------------
(* What a step of one call has to keep, whichever step it is.               *)

LEMMA StepSetUps ==
    ASSUME Typed, SetUps, NEW o \in Ops, NEW s, Step(o, s), gen' = gen,
           loaded' => gen \in Gens,
           \A q \in Ops : SetsUp(ops[q]) /\ q # o => ~loaded',
           SetsUp(s) => ~loaded' /\ o = gen /\ s.gen = gen
    PROVE  SetUps'
<1>1. ops'[o] = s /\ \A q \in Ops : q # o => ops'[q] = ops[q]
  BY StepIs
<1>2. \A q \in Ops : Owned(q, ops'[q])
  BY <1>1 DEF SetUps, Step
<1>3. ASSUME NEW q \in Ops, SetsUp(ops'[q]) PROVE ~loaded' /\ q = gen' /\ ops'[q].gen = gen'
  BY <1>1, <1>3 DEF SetUps
<1>. QED
  BY <1>2, <1>3 DEF SetUps, Owned, SetsUp, Busy

LEMMA StepScanned ==
    ASSUME Typed, Scanned, NEW o \in Ops, NEW s, Step(o, s), files' = files, InOrder(s, files)
    PROVE  Scanned'
<1>1. \A q \in Ops : ops'[q] = s \/ ops'[q] = ops[q]
  BY StepIs
<1>. QED
  BY <1>1 DEF Scanned, InOrder, Current, Covers, Found

\* The rules stay saved when nothing is said of them.
LEMMA StepSaved ==
    ASSUME Typed, Saved, NEW o \in Ops, NEW s, Step(o, s), gen' = gen, policies' = policies,
           disk'.policies = disk.policies,
           loaded' => InCharge, SetsUp(s) => InCharge,
           \/ overtaken' = overtaken /\ ops[o].pc # "rules"
           \/ overtaken'
    PROVE  Saved'
<1>1. ops'[o] = s /\ \A q \in Ops : q # o => ops'[q] = ops[q]
  BY StepIs
<1>2. InCharge' => InCharge
  BY <1>1 DEF InCharge, SetsUp, Busy
<1>3. ~overtaken' /\ ~Writing' => ~overtaken /\ ~Writing
  BY <1>1 DEF Writing
<1>. QED
  BY <1>2, <1>3 DEF Saved

\* They are being saved.
LEMMA StepWrites ==
    ASSUME Typed, NEW o \in Ops, NEW s, Step(o, s), s.pc = "rules"
    PROVE  Saved'
  BY StepIs DEF Saved, Writing

-----------------------------------------------------------------------------
(* Edits, the sensor and time.                                             *)

LEMMA LayoutsAre == ASSUME NEW fs \in Layouts PROVE fs \in [Files -> Texts]
  BY FilesAssumption DEF Texts

LEMMA Same ==
    ASSUME Listed, registry' = registry, disk'.registry = disk.registry
    PROVE  Listed'
  BY DEF Listed, Current

LEMMA SeenIs ==
    ASSUME files' \in Layouts, NEW since \in [Files -> SUBSET Texts]
    PROVE  /\ Seen(since) \in [Files -> SUBSET Texts]
           /\ \A f \in Files : files'[f] \in Seen(since)[f] /\ since[f] \subseteq Seen(since)[f]
<1>1. \A f \in Files : files'[f] \in Texts
  BY LayoutsAre
<1>. QED
  BY <1>1 DEF Seen

LEMMA SeenByIs ==
    ASSUME files' \in Layouts, NEW R \in Registries
    PROVE  SeenBy(R) \in Registries /\ (Current(R) => Current(SeenBy(R)))
<1>1. R.since \in [Files -> SUBSET Texts] /\ R.docs \in Seq(Docs)
  BY DEF Registries
<1>2. Seen(R.since) \in [Files -> SUBSET Texts] /\ \A f \in Files : R.since[f] \subseteq Seen(R.since)[f]
  BY <1>1, SeenIs
<1>3. [R EXCEPT !.since = Seen(@)] \in Registries
  BY <1>2 DEF Registries
<1>4. [R EXCEPT !.since = Seen(@)].docs = R.docs /\ [R EXCEPT !.since = Seen(@)].since = Seen(R.since)
  BY DEF Registries
<1>5. \A i \in DOMAIN R.docs : R.docs[i].file \in Files
  BY <1>1, DocsAre
<1>6. Current(R) => Current([R EXCEPT !.since = Seen(@)])
  BY <1>2, <1>4, <1>5 DEF Current
<1>. QED
  BY <1>3, <1>6 DEF SeenBy

\* A scan has seen one more text, that of the file edited meanwhile.
LEMMA SeenByScan ==
    ASSUME files' \in Layouts, NEW s \in Scans
    PROVE  LET t == [s EXCEPT !.since = Seen(@)]
           IN  /\ t \in Scans /\ t.pc = s.pc /\ t.gen = s.gen /\ t.task = s.task
               /\ InOrder(s, files) => InOrder(t, files')
<1> DEFINE t == [s EXCEPT !.since = Seen(@)]
<1>1. s.since \in [Files -> SUBSET Texts] /\ s.docs \in Seq(Docs)
  BY DEF Scans
<1>2. /\ Seen(s.since) \in [Files -> SUBSET Texts]
      /\ \A f \in Files : files'[f] \in Seen(s.since)[f] /\ s.since[f] \subseteq Seen(s.since)[f]
  BY <1>1, SeenIs
<1>3. t \in Scans
  BY <1>2 DEF Scans
<1>4. /\ t.docs = s.docs /\ t.since = Seen(s.since) /\ t.pc = s.pc /\ t.gen = s.gen /\ t.task = s.task
      /\ t.roots = s.roots /\ t.todo = s.todo /\ t.visited = s.visited /\ t.named = s.named
  BY DEF Scans
<1>5. \A i \in DOMAIN s.docs : s.docs[i].file \in Files
  BY <1>1, DocsAre
<1> HIDE DEF t
<1>6. Current(s) => Current(t)
  BY <1>2, <1>4, <1>5 DEF Current
<1>7. Range(Roots) \subseteq Files
  BY FilesAssumption DEF Range
<1>8. Covers(s) => Covers(t)
  BY <1>2, <1>4, <1>7 DEF Covers, Found
<1>. QED
  BY <1>2, <1>3, <1>4, <1>6, <1>8 DEF InOrder, t

LEMMA EditFileKeeps == ASSUME IInv, EditFile PROVE IInv'
<1>1. files' \in Layouts /\ UNCHANGED <<sensor, gen, loaded, armed, policies, overtaken>>
  BY DEF EditFile
<1>2. registry' = [g \in Gens |-> SeenBy(registry[g])] /\ disk' = [disk EXCEPT !.registry = SeenBy(@)]
  BY DEF EditFile
<1>3. /\ registry \in [Gens -> Registries] /\ disk \in Copies /\ disk.registry \in Registries
      /\ ops \in [Ops -> Calling]
  BY DEF IInv, Typed, Copies
<1>4. SeenBy(disk.registry) \in Registries /\ \A g \in Gens : SeenBy(registry[g]) \in Registries
  BY <1>1, <1>3, SeenByIs
<1>5. registry' \in [Gens -> Registries] /\ disk' \in Copies
  BY <1>2, <1>3, <1>4 DEF Copies
<1>6. disk'.registry = SeenBy(disk.registry) /\ disk'.policies = disk.policies
  BY <1>2, <1>3 DEF Copies
<1>7. ASSUME NEW o \in Ops
      PROVE  /\ ops'[o] \in Calling /\ ops'[o].pc = ops[o].pc
             /\ Busy(ops[o]) => ops'[o].gen = ops[o].gen /\ ops'[o].task = ops[o].task
             /\ InOrder(ops'[o], files')
  <2>1. CASE ops[o].pc \in {"scan", "scanned"}
    <3>1. ops'[o] = [ops[o] EXCEPT !.since = Seen(@)]
      BY <2>1 DEF EditFile
    <3>2. ops[o] \in Scans
      BY <1>3, <2>1, CallIs
    <3>3. InOrder(ops[o], files)
      BY DEF IInv, Scanned
    <3>. QED
      BY <1>1, <3>1, <3>2, <3>3, SeenByScan DEF Calling
  <2>2. CASE ops[o].pc \notin {"scan", "scanned"}
    <3>1. ops'[o] = ops[o]
      BY <2>2 DEF EditFile
    <3>. QED
      BY <1>3, <2>2, <3>1 DEF InOrder
  <2>. QED
    BY <2>1, <2>2
<1>8. DOMAIN ops' = Ops /\ ops' = [o \in Ops |-> ops'[o]]
  BY DEF EditFile
<1>9. Typed'
  BY <1>1, <1>5, <1>7, <1>8 DEF IInv, Typed
<1>10. \A o \in Ops : SetsUp(ops'[o]) <=> SetsUp(ops[o])
  BY <1>7 DEF SetsUp, Busy
<1>11. SetUps'
  BY <1>1, <1>7, <1>10 DEF IInv, SetUps, Owned, SetsUp, Busy
<1>12. Scanned'
  BY <1>7 DEF Scanned, InOrder, Current, Covers, Found
<1>13. Listed'
  BY <1>1, <1>2, <1>3, <1>6, SeenByIs DEF IInv, Listed, Current
<1>14. Saved'
  BY <1>1, <1>6, <1>7, <1>10 DEF IInv, Saved, InCharge, Writing, SetsUp, Busy
<1>. QED
  BY <1>9, <1>11, <1>12, <1>13, <1>14 DEF IInv

LEMMA SensorKeeps == ASSUME IInv, SensorChanges PROVE IInv'
<1>1. /\ sensor' \in Keys \cup {NoKey}
      /\ UNCHANGED <<files, gen, loaded, armed, registry, policies, disk, ops, overtaken>>
  BY DEF SensorChanges
<1>2. Typed'
  BY <1>1 DEF IInv, Typed
<1>. QED
  BY <1>1, <1>2 DEF IInv, SetUps, Scanned, Listed, Saved, InCharge, Writing, Owned, SetsUp, Busy,
                    InOrder, Covers, Found, Current

LEMMA GrowsOldKeeps == ASSUME IInv, GrowsOld PROVE IInv'
<1>1. /\ registry' = [g \in Gens |-> [registry[g] EXCEPT !.fresh = FALSE]]
      /\ disk' = [disk EXCEPT !.registry.fresh = FALSE]
      /\ UNCHANGED <<files, sensor, gen, loaded, armed, policies, ops, overtaken>>
  BY DEF GrowsOld
<1>2. registry \in [Gens -> Registries] /\ disk \in Copies /\ disk.registry \in Registries
  BY DEF IInv, Typed, Copies
<1>3. ASSUME NEW R \in Registries
      PROVE  [R EXCEPT !.fresh = FALSE] \in Registries /\ (Current(R) => Current([R EXCEPT !.fresh = FALSE]))
  BY DEF Registries, Current
<1>4. /\ registry' \in [Gens -> Registries] /\ disk' \in Copies
      /\ disk'.registry = [disk.registry EXCEPT !.fresh = FALSE] /\ disk'.policies = disk.policies
  BY <1>1, <1>2, <1>3 DEF Copies
<1>5. Typed'
  BY <1>1, <1>4 DEF IInv, Typed
<1>6. Listed'
  <2>1. \A g \in Gens : Current(registry'[g])
    BY <1>1, <1>2, <1>3 DEF IInv, Listed
  <2>2. Current(disk'.registry)
    BY <1>2, <1>3, <1>4 DEF IInv, Listed
  <2>. QED
    BY <2>1, <2>2 DEF Listed, Current
<1>7. SetUps' /\ Scanned'
  BY <1>1 DEF IInv, SetUps, Scanned, Owned, SetsUp, Busy, InOrder, Covers, Found, Current
<1>8. Saved'
  BY <1>1, <1>4 DEF IInv, Saved, InCharge, Writing, SetsUp, Busy
<1>. QED
  BY <1>5, <1>6, <1>7, <1>8 DEF IInv

-----------------------------------------------------------------------------
(* The coordinator comes and goes.                                         *)

\* A scan begins with nothing read, and with every root still to be read.
LEMMA ScanningIs ==
    ASSUME Typed, NEW g \in Gens, NEW t \in Tasks
    PROVE  LET s == Scanning(g, t)
           IN  /\ s \in Calling /\ Busy(s) /\ s.pc = "scan" /\ s.gen = g /\ s.task = t
               /\ InOrder(s, files)
<1> DEFINE s == Scanning(g, t)
<1>1. files \in [Files -> Texts] /\ sensor \in Keys \cup {NoKey}
  BY LayoutsAre DEF Typed
<1>2. Roots \in Seq(Allowed)
  BY FilesAssumption
<1>3. /\ s.pc = "scan" /\ s.gen = g /\ s.task = t /\ s.roots = Roots /\ s.docs = <<>> /\ s.visited = {} /\ s.named = {}
      /\ s.since = [f \in Files |-> {files[f]}]
  BY DEF Scanning
<1>4. s \in Scans
  BY <1>1, <1>2 DEF Scanning, Scans
<1> HIDE DEF s
<1>5. Current(s) /\ Covers(s)
  BY <1>3 DEF Current, Covers, Found
<1>6. InOrder(s, files)
  BY <1>3, <1>5 DEF InOrder
<1>. QED
  BY <1>3, <1>4, <1>6 DEF Calling, Busy, s

LEMMA SetUpKeeps == ASSUME IInv, SetUp PROVE IInv'
<1> DEFINE n == gen + 1
           s == Scanning(n, [kind |-> "setup"])
<1>1. n \in Gens /\ n \in 0..MaxGen /\ ~loaded /\ gen' = n /\ UNCHANGED <<files, sensor, disk>> /\ overtaken' = FALSE
  BY GensAre DEF IInv, SetUp
<1>2. /\ registry' = [Kept(registry, NoRegistry) EXCEPT ![n] = disk.registry]
      /\ policies' = [Kept(policies, NoPolicies) EXCEPT ![n] = disk.policies]
  BY <1>1 DEF SetUp
<1>3. /\ registry \in [Gens -> Registries] /\ policies \in [Gens -> [Keys -> Rules]]
      /\ disk.registry \in Registries /\ disk.policies \in [Keys -> Rules] /\ ops \in [Ops -> Calling]
  BY DEF IInv, Typed, Copies
<1>4. /\ Kept(registry, NoRegistry) \in [Gens -> Registries]
      /\ \A g \in Gens : Kept(registry, NoRegistry)[g] \in {registry[g], NoRegistry}
      /\ Kept(policies, NoPolicies) \in [Gens -> [Keys -> Rules]]
  BY <1>3, KeptIs, DefaultIs
<1>5. registry' \in [Gens -> Registries] /\ policies' \in [Gens -> [Keys -> Rules]]
  BY <1>2, <1>3, <1>4
<1>6. [kind |-> "setup"] \in Tasks
  BY DEF Tasks
<1>7. s \in Calling /\ Busy(s) /\ s.pc = "scan" /\ s.gen = n /\ s.task = [kind |-> "setup"] /\ InOrder(s, files)
  BY <1>1, <1>6, ScanningIs DEF IInv
<1>8. n \in Ops /\ Owned(n, s)
  BY <1>1, <1>7 DEF Ops, Owned
<1>9. \/ ops' = ops /\ loaded' = TRUE /\ armed' = armed \cup {n}
      \/ ops' = [ops EXCEPT ![n] = s] /\ loaded' = loaded /\ armed' = armed
  BY <1>1 DEF SetUp, Ready, Tick
<1> HIDE DEF s, n
<1>10. armed = {}
  BY <1>1 DEF IInv, Typed
<1>11. ops' \in [Ops -> Calling] /\ \A o \in Ops : ops'[o] = ops[o] \/ (o = n /\ ops'[o] = s /\ loaded' = loaded)
  BY <1>3, <1>7, <1>8, <1>9
<1>12. Typed'
  BY <1>1, <1>5, <1>9, <1>10, <1>11 DEF IInv, Typed
<1>13. \A o \in Ops : ~SetsUp(ops[o])
  <2>. SUFFICES ASSUME NEW o \in Ops, SetsUp(ops[o])
                PROVE  FALSE
    OBVIOUS
  <2>1. o = gen /\ o \in Gens
    BY DEF IInv, SetUps, Owned, SetsUp
  <2>2. ops[o].pc # "idle" => ops[o].task.kind # "setup"
    BY <2>1 DEF SetUp, Tick
  <2>. QED
    BY <2>2 DEF SetsUp, Busy
<1>14. SetUps'
  <2>1. \A o \in Ops : Owned(o, ops'[o])
    BY <1>8, <1>11 DEF IInv, SetUps
  <2>2. \A o \in Ops : SetsUp(ops'[o]) => ~loaded' /\ o = gen' /\ ops'[o].gen = gen'
    BY <1>1, <1>7, <1>11, <1>13
  <2>. QED
    BY <1>1, <2>1, <2>2 DEF SetUps, Owned, SetsUp, Busy
<1>15. Scanned'
  BY <1>1, <1>7, <1>11 DEF IInv, Scanned, InOrder, Current, Covers, Found
<1>16. Listed'
  <2>1. \A g \in Gens : registry'[g] \in {registry[g], NoRegistry, disk.registry}
    BY <1>1, <1>2, <1>4
  <2>2. \A g \in Gens : Current(registry'[g])
    BY <2>1, DefaultIs DEF IInv, Listed
  <2>. QED
    BY <1>1, <2>2 DEF IInv, Listed, Current
<1>17. policies'[gen'] = disk'.policies
  BY <1>1, <1>2, <1>4
<1>. QED
  BY <1>12, <1>14, <1>15, <1>16, <1>17 DEF IInv, Saved

LEMMA UnloadKeeps == ASSUME IInv, Unload PROVE IInv'
<1>1. /\ loaded /\ loaded' = FALSE /\ armed' = armed \ {gen}
      /\ registry' = Kept(registry, NoRegistry) /\ policies' = Kept(policies, NoPolicies)
      /\ UNCHANGED <<files, sensor, gen, disk, ops, overtaken>>
  BY DEF Unload
<1>2. registry \in [Gens -> Registries] /\ policies \in [Gens -> [Keys -> Rules]]
  BY DEF IInv, Typed
<1>3. /\ registry' \in [Gens -> Registries] /\ policies' \in [Gens -> [Keys -> Rules]]
      /\ \A g \in Gens : registry'[g] \in {registry[g], NoRegistry}
  BY <1>1, <1>2, KeptIs, DefaultIs
<1>4. Typed'
  BY <1>1, <1>3 DEF IInv, Typed
<1>5. SetUps' /\ Scanned'
  BY <1>1 DEF IInv, SetUps, Scanned, Owned, SetsUp, Busy, InOrder, Covers, Found, Current
<1>6. Listed'
  <2>1. \A g \in Gens : Current(registry'[g])
    BY <1>3, DefaultIs DEF IInv, Listed
  <2>. QED
    BY <1>1, <2>1 DEF IInv, Listed, Current
<1>7. ~InCharge'
  BY <1>1 DEF IInv, SetUps, InCharge, SetsUp, Busy
<1>. QED
  BY <1>4, <1>5, <1>6, <1>7 DEF IInv, Saved

LEMMA CrashKeeps == ASSUME IInv, Crash PROVE IInv'
<1>1. /\ loaded' = FALSE /\ armed' = {}
      /\ registry' = [g \in Gens |-> NoRegistry] /\ policies' = [g \in Gens |-> NoPolicies]
      /\ UNCHANGED <<files, sensor, gen, disk, overtaken>>
  BY DEF Crash
<1>2. ops' = [o \in Ops |-> IF o \in Gens \/ ops[o].pc = "idle" THEN Idle ELSE Made]
  BY DEF Crash
<1>3. ops' \in [Ops -> Calling] /\ \A o \in Ops : ~Busy(ops'[o])
  BY <1>2, IdleIs
<1>4. Typed'
  BY <1>1, <1>3, DefaultIs DEF IInv, Typed
<1>5. SetUps' /\ ~InCharge'
  BY <1>1, <1>3 DEF SetUps, InCharge, Owned, SetsUp, Busy
<1>6. Scanned'
  BY <1>3 DEF Scanned, InOrder, Busy
<1>7. Listed'
  BY <1>1, DefaultIs DEF IInv, Listed, Current
<1>. QED
  BY <1>4, <1>5, <1>6, <1>7 DEF IInv, Saved

-----------------------------------------------------------------------------
(* Calls begin.                                                            *)

\* A scan begins in the place of a call that sets nothing up and writes no rule.
LEMMA BeginKeeps ==
    ASSUME IInv, NEW o \in Ops, NEW t \in Tasks, t.kind # "setup",
           loaded, ~SetsUp(ops[o]), ops[o].pc # "rules", o \in Gens <=> t.kind = "tick",
           ops' = [ops EXCEPT ![o] = Scanning(gen, t)], armed' \subseteq armed,
           UNCHANGED <<files, sensor, gen, loaded, registry, policies, disk, overtaken>>
    PROVE  IInv'
<1> DEFINE s == Scanning(gen, t)
<1>1. gen \in Gens
  BY DEF IInv, SetUps
<1>2. s \in Calling /\ Busy(s) /\ s.pc = "scan" /\ s.gen = gen /\ s.task = t /\ InOrder(s, files)
  BY <1>1, ScanningIs DEF IInv
<1> HIDE DEF s
<1>3. Step(o, s)
  <2>1. ops' = [ops EXCEPT ![o] = s]
    BY DEF s
  <2>2. t.kind \in {"setup", "tick"} <=> t.kind = "tick"
    OBVIOUS
  <2>. QED
    BY <1>2, <2>1, <2>2 DEF Step, Owned
<1>4. Typed'
  <2>1. ops' \in [Ops -> Calling]
    BY <1>3, StepIs DEF IInv
  <2>. QED
    BY <2>1 DEF IInv, Typed
<1>5. SetUps'
  <2>1. \A q \in Ops : ~SetsUp(ops[q])
    BY DEF IInv, SetUps
  <2>2. ~SetsUp(s)
    BY <1>2 DEF SetsUp
  <2>. QED
    BY <1>1, <1>3, <2>1, <2>2, StepSetUps DEF IInv
<1>6. Scanned'
  BY <1>2, <1>3, StepScanned DEF IInv
<1>7. Listed'
  BY Same DEF IInv
<1>8. Saved'
  BY <1>3, StepSaved DEF IInv, InCharge
<1>. QED
  BY <1>4, <1>5, <1>6, <1>7, <1>8 DEF IInv

LEMMA TimerKeeps == ASSUME IInv, NEW g \in Gens, TimerFires(g) PROVE IInv'
<1>1. /\ g \in armed /\ armed' = armed \ {g}
      /\ ops' = [ops EXCEPT ![g] = Scanning(g, [kind |-> "tick"])]
      /\ UNCHANGED <<files, sensor, gen, loaded, registry, policies, disk, overtaken>>
  BY DEF TimerFires, Tick
<1>2. loaded /\ g = gen /\ g \in Ops
  BY <1>1 DEF IInv, Typed, Ops
<1>3. [kind |-> "tick"] \in Tasks
  BY DEF Tasks
<1>4. ops[g].pc # "rules" /\ ~SetsUp(ops[g])
  <2>1. ops[g] \in Calling /\ Owned(g, ops[g]) /\ (SetsUp(ops[g]) => ~loaded)
    BY <1>2 DEF IInv, Typed, SetUps
  <2>. QED
    BY <1>2, <2>1, CallIs DEF Owned, Busy
<1>. QED
  BY <1>1, <1>2, <1>3, <1>4, BeginKeeps

LEMMA CallRefreshKeeps == ASSUME IInv, NEW c \in Callers, NEW force \in BOOLEAN, CallRefresh(c, force) PROVE IInv'
<1>1. [kind |-> "refresh"] \in Tasks
  BY DEF Tasks
<1>2. c \in Ops /\ c \notin Gens
  BY GensAre DEF Ops, IInv
<1>3. /\ loaded /\ ops[c].pc = "idle" /\ ops' = [ops EXCEPT ![c] = Scanning(gen, [kind |-> "refresh"])]
      /\ UNCHANGED <<files, sensor, gen, loaded, armed, registry, policies, disk, overtaken>>
  BY DEF CallRefresh
<1>4. ~SetsUp(ops[c])
  BY <1>3 DEF SetsUp, Busy
<1>. QED
  BY <1>1, <1>2, <1>3, <1>4, BeginKeeps

\* A rule is now in use that is still to be written.
LEMMA RuleKeeps ==
    ASSUME IInv, NEW o \in Ops \ Gens, NEW s \in Writes, Step(o, s), loaded,
           policies' \in [Gens -> [Keys -> Rules]],
           UNCHANGED <<files, sensor, gen, loaded, armed, registry, disk, overtaken>>
    PROVE  IInv'
<1>1. s.pc = "rules" /\ Busy(s)
  BY DEF Writes, Busy
<1>2. ~SetsUp(s)
  BY <1>1 DEF Step, Owned, SetsUp
<1>3. Typed'
  <2>1. ops' \in [Ops -> Calling]
    BY StepIs DEF IInv
  <2>. QED
    BY <2>1 DEF IInv, Typed
<1>4. SetUps'
  <2>1. \A q \in Ops : ~SetsUp(ops[q])
    BY DEF IInv, SetUps
  <2>. QED
    BY <1>2, <2>1, StepSetUps DEF IInv, SetUps
<1>5. Scanned'
  BY <1>1, StepScanned DEF IInv, InOrder
<1>6. Listed'
  BY Same DEF IInv
<1>7. Saved'
  BY <1>1, StepWrites DEF IInv
<1>. QED
  BY <1>3, <1>4, <1>5, <1>6, <1>7 DEF IInv

LEMMA CallSetKeeps ==
    ASSUME IInv, NEW c \in Callers, NEW k \in Keys, NEW e \in Edits, CallSet(c, k, e)
    PROVE  IInv'
<1> DEFINE t == [kind |-> "set", key |-> k, changes |-> e]
<1>1. t \in Tasks /\ t \in Sets /\ t.kind = "set" /\ t.key = k
  BY DEF Tasks, Sets
<1>2. c \in Ops /\ c \notin Gens /\ gen \in Gens
  BY GensAre DEF Ops, IInv, SetUps, CallSet
<1>3. /\ loaded /\ ops[c].pc = "idle"
      /\ UNCHANGED <<files, sensor, gen, loaded, armed, registry, disk, overtaken>>
  BY DEF CallSet
<1>4. ~SetsUp(ops[c])
  BY <1>3 DEF SetsUp, Busy
<1>5. CASE k \in Known(registry[gen])
  <2>1. registry' = registry /\ SetRule(c, gen, t)
    BY <1>5 DEF CallSet
  <2>2. k \in Known(registry'[gen])
    BY <1>5, <2>1
  <2>3. ops' = [ops EXCEPT ![c] = [pc |-> "rules", gen |-> gen, task |-> t]]
    BY <1>1, <2>1, <2>2 DEF SetRule
  <2>4. policies' \in [Gens -> [Keys -> Rules]]
    BY <1>1, <1>2, <2>1, SetRuleIs DEF IInv
  <2>5. [pc |-> "rules", gen |-> gen, task |-> t] \in Writes
    BY <1>1, <1>2 DEF Writes
  <2>6. Step(c, [pc |-> "rules", gen |-> gen, task |-> t])
    BY <1>1, <1>2, <2>3, <2>5 DEF Step, Owned, Calling
  <2>. QED
    BY <1>2, <1>3, <2>4, <2>5, <2>6, RuleKeeps
<1>6. CASE k \notin Known(registry[gen])
  <2>1. ops' = [ops EXCEPT ![c] = Scanning(gen, t)] /\ policies' = policies
    BY <1>6 DEF CallSet
  <2>. QED
    BY <1>1, <1>2, <1>3, <1>4, <2>1, BeginKeeps
<1>. QED
  BY <1>5, <1>6

LEMMA CallResetKeeps == ASSUME IInv, NEW c \in Callers, NEW k \in Keys, CallReset(c, k) PROVE IInv'
<1> DEFINE s == [pc |-> "rules", gen |-> gen, task |-> [kind |-> "reset", key |-> k]]
<1>1. c \in Ops \ Gens /\ gen \in Gens
  BY GensAre DEF Ops, IInv, SetUps, CallReset
<1>2. /\ loaded /\ policies' = [policies EXCEPT ![gen][k] = Default] /\ ops' = [ops EXCEPT ![c] = s]
      /\ UNCHANGED <<files, sensor, gen, loaded, armed, registry, disk, overtaken>>
  BY DEF CallReset
<1>3. s \in Writes
  BY <1>1 DEF Writes, Resets
<1>4. Step(c, s)
  BY <1>1, <1>2, <1>3 DEF Step, Owned, Calling
<1>5. policies' \in [Gens -> [Keys -> Rules]]
  BY <1>1, <1>2, DefaultIs DEF IInv, Typed
<1>. QED
  BY <1>1, <1>2, <1>3, <1>4, <1>5, RuleKeeps

-----------------------------------------------------------------------------
(* The scan.                                                               *)

\* A scan that goes on keeps everything but what it has read.
LEMMA ScanKeeps ==
    ASSUME IInv, NEW o \in Ops, NEW s \in Scans, ops[o].pc = "scan",
           ops' = [ops EXCEPT ![o] = s], s.gen = ops[o].gen, s.task = ops[o].task, InOrder(s, files),
           UNCHANGED <<files, sensor, gen, loaded, armed, registry, policies, disk, overtaken>>
    PROVE  IInv'
<1>1. Busy(s) /\ Busy(ops[o]) /\ s \in Calling
  BY DEF Busy, Scans, Calling
<1>2. (SetsUp(s) <=> SetsUp(ops[o])) /\ Owned(o, s)
  BY <1>1 DEF SetsUp, Owned, IInv, SetUps
<1>3. Step(o, s)
  BY <1>1, <1>2 DEF Step
<1>4. Typed'
  <2>1. ops' \in [Ops -> Calling]
    BY <1>3, StepIs DEF IInv
  <2>. QED
    BY <2>1 DEF IInv, Typed
<1>5. SetUps'
  BY <1>2, <1>3, StepSetUps DEF IInv, SetUps
<1>6. Scanned'
  BY <1>3, StepScanned DEF IInv
<1>7. Listed'
  BY Same DEF IInv
<1>8. Saved'
  BY <1>2, <1>3, StepSaved DEF IInv, InCharge
<1>. QED
  BY <1>4, <1>5, <1>6, <1>7, <1>8 DEF IInv

\* A file that is not passed over is read or named.
LEMMA ReadOneIs ==
    ASSUME files \in [Files -> Texts], NEW s \in Scans, NEW f \in Files,
           Current(s), files[f] \in s.since[f], s.visited \subseteq Found(s)
    PROVE  LET r == ReadOne(s, f)
           IN  /\ r \in Scans /\ r.pc = s.pc /\ r.gen = s.gen /\ r.task = s.task
               /\ r.roots = s.roots /\ r.since = s.since
               /\ Current(r)
               /\ Found(s) \subseteq Found(r) /\ r.visited \subseteq Found(r) /\ s.named \subseteq r.named
               /\ f \in Allowed => f \in Found(r)
               /\ Range(s.todo) \subseteq Range(r.todo)
               /\ \A i \in DOMAIN r.docs :
                   \/ i \in DOMAIN s.docs /\ r.docs[i] = s.docs[i]
                   \/ r.docs[i].file \in r.named
                   \/ Range(Includes[r.docs[i].text]) \subseteq Allowed \cap Range(r.todo)
<1> DEFINE r == ReadOne(s, f)
           x == files[f]
           d == [file |-> f, text |-> x, raw |-> x]
           new == {g \in {f} : x \in Dynamic \/ ~(Range(Includes[x]) \subseteq Allowed)}
<1>1. /\ s.docs \in Seq(Docs) /\ s.todo \in Seq(Files) /\ s.visited \subseteq Files /\ s.named \subseteq Files
      /\ x \in Texts
  BY DEF Scans
<1>2. CASE f \in s.visited \/ f \notin Allowed
  <2>1. r = s
    BY <1>2 DEF ReadOne
  <2>. QED
    BY <1>2, <2>1
<1>3. CASE /\ f \notin s.visited /\ f \in Allowed
           /\ r = [[s EXCEPT !.visited = @ \cup {f}] EXCEPT !.named = @ \cup {f}]
  <2>1. /\ r \in Scans /\ r.pc = s.pc /\ r.gen = s.gen /\ r.task = s.task /\ r.roots = s.roots /\ r.since = s.since
        /\ r.docs = s.docs /\ r.todo = s.todo /\ r.visited = s.visited \cup {f} /\ r.named = s.named \cup {f}
    <3>1. [s EXCEPT !.visited = @ \cup {f}] \in Scans
      BY <1>1 DEF Scans
    <3>. QED
      BY <1>1, <1>3, <3>1 DEF Scans
  <2> HIDE DEF r
  <2>2. Current(r)
    BY <2>1 DEF Current
  <2>3. Found(r) = Found(s) \cup {f}
    BY <2>1 DEF Found
  <2>4. r.docs = s.docs
    BY <2>1
  <2>. QED
    BY <2>1, <2>2, <2>3, <2>4 DEF r
<1>4. CASE /\ f \notin s.visited /\ f \in Allowed /\ x \in Readable
           /\ r = [[s EXCEPT !.visited = @ \cup {f}] EXCEPT
                     !.docs = Append(@, d), !.todo = Includes[x] \o @, !.named = @ \cup new]
  <2>1. x \in Contents /\ Includes[x] \in Seq(Files) /\ d \in Docs
    BY <1>1, <1>4, FilesAssumption DEF Docs
  <2>2. /\ Append(s.docs, d) \in Seq(Docs) /\ DOMAIN Append(s.docs, d) = DOMAIN s.docs \cup {Len(s.docs) + 1}
        /\ \A i \in DOMAIN s.docs : Append(s.docs, d)[i] = s.docs[i]
        /\ Append(s.docs, d)[Len(s.docs) + 1] = d
    BY <1>1, <2>1, Appended
  <2>3. /\ Includes[x] \o s.todo \in Seq(Files)
        /\ Range(Includes[x]) \subseteq Range(Includes[x] \o s.todo) /\ Range(s.todo) \subseteq Range(Includes[x] \o s.todo)
    BY <1>1, <2>1, Concatenated
  <2>4. new \subseteq Files
    OBVIOUS
  <2> HIDE DEF new, d, r
  <2>5. /\ r \in Scans /\ r.pc = s.pc /\ r.gen = s.gen /\ r.task = s.task /\ r.roots = s.roots /\ r.since = s.since
        /\ r.docs = Append(s.docs, d) /\ r.todo = Includes[x] \o s.todo
        /\ r.visited = s.visited \cup {f} /\ r.named = s.named \cup new
    BY <1>1, <1>4, <2>2, <2>3, <2>4 DEF Scans
  <2>6. d.file = f /\ d.text = x /\ d.raw = x
    BY DEF d
  <2>7. Current(r)
    BY <1>4, <2>2, <2>5, <2>6 DEF Current
  <2>8. Found(s) \subseteq Found(r)
    <3>1. ASSUME NEW i \in DOMAIN s.docs PROVE s.docs[i].file \in Found(r)
      BY <2>2, <2>5 DEF Found
    <3>. QED
      BY <2>5, <3>1 DEF Found
  <2>9. f \in Found(r)
    BY <2>2, <2>5, <2>6 DEF Found
  <2>10. ASSUME NEW i \in DOMAIN r.docs
         PROVE  \/ i \in DOMAIN s.docs /\ r.docs[i] = s.docs[i]
                \/ r.docs[i].file \in r.named
                \/ Range(Includes[r.docs[i].text]) \subseteq Allowed \cap Range(r.todo)
    <3>1. CASE i \in DOMAIN s.docs
      BY <2>2, <2>5, <3>1
    <3>2. CASE i = Len(s.docs) + 1
      <4>1. r.docs[i] = d
        BY <2>2, <2>5, <3>2
      <4>2. f \in new \/ Range(Includes[x]) \subseteq Allowed
        BY DEF new
      <4>. QED
        BY <2>3, <2>5, <2>6, <4>1, <4>2
    <3>. QED
      BY <2>2, <2>5, <3>1, <3>2
  <2>. QED
    BY <2>3, <2>5, <2>7, <2>8, <2>9, <2>10 DEF r
<1>5. \/ f \in s.visited \/ f \notin Allowed
      \/ /\ f \notin s.visited /\ f \in Allowed
         /\ r = [[s EXCEPT !.visited = @ \cup {f}] EXCEPT !.named = @ \cup {f}]
      \/ /\ f \notin s.visited /\ f \in Allowed /\ x \in Readable
         /\ r = [[s EXCEPT !.visited = @ \cup {f}] EXCEPT
                   !.docs = Append(@, d), !.todo = Includes[x] \o @, !.named = @ \cup new]
  BY Zenon DEF ReadOne
<1> HIDE DEF r
<1>. QED
  BY <1>2, <1>3, <1>4, <1>5 DEF r

\* Whatever was covered is, once the next file is taken from what is left.
LEMMA ReadCovers ==
    ASSUME files \in [Files -> Texts], NEW s \in Scans, NEW t \in Scans, NEW f \in Files,
           InOrder(s, files), s.pc = "scan",
           t.pc = "scan", t.visited = s.visited, t.docs = s.docs, t.named = s.named, t.since = s.since,
           \/ t.roots = s.roots /\ \A g \in Range(s.todo) : g = f \/ g \in Range(t.todo)
           \/ /\ t.todo = s.todo /\ f \in Allowed
              /\ \A g \in Range(s.roots) : g = f \/ g \in Range(t.roots)
    PROVE  InOrder(ReadOne(t, f), files)
<1> DEFINE r == ReadOne(t, f)
<1>1. Current(s) /\ Covers(s) /\ \A g \in Files : files[g] \in s.since[g]
  BY DEF InOrder
<1>2. Found(t) = Found(s) /\ Current(t)
  BY <1>1 DEF Found, Current
<1>3. /\ r \in Scans /\ r.pc = "scan" /\ r.roots = t.roots /\ r.since = s.since /\ Current(r)
      /\ Found(s) \subseteq Found(r) /\ r.visited \subseteq Found(r) /\ s.named \subseteq r.named
      /\ f \in Allowed => f \in Found(r)
      /\ Range(t.todo) \subseteq Range(r.todo)
      /\ \A i \in DOMAIN r.docs :
          \/ i \in DOMAIN s.docs /\ r.docs[i] = s.docs[i]
          \/ r.docs[i].file \in r.named
          \/ Range(Includes[r.docs[i].text]) \subseteq Allowed \cap Range(r.todo)
  BY <1>1, <1>2, ReadOneIs DEF Covers
<1> HIDE DEF r
<1>4. ASSUME NEW g \in Range(Roots) PROVE g \in Found(r) \/ Missing \in r.since[g] \/ g \in Range(r.roots)
  <2>1. g \in Found(s) \/ Missing \in s.since[g] \/ g \in Range(s.roots)
    BY <1>1 DEF Covers
  <2>. QED
    BY <1>3, <2>1
<1>5. ASSUME NEW i \in DOMAIN r.docs
      PROVE  \/ r.docs[i].file \in r.named
             \/ Range(Includes[r.docs[i].text]) \subseteq Allowed \cap (Found(r) \cup Range(r.todo))
  <2>1. CASE i \in DOMAIN s.docs /\ r.docs[i] = s.docs[i]
    <3>1. \/ s.docs[i].file \in s.named
          \/ Range(Includes[s.docs[i].text]) \subseteq Allowed \cap (Found(s) \cup Range(s.todo))
      BY <1>1, <2>1 DEF Covers
    <3>2. \A g \in Allowed \cap Range(s.todo) : g \in Found(r) \cup Range(r.todo)
      BY <1>3
    <3>. QED
      BY <1>3, <2>1, <3>1, <3>2
  <2>. QED
    BY <1>3, <2>1
<1>6. Covers(r)
  BY <1>3, <1>4, <1>5 DEF Covers
<1>7. InOrder(r, files)
  BY <1>1, <1>3, <1>6 DEF InOrder
<1>. QED
  BY <1>7 DEF r

LEMMA ReadKeeps == ASSUME IInv, NEW o \in Ops, Read(o) PROVE IInv'
<1> DEFINE s == ops[o]
<1>1. /\ s.pc = "scan"
      /\ UNCHANGED <<files, sensor, gen, loaded, armed, registry, policies, disk, overtaken>>
  BY DEF Read, Quiet
<1>2. s \in Scans /\ InOrder(s, files) /\ files \in [Files -> Texts]
  BY <1>1, CallIs, LayoutsAre DEF IInv, Typed, Scanned
<1>3. Current(s) /\ Covers(s) /\ s.visited \subseteq Found(s) /\ \A f \in Files : files[f] \in s.since[f]
  BY <1>1, <1>2 DEF InOrder, Covers
<1>4. s.todo \in Seq(Files) /\ s.roots \in Seq(Allowed) /\ Allowed \subseteq Files
  BY <1>2, FilesAssumption DEF Scans
<1>5. CASE s.todo # <<>>
  <2> DEFINE t == [s EXCEPT !.todo = Tail(@)]
             f == Head(s.todo)
  <2>1. ops' = [ops EXCEPT ![o] = ReadOne(t, f)]
    BY <1>5 DEF Read
  <2>2. f \in Files /\ Tail(s.todo) \in Seq(Files) /\ \A g \in Range(s.todo) : g = f \/ g \in Range(Tail(s.todo))
    BY <1>4, <1>5, HeadTail
  <2>3. /\ t \in Scans /\ t.pc = "scan" /\ t.visited = s.visited /\ t.docs = s.docs /\ t.named = s.named
        /\ t.since = s.since /\ t.roots = s.roots /\ t.todo = Tail(s.todo) /\ t.gen = s.gen /\ t.task = s.task
    BY <1>1, <1>2, <2>2 DEF Scans
  <2> HIDE DEF t, f
  <2>4. Current(t) /\ Found(t) = Found(s)
    BY <1>3, <2>3 DEF Current, Found
  <2>5. ReadOne(t, f) \in Scans /\ ReadOne(t, f).gen = s.gen /\ ReadOne(t, f).task = s.task
    BY <1>2, <1>3, <2>2, <2>3, <2>4, ReadOneIs
  <2>6. InOrder(ReadOne(t, f), files)
    BY <1>1, <1>2, <2>2, <2>3, ReadCovers
  <2>. QED
    BY <1>1, <2>1, <2>5, <2>6, ScanKeeps
<1>6. CASE s.todo = <<>>
  <2> DEFINE t == [s EXCEPT !.roots = Tail(@)]
             f == Head(s.roots)
  <2>1. s.roots # <<>> /\ ops' = [ops EXCEPT ![o] = IF files[f] = Missing THEN t ELSE ReadOne(t, f)]
    BY <1>6 DEF Read
  <2>2. /\ f \in Allowed /\ f \in Files /\ Tail(s.roots) \in Seq(Allowed)
        /\ \A g \in Range(s.roots) : g = f \/ g \in Range(Tail(s.roots))
    BY <1>4, <2>1, HeadTail
  <2>3. /\ t \in Scans /\ t.pc = "scan" /\ t.visited = s.visited /\ t.docs = s.docs /\ t.named = s.named
        /\ t.since = s.since /\ t.roots = Tail(s.roots) /\ t.todo = s.todo /\ t.gen = s.gen /\ t.task = s.task
    BY <1>1, <1>2, <2>2 DEF Scans
  <2> HIDE DEF t, f
  <2>4. Current(t) /\ Found(t) = Found(s)
    BY <1>3, <2>3 DEF Current, Found
  <2>5. CASE files[f] = Missing
    <3>1. \A g \in Range(Roots) : g \in Found(t) \/ Missing \in t.since[g] \/ g \in Range(t.roots)
      BY <1>3, <2>2, <2>3, <2>4, <2>5 DEF Covers
    <3>2. Covers(t)
      BY <1>3, <2>3, <2>4, <3>1 DEF Covers
    <3>3. InOrder(t, files)
      BY <1>3, <2>3, <2>4, <3>2 DEF InOrder
    <3>. QED
      BY <1>1, <2>1, <2>3, <2>5, <3>3, ScanKeeps
  <2>6. CASE files[f] # Missing
    <3>1. ReadOne(t, f) \in Scans /\ ReadOne(t, f).gen = s.gen /\ ReadOne(t, f).task = s.task
      BY <1>2, <1>3, <2>2, <2>3, <2>4, ReadOneIs
    <3>2. InOrder(ReadOne(t, f), files)
      BY <1>1, <1>2, <2>2, <2>3, ReadCovers
    <3>. QED
      BY <1>1, <2>1, <2>6, <3>1, <3>2, ScanKeeps
  <2>. QED
    BY <2>5, <2>6
<1>. QED
  BY <1>5, <1>6

LEMMA ScanEndsKeeps == ASSUME IInv, NEW o \in Ops, ScanEnds(o) PROVE IInv'
<1> DEFINE s == ops[o]
           again == [i \in DOMAIN s.docs |-> [s.docs[i] EXCEPT !.raw = files[s.docs[i].file]]]
           t == [[s EXCEPT !.pc = "scanned"] EXCEPT !.docs = again]
<1>1. /\ s.pc = "scan" /\ s.roots = <<>> /\ s.todo = <<>>
      /\ UNCHANGED <<files, sensor, gen, loaded, armed, registry, policies, disk, overtaken>>
  BY DEF ScanEnds, Quiet
<1>2. s \in Scans /\ InOrder(s, files) /\ files \in [Files -> Texts]
  BY <1>1, CallIs, LayoutsAre DEF IInv, Typed, Scanned
<1>3. Current(s) /\ Covers(s) /\ \A f \in Files : files[f] \in s.since[f]
  BY <1>1, <1>2 DEF InOrder
<1>4. s.docs \in Seq(Docs)
  BY <1>2 DEF Scans
<1>5. \A i \in DOMAIN s.docs :
        /\ s.docs[i] \in Docs /\ s.docs[i].file \in Files
        /\ [s.docs[i] EXCEPT !.raw = files[s.docs[i].file]] \in Docs
  <2>1. ASSUME NEW d \in Docs, NEW x \in Texts PROVE [d EXCEPT !.raw = x] \in Docs
    BY DEF Docs
  <2>. QED
    BY <1>2, <1>4, <2>1, DocsAre
<1>6. again \in Seq(Docs) /\ DOMAIN again = DOMAIN s.docs
  <2>1. DOMAIN s.docs = 1..Len(s.docs) /\ Len(s.docs) \in Nat
    BY <1>4
  <2>. QED
    BY <1>5, <2>1
<1>7. \A i \in DOMAIN s.docs :
        again[i].file = s.docs[i].file /\ again[i].text = s.docs[i].text /\ again[i].raw = files[s.docs[i].file]
  BY <1>5 DEF Docs
<1>8. ops' = [ops EXCEPT ![o] = t]
  <2>1. ops \in [Ops -> Calling]
    BY DEF IInv, Typed
  <2>. QED
    BY <2>1, Zenon DEF ScanEnds
<1> HIDE DEF again
<1>9. /\ t \in Scans /\ t.pc = "scanned" /\ t.visited = s.visited /\ t.docs = again /\ t.named = s.named
      /\ t.since = s.since /\ t.roots = s.roots /\ t.todo = s.todo /\ t.gen = s.gen /\ t.task = s.task
  <2>1. [s EXCEPT !.pc = "scanned"] \in Scans
    BY <1>2 DEF Scans
  <2>. QED
    BY <1>2, <1>6, <2>1 DEF Scans
<1> HIDE DEF t
<1>10. Current(t)
  <2>. SUFFICES ASSUME NEW i \in DOMAIN s.docs
                PROVE  /\ again[i].file \in Allowed
                       /\ {again[i].text, again[i].raw} \subseteq s.since[again[i].file]
    BY <1>6, <1>9 DEF Current
  <2>1. s.docs[i].file \in Allowed /\ s.docs[i].text \in s.since[s.docs[i].file]
    BY <1>3 DEF Current
  <2>. QED
    BY <1>3, <1>5, <1>7, <2>1
<1>11. Found(t) = Found(s)
  <2>1. \A i \in DOMAIN s.docs : t.docs[i].file = s.docs[i].file
    BY <1>7, <1>9
  <2>2. DOMAIN t.docs = DOMAIN s.docs
    BY <1>6, <1>9
  <2>. QED
    BY <1>9, <2>1, <2>2 DEF Found
<1>12. Covers(t)
  BY <1>3, <1>6, <1>7, <1>9, <1>11 DEF Covers
<1>13. InOrder(t, files)
  BY <1>1, <1>3, <1>9, <1>10, <1>12 DEF InOrder
<1>. QED
  BY <1>1, <1>8, <1>9, <1>13, ScanKeeps

-----------------------------------------------------------------------------
(* The refresh ends and the files are written.                             *)

\* A refresh that ends leaves a coordinator in charge in charge, and writes no
\* rule but what it set.
LEMMA RefreshKeeps ==
    ASSUME IInv, NEW o \in Ops, ops[o].pc \in {"scan", "save"}, Refreshed(o, ops[o].gen, ops[o].task),
           registry' = registry, disk' \in Copies, disk'.policies = disk.policies, Current(disk'.registry),
           UNCHANGED <<files, sensor, gen, overtaken>>
    PROVE  IInv'
<1>1. Typed /\ SetUps /\ Scanned /\ Listed /\ Saved
  BY DEF IInv
<1> DEFINE s == [pc |-> "rules", gen |-> ops[o].gen, task |-> ops[o].task]
<1>2. /\ policies' \in [Gens -> [Keys -> Rules]]
      /\ loaded' = (loaded \/ ops[o].task.kind = "setup")
      /\ armed' \subseteq IF loaded' THEN {gen} ELSE {}
      /\ \/ policies' = policies /\ (Step(o, Idle) \/ Step(o, Made))
         \/ Step(o, s) /\ ops[o].task.kind = "set"
  BY <1>1, RefreshedIs
<1>3. Busy(ops[o]) /\ (SetsUp(ops[o]) <=> ops[o].task.kind = "setup")
  BY DEF Busy, SetsUp
<1>4. loaded' => gen \in Gens /\ InCharge
  BY <1>1, <1>2, <1>3 DEF SetUps, InCharge, Ops, Owned
<1>5. \A q \in Ops : SetsUp(ops[q]) /\ q # o => ~loaded'
  <2>. SUFFICES ASSUME NEW q \in Ops, SetsUp(ops[q]), q # o
                PROVE  ~loaded'
    OBVIOUS
  <2>1. ~loaded /\ q = gen
    BY <1>1 DEF SetUps
  <2>2. ~SetsUp(ops[o])
    BY <1>1, <2>1 DEF SetUps
  <2>. QED
    BY <1>2, <1>3, <2>1, <2>2
<1>6. Listed'
  BY <1>1 DEF Listed, Current
<1>7. ASSUME NEW t, Step(o, t) PROVE Typed'
  <2>1. ops' \in [Ops -> Calling]
    BY <1>1, <1>7, StepIs
  <2>2. loaded' \in BOOLEAN
    BY <1>1, <1>2 DEF Typed
  <2>. QED
    BY <1>1, <1>2, <2>1, <2>2 DEF Typed
<1>8. ASSUME NEW t, Step(o, t), policies' = policies, ~Busy(t) PROVE IInv'
  <2>1. ~SetsUp(t) /\ InOrder(t, files)
    BY <1>8 DEF SetsUp, InOrder, Busy
  <2>2. SetUps'
    BY <1>1, <1>4, <1>5, <1>8, <2>1, StepSetUps
  <2>3. Scanned'
    BY <1>1, <1>8, <2>1, StepScanned
  <2>4. Saved'
    BY <1>1, <1>4, <1>8, <2>1, StepSaved
  <2>. QED
    BY <1>6, <1>7, <1>8, <2>2, <2>3, <2>4 DEF IInv
<1>9. CASE Step(o, s) /\ ops[o].task.kind = "set"
  <2>1. s.pc = "rules" /\ ~SetsUp(s) /\ InOrder(s, files)
    BY <1>9 DEF SetsUp, InOrder
  <2>2. SetUps'
    BY <1>1, <1>4, <1>5, <1>9, <2>1, StepSetUps
  <2>3. Scanned'
    BY <1>1, <1>9, <2>1, StepScanned
  <2>4. Saved'
    BY <1>1, <1>9, <2>1, StepWrites
  <2>. QED
    BY <1>6, <1>7, <1>9, <2>2, <2>3, <2>4 DEF IInv
<1>. QED
  BY <1>2, <1>8, <1>9, IdleIs

LEMMA ScanFailsKeeps == ASSUME IInv, NEW o \in Ops, ScanFails(o) PROVE IInv'
<1>1. /\ ops[o].pc = "scan" /\ registry' = registry /\ Refreshed(o, ops[o].gen, ops[o].task)
      /\ UNCHANGED <<files, sensor, gen, disk, overtaken>>
  BY DEF ScanFails, Quiet
<1>2. disk \in Copies /\ Current(disk.registry)
  BY DEF IInv, Typed, Listed
<1>. QED
  BY <1>1, <1>2, RefreshKeeps

LEMMA SaveKeeps == ASSUME IInv, NEW o \in Ops, Save(o) PROVE IInv'
<1>1. /\ ops[o].pc = "save" /\ registry' = registry /\ Refreshed(o, ops[o].gen, ops[o].task)
      /\ disk' = [disk EXCEPT !.registry = registry[ops[o].gen]]
      /\ UNCHANGED <<files, sensor, gen, overtaken>>
  BY DEF Save, Quiet
<1>2. ops[o].gen \in Gens
  BY <1>1, CallIs DEF IInv, Typed, Busy
<1>3. registry[ops[o].gen] \in Registries /\ Current(registry[ops[o].gen]) /\ disk \in Copies
  BY <1>2 DEF IInv, Typed, Listed
<1>4. disk' \in Copies /\ disk'.registry = registry[ops[o].gen] /\ disk'.policies = disk.policies
  BY <1>1, <1>3 DEF Copies
<1>. QED
  BY <1>1, <1>3, <1>4, RefreshKeeps

LEMMA AdoptKeeps == ASSUME IInv, NEW o \in Ops, Adopt(o) PROVE IInv'
<1> DEFINE g == ops[o].gen
           s == [pc |-> "save", gen |-> g, task |-> ops[o].task]
<1>1. /\ ops[o].pc = "scanned" /\ registry' = [registry EXCEPT ![g] = Result(ops[o])]
      /\ ops' = [ops EXCEPT ![o] = s]
      /\ UNCHANGED <<files, sensor, gen, loaded, armed, policies, disk, overtaken>>
  BY DEF Adopt, Quiet
<1>2. ops[o] \in Scans /\ Current(ops[o]) /\ g \in Gens /\ ops[o].task \in Tasks /\ Busy(ops[o])
  BY <1>1, CallIs DEF IInv, Typed, Scanned, InOrder, Busy
<1>3. Result(ops[o]) \in Registries /\ Current(Result(ops[o]))
  BY <1>2 DEF Result, Scans, Registries, Current
<1>4. s \in Calling /\ Owned(o, s) /\ (SetsUp(s) <=> SetsUp(ops[o])) /\ s.gen = g /\ InOrder(s, files)
  BY <1>2 DEF Calling, Saves, Owned, SetsUp, Busy, IInv, SetUps, InOrder
<1>5. Step(o, s)
  BY <1>1, <1>4 DEF Step
<1> HIDE DEF s
<1>6. Typed'
  <2>1. ops' \in [Ops -> Calling]
    BY <1>5, StepIs DEF IInv
  <2>2. registry' \in [Gens -> Registries]
    BY <1>1, <1>2, <1>3 DEF IInv, Typed
  <2>. QED
    BY <1>1, <2>1, <2>2 DEF IInv, Typed
<1>7. SetUps'
  BY <1>1, <1>4, <1>5, StepSetUps DEF IInv, SetUps
<1>8. Scanned'
  BY <1>1, <1>4, <1>5, StepScanned DEF IInv
<1>9. Listed'
  <2>1. \A h \in Gens : registry'[h] \in {registry[h], Result(ops[o])}
    BY <1>1 DEF IInv, Typed
  <2>2. \A h \in Gens : Current(registry'[h])
    BY <1>3, <2>1 DEF IInv, Listed
  <2>. QED
    BY <1>1, <2>2 DEF IInv, Listed, Current
<1>10. Saved'
  BY <1>1, <1>4, <1>5, StepSaved DEF IInv, InCharge
<1>. QED
  BY <1>6, <1>7, <1>8, <1>9, <1>10 DEF IInv

\* A call ends with a failed write, or with the rules written.
LEMMA SaveFailsKeeps == ASSUME IInv, NEW o \in Ops, SaveFails(o) PROVE IInv'
<1> DEFINE s == IF o \in Gens THEN Idle ELSE Made
<1>1. /\ ops[o].pc \in {"save", "rules"} /\ ops' = [ops EXCEPT ![o] = s]
      /\ overtaken' = (overtaken \/ ops[o].pc = "rules")
      /\ UNCHANGED <<files, sensor, gen, loaded, registry, policies, disk>>
  BY DEF SaveFails, Quiet
<1>2. s \in Calling /\ Owned(o, s) /\ ~SetsUp(s) /\ InOrder(s, files)
  BY IdleIs DEF Owned, SetsUp, InOrder, Busy
<1>3. Step(o, s)
  BY <1>1, <1>2 DEF Step
<1>4. armed' \subseteq IF loaded THEN {gen} ELSE {}
  BY DEF IInv, Typed, SaveFails, Rearm
<1> HIDE DEF s
<1>5. Typed'
  <2>1. ops' \in [Ops -> Calling]
    BY <1>3, StepIs DEF IInv
  <2>2. overtaken' \in BOOLEAN
    BY <1>1 DEF IInv, Typed
  <2>. QED
    BY <1>1, <1>4, <2>1, <2>2 DEF IInv, Typed
<1>6. SetUps'
  BY <1>1, <1>2, <1>3, StepSetUps DEF IInv, SetUps
<1>7. Scanned'
  BY <1>1, <1>2, <1>3, StepScanned DEF IInv
<1>8. Listed'
  BY <1>1, Same DEF IInv
<1>9. Saved'
  <2>1. overtaken' \/ (overtaken' = overtaken /\ ops[o].pc # "rules")
    BY <1>1 DEF IInv, Typed
  <2>2. loaded' => InCharge
    BY <1>1 DEF InCharge
  <2>. QED
    BY <1>1, <1>2, <1>3, <2>1, <2>2, StepSaved DEF IInv
<1>. QED
  BY <1>5, <1>6, <1>7, <1>8, <1>9 DEF IInv

LEMMA SaveRulesKeeps == ASSUME IInv, NEW o \in Ops, SaveRules(o) PROVE IInv'
<1> DEFINE g == ops[o].gen
<1>1. /\ ops[o].pc = "rules" /\ ops' = [ops EXCEPT ![o] = Made]
      /\ disk' = [disk EXCEPT !.policies = policies[g]] /\ overtaken' = (gen # g)
      /\ UNCHANGED <<files, sensor, gen, loaded, armed, registry, policies>>
  BY DEF SaveRules, Quiet
<1>2. g \in Gens /\ disk \in Copies /\ policies[g] \in [Keys -> Rules]
  BY <1>1, CallIs DEF IInv, Typed, Busy
<1>3. disk' \in Copies /\ disk'.registry = disk.registry /\ disk'.policies = policies[g]
  BY <1>1, <1>2 DEF Copies
<1>4. Owned(o, Made) /\ ~SetsUp(Made) /\ InOrder(Made, files)
  BY IdleIs DEF Owned, SetsUp, InOrder, Busy
<1>5. Step(o, Made)
  BY <1>1, <1>4, IdleIs DEF Step
<1>6. Typed'
  <2>1. ops' \in [Ops -> Calling]
    BY <1>5, StepIs DEF IInv
  <2>2. overtaken' \in BOOLEAN
    BY <1>1
  <2>. QED
    BY <1>1, <1>3, <2>1, <2>2 DEF IInv, Typed
<1>7. SetUps'
  BY <1>1, <1>4, <1>5, StepSetUps DEF IInv, SetUps
<1>8. Scanned'
  BY <1>1, <1>4, <1>5, StepScanned DEF IInv
<1>9. Listed'
  BY <1>1, <1>3, Same DEF IInv
<1>10. Saved'
  BY <1>1, <1>3 DEF Saved
<1>. QED
  BY <1>6, <1>7, <1>8, <1>9, <1>10 DEF IInv

-----------------------------------------------------------------------------
(* Entries.  The sequence of all calls is one that FlattenSeq computes by    *)
(* recursion, and the entry of a key is computed along it; both are followed *)
(* by induction over a set of numbers.                                      *)

LEMMA NatWellFounded == IsWellFoundedOn({ss \in Nat \X Nat : ss[1] < ss[2]}, Nat)
  BY NatLessThanWellFounded DEF OpToRel

\* A set of numbers that contains zero and with each number the next contains all.
LEMMA Induction ==
    ASSUME NEW N \in SUBSET Nat, 0 \in N, \A n \in N : n + 1 \in N
    PROVE  N = Nat
<1>. SUFFICES ASSUME Nat \ N # {}
              PROVE  FALSE
  OBVIOUS
<1>1. PICK n \in Nat \ N : \A k \in Nat \ N : ~(<<k, n>> \in {ss \in Nat \X Nat : ss[1] < ss[2]})
  <2>1. Nat \ N \subseteq Nat
    OBVIOUS
  <2>. QED
    BY <2>1, NatWellFounded, WFMin
<1>2. n > 0 /\ n - 1 \in Nat
  BY <1>1
<1>3. n - 1 \in N
  <2>1. <<n - 1, n>> \in {ss \in Nat \X Nat : ss[1] < ss[2]}
    BY <1>2
  <2>. QED
    BY <1>1, <1>2, <2>1
<1>4. (n - 1) + 1 = n
  BY <1>2
<1>. QED
  BY <1>1, <1>3, <1>4

\* Of some numbers one is the smallest.
LEMMA Smallest ==
    ASSUME NEW S \in SUBSET Nat, S # {}
    PROVE  Min(S) \in S
<1>1. PICK n \in S : \A k \in S : ~(<<k, n>> \in {ss \in Nat \X Nat : ss[1] < ss[2]})
  BY NatWellFounded, WFMin
<1>2. \A k \in S : n <= k
  <2>. SUFFICES ASSUME NEW k \in S, ~(n <= k)
                PROVE  FALSE
    OBVIOUS
  <2>1. <<k, n>> \in {ss \in Nat \X Nat : ss[1] < ss[2]}
    OBVIOUS
  <2>. QED
    BY <1>1, <2>1
<1>. QED
  BY <1>2 DEF Min

\* The members of a finite set in some order.
LEMMA InSomeOrder ==
    ASSUME NEW S, IsFiniteSet(S)
    PROVE  SetToSeq(S) \in Seq(S)
<1>1. Cardinality(S) \in Nat /\ \E f \in [1..Cardinality(S) -> S] : IsInjective(f)
  BY FS_CardinalityType DEF ExistsBijection, Bijection, Injection
<1>2. SetToSeq(S) \in [1..Cardinality(S) -> S]
  BY <1>1 DEF SetToSeq
<1>. QED
  BY <1>1, <1>2

\* What FlattenSeq computes along a sequence of sequences.
Flat(ss) ==
    CHOOSE flatten : flatten = [i \in 1..Len(ss) |-> IF i = 1 THEN ss[i] ELSE flatten[i - 1] \o ss[i]]

LEMMA FlattenIs ==
    ASSUME NEW ss, Len(ss) # 0
    PROVE  FlattenSeq(ss) = Flat(ss)[Len(ss)]
  BY DEF FlattenSeq, Flat

\* A function given by its first value and each next one by the one before exists.
LEMMA FlatUnfolds ==
    ASSUME NEW S, NEW ss \in Seq(S)
    PROVE  Flat(ss) = [i \in 1..Len(ss) |-> IF i = 1 THEN ss[i] ELSE Flat(ss)[i - 1] \o ss[i]]
<1> DEFINE Along(f, n) == f = [i \in 1..n |-> IF i = 1 THEN ss[i] ELSE f[i - 1] \o ss[i]]
           N == {n \in Nat : \E f : Along(f, n)}
<1>1. 0 \in N
  <2>1. Along([i \in 1..0 |-> ss[i]], 0)
    OBVIOUS
  <2>. QED
    BY <2>1
<1>2. ASSUME NEW n \in N PROVE n + 1 \in N
  <2>1. PICK f : Along(f, n)
    OBVIOUS
  <2> DEFINE h == [i \in 1..(n + 1) |-> IF i = 1 THEN ss[i] ELSE f[i - 1] \o ss[i]]
  <2>2. \A i \in 1..n : h[i] = f[i]
    <3>1. \A i \in 1..n : i \in 1..(n + 1) /\ h[i] = IF i = 1 THEN ss[i] ELSE f[i - 1] \o ss[i]
      OBVIOUS
    <3>2. \A i \in 1..n : f[i] = IF i = 1 THEN ss[i] ELSE f[i - 1] \o ss[i]
      BY <2>1
    <3>. QED
      BY <3>1, <3>2
  <2>3. \A i \in 1..(n + 1) : i # 1 => i - 1 \in 1..n
    OBVIOUS
  <2>4. Along(h, n + 1)
    BY <2>2, <2>3
  <2>5. \E e : Along(e, n + 1)
    <3> HIDE DEF h, Along
    <3>. QED
      BY <2>4
  <2> HIDE DEF Along
  <2>. QED
    BY <2>5
<1>3. Len(ss) \in N
  <2>1. Len(ss) \in Nat
    OBVIOUS
  <2> HIDE DEF Along
  <2>2. N \in SUBSET Nat
    OBVIOUS
  <2> HIDE DEF N
  <2>. QED
    BY <1>1, <1>2, <2>1, <2>2, Induction
<1>4. PICK f : Along(f, Len(ss))
  BY <1>3
<1>. QED
  BY <1>4 DEF Flat

\* A sequence of sequences over S is flattened to one over S.
LEMMA Flattened ==
    ASSUME NEW S, NEW ss \in Seq(Seq(S))
    PROVE  FlattenSeq(ss) \in Seq(S)
<1>1. CASE Len(ss) = 0
  <2>1. FlattenSeq(ss) = ss /\ ss = <<>>
    BY <1>1 DEF FlattenSeq
  <2>. QED
    BY <2>1
<1>2. CASE Len(ss) # 0
  <2> DEFINE N == {n \in Nat : n + 1 \in 1..Len(ss) => Flat(ss)[n + 1] \in Seq(S)}
  <2>1. Len(ss) \in Nat /\ \A i \in 1..Len(ss) : ss[i] \in Seq(S)
    OBVIOUS
  <2>2. \A i \in 1..Len(ss) : Flat(ss)[i] = IF i = 1 THEN ss[i] ELSE Flat(ss)[i - 1] \o ss[i]
    <3>1. Flat(ss) = [i \in 1..Len(ss) |-> IF i = 1 THEN ss[i] ELSE Flat(ss)[i - 1] \o ss[i]]
      BY FlatUnfolds
    <3>. QED
      BY <3>1
  <2>3. 0 \in N
    BY <2>1, <2>2
  <2>4. ASSUME NEW n \in N PROVE n + 1 \in N
    <3>. SUFFICES ASSUME n + 2 \in 1..Len(ss)
                  PROVE  Flat(ss)[n + 2] \in Seq(S)
      OBVIOUS
    <3>1. n + 1 \in 1..Len(ss) /\ n + 2 # 1 /\ (n + 2) - 1 = n + 1
      BY <2>1
    <3>2. Flat(ss)[n + 2] = Flat(ss)[n + 1] \o ss[n + 2]
      BY <2>2, <3>1
    <3>. QED
      BY <2>1, <3>1, <3>2
  <2>5. Len(ss) - 1 \in N
    <3>1. N \in SUBSET Nat /\ Len(ss) - 1 \in Nat
      BY <1>2, <2>1
    <3> HIDE DEF N
    <3>. QED
      BY <2>3, <2>4, <3>1, Induction
  <2>6. Flat(ss)[Len(ss)] \in Seq(S)
    BY <1>2, <2>1, <2>5
  <2>. QED
    BY <1>2, <2>6, FlattenIs
<1>. QED
  BY <1>1, <1>2

\* The calls of a registry are a sequence of records.
LEMMA CallsAre ==
    ASSUME NEW R \in Registries
    PROVE  Len(AllCalls(R)) \in Nat /\ DOMAIN AllCalls(R) = 1..Len(AllCalls(R))
<1> DEFINE docs == R.docs
           ofRoute(d, keys) ==
               [j \in DOMAIN keys |->
                   [key |-> keys[j], default |-> Route[d.raw], dynamic |-> FALSE, request |-> Unknown]]
           keysOf == SetToSeq(RouterKeys(docs, R.shown))
           S == UNION {Range(Calls[x]) : x \in Contents}
           T == UNION {Range(ofRoute(docs[i], keysOf)) : i \in DOMAIN docs}
           literal == [i \in DOMAIN docs |-> Calls[docs[i].text]]
           routed == [i \in DOMAIN docs |-> IF IsRoute(docs[i]) THEN ofRoute(docs[i], keysOf) ELSE <<>>]
<1>1. docs \in Seq(Docs) /\ Len(docs) \in Nat /\ DOMAIN docs = 1..Len(docs)
  BY DEF Registries
<1>2. \A i \in DOMAIN docs : docs[i].text \in Contents
  BY <1>1, DocsAre
<1>3. \A x \in Contents : Calls[x] \in Seq(S)
  <2>. SUFFICES ASSUME NEW x \in Contents
                PROVE  Calls[x] \in Seq(S)
    OBVIOUS
  <2>1. Calls[x] \in Seq(Range(Calls[x])) /\ Range(Calls[x]) \subseteq S
    BY FilesAssumption
  <2>. QED
    BY <2>1
<1>4. CallsOf(docs) \in Seq(S)
  <2>1. literal \in Seq(Seq(S))
    <3>1. \A i \in DOMAIN docs : Calls[docs[i].text] \in Seq(S)
      BY <1>2, <1>3
    <3> HIDE DEF S
    <3>. QED
      BY <1>1, <3>1
  <2> HIDE DEF S, literal
  <2>2. FlattenSeq(literal) \in Seq(S)
    BY <2>1, Flattened
  <2>. QED
    BY <2>2 DEF CallsOf, literal
<1>5. IsFiniteSet(RouterKeys(docs, R.shown))
  <2> DEFINE I == {i \in 1..Len(docs) : Codes[docs[i].text] # {} /\ Of(Codes, docs[i].raw, {}) # {}}
             first == IF I # {} THEN Min(I) ELSE 0
  <2>1. RouterKeys(docs, R.shown) = IF first # 0 THEN Codes[docs[first].text] ELSE {R.shown} \ {NoKey}
    BY DEF RouterKeys, SelectInSeq
  <2>2. CASE first # 0
    <3>1. Min(I) \in I
      <4>1. I # {}
        BY <2>2
      <4>2. I \in SUBSET Nat
        OBVIOUS
      <4> HIDE DEF I
      <4>. QED
        BY <4>1, <4>2, Smallest
    <3>2. first \in DOMAIN docs
      BY <1>1, <2>2, <3>1
    <3>3. docs[first].text \in Contents
      BY <1>2, <3>2
    <3> HIDE DEF first
    <3>. QED
      BY <2>1, <2>2, <3>3, FilesAssumption
  <2>3. CASE first = 0
    BY <2>1, <2>3, FS_Singleton, FS_EmptySet, FS_Subset
  <2>. QED
    BY <2>2, <2>3
<1>6. keysOf \in Seq(RouterKeys(docs, R.shown))
  BY <1>5, InSomeOrder
<1>7. \A i \in DOMAIN docs : ofRoute(docs[i], keysOf) \in Seq(T)
  <2>. SUFFICES ASSUME NEW i \in DOMAIN docs
                PROVE  ofRoute(docs[i], keysOf) \in Seq(T)
    OBVIOUS
  <2>1. DOMAIN keysOf = 1..Len(keysOf) /\ Len(keysOf) \in Nat
    BY <1>6
  <2> DEFINE calls == ofRoute(docs[i], keysOf)
  <2>2. DOMAIN calls = 1..Len(keysOf) /\ \A j \in 1..Len(keysOf) : calls[j] \in Range(calls)
    BY <2>1 DEF Range
  <2>3. Range(calls) \subseteq T
    OBVIOUS
  <2>4. calls = [j \in 1..Len(keysOf) |-> calls[j]]
    BY <2>1
  <2> HIDE DEF calls, T
  <2>5. calls \in Seq(T)
    BY <2>1, <2>2, <2>3, <2>4
  <2>. QED
    BY <2>5 DEF calls
<1>8. RouteCalls(docs, R.shown) \in Seq(T)
  <2>1. routed \in Seq(Seq(T))
    <3>1. \A i \in DOMAIN docs : routed[i] \in Seq(T)
      <4> HIDE DEF T, ofRoute
      <4>. QED
        BY <1>7
    <3>2. routed = [i \in 1..Len(docs) |-> routed[i]]
      BY <1>1
    <3> HIDE DEF T, routed
    <3>. QED
      BY <1>1, <3>1, <3>2
  <2>2. RouteCalls(docs, R.shown) = FlattenSeq(routed)
    BY DEF RouteCalls
  <2> HIDE DEF T, routed
  <2>3. FlattenSeq(routed) \in Seq(T)
    BY <2>1, Flattened
  <2>. QED
    BY <2>2, <2>3
<1> HIDE DEF S, T
<1>. QED
  BY <1>4, <1>8 DEF AllCalls

\* The entry of a key after some of the calls.
EntryAfter(calls, k) ==
    CHOOSE after : after = [n \in 0..Len(calls) |->
        IF n = 0 THEN NoEntry
        ELSE IF calls[n].key = k THEN MergeEntry(after[n - 1], calls[n]) ELSE after[n - 1]]

LEMMA EntryIs ==
    ASSUME NEW R, NEW k
    PROVE  Entry(R, k) = EntryAfter(AllCalls(R), k)[Len(AllCalls(R))]
  BY DEF Entry, EntryAfter

LEMMA EntryUnfolds ==
    ASSUME NEW calls, NEW k, Len(calls) \in Nat
    PROVE  EntryAfter(calls, k) = [n \in 0..Len(calls) |->
            IF n = 0 THEN NoEntry
            ELSE IF calls[n].key = k THEN MergeEntry(EntryAfter(calls, k)[n - 1], calls[n])
            ELSE EntryAfter(calls, k)[n - 1]]
<1> DEFINE Onwards(e, n) == IF n = 0 THEN NoEntry
                          ELSE IF calls[n].key = k THEN MergeEntry(e, calls[n]) ELSE e
           Along(f, m) == f = [n \in 0..m |-> Onwards(f[n - 1], n)]
           N == {m \in Nat : \E f : Along(f, m)}
<1> HIDE DEF Onwards
<1>1. 0 \in N
  <2>1. \A e, n : n = 0 => Onwards(e, n) = NoEntry
    BY DEF Onwards
  <2>2. Along([n \in 0..0 |-> NoEntry], 0)
    BY <2>1
  <2>. QED
    BY <2>2
<1>2. ASSUME NEW m \in N PROVE m + 1 \in N
  <2>1. PICK f : Along(f, m)
    OBVIOUS
  <2> DEFINE h == [n \in 0..(m + 1) |-> Onwards(f[n - 1], n)]
  <2>2. \A n \in 0..m : h[n] = f[n]
    <3>1. \A n \in 0..m : n \in 0..(m + 1) /\ h[n] = Onwards(f[n - 1], n)
      OBVIOUS
    <3>2. \A n \in 0..m : f[n] = Onwards(f[n - 1], n)
      BY <2>1
    <3>. QED
      BY <3>1, <3>2
  <2>3. \A n \in 0..(m + 1) : n # 0 => n - 1 \in 0..m
    OBVIOUS
  <2>4. \A n \in 0..(m + 1) : Onwards(f[n - 1], n) = Onwards(h[n - 1], n)
    <3>1. \A d, e : Onwards(d, 0) = Onwards(e, 0)
      BY DEF Onwards
    <3> HIDE DEF h
    <3>. QED
      BY <2>2, <2>3, <3>1
  <2>5. Along(h, m + 1)
    BY <2>4
  <2>6. \E e : Along(e, m + 1)
    <3> HIDE DEF h, Along
    <3>. QED
      BY <2>5
  <2> HIDE DEF Along
  <2>. QED
    BY <2>6
<1>3. Len(calls) \in N
  <2>1. N \in SUBSET Nat
    OBVIOUS
  <2> HIDE DEF N
  <2>. QED
    BY <1>1, <1>2, <2>1, Induction
<1>4. PICK f : Along(f, Len(calls))
  BY <1>3
<1>. QED
  BY <1>4 DEF EntryAfter, Onwards

\* What an entry claims, it claims of each call of its key so far.
Claims(e, calls, k, n) ==
    \A i \in 1..n : calls[i].key = k =>
        /\ e # NoEntry
        /\ e.ambiguous \/ (e.default = calls[i].default /\ e.request = calls[i].request)

LEMMA MergedClaims ==
    ASSUME NEW e, NEW calls, NEW k, NEW n \in Nat, Claims(e, calls, k, n), calls[n + 1].key = k
    PROVE  Claims(MergeEntry(e, calls[n + 1]), calls, k, n + 1)
<1> DEFINE c == calls[n + 1]
           m == MergeEntry(e, c)
<1>1. \A i \in 1..(n + 1) : i = n + 1 \/ i \in 1..n
  OBVIOUS
<1>2. CASE e = NoEntry
  <2>1. m = [default |-> c.default, request |-> c.request, dynamic |-> c.dynamic, ambiguous |-> FALSE]
    BY <1>2 DEF MergeEntry
  <2>2. m # NoEntry
    BY <2>1 DEF NoEntry
  <2>3. m.default = c.default /\ m.request = c.request
    BY <2>1
  <2> HIDE DEF m
  <2>4. \A i \in 1..n : calls[i].key # k
    BY <1>2 DEF Claims
  <2>. QED
    BY <1>1, <2>2, <2>3, <2>4 DEF Claims, m
<1>3. CASE e # NoEntry
  <2>1. m = [default |-> IF e.default = c.default THEN c.default ELSE {},
             request |-> IF e.request = c.request THEN c.request ELSE Unknown,
             dynamic |-> e.dynamic \/ c.dynamic,
             ambiguous |-> e.ambiguous \/ e.default # c.default \/ e.request # c.request]
    BY <1>3 DEF MergeEntry
  <2>2. m # NoEntry
    BY <2>1 DEF NoEntry
  <2>3. m.ambiguous = (e.ambiguous \/ e.default # c.default \/ e.request # c.request)
    BY <2>1
  <2>4. e.default = c.default /\ e.request = c.request => m.default = c.default /\ m.request = c.request
    BY <2>1
  <2> HIDE DEF m
  <2>. QED
    BY <1>1, <2>2, <2>3, <2>4 DEF Claims, m
<1>. QED
  BY <1>2, <1>3

\* The entry shown for the key of a call says what the call says, or that it
\* does not know.
LEMMA EntryClaims ==
    ASSUME NEW R \in Registries, NEW k
    PROVE  Claims(Entry(R, k), AllCalls(R), k, Len(AllCalls(R)))
<1> DEFINE calls == AllCalls(R)
           after == EntryAfter(calls, k)
           N == {n \in Nat : n <= Len(calls) => Claims(after[n], calls, k, n)}
<1>1. Len(calls) \in Nat
  BY CallsAre
<1>2. \A n \in 0..Len(calls) :
        after[n] = IF n = 0 THEN NoEntry
                   ELSE IF calls[n].key = k THEN MergeEntry(after[n - 1], calls[n]) ELSE after[n - 1]
  <2> HIDE DEF calls
  <2>1. after = [n \in 0..Len(calls) |->
                    IF n = 0 THEN NoEntry
                    ELSE IF calls[n].key = k THEN MergeEntry(after[n - 1], calls[n]) ELSE after[n - 1]]
    BY <1>1, EntryUnfolds
  <2> HIDE DEF after
  <2>. QED
    BY <2>1
<1> HIDE DEF calls, after
<1>3. 0 \in N
  BY DEF Claims
<1>4. ASSUME NEW n \in N PROVE n + 1 \in N
  <2>. SUFFICES ASSUME n + 1 <= Len(calls)
                PROVE  Claims(after[n + 1], calls, k, n + 1)
    OBVIOUS
  <2>1. n \in Nat /\ n + 1 \in 0..Len(calls) /\ n + 1 # 0 /\ (n + 1) - 1 = n /\ Claims(after[n], calls, k, n)
    BY <1>1
  <2>2. CASE calls[n + 1].key = k
    <3>1. after[n + 1] = MergeEntry(after[n], calls[n + 1])
      BY <1>2, <2>1, <2>2
    <3>. QED
      BY <2>1, <2>2, <3>1, MergedClaims
  <2>3. CASE calls[n + 1].key # k
    <3>1. after[n + 1] = after[n]
      BY <1>2, <2>1, <2>3
    <3>2. \A i \in 1..(n + 1) : i = n + 1 \/ i \in 1..n
      BY <2>1
    <3>. QED
      BY <2>1, <2>3, <3>1, <3>2 DEF Claims
  <2>. QED
    BY <2>2, <2>3
<1>5. Len(calls) \in N
  <2>1. N \in SUBSET Nat
    OBVIOUS
  <2> HIDE DEF N
  <2>. QED
    BY <1>1, <1>3, <1>4, <2>1, Induction
<1>6. Claims(after[Len(calls)], calls, k, Len(calls))
  BY <1>1, <1>5
<1>. QED
  BY <1>6, EntryIs DEF calls, after

-----------------------------------------------------------------------------
LEMMA Starts == ASSUME Init PROVE IInv
<1>1. Typed
  <2>1. Default \in Rules /\ NoPolicies \in [Keys -> Rules] /\ NoRegistry \in Registries
    BY DefaultIs
  <2>2. [o \in Ops |-> Idle] \in [Ops -> Calling]
    BY IdleIs
  <2>3. [registry |-> NoRegistry, policies |-> Stored] \in Copies
    BY <2>1, RulesAssumption DEF Copies
  <2>4. 0 \in 0..MaxGen
    BY BoundsAssumption
  <2>. QED
    BY <2>1, <2>2, <2>3, <2>4 DEF Init, Typed
<1>2. \A o \in Ops : ~Busy(ops[o])
  BY IdleIs DEF Init
<1>3. loaded = FALSE
  BY DEF Init
<1>4. SetUps /\ ~InCharge
  BY <1>2, <1>3 DEF SetUps, InCharge, Owned, SetsUp
<1>5. Scanned
  BY <1>2 DEF Scanned, InOrder, Busy
<1>6. Listed
  BY DefaultIs DEF Init, Listed
<1>. QED
  BY <1>1, <1>4, <1>5, <1>6 DEF IInv, Saved

LEMMA StaysSo == ASSUME IInv, [Next]_vars PROVE IInv'
<1>1. CASE Next
  <2>1. ASSUME NEW o \in Ops, ScanStep(o) \/ ScanFails(o) \/ SaveFails(o) PROVE IInv'
    BY <2>1, ReadKeeps, ScanEndsKeeps, AdoptKeeps, SaveKeeps, SaveRulesKeeps, ScanFailsKeeps, SaveFailsKeeps DEF ScanStep
  <2>. QED
    BY <1>1, <2>1, EditFileKeeps, SensorKeeps, GrowsOldKeeps, SetUpKeeps, UnloadKeeps, CrashKeeps,
       TimerKeeps, CallRefreshKeeps, CallSetKeeps, CallResetKeeps
    DEF Next
<1>2. CASE UNCHANGED vars
  BY <1>2 DEF vars, IInv, Typed, SetUps, Scanned, Listed, Saved, InCharge, Writing, Owned, SetsUp, Busy,
              InOrder, Covers, Found, Current
<1>. QED
  BY <1>1, <1>2

\* What the registry of rules keeps to, step by step: the types, the set-up in
\* progress, the order of every scan, the texts of every registry and the rules.
THEOREM Inductive == Spec => []IInv
<1>. QED
  BY Starts, StaysSo, PTL DEF Spec

\* Types, and that a timer is set for the loaded coordinator only, so that none
\* of an unloaded one goes on scanning (_schedule_notification_registry_tick).
THEOREM TypeCorrect == Spec => []TypeOK
<1>1. IInv => TypeOK
  <2>. SUFFICES ASSUME IInv
                PROVE  TypeOK
    OBVIOUS
  <2>1. files \in [Files -> Contents \cup {Missing}]
    BY LayoutsAre DEF IInv, Typed, Texts
  <2>2. \A g \in Gens : policies[g] \in [Keys -> Rules]
    BY DEF IInv, Typed
  <2>3. \A o \in Ops : ops[o].pc \in {"idle", "scan", "scanned", "save", "rules", "made"}
    BY CallIs DEF IInv, Typed
  <2>. QED
    BY <2>1, <2>2, <2>3 DEF IInv, Typed, TypeOK
<1>. QED
  BY <1>1, Inductive, PTL

\* refreshed_at and scan_issues say what is true: no registry, in memory or in
\* the file, has a text that was not in its place at that time or later, and a
\* scan leaves nothing out without naming it, however scans, edits, reloads and
\* failures overlap.
THEOREM RegistryIsHonest == Spec => []Honest
<1>1. IInv => Honest
  <2>. SUFFICES ASSUME IInv
                PROVE  Honest
    OBVIOUS
  <2>1. ASSUME NEW o \in Ops, ops[o].pc = "scanned" PROVE Current(ops[o]) /\ Complete(ops[o])
    <3>1. Current(ops[o]) /\ Covers(ops[o]) /\ ops[o].roots = <<>> /\ ops[o].todo = <<>>
      BY <2>1 DEF IInv, Scanned, InOrder
    <3>2. Range(<<>>) = {}
      BY DEF Range
    <3>. QED
      BY <3>1, <3>2 DEF Covers, Complete, Found
  <2>. QED
    BY <2>1 DEF IInv, Listed, Honest
<1>. QED
  BY <1>1, Inductive, PTL

\* The rules in use are those a restart would find (async_set_notification_policy,
\* async_reset_notification_policy), unless a save of them is under way, failed
\* or came from an older coordinator.
THEOREM RulesAreSaved == Spec => []PolicySaved
<1>1. IInv => PolicySaved
  BY DEF IInv, Saved, InCharge, Writing, PolicySaved
<1>. QED
  BY <1>1, Inductive, PTL

\* The rule editor shows what an event will do (_merge_registry_entry,
\* resolve_channels): an entry that is neither ambiguous nor dynamic has the
\* channels and the request of every call of its key, of however many calls in
\* however many files, and of the routes of a selected event.
THEOREM ShownIsWhatIsUsed == Spec => []ShownIsUsed
<1>1. IInv => ShownIsUsed
  <2>. SUFFICES ASSUME IInv, loaded, NEW i \in DOMAIN AllCalls(registry[gen])
                PROVE  LET R == registry[gen]
                           c == AllCalls(R)[i]
                           e == Entry(R, c.key)
                           p == policies[gen][c.key]
                       IN  \/ e.ambiguous \/ e.dynamic
                           \/ /\ Effective(p, e.default) = Effective(p, c.default)
                              /\ e.request = c.request
    BY DEF ShownIsUsed
  <2> DEFINE R == registry[gen]
             c == AllCalls(R)[i]
  <2>1. R \in Registries
    BY DEF IInv, Typed, SetUps
  <2>2. i \in 1..Len(AllCalls(R))
    BY <2>1, CallsAre
  <2>3. Claims(Entry(R, c.key), AllCalls(R), c.key, Len(AllCalls(R)))
    BY <2>1, EntryClaims
  <2>4. Entry(R, c.key).ambiguous \/ (Entry(R, c.key).default = c.default /\ Entry(R, c.key).request = c.request)
    BY <2>2, <2>3 DEF Claims
  <2>. QED
    BY <2>4
<1>. QED
  BY <1>1, Inductive, PTL
=============================================================================
