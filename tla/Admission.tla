----------------------------- MODULE Admission -----------------------------
(***************************************************************************)
(* Admission of notification requests, and what of it survives a restart:  *)
(* async_handle_service_notify, _async_routing_prechecks, _record_delivery *)
(* and the persistence of RuntimeState in custom_components/herald/        *)
(* coordinator.py.                                                         *)
(*                                                                         *)
(* A request passes two suspensions: it arrives, is checked in one stretch *)
(* of the event loop, and is handed to the queue when the queue's lock is  *)
(* free.  The checks read and change the coordinator's RuntimeState, of    *)
(* which a snapshot is saved through Home Assistant's Store; the queue is  *)
(* only in memory.                                                         *)
(*                                                                         *)
(* Each set-up of the config entry is a generation with a coordinator and  *)
(* a Store of its own.  Unloading does not stop handlers that are already  *)
(* suspended, so one of them may go on with a coordinator that has been    *)
(* replaced, and its save then overwrites the file of its successor.       *)
(***************************************************************************)
EXTENDS Integers, FiniteSets, Functions

CONSTANTS
    Requests,     \* calls of herald.notify, one each
    Fingerprint,  \* Fingerprint[r]: its _notification_fingerprint
    Flow,         \* Flow[r]: the flow it resolves to
    Forced,       \* Forced[r]: its force
    DedupWindow,  \* DedupWindow[r]: its suppress value, else the flow's
    Cooldown,     \* Cooldown[r]: its rule's override, else the flow's
    History,      \* History[r]: the delivery history that cooldown reads
    Stamps,       \* Stamps[r]: the histories its delivery is recorded in
    NotificationKeys, \* the histories of notifications; the others are of flows
    StampLimit,   \* how many of notifications are kept, 2048
    Snoozers,     \* the flows somebody snoozes, once each
    SnoozeTime,   \* length of a snooze
    Casts,        \* which requests and snoozes occur together
    MaxTime,      \* bound on the clock
    MaxGen        \* bound on the generations

Flows == {Flow[r] : r \in Requests}
Fingerprints == {Fingerprint[r] : r \in Requests}
Histories == {History[r] : r \in Requests} \cup UNION {Stamps[r] : r \in Requests}
Gens == 1..MaxGen

ASSUME SnoozersAssumption == Snoozers \subseteq Flows
ASSUME CastsAssumption == Casts \subseteq SUBSET (Requests \cup Snoozers)
ASSUME BoundsAssumption == MaxTime \in Nat /\ MaxGen \in Nat \ {0} /\ SnoozeTime \in Nat
ASSUME KeysAssumption ==
    /\ IsFiniteSet(NotificationKeys) /\ NotificationKeys \cap Flows = {}
    /\ StampLimit \in Nat \ {0}
ASSUME RequestsAssumption ==
    \A r \in Requests : Forced[r] \in BOOLEAN /\ DedupWindow[r] \in Nat /\ Cooldown[r] \in Nat

VARIABLES
    now,      \* the wall clock, dt_util.now()
    gen,      \* the current generation
    phase,    \* how far its unload has come
    mem,      \* mem[g]: RuntimeState of the coordinator of generation g
    toSave,   \* toSave[g]: the snapshot its Store has not written yet, if there is one
    disk,     \* the contents of the storage file
    status,   \* where each request is
    owner,    \* owner[r]: the generation that handles it
    checked,  \* checked[r]: when, and in which era, it was checked
    sent,     \* sent[r]: the same for its delivery
    snooze,   \* snooze[f]: the call that snoozes f: progress, generation, end
    crashes,  \* how often the process died
    late      \* how often a Store wrote for a replaced coordinator

stateVars == <<gen, phase, mem, toSave, disk>>
requestVars == <<status, owner, checked, sent>>
envVars == <<now, crashes, late>>
vars == <<stateVars, requestVars, snooze, envVars>>

NoEntries == [x \in {} |-> 0]
Empty == [dedup |-> NoEntries, last |-> NoEntries, snoozed |-> NoEntries]
Stamp == [at |-> now, era |-> <<crashes, late>>]

Init ==
    /\ now = 0
    /\ gen = 1
    /\ phase = "running"
    /\ mem = [g \in Gens |-> Empty]
    /\ toSave = [g \in Gens |-> {}]
    /\ disk = Empty
    /\ \E cast \in Casts :
        /\ status = [r \in Requests |-> IF r \in cast THEN "new" ELSE "absent"]
        /\ snooze = [f \in Snoozers |->
                        [call |-> IF f \in cast THEN "new" ELSE "absent", gen |-> 1, until |-> 0]]
    /\ owner = [r \in Requests |-> 1]
    /\ checked = [r \in Requests |-> [at |-> 0, era |-> <<0, 0>>]]
    /\ sent = [r \in Requests |-> [at |-> 0, era |-> <<0, 0>>]]
    /\ crashes = 0
    /\ late = 0

-----------------------------------------------------------------------------
(* RuntimeState and its Store.                                             *)

\* f with the value v at x.
With(f, x, v) == [y \in DOMAIN f \cup {x} |-> IF y = x THEN v ELSE f[y]]

\* The RuntimeState of generation g becomes m.
Update(g, m) == mem' = [mem EXCEPT ![g] = m]

\* _async_persist_and_publish of generation g, whose state is m by now: the
\* Store keeps only the latest snapshot for its next write.
Save(g, m) == toSave' = [toSave EXCEPT ![g] = {m}]

\* The Store writes its snapshot; the unload ends when its own is written.
WriteStore(g) ==
    /\ disk' \in toSave[g]
    /\ toSave' = [toSave EXCEPT ![g] = {}]
    /\ phase' = IF phase = "saving" /\ g = gen THEN "unloaded" ELSE phase
    /\ late' = IF g < gen THEN late + 1 ELSE late
    /\ UNCHANGED <<now, gen, mem, requestVars, snooze, crashes>>

-----------------------------------------------------------------------------
(* The checks.                                                             *)

\* is_flow_enabled drops a snooze that has expired.
Snoozed(m, f) == f \in DOMAIN m.snoozed /\ m.snoozed[f] > now

PruneSnooze(m, f) ==
    IF Snoozed(m, f) THEN m ELSE [m EXCEPT !.snoozed = Restrict(@, DOMAIN @ \ {f})]

\* _drop_for_cooldown.
InCooldown(m, r) == History[r] \in DOMAIN m.last /\ now - m.last[History[r]] < Cooldown[r]

\* _drop_for_dedup: the answer.
Duplicate(m, r) ==
    /\ Fingerprint[r] \in DOMAIN m.dedup
    /\ now - m.dedup[Fingerprint[r]].at < DedupWindow[r]

\* Mistaken variant: entries live for one tick, whatever their window.
PruneOld(dedup) == Restrict(dedup, {fp \in DOMAIN dedup : dedup[fp].at + 1 > now})

\* _prune_dedup_cache: an entry lives as long as the request that made it
\* asked for.
Prune(dedup) == Restrict(dedup, {fp \in DOMAIN dedup : dedup[fp].expires > now})

\* _drop_for_dedup: the reservation of a request that passes.
Remember(m, r) ==
    IF Forced[r] \/ DedupWindow[r] = 0 THEN m
    ELSE [m EXCEPT !.dedup = Prune(With(@, Fingerprint[r], [at |-> now, expires |-> now + DedupWindow[r]]))]

\* The order of _async_routing_prechecks.  A disabled or unmet rule stops every
\* request, the other checks only a request without force.  The rules, levels,
\* conditions and the global mute are state of other parts: ruleBlocks and
\* filtered stand for their answers.
Verdict(m, r, ruleBlocks, filtered) ==
    IF ruleBlocks THEN "dropped"
    ELSE IF Forced[r] THEN "reserved"
    ELSE IF filtered \/ Snoozed(m, Flow[r]) \/ InCooldown(m, r) THEN "dropped"
    ELSE IF Duplicate(m, r) THEN "duplicate"
    ELSE "reserved"

-----------------------------------------------------------------------------
(* Requests.                                                               *)

\* The services answer until the entry is unloaded, also when that failed.
Serving == phase # "unloaded"

\* The queue of generation g is shut down.
Closed(g) == g < gen \/ phase # "running"

\* The call begins and suspends in _async_refresh_runtime_sources.
Arrive(r) ==
    /\ Serving
    /\ status[r] = "new"
    /\ status' = [status EXCEPT ![r] = "checking"]
    /\ owner' = [owner EXCEPT ![r] = gen]
    /\ UNCHANGED <<stateVars, checked, sent, snooze, envVars>>

\* The prechecks, with the reservation or, for a dropped request, the save.
Precheck(r) ==
    LET g == owner[r]
        m == PruneSnooze(mem[g], Flow[r])
    IN  /\ status[r] = "checking"
        /\ \E ruleBlocks, filtered \in BOOLEAN :
             LET verdict == Verdict(m, r, ruleBlocks, filtered)
             IN  /\ status' = [status EXCEPT ![r] = verdict]
                 /\ IF verdict = "reserved"
                    THEN Update(g, Remember(m, r)) /\ UNCHANGED toSave
                    ELSE Update(g, m) /\ Save(g, m)
        /\ checked' = IF status'[r] = "dropped" THEN checked ELSE [checked EXCEPT ![r] = Stamp]
        /\ UNCHANGED <<gen, phase, disk, owner, sent, snooze, envVars>>

\* async_enqueue.  A closed queue raises, and then nothing is saved.
Enqueue(r) ==
    /\ status[r] = "reserved"
    /\ IF Closed(owner[r])
       THEN status' = [status EXCEPT ![r] = "rejected"] /\ UNCHANGED toSave
       ELSE status' = [status EXCEPT ![r] = "queued"] /\ Save(owner[r], mem[owner[r]])
    /\ UNCHANGED <<gen, phase, mem, disk, owner, checked, sent, snooze, envVars>>

\* Mistaken variant: the preview makes the reservation, as a request does.
PreviewReserves(r) ==
    /\ Serving
    /\ status[r] = "new"
    /\ Update(gen, Remember(mem[gen], r))
    /\ Save(gen, Remember(mem[gen], r))
    /\ UNCHANGED <<gen, phase, disk, requestVars, snooze, envVars>>

\* The route preview asks the same checks, reserves nothing, and is saved.
Preview(r) ==
    /\ Serving
    /\ status[r] = "new"
    /\ Save(gen, mem[gen])
    /\ UNCHANGED <<gen, phase, mem, disk, requestVars, snooze, envVars>>

Lesser(a, b) == IF a < b THEN a ELSE b

\* The stamps of a delivery that is recorded in the histories S.
Stamped(last, S) == [h \in DOMAIN last \cup S |-> IF h \in S THEN now ELSE last[h]]

\* Which of the histories in keys are kept: the StampLimit newest ones, those
\* stamped now, S, before others of the same tick.
Newest(last, keys, S) ==
    {K \in SUBSET keys :
        /\ Cardinality(K) = Lesser(StampLimit, Cardinality(keys))
        /\ \A k \in K, h \in keys \ K : last[h] <= last[k]
        /\ S \cap keys \subseteq K \/ K \subseteq S}

\* Mistaken variants: the stamps are the end of the cooldown; and the limit is
\* for the histories of flows, too.
RecordDeliveryEnd(m, r, delivered) ==
    IF delivered
    THEN {[m EXCEPT !.last =
            [h \in DOMAIN @ \cup Stamps[r] |-> IF h \in Stamps[r] THEN now + Cooldown[r] ELSE @[h]]]}
    ELSE {m}
RecordDeliveryCutsAll(m, r, delivered) ==
    LET last == Stamped(m.last, Stamps[r])
    IN  IF delivered
        THEN {[m EXCEPT !.last = Restrict(last, K)] : K \in Newest(last, DOMAIN last, Stamps[r])}
        ELSE {m}

\* A delivery is recorded: its histories are stamped when a channel sent it, and
\* then those of the notifications that were delivered longest ago are dropped.
RecordDelivery(m, r, delivered) ==
    LET last == Stamped(m.last, Stamps[r])
        keys == DOMAIN last \cap NotificationKeys
    IN  IF delivered
        THEN {[m EXCEPT !.last = Restrict(last, (DOMAIN last \ keys) \cup K)] :
                K \in Newest(last, keys, Stamps[r])}
        ELSE {m}

Deliver(r) ==
    LET g == owner[r]
    IN  /\ status[r] = "queued"
        /\ \E delivered \in BOOLEAN : \E m \in RecordDelivery(mem[g], r, delivered) :
             /\ Update(g, m)
             /\ Save(g, m)
             /\ status' = [status EXCEPT ![r] = IF delivered THEN "sent" ELSE "unsent"]
        /\ sent' = IF status'[r] = "sent" THEN [sent EXCEPT ![r] = Stamp] ELSE sent
        /\ UNCHANGED <<gen, phase, disk, owner, checked, snooze, envVars>>

\* A delivery raises in the last flush; the closed queue will not retry it.
Strand(r) ==
    /\ phase = "draining"
    /\ status[r] = "queued"
    /\ status' = [status EXCEPT ![r] = "stranded"]
    /\ UNCHANGED <<stateVars, owner, checked, sent, snooze, envVars>>

-----------------------------------------------------------------------------
(* async_snooze_flow: the snooze, its save (at once, or after feedback to   *)
(* the notification's channel), and its return when the save is on disk.   *)

Snooze(f) ==
    /\ Serving
    /\ snooze[f].call = "new"
    /\ snooze' = [snooze EXCEPT ![f] = [call |-> "set", gen |-> gen, until |-> now + SnoozeTime]]
    /\ Update(gen, [mem[gen] EXCEPT !.snoozed = With(@, f, now + SnoozeTime)])
    /\ UNCHANGED <<gen, phase, toSave, disk, requestVars, envVars>>

\* Mistaken variant: the call returns without a save.
SnoozeSaveNot(f) ==
    /\ snooze[f].call = "set"
    /\ snooze' = [snooze EXCEPT ![f].call = "saving"]
    /\ UNCHANGED <<stateVars, requestVars, envVars>>

SnoozeSave(f) ==
    /\ snooze[f].call = "set"
    /\ snooze' = [snooze EXCEPT ![f].call = "saving"]
    /\ Save(snooze[f].gen, mem[snooze[f].gen])
    /\ UNCHANGED <<gen, phase, mem, disk, requestVars, envVars>>

SnoozeReturn(f) ==
    /\ snooze[f].call = "saving"
    /\ toSave[snooze[f].gen] = {}
    /\ snooze' = [snooze EXCEPT ![f].call = "returned"]
    /\ UNCHANGED <<stateVars, requestVars, envVars>>

-----------------------------------------------------------------------------
(* Unload, reload and crash.                                               *)

\* async_shutdown closes the queue and flushes it ...
Close ==
    /\ phase = "running"
    /\ phase' = "draining"
    /\ UNCHANGED <<gen, mem, toSave, disk, requestVars, snooze, envVars>>

\* Mistaken variant: the final save does not wait for the flush.
FinalSaveEarly ==
    /\ phase = "draining"
    /\ phase' = "saving"
    /\ Save(gen, mem[gen])
    /\ UNCHANGED <<gen, mem, disk, requestVars, snooze, envVars>>

\* ... and saves, whether or not the flush raised; when it did, the unload
\* fails and the coordinator stays with its closed queue.
FinalSave ==
    /\ phase = "draining"
    /\ \A r \in Requests : status[r] # "queued"
    /\ phase' = IF \E r \in Requests : status[r] = "stranded" /\ owner[r] = gen THEN "failed" ELSE "saving"
    /\ Save(gen, mem[gen])
    /\ UNCHANGED <<gen, mem, disk, requestVars, snooze, envVars>>

\* The next generation begins.
Setup ==
    /\ gen < MaxGen
    /\ gen' = gen + 1
    /\ phase' = "running"
    /\ UNCHANGED disk

\* The reload: _async_setup loads the file, and saves at once when it changed
\* what it loaded.
Reload ==
    /\ phase = "unloaded"
    /\ Setup
    /\ Update(gen + 1, disk)
    /\ \E resave \in BOOLEAN : IF resave THEN Save(gen + 1, disk) ELSE UNCHANGED toSave
    /\ UNCHANGED <<requestVars, snooze, envVars>>

\* The process dies with everything in memory and starts again.
Crash ==
    /\ Setup
    /\ mem' = [g \in Gens |-> IF g = gen + 1 THEN disk ELSE Empty]
    /\ toSave' = [g \in Gens |-> {}]
    /\ status' = [r \in Requests |->
                    IF status[r] \in {"checking", "reserved", "queued"} THEN "lost" ELSE status[r]]
    /\ snooze' = [f \in Snoozers |->
                    IF snooze[f].call \in {"set", "saving"} THEN [snooze[f] EXCEPT !.call = "lost"] ELSE snooze[f]]
    /\ crashes' = crashes + 1
    /\ UNCHANGED <<owner, checked, sent, now, late>>

Tick ==
    /\ now < MaxTime
    /\ now' = now + 1
    /\ UNCHANGED <<stateVars, requestVars, snooze, crashes, late>>

-----------------------------------------------------------------------------
Request(r) ==
    \/ Arrive(r)
    \/ Precheck(r)
    \/ Enqueue(r)
    \/ Preview(r)
    \/ Deliver(r)
    \/ Strand(r)

Next ==
    \/ \E r \in Requests : Request(r)
    \/ \E f \in Snoozers : Snooze(f) \/ SnoozeSave(f) \/ SnoozeReturn(f)
    \/ \E g \in Gens : WriteStore(g)
    \/ Close
    \/ FinalSave
    \/ Reload
    \/ Crash
    \/ Tick

Spec == Init /\ [][Next]_vars

-----------------------------------------------------------------------------
(* Properties.                                                             *)

IsRuntimeState(m) ==
    /\ m = [dedup |-> m.dedup, last |-> m.last, snoozed |-> m.snoozed]
    /\ DOMAIN m.dedup \subseteq Fingerprints
    /\ DOMAIN m.last \subseteq Histories
    /\ DOMAIN m.snoozed \subseteq Flows
    /\ \A x \in DOMAIN m.dedup :
        m.dedup[x].at \in 0..now /\ m.dedup[x].expires \in Nat /\ m.dedup[x].at < m.dedup[x].expires
    /\ \A x \in DOMAIN m.last : m.last[x] \in 0..now
    /\ \A x \in DOMAIN m.snoozed : m.snoozed[x] \in Nat

Statuses == {"absent", "new", "checking", "dropped", "duplicate", "reserved", "queued",
             "rejected", "sent", "unsent", "stranded", "lost"}
Calls == {"absent", "new", "set", "saving", "returned", "lost"}
StampType == [at : 0..now, era : (0..crashes) \X (0..late)]

\* Every RuntimeState there is: in memory, waiting for its Store, in the file.
Copies == {mem[g] : g \in Gens} \cup {disk} \cup UNION {toSave[g] : g \in Gens}

\* Types; no stamp lies in the future, and no dedup entry was made with an
\* empty window.
TypeOK ==
    /\ now \in 0..MaxTime /\ gen \in Gens /\ crashes \in Nat /\ late \in Nat
    /\ phase \in {"running", "draining", "saving", "unloaded", "failed"}
    /\ DOMAIN mem = Gens /\ DOMAIN toSave = Gens
    /\ \A m \in Copies : IsRuntimeState(m)
    /\ status \in [Requests -> Statuses]
    /\ owner \in [Requests -> 1..gen]
    /\ checked \in [Requests -> StampType] /\ sent \in [Requests -> StampType]
    /\ snooze \in [Snoozers -> [call : Calls, gen : 1..gen, until : Nat]]

Accepted(r) == status[r] \in {"queued", "sent", "unsent", "stranded"}

\* A request that was let through, whatever became of it.
Passed(r) == status[r] \in {"reserved", "queued", "rejected", "sent", "unsent", "stranded", "lost"}

\* Two requests that a limit of their fingerprint should keep apart.
Equal(r, s) ==
    /\ r # s /\ Accepted(r) /\ Accepted(s) /\ ~Forced[r] /\ ~Forced[s]
    /\ Fingerprint[r] = Fingerprint[s]
    /\ checked[r].era = checked[s].era

\* Duplicate suppression across unload and reload.  Two equal requests without
\* force that the queue both accepted are at least the shorter of their two
\* windows apart, unless a crash or a late write of a replaced coordinator came
\* between them, or an equal request with a still shorter window, which takes the
\* place of the earlier one and may be forgotten when that window is over.  And a
\* request is only called a duplicate of an equal one that was let through without
\* force at most a window ago, whatever came between: a preview, a forced or a
\* dropped request never suppresses anything.
DuplicatesApart ==
    /\ \A r, s \in Requests : Equal(r, s) /\ checked[s].at <= checked[r].at =>
        \/ checked[r].at - checked[s].at >= Lesser(DedupWindow[r], DedupWindow[s])
        \/ \E q \in Requests :
            /\ Passed(q) /\ ~Forced[q] /\ Fingerprint[q] = Fingerprint[s]
            /\ DedupWindow[q] \in 1..(Lesser(DedupWindow[r], DedupWindow[s]) - 1)
            /\ checked[q].at \in checked[s].at..(checked[r].at - DedupWindow[q])
    /\ \A r \in Requests : status[r] = "duplicate" =>
        \E s \in Requests \ {r} :
            /\ Passed(s) /\ ~Forced[s]
            /\ Fingerprint[s] = Fingerprint[r]
            /\ checked[s].at \in (checked[r].at - DedupWindow[r] + 1)..checked[r].at

\* "Skip matching repeated events within this window", whatever came between.
RepeatsApart ==
    \A r, s \in Requests : Equal(r, s) /\ checked[s].at <= checked[r].at =>
        checked[r].at - checked[s].at >= Lesser(DedupWindow[r], DedupWindow[s])

\* The notifications delivered within a period.
DeliveredKeys(period) ==
    {k \in NotificationKeys : \E q \in Requests :
        status[q] = "sent" /\ k \in Stamps[q] /\ sent[q].at \in period}

\* Cooldown across unload and reload: a request without force is let through
\* only when every earlier delivery in its history is a cooldown away, also
\* the deliveries made while the entry was unloading; but the history of a
\* notification is lost when since then as many others as are kept have been
\* delivered.
CooldownHeld ==
    \A r, s \in Requests :
        /\ Accepted(r) /\ ~Forced[r]
        /\ status[s] = "sent" /\ History[r] \in Stamps[s]
        /\ sent[s].era = checked[r].era
        /\ sent[s].at < checked[r].at
        => \/ checked[r].at - sent[s].at >= Cooldown[r]
           \/ /\ History[r] \in NotificationKeys
              /\ Cardinality(DeliveredKeys(sent[s].at..checked[r].at) \ {History[r]}) >= StampLimit

\* A snooze whose call has returned survives reloads and crashes, unless a
\* replaced coordinator wrote the file.
SnoozeKept ==
    \A f \in Snoozers :
        snooze[f].call = "returned" /\ snooze[f].until > now /\ late = 0 /\ phase # "unloaded"
        => Snoozed(mem[gen], f) /\ mem[gen].snoozed[f] = snooze[f].until

\* The stamp t of history h is in last, or a later one; or h is the history of a
\* notification, and as many of them are there as are kept, all as late as t.
HasStamp(last, h, t) ==
    \/ h \in DOMAIN last /\ t <= last[h]
    \/ /\ h \in NotificationKeys
       /\ Cardinality({k \in NotificationKeys \cap DOMAIN last : t <= last[k]}) >= StampLimit

\* As long as no handler has outlived its coordinator and written for it, the
\* file never takes a delivery stamp back, whatever reloads, crashes and the
\* snapshots of all the calls that save: that of a flow is only ever replaced by
\* a later one, and that of a notification only ever gives way to StampLimit
\* others that are as late.
FileAdvances ==
    [][late' = 0 => \A h \in DOMAIN disk.last : HasStamp(disk'.last, h, disk.last[h])]_vars
=============================================================================
