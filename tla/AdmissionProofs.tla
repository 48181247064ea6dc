-------------------------- MODULE AdmissionProofs --------------------------
(***************************************************************************)
(* What Admission promises about duplicates, cooldowns and snoozes, for    *)
(* any requests, windows, histories and number of reloads and crashes.     *)
(*                                                                         *)
(* The promises are about requests; what keeps them is what the copies of  *)
(* the RuntimeState remember of them: the memory of the coordinator in     *)
(* charge always, the snapshot and the file when the next generation is    *)
(* going to read them.  The era of a request says whether a crash or a     *)
(* late write has come between.                                            *)
(***************************************************************************)
EXTENDS Admission, FiniteSetTheorems, TLAPS

Era == <<crashes, late>>

\* A request whose limits bind those that the coordinator in charge checks now.
Live(r) == Accepted(r) \/ (status[r] = "reserved" /\ owner[r] = gen)

\* Request q made the dedup entry e of fingerprint fp.
Granted(q, fp, e) ==
    /\ Passed(q) /\ ~Forced[q] /\ Fingerprint[q] = fp
    /\ DedupWindow[q] > 0 /\ checked[q].at = e.at /\ e.expires = e.at + DedupWindow[q]

HonestEntries(m) == \A fp \in DOMAIN m.dedup : \E q \in Requests : Granted(q, fp, m.dedup[fp])

\* Every stamp is that of a delivery.
Recorded ==
    \A m \in Copies : \A h \in DOMAIN m.last :
        \E q \in Requests : status[q] = "sent" /\ h \in Stamps[q] /\ sent[q].at = m.last[h]

HonestDuplicate(r) ==
    \E s \in Requests \ {r} :
        /\ Passed(s) /\ ~Forced[s]
        /\ Fingerprint[s] = Fingerprint[r]
        /\ checked[s].at \in (checked[r].at - DedupWindow[r] + 1)..checked[r].at

Honest ==
    /\ \A m \in Copies : HonestEntries(m)
    /\ \A r \in Requests : status[r] = "duplicate" => HonestDuplicate(r)

\* The state m holds the reservation of s or a later one, unless the later one
\* has run out.
Reserves(m, s) ==
    \/ Fingerprint[s] \in DOMAIN m.dedup /\ checked[s].at <= m.dedup[Fingerprint[s]].at
    \/ \E q \in Requests :
        /\ Passed(q) /\ ~Forced[q] /\ Fingerprint[q] = Fingerprint[s] /\ DedupWindow[q] > 0
        /\ checked[s].at <= checked[q].at /\ checked[q].at + DedupWindow[q] <= now

KnowsCheck(m, s) == ~Forced[s] /\ DedupWindow[s] > 0 /\ checked[s].era = Era => Reserves(m, s)

\* The state m holds the stamps of the delivery of s or later ones, or others
\* have taken their place.
KnowsDelivery(m, s) ==
    status[s] = "sent" /\ sent[s].era = Era =>
        \A h \in Stamps[s] : HasStamp(m.last, h, sent[s].at)

Remembers(m) == \A s \in Requests : (Accepted(s) => KnowsCheck(m, s)) /\ KnowsDelivery(m, s)

\* The coordinator in charge remembers, ...
InMemory == \A s \in Requests : (Live(s) => KnowsCheck(mem[gen], s)) /\ KnowsDelivery(mem[gen], s)

\* ... and when it is being unloaded, so does what the next one will load.
OnTheWay ==
    /\ phase \in {"saving", "unloaded"} => \A m \in toSave[gen] : Remembers(m)
    /\ phase = "unloaded" => Remembers(disk)

Remembered == InMemory /\ OnTheWay

\* A notification is only in the queue of the coordinator in charge, which is
\* empty when the last save is made; the future has saved nothing.
Queues ==
    /\ \A r \in Requests : status[r] = "queued" => owner[r] = gen /\ phase \in {"running", "draining"}
    /\ \A g \in Gens : g > gen => toSave[g] = {}

\* The two promises, also for what is reserved and not yet enqueued.
KeptApart(r, s) ==
    \/ checked[r].at - checked[s].at >= Lesser(DedupWindow[r], DedupWindow[s])
    \/ \E q \in Requests :
        /\ Passed(q) /\ ~Forced[q] /\ Fingerprint[q] = Fingerprint[s]
        /\ DedupWindow[q] \in 1..(Lesser(DedupWindow[r], DedupWindow[s]) - 1)
        /\ checked[q].at \in checked[s].at..(checked[r].at - DedupWindow[q])

Apart ==
    \A r, s \in Requests :
        /\ r # s /\ Live(r) /\ Live(s) /\ ~Forced[r] /\ ~Forced[s]
        /\ Fingerprint[r] = Fingerprint[s]
        /\ checked[r].era = checked[s].era
        /\ checked[s].at <= checked[r].at
        => KeptApart(r, s)

HeldApart(r, s) ==
    \/ checked[r].at - sent[s].at >= Cooldown[r]
    \/ /\ History[r] \in NotificationKeys
       /\ Cardinality(DeliveredKeys(sent[s].at..checked[r].at) \ {History[r]}) >= StampLimit

Held ==
    \A r, s \in Requests :
        /\ Live(r) /\ ~Forced[r]
        /\ status[s] = "sent" /\ History[r] \in Stamps[s]
        /\ sent[s].era = checked[r].era
        /\ sent[s].at < checked[r].at
        => HeldApart(r, s)

\* A snooze is in memory from the start, from its save on in what is written
\* next or else everywhere, and everywhere when its call has returned.
Has(m, f) == f \in DOMAIN m.snoozed /\ m.snoozed[f] = snooze[f].until

Everywhere(f) == Has(disk, f) /\ Has(mem[gen], f) /\ \A m \in toSave[gen] : Has(m, f)

Snoozing(f) ==
    /\ snooze[f].call \in {"set", "saving"} => Has(mem[snooze[f].gen], f)
    /\ snooze[f].call = "saving" =>
        \/ toSave[snooze[f].gen] # {} /\ \A m \in toSave[snooze[f].gen] : Has(m, f)
        \/ Everywhere(f)
    /\ snooze[f].call = "returned" => Everywhere(f)

Snoozes == late = 0 => \A f \in Snoozers : snooze[f].until > now => Snoozing(f)

\* The file is behind the snapshot, and the snapshot behind the memory.
Behind(a, b) == \A h \in DOMAIN a.last : HasStamp(b.last, h, a.last[h])

Advancing ==
    late = 0 =>
        /\ Behind(disk, mem[gen])
        /\ \A m \in toSave[gen] : Behind(disk, m) /\ Behind(m, mem[gen])

IInv == TypeOK /\ Honest /\ Recorded /\ Remembered /\ Queues /\ Apart /\ Held /\ Snoozes /\ Advancing

-----------------------------------------------------------------------------
(* What the operators on a RuntimeState do.                                *)

LEMMA FlowsAre == \A r \in Requests :
    /\ Flow[r] \in Flows /\ Fingerprint[r] \in Fingerprints
    /\ History[r] \in Histories /\ Stamps[r] \subseteq Histories
  BY DEF Flows, Fingerprints, Histories

LEMMA EmptyIs == IsRuntimeState(Empty) /\ HonestEntries(Empty)
  BY DEF IsRuntimeState, HonestEntries, Empty, NoEntries

\* A type does not end with time.
LEMMA StaysTyped ==
    ASSUME NEW m, IsRuntimeState(m), now \in Nat, now' \in Nat, now <= now'
    PROVE  IsRuntimeState(m)'
  BY DEF IsRuntimeState

LEMMA PruneSnoozeIs ==
    ASSUME NEW m, IsRuntimeState(m), NEW f, NEW p, p = PruneSnooze(m, f)
    PROVE  /\ IsRuntimeState(p)
           /\ p.dedup = m.dedup /\ p.last = m.last
           /\ \A x \in DOMAIN m.snoozed : m.snoozed[x] > now =>
                x \in DOMAIN p.snoozed /\ p.snoozed[x] = m.snoozed[x]
<1>1. CASE Snoozed(m, f)
  BY <1>1 DEF PruneSnooze
<1>2. CASE ~Snoozed(m, f)
  <2>1. p = [m EXCEPT !.snoozed = [x \in DOMAIN m.snoozed \ {f} |-> m.snoozed[x]]]
    BY <1>2 DEF PruneSnooze, Restrict
  <2>2. p = [dedup |-> m.dedup, last |-> m.last, snoozed |-> [x \in DOMAIN m.snoozed \ {f} |-> m.snoozed[x]]]
    BY <2>1 DEF IsRuntimeState
  <2>. QED
    BY <1>2, <2>2 DEF IsRuntimeState, Snoozed
<1>. QED
  BY <1>1, <1>2

\* The entry that request r makes now.
NewEntry(r) == [at |-> now, expires |-> now + DedupWindow[r]]

LEMMA RememberIs ==
    ASSUME NEW m, IsRuntimeState(m), now \in Nat, NEW r \in Requests, NEW p, p = Remember(m, r)
    PROVE  /\ IsRuntimeState(p)
           /\ p.last = m.last /\ p.snoozed = m.snoozed
           /\ Forced[r] \/ DedupWindow[r] = 0 => p = m
           /\ ~Forced[r] /\ DedupWindow[r] > 0 =>
                /\ Fingerprint[r] \in DOMAIN p.dedup /\ p.dedup[Fingerprint[r]] = NewEntry(r)
                /\ \A x \in DOMAIN p.dedup : x # Fingerprint[r] => x \in DOMAIN m.dedup /\ p.dedup[x] = m.dedup[x]
                /\ \A x \in DOMAIN m.dedup : x # Fingerprint[r] /\ m.dedup[x].expires > now => x \in DOMAIN p.dedup
<1>1. CASE Forced[r] \/ DedupWindow[r] = 0
  BY <1>1 DEF Remember
<1>2. CASE ~Forced[r] /\ DedupWindow[r] # 0
  <2> DEFINE fp == Fingerprint[r]
             w == [y \in DOMAIN m.dedup \cup {fp} |-> IF y = fp THEN NewEntry(r) ELSE m.dedup[y]]
             D == {y \in DOMAIN w : w[y].expires > now}
  <2>1. p = [m EXCEPT !.dedup = [y \in D |-> w[y]]]
    BY <1>2 DEF Remember, Prune, With, Restrict, NewEntry
  <2>2. p = [dedup |-> [y \in D |-> w[y]], last |-> m.last, snoozed |-> m.snoozed]
    BY <2>1 DEF IsRuntimeState
  <2>3. DedupWindow[r] \in Nat /\ DedupWindow[r] > 0 /\ fp \in Fingerprints
    BY <1>2, RequestsAssumption, FlowsAre
  <2>4. fp \in D /\ w[fp] = NewEntry(r)
    BY <2>3 DEF NewEntry
  <2>5. \A x \in D : x # fp => x \in DOMAIN m.dedup /\ w[x] = m.dedup[x]
    OBVIOUS
  <2>6. \A x \in DOMAIN m.dedup : x # fp /\ m.dedup[x].expires > now => x \in D
    OBVIOUS
  <2>7. NewEntry(r).at = now /\ NewEntry(r).expires = now + DedupWindow[r]
    BY DEF NewEntry
  <2>8. DOMAIN p.dedup = D /\ (\A x \in D : p.dedup[x] = w[x]) /\ p.last = m.last /\ p.snoozed = m.snoozed
    BY <2>2
  <2> HIDE DEF w, D
  <2>9. \A x \in D : x \in Fingerprints /\ w[x].at \in 0..now /\ w[x].expires \in Nat /\ w[x].at < w[x].expires
    BY <2>3, <2>4, <2>5, <2>7 DEF IsRuntimeState
  <2>10. IsRuntimeState(p)
    BY <2>2, <2>8, <2>9 DEF IsRuntimeState
  <2>. QED
    BY <1>2, <2>4, <2>5, <2>6, <2>8, <2>10
<1>. QED
  BY <1>1, <1>2, RequestsAssumption

\* Fewer are not more.
LEMMA AtLeast ==
    ASSUME NEW S, IsFiniteSet(S), NEW T \in SUBSET S, Cardinality(T) >= StampLimit
    PROVE  Cardinality(S) >= StampLimit
<1>1. IsFiniteSet(T) /\ Cardinality(T) <= Cardinality(S)
  BY FS_Subset
<1>2. Cardinality(S) \in Nat /\ Cardinality(T) \in Nat /\ StampLimit \in Nat
  BY <1>1, FS_CardinalityType, KeysAssumption
<1>. QED
  BY <1>1, <1>2

LEMMA KeysFinite == ASSUME NEW S, S \subseteq NotificationKeys PROVE IsFiniteSet(S)
  BY FS_Subset, KeysAssumption

\* The stamps of notifications that are as late as u.
Late(l, u) == {k \in NotificationKeys \cap DOMAIN l : u <= l[k]}

LEMMA LateFinite == ASSUME NEW l, NEW u PROVE IsFiniteSet(Late(l, u))
  BY KeysFinite DEF Late

LEMMA HasStampIs ==
    ASSUME NEW l, NEW h, NEW u
    PROVE  HasStamp(l, h, u) <=>
             \/ h \in DOMAIN l /\ u <= l[h]
             \/ h \in NotificationKeys /\ Cardinality(Late(l, u)) >= StampLimit
  BY DEF HasStamp, Late

\* A stamp of what is in last stays one when it is replaced by later ones, and
\* others take the place of it or of those.
LEMMA StampStays ==
    ASSUME NEW a, NEW b, \A h \in DOMAIN a : a[h] \in Nat /\ HasStamp(b, h, a[h]),
           \A h \in DOMAIN b : b[h] \in Nat,
           NEW h, NEW t \in Nat, HasStamp(a, h, t)
    PROVE  HasStamp(b, h, t)
<1>1. ASSUME NEW k \in DOMAIN a, t <= a[k], ~(k \in DOMAIN b /\ t <= b[k])
      PROVE  k \in NotificationKeys /\ Cardinality(Late(b, t)) >= StampLimit
  <2>1. a[k] \in Nat /\ HasStamp(b, k, a[k])
    BY <1>1
  <2>2. ~(k \in DOMAIN b /\ a[k] <= b[k])
    BY <1>1, <2>1
  <2>3. k \in NotificationKeys /\ Cardinality(Late(b, a[k])) >= StampLimit
    BY <2>1, <2>2, HasStampIs
  <2>4. Late(b, a[k]) \in SUBSET Late(b, t)
    BY <1>1, <2>1 DEF Late
  <2>. QED
    BY <2>3, <2>4, AtLeast, LateFinite
<1>2. CASE h \in DOMAIN a /\ t <= a[h]
  <2>1. CASE h \in DOMAIN b /\ t <= b[h]
    BY <2>1, HasStampIs
  <2>2. CASE ~(h \in DOMAIN b /\ t <= b[h])
    BY <1>1, <1>2, <2>2, HasStampIs
  <2>. QED
    BY <2>1, <2>2
<1>3. CASE h \in NotificationKeys /\ Cardinality(Late(a, t)) >= StampLimit
  <2>1. CASE \A k \in Late(a, t) : k \in DOMAIN b /\ t <= b[k]
    <3>1. Late(a, t) \in SUBSET Late(b, t)
      BY <2>1 DEF Late
    <3>2. Cardinality(Late(b, t)) >= StampLimit
      BY <1>3, <3>1, AtLeast, LateFinite
    <3>. QED
      BY <1>3, <3>2, HasStampIs
  <2>2. CASE \E k \in Late(a, t) : ~(k \in DOMAIN b /\ t <= b[k])
    <3>1. PICK k \in DOMAIN a : t <= a[k] /\ ~(k \in DOMAIN b /\ t <= b[k])
      BY <2>2 DEF Late
    <3>2. Cardinality(Late(b, t)) >= StampLimit
      BY <1>1, <3>1
    <3>. QED
      BY <1>3, <3>2, HasStampIs
  <2>. QED
    BY <2>1, <2>2
<1>. QED
  BY <1>2, <1>3, HasStampIs

\* What is dropped has given way to StampLimit others.
LEMMA NewestIs ==
    ASSUME NEW last, NEW keys, keys \subseteq NotificationKeys, keys \subseteq DOMAIN last, NEW S,
           NEW K \in Newest(last, keys, S), \A h \in DOMAIN last : last[h] \in Nat,
           NEW p, p = Restrict(last, (DOMAIN last \ keys) \cup K)
    PROVE  /\ \A h \in DOMAIN p : h \in DOMAIN last /\ p[h] = last[h]
           /\ \A h \in DOMAIN last : HasStamp(p, h, last[h])
<1>1. /\ K \in SUBSET keys /\ Cardinality(K) = Lesser(StampLimit, Cardinality(keys))
      /\ \A k \in K, h \in keys \ K : last[h] <= last[k]
  BY DEF Newest
<1>2. DOMAIN p = (DOMAIN last \ keys) \cup K /\ \A h \in DOMAIN p : h \in DOMAIN last /\ p[h] = last[h]
  BY <1>1 DEF Restrict
<1>3. ASSUME NEW h \in DOMAIN p PROVE HasStamp(p, h, last[h])
  BY <1>2, <1>3, HasStampIs
<1>4. ASSUME NEW h \in keys \ K PROVE HasStamp(p, h, last[h])
  <2>1. IsFiniteSet(keys) /\ Cardinality(K) # Cardinality(keys)
    BY <1>1, <1>4, FS_Subset, KeysFinite
  <2>2. Cardinality(K) = StampLimit /\ StampLimit \in Nat
    BY <1>1, <2>1, KeysAssumption DEF Lesser
  <2>3. K \in SUBSET Late(p, last[h])
    BY <1>1, <1>2, <1>4 DEF Late
  <2>4. Cardinality(Late(p, last[h])) >= StampLimit
    BY <2>2, <2>3, AtLeast, LateFinite
  <2>. QED
    BY <1>4, <2>4, HasStampIs
<1>. QED
  BY <1>2, <1>3, <1>4

LEMMA RecordDeliveryIs ==
    ASSUME NEW m, IsRuntimeState(m), now \in Nat, NEW r \in Requests, NEW d \in BOOLEAN,
           NEW p \in RecordDelivery(m, r, d)
    PROVE  /\ IsRuntimeState(p)
           /\ p.dedup = m.dedup /\ p.snoozed = m.snoozed
           /\ Behind(m, p)
           /\ d => \A h \in Stamps[r] : HasStamp(p.last, h, now)
           /\ \A h \in DOMAIN p.last :
                \/ h \in DOMAIN m.last /\ p.last[h] = m.last[h]
                \/ d /\ h \in Stamps[r] /\ p.last[h] = now
<1>1. CASE ~d
  <2>1. p = m
    BY <1>1 DEF RecordDelivery
  <2>2. \A h \in DOMAIN m.last : m.last[h] \in Nat
    BY DEF IsRuntimeState
  <2>. QED
    BY <1>1, <2>1, <2>2, HasStampIs DEF Behind
<1>2. CASE d
  <2> DEFINE l == Stamped(m.last, Stamps[r])
             keys == DOMAIN l \cap NotificationKeys
  <2>1. \E K \in Newest(l, keys, Stamps[r]) : p = [m EXCEPT !.last = Restrict(l, (DOMAIN l \ keys) \cup K)]
    BY <1>2 DEF RecordDelivery
  <2>2. PICK K \in Newest(l, keys, Stamps[r]) : p = [m EXCEPT !.last = Restrict(l, (DOMAIN l \ keys) \cup K)]
    BY <2>1
  <2> DEFINE n == Restrict(l, (DOMAIN l \ keys) \cup K)
  <2>3. p = [dedup |-> m.dedup, last |-> n, snoozed |-> m.snoozed]
    BY <2>2 DEF IsRuntimeState
  <2>4. Stamps[r] \subseteq Histories
    BY FlowsAre
  <2>5. \A h \in DOMAIN m.last : m.last[h] \in 0..now
    BY DEF IsRuntimeState
  <2>6. p.dedup = m.dedup /\ p.last = n /\ p.snoozed = m.snoozed
    BY <2>3
  <2>7. DOMAIN l = DOMAIN m.last \cup Stamps[r] /\ \A h \in DOMAIN l : l[h] = IF h \in Stamps[r] THEN now ELSE m.last[h]
    BY DEF Stamped
  <2> HIDE DEF l
  <2>8. DOMAIN l \subseteq Histories /\ \A h \in DOMAIN l : l[h] \in 0..now
    BY <2>4, <2>5, <2>7 DEF IsRuntimeState
  <2>9. keys \subseteq NotificationKeys /\ keys \subseteq DOMAIN l /\ \A h \in DOMAIN l : l[h] \in Nat
    BY <2>8
  <2> HIDE DEF keys
  <2>10. /\ \A h \in DOMAIN n : h \in DOMAIN l /\ n[h] = l[h]
        /\ \A h \in DOMAIN l : HasStamp(n, h, l[h])
    BY <2>9, NewestIs
  <2> HIDE DEF n
  <2>11. \A h \in Stamps[r] : HasStamp(n, h, now)
    BY <2>7, <2>10
  <2>12. DOMAIN n \subseteq Histories /\ \A h \in DOMAIN n : n[h] \in 0..now
    BY <2>8, <2>10
  <2>13. IsRuntimeState(p)
    BY <2>3, <2>6, <2>12 DEF IsRuntimeState
  <2>14. ASSUME NEW h \in DOMAIN m.last PROVE HasStamp(n, h, m.last[h])
    <3>1. HasStamp(l, h, m.last[h]) /\ m.last[h] \in Nat
      BY <2>5, <2>7, <2>14, HasStampIs
    <3>2. \A k \in DOMAIN n : n[k] \in Nat
      BY <2>12
    <3>. QED
      BY <2>9, <2>10, <3>1, <3>2, StampStays
  <2>15. \A h \in DOMAIN n : (h \in DOMAIN m.last /\ n[h] = m.last[h]) \/ (h \in Stamps[r] /\ n[h] = now)
    BY <2>7, <2>10
  <2>. QED
    BY <1>2, <2>6, <2>11, <2>13, <2>14, <2>15 DEF Behind
<1>. QED
  BY <1>1, <1>2

\* The state that Snooze gives.
WithSnooze(m, f) == [m EXCEPT !.snoozed = With(@, f, now + SnoozeTime)]

LEMMA WithSnoozeIs ==
    ASSUME NEW m, IsRuntimeState(m), now \in Nat, NEW f \in Snoozers, NEW p, p = WithSnooze(m, f)
    PROVE  /\ IsRuntimeState(p)
           /\ p.dedup = m.dedup /\ p.last = m.last
           /\ f \in DOMAIN p.snoozed /\ p.snoozed[f] = now + SnoozeTime
           /\ \A x \in DOMAIN m.snoozed : x # f => x \in DOMAIN p.snoozed /\ p.snoozed[x] = m.snoozed[x]
<1>1. p = [dedup |-> m.dedup, last |-> m.last,
           snoozed |-> [y \in DOMAIN m.snoozed \cup {f} |-> IF y = f THEN now + SnoozeTime ELSE m.snoozed[y]]]
  BY DEF WithSnooze, With, IsRuntimeState
<1>2. f \in Flows /\ SnoozeTime \in Nat
  BY SnoozersAssumption, BoundsAssumption
<1>. QED
  BY <1>1, <1>2 DEF IsRuntimeState

-----------------------------------------------------------------------------
(* Steps.  All of them but the writes of the Stores, the set-ups and the   *)
(* clock change the RuntimeState of one generation, and save it or not.    *)

\* The RuntimeState of generation g becomes p, and is saved or not.
Local(g, p) ==
    /\ DOMAIN mem' = Gens /\ DOMAIN toSave' = Gens
    /\ mem'[g] = p /\ \A h \in Gens \ {g} : mem'[h] = mem[h]
    /\ toSave'[g] \in {toSave[g], {p}} /\ \A h \in Gens \ {g} : toSave'[h] = toSave[h]
    /\ UNCHANGED <<gen, disk, envVars>>

\* p holds what m holds, as far as it has not run out.
Keeps(m, p) ==
    /\ Behind(m, p)
    /\ \A x \in DOMAIN m.dedup :
        (x \in DOMAIN p.dedup /\ m.dedup[x].at <= p.dedup[x].at) \/ m.dedup[x].expires <= now

KeepsSnoozes(m, p) ==
    \A f \in Snoozers : snooze[f].call # "new" /\ snooze[f].until > now /\ Has(m, f) => Has(p, f)

\* No request forgets how far it came, and time goes on.
HistoryKept ==
    /\ \A q \in Requests : Passed(q) => Passed(q)' /\ checked'[q] = checked[q]
    /\ \A q \in Requests : status[q] = "sent" => status'[q] = "sent" /\ sent'[q] = sent[q]
    /\ \A q \in Requests : status[q] = "duplicate" => status'[q] = "duplicate" /\ checked'[q] = checked[q]
    /\ now <= now' /\ crashes <= crashes' /\ late <= late' /\ gen <= gen'
    /\ now' \in 0..MaxTime /\ crashes' \in Nat /\ late' \in Nat /\ gen' \in Gens

LEMMA GenIs == ASSUME TypeOK PROVE gen \in Gens /\ gen \in Nat /\ gen > 0 /\ now \in Nat /\ MaxGen \in Nat
  BY BoundsAssumption DEF TypeOK, Gens

LEMMA CopiesAre ==
    ASSUME TypeOK
    PROVE  /\ \A g \in Gens : mem[g] \in Copies /\ \A m \in toSave[g] : m \in Copies
           /\ disk \in Copies
           /\ \A r \in Requests : owner[r] \in Gens /\ owner[r] <= gen
           /\ \A f \in Snoozers : snooze[f].gen \in Gens /\ snooze[f].gen <= gen
<1>1. 1..gen \subseteq Gens
  BY GenIs DEF Gens
<1>2. \A r \in Requests : owner[r] \in 1..gen
  BY DEF TypeOK
<1>3. \A f \in Snoozers : snooze[f].gen \in 1..gen
  BY DEF TypeOK
<1>4. \A g \in 1..gen : g <= gen
  BY GenIs
<1>5. \A g \in Gens : mem[g] \in Copies /\ \A m \in toSave[g] : m \in Copies
  BY DEF Copies
<1>6. disk \in Copies
  BY DEF Copies
<1>. QED
  BY <1>1, <1>2, <1>3, <1>4, <1>5, <1>6

\* What a check answers, and the state p it leaves.
Checks(r, v, p) ==
    /\ status[r] = "checking" /\ v \in {"dropped", "duplicate", "reserved"}
    /\ status' = [status EXCEPT ![r] = v]
    /\ checked' = IF v = "dropped" THEN checked ELSE [checked EXCEPT ![r] = Stamp]
    /\ UNCHANGED <<phase, owner, sent, snooze>>
    /\ Local(owner[r], p) /\ IsRuntimeState(p)
    /\ p.last = mem[owner[r]].last
    /\ KeepsSnoozes(mem[owner[r]], p)

\* The entries it leaves, and why it answers so.
Entries(r, v, d, e) ==
    /\ v # "reserved" \/ Forced[r] \/ DedupWindow[r] = 0 => e = d
    /\ v = "reserved" /\ ~Forced[r] /\ DedupWindow[r] > 0 =>
        /\ Fingerprint[r] \in DOMAIN e /\ e[Fingerprint[r]] = NewEntry(r)
        /\ \A x \in DOMAIN e : x # Fingerprint[r] => x \in DOMAIN d /\ e[x] = d[x]
        /\ \A x \in DOMAIN d : x # Fingerprint[r] /\ d[x].expires > now => x \in DOMAIN e

Reason(r, v, m) ==
    /\ v = "duplicate" => Fingerprint[r] \in DOMAIN m.dedup /\ now - m.dedup[Fingerprint[r]].at < DedupWindow[r]
    /\ v = "reserved" /\ ~Forced[r] =>
        /\ Fingerprint[r] \in DOMAIN m.dedup => now - m.dedup[Fingerprint[r]].at >= DedupWindow[r]
        /\ History[r] \in DOMAIN m.last => now - m.last[History[r]] >= Cooldown[r]

LEMMA PrecheckIs ==
    ASSUME TypeOK, NEW r \in Requests, Precheck(r)
    PROVE  \E v, p :
            /\ Checks(r, v, p)
            /\ Entries(r, v, mem[owner[r]].dedup, p.dedup)
            /\ Reason(r, v, mem[owner[r]])
<1> DEFINE g == owner[r]
           m == PruneSnooze(mem[g], Flow[r])
<1>1. g \in Gens /\ IsRuntimeState(mem[g]) /\ now \in Nat
  BY CopiesAre, GenIs DEF TypeOK
<1>2. /\ IsRuntimeState(m)
      /\ m.dedup = mem[g].dedup /\ m.last = mem[g].last
      /\ \A x \in DOMAIN mem[g].snoozed : mem[g].snoozed[x] > now =>
            x \in DOMAIN m.snoozed /\ m.snoozed[x] = mem[g].snoozed[x]
  BY <1>1, PruneSnoozeIs
<1>3. PICK ruleBlocks \in BOOLEAN, filtered \in BOOLEAN :
        LET verdict == Verdict(m, r, ruleBlocks, filtered)
        IN  /\ status' = [status EXCEPT ![r] = verdict]
            /\ IF verdict = "reserved"
               THEN Update(g, Remember(m, r)) /\ UNCHANGED toSave
               ELSE Update(g, m) /\ Save(g, m)
  BY DEF Precheck
<1> DEFINE v == Verdict(m, r, ruleBlocks, filtered)
           p == IF v = "reserved" THEN Remember(m, r) ELSE m
           n == Remember(m, r)
<1>4. v \in {"dropped", "duplicate", "reserved"}
  BY DEF Verdict
<1>5. v = "duplicate" => Duplicate(m, r)
  BY DEF Verdict
<1>6. v = "reserved" /\ ~Forced[r] => ~InCooldown(m, r) /\ ~Duplicate(m, r)
  BY DEF Verdict
<1>7. /\ IsRuntimeState(n)
      /\ n.last = m.last /\ n.snoozed = m.snoozed
      /\ Entries(r, "reserved", m.dedup, n.dedup)
  <2>1. /\ IsRuntimeState(n)
        /\ n.last = m.last /\ n.snoozed = m.snoozed
        /\ Forced[r] \/ DedupWindow[r] = 0 => n = m
        /\ ~Forced[r] /\ DedupWindow[r] > 0 =>
            /\ Fingerprint[r] \in DOMAIN n.dedup /\ n.dedup[Fingerprint[r]] = NewEntry(r)
            /\ \A x \in DOMAIN n.dedup : x # Fingerprint[r] => x \in DOMAIN m.dedup /\ n.dedup[x] = m.dedup[x]
            /\ \A x \in DOMAIN m.dedup : x # Fingerprint[r] /\ m.dedup[x].expires > now => x \in DOMAIN n.dedup
    BY <1>1, <1>2, RememberIs
  <2>. QED
    BY <2>1 DEF Entries
<1>8. status'[r] = v /\ status' = [status EXCEPT ![r] = v] /\ status[r] = "checking"
  BY <1>3 DEF Precheck, TypeOK
<1>9. checked' = IF v = "dropped" THEN checked ELSE [checked EXCEPT ![r] = Stamp]
  BY <1>8 DEF Precheck
<1>10. mem' = [mem EXCEPT ![g] = p] /\ (toSave' = toSave \/ toSave' = [toSave EXCEPT ![g] = {p}])
  BY <1>3 DEF Update, Save
<1>11. UNCHANGED <<gen, phase, disk, owner, sent, snooze, envVars>>
  BY DEF Precheck
<1>12. DOMAIN mem = Gens /\ DOMAIN toSave = Gens
  BY DEF TypeOK
<1> HIDE DEF p, v, m, n
<1>13. Local(g, p)
  BY <1>1, <1>10, <1>11, <1>12 DEF Local
<1>14. p \in {m, n} /\ (v = "reserved" => p = n) /\ (v # "reserved" => p = m)
  BY DEF p, n
<1>15. IsRuntimeState(p) /\ p.last = mem[g].last /\ p.snoozed = m.snoozed
  BY <1>2, <1>7, <1>14
<1>16. KeepsSnoozes(mem[g], p)
  BY <1>2, <1>15 DEF KeepsSnoozes, Has
<1>17. Entries(r, v, mem[g].dedup, p.dedup)
  BY <1>2, <1>7, <1>14 DEF Entries
<1>18. Reason(r, v, mem[g])
  <2>1. mem[g].dedup[Fingerprint[r]].at \in Nat \/ Fingerprint[r] \notin DOMAIN mem[g].dedup
    BY <1>1 DEF IsRuntimeState
  <2>2. mem[g].last[History[r]] \in Nat \/ History[r] \notin DOMAIN mem[g].last
    BY <1>1 DEF IsRuntimeState
  <2>. QED
    BY <1>1, <1>2, <1>5, <1>6, <2>1, <2>2, RequestsAssumption DEF Reason, Duplicate, InCooldown
<1>19. Checks(r, v, p)
  BY <1>4, <1>8, <1>9, <1>11, <1>13, <1>15, <1>16 DEF Checks
<1>. QED
  BY <1>17, <1>18, <1>19

\* The steps that leave everything but one RuntimeState and its snapshot in
\* place: the RuntimeState of generation g grows into p.
Grows(g, p) ==
    /\ Local(g, p) /\ g \in Gens /\ g <= gen
    /\ IsRuntimeState(p) /\ Keeps(mem[g], p) /\ KeepsSnoozes(mem[g], p)

LEMMA KeepsItself == ASSUME NEW m, IsRuntimeState(m), now \in Nat PROVE Keeps(m, m) /\ KeepsSnoozes(m, m)
  BY DEF Keeps, KeepsSnoozes, Behind, HasStamp, IsRuntimeState

LEMMA GrowsNot ==
    ASSUME TypeOK, NEW g \in Gens, g <= gen, mem' = mem,
           toSave' = toSave \/ toSave' = [toSave EXCEPT ![g] = {mem[g]}],
           UNCHANGED <<gen, disk, envVars>>
    PROVE  Grows(g, mem[g])
<1>1. IsRuntimeState(mem[g]) /\ now \in Nat /\ DOMAIN mem = Gens /\ DOMAIN toSave = Gens
  BY CopiesAre, GenIs DEF TypeOK
<1>2. Local(g, mem[g])
  BY <1>1 DEF Local
<1>. QED
  BY <1>1, <1>2, KeepsItself DEF Grows

LEMMA ArriveGrows == ASSUME TypeOK, NEW r \in Requests, Arrive(r) PROVE Grows(gen, mem[gen])
  BY GrowsNot, GenIs DEF Arrive, stateVars

LEMMA EnqueueGrows == ASSUME TypeOK, NEW r \in Requests, Enqueue(r) PROVE Grows(owner[r], mem[owner[r]])
  BY GrowsNot, CopiesAre DEF Enqueue, Save

LEMMA PreviewGrows == ASSUME TypeOK, NEW r \in Requests, Preview(r) PROVE Grows(gen, mem[gen])
<1>1. gen \in Gens /\ gen <= gen
  BY GenIs
<1>2. mem' = mem /\ toSave' = [toSave EXCEPT ![gen] = {mem[gen]}] /\ UNCHANGED <<gen, disk, envVars>>
  BY DEF Preview, Save
<1>. QED
  BY <1>1, <1>2, GrowsNot

LEMMA StrandGrows == ASSUME TypeOK, NEW r \in Requests, Strand(r) PROVE Grows(gen, mem[gen])
  BY GrowsNot, GenIs DEF Strand, stateVars

LEMMA SnoozeSaveGrows ==
    ASSUME TypeOK, NEW f \in Snoozers, SnoozeSave(f) PROVE Grows(snooze[f].gen, mem[snooze[f].gen])
  BY GrowsNot, CopiesAre DEF SnoozeSave, Save

LEMMA SnoozeReturnGrows == ASSUME TypeOK, NEW f \in Snoozers, SnoozeReturn(f) PROVE Grows(gen, mem[gen])
  BY GrowsNot, GenIs DEF SnoozeReturn, stateVars

LEMMA CloseGrows == ASSUME TypeOK, Close PROVE Grows(gen, mem[gen])
  BY GrowsNot, GenIs DEF Close

LEMMA FinalSaveGrows == ASSUME TypeOK, FinalSave PROVE Grows(gen, mem[gen])
<1>1. gen \in Gens /\ gen <= gen
  BY GenIs
<1>2. mem' = mem /\ toSave' = [toSave EXCEPT ![gen] = {mem[gen]}] /\ UNCHANGED <<gen, disk, envVars>>
  BY DEF FinalSave, Save
<1>. QED
  BY <1>1, <1>2, GrowsNot

LEMMA ChecksGrows ==
    ASSUME TypeOK, NEW r \in Requests, NEW v, NEW p, Checks(r, v, p), Entries(r, v, mem[owner[r]].dedup, p.dedup)
    PROVE  Grows(owner[r], p)
<1> DEFINE m == mem[owner[r]]
<1>1. owner[r] \in Gens /\ owner[r] <= gen /\ IsRuntimeState(m) /\ now \in Nat
  BY CopiesAre, GenIs DEF TypeOK
<1>2. \A x \in DOMAIN m.dedup : m.dedup[x].at \in 0..now /\ m.dedup[x].expires \in Nat
  BY <1>1 DEF IsRuntimeState
<1>3. \A h \in DOMAIN m.last : m.last[h] \in Nat
  BY <1>1 DEF IsRuntimeState
<1>4. Behind(m, p)
  BY <1>3 DEF Checks, Behind, HasStamp
<1>5. Keeps(m, p)
  <2>1. CASE p.dedup = m.dedup
    BY <1>2, <1>4, <2>1 DEF Keeps
  <2>2. CASE v = "reserved" /\ ~Forced[r] /\ DedupWindow[r] > 0
    <3>1. p.dedup[Fingerprint[r]].at = now /\ Fingerprint[r] \in DOMAIN p.dedup
      BY <2>2 DEF Entries, NewEntry
    <3>2. \A x \in DOMAIN p.dedup : x # Fingerprint[r] => p.dedup[x] = m.dedup[x]
      BY <2>2 DEF Entries
    <3>3. \A x \in DOMAIN m.dedup : x # Fingerprint[r] /\ m.dedup[x].expires > now => x \in DOMAIN p.dedup
      BY <2>2 DEF Entries
    <3>. QED
      BY <1>1, <1>2, <1>4, <3>1, <3>2, <3>3 DEF Keeps
  <2>. QED
    BY <2>1, <2>2, RequestsAssumption DEF Entries
<1>. QED
  BY <1>1, <1>5 DEF Grows, Checks

\* p has no stamp that m has not.
Stampless(m, p) == \A h \in DOMAIN p.last : h \in DOMAIN m.last /\ p.last[h] = m.last[h]

LEMMA DeliverIs ==
    ASSUME TypeOK, NEW r \in Requests, Deliver(r)
    PROVE  \E p :
            /\ Grows(owner[r], p)
            /\ p.dedup = mem[owner[r]].dedup
            /\ \/ /\ status' = [status EXCEPT ![r] = "unsent"] /\ sent' = sent
                  /\ Stampless(mem[owner[r]], p)
               \/ /\ status' = [status EXCEPT ![r] = "sent"] /\ sent' = [sent EXCEPT ![r] = Stamp]
                  /\ \A h \in Stamps[r] : HasStamp(p.last, h, now)
                  /\ \A h \in DOMAIN p.last :
                        \/ h \in DOMAIN mem[owner[r]].last /\ p.last[h] = mem[owner[r]].last[h]
                        \/ h \in Stamps[r] /\ p.last[h] = now
<1> DEFINE g == owner[r]
<1>1. g \in Gens /\ g <= gen /\ IsRuntimeState(mem[g]) /\ now \in Nat
  BY CopiesAre, GenIs DEF TypeOK
<1>2. PICK d \in BOOLEAN :
        \E m \in RecordDelivery(mem[g], r, d) :
            /\ Update(g, m)
            /\ Save(g, m)
            /\ status' = [status EXCEPT ![r] = IF d THEN "sent" ELSE "unsent"]
  BY DEF Deliver
<1>3. PICK p \in RecordDelivery(mem[g], r, d) :
            /\ Update(g, p)
            /\ Save(g, p)
            /\ status' = [status EXCEPT ![r] = IF d THEN "sent" ELSE "unsent"]
  BY <1>2
<1>4. /\ IsRuntimeState(p)
      /\ p.dedup = mem[g].dedup /\ p.snoozed = mem[g].snoozed
      /\ Behind(mem[g], p)
      /\ d => \A h \in Stamps[r] : HasStamp(p.last, h, now)
      /\ \A h \in DOMAIN p.last :
            \/ h \in DOMAIN mem[g].last /\ p.last[h] = mem[g].last[h]
            \/ d /\ h \in Stamps[r] /\ p.last[h] = now
  BY <1>1, RecordDeliveryIs
<1>5. mem' = [mem EXCEPT ![g] = p] /\ toSave' = [toSave EXCEPT ![g] = {p}]
  BY <1>3 DEF Update, Save
<1>6. status' = [status EXCEPT ![r] = IF d THEN "sent" ELSE "unsent"]
  BY <1>3
<1>7. UNCHANGED <<gen, phase, disk, owner, checked, snooze, envVars>>
  BY DEF Deliver
<1>8. Local(g, p)
  BY <1>1, <1>5, <1>7 DEF Local, TypeOK
<1>9. \A x \in DOMAIN mem[g].dedup : mem[g].dedup[x].at \in Nat
  BY <1>1 DEF IsRuntimeState
<1>10. Keeps(mem[g], p)
  BY <1>4, <1>9 DEF Keeps
<1>11. KeepsSnoozes(mem[g], p)
  BY <1>4 DEF KeepsSnoozes, Has
<1>12. Grows(g, p)
  BY <1>1, <1>4, <1>8, <1>10, <1>11 DEF Grows
<1>13. sent' = IF status'[r] = "sent" THEN [sent EXCEPT ![r] = Stamp] ELSE sent
  BY DEF Deliver
<1>14. status'[r] = IF d THEN "sent" ELSE "unsent"
  BY <1>6 DEF TypeOK
<1>15. CASE d
  BY <1>4, <1>6, <1>12, <1>13, <1>14, <1>15
<1>16. CASE ~d
  BY <1>4, <1>6, <1>12, <1>13, <1>14, <1>16 DEF Stampless
<1>. QED
  BY <1>15, <1>16

LEMMA SnoozeIs ==
    ASSUME TypeOK, NEW f \in Snoozers, Snooze(f)
    PROVE  \E p :
            /\ Grows(gen, p)
            /\ p.dedup = mem[gen].dedup /\ Stampless(mem[gen], p)
            /\ f \in DOMAIN p.snoozed /\ p.snoozed[f] = now + SnoozeTime
<1>1. gen \in Gens /\ IsRuntimeState(mem[gen]) /\ now \in Nat /\ gen \in Nat
  BY CopiesAre, GenIs DEF TypeOK
<1> DEFINE p == WithSnooze(mem[gen], f)
<1>2. /\ IsRuntimeState(p)
      /\ p.dedup = mem[gen].dedup /\ p.last = mem[gen].last
      /\ f \in DOMAIN p.snoozed /\ p.snoozed[f] = now + SnoozeTime
      /\ \A x \in DOMAIN mem[gen].snoozed : x # f => x \in DOMAIN p.snoozed /\ p.snoozed[x] = mem[gen].snoozed[x]
  BY <1>1, WithSnoozeIs
<1>3. mem' = [mem EXCEPT ![gen] = p]
  BY DEF Snooze, Update, WithSnooze
<1>4. UNCHANGED <<gen, toSave, disk, envVars>> /\ snooze[f].call = "new"
  BY DEF Snooze
<1> HIDE DEF p
<1>5. Local(gen, p)
  BY <1>1, <1>3, <1>4 DEF Local, TypeOK
<1>6. \A x \in DOMAIN mem[gen].dedup : mem[gen].dedup[x].at \in Nat
  BY <1>1 DEF IsRuntimeState
<1>7. \A h \in DOMAIN mem[gen].last : mem[gen].last[h] \in Nat
  BY <1>1 DEF IsRuntimeState
<1>8. Keeps(mem[gen], p)
  BY <1>2, <1>6, <1>7 DEF Keeps, Behind, HasStamp
<1>9. KeepsSnoozes(mem[gen], p)
  BY <1>2, <1>4 DEF KeepsSnoozes, Has
<1>10. Grows(gen, p)
  BY <1>1, <1>2, <1>5, <1>8, <1>9 DEF Grows
<1>. QED
  BY <1>2, <1>10 DEF Stampless

-----------------------------------------------------------------------------
(* The requests.                                                           *)

\* Nobody new is bound by the limits; nobody new was delivered.
NoneLive == \A q \in Requests : Live(q)' => Live(q)
NoneSent == \A q \in Requests : status'[q] = "sent" => status[q] = "sent"

LEMMA StampIs == ASSUME TypeOK PROVE Stamp \in StampType /\ Stamp.at = now /\ Stamp.era = Era
  BY GenIs DEF TypeOK, Stamp, StampType, Era

LEMMA ChecksHistory ==
    ASSUME TypeOK, NEW r \in Requests, NEW v, NEW p, Checks(r, v, p)
    PROVE  HistoryKept /\ NoneSent
<1>1. status[r] = "checking" /\ status' = [status EXCEPT ![r] = v] /\ v \in {"dropped", "duplicate", "reserved"}
  BY DEF Checks
<1>2. \A q \in Requests \ {r} : checked'[q] = checked[q]
  BY DEF Checks, TypeOK
<1>3. UNCHANGED <<gen, now, crashes, late, sent>>
  BY DEF Checks, Local, envVars
<1>4. \A q \in Requests \ {r} : status'[q] = status[q]
  BY <1>1 DEF TypeOK
<1>5. status'[r] = v
  BY <1>1 DEF TypeOK
<1>. QED
  BY <1>1, <1>2, <1>3, <1>4, <1>5, GenIs DEF HistoryKept, Passed, NoneSent, TypeOK

LEMMA HistoryIsKept == ASSUME TypeOK, [Next]_vars PROVE HistoryKept
<1>1. now \in Nat /\ now <= MaxTime /\ gen \in Nat /\ gen <= MaxGen /\ MaxGen \in Nat /\ crashes \in Nat /\ late \in Nat /\ MaxTime \in Nat
  BY GenIs, BoundsAssumption DEF TypeOK, Gens
<1>2. gen \in Gens /\ now \in 0..MaxTime
  BY DEF TypeOK
<1> SUFFICES ASSUME [Next]_vars
             PROVE  HistoryKept
  OBVIOUS
<1>3. ASSUME NEW r \in Requests, Request(r) PROVE HistoryKept
  <2>1. CASE Arrive(r)
    BY <1>1, <1>2, <2>1 DEF Arrive, HistoryKept, Passed, TypeOK, stateVars, envVars
  <2>2. CASE Precheck(r)
    BY <2>2, PrecheckIs, ChecksHistory
  <2>3. CASE Enqueue(r)
    BY <1>1, <1>2, <2>3 DEF Enqueue, HistoryKept, Passed, TypeOK, envVars
  <2>4. CASE Preview(r)
    BY <1>1, <1>2, <2>4 DEF Preview, HistoryKept, Passed, requestVars, envVars
  <2>5. CASE Deliver(r)
    <3>1. UNCHANGED <<gen, checked, now, crashes, late>> /\ status[r] = "queued"
      BY <2>5 DEF Deliver, envVars
    <3>2. \A q \in Requests \ {r} : status'[q] = status[q] /\ sent'[q] = sent[q]
      BY <2>5, DeliverIs DEF TypeOK
    <3>3. status'[r] \in {"sent", "unsent"}
      BY <2>5, DeliverIs DEF TypeOK
    <3>. QED
      BY <1>1, <1>2, <3>1, <3>2, <3>3 DEF HistoryKept, Passed
  <2>6. CASE Strand(r)
    BY <1>1, <1>2, <2>6 DEF Strand, HistoryKept, Passed, TypeOK, stateVars, envVars
  <2>. QED
    BY <1>3, <2>1, <2>2, <2>3, <2>4, <2>5, <2>6 DEF Request
<1>4. ASSUME NEW f \in Snoozers, Snooze(f) \/ SnoozeSave(f) \/ SnoozeReturn(f) PROVE HistoryKept
  <2>1. UNCHANGED <<gen, requestVars, envVars>>
    BY <1>4 DEF Snooze, SnoozeSave, SnoozeReturn, stateVars
  <2>. QED
    BY <1>1, <1>2, <2>1 DEF HistoryKept, Passed, requestVars, envVars
<1>5. ASSUME NEW g \in Gens, WriteStore(g) PROVE HistoryKept
  BY <1>1, <1>2, <1>5 DEF WriteStore, HistoryKept, Passed, requestVars
<1>6. CASE Close \/ FinalSave
  BY <1>1, <1>2, <1>6 DEF Close, FinalSave, HistoryKept, Passed, requestVars, envVars
<1>7. CASE Reload
  BY <1>1, <1>2, <1>7 DEF Reload, Setup, HistoryKept, Passed, requestVars, envVars, Gens
<1>8. CASE Crash
  <2>1. gen' = gen + 1 /\ gen < MaxGen /\ crashes' = crashes + 1 /\ UNCHANGED <<checked, sent, now, late>>
    BY <1>8 DEF Crash, Setup
  <2>2. \A q \in Requests : status'[q] = IF status[q] \in {"checking", "reserved", "queued"} THEN "lost" ELSE status[q]
    BY <1>8 DEF Crash
  <2>. QED
    BY <1>1, <1>2, <2>1, <2>2 DEF HistoryKept, Passed, Gens
<1>9. CASE Tick
  BY <1>1, <1>2, <1>9 DEF Tick, HistoryKept, Passed, requestVars, stateVars
<1>10. CASE UNCHANGED vars
  BY <1>1, <1>2, <1>10 DEF vars, HistoryKept, Passed, requestVars, stateVars, envVars
<1>. QED
  BY <1>3, <1>4, <1>5, <1>6, <1>7, <1>8, <1>9, <1>10 DEF Next

LEMMA QuietRequests ==
    ASSUME TypeOK, NEW r \in Requests, Arrive(r) \/ Enqueue(r) \/ Preview(r) \/ Deliver(r) \/ Strand(r)
    PROVE  /\ NoneLive
           /\ \A q \in Requests : status'[q] = "duplicate" => status[q] = "duplicate"
<1>1. \A q \in Requests \ {r} : status'[q] = status[q] /\ owner'[q] = owner[q] /\ gen' = gen
  BY DeliverIs DEF Arrive, Enqueue, Preview, Deliver, Strand, requestVars, stateVars, TypeOK
<1>2. (Live(r)' => Live(r)) /\ (status'[r] = "duplicate" => status[r] = "duplicate")
  <2>1. CASE Arrive(r)
    BY <2>1 DEF Arrive, Live, Accepted, TypeOK
  <2>2. CASE Enqueue(r)
    <3>1. owner[r] \in Nat /\ gen \in Nat /\ owner[r] <= gen
      BY CopiesAre, GenIs DEF Gens
    <3>2. CASE Closed(owner[r])
      BY <2>2, <3>2 DEF Enqueue, Live, Accepted, TypeOK
    <3>3. CASE ~Closed(owner[r])
      BY <2>2, <3>1, <3>3 DEF Enqueue, Live, Closed, TypeOK
    <3>. QED
      BY <3>2, <3>3
  <2>3. CASE Preview(r)
    BY <2>3 DEF Preview, Live, Accepted, requestVars
  <2>4. CASE Deliver(r)
    BY <2>4, DeliverIs DEF Deliver, Live, Accepted, TypeOK
  <2>5. CASE Strand(r)
    BY <2>5 DEF Strand, Live, Accepted, TypeOK
  <2>. QED
    BY <2>1, <2>2, <2>3, <2>4, <2>5
<1>. QED
  BY <1>1, <1>2 DEF NoneLive, Live, Accepted

LEMMA QuietOthers ==
    ASSUME TypeOK, status' = status \/ Crash, owner' = owner, gen' = gen \/ gen' = gen + 1
    PROVE  NoneLive /\ NoneSent /\ \A q \in Requests : status'[q] = "duplicate" => status[q] = "duplicate"
<1>1. \A q \in Requests : owner[q] \in Nat /\ owner[q] <= gen /\ gen \in Nat
  BY CopiesAre, GenIs DEF Gens
<1>2. \A q \in Requests : status'[q] = status[q] \/ status'[q] = "lost"
  BY DEF Crash
<1>. QED
  BY <1>1, <1>2 DEF NoneLive, NoneSent, Live, Accepted

-----------------------------------------------------------------------------
(* The copies of the RuntimeState, and their types.                        *)

LEMMA GrowsCopies == ASSUME TypeOK, NEW g, NEW p, Grows(g, p) PROVE Copies' \subseteq Copies \cup {p}
<1>1. \A h \in Gens : mem'[h] \in Copies \cup {p} /\ \A m \in toSave'[h] : m \in Copies \cup {p}
  BY CopiesAre DEF Grows, Local
<1>2. disk' \in Copies
  BY CopiesAre DEF Grows, Local
<1>. QED
  BY <1>1, <1>2 DEF Copies

LEMMA WriteStoreCopies == ASSUME TypeOK, NEW g \in Gens, WriteStore(g) PROVE Copies' \subseteq Copies
<1>1. \A h \in Gens : mem'[h] \in Copies /\ \A m \in toSave'[h] : m \in Copies
  BY CopiesAre DEF WriteStore, TypeOK
<1>2. disk' \in Copies
  BY CopiesAre DEF WriteStore
<1>. QED
  BY <1>1, <1>2 DEF Copies

\* What the next generation starts with.
LEMMA ReloadIs ==
    ASSUME TypeOK, Reload
    PROVE  /\ phase = "unloaded" /\ gen' = gen + 1 /\ gen + 1 \in Gens /\ phase' = "running" /\ disk' = disk
           /\ mem' = [mem EXCEPT ![gen + 1] = disk]
           /\ toSave' = toSave \/ toSave' = [toSave EXCEPT ![gen + 1] = {disk}]
           /\ UNCHANGED <<requestVars, snooze, envVars>>
<1>1. gen < MaxGen
  BY DEF Reload, Setup
<1>. QED
  BY <1>1, GenIs DEF Reload, Setup, Update, Save, Gens

LEMMA CrashIs ==
    ASSUME TypeOK, Crash
    PROVE  /\ gen' = gen + 1 /\ gen + 1 \in Gens /\ phase' = "running" /\ disk' = disk
           /\ mem' = [g \in Gens |-> IF g = gen + 1 THEN disk ELSE Empty]
           /\ toSave' = [g \in Gens |-> {}]
           /\ crashes' = crashes + 1 /\ UNCHANGED <<owner, checked, sent, now, late>>
<1>1. gen < MaxGen
  BY DEF Crash, Setup
<1>. QED
  BY <1>1, GenIs DEF Crash, Setup, Gens

LEMMA ReloadCopies == ASSUME TypeOK, Reload PROVE Copies' \subseteq Copies
<1>1. \A h \in Gens : mem'[h] \in Copies /\ \A m \in toSave'[h] : m \in Copies
  BY ReloadIs, CopiesAre DEF TypeOK
<1>2. disk' \in Copies
  BY ReloadIs, CopiesAre
<1>. QED
  BY <1>1, <1>2 DEF Copies

LEMMA CrashCopies == ASSUME TypeOK, Crash PROVE Copies' \subseteq Copies \cup {Empty}
<1>1. \A h \in Gens : mem'[h] \in Copies \cup {Empty} /\ toSave'[h] = {}
  BY CrashIs, CopiesAre
<1>2. disk' \in Copies
  BY CrashIs, CopiesAre
<1>. QED
  BY <1>1, <1>2 DEF Copies

LEMMA CopiesStay == ASSUME UNCHANGED <<mem, toSave, disk>> PROVE Copies' = Copies
  BY DEF Copies

\* The types of everything but the requests and the snoozes.
StoresTyped ==
    /\ phase' \in {"running", "draining", "saving", "unloaded", "failed"}
    /\ DOMAIN mem' = Gens /\ DOMAIN toSave' = Gens
    /\ \A m \in Copies' : IsRuntimeState(m)'

LEMMA GrowsTyped ==
    ASSUME TypeOK, NEW g, NEW p, Grows(g, p), phase' \in {"running", "draining", "saving", "unloaded", "failed"}
    PROVE  StoresTyped
<1>1. now' = now /\ now \in Nat
  BY GenIs DEF Grows, Local, envVars
<1>2. \A m \in Copies' : IsRuntimeState(m)
  BY GrowsCopies DEF Grows, TypeOK
<1>3. \A m \in Copies' : IsRuntimeState(m)'
  BY <1>1, <1>2, StaysTyped
<1>. QED
  BY <1>3 DEF StoresTyped, Grows, Local

LEMMA StoresAreTyped == ASSUME TypeOK, [Next]_vars PROVE StoresTyped
<1>1. now' \in Nat /\ now \in Nat /\ now <= now'
  BY GenIs, HistoryIsKept DEF HistoryKept
<1>2. ASSUME Copies' \subseteq Copies \cup {Empty}, DOMAIN mem' = Gens, DOMAIN toSave' = Gens,
             phase' \in {"running", "draining", "saving", "unloaded", "failed"}
      PROVE  StoresTyped
  <2>1. \A m \in Copies' : IsRuntimeState(m)
    BY <1>2, EmptyIs DEF TypeOK
  <2>2. \A m \in Copies' : IsRuntimeState(m)'
    BY <1>1, <2>1, StaysTyped
  <2>. QED
    BY <1>2, <2>2 DEF StoresTyped
<1>3. DOMAIN mem = Gens /\ DOMAIN toSave = Gens /\ phase \in {"running", "draining", "saving", "unloaded", "failed"}
  BY DEF TypeOK
<1>4. ASSUME NEW r \in Requests, Request(r) PROVE StoresTyped
  <2>1. phase' = phase
    BY <1>4 DEF Request, Arrive, Precheck, Enqueue, Preview, Deliver, Strand, stateVars
  <2>2. \E g, p : Grows(g, p)
    BY <1>4, ArriveGrows, PrecheckIs, ChecksGrows, EnqueueGrows, PreviewGrows, DeliverIs, StrandGrows DEF Request
  <2>. QED
    BY <1>3, <2>1, <2>2, GrowsTyped
<1>5. ASSUME NEW f \in Snoozers, Snooze(f) \/ SnoozeSave(f) \/ SnoozeReturn(f) PROVE StoresTyped
  <2>1. phase' = phase
    BY <1>5 DEF Snooze, SnoozeSave, SnoozeReturn, stateVars
  <2>2. \E g, p : Grows(g, p)
    BY <1>5, SnoozeIs, SnoozeSaveGrows, SnoozeReturnGrows
  <2>. QED
    BY <1>3, <2>1, <2>2, GrowsTyped
<1>6. ASSUME NEW g \in Gens, WriteStore(g) PROVE StoresTyped
  <2>1. phase' \in {phase, "unloaded"} /\ DOMAIN mem' = Gens /\ DOMAIN toSave' = Gens
    BY <1>3, <1>6 DEF WriteStore
  <2>. QED
    BY <1>2, <1>3, <1>6, <2>1, WriteStoreCopies
<1>7. CASE Close \/ FinalSave
  <2>1. phase' \in {"running", "draining", "saving", "unloaded", "failed"}
    BY <1>7 DEF Close, FinalSave
  <2>. QED
    BY <1>7, <2>1, CloseGrows, FinalSaveGrows, GrowsTyped
<1>8. CASE Reload
  <2>1. DOMAIN mem' = Gens /\ DOMAIN toSave' = Gens /\ phase' = "running"
    BY <1>3, <1>8, ReloadIs
  <2>. QED
    BY <1>2, <1>8, <2>1, ReloadCopies
<1>9. CASE Crash
  <2>1. DOMAIN mem' = Gens /\ DOMAIN toSave' = Gens /\ phase' = "running"
    BY <1>9, CrashIs
  <2>. QED
    BY <1>2, <1>9, <2>1, CrashCopies
<1>10. CASE Tick \/ UNCHANGED vars
  BY <1>2, <1>3, <1>10, CopiesStay DEF Tick, vars, stateVars
<1>. QED
  BY <1>4, <1>5, <1>6, <1>7, <1>8, <1>9, <1>10 DEF Next

LEMMA StampsGrow ==
    ASSUME TypeOK, HistoryKept
    PROVE  StampType \subseteq StampType' /\ Stamp \in StampType'
<1>1. 0..now \subseteq 0..now' /\ 0..crashes \subseteq 0..crashes' /\ 0..late \subseteq 0..late'
  BY GenIs DEF HistoryKept, TypeOK
<1>2. StampType \subseteq StampType'
  BY <1>1 DEF StampType
<1>. QED
  BY <1>2, StampIs

LEMMA RequestsTyped ==
    ASSUME TypeOK, [Next]_vars
    PROVE  /\ status' \in [Requests -> Statuses] /\ owner' \in [Requests -> 1..gen']
           /\ checked' \in [Requests -> StampType'] /\ sent' \in [Requests -> StampType']
<1>1. HistoryKept /\ StampType \subseteq StampType' /\ Stamp \in StampType'
  BY HistoryIsKept, StampsGrow
<1>2. 1..gen \subseteq 1..gen' /\ gen \in 1..gen'
  BY <1>1, GenIs DEF HistoryKept, Gens
<1>3. status \in [Requests -> Statuses] /\ owner \in [Requests -> 1..gen']
  BY <1>2 DEF TypeOK
<1>4. checked \in [Requests -> StampType'] /\ sent \in [Requests -> StampType']
  BY <1>1 DEF TypeOK
<1>5. ASSUME UNCHANGED requestVars
      PROVE  /\ status' \in [Requests -> Statuses] /\ owner' \in [Requests -> 1..gen']
             /\ checked' \in [Requests -> StampType'] /\ sent' \in [Requests -> StampType']
  BY <1>3, <1>4, <1>5 DEF requestVars
<1>6. ASSUME NEW r \in Requests, Request(r)
      PROVE  /\ status' \in [Requests -> Statuses] /\ owner' \in [Requests -> 1..gen']
             /\ checked' \in [Requests -> StampType'] /\ sent' \in [Requests -> StampType']
  <2>1. status' \in [Requests -> Statuses]
    <3>1. CASE Precheck(r)
      BY <3>1, <1>3, PrecheckIs DEF Checks, Statuses
    <3>2. CASE Deliver(r)
      BY <3>2, <1>3, DeliverIs DEF Statuses
    <3>. QED
      BY <1>3, <1>6, <3>1, <3>2 DEF Request, Arrive, Enqueue, Preview, Strand, requestVars, Statuses
  <2>2. owner' \in [Requests -> 1..gen']
    BY <1>2, <1>3, <1>6 DEF Request, Arrive, Precheck, Enqueue, Preview, Deliver, Strand, requestVars
  <2>3. checked' \in [Requests -> StampType']
    <3>1. CASE Precheck(r)
      BY <3>1, <1>1, <1>4 DEF Precheck
    <3>. QED
      BY <1>4, <1>6, <3>1 DEF Request, Arrive, Enqueue, Preview, Deliver, Strand, requestVars
  <2>4. sent' \in [Requests -> StampType']
    <3>1. CASE Deliver(r)
      BY <3>1, <1>1, <1>4 DEF Deliver
    <3>. QED
      BY <1>4, <1>6, <3>1 DEF Request, Arrive, Precheck, Enqueue, Preview, Strand, requestVars
  <2>. QED
    BY <2>1, <2>2, <2>3, <2>4
<1>7. CASE Crash
  <2>1. status' \in [Requests -> Statuses]
    BY <1>3, <1>7 DEF Crash, Statuses
  <2>. QED
    BY <1>3, <1>4, <1>7, <2>1, CrashIs
<1>. QED
  BY <1>5, <1>6, <1>7
     DEF Next, Snooze, SnoozeSave, SnoozeReturn, WriteStore, Close, FinalSave, Reload, Tick, vars

LEMMA SnoozesTyped == ASSUME TypeOK, [Next]_vars PROVE snooze' \in [Snoozers -> [call : Calls, gen : 1..gen', until : Nat]]
<1>1. 1..gen \subseteq 1..gen' /\ gen \in 1..gen' /\ now + SnoozeTime \in Nat
  BY HistoryIsKept, GenIs, BoundsAssumption DEF HistoryKept, Gens
<1>2. snooze \in [Snoozers -> [call : Calls, gen : 1..gen', until : Nat]]
  BY <1>1 DEF TypeOK
<1>3. ASSUME NEW f \in Snoozers, Snooze(f) PROVE snooze' \in [Snoozers -> [call : Calls, gen : 1..gen', until : Nat]]
  BY <1>1, <1>2, <1>3 DEF Snooze, Calls
<1>4. ASSUME NEW f \in Snoozers, SnoozeSave(f) \/ SnoozeReturn(f)
      PROVE  snooze' \in [Snoozers -> [call : Calls, gen : 1..gen', until : Nat]]
  BY <1>2, <1>4 DEF SnoozeSave, SnoozeReturn, Calls
<1>5. CASE Crash
  <2>1. \A f \in Snoozers : snooze[f] \in [call : Calls, gen : 1..gen', until : Nat]
    BY <1>2
  <2>2. \A f \in Snoozers : [snooze[f] EXCEPT !.call = "lost"] \in [call : Calls, gen : 1..gen', until : Nat]
    BY <2>1 DEF Calls
  <2>. QED
    BY <1>5, <2>1, <2>2 DEF Crash
<1>6. ASSUME UNCHANGED snooze PROVE snooze' \in [Snoozers -> [call : Calls, gen : 1..gen', until : Nat]]
  BY <1>2, <1>6
<1>. QED
  BY <1>3, <1>4, <1>5, <1>6 
     DEF Next, Request, Arrive, Precheck, Enqueue, Preview, Deliver, Strand, WriteStore, Close, FinalSave, Reload, Tick, vars

LEMMA TypeStep == ASSUME TypeOK, [Next]_vars PROVE TypeOK'
  BY HistoryIsKept, StoresAreTyped, RequestsTyped, SnoozesTyped DEF HistoryKept, StoresTyped, TypeOK

-----------------------------------------------------------------------------
(* Every entry has an owner, and every duplicate an original.              *)

LEMMA HonestKept ==
    ASSUME HistoryKept, NEW m, HonestEntries(m)
    PROVE  HonestEntries(m)'
  BY DEF HistoryKept, HonestEntries, Granted

LEMMA HonestStays ==
    ASSUME TypeOK, HistoryKept, Honest,
           \A m \in Copies' : HonestEntries(m)',
           \A r \in Requests : status'[r] = "duplicate" => status[r] = "duplicate" \/ HonestDuplicate(r)'
    PROVE  Honest'
<1>1. ASSUME NEW r \in Requests, status[r] = "duplicate" PROVE HonestDuplicate(r)'
  BY <1>1 DEF Honest, HonestDuplicate, HistoryKept
<1>. QED
  BY <1>1 DEF Honest

LEMMA GrowsHonest ==
    ASSUME TypeOK, HistoryKept, Honest, NEW g, NEW p, Grows(g, p), p.dedup = mem[g].dedup,
           \A r \in Requests : status'[r] = "duplicate" => status[r] = "duplicate"
    PROVE  Honest'
<1>1. HonestEntries(p)
  BY CopiesAre DEF Honest, HonestEntries, Grows
<1>2. \A m \in Copies' : HonestEntries(m)
  BY <1>1, GrowsCopies DEF Honest
<1>. QED
  BY <1>2, HonestKept, HonestStays

\* What a check finds, and how it judges by it.
LEMMA ChecksHonest ==
    ASSUME TypeOK, HistoryKept, Honest, NEW r \in Requests, NEW v, NEW p, Checks(r, v, p),
           Entries(r, v, mem[owner[r]].dedup, p.dedup), Reason(r, v, mem[owner[r]])
    PROVE  Honest'
<1> DEFINE m == mem[owner[r]]
<1>1. m \in Copies /\ HonestEntries(m) /\ now \in Nat /\ IsRuntimeState(m)
  BY CopiesAre, GenIs DEF Honest, TypeOK
<1>2. now' = now
  BY DEF Checks, Local, envVars
<1>3. status'[r] = v /\ status[r] = "checking" /\ (v # "dropped" => checked'[r].at = now)
  BY StampIs DEF Checks, TypeOK
<1>4. HonestEntries(p)'
  <2>1. CASE p.dedup = m.dedup
    BY <1>1, <2>1 DEF HistoryKept, HonestEntries, Granted
  <2>2. CASE v = "reserved" /\ ~Forced[r] /\ DedupWindow[r] > 0
    <3>1. /\ Fingerprint[r] \in DOMAIN p.dedup /\ p.dedup[Fingerprint[r]] = NewEntry(r)
          /\ \A x \in DOMAIN p.dedup : x # Fingerprint[r] => x \in DOMAIN m.dedup /\ p.dedup[x] = m.dedup[x]
      BY <2>2 DEF Entries
    <3>2. Granted(r, Fingerprint[r], NewEntry(r))'
      BY <1>2, <1>3, <2>2 DEF Granted, NewEntry, Passed
    <3>3. ASSUME NEW x \in DOMAIN p.dedup, x # Fingerprint[r]
          PROVE  \E q \in Requests : Granted(q, x, p.dedup[x])'
      <4>1. PICK q \in Requests : Granted(q, x, m.dedup[x])
        BY <1>1, <3>1, <3>3 DEF HonestEntries
      <4>. QED
        BY <3>1, <3>3, <4>1 DEF HistoryKept, Granted
    <3>4. Granted(r, Fingerprint[r], p.dedup[Fingerprint[r]])'
      BY <1>2, <3>1, <3>2 DEF Granted, NewEntry
    <3>. QED
      BY <3>3, <3>4 DEF HonestEntries, Granted
  <2>. QED
    BY <2>1, <2>2, RequestsAssumption DEF Entries
<1>5. \A c \in Copies' : HonestEntries(c)'
  <2>1. \A c \in Copies : HonestEntries(c)
    BY DEF Honest
  <2>2. Copies' \subseteq Copies \cup {p}
    BY ChecksGrows, GrowsCopies
  <2>. QED
    BY <1>4, <2>1, <2>2, HonestKept
<1>6. v = "duplicate" => HonestDuplicate(r)'
  <2> SUFFICES ASSUME v = "duplicate"
               PROVE  HonestDuplicate(r)'
    OBVIOUS
  <2> DEFINE e == m.dedup[Fingerprint[r]]
  <2>1. Fingerprint[r] \in DOMAIN m.dedup /\ now - e.at < DedupWindow[r] /\ e.at \in 0..now
    BY <1>1 DEF Reason, IsRuntimeState
  <2>2. PICK s \in Requests : Granted(s, Fingerprint[r], e)
    BY <1>1, <2>1 DEF HonestEntries
  <2>3. s # r
    BY <1>3, <2>2 DEF Granted, Passed
  <2>4. Passed(s)' /\ checked'[s].at = e.at /\ ~Forced[s] /\ Fingerprint[s] = Fingerprint[r]
    BY <2>2 DEF HistoryKept, Granted
  <2>5. checked'[s].at \in (checked'[r].at - DedupWindow[r] + 1)..checked'[r].at
    BY <1>1, <1>3, <2>1, <2>4, RequestsAssumption
  <2>. QED
    BY <2>3, <2>4, <2>5 DEF HonestDuplicate
<1>7. \A q \in Requests \ {r} : status'[q] = status[q]
  BY DEF Checks, TypeOK
<1>. QED
  BY <1>3, <1>5, <1>6, <1>7, HonestStays

LEMMA HonestStep == ASSUME TypeOK, Honest, [Next]_vars PROVE Honest'
<1>1. HistoryKept
  BY HistoryIsKept
<1>2. ASSUME Copies' \subseteq Copies \cup {Empty},
             \A r \in Requests : status'[r] = "duplicate" => status[r] = "duplicate"
      PROVE  Honest'
  <2>1. \A m \in Copies' : HonestEntries(m)
    BY <1>2, EmptyIs DEF Honest
  <2>. QED
    BY <1>1, <1>2, <2>1, HonestKept, HonestStays
<1>3. ASSUME NEW r \in Requests, Request(r) PROVE Honest'
  <2>1. CASE Precheck(r)
    BY <1>1, <2>1, PrecheckIs, ChecksHonest
  <2>2. CASE Arrive(r) \/ Enqueue(r) \/ Preview(r) \/ Deliver(r) \/ Strand(r)
    <3>1. \A q \in Requests : status'[q] = "duplicate" => status[q] = "duplicate"
      BY <2>2, QuietRequests
    <3>2. \E g, p : Grows(g, p) /\ p.dedup = mem[g].dedup
      BY <2>2, ArriveGrows, EnqueueGrows, PreviewGrows, DeliverIs, StrandGrows
    <3>. QED
      BY <1>1, <3>1, <3>2, GrowsHonest
  <2>. QED
    BY <1>3, <2>1, <2>2 DEF Request
<1>4. ASSUME NEW f \in Snoozers, Snooze(f) \/ SnoozeSave(f) \/ SnoozeReturn(f) PROVE Honest'
  <2>1. status' = status
    BY <1>4 DEF Snooze, SnoozeSave, SnoozeReturn, requestVars
  <2>2. \E g, p : Grows(g, p) /\ p.dedup = mem[g].dedup
    BY <1>4, SnoozeIs, SnoozeSaveGrows, SnoozeReturnGrows
  <2>. QED
    BY <1>1, <2>1, <2>2, GrowsHonest
<1>5. ASSUME NEW g \in Gens, WriteStore(g) PROVE Honest'
  BY <1>2, <1>5, WriteStoreCopies DEF WriteStore, requestVars
<1>6. CASE Close \/ FinalSave
  <2>1. status' = status
    BY <1>6 DEF Close, FinalSave, requestVars
  <2>. QED
    BY <1>1, <1>6, <2>1, CloseGrows, FinalSaveGrows, GrowsHonest
<1>7. CASE Reload
  BY <1>2, <1>7, ReloadIs, ReloadCopies DEF requestVars
<1>8. CASE Crash
  BY <1>2, <1>8, CrashCopies DEF Crash
<1>9. CASE Tick \/ UNCHANGED vars
  BY <1>2, <1>9, CopiesStay DEF Tick, vars, stateVars, requestVars
<1>. QED
  BY <1>3, <1>4, <1>5, <1>6, <1>7, <1>8, <1>9 DEF Next

-----------------------------------------------------------------------------
(* Every stamp is that of a delivery.                                      *)

LEMMA RecordedStays ==
    ASSUME HistoryKept, Recorded, Copies' \subseteq Copies \cup {Empty}
    PROVE  Recorded'
<1>1. \A m \in Copies' : \A h \in DOMAIN m.last :
        \E q \in Requests : status[q] = "sent" /\ h \in Stamps[q] /\ sent[q].at = m.last[h]
  BY DEF Recorded, Empty, NoEntries
<1>. QED
  BY <1>1 DEF Recorded, HistoryKept

LEMMA GrowsRecorded ==
    ASSUME TypeOK, HistoryKept, Recorded, NEW g, NEW p, Grows(g, p), Stampless(mem[g], p)
    PROVE  Recorded'
<1>1. \A m \in Copies' : \A h \in DOMAIN m.last :
        \E q \in Requests : status[q] = "sent" /\ h \in Stamps[q] /\ sent[q].at = m.last[h]
  BY GrowsCopies, CopiesAre DEF Recorded, Grows, Stampless
<1>. QED
  BY <1>1 DEF Recorded, HistoryKept

LEMMA DeliverRecorded ==
    ASSUME TypeOK, HistoryKept, Recorded, NEW r \in Requests, Deliver(r)
    PROVE  Recorded'
<1> DEFINE g == owner[r]
<1>1. PICK p :
        /\ Grows(g, p)
        /\ \/ Stampless(mem[g], p)
           \/ /\ status' = [status EXCEPT ![r] = "sent"] /\ sent' = [sent EXCEPT ![r] = Stamp]
              /\ \A h \in DOMAIN p.last :
                    \/ h \in DOMAIN mem[g].last /\ p.last[h] = mem[g].last[h]
                    \/ h \in Stamps[r] /\ p.last[h] = now
  BY DeliverIs
<1>2. CASE Stampless(mem[g], p)
  BY <1>1, <1>2, GrowsRecorded
<1>3. ASSUME status' = [status EXCEPT ![r] = "sent"], sent' = [sent EXCEPT ![r] = Stamp],
             \A h \in DOMAIN p.last :
                    \/ h \in DOMAIN mem[g].last /\ p.last[h] = mem[g].last[h]
                    \/ h \in Stamps[r] /\ p.last[h] = now
      PROVE  Recorded'
  <2>1. status'[r] = "sent" /\ sent'[r].at = now
    BY <1>3, StampIs DEF TypeOK
  <2>2. \A m \in Copies : \A h \in DOMAIN m.last :
          \E q \in Requests : status'[q] = "sent" /\ h \in Stamps[q] /\ sent'[q].at = m.last[h]
    BY DEF Recorded, HistoryKept
  <2>3. mem[g] \in Copies
    BY CopiesAre
  <2>4. \A h \in DOMAIN p.last :
          \E q \in Requests : status'[q] = "sent" /\ h \in Stamps[q] /\ sent'[q].at = p.last[h]
    BY <1>3, <2>1, <2>2, <2>3
  <2>5. Copies' \subseteq Copies \cup {p}
    BY <1>1, GrowsCopies
  <2>. QED
    BY <2>2, <2>4, <2>5 DEF Recorded
<1>. QED
  BY <1>1, <1>2, <1>3

LEMMA RecordedStep == ASSUME TypeOK, Recorded, [Next]_vars PROVE Recorded'
<1>1. HistoryKept
  BY HistoryIsKept
<1>2. \A g : Stampless(mem[g], mem[g])
  BY DEF Stampless
<1>3. ASSUME NEW r \in Requests, Request(r) PROVE Recorded'
  <2>1. CASE Deliver(r)
    BY <1>1, <2>1, DeliverRecorded
  <2>2. CASE Precheck(r)
    BY <1>1, <2>2, PrecheckIs, ChecksGrows, GrowsRecorded DEF Checks, Stampless
  <2>3. CASE Arrive(r) \/ Enqueue(r) \/ Preview(r) \/ Strand(r)
    BY <1>1, <1>2, <2>3, ArriveGrows, EnqueueGrows, PreviewGrows, StrandGrows, GrowsRecorded
  <2>. QED
    BY <1>3, <2>1, <2>2, <2>3 DEF Request
<1>4. ASSUME NEW f \in Snoozers, Snooze(f) \/ SnoozeSave(f) \/ SnoozeReturn(f) PROVE Recorded'
  BY <1>1, <1>2, <1>4, SnoozeIs, SnoozeSaveGrows, SnoozeReturnGrows, GrowsRecorded
<1>5. ASSUME NEW g \in Gens, WriteStore(g) PROVE Recorded'
  BY <1>1, <1>5, WriteStoreCopies, RecordedStays
<1>6. CASE Close \/ FinalSave
  BY <1>1, <1>2, <1>6, CloseGrows, FinalSaveGrows, GrowsRecorded
<1>7. CASE Reload
  BY <1>1, <1>7, ReloadCopies, RecordedStays
<1>8. CASE Crash
  BY <1>1, <1>8, CrashCopies, RecordedStays
<1>9. CASE Tick \/ UNCHANGED vars
  BY <1>1, <1>9, CopiesStay, RecordedStays DEF Tick, vars, stateVars
<1>. QED
  BY <1>3, <1>4, <1>5, <1>6, <1>7, <1>8, <1>9 DEF Next

-----------------------------------------------------------------------------
(* The queue and the snapshots of the future.                              *)

LEMMA QueuesStep == ASSUME TypeOK, Queues, [Next]_vars PROVE Queues'
<1>1. \A r \in Requests : owner[r] \in Nat /\ owner[r] <= gen /\ gen \in Nat
  BY CopiesAre, GenIs DEF Gens
<1>2. ASSUME NEW g, NEW p, Grows(g, p) PROVE \A h \in Gens : h > gen' => toSave'[h] = {}
  BY <1>2, GenIs DEF Grows, Local, Queues, Gens
<1>3. ASSUME UNCHANGED <<gen, phase, status, owner, toSave>> PROVE Queues'
  BY <1>3 DEF Queues
<1>4. ASSUME NEW r \in Requests, Request(r) PROVE Queues'
  <2>1. \E g, p : Grows(g, p)
    BY <1>4, ArriveGrows, PrecheckIs, ChecksGrows, EnqueueGrows, PreviewGrows, DeliverIs, StrandGrows DEF Request
  <2>2. gen' = gen /\ phase' = phase
    BY <1>4 DEF Request, Arrive, Precheck, Enqueue, Preview, Deliver, Strand, stateVars
  <2>3. ASSUME NEW q \in Requests, status'[q] = "queued" PROVE owner'[q] = gen /\ phase \in {"running", "draining"}
    <3>1. CASE Arrive(r)
      BY <2>3, <3>1 DEF Arrive, Queues, TypeOK
    <3>2. CASE Precheck(r)
      BY <2>3, <3>2, PrecheckIs DEF Checks, Queues, TypeOK
    <3>3. CASE Enqueue(r)
      BY <1>1, <2>3, <3>3 DEF Enqueue, Closed, Queues, TypeOK
    <3>4. CASE Preview(r)
      BY <2>3, <3>4 DEF Preview, requestVars, Queues
    <3>5. CASE Deliver(r)
      <4>1. status'[q] = status[q] \/ status'[q] \in {"sent", "unsent"}
        BY <3>5, DeliverIs DEF TypeOK
      <4>. QED
        BY <2>3, <3>5, <4>1 DEF Deliver, Queues
    <3>6. CASE Strand(r)
      BY <2>3, <3>6 DEF Strand, Queues, TypeOK
    <3>. QED
      BY <1>4, <3>1, <3>2, <3>3, <3>4, <3>5, <3>6 DEF Request
  <2>. QED
    BY <1>2, <2>1, <2>2, <2>3 DEF Queues
<1>5. ASSUME NEW f \in Snoozers, Snooze(f) \/ SnoozeSave(f) \/ SnoozeReturn(f) PROVE Queues'
  <2>1. \E g, p : Grows(g, p)
    BY <1>5, SnoozeIs, SnoozeSaveGrows, SnoozeReturnGrows
  <2>2. UNCHANGED <<gen, phase, status, owner>>
    BY <1>5 DEF Snooze, SnoozeSave, SnoozeReturn, stateVars, requestVars
  <2>. QED
    BY <1>2, <2>1, <2>2 DEF Queues
<1>6. ASSUME NEW g \in Gens, WriteStore(g) PROVE Queues'
  <2>1. UNCHANGED <<gen, status, owner>> /\ toSave' = [toSave EXCEPT ![g] = {}]
    BY <1>6 DEF WriteStore, requestVars
  <2>2. phase' = IF phase = "saving" /\ g = gen THEN "unloaded" ELSE phase
    BY <1>6 DEF WriteStore
  <2>3. \A h \in Gens : h > gen => toSave'[h] = {}
    BY <2>1 DEF Queues, TypeOK
  <2>. QED
    BY <2>1, <2>2, <2>3 DEF Queues
<1>7. CASE Close
  BY <1>2, <1>7, CloseGrows DEF Close, Queues, requestVars
<1>8. CASE FinalSave
  BY <1>2, <1>8, FinalSaveGrows DEF FinalSave, Queues, requestVars
<1>9. CASE Reload
  <2>1. \A h \in Gens : h > gen + 1 => toSave'[h] = {}
    <3>1. \A h \in Gens : h > gen + 1 => h > gen /\ h # gen + 1
      BY GenIs DEF Gens
    <3>2. \A h \in Gens : h # gen + 1 => toSave'[h] = toSave[h]
      BY <1>9, ReloadIs DEF TypeOK
    <3>. QED
      BY <3>1, <3>2 DEF Queues
  <2>. QED
    BY <1>1, <1>9, <2>1, ReloadIs DEF Queues, requestVars
<1>10. CASE Crash
  BY <1>10, CrashIs DEF Crash, Queues
<1>11. CASE Tick \/ UNCHANGED vars
  BY <1>3, <1>11 DEF Tick, vars, stateVars, requestVars
<1>. QED
  BY <1>4, <1>5, <1>6, <1>7, <1>8, <1>9, <1>10, <1>11 DEF Next

-----------------------------------------------------------------------------
(* What was granted and delivered is remembered.                           *)

\* A crash or a late write begins an era of its own.
LEMMA NewEra ==
    ASSUME TypeOK, HistoryKept, Era' # Era, NEW s \in Requests, checked'[s] = checked[s], sent'[s] = sent[s], NEW m
    PROVE  KnowsCheck(m, s)' /\ KnowsDelivery(m, s)'
<1>1. checked[s] \in StampType /\ sent[s] \in StampType
  BY DEF TypeOK
<1>2. crashes < crashes' \/ late < late'
  BY DEF HistoryKept, Era, TypeOK
<1>3. checked[s].era # Era' /\ sent[s].era # Era'
  BY <1>1, <1>2 DEF StampType, Era, HistoryKept, TypeOK
<1>. QED
  BY <1>3 DEF KnowsCheck, KnowsDelivery, Era

LEMMA KnowsCheckStays ==
    ASSUME TypeOK, HistoryKept, Era' = Era, NEW m, NEW p, IsRuntimeState(m), IsRuntimeState(p),
           HonestEntries(m), Keeps(m, p), NEW s \in Requests, Passed(s), KnowsCheck(m, s)
    PROVE  KnowsCheck(p, s)'
<1> DEFINE fp == Fingerprint[s]
<1>1. now \in Nat /\ now' \in Nat /\ now <= now' /\ Passed(s)' /\ checked'[s] = checked[s]
  BY GenIs DEF HistoryKept
<1>2. \A q \in Requests : checked[q].at \in Nat /\ DedupWindow[q] \in Nat
  BY GenIs, RequestsAssumption DEF TypeOK, StampType
<1>3. \A q \in Requests : Passed(q) => Passed(q)' /\ checked'[q] = checked[q]
  BY DEF HistoryKept
<1>4. SUFFICES ASSUME Reserves(m, s)
               PROVE  Reserves(p, s)'
  BY <1>1 DEF KnowsCheck
<1>5. ASSUME NEW q \in Requests, Passed(q), ~Forced[q], Fingerprint[q] = fp, DedupWindow[q] > 0,
             checked[s].at <= checked[q].at, checked[q].at + DedupWindow[q] <= now
      PROVE  Reserves(p, s)'
  <2>1. checked'[q].at + DedupWindow[q] <= now' /\ checked'[s].at <= checked'[q].at
    BY <1>1, <1>2, <1>3, <1>5
  <2>. QED
    BY <1>3, <1>5, <2>1 DEF Reserves
<1>6. CASE fp \in DOMAIN m.dedup /\ checked[s].at <= m.dedup[fp].at
  <2>1. m.dedup[fp].at \in Nat /\ m.dedup[fp].expires \in Nat
    BY <1>6 DEF IsRuntimeState
  <2>2. CASE fp \in DOMAIN p.dedup /\ m.dedup[fp].at <= p.dedup[fp].at
    <3>1. p.dedup[fp].at \in Nat
      BY <2>2 DEF IsRuntimeState
    <3>. QED
      BY <1>1, <1>2, <1>6, <2>1, <2>2, <3>1 DEF Reserves
  <2>3. CASE m.dedup[fp].expires <= now
    <3>1. PICK q \in Requests : Granted(q, fp, m.dedup[fp])
      BY <1>6 DEF HonestEntries
    <3>. QED
      BY <1>5, <1>6, <2>3, <3>1 DEF Granted
  <2>. QED
    BY <1>6, <2>2, <2>3 DEF Keeps
<1>. QED
  BY <1>4, <1>5, <1>6 DEF Reserves

LEMMA KnowsDeliveryStays ==
    ASSUME TypeOK, HistoryKept, Era' = Era, NEW m, NEW p, IsRuntimeState(m), IsRuntimeState(p),
           Keeps(m, p), NEW s \in Requests, status[s] = "sent", KnowsDelivery(m, s)
    PROVE  KnowsDelivery(p, s)'
<1>1. status'[s] = "sent" /\ sent'[s] = sent[s] /\ sent[s].at \in Nat
  BY DEF HistoryKept, TypeOK, StampType
<1>2. (\A h \in DOMAIN m.last : m.last[h] \in Nat) /\ (\A h \in DOMAIN p.last : p.last[h] \in Nat)
  BY DEF IsRuntimeState
<1>3. ASSUME NEW h \in Stamps[s], sent[s].era = Era PROVE HasStamp(p.last, h, sent[s].at)
  <2>1. HasStamp(m.last, h, sent[s].at)
    BY <1>3 DEF KnowsDelivery
  <2>2. \A k \in DOMAIN m.last : HasStamp(p.last, k, m.last[k])
    BY DEF Keeps, Behind
  <2>. QED
    BY <1>1, <1>2, <2>1, <2>2, StampStays
<1>. QED
  BY <1>1, <1>3 DEF KnowsDelivery, Era

LEMMA RemembersStays ==
    ASSUME TypeOK, Honest, HistoryKept, Era' = Era, NEW m \in Copies, Remembers(m), NoneSent,
           \A q \in Requests : Accepted(q)' => Accepted(q)
    PROVE  Remembers(m)'
<1>1. IsRuntimeState(m) /\ HonestEntries(m) /\ Keeps(m, m)
  BY GenIs, KeepsItself DEF TypeOK, Honest
<1>2. ASSUME NEW s \in Requests, Accepted(s)' PROVE KnowsCheck(m, s)'
  BY <1>1, <1>2, KnowsCheckStays DEF Remembers, Accepted, Passed
<1>3. ASSUME NEW s \in Requests, status'[s] = "sent" PROVE KnowsDelivery(m, s)'
  BY <1>1, <1>3, KnowsDeliveryStays DEF Remembers, NoneSent
<1>. QED
  BY <1>2, <1>3 DEF Remembers, KnowsDelivery

\* What the coordinator in charge knows, after any step but a set-up.
LEMMA InMemoryStays ==
    ASSUME TypeOK, Honest, InMemory, HistoryKept, Era' = Era, NEW p, mem'[gen'] = p,
           IsRuntimeState(p), Keeps(mem[gen], p),
           \A s \in Requests : Live(s)' => Live(s) \/ KnowsCheck(p, s)',
           \A s \in Requests : status'[s] = "sent" => status[s] = "sent" \/ KnowsDelivery(p, s)'
    PROVE  InMemory'
<1> DEFINE m == mem[gen]
<1>1. IsRuntimeState(mem[gen]) /\ HonestEntries(mem[gen])
  BY GenIs, CopiesAre DEF TypeOK, Honest
<1>2. ASSUME NEW s \in Requests, Live(s)' PROVE KnowsCheck(p, s)'
  BY <1>1, <1>2, KnowsCheckStays DEF InMemory, Live, Accepted, Passed
<1>3. ASSUME NEW s \in Requests, status'[s] = "sent" PROVE KnowsDelivery(p, s)'
  BY <1>1, <1>3, KnowsDeliveryStays DEF InMemory
<1>4. \A s \in Requests : KnowsDelivery(p, s)'
  BY <1>3 DEF KnowsDelivery
<1>. QED
  BY <1>2, <1>4 DEF InMemory, KnowsCheck, KnowsDelivery, Reserves

LEMMA GrowsMemory ==
    ASSUME TypeOK, NEW g, NEW p, Grows(g, p)
    PROVE  /\ mem'[gen'] = IF g = gen THEN p ELSE mem[gen]
           /\ IsRuntimeState(mem'[gen'])
           /\ Keeps(mem[gen], mem'[gen'])
           /\ Era' = Era
<1>1. mem'[gen'] = IF g = gen THEN p ELSE mem[gen]
  BY GenIs DEF Grows, Local
<1>2. IsRuntimeState(mem[gen]) /\ Keeps(mem[gen], mem[gen])
  BY GenIs, CopiesAre, KeepsItself DEF TypeOK
<1>. QED
  BY <1>1, <1>2 DEF Grows, Local, Era, envVars

LEMMA ChecksInMemory ==
    ASSUME TypeOK, Honest, InMemory, HistoryKept, NoneSent, NEW r \in Requests, NEW v, NEW p, Checks(r, v, p),
           Entries(r, v, mem[owner[r]].dedup, p.dedup)
    PROVE  InMemory'
<1>1. Grows(owner[r], p) /\ now \in Nat
  BY ChecksGrows, GenIs
<1>2. now' = now /\ gen' = gen /\ owner' = owner /\ Era' = Era
  BY DEF Checks, Local, envVars, Era
<1>3. ASSUME NEW s \in Requests, Live(s)', ~Live(s) PROVE KnowsCheck(p, s)' /\ mem'[gen'] = p
  <2>1. s = r /\ v = "reserved" /\ owner[r] = gen
    BY <1>2, <1>3 DEF Checks, Live, Accepted, TypeOK
  <2>2. checked'[s].at = now /\ mem'[gen'] = p
    BY <1>1, <2>1, GrowsMemory, StampIs DEF Checks, TypeOK
  <2>3. ~Forced[r] /\ DedupWindow[r] > 0 => Fingerprint[r] \in DOMAIN p.dedup /\ p.dedup[Fingerprint[r]].at = now
    BY <2>1 DEF Entries, NewEntry
  <2>. QED
    BY <1>1, <2>1, <2>2, <2>3 DEF KnowsCheck, Reserves
<1>4. CASE \E s \in Requests : Live(s)' /\ ~Live(s)
  <2>1. mem'[gen'] = p /\ \A s \in Requests : Live(s)' => Live(s) \/ KnowsCheck(p, s)'
    BY <1>3, <1>4
  <2>. QED
    BY <1>1, <1>2, <2>1, GrowsMemory, InMemoryStays DEF NoneSent
<1>5. CASE NoneLive
  BY <1>1, <1>2, <1>5, GrowsMemory, InMemoryStays DEF NoneSent, NoneLive
<1>. QED
  BY <1>4, <1>5 DEF NoneLive

LEMMA DeliverInMemory ==
    ASSUME TypeOK, Honest, InMemory, Queues, HistoryKept, NEW r \in Requests, Deliver(r)
    PROVE  InMemory'
<1>1. PICK p :
        /\ Grows(owner[r], p)
        /\ \/ status' = [status EXCEPT ![r] = "unsent"] /\ sent' = sent
           \/ /\ status' = [status EXCEPT ![r] = "sent"] /\ sent' = [sent EXCEPT ![r] = Stamp]
              /\ \A h \in Stamps[r] : HasStamp(p.last, h, now)
  BY DeliverIs
<1>2. owner[r] = gen /\ NoneLive /\ now \in Nat
  BY QuietRequests, GenIs DEF Deliver, Queues
<1>3. mem'[gen'] = p
  BY <1>1, <1>2, GrowsMemory
<1>4. ASSUME NEW s \in Requests, status'[s] = "sent", status[s] # "sent" PROVE KnowsDelivery(p, s)'
  <2>1. s = r /\ sent'[r].at = now /\ \A h \in Stamps[r] : HasStamp(p.last, h, now)
    BY <1>1, <1>4, StampIs DEF TypeOK
  <2>. QED
    BY <1>2, <2>1 DEF KnowsDelivery
<1>. QED
  BY <1>1, <1>2, <1>3, <1>4, GrowsMemory, InMemoryStays DEF NoneLive, Grows

\* The steps that nobody passes and nothing is delivered in.
LEMMA GrowsInMemory ==
    ASSUME TypeOK, Honest, InMemory, HistoryKept, NEW g, NEW p, Grows(g, p), NoneLive, NoneSent
    PROVE  InMemory'
  BY GrowsMemory, InMemoryStays DEF NoneLive, NoneSent

LEMMA InMemoryStep == ASSUME TypeOK, Honest, Queues, Remembered, [Next]_vars PROVE InMemory'
<1>1. HistoryKept /\ InMemory
  BY HistoryIsKept DEF Remembered
<1>2. ASSUME NEW r \in Requests, Request(r) PROVE InMemory'
  <2>1. CASE Precheck(r)
    BY <1>1, <2>1, PrecheckIs, ChecksHistory, ChecksInMemory
  <2>2. CASE Deliver(r)
    BY <1>1, <2>2, DeliverInMemory
  <2>3. CASE Arrive(r) \/ Enqueue(r) \/ Preview(r) \/ Strand(r)
    <3>1. NoneSent
      BY <2>3 DEF Arrive, Enqueue, Preview, Strand, requestVars, NoneSent, TypeOK
    <3>2. \E g, p : Grows(g, p)
      BY <2>3, ArriveGrows, EnqueueGrows, PreviewGrows, StrandGrows
    <3>. QED
      BY <1>1, <2>3, <3>1, <3>2, QuietRequests, GrowsInMemory
  <2>. QED
    BY <1>2, <2>1, <2>2, <2>3 DEF Request
<1>3. ASSUME UNCHANGED <<status, owner, gen>> PROVE NoneLive /\ NoneSent
  BY <1>3 DEF NoneLive, NoneSent, Live, Accepted
<1>4. ASSUME NEW f \in Snoozers, Snooze(f) \/ SnoozeSave(f) \/ SnoozeReturn(f) PROVE InMemory'
  <2>1. UNCHANGED <<status, owner, gen>>
    BY <1>4 DEF Snooze, SnoozeSave, SnoozeReturn, requestVars, stateVars
  <2>2. \E g, p : Grows(g, p)
    BY <1>4, SnoozeIs, SnoozeSaveGrows, SnoozeReturnGrows
  <2>. QED
    BY <1>1, <1>3, <2>1, <2>2, GrowsInMemory
<1>5. CASE Close \/ FinalSave
  <2>1. UNCHANGED <<status, owner, gen>>
    BY <1>5 DEF Close, FinalSave, requestVars
  <2>. QED
    BY <1>1, <1>3, <1>5, <2>1, CloseGrows, FinalSaveGrows, GrowsInMemory
<1>6. IsRuntimeState(mem[gen]) /\ Keeps(mem[gen], mem[gen]) /\ gen \in Nat /\ late \in Nat /\ crashes \in Nat
  BY GenIs, CopiesAre, KeepsItself DEF TypeOK
<1>7. ASSUME UNCHANGED <<mem, gen, status, owner, crashes, late>> PROVE InMemory'
  <2>1. Era' = Era /\ mem'[gen'] = mem[gen]
    BY <1>7 DEF Era
  <2>. QED
    BY <1>1, <1>3, <1>6, <1>7, <2>1, InMemoryStays DEF NoneLive, NoneSent
<1>8. ASSUME NEW g \in Gens, WriteStore(g) PROVE InMemory'
  <2>1. CASE g < gen
    <3>1. Era' # Era /\ UNCHANGED <<checked, sent>>
      BY <1>6, <1>8, <2>1 DEF WriteStore, Era, requestVars
    <3>. QED
      BY <1>1, <3>1, NewEra DEF InMemory, KnowsCheck, KnowsDelivery, Reserves
  <2>2. CASE ~(g < gen)
    BY <1>7, <1>8, <2>2 DEF WriteStore, requestVars
  <2>. QED
    BY <2>1, <2>2
<1>9. CASE Reload
  <2>1. mem'[gen'] = disk /\ UNCHANGED <<requestVars, envVars>> /\ phase = "unloaded" /\ gen' = gen + 1
    BY <1>9, ReloadIs DEF TypeOK
  <2>2. Remembers(disk)'
    <3>1. Remembers(disk) /\ disk \in Copies
      BY <2>1, CopiesAre DEF Remembered, OnTheWay
    <3>2. IsRuntimeState(disk) /\ HonestEntries(disk) /\ Keeps(disk, disk)
      BY <3>1, GenIs, KeepsItself DEF TypeOK, Honest
    <3>3. Era' = Era /\ UNCHANGED <<status, sent>> /\ disk' = disk
      BY <2>1, <1>9, ReloadIs DEF Era, requestVars, envVars
    <3>4. ASSUME NEW s \in Requests, Accepted(s) PROVE KnowsCheck(disk, s)'
      BY <1>1, <3>1, <3>2, <3>3, <3>4, KnowsCheckStays DEF Remembers, Accepted, Passed, KnowsCheck, Reserves
    <3>5. ASSUME NEW s \in Requests, status[s] = "sent" PROVE KnowsDelivery(disk, s)'
      BY <1>1, <3>1, <3>2, <3>3, <3>5, KnowsDeliveryStays DEF Remembers, KnowsDelivery
    <3>. QED
      BY <3>3, <3>4, <3>5 DEF Remembers, Accepted, KnowsDelivery
  <2>3. \A s \in Requests : Live(s)' => Accepted(s)'
    <3>1. \A s \in Requests : owner[s] <= gen /\ owner[s] \in Nat
      BY CopiesAre DEF Gens
    <3>. QED
      BY <1>6, <2>1, <3>1 DEF Live, requestVars
  <2>4. disk' = disk
    BY <1>9, ReloadIs
  <2>. QED
    BY <2>1, <2>2, <2>3, <2>4 DEF InMemory, Remembers, KnowsCheck, KnowsDelivery, Reserves
<1>10. CASE Crash
  <2>1. Era' # Era /\ UNCHANGED <<checked, sent>>
    BY <1>6, <1>10, CrashIs DEF Era
  <2>. QED
    BY <1>1, <2>1, NewEra DEF InMemory, KnowsCheck, KnowsDelivery, Reserves
<1>11. CASE Tick \/ UNCHANGED vars
  BY <1>7, <1>11 DEF Tick, vars, stateVars, requestVars, envVars
<1>. QED
  BY <1>2, <1>4, <1>5, <1>8, <1>9, <1>10, <1>11 DEF Next

LEMMA OnTheWayStays ==
    ASSUME TypeOK, Honest, OnTheWay, InMemory', HistoryKept, Era' = Era, gen' = gen, NoneSent,
           \A q \in Requests : Accepted(q)' => Accepted(q),
           phase' = phase, disk' = disk,
           \A m \in toSave'[gen] : m \in toSave[gen] \/ m = mem'[gen]
    PROVE  OnTheWay'
<1>1. Remembers(mem[gen])'
  BY DEF InMemory, Remembers, Live, KnowsCheck, KnowsDelivery, Reserves
<1>. QED
  <2>1. ASSUME phase \in {"saving", "unloaded"}, NEW m \in toSave'[gen] PROVE Remembers(m)'
    <3>1. CASE m = mem'[gen]
      BY <1>1, <3>1, gen' = gen DEF Remembers, KnowsCheck, KnowsDelivery, Reserves
    <3>2. CASE m \in toSave[gen]
      <4>1. m \in Copies /\ Remembers(m)
        BY <2>1, <3>2, GenIs, CopiesAre DEF OnTheWay
      <4>. QED
        BY <4>1, RemembersStays
    <3>. QED
      BY <3>1, <3>2
  <2>2. ASSUME phase = "unloaded" PROVE Remembers(disk)'
    <3>1. disk \in Copies /\ Remembers(disk)
      BY <2>2, CopiesAre DEF OnTheWay
    <3>2. ASSUME NEW m, m = disk PROVE Remembers(m)'
      BY <3>1, <3>2, RemembersStays
    <3>. QED
      BY <3>2 DEF Remembers, KnowsCheck, KnowsDelivery, Reserves
  <2>. QED
    BY <2>1, <2>2 DEF OnTheWay

LEMMA GrowsOnTheWay ==
    ASSUME TypeOK, Honest, OnTheWay, InMemory', HistoryKept, NEW g, NEW p, Grows(g, p), phase' = phase,
           phase \in {"saving", "unloaded"} => NoneSent /\ \A q \in Requests : Accepted(q)' => Accepted(q)
    PROVE  OnTheWay'
<1>1. gen' = gen /\ disk' = disk /\ Era' = Era
  BY GrowsMemory DEF Grows, Local
<1>2. \A m \in toSave'[gen] : m \in toSave[gen] \/ m = mem'[gen]
  BY GenIs DEF Grows, Local
<1>3. CASE phase \in {"saving", "unloaded"}
  BY <1>1, <1>2, <1>3, OnTheWayStays
<1>4. CASE phase \notin {"saving", "unloaded"}
  BY <1>4 DEF OnTheWay
<1>. QED
  BY <1>3, <1>4

LEMMA OnTheWayStep == ASSUME TypeOK, Honest, Queues, Remembered, InMemory', [Next]_vars PROVE OnTheWay'
<1>1. HistoryKept /\ OnTheWay
  BY HistoryIsKept DEF Remembered
<1>2. phase' \notin {"saving", "unloaded"} => OnTheWay'
  BY DEF OnTheWay
<1>3. ASSUME NEW r \in Requests, Request(r) PROVE OnTheWay'
  <2>1. phase' = phase
    BY <1>3 DEF Request, Arrive, Precheck, Enqueue, Preview, Deliver, Strand, stateVars
  <2>2. \E g, p : Grows(g, p)
    BY <1>3, ArriveGrows, PrecheckIs, ChecksGrows, EnqueueGrows, PreviewGrows, DeliverIs, StrandGrows DEF Request
  <2>3. ASSUME phase \in {"saving", "unloaded"}
        PROVE  NoneSent /\ \A q \in Requests : Accepted(q)' => Accepted(q)
    <3>1. status[r] # "queued"
      BY <2>3 DEF Queues
    <3>2. \A q \in Requests : status'[q] = status[q] \/ status'[q] \in {"checking", "dropped", "duplicate", "reserved", "rejected"}
      <4>1. CASE Precheck(r)
        BY <4>1, PrecheckIs DEF Checks, TypeOK
      <4>2. CASE Enqueue(r)
        <5>1. Closed(owner[r])
          BY <2>3 DEF Closed
        <5>. QED
          BY <4>2, <5>1 DEF Enqueue, TypeOK
      <4>. QED
        BY <1>3, <3>1, <4>1, <4>2 DEF Request, Arrive, Preview, Deliver, Strand, requestVars, TypeOK
    <3>. QED
      BY <3>2 DEF NoneSent, Accepted
  <2>. QED
    BY <1>1, <2>1, <2>2, <2>3, GrowsOnTheWay
<1>4. ASSUME status' = status PROVE NoneSent /\ \A q \in Requests : Accepted(q)' => Accepted(q)
  BY <1>4 DEF NoneSent, Accepted
<1>5. ASSUME NEW f \in Snoozers, Snooze(f) \/ SnoozeSave(f) \/ SnoozeReturn(f) PROVE OnTheWay'
  <2>1. status' = status /\ phase' = phase
    BY <1>5 DEF Snooze, SnoozeSave, SnoozeReturn, requestVars, stateVars
  <2>2. \E g, p : Grows(g, p)
    BY <1>5, SnoozeIs, SnoozeSaveGrows, SnoozeReturnGrows
  <2>. QED
    BY <1>1, <1>4, <2>1, <2>2, GrowsOnTheWay
<1>6. ASSUME NEW g \in Gens, WriteStore(g) PROVE OnTheWay'
  <2>1. /\ UNCHANGED <<gen, status, checked, sent, mem, now, crashes>> /\ toSave' = [toSave EXCEPT ![g] = {}]
        /\ disk' \in toSave[g] /\ late' = IF g < gen THEN late + 1 ELSE late
        /\ phase' = IF phase = "saving" /\ g = gen THEN "unloaded" ELSE phase
    BY <1>6 DEF WriteStore, requestVars
  <2>2. CASE g < gen
    <3>1. Era' # Era
      BY <2>1, <2>2 DEF Era, TypeOK
    <3>2. ASSUME NEW m PROVE Remembers(m)'
      BY <1>1, <2>1, <3>1, NewEra DEF Remembers
    <3>. QED
      BY <3>2 DEF OnTheWay, Remembers, KnowsCheck, KnowsDelivery, Reserves
  <2>3. CASE g = gen
    <3>1. toSave'[gen] = {} /\ gen' = gen /\ Era' = Era
      BY <2>1, <2>3, GenIs DEF TypeOK, Era
    <3>2. ASSUME phase' = "unloaded" PROVE Remembers(disk)'
      <4>1. ASSUME NEW m, m = disk' PROVE Remembers(m)'
        <5>1. m \in Copies /\ Remembers(m)
          BY <2>1, <2>3, <3>2, <4>1, CopiesAre, <1>1 DEF OnTheWay
        <5>. QED
          BY <1>1, <1>4, <2>1, <3>1, <5>1, RemembersStays
      <4>. QED
        BY <4>1 DEF Remembers, KnowsCheck, KnowsDelivery, Reserves
    <3>. QED
      BY <3>1, <3>2 DEF OnTheWay
  <2>4. CASE g > gen
    BY <2>1, <2>4 DEF Queues
  <2>5. g \in Nat /\ gen \in Nat
    BY GenIs DEF Gens
  <2>. QED
    BY <2>2, <2>3, <2>4, <2>5
<1>7. CASE FinalSave
  <2>1. toSave'[gen] = {mem[gen]} /\ gen' = gen /\ mem' = mem /\ phase' # "unloaded"
    BY <1>7, GenIs DEF FinalSave, Save, TypeOK
  <2>2. Remembers(mem[gen])'
    BY DEF InMemory, Remembers, Live, KnowsCheck, KnowsDelivery, Reserves
  <2>. QED
    BY <2>1, <2>2 DEF OnTheWay, Remembers, KnowsCheck, KnowsDelivery, Reserves
<1>8. CASE Close
  BY <1>2, <1>8 DEF Close
<1>9. CASE Reload
  BY <1>2, <1>9, ReloadIs
<1>10. CASE Crash
  BY <1>2, <1>10, CrashIs
<1>11. CASE Tick \/ UNCHANGED vars
  <2>1. UNCHANGED <<gen, phase, toSave, disk, status, crashes, late>>
    BY <1>11 DEF Tick, vars, stateVars, requestVars, envVars
  <2>. QED
    BY <1>1, <1>4, <2>1, OnTheWayStays DEF Era
<1>. QED
  BY <1>3, <1>5, <1>6, <1>7, <1>8, <1>9, <1>10, <1>11 DEF Next

LEMMA RememberedStep == ASSUME TypeOK, Honest, Queues, Remembered, [Next]_vars PROVE Remembered'
  BY InMemoryStep, OnTheWayStep DEF Remembered

-----------------------------------------------------------------------------
(* The limits.                                                             *)

\* KeptApart says nothing of the present, and stays.
LEMMA ApartStays == ASSUME HistoryKept, Apart, NoneLive PROVE Apart'
<1>1. \A q \in Requests : Passed(q) => Passed(q)' /\ checked'[q] = checked[q]
  BY DEF HistoryKept
<1>2. \A q \in Requests : Live(q)' => Live(q) /\ checked'[q] = checked[q]
  BY <1>1 DEF NoneLive, Live, Accepted, Passed
<1> SUFFICES ASSUME NEW r \in Requests, NEW s \in Requests, r # s, Live(r)', Live(s)', ~Forced[r], ~Forced[s],
                    Fingerprint[r] = Fingerprint[s], checked'[r].era = checked'[s].era,
                    checked'[s].at <= checked'[r].at
             PROVE  KeptApart(r, s)'
  BY DEF Apart
<1>3. KeptApart(r, s) /\ checked'[r] = checked[r] /\ checked'[s] = checked[s]
  BY <1>2 DEF Apart
<1>. QED
  BY <1>1, <1>3 DEF KeptApart

\* A request that passes keeps its distance from what the coordinator knows.
LEMMA PassesApart ==
    ASSUME TypeOK, HistoryKept, NEW r \in Requests, NEW s \in Requests, KnowsCheck(mem[gen], s),
           checked[s].era = Era, ~Forced[r], ~Forced[s], Fingerprint[r] = Fingerprint[s],
           Reason(r, "reserved", mem[gen]), checked'[r].at = now, checked'[s] = checked[s]
    PROVE  KeptApart(r, s)' /\ (checked[s].at = now => KeptApart(s, r)')
<1> DEFINE m == mem[gen]
           fp == Fingerprint[s]
           W(q) == DedupWindow[q]
<1>1. IsRuntimeState(m) /\ now \in Nat
  BY GenIs, CopiesAre DEF TypeOK
<1>2. \A q \in Requests : checked[q].at \in 0..now /\ W(q) \in Nat
  BY RequestsAssumption DEF TypeOK, StampType
<1>3. Lesser(W(r), W(s)) \in Nat /\ Lesser(W(r), W(s)) <= W(r) /\ Lesser(W(r), W(s)) <= W(s)
      /\ Lesser(W(s), W(r)) = Lesser(W(r), W(s))
  BY <1>2 DEF Lesser
<1>4. CASE W(s) = 0
  BY <1>1, <1>2, <1>3, <1>4 DEF KeptApart
<1>5. ASSUME fp \in DOMAIN m.dedup, checked[s].at <= m.dedup[fp].at
      PROVE  KeptApart(r, s)' /\ (checked[s].at = now => KeptApart(s, r)')
  <2>1. m.dedup[fp].at \in 0..now /\ now - m.dedup[fp].at >= W(r)
    BY <1>1, <1>5 DEF IsRuntimeState, Reason
  <2>2. now - checked[s].at >= Lesser(W(r), W(s))
    BY <1>1, <1>2, <1>3, <1>5, <2>1
  <2>. QED
    BY <1>1, <1>2, <1>3, <2>2 DEF KeptApart
<1>6. ASSUME NEW q \in Requests, Passed(q), ~Forced[q], Fingerprint[q] = fp, W(q) > 0,
             checked[s].at <= checked[q].at, checked[q].at + W(q) <= now
      PROVE  KeptApart(r, s)' /\ checked[s].at # now
  <2>1. Passed(q)' /\ checked'[q] = checked[q]
    BY <1>6 DEF HistoryKept
  <2>2. CASE W(q) < Lesser(W(r), W(s))
    <3>1. W(q) \in 1..(Lesser(W(r), W(s)) - 1)
      BY <1>2, <1>3, <1>6, <2>2
    <3>2. checked'[q].at \in checked'[s].at..(checked'[r].at - W(q))
      BY <1>1, <1>2, <1>6, <2>1
    <3>. QED
      BY <1>1, <1>2, <1>6, <2>1, <3>1, <3>2 DEF KeptApart
  <2>3. CASE ~(W(q) < Lesser(W(r), W(s)))
    <3>1. now - checked[s].at >= Lesser(W(r), W(s))
      BY <1>1, <1>2, <1>3, <1>6, <2>3
    <3>. QED
      BY <1>1, <1>2, <1>6, <3>1 DEF KeptApart
  <2>. QED
    BY <2>2, <2>3
<1>. QED
  BY <1>2, <1>4, <1>5, <1>6 DEF KnowsCheck, Reserves

LEMMA ChecksApart ==
    ASSUME TypeOK, HistoryKept, InMemory, Apart, NEW r \in Requests, NEW v, NEW p, Checks(r, v, p),
           Reason(r, v, mem[owner[r]])
    PROVE  Apart'
<1>1. /\ now' = now /\ gen' = gen /\ owner' = owner /\ status'[r] = v
      /\ \A q \in Requests \ {r} : status'[q] = status[q] /\ checked'[q] = checked[q]
      /\ now \in Nat /\ \A q \in Requests : checked[q].at \in 0..now
  BY GenIs DEF Checks, Local, envVars, TypeOK, StampType
<1>2. \A q \in Requests \ {r} : Live(q)' => Live(q)
  BY <1>1 DEF Live, Accepted
<1>3. CASE ~Live(r)'
  BY <1>2, <1>3, ApartStays DEF NoneLive
<1>4. CASE Live(r)'
  <2>1. v = "reserved" /\ owner[r] = gen
    BY <1>1, <1>4 DEF Checks, Live, Accepted
  <2>2. checked'[r].at = now /\ checked'[r].era = Era
    BY <2>1, StampIs DEF Checks, TypeOK
  <2>3. \A q \in Requests : Passed(q) => Passed(q)' /\ checked'[q] = checked[q]
    BY DEF HistoryKept
  <2> SUFFICES ASSUME NEW a \in Requests, NEW b \in Requests, a # b, Live(a)', Live(b)', ~Forced[a], ~Forced[b],
                      Fingerprint[a] = Fingerprint[b], checked'[a].era = checked'[b].era,
                      checked'[b].at <= checked'[a].at
               PROVE  KeptApart(a, b)'
    BY DEF Apart
  <2>4. CASE a = r
    <3>1. Live(b) /\ KnowsCheck(mem[gen], b) /\ checked'[b] = checked[b]
      BY <1>1, <1>2, <2>4 DEF InMemory
    <3>. QED
      BY <2>1, <2>2, <2>4, <3>1, PassesApart
  <2>5. CASE b = r
    <3>1. Live(a) /\ KnowsCheck(mem[gen], a) /\ checked'[a] = checked[a]
      BY <1>1, <1>2, <2>5 DEF InMemory
    <3>2. checked[a].at = now
      BY <1>1, <2>2, <2>5, <3>1
    <3>. QED
      BY <2>1, <2>2, <2>5, <3>1, <3>2, PassesApart
  <2>6. CASE a # r /\ b # r
    <3>1. KeptApart(a, b) /\ checked'[a] = checked[a] /\ checked'[b] = checked[b]
      BY <1>1, <1>2, <2>6 DEF Apart
    <3>. QED
      BY <2>3, <3>1 DEF KeptApart
  <2>. QED
    BY <2>4, <2>5, <2>6
<1>. QED
  BY <1>3, <1>4

\* The steps that no request passes the checks in.
LEMMA NoneLiveSteps ==
    ASSUME TypeOK, [Next]_vars, ~\E r \in Requests : Precheck(r)
    PROVE  NoneLive
<1>1. ASSUME NEW r \in Requests, Request(r) PROVE NoneLive
  BY <1>1, QuietRequests DEF Request
<1>2. status' = status \/ Crash \/ \E r \in Requests : Request(r)
  BY DEF Next, Snooze, SnoozeSave, SnoozeReturn, WriteStore, Close, FinalSave, Reload, Tick,
         vars, stateVars, requestVars
<1>3. owner' = owner \/ \E r \in Requests : Request(r)
  BY DEF Next, Snooze, SnoozeSave, SnoozeReturn, WriteStore, Close, FinalSave, Reload, Crash, Tick,
         vars, stateVars, requestVars
<1>4. gen' = gen \/ gen' = gen + 1
  BY DEF Next, Request, Arrive, Precheck, Enqueue, Preview, Deliver, Strand, Snooze, SnoozeSave, SnoozeReturn,
         WriteStore, Close, FinalSave, Reload, Crash, Tick, Setup, vars, stateVars
<1>. QED
  BY <1>1, <1>2, <1>3, <1>4, QuietOthers

LEMMA ApartStep == ASSUME TypeOK, Remembered, Apart, [Next]_vars PROVE Apart'
<1>1. HistoryKept
  BY HistoryIsKept
<1>2. ASSUME NEW r \in Requests, Precheck(r) PROVE Apart'
  BY <1>1, <1>2, PrecheckIs, ChecksApart DEF Remembered
<1>. QED
  BY <1>1, <1>2, NoneLiveSteps, ApartStays

\* A delivery of the present is not earlier than any check.
\* What has been delivered once has been delivered.
LEMMA DeliveredStay == ASSUME HistoryKept, NEW P PROVE \A k \in DeliveredKeys(P) : k \in NotificationKeys /\
    \E q \in Requests : status'[q] = "sent" /\ k \in Stamps[q] /\ sent'[q].at \in P
  BY DEF HistoryKept, DeliveredKeys

LEMMA HeldApartStays ==
    ASSUME HistoryKept, NEW r \in Requests, NEW s \in Requests, HeldApart(r, s),
           checked'[r] = checked[r], sent'[s] = sent[s]
    PROVE  HeldApart(r, s)'
<1> DEFINE S == DeliveredKeys(sent[s].at..checked[r].at) \ {History[r]}
           T == DeliveredKeys(sent[s].at..checked[r].at)' \ {History[r]}
<1>1. CASE checked[r].at - sent[s].at >= Cooldown[r]
  BY <1>1 DEF HeldApart
<1>2. CASE History[r] \in NotificationKeys /\ Cardinality(S) >= StampLimit
  <2>1. S \in SUBSET T
    BY DeliveredStay DEF DeliveredKeys
  <2>2. IsFiniteSet(T)
    BY KeysFinite DEF DeliveredKeys
  <2>3. Cardinality(T) >= StampLimit
    <3> HIDE DEF S, T
    <3>. QED
      BY <1>2, <2>1, <2>2, AtLeast
  <2>. QED
    BY <1>2, <2>3 DEF HeldApart
<1>. QED
  BY <1>1, <1>2 DEF HeldApart

LEMMA HeldStays ==
    ASSUME TypeOK, HistoryKept, Held, NoneLive,
           \A s \in Requests : status'[s] = "sent" => status[s] = "sent" \/ sent'[s].at = now
    PROVE  Held'
<1> SUFFICES ASSUME NEW r \in Requests, NEW s \in Requests, Live(r)', ~Forced[r],
                    status'[s] = "sent", History[r] \in Stamps[s],
                    sent'[s].era = checked'[r].era, sent'[s].at < checked'[r].at
             PROVE  HeldApart(r, s)'
  BY DEF Held
<1>1. Live(r) /\ checked'[r] = checked[r] /\ checked[r].at \in 0..now /\ now \in Nat
  BY GenIs DEF NoneLive, HistoryKept, Live, Accepted, Passed, TypeOK, StampType
<1>2. status[s] = "sent" /\ sent'[s] = sent[s]
  BY <1>1 DEF HistoryKept
<1>3. HeldApart(r, s)
  BY <1>1, <1>2 DEF Held
<1>. QED
  BY <1>1, <1>2, <1>3, HeldApartStays

LEMMA ChecksHeld ==
    ASSUME TypeOK, HistoryKept, InMemory, Recorded, Held, NoneSent, NEW r \in Requests, NEW v, NEW p, Checks(r, v, p),
           Reason(r, v, mem[owner[r]])
    PROVE  Held'
<1>1. /\ now' = now /\ gen' = gen /\ owner' = owner /\ status'[r] = v
      /\ \A q \in Requests \ {r} : status'[q] = status[q] /\ checked'[q] = checked[q]
      /\ now \in Nat
  BY GenIs DEF Checks, Local, envVars, TypeOK
<1>2. \A q \in Requests \ {r} : Live(q)' => Live(q)
  BY <1>1 DEF Live, Accepted
<1>3. CASE ~Live(r)'
  BY <1>2, <1>3, HeldStays DEF NoneLive, NoneSent
<1>4. CASE Live(r)'
  <2>1. v = "reserved" /\ owner[r] = gen
    BY <1>1, <1>4 DEF Checks, Live, Accepted
  <2>2. checked'[r].at = now /\ checked'[r].era = Era
    BY <2>1, StampIs DEF Checks, TypeOK
  <2> SUFFICES ASSUME NEW a \in Requests, NEW s \in Requests, Live(a)', ~Forced[a],
                      status'[s] = "sent", History[a] \in Stamps[s],
                      sent'[s].era = checked'[a].era, sent'[s].at < checked'[a].at
               PROVE  HeldApart(a, s)'
    BY DEF Held
  <2>3. status[s] = "sent" /\ sent'[s] = sent[s] /\ sent[s].at \in Nat
    BY DEF NoneSent, HistoryKept, TypeOK, StampType
  <2>4. CASE a = r
    <3>1. HasStamp(mem[gen].last, History[r], sent[s].at)
      BY <2>2, <2>3, <2>4 DEF InMemory, KnowsDelivery
    <3>2. \A h \in DOMAIN mem[gen].last : mem[gen].last[h] \in 0..now
      BY GenIs, CopiesAre DEF TypeOK, IsRuntimeState
    <3>3. CASE History[r] \in DOMAIN mem[gen].last /\ sent[s].at <= mem[gen].last[History[r]]
      <4>1. now - mem[gen].last[History[r]] >= Cooldown[r] /\ mem[gen].last[History[r]] \in Nat
        BY <2>1, <2>4, <3>2, <3>3 DEF Reason
      <4>. QED
        BY <1>1, <2>2, <2>3, <2>4, <3>3, <4>1, RequestsAssumption DEF HeldApart
    <3>4. CASE ~(History[r] \in DOMAIN mem[gen].last /\ sent[s].at <= mem[gen].last[History[r]])
      <4> DEFINE others == Late(mem[gen].last, sent[s].at)
                 D == DeliveredKeys(sent[s].at..checked[r].at)' \ {History[r]}
      <4>1. History[r] \in NotificationKeys /\ Cardinality(others) >= StampLimit
        BY <3>1, <3>4, HasStampIs
      <4>2. ASSUME NEW k \in others PROVE k \in D
        <5>1. mem[gen].last[k] \in sent'[s].at..checked'[r].at /\ k \in NotificationKeys /\ k \in DOMAIN mem[gen].last
          BY <1>1, <2>2, <2>3, <3>2, <4>2 DEF Late
        <5>2. PICK q \in Requests : status[q] = "sent" /\ k \in Stamps[q] /\ sent[q].at = mem[gen].last[k]
          BY <5>1, GenIs, CopiesAre DEF Recorded
        <5>3. status'[q] = "sent" /\ sent'[q].at \in sent'[s].at..checked'[r].at
          BY <5>1, <5>2 DEF HistoryKept
        <5>4. k # History[r]
          BY <3>4, <4>2 DEF Late
        <5>. QED
          BY <5>1, <5>2, <5>3, <5>4 DEF DeliveredKeys
      <4>3. IsFiniteSet(D)
        BY KeysFinite DEF DeliveredKeys
      <4>4. Cardinality(D) >= StampLimit
        <5>1. others \in SUBSET D
          BY <4>2
        <5> HIDE DEF others, D
        <5>. QED
          BY <4>1, <4>3, <5>1, AtLeast
      <4>. QED
        BY <2>4, <4>1, <4>4 DEF HeldApart
    <3>. QED
      BY <3>3, <3>4
  <2>5. CASE a # r
    <3>1. Live(a) /\ checked'[a] = checked[a]
      BY <1>1, <1>2, <2>5
    <3>2. HeldApart(a, s)
      BY <2>3, <3>1 DEF Held
    <3>. QED
      BY <2>3, <3>1, <3>2, HeldApartStays
  <2>. QED
    BY <2>4, <2>5
<1>. QED
  BY <1>3, <1>4

LEMMA SentNow ==
    ASSUME TypeOK, [Next]_vars
    PROVE  \A s \in Requests : status'[s] = "sent" => status[s] = "sent" \/ sent'[s].at = now
<1>1. ASSUME NEW r \in Requests, Request(r)
      PROVE  \A s \in Requests : status'[s] = "sent" => status[s] = "sent" \/ sent'[s].at = now
  <2>1. CASE Precheck(r)
    BY <2>1, PrecheckIs, ChecksHistory DEF NoneSent
  <2>2. CASE Deliver(r)
    BY <2>2, DeliverIs, StampIs DEF TypeOK
  <2>. QED
    BY <1>1, <2>1, <2>2 DEF Request, Arrive, Enqueue, Preview, Strand, requestVars, TypeOK
<1>2. status' = status \/ Crash \/ \E r \in Requests : Request(r)
  BY DEF Next, Snooze, SnoozeSave, SnoozeReturn, WriteStore, Close, FinalSave, Reload, Tick,
         vars, stateVars, requestVars
<1>3. CASE Crash
  BY <1>3 DEF Crash
<1>. QED
  BY <1>1, <1>2, <1>3

LEMMA HeldStep == ASSUME TypeOK, Remembered, Recorded, Held, [Next]_vars PROVE Held'
<1>1. HistoryKept
  BY HistoryIsKept
<1>2. ASSUME NEW r \in Requests, Precheck(r) PROVE Held'
  BY <1>1, <1>2, PrecheckIs, ChecksHistory, ChecksHeld DEF Remembered
<1>. QED
  BY <1>1, <1>2, NoneLiveSteps, SentNow, HeldStays

-----------------------------------------------------------------------------
(* The file and the snapshots follow the memory.                           *)

LEMMA BehindItself == ASSUME NEW m, IsRuntimeState(m), now \in Nat PROVE Behind(m, m)
  BY DEF IsRuntimeState, Behind, HasStamp

LEMMA BehindAll ==
    ASSUME NEW a, NEW b, NEW c, IsRuntimeState(a), IsRuntimeState(b), IsRuntimeState(c), now \in Nat,
           Behind(a, b), Behind(b, c)
    PROVE  Behind(a, c)
<1>1. (\A h \in DOMAIN a.last : a.last[h] \in Nat) /\ (\A h \in DOMAIN b.last : b.last[h] \in Nat)
      /\ (\A h \in DOMAIN c.last : c.last[h] \in Nat)
  BY DEF IsRuntimeState
<1>2. ASSUME NEW h \in DOMAIN a.last PROVE HasStamp(c.last, h, a.last[h])
  BY <1>1, <1>2, StampStays DEF Behind
<1>. QED
  BY <1>2 DEF Behind

LEMMA GrowsAdvancing ==
    ASSUME TypeOK, Advancing, NEW g, NEW p, Grows(g, p)
    PROVE  Advancing'
<1>1. /\ gen \in Gens /\ now \in Nat
      /\ IsRuntimeState(mem[gen]) /\ IsRuntimeState(disk) /\ \A m \in toSave[gen] : IsRuntimeState(m)
  BY GenIs, CopiesAre DEF TypeOK
<1>2. gen' = gen /\ disk' = disk /\ late' = late
  BY DEF Grows, Local, envVars
<1>3. CASE g = gen
  <2>1. mem'[gen] = p /\ toSave'[gen] \in {toSave[gen], {p}} /\ IsRuntimeState(p) /\ Behind(mem[gen], p)
    BY <1>3 DEF Grows, Local, Keeps
  <2>2. ASSUME late = 0 PROVE Behind(disk, p) /\ \A m \in toSave'[gen] : Behind(disk, m) /\ Behind(m, p)
    BY <1>1, <2>1, <2>2, BehindAll, BehindItself DEF Advancing
  <2>. QED
    BY <1>2, <2>1, <2>2 DEF Advancing, Behind
<1>4. CASE g # gen
  <2>1. mem'[gen] = mem[gen] /\ toSave'[gen] = toSave[gen]
    BY <1>1, <1>4 DEF Grows, Local
  <2>. QED
    BY <1>2, <2>1 DEF Advancing, Behind
<1>. QED
  BY <1>3, <1>4

LEMMA SetupAdvancing ==
    ASSUME TypeOK, disk' = disk, mem'[gen'] = disk, toSave'[gen'] \subseteq {disk}
    PROVE  Advancing'
<1>1. Behind(disk, disk)
  BY GenIs, CopiesAre, BehindItself DEF TypeOK
<1>. QED
  BY <1>1 DEF Advancing, Behind

\* Every step but the writes of the Stores, the set-ups and the clock.
LEMMA StepGrows ==
    ASSUME TypeOK, [Next]_vars
    PROVE  \/ \E g, p : Grows(g, p)
           \/ \E g \in Gens : WriteStore(g)
           \/ Reload
           \/ Crash
           \/ UNCHANGED <<stateVars, snooze, crashes, late>>
<1>1. ASSUME NEW r \in Requests, Request(r) PROVE \E g, p : Grows(g, p)
  BY <1>1, ArriveGrows, PrecheckIs, ChecksGrows, EnqueueGrows, PreviewGrows, DeliverIs, StrandGrows DEF Request
<1>2. ASSUME NEW f \in Snoozers, Snooze(f) \/ SnoozeSave(f) \/ SnoozeReturn(f) PROVE \E g, p : Grows(g, p)
  BY <1>2, SnoozeIs, SnoozeSaveGrows, SnoozeReturnGrows
<1>3. CASE Close \/ FinalSave
  BY <1>3, CloseGrows, FinalSaveGrows
<1>4. CASE Tick \/ UNCHANGED vars
  BY <1>4 DEF Tick, vars, envVars
<1>. QED
  BY <1>1, <1>2, <1>3, <1>4 DEF Next

LEMMA WriteStoreIs ==
    ASSUME TypeOK, Queues, NEW g \in Gens, WriteStore(g), late' = 0
    PROVE  /\ g = gen /\ gen' = gen /\ mem' = mem /\ late = 0 /\ UNCHANGED <<snooze, now>>
           /\ disk' \in toSave[gen] /\ toSave' = [toSave EXCEPT ![gen] = {}]
<1>1. g \in Nat /\ gen \in Nat /\ late \in Nat /\ disk' \in toSave[g]
  BY GenIs DEF Gens, TypeOK, WriteStore
<1>2. ~(g > gen)
  BY <1>1 DEF Queues
<1>3. ~(g < gen)
  BY <1>1 DEF WriteStore
<1>4. g = gen
  BY <1>1, <1>2, <1>3
<1>5. late' = late
  BY <1>3 DEF WriteStore
<1>. QED
  BY <1>4, <1>5 DEF WriteStore

LEMMA AdvancingStep == ASSUME TypeOK, Queues, Advancing, [Next]_vars PROVE Advancing'
<1>1. CASE \E g, p : Grows(g, p)
  BY <1>1, GrowsAdvancing
<1>2. ASSUME NEW g \in Gens, WriteStore(g) PROVE Advancing'
  <2> SUFFICES ASSUME late' = 0
               PROVE  Advancing'
    BY DEF Advancing
  <2>1. /\ gen' = gen /\ mem'[gen'] = mem[gen] /\ toSave'[gen'] = {} /\ late = 0 /\ disk' \in toSave[gen]
    BY <1>2, WriteStoreIs, GenIs DEF TypeOK
  <2>. QED
    BY <2>1 DEF Advancing, Behind
<1>3. CASE Reload
  <2>1. toSave[gen + 1] = {}
    BY <1>3, ReloadIs, GenIs DEF Queues
  <2>2. mem'[gen'] = disk /\ disk' = disk /\ toSave'[gen'] \subseteq {disk}
    BY <1>3, <2>1, ReloadIs DEF TypeOK
  <2>. QED
    BY <2>2, SetupAdvancing
<1>4. CASE Crash
  BY <1>4, CrashIs, SetupAdvancing
<1>5. CASE UNCHANGED <<stateVars, snooze, crashes, late>>
  BY <1>5 DEF stateVars, Advancing, Behind
<1>. QED
  BY <1>1, <1>2, <1>3, <1>4, <1>5, StepGrows

-----------------------------------------------------------------------------
(* The snoozes.                                                            *)

LEMMA GrowsSnoozing ==
    ASSUME TypeOK, NEW g, NEW p, Grows(g, p), NEW f \in Snoozers, Snoozing(f), snooze'[f] = snooze[f],
           snooze[f].until > now
    PROVE  Snoozing(f)'
<1> DEFINE s == snooze[f].gen
<1>1. s \in Gens /\ gen \in Gens /\ gen' = gen /\ disk' = disk
  BY GenIs, CopiesAre DEF Grows, Local
<1>2. ASSUME NEW h \in Gens, Has(mem[h], f), snooze[f].call # "new"
      PROVE  /\ Has(mem'[h], f)
             /\ \A m \in toSave'[h] : m \in toSave[h] \/ Has(m, f)
  BY <1>2 DEF Grows, Local, KeepsSnoozes
<1>3. \A h \in Gens : toSave[h] # {} => toSave'[h] # {}
  BY DEF Grows, Local
<1>4. ASSUME Everywhere(f), snooze[f].call # "new" PROVE Everywhere(f)'
  BY <1>1, <1>2, <1>4 DEF Everywhere, Has
<1>5. snooze[f].call \in {"set", "saving"} => Has(mem'[s], f)
  BY <1>1, <1>2 DEF Snoozing
<1>6. snooze[f].call = "saving" =>
        \/ toSave'[s] # {} /\ \A m \in toSave'[s] : Has(m, f)
        \/ Everywhere(f)'
  BY <1>1, <1>2, <1>3, <1>4 DEF Snoozing
<1>7. snooze[f].call = "returned" => Everywhere(f)'
  BY <1>4 DEF Snoozing
<1>. QED
  BY <1>5, <1>6, <1>7 DEF Snoozing, Has

LEMMA WriteStoreSnoozing ==
    ASSUME TypeOK, Queues, NEW g \in Gens, WriteStore(g), late' = 0, NEW f \in Snoozers, Snoozing(f)
    PROVE  Snoozing(f)'
<1>1. /\ gen \in Gens /\ gen' = gen /\ mem' = mem /\ disk' \in toSave[gen] /\ snooze' = snooze
      /\ toSave'[gen] = {} /\ \A h \in Gens \ {gen} : toSave'[h] = toSave[h]
  BY WriteStoreIs, GenIs DEF TypeOK
<1>2. ASSUME Everywhere(f) PROVE Everywhere(f)'
  BY <1>1, <1>2 DEF Everywhere, Has
<1>3. ASSUME snooze[f].call = "saving", snooze[f].gen = gen PROVE Everywhere(f)'
  BY <1>1, <1>2, <1>3 DEF Snoozing, Everywhere, Has
<1>4. snooze[f].gen \in Gens
  BY CopiesAre
<1>. QED
  BY <1>1, <1>2, <1>3, <1>4 DEF Snoozing, Has

LEMMA ReloadSnoozing ==
    ASSUME TypeOK, Queues, Reload, NEW f \in Snoozers, Snoozing(f)
    PROVE  Snoozing(f)'
<1>1. /\ gen + 1 \in Gens /\ gen' = gen + 1 /\ disk' = disk /\ snooze' = snooze
      /\ mem'[gen'] = disk /\ \A h \in Gens : h # gen + 1 => mem'[h] = mem[h]
      /\ toSave'[gen'] = toSave[gen'] \/ toSave'[gen'] = {disk}
      /\ \A h \in Gens : h # gen + 1 => toSave'[h] = toSave[h]
  BY ReloadIs DEF TypeOK, requestVars
<1>2. toSave[gen + 1] = {}
  BY <1>1, GenIs DEF Queues
<1>3. Everywhere(f) => Everywhere(f)'
  BY <1>1, <1>2 DEF Everywhere, Has
<1>4. snooze[f].gen \in Gens /\ snooze[f].gen # gen + 1
  BY CopiesAre, GenIs DEF Gens
<1>. QED
  BY <1>1, <1>3, <1>4 DEF Snoozing, Has

LEMMA CrashSnoozing ==
    ASSUME TypeOK, Crash, NEW f \in Snoozers, Snoozing(f)
    PROVE  Snoozing(f)'
<1>1. gen' \in Gens /\ disk' = disk /\ mem'[gen'] = disk /\ toSave'[gen'] = {}
  BY CrashIs
<1>2. /\ snooze'[f] = IF snooze[f].call \in {"set", "saving"} THEN [snooze[f] EXCEPT !.call = "lost"] ELSE snooze[f]
      /\ snooze[f] \in [call : Calls, gen : 1..gen, until : Nat]
  BY DEF Crash, TypeOK
<1>3. snooze'[f].call \notin {"set", "saving"} /\ (snooze'[f].call = "returned" => snooze'[f] = snooze[f])
  BY <1>2
<1>. QED
  BY <1>1, <1>3 DEF Snoozing, Everywhere, Has

LEMMA SnoozingBegins ==
    ASSUME TypeOK, NEW f \in Snoozers, Snooze(f)
    PROVE  Snoozing(f)' /\ \A h \in Snoozers \ {f} : snooze'[h] = snooze[h]
<1>1. /\ snooze'[f] = [call |-> "set", gen |-> gen, until |-> now + SnoozeTime]
      /\ \A h \in Snoozers \ {f} : snooze'[h] = snooze[h]
  BY DEF Snooze, TypeOK
<1>2. PICK p : Grows(gen, p) /\ f \in DOMAIN p.snoozed /\ p.snoozed[f] = now + SnoozeTime
  BY SnoozeIs
<1>3. mem'[gen] = p
  BY <1>2 DEF Grows, Local
<1>. QED
  BY <1>1, <1>2, <1>3 DEF Snoozing, Has

LEMMA SnoozingGoesOn ==
    ASSUME TypeOK, NEW f \in Snoozers, SnoozeSave(f) \/ SnoozeReturn(f), Snoozing(f)
    PROVE  Snoozing(f)' /\ \A h \in Snoozers \ {f} : snooze'[h] = snooze[h]
<1>1. snooze[f].gen \in Gens /\ gen \in Gens /\ DOMAIN toSave = Gens
      /\ snooze[f] \in [call : Calls, gen : 1..gen, until : Nat]
  BY GenIs, CopiesAre DEF TypeOK
<1>2. CASE SnoozeSave(f)
  <2>1. /\ snooze[f].call = "set" /\ snooze'[f] = [snooze[f] EXCEPT !.call = "saving"]
        /\ \A h \in Snoozers \ {f} : snooze'[h] = snooze[h]
        /\ mem' = mem /\ toSave'[snooze[f].gen] = {mem[snooze[f].gen]}
    BY <1>1, <1>2 DEF SnoozeSave, Save, TypeOK
  <2>2. snooze'[f].call = "saving" /\ snooze'[f].gen = snooze[f].gen /\ snooze'[f].until = snooze[f].until
    BY <1>1, <2>1
  <2>. QED
    BY <2>1, <2>2 DEF Snoozing, Has
<1>3. CASE SnoozeReturn(f)
  <2>1. /\ snooze[f].call = "saving" /\ snooze'[f] = [snooze[f] EXCEPT !.call = "returned"]
        /\ \A h \in Snoozers \ {f} : snooze'[h] = snooze[h]
        /\ UNCHANGED <<gen, mem, toSave, disk>> /\ toSave[snooze[f].gen] = {}
    BY <1>3 DEF SnoozeReturn, stateVars, TypeOK
  <2>2. snooze'[f].call = "returned" /\ snooze'[f].gen = snooze[f].gen /\ snooze'[f].until = snooze[f].until
    BY <1>1, <2>1
  <2>. QED
    BY <2>1, <2>2 DEF Snoozing, Everywhere, Has
<1>. QED
  BY <1>2, <1>3

LEMMA SnoozesStep == ASSUME TypeOK, Queues, Snoozes, [Next]_vars PROVE Snoozes'
<1>1. now <= now' /\ late <= late' /\ now \in Nat /\ now' \in Nat /\ late \in Nat /\ late' \in Nat
  BY GenIs, HistoryIsKept DEF HistoryKept, TypeOK
<1> SUFFICES ASSUME late' = 0, NEW f \in Snoozers, snooze'[f].until > now'
             PROVE  Snoozing(f)'
  BY DEF Snoozes
<1>2. \A h \in Snoozers : snooze[h].until \in Nat
  BY DEF TypeOK
<1>3. ASSUME NEW h \in Snoozers, Snooze(h) \/ SnoozeSave(h) \/ SnoozeReturn(h) PROVE Snoozing(f)'
  <2>1. now' = now
    BY <1>3 DEF Snooze, SnoozeSave, SnoozeReturn, envVars
  <2>2. CASE h = f
    <3>1. CASE Snooze(f)
      BY <3>1, SnoozingBegins
    <3>2. CASE SnoozeSave(f) \/ SnoozeReturn(f)
      <4>1. snooze'[f].until = snooze[f].until
        BY <3>2 DEF SnoozeSave, SnoozeReturn, TypeOK
      <4>. QED
        BY <1>1, <2>1, <3>2, <4>1, SnoozingGoesOn DEF Snoozes
    <3>. QED
      BY <1>3, <2>2, <3>1, <3>2
  <2>3. CASE h # f
    <3>1. snooze'[f] = snooze[f]
      BY <1>3, <2>3 DEF Snooze, SnoozeSave, SnoozeReturn, TypeOK
    <3>2. \E g, p : Grows(g, p)
      BY <1>3, SnoozeIs, SnoozeSaveGrows, SnoozeReturnGrows
    <3>. QED
      BY <1>1, <2>1, <3>1, <3>2, GrowsSnoozing DEF Snoozes
  <2>. QED
    BY <2>2, <2>3
<1>4. ASSUME snooze' = snooze PROVE snooze[f].until > now /\ Snoozing(f)
  BY <1>1, <1>2, <1>4 DEF Snoozes
<1>5. ASSUME NEW g \in Gens, WriteStore(g) PROVE Snoozing(f)'
  BY <1>4, <1>5, WriteStoreIs, WriteStoreSnoozing
<1>6. CASE Reload
  BY <1>4, <1>6, ReloadIs, ReloadSnoozing
<1>7. CASE Crash
  <2>1. snooze'[f].until = snooze[f].until
    BY <1>7 DEF Crash, TypeOK
  <2>2. now' = now
    BY <1>7, CrashIs
  <2>. QED
    BY <1>1, <1>7, <2>1, <2>2, CrashSnoozing DEF Snoozes
<1>8. ASSUME snooze' = snooze, NEW g, NEW p, Grows(g, p) PROVE Snoozing(f)'
  BY <1>4, <1>8, GrowsSnoozing
<1>9. CASE UNCHANGED <<stateVars, snooze>>
  BY <1>4, <1>9 DEF stateVars, Snoozing, Everywhere, Has
<1>10. snooze' = snooze \/ Crash \/ \E h \in Snoozers : Snooze(h) \/ SnoozeSave(h) \/ SnoozeReturn(h)
  BY DEF Next, Request, Arrive, Precheck, Enqueue, Preview, Deliver, Strand,
         WriteStore, Close, FinalSave, Reload, Tick, vars
<1>. QED
  BY <1>3, <1>5, <1>6, <1>7, <1>8, <1>9, <1>10, StepGrows

-----------------------------------------------------------------------------
(* The theorems.                                                           *)

LEMMA InitIs == ASSUME Init PROVE IInv
<1>1. /\ now = 0 /\ gen = 1 /\ phase = "running" /\ crashes = 0 /\ late = 0
      /\ mem = [g \in Gens |-> Empty] /\ toSave = [g \in Gens |-> {}] /\ disk = Empty
      /\ owner = [r \in Requests |-> 1]
      /\ checked = [r \in Requests |-> [at |-> 0, era |-> <<0, 0>>]]
      /\ sent = [r \in Requests |-> [at |-> 0, era |-> <<0, 0>>]]
  BY DEF Init
<1>2. \A r \in Requests : status[r] \in {"new", "absent"}
  BY DEF Init
<1>3. \A f \in Snoozers : snooze[f] \in [call : {"new", "absent"}, gen : {1}, until : {0}]
  BY DEF Init
<1>4. 1 \in Gens /\ Copies = {Empty}
  <2>1. 1 \in Gens
    BY BoundsAssumption DEF Gens
  <2>. QED
    BY <1>1, <2>1 DEF Copies
<1>5. TypeOK
  <2>1. status \in [Requests -> Statuses]
    BY DEF Init, Statuses
  <2>2. snooze \in [Snoozers -> [call : Calls, gen : 1..gen, until : Nat]]
    BY <1>1 DEF Init, Calls
  <2>3. checked \in [Requests -> StampType] /\ sent \in [Requests -> StampType]
    BY <1>1 DEF StampType
  <2>. QED
    BY <1>1, <1>4, <2>1, <2>2, <2>3, EmptyIs, BoundsAssumption DEF TypeOK
<1>6. Honest
  BY <1>2, <1>4, EmptyIs DEF Honest
<1>7. Recorded
  BY <1>4 DEF Recorded, Empty, NoEntries
<1>8. Remembered
  BY <1>1, <1>2 DEF Remembered, InMemory, OnTheWay, Live, Accepted, KnowsDelivery
<1>9. Queues
  BY <1>1, <1>2 DEF Queues
<1>10. Apart /\ Held
  BY <1>2 DEF Apart, Held, Live, Accepted
<1>11. Snoozes
  BY <1>1, <1>3 DEF Snoozes, Snoozing
<1>12. Advancing
  BY <1>1, <1>4 DEF Advancing, Behind, Empty, NoEntries
<1>. QED
  BY <1>5, <1>6, <1>8, <1>9, <1>10, <1>11, <1>12, <1>7 DEF IInv

LEMMA IInvStep == IInv /\ [Next]_vars => IInv'
  BY TypeStep, HonestStep, RecordedStep, QueuesStep, RememberedStep, ApartStep, HeldStep, SnoozesStep, AdvancingStep DEF IInv

\* The promises, with what the RuntimeStates remember of them.
THEOREM Inductive == Spec => []IInv
<1>1. Init => IInv
  BY InitIs
<1>2. IInv /\ [Next]_vars => IInv'
  BY IInvStep
<1>. QED
  BY <1>1, <1>2, PTL DEF Spec

\* Types: every copy of the RuntimeState is one, no stamp of a request, an entry
\* or a delivery lies in the future, and no entry was made with an empty window.
THEOREM TypeCorrect == Spec => []TypeOK
<1>1. IInv => TypeOK
  BY DEF IInv
<1>. QED
  BY <1>1, Inductive, PTL

\* Duplicate suppression of _drop_for_dedup, across unload and reload: two equal
\* requests that the queue accepted are a window apart, and a request is only
\* called a duplicate of one that was let through.
THEOREM DuplicatesStayApart == Spec => []DuplicatesApart
<1>1. IInv => DuplicatesApart
  <2> SUFFICES ASSUME IInv
               PROVE  DuplicatesApart
    OBVIOUS
  <2>1. \A r, s \in Requests : Equal(r, s) /\ checked[s].at <= checked[r].at => KeptApart(r, s)
    BY DEF IInv, Apart, Equal, Live
  <2>2. \A r \in Requests : status[r] = "duplicate" => HonestDuplicate(r)
    BY DEF IInv, Honest
  <2>. QED
    BY <2>1, <2>2 DEF DuplicatesApart, KeptApart, HonestDuplicate
<1>. QED
  BY <1>1, Inductive, PTL

\* The cooldown of _drop_for_cooldown, across unload and reload, also after the
\* deliveries of the last flush.
THEOREM CooldownsHold == Spec => []CooldownHeld
<1>1. IInv => CooldownHeld
  BY DEF IInv, Held, HeldApart, CooldownHeld, Live
<1>. QED
  BY <1>1, Inductive, PTL

\* A snooze whose call has returned (async_snooze_flow) survives reloads and
\* crashes.
THEOREM SnoozesAreKept == Spec => []SnoozeKept
<1>1. IInv => SnoozeKept
  BY DEF IInv, Snoozes, Snoozing, Everywhere, Has, SnoozeKept, Snoozed
<1>. QED
  BY <1>1, Inductive, PTL

\* No delivery stamp is taken back in the file by a save of the coordinator in
\* charge, by a reload or by a crash: that of a flow stays or is replaced by a
\* later one, that of a notification also gives way to as many others that are as
\* late as _record_delivery keeps.
THEOREM TheFileAdvances == Spec => FileAdvances
<1>1. IInv /\ [Next]_vars =>
        [late' = 0 => \A h \in DOMAIN disk.last : HasStamp(disk'.last, h, disk.last[h])]_vars
  <2> SUFFICES ASSUME IInv, [Next]_vars, late' = 0
               PROVE  \A h \in DOMAIN disk.last : HasStamp(disk'.last, h, disk.last[h])
    OBVIOUS
  <2>1. TypeOK /\ Queues /\ Advancing
    BY DEF IInv
  <2>2. Behind(disk, disk)
    BY <2>1, GenIs, CopiesAre, BehindItself DEF TypeOK
  <2>3. ASSUME NEW g \in Gens, WriteStore(g) PROVE Behind(disk, disk')
    BY <2>1, <2>3, WriteStoreIs DEF Advancing
  <2>4. disk' = disk \/ \E g \in Gens : WriteStore(g)
    BY <2>1, StepGrows, ReloadIs, CrashIs DEF Grows, Local, stateVars
  <2>. QED
    BY <2>2, <2>3, <2>4 DEF Behind
<1>. QED
  BY <1>1, Inductive, PTL DEF Spec, FileAdvances
=============================================================================
