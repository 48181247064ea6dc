--------------------------- MODULE FeedbackProofs ---------------------------
(***************************************************************************)
(* That acknowledgements are shown and counters are right, for every       *)
(* number of notifications, deliveries, answers, channels, reloads,        *)
(* crashes and midnights and every length of the lists.                    *)
(*                                                                         *)
(* Each copy of the state, in the memories, in what the stores are to      *)
(* write and in the file, is Sound by itself; Remembered says how far on   *)
(* its way from the memory in charge to the file the acknowledgement of    *)
(* each answer is.                                                         *)
(*                                                                         *)
(* What the sum of a function and the count of a list of results are is    *)
(* computed by recursive functions.  That these exist, and what they give  *)
(* for one more member, is shown by induction over a set of numbers        *)
(* (Induction), which is the well-foundedness of the natural numbers.      *)
(***************************************************************************)
EXTENDS Feedback, FiniteSetTheorems, WellFoundedInduction, TLAPS

-----------------------------------------------------------------------------
(* Sums and sequences.                                                     *)

\* The function that FoldFunction(+, 0, f) computes, over the subsets of S.
Added(f, S) ==
    CHOOSE sum : sum = [T \in SUBSET S |->
        IF T = {} THEN 0 ELSE LET x == CHOOSE x \in T : TRUE IN f[x] + sum[T \ {x}]]

LEMMA NatWellFounded == IsWellFoundedOn({ss \in Nat \X Nat : ss[1] < ss[2]}, Nat)
BY NatLessThanWellFounded DEF OpToRel

\* A set of numbers that contains zero and with each number the next contains all.
LEMMA Induction ==
    ASSUME NEW N \in SUBSET Nat, 0 \in N, \A n \in N : n + 1 \in N
    PROVE  N = Nat
<1> SUFFICES ASSUME Nat \ N # {}
             PROVE  FALSE
    OBVIOUS
<1>1. PICK n \in Nat \ N : \A k \in Nat \ N : ~(<<k, n>> \in {ss \in Nat \X Nat : ss[1] < ss[2]})
    <2>1. Nat \ N \subseteq Nat
        OBVIOUS
    <2> QED
        BY <2>1, NatWellFounded, WFMin
<1>2. n > 0 /\ n - 1 \in Nat
    BY <1>1
<1>3. n - 1 \in N
    <2>1. <<n - 1, n>> \in {ss \in Nat \X Nat : ss[1] < ss[2]}
        BY <1>2
    <2> QED
        BY <1>1, <1>2, <2>1
<1>4. (n - 1) + 1 = n
    BY <1>2
<1> QED
    BY <1>1, <1>3, <1>4

LEMMA FoldIsAdded ==
    ASSUME NEW f
    PROVE  FoldFunction(+, 0, f) = Added(f, DOMAIN f)[DOMAIN f]
BY DEF FoldFunction, FoldFunctionOnSet, MapThenFoldSet, Added

\* A sum over a set is one over what is left without one of its members.
LEMMA AddedUnfolds ==
    ASSUME NEW S, IsFiniteSet(S), NEW f
    PROVE  \A T \in SUBSET S :
              Added(f, S)[T] = IF T = {} THEN 0
                               ELSE f[CHOOSE x \in T : TRUE] + Added(f, S)[T \ {CHOOSE x \in T : TRUE}]
<1> DEFINE Small(n) == {T \in SUBSET S : Cardinality(T) <= n}
           Pick(T) == CHOOSE x \in T : TRUE
           Sums(g, n) == g = [T \in Small(n) |-> IF T = {} THEN 0 ELSE f[Pick(T)] + g[T \ {Pick(T)}]]
           N == {n \in Nat : \E g : Sums(g, n)}
<1>1. \A T \in SUBSET S : Cardinality(T) \in Nat /\ (Cardinality(T) = 0 <=> T = {})
    BY FS_Subset, FS_CardinalityType, FS_EmptySet
<1>2. \A T \in SUBSET S : T # {} => Pick(T) \in T /\ Cardinality(T \ {Pick(T)}) = Cardinality(T) - 1
    <2> SUFFICES ASSUME NEW T \in SUBSET S, T # {}
                 PROVE  Pick(T) \in T /\ Cardinality(T \ {Pick(T)}) = Cardinality(T) - 1
        OBVIOUS
    <2>1. Pick(T) \in T
        OBVIOUS
    <2>2. IsFiniteSet(T)
        BY FS_Subset
    <2> QED
        BY <2>1, <2>2, FS_RemoveElement
<1> HIDE DEF Pick
<1>3. 0 \in N
    <2>1. Sums([T \in Small(0) |-> 0], 0)
        <3>1. \A T \in Small(0) : T = {}
            BY <1>1
        <3> QED
            BY <3>1
    <2> QED
        BY <2>1
<1>4. ASSUME NEW n \in N
      PROVE  n + 1 \in N
    <2>1. PICK g : Sums(g, n)
        OBVIOUS
    <2> DEFINE h == [T \in Small(n + 1) |-> IF T = {} THEN 0 ELSE f[Pick(T)] + g[T \ {Pick(T)}]]
    <2>2. \A T \in Small(n) : h[T] = g[T]
        <3>1. Small(n) \subseteq Small(n + 1)
            BY <1>1
        <3>2. ASSUME NEW T \in Small(n)
              PROVE  g[T] = IF T = {} THEN 0 ELSE f[Pick(T)] + g[T \ {Pick(T)}]
            BY <2>1
        <3> QED
            BY <3>1, <3>2
    <2>3. ASSUME NEW T \in Small(n + 1), T # {}
          PROVE  T \ {Pick(T)} \in Small(n)
        BY <1>1, <1>2, <2>3
    <2>4. Sums(h, n + 1)
        BY <2>2, <2>3
    <2>5. \E e : Sums(e, n + 1)
        <3> HIDE DEF h, Sums
        <3> QED
            BY <2>4
    <2> HIDE DEF Sums
    <2> QED
        BY <2>5
<1>5. Cardinality(S) \in N
    BY <1>1, <1>3, <1>4, Induction
<1>6. Small(Cardinality(S)) = SUBSET S
    BY FS_Subset, FS_CardinalityType
<1>7. PICK g : g = [T \in SUBSET S |-> IF T = {} THEN 0 ELSE f[Pick(T)] + g[T \ {Pick(T)}]]
    BY <1>5, <1>6
<1>8. Added(f, S) = [T \in SUBSET S |-> IF T = {} THEN 0 ELSE f[Pick(T)] + Added(f, S)[T \ {Pick(T)}]]
    BY <1>7 DEF Added, Pick
<1> QED
    BY <1>8 DEF Pick

\* The sums that FoldFunction computes: that of zeros, and that of a function
\* that has grown by one somewhere.
LEMMA FoldOfZeros ==
    ASSUME NEW S, IsFiniteSet(S)
    PROVE  FoldFunction(+, 0, [c \in S |-> 0]) = 0
<1> DEFINE f == [c \in S |-> 0]
           N == {n \in Nat : \A T \in SUBSET S : Cardinality(T) = n => Added(f, S)[T] = 0}
<1>1. 0 \in N
    BY FS_Subset, FS_EmptySet, AddedUnfolds
<1>2. ASSUME NEW n \in N
      PROVE  n + 1 \in N
    <2> SUFFICES ASSUME NEW T \in SUBSET S, Cardinality(T) = n + 1
                 PROVE  Added(f, S)[T] = 0
        OBVIOUS
    <2>1. T # {} /\ IsFiniteSet(T)
        BY FS_Subset, FS_EmptySet
    <2>2. PICK x \in T : x = CHOOSE y \in T : TRUE
        BY <2>1
    <2>3. Added(f, S)[T] = f[x] + Added(f, S)[T \ {x}]
        BY <2>1, <2>2, AddedUnfolds
    <2>4. Cardinality(T \ {x}) = n
        BY <2>1, FS_RemoveElement
    <2> QED
        BY <2>3, <2>4
<1>3. Cardinality(S) \in N
    BY <1>1, <1>2, Induction, FS_CardinalityType
<1>4. Added(f, S)[S] = 0 /\ DOMAIN f = S
    BY <1>3
<1>5. FoldFunction(+, 0, f) = Added(f, DOMAIN f)[DOMAIN f]
    BY FoldIsAdded
<1> QED
    BY <1>4, <1>5

LEMMA FoldGrows ==
    ASSUME NEW S, IsFiniteSet(S), NEW f \in [S -> Nat], NEW c \in S
    PROVE  FoldFunction(+, 0, [f EXCEPT ![c] = @ + 1]) = FoldFunction(+, 0, f) + 1
<1> DEFINE g == [f EXCEPT ![c] = @ + 1]
           Grown(T) == /\ Added(f, S)[T] \in Nat
                       /\ Added(g, S)[T] = Added(f, S)[T] + (IF c \in T THEN 1 ELSE 0)
           N == {n \in Nat : \A T \in SUBSET S : Cardinality(T) = n => Grown(T)}
<1>0. /\ DOMAIN f = S /\ DOMAIN g = S
      /\ \A x \in S : f[x] \in Nat /\ g[x] = f[x] + (IF x = c THEN 1 ELSE 0)
    OBVIOUS
<1> HIDE DEF g
<1>1. 0 \in N
    <2> SUFFICES ASSUME NEW T \in SUBSET S, Cardinality(T) = 0
                 PROVE  Grown(T)
        OBVIOUS
    <2>1. T = {}
        BY FS_Subset, FS_EmptySet
    <2>2. Added(f, S)[T] = 0 /\ Added(g, S)[T] = 0
        BY <2>1, AddedUnfolds
    <2> QED
        BY <2>1, <2>2
<1>2. ASSUME NEW n \in N
      PROVE  n + 1 \in N
    <2> SUFFICES ASSUME NEW T \in SUBSET S, Cardinality(T) = n + 1
                 PROVE  Grown(T)
        OBVIOUS
    <2>1. T # {} /\ IsFiniteSet(T)
        BY FS_Subset, FS_EmptySet
    <2>2. PICK x \in T : x = CHOOSE y \in T : TRUE
        BY <2>1
    <2>3. /\ Added(f, S)[T] = f[x] + Added(f, S)[T \ {x}]
          /\ Added(g, S)[T] = g[x] + Added(g, S)[T \ {x}]
        BY <2>1, <2>2, AddedUnfolds
    <2>4. Cardinality(T \ {x}) = n
        <3>1. n \in Nat
            OBVIOUS
        <3> HIDE DEF N, Grown
        <3>2. Cardinality(T \ {x}) = Cardinality(T) - 1
            BY <2>1, FS_RemoveElement
        <3> QED
            BY <3>1, <3>2
    <2>5. Grown(T \ {x})
        BY <2>4
    <2>6. f[x] \in Nat /\ g[x] = f[x] + (IF x = c THEN 1 ELSE 0)
        BY <1>0
    <2> QED
        BY <2>3, <2>5, <2>6
<1>3. Cardinality(S) \in N
    <2>1. N \in SUBSET Nat
        OBVIOUS
    <2> HIDE DEF N
    <2> QED
        BY <1>1, <1>2, <2>1, Induction, FS_CardinalityType
<1>4. Grown(S)
    BY <1>3
<1>5. /\ FoldFunction(+, 0, f) = Added(f, DOMAIN f)[DOMAIN f]
      /\ FoldFunction(+, 0, g) = Added(g, DOMAIN g)[DOMAIN g]
    BY FoldIsAdded
<1>6. FoldFunction(+, 0, g) = FoldFunction(+, 0, f) + 1
    BY <1>0, <1>4, <1>5
<1> QED
    BY <1>6 DEF g

\* A sequence that has each member once, without one of them.
LEMMA RemovedOnce ==
    ASSUME NEW S, NEW s \in Seq(S), IsInjective(s), NEW n
    PROVE  /\ RemoveFirst(s, n) \in Seq(S) /\ IsInjective(RemoveFirst(s, n))
           /\ Members(RemoveFirst(s, n)) = Members(s) \ {n}
           /\ Len(RemoveFirst(s, n)) = Len(s) - (IF n \in Members(s) THEN 1 ELSE 0)
<1>1. CASE n \in Members(s)
    <2>1. PICK i \in 1..Len(s) : s[i] = n
        BY <1>1 DEF Members
    <2>2. \A j \in 1..Len(s) : s[j] = n => j = i
        BY <2>1 DEF IsInjective
    <2>3. SelectInSeq(s, LAMBDA v : v = n) = i
        <3>1. {j \in 1..Len(s) : s[j] = n} = {i}
            BY <2>1, <2>2
        <3>2. Min({i}) = i
            BY DEF Min
        <3> QED
            BY <3>1, <3>2 DEF SelectInSeq
    <2> DEFINE t == SubSeq(s, 1, i - 1) \o SubSeq(s, i + 1, Len(s))
    <2>4. RemoveFirst(s, n) = t
        BY <2>1, <2>3 DEF RemoveFirst, RemoveAt
    <2>5. /\ t \in Seq(S) /\ Len(t) = Len(s) - 1
          /\ \A j \in 1..Len(t) : t[j] = s[IF j < i THEN j ELSE j + 1]
        <3> DEFINE a == SubSeq(s, 1, i - 1)
                   b == SubSeq(s, i + 1, Len(s))
        <3>2. a \in Seq(S) /\ Len(a) = i - 1 /\ \A j \in 1..i - 1 : a[j] = s[j]
            OBVIOUS
        <3>4. b \in Seq(S) /\ Len(b) = Len(s) - i /\ \A j \in 1..Len(s) - i : b[j] = s[j + i]
            OBVIOUS
        <3>5. t = a \o b
            OBVIOUS
        <3> HIDE DEF a, b
        <3> HIDE DEF t
        <3>6. t \in Seq(S) /\ Len(t) = Len(s) - 1
            BY <3>2, <3>4, <3>5
        <3>7. ASSUME NEW j \in 1..Len(t)
              PROVE  t[j] = s[IF j < i THEN j ELSE j + 1]
            <4>1. CASE j < i
                BY <3>2, <3>5, <4>1
            <4>2. CASE j >= i
                <5>1. j - (i - 1) \in 1..Len(s) - i /\ (j - (i - 1)) + i = j + 1
                    BY <3>6, <4>2
                <5>2. t[j] = b[j - Len(a)]
                    BY <3>2, <3>4, <3>5, <3>6, <4>2
                <5> QED
                    BY <3>2, <3>4, <4>2, <5>1, <5>2
            <4> QED
                BY <3>6, <4>1, <4>2
        <3> QED
            BY <3>6, <3>7
    <2> HIDE DEF t
    <2>6. IsInjective(t)
        <3> DEFINE at(j) == IF j < i THEN j ELSE j + 1
        <3>1. \A j \in 1..Len(t) : at(j) \in 1..Len(s) /\ t[j] = s[at(j)]
            BY <2>5
        <3>2. \A j, k \in 1..Len(t) : at(j) = at(k) => j = k
            BY <2>5
        <3>3. DOMAIN t = 1..Len(t) /\ DOMAIN s = 1..Len(s)
            BY <2>5
        <3> HIDE DEF at
        <3> QED
            BY <3>1, <3>2, <3>3 DEF IsInjective
    <2>7. Members(t) = Members(s) \ {n}
        <3>1. ASSUME NEW j \in 1..Len(s), j # i
              PROVE  \E k \in 1..Len(t) : t[k] = s[j]
            <4>1. CASE j < i
                BY <2>5, <4>1
            <4>2. CASE j > i
                <5>1. j - 1 \in 1..Len(t) /\ t[j - 1] = s[j]
                    BY <2>5, <4>2
                <5> QED
                    BY <5>1
            <4> QED
                BY <3>1, <4>1, <4>2
        <3>2. ASSUME NEW k \in 1..Len(t)
              PROVE  \E j \in 1..Len(s) : j # i /\ t[k] = s[j]
            BY <2>5
        <3>3. Members(t) = {t[k] : k \in 1..Len(t)} /\ Members(s) = {s[j] : j \in 1..Len(s)}
            BY <2>5 DEF Members
        <3>4. ASSUME NEW v
              PROVE  v \in Members(t) <=> v \in Members(s) /\ v # n
            <4>1. CASE v \in Members(t)
                <5>1. PICK k \in 1..Len(t) : v = t[k]
                    BY <3>3, <4>1
                <5>2. PICK j \in 1..Len(s) : j # i /\ t[k] = s[j]
                    BY <3>2
                <5> QED
                    BY <2>2, <3>3, <4>1, <5>1, <5>2
            <4>2. CASE v \in Members(s) /\ v # n
                <5>1. PICK j \in 1..Len(s) : v = s[j]
                    BY <3>3, <4>2
                <5>2. PICK k \in 1..Len(t) : t[k] = s[j]
                    BY <2>1, <3>1, <4>2, <5>1
                <5> QED
                    BY <3>3, <4>2, <5>1, <5>2
            <4> QED
                BY <4>1, <4>2
        <3> QED
            BY <3>4
    <2> QED
        BY <1>1, <2>4, <2>5, <2>6, <2>7
<1>2. CASE n \notin Members(s)
    <2>1. RemoveFirst(s, n) = s
        BY <1>2 DEF RemoveFirst, Members
    <2> QED
        BY <1>2, <2>1
<1> QED
    BY <1>1, <1>2

\* The first members of a sequence, and one put in front of it.
LEMMA TakenFirst ==
    ASSUME NEW S, NEW s \in Seq(S), NEW n \in Nat
    PROVE  /\ Taken(s, n) \in Seq(S) /\ Len(Taken(s, n)) = (IF Len(s) < n THEN Len(s) ELSE n)
           /\ \A i \in 1..Len(Taken(s, n)) : Taken(s, n)[i] = s[i]
           /\ Members(Taken(s, n)) \subseteq Members(s)
           /\ Len(s) <= n => Members(Taken(s, n)) = Members(s)
<1> DEFINE k == IF Len(s) < n THEN Len(s) ELSE n
<1>1. k \in 0..Len(s)
    OBVIOUS
<1> HIDE DEF k
<1>2. /\ SubSeq(s, 1, k) \in Seq(S) /\ Len(SubSeq(s, 1, k)) = k
      /\ \A i \in 1..k : SubSeq(s, 1, k)[i] = s[i]
    BY <1>1
<1>3. Taken(s, n) = SubSeq(s, 1, k)
    BY DEF Taken, k
<1>4. /\ Taken(s, n) \in Seq(S) /\ Len(Taken(s, n)) = k
      /\ \A i \in 1..k : Taken(s, n)[i] = s[i]
    BY <1>2, <1>3
<1>5. Members(Taken(s, n)) = {s[i] : i \in 1..k} /\ Members(s) = {s[i] : i \in 1..Len(s)}
    <2>1. DOMAIN Taken(s, n) = 1..k /\ DOMAIN s = 1..Len(s)
        BY <1>1, <1>4
    <2> QED
        BY <1>4, <2>1 DEF Members
<1>6. Len(s) <= n => k = Len(s)
    BY DEF k
<1>7. k = IF Len(s) < n THEN Len(s) ELSE n
    BY DEF k
<1> QED
    BY <1>1, <1>4, <1>5, <1>6, <1>7

LEMMA PutFirst ==
    ASSUME NEW S, NEW s \in Seq(S), NEW x \in S
    PROVE  /\ <<x>> \o s \in Seq(S) /\ Len(<<x>> \o s) = Len(s) + 1
           /\ (<<x>> \o s)[1] = x /\ \A i \in 2..Len(s) + 1 : (<<x>> \o s)[i] = s[i - 1]
           /\ Members(<<x>> \o s) = {x} \cup Members(s)
<1> DEFINE t == <<x>> \o s
<1>1. /\ t \in Seq(S) /\ Len(t) = Len(s) + 1
      /\ t[1] = x /\ \A i \in 2..Len(s) + 1 : t[i] = s[i - 1]
    OBVIOUS
<1> HIDE DEF t
<1>2. Members(t) = {t[i] : i \in 1..Len(s) + 1} /\ Members(s) = {s[i] : i \in 1..Len(s)}
    <2>1. DOMAIN t = 1..Len(s) + 1 /\ DOMAIN s = 1..Len(s)
        BY <1>1
    <2> QED
        BY <2>1 DEF Members
<1>3. ASSUME NEW v
      PROVE  v \in Members(t) <=> v = x \/ v \in Members(s)
    <2>1. CASE v \in Members(t)
        <3>1. PICK i \in 1..Len(s) + 1 : v = t[i]
            BY <1>2, <2>1
        <3>2. i = 1 \/ (i \in 2..Len(s) + 1 /\ i - 1 \in 1..Len(s))
            OBVIOUS
        <3> QED
            BY <1>1, <1>2, <2>1, <3>1, <3>2
    <2>2. CASE v \in Members(s)
        <3>1. PICK i \in 1..Len(s) : v = s[i]
            BY <1>2, <2>2
        <3>2. i + 1 \in 2..Len(s) + 1 /\ i + 1 \in 1..Len(s) + 1 /\ (i + 1) - 1 = i
            OBVIOUS
        <3> QED
            BY <1>1, <1>2, <2>2, <3>1, <3>2
    <2>3. CASE v = x
        BY <1>1, <1>2, <2>3
    <2> QED
        BY <2>1, <2>2, <2>3
<1>4. Members(t) = {x} \cup Members(s)
    BY <1>3
<1> QED
    BY <1>1, <1>4 DEF t

-----------------------------------------------------------------------------
(* The invariant.                                                          *)

Names == Channels \cup {Early, Character}
Tally == [Counters -> [Names -> Nat]]
Result == [channel : Channels, outcome : Outcomes]
Records == [id : Ids, acked : BOOLEAN, cleared : BOOLEAN, results : Seq(Result)]
States ==
    [acked : Seq(Ids), last : Seq(Records), recent : Seq(Records), feed : Seq(Records),
     day : Nat, notifications : Nat, totals : [Counters -> Nat], counts : Tally,
     happened : [day : Nat, counts : Tally]]
\* Handlers belong to the coordinator in charge or to one before it.
SendStates ==
    {Nobody} \cup [pc : {"checking", "save", "write"}, gen : 0..gen]
    \cup [pc : {"routing"}, gen : 0..gen, id : Ids, route : Seq(Channels), ai : BOOLEAN, results : Seq(Result)]
Asking == [pc : {"feedback", "write", "said"}, gen : 0..gen, id : Ids, kind : {"ack", "missed", "snooze", "clear"}]
AskStates ==
    {Nobody} \cup [pc : {"lost"}] \cup {Other} \cup [pc : {"done"}, id : Ids, kind : {"ack"}] \cup Asking
Stores == {<<>>} \cup {<<m>> : m \in States}

\* The turns of life that gen and phase stand for have all been counted.
Turns == gen + (IF phase = "up" THEN 0 ELSE 1)
TypeOK ==
    /\ mem \in [Gens -> States] /\ disk \in States
    /\ pending \in [Gens -> Stores] /\ \A g \in Gens : gen < g => pending[g] = <<>>
    /\ gen \in Nat /\ phase \in {"up", "closing", "saving", "out"} /\ late \in BOOLEAN
    /\ sends \in [Senders -> SendStates] /\ asks \in [Answers -> AskStates]
    /\ day \in Nat /\ events \in Nat /\ Turns <= events /\ events <= MaxEvents

\* A state by itself: each acknowledgement is kept once and shown, and the
\* counters are those of its day, d being the present one.
Bounded(m) == IsInjective(m.acked) /\ Len(m.acked) <= AckLimit
Tallied(m, d) ==
    /\ m.happened.day <= m.day /\ m.day <= d
    /\ m.counts = IF m.happened.day = m.day THEN m.happened.counts ELSE NoState.counts
    /\ \A o \in Counters : m.totals[o] = FoldFunction(+, 0, m.counts[o])
Sound(m, d) == Shown(m) /\ Bounded(m) /\ Tallied(m, d)
AllSound ==
    /\ Sound(disk, day)
    /\ \A g \in Gens : Sound(mem[g], day) /\ (pending[g] # <<>> => Sound(pending[g][1], day))

\* An acknowledgement on its way: its call has returned or belongs to a coordinator
\* whose final state is written; or what the store was given has it.
Live(ask) == ask.pc \in {"feedback", "write", "said", "done"} /\ ask.kind = "ack"
Settled(ask) == ask.pc \in {"said", "done"} \/ ask.gen < gen \/ phase = "out"
Given(ask) == Settled(ask) \/ ask.pc = "write" \/ phase = "saving"

\* It is in the memory in charge, then in what is to be stored, and in the file when
\* that is written, or newer ones have replaced it.
Remembered ==
    \A a \in Answers : Live(asks[a]) =>
        /\ Remembers(mem[gen], asks[a].id)
        /\ Given(asks[a]) /\ pending[gen] # <<>> => Remembers(pending[gen][1], asks[a].id)
        /\ Given(asks[a]) /\ (Settled(asks[a]) \/ pending[gen] = <<>>) /\ ~late => Remembers(disk, asks[a].id)

IInv == TypeOK /\ AllSound /\ Remembered


-----------------------------------------------------------------------------
(* Counters.                                                               *)

\* m is today's.
Today(m) == m \in States /\ Sound(m, day) /\ m.day = day
SameLists(m, n) == m.acked = n.acked /\ m.last = n.last /\ m.recent = n.recent /\ m.feed = n.feed

LEMMA NamesFinite == IsFiniteSet(Names)
<1>1. ASSUME NEW s \in Seq(Channels)
      PROVE  IsFiniteSet({s[i] : i \in DOMAIN s})
    <2> DEFINE T == {s[i] : i \in DOMAIN s}
    <2>1. DOMAIN s = 1..Len(s) /\ Len(s) \in Nat
        OBVIOUS
    <2>2. IsFiniteSet(DOMAIN s)
        BY <2>1, FS_Interval
    <2>3. s \in [DOMAIN s -> T]
        OBVIOUS
    <2>4. s \in Surjection(DOMAIN s, T)
        BY <2>3 DEF Surjection
    <2>5. IsFiniteSet(T)
        <3> HIDE DEF T
        <3> QED
            BY <2>2, <2>4, FS_Surjection
    <2> QED
        BY <2>5
<1>2. IsFiniteSet(Channels)
    BY <1>1, RoutesAssumption, FS_Union DEF Channels
<1>3. Names = (Channels \cup {Early}) \cup {Character}
    BY DEF Names
<1>4. IsFiniteSet(Channels \cup {Early})
    BY <1>2, FS_AddElement
<1> QED
    BY <1>3, <1>4, FS_AddElement

LEMMA SameShown ==
    ASSUME NEW m, NEW n, SameLists(m, n), Shown(m), Bounded(m)
    PROVE  Shown(n) /\ Bounded(n)
BY DEF SameLists, Shown, Bounded

LEMMA NoStateSound == NoState \in States /\ (\A d \in Nat : Sound(NoState, d)) /\ NoState.counts \in Tally
                      /\ NoState.totals \in [Counters -> Nat]
                      /\ \A o \in Counters : NoState.totals[o] = FoldFunction(+, 0, NoState.counts[o])
<1>1. Zero \in [Names -> Nat] /\ FoldFunction(+, 0, Zero) = 0
    BY NamesFinite, FoldOfZeros DEF Zero, Names
<1> HIDE DEF Zero
<1>2. NoState.counts \in Tally /\ NoState.totals \in [Counters -> Nat]
    BY <1>1 DEF NoState, Tally
<1>3. NoState.happened \in [day : Nat, counts : Tally]
    BY <1>1 DEF NoState, Tally
<1>4. NoState \in States
    BY <1>2, <1>3 DEF NoState, States
<1>5. Shown(NoState) /\ Bounded(NoState)
    BY BoundsAssumption DEF NoState, Shown, Bounded, Members, IsInjective
<1>6. \A o \in Counters : NoState.totals[o] = FoldFunction(+, 0, NoState.counts[o])
    BY <1>1 DEF NoState
<1>7. NoState.day = 0 /\ NoState.happened.day = 0 /\ NoState.happened.counts = NoState.counts
    BY DEF NoState
<1> HIDE DEF NoState
<1>8. ASSUME NEW d \in Nat
      PROVE  Tallied(NoState, d)
    <2>1. NoState.happened.day <= NoState.day /\ NoState.day <= d
        BY <1>7
    <2>2. NoState.counts = IF NoState.happened.day = NoState.day THEN NoState.happened.counts ELSE NoState.counts
        BY <1>7
    <2> QED
        BY <1>6, <2>1, <2>2 DEF Tallied
<1> QED
    BY <1>2, <1>4, <1>5, <1>6, <1>8 DEF Sound

LEMMA ResetToday ==
    ASSUME day \in Nat, NEW m \in States, Sound(m, day)
    PROVE  Today(Reset(m)) /\ SameLists(m, Reset(m))
<1>1. CASE m.day = day
    BY <1>1 DEF Reset, Today, SameLists
<1>2. CASE m.day # day
    <2>1. m.happened.day \in Nat /\ m.day \in Nat /\ m.happened.day < day
        <3>1. m.happened \in [day : Nat, counts : Tally] /\ m.day \in Nat
            BY DEF States
        <3>2. m.happened.day \in Nat
            BY <3>1
        <3>3. m.happened.day <= m.day /\ m.day <= day
            BY DEF Sound, Tallied
        <3> QED
            BY <1>2, <3>1, <3>2, <3>3
    <2> DEFINE r == [m EXCEPT !.day = day, !.notifications = 0, !.totals = NoState.totals, !.counts = NoState.counts]
    <2>2. r \in States /\ SameLists(m, r)
        BY NoStateSound DEF States, SameLists
    <2>3. r.day = day /\ r.totals = NoState.totals /\ r.counts = NoState.counts /\ r.happened = m.happened
        BY DEF States
    <2>4. Reset(m) = r
        BY <1>2 DEF Reset
    <2> HIDE DEF r
    <2>5. Tallied(r, day)
        <3>1. r.happened.day <= r.day /\ r.day <= day /\ r.happened.day # r.day
            BY <2>1, <2>3
        <3> QED
            BY <2>3, <3>1, NoStateSound DEF Tallied
    <2>6. Shown(r) /\ Bounded(r)
        BY <2>2, SameShown DEF Sound
    <2> QED
        BY <2>2, <2>3, <2>4, <2>5, <2>6 DEF Today, Sound
<1> QED
    BY <1>1, <1>2

LEMMA CountedToday ==
    ASSUME day \in Nat, NEW m, Today(m), NEW c \in Names, NEW o \in Counters
    PROVE  Today(Counted(m, c, o)) /\ SameLists(m, Counted(m, c, o))
<1> DEFINE up(t) == [t EXCEPT ![o][c] = @ + 1]
           new == [day |-> day, counts |-> up(m.counts)]
           r == [m EXCEPT !.totals[o] = @ + 1, !.counts[o][c] = @ + 1, !.happened = new]
<1>1. m \in States /\ Tallied(m, day) /\ m.day = day
    BY DEF Today, Sound
<1>2. up(m.counts) \in Tally
    BY <1>1 DEF States, Tally
<1>3. Happened(m, c, o) = new
    BY <1>1 DEF Happened, Tallied
<1>4. Counted(m, c, o) = r
    BY <1>3 DEF Counted
<1>5. r \in States /\ SameLists(m, r)
    <2> DEFINE grown == [m.totals EXCEPT ![o] = @ + 1]
    <2>1. grown \in [Counters -> Nat]
        BY <1>1 DEF States
    <2>2. new \in [day : Nat, counts : Tally]
        BY <1>2
    <2>3. r = [m EXCEPT !.totals = grown, !.counts = up(m.counts), !.happened = new]
        BY <1>1 DEF States
    <2> HIDE DEF grown, up, new, r
    <2> QED
        BY <1>1, <1>2, <2>1, <2>2, <2>3 DEF States, SameLists
<1>6. /\ r.day = day /\ r.happened.day = day /\ r.happened.counts = r.counts
      /\ r.totals = [m.totals EXCEPT ![o] = @ + 1] /\ r.counts = up(m.counts)
    BY <1>1 DEF States
<1> HIDE DEF r
<1>7. ASSUME NEW p \in Counters
      PROVE  r.totals[p] = FoldFunction(+, 0, r.counts[p])
    <2>1. m.counts[p] \in [Names -> Nat] /\ m.totals[p] = FoldFunction(+, 0, m.counts[p]) /\ m.totals[p] \in Nat
        BY <1>1 DEF States, Tally, Tallied
    <2>2. CASE p = o
        <3>1. r.counts[p] = [m.counts[p] EXCEPT ![c] = @ + 1] /\ r.totals[p] = m.totals[p] + 1
            BY <1>1, <1>6, <2>2 DEF States, Tally
        <3>2. FoldFunction(+, 0, [m.counts[p] EXCEPT ![c] = @ + 1]) = FoldFunction(+, 0, m.counts[p]) + 1
            BY <2>1, NamesFinite, FoldGrows
        <3> QED
            BY <2>1, <3>1, <3>2
    <2>3. CASE p # o
        BY <1>1, <1>6, <2>1, <2>3 DEF States, Tally
    <2> QED
        BY <2>2, <2>3
<1>8. Tallied(r, day)
    <2>1. r.happened.day <= r.day /\ r.day <= day
        BY <1>6
    <2> QED
        BY <1>6, <1>7, <2>1 DEF Tallied
<1>9. Shown(r) /\ Bounded(r)
    BY <1>5, SameShown DEF Today, Sound
<1> QED
    BY <1>4, <1>5, <1>6, <1>8, <1>9 DEF Today, Sound

\* The function that CountedAll computes, and what it gives after each result.
Tallies(m, results) ==
    CHOOSE step : step = [i \in 0..Len(results) |->
        IF i = 0 THEN m ELSE Counted(step[i - 1], results[i].channel, results[i].outcome)]

LEMMA TalliesUnfold ==
    ASSUME NEW m, NEW results \in Seq(Result)
    PROVE  \A i \in 0..Len(results) :
              Tallies(m, results)[i] =
                  IF i = 0 THEN m ELSE Counted(Tallies(m, results)[i - 1], results[i].channel, results[i].outcome)
<1> DEFINE Following(x, i) == Counted(x, results[i].channel, results[i].outcome)
<1> HIDE DEF Following
<1> DEFINE Steps(g, n) == g = [i \in 0..n |-> IF i = 0 THEN m ELSE Following(g[i - 1], i)]
           N == {n \in Nat : \E g : Steps(g, n)}
<1>1. 0 \in N
    <2>1. Steps([i \in 0..0 |-> m], 0)
        OBVIOUS
    <2> QED
        BY <2>1
<1>2. ASSUME NEW n \in N
      PROVE  n + 1 \in N
    <2>1. n \in Nat /\ \E g : Steps(g, n)
        OBVIOUS
    <2>2. PICK g : Steps(g, n)
        BY <2>1
    <2> DEFINE h == [i \in 0..n + 1 |-> IF i = 0 THEN m ELSE Following(g[i - 1], i)]
    <2>3. \A i \in 0..n : h[i] = g[i]
        BY <2>1, <2>2
    <2>4. \A i \in 1..n + 1 : i - 1 \in 0..n
        BY <2>1
    <2>5. Steps(h, n + 1)
        <3>1. h = [i \in 0..n + 1 |-> IF i = 0 THEN m ELSE Following(g[i - 1], i)]
            OBVIOUS
        <3> HIDE DEF h, Steps
        <3>2. ASSUME NEW i \in 0..n + 1, i # 0
              PROVE  h[i - 1] = g[i - 1]
            <4>1. i - 1 \in 0..n
                BY <2>1, <3>2
            <4> QED
                BY <2>3, <4>1
        <3>3. \A i \in 0..n + 1 : i # 0 => Following(h[i - 1], i) = Following(g[i - 1], i)
            BY <3>2
        <3> USE DEF Steps
        <3> QED
            BY <3>1, <3>3
    <2>6. \E e : Steps(e, n + 1)
        <3> HIDE DEF h, Steps
        <3> QED
            BY <2>5
    <2> HIDE DEF Steps
    <2> QED
        BY <2>1, <2>6
<1>3. Len(results) \in N
    <2>1. N \in SUBSET Nat /\ Len(results) \in Nat
        OBVIOUS
    <2> HIDE DEF N
    <2> QED
        BY <1>1, <1>2, <2>1, Induction
<1>4. PICK g : g = [i \in 0..Len(results) |-> IF i = 0 THEN m ELSE Following(g[i - 1], i)]
    BY <1>3
<1>5. Tallies(m, results) =
          [i \in 0..Len(results) |-> IF i = 0 THEN m ELSE Following(Tallies(m, results)[i - 1], i)]
    BY <1>4 DEF Tallies, Following
<1> QED
    BY <1>5 DEF Following

LEMMA CountedAllToday ==
    ASSUME day \in Nat, NEW m, Today(m), NEW results \in Seq(Result)
    PROVE  Today(CountedAll(m, results)) /\ SameLists(m, CountedAll(m, results))
<1> DEFINE T(i) == Tallies(m, results)[i]
           N == {n \in Nat : n <= Len(results) => Today(T(n)) /\ SameLists(m, T(n))}
<1>1. 0 \in N
    BY TalliesUnfold DEF SameLists
<1>2. ASSUME NEW n \in N
      PROVE  n + 1 \in N
    <2> SUFFICES ASSUME n + 1 <= Len(results)
                 PROVE  Today(T(n + 1)) /\ SameLists(m, T(n + 1))
        OBVIOUS
    <2>1. n \in Nat /\ Len(results) \in Nat /\ n + 1 \in 1..Len(results)
        OBVIOUS
    <2>2. Today(T(n)) /\ SameLists(m, T(n))
        BY <2>1
    <2>3. results[n + 1].channel \in Names /\ results[n + 1].outcome \in Counters
        <3>1. results[n + 1] \in Result
            BY <2>1
        <3> QED
            BY <3>1 DEF Result, Names, Counters
    <2>4. T(n + 1) = Counted(T(n), results[n + 1].channel, results[n + 1].outcome)
        <3>1. n + 1 \in 0..Len(results) /\ n + 1 # 0 /\ (n + 1) - 1 = n
            BY <2>1
        <3> QED
            BY <3>1, TalliesUnfold
    <2> HIDE DEF T
    <2> QED
        BY <2>2, <2>3, <2>4, CountedToday DEF SameLists
<1>3. Len(results) \in N
    <2>1. N \in SUBSET Nat /\ Len(results) \in Nat
        OBVIOUS
    <2> HIDE DEF N
    <2> QED
        BY <1>1, <1>2, <2>1, Induction
<1>4. CountedAll(m, results) = T(Len(results))
    BY DEF CountedAll, Tallies
<1> QED
    BY <1>3, <1>4

-----------------------------------------------------------------------------
(* Acknowledgements.                                                       *)

\* What the lists of m show, k being one record of them.
ShownIn(k, m) == k.id \in Members(m.acked) => k.acked
SameTally(m, n) == m.day = n.day /\ m.totals = n.totals /\ m.counts = n.counts /\ m.happened = n.happened

LEMMA SameTallied ==
    ASSUME NEW m, NEW n, NEW d, SameTally(m, n), Tallied(m, d)
    PROVE  Tallied(n, d)
BY DEF SameTally, Tallied

LEMMA AckedKept ==
    ASSUME NEW m \in States, Bounded(m), NEW n \in Ids
    PROVE  /\ Acked(m, n) \in States /\ Bounded(Acked(m, n)) /\ SameTally(m, Acked(m, n))
           /\ Acked(m, n).last = m.last /\ Acked(m, n).recent = m.recent /\ Acked(m, n).feed = m.feed
           /\ Members(Acked(m, n).acked) \subseteq {n} \cup Members(m.acked)
           /\ Remembers(Acked(m, n), n)
           /\ \A k : Remembers(m, k) => Remembers(Acked(m, n), k)
<1> DEFINE others == RemoveFirst(m.acked, n)
           all == <<n>> \o others
           kept == Taken(all, AckLimit)
<1>0. AckLimit \in Nat \ {0} /\ m.acked \in Seq(Ids) /\ IsInjective(m.acked) /\ Len(m.acked) <= AckLimit
    BY BoundsAssumption DEF States, Bounded
<1>1. /\ others \in Seq(Ids) /\ IsInjective(others) /\ Members(others) = Members(m.acked) \ {n}
      /\ Len(others) = Len(m.acked) - (IF n \in Members(m.acked) THEN 1 ELSE 0)
    BY <1>0, RemovedOnce
<1> HIDE DEF others
<1>2. /\ all \in Seq(Ids) /\ Len(all) = Len(others) + 1
      /\ all[1] = n /\ \A i \in 2..Len(others) + 1 : all[i] = others[i - 1]
      /\ Members(all) = {n} \cup Members(others)
    BY <1>1, PutFirst
<1> HIDE DEF all
<1>3. /\ kept \in Seq(Ids) /\ Len(kept) = (IF Len(all) < AckLimit THEN Len(all) ELSE AckLimit)
      /\ \A i \in 1..Len(kept) : kept[i] = all[i]
      /\ Members(kept) \subseteq Members(all)
      /\ Len(all) <= AckLimit => Members(kept) = Members(all)
    BY <1>0, <1>2, TakenFirst
<1> HIDE DEF kept
<1>4. IsInjective(kept)
    <2>1. \A i \in 1..Len(others) : others[i] # n
        <3>1. DOMAIN others = 1..Len(others)
            <4>1. others \in Seq(Ids)
                BY <1>1
            <4> QED
                BY <4>1
        <3>2. \A i \in 1..Len(others) : others[i] \in Members(others)
            BY <3>1 DEF Members
        <3> QED
            BY <1>1, <3>2
    <2>2. \A i, j \in 1..Len(others) : others[i] = others[j] => i = j
        BY <1>1 DEF IsInjective
    <2>3. ASSUME NEW i \in 1..Len(all), NEW j \in 1..Len(all), all[i] = all[j]
          PROVE  i = j
        <3>1. CASE i = 1 \/ j = 1
            <4>1. \A k \in 2..Len(others) + 1 : all[k] # n
                <5> SUFFICES ASSUME NEW k \in 2..Len(others) + 1
                             PROVE  all[k] # n
                    OBVIOUS
                <5>1. k - 1 \in 1..Len(others)
                    BY <1>1
                <5> QED
                    BY <1>2, <2>1, <5>1
            <4> QED
                BY <1>1, <1>2, <2>3, <3>1, <4>1
        <3>2. CASE i # 1 /\ j # 1
            <4>1. i - 1 \in 1..Len(others) /\ j - 1 \in 1..Len(others)
                BY <1>1, <1>2, <3>2
            <4>2. others[i - 1] = others[j - 1]
                BY <1>1, <1>2, <2>3, <3>2
            <4> QED
                BY <2>2, <4>1, <4>2
        <3> QED
            BY <3>1, <3>2
    <2>4. \A i \in 1..Len(kept) : i \in 1..Len(all)
        BY <1>0, <1>2, <1>3
    <2> QED
        BY <1>3, <2>3, <2>4 DEF IsInjective
<1>5. Len(kept) <= AckLimit
    BY <1>0, <1>2, <1>3
<1>6. n \in Members(kept)
    <2>1. Len(others) \in Nat /\ Len(kept) \in Nat
        BY <1>1, <1>3
    <2>2. 1 \in 1..Len(kept)
        BY <1>0, <1>2, <1>3, <2>1
    <2>3. DOMAIN kept = 1..Len(kept)
        BY <1>3
    <2> QED
        BY <1>2, <1>3, <2>2, <2>3 DEF Members
<1>7. Members(kept) \subseteq {n} \cup Members(m.acked)
    BY <1>1, <1>2, <1>3
<1>8. ASSUME NEW k, k \in Members(m.acked) \/ Len(m.acked) = AckLimit
      PROVE  k \in Members(kept) \/ Len(kept) = AckLimit
    <2>1. CASE Len(all) <= AckLimit /\ k \in Members(m.acked)
        BY <1>1, <1>2, <1>3, <2>1
    <2>2. CASE Len(all) > AckLimit
        BY <1>0, <1>2, <1>3, <2>2
    <2>3. CASE Len(m.acked) = AckLimit /\ Len(all) <= AckLimit
        <3>1. Len(all) = AckLimit
            BY <1>0, <1>1, <1>2, <2>3
        <3> QED
            BY <1>0, <1>3, <3>1
    <2>4. Len(all) \in Nat
        BY <1>2
    <2> QED
        BY <1>0, <1>8, <2>1, <2>2, <2>3, <2>4
<1>9. Acked(m, n) = [m EXCEPT !.acked = kept]
    BY DEF Acked, kept, all, others
<1>10. /\ Acked(m, n) \in States /\ SameTally(m, Acked(m, n)) /\ Acked(m, n).acked = kept
       /\ Acked(m, n).last = m.last /\ Acked(m, n).recent = m.recent /\ Acked(m, n).feed = m.feed
    BY <1>3, <1>9 DEF States, SameTally
<1> QED
    BY <1>4, <1>5, <1>6, <1>7, <1>8, <1>10 DEF Bounded, Remembers

\* A list of which the records of n are marked.
LEMMA MarkedList ==
    ASSUME NEW items \in Seq(Records), NEW n, NEW field \in {"acked", "cleared"}
    PROVE  /\ Marked(items, n, field) \in Seq(Records)
           /\ \A k \in Members(Marked(items, n, field)) : \E j \in Members(items) :
                 /\ k.id = j.id /\ (j.acked => k.acked)
                 /\ field = "acked" /\ k.id = n => k.acked
<1> DEFINE mark(k) == IF k.id = n THEN [k EXCEPT ![field] = TRUE] ELSE k
<1>1. ASSUME NEW k \in Records
      PROVE  /\ mark(k) \in Records /\ mark(k).id = k.id /\ (k.acked => mark(k).acked)
             /\ field = "acked" /\ k.id = n => mark(k).acked
    BY DEF Records
<1>2. Marked(items, n, field) = [i \in 1..Len(items) |-> mark(items[i])]
    BY DEF Marked
<1> HIDE DEF mark
<1>3. Marked(items, n, field) \in Seq(Records) /\ DOMAIN Marked(items, n, field) = 1..Len(items)
    BY <1>1, <1>2
<1>4. ASSUME NEW k \in Members(Marked(items, n, field))
      PROVE  \E j \in Members(items) :
                /\ k.id = j.id /\ (j.acked => k.acked)
                /\ field = "acked" /\ k.id = n => k.acked
    <2>1. PICK i \in 1..Len(items) : k = mark(items[i])
        BY <1>2, <1>3 DEF Members
    <2>2. items[i] \in Records /\ items[i] \in Members(items)
        BY DEF Members
    <2> QED
        BY <1>1, <2>1, <2>2
<1> QED
    BY <1>3, <1>4

\* What marking leaves alone, and that all are shown then.
LEMMA MarkedKept ==
    ASSUME NEW m \in States, NEW n, NEW field \in {"acked", "cleared"}
    PROVE  /\ MarkedAll(m, n, field) \in States /\ SameTally(m, MarkedAll(m, n, field))
           /\ MarkedAll(m, n, field).acked = m.acked
           /\ (\A k \in Members(m.last) \cup Members(m.recent) \cup Members(m.feed) :
                  (field = "acked" /\ k.id = n) \/ ShownIn(k, m))
              => Shown(MarkedAll(m, n, field))
<1> DEFINE r == [m EXCEPT !.last = Marked(@, n, field), !.recent = Marked(@, n, field), !.feed = Marked(@, n, field)]
<1>1. m.last \in Seq(Records) /\ m.recent \in Seq(Records) /\ m.feed \in Seq(Records)
    BY DEF States
<1>2. MarkedAll(m, n, field) = r
    BY DEF MarkedAll
<1>3. r \in States /\ SameTally(m, r) /\ r.acked = m.acked
    BY <1>1, MarkedList DEF States, SameTally
<1>4. r.last = Marked(m.last, n, field) /\ r.recent = Marked(m.recent, n, field) /\ r.feed = Marked(m.feed, n, field)
    BY DEF States
<1> HIDE DEF r
<1>5. ASSUME \A k \in Members(m.last) \cup Members(m.recent) \cup Members(m.feed) :
                  (field = "acked" /\ k.id = n) \/ ShownIn(k, m)
      PROVE  Shown(r)
    <2> SUFFICES ASSUME NEW k \in Members(r.last) \cup Members(r.recent) \cup Members(r.feed),
                        k.id \in Members(r.acked)
                 PROVE  k.acked
        BY DEF Shown
    <2>1. PICK j \in Members(m.last) \cup Members(m.recent) \cup Members(m.feed) :
              /\ k.id = j.id /\ (j.acked => k.acked)
              /\ field = "acked" /\ k.id = n => k.acked
        <3>1. ASSUME NEW items \in Seq(Records), k \in Members(Marked(items, n, field))
              PROVE  \E j \in Members(items) :
                        /\ k.id = j.id /\ (j.acked => k.acked)
                        /\ field = "acked" /\ k.id = n => k.acked
            BY <3>1, MarkedList
        <3>2. CASE k \in Members(r.last)
            BY <1>1, <1>4, <3>1, <3>2
        <3>3. CASE k \in Members(r.recent)
            BY <1>1, <1>4, <3>1, <3>3
        <3>4. CASE k \in Members(r.feed)
            BY <1>1, <1>4, <3>1, <3>4
        <3> QED
            BY <3>2, <3>3, <3>4
    <2> QED
        BY <1>3, <1>5, <2>1 DEF ShownIn
<1> QED
    BY <1>2, <1>3, <1>5

-----------------------------------------------------------------------------
(* What a step may do.                                                     *)

\* To the memories: the one in charge forgets no acknowledgement.
MemoryMoves ==
    /\ mem' \in [Gens -> States] /\ \A g \in Gens : Sound(mem'[g], day)
    /\ \A k : Remembers(mem[gen], k) => Remembers(mem'[gen], k)

\* While the life of the coordinators stands still:
Stays ==
    /\ UNCHANGED life
    /\ events' \in Nat /\ Turns <= events' /\ events' <= MaxEvents
Handled == sends' \in [Senders -> SendStates] /\ asks' \in [Answers -> AskStates]

LEMMA InCharge ==
    ASSUME TypeOK
    PROVE  gen \in Gens /\ 0..gen \subseteq Gens
<1>1. gen \in Nat /\ events \in Nat /\ gen <= Turns /\ Turns \in Nat /\ Turns <= events /\ events <= MaxEvents
    BY DEF TypeOK, Turns
<1>2. gen <= MaxEvents /\ MaxEvents \in Nat
    BY <1>1, BoundsAssumption
<1> QED
    BY <1>1, <1>2 DEF Gens

LEMMA StoredOne ==
    ASSUME TypeOK, NEW g \in Gens, pending[g] # <<>>
    PROVE  pending[g][1] \in States
<1>1. PICK m \in States : pending[g] = <<m>>
    BY DEF TypeOK, Stores
<1> QED
    BY <1>1

LEMMA MemorySame ==
    ASSUME IInv, mem' = mem
    PROVE  MemoryMoves
BY DEF IInv, TypeOK, AllSound, MemoryMoves

\* One coordinator changes what it has.
LEMMA OneMemory ==
    ASSUME IInv, NEW g \in Gens, NEW new \in States, Sound(new, day),
           \A k : Remembers(mem[g], k) => Remembers(new, k), mem' = [mem EXCEPT ![g] = new]
    PROVE  MemoryMoves /\ mem'[g] = new
<1>1. mem \in [Gens -> States] /\ \A h \in Gens : Sound(mem[h], day)
    BY DEF IInv, TypeOK, AllSound
<1>2. mem' \in [Gens -> States] /\ mem'[g] = new /\ \A h \in Gens \ {g} : mem'[h] = mem[h]
    BY <1>1
<1>3. \A h \in Gens : Sound(mem'[h], day)
    BY <1>1, <1>2
<1>4. gen \in Gens
    BY InCharge DEF IInv
<1>5. \A k : Remembers(mem[gen], k) => Remembers(mem'[gen], k)
    BY <1>2, <1>4
<1> QED
    BY <1>2, <1>3, <1>5 DEF MemoryMoves

\* What is no more used is not kept.
LEMMA KeptMemory ==
    ASSUME NEW m \in [Gens -> States], NEW d \in Nat, \A g \in Gens : Sound(m[g], d), gen' \in Gens
    PROVE  /\ Kept(m) \in [Gens -> States] /\ \A g \in Gens : Sound(Kept(m)[g], d)
           /\ Kept(m)[gen'] = m[gen']
<1> DEFINE Used(g) == \/ g = gen'
                      \/ \E s \in Senders : sends'[s].pc \in {"routing", "checking", "save"} /\ sends'[s].gen = g
                      \/ \E a \in Answers : asks'[a].pc = "feedback" /\ asks'[a].gen = g
<1>1. Kept(m) = [g \in Gens |-> IF Used(g) THEN m[g] ELSE NoState]
    BY DEF Kept
<1>2. Used(gen')
    OBVIOUS
<1> HIDE DEF Used
<1>3. NoState \in States /\ Sound(NoState, d)
    BY NoStateSound
<1> QED
    BY <1>1, <1>2, <1>3

LEMMA KeptMoves ==
    ASSUME IInv, UNCHANGED life, mem' = Kept(mem)
    PROVE  MemoryMoves /\ mem'[gen] = mem[gen]
<1>1. mem \in [Gens -> States] /\ day \in Nat /\ \A g \in Gens : Sound(mem[g], day)
    BY DEF IInv, TypeOK, AllSound
<1>2. gen' = gen /\ gen' \in Gens
    BY InCharge DEF IInv, life
<1>3. /\ mem' \in [Gens -> States] /\ \A g \in Gens : Sound(mem'[g], day)
      /\ mem'[gen] = mem[gen]
    BY <1>1, <1>2, KeptMemory
<1> QED
    BY <1>3 DEF MemoryMoves

LEMMA KindsKept ==
    ASSUME TypeOK, MemoryMoves, Stays, Handled,
           disk' \in States, pending' \in [Gens -> Stores], late' \in BOOLEAN,
           \A g \in Gens : gen < g => pending'[g] = <<>>
    PROVE  TypeOK'
<1>1. gen' = gen /\ phase' = phase /\ day' = day
    BY DEF Stays, life
<1>2. SendStates' = SendStates /\ AskStates' = AskStates /\ Turns' = Turns
    BY <1>1 DEF SendStates, AskStates, Asking, Turns
<1> QED
    BY <1>1, <1>2 DEF TypeOK, MemoryMoves, Stays, Handled

\* The answer old goes on as new.
GoesOn(old, new) ==
    /\ Live(old) /\ new.id = old.id
    /\ (Given(new) => Given(old)) /\ (Settled(new) => Settled(old))

\* Nothing is given to a store, and nothing written.
LEMMA FileKeeps ==
    ASSUME IInv, MemoryMoves, Stays, Handled, UNCHANGED file,
           \A a \in Answers : Live(asks'[a]) =>
               /\ Remembers(mem'[gen], asks'[a].id)
               /\ Given(asks'[a]) => GoesOn(asks[a], asks'[a])
    PROVE  IInv'
<1>1. disk' = disk /\ pending' = pending /\ late' = late /\ gen' = gen /\ day' = day
    BY DEF file, Stays, life
<1>2. TypeOK'
    BY <1>1, KindsKept DEF IInv, TypeOK
<1>3. AllSound'
    BY <1>1 DEF IInv, AllSound, MemoryMoves
<1>4. Remembered'
    <2> SUFFICES ASSUME NEW a \in Answers, Live(asks'[a])
                 PROVE  /\ Remembers(mem'[gen], asks'[a].id)
                        /\ Given(asks'[a]) /\ pending[gen] # <<>> => Remembers(pending[gen][1], asks'[a].id)
                        /\ Given(asks'[a]) /\ (Settled(asks'[a]) \/ pending[gen] = <<>>) /\ ~late
                              => Remembers(disk, asks'[a].id)
        BY <1>1 DEF Stays, life, Remembered, Live, Settled, Given
    <2> QED
        BY DEF IInv, Remembered, GoesOn
<1> QED
    BY <1>2, <1>3, <1>4 DEF IInv

\* A store is given m; that of the coordinator in charge is given what it has.
LEMMA SavedKeeps ==
    ASSUME IInv, MemoryMoves, Stays, Handled, NEW g \in 0..gen, NEW m \in States, Sound(m, day),
           Saves(g, m), g = gen => m = mem'[gen],
           \A a \in Answers : Live(asks'[a]) =>
               /\ Live(asks[a]) /\ asks'[a].id = asks[a].id
               /\ Settled(asks'[a]) => Settled(asks[a])
               /\ g # gen /\ Given(asks'[a]) => Given(asks[a])
    PROVE  IInv'
<1>1. disk' = disk /\ late' = late /\ gen' = gen /\ day' = day
    BY DEF Saves, Stays, life
<1>2. g \in Gens /\ gen \in Gens /\ pending \in [Gens -> Stores] /\ gen \in Nat
    BY InCharge DEF IInv, TypeOK
<1>3. pending' = [pending EXCEPT ![g] = <<m>>]
    BY DEF Saves
<1>4. pending'[g] = <<m>> /\ \A h \in Gens \ {g} : pending'[h] = pending[h]
    BY <1>2, <1>3
<1>5. TypeOK'
    <2>1. pending' \in [Gens -> Stores]
        BY <1>2, <1>3 DEF Stores
    <2>2. \A h \in Gens : gen < h => pending'[h] = <<>>
        BY <1>2, <1>4 DEF IInv, TypeOK
    <2> QED
        BY <1>1, <2>1, <2>2, KindsKept DEF IInv, TypeOK
<1>6. AllSound'
    BY <1>1, <1>4 DEF IInv, AllSound, MemoryMoves
<1>7. ASSUME NEW a \in Answers, Live(asks'[a])
      PROVE  /\ Remembers(mem'[gen], asks'[a].id)
             /\ Given(asks'[a]) /\ pending'[gen] # <<>> => Remembers(pending'[gen][1], asks'[a].id)
             /\ Given(asks'[a]) /\ (Settled(asks'[a]) \/ pending'[gen] = <<>>) /\ ~late
                   => Remembers(disk, asks'[a].id)
    <2>1. Live(asks[a]) /\ asks'[a].id = asks[a].id /\ (Settled(asks'[a]) => Settled(asks[a]))
        BY <1>7
    <2>2. Remembers(mem'[gen], asks'[a].id)
        BY <2>1 DEF IInv, Remembered, MemoryMoves
    <2>3. Settled(asks'[a]) /\ ~late => Remembers(disk, asks'[a].id)
        BY <2>1 DEF IInv, Remembered, Given
    <2>4. CASE g = gen
        BY <1>4, <2>2, <2>3, <2>4
    <2>5. CASE g # gen
        <3>1. pending'[gen] = pending[gen] /\ g < gen
            BY <1>2, <1>4, <2>5
        <3>2. Given(asks'[a]) => Given(asks[a])
            BY <1>7, <2>5
        <3> QED
            BY <2>1, <2>2, <3>1, <3>2 DEF IInv, Remembered
    <2> QED
        BY <2>4, <2>5
<1>8. Remembered'
    BY <1>1, <1>7 DEF Stays, life, Remembered, Live, Settled, Given
<1> QED
    BY <1>5, <1>6, <1>8 DEF IInv

\* A store writes what it has, that of the coordinator in charge what it was given.
LEMMA WrittenKeeps ==
    ASSUME IInv, Stays, Handled, UNCHANGED mem, NEW g \in 0..gen, Written(g),
           \A a \in Answers : Live(asks'[a]) =>
               /\ Live(asks[a]) /\ asks'[a].id = asks[a].id /\ (Given(asks'[a]) => Given(asks[a]))
               /\ Settled(asks'[a]) => Settled(asks[a]) \/ (g = gen /\ Given(asks[a]))
    PROVE  IInv'
<1>1. gen' = gen /\ day' = day /\ mem' = mem
    BY DEF Stays, life
<1>2. g \in Gens /\ gen \in Gens /\ pending \in [Gens -> Stores] /\ gen \in Nat
    BY InCharge DEF IInv, TypeOK
<1>3. /\ pending' = [pending EXCEPT ![g] = <<>>]
      /\ pending[g] = <<>> => disk' = disk /\ late' = late
      /\ pending[g] # <<>> => disk' = pending[g][1] /\ late' = (g # gen)
    BY DEF Written
<1>4. pending'[g] = <<>> /\ \A h \in Gens \ {g} : pending'[h] = pending[h]
    BY <1>2, <1>3
<1>5. pending[g] # <<>> => pending[g][1] \in States /\ Sound(pending[g][1], day)
    BY <1>2, StoredOne DEF IInv, AllSound
<1>6. disk' \in States /\ Sound(disk', day) /\ late' \in BOOLEAN
    BY <1>3, <1>5 DEF IInv, TypeOK, AllSound
<1>7. TypeOK'
    <2>1. pending' \in [Gens -> Stores]
        BY <1>2, <1>3 DEF Stores
    <2>2. \A h \in Gens : gen < h => pending'[h] = <<>>
        BY <1>2, <1>4 DEF IInv, TypeOK
    <2>3. MemoryMoves
        BY <1>1, MemorySame
    <2> QED
        BY <1>6, <2>1, <2>2, <2>3, KindsKept DEF IInv
<1>8. AllSound'
    BY <1>1, <1>4, <1>6 DEF IInv, AllSound
<1>9. ASSUME NEW a \in Answers, Live(asks'[a])
      PROVE  /\ Remembers(mem[gen], asks'[a].id)
             /\ Given(asks'[a]) /\ pending'[gen] # <<>> => Remembers(pending'[gen][1], asks'[a].id)
             /\ Given(asks'[a]) /\ (Settled(asks'[a]) \/ pending'[gen] = <<>>) /\ ~late'
                   => Remembers(disk', asks'[a].id)
    <2>1. /\ Live(asks[a]) /\ asks'[a].id = asks[a].id /\ (Given(asks'[a]) => Given(asks[a]))
          /\ Settled(asks'[a]) => Settled(asks[a]) \/ (g = gen /\ Given(asks[a]))
        BY <1>9
    <2>2. /\ Remembers(mem[gen], asks[a].id)
          /\ Given(asks[a]) /\ pending[gen] # <<>> => Remembers(pending[gen][1], asks[a].id)
          /\ Given(asks[a]) /\ (Settled(asks[a]) \/ pending[gen] = <<>>) /\ ~late => Remembers(disk, asks[a].id)
        BY <2>1 DEF IInv, Remembered
    <2>3. CASE g = gen
        BY <1>3, <1>4, <2>1, <2>2, <2>3
    <2>4. CASE g # gen
        <3>1. pending'[gen] = pending[gen]
            BY <1>2, <1>4, <2>4
        <3>2. ~late' => disk' = disk /\ ~late
            BY <1>3, <2>4
        <3> QED
            BY <2>1, <2>2, <2>4, <3>1, <3>2
    <2> QED
        BY <2>3, <2>4
<1>10. Remembered'
    BY <1>1, <1>9 DEF Stays, life, Remembered, Live, Settled, Given
<1> QED
    BY <1>7, <1>8, <1>10 DEF IInv

-----------------------------------------------------------------------------
(* Deliveries.                                                             *)

\* They leave the answers alone.
LEMMA SendingKeeps ==
    ASSUME IInv, MemoryMoves, Stays, sends' \in [Senders -> SendStates], UNCHANGED <<file, asks>>
    PROVE  IInv'
<1>1. Handled
    BY DEF IInv, TypeOK, Handled
<1>2. \A a \in Answers : Live(asks'[a]) =>
          /\ Remembers(mem'[gen], asks'[a].id)
          /\ Given(asks'[a]) => GoesOn(asks[a], asks'[a])
    BY DEF IInv, Remembered, MemoryMoves, GoesOn
<1> QED
    BY <1>1, <1>2, FileKeeps

LEMMA Uneventful ==
    ASSUME IInv, UNCHANGED <<life, events>>
    PROVE  Stays
BY DEF IInv, TypeOK, Stays

LEMMA Sending ==
    ASSUME TypeOK, NEW s \in Senders
    PROVE  /\ sends[s] \in SendStates
           /\ sends[s].pc = "routing" =>
                 sends[s] \in [pc : {"routing"}, gen : 0..gen, id : Ids, route : Seq(Channels), ai : BOOLEAN, results : Seq(Result)]
           /\ sends[s].pc \in {"checking", "save", "write"} =>
                 sends[s] \in [pc : {"checking", "save", "write"}, gen : 0..gen]
<1>1. sends[s] \in SendStates
    BY DEF TypeOK
<1> QED
    BY <1>1 DEF SendStates, Nobody

LEMMA StartsTyped ==
    ASSUME IInv, NEW s \in Senders, NEW n \in Ids, NEW route \in Seq(Channels), NEW ai \in BOOLEAN,
           Starts(s, n, route, ai), UNCHANGED life
    PROVE  sends' \in [Senders -> SendStates] /\ Stays
<1> DEFINE new == [pc |-> "routing", gen |-> gen, id |-> n, route |-> route, ai |-> ai, results |-> <<>>]
<1>0. gen \in 0..gen
    BY DEF IInv, TypeOK
<1>1. new \in [pc : {"routing"}, gen : 0..gen, id : Ids, route : Seq(Channels), ai : BOOLEAN, results : Seq(Result)]
    BY <1>0
<1>2. new \in SendStates
    BY <1>1 DEF SendStates
<1>3. sends' = [sends EXCEPT ![s] = new] /\ events < MaxEvents /\ events' = events + 1
    BY DEF Starts, Event
<1> HIDE DEF new
<1>4. sends' \in [Senders -> SendStates]
    BY <1>2, <1>3 DEF IInv, TypeOK
<1>5. Stays
    BY <1>3, BoundsAssumption DEF IInv, TypeOK, Turns, Stays
<1> QED
    BY <1>4, <1>5

LEMMA NothingForgotten ==
    ASSUME NEW m, NEW n, m.acked = n.acked
    PROVE  \A k : Remembers(m, k) => Remembers(n, k)
BY DEF Remembers

\* What a memory counts apart from results.
LEMMA CountedOne ==
    ASSUME IInv, NEW g \in Gens, NEW c \in {Early, Character}, NEW o \in {"ai", "dropped"}
    PROVE  LET new == Counted(Reset(mem[g]), c, o)
           IN  new \in States /\ Sound(new, day) /\ \A k : Remembers(mem[g], k) => Remembers(new, k)
<1>1. mem[g] \in States /\ Sound(mem[g], day) /\ day \in Nat
    BY DEF IInv, TypeOK, AllSound
<1>2. c \in Names /\ o \in Counters
    BY DEF Names, Counters, Outcomes
<1>3. Today(Reset(mem[g])) /\ SameLists(mem[g], Reset(mem[g]))
    BY <1>1, ResetToday
<1>4. /\ Today(Counted(Reset(mem[g]), c, o))
      /\ SameLists(Reset(mem[g]), Counted(Reset(mem[g]), c, o))
    BY <1>1, <1>2, <1>3, CountedToday
<1>5. mem[g].acked = Counted(Reset(mem[g]), c, o).acked
    BY <1>3, <1>4 DEF SameLists
<1> QED
    BY <1>4, <1>5, NothingForgotten DEF Today

LEMMA StartKeeps ==
    ASSUME IInv, NEW s \in Senders, NEW n \in Ids,
           Start(s, n) \/ Summarise(s, n) \/ Test(s, n) \/ Announce(s, n)
    PROVE  IInv'
<1>1. Route \in Seq(Channels) /\ Voice \in Seq(Channels) /\ \A c \in Tested : <<c>> \in Seq(Channels)
    BY RoutesAssumption, EndsAssumption
<1>2. UNCHANGED <<file, life, asks>>
    BY DEF Start, Summarise, Test, Announce
<1>3. \E route \in Seq(Channels), ai \in BOOLEAN : Starts(s, n, route, ai)
    BY <1>1 DEF Start, Summarise, Test, Announce
<1>4. sends' \in [Senders -> SendStates] /\ Stays
    BY <1>2, <1>3, StartsTyped
<1>5. MemoryMoves
    <2>1. CASE mem' = mem
        BY <2>1, MemorySame
    <2>2. CASE Summarise(s, n)
        <3>1. mem' = [mem EXCEPT ![gen] = Counted(Reset(mem[gen]), Character, "ai")]
            BY <2>2 DEF Summarise
        <3>2. gen \in Gens
            BY InCharge DEF IInv
        <3> QED
            BY <3>1, <3>2, CountedOne, OneMemory
    <2> QED
        BY <2>1, <2>2 DEF Start, Test, Announce
<1> QED
    BY <1>2, <1>4, <1>5, SendingKeeps

LEMMA ArriveKeeps ==
    ASSUME IInv, NEW s \in Senders, Arrive(s)
    PROVE  IInv'
<1>1. gen \in 0..gen
    BY DEF IInv, TypeOK
<1>2. [pc |-> "checking", gen |-> gen] \in SendStates
    BY <1>1 DEF SendStates
<1>3. /\ sends' = [sends EXCEPT ![s] = [pc |-> "checking", gen |-> gen]]
      /\ UNCHANGED <<mem, file, life, asks>> /\ events < MaxEvents /\ events' = events + 1
    BY DEF Arrive, Event
<1>4. sends' \in [Senders -> SendStates]
    BY <1>2, <1>3 DEF IInv, TypeOK
<1>5. Stays
    BY <1>3, BoundsAssumption DEF IInv, TypeOK, Turns, Stays
<1> QED
    BY <1>3, <1>4, <1>5, MemorySame, SendingKeeps

LEMMA CheckedKeeps ==
    ASSUME IInv, NEW s \in Senders, Checked(s)
    PROVE  IInv'
<1> DEFINE g == sends[s].gen
<1>1. g \in 0..gen /\ g \in Gens
    <2>1. sends[s] \in [pc : {"checking", "save", "write"}, gen : 0..gen]
        BY Sending DEF IInv, Checked
    <2> QED
        BY <2>1, InCharge DEF IInv
<1>2. UNCHANGED <<file, life, asks, events>>
    BY DEF Checked
<1>3. [pc |-> "save", gen |-> g] \in SendStates /\ Nobody \in SendStates
    BY <1>1 DEF SendStates
<1>4. sends' = [sends EXCEPT ![s] = [pc |-> "save", gen |-> g]] \/ sends' = [sends EXCEPT ![s] = Nobody]
    BY DEF Checked
<1>5. sends' \in [Senders -> SendStates]
    BY <1>3, <1>4 DEF IInv, TypeOK
<1>6. CASE mem' = [mem EXCEPT ![g] = Counted(Reset(mem[g]), Early, "dropped")]
    <2> HIDE DEF g
    <2>1. MemoryMoves
        BY <1>1, <1>6, CountedOne, OneMemory
    <2> QED
        BY <1>2, <1>5, <2>1, Uneventful, SendingKeeps
<1>7. CASE mem' = Kept(mem)
    BY <1>2, <1>5, <1>7, KeptMoves, Uneventful, SendingKeeps
<1> QED
    BY <1>6, <1>7 DEF Checked

\* A record that is made now shows the acknowledgement that came before it.
LEMMA PutInFront ==
    ASSUME NEW S, NEW items \in Seq(S), NEW item \in S, NEW n \in Nat
    PROVE  /\ <<item>> \o Taken(items, n) \in Seq(S)
           /\ Members(<<item>> \o Taken(items, n)) \subseteq {item} \cup Members(items)
           /\ Taken(<<item>> \o items, n) \in Seq(S)
           /\ Members(Taken(<<item>> \o items, n)) \subseteq {item} \cup Members(items)
<1>1. Taken(items, n) \in Seq(S) /\ Members(Taken(items, n)) \subseteq Members(items)
    BY TakenFirst
<1>2. /\ <<item>> \o Taken(items, n) \in Seq(S)
      /\ Members(<<item>> \o Taken(items, n)) = {item} \cup Members(Taken(items, n))
    BY <1>1, PutFirst
<1>3. <<item>> \o items \in Seq(S) /\ Members(<<item>> \o items) = {item} \cup Members(items)
    BY PutFirst
<1>4. /\ Taken(<<item>> \o items, n) \in Seq(S)
      /\ Members(Taken(<<item>> \o items, n)) \subseteq Members(<<item>> \o items)
    BY <1>3, TakenFirst
<1> QED
    BY <1>1, <1>2, <1>3, <1>4

LEMMA SendKeeps ==
    ASSUME IInv, NEW s \in Senders, Send(s)
    PROVE  IInv'
<1>1. sends[s] \in [pc : {"routing"}, gen : 0..gen, id : Ids, route : Seq(Channels), ai : BOOLEAN, results : Seq(Result)]
    BY Sending DEF IInv, Send
<1>2. PICK n, c, g, outcome :
          /\ n = sends[s].id /\ c = sends[s].route[Len(sends[s].results) + 1] /\ outcome \in Ends[c]
          /\ g = sends[s].gen
          /\ sends' = [sends EXCEPT ![s].results = Append(@, [channel |-> c, outcome |-> outcome])]
          /\ mem' = IF c = Feed /\ outcome = "sent"
                    THEN [mem EXCEPT ![g].feed = <<FeedItem(mem[g], n)>> \o Taken(@, Limit - 1)]
                    ELSE mem
    <2> DEFINE c == sends[s].route[Len(sends[s].results) + 1]
               n == sends[s].id
               g == sends[s].gen
    <2>1. PICK outcome \in Ends[c] :
              /\ sends' = [sends EXCEPT ![s].results = Append(@, [channel |-> c, outcome |-> outcome])]
              /\ mem' = IF c = Feed /\ outcome = "sent"
                        THEN [mem EXCEPT ![g].feed = <<FeedItem(mem[g], n)>> \o Taken(@, Limit - 1)]
                        ELSE mem
        BY Zenon DEF Send
    <2> QED
        BY <2>1, Zenon
<1>3. Len(sends[s].results) < Len(sends[s].route) /\ UNCHANGED <<file, life, asks, events>>
    BY DEF Send
<1>4. n \in Ids /\ c \in Channels /\ g \in Gens
    <2>1. sends[s].route \in Seq(Channels) /\ sends[s].results \in Seq(Result)
        BY <1>1
    <2>2. Len(sends[s].results) + 1 \in 1..Len(sends[s].route)
        BY <1>3, <2>1
    <2> QED
        BY <1>1, <1>2, <2>1, <2>2, InCharge DEF IInv
<1>5. outcome \in Outcomes
    BY <1>2, <1>4, EndsAssumption
<1>6. sends' \in [Senders -> SendStates]
    <2>1. [channel |-> c, outcome |-> outcome] \in Result
        BY <1>4, <1>5 DEF Result
    <2> DEFINE results == Append(sends[s].results, [channel |-> c, outcome |-> outcome])
               new == [sends[s] EXCEPT !.results = results]
    <2>2. new \in [pc : {"routing"}, gen : 0..gen, id : Ids, route : Seq(Channels), ai : BOOLEAN, results : Seq(Result)]
        <3>1. sends[s].results \in Seq(Result)
            BY <1>1
        <3>2. results \in Seq(Result)
            BY <2>1, <3>1
        <3> HIDE DEF results
        <3> QED
            BY <1>1, <3>2
    <2>3. new \in SendStates
        BY <2>2 DEF SendStates
    <2>4. sends' = [sends EXCEPT ![s] = new]
        BY <1>2 DEF IInv, TypeOK
    <2> HIDE DEF new
    <2> QED
        BY <2>3, <2>4 DEF IInv, TypeOK
<1>7. MemoryMoves
    <2>1. CASE mem' = mem
        BY <2>1, MemorySame
    <2>2. CASE mem' = [mem EXCEPT ![g].feed = <<FeedItem(mem[g], n)>> \o Taken(@, Limit - 1)]
        <3>1. PICK m \in States : m = mem[g] /\ Sound(m, day)
            BY <1>4 DEF IInv, TypeOK, AllSound
        <3> DEFINE feed == <<FeedItem(m, n)>> \o Taken(m.feed, Limit - 1)
                   new == [m EXCEPT !.feed = feed]
        <3>2. FeedItem(m, n) \in Records /\ ShownIn(FeedItem(m, n), m)
            <4>1. (n \in Members(m.acked)) \in BOOLEAN /\ <<>> \in Seq(Result)
                OBVIOUS
            <4> QED
                BY <1>4, <4>1 DEF FeedItem, Records, ShownIn
        <3>3. Limit - 1 \in Nat /\ m.feed \in Seq(Records)
            BY BoundsAssumption DEF States
        <3>4. feed \in Seq(Records) /\ Members(feed) \subseteq {FeedItem(m, n)} \cup Members(m.feed)
            BY <3>2, <3>3, PutInFront
        <3>5. mem' = [mem EXCEPT ![g] = new]
            BY <1>4, <2>2, <3>1 DEF IInv, TypeOK
        <3> HIDE DEF feed
        <3>6. /\ new \in States /\ SameTally(m, new)
              /\ new.acked = m.acked /\ new.last = m.last /\ new.recent = m.recent /\ new.feed = feed
            BY <3>4 DEF States, SameTally
        <3> HIDE DEF new
        <3>7. Shown(new)
            BY <3>1, <3>2, <3>4, <3>6 DEF Sound, Shown, ShownIn
        <3>8. Sound(new, day)
            BY <3>1, <3>6, <3>7, SameTallied DEF Sound, Bounded
        <3> QED
            BY <1>4, <3>1, <3>5, <3>6, <3>8, OneMemory, NothingForgotten
    <2> QED
        BY <1>2, <2>1, <2>2
<1> QED
    BY <1>3, <1>6, <1>7, Uneventful, SendingKeeps

\* The state with a delivery recorded in it.
LEMMA RecordedState ==
    ASSUME day \in Nat, NEW before \in States, Sound(before, day), NEW send, send.id \in Ids, send.results \in Seq(Result)
    PROVE  LET new == Recorded(before, send)
           IN  new \in States /\ Sound(new, day) /\ new.acked = before.acked
<1> DEFINE item == Item(before, send.id, send.results)
           reset == Reset(before)
           first == IF send.ai THEN Counted(reset, Character, "ai") ELSE reset
           m == CountedAll(first, send.results)
           new == Recorded(before, send)
<1>3. Today(reset) /\ SameLists(before, reset)
    BY ResetToday
<1>4. Character \in Names /\ "ai" \in Counters
    BY DEF Names, Counters
<1>5. Today(first) /\ SameLists(before, first)
    <2> HIDE DEF reset
    <2> QED
        BY <1>3, <1>4, CountedToday DEF SameLists
<1>6. Today(m) /\ SameLists(before, m)
    <2> HIDE DEF first
    <2> QED
        BY <1>5, CountedAllToday DEF SameLists
<1>7. item \in Records /\ ShownIn(item, before)
    <2>1. (send.id \in Members(before.acked)) \in BOOLEAN
        OBVIOUS
    <2> QED
        BY <2>1 DEF Item, Records, ShownIn
<1>8. new = [m EXCEPT !.notifications = @ + 1, !.last = <<item>>, !.recent = Taken(<<item>> \o @, Limit)]
    BY DEF Recorded
<1> DEFINE recent == Taken(<<item>> \o m.recent, Limit)
<1>9. m \in States /\ m.recent \in Seq(Records) /\ Limit \in Nat
    BY <1>6, BoundsAssumption DEF Today, States
<1> HIDE DEF item, m, new
<1>10. recent \in Seq(Records) /\ Members(recent) \subseteq {item} \cup Members(m.recent)
    BY <1>7, <1>9, PutInFront
<1>11. <<item>> \in Seq(Records) /\ Members(<<item>>) = {item}
    BY <1>7 DEF Members
<1>12. new = [m EXCEPT !.notifications = m.notifications + 1, !.last = <<item>>, !.recent = recent]
    BY <1>8
<1> HIDE DEF recent
<1>13. /\ new \in States /\ SameTally(m, new)
       /\ new.acked = m.acked /\ new.last = <<item>> /\ new.recent = recent /\ new.feed = m.feed
    <2>1. PICK count \in Nat : count = m.notifications + 1
        BY <1>9 DEF States
    <2>2. PICK list \in Seq(Records) : list = <<item>>
        BY <1>11
    <2>3. new = [m EXCEPT !.notifications = count, !.last = list, !.recent = recent]
        BY <1>12, <2>1, <2>2
    <2> QED
        BY <1>9, <1>10, <2>2, <2>3 DEF States, SameTally
<1>14. m.acked = before.acked /\ m.recent = before.recent /\ m.feed = before.feed
    BY <1>6 DEF SameLists
<1>15. Shown(new)
    BY <1>7, <1>10, <1>11, <1>13, <1>14 DEF Sound, Shown, ShownIn
<1>16. Sound(new, day)
    BY <1>6, <1>13, <1>15, SameTallied DEF Today, Sound, Bounded
<1> QED
    BY <1>13, <1>14, <1>16 DEF new

LEMMA RecordKeeps ==
    ASSUME IInv, NEW s \in Senders, Record(s)
    PROVE  IInv'
<1>1. sends[s] \in [pc : {"routing"}, gen : 0..gen, id : Ids, route : Seq(Channels), ai : BOOLEAN, results : Seq(Result)]
    BY Sending DEF IInv, Record
<1>2. PICK g \in Gens : g = sends[s].gen /\ g \in 0..gen
    BY <1>1, InCharge DEF IInv
<1>3. PICK new : new = Recorded(mem[g], sends[s])
    OBVIOUS
<1>4. /\ UNCHANGED <<file, life, asks, events>>
      /\ sends' = [sends EXCEPT ![s] = [pc |-> "save", gen |-> g]]
      /\ mem' = [mem EXCEPT ![g] = new]
    BY <1>2, <1>3 DEF Record
<1>5. new \in States /\ Sound(new, day) /\ new.acked = mem[g].acked
    <2>1. mem[g] \in States /\ Sound(mem[g], day) /\ day \in Nat /\ sends[s].id \in Ids /\ sends[s].results \in Seq(Result)
        BY <1>1 DEF IInv, TypeOK, AllSound
    <2> QED
        BY <1>3, <2>1, RecordedState
<1>6. MemoryMoves
    BY <1>4, <1>5, OneMemory, NothingForgotten
<1>7. [pc |-> "save", gen |-> g] \in SendStates
    BY <1>2 DEF SendStates
<1>8. sends' \in [Senders -> SendStates]
    BY <1>4, <1>7 DEF IInv, TypeOK
<1> QED
    BY <1>4, <1>6, <1>8, Uneventful, SendingKeeps

LEMMA SendSavesKeeps ==
    ASSUME IInv, NEW s \in Senders, SendSaves(s)
    PROVE  IInv'
<1>1. sends[s] \in [pc : {"checking", "save", "write"}, gen : 0..gen]
    BY Sending DEF IInv, SendSaves
<1>2. PICK g \in 0..gen : g = sends[s].gen
    BY <1>1
<1>3. g \in Gens /\ mem[g] \in States /\ Sound(mem[g], day)
    BY <1>2, InCharge DEF IInv, TypeOK, AllSound
<1>4. /\ Saves(g, mem[g]) /\ UNCHANGED <<life, asks, events>> /\ mem' = Kept(mem)
      /\ sends' = [sends EXCEPT ![s] = [sends[s] EXCEPT !.pc = "write"]]
    BY <1>2 DEF SendSaves
<1>5. MemoryMoves /\ mem'[gen] = mem[gen] /\ Stays
    BY <1>4, KeptMoves, Uneventful
<1>6. Handled
    <2>1. [sends[s] EXCEPT !.pc = "write"] \in SendStates
        BY <1>1 DEF SendStates
    <2> QED
        BY <1>4, <2>1 DEF IInv, TypeOK, Handled
<1> QED
    BY <1>3, <1>4, <1>5, <1>6, SavedKeeps

LEMMA SendWrittenKeeps ==
    ASSUME IInv, NEW s \in Senders, SendWritten(s)
    PROVE  IInv'
<1>1. sends[s].gen \in 0..gen
    BY Sending DEF IInv, SendWritten
<1>2. UNCHANGED <<mem, life, asks, events>> /\ Written(sends[s].gen) /\ sends' = [sends EXCEPT ![s] = Nobody]
    BY DEF SendWritten
<1>3. Handled
    <2>1. Nobody \in SendStates
        BY DEF SendStates
    <2> QED
        BY <1>2, <2>1 DEF IInv, TypeOK, Handled
<1> QED
    BY <1>1, <1>2, <1>3, Uneventful, WrittenKeeps

-----------------------------------------------------------------------------
(* Answers.                                                                *)

LEMMA AskTyped ==
    ASSUME TypeOK, NEW a \in Answers
    PROVE  /\ asks[a] \in AskStates
           /\ asks[a].pc \in {"feedback", "write", "said"} => asks[a] \in Asking
<1>1. asks[a] \in AskStates
    BY DEF TypeOK
<1> QED
    BY <1>1 DEF AskStates, Nobody, Other

\* Of an answer that is given nothing is stored yet; one that comes after the final
\* state was taken is none that is promised anything.
LEMMA AnswerKeeps ==
    ASSUME IInv, NEW a \in Answers, NEW n \in Ids, Acknowledge(a, n) \/ Snooze(a, n), phase # "out"
    PROVE  IInv'
<1>1. PICK kind \in {"ack", "missed", "snooze"} :
          /\ asks' = [asks EXCEPT ![a] = [pc |-> "feedback", gen |-> gen, id |-> n, kind |-> kind]]
          /\ kind = "ack" => phase # "saving" /\ Acknowledge(a, n)
          /\ kind = "missed" => Acknowledge(a, n)
          /\ kind = "snooze" => mem' = mem
    BY DEF Acknowledge, Snooze, AckKind
<1>2. UNCHANGED <<file, life, sends, events>>
    BY DEF Acknowledge, Snooze
<1>3. gen \in Gens /\ gen \in 0..gen /\ gen \in Nat
    BY InCharge DEF IInv, TypeOK
<1>4. MemoryMoves /\ (Acknowledge(a, n) => Remembers(mem'[gen], n))
    <2>1. CASE mem' = mem /\ ~Acknowledge(a, n)
        BY <2>1, MemorySame
    <2>2. CASE Acknowledge(a, n)
        <3>1. PICK old \in States : old = mem[gen] /\ Sound(old, day)
            BY <1>3 DEF IInv, TypeOK, AllSound
        <3> DEFINE m == Acked(old, n)
                   new == MarkedAll(m, n, "acked")
        <3>2. mem' = [mem EXCEPT ![gen] = new]
            BY <2>2, <3>1 DEF Acknowledge
        <3>3. /\ m \in States /\ Bounded(m) /\ SameTally(old, m)
              /\ m.last = old.last /\ m.recent = old.recent /\ m.feed = old.feed
              /\ Members(m.acked) \subseteq {n} \cup Members(old.acked)
              /\ Remembers(m, n)
              /\ \A k : Remembers(old, k) => Remembers(m, k)
            BY <3>1, AckedKept DEF Sound
        <3> HIDE DEF m
        <3>4. \A k \in Members(m.last) \cup Members(m.recent) \cup Members(m.feed) : k.id = n \/ ShownIn(k, m)
            BY <3>1, <3>3 DEF Sound, Shown, ShownIn
        <3>5. new \in States /\ SameTally(m, new) /\ new.acked = m.acked /\ Shown(new)
            BY <3>3, <3>4, MarkedKept
        <3> HIDE DEF new
        <3>6. Sound(new, day)
            BY <3>1, <3>3, <3>5, SameTallied DEF Sound, Bounded
        <3>7. Remembers(new, n) /\ \A k : Remembers(old, k) => Remembers(new, k)
            BY <3>3, <3>5 DEF Remembers
        <3> QED
            BY <1>3, <3>1, <3>2, <3>5, <3>6, <3>7, OneMemory
    <2> QED
        BY <2>1, <2>2 DEF Acknowledge, Snooze
<1> DEFINE new == [pc |-> "feedback", gen |-> gen, id |-> n, kind |-> kind]
<1>5. new \in AskStates /\ new.pc = "feedback" /\ new.gen = gen /\ new.id = n /\ new.kind = kind
    BY <1>3 DEF AskStates, Asking
<1>6. asks' = [asks EXCEPT ![a] = new]
    BY <1>1
<1> HIDE DEF new
<1>7. Handled /\ asks'[a] = new /\ \A b \in Answers \ {a} : asks'[b] = asks[b]
    BY <1>2, <1>5, <1>6 DEF IInv, TypeOK, Handled
<1>8. ASSUME Live(new)
      PROVE  Remembers(mem'[gen], n) /\ ~Given(new)
    <2>1. kind = "ack"
        BY <1>5, <1>8 DEF Live
    <2> QED
        BY <1>1, <1>3, <1>4, <1>5, <2>1 DEF Given, Settled
<1>9. ASSUME NEW b \in Answers, Live(asks'[b])
      PROVE  /\ Remembers(mem'[gen], asks'[b].id)
             /\ Given(asks'[b]) => GoesOn(asks[b], asks'[b])
    <2>1. CASE b = a
        BY <1>5, <1>7, <1>8, <1>9, <2>1
    <2>2. CASE b # a
        <3>1. asks'[b] = asks[b]
            BY <1>7, <2>2
        <3> QED
            BY <1>4, <1>9, <3>1 DEF IInv, Remembered, MemoryMoves, GoesOn
    <2> QED
        BY <2>1, <2>2
<1> QED
    BY <1>2, <1>4, <1>7, <1>9, Uneventful, FileKeeps

LEMMA PressedKeeps ==
    ASSUME IInv, NEW a \in Answers, NEW n \in Ids, Press(a, n) \/ Call(a, n)
    PROVE  IInv'
<1>1. Cut[n] \in Ids
    BY BoundsAssumption
<1>2. \E k \in Ids : Acknowledge(a, k) \/ Snooze(a, k)
    BY <1>1 DEF Press, Call, Buttons, Applied
<1>3. phase # "out"
    BY DEF Press, Call, Serving
<1> QED
    BY <1>2, <1>3, AnswerKeeps

LEMMA DismissKeeps ==
    ASSUME IInv, NEW a \in Answers, NEW n \in Ids, Dismiss(a, n)
    PROVE  IInv'
<1>1. gen \in Gens /\ gen \in 0..gen
    BY InCharge DEF IInv, TypeOK
<1>2. PICK old \in States : old = mem[gen] /\ Sound(old, day)
    BY <1>1 DEF IInv, TypeOK, AllSound
<1> DEFINE new == MarkedAll(old, n, "cleared")
           ask == [pc |-> "write", gen |-> gen, id |-> n, kind |-> "clear"]
<1>3. /\ mem' = [mem EXCEPT ![gen] = new] /\ Saves(gen, mem'[gen])
      /\ asks' = [asks EXCEPT ![a] = ask] /\ UNCHANGED <<life, sends, events>>
    BY <1>2 DEF Dismiss
<1>4. \A k \in Members(old.last) \cup Members(old.recent) \cup Members(old.feed) : ShownIn(k, old)
    BY <1>2 DEF Sound, Shown, ShownIn
<1>5. new \in States /\ SameTally(old, new) /\ new.acked = old.acked /\ Shown(new)
    BY <1>4, MarkedKept
<1> HIDE DEF new
<1>6. Sound(new, day)
    BY <1>2, <1>5, SameTallied DEF Sound, Bounded
<1>7. MemoryMoves /\ mem'[gen] = new
    BY <1>1, <1>2, <1>3, <1>5, <1>6, OneMemory, NothingForgotten
<1>8. ask \in AskStates /\ ~Live(ask)
    BY <1>1 DEF AskStates, Asking, Live
<1> HIDE DEF ask
<1>9. Handled /\ asks'[a] = ask /\ \A b \in Answers \ {a} : asks'[b] = asks[b]
    BY <1>3, <1>8 DEF IInv, TypeOK, Handled
<1> QED
    BY <1>1, <1>3, <1>5, <1>6, <1>7, <1>8, <1>9, Uneventful, SavedKeeps

LEMMA ClearPhonesKeeps ==
    ASSUME IInv, NEW a \in Answers, ClearPhones(a)
    PROVE  IInv'
<1>1. asks[a] \in Asking /\ asks[a].pc = "feedback"
    BY AskTyped DEF IInv, ClearPhones
<1>2. PICK g \in 0..gen : g = asks[a].gen
    BY <1>1 DEF Asking
<1>3. g \in Gens /\ mem[g] \in States /\ Sound(mem[g], day) /\ gen \in Nat
    BY <1>2, InCharge DEF IInv, TypeOK, AllSound
<1> DEFINE new == [asks[a] EXCEPT !.pc = "write"]
<1>4. /\ Saves(g, mem[g]) /\ UNCHANGED <<life, sends, events>> /\ mem' = Kept(mem)
      /\ asks' = [asks EXCEPT ![a] = new]
    BY <1>2 DEF ClearPhones
<1>5. MemoryMoves /\ mem'[gen] = mem[gen] /\ Stays
    BY <1>4, KeptMoves, Uneventful
<1>6. /\ new \in AskStates /\ new.pc = "write" /\ new.gen = g
      /\ new.id = asks[a].id /\ new.kind = asks[a].kind
    BY <1>1, <1>2 DEF AskStates, Asking
<1> HIDE DEF new
<1>7. Handled /\ asks'[a] = new /\ \A b \in Answers \ {a} : asks'[b] = asks[b]
    BY <1>4, <1>6 DEF IInv, TypeOK, Handled
<1>8. /\ Live(new) => Live(asks[a]) /\ new.id = asks[a].id
      /\ Settled(new) => Settled(asks[a])
      /\ g # gen => Given(asks[a])
    BY <1>1, <1>2, <1>3, <1>6 DEF Live, Settled, Given
<1> QED
    BY <1>3, <1>4, <1>5, <1>7, <1>8, SavedKeeps

LEMMA AskWrittenKeeps ==
    ASSUME IInv, NEW a \in Answers, AskWritten(a)
    PROVE  IInv'
<1>1. asks[a] \in Asking /\ asks[a].pc = "write"
    BY AskTyped DEF IInv, AskWritten
<1>2. PICK g \in 0..gen : g = asks[a].gen
    BY <1>1 DEF Asking
<1>3. gen \in Nat
    BY DEF IInv, TypeOK
<1> DEFINE new == IF asks[a].kind = "clear" THEN Done(asks[a]) ELSE [asks[a] EXCEPT !.pc = "said"]
<1>4. Written(g) /\ UNCHANGED <<mem, life, sends, events>> /\ asks' = [asks EXCEPT ![a] = new]
    BY <1>2 DEF AskWritten
<1>5. new \in AskStates
    BY <1>1 DEF AskStates, Asking, Done
<1>6. /\ Live(new) => Live(asks[a]) /\ new.id = asks[a].id
      /\ Given(asks[a]) /\ (g # gen => Settled(asks[a]))
    BY <1>1, <1>2, <1>3 DEF Asking, Live, Done, Other, Given, Settled
<1> HIDE DEF new
<1>7. Handled /\ asks'[a] = new /\ \A b \in Answers \ {a} : asks'[b] = asks[b]
    BY <1>4, <1>5 DEF IInv, TypeOK, Handled
<1> QED
    BY <1>4, <1>6, <1>7, Uneventful, WrittenKeeps

LEMMA AnsweredKeeps ==
    ASSUME IInv, NEW a \in Answers, Answered(a)
    PROVE  IInv'
<1>1. asks[a] \in Asking /\ asks[a].pc = "said"
    BY AskTyped DEF IInv, Answered
<1> DEFINE new == Done(asks[a])
<1>2. asks' = [asks EXCEPT ![a] = new] /\ UNCHANGED <<mem, file, life>>
    BY DEF Answered
<1>3. new \in AskStates
    BY <1>1 DEF AskStates, Asking, Done
<1>4. Live(new) => GoesOn(asks[a], new)
    BY <1>1 DEF Asking, Live, Done, Other, Given, Settled, GoesOn
<1> HIDE DEF new
<1>5. sends' \in [Senders -> SendStates] /\ Stays
    <2>1. CASE UNCHANGED <<sends, events>>
        BY <1>2, <2>1, Uneventful DEF IInv, TypeOK
    <2>2. CASE \E s \in Senders, n \in Ids : Starts(s, n, Voice, FALSE)
        BY <1>2, <2>2, RoutesAssumption, StartsTyped
    <2> QED
        BY <2>1, <2>2 DEF Answered
<1>6. Handled /\ asks'[a] = new /\ \A b \in Answers \ {a} : asks'[b] = asks[b]
    BY <1>2, <1>3, <1>5 DEF IInv, TypeOK, Handled
<1>7. ASSUME NEW b \in Answers, Live(asks'[b])
      PROVE  Remembers(mem[gen], asks'[b].id) /\ GoesOn(asks[b], asks'[b])
    <2>1. GoesOn(asks[b], asks'[b])
        BY <1>4, <1>6, <1>7 DEF GoesOn
    <2> QED
        BY <2>1 DEF IInv, Remembered, GoesOn
<1>8. MemoryMoves /\ mem' = mem /\ gen' = gen
    BY <1>2, MemorySame DEF life
<1> QED
    BY <1>2, <1>5, <1>6, <1>7, <1>8, FileKeeps

-----------------------------------------------------------------------------
(* Reloads, crashes and midnights.                                         *)

LEMMA CloseKeeps ==
    ASSUME IInv, Close
    PROVE  IInv'
<1>1. /\ phase = "up" /\ phase' = "closing" /\ events < MaxEvents /\ events' = events + 1
      /\ UNCHANGED <<mem, disk, pending, late, gen, day, sends, asks>>
    BY DEF Close, Event, file
<1>2. TypeOK'
    <2>1. SendStates' = SendStates /\ AskStates' = AskStates
        BY <1>1 DEF SendStates, AskStates, Asking
    <2>2. Turns' = gen + 1 /\ Turns = gen
        BY <1>1 DEF Turns, IInv, TypeOK
    <2>3. Turns' <= events' /\ events' \in Nat /\ events' <= MaxEvents
        BY <1>1, <2>2, BoundsAssumption DEF IInv, TypeOK
    <2> QED
        BY <1>1, <2>1, <2>3 DEF IInv, TypeOK
<1>3. AllSound'
    BY <1>1 DEF IInv, AllSound
<1>4. Remembered'
    BY <1>1 DEF IInv, Remembered, Live, Settled, Given
<1> QED
    BY <1>2, <1>3, <1>4 DEF IInv

\* What is in memory when the final state is taken will be in the file.
LEMMA FinalSaveKeeps ==
    ASSUME IInv, FinalSave
    PROVE  IInv'
<1>1. /\ phase = "closing" /\ phase' = "saving" /\ pending' = [pending EXCEPT ![gen] = <<mem[gen]>>]
      /\ UNCHANGED <<mem, disk, late, gen, day, sends, asks, events>>
    BY DEF FinalSave, Saves
<1>2. gen \in Gens /\ gen \in Nat /\ pending \in [Gens -> Stores] /\ mem[gen] \in States /\ Sound(mem[gen], day)
    BY InCharge DEF IInv, TypeOK, AllSound
<1>3. pending'[gen] = <<mem[gen]>> /\ \A g \in Gens \ {gen} : pending'[g] = pending[g]
    BY <1>1, <1>2
<1>4. TypeOK'
    <2>1. SendStates' = SendStates /\ AskStates' = AskStates
        BY <1>1 DEF SendStates, AskStates, Asking
    <2>2. Turns' = Turns
        BY <1>1 DEF Turns
    <2>3. pending' \in [Gens -> Stores] /\ \A g \in Gens : gen < g => pending'[g] = <<>>
        BY <1>1, <1>2, <1>3 DEF IInv, TypeOK, Stores
    <2> QED
        BY <1>1, <2>1, <2>2, <2>3 DEF IInv, TypeOK
<1>5. AllSound'
    BY <1>1, <1>2, <1>3 DEF IInv, AllSound
<1>6. ASSUME NEW a \in Answers, Live(asks[a])
      PROVE  Remembers(mem[gen], asks[a].id) /\ (Settled(asks[a]) /\ ~late => Remembers(disk, asks[a].id))
    BY <1>6 DEF IInv, Remembered, Given
<1>7. Remembered'
    BY <1>1, <1>3, <1>6 DEF Remembered, Live, Settled
<1> QED
    BY <1>4, <1>5, <1>7 DEF IInv

LEMMA FinalWrittenKeeps ==
    ASSUME IInv, FinalWritten
    PROVE  IInv'
<1>1. /\ phase = "saving" /\ phase' = "out" /\ pending' = [pending EXCEPT ![gen] = <<>>]
      /\ pending[gen] = <<>> => disk' = disk /\ late' = late
      /\ pending[gen] # <<>> => disk' = pending[gen][1] /\ late' = FALSE
      /\ UNCHANGED <<mem, gen, day, sends, asks, events>>
    BY DEF FinalWritten, Written
<1>2. gen \in Gens /\ gen \in Nat /\ pending \in [Gens -> Stores]
    BY InCharge DEF IInv, TypeOK
<1>3. pending'[gen] = <<>> /\ \A g \in Gens \ {gen} : pending'[g] = pending[g]
    BY <1>1, <1>2
<1>4. pending[gen] # <<>> => pending[gen][1] \in States /\ Sound(pending[gen][1], day)
    BY <1>2, StoredOne DEF IInv, AllSound
<1>5. disk' \in States /\ Sound(disk', day) /\ late' \in BOOLEAN
    BY <1>1, <1>4 DEF IInv, TypeOK, AllSound
<1>6. TypeOK'
    <2>1. SendStates' = SendStates /\ AskStates' = AskStates
        BY <1>1 DEF SendStates, AskStates, Asking
    <2>2. Turns' = Turns
        BY <1>1 DEF Turns
    <2>3. pending' \in [Gens -> Stores] /\ \A g \in Gens : gen < g => pending'[g] = <<>>
        BY <1>1, <1>2, <1>3 DEF IInv, TypeOK, Stores
    <2> QED
        BY <1>1, <1>5, <2>1, <2>2, <2>3 DEF IInv, TypeOK
<1>7. AllSound'
    BY <1>1, <1>3, <1>5 DEF IInv, AllSound
<1>8. ASSUME NEW a \in Answers, Live(asks[a])
      PROVE  Remembers(mem[gen], asks[a].id) /\ (~late' => Remembers(disk', asks[a].id))
    <2>1. Given(asks[a])
        BY <1>1 DEF Given
    <2> QED
        BY <1>1, <1>8, <2>1 DEF IInv, Remembered
<1>9. Remembered'
    BY <1>1, <1>3, <1>8 DEF Remembered, Live
<1> QED
    BY <1>6, <1>7, <1>9 DEF IInv

\* Whose promise outlives the loading of the file: nobody's, if a replaced
\* coordinator wrote it.
LEMMA PromiseKept ==
    ASSUME NEW ask \in AskStates
    PROVE  /\ Promised(ask) \in AskStates
           /\ Live(Promised(ask)) => ~late /\ Promised(ask) = ask
<1>1. CASE ~late
    BY <1>1 DEF Promised
<1>2. CASE late
    <2>1. Promised(ask) = Missed(ask)
        BY <1>2 DEF Promised
    <2>2. CASE ask.pc = "done"
        BY <2>1, <2>2 DEF Missed, Other, Live, AskStates
    <2>3. CASE ask.pc \in {"feedback", "write", "said"} /\ ask.kind = "ack"
        <3>1. ask \in Asking
            BY <2>3 DEF AskStates, Nobody, Other
        <3>2. Promised(ask) = [ask EXCEPT !.kind = "missed"]
            BY <2>1, <2>3 DEF Missed
        <3> QED
            BY <3>1, <3>2 DEF Asking, AskStates, Live
    <2>4. CASE ask.pc # "done" /\ ~(ask.pc \in {"feedback", "write", "said"} /\ ask.kind = "ack")
        BY <2>1, <2>4 DEF Missed, Live
    <2> QED
        BY <2>2, <2>3, <2>4
<1> QED
    BY <1>1, <1>2

\* What a coordinator begins with.
LEMMA Loaded ==
    ASSUME IInv
    PROVE  /\ Reset(disk) \in States /\ Sound(Reset(disk), day)
           /\ \A k : Remembers(disk, k) => Remembers(Reset(disk), k)
<1>1. Today(Reset(disk)) /\ SameLists(disk, Reset(disk))
    BY ResetToday DEF IInv, TypeOK, AllSound
<1> QED
    BY <1>1, NothingForgotten DEF Today, SameLists

LEMMA SetUpKeeps ==
    ASSUME IInv, SetUp
    PROVE  IInv'
<1>1. /\ phase = "out" /\ phase' = "up" /\ gen' = gen + 1 /\ late' = FALSE
      /\ asks' = [a \in Answers |-> Promised(asks[a])]
      /\ UNCHANGED <<disk, pending, day, sends, events>>
      /\ mem' = [Kept(mem) EXCEPT ![gen'] = Reset(disk)]
    BY DEF SetUp
<1>2. gen \in Nat /\ gen' \in Gens /\ gen < gen' /\ Turns = gen + 1
    <2>1. gen \in Nat /\ events \in Nat /\ Turns <= events /\ events <= MaxEvents /\ Turns = gen + 1
        BY <1>1 DEF IInv, TypeOK, Turns
    <2> QED
        BY <1>1, <2>1, BoundsAssumption DEF Gens
<1>3. pending'[gen'] = <<>>
    BY <1>1, <1>2 DEF IInv, TypeOK
<1>4. mem' \in [Gens -> States] /\ mem'[gen'] = Reset(disk) /\ \A g \in Gens : Sound(mem'[g], day)
    <2>1. mem \in [Gens -> States] /\ day \in Nat /\ \A g \in Gens : Sound(mem[g], day)
        BY DEF IInv, TypeOK, AllSound
    <2>2. Kept(mem) \in [Gens -> States] /\ \A g \in Gens : Sound(Kept(mem)[g], day)
        BY <1>2, <2>1, KeptMemory
    <2>3. PICK loaded \in States : loaded = Reset(disk) /\ Sound(loaded, day)
        BY Loaded
    <2>4. PICK kept : kept = Kept(mem)
        OBVIOUS
    <2> QED
        BY <1>1, <1>2, <2>2, <2>3, <2>4
<1>5. TypeOK'
    <2>1. SendStates \subseteq SendStates' /\ AskStates \subseteq AskStates'
        <3>1. 0..gen \subseteq 0..gen'
            BY <1>1, <1>2
        <3>2. SendStates \subseteq SendStates'
            BY <3>1 DEF SendStates
        <3>3. Asking \subseteq Asking'
            BY <3>1 DEF Asking
        <3> QED
            BY <3>2, <3>3 DEF AskStates
    <2>2. sends' \in [Senders -> SendStates'] /\ asks' \in [Answers -> AskStates']
        BY <1>1, <2>1, PromiseKept DEF IInv, TypeOK
    <2>3. Turns' = Turns /\ gen' \in Nat
        BY <1>1, <1>2 DEF Turns
    <2>4. \A g \in Gens : gen' < g => pending'[g] = <<>>
        BY <1>1, <1>2 DEF IInv, TypeOK, Gens
    <2> QED
        BY <1>1, <1>4, <2>2, <2>3, <2>4 DEF IInv, TypeOK
<1>6. AllSound'
    BY <1>1, <1>4 DEF IInv, AllSound
<1>7. ASSUME NEW a \in Answers, Live(asks'[a])
      PROVE  Remembers(disk, asks'[a].id)
    <2>1. ~late /\ Live(asks[a]) /\ asks'[a] = asks[a]
        BY <1>1, <1>7, PromiseKept DEF IInv, TypeOK
    <2> QED
        BY <1>1, <2>1 DEF IInv, Remembered, Given, Settled
<1>8. Remembered'
    BY <1>1, <1>3, <1>4, <1>7, Loaded DEF Remembered, Live
<1> QED
    BY <1>5, <1>6, <1>8 DEF IInv

\* What a crash leaves of the answers, and what is promised of them.
LEMMA RestartKeeps ==
    ASSUME IInv, Restart
    PROVE  IInv'
<1>1. /\ phase' = "up" /\ late' = FALSE /\ events < MaxEvents /\ events' = events + 1
      /\ mem' = [g \in Gens |-> IF g = gen THEN Reset(disk) ELSE NoState]
      /\ pending' = [g \in Gens |-> <<>>] /\ sends' = [s \in Senders |-> Nobody]
      /\ UNCHANGED <<disk, gen, day>>
    BY DEF Restart, Event
<1>2. gen \in Gens /\ gen \in Nat
    BY InCharge DEF IInv, TypeOK
<1>3. mem' \in [Gens -> States] /\ mem'[gen] = Reset(disk) /\ \A g \in Gens : Sound(mem'[g], day)
    <2>1. PICK loaded \in States : loaded = Reset(disk) /\ Sound(loaded, day)
        BY Loaded
    <2>2. NoState \in States /\ Sound(NoState, day)
        BY NoStateSound DEF IInv, TypeOK
    <2>3. PICK none \in States : none = NoState /\ Sound(none, day)
        BY <2>2
    <2> QED
        BY <1>1, <1>2, <2>1, <2>3
<1>4. ASSUME NEW a \in Answers
      PROVE  /\ asks'[a] \in AskStates
             /\ Live(asks'[a]) => /\ ~late /\ Live(asks[a]) /\ asks[a].pc \in {"said", "done"}
                                  /\ asks'[a].id = asks[a].id
    <2>1. asks'[a] = CASE asks[a].pc \in {"idle", "done"} -> Promised(asks[a])
                       [] asks[a].pc = "said" -> Promised(Done(asks[a]))
                       [] OTHER -> [pc |-> "lost"]
        BY DEF Restart
    <2>2. asks[a] \in AskStates
        BY DEF IInv, TypeOK
    <2>3. CASE asks[a].pc \in {"idle", "done"}
        <3>1. asks'[a] = Promised(asks[a])
            BY <2>1, <2>3
        <3> QED
            BY <2>2, <2>3, <3>1, PromiseKept DEF Live
    <2>4. CASE asks[a].pc = "said"
        <3>1. asks[a] \in Asking
            BY <2>4, AskTyped DEF IInv
        <3>2. asks'[a] = Promised(Done(asks[a]))
            BY <2>1, <2>4
        <3>3. Done(asks[a]) \in AskStates
            BY <3>1 DEF Done, Asking, AskStates
        <3>4. Live(Done(asks[a])) => Live(asks[a]) /\ Done(asks[a]).id = asks[a].id
            BY <2>4 DEF Done, Other, Live
        <3> QED
            BY <2>4, <3>2, <3>3, <3>4, PromiseKept
    <2>5. CASE asks[a].pc \notin {"idle", "done", "said"}
        <3>1. asks'[a] = [pc |-> "lost"]
            BY <2>1, <2>5
        <3> QED
            BY <3>1 DEF AskStates, Live
    <2> QED
        BY <2>3, <2>4, <2>5
<1>5. TypeOK'
    <2>1. SendStates' = SendStates /\ AskStates' = AskStates
        BY <1>1 DEF SendStates, AskStates, Asking
    <2>2. sends' \in [Senders -> SendStates]
        BY <1>1 DEF SendStates
    <2>3. asks' \in [Answers -> AskStates]
        <3>1. asks' = [a \in Answers |-> asks'[a]]
            BY DEF Restart
        <3> QED
            BY <1>4, <3>1
    <2>4. Turns' <= events' /\ events' \in Nat /\ events' <= MaxEvents
        BY <1>1, <1>2, BoundsAssumption DEF IInv, TypeOK, Turns
    <2>5. pending' \in [Gens -> Stores]
        BY <1>1 DEF Stores
    <2> QED
        BY <1>1, <1>3, <2>1, <2>2, <2>3, <2>4, <2>5 DEF IInv, TypeOK
<1>6. AllSound'
    BY <1>1, <1>3 DEF IInv, AllSound
<1>7. ASSUME NEW a \in Answers, Live(asks'[a])
      PROVE  Remembers(disk, asks'[a].id)
    BY <1>4, <1>7 DEF IInv, Remembered, Given, Settled
<1>8. Remembered'
    BY <1>1, <1>2, <1>3, <1>7, Loaded DEF Remembered, Live
<1> QED
    BY <1>5, <1>6, <1>8 DEF IInv

\* A day more makes no counter newer.
LEMMA MidnightKeeps ==
    ASSUME IInv, Midnight
    PROVE  IInv'
<1>1. /\ day' = day + 1 /\ events < MaxEvents /\ events' = events + 1
      /\ UNCHANGED <<mem, disk, pending, late, gen, phase, sends, asks>>
    BY DEF Midnight, Event, file
<1>2. ASSUME NEW m \in States, Sound(m, day)
      PROVE  Sound(m, day + 1)
    <2>1. m.day \in Nat /\ m.day <= day /\ day \in Nat
        BY <1>2 DEF Sound, Tallied, States, IInv, TypeOK
    <2>2. m.day <= day + 1
        BY <2>1
    <2> QED
        BY <1>2, <2>2 DEF Sound, Tallied
<1>3. TypeOK'
    <2>1. SendStates' = SendStates /\ AskStates' = AskStates /\ Turns' = Turns
        BY <1>1 DEF SendStates, AskStates, Asking, Turns
    <2>2. Turns <= events' /\ events' \in Nat /\ events' <= MaxEvents /\ day' \in Nat
        BY <1>1, BoundsAssumption DEF IInv, TypeOK, Turns
    <2> QED
        BY <1>1, <2>1, <2>2 DEF IInv, TypeOK
<1>4. AllSound'
    <2>1. \A g \in Gens : mem[g] \in States /\ (pending[g] # <<>> => pending[g][1] \in States)
        BY StoredOne DEF IInv, TypeOK
    <2> QED
        BY <1>1, <1>2, <2>1 DEF IInv, TypeOK, AllSound
<1>5. Remembered'
    BY <1>1 DEF IInv, Remembered, Live, Settled, Given
<1> QED
    BY <1>3, <1>4, <1>5 DEF IInv

-----------------------------------------------------------------------------
(* The theorems.                                                           *)

LEMMA Initially == Init => IInv
<1> SUFFICES ASSUME Init
             PROVE  IInv
    OBVIOUS
<1>1. /\ mem = [g \in Gens |-> NoState] /\ disk = NoState /\ pending = [g \in Gens |-> <<>>]
      /\ gen = 0 /\ phase = "up" /\ late = FALSE /\ day = 0 /\ events = 0
      /\ sends = [s \in Senders |-> Nobody] /\ asks = [a \in Answers |-> Nobody]
    BY DEF Init
<1>2. NoState \in States /\ Sound(NoState, day)
    BY <1>1, NoStateSound
<1>3. TypeOK
    <2>1. Nobody \in SendStates /\ Nobody \in AskStates
        BY DEF SendStates, AskStates
    <2>2. mem \in [Gens -> States] /\ pending \in [Gens -> Stores]
        BY <1>1, <1>2 DEF Stores
    <2>3. Turns <= events /\ events <= MaxEvents
        BY <1>1, BoundsAssumption DEF Turns
    <2> QED
        BY <1>1, <1>2, <2>1, <2>2, <2>3 DEF TypeOK
<1>4. AllSound
    BY <1>1, <1>2 DEF AllSound
<1>5. Remembered
    BY <1>1 DEF Remembered, Live, Nobody
<1> QED
    BY <1>3, <1>4, <1>5 DEF IInv

LEMMA Inductive == IInv /\ [Next]_vars => IInv'
<1> SUFFICES ASSUME IInv, [Next]_vars
             PROVE  IInv'
    OBVIOUS
<1>1. CASE Next
    BY <1>1, StartKeeps, SendKeeps, RecordKeeps, ArriveKeeps, CheckedKeeps, SendSavesKeeps, SendWrittenKeeps,
       PressedKeeps, DismissKeeps, ClearPhonesKeeps, AskWrittenKeeps, AnsweredKeeps,
       CloseKeeps, FinalSaveKeeps, FinalWrittenKeeps, SetUpKeeps, RestartKeeps, MidnightKeeps DEF Next
<1>2. CASE UNCHANGED vars
    <2>1. UNCHANGED <<mem, disk, pending, late, gen, phase, day, sends, asks, events>>
        BY <1>2 DEF vars, file, life
    <2>2. SendStates' = SendStates /\ AskStates' = AskStates /\ Turns' = Turns
        BY <2>1 DEF SendStates, AskStates, Asking, Turns
    <2>3. TypeOK'
        BY <2>1, <2>2 DEF IInv, TypeOK
    <2>4. AllSound' /\ Remembered'
        BY <2>1 DEF IInv, AllSound, Remembered, Live, Settled, Given
    <2> QED
        BY <2>3, <2>4 DEF IInv
<1> QED
    BY <1>1, <1>2

\* Every value is of its kind, in the memories, in what is to be written and in the
\* file, and nobody is of a coordinator that is yet to come.
THEOREM TypeCorrect == Spec => []TypeOK
<1>1. IInv => TypeOK
    BY DEF IInv
<1> QED
    BY <1>1, Initially, Inductive, PTL DEF Spec

\* An acknowledgement shows wherever its notification does, before and after
\* reloads and crashes, however many deliveries, answers and writes overlap.  What a
\* returned call acknowledged is in memory and in the file, and only ever replaced by
\* newer ones, as long as no replaced coordinator wrote the file after its successor
\* had begun (coordinator.py 503-553, 1037-1052, 1159, 1268-1286).
THEOREM AcknowledgedIsShown == Spec => []AckVisible
<1>1. IInv => AckVisible
    <2> SUFFICES ASSUME IInv
                 PROVE  AckVisible
        OBVIOUS
    <2>1. Shown(disk) /\ \A g \in Gens : Shown(mem[g])
        BY DEF IInv, AllSound, Sound
    <2>2. ASSUME NEW a \in Answers, asks[a].pc \in {"said", "done"}, asks[a].kind = "ack"
          PROVE  Remembers(mem[gen], asks[a].id) /\ (~late => Remembers(disk, asks[a].id))
        <3>1. Live(asks[a]) /\ Settled(asks[a]) /\ Given(asks[a])
            BY <2>2 DEF Live, Settled, Given
        <3> QED
            BY <3>1 DEF IInv, Remembered
    <2> QED
        BY <2>1, <2>2 DEF AckVisible
<1> QED
    BY <1>1, Initially, Inductive, PTL DEF Spec

\* The totals and the counters by channel and reason are those of their day, in the
\* file and in every memory, over midnights, reloads and crashes between any two steps
\* (coordinator.py 1116-1228, 1529-1546).
THEOREM CountersAgree == Spec => []CountsAgree
<1>1. IInv => CountsAgree
    <2> SUFFICES ASSUME IInv, NEW m \in {mem[g] : g \in Gens} \cup {disk}
                 PROVE  LET today == IF m.happened.day = m.day THEN m.happened.counts ELSE NoState.counts
                        IN  m.counts = today /\ \A o \in Counters : m.totals[o] = FoldFunction(+, 0, today[o])
        BY DEF CountsAgree
    <2>1. Tallied(m, day)
        BY DEF IInv, AllSound, Sound
    <2> QED
        BY <2>1 DEF Tallied
<1> QED
    BY <1>1, Initially, Inductive, PTL DEF Spec
=============================================================================
