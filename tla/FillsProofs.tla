----------------------------- MODULE FillsProofs -----------------------------
(***************************************************************************)
(* Proofs about Fills: the correlation tables, their counters and the ring   *)
(* agree, a commission report reaches whoever holds its execution, and a fill *)
(* reaches its handle once, for any number of executions, orders and reports  *)
(* and for every limit.                                                     *)
(***************************************************************************)
EXTENDS Fills, SequenceTheorems, FiniteSetTheorems, TLAPS

(* The inductive invariant.                                                *)

States == {None, "open", "closed", "malformed", "slow", "overflow"}
Entries == [owner : Orders \cup {0}, pending : Seq(Versions), delivered : Versions \cup {0}]
Tolds == [executions : Nat, reports : Seq(Versions)]

\* What the tables are made of.
TableShape(f) == f \in [DOMAIN f -> Entries] /\ DOMAIN f \subseteq Execs

RingShape(r) ==
    /\ r = [slot |-> r.slot, at |-> r.at, next |-> r.next]
    /\ r.slot \in [DOMAIN r.slot -> Nat] /\ DOMAIN r.slot \subseteq Execs
    /\ r.at \in Seq(Execs \cup {None})
    /\ r.next \in Nat

SideShape(s) ==
    /\ s = [handles |-> s.handles, table |-> s.table, fees |-> s.fees, ring |-> s.ring, told |-> s.told]
    /\ s.handles \in [Orders -> States]
    /\ TableShape(s.table) /\ RingShape(s.ring)
    /\ s.told \in [Execs -> Tolds]

Waiting(f) == [x \in DOMAIN f |-> f[x].pending]

\* Counter and size of the table are within the limit.
CountOK(s, lim) ==
    /\ Cardinality(DOMAIN s.table) <= lim
    /\ s.fees = PendingOf(Waiting(s.table)) /\ s.fees <= lim

\* Ring and index name each other.
RingOK(r, lim) ==
    /\ Len(r.at) <= lim /\ r.next \in 1 .. lim
    /\ \A x \in DOMAIN r.slot : r.slot[x] \in DOMAIN r.at /\ r.at[r.slot[x]] = x
    /\ \A i \in DOMAIN r.at : r.at[i] # None => r.at[i] \in DOMAIN r.slot /\ r.slot[r.at[i]] = i

LastOr0(reports) == IF reports = <<>> THEN 0 ELSE reports[Len(reports)]

\* A claimed execution belongs to an open handle, which has it and all reports.
OwnedOK(s, own) ==
    \A x \in DOMAIN s.table : s.table[x].owner # 0 =>
      /\ s.table[x].owner = own[x] /\ own[x] \in OpenIn(s)
      /\ s.table[x].pending = <<>>
      /\ s.told[x].executions = 1
      /\ s.table[x].delivered = LastOr0(s.told[x].reports)

\* What a handle was told, and that it was told nothing before its claim.
ToldOK(s, own) ==
    \A x \in Execs :
      /\ s.told[x].executions <= 1
      /\ s.told[x].executions = 0 => s.told[x].reports = <<>>
      /\ own[x] = 0 => s.told[x].executions = 0
      /\ own[x] \in OpenIn(s) /\ ~AlreadyClaimed(s, x) => s.told[x].executions = 0

\* Nothing is known of an execution before its order was placed.
FreshOK(s, own) ==
    \A x \in Execs : own[x] \in Orders /\ s.handles[own[x]] = None =>
      /\ x \notin DOMAIN s.table /\ x \notin DOMAIN s.ring.slot
      /\ s.told[x].executions = 0

\* Without handles nothing is tracked.
IdleOK(s) == OpenIn(s) = {} => s.table = <<>> /\ s.fees = 0 /\ s.ring = EmptyRing

SideOK(s, own, lim) ==
    /\ SideShape(s) /\ CountOK(s, lim)
    /\ RingOK(s.ring, lim) /\ DOMAIN s.ring.slot \cap DOMAIN s.table = {}
    /\ OwnedOK(s, own) /\ ToldOK(s, own) /\ FreshOK(s, own) /\ IdleOK(s)

\* The reports of x that wait for their execution.
Held(s, x) == IF x \in DOMAIN s.table THEN s.table[x].pending ELSE <<>>

\* What was sent of x is what its open handle was given and what waits.
SentAt(s, own, reports, x) ==
    /\ own[x] \in OpenIn(s) =>
         /\ Distinct(reports) = s.told[x].reports \o Held(s, x)
         /\ x \in DOMAIN s.ring.slot => reports = <<>>
    /\ own[x] \in Orders /\ s.handles[own[x]] = None => reports = <<>>

SentOK(s, own, snt) == \A x \in Execs : SentAt(s, own, snt[x], x)

\* The correlation of a query.
Held1(q, x) == IF x \in DOMAIN q.entries THEN q.entries[x] ELSE <<>>

QueryShape(q) ==
    /\ q = [open |-> q.open, collect |-> q.collect, complete |-> q.complete, seen |-> q.seen,
            entries |-> q.entries, pending |-> q.pending, executions |-> q.executions,
            reports |-> q.reports, heard |-> q.heard, given |-> q.given]
    /\ q.open \in BOOLEAN /\ q.collect \in BOOLEAN /\ q.complete \in BOOLEAN
    /\ q.seen \subseteq DOMAIN q.entries /\ DOMAIN q.entries \subseteq Execs
    /\ q.entries \in [DOMAIN q.entries -> Seq(Versions)]
    /\ q.heard \in [Execs -> Seq(Versions)] /\ q.given \in [Execs -> Seq(Versions)]
    /\ q.executions \in Nat /\ q.reports \in Nat

QueryOK(q, lim) ==
    /\ QueryShape(q)
    /\ q.pending = PendingOf(q.entries) /\ q.pending <= lim
    /\ \A x \in q.seen : q.entries[x] = <<>> /\ q.given[x] = Distinct(q.heard[x])
    /\ \A x \in Execs \ q.seen :
         /\ q.given[x] = <<>>
         /\ ~q.complete => Held1(q, x) = Distinct(q.heard[x])
    /\ q.complete => DOMAIN q.entries = q.seen

WatchOK(w) ==
    /\ w = [open |-> w.open, gapped |-> w.gapped, run |-> w.run]
    /\ w.open \in BOOLEAN /\ w.gapped \in BOOLEAN
    /\ w.run = IF w.gapped THEN 1 ELSE 0

Inv ==
    /\ limit \in Nat \ {0} /\ owner \in [Execs -> Orders \cup {0}]
    /\ sent \in [Execs -> Seq(Versions)]
    /\ SideOK(Side, owner, limit) /\ SentOK(Side, owner, sent)
    /\ QueryOK(query, limit) /\ WatchOK(watch)
    /\ "orders" \notin load => \A o \in Orders : handles[o] = None

------------------------------------------------------------------------------
(* The sum of the lengths in a table.                                       *)

AddLength(n, x, f) == Len(f[x]) + n
Anything(n, done, set, f) == TRUE

Sums == INSTANCE QueueTheorems WITH Op <- AddLength, Holds <- Anything

SumOver(f, S) == MapThenSumSet(LAMBDA x : Len(f[x]), S)

\* The sum is the recursive function of its definition at the whole set.
LEMMA SumIs ==
  ASSUME NEW f, NEW S, IsFiniteSet(S)
  PROVE  \E g : Sums!SetIter(g, 0, S, f) /\ SumOver(f, S) = g[S]
  <1> DEFINE G == CHOOSE g : Sums!SetIter(g, 0, S, f)
  <1>0. Sums!IsFiniteSet(S)
    BY DEF IsFiniteSet, Sums!IsFiniteSet
  <1>1. Sums!SetIter(G, 0, S, f)
    BY <1>0, Sums!SetIterExists
  <1>2. SumOver(f, S) = G[S]
    BY Zenon DEF SumOver, MapThenSumSet, MapThenFoldSet, Sums!SetIter, Sums!SetStep, AddLength
  <1> QED BY <1>1, <1>2

\* No element, no length.
LEMMA SumEmpty == ASSUME NEW f PROVE SumOver(f, {}) = 0
  <1>1. IsFiniteSet({})
    BY FS_EmptySet
  <1>2. PICK g : Sums!SetIter(g, 0, {}, f) /\ SumOver(f, {}) = g[{}]
    BY <1>1, SumIs
  <1> QED BY <1>2 DEF Sums!SetIter, Sums!SetStep

\* The sum takes the element that CHOOSE picks.
LEMMA SumPicked ==
  ASSUME NEW f, NEW S, IsFiniteSet(S), S # {}
  PROVE  LET x == CHOOSE y \in S : TRUE IN SumOver(f, S) = Len(f[x]) + SumOver(f, S \ {x})
  <1> DEFINE x == CHOOSE y \in S : TRUE
  <1>1. x \in S
    OBVIOUS
  <1>2. PICK g : Sums!SetIter(g, 0, S, f) /\ SumOver(f, S) = g[S]
    BY SumIs
  <1>3. g[S] = Len(f[x]) + g[S \ {x}]
    BY <1>2 DEF Sums!SetIter, Sums!SetStep, AddLength
  <1> HIDE DEF x
  <1> DEFINE R == S \ {x}
             h == [s \in SUBSET R |-> g[s]]
  <1>4. IsFiniteSet(R)
    BY FS_RemoveElement
  <1>5. Sums!SetIter(h, 0, R, f)
    <2>1. ASSUME NEW s \in SUBSET R PROVE h[s] = Sums!SetStep(h, s, 0, f)
      <3>1. s \in SUBSET S
        OBVIOUS
      <3>2. g[s] = Sums!SetStep(g, s, 0, f)
        BY <1>2, <3>1 DEF Sums!SetIter
      <3>3. h[s] = g[s]
        OBVIOUS
      <3>4. CASE s = {}
        BY <3>2, <3>3, <3>4 DEF Sums!SetStep
      <3>5. CASE s # {}
        <4> DEFINE y == CHOOSE z \in s : TRUE
        <4>1. s \ {y} \in SUBSET R
          OBVIOUS
        <4>2. h[s \ {y}] = g[s \ {y}]
          BY <4>1
        <4> QED BY <3>2, <3>3, <3>5, <4>2 DEF Sums!SetStep
      <3> QED BY <3>4, <3>5
    <2> QED BY <2>1 DEF Sums!SetIter
  <1>6. Sums!IsFiniteSet(R)
    BY <1>4 DEF IsFiniteSet, Sums!IsFiniteSet
  <1>7. SumOver(f, R) = g[R]
    <2>1. PICK k : Sums!SetIter(k, 0, R, f) /\ SumOver(f, R) = k[R]
      BY <1>4, SumIs
    <2>2. \A s \in SUBSET R : k[s] = h[s]
      <3> DEFINE T == {n \in Nat : \A s \in SUBSET R : Cardinality(s) = n => k[s] = h[s]}
      <3>1. ASSUME NEW s \in SUBSET R PROVE Cardinality(s) \in Nat /\ (Cardinality(s) = 0 <=> s = {}) /\ IsFiniteSet(s)
        BY <1>4, FS_Subset, FS_CardinalityType, FS_EmptySet
      <3>2. \A s \in SUBSET R : k[s] = Sums!SetStep(k, s, 0, f) /\ h[s] = Sums!SetStep(h, s, 0, f)
        <4>1. \A s \in SUBSET R : k[s] = Sums!SetStep(k, s, 0, f)
          BY <2>1 DEF Sums!SetIter
        <4> HIDE DEF h
        <4>2. \A s \in SUBSET R : h[s] = Sums!SetStep(h, s, 0, f)
          BY <1>5 DEF Sums!SetIter
        <4> QED BY <4>1, <4>2
      <3> HIDE DEF h
      <3>3. 0 \in T
        <4>1. k[{}] = 0 /\ h[{}] = 0
          BY <3>2 DEF Sums!SetStep
        <4> QED BY <3>1, <4>1
      <3>4. ASSUME NEW n \in T PROVE n + 1 \in T
        <4>1. n \in Nat
          OBVIOUS
        <4> SUFFICES ASSUME NEW s \in SUBSET R, Cardinality(s) = n + 1 PROVE k[s] = h[s]
          BY <4>1
        <4>2. s # {}
          BY <3>1, <4>1
        <4> DEFINE y == CHOOSE z \in s : TRUE
        <4>3. y \in s
          BY <4>2
        <4>4. s \ {y} \in SUBSET R /\ Cardinality(s \ {y}) = n
          <5>1. Cardinality(s \ {y}) = Cardinality(s) - 1
            BY <3>1, <4>3, FS_RemoveElement
          <5> QED BY <4>1, <5>1
        <4>5. k[s \ {y}] = h[s \ {y}]
          BY <4>4
        <4> QED BY <3>2, <4>2, <4>5 DEF Sums!SetStep
      <3> HIDE DEF T
      <3>5. \A n \in Nat : n \in T
        BY <3>3, <3>4, Sums!InductiveSet DEF T
      <3> QED BY <3>1, <3>5 DEF T
    <2>3. R \in SUBSET R
      OBVIOUS
    <2>4. h[R] = g[R]
      BY <2>3
    <2> HIDE DEF h
    <2> QED BY <2>1, <2>2, <2>3, <2>4
  <1> QED BY <1>2, <1>3, <1>7 DEF x

\* Any element can be taken first.
LEMMA SumWithout ==
  ASSUME NEW f, NEW S, IsFiniteSet(S), NEW x \in S, \A y \in S : Len(f[y]) \in Nat
  PROVE  SumOver(f, S) = Len(f[x]) + SumOver(f, S \ {x}) /\ SumOver(f, S) \in Nat
  <1> DEFINE Good(s) == /\ SumOver(f, s) \in Nat
                        /\ \A y \in s : SumOver(f, s) = Len(f[y]) + SumOver(f, s \ {y})
             T == {n \in Nat : \A s \in SUBSET S : Cardinality(s) <= n => Good(s)}
  <1>1. ASSUME NEW s \in SUBSET S PROVE Cardinality(s) \in Nat /\ (Cardinality(s) = 0 <=> s = {}) /\ IsFiniteSet(s)
    BY FS_Subset, FS_CardinalityType, FS_EmptySet
  <1>2. 0 \in T
    <2>1. ASSUME NEW s \in SUBSET S, Cardinality(s) <= 0 PROVE Good(s)
      <3>1. s = {}
        BY <1>1, <2>1
      <3> QED BY <3>1, SumEmpty
    <2> HIDE DEF Good
    <2> QED BY <2>1
  <1>3. ASSUME NEW n \in T PROVE n + 1 \in T
    <2>1. n \in Nat /\ n + 1 \in Nat /\ (n + 1) - 1 = n
      OBVIOUS
    <2>a. \A s \in SUBSET S : Cardinality(s) <= n => Good(s)
      OBVIOUS
    <2>2. SUFFICES ASSUME NEW s \in SUBSET S, Cardinality(s) = n + 1 PROVE Good(s)
      <3> HIDE DEF Good
      <3> QED BY <1>1, <2>1, <2>a, <2>2
    <2>3. s # {}
      BY <1>1, <2>1, <2>2
    <2>4. ASSUME NEW y \in s PROVE s \ {y} \in SUBSET S /\ Good(s \ {y})
      <3>1. Cardinality(s \ {y}) = Cardinality(s) - 1
        BY <1>1, <2>4, FS_RemoveElement
      <3> HIDE DEF Good
      <3> QED BY <2>1, <2>2, <2>a, <3>1
    <2> DEFINE c == CHOOSE z \in s : TRUE
    <2>5. c \in s
      BY <2>3
    <2>6. SumOver(f, s) = Len(f[c]) + SumOver(f, s \ {c})
      BY <1>1, <2>3, SumPicked
    <2> HIDE DEF c
    <2>7. SumOver(f, s) \in Nat
      BY <2>4, <2>5, <2>6
    <2>8. ASSUME NEW y \in s PROVE SumOver(f, s) = Len(f[y]) + SumOver(f, s \ {y})
      <3>1. CASE y = c
        BY <2>6, <3>1
      <3>2. CASE y # c
        <4> DEFINE b == (s \ {c}) \ {y}
        <4>1. b = (s \ {y}) \ {c} /\ y \in s \ {c} /\ c \in s \ {y} /\ b \in SUBSET S
          BY <2>5, <3>2
        <4>2. SumOver(f, s \ {c}) = Len(f[y]) + SumOver(f, b)
          BY <2>4, <2>5, <4>1
        <4>3. SumOver(f, s \ {y}) = Len(f[c]) + SumOver(f, b)
          BY <2>4, <4>1
        <4>4. SumOver(f, s \ {y}) \in Nat /\ SumOver(f, s \ {c}) \in Nat
          BY <2>4, <2>5
        <4> HIDE DEF b
        <4>5. SumOver(f, b) \in Int
          <5>1. Cardinality(s \ {c}) = n /\ IsFiniteSet(s \ {c}) /\ y \in s \ {c}
            BY <1>1, <2>1, <2>2, <2>5, <4>1, FS_RemoveElement
          <5>2. Cardinality((s \ {c}) \ {y}) = n - 1
            BY <5>1, FS_RemoveElement
          <5>3. (s \ {c}) \ {y} \in SUBSET S
            OBVIOUS
          <5>4. Good((s \ {c}) \ {y})
            <6> HIDE DEF Good
            <6> QED BY <2>1, <2>a, <5>2, <5>3
          <5> QED BY <5>4 DEF b
        <4>6. Len(f[y]) \in Nat /\ Len(f[c]) \in Nat
          BY <2>5
        <4> QED BY <2>6, <4>2, <4>3, <4>5, <4>6
      <3> QED BY <3>1, <3>2
    <2> QED BY <2>7, <2>8
  <1> HIDE DEF Good
  <1>4. \A n \in Nat : n \in T
    BY <1>2, <1>3, Sums!InductiveSet DEF T
  <1>5. Cardinality(S) \in Nat /\ S \in SUBSET S
    BY <1>1
  <1>6. Good(S)
    BY <1>4, <1>5 DEF T
  <1> QED BY <1>6 DEF Good

\* Tables that agree on the set have the same sum.
LEMMA SumAgree ==
  ASSUME NEW f, NEW g, NEW S, IsFiniteSet(S), \A y \in S : Len(f[y]) \in Nat /\ f[y] = g[y]
  PROVE  SumOver(f, S) = SumOver(g, S)
  <1> DEFINE T == {n \in Nat : \A s \in SUBSET S : Cardinality(s) <= n => SumOver(f, s) = SumOver(g, s)}
  <1>1. ASSUME NEW s \in SUBSET S PROVE Cardinality(s) \in Nat /\ (Cardinality(s) = 0 <=> s = {}) /\ IsFiniteSet(s)
    BY FS_Subset, FS_CardinalityType, FS_EmptySet
  <1>2. 0 \in T
    <2>1. ASSUME NEW s \in SUBSET S, Cardinality(s) <= 0 PROVE SumOver(f, s) = SumOver(g, s)
      <3>1. s = {}
        BY <1>1, <2>1
      <3> QED BY <3>1, SumEmpty
    <2> QED BY <2>1
  <1>3. ASSUME NEW n \in T PROVE n + 1 \in T
    <2>1. n \in Nat /\ n + 1 \in Nat /\ (n + 1) - 1 = n
      OBVIOUS
    <2>2. ASSUME NEW s \in SUBSET S, Cardinality(s) <= n + 1 PROVE SumOver(f, s) = SumOver(g, s)
      <3>1. CASE s = {}
        BY <3>1, SumEmpty
      <3>2. CASE s # {}
        <4>1. PICK x : x \in s
          BY <3>2
        <4>2. SumOver(f, s) = Len(f[x]) + SumOver(f, s \ {x})
          BY <1>1, <4>1, SumWithout
        <4>3. SumOver(g, s) = Len(g[x]) + SumOver(g, s \ {x})
          BY <1>1, <4>1, SumWithout
        <4>4. Cardinality(s \ {x}) = Cardinality(s) - 1 /\ s \ {x} \in SUBSET S
          BY <1>1, <4>1, FS_RemoveElement
        <4>5. Cardinality(s \ {x}) <= n
          BY <1>1, <2>1, <2>2, <4>4
        <4> QED BY <4>1, <4>2, <4>3, <4>4, <4>5
      <3> QED BY <3>1, <3>2
    <2> QED BY <2>1, <2>2
  <1> HIDE DEF T
  <1>4. \A n \in Nat : n \in T
    BY <1>2, <1>3, Sums!InductiveSet DEF T
  <1>5. Cardinality(S) \in Nat /\ S \in SUBSET S
    BY <1>1
  <1> QED BY <1>4, <1>5 DEF T

\* A part and the rest.
LEMMA SumSplit ==
  ASSUME NEW f, NEW S, IsFiniteSet(S), \A y \in S : Len(f[y]) \in Nat, NEW A \in SUBSET S
  PROVE  /\ SumOver(f, S) = SumOver(f, A) + SumOver(f, S \ A)
         /\ SumOver(f, A) \in Nat /\ SumOver(f, S \ A) \in Nat /\ SumOver(f, S) \in Nat
  <1> DEFINE Good(s) == SumOver(f, s) \in Nat /\ SumOver(f, S \ s) \in Nat
                        /\ SumOver(f, S) = SumOver(f, s) + SumOver(f, S \ s)
             T == {n \in Nat : \A s \in SUBSET S : Cardinality(s) <= n => Good(s)}
  <1>0. ASSUME NEW s \in SUBSET S PROVE SumOver(f, s) \in Nat /\ IsFiniteSet(s)
    <2>1. IsFiniteSet(s)
      BY FS_Subset
    <2>2. CASE s = {}
      BY <2>1, <2>2, SumEmpty
    <2>3. CASE s # {}
      <3>1. PICK x : x \in s
        BY <2>3
      <3> QED BY <2>1, <3>1, SumWithout
    <2> QED BY <2>2, <2>3
  <1>1. ASSUME NEW s \in SUBSET S PROVE Cardinality(s) \in Nat /\ (Cardinality(s) = 0 <=> s = {}) /\ IsFiniteSet(s)
    BY FS_Subset, FS_CardinalityType, FS_EmptySet
  <1>2. 0 \in T
    <2>1. ASSUME NEW s \in SUBSET S, Cardinality(s) <= 0 PROVE Good(s)
      <3>1. s = {} /\ S \ {} = S /\ S \in SUBSET S
        BY <1>1, <2>1
      <3>2. SumOver(f, S) \in Nat
        BY <1>0, <3>1
      <3> QED BY <3>1, <3>2, SumEmpty
    <2> HIDE DEF Good
    <2> QED BY <2>1
  <1>3. ASSUME NEW n \in T PROVE n + 1 \in T
    <2>1. n \in Nat /\ n + 1 \in Nat /\ (n + 1) - 1 = n
      OBVIOUS
    <2>a. \A s \in SUBSET S : Cardinality(s) <= n => Good(s)
      OBVIOUS
    <2>2. ASSUME NEW s \in SUBSET S, Cardinality(s) = n + 1 PROVE Good(s)
      <3>1. PICK x : x \in s
        BY <1>1, <2>1, <2>2
      <3>2. Cardinality(s \ {x}) = Cardinality(s) - 1 /\ s \ {x} \in SUBSET S
        BY <1>1, <3>1, FS_RemoveElement
      <3>3. Good(s \ {x})
        <4> HIDE DEF Good
        <4> QED BY <2>1, <2>2, <2>a, <3>2
      <3>4. SumOver(f, s) = Len(f[x]) + SumOver(f, s \ {x})
        BY <1>1, <3>1, SumWithout
      <3>5. SumOver(f, S \ (s \ {x})) = Len(f[x]) + SumOver(f, (S \ (s \ {x})) \ {x})
        <4>1. IsFiniteSet(S \ (s \ {x})) /\ x \in S \ (s \ {x}) /\ S \ (s \ {x}) \subseteq S
          BY <1>1, <3>1
        <4> QED BY <4>1, SumWithout
      <3>6. (S \ (s \ {x})) \ {x} = S \ s
        BY <3>1
      <3>7. SumOver(f, s) \in Nat /\ SumOver(f, S \ s) \in Nat
        BY <1>0
      <3>8. Len(f[x]) \in Nat
        BY <3>1
      <3>9. SumOver(f, S \ (s \ {x})) = Len(f[x]) + SumOver(f, S \ s)
        BY <3>5, <3>6
      <3>10. /\ SumOver(f, s \ {x}) \in Nat
             /\ SumOver(f, S) = SumOver(f, s \ {x}) + SumOver(f, S \ (s \ {x}))
        BY <3>3
      <3>11. SumOver(f, S) = SumOver(f, s) + SumOver(f, S \ s)
        BY <3>4, <3>7, <3>8, <3>9, <3>10
      <3> QED BY <3>7, <3>11
    <2> HIDE DEF Good
    <2>3. ASSUME NEW s \in SUBSET S, Cardinality(s) <= n + 1 PROVE Good(s)
      BY <1>1, <2>1, <2>2, <2>3, <2>a
    <2> QED BY <2>1, <2>3
  <1> HIDE DEF Good
  <1>4. \A n \in Nat : n \in T
    BY <1>2, <1>3, Sums!InductiveSet DEF T
  <1>5. Cardinality(A) \in Nat
    BY <1>1
  <1>6. Good(A)
    BY <1>4, <1>5 DEF T
  <1>7. S \in SUBSET S
    OBVIOUS
  <1> QED BY <1>0, <1>6, <1>7 DEF Good

------------------------------------------------------------------------------
(* Entries put into a table and dropped from it.                            *)

Lengths(f) == \A y \in DOMAIN f : Len(f[y]) \in Nat

\* The counter of a table is the sum over its domain.
LEMMA PendingIs == ASSUME NEW f PROVE PendingOf(f) = SumOver(f, DOMAIN f)
  BY Zenon DEF PendingOf, SumOver

\* Dropping a part of the table takes its lengths off.
LEMMA PendingDrop ==
  ASSUME NEW f, IsFiniteSet(DOMAIN f), Lengths(f), NEW A \in SUBSET DOMAIN f
  PROVE  /\ PendingOf(Drop(f, A)) = PendingOf(f) - SumOver(f, A)
         /\ PendingOf(Drop(f, A)) \in Nat /\ PendingOf(f) \in Nat /\ SumOver(f, A) \in Nat
  <1> DEFINE D == DOMAIN f \ A
             g == Drop(f, A)
  <1>1. DOMAIN g = D /\ \A y \in D : g[y] = f[y]
    BY DEF Drop
  <1>2. IsFiniteSet(D) /\ D \subseteq DOMAIN f
    BY FS_Subset
  <1>3. \A y \in D : Len(g[y]) \in Nat /\ g[y] = f[y]
    BY <1>1, <1>2 DEF Lengths
  <1> HIDE DEF g
  <1>4. PendingOf(g) = SumOver(g, D)
    BY <1>1, PendingIs
  <1>5. SumOver(g, D) = SumOver(f, D)
    BY <1>2, <1>3, SumAgree
  <1>6. PendingOf(f) = SumOver(f, DOMAIN f)
    BY PendingIs
  <1>7. /\ SumOver(f, DOMAIN f) = SumOver(f, A) + SumOver(f, D)
        /\ SumOver(f, A) \in Nat /\ SumOver(f, D) \in Nat /\ SumOver(f, DOMAIN f) \in Nat
    BY SumSplit DEF Lengths
  <1> HIDE DEF D
  <1> QED BY <1>4, <1>5, <1>6, <1>7 DEF g

\* One element.
LEMMA SumOne ==
  ASSUME NEW f, NEW x, Len(f[x]) \in Nat
  PROVE  SumOver(f, {x}) = Len(f[x])
  <1>1. IsFiniteSet({x}) /\ \A y \in {x} : Len(f[y]) \in Nat
    BY FS_Singleton
  <1>2. SumOver(f, {x}) = Len(f[x]) + SumOver(f, {x} \ {x})
    BY <1>1, SumWithout
  <1>3. {x} \ {x} = {}
    OBVIOUS
  <1>4. SumOver(f, {x} \ {x}) = 0
    BY <1>3, SumEmpty
  <1> QED BY <1>2, <1>4

\* The length of an entry, 0 if there is none.
LengthAt(f, x) == IF x \in DOMAIN f THEN Len(f[x]) ELSE 0

\* Dropping one entry takes its length off.
LEMMA PendingDropOne ==
  ASSUME NEW f, IsFiniteSet(DOMAIN f), Lengths(f), NEW x
  PROVE  /\ PendingOf(Drop(f, {x})) = PendingOf(f) - LengthAt(f, x)
         /\ PendingOf(Drop(f, {x})) \in Nat /\ PendingOf(f) \in Nat /\ LengthAt(f, x) \in Nat
  <1>1. CASE x \in DOMAIN f
    <2>1. {x} \in SUBSET DOMAIN f /\ Len(f[x]) \in Nat
      BY <1>1 DEF Lengths
    <2>2. SumOver(f, {x}) = LengthAt(f, x)
      BY <1>1, <2>1, SumOne DEF LengthAt
    <2> QED BY <2>1, <2>2, PendingDrop
  <1>2. CASE x \notin DOMAIN f
    <2>1. {} \in SUBSET DOMAIN f /\ Drop(f, {x}) = Drop(f, {})
      BY <1>2 DEF Drop
    <2>2. SumOver(f, {}) = LengthAt(f, x)
      BY <1>2, SumEmpty DEF LengthAt
    <2> QED BY <2>1, <2>2, PendingDrop
  <1> QED BY <1>1, <1>2

\* A new entry replaces the old length with its own.
LEMMA PendingPut ==
  ASSUME NEW f, IsFiniteSet(DOMAIN f), Lengths(f), NEW x, NEW v, Len(v) \in Nat
  PROVE  /\ PendingOf(Put(f, x, v)) = PendingOf(f) - LengthAt(f, x) + Len(v)
         /\ PendingOf(f) - LengthAt(f, x) \in Nat
  <1> DEFINE g == Put(f, x, v)
  <1>1. DOMAIN g = DOMAIN f \cup {x} /\ g[x] = v /\ \A y \in DOMAIN f \ {x} : g[y] = f[y]
    BY DEF Put
  <1>2. IsFiniteSet(DOMAIN g)
    BY <1>1, FS_AddElement
  <1>3. Lengths(g)
    BY <1>1 DEF Lengths
  <1>4. Drop(g, {x}) = Drop(f, {x})
    BY <1>1 DEF Drop
  <1>5. LengthAt(g, x) = Len(v)
    BY <1>1 DEF LengthAt
  <1> HIDE DEF g
  <1>6. /\ PendingOf(Drop(g, {x})) = PendingOf(g) - LengthAt(g, x)
        /\ PendingOf(g) \in Nat
    BY <1>2, <1>3, PendingDropOne
  <1>7. /\ PendingOf(Drop(f, {x})) = PendingOf(f) - LengthAt(f, x)
        /\ PendingOf(Drop(f, {x})) \in Nat
    BY PendingDropOne
  <1> QED BY <1>4, <1>5, <1>6, <1>7 DEF g

\* The same for a table of the order handles: its shape, its size, its counter.
LEMMA TableDrop ==
  ASSUME NEW f, TableShape(f), IsFiniteSet(Execs), NEW x
  PROVE  LET g == Drop(f, {x})
         IN  /\ TableShape(g) /\ DOMAIN g = DOMAIN f \ {x} /\ \A y \in DOMAIN g : g[y] = f[y]
             /\ Cardinality(DOMAIN g) <= Cardinality(DOMAIN f)
             /\ Cardinality(DOMAIN g) \in Nat /\ Cardinality(DOMAIN f) \in Nat
             /\ PendingOf(Waiting(g)) =
                  PendingOf(Waiting(f)) - (IF x \in DOMAIN f THEN Len(f[x].pending) ELSE 0)
             /\ PendingOf(Waiting(g)) \in Nat /\ PendingOf(Waiting(f)) \in Nat
  <1> DEFINE g == Drop(f, {x})
             w == Waiting(f)
  <1>1. DOMAIN g = DOMAIN f \ {x} /\ \A y \in DOMAIN g : g[y] = f[y]
    BY DEF Drop
  <1>2. TableShape(g)
    BY DEF TableShape, Drop
  <1>3. IsFiniteSet(DOMAIN f)
    BY FS_Subset DEF TableShape
  <1>4. IsFiniteSet(DOMAIN g) /\ Cardinality(DOMAIN g) <= Cardinality(DOMAIN f)
    BY <1>1, <1>3, FS_Subset
  <1>5. Cardinality(DOMAIN g) \in Nat /\ Cardinality(DOMAIN f) \in Nat
    BY <1>3, <1>4, FS_CardinalityType
  <1>6. DOMAIN w = DOMAIN f /\ Lengths(w) /\ \A y \in DOMAIN f : w[y] = f[y].pending
    BY DEF Waiting, Lengths, TableShape, Entries
  <1>7. Waiting(g) = Drop(w, {x})
    BY <1>1 DEF Waiting, Drop
  <1>8. LengthAt(w, x) = IF x \in DOMAIN f THEN Len(f[x].pending) ELSE 0
    BY <1>6 DEF LengthAt
  <1> HIDE DEF g, w
  <1>9. /\ PendingOf(Drop(w, {x})) = PendingOf(w) - LengthAt(w, x)
        /\ PendingOf(Drop(w, {x})) \in Nat /\ PendingOf(w) \in Nat
    BY <1>3, <1>6, PendingDropOne
  <1> QED BY <1>1, <1>2, <1>4, <1>5, <1>7, <1>8, <1>9 DEF g, w

\* What an entry written to the table changes.
LEMMA TablePut ==
  ASSUME NEW f, TableShape(f), IsFiniteSet(Execs), NEW x \in Execs, NEW e \in Entries
  PROVE  LET g == Put(f, x, e)
         IN  /\ TableShape(g) /\ DOMAIN g = DOMAIN f \cup {x}
             /\ g[x] = e /\ \A y \in DOMAIN f : y # x => g[y] = f[y]
             /\ x \in DOMAIN f => Cardinality(DOMAIN g) = Cardinality(DOMAIN f)
             /\ x \notin DOMAIN f => Cardinality(DOMAIN g) = Cardinality(DOMAIN f) + 1
             /\ Cardinality(DOMAIN g) \in Nat /\ Cardinality(DOMAIN f) \in Nat
             /\ PendingOf(Waiting(g)) =
                  PendingOf(Waiting(f)) - (IF x \in DOMAIN f THEN Len(f[x].pending) ELSE 0) + Len(e.pending)
             /\ PendingOf(Waiting(g)) \in Nat /\ PendingOf(Waiting(f)) \in Nat
  <1> DEFINE g == Put(f, x, e)
             w == Waiting(f)
  <1>1. DOMAIN g = DOMAIN f \cup {x} /\ g[x] = e /\ \A y \in DOMAIN f : y # x => g[y] = f[y]
    BY DEF Put
  <1>2. TableShape(g)
    BY DEF TableShape, Put
  <1>3. IsFiniteSet(DOMAIN f)
    BY FS_Subset DEF TableShape
  <1>4. x \in DOMAIN f => DOMAIN g = DOMAIN f
    BY <1>1
  <1>5. /\ x \notin DOMAIN f => Cardinality(DOMAIN g) = Cardinality(DOMAIN f) + 1
        /\ Cardinality(DOMAIN g) \in Nat /\ Cardinality(DOMAIN f) \in Nat
    BY <1>1, <1>3, FS_AddElement, FS_CardinalityType
  <1>6. DOMAIN w = DOMAIN f /\ Lengths(w) /\ \A y \in DOMAIN f : w[y] = f[y].pending
    BY DEF Waiting, Lengths, TableShape, Entries
  <1>7. Waiting(g) = Put(w, x, e.pending)
    BY <1>1 DEF Waiting, Put
  <1>8. LengthAt(w, x) = IF x \in DOMAIN f THEN Len(f[x].pending) ELSE 0
    BY <1>6 DEF LengthAt
  <1>9. Len(e.pending) \in Nat
    BY DEF Entries
  <1> HIDE DEF g, w
  <1>10. /\ PendingOf(Put(w, x, e.pending)) = PendingOf(w) - LengthAt(w, x) + Len(e.pending)
         /\ PendingOf(w) - LengthAt(w, x) \in Nat
    BY <1>3, <1>6, <1>9, PendingPut
  <1>11. PendingOf(w) \in Nat
    BY <1>3, <1>6, PendingDropOne
  <1> QED BY <1>1, <1>2, <1>4, <1>5, <1>7, <1>8, <1>9, <1>10, <1>11 DEF g, w

------------------------------------------------------------------------------
(* Consecutive duplicates.                                                 *)

AppendNew(t, v, S) == IF t # <<>> /\ Last(t) = v THEN t ELSE Append(t, v)
NoRepeat(t) == \A i \in 1 .. Len(t) - 1 : t[i] # t[i + 1]
Compressed(t, i, seq, S) == t \in Seq(S) /\ NoRepeat(t)

Dist == INSTANCE QueueTheorems WITH Op <- AppendNew, Holds <- Compressed

\* Distinct is that loop.
LEMMA DistinctIs == ASSUME NEW s, NEW S PROVE Distinct(s) = Dist!Folded(<<>>, s, S)
  BY Zenon DEF Distinct, Dist!Folded, AppendNew, FoldLeft, Dist!FoldLeft, MapThenFoldSet, Dist!MapThenFoldSet, Max, Dist!Max

\* A report more, unless it repeats the last: still without repetitions.
LEMMA AppendNewKeeps ==
  ASSUME NEW S, NEW t \in Seq(S), NoRepeat(t), NEW v \in S
  PROVE  /\ AppendNew(t, v, S) \in Seq(S) /\ NoRepeat(AppendNew(t, v, S))
         /\ AppendNew(t, v, S) # <<>>
         /\ LastOr0(AppendNew(t, v, S)) = v
  <1> DEFINE n == Len(t)
  <1>1. n \in Nat /\ (t = <<>> <=> n = 0)
    OBVIOUS
  <1>2. CASE t # <<>> /\ Last(t) = v
    BY <1>1, <1>2 DEF AppendNew, LastOr0, Last
  <1>3. CASE ~(t # <<>> /\ Last(t) = v)
    <2> DEFINE u == Append(t, v)
    <2>1. u \in Seq(S) /\ Len(u) = n + 1 /\ u[n + 1] = v /\ \A i \in 1 .. n : u[i] = t[i]
      BY <1>1
    <2>2. AppendNew(t, v, S) = u
      BY <1>3 DEF AppendNew
    <2> HIDE DEF u
    <2>3. ASSUME NEW i \in 1 .. n PROVE u[i] # u[i + 1]
      <3>1. CASE i = n
        <4>1. t # <<>> /\ t[n] # v
          BY <1>1, <1>3, <3>1 DEF Last
        <4> QED BY <2>1, <3>1, <4>1
      <3>2. CASE i # n
        <4>1. i \in 1 .. Len(t) - 1 /\ i + 1 \in 1 .. n
          BY <1>1, <3>2
        <4> QED BY <2>1, <4>1 DEF NoRepeat
      <3> QED BY <3>1, <3>2
    <2>4. NoRepeat(u)
      BY <1>1, <2>1, <2>3 DEF NoRepeat
    <2>5. u # <<>> /\ LastOr0(u) = v
      BY <1>1, <2>1 DEF LastOr0
    <2> QED BY <2>1, <2>2, <2>4, <2>5
  <1> QED BY <1>2, <1>3

\* What Distinct returns.
LEMMA DistinctType ==
  ASSUME NEW S, NEW s \in Seq(S)
  PROVE  Distinct(s) \in Seq(S) /\ NoRepeat(Distinct(s))
  <1>1. Compressed(<<>>, 0, s, S)
    <2>1. <<>> \in Seq(S) /\ Len(<<>>) = 0
      OBVIOUS
    <2> QED BY <2>1 DEF Compressed, NoRepeat
  <1>2. Dist!Preserved(s, S)
    <2>1. ASSUME NEW i \in 1 .. Len(s), NEW v, Compressed(v, i - 1, s, S)
          PROVE  Compressed(AppendNew(v, s[i], S), i, s, S)
      <3>1. s[i] \in S
        OBVIOUS
      <3> QED BY <2>1, <3>1, AppendNewKeeps DEF Compressed
    <2> QED BY <2>1 DEF Dist!Preserved
  <1>3. Compressed(Dist!Folded(<<>>, s, S), Len(s), s, S)
    BY <1>1, <1>2, Dist!FoldLeftInvariant
  <1> QED BY <1>3, DistinctIs DEF Compressed

\* Nothing has no repetitions.
LEMMA DistinctEmpty == Distinct(<<>>) = <<>>
  <1>1. Distinct(<<>>) = Dist!Folded(<<>>, <<>>, {})
    BY DistinctIs
  <1> QED BY <1>1, Dist!FoldLeftEmpty

\* One report more.
LEMMA DistinctAppend ==
  ASSUME NEW S, NEW s \in Seq(S), NEW v \in S
  PROVE  Distinct(Append(s, v)) = AppendNew(Distinct(s), v, S)
  <1>1. Distinct(Append(s, v)) = Dist!Folded(<<>>, Append(s, v), S) /\ Distinct(s) = Dist!Folded(<<>>, s, S)
    BY DistinctIs
  <1>2. Dist!Folded(<<>>, Append(s, v), S) = AppendNew(Dist!Folded(<<>>, s, S), v, S)
    BY Dist!FoldLeftAppend
  <1> QED BY <1>1, <1>2

------------------------------------------------------------------------------
(* Delivering reports to the handle that owns an execution.                  *)

\* Without repetitions Distinct has nothing to remove.
LEMMA DistinctFixed ==
  ASSUME NEW S, NEW p \in Seq(S), NoRepeat(p)
  PROVE  Distinct(p) = p
  <1>1. PICK run : Dist!IsRun(run, <<>>, p, S) /\ Dist!Folded(<<>>, p, S) = run[Len(p)]
    BY Dist!FoldLeftRuns
  <1> DEFINE Good(i) == Len(run[i]) = i /\ run[i] \in Seq(S) /\ \A j \in 1 .. i : run[i][j] = p[j]
             T == {i \in Nat : i <= Len(p) => Good(i)}
  <1>2. Len(p) \in Nat
    OBVIOUS
  <1>3. 0 \in T
    <2>1. run[0] = <<>> /\ <<>> \in Seq(S) /\ Len(<<>>) = 0
      BY <1>1 DEF Dist!IsRun
    <2>2. Good(0)
      BY <2>1
    <2> HIDE DEF Good
    <2> QED BY <2>2
  <1>4. ASSUME NEW i \in T PROVE i + 1 \in T
    <2>1. i \in Nat /\ (i + 1) - 1 = i
      OBVIOUS
    <2>a. i <= Len(p) => Good(i)
      OBVIOUS
    <2> SUFFICES ASSUME i + 1 <= Len(p) PROVE Good(i + 1)
      <3> HIDE DEF Good
      <3> QED BY <2>1
    <2>2. i <= Len(p) /\ i + 1 \in 1 .. Len(p) /\ p[i + 1] \in S
      BY <1>2, <2>1
    <2>3. Good(i)
      <3> HIDE DEF Good
      <3> QED BY <2>2, <2>a
    <2> DEFINE r == run[i]
    <2>4. run[i + 1] = AppendNew(r, p[i + 1], S)
      BY <1>1, <2>1, <2>2 DEF Dist!IsRun
    <2>5. Len(r) = i /\ r \in Seq(S) /\ \A j \in 1 .. i : r[j] = p[j]
      BY <2>3
    <2> HIDE DEF r
    <2>6. ~(r # <<>> /\ Last(r) = p[i + 1])
      <3> SUFFICES ASSUME r # <<>>, Last(r) = p[i + 1] PROVE FALSE
        OBVIOUS
      <3>1. i # 0 /\ i \in 1 .. Len(p) - 1 /\ i \in 1 .. i
        BY <1>2, <2>1, <2>2, <2>5
      <3>2. p[i] = p[i + 1]
        BY <2>5, <3>1 DEF Last
      <3> QED BY <3>1, <3>2 DEF NoRepeat
    <2>7. run[i + 1] = Append(r, p[i + 1])
      BY <2>4, <2>6 DEF AppendNew
    <2> QED BY <2>1, <2>2, <2>5, <2>7
  <1> HIDE DEF Good
  <1>5. Len(p) \in T
    BY <1>2, <1>3, <1>4, Dist!InductiveSet DEF T
  <1>6. Good(Len(p))
    BY <1>2, <1>5 DEF T
  <1>7. run[Len(p)] = p
    <2> DEFINE r == run[Len(p)]
    <2>1. r \in Seq(S) /\ Len(r) = Len(p) /\ \A j \in 1 .. Len(p) : r[j] = p[j]
      BY <1>6 DEF Good
    <2> HIDE DEF r
    <2> QED BY <2>1 DEF r
  <1> QED BY <1>1, <1>7, DistinctIs

DeliverNext(t, v, x) == Deliver(t, x, v)

Deliveries == INSTANCE QueueTheorems WITH Op <- DeliverNext, Holds <- Anything

\* Everything but the delivery of x stays.
DeliveredFrom(s, t, x) ==
    /\ t.handles = s.handles /\ t.fees = s.fees /\ t.ring = s.ring
    /\ DOMAIN t.table = DOMAIN s.table
    /\ \A y \in DOMAIN s.table : y # x => t.table[y] = s.table[y]
    /\ t.table[x].owner = s.table[x].owner /\ t.table[x].pending = s.table[x].pending
    /\ \A y \in Execs : y # x => t.told[y] = s.told[y]
    /\ t.told[x].executions = s.told[x].executions

\* One report: a replay is dropped, changed content is told.
LEMMA DeliverOK ==
  ASSUME FillsAssumption, NEW own, NEW lim, NEW s, SideOK(s, own, lim), NEW x, AlreadyClaimed(s, x),
         NEW v \in Versions
  PROVE  LET t == Deliver(s, x, v)
         IN  /\ SideOK(t, own, lim) /\ DeliveredFrom(s, t, x) /\ AlreadyClaimed(t, x)
             /\ t.told[x].reports = AppendNew(s.told[x].reports, v, Versions)
  <1> DEFINE t == Deliver(s, x, v)
             r == s.told[x].reports
             e == s.table[x]
  <1>1. /\ x \in DOMAIN s.table /\ e.owner # 0 /\ x \in Execs
        /\ e \in Entries /\ s.told[x] \in Tolds /\ r \in Seq(Versions)
    BY DEF AlreadyClaimed, SideOK, SideShape, TableShape, Tolds
  <1>2. /\ e.owner = own[x] /\ own[x] \in OpenIn(s) /\ e.pending = <<>> /\ s.told[x].executions = 1
        /\ e.delivered = LastOr0(r)
    BY <1>1 DEF SideOK, OwnedOK
  <1>3. v # 0
    BY FillsAssumption
  <1>4. e.delivered = v <=> r # <<>> /\ Last(r) = v
    BY <1>2, <1>3 DEF LastOr0, Last
  <1>5. CASE e.delivered = v
    <2>1. t = s
      BY <1>5 DEF Deliver
    <2>2. AppendNew(r, v, Versions) = r
      BY <1>4, <1>5 DEF AppendNew
    <2> QED BY <2>1, <2>2 DEF DeliveredFrom
  <1>6. CASE e.delivered # v
    <2> DEFINE a == [e EXCEPT !.delivered = v]
               b == [s.told[x] EXCEPT !.reports = Append(r, v)]
    <2>1. t = [s EXCEPT !.table = [s.table EXCEPT ![x] = a], !.told = [s.told EXCEPT ![x] = b]]
      BY <1>6 DEF Deliver
    <2>2. a \in Entries /\ a.owner = e.owner /\ a.pending = e.pending /\ a.delivered = v
      BY <1>1 DEF Entries
    <2>a. /\ Append(r, v) \in Seq(Versions) /\ Append(r, v) # <<>>
          /\ Len(Append(r, v)) = Len(r) + 1 /\ Append(r, v)[Len(r) + 1] = v
      <3> HIDE DEF r
      <3>1. r \in Seq(Versions)
        BY <1>1
      <3> QED BY <3>1
    <2>3. b \in Tolds /\ b.executions = s.told[x].executions /\ b.reports = Append(r, v)
      <3> DEFINE c == Append(r, v)
      <3>1. c \in Seq(Versions)
        BY <2>a
      <3> HIDE DEF c, r
      <3>2. b = [s.told[x] EXCEPT !.reports = c]
        BY DEF c
      <3>3. b \in Tolds /\ b.executions = s.told[x].executions /\ b.reports = c
        BY <1>1, <3>1, <3>2 DEF Tolds
      <3> QED BY <3>3 DEF c
    <2>4. LastOr0(Append(r, v)) = v /\ AppendNew(r, v, Versions) = Append(r, v)
      <3>1. AppendNew(r, v, Versions) = Append(r, v)
        <4> HIDE DEF r, e
        <4> QED BY <1>4, <1>6 DEF AppendNew
      <3> HIDE DEF r
      <3>2. LastOr0(Append(r, v)) = v
        BY <2>a DEF LastOr0
      <3> QED BY <3>1, <3>2
    <2> HIDE DEF a, b, t, r, e
    <2>5. /\ s = [handles |-> s.handles, table |-> s.table, fees |-> s.fees, ring |-> s.ring, told |-> s.told]
          /\ TableShape(s.table) /\ s.told \in [Execs -> Tolds] /\ s.handles \in [Orders -> States]
          /\ RingShape(s.ring)
      BY DEF SideOK, SideShape
    <2>6. /\ t = [handles |-> s.handles, table |-> [s.table EXCEPT ![x] = a], fees |-> s.fees, ring |-> s.ring,
                  told |-> [s.told EXCEPT ![x] = b]]
      BY <2>1, <2>5
    <2>7. /\ t.handles = s.handles /\ t.fees = s.fees /\ t.ring = s.ring
          /\ DOMAIN t.table = DOMAIN s.table
          /\ t.table[x] = a /\ \A y \in DOMAIN s.table : y # x => t.table[y] = s.table[y]
          /\ t.told[x] = b /\ \A y \in Execs : y # x => t.told[y] = s.told[y]
      BY <1>1, <2>5, <2>6
    <2>8. TableShape(t.table) /\ t.told \in [Execs -> Tolds]
      BY <1>1, <2>2, <2>3, <2>5, <2>6 DEF TableShape
    <2>9. SideShape(t)
      BY <2>5, <2>6, <2>7, <2>8 DEF SideShape
    <2>10. OpenIn(t) = OpenIn(s)
      BY <2>7 DEF OpenIn
    <2>11. CountOK(t, lim)
      <3>1. Waiting(t.table) = Waiting(s.table)
        BY <2>2, <2>7 DEF Waiting, e
      <3> QED BY <2>7, <3>1 DEF SideOK, CountOK
    <2>12. OwnedOK(t, own)
      <3> SUFFICES ASSUME NEW y \in DOMAIN t.table, t.table[y].owner # 0
                   PROVE  /\ t.table[y].owner = own[y] /\ own[y] \in OpenIn(t)
                          /\ t.table[y].pending = <<>> /\ t.told[y].executions = 1
                          /\ t.table[y].delivered = LastOr0(t.told[y].reports)
        BY DEF OwnedOK
      <3>1. CASE y = x
        BY <1>2, <2>2, <2>3, <2>4, <2>7, <2>10, <3>1
      <3>2. CASE y # x
        <4>1. y \in DOMAIN s.table /\ y \in Execs /\ t.table[y] = s.table[y] /\ t.told[y] = s.told[y]
          BY <2>5, <2>7, <3>2 DEF TableShape
        <4> QED BY <2>10, <4>1 DEF SideOK, OwnedOK
      <3> QED BY <3>1, <3>2
    <2>13. \A y \in Execs : AlreadyClaimed(t, y) <=> AlreadyClaimed(s, y)
      BY <2>2, <2>7 DEF AlreadyClaimed, e
    <2>14. ToldOK(t, own)
      BY <1>1, <1>2, <2>3, <2>7, <2>10, <2>13 DEF SideOK, ToldOK
    <2>15. FreshOK(t, own)
      BY <1>1, <2>3, <2>7, <2>10 DEF SideOK, FreshOK
    <2>16. IdleOK(t)
      BY <1>2, <2>10 DEF IdleOK
    <2>17. SideOK(t, own, lim)
      BY <2>7, <2>9, <2>11, <2>12, <2>14, <2>15, <2>16 DEF SideOK
    <2>18. DeliveredFrom(s, t, x)
      BY <2>2, <2>3, <2>7 DEF DeliveredFrom, e
    <2>19. AlreadyClaimed(t, x)
      BY <1>1, <2>13
    <2> QED BY <2>3, <2>4, <2>7, <2>17, <2>18, <2>19 DEF t, r
  <1> QED BY <1>5, <1>6

\* Deliveries add up.
LEMMA DeliveredTwice ==
  ASSUME NEW s, NEW t, NEW u, NEW x, DeliveredFrom(s, t, x), DeliveredFrom(t, u, x)
  PROVE  DeliveredFrom(s, u, x)
  BY DEF DeliveredFrom

\* A queue of reports: what is told is the queue without repetitions.
LEMMA DeliverAll ==
  ASSUME FillsAssumption, NEW own, NEW lim, NEW s, SideOK(s, own, lim), NEW x, AlreadyClaimed(s, x),
         NEW p \in Seq(Versions)
  PROVE  LET t == Deliveries!Folded(s, p, x)
         IN  /\ SideOK(t, own, lim) /\ DeliveredFrom(s, t, x) /\ AlreadyClaimed(t, x)
             /\ t.told[x].reports = Dist!Folded(s.told[x].reports, p, Versions)
  <1> DEFINE r == s.told[x].reports
  <1>1. PICK run : Deliveries!IsRun(run, s, p, x) /\ Deliveries!Folded(s, p, x) = run[Len(p)]
    BY Deliveries!FoldLeftRuns
  <1>2. PICK given : Dist!IsRun(given, r, p, Versions) /\ Dist!Folded(r, p, Versions) = given[Len(p)]
    BY Dist!FoldLeftRuns
  <1> DEFINE Good(i) == /\ SideOK(run[i], own, lim) /\ DeliveredFrom(s, run[i], x) /\ AlreadyClaimed(run[i], x)
                        /\ run[i].told[x].reports = given[i]
             T == {i \in Nat : i <= Len(p) => Good(i)}
  <1>3. Len(p) \in Nat
    OBVIOUS
  <1>4. 0 \in T
    <2>1. run[0] = s /\ given[0] = r
      BY <1>1, <1>2 DEF Deliveries!IsRun, Dist!IsRun
    <2>2. DeliveredFrom(s, s, x)
      BY DEF DeliveredFrom
    <2>3. Good(0)
      BY <2>1, <2>2
    <2> HIDE DEF Good
    <2> QED BY <2>3
  <1>5. ASSUME NEW i \in T PROVE i + 1 \in T
    <2>1. i \in Nat /\ (i + 1) - 1 = i
      OBVIOUS
    <2>a. i <= Len(p) => Good(i)
      OBVIOUS
    <2> SUFFICES ASSUME i + 1 <= Len(p) PROVE Good(i + 1)
      <3> HIDE DEF Good
      <3> QED BY <2>1
    <2>2. i <= Len(p) /\ i + 1 \in 1 .. Len(p) /\ p[i + 1] \in Versions
      BY <1>3, <2>1
    <2>3. Good(i)
      <3> HIDE DEF Good
      <3> QED BY <2>2, <2>a
    <2> DEFINE t == run[i]
               v == p[i + 1]
               u == Deliver(t, x, v)
    <2>4. run[i + 1] = u
      BY <1>1, <2>1, <2>2 DEF Deliveries!IsRun, DeliverNext
    <2>5. given[i + 1] = AppendNew(given[i], v, Versions)
      BY <1>2, <2>1, <2>2 DEF Dist!IsRun
    <2>6. SideOK(t, own, lim) /\ AlreadyClaimed(t, x) /\ v \in Versions
      BY <2>2, <2>3
    <2>7. /\ SideOK(u, own, lim) /\ DeliveredFrom(t, u, x) /\ AlreadyClaimed(u, x)
          /\ u.told[x].reports = AppendNew(t.told[x].reports, v, Versions)
      <3> HIDE DEF t, v
      <3> QED BY <2>6, DeliverOK
    <2>8. DeliveredFrom(s, t, x) /\ t.told[x].reports = given[i]
      BY <2>3
    <2> HIDE DEF t, v, u
    <2>9. DeliveredFrom(s, u, x)
      BY <2>7, <2>8, DeliveredTwice
    <2> QED BY <2>4, <2>5, <2>7, <2>8, <2>9
  <1> HIDE DEF Good
  <1>6. Len(p) \in T
    BY <1>3, <1>4, <1>5, Deliveries!InductiveSet DEF T
  <1>7. Good(Len(p))
    BY <1>3, <1>6 DEF T
  <1> QED BY <1>1, <1>2, <1>7 DEF Good

\* The state after the first k reports.
Upto(s, x, reports, k) == Deliveries!Folded(s, SubSeq(reports, 1, k), x)

\* One report, if any, is told; a queue of distinct reports is told as it is.
LEMMA ToldOne ==
  ASSUME NEW r \in Seq(Versions), NEW v \in Versions
  PROVE  Dist!Folded(r, <<v>>, Versions) = AppendNew(r, v, Versions)
  <1>1. <<>> \in Seq(Versions) /\ Append(<<>>, v) = <<v>>
    OBVIOUS
  <1>2. Dist!Folded(r, Append(<<>>, v), Versions) = AppendNew(Dist!Folded(r, <<>>, Versions), v, Versions)
    BY <1>1, Dist!FoldLeftAppend
  <1> QED BY <1>1, <1>2, Dist!FoldLeftEmpty

\* deliverCommissions delivers everything, or ends the observation on the way.
LEMMA DeliverOutcomes ==
  ASSUME NEW s, NEW x, NEW reports \in Seq(Versions), NEW t \in deliverCommissions(s, x, reports)
  PROVE  \/ t = Upto(s, x, reports, Len(reports))
         \/ \E k \in 0 .. Len(reports), why \in {"malformed", "slow"} :
              t \in closeOrderRoute(Upto(s, x, reports, k), s.table[x].owner, why)
  <1> DEFINE o == s.table[x].owner
             upto(k) == FoldLeft(LAMBDA t1, v : Deliver(t1, x, v), s, SubSeq(reports, 1, k))
             bad == {k \in 1 .. Len(reports) : reports[k] = Malformed}
             slow == {k \in 1 .. Len(reports) : upto(k) # upto(k - 1)}
             first == IF bad = {} THEN Len(reports) + 1 ELSE CHOOSE k \in bad : \A j \in bad : k <= j
  <1>1. ASSUME NEW k PROVE upto(k) = Upto(s, x, reports, k)
    BY Zenon DEF Upto, Deliveries!Folded, DeliverNext, FoldLeft, Deliveries!FoldLeft,
                 MapThenFoldSet, Deliveries!MapThenFoldSet, Max, Deliveries!Max
  <1> HIDE DEF upto
  <1>2. t \in (IF bad = {} THEN {upto(Len(reports))} ELSE closeOrderRoute(upto(first - 1), o, "malformed"))
              \cup UNION {closeOrderRoute(upto(k - 1), o, "slow") : k \in {k \in slow : k < first}}
    BY DEF deliverCommissions, upto
  <1>3. Len(reports) \in Nat
    OBVIOUS
  <1>4. bad # {} => first - 1 \in 0 .. Len(reports)
    <2> SUFFICES ASSUME bad # {} PROVE first - 1 \in 0 .. Len(reports)
      OBVIOUS
    <2>1. bad \subseteq Nat
      BY <1>3
    <2>2. \E k \in bad : \A j \in bad : k <= j
      BY <2>1, Dist!LeastIn
    <2>3. first \in bad
      BY <2>2
    <2> HIDE DEF first
    <2> QED BY <1>3, <2>3
  <1>5. \A k \in slow : k - 1 \in 0 .. Len(reports)
    BY <1>3
  <1> HIDE DEF bad, slow, first, o
  <1> QED BY <1>1, <1>2, <1>4, <1>5 DEF o

------------------------------------------------------------------------------
(* Excluding an execution.                                                 *)

\* The next slot of the ring is one of its slots.
LEMMA NextSlot ==
  ASSUME limit \in Nat \ {0}, NEW n \in Nat
  PROVE  (n % limit) + 1 \in 1 .. limit
  <1>1. n % limit \in 0 .. limit - 1
    OBVIOUS
  <1> QED BY <1>1

\* Exclude puts x into a free slot, or into that of the oldest exclusion.
LEMMA ExcludeRing ==
  ASSUME FillsAssumption, limit \in Nat \ {0}, NEW r, RingShape(r), RingOK(r, limit),
         NEW x \in Execs \ DOMAIN r.slot
  PROVE  LET q == Exclude(r, x)
         IN  /\ RingShape(q) /\ RingOK(q, limit)
             /\ x \in DOMAIN q.slot /\ DOMAIN q.slot \subseteq DOMAIN r.slot \cup {x}
  <1> DEFINE q == Exclude(r, x)
             n == Len(r.at)
  <1>0. x # None
    BY FillsAssumption DEF None
  <1>1. /\ r.slot \in [DOMAIN r.slot -> Nat] /\ DOMAIN r.slot \subseteq Execs
        /\ r.at \in Seq(Execs \cup {None}) /\ r.next \in Nat
    BY DEF RingShape
  <1>2. /\ n \in Nat /\ n <= limit /\ r.next \in 1 .. limit /\ DOMAIN r.at = 1 .. n
    BY <1>1 DEF RingOK
  <1>3. \A y \in DOMAIN r.slot : r.slot[y] \in 1 .. n /\ r.at[r.slot[y]] = y
    BY <1>2 DEF RingOK
  <1>4. \A i \in 1 .. n : r.at[i] # None => r.at[i] \in DOMAIN r.slot /\ r.slot[r.at[i]] = i
    BY <1>2 DEF RingOK
  <1>5. CASE n < limit
    <2> DEFINE slot == Put(r.slot, x, n + 1)
               at == Append(r.at, x)
    <2>1. q = [slot |-> slot, at |-> at, next |-> r.next]
      BY <1>5 DEF Exclude
    <2>2. /\ at \in Seq(Execs \cup {None}) /\ Len(at) = n + 1 /\ at[n + 1] = x
          /\ \A i \in 1 .. n : at[i] = r.at[i]
      BY <1>1, <1>2
    <2>3. /\ DOMAIN slot = DOMAIN r.slot \cup {x} /\ slot[x] = n + 1
          /\ \A y \in DOMAIN r.slot : slot[y] = r.slot[y]
          /\ slot \in [DOMAIN slot -> Nat]
      BY <1>1, <1>2 DEF Put
    <2> HIDE DEF slot, at, q, n
    <2>4. q.slot = slot /\ q.at = at /\ q.next = r.next
      BY <2>1
    <2>5. RingShape(q)
      BY <1>1, <2>1, <2>2, <2>3, <2>4 DEF RingShape
    <2>6. DOMAIN at = 1 .. n + 1
      BY <1>2, <2>2
    <2>7. \A y \in DOMAIN slot : slot[y] \in 1 .. n + 1 /\ at[slot[y]] = y
      BY <1>2, <1>3, <2>2, <2>3, SMTT(20)
    <2>8. ASSUME NEW i \in 1 .. n + 1, at[i] # None PROVE at[i] \in DOMAIN slot /\ slot[at[i]] = i
      <3>1. CASE i = n + 1
        BY <2>2, <2>3, <3>1
      <3>2. CASE i # n + 1
        <4>1. i \in 1 .. n
          BY <1>2, <3>2
        <4> QED BY <1>4, <2>2, <2>3, <2>8, <4>1
      <3> QED BY <3>1, <3>2
    <2>9. RingOK(q, limit)
      BY <1>2, <1>5, <2>2, <2>4, <2>6, <2>7, <2>8 DEF RingOK
    <2> QED BY <2>3, <2>4, <2>5, <2>9 DEF q
  <1>6. CASE ~(n < limit)
    <2> DEFINE k == r.next
               old == r.at[k]
               rest == Drop(r.slot, {old})
               slot == Put(rest, x, k)
               at == [r.at EXCEPT ![k] = x]
               next == (k % limit) + 1
    <2>1. q = [slot |-> slot, at |-> at, next |-> next]
      BY <1>6 DEF Exclude
    <2>2. n = limit /\ k \in 1 .. n
      BY <1>2, <1>6
    <2>3. next \in 1 .. limit
      BY <1>1, NextSlot
    <2>4. DOMAIN rest = DOMAIN r.slot \ {old} /\ \A y \in DOMAIN rest : rest[y] = r.slot[y]
      BY DEF Drop
    <2> HIDE DEF rest
    <2>5. /\ DOMAIN slot = (DOMAIN r.slot \ {old}) \cup {x} /\ slot[x] = k
          /\ \A y \in DOMAIN r.slot \ {old} : slot[y] = r.slot[y]
          /\ slot \in [DOMAIN slot -> Nat]
      BY <1>1, <2>4 DEF Put
    <2>6. /\ at \in Seq(Execs \cup {None}) /\ Len(at) = n /\ at[k] = x
          /\ \A i \in 1 .. n : i # k => at[i] = r.at[i]
      BY <1>1, <1>2, <2>2
    <2> HIDE DEF slot, at, next, n, q, k, old
    <2>7. q.slot = slot /\ q.at = at /\ q.next = next
      BY <2>1
    <2>8. RingShape(q)
      BY <1>1, <2>1, <2>3, <2>5, <2>6, <2>7 DEF RingShape
    <2>9. DOMAIN at = 1 .. n
      BY <1>2, <2>6
    <2>10. ASSUME NEW y \in DOMAIN slot PROVE slot[y] \in 1 .. n /\ at[slot[y]] = y
      <3>1. CASE y = x
        BY <2>2, <2>5, <2>6, <3>1
      <3>2. CASE y # x
        <4>1. y \in DOMAIN r.slot /\ y # old /\ slot[y] = r.slot[y]
          BY <2>5, <3>2
        <4>2. r.slot[y] \in 1 .. n /\ r.at[r.slot[y]] = y
          BY <1>3, <4>1
        <4>3. r.slot[y] # k
          BY <4>1, <4>2 DEF old
        <4> QED BY <2>6, <4>1, <4>2, <4>3
      <3> QED BY <3>1, <3>2
    <2>11. ASSUME NEW i \in 1 .. n, at[i] # None PROVE at[i] \in DOMAIN slot /\ slot[at[i]] = i
      <3>1. CASE i = k
        BY <2>5, <2>6, <3>1
      <3>2. CASE i # k
        <4>1. at[i] = r.at[i] /\ r.at[i] \in DOMAIN r.slot /\ r.slot[r.at[i]] = i
          BY <1>4, <2>6, <2>11, <3>2
        <4>2. r.at[i] # old
          <5>1. CASE old = None
            BY <2>11, <4>1, <5>1
          <5>2. CASE old # None
            <6>1. r.slot[old] = k
              BY <1>4, <2>2, <5>2 DEF old
            <6> QED BY <3>2, <4>1, <6>1
          <5> QED BY <5>1, <5>2
        <4> QED BY <2>5, <4>1, <4>2
      <3> QED BY <3>1, <3>2
    <2>12. RingOK(q, limit)
      BY <1>2, <2>3, <2>6, <2>7, <2>9, <2>10, <2>11 DEF RingOK
    <2> QED BY <2>5, <2>7, <2>8, <2>12 DEF q
  <1> QED BY <1>5, <1>6

\* While an order o is being closed its executions may still be in the table.
OwnedBut(s, own, closing) ==
    \A x \in DOMAIN s.table : s.table[x].owner # 0 =>
      /\ s.table[x].owner = own[x] /\ own[x] \in OpenIn(s) \cup closing
      /\ s.table[x].pending = <<>>
      /\ s.told[x].executions = 1
      /\ s.table[x].delivered = LastOr0(s.told[x].reports)

SideBut(s, own, lim, closing) ==
    /\ SideShape(s) /\ CountOK(s, lim)
    /\ RingOK(s.ring, lim) /\ DOMAIN s.ring.slot \cap DOMAIN s.table = {}
    /\ OwnedBut(s, own, closing) /\ ToldOK(s, own) /\ FreshOK(s, own)

\* Known is an execution of an order that was placed, or of nobody here.
Known(s, own, x) == own[x] \in Orders => s.handles[own[x]] # None

\* What an exclusion changes.
Excluded(s, t, X) ==
    /\ t.handles = s.handles /\ t.told = s.told
    /\ DOMAIN t.table = DOMAIN s.table \ X
    /\ \A y \in DOMAIN t.table : t.table[y] = s.table[y]
    /\ DOMAIN t.ring.slot \subseteq DOMAIN s.ring.slot \cup X

\* Unless an open handle claimed it, the execution leaves the table for the ring.
LEMMA ExcludeOK ==
  ASSUME FillsAssumption, limit \in Nat \ {0}, NEW own, NEW closing,
         NEW s, SideBut(s, own, limit, closing), OpenIn(s) # {},
         NEW x \in Execs, Known(s, own, x), ~(x \in DOMAIN s.table /\ s.table[x].owner \in OpenIn(s))
  PROVE  LET t == excludeOrderExecution(s, x)
         IN  /\ SideBut(t, own, limit, closing) /\ Excluded(s, t, {x})
             /\ x \in DOMAIN t.ring.slot
  <1> DEFINE t == excludeOrderExecution(s, x)
             tab == Drop(s.table, {x})
             cnt == IF x \in DOMAIN s.table THEN s.fees - Len(s.table[x].pending) ELSE s.fees
             rg == IF x \in DOMAIN s.ring.slot THEN s.ring ELSE Exclude(s.ring, x)
  <1>1. t = [s EXCEPT !.table = tab, !.fees = cnt, !.ring = rg]
    BY DEF excludeOrderExecution
  <1>2. /\ s = [handles |-> s.handles, table |-> s.table, fees |-> s.fees, ring |-> s.ring, told |-> s.told]
        /\ s.handles \in [Orders -> States] /\ TableShape(s.table) /\ RingShape(s.ring)
        /\ s.told \in [Execs -> Tolds]
        /\ CountOK(s, limit) /\ RingOK(s.ring, limit) /\ DOMAIN s.ring.slot \cap DOMAIN s.table = {}
        /\ OwnedBut(s, own, closing) /\ ToldOK(s, own) /\ FreshOK(s, own)
    BY DEF SideBut, SideShape
  <1>3. IsFiniteSet(Execs)
    BY FillsAssumption
  <1>4. /\ TableShape(tab) /\ DOMAIN tab = DOMAIN s.table \ {x} /\ \A y \in DOMAIN tab : tab[y] = s.table[y]
        /\ Cardinality(DOMAIN tab) <= Cardinality(DOMAIN s.table)
        /\ Cardinality(DOMAIN tab) \in Nat /\ Cardinality(DOMAIN s.table) \in Nat
        /\ PendingOf(Waiting(tab)) =
             PendingOf(Waiting(s.table)) - (IF x \in DOMAIN s.table THEN Len(s.table[x].pending) ELSE 0)
        /\ PendingOf(Waiting(tab)) \in Nat /\ PendingOf(Waiting(s.table)) \in Nat
    BY <1>2, <1>3, TableDrop
  <1>5. /\ RingShape(rg) /\ RingOK(rg, limit)
        /\ x \in DOMAIN rg.slot /\ DOMAIN rg.slot \subseteq DOMAIN s.ring.slot \cup {x}
    <2>1. CASE x \in DOMAIN s.ring.slot
      BY <1>2, <2>1
    <2>2. CASE x \notin DOMAIN s.ring.slot
      BY <1>2, <2>2, ExcludeRing
    <2> QED BY <2>1, <2>2
  <1>6. x \in DOMAIN s.table => Len(s.table[x].pending) \in Nat
    BY <1>2 DEF TableShape, Entries
  <1>7. /\ cnt = PendingOf(Waiting(tab)) /\ cnt <= limit /\ Cardinality(DOMAIN tab) <= limit
    BY <1>2, <1>4, <1>6 DEF CountOK
  <1> HIDE DEF tab, cnt, rg, t
  <1>8. t = [handles |-> s.handles, table |-> tab, fees |-> cnt, ring |-> rg, told |-> s.told]
    BY <1>1, <1>2
  <1>9. t.handles = s.handles /\ t.table = tab /\ t.fees = cnt /\ t.ring = rg /\ t.told = s.told
    BY <1>8
  <1>10. SideShape(t) /\ CountOK(t, limit) /\ RingOK(t.ring, limit)
    BY <1>2, <1>4, <1>5, <1>7, <1>8, <1>9 DEF SideShape, CountOK
  <1>11. DOMAIN t.ring.slot \cap DOMAIN t.table = {}
    BY <1>2, <1>4, <1>5, <1>9
  <1>12. OpenIn(t) = OpenIn(s)
    BY <1>9 DEF OpenIn
  <1>13. OwnedBut(t, own, closing)
    BY <1>2, <1>4, <1>9, <1>12 DEF OwnedBut
  <1>14. ToldOK(t, own)
    <2> SUFFICES ASSUME NEW y \in Execs
                 PROVE  own[y] \in OpenIn(t) /\ ~AlreadyClaimed(t, y) => t.told[y].executions = 0
      BY <1>2, <1>9 DEF ToldOK
    <2>1. CASE y = x
      <3>1. AlreadyClaimed(s, x) => own[x] \notin OpenIn(s)
        BY <1>2 DEF AlreadyClaimed, OwnedBut
      <3> QED BY <1>2, <1>9, <1>12, <2>1, <3>1 DEF ToldOK
    <2>2. CASE y # x
      <3>1. AlreadyClaimed(t, y) <=> AlreadyClaimed(s, y)
        BY <1>4, <1>9, <2>2 DEF AlreadyClaimed
      <3> QED BY <1>2, <1>9, <1>12, <3>1 DEF ToldOK
    <2> QED BY <2>1, <2>2
  <1>15. FreshOK(t, own)
    BY <1>2, <1>4, <1>5, <1>9 DEF FreshOK, Known
  <1>16. SideBut(t, own, limit, closing)
    BY <1>10, <1>11, <1>13, <1>14, <1>15 DEF SideBut
  <1>17. Excluded(s, t, {x})
    BY <1>4, <1>5, <1>9 DEF Excluded
  <1> QED BY <1>5, <1>9, <1>16, <1>17 DEF t

\* A rg with another index and a freed slot.
LEMMA RingExcept ==
  ASSUME NEW r, r = [slot |-> r.slot, at |-> r.at, next |-> r.next], NEW slot, NEW k
  PROVE  [r EXCEPT !.slot = slot, !.at[k] = None] =
           [slot |-> slot, at |-> [r.at EXCEPT ![k] = None], next |-> r.next]
  <1>1. [r EXCEPT !.slot = slot] = [slot |-> slot, at |-> r.at, next |-> r.next]
    OBVIOUS
  <1> DEFINE q == [r EXCEPT !.slot = slot]
  <1>2. q = [slot |-> slot, at |-> r.at, next |-> r.next]
    BY <1>1
  <1> HIDE DEF q
  <1>3. [q EXCEPT !.at[k] = None] = [slot |-> slot, at |-> [r.at EXCEPT ![k] = None], next |-> r.next]
    BY <1>2
  <1> QED BY <1>3 DEF q

\* A positive claim takes the execution out of the ring.
LEMMA UnexcludeOK ==
  ASSUME FillsAssumption, limit \in Nat \ {0}, NEW own, NEW s, SideOK(s, own, limit), NEW x \in Execs
  PROVE  LET t == claimExcludedOrderExecution(s, x)
         IN  /\ SideOK(t, own, limit) /\ x \notin DOMAIN t.ring.slot
             /\ t.handles = s.handles /\ t.table = s.table /\ t.fees = s.fees /\ t.told = s.told
             /\ DOMAIN t.ring.slot \subseteq DOMAIN s.ring.slot
  <1> DEFINE t == claimExcludedOrderExecution(s, x)
  <1>1. CASE x \notin DOMAIN s.ring.slot
    BY <1>1 DEF claimExcludedOrderExecution
  <1>2. CASE x \in DOMAIN s.ring.slot
    <2> DEFINE r == s.ring
               k == r.slot[x]
               slot == Drop(r.slot, {x})
               at == [r.at EXCEPT ![k] = None]
               rg == [slot |-> slot, at |-> at, next |-> r.next]
    <2>1. /\ s = [handles |-> s.handles, table |-> s.table, fees |-> s.fees, ring |-> s.ring, told |-> s.told]
          /\ s.handles \in [Orders -> States] /\ TableShape(s.table) /\ RingShape(r)
          /\ s.told \in [Execs -> Tolds]
          /\ CountOK(s, limit) /\ RingOK(r, limit) /\ DOMAIN r.slot \cap DOMAIN s.table = {}
          /\ OwnedOK(s, own) /\ ToldOK(s, own) /\ FreshOK(s, own) /\ IdleOK(s)
      BY DEF SideOK, SideShape
    <2>2. /\ r = [slot |-> r.slot, at |-> r.at, next |-> r.next]
          /\ r.slot \in [DOMAIN r.slot -> Nat] /\ DOMAIN r.slot \subseteq Execs
          /\ r.at \in Seq(Execs \cup {None}) /\ r.next \in Nat
      BY <2>1 DEF RingShape
    <2>3. /\ Len(r.at) \in Nat /\ DOMAIN r.at = 1 .. Len(r.at) /\ k \in 1 .. Len(r.at) /\ r.at[k] = x
      BY <1>2, <2>1, <2>2 DEF RingOK
    <2>4. [s.ring EXCEPT !.slot = slot, !.at[k] = None] = rg
      <3> HIDE DEF slot, k
      <3>1. [r EXCEPT !.slot = slot, !.at[k] = None] =
              [slot |-> slot, at |-> [r.at EXCEPT ![k] = None], next |-> r.next]
        <4> HIDE DEF r
        <4> QED BY <2>2, RingExcept
      <3> QED BY <3>1
    <2>5. t = [s EXCEPT !.ring = rg]
      <3>1. t = [s EXCEPT !.ring = [s.ring EXCEPT !.slot = slot, !.at[k] = None]]
        BY <1>2, <2>1, <2>2 DEF claimExcludedOrderExecution
      <3> QED BY <2>4, <3>1
    <2>6. DOMAIN slot = DOMAIN r.slot \ {x} /\ (\A y \in DOMAIN slot : slot[y] = r.slot[y]) /\ slot \in [DOMAIN slot -> Nat]
      BY <2>2 DEF Drop
    <2>7. /\ at \in Seq(Execs \cup {None}) /\ Len(at) = Len(r.at) /\ DOMAIN at = DOMAIN r.at
          /\ at[k] = None /\ \A i \in DOMAIN r.at : i # k => at[i] = r.at[i]
      BY <2>2, <2>3
    <2> HIDE DEF slot, at
    <2>8. rg.slot = slot /\ rg.at = at /\ rg.next = r.next
      OBVIOUS
    <2>9. RingShape(rg)
      BY <2>2, <2>6, <2>7 DEF RingShape
    <2>10. ASSUME NEW y \in DOMAIN slot PROVE slot[y] \in DOMAIN at /\ at[slot[y]] = y
      <3>1. y \in DOMAIN r.slot /\ y # x /\ slot[y] = r.slot[y]
        BY <2>6
      <3>2. r.slot[y] \in DOMAIN r.at /\ r.at[r.slot[y]] = y
        BY <2>1, <3>1 DEF RingOK
      <3>3. r.slot[y] # k
        BY <2>3, <3>1, <3>2
      <3> QED BY <2>7, <3>1, <3>2, <3>3
    <2>11. ASSUME NEW i \in DOMAIN at, at[i] # None PROVE at[i] \in DOMAIN slot /\ slot[at[i]] = i
      <3>1. i \in DOMAIN r.at /\ i # k /\ at[i] = r.at[i]
        BY <2>7, <2>11
      <3>2. r.at[i] \in DOMAIN r.slot /\ r.slot[r.at[i]] = i
        BY <2>1, <2>11, <3>1 DEF RingOK
      <3>3. r.at[i] # x
        BY <3>1, <3>2
      <3> QED BY <2>6, <3>1, <3>2, <3>3
    <2>12. RingOK(rg, limit)
      BY <2>1, <2>7, <2>8, <2>10, <2>11 DEF RingOK
    <2> HIDE DEF rg, t
    <2>13. t = [handles |-> s.handles, table |-> s.table, fees |-> s.fees, ring |-> rg, told |-> s.told]
      BY <2>1, <2>5
    <2>14. t.handles = s.handles /\ t.table = s.table /\ t.fees = s.fees /\ t.told = s.told /\ t.ring = rg
      BY <2>13
    <2>15. SideShape(t) /\ CountOK(t, limit)
      BY <2>1, <2>9, <2>13, <2>14 DEF SideShape, CountOK
    <2>16. OpenIn(t) = OpenIn(s) /\ \A y : AlreadyClaimed(t, y) <=> AlreadyClaimed(s, y)
      BY <2>14 DEF OpenIn, AlreadyClaimed
    <2>17. OpenIn(s) # {}
      <3>1. EmptyRing.slot = <<>> /\ DOMAIN <<>> = {}
        BY DEF EmptyRing
      <3> QED BY <1>2, <2>1, <3>1 DEF IdleOK
    <2>18. OwnedOK(t, own) /\ ToldOK(t, own) /\ IdleOK(t)
      BY <2>1, <2>14, <2>16, <2>17 DEF OwnedOK, ToldOK, IdleOK
    <2>19. FreshOK(t, own)
      BY <2>1, <2>6, <2>8, <2>14 DEF FreshOK
    <2>20. DOMAIN t.ring.slot \cap DOMAIN t.table = {} /\ RingOK(t.ring, limit)
      BY <2>1, <2>6, <2>8, <2>12, <2>14
    <2> QED BY <2>6, <2>8, <2>14, <2>15, <2>18, <2>19, <2>20 DEF SideOK, t
  <1> QED BY <1>1, <1>2

------------------------------------------------------------------------------
(* The end of an observation.                                              *)

\* What everybody else keeps: the executions outside X of the handles that stay
\* open, and the orders that are not placed.
Kept(s, t, own, X) ==
    /\ \A y \in Execs \ X : own[y] \in OpenIn(t) =>
         /\ own[y] \in OpenIn(s)
         /\ t.told[y].reports = s.told[y].reports /\ Held(t, y) = Held(s, y)
         /\ y \in DOMAIN t.ring.slot => y \in DOMAIN s.ring.slot
    /\ \A o \in Orders : t.handles[o] = None => s.handles[o] = None

\* The empty tables.
LEMMA EmptyTables ==
  ASSUME limit \in Nat \ {0}
  PROVE  /\ TableShape(<<>>) /\ DOMAIN <<>> = {}
         /\ Cardinality(DOMAIN <<>>) = 0 /\ PendingOf(Waiting(<<>>)) = 0
         /\ RingShape(EmptyRing) /\ RingOK(EmptyRing, limit) /\ DOMAIN EmptyRing.slot = {}
  <1>1. DOMAIN <<>> = {} /\ Len(<<>>) = 0
    OBVIOUS
  <1>2. \A S : <<>> \in [{} -> S]
    BY <1>1
  <1>3. TableShape(<<>>)
    BY <1>1, <1>2 DEF TableShape
  <1>4. Cardinality(DOMAIN <<>>) = 0
    BY <1>1, FS_EmptySet
  <1>5. DOMAIN Waiting(<<>>) = {}
    BY <1>1 DEF Waiting
  <1>6. PendingOf(Waiting(<<>>)) = 0
    BY <1>5, PendingIs, SumEmpty
  <1>7. /\ EmptyRing = [slot |-> <<>>, at |-> <<>>, next |-> 1]
        /\ EmptyRing.slot = <<>> /\ EmptyRing.at = <<>> /\ EmptyRing.next = 1
    BY DEF EmptyRing
  <1>8. <<>> \in Seq(Execs \cup {None}) /\ 1 \in 1 .. limit
    OBVIOUS
  <1>9. RingShape(EmptyRing)
    BY <1>1, <1>2, <1>7, <1>8 DEF RingShape
  <1>10. RingOK(EmptyRing, limit)
    BY <1>1, <1>7, <1>8 DEF RingOK
  <1> QED BY <1>1, <1>3, <1>4, <1>6, <1>7, <1>9, <1>10

\* The last handle clears the tables.
LEMMA ClearOK ==
  ASSUME limit \in Nat \ {0}, NEW own, NEW s,
         s.handles \in [Orders -> States], s.told \in [Execs -> Tolds],
         s = [handles |-> s.handles, table |-> s.table, fees |-> s.fees, ring |-> s.ring, told |-> s.told],
         OpenIn(s) = {},
         \A x \in Execs : /\ s.told[x].executions <= 1
                          /\ s.told[x].executions = 0 => s.told[x].reports = <<>>
                          /\ own[x] = 0 => s.told[x].executions = 0
                          /\ own[x] \in Orders /\ s.handles[own[x]] = None => s.told[x].executions = 0
  PROVE  LET t == clearOrderCorrelations(s)
         IN  SideOK(t, own, limit) /\ t.handles = s.handles /\ t.told = s.told /\ OpenIn(t) = {}
  <1> DEFINE t == clearOrderCorrelations(s)
  <1>a. s = [handles |-> s.handles, table |-> s.table, fees |-> s.fees, ring |-> s.ring, told |-> s.told]
    OBVIOUS
  <1>b. t = [s EXCEPT !.table = <<>>, !.fees = 0, !.ring = EmptyRing]
    BY Zenon DEF clearOrderCorrelations
  <1>1. t = [handles |-> s.handles, table |-> <<>>, fees |-> 0, ring |-> EmptyRing, told |-> s.told]
    <2> HIDE DEF t
    <2> QED BY <1>a, <1>b
  <1> HIDE DEF t
  <1>2. t.handles = s.handles /\ t.table = <<>> /\ t.fees = 0 /\ t.ring = EmptyRing /\ t.told = s.told
    BY <1>1
  <1>3. OpenIn(t) = {}
    BY <1>2 DEF OpenIn
  <1>4. SideShape(t)
    BY <1>1, <1>2, EmptyTables DEF SideShape
  <1>5. CountOK(t, limit) /\ RingOK(t.ring, limit) /\ DOMAIN t.ring.slot = {} /\ DOMAIN t.table = {}
    BY <1>2, EmptyTables DEF CountOK
  <1>6. OwnedOK(t, own) /\ ToldOK(t, own) /\ FreshOK(t, own) /\ IdleOK(t)
    BY <1>2, <1>3, <1>5 DEF OwnedOK, ToldOK, FreshOK, IdleOK
  <1> QED BY <1>2, <1>3, <1>4, <1>5, <1>6 DEF SideOK, t

\* The enumerations of a finite set have all its elements.
LEMMA SeqsCover ==
  ASSUME NEW S, IsFiniteSet(S), NEW q \in SetToSeqs(S)
  PROVE  q \in Seq(S) /\ \A x \in S : \E i \in 1 .. Len(q) : q[i] = x
  <1> DEFINE c == Cardinality(S)
  <1>1. c \in Nat
    BY FS_CardinalityType
  <1>2. q \in [1 .. c -> S] /\ \A i, j \in 1 .. c : i # j => q[i] # q[j]
    BY DEF SetToSeqs
  <1>3. IsFiniteSet(1 .. c) /\ Cardinality(1 .. c) = c
    <2>1. 1 \in Int /\ c \in Int
      BY <1>1
    <2>2. IsFiniteSet(1 .. c) /\ Cardinality(1 .. c) = IF 1 > c THEN 0 ELSE c - 1 + 1
      BY <2>1, FS_Interval
    <2> QED BY <1>1, <2>2
  <1>4. q \in Injection(1 .. c, S)
    BY <1>2 DEF Injection, IsInjective
  <1>5. q \in Surjection(1 .. c, S)
    BY <1>1, <1>3, <1>4, FS_Injection
  <1> HIDE DEF c
  <1>6. q \in Seq(S) /\ Len(q) = c
    BY <1>1, <1>2
  <1> QED BY <1>5, <1>6 DEF Surjection

ExcludeNext(s, x, par) == excludeOrderExecution(s, x)

Exclusions == INSTANCE QueueTheorems WITH Op <- ExcludeNext, Holds <- Anything

\* forgetOrderExecutions while other handles are open: every execution of the
\* closed order leaves the table, in whatever order the map yields them.
LEMMA ForgetOK ==
  ASSUME FillsAssumption, limit \in Nat \ {0}, NEW own, NEW o \in Orders,
         NEW s, SideBut(s, own, limit, {o}), OpenIn(s) # {}, o \notin OpenIn(s), s.handles[o] # None,
         NEW t \in forgetOrderExecutions(s, o)
  PROVE  LET mine == {x \in DOMAIN s.table : s.table[x].owner = o}
         IN  SideBut(t, own, limit, {o}) /\ Excluded(s, t, mine)
  <1> DEFINE mine == {x \in DOMAIN s.table : s.table[x].owner = o}
  <1>0. o # 0
    BY FillsAssumption
  <1>1. DOMAIN s.table \subseteq Execs /\ IsFiniteSet(mine)
    <2>1. DOMAIN s.table \subseteq Execs
      BY DEF SideBut, SideShape, TableShape
    <2>2. IsFiniteSet(Execs) /\ mine \subseteq Execs
      BY <2>1, FillsAssumption
    <2> HIDE DEF mine
    <2> QED BY <2>1, <2>2, FS_Subset
  <1>2. PICK xs \in SetToSeqs(mine) : t = Exclusions!Folded(s, xs, {})
    <2>1. PICK xs \in SetToSeqs(mine) : t = FoldLeft(excludeOrderExecution, s, xs)
      BY DEF forgetOrderExecutions
    <2>2. FoldLeft(excludeOrderExecution, s, xs) = Exclusions!Folded(s, xs, {})
      BY Zenon DEF Exclusions!Folded, ExcludeNext, FoldLeft, Exclusions!FoldLeft,
                   MapThenFoldSet, Exclusions!MapThenFoldSet, Max, Exclusions!Max
    <2> QED BY <2>1, <2>2
  <1>3. xs \in Seq(mine) /\ \A x \in mine : \E i \in 1 .. Len(xs) : xs[i] = x
    <2> HIDE DEF mine
    <2> QED BY <1>1, SeqsCover
  <1>4. PICK run : Exclusions!IsRun(run, s, xs, {}) /\ Exclusions!Folded(s, xs, {}) = run[Len(xs)]
    BY <1>3, Exclusions!FoldLeftRuns
  <1>5. \A x \in mine : x \in DOMAIN s.table /\ s.table[x].owner = o /\ own[x] = o /\ x \in Execs
    BY <1>0, <1>1 DEF SideBut, OwnedBut
  <1> HIDE DEF mine
  <1> DEFINE done(i) == {xs[j] : j \in 1 .. i}
             Good(i) == SideBut(run[i], own, limit, {o}) /\ Excluded(s, run[i], done(i))
             T == {i \in Nat : i <= Len(xs) => Good(i)}
  <1>6. Len(xs) \in Nat /\ \A i \in 1 .. Len(xs) : xs[i] \in mine
    BY <1>3
  <1>7. 0 \in T
    <2>1. run[0] = s
      BY <1>4 DEF Exclusions!IsRun
    <2>2. done(0) = {}
      OBVIOUS
    <2>3. Excluded(s, s, {})
      BY DEF Excluded
    <2>4. Good(0)
      <3> HIDE DEF done
      <3> QED BY <2>1, <2>2, <2>3
    <2> HIDE DEF Good
    <2> QED BY <2>4
  <1>8. ASSUME NEW i \in T PROVE i + 1 \in T
    <2>1. i \in Nat /\ (i + 1) - 1 = i
      OBVIOUS
    <2>a. i <= Len(xs) => Good(i)
      OBVIOUS
    <2> SUFFICES ASSUME i + 1 <= Len(xs) PROVE Good(i + 1)
      <3> HIDE DEF Good
      <3> QED BY <2>1
    <2>2. i <= Len(xs) /\ i + 1 \in 1 .. Len(xs)
      BY <1>6, <2>1
    <2>3. Good(i)
      <3> HIDE DEF Good
      <3> QED BY <2>2, <2>a
    <2> DEFINE r == run[i]
               x == xs[i + 1]
               u == excludeOrderExecution(r, x)
    <2>4. run[i + 1] = u
      BY <1>4, <2>1, <2>2 DEF Exclusions!IsRun, ExcludeNext
    <2>5. done(i + 1) = done(i) \cup {x}
      <3>1. \A j \in 1 .. i + 1 : j \in 1 .. i \/ j = i + 1
        BY <2>1
      <3>2. 1 .. i \subseteq 1 .. i + 1 /\ i + 1 \in 1 .. i + 1
        BY <2>1
      <3> QED BY <3>1, <3>2
    <2>6. SideBut(r, own, limit, {o}) /\ Excluded(s, r, done(i))
      BY <2>3
    <2>7. x \in mine
      BY <1>6, <2>2
    <2> HIDE DEF r, x, u, done
    <2>8. OpenIn(r) = OpenIn(s) /\ r.handles = s.handles
      BY <2>6 DEF Excluded, OpenIn
    <2>9. x \in Execs /\ Known(r, own, x)
      BY <1>5, <2>7, <2>8 DEF Known
    <2>10. ~(x \in DOMAIN r.table /\ r.table[x].owner \in OpenIn(r))
      BY <1>5, <2>6, <2>7, <2>8 DEF Excluded
    <2>11. SideBut(u, own, limit, {o}) /\ Excluded(r, u, {x})
      BY <2>6, <2>8, <2>9, <2>10, ExcludeOK DEF u
    <2>12. Excluded(s, u, done(i) \cup {x})
      BY <2>6, <2>11 DEF Excluded
    <2> QED BY <2>4, <2>5, <2>11, <2>12
  <1> HIDE DEF Good
  <1>9. Len(xs) \in T
    BY <1>6, <1>7, <1>8, Exclusions!InductiveSet DEF T
  <1>10. Good(Len(xs))
    BY <1>6, <1>9 DEF T
  <1>11. done(Len(xs)) = mine
    BY <1>3, <1>6
  <1>12. SideBut(t, own, limit, {o}) /\ Excluded(s, t, mine)
    <2> HIDE DEF done
    <2> QED BY <1>2, <1>4, <1>10, <1>11 DEF Good
  <1> QED BY <1>12 DEF mine

Outcomes == {"closed", "malformed", "slow", "overflow"}

\* closeOrderRoute ends one handle and leaves the others what they have.
LEMMA CloseOK ==
  ASSUME FillsAssumption, limit \in Nat \ {0}, NEW own \in [Execs -> Orders \cup {0}],
         NEW s, SideOK(s, own, limit), NEW o \in OpenIn(s), NEW why \in Outcomes,
         NEW t \in closeOrderRoute(s, o, why)
  PROVE  SideOK(t, own, limit) /\ Kept(s, t, own, {}) /\ OpenIn(t) = OpenIn(s) \ {o}
         /\ \A p \in Orders : t.handles[p] = None => s.handles[p] = None
  <1> DEFINE h == [s.handles EXCEPT ![o] = why]
             b == [s EXCEPT !.handles[o] = why]
             mine == {x \in DOMAIN b.table : b.table[x].owner = o}
  <1>1. /\ s = [handles |-> s.handles, table |-> s.table, fees |-> s.fees, ring |-> s.ring, told |-> s.told]
        /\ s.handles \in [Orders -> States] /\ TableShape(s.table) /\ RingShape(s.ring)
        /\ s.told \in [Execs -> Tolds]
        /\ CountOK(s, limit) /\ RingOK(s.ring, limit) /\ DOMAIN s.ring.slot \cap DOMAIN s.table = {}
        /\ OwnedOK(s, own) /\ ToldOK(s, own) /\ FreshOK(s, own)
    BY DEF SideOK, SideShape
  <1>2. o \in Orders /\ s.handles[o] = "open" /\ o # 0 /\ why \in States /\ why # None /\ why # "open"
    BY FillsAssumption DEF OpenIn, Outcomes, States, None
  <1>3. b = [handles |-> h, table |-> s.table, fees |-> s.fees, ring |-> s.ring, told |-> s.told]
    BY <1>1
  <1>4. /\ h \in [Orders -> States] /\ h[o] = why /\ \A p \in Orders : p # o => h[p] = s.handles[p]
    BY <1>1, <1>2
  <1>5. t \in forgetOrderExecutions(b, o)
    BY DEF closeOrderRoute
  <1> HIDE DEF h, b
  <1>6. b.handles = h /\ b.table = s.table /\ b.fees = s.fees /\ b.ring = s.ring /\ b.told = s.told
    BY <1>3
  <1>7. OpenIn(b) = OpenIn(s) \ {o} /\ o \notin OpenIn(b) /\ b.handles[o] # None
    BY <1>2, <1>4, <1>6 DEF OpenIn
  <1>8. \A p \in Orders : b.handles[p] = None => s.handles[p] = None
    BY <1>2, <1>4, <1>6
  <1>9. CASE OpenIn(b) = {}
    <2>1. t = clearOrderCorrelations(b)
      BY <1>5, <1>9 DEF forgetOrderExecutions
    <2>2. SideOK(t, own, limit) /\ t.handles = b.handles /\ t.told = b.told /\ OpenIn(t) = {}
      <3>1. \A x \in Execs : /\ b.told[x].executions <= 1
                             /\ b.told[x].executions = 0 => b.told[x].reports = <<>>
                             /\ own[x] = 0 => b.told[x].executions = 0
                             /\ own[x] \in Orders /\ b.handles[own[x]] = None => b.told[x].executions = 0
        BY <1>1, <1>6, <1>8 DEF ToldOK, FreshOK
      <3>2. b.handles \in [Orders -> States] /\ b.told \in [Execs -> Tolds]
            /\ b = [handles |-> b.handles, table |-> b.table, fees |-> b.fees, ring |-> b.ring, told |-> b.told]
        BY <1>1, <1>3, <1>4, <1>6
      <3> QED BY <1>9, <2>1, <3>1, <3>2, ClearOK
    <2> QED BY <1>7, <1>8, <1>9, <2>2 DEF Kept
  <1>10. CASE OpenIn(b) # {}
    <2>1. SideBut(b, own, limit, {o})
      <3>1. SideShape(b) /\ CountOK(b, limit) /\ RingOK(b.ring, limit) /\ DOMAIN b.ring.slot \cap DOMAIN b.table = {}
        BY <1>1, <1>3, <1>4, <1>6 DEF SideShape, CountOK
      <3>2. OwnedBut(b, own, {o})
        BY <1>1, <1>6, <1>7 DEF OwnedOK, OwnedBut
      <3>3. \A x : AlreadyClaimed(b, x) <=> AlreadyClaimed(s, x)
        BY <1>6 DEF AlreadyClaimed
      <3>4. ToldOK(b, own)
        BY <1>1, <1>6, <1>7, <3>3 DEF ToldOK
      <3>5. FreshOK(b, own)
        BY <1>1, <1>6, <1>8 DEF FreshOK
      <3> QED BY <3>1, <3>2, <3>4, <3>5 DEF SideBut
    <2>2. SideBut(t, own, limit, {o}) /\ Excluded(b, t, mine)
      BY <1>2, <1>5, <1>7, <1>10, <2>1, ForgetOK
    <2>3. OpenIn(t) = OpenIn(b) /\ t.handles = b.handles
      BY <2>2 DEF Excluded, OpenIn
    <2>4. \A x \in mine : own[x] = o /\ x \in Execs /\ x \in DOMAIN s.table
      BY <1>1, <1>2, <1>6 DEF OwnedOK, TableShape
    <2>5. \A x \in DOMAIN t.table : x \in DOMAIN s.table /\ x \notin mine /\ t.table[x] = s.table[x]
      BY <1>6, <2>2 DEF Excluded
    <2>6. OwnedOK(t, own)
      <3> SUFFICES ASSUME NEW x \in DOMAIN t.table, t.table[x].owner # 0 PROVE own[x] # o
        BY <2>2 DEF SideBut, OwnedBut, OwnedOK
      <3>1. x \notin mine /\ x \in DOMAIN b.table /\ t.table[x] = b.table[x]
        BY <1>6, <2>5
      <3>2. t.table[x].owner = own[x]
        BY <2>2 DEF SideBut, OwnedBut
      <3> QED BY <3>1, <3>2
    <2>7. IdleOK(t)
      BY <1>10, <2>3 DEF IdleOK
    <2>8. SideOK(t, own, limit)
      BY <2>2, <2>6, <2>7 DEF SideBut, SideOK
    <2>9. Kept(s, t, own, {})
      <3> SUFFICES ASSUME NEW y \in Execs, own[y] \in OpenIn(t)
                   PROVE  /\ own[y] \in OpenIn(s)
                          /\ t.told[y].reports = s.told[y].reports /\ Held(t, y) = Held(s, y)
                          /\ y \in DOMAIN t.ring.slot => y \in DOMAIN s.ring.slot
        BY <1>8, <2>3 DEF Kept
      <3>1. y \notin mine
        BY <1>7, <2>3, <2>4
      <3>2. t.told = s.told /\ DOMAIN t.table = DOMAIN s.table \ mine /\ DOMAIN t.ring.slot \subseteq DOMAIN s.ring.slot \cup mine
        BY <1>6, <2>2 DEF Excluded
      <3> HIDE DEF mine
      <3> QED BY <1>7, <2>3, <2>5, <3>1, <3>2 DEF Held
    <2> QED BY <1>7, <1>8, <2>3, <2>8, <2>9
  <1> QED BY <1>9, <1>10

\* closeOrdersForCorrelationOverflow ends every handle.
LEMMA OverflowOK ==
  ASSUME limit \in Nat \ {0}, NEW own, NEW s, SideOK(s, own, limit)
  PROVE  LET t == closeOrdersForCorrelationOverflow(s)
         IN  /\ SideOK(t, own, limit) /\ OpenIn(t) = {}
             /\ \A p \in Orders : t.handles[p] = None => s.handles[p] = None
  <1> DEFINE h == [o \in Orders |-> IF s.handles[o] = "open" THEN "overflow" ELSE s.handles[o]]
             b == [s EXCEPT !.handles = h]
             t == closeOrdersForCorrelationOverflow(s)
  <1>1. /\ s = [handles |-> s.handles, table |-> s.table, fees |-> s.fees, ring |-> s.ring, told |-> s.told]
        /\ s.handles \in [Orders -> States] /\ s.told \in [Execs -> Tolds]
        /\ ToldOK(s, own) /\ FreshOK(s, own)
    BY DEF SideOK, SideShape
  <1>2. t = clearOrderCorrelations(b)
    BY DEF closeOrdersForCorrelationOverflow
  <1>3. b = [handles |-> h, table |-> s.table, fees |-> s.fees, ring |-> s.ring, told |-> s.told]
    BY <1>1
  <1>4. h \in [Orders -> States] /\ \A o \in Orders : h[o] # "open" /\ (h[o] = None => s.handles[o] = None)
    BY <1>1 DEF States, None
  <1> HIDE DEF h, b, t
  <1>5. /\ b.handles = h /\ b.table = s.table /\ b.fees = s.fees /\ b.ring = s.ring /\ b.told = s.told
        /\ OpenIn(b) = {}
        /\ b = [handles |-> b.handles, table |-> b.table, fees |-> b.fees, ring |-> b.ring, told |-> b.told]
    BY <1>3, <1>4 DEF OpenIn
  <1>6. \A x \in Execs : /\ b.told[x].executions <= 1
                         /\ b.told[x].executions = 0 => b.told[x].reports = <<>>
                         /\ own[x] = 0 => b.told[x].executions = 0
                         /\ own[x] \in Orders /\ b.handles[own[x]] = None => b.told[x].executions = 0
    BY <1>1, <1>4, <1>5 DEF ToldOK, FreshOK
  <1>7. b.handles \in [Orders -> States] /\ b.told \in [Execs -> Tolds]
    BY <1>1, <1>4, <1>5
  <1>8. SideOK(t, own, limit) /\ t.handles = b.handles /\ OpenIn(t) = {}
    BY <1>2, <1>5, <1>6, <1>7, ClearOK
  <1> QED BY <1>4, <1>5, <1>8 DEF t

\* One table is what SideBut says with nothing closing.
LEMMA SideIsBut ==
  ASSUME NEW own, NEW lim, NEW s
  PROVE  SideOK(s, own, lim) <=> SideBut(s, own, lim, {}) /\ IdleOK(s)
  <1>1. OwnedOK(s, own) <=> OwnedBut(s, own, {})
    BY DEF OwnedOK, OwnedBut
  <1> QED BY <1>1 DEF SideOK, SideBut

\* excludeOrderExecution on any table: the others keep what they have, and an
\* execution that is excluded had been given to nobody.
LEMMA ExcludeKeeps ==
  ASSUME FillsAssumption, limit \in Nat \ {0}, NEW own, NEW s, SideOK(s, own, limit),
         NEW x \in Execs, Known(s, own, x)
  PROVE  LET t == excludeOrderExecution(s, x)
         IN  /\ SideOK(t, own, limit) /\ Kept(s, t, own, {x}) /\ t.handles = s.handles
             /\ \/ t = s
                \/ /\ x \in DOMAIN t.ring.slot
                   /\ own[x] \in OpenIn(t) => t.told[x].reports = <<>> /\ Held(t, x) = <<>>
  <1> DEFINE t == excludeOrderExecution(s, x)
  <1>1. CASE OpenIn(s) = {} \/ (x \in DOMAIN s.table /\ s.table[x].owner \in OpenIn(s))
    <2>1. t = s
      BY <1>1 DEF excludeOrderExecution
    <2> QED BY <2>1 DEF Kept
  <1>2. CASE ~(OpenIn(s) = {} \/ (x \in DOMAIN s.table /\ s.table[x].owner \in OpenIn(s)))
    <2>1. SideBut(s, own, limit, {})
      BY SideIsBut
    <2> HIDE DEF t
    <2>2. SideBut(t, own, limit, {}) /\ Excluded(s, t, {x}) /\ x \in DOMAIN t.ring.slot
      BY <1>2, <2>1, ExcludeOK DEF t
    <2>3. t.handles = s.handles /\ OpenIn(t) = OpenIn(s)
      BY <2>2 DEF Excluded, OpenIn
    <2>4. IdleOK(t)
      BY <1>2, <2>3 DEF IdleOK
    <2>5. SideOK(t, own, limit)
      BY <2>2, <2>4, SideIsBut
    <2>6. Kept(s, t, own, {x})
      BY <2>2, <2>3 DEF Kept, Excluded, Held
    <2>7. ~AlreadyClaimed(t, x) /\ Held(t, x) = <<>>
      BY <2>2 DEF AlreadyClaimed, Excluded, Held
    <2>8. ToldOK(t, own)
      BY <2>2 DEF SideBut
    <2>9. own[x] \in OpenIn(t) => t.told[x].reports = <<>>
      BY <2>7, <2>8 DEF ToldOK
    <2> QED BY <2>2, <2>3, <2>5, <2>6, <2>7, <2>9 DEF t
  <1> QED BY <1>1, <1>2

\* What is kept twice is kept, and what is kept everywhere is kept elsewhere.
LEMMA KeptTwice ==
  ASSUME NEW own, NEW X, NEW s, NEW t, NEW u, Kept(s, t, own, X), Kept(t, u, own, X)
  PROVE  Kept(s, u, own, X)
  BY DEF Kept

\* What is kept everywhere is kept outside any set.
LEMMA KeptElsewhere ==
  ASSUME NEW own, NEW X, NEW s, NEW t, Kept(s, t, own, {})
  PROVE  Kept(s, t, own, X)
  BY DEF Kept

\* Delivering reports of x keeps everything of the others.
LEMMA DeliveredKept ==
  ASSUME NEW own, NEW s, NEW t, NEW x, DeliveredFrom(s, t, x)
  PROVE  Kept(s, t, own, {x}) /\ OpenIn(t) = OpenIn(s)
  <1>1. OpenIn(t) = OpenIn(s)
    BY DEF DeliveredFrom, OpenIn
  <1>2. \A y \in Execs : y # x => Held(t, y) = Held(s, y)
    BY DEF DeliveredFrom, Held
  <1> QED BY <1>1, <1>2 DEF Kept, DeliveredFrom

\* A table of the order handles with one part replaced.
Parts(h, t, f, r, d) == [handles |-> h, table |-> t, fees |-> f, ring |-> r, told |-> d]

\* EXCEPT on the tables as a record of parts.
LEMMA PartsExcept ==
  ASSUME NEW h, NEW t, NEW f, NEW r, NEW d, NEW g, NEW n, NEW x
  PROVE  /\ [Parts(h, t, f, r, d) EXCEPT !.table = g] = Parts(h, g, f, r, d)
         /\ [Parts(h, t, f, r, d) EXCEPT !.fees = n] = Parts(h, t, n, r, d)
         /\ [Parts(h, t, f, r, d) EXCEPT !.told = g] = Parts(h, t, f, r, g)
         /\ Parts(h, t, f, r, d).told = d
  BY DEF Parts

\* The same for a table of the model.
LEMMA SideExcept ==
  ASSUME NEW s, s = [handles |-> s.handles, table |-> s.table, fees |-> s.fees, ring |-> s.ring, told |-> s.told],
         NEW g, NEW n, NEW x
  PROVE  /\ [s EXCEPT !.table = g, !.fees = n] =
              [handles |-> s.handles, table |-> g, fees |-> n, ring |-> s.ring, told |-> s.told]
         /\ [s EXCEPT !.table = g] =
              [handles |-> s.handles, table |-> g, fees |-> s.fees, ring |-> s.ring, told |-> s.told]
         /\ [s EXCEPT !.table = g, !.fees = n, !.told[x].executions = @ + 1] =
              [handles |-> s.handles, table |-> g, fees |-> n, ring |-> s.ring,
               told |-> [s.told EXCEPT ![x].executions = @ + 1]]
  <1>1. s = Parts(s.handles, s.table, s.fees, s.ring, s.told)
    BY DEF Parts
  <1>2. [s EXCEPT !.table = g] = Parts(s.handles, g, s.fees, s.ring, s.told)
    BY <1>1, PartsExcept
  <1>3. [s EXCEPT !.table = g, !.fees = n] = Parts(s.handles, g, n, s.ring, s.told)
    <2> DEFINE b == [s EXCEPT !.table = g]
    <2>1. [s EXCEPT !.table = g, !.fees = n] = [b EXCEPT !.fees = n]
      OBVIOUS
    <2>2. b = Parts(s.handles, g, s.fees, s.ring, s.told)
      BY <1>2
    <2> HIDE DEF b
    <2> QED BY <2>1, <2>2, PartsExcept
  <1>4. [s EXCEPT !.table = g, !.fees = n].told = s.told
    BY <1>3, PartsExcept
  <1>5. [s EXCEPT !.table = g, !.fees = n, !.told[x].executions = @ + 1] =
          Parts(s.handles, g, n, s.ring, [s.told EXCEPT ![x].executions = @ + 1])
    <2> DEFINE b == [s EXCEPT !.table = g, !.fees = n]
               d == [b.told EXCEPT ![x].executions = @ + 1]
    <2>1. [s EXCEPT !.table = g, !.fees = n, !.told[x].executions = @ + 1] = [b EXCEPT !.told = d]
      OBVIOUS
    <2>2. d = [s.told EXCEPT ![x].executions = @ + 1]
      BY <1>4
    <2>3. b = Parts(s.handles, g, n, s.ring, s.told)
      BY <1>3
    <2> HIDE DEF b, d
    <2>4. [b EXCEPT !.told = d] = Parts(s.handles, g, n, s.ring, d)
      BY <2>3, PartsExcept
    <2> QED BY <2>1, <2>2, <2>4
  <1> QED BY <1>2, <1>3, <1>5 DEF Parts

\* A prefix of a queue.
LEMMA QueuePrefix ==
  ASSUME NEW p \in Seq(Versions)
  PROVE  /\ SubSeq(p, 1, Len(p)) = p
         /\ \A k \in 0 .. Len(p) : SubSeq(p, 1, k) \in Seq(Versions)
  OBVIOUS

\* deliverCommissions gives the owner everything, or ends its observation; the
\* others keep what they have.
LEMMA DeliverCommissionsOK ==
  ASSUME FillsAssumption, limit \in Nat \ {0}, NEW own \in [Execs -> Orders \cup {0}],
         NEW s, SideOK(s, own, limit), NEW x, AlreadyClaimed(s, x),
         NEW reports \in Seq(Versions), NEW t \in deliverCommissions(s, x, reports)
  PROVE  /\ SideOK(t, own, limit) /\ Kept(s, t, own, {x})
         /\ \/ /\ t.told[x].reports = Dist!Folded(s.told[x].reports, reports, Versions)
               /\ Held(t, x) = <<>> /\ t.ring = s.ring
            \/ own[x] \notin OpenIn(t)
  <1>1. /\ x \in DOMAIN s.table /\ s.table[x].owner = own[x] /\ own[x] \in OpenIn(s)
        /\ s.table[x].pending = <<>>
    BY DEF AlreadyClaimed, SideOK, OwnedOK
  <1>2. CASE t = Upto(s, x, reports, Len(reports))
    <2>1. t = Deliveries!Folded(s, reports, x)
      BY <1>2, QueuePrefix DEF Upto
    <2>2. /\ SideOK(t, own, limit) /\ DeliveredFrom(s, t, x)
          /\ t.told[x].reports = Dist!Folded(s.told[x].reports, reports, Versions)
      BY <2>1, DeliverAll
    <2>3. Held(t, x) = <<>> /\ t.ring = s.ring
      BY <1>1, <2>2 DEF DeliveredFrom, Held
    <2> QED BY <2>2, <2>3, DeliveredKept
  <1>3. ASSUME NEW k \in 0 .. Len(reports), NEW why \in {"malformed", "slow"},
               t \in closeOrderRoute(Upto(s, x, reports, k), s.table[x].owner, why)
        PROVE  SideOK(t, own, limit) /\ Kept(s, t, own, {x}) /\ own[x] \notin OpenIn(t)
    <2> DEFINE u == Upto(s, x, reports, k)
               p == SubSeq(reports, 1, k)
    <2>1. p \in Seq(Versions)
      BY QueuePrefix
    <2>2. u = Deliveries!Folded(s, p, x)
      BY DEF Upto
    <2>3. t \in closeOrderRoute(u, own[x], why)
      BY <1>1, <1>3
    <2> HIDE DEF u, p
    <2>4. SideOK(u, own, limit) /\ DeliveredFrom(s, u, x)
      BY <2>1, <2>2, DeliverAll
    <2>5. Kept(s, u, own, {x}) /\ own[x] \in OpenIn(u)
      BY <1>1, <2>4, DeliveredKept
    <2>6. why \in Outcomes
      BY DEF Outcomes
    <2>7. SideOK(t, own, limit) /\ Kept(u, t, own, {}) /\ OpenIn(t) = OpenIn(u) \ {own[x]}
      BY <2>3, <2>4, <2>5, <2>6, CloseOK
    <2> QED BY <2>5, <2>7, KeptElsewhere, KeptTwice
  <1>4. \/ t = Upto(s, x, reports, Len(reports))
        \/ \E k \in 0 .. Len(reports), why \in {"malformed", "slow"} :
             t \in closeOrderRoute(Upto(s, x, reports, k), s.table[x].owner, why)
    BY DeliverOutcomes
  <1> QED BY <1>2, <1>3, <1>4

\* The execution is entered for its open order.
Claimed(s, x, o) ==
    [s EXCEPT !.table = Put(@, x, Entry(o, <<>>, 0)), !.fees = @ - Len(Held(s, x)),
              !.told[x].executions = @ + 1]

\* The claimed tables, part by part.
LEMMA ClaimedIs ==
  ASSUME NEW s, s = [handles |-> s.handles, table |-> s.table, fees |-> s.fees, ring |-> s.ring, told |-> s.told],
         NEW x, NEW o
  PROVE  Claimed(s, x, o) = [handles |-> s.handles, table |-> Put(s.table, x, Entry(o, <<>>, 0)),
                             fees |-> s.fees - Len(Held(s, x)), ring |-> s.ring,
                             told |-> [s.told EXCEPT ![x].executions = @ + 1]]
  <1> DEFINE g == Put(s.table, x, Entry(o, <<>>, 0))
             n == s.fees - Len(Held(s, x))
  <1>1. Claimed(s, x, o) = [s EXCEPT !.table = g, !.fees = n, !.told[x].executions = @ + 1]
    BY Zenon DEF Claimed
  <1> HIDE DEF g, n
  <1>2. Claimed(s, x, o) = [handles |-> s.handles, table |-> g, fees |-> n, ring |-> s.ring,
                            told |-> [s.told EXCEPT ![x].executions = @ + 1]]
    BY <1>1, SideExcept
  <1> QED BY <1>2 DEF g, n

\* The claim moves the waiting reports out of the table; nothing was told before.
LEMMA ClaimOK ==
  ASSUME FillsAssumption, limit \in Nat \ {0}, NEW own \in [Execs -> Orders \cup {0}],
         NEW s, SideOK(s, own, limit), NEW x \in Execs, own[x] \in OpenIn(s),
         ~AlreadyClaimed(s, x), x \notin DOMAIN s.ring.slot,
         x \in DOMAIN s.table \/ ~AtLimit(Cardinality(DOMAIN s.table))
  PROVE  LET t == Claimed(s, x, own[x])
         IN  /\ SideOK(t, own, limit) /\ Kept(s, t, own, {x}) /\ AlreadyClaimed(t, x)
             /\ t.told[x].reports = <<>> /\ s.told[x].reports = <<>> /\ Held(t, x) = <<>>
             /\ t.ring = s.ring /\ OpenIn(t) = OpenIn(s)
             /\ Held(s, x) \in Seq(Versions)
  <1> DEFINE o == own[x]
             e == Entry(o, <<>>, 0)
             p == Held(s, x)
             g == Put(s.table, x, e)
             c == [s.told EXCEPT ![x].executions = @ + 1]
             t == Claimed(s, x, o)
  <1>1. /\ s = [handles |-> s.handles, table |-> s.table, fees |-> s.fees, ring |-> s.ring, told |-> s.told]
        /\ s.handles \in [Orders -> States] /\ TableShape(s.table) /\ RingShape(s.ring)
        /\ s.told \in [Execs -> Tolds]
        /\ CountOK(s, limit) /\ RingOK(s.ring, limit) /\ DOMAIN s.ring.slot \cap DOMAIN s.table = {}
        /\ OwnedOK(s, own) /\ ToldOK(s, own) /\ FreshOK(s, own) /\ IdleOK(s)
    BY DEF SideOK, SideShape
  <1>2. o \in Orders /\ s.handles[o] = "open" /\ o # 0 /\ s.handles[o] # None
    BY FillsAssumption DEF OpenIn, None
  <1>3. e \in Entries /\ e.owner = o /\ e.pending = <<>> /\ e.delivered = 0 /\ Len(e.pending) = 0
    BY <1>2 DEF Entry, Entries
  <1>4. p \in Seq(Versions) /\ Len(p) \in Nat
    <2>1. p \in Seq(Versions)
      BY <1>1 DEF Held, TableShape, Entries
    <2> QED BY <2>1
  <1>5. s.told[x] = [executions |-> 0, reports |-> <<>>]
    BY <1>1 DEF ToldOK, Tolds
  <1>6. t = [handles |-> s.handles, table |-> g, fees |-> s.fees - Len(p), ring |-> s.ring, told |-> c]
    BY <1>1, ClaimedIs
  <1>7. /\ c \in [Execs -> Tolds] /\ c[x].executions = 1 /\ c[x].reports = <<>>
        /\ \A y \in Execs : y # x => c[y] = s.told[y]
    <2>1. c = [s.told EXCEPT ![x] = [executions |-> 1, reports |-> <<>>]]
      BY <1>1, <1>5
    <2>2. [executions |-> 1, reports |-> <<>>] \in Tolds
      BY DEF Tolds
    <2> HIDE DEF c
    <2> QED BY <1>1, <2>1, <2>2
  <1> HIDE DEF e, p, c, t
  <1>8. /\ TableShape(g) /\ DOMAIN g = DOMAIN s.table \cup {x}
        /\ g[x] = e /\ \A y \in DOMAIN s.table : y # x => g[y] = s.table[y]
        /\ x \in DOMAIN s.table => Cardinality(DOMAIN g) = Cardinality(DOMAIN s.table)
        /\ x \notin DOMAIN s.table => Cardinality(DOMAIN g) = Cardinality(DOMAIN s.table) + 1
        /\ Cardinality(DOMAIN g) \in Nat /\ Cardinality(DOMAIN s.table) \in Nat
        /\ PendingOf(Waiting(g)) =
             PendingOf(Waiting(s.table))
               - (IF x \in DOMAIN s.table THEN Len(s.table[x].pending) ELSE 0) + Len(e.pending)
        /\ PendingOf(Waiting(g)) \in Nat /\ PendingOf(Waiting(s.table)) \in Nat
    BY <1>1, <1>3, FillsAssumption, TablePut
  <1>9. Len(p) = IF x \in DOMAIN s.table THEN Len(s.table[x].pending) ELSE 0
    BY DEF p, Held
  <1> HIDE DEF g, o
  <1>10. /\ t.handles = s.handles /\ t.table = g /\ t.fees = s.fees - Len(p) /\ t.ring = s.ring /\ t.told = c
         /\ OpenIn(t) = OpenIn(s)
    BY <1>6 DEF OpenIn
  <1>11. SideShape(t)
    BY <1>1, <1>6, <1>7, <1>8, <1>10 DEF SideShape
  <1>12. CountOK(t, limit)
    <2>1. Cardinality(DOMAIN g) <= limit
      BY <1>1, <1>8 DEF CountOK, AtLimit
    <2>2. PendingOf(Waiting(g)) = s.fees - Len(p)
      BY <1>1, <1>3, <1>8, <1>9 DEF CountOK
    <2>3. s.fees - Len(p) <= limit
      BY <1>1, <1>4, <1>8 DEF CountOK
    <2> QED BY <1>10, <2>1, <2>2, <2>3 DEF CountOK
  <1>13. RingOK(t.ring, limit) /\ DOMAIN t.ring.slot \cap DOMAIN t.table = {}
    BY <1>1, <1>8, <1>10
  <1>14. OwnedOK(t, own)
    <2> SUFFICES ASSUME NEW y \in DOMAIN g, g[y].owner # 0
                 PROVE  /\ g[y].owner = own[y] /\ own[y] \in OpenIn(s)
                        /\ g[y].pending = <<>>
                        /\ c[y].executions = 1
                        /\ g[y].delivered = LastOr0(c[y].reports)
      BY <1>10 DEF OwnedOK
    <2>1. CASE y = x
      BY <1>3, <1>7, <1>8, <2>1 DEF LastOr0, o
    <2>2. CASE y # x
      <3>1. y \in DOMAIN s.table /\ g[y] = s.table[y] /\ y \in Execs
        BY <1>1, <1>8, <2>2 DEF TableShape
      <3> QED BY <1>1, <1>7, <2>2, <3>1 DEF OwnedOK
    <2> QED BY <2>1, <2>2
  <1>15. \A y : y # x => (AlreadyClaimed(t, y) <=> AlreadyClaimed(s, y))
    BY <1>8, <1>10 DEF AlreadyClaimed
  <1>16. AlreadyClaimed(t, x) /\ Held(t, x) = <<>>
    BY <1>2, <1>3, <1>8, <1>10 DEF AlreadyClaimed, Held
  <1>17. ToldOK(t, own)
    <2> SUFFICES ASSUME NEW y \in Execs
                 PROVE  /\ c[y].executions <= 1
                        /\ c[y].executions = 0 => c[y].reports = <<>>
                        /\ own[y] = 0 => c[y].executions = 0
                        /\ own[y] \in OpenIn(s) /\ ~AlreadyClaimed(t, y) => c[y].executions = 0
      BY <1>10 DEF ToldOK
    <2>1. CASE y = x
      BY <1>2, <1>7, <1>16, <2>1 DEF o
    <2>2. CASE y # x
      BY <1>1, <1>7, <1>15, <2>2 DEF ToldOK
    <2> QED BY <2>1, <2>2
  <1>18. FreshOK(t, own)
    BY <1>1, <1>2, <1>7, <1>8, <1>10 DEF FreshOK, o
  <1>19. IdleOK(t)
    BY <1>10 DEF IdleOK
  <1>20. Kept(s, t, own, {x})
    <2>1. \A y : y # x => Held(t, y) = Held(s, y)
      BY <1>8, <1>10 DEF Held
    <2> QED BY <1>7, <1>10, <2>1 DEF Kept
  <1>21. SideOK(t, own, limit)
    BY <1>11, <1>12, <1>13, <1>14, <1>17, <1>18, <1>19 DEF SideOK
  <1> QED BY <1>4, <1>5, <1>7, <1>10, <1>16, <1>20, <1>21 DEF t, p, o

\* SentOK survives a step that touches one execution.
LEMMA SentKept ==
  ASSUME NEW own, NEW s, NEW t, NEW x \in Execs, NEW snt \in [Execs -> Seq(Versions)],
         NEW reports \in Seq(Versions),
         SentOK(s, own, snt), Kept(s, t, own, {x}), SentAt(t, own, reports, x)
  PROVE  SentOK(t, own, [snt EXCEPT ![x] = reports]) /\ [snt EXCEPT ![x] = reports] \in [Execs -> Seq(Versions)]
  <1> DEFINE n == [snt EXCEPT ![x] = reports]
  <1>1. n \in [Execs -> Seq(Versions)] /\ n[x] = reports /\ \A y \in Execs : y # x => n[y] = snt[y]
    OBVIOUS
  <1> HIDE DEF n
  <1>2. ASSUME NEW y \in Execs PROVE SentAt(t, own, n[y], y)
    <2>1. CASE y = x
      BY <1>1, <2>1
    <2>2. CASE y # x
      <3>1. SentAt(s, own, n[y], y)
        BY <1>1, <2>2 DEF SentOK
      <3>2. own[y] \in OpenIn(t) => SentAt(t, own, n[y], y)
        <4>1. own[y] \in OpenIn(t) => t.handles[own[y]] # None
          BY DEF OpenIn, None
        <4> QED BY <2>2, <3>1, <4>1 DEF SentAt, Kept
      <3>3. own[y] \notin OpenIn(t) => SentAt(t, own, n[y], y)
        BY <3>1 DEF SentAt, Kept
      <3> QED BY <3>2, <3>3
    <2> QED BY <2>1, <2>2
  <1> QED BY <1>1, <1>2 DEF SentOK, n

\* Nothing is claimed of what was sent to a handle that has ended.
LEMMA SentEnded ==
  ASSUME NEW own, NEW s, NEW t, NEW x, Known(s, own, x), NEW X, Kept(s, t, own, X), own[x] \notin OpenIn(t),
         NEW reports
  PROVE  SentAt(t, own, reports, x)
  BY DEF SentAt, Known, Kept

\* Taking back an exclusion moves no report.
LEMMA UnexcludeKeeps ==
  ASSUME FillsAssumption, limit \in Nat \ {0}, NEW own, NEW s, SideOK(s, own, limit), NEW x \in Execs,
         NEW reports, SentAt(s, own, reports, x)
  PROVE  LET t == claimExcludedOrderExecution(s, x)
         IN  /\ SideOK(t, own, limit) /\ x \notin DOMAIN t.ring.slot /\ Kept(s, t, own, {x})
             /\ OpenIn(t) = OpenIn(s) /\ t.handles = s.handles /\ SentAt(t, own, reports, x)
  <1> DEFINE t == claimExcludedOrderExecution(s, x)
  <1>1. /\ SideOK(t, own, limit) /\ x \notin DOMAIN t.ring.slot
        /\ t.handles = s.handles /\ t.table = s.table /\ t.fees = s.fees /\ t.told = s.told
        /\ DOMAIN t.ring.slot \subseteq DOMAIN s.ring.slot
    BY UnexcludeOK
  <1> HIDE DEF t
  <1>2. OpenIn(t) = OpenIn(s) /\ \A y : Held(t, y) = Held(s, y)
    BY <1>1 DEF OpenIn, Held
  <1>3. Kept(s, t, own, {x})
    BY <1>1, <1>2 DEF Kept
  <1>4. SentAt(t, own, reports, x)
    BY <1>1, <1>2 DEF SentAt
  <1> QED BY <1>1, <1>2, <1>3, <1>4 DEF t

\* ClaimExecution: the handle is given the execution and then what waited for it.
LEMMA ClaimDelivers ==
  ASSUME FillsAssumption, limit \in Nat \ {0}, NEW own \in [Execs -> Orders \cup {0}],
         NEW s, SideOK(s, own, limit), NEW x \in Execs, own[x] \in OpenIn(s), Known(s, own, x),
         ~AlreadyClaimed(s, x), x \notin DOMAIN s.ring.slot,
         x \in DOMAIN s.table \/ ~AtLimit(Cardinality(DOMAIN s.table)),
         NEW reports \in Seq(Versions), SentAt(s, own, reports, x),
         NEW t \in ClaimExecution(s, x, own[x])
  PROVE  /\ SideOK(t, own, limit) /\ Kept(s, t, own, {x}) /\ SentAt(t, own, reports, x)
         /\ own[x] \in OpenIn(t) => x \notin DOMAIN t.ring.slot
  <1> DEFINE c == Claimed(s, x, own[x])
             p == Held(s, x)
  <1>1. t \in deliverCommissions(c, x, p)
    BY DEF ClaimExecution, Claimed, Held
  <1> HIDE DEF c, p
  <1>2. /\ SideOK(c, own, limit) /\ Kept(s, c, own, {x}) /\ AlreadyClaimed(c, x)
        /\ c.told[x].reports = <<>> /\ s.told[x].reports = <<>> /\ Held(c, x) = <<>>
        /\ c.ring = s.ring /\ OpenIn(c) = OpenIn(s)
        /\ p \in Seq(Versions)
    BY ClaimOK DEF c, p
  <1>3. /\ SideOK(t, own, limit) /\ Kept(c, t, own, {x})
        /\ \/ /\ t.told[x].reports = Dist!Folded(c.told[x].reports, p, Versions)
              /\ Held(t, x) = <<>> /\ t.ring = c.ring
           \/ own[x] \notin OpenIn(t)
    BY <1>1, <1>2, DeliverCommissionsOK
  <1>4. Kept(s, t, own, {x})
    BY <1>2, <1>3, KeptTwice
  <1>5. CASE own[x] \notin OpenIn(t)
    BY <1>3, <1>4, <1>5, SentEnded
  <1>6. CASE /\ t.told[x].reports = Dist!Folded(c.told[x].reports, p, Versions)
             /\ Held(t, x) = <<>> /\ t.ring = c.ring
             /\ own[x] \in OpenIn(t)
    <2>1. Distinct(reports) = <<>> \o p
      BY <1>2 DEF SentAt, p
    <2>2. Distinct(reports) = p
      BY <1>2, <2>1
    <2>3. Distinct(p) = p
      BY <1>2, <2>2, DistinctType, DistinctFixed
    <2>4. t.told[x].reports = p
      BY <1>2, <1>6, <2>3, DistinctIs
    <2>5. p \o <<>> = p
      BY <1>2
    <2>6. x \notin DOMAIN t.ring.slot
      BY <1>2, <1>6
    <2>7. t.handles[own[x]] # None
      BY <1>6 DEF OpenIn, None
    <2> QED BY <1>3, <1>4, <1>6, <2>2, <2>4, <2>5, <2>6, <2>7 DEF SentAt
  <1> QED BY <1>3, <1>5, <1>6

\* What was sent counts for an excluded execution as nothing.
Counted(t, x, reports) == IF x \in DOMAIN t.ring.slot THEN <<>> ELSE reports

\* What was sent of an excluded execution counts as nothing.
LEMMA SentCounted ==
  ASSUME NEW own, NEW t, NEW x, NEW reports, SentAt(t, own, reports, x)
  PROVE  SentAt(t, own, Counted(t, x, reports), x)
  BY DEF SentAt, Counted

\* dispatchExecutionToOrder.
LEMMA DispatchOK ==
  ASSUME FillsAssumption, limit \in Nat \ {0}, NEW own \in [Execs -> Orders \cup {0}],
         NEW s, SideOK(s, own, limit), NEW x \in Execs, Known(s, own, x),
         NEW reports \in Seq(Versions), SentAt(s, own, reports, x),
         NEW o \in Orders \cup {0}, NEW identity \in {"mine", "other", "omitted"}, NEW decodes \in BOOLEAN,
         IF own[x] = 0 THEN identity # "mine" ELSE o = own[x],
         NEW t \in dispatchExecutionToOrder(s, x, o, identity, decodes)
  PROVE  SideOK(t, own, limit) /\ Kept(s, t, own, {x}) /\ SentAt(t, own, Counted(t, x, reports), x)
  <1> DEFINE u == claimExcludedOrderExecution(s, x)
  <1>1. CASE t = excludeOrderExecution(s, x)
    <2>1. /\ SideOK(t, own, limit) /\ Kept(s, t, own, {x})
          /\ \/ t = s
             \/ /\ x \in DOMAIN t.ring.slot
                /\ own[x] \in OpenIn(t) => t.told[x].reports = <<>> /\ Held(t, x) = <<>>
      BY <1>1, ExcludeKeeps
    <2>2. CASE t = s
      BY <2>1, <2>2, SentCounted
    <2>3. CASE /\ x \in DOMAIN t.ring.slot
               /\ own[x] \in OpenIn(t) => t.told[x].reports = <<>> /\ Held(t, x) = <<>>
      <3>1. <<>> \o <<>> = <<>>
        OBVIOUS
      <3>2. own[x] \in OpenIn(t) => Distinct(<<>>) = t.told[x].reports \o Held(t, x)
        BY <2>3, <3>1, DistinctEmpty
      <3>3. SentAt(t, own, <<>>, x)
        BY <3>2 DEF SentAt
      <3> QED BY <2>1, <2>3, <3>3 DEF Counted
    <2> QED BY <2>1, <2>2, <2>3
  <1>2. CASE t = s
    BY <1>2, SentCounted DEF Kept
  <1>3. ASSUME o \in OpenIn(s), identity = "mine",
               \/ t = u
               \/ \E why \in Outcomes : t \in closeOrderRoute(u, o, why)
               \/ /\ t \in ClaimExecution(u, x, o) /\ ~AlreadyClaimed(u, x)
                  /\ x \in DOMAIN u.table \/ ~AtLimit(Cardinality(DOMAIN u.table))
        PROVE  SideOK(t, own, limit) /\ Kept(s, t, own, {x}) /\ SentAt(t, own, Counted(t, x, reports), x)
    <2>0. own[x] = o
      BY <1>3
    <2>1. /\ SideOK(u, own, limit) /\ x \notin DOMAIN u.ring.slot /\ Kept(s, u, own, {x})
          /\ OpenIn(u) = OpenIn(s) /\ u.handles = s.handles /\ SentAt(u, own, reports, x)
      BY UnexcludeKeeps
    <2> HIDE DEF u
    <2>2. Known(u, own, x)
      BY <2>1 DEF Known
    <2>3. CASE t = u
      BY <2>1, <2>3, SentCounted
    <2>4. ASSUME NEW why \in Outcomes, t \in closeOrderRoute(u, o, why)
          PROVE  SideOK(t, own, limit) /\ Kept(s, t, own, {x}) /\ SentAt(t, own, Counted(t, x, reports), x)
      <3>1. SideOK(t, own, limit) /\ Kept(u, t, own, {}) /\ OpenIn(t) = OpenIn(u) \ {o}
        BY <1>3, <2>1, <2>4, CloseOK
      <3>2. Kept(s, t, own, {x})
        BY <2>1, <3>1, KeptElsewhere, KeptTwice
      <3> QED BY <2>0, <3>1, <3>2, SentEnded
    <2>5. CASE /\ t \in ClaimExecution(u, x, o) /\ ~AlreadyClaimed(u, x)
               /\ x \in DOMAIN u.table \/ ~AtLimit(Cardinality(DOMAIN u.table))
      <3>1. /\ SideOK(t, own, limit) /\ Kept(u, t, own, {x}) /\ SentAt(t, own, reports, x)
        BY <1>3, <2>0, <2>1, <2>2, <2>5, ClaimDelivers
      <3> QED BY <2>1, <3>1, KeptTwice, SentCounted
    <2> QED BY <1>3, <2>3, <2>4, <2>5
  <1>4. CASE o \notin OpenIn(s)
    BY <1>1, <1>4 DEF dispatchExecutionToOrder
  <1>5. CASE o \in OpenIn(s) /\ identity = "other"
    BY <1>1, <1>5 DEF dispatchExecutionToOrder
  <1>6. CASE o \in OpenIn(s) /\ identity = "omitted"
    BY <1>2, <1>6 DEF dispatchExecutionToOrder
  <1>7. CASE o \in OpenIn(s) /\ identity = "mine"
    <2> HIDE DEF u
    <2>1. t \in IF ~decodes THEN closeOrderRoute(u, o, "malformed")
                ELSE IF AlreadyClaimed(u, x) THEN {u}
                ELSE IF x \notin DOMAIN u.table /\ AtLimit(Cardinality(DOMAIN u.table))
                THEN closeOrderRoute(u, o, "overflow")
                ELSE ClaimExecution(u, x, o) \cup closeOrderRoute(u, o, "slow")
      BY <1>7 DEF dispatchExecutionToOrder, u
    <2>2. "malformed" \in Outcomes /\ "overflow" \in Outcomes /\ "slow" \in Outcomes
      BY DEF Outcomes
    <2>3. \/ t = u
          \/ \E why \in Outcomes : t \in closeOrderRoute(u, o, why)
          \/ /\ t \in ClaimExecution(u, x, o) /\ ~AlreadyClaimed(u, x)
             /\ x \in DOMAIN u.table \/ ~AtLimit(Cardinality(DOMAIN u.table))
      BY <2>1, <2>2
    <2> QED BY <1>3, <1>7, <2>3
  <1> QED BY <1>4, <1>5, <1>6, <1>7

\* An execution is tracked for nobody while its reports wait.
Waits(s, x, e) ==
    [s EXCEPT !.table = Put(@, x, e), !.fees = @ - Len(Held(s, x)) + Len(e.pending)]

\* The tables with another entry, part by part.
LEMMA WaitsIs ==
  ASSUME NEW s, s = [handles |-> s.handles, table |-> s.table, fees |-> s.fees, ring |-> s.ring, told |-> s.told],
         NEW x, NEW e
  PROVE  Waits(s, x, e) = [handles |-> s.handles, table |-> Put(s.table, x, e),
                           fees |-> s.fees - Len(Held(s, x)) + Len(e.pending), ring |-> s.ring, told |-> s.told]
  <1> DEFINE g == Put(s.table, x, e)
             n == s.fees - Len(Held(s, x)) + Len(e.pending)
  <1>1. Waits(s, x, e) = [s EXCEPT !.table = g, !.fees = n]
    BY Zenon DEF Waits
  <1> HIDE DEF g, n
  <1>2. Waits(s, x, e) = [handles |-> s.handles, table |-> g, fees |-> n, ring |-> s.ring, told |-> s.told]
    BY <1>1, SideExcept
  <1> QED BY <1>2 DEF g, n

\* The reports that wait then are within the limit.
Room(s, x, e) == s.fees - Len(Held(s, x)) + Len(e.pending) <= limit

\* What a waiting execution leaves as it was.
WaitsWell(s, t, own, x, e) ==
    /\ SideOK(t, own, limit) /\ Kept(s, t, own, {x}) /\ ~AlreadyClaimed(t, x)
    /\ t.told = s.told /\ Held(t, x) = e.pending
    /\ t.ring = s.ring /\ OpenIn(t) = OpenIn(s) /\ t.handles = s.handles
    /\ x \in DOMAIN t.table

\* An entry without owner whose reports have room keeps the tables sound.
LEMMA WaitsOK ==
  ASSUME FillsAssumption, limit \in Nat \ {0}, NEW own \in [Execs -> Orders \cup {0}],
         NEW s, SideOK(s, own, limit), NEW x \in Execs, Known(s, own, x), OpenIn(s) # {},
         ~AlreadyClaimed(s, x), x \notin DOMAIN s.ring.slot,
         x \in DOMAIN s.table \/ ~AtLimit(Cardinality(DOMAIN s.table)),
         NEW e \in Entries, e.owner = 0, Room(s, x, e), NEW t, t = Waits(s, x, e)
  PROVE  WaitsWell(s, t, own, x, e)
  <1> DEFINE p == Held(s, x)
             g == Put(s.table, x, e)
             n == s.fees - Len(p) + Len(e.pending)
  <1>1. /\ s = [handles |-> s.handles, table |-> s.table, fees |-> s.fees, ring |-> s.ring, told |-> s.told]
        /\ s.handles \in [Orders -> States] /\ TableShape(s.table) /\ RingShape(s.ring)
        /\ s.told \in [Execs -> Tolds]
        /\ CountOK(s, limit) /\ RingOK(s.ring, limit) /\ DOMAIN s.ring.slot \cap DOMAIN s.table = {}
        /\ OwnedOK(s, own) /\ ToldOK(s, own) /\ FreshOK(s, own) /\ IdleOK(s)
    BY DEF SideOK, SideShape
  <1>2. p \in Seq(Versions) /\ Len(p) \in Nat
    <2>1. p \in Seq(Versions)
      BY <1>1 DEF Held, TableShape, Entries
    <2> QED BY <2>1
  <1>3. t = [handles |-> s.handles, table |-> g, fees |-> n, ring |-> s.ring, told |-> s.told]
    BY <1>1, WaitsIs
  <1>4. /\ TableShape(g) /\ DOMAIN g = DOMAIN s.table \cup {x}
        /\ g[x] = e /\ \A y \in DOMAIN s.table : y # x => g[y] = s.table[y]
        /\ x \in DOMAIN s.table => Cardinality(DOMAIN g) = Cardinality(DOMAIN s.table)
        /\ x \notin DOMAIN s.table => Cardinality(DOMAIN g) = Cardinality(DOMAIN s.table) + 1
        /\ Cardinality(DOMAIN g) \in Nat /\ Cardinality(DOMAIN s.table) \in Nat
        /\ PendingOf(Waiting(g)) =
             PendingOf(Waiting(s.table))
               - (IF x \in DOMAIN s.table THEN Len(s.table[x].pending) ELSE 0) + Len(e.pending)
        /\ PendingOf(Waiting(g)) \in Nat /\ PendingOf(Waiting(s.table)) \in Nat
    BY <1>1, FillsAssumption, TablePut
  <1>5. Len(p) = IF x \in DOMAIN s.table THEN Len(s.table[x].pending) ELSE 0
    BY DEF Held
  <1> HIDE DEF g
  <1>6. /\ t.handles = s.handles /\ t.table = g /\ t.fees = n /\ t.ring = s.ring /\ t.told = s.told
        /\ OpenIn(t) = OpenIn(s)
    BY <1>3 DEF OpenIn
  <1>7. PendingOf(Waiting(g)) = n /\ n \in Nat /\ n <= limit
    BY <1>1, <1>4, <1>5 DEF CountOK, Room
  <1> HIDE DEF n, p
  <1>8. SideShape(t)
    BY <1>1, <1>3, <1>4, <1>6 DEF SideShape
  <1>9. CountOK(t, limit)
    <2>1. Cardinality(DOMAIN g) <= limit
      BY <1>1, <1>4 DEF CountOK, AtLimit
    <2> QED BY <1>6, <1>7, <2>1 DEF CountOK
  <1>10. RingOK(t.ring, limit) /\ DOMAIN t.ring.slot \cap DOMAIN t.table = {}
    BY <1>1, <1>4, <1>6
  <1>11. OwnedOK(t, own)
    BY <1>1, <1>4, <1>6 DEF OwnedOK
  <1>12. \A y : AlreadyClaimed(t, y) <=> AlreadyClaimed(s, y)
    BY <1>4, <1>6 DEF AlreadyClaimed
  <1>13. ToldOK(t, own)
    BY <1>1, <1>6, <1>12 DEF ToldOK
  <1>14. FreshOK(t, own)
    BY <1>1, <1>4, <1>6 DEF FreshOK, Known
  <1>15. IdleOK(t)
    BY <1>6 DEF IdleOK
  <1>16. Kept(s, t, own, {x})
    <2>1. \A y : y # x => Held(t, y) = Held(s, y)
      BY <1>4, <1>6 DEF Held
    <2> QED BY <1>6, <2>1 DEF Kept
  <1>17. SideOK(t, own, limit)
    BY <1>8, <1>9, <1>10, <1>11, <1>13, <1>14, <1>15 DEF SideOK
  <1>18. Held(t, x) = e.pending /\ x \in DOMAIN t.table /\ t.table[x] = e
    BY <1>4, <1>6 DEF Held
  <1> QED BY <1>6, <1>12, <1>16, <1>17, <1>18 DEF WaitsWell

\* A report that reached an open order, unless its execution is excluded, counts.
Heard(s, own, x, reports, v) ==
    IF own[x] \in OpenIn(s) /\ x \notin DOMAIN s.ring.slot THEN Append(reports, v) ELSE reports

\* What becomes of a report whose execution has no owner.
Queued(s, x, v, t) ==
    LET p == s.table[x].pending
    IN  IF p # <<>> /\ Last(p) = v THEN t = s
        ELSE IF AtLimit(s.fees) THEN t = closeOrdersForCorrelationOverflow(s)
        ELSE t = [s EXCEPT !.table[x].pending = Append(@, v), !.fees = @ + 1]

\* A report waits for its execution, at the end of its queue.
LEMMA ReportWaits ==
  ASSUME FillsAssumption, limit \in Nat \ {0}, NEW own \in [Execs -> Orders \cup {0}],
         NEW s, SideOK(s, own, limit), NEW x \in Execs, Known(s, own, x), OpenIn(s) # {},
         ~AlreadyClaimed(s, x), x \notin DOMAIN s.ring.slot, x \in DOMAIN s.table,
         NEW v \in Versions, NEW reports \in Seq(Versions), SentAt(s, own, reports, x),
         NEW t, Queued(s, x, v, t)
  PROVE  SideOK(t, own, limit) /\ Kept(s, t, own, {x}) /\ SentAt(t, own, Heard(s, own, x, reports, v), x)
  <1> DEFINE p == s.table[x].pending
             h == Heard(s, own, x, reports, v)
  <1>1. /\ s.table[x] \in Entries /\ p \in Seq(Versions) /\ Held(s, x) = p /\ s.table[x].owner = 0
        /\ s.table = [y \in DOMAIN s.table |-> s.table[y]]
        /\ s = [handles |-> s.handles, table |-> s.table, fees |-> s.fees, ring |-> s.ring, told |-> s.told]
    BY DEF SideOK, SideShape, TableShape, Entries, Held, AlreadyClaimed
  <1>2. own[x] \in OpenIn(s) => /\ Distinct(reports) = p /\ s.told[x].reports = <<>>
                                /\ Distinct(h) = AppendNew(p, v, Versions)
    <2> SUFFICES ASSUME own[x] \in OpenIn(s)
                 PROVE  /\ Distinct(reports) = p /\ s.told[x].reports = <<>>
                        /\ Distinct(h) = AppendNew(p, v, Versions)
      OBVIOUS
    <2>1. s.told[x].reports = <<>>
      BY DEF SideOK, ToldOK
    <2>2. Distinct(reports) = <<>> \o p
      BY <1>1, <2>1 DEF SentAt
    <2>3. Distinct(reports) = p
      BY <1>1, <2>2
    <2>4. h = Append(reports, v)
      BY DEF Heard
    <2> QED BY <2>1, <2>3, <2>4, DistinctAppend
  <1>3. own[x] \in OpenIn(s) \/ h = reports
    BY DEF Heard
  <1> HIDE DEF h
  <1>4. CASE p # <<>> /\ Last(p) = v
    <2>1. t = s
      BY <1>4 DEF Queued
    <2>2. own[x] \in OpenIn(s) => Distinct(h) = s.told[x].reports \o Held(s, x)
      <3>1. <<>> \o p = p
        BY <1>1
      <3> QED BY <1>1, <1>2, <1>4, <3>1 DEF AppendNew
    <2>3. own[x] \in OpenIn(s) => s.handles[own[x]] # None
      BY DEF OpenIn, None
    <2>4. SentAt(s, own, h, x)
      BY <1>3, <2>2, <2>3 DEF SentAt
    <2> QED BY <2>1, <2>4 DEF Kept, h
  <1>5. CASE ~(p # <<>> /\ Last(p) = v) /\ AtLimit(s.fees)
    <2>1. t = closeOrdersForCorrelationOverflow(s)
      BY <1>5 DEF Queued
    <2>2. SideOK(t, own, limit) /\ OpenIn(t) = {} /\ \A o \in Orders : t.handles[o] = None => s.handles[o] = None
      BY <2>1, OverflowOK
    <2>3. Kept(s, t, own, {x})
      BY <2>2 DEF Kept
    <2> QED BY <2>2, <2>3, SentEnded DEF h
  <1>6. CASE ~(p # <<>> /\ Last(p) = v) /\ ~AtLimit(s.fees)
    <2> DEFINE e == [s.table[x] EXCEPT !.pending = Append(@, v)]
               q == Append(p, v)
    <2>1. t = [s EXCEPT !.table[x].pending = Append(@, v), !.fees = @ + 1]
      BY <1>6 DEF Queued
    <2>2. q \in Seq(Versions) /\ Len(q) = Len(p) + 1 /\ Len(p) \in Nat
      BY <1>1
    <2>3. e \in Entries /\ e.pending = q /\ e.owner = 0
      BY <1>1, <2>2 DEF Entries
    <2>4. s.fees \in Nat /\ s.fees < limit
      <3>1. s.fees = PendingOf(Waiting(s.table)) /\ TableShape(s.table)
        BY DEF SideOK, CountOK, SideShape
      <3>2. PendingOf(Waiting(s.table)) \in Nat
        BY <3>1, FillsAssumption, TableDrop
      <3> QED BY <1>6, <3>1, <3>2 DEF AtLimit
    <2>5. t = Waits(s, x, e)
      <3>1. [s.table EXCEPT ![x].pending = Append(@, v)] = Put(s.table, x, e)
        <4>1. [s.table EXCEPT ![x].pending = Append(@, v)] = [s.table EXCEPT ![x] = e]
          OBVIOUS
        <4> HIDE DEF e
        <4>2. [s.table EXCEPT ![x] = e] = [y \in DOMAIN s.table |-> IF y = x THEN e ELSE s.table[y]]
          BY <1>1
        <4>3. DOMAIN s.table = DOMAIN s.table \cup {x}
          OBVIOUS
        <4> QED BY <4>1, <4>2, <4>3 DEF Put
      <3>2. s.fees + 1 = s.fees - Len(p) + Len(q)
        BY <2>2, <2>4
      <3>3. t = [handles |-> s.handles, table |-> [s.table EXCEPT ![x].pending = Append(@, v)],
                 fees |-> s.fees + 1, ring |-> s.ring, told |-> s.told]
        BY <1>1, <2>1
      <3>4. Waits(s, x, e) = [handles |-> s.handles, table |-> Put(s.table, x, e),
                              fees |-> s.fees - Len(p) + Len(q), ring |-> s.ring, told |-> s.told]
        <4> HIDE DEF e, q, p
        <4>1. Waits(s, x, e) = [handles |-> s.handles, table |-> Put(s.table, x, e),
                                fees |-> s.fees - Len(Held(s, x)) + Len(e.pending),
                                ring |-> s.ring, told |-> s.told]
          BY <1>1, WaitsIs
        <4> QED BY <1>1, <2>3, <4>1
      <3> QED BY <3>1, <3>2, <3>3, <3>4
    <2>6. Room(s, x, e)
      BY <1>1, <2>2, <2>3, <2>4 DEF Room
    <2> HIDE DEF e, q, p
    <2>7. /\ SideOK(t, own, limit) /\ Kept(s, t, own, {x})
          /\ t.told = s.told /\ Held(t, x) = q
          /\ t.ring = s.ring /\ OpenIn(t) = OpenIn(s) /\ t.handles = s.handles
      <3>1. x \in DOMAIN s.table \/ ~AtLimit(Cardinality(DOMAIN s.table))
        OBVIOUS
      <3>2. WaitsWell(s, t, own, x, e)
        BY <2>3, <2>5, <2>6, <3>1, WaitsOK
      <3> QED BY <2>3, <3>2 DEF WaitsWell
    <2>8. AppendNew(p, v, Versions) = q
      BY <1>6 DEF AppendNew, q
    <2>9. own[x] \in OpenIn(s) => Distinct(h) = t.told[x].reports \o Held(t, x)
      <3>1. <<>> \o q = q
        BY <2>2
      <3> QED BY <1>2, <2>7, <2>8, <3>1
    <2>10. own[x] \in OpenIn(s) => s.handles[own[x]] # None
      BY DEF OpenIn, None
    <2>11. SentAt(t, own, h, x)
      BY <1>3, <2>7, <2>9, <2>10 DEF SentAt
    <2> QED BY <2>7, <2>11 DEF h
  <1> QED BY <1>4, <1>5, <1>6

\* routeCommissionReport.
LEMMA RouteOK ==
  ASSUME FillsAssumption, limit \in Nat \ {0}, NEW own \in [Execs -> Orders \cup {0}],
         NEW s, SideOK(s, own, limit), NEW x \in Execs, Known(s, own, x),
         NEW v \in Versions, NEW reports \in Seq(Versions), SentAt(s, own, reports, x),
         NEW t \in routeCommissionReport(s, x, v)
  PROVE  SideOK(t, own, limit) /\ Kept(s, t, own, {x}) /\ SentAt(t, own, Heard(s, own, x, reports, v), x)
  <1> DEFINE known == x \in DOMAIN s.table
             u == IF known THEN s ELSE [s EXCEPT !.table = Put(@, x, Entry(0, <<>>, 0))]
             h == Heard(s, own, x, reports, v)
             Good == SideOK(t, own, limit) /\ Kept(s, t, own, {x}) /\ SentAt(t, own, h, x)
  <1>0. Kept(s, s, own, {x})
    BY DEF Kept
  <1>1. CASE OpenIn(s) = {}
    <2>1. t = s
      BY <1>1 DEF routeCommissionReport
    <2>2. h = reports
      BY <1>1 DEF Heard
    <2> HIDE DEF h
    <2> QED BY <1>0, <2>1, <2>2 DEF h
  <1>2. CASE OpenIn(s) # {} /\ ~known /\ x \in DOMAIN s.ring.slot
    <2>1. t = s
      BY <1>2 DEF routeCommissionReport
    <2>2. h = reports
      BY <1>2 DEF Heard
    <2> HIDE DEF h
    <2> QED BY <1>0, <2>1, <2>2 DEF h
  <1>3. CASE OpenIn(s) # {} /\ ~known /\ x \notin DOMAIN s.ring.slot /\ AtLimit(Cardinality(DOMAIN s.table))
    <2>1. t = closeOrdersForCorrelationOverflow(s)
      BY <1>3 DEF routeCommissionReport
    <2>2. SideOK(t, own, limit) /\ OpenIn(t) = {} /\ \A o \in Orders : t.handles[o] = None => s.handles[o] = None
      BY <2>1, OverflowOK
    <2>3. Kept(s, t, own, {x})
      BY <2>2 DEF Kept
    <2> QED BY <2>2, <2>3, SentEnded
  <1>4. CASE OpenIn(s) # {} /\ known /\ s.table[x].owner # 0
    <2>1. t \in deliverCommissions(s, x, <<v>>)
      BY <1>4 DEF routeCommissionReport
    <2>2. AlreadyClaimed(s, x) /\ <<v>> \in Seq(Versions)
      BY <1>4 DEF AlreadyClaimed
    <2>3. /\ SideOK(t, own, limit) /\ Kept(s, t, own, {x})
          /\ \/ /\ t.told[x].reports = Dist!Folded(s.told[x].reports, <<v>>, Versions)
                /\ Held(t, x) = <<>> /\ t.ring = s.ring
             \/ own[x] \notin OpenIn(t)
      BY <2>1, <2>2, DeliverCommissionsOK
    <2>4. /\ own[x] \in OpenIn(s) /\ Held(s, x) = <<>> /\ x \notin DOMAIN s.ring.slot
          /\ s.told[x].reports \in Seq(Versions)
      BY <1>4 DEF SideOK, OwnedOK, Held, SideShape, Tolds
    <2>5. h = Append(reports, v)
      BY <2>4 DEF Heard
    <2>6. Distinct(reports) = s.told[x].reports
      <3>1. Distinct(reports) = s.told[x].reports \o <<>>
        BY <2>4 DEF SentAt
      <3> QED BY <2>4, <3>1
    <2>7. Distinct(h) = AppendNew(s.told[x].reports, v, Versions)
      BY <2>5, <2>6, DistinctAppend
    <2> HIDE DEF h
    <2>8. CASE own[x] \notin OpenIn(t)
      <3>1. SentAt(t, own, h, x)
        BY <2>3, <2>8, SentEnded
      <3> QED BY <2>3, <3>1 DEF h
    <2>9. CASE /\ t.told[x].reports = Dist!Folded(s.told[x].reports, <<v>>, Versions)
               /\ Held(t, x) = <<>> /\ t.ring = s.ring
               /\ own[x] \in OpenIn(t)
      <3>1. t.told[x].reports = AppendNew(s.told[x].reports, v, Versions)
        BY <2>4, <2>9, ToldOne
      <3>2. AppendNew(s.told[x].reports, v, Versions) \in Seq(Versions)
        BY <2>4 DEF AppendNew
      <3>3. t.told[x].reports \o Held(t, x) = t.told[x].reports
        BY <2>9, <3>1, <3>2
      <3>4. t.handles[own[x]] # None
        BY <2>9 DEF OpenIn, None
      <3>5. SentAt(t, own, h, x)
        BY <2>4, <2>7, <2>9, <3>1, <3>3, <3>4 DEF SentAt
      <3> QED BY <2>3, <3>5 DEF h
    <2> QED BY <2>3, <2>8, <2>9
  <1>5. CASE /\ OpenIn(s) # {} /\ ~(known /\ s.table[x].owner # 0)
             /\ known \/ (x \notin DOMAIN s.ring.slot /\ ~AtLimit(Cardinality(DOMAIN s.table)))
    <2> DEFINE p == u.table[x].pending
    <2>1. t \in IF p # <<>> /\ Last(p) = v THEN {u}
                ELSE IF AtLimit(u.fees) THEN {closeOrdersForCorrelationOverflow(u)}
                ELSE {[u EXCEPT !.table[x].pending = Append(@, v), !.fees = @ + 1]}
      BY <1>5 DEF routeCommissionReport
    <2>2. ~AlreadyClaimed(s, x) /\ x \notin DOMAIN s.ring.slot
      BY <1>5 DEF AlreadyClaimed, SideOK
    <2>3. /\ SideOK(u, own, limit) /\ Kept(s, u, own, {x}) /\ ~AlreadyClaimed(u, x)
          /\ u.ring = s.ring /\ OpenIn(u) = OpenIn(s) /\ u.handles = s.handles /\ x \in DOMAIN u.table
          /\ u.told = s.told /\ Held(u, x) = Held(s, x)
      <3>1. CASE known
        <4>1. u = s
          BY <3>1
        <4> HIDE DEF u
        <4> QED BY <1>0, <2>2, <3>1, <4>1
      <3>2. CASE ~known
        <4> DEFINE e == Entry(0, <<>>, 0)
        <4>1. e \in Entries /\ e.owner = 0 /\ e.pending = <<>> /\ Len(e.pending) = 0
          BY DEF Entry, Entries
        <4>2. Held(s, x) = <<>> /\ Len(Held(s, x)) = 0
          BY <3>2 DEF Held
        <4>3. s.fees \in Nat /\ s.fees <= limit
          <5>1. s.fees = PendingOf(Waiting(s.table)) /\ TableShape(s.table) /\ s.fees <= limit
            BY DEF SideOK, CountOK, SideShape
          <5>2. PendingOf(Waiting(s.table)) \in Nat
            BY <5>1, FillsAssumption, TableDrop
          <5> QED BY <5>1, <5>2
        <4>4. s = [handles |-> s.handles, table |-> s.table, fees |-> s.fees, ring |-> s.ring, told |-> s.told]
          BY DEF SideOK, SideShape
        <4>5. u = Waits(s, x, e)
          <5>1. u = [handles |-> s.handles, table |-> Put(s.table, x, e), fees |-> s.fees,
                     ring |-> s.ring, told |-> s.told]
            <6>1. u = [s EXCEPT !.table = Put(@, x, Entry(0, <<>>, 0))]
              BY <3>2
            <6> QED BY <4>4, <6>1, SideExcept, Zenon
          <5>2. Waits(s, x, e) = [handles |-> s.handles, table |-> Put(s.table, x, e),
                                  fees |-> s.fees - 0 + 0, ring |-> s.ring, told |-> s.told]
            <6> HIDE DEF e, u
            <6>1. Waits(s, x, e) = [handles |-> s.handles, table |-> Put(s.table, x, e),
                                    fees |-> s.fees - Len(Held(s, x)) + Len(e.pending),
                                    ring |-> s.ring, told |-> s.told]
              BY <4>4, WaitsIs
            <6> QED BY <4>1, <4>2, <6>1
          <5>3. s.fees - 0 + 0 = s.fees
            BY <4>3
          <5> QED BY <5>1, <5>2, <5>3
        <4>6. x \in DOMAIN s.table \/ ~AtLimit(Cardinality(DOMAIN s.table))
          BY <1>5, <3>2
        <4>7. Room(s, x, e)
          BY <4>1, <4>2, <4>3 DEF Room
        <4> HIDE DEF e, u
        <4>8. WaitsWell(s, u, own, x, e)
          BY <1>5, <2>2, <4>1, <4>5, <4>6, <4>7, WaitsOK
        <4> QED BY <4>1, <4>2, <4>8 DEF WaitsWell
      <3> QED BY <3>1, <3>2
    <2> HIDE DEF u
    <2>4. Known(u, own, x) /\ SentAt(u, own, reports, x)
      BY <2>3 DEF Known, SentAt
    <2>5. Heard(u, own, x, reports, v) = h
      BY <2>3 DEF Heard
    <2>6. Queued(u, x, v, t)
      BY <2>1 DEF Queued
    <2>7. SideOK(t, own, limit) /\ Kept(u, t, own, {x}) /\ SentAt(t, own, Heard(u, own, x, reports, v), x)
      <3>1. OpenIn(u) # {} /\ x \notin DOMAIN u.ring.slot
        BY <1>5, <2>2, <2>3
      <3> HIDE DEF h
      <3> QED BY <2>3, <2>4, <2>6, <3>1, ReportWaits
    <2> HIDE DEF h
    <2> QED BY <2>3, <2>5, <2>7, KeptTwice DEF h
  <1> QED BY <1>1, <1>2, <1>3, <1>4, <1>5

(* The queries.                                                            *)

CollectNext(q, v, x) == Collect(q, x, v)

Collections == INSTANCE QueueTheorems WITH Op <- CollectNext, Holds <- Anything

\* Everything but what the query was given of x stays.
CollectedFrom(q, r, x) ==
    /\ r.open = q.open /\ r.collect = q.collect /\ r.complete = q.complete /\ r.seen = q.seen
    /\ r.entries = q.entries /\ r.pending = q.pending /\ r.executions = q.executions /\ r.heard = q.heard
    /\ \A y \in Execs : y # x => r.given[y] = q.given[y]

\* One report: a replay is dropped, changed content is given.
LEMMA CollectOK ==
  ASSUME NEW q, QueryShape(q), NEW x \in Execs, NEW v \in Versions
  PROVE  LET r == Collect(q, x, v)
         IN  /\ QueryShape(r) /\ CollectedFrom(q, r, x)
             /\ r.given[x] = AppendNew(q.given[x], v, Versions)
  <1> DEFINE r == Collect(q, x, v)
             g == [q.given EXCEPT ![x] = Append(@, v)]
  <1>1. CASE q.given[x] # <<>> /\ Last(q.given[x]) = v
    <2>1. r = q
      BY <1>1 DEF Collect
    <2> HIDE DEF r
    <2>2. CollectedFrom(q, r, x) /\ r.given[x] = AppendNew(q.given[x], v, Versions)
      BY <1>1, <2>1 DEF CollectedFrom, AppendNew
    <2> QED BY <2>1, <2>2 DEF r
  <1>2. CASE ~(q.given[x] # <<>> /\ Last(q.given[x]) = v)
    <2>1. q = [open |-> q.open, collect |-> q.collect, complete |-> q.complete, seen |-> q.seen,
               entries |-> q.entries, pending |-> q.pending, executions |-> q.executions,
               reports |-> q.reports, heard |-> q.heard, given |-> q.given]
          /\ q.given \in [Execs -> Seq(Versions)] /\ q.reports \in Nat
      BY DEF QueryShape
    <2>2. r = [q EXCEPT !.given[x] = Append(@, v), !.reports = @ + 1]
      BY <1>2 DEF Collect
    <2>3. r = [open |-> q.open, collect |-> q.collect, complete |-> q.complete, seen |-> q.seen,
               entries |-> q.entries, pending |-> q.pending, executions |-> q.executions,
               reports |-> q.reports + 1, heard |-> q.heard, given |-> g]
      BY <2>1, <2>2
    <2>4. Append(q.given[x], v) \in Seq(Versions)
      BY <2>1
    <2>5. g \in [Execs -> Seq(Versions)] /\ g[x] = Append(q.given[x], v)
          /\ \A y \in Execs : y # x => g[y] = q.given[y]
      BY <2>1, <2>4
    <2> HIDE DEF r, g
    <2>6. /\ r.open = q.open /\ r.collect = q.collect /\ r.complete = q.complete /\ r.seen = q.seen
          /\ r.entries = q.entries /\ r.pending = q.pending /\ r.executions = q.executions
          /\ r.heard = q.heard /\ r.given = g /\ r.reports = q.reports + 1
      BY <2>3
    <2>7. QueryShape(r)
      BY <2>1, <2>3, <2>5, <2>6 DEF QueryShape
    <2>8. CollectedFrom(q, r, x)
      BY <2>5, <2>6 DEF CollectedFrom
    <2>9. r.given[x] = AppendNew(q.given[x], v, Versions)
      BY <1>2, <2>5, <2>6 DEF AppendNew
    <2> QED BY <2>7, <2>8, <2>9 DEF r
  <1> QED BY <1>1, <1>2

\* A queue of reports: what is given is the queue without repetitions.
LEMMA CollectAll ==
  ASSUME NEW q, QueryShape(q), NEW x \in Execs, NEW p \in Seq(Versions)
  PROVE  LET r == Collections!Folded(q, p, x)
         IN  /\ QueryShape(r) /\ CollectedFrom(q, r, x)
             /\ r.given[x] = Dist!Folded(q.given[x], p, Versions)
  <1> DEFINE g == q.given[x]
  <1>1. PICK run : Collections!IsRun(run, q, p, x) /\ Collections!Folded(q, p, x) = run[Len(p)]
    BY Collections!FoldLeftRuns
  <1>2. PICK given : Dist!IsRun(given, g, p, Versions) /\ Dist!Folded(g, p, Versions) = given[Len(p)]
    BY Dist!FoldLeftRuns
  <1> DEFINE Good(i) == /\ QueryShape(run[i]) /\ CollectedFrom(q, run[i], x)
                        /\ run[i].given[x] = given[i]
             T == {i \in Nat : i <= Len(p) => Good(i)}
  <1>3. Len(p) \in Nat
    OBVIOUS
  <1>4. 0 \in T
    <2>1. run[0] = q /\ given[0] = g
      BY <1>1, <1>2 DEF Collections!IsRun, Dist!IsRun
    <2>2. CollectedFrom(q, q, x)
      BY DEF CollectedFrom
    <2>3. Good(0)
      BY <2>1, <2>2
    <2> HIDE DEF Good
    <2> QED BY <2>3
  <1>5. ASSUME NEW i \in T PROVE i + 1 \in T
    <2>1. i \in Nat /\ (i + 1) - 1 = i
      OBVIOUS
    <2>a. i <= Len(p) => Good(i)
      OBVIOUS
    <2> SUFFICES ASSUME i + 1 <= Len(p) PROVE Good(i + 1)
      <3> HIDE DEF Good
      <3> QED BY <2>1
    <2>2. i <= Len(p) /\ i + 1 \in 1 .. Len(p) /\ p[i + 1] \in Versions
      BY <1>3, <2>1
    <2>3. Good(i)
      <3> HIDE DEF Good
      <3> QED BY <2>2, <2>a
    <2> DEFINE t == run[i]
               v == p[i + 1]
               u == Collect(t, x, v)
    <2>4. run[i + 1] = u
      BY <1>1, <2>1, <2>2 DEF Collections!IsRun, CollectNext
    <2>5. given[i + 1] = AppendNew(given[i], v, Versions)
      BY <1>2, <2>1, <2>2 DEF Dist!IsRun
    <2>6. QueryShape(t) /\ v \in Versions
      BY <2>2, <2>3
    <2>7. /\ QueryShape(u) /\ CollectedFrom(t, u, x)
          /\ u.given[x] = AppendNew(t.given[x], v, Versions)
      <3> HIDE DEF t, v
      <3> QED BY <2>6, CollectOK
    <2>8. CollectedFrom(q, t, x) /\ t.given[x] = given[i]
      BY <2>3
    <2> HIDE DEF t, v, u
    <2>9. CollectedFrom(q, u, x)
      BY <2>7, <2>8 DEF CollectedFrom
    <2> QED BY <2>4, <2>5, <2>7, <2>8, <2>9
  <1> HIDE DEF Good
  <1>6. Len(p) \in T
    BY <1>3, <1>4, <1>5, Collections!InductiveSet DEF T
  <1>7. Good(Len(p))
    BY <1>3, <1>6 DEF T
  <1> QED BY <1>1, <1>2, <1>7 DEF Good

\* EmitFees gives everything, or ends the query.
LEMMA EmitOutcomes ==
  ASSUME NEW q, NEW x, NEW p, NEW r \in EmitFees(q, x, p)
  PROVE  r = Terminated \/ r = Collections!Folded(q, p, x)
  <1>1. r = Terminated \/ r = FoldLeft(LAMBDA t, v : Collect(t, x, v), q, p)
    BY DEF EmitFees
  <1>2. FoldLeft(LAMBDA t, v : Collect(t, x, v), q, p) = Collections!Folded(q, p, x)
    BY Zenon DEF Collections!Folded, CollectNext, FoldLeft, Collections!FoldLeft,
                 MapThenFoldSet, Collections!MapThenFoldSet, Max, Collections!Max
  <1> QED BY <1>1, <1>2

\* A query before its first execution.
Fresh(open, collect) ==
    [open |-> open, collect |-> collect, complete |-> FALSE, seen |-> {}, entries |-> <<>>,
     pending |-> 0, executions |-> 0, reports |-> 0,
     heard |-> [x \in Execs |-> <<>>], given |-> [x \in Execs |-> <<>>]]

\* A query that starts, or has ended, is correct.
LEMMA FreshQueryOK ==
  ASSUME limit \in Nat \ {0}, NEW open \in BOOLEAN, NEW collect \in BOOLEAN
  PROVE  QueryOK(Fresh(open, collect), limit)
  <1> DEFINE q == Fresh(open, collect)
             none == [x \in Execs |-> <<>>]
  <1>1. /\ q.open = open /\ q.collect = collect /\ q.complete = FALSE /\ q.seen = {} /\ q.entries = <<>>
        /\ q.pending = 0 /\ q.executions = 0 /\ q.reports = 0 /\ q.heard = none /\ q.given = none
    BY DEF Fresh
  <1>a. q = [open |-> q.open, collect |-> q.collect, complete |-> q.complete, seen |-> q.seen,
             entries |-> q.entries, pending |-> q.pending, executions |-> q.executions,
             reports |-> q.reports, heard |-> q.heard, given |-> q.given]
    BY DEF Fresh
  <1>2. <<>> \in Seq(Versions) /\ DOMAIN <<>> = {} /\ <<>> \in [{} -> Seq(Versions)]
    OBVIOUS
  <1>3. none \in [Execs -> Seq(Versions)] /\ \A x \in Execs : none[x] = <<>>
    BY <1>2
  <1> HIDE DEF none, q
  <1>4. PendingOf(<<>>) = 0
    BY <1>2, PendingIs, SumEmpty
  <1>5. QueryShape(q)
    <2>1. DOMAIN q.entries = {} /\ q.entries \in [DOMAIN q.entries -> Seq(Versions)]
      BY <1>1, <1>2, Zenon
    <2>2. q.seen \subseteq DOMAIN q.entries /\ DOMAIN q.entries \subseteq Execs
      BY <1>1, <2>1
    <2>3. q.open \in BOOLEAN /\ q.collect \in BOOLEAN /\ q.complete \in BOOLEAN
      BY <1>1, Zenon
    <2>4. q.executions \in Nat /\ q.reports \in Nat
      <3>1. q.executions = 0 /\ q.reports = 0
        BY <1>1, Zenon
      <3> QED BY <3>1
    <2> QED BY <1>1, <1>a, <1>3, <2>1, <2>2, <2>3, <2>4 DEF QueryShape
  <1>6. \A x \in Execs : Held1(q, x) = <<>> /\ q.given[x] = <<>> /\ Distinct(q.heard[x]) = <<>>
    BY <1>1, <1>2, <1>3, DistinctEmpty DEF Held1
  <1>7. q.pending = PendingOf(q.entries) /\ q.pending <= limit
    BY <1>1, <1>4
  <1> QED BY <1>1, <1>5, <1>6, <1>7 DEF QueryOK, q

\* A query with another flag.
LEMMA FreshExcept ==
  ASSUME NEW open, NEW collect, NEW v
  PROVE  /\ [Fresh(open, collect) EXCEPT !.open = v] = Fresh(v, collect)
         /\ [Fresh(open, collect) EXCEPT !.collect = v] = Fresh(open, v)
  <1> DEFINE none == [x \in Execs |-> <<>>]
             empty == <<>>
             no == FALSE
             nobody == {}
             zero == 0
  <1>1. \A a, b : Fresh(a, b) =
          [open |-> a, collect |-> b, complete |-> no, seen |-> nobody, entries |-> empty,
           pending |-> zero, executions |-> zero, reports |-> zero, heard |-> none, given |-> none]
    BY Zenon DEF Fresh
  <1> HIDE DEF none, empty, no, nobody, zero
  <1>2. [Fresh(open, collect) EXCEPT !.open = v] = Fresh(v, collect)
    <2> DEFINE f == Fresh(open, collect)
               h == Fresh(v, collect)
    <2>1. f = [open |-> open, collect |-> collect, complete |-> no, seen |-> nobody, entries |-> empty,
               pending |-> zero, executions |-> zero, reports |-> zero, heard |-> none, given |-> none]
      BY <1>1
    <2>2. h = [open |-> v, collect |-> collect, complete |-> no, seen |-> nobody, entries |-> empty,
               pending |-> zero, executions |-> zero, reports |-> zero, heard |-> none, given |-> none]
      BY <1>1
    <2> HIDE DEF f, h
    <2>3. [f EXCEPT !.open = v] = h
      BY <2>1, <2>2
    <2> QED BY <2>3 DEF f, h
  <1>3. [Fresh(open, collect) EXCEPT !.collect = v] = Fresh(open, v)
    <2> DEFINE f == Fresh(open, collect)
               h == Fresh(open, v)
    <2>1. f = [open |-> open, collect |-> collect, complete |-> no, seen |-> nobody, entries |-> empty,
               pending |-> zero, executions |-> zero, reports |-> zero, heard |-> none, given |-> none]
      BY <1>1
    <2>2. h = [open |-> open, collect |-> v, complete |-> no, seen |-> nobody, entries |-> empty,
               pending |-> zero, executions |-> zero, reports |-> zero, heard |-> none, given |-> none]
      BY <1>1
    <2> HIDE DEF f, h
    <2>3. [f EXCEPT !.collect = v] = h
      BY <2>1, <2>2
    <2> QED BY <2>3 DEF f, h
  <1> QED BY <1>2, <1>3

\* The queries that start, and those that end.
LEMMA QueriesStart ==
  /\ ClosedQuery = Fresh(FALSE, FALSE) /\ Terminated = Fresh(FALSE, FALSE)
  /\ \A collect \in BOOLEAN : [ClosedQuery EXCEPT !.open = TRUE, !.collect = collect] = Fresh(TRUE, collect)
  <1>1. ClosedQuery = Fresh(FALSE, FALSE)
    BY Zenon DEF ClosedQuery, Fresh
  <1> DEFINE yes == TRUE
             no == FALSE
  <1>2. Terminated = [Fresh(no, no) EXCEPT !.open = no]
    BY <1>1, Zenon DEF Terminated
  <1>3. \A collect : [ClosedQuery EXCEPT !.open = TRUE, !.collect = collect] =
                       [Fresh(no, no) EXCEPT !.open = yes, !.collect = collect]
    BY <1>1, Zenon
  <1>4. ClosedQuery = Fresh(no, no)
    BY <1>1
  <1> HIDE DEF yes, no
  <1>5. Terminated = Fresh(no, no)
    BY <1>2, FreshExcept
  <1>6. \A collect : [Fresh(no, no) EXCEPT !.open = yes, !.collect = collect] = Fresh(yes, collect)
    <2> TAKE collect
    <2> DEFINE f == Fresh(no, no)
    <2>1. [f EXCEPT !.open = yes] = Fresh(yes, no)
      BY FreshExcept
    <2>2. [Fresh(yes, no) EXCEPT !.collect = collect] = Fresh(yes, collect)
      BY FreshExcept
    <2>3. [f EXCEPT !.open = yes, !.collect = collect] = [[f EXCEPT !.open = yes] EXCEPT !.collect = collect]
      OBVIOUS
    <2> HIDE DEF f
    <2> QED BY <2>1, <2>2, <2>3, Zenon DEF f
  <1>7. \A collect : [ClosedQuery EXCEPT !.open = TRUE, !.collect = collect] = Fresh(yes, collect)
    BY <1>3, <1>6, Zenon
  <1> QED BY <1>4, <1>5, <1>7, Zenon DEF yes, no

\* A query with other records of executions and reports.
Changed(q, complete, seen, entries, pending, executions, heard) ==
    [open |-> q.open, collect |-> q.collect, complete |-> complete, seen |-> seen, entries |-> entries,
     pending |-> pending, executions |-> executions, reports |-> q.reports, heard |-> heard, given |-> q.given]

Whole(q) ==
    q = [open |-> q.open, collect |-> q.collect, complete |-> q.complete, seen |-> q.seen,
         entries |-> q.entries, pending |-> q.pending, executions |-> q.executions,
         reports |-> q.reports, heard |-> q.heard, given |-> q.given]

\* The fields of a changed query.
LEMMA ChangedFields ==
  ASSUME NEW q, NEW complete, NEW seen, NEW entries, NEW pending, NEW executions, NEW heard
  PROVE  LET r == Changed(q, complete, seen, entries, pending, executions, heard)
         IN  /\ Whole(r)
             /\ r.open = q.open /\ r.collect = q.collect /\ r.complete = complete /\ r.seen = seen
             /\ r.entries = entries /\ r.pending = pending /\ r.executions = executions
             /\ r.reports = q.reports /\ r.heard = heard /\ r.given = q.given
  BY DEF Changed, Whole

\* EXCEPT on one field of a query.
LEMMA ChangedOne ==
  ASSUME NEW q, Whole(q), NEW a
  PROVE  /\ [q EXCEPT !.complete = a] = Changed(q, a, q.seen, q.entries, q.pending, q.executions, q.heard)
         /\ [q EXCEPT !.seen = a] = Changed(q, q.complete, a, q.entries, q.pending, q.executions, q.heard)
         /\ [q EXCEPT !.entries = a] = Changed(q, q.complete, q.seen, a, q.pending, q.executions, q.heard)
         /\ [q EXCEPT !.pending = a] = Changed(q, q.complete, q.seen, q.entries, a, q.executions, q.heard)
         /\ [q EXCEPT !.executions = a] = Changed(q, q.complete, q.seen, q.entries, q.pending, a, q.heard)
         /\ [q EXCEPT !.heard = a] = Changed(q, q.complete, q.seen, q.entries, q.pending, q.executions, a)
  <1>1. [q EXCEPT !.complete = a] = Changed(q, a, q.seen, q.entries, q.pending, q.executions, q.heard)
    BY DEF Whole, Changed
  <1>2. [q EXCEPT !.seen = a] = Changed(q, q.complete, a, q.entries, q.pending, q.executions, q.heard)
    BY DEF Whole, Changed
  <1>3. [q EXCEPT !.entries = a] = Changed(q, q.complete, q.seen, a, q.pending, q.executions, q.heard)
    BY DEF Whole, Changed
  <1>4. [q EXCEPT !.pending = a] = Changed(q, q.complete, q.seen, q.entries, a, q.executions, q.heard)
    BY DEF Whole, Changed
  <1>5. [q EXCEPT !.executions = a] = Changed(q, q.complete, q.seen, q.entries, q.pending, a, q.heard)
    BY DEF Whole, Changed
  <1>6. [q EXCEPT !.heard = a] = Changed(q, q.complete, q.seen, q.entries, q.pending, q.executions, a)
    BY DEF Whole, Changed
  <1> QED BY <1>1, <1>2, <1>3, <1>4, <1>5, <1>6

\* EXCEPT on the fields that a handler changes together.
LEMMA ChangedExcept ==
  ASSUME NEW q, Whole(q), NEW a, NEW b, NEW c
  PROVE  /\ [q EXCEPT !.entries = a, !.pending = b] = Changed(q, q.complete, q.seen, a, b, q.executions, q.heard)
         /\ [q EXCEPT !.seen = a, !.executions = b] = Changed(q, q.complete, a, q.entries, q.pending, b, q.heard)
         /\ [q EXCEPT !.complete = a, !.entries = b, !.pending = c] = Changed(q, a, q.seen, b, c, q.executions, q.heard)
  <1>1. [q EXCEPT !.entries = a, !.pending = b] = Changed(q, q.complete, q.seen, a, b, q.executions, q.heard)
    <2> DEFINE f1 == [q EXCEPT !.entries = a]
               f2 == [f1 EXCEPT !.pending = b]
    <2>0. [q EXCEPT !.entries = a, !.pending = b] = f2
      OBVIOUS
    <2>1. f1 = Changed(q, q.complete, q.seen, a, q.pending, q.executions, q.heard)
      BY ChangedOne
    <2> HIDE DEF f1
    <2>2. /\ Whole(f1) /\ f1.open = q.open /\ f1.collect = q.collect /\ f1.reports = q.reports /\ f1.given = q.given
          /\ f1.complete = q.complete /\ f1.seen = q.seen /\ f1.entries = a /\ f1.pending = q.pending /\ f1.executions = q.executions /\ f1.heard = q.heard
      BY <2>1, ChangedFields
    <2>3. f2 = Changed(f1, f1.complete, f1.seen, f1.entries, b, f1.executions, f1.heard)
      BY <2>2, ChangedOne
    <2> HIDE DEF f2
    <2>4. f2 = Changed(q, q.complete, q.seen, a, b, q.executions, q.heard)
      BY <2>2, <2>3 DEF Changed
    <2> QED BY <2>0, <2>4
  <1>2. [q EXCEPT !.seen = a, !.executions = b] = Changed(q, q.complete, a, q.entries, q.pending, b, q.heard)
    <2> DEFINE f1 == [q EXCEPT !.seen = a]
               f2 == [f1 EXCEPT !.executions = b]
    <2>0. [q EXCEPT !.seen = a, !.executions = b] = f2
      OBVIOUS
    <2>1. f1 = Changed(q, q.complete, a, q.entries, q.pending, q.executions, q.heard)
      BY ChangedOne
    <2> HIDE DEF f1
    <2>2. /\ Whole(f1) /\ f1.open = q.open /\ f1.collect = q.collect /\ f1.reports = q.reports /\ f1.given = q.given
          /\ f1.complete = q.complete /\ f1.seen = a /\ f1.entries = q.entries /\ f1.pending = q.pending /\ f1.executions = q.executions /\ f1.heard = q.heard
      BY <2>1, ChangedFields
    <2>3. f2 = Changed(f1, f1.complete, f1.seen, f1.entries, f1.pending, b, f1.heard)
      BY <2>2, ChangedOne
    <2> HIDE DEF f2
    <2>4. f2 = Changed(q, q.complete, a, q.entries, q.pending, b, q.heard)
      BY <2>2, <2>3 DEF Changed
    <2> QED BY <2>0, <2>4
  <1>3. [q EXCEPT !.complete = a, !.entries = b, !.pending = c] = Changed(q, a, q.seen, b, c, q.executions, q.heard)
    <2> DEFINE f1 == [q EXCEPT !.complete = a]
               f2 == [f1 EXCEPT !.entries = b]
               f3 == [f2 EXCEPT !.pending = c]
    <2>0. [q EXCEPT !.complete = a, !.entries = b, !.pending = c] = f3
      OBVIOUS
    <2>1. f1 = Changed(q, a, q.seen, q.entries, q.pending, q.executions, q.heard)
      BY ChangedOne
    <2> HIDE DEF f1
    <2>2. /\ Whole(f1) /\ f1.open = q.open /\ f1.collect = q.collect /\ f1.reports = q.reports /\ f1.given = q.given
          /\ f1.complete = a /\ f1.seen = q.seen /\ f1.entries = q.entries /\ f1.pending = q.pending /\ f1.executions = q.executions /\ f1.heard = q.heard
      BY <2>1, ChangedFields
    <2>3. f2 = Changed(f1, f1.complete, f1.seen, b, f1.pending, f1.executions, f1.heard)
      BY <2>2, ChangedOne
    <2> HIDE DEF f2
    <2>4. f2 = Changed(q, a, q.seen, b, q.pending, q.executions, q.heard)
      BY <2>2, <2>3 DEF Changed
    <2>5. /\ Whole(f2) /\ f2.open = q.open /\ f2.collect = q.collect /\ f2.reports = q.reports /\ f2.given = q.given
          /\ f2.complete = a /\ f2.seen = q.seen /\ f2.entries = b /\ f2.pending = q.pending /\ f2.executions = q.executions /\ f2.heard = q.heard
      BY <2>4, ChangedFields
    <2>6. f3 = Changed(f2, f2.complete, f2.seen, f2.entries, c, f2.executions, f2.heard)
      BY <2>5, ChangedOne
    <2> HIDE DEF f3
    <2>7. f3 = Changed(q, a, q.seen, b, c, q.executions, q.heard)
      BY <2>5, <2>6 DEF Changed
    <2> QED BY <2>0, <2>7
  <1> QED BY <1>1, <1>2, <1>3

\* A query correct but for what it was given of x.
QueryBut(q, lim, x) ==
    /\ QueryShape(q)
    /\ q.pending = PendingOf(q.entries) /\ q.pending <= lim
    /\ \A y \in q.seen : q.entries[y] = <<>> /\ (y # x => q.given[y] = Distinct(q.heard[y]))
    /\ \A y \in Execs \ q.seen :
         /\ q.given[y] = <<>>
         /\ ~q.complete => Held1(q, y) = Distinct(q.heard[y])
    /\ q.complete => DOMAIN q.entries = q.seen

\* Emitting makes it correct, or ends the query.
LEMMA EmitOK ==
  ASSUME limit \in Nat \ {0}, NEW q, NEW x \in Execs, QueryBut(q, limit, x), x \in q.seen,
         NEW p \in Seq(Versions), Distinct(q.heard[x]) = Dist!Folded(q.given[x], p, Versions),
         NEW r \in EmitFees(q, x, p)
  PROVE  QueryOK(r, limit)
  <1>1. CASE r = Terminated
    BY <1>1, FreshQueryOK, QueriesStart
  <1>2. CASE r = Collections!Folded(q, p, x)
    <2>1. QueryShape(q)
      BY DEF QueryBut
    <2>2. /\ QueryShape(r) /\ CollectedFrom(q, r, x)
          /\ r.given[x] = Dist!Folded(q.given[x], p, Versions)
      BY <1>2, <2>1, CollectAll
    <2>3. r.given[x] = Distinct(r.heard[x])
      BY <2>2 DEF CollectedFrom
    <2>4. \A y : Held1(r, y) = Held1(q, y)
      BY <2>2 DEF CollectedFrom, Held1
    <2>5. r.seen \subseteq Execs
      BY <2>2 DEF QueryShape
    <2>6. r.pending = PendingOf(r.entries) /\ r.pending <= limit
      BY <2>2 DEF QueryBut, CollectedFrom
    <2>7. \A y \in r.seen : r.entries[y] = <<>> /\ r.given[y] = Distinct(r.heard[y])
      BY <2>2, <2>3, <2>5 DEF QueryBut, CollectedFrom
    <2>8. \A y \in Execs \ r.seen :
            /\ r.given[y] = <<>>
            /\ ~r.complete => Held1(r, y) = Distinct(r.heard[y])
      BY <2>2, <2>4 DEF QueryBut, CollectedFrom
    <2>9. r.complete => DOMAIN r.entries = r.seen
      BY <2>2 DEF QueryBut, CollectedFrom
    <2> QED BY <2>2, <2>6, <2>7, <2>8, <2>9 DEF QueryOK
  <1> QED BY <1>1, <1>2, EmitOutcomes

\* A query that has ended is correct.
LEMMA TerminatedOK == ASSUME limit \in Nat \ {0} PROVE QueryOK(Terminated, limit)
  BY FreshQueryOK, QueriesStart

\* The waiting reports of a query, entered or taken.
LEMMA EntriesPut ==
  ASSUME IsFiniteSet(Execs), NEW f, DOMAIN f \subseteq Execs, f \in [DOMAIN f -> Seq(Versions)],
         NEW x \in Execs, NEW p \in Seq(Versions)
  PROVE  LET g == Put(f, x, p)
         IN  /\ g \in [DOMAIN g -> Seq(Versions)] /\ DOMAIN g = DOMAIN f \cup {x} /\ DOMAIN g \subseteq Execs
             /\ g[x] = p /\ \A y \in DOMAIN f : y # x => g[y] = f[y]
             /\ PendingOf(g) = PendingOf(f) - LengthAt(f, x) + Len(p)
             /\ PendingOf(f) \in Nat /\ LengthAt(f, x) \in Nat /\ LengthAt(f, x) <= PendingOf(f)
  <1> DEFINE g == Put(f, x, p)
  <1>1. DOMAIN g = DOMAIN f \cup {x} /\ g[x] = p /\ \A y \in DOMAIN f : y # x => g[y] = f[y]
    BY DEF Put
  <1>2. g \in [DOMAIN g -> Seq(Versions)]
    <2>1. g = [y \in DOMAIN g |-> g[y]]
      BY DEF Put
    <2>2. \A y \in DOMAIN g : g[y] \in Seq(Versions)
      BY <1>1
    <2> HIDE DEF g
    <2> QED BY <2>1, <2>2
  <1>3. IsFiniteSet(DOMAIN f)
    BY FS_Subset
  <1>4. Lengths(f) /\ Len(p) \in Nat
    BY DEF Lengths
  <1>5. /\ PendingOf(g) = PendingOf(f) - LengthAt(f, x) + Len(p)
        /\ PendingOf(f) - LengthAt(f, x) \in Nat
    BY <1>3, <1>4, PendingPut
  <1>6. PendingOf(f) \in Nat /\ LengthAt(f, x) \in Nat
    BY <1>3, <1>4, PendingDropOne
  <1> HIDE DEF g
  <1> QED BY <1>1, <1>2, <1>5, <1>6 DEF g

\* One report more of x.
LEMMA HeardMore ==
  ASSUME NEW q, QueryShape(q), NEW x \in Execs, NEW v \in Versions
  PROVE  LET h == [q.heard EXCEPT ![x] = Append(@, v)]
         IN  /\ h \in [Execs -> Seq(Versions)]
             /\ Distinct(h[x]) = AppendNew(Distinct(q.heard[x]), v, Versions)
             /\ \A y \in Execs : y # x => h[y] = q.heard[y]
             /\ [q EXCEPT !.heard[x] = Append(@, v)] =
                  Changed(q, q.complete, q.seen, q.entries, q.pending, q.executions, h)
  <1> DEFINE h == [q.heard EXCEPT ![x] = Append(@, v)]
  <1>1. Whole(q) /\ q.heard \in [Execs -> Seq(Versions)]
    BY DEF QueryShape, Whole
  <1>2. Append(q.heard[x], v) \in Seq(Versions)
    BY <1>1
  <1>3. h \in [Execs -> Seq(Versions)] /\ h[x] = Append(q.heard[x], v)
        /\ \A y \in Execs : y # x => h[y] = q.heard[y]
    BY <1>1, <1>2
  <1>4. [q EXCEPT !.heard[x] = Append(@, v)] = [q EXCEPT !.heard = h]
    OBVIOUS
  <1> HIDE DEF h
  <1>5. [q EXCEPT !.heard = h] = Changed(q, q.complete, q.seen, q.entries, q.pending, q.executions, h)
    BY <1>1, ChangedOne
  <1>6. Distinct(h[x]) = AppendNew(Distinct(q.heard[x]), v, Versions)
    BY <1>1, <1>3, DistinctAppend
  <1> QED BY <1>3, <1>4, <1>5, <1>6 DEF h

\* Changed records are well formed when their parts are.
LEMMA ChangedShape ==
  ASSUME NEW q, QueryShape(q), NEW complete \in BOOLEAN, NEW seen, NEW entries, NEW pending,
         NEW executions \in Nat, NEW heard \in [Execs -> Seq(Versions)],
         seen \subseteq DOMAIN entries, DOMAIN entries \subseteq Execs,
         entries \in [DOMAIN entries -> Seq(Versions)]
  PROVE  QueryShape(Changed(q, complete, seen, entries, pending, executions, heard))
  <1> DEFINE r == Changed(q, complete, seen, entries, pending, executions, heard)
  <1>1. /\ Whole(r)
        /\ r.open = q.open /\ r.collect = q.collect /\ r.complete = complete /\ r.seen = seen
        /\ r.entries = entries /\ r.pending = pending /\ r.executions = executions
        /\ r.reports = q.reports /\ r.heard = heard /\ r.given = q.given
    BY ChangedFields
  <1> HIDE DEF r
  <1>2. r.open \in BOOLEAN /\ r.collect \in BOOLEAN /\ r.complete \in BOOLEAN
    BY <1>1, Zenon DEF QueryShape
  <1>3. r.given \in [Execs -> Seq(Versions)] /\ r.reports \in Nat /\ r.executions \in Nat
        /\ r.heard \in [Execs -> Seq(Versions)]
    BY <1>1 DEF QueryShape
  <1>4. r.seen \subseteq DOMAIN r.entries /\ DOMAIN r.entries \subseteq Execs
        /\ r.entries \in [DOMAIN r.entries -> Seq(Versions)]
    BY <1>1
  <1>5. r = [open |-> r.open, collect |-> r.collect, complete |-> r.complete, seen |-> r.seen,
             entries |-> r.entries, pending |-> r.pending, executions |-> r.executions,
             reports |-> r.reports, heard |-> r.heard, given |-> r.given]
    BY <1>1 DEF Whole
  <1>6. QueryShape(r)
    BY <1>2, <1>3, <1>4, <1>5 DEF QueryShape
  <1> QED BY <1>6 DEF r

\* ownedRoute.handleCommission keeps the query correct.
LEMMA QueryReportOK ==
  ASSUME FillsAssumption, limit \in Nat \ {0}, NEW q, QueryOK(q, limit), NEW x \in Execs, NEW v \in Versions,
         NEW t \in QueryReport(q, x, v)
  PROVE  QueryOK(t, limit)
  <1> DEFINE p == Held1(q, x)
             h == [q.heard EXCEPT ![x] = Append(@, v)]
             r == [q EXCEPT !.heard[x] = Append(@, v)]
             e == Put(q.entries, x, Append(p, v))
             u == [r EXCEPT !.entries = e, !.pending = q.pending + 1]
  <1>1. \/ t = q \/ t = Terminated
        \/ q.open /\ QueryKnows(q, x) /\ x \in q.seen /\ t \in EmitFees(r, x, <<v>>)
        \/ ~(~QueryKnows(q, x) /\ q.complete) /\ ~(QueryKnows(q, x) /\ x \in q.seen)
           /\ \/ p # <<>> /\ Last(p) = v /\ t = r
              \/ ~(p # <<>> /\ Last(p) = v) /\ ~AtLimit(q.pending) /\ t = u
    <2> DEFINE w == [r EXCEPT !.entries = Put(@, x, Append(p, v)), !.pending = @ + 1]
    <2>1. \/ t = q \/ t = Terminated
          \/ q.open /\ QueryKnows(q, x) /\ x \in q.seen /\ t \in EmitFees(r, x, <<v>>)
          \/ ~(~QueryKnows(q, x) /\ q.complete) /\ ~(QueryKnows(q, x) /\ x \in q.seen)
             /\ \/ p # <<>> /\ Last(p) = v /\ t = r
                \/ ~(p # <<>> /\ Last(p) = v) /\ ~AtLimit(q.pending) /\ t = w
      BY Zenon DEF QueryReport, Held1, QueryKnows
    <2>2. w = u
      OBVIOUS
    <2> QED BY <2>1, <2>2
  <1>2. /\ QueryShape(q) /\ Whole(q) /\ q.pending = PendingOf(q.entries) /\ q.pending <= limit
        /\ q.seen \subseteq DOMAIN q.entries /\ DOMAIN q.entries \subseteq Execs
        /\ q.entries \in [DOMAIN q.entries -> Seq(Versions)] /\ q.executions \in Nat
        /\ q.complete \in BOOLEAN
        /\ q.complete => DOMAIN q.entries = q.seen
        /\ \A y \in q.seen : q.entries[y] = <<>> /\ q.given[y] = Distinct(q.heard[y])
        /\ \A y \in Execs \ q.seen :
             /\ q.given[y] = <<>>
             /\ ~q.complete => Held1(q, y) = Distinct(q.heard[y])
    BY DEF QueryOK, QueryShape, Whole
  <1>a. QueryShape(q)
    BY <1>2
  <1>3. /\ h \in [Execs -> Seq(Versions)]
        /\ Distinct(h[x]) = AppendNew(Distinct(q.heard[x]), v, Versions)
        /\ \A y \in Execs : y # x => h[y] = q.heard[y]
        /\ r = Changed(q, q.complete, q.seen, q.entries, q.pending, q.executions, h)
    BY <1>a, HeardMore
  <1> HIDE DEF h, r
  <1>4. /\ Whole(r) /\ r.open = q.open /\ r.collect = q.collect /\ r.complete = q.complete /\ r.seen = q.seen
        /\ r.entries = q.entries /\ r.pending = q.pending /\ r.executions = q.executions
        /\ r.reports = q.reports /\ r.heard = h /\ r.given = q.given
    BY <1>3, ChangedFields
  <1>5. QueryShape(r)
    BY <1>2, <1>3, ChangedShape
  <1>6. \A y : Held1(r, y) = Held1(q, y)
    BY <1>4 DEF Held1
  <1>7. CASE q.open /\ QueryKnows(q, x) /\ x \in q.seen /\ t \in EmitFees(r, x, <<v>>)
    <2>a. ASSUME NEW y \in q.seen
          PROVE  q.entries[y] = <<>> /\ (y # x => q.given[y] = Distinct(h[y]))
      <3>1. y \in Execs /\ q.entries[y] = <<>> /\ q.given[y] = Distinct(q.heard[y])
        BY <1>2
      <3>2. y # x => h[y] = q.heard[y]
        BY <1>3, <3>1
      <3> QED BY <3>1, <3>2
    <2>1. \A y \in r.seen : r.entries[y] = <<>> /\ (y # x => r.given[y] = Distinct(r.heard[y]))
      BY <1>4, <2>a
    <2>2. \A y \in Execs \ r.seen :
            /\ r.given[y] = <<>>
            /\ ~r.complete => Held1(r, y) = Distinct(r.heard[y])
      BY <1>2, <1>3, <1>4, <1>6, <1>7, SMTT(20)
    <2>3. QueryBut(r, limit, x)
      BY <1>2, <1>4, <1>5, <2>1, <2>2 DEF QueryBut
    <2>4. r.given[x] = Distinct(q.heard[x]) /\ r.given[x] \in Seq(Versions)
      BY <1>2, <1>4, <1>5, <1>7 DEF QueryShape
    <2>5. Distinct(r.heard[x]) = Dist!Folded(r.given[x], <<v>>, Versions)
      BY <1>3, <1>4, <2>4, ToldOne
    <2>6. x \in r.seen /\ <<v>> \in Seq(Versions)
      BY <1>4, <1>7
    <2> QED BY <1>7, <2>3, <2>5, <2>6, EmitOK
  <1>8. CASE ~(~QueryKnows(q, x) /\ q.complete) /\ ~(QueryKnows(q, x) /\ x \in q.seen)
             /\ \/ p # <<>> /\ Last(p) = v /\ t = r
                \/ ~(p # <<>> /\ Last(p) = v) /\ ~AtLimit(q.pending) /\ t = u
    <2>1. x \notin q.seen /\ ~q.complete
      BY <1>2, <1>8 DEF QueryKnows
    <2>2. p = Distinct(q.heard[x]) /\ p \in Seq(Versions)
      BY <1>2, <2>1 DEF Held1
    <2> HIDE DEF p
    <2>3. CASE p # <<>> /\ Last(p) = v /\ t = r
      <3>1. Held1(r, x) = Distinct(r.heard[x])
        BY <1>3, <1>4, <1>6, <2>2, <2>3, SMTT(20) DEF AppendNew, p
      <3>2. \A y \in Execs \ r.seen :
              /\ r.given[y] = <<>>
              /\ ~r.complete => Held1(r, y) = Distinct(r.heard[y])
        BY <1>2, <1>3, <1>4, <1>6, <3>1, SMTT(20)
      <3>3. \A y \in r.seen : r.entries[y] = <<>> /\ r.given[y] = Distinct(r.heard[y])
        BY <1>2, <1>3, <1>4, <2>1, SMTT(20)
      <3> QED BY <1>2, <1>4, <1>5, <2>3, <3>2, <3>3 DEF QueryOK
    <2>4. CASE ~(p # <<>> /\ Last(p) = v) /\ ~AtLimit(q.pending) /\ t = u
      <3> DEFINE n == q.pending + 1
      <3>0. Append(p, v) \in Seq(Versions) /\ Len(Append(p, v)) = Len(p) + 1 /\ Len(p) \in Nat
        BY <2>2
      <3>1. IsFiniteSet(Execs)
        BY FillsAssumption
      <3>a. DOMAIN q.entries \subseteq Execs /\ q.entries \in [DOMAIN q.entries -> Seq(Versions)]
        BY <1>2
      <3>2. /\ e \in [DOMAIN e -> Seq(Versions)] /\ DOMAIN e = DOMAIN q.entries \cup {x}
            /\ DOMAIN e \subseteq Execs
            /\ e[x] = Append(p, v) /\ \A y \in DOMAIN q.entries : y # x => e[y] = q.entries[y]
            /\ PendingOf(e) = PendingOf(q.entries) - LengthAt(q.entries, x) + Len(Append(p, v))
            /\ PendingOf(q.entries) \in Nat /\ LengthAt(q.entries, x) \in Nat
        <4> DEFINE f == q.entries
                   a == Append(p, v)
                   g == Put(f, x, a)
        <4>1. DOMAIN f \subseteq Execs /\ f \in [DOMAIN f -> Seq(Versions)] /\ a \in Seq(Versions)
          BY <3>a, <3>0
        <4> HIDE DEF f, a
        <4>2. /\ g \in [DOMAIN g -> Seq(Versions)] /\ DOMAIN g = DOMAIN f \cup {x} /\ DOMAIN g \subseteq Execs
              /\ g[x] = a /\ \A y \in DOMAIN f : y # x => g[y] = f[y]
              /\ PendingOf(g) = PendingOf(f) - LengthAt(f, x) + Len(a)
              /\ PendingOf(f) \in Nat /\ LengthAt(f, x) \in Nat /\ LengthAt(f, x) <= PendingOf(f)
          BY <4>1, <3>1, EntriesPut
        <4> HIDE DEF g
        <4>3. g = e
          BY DEF g, f, a
        <4> QED BY <4>2, <4>3 DEF f, a
      <3>3. LengthAt(q.entries, x) = Len(p)
        BY DEF LengthAt, p, Held1
      <3> HIDE DEF e, n
      <3>4. u = Changed(r, r.complete, r.seen, e, n, r.executions, r.heard)
        BY <1>4, ChangedExcept DEF n
      <3>5. u = Changed(q, q.complete, q.seen, e, n, q.executions, h)
        BY <1>4, <3>4 DEF Changed
      <3> HIDE DEF u
      <3>6. /\ u.open = q.open /\ u.complete = q.complete /\ u.seen = q.seen
            /\ u.entries = e /\ u.pending = n /\ u.heard = h /\ u.given = q.given
        BY <3>5, ChangedFields
      <3>7. QueryShape(u)
        <4>1. q.seen \subseteq DOMAIN e
          BY <1>2, <3>2
        <4> QED BY <1>2, <1>3, <3>2, <3>5, <4>1, ChangedShape
      <3>8. n = PendingOf(e) /\ n <= limit
        BY <1>2, <2>4, <3>0, <3>2, <3>3 DEF n, AtLimit
      <3>9. Held1(u, x) = Distinct(u.heard[x])
        BY <1>3, <2>2, <2>4, <3>2, <3>6 DEF Held1, AppendNew
      <3>10. \A y \in Execs : y # x => Held1(u, y) = Held1(q, y)
        BY <3>2, <3>6 DEF Held1
      <3>11. \A y \in Execs \ u.seen :
              /\ u.given[y] = <<>>
              /\ ~u.complete => Held1(u, y) = Distinct(u.heard[y])
        BY <1>2, <1>3, <3>6, <3>9, <3>10
      <3>12. \A y \in u.seen : u.entries[y] = <<>> /\ u.given[y] = Distinct(u.heard[y])
        BY <1>2, <1>3, <2>1, <3>2, <3>6
      <3> QED BY <2>1, <2>4, <3>6, <3>7, <3>8, <3>11, <3>12 DEF QueryOK
    <2> QED BY <1>8, <2>3, <2>4 DEF p
  <1>9. CASE t = q \/ t = Terminated
    BY <1>9, TerminatedOK
  <1> QED BY <1>1, <1>7, <1>8, <1>9

\* A query that still waits for the end of its snapshot.
Asking(q) == q.open /\ ~q.complete

\* ownedRoute.handle: the execution is recorded and what waited for it is given.
LEMMA QueryExecutionOK ==
  ASSUME FillsAssumption, limit \in Nat \ {0}, NEW q, QueryOK(q, limit), Asking(q),
         NEW x \in Execs, NEW decodes \in BOOLEAN, NEW t \in QueryExecution(q, x, decodes)
  PROVE  QueryOK(t, limit)
  <1> DEFINE p == Held1(q, x)
             s == q.seen \cup {x}
             n == q.executions + 1
             m == q.pending - Len(p)
             nothing == <<>>
             e == Put(q.entries, x, nothing)
             w == [q EXCEPT !.seen = s, !.executions = n]
             u == [w EXCEPT !.entries = e, !.pending = m]
  <1>1. /\ QueryShape(q) /\ Whole(q) /\ q.pending = PendingOf(q.entries) /\ q.pending <= limit
        /\ q.seen \subseteq DOMAIN q.entries /\ DOMAIN q.entries \subseteq Execs
        /\ q.entries \in [DOMAIN q.entries -> Seq(Versions)] /\ q.executions \in Nat
        /\ q.heard \in [Execs -> Seq(Versions)] /\ q.given \in [Execs -> Seq(Versions)]
        /\ q.complete \in BOOLEAN
        /\ \A y \in q.seen : q.entries[y] = <<>> /\ q.given[y] = Distinct(q.heard[y])
        /\ \A y \in Execs \ q.seen :
             /\ q.given[y] = <<>>
             /\ ~q.complete => Held1(q, y) = Distinct(q.heard[y])
    BY DEF QueryOK, QueryShape, Whole
  <1>2. t = Terminated \/ t \in EmitFees(u, x, p)
    <2> DEFINE w1 == [q EXCEPT !.seen = @ \cup {x}, !.executions = @ + 1]
               took == takePending(w1, x)
    <2>1. t = Terminated \/ t \in EmitFees(took.q, x, took.reports)
      BY Zenon DEF QueryExecution
    <2>2. w1 = w /\ w.entries = q.entries /\ w.pending = q.pending
      <3>1. w1 = w
        OBVIOUS
      <3>2. w = Changed(q, q.complete, s, q.entries, q.pending, n, q.heard)
        BY <1>1, ChangedExcept
      <3> HIDE DEF w, w1
      <3>3. w.entries = q.entries /\ w.pending = q.pending
        BY <3>2, ChangedFields
      <3> QED BY <3>1, <3>3
    <2>3. took.q = [w1 EXCEPT !.entries = Put(@, x, <<>>), !.pending = @ - Len(took.reports)]
          /\ took.reports = (IF x \in DOMAIN w1.entries THEN w1.entries[x] ELSE <<>>)
      <3> HIDE DEF w1, w
      <3> QED BY Zenon DEF takePending, QueryKnows
    <2> HIDE DEF w, w1
    <2>4. took.reports = p
      BY <2>2, <2>3 DEF Held1
    <2> HIDE DEF p
    <2>5. [w1 EXCEPT !.entries = Put(@, x, <<>>), !.pending = @ - Len(p)] =
          [w EXCEPT !.entries = Put(w.entries, x, <<>>), !.pending = w.pending - Len(p)]
      BY <2>2
    <2>6. took.q = u
      BY <2>2, <2>3, <2>4, <2>5
    <2> QED BY <2>1, <2>4, <2>6
  <1>3. IsFiniteSet(Execs) /\ nothing \in Seq(Versions) /\ Len(nothing) = 0
    BY FillsAssumption
  <1>4. p \in Seq(Versions) /\ Len(p) \in Nat
    BY <1>1 DEF Held1
  <1>5. LengthAt(q.entries, x) = Len(p)
    BY DEF LengthAt, Held1
  <1> HIDE DEF p, nothing
  <1>6. /\ e \in [DOMAIN e -> Seq(Versions)] /\ DOMAIN e = DOMAIN q.entries \cup {x}
        /\ DOMAIN e \subseteq Execs
        /\ e[x] = nothing /\ \A y \in DOMAIN q.entries : y # x => e[y] = q.entries[y]
        /\ PendingOf(e) = PendingOf(q.entries) - LengthAt(q.entries, x) + Len(nothing)
        /\ PendingOf(q.entries) \in Nat
    <2> DEFINE f == q.entries
               g == Put(f, x, nothing)
    <2>1. DOMAIN f \subseteq Execs /\ f \in [DOMAIN f -> Seq(Versions)] /\ nothing \in Seq(Versions)
      BY <1>1, <1>3
    <2> HIDE DEF f
    <2>2. /\ g \in [DOMAIN g -> Seq(Versions)] /\ DOMAIN g = DOMAIN f \cup {x} /\ DOMAIN g \subseteq Execs
          /\ g[x] = nothing /\ \A y \in DOMAIN f : y # x => g[y] = f[y]
          /\ PendingOf(g) = PendingOf(f) - LengthAt(f, x) + Len(nothing)
          /\ PendingOf(f) \in Nat /\ LengthAt(f, x) \in Nat /\ LengthAt(f, x) <= PendingOf(f)
      BY <1>3, <2>1, EntriesPut
    <2> HIDE DEF g
    <2>3. g = e
      BY DEF g, f
    <2> QED BY <2>2, <2>3 DEF f
  <1> HIDE DEF e
  <1> DEFINE c == q.complete
  <1>7. u = Changed(q, c, s, e, m, n, q.heard)
    <2>1. w = Changed(q, q.complete, s, q.entries, q.pending, n, q.heard)
      BY <1>1, ChangedExcept
    <2> HIDE DEF w, s, n, m
    <2>a. w = Changed(q, c, s, q.entries, q.pending, n, q.heard)
      BY <2>1, Zenon
    <2> HIDE DEF c
    <2>2. /\ Whole(w) /\ w.open = q.open /\ w.collect = q.collect /\ w.complete = c
          /\ w.seen = s /\ w.executions = n /\ w.heard = q.heard /\ w.given = q.given /\ w.reports = q.reports
      BY <2>a, ChangedFields
    <2>3. u = Changed(w, w.complete, w.seen, e, m, w.executions, w.heard)
      BY <2>2, ChangedExcept
    <2> HIDE DEF u
    <2> QED BY <2>2, <2>3 DEF Changed
  <1> HIDE DEF u, w
  <1>8. /\ u.open = q.open /\ u.complete = q.complete /\ u.seen = s
        /\ u.entries = e /\ u.pending = m /\ u.heard = q.heard /\ u.given = q.given
    <2> HIDE DEF s, m, n, c
    <2>1. /\ u.open = q.open /\ u.complete = c /\ u.seen = s
          /\ u.entries = e /\ u.pending = m /\ u.heard = q.heard /\ u.given = q.given
      BY <1>7, ChangedFields
    <2> QED BY <2>1, Zenon DEF c
  <1>9. QueryShape(u)
    <2>1. s \subseteq DOMAIN e /\ n \in Nat
      BY <1>1, <1>6
    <2> HIDE DEF s, m, n
    <2> QED BY <1>1, <1>6, <1>7, <2>1, ChangedShape
  <1>10. m = PendingOf(e) /\ m <= limit
    BY <1>1, <1>3, <1>4, <1>5, <1>6, SMTT(20)
  <1> HIDE DEF m
  <1>11. \A y \in u.seen : u.entries[y] = <<>> /\ (y # x => u.given[y] = Distinct(u.heard[y]))
    BY <1>1, <1>6, <1>8, SMTT(20) DEF nothing
  <1>12. \A y \in Execs : y # x => Held1(u, y) = Held1(q, y)
    BY <1>6, <1>8 DEF Held1
  <1>13. \A y \in Execs \ u.seen :
           /\ u.given[y] = <<>>
           /\ ~u.complete => Held1(u, y) = Distinct(u.heard[y])
    BY <1>1, <1>8, <1>12 DEF Asking
  <1>14. QueryBut(u, limit, x)
    BY <1>8, <1>9, <1>10, <1>11, <1>13 DEF QueryBut, Asking
  <1>15. Distinct(u.heard[x]) = Dist!Folded(u.given[x], p, Versions)
    <2>1. CASE x \in q.seen
      <3>1. p = <<>>
        BY <1>1, <2>1 DEF p, Held1
      <3>2. Dist!Folded(u.given[x], <<>>, Versions) = u.given[x]
        BY Dist!FoldLeftEmpty
      <3> QED BY <1>1, <1>8, <2>1, <3>1, <3>2
    <2>2. CASE x \notin q.seen
      <3>1. p = Distinct(q.heard[x]) /\ u.given[x] = <<>> /\ q.heard[x] \in Seq(Versions)
        BY <1>1, <1>8, <2>2 DEF p, Asking
      <3>2. NoRepeat(p)
        BY <3>1, DistinctType
      <3>3. Distinct(p) = p
        BY <1>4, <3>2, DistinctFixed
      <3>4. Distinct(p) = Dist!Folded(<<>>, p, Versions)
        BY DistinctIs
      <3> QED BY <1>8, <3>1, <3>3, <3>4
    <2> QED BY <2>1, <2>2
  <1>16. CASE t \in EmitFees(u, x, p)
    BY <1>4, <1>8, <1>14, <1>15, <1>16, EmitOK
  <1>17. CASE t = Terminated
    BY <1>17, TerminatedOK
  <1> QED BY <1>2, <1>16, <1>17

\* completeSnapshot forgets what waits for executions outside the snapshot.
LEMMA SnapshotOK ==
  ASSUME FillsAssumption, limit \in Nat \ {0}, NEW q, QueryOK(q, limit)
  PROVE  QueryOK(completeSnapshot(q), limit)
  <1> DEFINE rest == DOMAIN q.entries \ q.seen
             e == Drop(q.entries, rest)
             m == q.pending - SumOver(q.entries, rest)
             yes == TRUE
             u == [q EXCEPT !.complete = yes, !.entries = e, !.pending = m]
  <1>1. completeSnapshot(q) = u
    <2>1. completeSnapshot(q) =
            [q EXCEPT !.complete = TRUE, !.entries = Drop(@, rest), !.pending = @ - SumOver(q.entries, rest)]
      BY Zenon DEF completeSnapshot, SumOver
    <2>2. [q EXCEPT !.complete = TRUE, !.entries = Drop(@, rest), !.pending = @ - SumOver(q.entries, rest)] = u
      OBVIOUS
    <2> QED BY <2>1, <2>2
  <1>2. /\ QueryShape(q) /\ Whole(q) /\ q.pending = PendingOf(q.entries) /\ q.pending <= limit
        /\ q.seen \subseteq DOMAIN q.entries /\ DOMAIN q.entries \subseteq Execs
        /\ q.entries \in [DOMAIN q.entries -> Seq(Versions)] /\ q.executions \in Nat
        /\ q.heard \in [Execs -> Seq(Versions)]
        /\ \A y \in q.seen : q.entries[y] = <<>> /\ q.given[y] = Distinct(q.heard[y])
        /\ \A y \in Execs \ q.seen : q.given[y] = <<>>
    BY DEF QueryOK, QueryShape, Whole
  <1>3. IsFiniteSet(DOMAIN q.entries) /\ Lengths(q.entries) /\ rest \in SUBSET DOMAIN q.entries
    BY <1>2, FillsAssumption, FS_Subset DEF Lengths
  <1>4. /\ DOMAIN e = q.seen /\ \A y \in q.seen : e[y] = q.entries[y]
        /\ e \in [DOMAIN e -> Seq(Versions)]
    BY <1>2 DEF Drop
  <1> HIDE DEF rest
  <1>5. /\ PendingOf(e) = PendingOf(q.entries) - SumOver(q.entries, rest)
        /\ PendingOf(e) \in Nat /\ PendingOf(q.entries) \in Nat /\ SumOver(q.entries, rest) \in Nat
    BY <1>3, PendingDrop
  <1>6. m = PendingOf(e) /\ m <= limit
    BY <1>2, <1>5
  <1>7. yes \in BOOLEAN /\ yes
    OBVIOUS
  <1> HIDE DEF e, m, yes
  <1>8. u = Changed(q, yes, q.seen, e, m, q.executions, q.heard)
    BY <1>2, ChangedExcept
  <1> HIDE DEF u
  <1>9. /\ u.complete = yes /\ u.seen = q.seen
        /\ u.entries = e /\ u.pending = m /\ u.heard = q.heard /\ u.given = q.given
    BY <1>8, ChangedFields
  <1>10. QueryShape(u)
    <2>1. q.seen \subseteq DOMAIN e /\ DOMAIN e \subseteq Execs
      BY <1>2, <1>4
    <2> QED BY <1>2, <1>4, <1>7, <1>8, <2>1, ChangedShape
  <1>11. u.complete
    BY <1>7, <1>9, Zenon
  <1>12. \A y \in u.seen : u.entries[y] = <<>> /\ u.given[y] = Distinct(u.heard[y])
    BY <1>2, <1>4, <1>9
  <1>13. \A y \in Execs \ u.seen : u.given[y] = <<>>
    BY <1>2, <1>9
  <1>14. u.pending = PendingOf(u.entries) /\ u.pending <= limit /\ DOMAIN u.entries = u.seen
    BY <1>4, <1>6, <1>9
  <1>15. QueryOK(u, limit)
    BY <1>10, <1>11, <1>12, <1>13, <1>14 DEF QueryOK
  <1> QED BY <1>1, <1>15

------------------------------------------------------------------------------
(* The turns of the actor keep the invariant.                                *)

\* The observer's outcomes.
LEMMA WatchedOK ==
  ASSUME WatchOK(watch), NEW decodes, NEW w \in Watched(decodes)
  PROVE  WatchOK(w)
  <1>1. CASE w = watch
    BY <1>1
  <1>2. CASE w = [watch EXCEPT !.open = FALSE, !.gapped = FALSE, !.run = 0]
    <2>1. w = [open |-> FALSE, gapped |-> FALSE, run |-> 0]
      BY <1>2 DEF WatchOK
    <2> QED BY <2>1 DEF WatchOK
  <1> QED BY <1>1, <1>2 DEF Watched

\* The observer with another gap and count.
LEMMA GapsIs ==
  ASSUME NEW w, w = [open |-> w.open, gapped |-> w.gapped, run |-> w.run], NEW gapped, NEW run
  PROVE  [w EXCEPT !.gapped = gapped, !.run = run] = [open |-> w.open, gapped |-> gapped, run |-> run]
  <1> DEFINE u == [w EXCEPT !.gapped = gapped]
  <1>1. u = [open |-> w.open, gapped |-> gapped, run |-> w.run]
    OBVIOUS
  <1> HIDE DEF u
  <1>2. [u EXCEPT !.run = run] = [open |-> w.open, gapped |-> gapped, run |-> run]
    BY <1>1
  <1> QED BY <1>2 DEF u

\* A gap and a restoration count once each.
LEMMA GapsOK ==
  ASSUME NEW w, WatchOK(w)
  PROVE  WatchOK(gapExecutionEvents(w)) /\ WatchOK(restoreExecutionEvents(w))
  <1>1. WatchOK(gapExecutionEvents(w))
    <2> DEFINE g == TRUE
               n == w.run + 1
               u == [open |-> w.open, gapped |-> g, run |-> n]
    <2>1. CASE w.open /\ ~w.gapped
      <3>1. w.run = 0 /\ n = 1 /\ w = [open |-> w.open, gapped |-> w.gapped, run |-> w.run]
        BY <2>1 DEF WatchOK
      <3>2. gapExecutionEvents(w) = [w EXCEPT !.gapped = g, !.run = n]
        BY <2>1, Zenon DEF gapExecutionEvents
      <3> HIDE DEF g, n
      <3>3. gapExecutionEvents(w) = u
        BY <3>1, <3>2, GapsIs
      <3>4. u = [open |-> u.open, gapped |-> u.gapped, run |-> u.run] /\ u.open = w.open /\ u.gapped = g /\ u.run = n
        OBVIOUS
      <3> HIDE DEF u
      <3>5. WatchOK(u)
        <4>1. u.open \in BOOLEAN
          BY <3>4, Zenon DEF WatchOK
        <4>2. u.gapped \in BOOLEAN /\ u.run = IF u.gapped THEN 1 ELSE 0
          BY <3>1, <3>4, Zenon DEF g
        <4> QED BY <3>4, <4>1, <4>2, Zenon DEF WatchOK
      <3> QED BY <3>3, <3>5
    <2>2. CASE ~(w.open /\ ~w.gapped)
      BY <2>2 DEF gapExecutionEvents
    <2> QED BY <2>1, <2>2
  <1>2. WatchOK(restoreExecutionEvents(w))
    <2> DEFINE g == FALSE
               n == w.run - 1
               u == [open |-> w.open, gapped |-> g, run |-> n]
    <2>1. CASE w.open /\ w.gapped
      <3>1. w.run = 1 /\ n = 0 /\ w = [open |-> w.open, gapped |-> w.gapped, run |-> w.run]
        BY <2>1 DEF WatchOK
      <3>2. restoreExecutionEvents(w) = [w EXCEPT !.gapped = g, !.run = n]
        BY <2>1, Zenon DEF restoreExecutionEvents
      <3> HIDE DEF g, n
      <3>3. restoreExecutionEvents(w) = u
        BY <3>1, <3>2, GapsIs
      <3>4. u = [open |-> u.open, gapped |-> u.gapped, run |-> u.run] /\ u.open = w.open /\ u.gapped = g /\ u.run = n
        OBVIOUS
      <3> HIDE DEF u
      <3>5. WatchOK(u)
        <4>1. u.open \in BOOLEAN
          BY <3>4, Zenon DEF WatchOK
        <4>2. u.gapped \in BOOLEAN /\ u.run = IF u.gapped THEN 1 ELSE 0
          BY <3>1, <3>4, Zenon DEF g
        <4> QED BY <3>4, <4>1, <4>2, Zenon DEF WatchOK
      <3> QED BY <3>3, <3>5
    <2>2. CASE ~(w.open /\ w.gapped)
      BY <2>2 DEF restoreExecutionEvents
    <2> QED BY <2>1, <2>2
  <1> QED BY <1>1, <1>2

\* The next tables are the outcome of the step.
LEMMA SideMoves ==
  ASSUME NEW own, NEW lim, NEW s, SideOK(s, own, lim), SideIs(s)
  PROVE  Side' = s
  BY DEF SideOK, SideShape, SideIs, Side

\* Without an open handle nothing happens to the tables.
LEMMA IdleStays ==
  ASSUME NEW s, OpenIn(s) = {}, NEW x
  PROVE  /\ \A v : routeCommissionReport(s, x, v) = {s}
         /\ \A o, identity, decodes : dispatchExecutionToOrder(s, x, o, identity, decodes) = {s}
  <1>1. excludeOrderExecution(s, x) = s
    BY DEF excludeOrderExecution
  <1>2. \A v : routeCommissionReport(s, x, v) = {s}
    BY Zenon DEF routeCommissionReport
  <1>3. \A o, identity, decodes : dispatchExecutionToOrder(s, x, o, identity, decodes) = {s}
    BY <1>1, Zenon DEF dispatchExecutionToOrder
  <1> QED BY <1>2, <1>3

\* What a step has to establish.
Settled ==
    /\ SideOK(Side', owner, limit) /\ SentOK(Side', owner, sent') /\ sent' \in [Execs -> Seq(Versions)]
    /\ "orders" \notin load => \A o \in Orders : handles'[o] = None

\* What the steps have in common.
LEMMA InvNext ==
  ASSUME Inv, UNCHANGED <<load, limit, owner>>, Settled, QueryOK(query', limit), WatchOK(watch')
  PROVE  Inv'
  BY DEF Inv, Settled

\* The tables and the reports do not move.
LEMMA SettledStill ==
  ASSUME Inv, UNCHANGED <<orderSide, sent>>
  PROVE  Settled
  <1>1. Side' = Side
    BY DEF Side, orderSide
  <1>2. handles' = handles /\ sent' = sent
    BY DEF orderSide
  <1> QED BY <1>1, <1>2 DEF Inv, Settled

\* An execution the gateway knows of belongs to an order that was placed.
LEMMA ExistsKnown ==
  ASSUME Inv, NEW x \in Execs, Exists(x), "orders" \in load, FillsAssumption
  PROVE  Known(Side, owner, x)
  <1>1. Side.handles = handles
    BY DEF Side
  <1>2. 0 \notin Orders
    BY FillsAssumption
  <1> QED BY <1>1, <1>2 DEF Exists, Known

\* Without orders no handle is open.
LEMMA NoOrders ==
  ASSUME Inv, "orders" \notin load
  PROVE  OpenIn(Side) = {}
  <1>1. \A o \in Orders : handles[o] = None
    BY DEF Inv
  <1>2. Side.handles = handles
    BY DEF Side
  <1> QED BY <1>1, <1>2 DEF OpenIn, None

\* A new order finds nothing of itself in the tables.
LEMMA PlaceOrderInv ==
  ASSUME FillsAssumption, Inv, NEW o \in Orders, PlaceOrder(o)
  PROVE  Inv'
  <1> DEFINE s == Side
             t == Side'
             own == owner
  <1>1. /\ limit \in Nat \ {0} /\ own \in [Execs -> Orders \cup {0}] /\ sent \in [Execs -> Seq(Versions)]
        /\ SideOK(s, own, limit) /\ SentOK(s, own, sent) /\ QueryOK(query, limit) /\ WatchOK(watch)
    BY DEF Inv
  <1>2. /\ "orders" \in load /\ s.handles[o] = None
        /\ t.handles = [s.handles EXCEPT ![o] = "open"] /\ t.table = s.table /\ t.fees = s.fees
        /\ t.ring = s.ring /\ t.told = s.told
        /\ t = [handles |-> t.handles, table |-> t.table, fees |-> t.fees, ring |-> t.ring, told |-> t.told]
        /\ UNCHANGED <<load, limit, owner, query, watch, sent>>
    BY DEF PlaceOrder, Side
  <1> HIDE DEF s, t, own
  <1>3. /\ s.handles \in [Orders -> States] /\ TableShape(s.table) /\ RingShape(s.ring) /\ s.told \in [Execs -> Tolds]
        /\ CountOK(s, limit) /\ RingOK(s.ring, limit) /\ DOMAIN s.ring.slot \cap DOMAIN s.table = {}
        /\ OwnedOK(s, own) /\ ToldOK(s, own) /\ FreshOK(s, own)
    BY <1>1 DEF SideOK, SideShape
  <1>4. /\ t.handles \in [Orders -> States] /\ t.handles[o] = "open"
        /\ \A p \in Orders : p # o => t.handles[p] = s.handles[p]
    BY <1>2, <1>3 DEF States
  <1>5. OpenIn(t) = OpenIn(s) \cup {o}
    BY <1>2, <1>4 DEF OpenIn, None
  <1>6. SideShape(t) /\ CountOK(t, limit)
    BY <1>2, <1>3, <1>4 DEF SideShape, CountOK
  <1>7. OwnedOK(t, own)
    BY <1>2, <1>3, <1>5 DEF OwnedOK
  <1>8. ToldOK(t, own)
    <2>1. \A x : AlreadyClaimed(t, x) <=> AlreadyClaimed(s, x)
      BY <1>2 DEF AlreadyClaimed
    <2>2. \A x \in Execs : own[x] = o => s.told[x].executions = 0
      BY <1>2, <1>3 DEF FreshOK
    <2>3. ASSUME NEW x \in Execs, own[x] \in OpenIn(t), ~AlreadyClaimed(t, x)
          PROVE  t.told[x].executions = 0
      BY <1>2, <1>3, <1>5, <2>1, <2>2, <2>3 DEF ToldOK
    <2> QED BY <1>2, <1>3, <2>3 DEF ToldOK
  <1>9. FreshOK(t, own)
    BY <1>2, <1>3, <1>4 DEF FreshOK, None
  <1>10. IdleOK(t)
    BY <1>5 DEF IdleOK
  <1>11. SideOK(t, own, limit)
    BY <1>2, <1>3, <1>6, <1>7, <1>8, <1>9, <1>10 DEF SideOK
  <1>12. SentOK(t, own, sent)
    <2>1. ASSUME NEW x \in Execs PROVE SentAt(t, own, sent[x], x)
      <3>1. SentAt(s, own, sent[x], x) /\ Held(t, x) = Held(s, x)
        BY <1>1, <1>2 DEF SentOK, Held
      <3>2. CASE own[x] = o
        <4>1. /\ sent[x] = <<>> /\ x \notin DOMAIN s.table /\ x \notin DOMAIN s.ring.slot
              /\ s.told[x].executions = 0
          BY <1>2, <1>3, <3>1, <3>2 DEF SentAt, FreshOK
        <4>2. s.told[x].reports = <<>> /\ Held(s, x) = <<>>
          BY <1>3, <4>1 DEF ToldOK, Held
        <4>3. <<>> \o <<>> = <<>>
          OBVIOUS
        <4>4. Distinct(sent[x]) = t.told[x].reports \o Held(t, x)
          BY <1>2, <3>1, <4>1, <4>2, <4>3, DistinctEmpty
        <4> QED BY <1>2, <4>1, <4>4 DEF SentAt
      <3>3. CASE own[x] # o
        BY <1>2, <1>4, <1>5, <3>1, <3>3 DEF SentAt
      <3> QED BY <3>2, <3>3
    <2> QED BY <2>1 DEF SentOK
  <1>13. Settled
    BY <1>1, <1>2, <1>11, <1>12 DEF Settled, t, own
  <1> QED BY <1>1, <1>2, <1>13, InvNext

\* A handle detaches, is rejected or ends with the engine.
LEMMA CloseHandleInv ==
  ASSUME FillsAssumption, Inv, NEW o \in Orders, CloseHandle(o)
  PROVE  Inv'
  <1>1. /\ limit \in Nat \ {0} /\ owner \in [Execs -> Orders \cup {0}] /\ sent \in [Execs -> Seq(Versions)]
        /\ SideOK(Side, owner, limit) /\ SentOK(Side, owner, sent) /\ QueryOK(query, limit) /\ WatchOK(watch)
    BY DEF Inv
  <1>2. PICK t \in closeOrderRoute(Side, o, "closed") : SideIs(t)
    BY DEF CloseHandle
  <1>3. o \in OpenIn(Side) /\ UNCHANGED <<load, limit, owner, query, watch, sent>>
    BY DEF CloseHandle, Open, OpenIn, Side
  <1>4. "closed" \in Outcomes
    BY DEF Outcomes
  <1>5. SideOK(t, owner, limit) /\ Kept(Side, t, owner, {})
    BY <1>1, <1>2, <1>3, <1>4, CloseOK
  <1>6. Side' = t
    BY <1>2, <1>5, SideMoves
  <1>7. SentOK(t, owner, sent)
    <2>1. ASSUME NEW x \in Execs PROVE SentAt(t, owner, sent[x], x)
      <3>1. SentAt(Side, owner, sent[x], x)
        BY <1>1 DEF SentOK
      <3>2. owner[x] \in OpenIn(t) => t.handles[owner[x]] # None
        BY DEF OpenIn, None
      <3>3. owner[x] \in OpenIn(t) => SentAt(t, owner, sent[x], x)
        BY <1>5, <3>1, <3>2 DEF SentAt, Kept
      <3>4. owner[x] \notin OpenIn(t) => SentAt(t, owner, sent[x], x)
        BY <1>5, <3>1 DEF SentAt, Kept
      <3> QED BY <3>3, <3>4
    <2> QED BY <2>1 DEF SentOK
  <1>8. "orders" \in load
    BY <1>3, NoOrders
  <1>9. Settled
    BY <1>1, <1>3, <1>5, <1>6, <1>7, <1>8 DEF Settled
  <1> QED BY <1>1, <1>3, <1>9, InvNext

\* A step on the reports of one execution.
LEMMA SettledAt ==
  ASSUME FillsAssumption, Inv, NEW t, NEW x \in Execs, NEW reports \in Seq(Versions),
         SideOK(t, owner, limit), Kept(Side, t, owner, {x}), SentAt(t, owner, reports, x),
         SideIs(t), sent' = [sent EXCEPT ![x] = reports],
         "orders" \notin load => t = Side
  PROVE  Settled
  <1>1. Side' = t
    BY SideMoves
  <1>2. sent \in [Execs -> Seq(Versions)] /\ SentOK(Side, owner, sent)
    BY DEF Inv
  <1>3. SentOK(t, owner, sent') /\ sent' \in [Execs -> Seq(Versions)]
    BY <1>2, SentKept
  <1>4. "orders" \notin load => \A o \in Orders : handles'[o] = None
    BY <1>1 DEF Inv, SideIs, Side
  <1> QED BY <1>1, <1>3, <1>4 DEF Settled

\* An execution reaches the observer, the query and the order.
LEMMA ExecutionDetailInv ==
  ASSUME FillsAssumption, Inv, NEW x \in Execs, NEW o \in Orders \cup {0},
         NEW identity \in {"mine", "other", "omitted"}, NEW asked \in BOOLEAN, NEW decodes \in BOOLEAN,
         ExecutionDetail(x, o, identity, asked, decodes)
  PROVE  Inv'
  <1>1. /\ limit \in Nat \ {0} /\ owner \in [Execs -> Orders \cup {0}] /\ sent \in [Execs -> Seq(Versions)]
        /\ SideOK(Side, owner, limit) /\ SentOK(Side, owner, sent) /\ QueryOK(query, limit) /\ WatchOK(watch)
    BY DEF Inv
  <1>2. PICK t \in dispatchExecutionToOrder(Side, x, o, identity, decodes) : SideIs(t)
    BY DEF ExecutionDetail
  <1>3. /\ UNCHANGED <<load, limit, owner>> /\ Exists(x)
        /\ IF owner[x] = 0 THEN identity # "mine" ELSE o = owner[x]
        /\ sent' = IF x \in DOMAIN ring'.slot THEN [sent EXCEPT ![x] = <<>>] ELSE sent
        /\ watch' \in Watched(decodes)
    BY DEF ExecutionDetail
  <1>4. WatchOK(watch')
    BY <1>1, <1>3, WatchedOK
  <1>5. QueryOK(query', limit)
    <2>1. CASE ~asked
      BY <1>1, <2>1 DEF ExecutionDetail
    <2>2. CASE asked
      <3>1. Asking(query) /\ query' \in QueryExecution(query, x, decodes)
        BY <2>2 DEF ExecutionDetail, Asking
      <3> QED BY <1>1, <3>1, QueryExecutionOK
    <2> QED BY <2>1, <2>2
  <1>6. sent[x] \in Seq(Versions) /\ SentAt(Side, owner, sent[x], x)
    BY <1>1 DEF SentOK
  <1>7. ring' = t.ring
    BY <1>2 DEF SideIs
  <1> DEFINE reports == Counted(t, x, sent[x])
  <1>8. reports \in Seq(Versions) /\ sent' = [sent EXCEPT ![x] = reports]
    <2>1. CASE x \in DOMAIN t.ring.slot
      <3>1. reports = <<>>
        BY <2>1 DEF Counted
      <3> QED BY <1>3, <1>7, <2>1, <3>1
    <2>2. CASE x \notin DOMAIN t.ring.slot
      <3>1. reports = sent[x]
        BY <2>2 DEF Counted
      <3>2. sent = [sent EXCEPT ![x] = sent[x]]
        BY <1>1
      <3> QED BY <1>3, <1>6, <1>7, <2>2, <3>1, <3>2
    <2> QED BY <2>1, <2>2
  <1>9. Settled
    <2>1. CASE "orders" \in load
      <3>1. Known(Side, owner, x)
        BY <1>3, <2>1, ExistsKnown
      <3>2. SideOK(t, owner, limit) /\ Kept(Side, t, owner, {x}) /\ SentAt(t, owner, reports, x)
        BY <1>1, <1>2, <1>3, <1>6, <3>1, DispatchOK
      <3> HIDE DEF reports
      <3> QED BY <1>2, <1>8, <2>1, <3>2, SettledAt
    <2>2. CASE "orders" \notin load
      <3>1. t = Side
        BY <1>2, <2>2, NoOrders, IdleStays
      <3>2. Kept(Side, t, owner, {x})
        BY <3>1 DEF Kept
      <3>3. SentAt(t, owner, reports, x)
        BY <1>6, <3>1, SentCounted
      <3>4. SideOK(t, owner, limit)
        BY <1>1, <3>1
      <3> HIDE DEF reports
      <3> QED BY <1>2, <1>8, <3>1, <3>2, <3>3, <3>4, SettledAt
    <2> QED BY <2>1, <2>2
  <1> QED BY <1>3, <1>4, <1>5, <1>9, InvNext

\* A commission report reaches the observer, the query and the order.
LEMMA CommissionReportInv ==
  ASSUME FillsAssumption, Inv, NEW x \in Execs, NEW v \in Versions, CommissionReport(x, v)
  PROVE  Inv'
  <1>1. /\ limit \in Nat \ {0} /\ owner \in [Execs -> Orders \cup {0}] /\ sent \in [Execs -> Seq(Versions)]
        /\ SideOK(Side, owner, limit) /\ SentOK(Side, owner, sent) /\ QueryOK(query, limit) /\ WatchOK(watch)
    BY DEF Inv
  <1>2. PICK t \in routeCommissionReport(Side, x, v) : SideIs(t)
    BY DEF CommissionReport
  <1>3. /\ UNCHANGED <<load, limit, owner>> /\ Exists(x)
        /\ sent' = IF owner[x] \in Open /\ x \notin DOMAIN ring.slot THEN [sent EXCEPT ![x] = Append(@, v)] ELSE sent
        /\ watch' \in Watched(v # Malformed) /\ query' \in QueryReport(query, x, v)
    BY DEF CommissionReport
  <1>4. WatchOK(watch')
    BY <1>1, <1>3, WatchedOK
  <1>5. QueryOK(query', limit)
    BY <1>1, <1>3, QueryReportOK
  <1>6. sent[x] \in Seq(Versions) /\ SentAt(Side, owner, sent[x], x)
    BY <1>1 DEF SentOK
  <1>7. Side.ring = ring /\ OpenIn(Side) = Open
    BY DEF Side, OpenIn, Open
  <1> DEFINE reports == Heard(Side, owner, x, sent[x], v)
  <1>8. reports \in Seq(Versions) /\ sent' = [sent EXCEPT ![x] = reports]
    <2>1. CASE owner[x] \in Open /\ x \notin DOMAIN ring.slot
      <3>1. reports = Append(sent[x], v) /\ Append(sent[x], v) \in Seq(Versions)
        BY <1>6, <1>7, <2>1 DEF Heard
      <3> QED BY <1>3, <2>1, <3>1
    <2>2. CASE ~(owner[x] \in Open /\ x \notin DOMAIN ring.slot)
      <3>1. reports = sent[x]
        BY <1>7, <2>2 DEF Heard
      <3>2. sent = [sent EXCEPT ![x] = sent[x]]
        BY <1>1
      <3> QED BY <1>3, <1>6, <2>2, <3>1, <3>2
    <2> QED BY <2>1, <2>2
  <1>9. Settled
    <2>1. CASE "orders" \in load
      <3>1. Known(Side, owner, x)
        BY <1>3, <2>1, ExistsKnown
      <3>2. SideOK(t, owner, limit) /\ Kept(Side, t, owner, {x}) /\ SentAt(t, owner, reports, x)
        BY <1>1, <1>2, <1>6, <3>1, RouteOK
      <3> HIDE DEF reports
      <3> QED BY <1>2, <1>8, <2>1, <3>2, SettledAt
    <2>2. CASE "orders" \notin load
      <3>1. t = Side
        BY <1>2, <2>2, NoOrders, IdleStays
      <3>2. Kept(Side, t, owner, {x})
        BY <3>1 DEF Kept
      <3>3. SentAt(t, owner, reports, x)
        BY <1>6, <2>2, <3>1, NoOrders DEF Heard
      <3>4. SideOK(t, owner, limit)
        BY <1>1, <3>1
      <3> HIDE DEF reports
      <3> QED BY <1>2, <1>8, <3>1, <3>2, <3>3, <3>4, SettledAt
    <2> QED BY <2>1, <2>2
  <1> QED BY <1>3, <1>4, <1>5, <1>9, InvNext

\* Turns of the queries and the observer leave the tables alone.
LEMMA OthersInv ==
  ASSUME FillsAssumption, Inv,
         Subscribe \/ Unsubscribe \/ SubscribeExecutionEvents \/ ExecutionsEnd \/ Lost \/ Restored
  PROVE  Inv'
  <1>1. limit \in Nat \ {0} /\ QueryOK(query, limit) /\ WatchOK(watch)
    BY DEF Inv
  <1>2. QueryOK(Terminated, limit)
    BY <1>1, TerminatedOK
  <1>3. UNCHANGED <<load, limit, owner>> /\ UNCHANGED <<orderSide, sent>>
    BY DEF Subscribe, Unsubscribe, SubscribeExecutionEvents, ExecutionsEnd, Lost, Restored
  <1>4. Settled
    BY <1>3, SettledStill
  <1>5. CASE Subscribe
    <2>1. PICK collect \in BOOLEAN : query' = [ClosedQuery EXCEPT !.open = TRUE, !.collect = collect]
      BY <1>5 DEF Subscribe
    <2>2. query' = Fresh(TRUE, collect)
      BY <2>1, QueriesStart
    <2>3. QueryOK(query', limit) /\ watch' = watch
      BY <1>1, <1>5, <2>2, FreshQueryOK DEF Subscribe
    <2> QED BY <1>1, <1>3, <1>4, <2>3, InvNext
  <1>6. CASE Unsubscribe
    BY <1>1, <1>2, <1>3, <1>4, <1>6, InvNext DEF Unsubscribe
  <1>7. CASE SubscribeExecutionEvents
    <2>1. WatchOK(watch') /\ query' = query
      BY <1>7 DEF SubscribeExecutionEvents, WatchOK
    <2> QED BY <1>1, <1>3, <1>4, <2>1, InvNext
  <1>8. CASE ExecutionsEnd
    <2>1. query' = completeSnapshot(query) /\ watch' = watch
      BY <1>8 DEF ExecutionsEnd
    <2>2. QueryOK(query', limit)
      BY <1>1, <2>1, SnapshotOK
    <2> QED BY <1>1, <1>3, <1>4, <2>1, <2>2, InvNext
  <1>9. CASE Lost
    <2>1. watch' = gapExecutionEvents(watch) /\ (query' = query \/ query' = Terminated)
      BY <1>9 DEF Lost
    <2>2. WatchOK(watch')
      BY <1>1, <2>1, GapsOK
    <2> QED BY <1>1, <1>2, <1>3, <1>4, <2>1, <2>2, InvNext
  <1>10. CASE Restored
    <2>1. watch' = restoreExecutionEvents(watch) /\ query' = query
      BY <1>10 DEF Restored
    <2>2. WatchOK(watch')
      BY <1>1, <2>1, GapsOK
    <2> QED BY <1>1, <1>3, <1>4, <2>1, <2>2, InvNext
  <1> QED BY <1>5, <1>6, <1>7, <1>8, <1>9, <1>10

\* The engine starts with empty tables and no consumer.
LEMMA InitInv == ASSUME FillsAssumption, Init PROVE Inv
  <1> DEFINE s == Side
             none == [x \in Execs |-> <<>>]
  <1>1. /\ limit \in Nat \ {0} /\ owner \in [Execs -> Orders \cup {0}]
        /\ s.handles = [o \in Orders |-> None] /\ s.table = <<>> /\ s.fees = 0 /\ s.ring = EmptyRing
        /\ s.told = [x \in Execs |-> [executions |-> 0, reports |-> <<>>]]
        /\ s = [handles |-> s.handles, table |-> s.table, fees |-> s.fees, ring |-> s.ring, told |-> s.told]
        /\ s.handles = handles
        /\ sent = none /\ query = ClosedQuery
        /\ watch = [open |-> FALSE, gapped |-> FALSE, run |-> 0]
    BY DEF Init, Side, FillsAssumption
  <1> HIDE DEF s
  <1>2. /\ TableShape(<<>>) /\ DOMAIN <<>> = {}
        /\ Cardinality(DOMAIN <<>>) = 0 /\ PendingOf(Waiting(<<>>)) = 0
        /\ RingShape(EmptyRing) /\ RingOK(EmptyRing, limit) /\ DOMAIN EmptyRing.slot = {}
    BY <1>1, EmptyTables
  <1>3. OpenIn(s) = {} /\ \A o \in Orders : s.handles[o] = None
    BY <1>1 DEF OpenIn, None
  <1>4. <<>> \in Seq(Versions) /\ 0 \in Nat
    OBVIOUS
  <1>5. \A x \in Execs : s.told[x].executions = 0 /\ s.told[x].reports = <<>>
    BY <1>1
  <1>6. SideShape(s)
    <2>1. s.handles \in [Orders -> States]
      BY <1>1 DEF States
    <2>2. s.told \in [Execs -> Tolds]
      BY <1>1, <1>4 DEF Tolds
    <2> QED BY <1>1, <1>2, <2>1, <2>2 DEF SideShape
  <1>7. CountOK(s, limit)
    BY <1>1, <1>2 DEF CountOK
  <1>8. RingOK(s.ring, limit) /\ DOMAIN s.ring.slot \cap DOMAIN s.table = {}
    BY <1>1, <1>2
  <1>9. OwnedOK(s, owner) /\ ToldOK(s, owner) /\ FreshOK(s, owner) /\ IdleOK(s)
    <2>1. OwnedOK(s, owner)
      BY <1>1, <1>2 DEF OwnedOK
    <2>2. ToldOK(s, owner)
      BY <1>3, <1>5 DEF ToldOK
    <2>3. FreshOK(s, owner)
      BY <1>1, <1>2, <1>5 DEF FreshOK
    <2>4. IdleOK(s)
      BY <1>1 DEF IdleOK
    <2> QED BY <2>1, <2>2, <2>3, <2>4
  <1>10. SideOK(s, owner, limit)
    BY <1>6, <1>7, <1>8, <1>9 DEF SideOK
  <1>11. sent \in [Execs -> Seq(Versions)] /\ \A x \in Execs : sent[x] = <<>>
    BY <1>1, <1>4
  <1>12. SentOK(s, owner, sent)
    BY <1>3, <1>11 DEF SentOK, SentAt
  <1>13. QueryOK(query, limit)
    BY <1>1, QueriesStart, FreshQueryOK
  <1>14. WatchOK(watch)
    BY <1>1 DEF WatchOK
  <1>15. \A o \in Orders : handles[o] = None
    BY <1>1, <1>3
  <1> QED BY <1>1, <1>10, <1>11, <1>12, <1>13, <1>14, <1>15 DEF Inv, s

\* Every step of the actor keeps the invariant.
LEMMA NextInv == ASSUME FillsAssumption, Inv, [Next]_vars PROVE Inv'
  <1>1. ASSUME NEW o \in Orders, PlaceOrder(o) PROVE Inv'
    BY <1>1, PlaceOrderInv
  <1>2. ASSUME NEW o \in Orders, CloseHandle(o) PROVE Inv'
    BY <1>2, CloseHandleInv
  <1>3. ASSUME NEW x \in Execs, NEW o \in Orders \cup {0}, NEW identity \in {"mine", "other", "omitted"},
               NEW asked \in BOOLEAN, NEW decodes \in BOOLEAN, ExecutionDetail(x, o, identity, asked, decodes)
        PROVE  Inv'
    BY <1>3, ExecutionDetailInv
  <1>4. ASSUME NEW x \in Execs, NEW v \in Versions, CommissionReport(x, v) PROVE Inv'
    BY <1>4, CommissionReportInv
  <1>5. ASSUME Subscribe \/ Unsubscribe \/ SubscribeExecutionEvents \/ ExecutionsEnd \/ Lost \/ Restored
        PROVE  Inv'
    BY <1>5, OthersInv
  <1>6. CASE UNCHANGED vars
    <2>1. UNCHANGED <<load, limit, owner>> /\ UNCHANGED <<orderSide, sent>> /\ query' = query /\ watch' = watch
      BY <1>6 DEF vars
    <2>2. Settled
      BY <2>1, SettledStill
    <2> QED BY <2>1, <2>2, InvNext DEF Inv
  <1> QED BY <1>1, <1>2, <1>3, <1>4, <1>5, <1>6 DEF Next

------------------------------------------------------------------------------
(* The theorems.                                                           *)

\* In every reachable state the correlation tables of the engine are as dispatch,
\* claim, exclusion and the end of an observation leave them: counters and ring
\* agree with the table, and what was sent of an open order's execution is what
\* its handle was given and what waits.
THEOREM Sound == Spec => []Inv
  <1>1. FillsAssumption /\ Init => Inv
    BY InitInv
  <1>2. FillsAssumption /\ Inv /\ [Next]_vars => Inv'
    BY NextInv
  <1> QED BY <1>1, <1>2, FillsAssumption, PTL DEF Spec

\* The tables are within their limit and their counters are the sums they stand
\* for, an eviction of the ring of excluded executions removes the oldest one, and
\* nothing outlives the handle it was kept for (engine_route.go, engine_orders.go).
THEOREM TablesAreSound == Spec => []TablesSound
  <1>1. Inv => TablesSound
    <2> SUFFICES ASSUME Inv PROVE TablesSound
      OBVIOUS
    <2> DEFINE s == Side
    <2>1. /\ limit \in Nat \ {0} /\ SideOK(s, owner, limit) /\ QueryOK(query, limit) /\ WatchOK(watch)
      BY DEF Inv
    <2>2. s.handles = handles /\ s.table = table /\ s.fees = fees /\ s.ring = ring /\ s.told = told
          /\ OpenIn(s) = Open
      BY DEF Side, OpenIn, Open
    <2> HIDE DEF s
    <2>3. /\ s.handles \in [Orders -> States] /\ TableShape(s.table) /\ CountOK(s, limit)
          /\ RingOK(s.ring, limit) /\ DOMAIN s.ring.slot \cap DOMAIN s.table = {}
          /\ OwnedOK(s, owner) /\ IdleOK(s)
      BY <2>1 DEF SideOK, SideShape
    <2>4. IsFiniteSet(Execs)
      BY FillsAssumption
    <2>5. IsFiniteSet(DOMAIN table) /\ Lengths(Waiting(table)) /\ DOMAIN Waiting(table) = DOMAIN table
      <3>1. DOMAIN table \subseteq Execs /\ \A x \in DOMAIN table : table[x] \in Entries
        BY <2>2, <2>3 DEF TableShape
      <3>2. IsFiniteSet(DOMAIN table)
        BY <2>4, <3>1, FS_Subset
      <3> QED BY <3>1, <3>2 DEF Lengths, Waiting, Entries
    <2>6. fees \in 0 .. limit
      <3>1. Waiting(table) = Drop(Waiting(table), {}) /\ {} \in SUBSET DOMAIN Waiting(table)
        BY DEF Drop, Waiting
      <3>2. PendingOf(Waiting(table)) \in Nat
        BY <2>5, <3>1, PendingDrop
      <3> QED BY <2>1, <2>2, <2>3, <3>2 DEF CountOK
    <2>7. query.pending = PendingOf(query.entries) /\ query.pending \in 0 .. limit
      <3>1. /\ DOMAIN query.entries \subseteq Execs /\ query.entries \in [DOMAIN query.entries -> Seq(Versions)]
            /\ query.pending = PendingOf(query.entries) /\ query.pending <= limit
        BY <2>1 DEF QueryOK, QueryShape
      <3>2. IsFiniteSet(DOMAIN query.entries) /\ Lengths(query.entries) /\ {} \in SUBSET DOMAIN query.entries
        BY <2>4, <3>1, FS_Subset DEF Lengths
      <3>3. PendingOf(query.entries) \in Nat
        BY <3>2, PendingDrop
      <3> QED BY <2>1, <3>1, <3>3
    <2>8. TypeOK
      <3>1. handles \in [Orders -> {None, "open", "closed", "malformed", "slow", "overflow"}]
        BY <2>2, <2>3 DEF States
      <3>2. DOMAIN table \subseteq Execs /\ \A x \in DOMAIN table : table[x].owner \in Orders \cup {0}
        BY <2>2, <2>3 DEF TableShape, Entries
      <3>3. Cardinality(DOMAIN table) <= limit
        BY <2>2, <2>3 DEF CountOK
      <3>4. watch.open \in BOOLEAN /\ watch.gapped \in BOOLEAN
        BY <2>1, Zenon DEF WatchOK
      <3> QED BY <2>6, <2>7, <3>1, <3>2, <3>3, <3>4, Zenon DEF TypeOK
    <2>9. CountsAgree
      BY <2>2, <2>3, <2>7 DEF CountsAgree, CountOK, Waiting
    <2>10. RingConsistent
      BY <2>2, <2>3 DEF RingConsistent, RingOK
    <2>11. NoOrphanCorrelation
      BY <2>2, <2>3 DEF NoOrphanCorrelation, OwnedOK, IdleOK
    <2> QED BY <2>8, <2>9, <2>10, <2>11 DEF TablesSound
  <1> QED BY <1>1, Sound, PTL

\* A commission report reaches whoever holds its execution, once, in whichever
\* order the two came: routeCommissionReport and dispatchExecutionToOrder for the
\* handles, executionCorrelation for a query.
THEOREM ReportsReachTheirOwner == Spec => []ReportsReachOwner
  <1>1. Inv => ReportsReachOwner
    <2> SUFFICES ASSUME Inv PROVE ReportsReachOwner
      OBVIOUS
    <2>1. SentOK(Side, owner, sent) /\ QueryOK(query, limit)
      BY DEF Inv
    <2>2. Side.table = table /\ Side.told = told /\ OpenIn(Side) = Open
      BY DEF Side, OpenIn, Open
    <2>3. NoReportLost
      <3>1. ASSUME NEW x \in Execs, owner[x] \in Open
            PROVE  Distinct(sent[x]) = told[x].reports \o (IF x \in DOMAIN table THEN table[x].pending ELSE <<>>)
        <4>1. SentAt(Side, owner, sent[x], x)
          BY <2>1 DEF SentOK
        <4>2. Distinct(sent[x]) = Side.told[x].reports \o Held(Side, x)
          BY <2>2, <3>1, <4>1 DEF SentAt
        <4>3. Held(Side, x) = IF x \in DOMAIN table THEN table[x].pending ELSE <<>>
          BY <2>2 DEF Held
        <4> QED BY <2>2, <4>2, <4>3
      <3> QED BY <3>1 DEF NoReportLost
    <2>4. QueryReportsComplete
      BY <2>1 DEF QueryOK, QueryReportsComplete
    <2> QED BY <2>3, <2>4 DEF ReportsReachOwner
  <1> QED BY <1>1, Sound, PTL

\* A handle is given a fill at most once and no report of it earlier, and the gaps
\* and restorations an observer hears alternate.
THEOREM ConsumersAreHonest == Spec => []ConsumersHonest
  <1>1. Inv => ConsumersHonest
    <2> SUFFICES ASSUME Inv PROVE ConsumersHonest
      OBVIOUS
    <2>1. SideOK(Side, owner, limit) /\ WatchOK(watch)
      BY DEF Inv
    <2>2. ToldOK(Side, owner) /\ Side.told \in [Execs -> Tolds] /\ Side.told = told
      BY <2>1 DEF SideOK, SideShape, Side
    <2>3. FillDeliveredOnce
      <3>1. ASSUME NEW x \in Execs
            PROVE  /\ told[x].executions <= 1
                   /\ told[x].reports # <<>> => told[x].executions = 1
                   /\ owner[x] = 0 => told[x].executions = 0
        <4>1. told[x].executions \in Nat
          BY <2>2 DEF Tolds
        <4> QED BY <2>2, <4>1 DEF ToldOK
      <3> QED BY <3>1 DEF FillDeliveredOnce
    <2>4. WatchGapsAlternate
      BY <2>1 DEF WatchOK, WatchGapsAlternate
    <2> QED BY <2>3, <2>4 DEF ConsumersHonest
  <1> QED BY <1>1, Sound, PTL
==============================================================================
