----------------------------- MODULE QueueTheorems ----------------------------
(***************************************************************************)
(* What FoldLeft and FoldSet compute, for the loops of the engine that run     *)
(* one handler after the other over a queue (flushReadySetups over            *)
(* e.readySetups, continueResumeRoutes over e.resumePending) or over the      *)
(* routes in any order (the loops over the map e.keyed): the fold is the last  *)
(* state of a run that applies the handler element by element, and what every  *)
(* handler preserves the loop preserves.                                     *)
(*                                                                         *)
(* The handler and the loop invariant are parameters of the module and not of *)
(* its theorems, so a proof module instantiates them and cites the theorems   *)
(* as first-order facts.                                                     *)
(***************************************************************************)
EXTENDS Integers, Sequences, FiniteSets, SequencesExt, FiniteSetsExt, SequenceTheorems, FiniteSetTheorems,
        WellFoundedInduction, TLAPS

CONSTANTS
    Op(_, _, _),     \* the handler: state, element, parameter -> state
    Holds(_, _, _, _)   \* the loop invariant: state, elements handled, the queue, parameter

Folded(base, seq, par) == FoldLeft(LAMBDA v, e : Op(v, e, par), base, seq)

\* run[i] is the state after the first i elements.
IsRun(run, base, seq, par) ==
    /\ run = [i \in 0 .. Len(seq) |-> run[i]]
    /\ run[0] = base
    /\ \A i \in 1 .. Len(seq) : run[i] = Op(run[i - 1], seq[i], par)

\* Every handler keeps the loop invariant.
Preserved(seq, par) ==
    \A i \in 1 .. Len(seq) : \A v : Holds(v, i - 1, seq, par) => Holds(Op(v, seq[i], par), i, seq, par)

\* f is the recursive function FoldLeft defines over the subsets of D.
Iter(f, base, seq, par, D) ==
    f = [s \in SUBSET D |-> IF s = {} THEN base
                            ELSE LET x == Max(s) IN Op(f[s \ {x}], seq[x], par)]

------------------------------------------------------------------------------
(* Induction on the naturals for a set, from well-foundedness.             *)

\* < as a relation.
LEMMA NatLess == \A x, y \in Nat : x < y => <<x, y>> \in OpToRel(<, Nat)
  BY DEF OpToRel

\* A set with 0 and all successors is Nat: its least missing element has a
\* predecessor in the set.
LEMMA InductiveSet ==
  ASSUME NEW T, T \subseteq Nat, 0 \in T, \A n \in T : n + 1 \in T
  PROVE  \A n \in Nat : n \in T
  <1> SUFFICES ASSUME Nat \ T # {} PROVE FALSE
    OBVIOUS
  <1>1. PICK x \in Nat \ T : \A y \in Nat \ T : ~ (<<y, x>> \in OpToRel(<, Nat))
    BY WFMin, NatLessThanWellFounded
  <1>2. x \in Nat /\ x # 0 /\ x \notin T
    BY <1>1
  <1>3. x - 1 \in Nat /\ x - 1 < x /\ (x - 1) + 1 = x
    BY <1>2
  <1>4. x - 1 \in T
    BY <1>1, <1>2, <1>3, NatLess
  <1>5. (x - 1) + 1 \in T
    BY <1>4
  <1> QED BY <1>5, <1>2, <1>3

------------------------------------------------------------------------------
(* The folding function exists, so that its definition can be used.          *)

\* The fold takes the last element of a prefix first.
LEMMA MaxIs ==
  ASSUME NEW n \in Nat, NEW s \in SUBSET (1 .. n), n \in s
  PROVE  Max(s) = n
  <1>1. \A y \in s : y \in Int /\ n >= y
    OBVIOUS
  <1>2. \A x \in s : (\A y \in s : x >= y) => x = n
    BY <1>1
  <1> QED BY <1>1, <1>2 DEF Max

\* Every prefix of the queue has its fold: one more element, one more handler.
LEMMA IterExists ==
  ASSUME NEW base, NEW seq, NEW par
  PROVE  \A n \in Nat : \E f : Iter(f, base, seq, par, 1 .. n)
  <1> DEFINE T == {n \in Nat : \E f : Iter(f, base, seq, par, 1 .. n)}
  <1>1. 0 \in T
    <2> DEFINE f == [s \in SUBSET (1 .. 0) |-> base]
    <2>1. \A s \in SUBSET (1 .. 0) : s = {}
      OBVIOUS
    <2>2. Iter(f, base, seq, par, 1 .. 0)
      BY <2>1 DEF Iter
    <2> QED BY <2>2
  <1>2. ASSUME NEW n \in T PROVE n + 1 \in T
    <2>1. n \in Nat OBVIOUS
    <2>2. PICK f : Iter(f, base, seq, par, 1 .. n)
      OBVIOUS
    <2> DEFINE g == [s \in SUBSET (1 .. n + 1) |->
                       IF n + 1 \in s THEN Op(f[s \ {n + 1}], seq[n + 1], par) ELSE f[s]]
    <2>3. ASSUME NEW s \in SUBSET (1 .. n + 1)
          PROVE  g[s] = IF s = {} THEN base ELSE LET x == Max(s) IN Op(g[s \ {x}], seq[x], par)
      <3>1. CASE n + 1 \in s
        <4>1. Max(s) = n + 1
          BY <2>1, <3>1, MaxIs
        <4>2. s \ {n + 1} \in SUBSET (1 .. n + 1) /\ n + 1 \notin s \ {n + 1}
          BY <2>1
        <4>3. g[s \ {n + 1}] = f[s \ {n + 1}]
          BY <4>2
        <4> QED BY <3>1, <4>1, <4>3
      <3>2. CASE n + 1 \notin s
        <4>1. s \in SUBSET (1 .. n)
          BY <2>1, <3>2
        <4>2. g[s] = f[s]
          BY <3>2
        <4>3. f[s] = IF s = {} THEN base ELSE LET x == Max(s) IN Op(f[s \ {x}], seq[x], par)
          BY <2>2, <4>1 DEF Iter
        <4>4. n + 1 \notin s \ {Max(s)} /\ s \ {Max(s)} \in SUBSET (1 .. n + 1)
          BY <3>2
        <4>5. g[s \ {Max(s)}] = f[s \ {Max(s)}]
          BY <4>4
        <4> QED BY <4>2, <4>3, <4>5
      <3> QED BY <3>1, <3>2
    <2>4. Iter(g, base, seq, par, 1 .. n + 1)
      BY <2>3 DEF Iter
    <2> QED BY <2>1, <2>4
  <1> HIDE DEF T
  <1>3. \A n \in Nat : n \in T
    BY <1>1, <1>2, InductiveSet DEF T
  <1> QED BY <1>3 DEF T

------------------------------------------------------------------------------
\* The loop is a run of its handler over the queue, in the order of the queue.
LEMMA FoldLeftRuns ==
  ASSUME NEW base, NEW par, NEW S, NEW seq \in Seq(S)
  PROVE  \E run : IsRun(run, base, seq, par) /\ Folded(base, seq, par) = run[Len(seq)]
  <1> DEFINE n == Len(seq)
             F  == CHOOSE f : Iter(f, base, seq, par, 1 .. n)
             run == [i \in 0 .. n |-> F[1 .. i]]
  <1>1. n \in Nat /\ DOMAIN seq = 1 .. n
    OBVIOUS
  <1>2. Iter(F, base, seq, par, 1 .. n)
    BY <1>1, IterExists
  <1>3. Folded(base, seq, par) = F[1 .. n]
    BY <1>1 DEF Folded, FoldLeft, MapThenFoldSet, Iter
  <1> HIDE DEF F
  <1>4. run[0] = base
    BY <1>1, <1>2 DEF Iter
  <1>5. ASSUME NEW i \in 1 .. n PROVE run[i] = Op(run[i - 1], seq[i], par)
    <2>1. i \in Nat /\ i \in 1 .. i /\ 1 .. i \in SUBSET (1 .. n)
      BY <1>1
    <2>2. Max(1 .. i) = i
      BY <2>1, MaxIs
    <2>3. (1 .. i) \ {i} = 1 .. (i - 1)
      BY <2>1
    <2>a. 1 .. i # {}
      BY <2>1
    <2>4. F[1 .. i] = Op(F[1 .. (i - 1)], seq[i], par)
      BY <1>2, <2>1, <2>2, <2>3, <2>a DEF Iter
    <2> QED BY <1>1, <2>4
  <1> QED
    <2>1. run = [i \in 0 .. n |-> run[i]]
      BY <1>1
    <2>2. Folded(base, seq, par) = run[n]
      BY <1>1, <1>3
    <2> HIDE DEF run
    <2> QED BY <1>4, <1>5, <2>1, <2>2 DEF IsRun

\* What the handler preserves at every element holds after the loop.
LEMMA FoldLeftInvariant ==
  ASSUME NEW base, NEW par, NEW S, NEW seq \in Seq(S), Holds(base, 0, seq, par), Preserved(seq, par)
  PROVE  Holds(Folded(base, seq, par), Len(seq), seq, par)
  <1>1. PICK run : IsRun(run, base, seq, par) /\ Folded(base, seq, par) = run[Len(seq)]
    BY FoldLeftRuns
  <1> DEFINE T == {i \in Nat : i <= Len(seq) => Holds(run[i], i, seq, par)}
  <1>2. Len(seq) \in Nat
    OBVIOUS
  <1>3. 0 \in T
    BY <1>1 DEF IsRun
  <1>4. ASSUME NEW i \in T PROVE i + 1 \in T
    <2>1. i \in Nat /\ (i + 1) - 1 = i
      OBVIOUS
    <2> SUFFICES ASSUME i + 1 <= Len(seq) PROVE Holds(run[i + 1], i + 1, seq, par)
      BY <2>1
    <2>2. i <= Len(seq) /\ i + 1 \in 1 .. Len(seq)
      BY <1>2, <2>1
    <2>3. Holds(run[i], i, seq, par)
      BY <2>2
    <2>4. run[i + 1] = Op(run[i], seq[i + 1], par)
      BY <1>1, <2>1, <2>2 DEF IsRun
    <2>5. Holds(run[i], (i + 1) - 1, seq, par) => Holds(Op(run[i], seq[i + 1], par), i + 1, seq, par)
      BY <2>2 DEF Preserved
    <2> QED BY <2>1, <2>3, <2>4, <2>5
  <1> HIDE DEF T
  <1>5. Len(seq) \in T
    BY <1>2, <1>3, <1>4, InductiveSet DEF T
  <1> QED BY <1>1, <1>2, <1>5 DEF T

\* An empty queue changes nothing.
LEMMA FoldLeftEmpty ==
  ASSUME NEW base, NEW par
  PROVE  Folded(base, <<>>, par) = base
  <1>1. <<>> \in Seq({}) /\ Len(<<>>) = 0
    OBVIOUS
  <1>2. PICK run : IsRun(run, base, <<>>, par) /\ Folded(base, <<>>, par) = run[Len(<<>>)]
    BY <1>1, FoldLeftRuns
  <1> QED BY <1>1, <1>2 DEF IsRun

\* The last element of a queue is handled last.
LEMMA FoldLeftAppend ==
  ASSUME NEW base, NEW par, NEW S, NEW seq \in Seq(S), NEW e \in S
  PROVE  Folded(base, Append(seq, e), par) = Op(Folded(base, seq, par), e, par)
  <1> DEFINE n == Len(seq)
             longer == Append(seq, e)
  <1>1. /\ n \in Nat /\ longer \in Seq(S) /\ Len(longer) = n + 1 /\ longer[n + 1] = e
        /\ \A i \in 1 .. n : longer[i] = seq[i]
    OBVIOUS
  <1>2. PICK run : IsRun(run, base, seq, par) /\ Folded(base, seq, par) = run[n]
    BY FoldLeftRuns
  <1> HIDE DEF longer
  <1>3. PICK more : IsRun(more, base, longer, par) /\ Folded(base, longer, par) = more[Len(longer)]
    BY <1>1, FoldLeftRuns
  <1> DEFINE T == {i \in Nat : i <= n => more[i] = run[i]}
  <1>4. 0 \in T
    BY <1>2, <1>3 DEF IsRun
  <1>5. ASSUME NEW i \in T PROVE i + 1 \in T
    <2>1. i \in Nat /\ (i + 1) - 1 = i
      OBVIOUS
    <2> SUFFICES ASSUME i + 1 <= n PROVE more[i + 1] = run[i + 1]
      BY <2>1
    <2>2. i <= n /\ i + 1 \in 1 .. n /\ i + 1 \in 1 .. Len(longer)
      BY <1>1, <2>1
    <2>3. more[i] = run[i]
      BY <2>2
    <2>4. more[i + 1] = Op(more[(i + 1) - 1], longer[i + 1], par)
      BY <1>3, <2>2 DEF IsRun
    <2>5. run[i + 1] = Op(run[(i + 1) - 1], seq[i + 1], par)
      BY <1>2, <2>2 DEF IsRun
    <2> QED BY <1>1, <2>1, <2>2, <2>3, <2>4, <2>5
  <1> HIDE DEF T
  <1>6. n \in T
    BY <1>1, <1>4, <1>5, InductiveSet DEF T
  <1>7. more[n] = run[n]
    BY <1>1, <1>6 DEF T
  <1>8. more[n + 1] = Op(more[(n + 1) - 1], longer[n + 1], par)
    <2>1. n + 1 \in 1 .. Len(longer)
      BY <1>1
    <2> QED BY <1>3, <2>1 DEF IsRun
  <1>9. (n + 1) - 1 = n
    BY <1>1
  <1> QED BY <1>1, <1>2, <1>3, <1>7, <1>8, <1>9 DEF longer

------------------------------------------------------------------------------
(* Loops over a set, in any order (FoldSet).                               *)

FoldedSet(base, S, par) == FoldSet(LAMBDA e, v : Op(v, e, par), base, S)

\* One handler more over a set: its element e is handled last.
SetStep(g, s, base, par) ==
    IF s = {} THEN base ELSE LET x == CHOOSE y \in s : TRUE IN Op(g[s \ {x}], x, par)

\* g is the recursive function FoldSet defines over the subsets of S.
SetIter(g, base, S, par) == g = [s \in SUBSET S |-> SetStep(g, s, base, par)]

\* Every handler keeps the loop invariant, whatever was handled before.
SetPreserved(S, par) ==
    \A done \in SUBSET S : \A e \in S \ done : \A v :
      Holds(v, done, S, par) => Holds(Op(v, e, par), done \cup {e}, S, par)

\* A subset of a finite set and what is left of it without one element.
LEMMA SmallerSet ==
  ASSUME NEW S, IsFiniteSet(S), NEW s \in SUBSET S, s # {}
  PROVE  LET x == CHOOSE y \in s : TRUE
         IN  /\ x \in s /\ s \ {x} \in SUBSET S /\ (s \ {x}) \cup {x} = s
             /\ Cardinality(s) \in Nat /\ Cardinality(s \ {x}) = Cardinality(s) - 1
             /\ Cardinality(s) <= Cardinality(S)
  <1> DEFINE x == CHOOSE y \in s : TRUE
  <1>1. x \in s
    OBVIOUS
  <1> HIDE DEF x
  <1>2. IsFiniteSet(s) /\ Cardinality(s) <= Cardinality(S)
    BY FS_Subset
  <1>3. Cardinality(s) \in Nat
    BY <1>2, FS_CardinalityType
  <1>4. Cardinality(s \ {x}) = Cardinality(s) - 1
    BY <1>1, <1>2, FS_RemoveElement
  <1>5. s \ {x} \in SUBSET S /\ (s \ {x}) \cup {x} = s
    BY <1>1
  <1> QED BY <1>1, <1>2, <1>3, <1>4, <1>5 DEF x

\* The folding function exists: by the size of the subsets.
LEMMA SetIterExists ==
  ASSUME NEW base, NEW par, NEW S, IsFiniteSet(S)
  PROVE  \E g : SetIter(g, base, S, par)
  <1> DEFINE Good(g, n) == /\ g = [s \in SUBSET S |-> g[s]]
                           /\ \A s \in SUBSET S : Cardinality(s) <= n => g[s] = SetStep(g, s, base, par)
             T == {n \in Nat : \E g : Good(g, n)}
  <1>0. Cardinality(S) \in Nat
    BY FS_CardinalityType
  <1>a. ASSUME NEW s \in SUBSET S PROVE Cardinality(s) \in Nat /\ (Cardinality(s) = 0 <=> s = {}) /\ Cardinality(s) <= Cardinality(S)
    BY FS_Subset, FS_CardinalityType, FS_EmptySet
  <1>1. 0 \in T
    <2> DEFINE g == [s \in SUBSET S |-> base]
    <2>1. ASSUME NEW s \in SUBSET S, Cardinality(s) <= 0 PROVE s = {}
      BY <1>a, <2>1
    <2>2. Good(g, 0)
      BY <2>1 DEF SetStep
    <2> QED BY <2>2
  <1>2. ASSUME NEW n \in T PROVE n + 1 \in T
    <2>1. n \in Nat
      OBVIOUS
    <2>2. PICK g : Good(g, n)
      OBVIOUS
    <2> DEFINE h == [s \in SUBSET S |-> IF Cardinality(s) <= n THEN g[s] ELSE SetStep(g, s, base, par)]
    <2>3. ASSUME NEW s \in SUBSET S, Cardinality(s) <= n + 1
          PROVE  h[s] = SetStep(h, s, base, par)
      <3>1. h[s] = SetStep(g, s, base, par)
        BY <2>2
      <3>2. CASE s = {}
        BY <3>1, <3>2 DEF SetStep
      <3>3. CASE s # {}
        <4> DEFINE x == CHOOSE y \in s : TRUE
        <4>1. s \ {x} \in SUBSET S /\ Cardinality(s) \in Nat /\ Cardinality(s \ {x}) = Cardinality(s) - 1
          BY <3>3, SmallerSet
        <4>2. Cardinality(s \ {x}) <= n
          BY <2>1, <2>3, <4>1
        <4>3. h[s \ {x}] = g[s \ {x}]
          BY <4>1, <4>2
        <4> QED BY <3>1, <3>3, <4>3 DEF SetStep
      <3> QED BY <3>2, <3>3
    <2>4. h = [s \in SUBSET S |-> h[s]]
      OBVIOUS
    <2> HIDE DEF h
    <2>5. Good(h, n + 1)
      BY <2>3, <2>4
    <2>6. n + 1 \in Nat
      BY <2>1
    <2> HIDE DEF Good
    <2>7. \E f : Good(f, n + 1)
      BY <2>5
    <2> QED BY <2>6, <2>7
  <1> HIDE DEF T
  <1>3. Cardinality(S) \in T
    BY <1>0, <1>1, <1>2, InductiveSet DEF T
  <1>4. PICK g : Good(g, Cardinality(S))
    BY <1>3 DEF T
  <1>5. \A s \in SUBSET S : g[s] = SetStep(g, s, base, par)
    BY <1>4, <1>a
  <1>6. SetIter(g, base, S, par)
    BY <1>4, <1>5 DEF SetIter
  <1> QED BY <1>6

\* FoldSet is that function at the whole set.
LEMMA FoldedSetIs ==
  ASSUME NEW base, NEW par, NEW S, IsFiniteSet(S)
  PROVE  \E g : SetIter(g, base, S, par) /\ FoldedSet(base, S, par) = g[S]
  <1> DEFINE G == CHOOSE g : SetIter(g, base, S, par)
  <1>1. SetIter(G, base, S, par)
    BY SetIterExists
  <1>2. FoldedSet(base, S, par) = G[S]
    BY DEF FoldedSet, FoldSet, MapThenFoldSet, SetIter, SetStep
  <1> QED BY <1>1, <1>2

\* What the handler preserves at every element, whatever the order, holds after
\* the loop over a finite set.
LEMMA FoldSetInvariant ==
  ASSUME NEW base, NEW par, NEW S, IsFiniteSet(S), Holds(base, {}, S, par), SetPreserved(S, par)
  PROVE  Holds(FoldedSet(base, S, par), S, S, par)
  <1>1. PICK g : SetIter(g, base, S, par) /\ FoldedSet(base, S, par) = g[S]
    BY FoldedSetIs
  <1> DEFINE T == {n \in Nat : \A s \in SUBSET S : Cardinality(s) = n => Holds(g[s], s, S, par)}
  <1>a. ASSUME NEW s \in SUBSET S PROVE Cardinality(s) \in Nat /\ (Cardinality(s) = 0 <=> s = {})
    BY FS_Subset, FS_CardinalityType, FS_EmptySet
  <1>2. \A s \in SUBSET S : g[s] = SetStep(g, s, base, par)
    BY <1>1 DEF SetIter
  <1>3. 0 \in T
    <2> SUFFICES ASSUME NEW s \in SUBSET S, Cardinality(s) = 0 PROVE Holds(g[s], s, S, par)
      OBVIOUS
    <2>1. s = {}
      BY <1>a
    <2>2. g[{}] = base
      BY <1>2 DEF SetStep
    <2> QED BY <2>1, <2>2
  <1>4. ASSUME NEW n \in T PROVE n + 1 \in T
    <2>1. n \in Nat
      OBVIOUS
    <2> SUFFICES ASSUME NEW s \in SUBSET S, Cardinality(s) = n + 1 PROVE Holds(g[s], s, S, par)
      BY <2>1
    <2>2. s # {}
      BY <1>a, <2>1
    <2> DEFINE x == CHOOSE y \in s : TRUE
               d == s \ {x}
    <2>3. x \in s /\ d \in SUBSET S /\ d \cup {x} = s /\ Cardinality(d) = Cardinality(s) - 1
      BY <2>2, SmallerSet
    <2>4. g[s] = Op(g[d], x, par)
      BY <1>2, <2>2 DEF SetStep
    <2> HIDE DEF x
    <2>5. Cardinality(d) = n /\ x \in S \ d
      BY <2>1, <2>3
    <2>6. Holds(g[d], d, S, par)
      BY <2>3, <2>5
    <2> HIDE DEF d
    <2>7. Holds(Op(g[d], x, par), d \cup {x}, S, par)
      BY <2>3, <2>5, <2>6 DEF SetPreserved
    <2> QED BY <2>3, <2>4, <2>7
  <1> HIDE DEF T
  <1>5. Cardinality(S) \in Nat
    BY <1>a
  <1>6. Cardinality(S) \in T
    BY <1>3, <1>4, <1>5, InductiveSet DEF T
  <1> QED BY <1>1, <1>6 DEF T

------------------------------------------------------------------------------
(* Taking one element out of a queue.                                      *)

\* A set of naturals has a least element.
LEMMA LeastIn ==
  ASSUME NEW I, I \subseteq Nat, I # {}
  PROVE  \E x \in I : \A y \in I : x <= y
  <1>1. PICK x \in I : \A y \in I : ~ (<<y, x>> \in OpToRel(<, Nat))
    BY WFMin, NatLessThanWellFounded
  <1>2. ASSUME NEW y \in I PROVE x <= y
    <2>1. x \in Nat /\ y \in Nat
      BY <1>1
    <2>2. ~ (y < x)
      BY <1>1, <2>1, NatLess
    <2> QED BY <2>1, <2>2
  <1> QED BY <1>2

\* It is Min of the set.
LEMMA MinIn ==
  ASSUME NEW I, I \subseteq Nat, I # {}
  PROVE  Min(I) \in I
  BY LeastIn DEF Min

\* RemoveAt closes the gap at i.
LEMMA RemoveAtIs ==
  ASSUME NEW S, NEW s \in Seq(S), NEW i \in 1 .. Len(s)
  PROVE  /\ RemoveAt(s, i) \in Seq(S) /\ Len(RemoveAt(s, i)) = Len(s) - 1
         /\ \A j \in 1 .. Len(s) - 1 : RemoveAt(s, i)[j] = IF j < i THEN s[j] ELSE s[j + 1]
  <1> DEFINE a == SubSeq(s, 1, i - 1)
             b == SubSeq(s, i + 1, Len(s))
  <1>1. Len(s) \in Nat /\ i \in Nat /\ i >= 1 /\ i <= Len(s) /\ i - 1 \in Int /\ i + 1 \in Int
    OBVIOUS
  <1>2. \A k \in 1 .. Len(s) : s[k] \in S
    BY ElementOfSeq
  <1>3. (\A k \in 1 .. i - 1 : s[k] \in S) /\ (\A k \in i + 1 .. Len(s) : s[k] \in S)
    BY <1>1, <1>2
  <1>4. /\ a \in Seq(S) /\ Len(a) = IF 1 <= i - 1 THEN (i - 1) - 1 + 1 ELSE 0
        /\ \A k \in 1 .. (i - 1) - 1 + 1 : a[k] = s[1 + k - 1]
    BY <1>1, <1>3, SubSeqProperties
  <1>5. /\ b \in Seq(S) /\ Len(b) = IF i + 1 <= Len(s) THEN Len(s) - (i + 1) + 1 ELSE 0
        /\ \A k \in 1 .. Len(s) - (i + 1) + 1 : b[k] = s[(i + 1) + k - 1]
    BY <1>1, <1>3, SubSeqProperties
  <1> HIDE DEF a, b
  <1>6. Len(a) = i - 1 /\ \A k \in 1 .. i - 1 : a[k] = s[k]
    <2>1. Len(a) = i - 1
      BY <1>1, <1>4
    <2>2. ASSUME NEW k \in 1 .. i - 1 PROVE a[k] = s[k]
      <3>1. k \in 1 .. (i - 1) - 1 + 1 /\ 1 + k - 1 = k
        BY <1>1
      <3> QED BY <1>4, <3>1
    <2> QED BY <2>1, <2>2
  <1>7. Len(b) = Len(s) - i
    BY <1>1, <1>5
  <1>8. RemoveAt(s, i) = a \o b
    BY DEF RemoveAt, a, b
  <1>9. /\ a \o b \in Seq(S) /\ Len(a \o b) = Len(a) + Len(b)
        /\ \A k \in 1 .. Len(a) + Len(b) : (a \o b)[k] = IF k <= Len(a) THEN a[k] ELSE b[k - Len(a)]
    BY <1>4, <1>5, ConcatProperties
  <1>10. Len(a) + Len(b) = Len(s) - 1
    BY <1>1, <1>6, <1>7
  <1>11. ASSUME NEW j \in 1 .. Len(s) - 1 PROVE (a \o b)[j] = IF j < i THEN s[j] ELSE s[j + 1]
    <2>1. (a \o b)[j] = IF j <= Len(a) THEN a[j] ELSE b[j - Len(a)]
      BY <1>9, <1>10
    <2>2. CASE j < i
      BY <1>1, <1>6, <2>1, <2>2
    <2>3. CASE ~(j < i)
      <3> DEFINE k == j - (i - 1)
      <3>1. k \in 1 .. Len(s) - (i + 1) + 1 /\ (i + 1) + k - 1 = j + 1 /\ ~(j <= Len(a))
        BY <1>1, <1>6, <2>3
      <3>2. b[k] = s[j + 1]
        BY <1>5, <3>1
      <3> QED BY <1>6, <2>1, <2>3, <3>1, <3>2
    <2> QED BY <2>2, <2>3
  <1> QED BY <1>8, <1>9, <1>10, <1>11

Without(s, e) == RemoveFirst(s, e)

\* h is s without its element at i.
Closed(S, s, h, i) ==
    /\ h \in Seq(S) /\ Len(h) = Len(s) - 1
    /\ \A j \in 1 .. Len(s) - 1 : h[j] = IF j < i THEN s[j] ELSE s[j + 1]

\* cancelReadySetup's loop: one element e leaves, the others keep their order.
LEMMA WithoutIs ==
  ASSUME NEW S, NEW s \in Seq(S), NEW e, \E i \in 1 .. Len(s) : s[i] = e
  PROVE  \E i \in 1 .. Len(s) : s[i] = e /\ Closed(S, s, Without(s, e), i)
  <1> DEFINE I == {i \in 1 .. Len(s) : s[i] = e}
  <1>1. I \subseteq Nat /\ I # {}
    OBVIOUS
  <1>2. Without(s, e) = RemoveAt(s, Min(I))
    BY <1>1 DEF Without, RemoveFirst, SelectInSeq
  <1>3. Min(I) \in I
    BY <1>1, MinIn
  <1> DEFINE i == Min(I)
  <1>4. i \in 1 .. Len(s) /\ s[i] = e
    BY <1>3
  <1> HIDE DEF i
  <1>5. Closed(S, s, RemoveAt(s, i), i)
    BY <1>4, RemoveAtIs DEF Closed
  <1>6. Without(s, e) = RemoveAt(s, i)
    BY <1>2 DEF i
  <1> QED BY <1>4, <1>5, <1>6

\* Of a queue that holds each element once, the others stay, each once.
LEMMA WithoutKeeps ==
  ASSUME NEW S, NEW s \in Seq(S), NEW e, \A i, j \in DOMAIN s : s[i] = s[j] => i = j
  PROVE  /\ Without(s, e) \in Seq(S)
         /\ \A i \in DOMAIN Without(s, e) : \E j \in DOMAIN s : Without(s, e)[i] = s[j]
         /\ \A i \in DOMAIN Without(s, e) : Without(s, e)[i] # e
         /\ \A i, j \in DOMAIN Without(s, e) : Without(s, e)[i] = Without(s, e)[j] => i = j
  <1> DEFINE h == Without(s, e)
  <1>2. Len(s) \in Nat /\ DOMAIN s = 1 .. Len(s)
    OBVIOUS
  <1>3. CASE \E i \in 1 .. Len(s) : s[i] = e
    <2>0. PICK i \in 1 .. Len(s) : s[i] = e /\ Closed(S, s, h, i)
      BY <1>3, WithoutIs
    <2> HIDE DEF h
    <2>1. /\ s[i] = e
          /\ h \in Seq(S) /\ Len(h) = Len(s) - 1
          /\ \A j \in 1 .. Len(s) - 1 : h[j] = IF j < i THEN s[j] ELSE s[j + 1]
      BY <2>0 DEF Closed
    <2>2. i \in Nat
      OBVIOUS
    <2>3. DOMAIN h = 1 .. Len(s) - 1
      BY <2>1
    <2> DEFINE at(j) == IF j < i THEN j ELSE j + 1
    <2>4. ASSUME NEW j \in DOMAIN h
          PROVE  at(j) \in 1 .. Len(s) /\ h[j] = s[at(j)] /\ at(j) # i
      BY <1>2, <2>1, <2>2, <2>3
    <2>5. ASSUME NEW j \in DOMAIN h, NEW k \in DOMAIN h, at(j) = at(k) PROVE j = k
      BY <1>2, <2>2, <2>3, <2>5
    <2> HIDE DEF at
    <2>6. ASSUME NEW j \in DOMAIN h PROVE h[j] # e
      BY <1>2, <2>1, <2>4
    <2>7. ASSUME NEW j \in DOMAIN h, NEW k \in DOMAIN h, h[j] = h[k] PROVE j = k
      BY <1>2, <2>4, <2>5, <2>7
    <2>8. ASSUME NEW j \in DOMAIN h PROVE \E k \in DOMAIN s : h[j] = s[k]
      BY <1>2, <2>4
    <2> QED BY <2>1, <2>6, <2>7, <2>8 DEF h
  <1>4. CASE ~ \E i \in 1 .. Len(s) : s[i] = e
    <2>1. h = s
      BY <1>4 DEF Without, RemoveFirst
    <2> QED BY <1>2, <1>4, <2>1
  <1> QED BY <1>3, <1>4
==============================================================================
