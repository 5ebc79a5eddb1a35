--------------------------- MODULE AlgorithmsProofs ---------------------------
(* What the algorithms return, for every input: the order of the evidence, the *)
(* markers of an answer, the query plan, the record of an evaluation and the   *)
(* two verdicts.                                                               *)
(*                                                                            *)
(* The inductive invariant, Computed, only says that a result is what the     *)
(* algorithm makes of its input.  The work is in the lemmas about the         *)
(* algorithms.  Those that fold over a sequence or sum over a set are read by *)
(* induction over the positions or the subsets, and SetInduction is that      *)
(* induction: on sets of numbers, where a rule with a formula as a parameter  *)
(* could not be instantiated.                                                 *)
EXTENDS Algorithms, FiniteSetTheorems, SequenceTheorems, WellFoundedInduction, TLAPS

-----------------------------------------------------------------------------
(* Induction and recursion: what is defined by a first value and a step exists. *)

(* Induction, on sets of numbers rather than on formulas. *)
LEMMA SetInduction ==
  ASSUME NEW T, 0 \in T, \A n \in Nat : n \in T => n + 1 \in T
  PROVE  Nat \subseteq T
<1> DEFINE Missing == Nat \ T
           Less == {ss \in Nat \X Nat : ss[1] < ss[2]}
<1>1. OpToRel(<, Nat) = Less
  BY Zenon DEF OpToRel
<1>2. ASSUME Missing # {} PROVE FALSE
  <2>1. PICK x \in Missing : \A y \in Missing : <<y, x>> \notin Less
    BY <1>1, <1>2, NatLessThanWellFounded, WFMin, ZenonT(30)
  <2>2. x \in Nat /\ x # 0 /\ x - 1 \in Nat
    BY <2>1
  <2>3. x - 1 \in T
    <3>1. <<x - 1, x>> \in Less
      BY <2>2
    <3> QED
      BY <2>1, <2>2, <3>1
  <2>4. (x - 1) + 1 \in T
    BY <2>2, <2>3
  <2> QED
    BY <2>1, <2>2, <2>4
<1> QED
  BY <1>2

Recursive(f, V, base, step) ==
  /\ f \in [Nat -> V]
  /\ f[0] = base
  /\ \A n \in Nat : f[n + 1] = step[<<n, f[n]>>]

(* A function is defined by its first value and the step from one to the next. *)
LEMMA Recursion ==
  ASSUME NEW V, NEW base \in V, NEW step \in [Nat \X V -> V]
  PROVE  \E f : Recursive(f, V, base, step)
<1> DEFINE Part(f, n) == /\ f \in [0 .. n -> V]
                         /\ f[0] = base
                         /\ \A i \in 0 .. n - 1 : f[i + 1] = step[<<i, f[i]>>]
<1>1. ASSUME NEW n \in Nat PROVE \E f : Part(f, n)
  <2> DEFINE T == {k \in Nat : \E f : Part(f, k)}
  <2>1. 0 \in T
    <3> Part([i \in 0 .. 0 |-> base], 0)
      OBVIOUS
    <3> QED
      OBVIOUS
  <2>2. ASSUME NEW k \in Nat, k \in T PROVE k + 1 \in T
    <3>1. PICK f : Part(f, k)
      BY <2>2
    <3> DEFINE v == step[<<k, f[k]>>]
               g == [i \in 0 .. k + 1 |-> IF i = k + 1 THEN v ELSE f[i]]
    <3>2. v \in V
      BY <3>1
    <3>3. g \in [0 .. k + 1 -> V]
      <4> HIDE DEF v
      <4> QED BY <3>1, <3>2
    <3>4. g[0] = base
      BY <3>1
    <3>5. ASSUME NEW i \in 0 .. (k + 1) - 1 PROVE g[i + 1] = step[<<i, g[i]>>]
      <4>1. i \in 0 .. k /\ i + 1 \in 0 .. k + 1 /\ g[i] = f[i]
        OBVIOUS
      <4>2. CASE i = k
        BY <4>1, <4>2
      <4>3. CASE i # k
        <5>1. i \in 0 .. k - 1 /\ g[i + 1] = f[i + 1]
          BY <4>1, <4>3
        <5> QED
          BY <3>1, <4>1, <5>1
      <4> QED
        BY <4>2, <4>3
    <3>6. Part(g, k + 1)
      <4> HIDE DEF g
      <4> QED BY <3>3, <3>4, <3>5
    <3> HIDE DEF Part
    <3> QED
      BY <3>6
  <2>3. Nat \subseteq T
    <3> HIDE DEF T
    <3> QED BY <2>1, <2>2, SetInduction
  <2> HIDE DEF Part
  <2> QED
    BY <2>3
<1>2. ASSUME NEW m \in Nat, NEW n \in Nat, m <= n, NEW f, NEW g, Part(f, m), Part(g, n)
      PROVE  f[m] = g[m]
  <2> DEFINE T == {i \in Nat : i <= m => f[i] = g[i]}
  <2>1. 0 \in T
    BY <1>2
  <2>2. ASSUME NEW i \in Nat, i \in T PROVE i + 1 \in T
    <3>1. SUFFICES ASSUME i + 1 <= m PROVE f[i + 1] = g[i + 1]
      OBVIOUS
    <3>2. i \in 0 .. m - 1 /\ i \in 0 .. n - 1 /\ f[i] = g[i]
      BY <2>2, <3>1, <1>2
    <3> QED
      BY <3>2, <1>2
  <2>3. Nat \subseteq T
    <3> HIDE DEF T
    <3> QED BY <2>1, <2>2, SetInduction
  <2> QED
    BY <2>3
<1> DEFINE h(n) == CHOOSE f : Part(f, n)
           F == [n \in Nat |-> h(n)[n]]
<1>3. ASSUME NEW n \in Nat PROVE Part(h(n), n)
  <2> HIDE DEF Part
  <2> QED
    BY <1>1
<1>4. ASSUME NEW n \in Nat PROVE h(n)[n] \in V
  <2>1. h(n) \in [0 .. n -> V]
    BY <1>3
  <2> HIDE DEF h
  <2> QED
    BY <2>1
<1>5. F \in [Nat -> V]
  <2> HIDE DEF h
  <2> QED BY <1>4
<1>6. F[0] = base
  <2>1. h(0)[0] = base
    BY <1>3
  <2> HIDE DEF h
  <2> QED BY <2>1
<1>7. ASSUME NEW n \in Nat PROVE F[n + 1] = step[<<n, F[n]>>]
  <2>1. Part(h(n + 1), n + 1) /\ Part(h(n), n)
    BY <1>3, n + 1 \in Nat
  <2>2. h(n + 1)[n + 1] = step[<<n, h(n + 1)[n]>>]
    <3>1. \A i \in 0 .. (n + 1) - 1 : h(n + 1)[i + 1] = step[<<i, h(n + 1)[i]>>]
      BY <2>1
    <3> HIDE DEF h
    <3> QED BY <3>1
  <2>3. h(n)[n] = h(n + 1)[n]
    <3> HIDE DEF h, Part
    <3> QED BY <2>1, <1>2, n + 1 \in Nat, n <= n + 1
  <2>4. F[n + 1] = h(n + 1)[n + 1] /\ F[n] = h(n)[n]
    <3> HIDE DEF h
    <3> QED BY n + 1 \in Nat
  <2> HIDE DEF h, F
  <2> QED
    BY <2>2, <2>3, <2>4
<1> HIDE DEF F
<1> QED
  BY <1>5, <1>6, <1>7 DEF Recursive

Folding(f, S, V, base, pick, step) ==
  /\ f \in [SUBSET S -> V]
  /\ f[{}] = base
  /\ \A s \in (SUBSET S) \ {{}} : f[s] = step[<<pick[s], f[s \ {pick[s]}]>>]

(* So is one on the subsets of a finite set, by the step from a set without *)
(* one of its elements. *)
LEMMA SubsetRecursion ==
  ASSUME NEW S, IsFiniteSet(S), NEW V, NEW base \in V,
         NEW pick \in [(SUBSET S) \ {{}} -> S], \A s \in (SUBSET S) \ {{}} : pick[s] \in s,
         NEW step \in [S \X V -> V]
  PROVE  \E f : Folding(f, S, V, base, pick, step)
<1> DEFINE W == [SUBSET S -> V]
           next(g) == [s \in SUBSET S |-> IF s = {} THEN base
                                          ELSE step[<<pick[s], g[s \ {pick[s]}]>>]]
           Step == [p \in Nat \X W |-> next(p[2])]
           start == [s \in SUBSET S |-> base]
<1>1. \A g \in W : next(g) \in W
  OBVIOUS
<1>2. start \in W /\ Step \in [Nat \X W -> W]
  BY <1>1
<1>3. PICK g \in [Nat -> W] : g[0] = start /\ \A n \in Nat : g[n + 1] = Step[<<n, g[n]>>]
  <2>1. start \in W
    BY <1>2
  <2>2. Step \in [Nat \X W -> W]
    BY <1>2
  <2>3. \E g : Recursive(g, W, start, Step)
    <3> HIDE DEF W, Step, start, next
    <3> QED BY <2>1, <2>2, Recursion
  <2> HIDE DEF W, Step, start, next
  <2> QED BY <2>3 DEF Recursive
<1>4. \A n \in Nat : g[n] \in W /\ g[n + 1] = next(g[n])
  <2> HIDE DEF W, next
  <2> QED BY <1>3
<1>5. \A s \in SUBSET S : IsFiniteSet(s) /\ Cardinality(s) \in Nat
  BY FS_Subset, FS_CardinalityType
<1> DEFINE T == {n \in Nat : \A s \in SUBSET S : Cardinality(s) <= n => g[n + 1][s] = g[n][s]}
<1>6. 0 \in T
  <2>1. ASSUME NEW s \in SUBSET S, Cardinality(s) <= 0 PROVE s = {}
    BY <2>1, <1>5, FS_EmptySet
  <2>2. g[1] = next(g[0])
    <3> HIDE DEF next, W
    <3> QED
      BY <1>4, 0 \in Nat, 0 + 1 = 1
  <2>3. next(g[0])[{}] = base /\ g[0][{}] = base
    BY <1>3
  <2>4. \A s \in SUBSET S : Cardinality(s) <= 0 => g[0 + 1][s] = g[0][s]
    <3> HIDE DEF next, W
    <3> QED
      BY <2>1, <2>2, <2>3, 0 + 1 = 1
  <2> QED
    BY <2>4
<1>7. ASSUME NEW n \in Nat, n \in T PROVE n + 1 \in T
  <2>1. ASSUME NEW s \in SUBSET S, Cardinality(s) <= n + 1
        PROVE  next(g[n + 1])[s] = next(g[n])[s]
    <3>1. CASE s = {}
      BY <3>1
    <3>2. CASE s # {}
      <4> DEFINE r == s \ {pick[s]}
      <4>1. r \in SUBSET S /\ Cardinality(r) = Cardinality(s) - 1
        BY <3>2, <1>5, FS_RemoveElement
      <4>2. g[n + 1][r] = g[n][r]
        BY <1>7, <4>1, <1>5, <2>1
      <4>3. \A x \in W : next(x)[s] = step[<<pick[s], x[r]>>]
        BY <3>2
      <4>4. g[n + 1] \in W /\ g[n] \in W
        <5> HIDE DEF W, next
        <5> QED
          BY <1>4, n + 1 \in Nat
      <4> HIDE DEF W, next, r
      <4> QED
        BY <4>2, <4>3, <4>4
    <3> QED
      BY <3>1, <3>2
  <2>2. g[n + 2] = next(g[n + 1]) /\ g[n + 1] = next(g[n])
    <3>1. n + 1 \in Nat /\ (n + 1) + 1 = n + 2
      OBVIOUS
    <3> HIDE DEF next, W
    <3> QED
      BY <1>4, <3>1
  <2>3. \A s \in SUBSET S : Cardinality(s) <= n + 1 => g[(n + 1) + 1][s] = g[n + 1][s]
    <3>1. (n + 1) + 1 = n + 2
      OBVIOUS
    <3> HIDE DEF next, W
    <3> QED
      BY <2>1, <2>2, <3>1
  <2> QED
    BY <2>3
<1>8. Nat \subseteq T
  <2> HIDE DEF T
  <2> QED BY <1>6, <1>7, SetInduction
<1> DEFINE N == Cardinality(S)
           f == g[N]
<1>9. N \in Nat /\ \A s \in SUBSET S : Cardinality(s) <= N
  BY <1>5, FS_Subset
<1>10. \A s \in SUBSET S : g[N + 1][s] = g[N][s]
  BY <1>8, <1>9
<1>11. \A s \in SUBSET S : f[s] = next(f)[s]
  BY <1>4, <1>9, <1>10
<1>12. f \in W
  BY <1>4, <1>9
<1> QED
  BY <1>11, <1>12 DEF Folding

-----------------------------------------------------------------------------
(* Folds of the community modules: FoldLeft, FlattenSeq.                      *)

(* The largest element of a set of positions. *)
LEMMA MaxIn ==
  ASSUME NEW n \in Nat, NEW s \in SUBSET (1 .. n), s # {}
  PROVE  Max(s) \in s /\ \A x \in s : x <= Max(s)
<1> DEFINE T == {k \in Nat : \A r \in SUBSET (1 .. k) : r # {} => \E x \in r : \A y \in r : x >= y}
<1>1. 0 \in T
  <2>1. \A r \in SUBSET (1 .. 0) : r = {}
    OBVIOUS
  <2> QED
    BY <2>1
<1>2. ASSUME NEW k \in Nat, k \in T PROVE k + 1 \in T
  <2>1. ASSUME NEW r \in SUBSET (1 .. k + 1), r # {}
        PROVE  \E x \in r : \A y \in r : x >= y
    <3>1. CASE k + 1 \in r
      BY <3>1
    <3>2. CASE k + 1 \notin r
      <4>1. r \in SUBSET (1 .. k)
        BY <3>2
      <4> QED
        BY <4>1, <2>1, <1>2
    <3> QED
      BY <3>1, <3>2
  <2> QED
    BY <2>1
<1>3. Nat \subseteq T
  <2> HIDE DEF T
  <2> QED BY <1>1, <1>2, SetInduction
<1>4. PICK x \in s : \A y \in s : x >= y
  BY <1>3
<1>5. Max(s) \in s /\ \A y \in s : Max(s) >= y
  BY <1>4 DEF Max
<1> QED
  BY <1>5

(* A prefix of the positions is the one before with its last position. *)
LEMMA MaxOfPrefix ==
  ASSUME NEW n \in Nat, n # 0
  PROVE  Max(1 .. n) = n /\ (1 .. n) \ {n} = 1 .. n - 1
<1>1. Max(1 .. n) \in 1 .. n /\ \A x \in 1 .. n : x <= Max(1 .. n)
  BY MaxIn, n \in 1 .. n
<1> QED
  BY <1>1

(* A fold from the left is what its steps, taken from the first element on, *)
(* lead to. *)
LeftFold(iter, n, base, step) ==
  /\ iter[{}] = base
  /\ \A s \in (SUBSET (1 .. n)) \ {{}} : iter[s] = step[<<Max(s), iter[s \ {Max(s)}]>>]

LEMMA LeftFoldExists ==
  ASSUME NEW n \in Nat, NEW V, NEW base \in V, NEW step \in [(1 .. n) \X V -> V]
  PROVE  \E f \in [SUBSET (1 .. n) -> V] : LeftFold(f, n, base, step)
<1> DEFINE pick == [s \in (SUBSET (1 .. n)) \ {{}} |-> Max(s)]
<1>1. pick \in [(SUBSET (1 .. n)) \ {{}} -> 1 .. n]
      /\ \A s \in (SUBSET (1 .. n)) \ {{}} : pick[s] \in s /\ pick[s] = Max(s)
  BY MaxIn
<1>2. IsFiniteSet(1 .. n)
  BY FS_Interval
<1>3. PICK f : Folding(f, 1 .. n, V, base, pick, step)
  <2> HIDE DEF pick
  <2> QED BY <1>1, <1>2, SubsetRecursion
<1>4. LeftFold(f, n, base, step)
  <2> HIDE DEF pick
  <2> QED BY <1>1, <1>3 DEF Folding, LeftFold
<1> QED
  BY <1>3, <1>4 DEF Folding

(* The flattening of a sequence of sequences. *)
Flattening(f, seqs) ==
  f = [i \in 1 .. Len(seqs) |-> IF i = 1 THEN seqs[i] ELSE f[i - 1] \o seqs[i]]

(* The function that FlattenSeq chooses exists, and its values are sequences. *)
LEMMA FlattenExists ==
  ASSUME NEW T, NEW seqs \in Seq(Seq(T)), seqs # <<>>
  PROVE  \E f : /\ Flattening(f, seqs)
                /\ FlattenSeq(seqs) = f[Len(seqs)]
                /\ f \in [1 .. Len(seqs) -> Seq(T)]
<1> DEFINE n == Len(seqs)
           step == [p \in Nat \X Seq(T) |-> IF p[1] + 1 \in 1 .. n THEN p[2] \o seqs[p[1] + 1] ELSE <<>>]
<1>1. n \in Nat /\ n >= 1 /\ \A i \in 1 .. n : seqs[i] \in Seq(T)
  OBVIOUS
<1>2. step \in [Nat \X Seq(T) -> Seq(T)]
  <2> SUFFICES ASSUME NEW p \in Nat \X Seq(T)
               PROVE  (IF p[1] + 1 \in 1 .. n THEN p[2] \o seqs[p[1] + 1] ELSE <<>>) \in Seq(T)
    OBVIOUS
  <2>1. CASE p[1] + 1 \in 1 .. n
    BY <2>1, <1>1
  <2>2. CASE ~(p[1] + 1 \in 1 .. n)
    BY <2>2
  <2> QED
    BY <2>1, <2>2
<1>3. PICK h : Recursive(h, Seq(T), <<>>, step)
  <2>1. <<>> \in Seq(T)
    OBVIOUS
  <2> HIDE DEF step
  <2> QED BY <1>2, <2>1, Recursion
<1> DEFINE g == [i \in 1 .. n |-> h[i]]
<1>4. h \in [Nat -> Seq(T)] /\ h[0] = <<>>
      /\ \A i \in 1 .. n : h[i] = h[i - 1] \o seqs[i]
  <2>1. h \in [Nat -> Seq(T)] /\ h[0] = <<>> /\ \A i \in Nat : h[i + 1] = step[<<i, h[i]>>]
    BY <1>3 DEF Recursive
  <2>2. ASSUME NEW i \in 1 .. n PROVE h[i] = h[i - 1] \o seqs[i]
    <3>1. i - 1 \in Nat /\ (i - 1) + 1 = i /\ h[i - 1] \in Seq(T)
      BY <2>1
    <3>2. h[i] = step[<<i - 1, h[i - 1]>>]
      BY <2>1, <3>1
    <3> QED
      BY <3>1, <3>2
  <2> QED
    BY <2>1, <2>2
<1>5. g \in [1 .. n -> Seq(T)]
  BY <1>4
<1>6. Flattening(g, seqs)
  <2>1. ASSUME NEW i \in 1 .. n
        PROVE  g[i] = IF i = 1 THEN seqs[i] ELSE g[i - 1] \o seqs[i]
    <3>1. CASE i = 1
      <4>1. h[1] = h[0] \o seqs[1] /\ seqs[1] \in Seq(T)
        BY <1>1, <1>4, 1 \in 1 .. n, 1 - 1 = 0
      <4>2. h[1] = seqs[1]
        BY <4>1, <1>4
      <4> QED
        BY <4>2, <3>1
    <3>2. CASE i # 1
      <4>1. i - 1 \in 1 .. n
        BY <3>2
      <4> QED
        BY <4>1, <3>2, <1>4
    <3> QED
      BY <3>1, <3>2
  <2>2. g = [i \in 1 .. n |-> g[i]]
    BY <1>5
  <2> HIDE DEF g
  <2> QED
    BY <2>1, <2>2 DEF Flattening
<1>7. FlattenSeq(seqs) = (CHOOSE f : Flattening(f, seqs))[n]
  BY <1>1 DEF FlattenSeq, Flattening
<1> DEFINE c == CHOOSE f : Flattening(f, seqs)
<1>8. Flattening(c, seqs)
  <2> HIDE DEF g
  <2> QED BY <1>6
<1>9. ASSUME NEW k \in Nat, k \in 1 .. n PROVE c[k] \in Seq(T)
  <2> DEFINE M == {i \in Nat : i \in 1 .. n => c[i] \in Seq(T)}
  <2>0. \A i \in 1 .. n : c[i] = IF i = 1 THEN seqs[i] ELSE c[i - 1] \o seqs[i]
    <3> HIDE DEF c
    <3> QED BY <1>8 DEF Flattening
  <2> HIDE DEF c
  <2>1. 0 \in M
    OBVIOUS
  <2>2. ASSUME NEW i \in Nat, i \in M PROVE i + 1 \in M
    <3>1. SUFFICES ASSUME i + 1 \in 1 .. n PROVE c[i + 1] \in Seq(T)
      OBVIOUS
    <3>2. CASE i = 0
      BY <3>1, <3>2, <2>0, <1>1
    <3>3. CASE i # 0
      <4>1. i \in 1 .. n /\ i + 1 # 1 /\ (i + 1) - 1 = i
        BY <3>1, <3>3
      <4>2. c[i + 1] = c[i] \o seqs[i + 1]
        BY <3>1, <4>1, <2>0
      <4>3. c[i] \in Seq(T) /\ seqs[i + 1] \in Seq(T)
        BY <2>2, <3>1, <4>1, <1>1
      <4> QED
        BY <4>2, <4>3
    <3> QED
      BY <3>2, <3>3
  <2>3. Nat \subseteq M
    <3> HIDE DEF M
    <3> QED BY <2>1, <2>2, SetInduction
  <2> QED
    BY <2>3, <1>9
<1>10. c \in [1 .. n -> Seq(T)]
  <2>1. c = [i \in 1 .. n |-> IF i = 1 THEN seqs[i] ELSE c[i - 1] \o seqs[i]]
    <3> HIDE DEF c
    <3> QED BY <1>8 DEF Flattening
  <2> HIDE DEF c
  <2>2. DOMAIN c = 1 .. n /\ c = [i \in DOMAIN c |-> c[i]]
    BY <2>1
  <2>3. \A i \in DOMAIN c : c[i] \in Seq(T)
    BY <2>2, <1>9
  <2> QED
    BY <2>2, <2>3
<1> HIDE DEF c
<1> QED
  BY <1>7, <1>8, <1>10 DEF c

(* Where the elements of x and of y are in x \o y. *)
Joins(x, y) ==
  /\ \A p \in 1 .. Len(x) : p \in 1 .. Len(x \o y) /\ (x \o y)[p] = x[p]
  /\ \A p \in 1 .. Len(y) :
        Len(x) + p \in 1 .. Len(x \o y) /\ (x \o y)[Len(x) + p] = y[p]

(* Concatenation joins. *)
LEMMA Concatenation == ASSUME NEW T, NEW x \in Seq(T), NEW y \in Seq(T) PROVE Joins(x, y)
BY DEF Joins

(* The flattening of sequences over T is a sequence over T. *)
LEMMA FlattenType ==
  ASSUME NEW T, NEW seqs \in Seq(Seq(T))
  PROVE  FlattenSeq(seqs) \in Seq(T)
<1>1. CASE seqs = <<>>
  BY <1>1 DEF FlattenSeq
<1>2. CASE seqs # <<>>
  <2>1. Len(seqs) \in 1 .. Len(seqs)
    BY <1>2
  <2>2. PICK f : FlattenSeq(seqs) = f[Len(seqs)] /\ f \in [1 .. Len(seqs) -> Seq(T)]
    BY <1>2, FlattenExists
  <2> QED
    BY <2>1, <2>2
<1> QED
  BY <1>1, <1>2

(* Every element of every sequence is in the flattening. *)
LEMMA FlattenHasAll ==
  ASSUME NEW T, NEW seqs \in Seq(Seq(T)), NEW i \in 1 .. Len(seqs), NEW k \in 1 .. Len(seqs[i])
  PROVE  Contains(FlattenSeq(seqs), seqs[i][k])
<1> DEFINE n == Len(seqs)
<1>1. n \in Nat /\ seqs # <<>> /\ \A j \in 1 .. n : seqs[j] \in Seq(T)
  OBVIOUS
<1>2. PICK f : /\ Flattening(f, seqs)
               /\ FlattenSeq(seqs) = f[n]
               /\ f \in [1 .. n -> Seq(T)]
  BY <1>1, FlattenExists
<1>3. \A j \in 1 .. n : f[j] = IF j = 1 THEN seqs[j] ELSE f[j - 1] \o seqs[j]
  BY <1>2 DEF Flattening
<1> DEFINE M == {m \in Nat : m \in i .. n => \E p \in 1 .. Len(f[m]) : f[m][p] = seqs[i][k]}
<1>4. 0 \in M
  OBVIOUS
<1>5. ASSUME NEW m \in Nat, m \in M PROVE m + 1 \in M
  <2>1. SUFFICES ASSUME m + 1 \in i .. n
                 PROVE  \E p \in 1 .. Len(f[m + 1]) : f[m + 1][p] = seqs[i][k]
    OBVIOUS
  <2>2. m + 1 \in 1 .. n /\ f[m + 1] \in Seq(T) /\ seqs[m + 1] \in Seq(T)
    BY <1>1, <1>2, <2>1
  <2>3. CASE m = 0
    BY <2>1, <2>2, <2>3, <1>3
  <2>4. CASE m # 0
    <3>1. m \in 1 .. n /\ m + 1 # 1 /\ (m + 1) - 1 = m
      BY <2>2, <2>4
    <3>4. f[m] \in Seq(T) /\ f[m + 1] = f[m] \o seqs[m + 1]
      BY <2>2, <3>1, <1>2, <1>3
    <3>5. Joins(f[m], seqs[m + 1])
      BY <2>2, <3>4, Concatenation
    <3>2. CASE m + 1 = i
      <4>1. /\ Len(f[m]) + k \in 1 .. Len(f[m + 1])
            /\ f[m + 1][Len(f[m]) + k] = seqs[m + 1][k]
        BY <3>2, <3>4, <3>5 DEF Joins
      <4> QED
        BY <4>1, <3>2
    <3>3. CASE m + 1 # i
      <4>1. m \in i .. n
        BY <2>1, <3>3
      <4>2. PICK p \in 1 .. Len(f[m]) : f[m][p] = seqs[i][k]
        BY <1>5, <4>1
      <4>3. p \in 1 .. Len(f[m + 1]) /\ f[m + 1][p] = f[m][p]
        BY <3>4, <3>5 DEF Joins
      <4> QED
        BY <4>2, <4>3
    <3> QED
      BY <3>2, <3>3
  <2> QED
    BY <2>3, <2>4
<1>6. n \in M
  <2>1. Nat \subseteq M
    <3> HIDE DEF M
    <3> QED BY <1>4, <1>5, SetInduction
  <2> HIDE DEF M
  <2> QED BY <1>1, <2>1
<1> QED
  BY <1>2, <1>6 DEF Contains

(* Sequence u is sequence x with every element mapped by g. *)
Maps(u, x, g) == Len(u) = Len(x) /\ \A p \in 1 .. Len(x) : u[p] = g[x[p]]

(* To map the elements and to concatenate commute. *)
LEMMA MapConcatenation ==
  ASSUME NEW T, NEW R, NEW g, NEW x \in Seq(T), NEW y \in Seq(T), NEW u \in Seq(R),
         NEW v \in Seq(R), Maps(u, x, g), Maps(v, y, g)
  PROVE  Maps(u \o v, x \o y, g)
<1>1. Len(u) = Len(x) /\ Len(v) = Len(y)
  BY DEF Maps
<1>2. Len(u \o v) = Len(u) + Len(v) /\ Len(x \o y) = Len(x) + Len(y)
  OBVIOUS
<1>3. ASSUME NEW p \in 1 .. Len(x) + Len(y) PROVE (u \o v)[p] = g[(x \o y)[p]]
  <2>1. CASE p <= Len(x)
    <3>1. p \in 1 .. Len(x)
      BY <2>1
    <3>2. (u \o v)[p] = u[p] /\ (x \o y)[p] = x[p]
      BY <1>1, <3>1
    <3> QED
      BY <3>1, <3>2 DEF Maps
  <2>2. CASE ~(p <= Len(x))
    <3>1. p - Len(x) \in 1 .. Len(y)
      BY <2>2
    <3>2. (u \o v)[p] = v[p - Len(x)] /\ (x \o y)[p] = y[p - Len(x)]
      BY <1>1, <2>2
    <3> QED
      BY <3>1, <3>2 DEF Maps
  <2> QED
    BY <2>1, <2>2
<1> QED
  BY <1>1, <1>2, <1>3 DEF Maps

(* To map the elements and to flatten commute. *)
LEMMA FlattenMap ==
  ASSUME NEW T, NEW R, NEW g, NEW seqs \in Seq(Seq(T)), NEW mapped \in Seq(Seq(R)),
         Len(mapped) = Len(seqs), \A i \in 1 .. Len(seqs) : Maps(mapped[i], seqs[i], g)
  PROVE  Maps(FlattenSeq(mapped), FlattenSeq(seqs), g)
<1> DEFINE n == Len(seqs)
<1>1. /\ n \in Nat
      /\ \A j \in 1 .. n : seqs[j] \in Seq(T) /\ mapped[j] \in Seq(R)
  OBVIOUS
<1>2. CASE seqs = <<>>
  <2>1. FlattenSeq(seqs) = seqs /\ FlattenSeq(mapped) = mapped
    BY <1>2 DEF FlattenSeq
  <2> QED
    BY <1>2, <2>1 DEF Maps
<1>3. CASE seqs # <<>>
  <2>1. PICK f : /\ Flattening(f, seqs)
                 /\ FlattenSeq(seqs) = f[n]
                 /\ f \in [1 .. n -> Seq(T)]
    BY <1>3, FlattenExists
  <2>2. n >= 1 /\ mapped # <<>>
    BY <1>3
  <2>3. PICK h : /\ Flattening(h, mapped)
                 /\ FlattenSeq(mapped) = h[n]
                 /\ h \in [1 .. n -> Seq(R)]
    BY <2>2, FlattenExists
  <2>4. \A j \in 1 .. n : f[j] = IF j = 1 THEN seqs[j] ELSE f[j - 1] \o seqs[j]
    BY <2>1 DEF Flattening
  <2>5. \A j \in 1 .. n : h[j] = IF j = 1 THEN mapped[j] ELSE h[j - 1] \o mapped[j]
    BY <2>3 DEF Flattening
  <2> DEFINE M == {m \in Nat : m \in 1 .. n => Maps(h[m], f[m], g)}
  <2>6. 0 \in M
    OBVIOUS
  <2>7. ASSUME NEW m \in Nat, m \in M PROVE m + 1 \in M
    <3>1. SUFFICES ASSUME m + 1 \in 1 .. n PROVE Maps(h[m + 1], f[m + 1], g)
      OBVIOUS
    <3>2. CASE m = 0
      BY <3>1, <3>2, <2>4, <2>5
    <3>3. CASE m # 0
      <4>1. /\ m \in 1 .. n /\ m + 1 # 1 /\ (m + 1) - 1 = m
            /\ Maps(h[m], f[m], g) /\ Maps(mapped[m + 1], seqs[m + 1], g)
        BY <2>7, <3>1, <3>3
      <4>2. /\ f[m + 1] = f[m] \o seqs[m + 1]
            /\ h[m + 1] = h[m] \o mapped[m + 1]
        BY <2>4, <2>5, <3>1, <4>1
      <4>3. /\ f[m] \in Seq(T) /\ seqs[m + 1] \in Seq(T)
            /\ h[m] \in Seq(R) /\ mapped[m + 1] \in Seq(R)
        BY <1>1, <2>1, <2>3, <3>1, <4>1
      <4> QED
        BY <4>1, <4>2, <4>3, MapConcatenation
    <3> QED
      BY <3>2, <3>3
  <2>8. n \in M
    <3>1. Nat \subseteq M
      <4> HIDE DEF M
      <4> QED BY <2>6, <2>7, SetInduction
    <3> HIDE DEF M
    <3> QED BY <1>1, <3>1
  <2> QED
    BY <2>1, <2>2, <2>3, <2>8
<1> QED
  BY <1>2, <1>3

-----------------------------------------------------------------------------
(* Answers: UsedIds lists the cited ids once, in order of first use, and the  *)
(* markers are the positions in that list.                                    *)

CitedIds(claims) == FlattenSeq([i \in 1 .. Len(claims) |-> claims[i].ids])

Noted(used, id) == IF Contains(used, id) THEN used ELSE Append(used, id)

(* The first n of the ids have each been noted once, in order of first use. *)
Noting(used, flat, n) ==
  /\ \A p \in 1 .. n : \E m \in 1 .. Len(used) : used[m] = flat[p]
  /\ \A m \in 1 .. Len(used) :
       \E k \in 1 .. n :
          /\ flat[k] = used[m]
          /\ \A j \in 1 .. k - 1 : \E i \in 1 .. m - 1 : used[i] = flat[j]
  /\ \A i, j \in 1 .. Len(used) : used[i] = used[j] => i = j

(* Noting an id gives a sequence of ids. *)
LEMMA NotedType ==
  ASSUME NEW T, NEW used \in Seq(T), NEW id \in T
  PROVE  Noted(used, id) \in Seq(T)
BY DEF Noted

(* Noting one id more keeps the order of first use. *)
LEMMA NotingStep ==
  ASSUME NEW T, NEW flat \in Seq(T), NEW n \in Nat, n + 1 \in 1 .. Len(flat),
         NEW used \in Seq(T), Noting(used, flat, n)
  PROVE  Noting(Noted(used, flat[n + 1]), flat, n + 1)
<1> DEFINE id == flat[n + 1]
           new == Noted(used, id)
<1>1. CASE Contains(used, id)
  <2>1. new = used
    BY <1>1 DEF Noted
  <2>2. PICK m \in 1 .. Len(used) : used[m] = flat[n + 1]
    BY <1>1 DEF Contains
  <2>3. \A p \in 1 .. n + 1 : \E i \in 1 .. Len(used) : used[i] = flat[p]
    <3>1. \A p \in 1 .. n + 1 : p \in 1 .. n \/ p = n + 1
      OBVIOUS
    <3> QED
      BY <2>2, <3>1 DEF Noting
  <2>4. 1 .. n \subseteq 1 .. n + 1
    OBVIOUS
  <2>5. Noting(used, flat, n + 1)
    <3>1. \A i \in 1 .. Len(used) :
            \E k \in 1 .. n + 1 :
              /\ flat[k] = used[i]
              /\ \A j \in 1 .. k - 1 : \E l \in 1 .. i - 1 : used[l] = flat[j]
      BY <2>4 DEF Noting
    <3> QED
      BY <2>3, <3>1 DEF Noting
  <2> QED
    BY <2>1, <2>5
<1>2. CASE ~Contains(used, id)
  <2>1. new = Append(used, id) /\ \A i \in 1 .. Len(used) : used[i] # id
    BY <1>2 DEF Noted, Contains
  <2> DEFINE l == Len(used)
  <2>2. l \in Nat /\ id \in T
    OBVIOUS
  <2>3. Len(new) = l + 1 /\ new[l + 1] = id /\ \A i \in 1 .. l : new[i] = used[i]
    BY <2>1, <2>2
  <2> HIDE DEF new
  <2>4. \A p \in 1 .. n + 1 : \E m \in 1 .. Len(new) : new[m] = flat[p]
    <3>1. SUFFICES ASSUME NEW p \in 1 .. n + 1 PROVE \E m \in 1 .. l + 1 : new[m] = flat[p]
      BY <2>3
    <3>2. CASE p = n + 1
      BY <2>2, <2>3, <3>2
    <3>3. CASE p # n + 1
      <4>1. p \in 1 .. n
        BY <3>3
      <4>2. PICK m \in 1 .. l : used[m] = flat[p]
        BY <4>1 DEF Noting
      <4> QED
        BY <2>2, <2>3, <4>2
    <3> QED
      BY <3>2, <3>3
  <2>5. ASSUME NEW m \in 1 .. Len(new)
        PROVE  \E k \in 1 .. n + 1 :
                 /\ flat[k] = new[m]
                 /\ \A j \in 1 .. k - 1 : \E i \in 1 .. m - 1 : new[i] = flat[j]
    <3>1. CASE m = l + 1
      <4>1. ASSUME NEW j \in 1 .. (n + 1) - 1 PROVE \E i \in 1 .. m - 1 : new[i] = flat[j]
        <5>1. j \in 1 .. n
          OBVIOUS
        <5>2. PICK i \in 1 .. l : used[i] = flat[j]
          BY <5>1 DEF Noting
        <5>3. i \in 1 .. m - 1 /\ new[i] = used[i]
          BY <2>2, <2>3, <3>1
        <5> QED
          BY <5>2, <5>3
      <4> QED
        BY <2>3, <3>1, <4>1, SMTT(30)
    <3>2. CASE m # l + 1
      <4>1. m \in 1 .. l /\ new[m] = used[m]
        BY <2>2, <2>3, <3>2
      <4>2. PICK k \in 1 .. n : /\ flat[k] = used[m]
                                /\ \A j \in 1 .. k - 1 : \E i \in 1 .. m - 1 : used[i] = flat[j]
        BY <4>1 DEF Noting
      <4>3. k \in 1 .. n + 1
        OBVIOUS
      <4>4. ASSUME NEW j \in 1 .. k - 1 PROVE \E i \in 1 .. m - 1 : new[i] = flat[j]
        <5>1. PICK i \in 1 .. m - 1 : used[i] = flat[j]
          BY <4>2
        <5>2. i \in 1 .. l
          BY <2>2, <4>1
        <5> QED
          BY <2>3, <5>1, <5>2
      <4> QED
        BY <4>1, <4>2, <4>3, <4>4
    <3> QED
      BY <3>1, <3>2
  <2>6. ASSUME NEW i \in 1 .. Len(new), NEW j \in 1 .. Len(new), new[i] = new[j]
        PROVE  i = j
    <3>1. CASE i \in 1 .. l /\ j \in 1 .. l
      BY <2>3, <2>6, <3>1 DEF Noting
    <3>2. CASE i = l + 1 /\ j \in 1 .. l
      BY <2>1, <2>3, <2>6, <3>2
    <3>3. CASE j = l + 1 /\ i \in 1 .. l
      BY <2>1, <2>3, <2>6, <3>3
    <3>4. CASE i = l + 1 /\ j = l + 1
      BY <3>4
    <3>5. i \in 1 .. l + 1 /\ j \in 1 .. l + 1
      BY <2>3
    <3> QED
      BY <2>2, <3>1, <3>2, <3>3, <3>4, <3>5
  <2> QED
    BY <2>4, <2>5, <2>6 DEF Noting, new
<1> QED
  BY <1>1, <1>2

(* UsedIds lists the cited ids, each once, in order of first use. *)
LEMMA UsedIdsInOrder ==
  ASSUME NEW T, NEW claims, CitedIds(claims) \in Seq(T)
  PROVE  /\ UsedIds(claims) \in Seq(T)
         /\ Noting(UsedIds(claims), CitedIds(claims), Len(CitedIds(claims)))
<1> DEFINE flat == CitedIds(claims)
           n == Len(flat)
           V == Seq(T)
           Eq(iter) == iter = [s \in SUBSET (1 .. n) |->
                        IF s = {} THEN <<>> ELSE Noted(iter[s \ {Max(s)}], flat[Max(s)])]
           step == [p \in (1 .. n) \X V |-> Noted(p[2], flat[p[1]])]
<1>1. flat \in Seq(T) /\ n \in Nat /\ DOMAIN flat = 1 .. n /\ <<>> \in V
  OBVIOUS
<1>2. step \in [(1 .. n) \X V -> V]
  <2>1. \A i \in 1 .. n : flat[i] \in T
    BY <1>1
  <2> HIDE DEF flat, n
  <2> QED BY <2>1, NotedType
<1>3. PICK f \in [SUBSET (1 .. n) -> V] : LeftFold(f, n, <<>>, step)
  <2> HIDE DEF step, V, n
  <2> QED BY <1>1, <1>2, LeftFoldExists
<1>4. Eq(f)
  <2>1. ASSUME NEW s \in SUBSET (1 .. n)
        PROVE  f[s] = IF s = {} THEN <<>> ELSE Noted(f[s \ {Max(s)}], flat[Max(s)])
    <3>1. CASE s = {}
      BY <1>3, <3>1 DEF LeftFold
    <3>2. CASE s # {}
      <4>1. f[s] = step[<<Max(s), f[s \ {Max(s)}]>>]
        <5> HIDE DEF step
        <5> QED BY <1>3, <3>2 DEF LeftFold
      <4>2. Max(s) \in 1 .. n /\ f[s \ {Max(s)}] \in V
        <5>1. Max(s) \in s
          BY <1>1, <3>2, MaxIn
        <5> HIDE DEF V, n
        <5> QED BY <1>3, <5>1
      <4> HIDE DEF V, n, flat
      <4> QED BY <3>2, <4>1, <4>2
    <3> QED
      BY <3>1, <3>2
  <2>2. f = [s \in SUBSET (1 .. n) |-> f[s]]
    <3> HIDE DEF V, n
    <3> QED BY <1>3
  <2> HIDE DEF V, n, flat
  <2> QED BY <2>1, <2>2
<1> DEFINE c == CHOOSE iter : Eq(iter)
<1>5. UsedIds(claims) = c[1 .. n]
  <2>1. UsedIds(claims) = (CHOOSE iter : iter = [s \in SUBSET DOMAIN flat |->
          IF s = {} THEN <<>> ELSE Noted(iter[s \ {Max(s)}], flat[Max(s)])])[DOMAIN flat]
    BY DEF UsedIds, FoldLeft, MapThenFoldSet, Noted, CitedIds
  <2> QED
    BY <1>1, <2>1
<1>6. Eq(c)
  <2> HIDE DEF Eq
  <2> QED BY <1>4
<1> HIDE DEF c
<1>7. /\ c[{}] = <<>>
      /\ \A s \in SUBSET (1 .. n) : s # {} => c[s] = Noted(c[s \ {Max(s)}], flat[Max(s)])
  <2> HIDE DEF flat, n
  <2> QED BY <1>6
<1> HIDE DEF Eq
<1> DEFINE M == {k \in Nat : k <= n => c[1 .. k] \in V /\ Noting(c[1 .. k], flat, k)}
<1>8. 0 \in M
  <2>1. 1 .. 0 = {}
    OBVIOUS
  <2>2. Noting(<<>>, flat, 0)
    BY DEF Noting
  <2> HIDE DEF flat, n
  <2> QED BY <1>1, <1>7, <2>1, <2>2
<1>9. ASSUME NEW k \in Nat, k \in M PROVE k + 1 \in M
  <2>1. SUFFICES ASSUME k + 1 <= n
                 PROVE  c[1 .. k + 1] \in V /\ Noting(c[1 .. k + 1], flat, k + 1)
    OBVIOUS
  <2>2. c[1 .. k] \in Seq(T) /\ Noting(c[1 .. k], flat, k)
    BY <1>1, <1>9, <2>1
  <2>3. Max(1 .. k + 1) = k + 1 /\ (1 .. k + 1) \ {k + 1} = 1 .. k
    BY MaxOfPrefix, (k + 1) - 1 = k, k + 1 # 0
  <2>4. 1 .. k + 1 \in SUBSET (1 .. n) /\ 1 .. k + 1 # {} /\ k + 1 \in 1 .. n
    BY <1>1, <2>1, SMTT(30)
  <2>5. c[1 .. k + 1] = Noted(c[1 .. k], flat[k + 1])
    <3> HIDE DEF flat, n
    <3> QED BY <1>7, <2>3, <2>4
  <2>6. flat[k + 1] \in T
    BY <1>1, <2>4
  <2>7. Noted(c[1 .. k], flat[k + 1]) \in Seq(T)
    BY <2>2, <2>6, NotedType
  <2>8. Noting(Noted(c[1 .. k], flat[k + 1]), flat, k + 1)
    <3> HIDE DEF flat
    <3> QED BY <1>1, <2>2, <2>4, NotingStep
  <2> HIDE DEF flat, n
  <2> QED
    BY <2>5, <2>7, <2>8
<1>10. n \in M
  <2>1. Nat \subseteq M
    <3> HIDE DEF M
    <3> QED BY <1>8, <1>9, SetInduction
  <2> HIDE DEF M
  <2> QED BY <1>1, <2>1
<1> QED
  BY <1>1, <1>5, <1>10

(* A sequence without repetition has as many elements as positions. *)
LEMMA DistinctElements ==
  ASSUME NEW T, NEW s \in Seq(T), \A i, j \in 1 .. Len(s) : s[i] = s[j] => i = j
  PROVE  Cardinality(ToSet(s)) = Len(s)
<1>1. DOMAIN s = 1 .. Len(s) /\ Len(s) \in Nat
  OBVIOUS
<1>2. s \in [1 .. Len(s) -> ToSet(s)]
  BY <1>1 DEF ToSet
<1>3. s \in Bijection(1 .. Len(s), ToSet(s))
  BY <1>1, <1>2 DEF Bijection, Injection, Surjection, ToSet, IsInjective
<1>4. IsFiniteSet(1 .. Len(s)) /\ Cardinality(1 .. Len(s)) = Len(s)
  BY <1>1, FS_Interval, SMTT(30)
<1> QED
  BY <1>3, <1>4, FS_Bijection DEF ExistsBijection

(* Used where the elements are records, which the provers do not look into. *)
LEMMA ElementOf == ASSUME NEW T, NEW s \in Seq(T), NEW i \in 1 .. Len(s) PROVE s[i] \in T
OBVIOUS

(* The ids of the claims of an output are sequences of strings. *)
LEMMA IdsOfClaims ==
  ASSUME NEW claims \in Seq([ids : Seq(STRING), marked : BOOLEAN])
  PROVE  [i \in 1 .. Len(claims) |-> claims[i].ids] \in Seq(Seq(STRING))
<1>1. ASSUME NEW i \in 1 .. Len(claims) PROVE claims[i].ids \in Seq(STRING)
  <2>1. claims[i] \in [ids : Seq(STRING), marked : BOOLEAN]
    BY ElementOf
  <2> QED
    BY <2>1
<1> QED
  BY <1>1

(* The numbers in an accepted answer lead to the evidence of its claims. *)
LEMMA RenderedMarkers ==
  ASSUME Has("render"), result.accepted, result = Render(input.output, input.evidence),
         input.output.claims \in Seq([ids : Seq(STRING), marked : BOOLEAN])
  PROVE  MarkersLeadToEvidence
<1> DEFINE claims == input.output.claims
           used == UsedIds(claims)
           seqs == [i \in 1 .. Len(claims) |-> claims[i].ids]
           ids == CitedIds(claims)
           status == input.output.status
<1>1. /\ seqs \in Seq(Seq(STRING))
      /\ ids = FlattenSeq(seqs)
      /\ Len(seqs) = Len(claims)
      /\ Len(claims) \in Nat
  BY IdsOfClaims DEF CitedIds
<1>2. ids \in Seq(STRING)
  <2> HIDE DEF seqs, ids
  <2> QED BY <1>1, FlattenType
<1>3. used \in Seq(STRING) /\ Noting(used, ids, Len(ids))
  <2> HIDE DEF claims
  <2> QED BY <1>2, UsedIdsInOrder
<1>4. WellFormed(input.output)
  BY DEF Render, Rejected
<1>5. CASE status = "insufficient"
  <2>1. result = [accepted |-> TRUE, outcome |-> "insufficient_evidence",
                  markers |-> <<>>, used |-> <<>>]
    BY <1>4, <1>5 DEF Render
  <2>2. result.markers = <<>> /\ result.used = <<>> /\ result.outcome = "insufficient_evidence"
    BY <2>1
  <2>3. ToSet(result.used) = {} /\ Cardinality({}) = 0 /\ Len(result.used) = 0
    BY <2>2, FS_EmptySet DEF ToSet
  <2>4. 1 .. Len(result.markers) = {} /\ 1 .. Len(result.used) = {}
    BY <2>2, Len(<<>>) = 0, 1 .. 0 = {}
  <2>5. /\ Cardinality(ToSet(result.used)) = Len(result.used)
        /\ ToSet(result.used) \subseteq input.evidence
    BY <2>3
  <2>6. /\ result.outcome = "insufficient_evidence" <=> result.used = <<>>
        /\ result.outcome # "conflicting_evidence"
    BY <2>2
  <2> QED
    BY <2>4, <2>5, <2>6 DEF MarkersLeadToEvidence
<1>6. CASE status # "insufficient"
  <2>1. /\ ToSet(used) \subseteq input.evidence
        /\ status = "conflicting" => ~(Len(used) < 2)
        /\ result.outcome = IF status = "conflicting"
                              THEN "conflicting_evidence" ELSE "grounded_answer"
        /\ result.markers = [i \in 1 .. Len(claims) |->
              [k \in 1 .. Len(claims[i].ids) |-> NumberOf(used, claims[i].ids[k])]]
        /\ result.used = used
    BY <1>4, <1>6 DEF Render, Rejected
  <2> DEFINE markers == result.markers
             g == [id \in STRING |-> NumberOf(used, id)]
             R == {g[id] : id \in STRING}
  <2>2. /\ Len(markers) = Len(claims)
        /\ markers \in Seq(Seq(R))
        /\ \A i \in 1 .. Len(claims) : Maps(markers[i], seqs[i], g)
    <3>1. ASSUME NEW i \in 1 .. Len(claims)
          PROVE  /\ markers[i] \in Seq(R)
                 /\ Maps(markers[i], seqs[i], g)
      <4>1. seqs[i] = claims[i].ids /\ claims[i].ids \in Seq(STRING)
        BY <1>1
      <4>2. markers[i] = [k \in 1 .. Len(seqs[i]) |-> NumberOf(used, seqs[i][k])]
        <5>1. markers[i] = [k \in 1 .. Len(claims[i].ids) |-> NumberOf(used, claims[i].ids[k])]
          <6> HIDE DEF claims, used
          <6> QED BY <2>1
        <5> HIDE DEF claims, used, markers, seqs
        <5> QED BY <4>1, <5>1
      <4>3. \A k \in 1 .. Len(seqs[i]) : seqs[i][k] \in STRING
        BY <4>1
      <4>4. \A k \in 1 .. Len(seqs[i]) : NumberOf(used, seqs[i][k]) = g[seqs[i][k]]
        BY <4>3
      <4>5. Len(seqs[i]) \in Nat
        BY <4>1
      <4> HIDE DEF seqs, used, g
      <4>6. markers[i] = [k \in 1 .. Len(seqs[i]) |-> g[seqs[i][k]]]
        BY <4>2, <4>4
      <4>7. \A k \in 1 .. Len(seqs[i]) : g[seqs[i][k]] \in R
        BY <4>3
      <4> HIDE DEF R
      <4> QED
        BY <4>5, <4>6, <4>7 DEF Maps
    <3>2. markers = [i \in 1 .. Len(claims) |-> markers[i]]
      BY <2>1
    <3> HIDE DEF markers, claims, seqs, g, R
    <3> QED
      BY <1>1, <3>1, <3>2
  <2>3. Maps(FlattenSeq(markers), ids, g)
    <3> HIDE DEF markers, seqs, g, R, ids
    <3> QED BY <1>1, <2>2, FlattenMap
  <2>4. ASSUME NEW m \in 1 .. Len(used) PROVE NumberOf(used, used[m]) = m
    BY <1>3 DEF Noting, NumberOf
  <2>5. ASSUME NEW p \in 1 .. Len(ids)
        PROVE  \E m \in 1 .. Len(used) : used[m] = ids[p] /\ FlattenSeq(markers)[p] = m
    <3>1. PICK m \in 1 .. Len(used) : used[m] = ids[p]
      BY <1>3 DEF Noting
    <3>2. FlattenSeq(markers)[p] = g[ids[p]]
      BY <2>3 DEF Maps
    <3>3. ids[p] \in STRING
      BY <1>2
    <3> QED
      BY <2>4, <3>1, <3>2, <3>3
  <2>6. ASSUME NEW i \in 1 .. Len(markers), NEW k \in 1 .. Len(markers[i])
        PROVE  /\ markers[i][k] \in 1 .. Len(used)
               /\ used[markers[i][k]] = claims[i].ids[k]
    <3>1. i \in 1 .. Len(seqs) /\ seqs[i] = claims[i].ids /\ Len(markers[i]) = Len(seqs[i])
      BY <1>1, <2>2 DEF Maps
    <3>2. k \in 1 .. Len(seqs[i])
      BY <3>1
    <3>3. PICK p \in 1 .. Len(ids) : ids[p] = seqs[i][k]
      <4> HIDE DEF seqs, ids
      <4>1. Contains(ids, seqs[i][k])
        BY <1>1, <3>1, <3>2, FlattenHasAll
      <4> QED BY <4>1 DEF Contains
    <3>4. PICK m \in 1 .. Len(used) : used[m] = ids[p]
      BY <1>3 DEF Noting
    <3>5. markers[i][k] = g[seqs[i][k]]
      BY <1>1, <2>2, <3>1, <3>2 DEF Maps
    <3>6. ids[p] \in STRING
      BY <1>2
    <3> QED
      BY <2>4, <3>1, <3>3, <3>4, <3>5, <3>6
  <2>7. ASSUME NEW n \in 1 .. Len(used)
        PROVE  \E k \in 1 .. Len(FlattenSeq(markers)) :
                 /\ FlattenSeq(markers)[k] = n
                 /\ \A j \in 1 .. k - 1 : FlattenSeq(markers)[j] < n
    <3>1. PICK k \in 1 .. Len(ids) : /\ ids[k] = used[n]
                                     /\ \A j \in 1 .. k - 1 : \E i \in 1 .. n - 1 : used[i] = ids[j]
      BY <1>3 DEF Noting
    <3>2. \A i, j \in 1 .. Len(used) : used[i] = used[j] => i = j
      BY <1>3 DEF Noting
    <3>3. FlattenSeq(markers)[k] = n
      BY <2>5, <3>1, <3>2
    <3>4. Len(used) \in Nat /\ Len(ids) \in Nat
      BY <1>2, <1>3
    <3>5. ASSUME NEW j \in 1 .. k - 1 PROVE FlattenSeq(markers)[j] < n
      <4>1. j \in 1 .. Len(ids)
        BY <3>4
      <4>2. PICK m \in 1 .. Len(used) : used[m] = ids[j] /\ FlattenSeq(markers)[j] = m
        BY <2>5, <4>1
      <4>3. PICK i \in 1 .. n - 1 : used[i] = ids[j]
        BY <3>1
      <4>4. i = m
        BY <3>2, <3>4, <4>2, <4>3
      <4> QED
        BY <4>2, <4>3, <4>4
    <3> QED
      BY <2>3, <3>3, <3>5 DEF Maps
  <2>8. Cardinality(ToSet(used)) = Len(used)
    <3>1. \A i, j \in 1 .. Len(used) : used[i] = used[j] => i = j
      BY <1>3 DEF Noting
    <3> HIDE DEF used
    <3> QED BY <1>3, <3>1, DistinctElements
  <2>9. used # <<>>
    <3>1. claims # <<>> /\ \A i \in 1 .. Len(claims) : claims[i].ids # <<>>
      BY <1>4, <1>6 DEF WellFormed
    <3>2. 1 \in 1 .. Len(seqs) /\ seqs[1] \in Seq(STRING) /\ seqs[1] # <<>>
      BY <1>1, <3>1
    <3>3. 1 \in 1 .. Len(seqs[1])
      BY <3>2
    <3>4. Contains(ids, seqs[1][1])
      <4> HIDE DEF seqs, ids
      <4> QED BY <1>1, <3>2, <3>3, FlattenHasAll
    <3>5. PICK p \in 1 .. Len(ids) : TRUE
      BY <3>4 DEF Contains
    <3>6. PICK m \in 1 .. Len(used) : TRUE
      BY <1>3 DEF Noting
    <3> QED
      BY <3>6
  <2>10. Len(used) \in Nat
    BY <1>3
  <2>11. /\ result.outcome = "insufficient_evidence" <=> result.used = <<>>
         /\ result.outcome = "conflicting_evidence" => Len(result.used) >= 2
    <3> HIDE DEF used
    <3> QED BY <2>1, <2>9, <2>10
  <2> HIDE DEF used, claims, ids, seqs, g, R
  <2>12. /\ ToSet(result.used) \subseteq input.evidence
         /\ Cardinality(ToSet(result.used)) = Len(result.used)
    BY <2>1, <2>8
  <2>13. \A i \in 1 .. Len(result.markers) : \A k \in 1 .. Len(result.markers[i]) :
           /\ result.markers[i][k] \in 1 .. Len(result.used)
           /\ result.used[result.markers[i][k]] = input.output.claims[i].ids[k]
    BY <2>1, <2>6 DEF claims
  <2>14. \A n \in 1 .. Len(result.used) :
           \E k \in 1 .. Len(FlattenSeq(result.markers)) :
              /\ FlattenSeq(result.markers)[k] = n
              /\ \A j \in 1 .. k - 1 : FlattenSeq(result.markers)[j] < n
    BY <2>1, <2>7
  <2> QED
    BY <2>11, <2>12, <2>13, <2>14 DEF MarkersLeadToEvidence
<1> QED
  BY <1>5, <1>6

-----------------------------------------------------------------------------
(* Query plans.                                                               *)

(* Every plan names what it has to (build_query_plan). *)
LEMMA PlanNames ==
  ASSUME NEW question, NEW history, NEW reply
  PROVE  LET plan == QueryPlan(question, history, reply) IN
         /\ \A id \in question.identifiers : Names(plan.identifiers, id)
         /\ plan.status = "rewritten" =>
              \A i \in 1 .. Len(history) : \A id \in history[i] : Names(plan.identifiers, id)
         /\ plan.status # "rewritten" =>
              /\ plan.identifiers = question.identifiers
              /\ EffectiveFilters(NoFilters, plan) = NoFilters
<1> DEFINE parsed == ParseRewrite(reply, question, RequiredIdentifiers(question, history))
           plan == QueryPlan(question, history, reply)
<1>1. CASE ~ShouldRewrite(question, history) \/ reply.failed \/ ~parsed.accepted
  <2>1. /\ plan.status \in {"unchanged", "rewrite_failed"}
        /\ plan.identifiers = question.identifiers
        /\ plan.filters = NoFilters
    BY <1>1 DEF QueryPlan
  <2> QED
    BY <2>1 DEF Names, EffectiveFilters
<1>2. CASE ShouldRewrite(question, history) /\ ~reply.failed /\ parsed.accepted
  <2>1. plan.status = "rewritten" /\ plan.identifiers = parsed.identifiers
    BY <1>2 DEF QueryPlan
  <2>2. /\ parsed.identifiers = reply.identifiers
        /\ \A id \in RequiredIdentifiers(question, history) : Names(reply.identifiers, id)
    BY <1>2 DEF ParseRewrite, Rejected
  <2> QED
    BY <2>1, <2>2 DEF RequiredIdentifiers
<1> QED
  BY <1>1, <1>2

-----------------------------------------------------------------------------
(* Evaluation runs, filters and cases.                                        *)

(* The smallest element of a set of positions. *)
LEMMA MinIn ==
  ASSUME NEW n \in Nat, NEW s \in SUBSET (1 .. n), s # {}
  PROVE  Min(s) \in s /\ \A x \in s : Min(s) <= x
<1> DEFINE Negated == {n + 1 - x : x \in s}
<1>1. Negated \in SUBSET (1 .. n) /\ Negated # {}
  <2>1. \A x \in s : n + 1 - x \in 1 .. n
    OBVIOUS
  <2>2. PICK x \in s : TRUE
    OBVIOUS
  <2>3. n + 1 - x \in Negated
    OBVIOUS
  <2>4. Negated \subseteq 1 .. n
    BY <2>1
  <2> HIDE DEF Negated
  <2> QED
    BY <2>3, <2>4
<1>2. PICK y \in Negated : \A x \in Negated : x <= y
  <2> HIDE DEF Negated
  <2> QED BY <1>1, MaxIn
<1>3. PICK m \in s : \A x \in s : m <= x
  <2>1. PICK m \in s : y = n + 1 - m
    BY <1>2
  <2>2. ASSUME NEW x \in s PROVE m <= x
    <3>1. n + 1 - x \in Negated
      OBVIOUS
    <3>2. n + 1 - x <= y
      BY <1>2, <3>1
    <3> QED
      BY <2>1, <3>2
  <2> QED
    BY <2>2
<1>4. Min(s) \in s /\ \A x \in s : Min(s) <= x
  BY <1>3 DEF Min
<1> QED
  BY <1>4

(* The cases of a run that got past all of them are all of its cases. *)
LEMMA AllCasesRun ==
  ASSUME NEW o, o.cases \in Seq({"ok", "error", "generation_error"}),
         ~(Len(CasesRun(o)) < Len(o.cases))
  PROVE  CasesRun(o) = o.cases /\ "error" \notin ToSet(o.cases)
<1> DEFINE n == Len(o.cases)
           raised == {i \in 1 .. n : o.cases[i] = "error"}
           end == IF raised = {} THEN n ELSE Min(raised) - 1
<1>1. n \in Nat /\ CasesRun(o) = SubSeq(o.cases, 1, end)
  BY DEF CasesRun
<1>2. raised = {}
  <2>1. SUFFICES ASSUME raised # {} PROVE FALSE
    OBVIOUS
  <2>2. raised \in SUBSET (1 .. n)
    OBVIOUS
  <2>3. Min(raised) \in 1 .. n
    <3> HIDE DEF raised
    <3> QED BY <1>1, <2>1, <2>2, MinIn
  <2>4. end = Min(raised) - 1 /\ end \in 0 .. n - 1
    <3> HIDE DEF raised
    <3> QED BY <2>1, <2>3
  <2>5. Len(SubSeq(o.cases, 1, end)) = end
    <3> HIDE DEF end
    <3> QED BY <2>4
  <2> HIDE DEF end
  <2> QED
    BY <1>1, <2>4, <2>5
<1>3. SubSeq(o.cases, 1, n) = o.cases
  OBVIOUS
<1> QED
  BY <1>1, <1>2, <1>3 DEF ToSet

(* What is left of a workspace whose cleanup got to its end. *)
LEMMA CleanedRecord ==
  ASSUME NEW o, NEW kb \in BOOLEAN, NEW n, kb => o.cleanup = "done", n # 0 => o.cleanup = "done"
  PROVE  Cleaned([kb |-> kb, files |-> n, partial |-> 0], o) = Nothing
<1> DEFINE w == [kb |-> kb, files |-> n, partial |-> 0]
           files == IF o.cleanup \in {"database", "files"} THEN n ELSE 0
<1>1. Cleaned(w, o) = [w EXCEPT !.kb = w.kb /\ o.cleanup = "database", !.files = files]
  BY DEF Cleaned
<1>2. (w.kb /\ o.cleanup = "database") = FALSE
  OBVIOUS
<1>3. files = 0
  OBVIOUS
<1>4. Cleaned(w, o) = [w EXCEPT !.kb = FALSE, !.files = 0]
  <2> HIDE DEF w, files
  <2> QED BY <1>1, <1>2, <1>3
<1> QED
  BY <1>4 DEF Nothing

LEMMA CleanedWorkspace ==
  ASSUME NEW o, o.create \in {"insert", "refresh", "copy", "enqueue", "done"}
  PROVE  /\ o.create = "insert" => Cleaned(Workspace(o), o) = Nothing
         /\ o.create \in {"enqueue", "done"} /\ o.cleanup = "done" =>
              Cleaned(Workspace(o), o) = Nothing
<1>1. CASE o.create = "insert"
  <2>1. Workspace(o) = [kb |-> FALSE, files |-> 0, partial |-> 0]
    BY <1>1 DEF Workspace, Nothing
  <2> QED
    BY <1>1, <2>1, CleanedRecord
<1>2. CASE o.create \in {"enqueue", "done"} /\ o.cleanup = "done"
  <2>1. Workspace(o) = [kb |-> TRUE, files |-> Len(o.documents), partial |-> 0]
    BY <1>2 DEF Workspace
  <2> QED
    BY <1>2, <2>1, CleanedRecord
<1> QED
  BY <1>1, <1>2

(* The record of an evaluation says what happened to it. *)
LEMMA ExecutedRecord ==
  ASSUME Has("execute"), result = Execute(input), input \in Evaluations
  PROVE  RecordIsHonest
<1> DEFINE o == input
           created  == o.create = "done"
           cases    == IF created /\ ~IngestionFails(o) THEN CasesRun(o) ELSE <<>>
           caught   == \/ ~created \/ IngestionFails(o)
                       \/ Len(cases) < Len(o.cases)
                       \/ "generation_error" \in ToSet(cases)
           cleaning == created /\ ~o.keep
           left     == IF o.create = "refresh" \/ (created /\ o.keep)
                         THEN Workspace(o) ELSE Cleaned(Workspace(o), o)
<1>1. /\ o.create \in {"insert", "refresh", "copy", "enqueue", "done"}
      /\ o.documents \in Seq({"ready", "failed", "pending", "lost"})
      /\ o.cases \in Seq({"ok", "error", "generation_error"})
      /\ o.cleanup \in {"database", "files", "index", "done"}
      /\ o.keep \in BOOLEAN
  BY EvaluationsAssumption
<1>2. /\ result.status = IF caught \/ (cleaning /\ o.cleanup # "done")
                           THEN "failed" ELSE "completed"
      /\ result.cases = cases
      /\ result.cleaned = (cleaning /\ o.cleanup = "done")
      /\ result.named = created
      /\ result.left = left
  BY DEF Execute
<1>3. ASSUME result.status = "completed"
      PROVE  /\ ToSet(o.documents) \subseteq {"ready"} /\ Bound(o.gold)
             /\ Len(result.cases) = Len(o.cases) /\ ToSet(result.cases) \subseteq {"ok"}
             /\ result.cleaned <=> ~o.keep
  <2>1. ~caught /\ ~(cleaning /\ o.cleanup # "done")
    BY <1>2, <1>3
  <2>2. created /\ ~IngestionFails(o) /\ cases = CasesRun(o)
    BY <2>1
  <2>3. ToSet(o.documents) \subseteq {"ready"} /\ Bound(o.gold)
    <3>1. ToSet(o.documents) \subseteq {"ready", "failed", "pending", "lost"}
      BY <1>1 DEF ToSet
    <3> QED
      BY <2>2, <3>1 DEF IngestionFails
  <2>4. ~(Len(CasesRun(o)) < Len(o.cases))
    BY <2>1, <2>2
  <2>5. CasesRun(o) = o.cases /\ "error" \notin ToSet(o.cases)
    BY <1>1, <2>4, AllCasesRun
  <2>6. "generation_error" \notin ToSet(o.cases)
    BY <2>1, <2>2, <2>5
  <2>7. ToSet(o.cases) \subseteq {"ok", "error", "generation_error"}
    BY <1>1 DEF ToSet
  <2>8. result.cleaned <=> ~o.keep
    BY <1>2, <2>1, <2>2
  <2> HIDE DEF caught, cleaning, created, cases
  <2> QED
    BY <1>2, <2>2, <2>3, <2>5, <2>6, <2>7, <2>8
<1>4. ASSUME result.cleaned PROVE result.left = Nothing
  <2>1. created /\ ~o.keep /\ o.cleanup = "done"
    BY <1>2, <1>4
  <2> QED
    BY <1>1, <1>2, <2>1, CleanedWorkspace
<1>5. ASSUME result.left # Nothing
      PROVE  \/ o.create # "done" /\ (o.create \in {"refresh", "copy"} \/ o.cleanup # "done")
             \/ result.named /\ (o.keep \/ result.status = "failed")
  <2>1. CASE o.create \notin {"refresh", "done"}
    <3>1. Cleaned(Workspace(o), o) # Nothing
      BY <1>2, <1>5, <2>1
    <3> QED
      BY <1>1, <2>1, <3>1, CleanedWorkspace
  <2>2. CASE o.create = "done" /\ ~o.keep
    <3>1. Cleaned(Workspace(o), o) # Nothing
      BY <1>2, <1>5, <2>2
    <3>2. o.cleanup # "done"
      BY <1>1, <2>2, <3>1, CleanedWorkspace
    <3> QED
      BY <1>2, <2>2, <3>2
  <2>3. CASE o.create = "done" /\ o.keep
    BY <1>2, <2>3
  <2>4. CASE o.create = "refresh"
    BY <2>4
  <2> QED
    BY <2>1, <2>2, <2>3, <2>4
<1> HIDE DEF caught, cleaning, created, cases, left
<1> QED
  BY <1>3, <1>4, <1>5 DEF RecordIsHonest

(* A faithful answer over passages that retrieval gave is one to a retrieval *)
(* that passed, unless the case is one to refuse. *)
LEMMA JudgedFaithfully ==
  ASSUME Has("case"), result = RunCase(input.case, input.found, input.answer), input \in Cases
  PROVE  FaithfulnessIsRetrieved
<1> DEFINE case == input.case
           found == input.found
           answer == Answer(found, input.answer)
<1>1. /\ case.supported \in BOOLEAN /\ found.sufficient \in BOOLEAN
      /\ case.supported => case.relevant # {}
      /\ input.answer.used \subseteq found.passages
  BY CasesAssumption DEF Loads
<1>2. /\ result.passed = RetrievalPassed(case, found)
      /\ result.faithful = Faithful(case, answer)
  BY DEF RunCase
<1>3. found.sufficient \/ answer.used = {}
  BY DEF Answer, Refusal
<1>4. answer.used \subseteq found.passages
  BY <1>1 DEF Answer, Refusal
<1>5. ASSUME result.faithful
      PROVE  result.passed \/ (~case.supported /\ case.required = {})
  <2>1. /\ answer.used = {} => case.relevant = {}
        /\ case.required \subseteq answer.used
    BY <1>2, <1>5 DEF Faithful
  <2>2. CASE case.supported
    <3>1. found.sufficient /\ case.required \subseteq found.passages
      BY <1>1, <1>3, <1>4, <2>1, <2>2
    <3> QED
      BY <1>2, <2>2, <3>1 DEF RetrievalPassed
  <2>3. CASE ~case.supported /\ case.required # {}
    <3>1. case.required \subseteq found.passages
      BY <1>4, <2>1
    <3> QED
      BY <1>2, <2>3, <3>1 DEF RetrievalPassed
  <2> QED
    BY <2>2, <2>3
<1> QED
  BY <1>5 DEF FaithfulnessIsRetrieved

(* The lists of the filters that retrieval is given. *)
LEMMA FilterLists ==
  ASSUME NEW filters
  PROVE  /\ RetrievalFilters(filters).after = 0 /\ RetrievalFilters(filters).before = 0
         /\ \A key \in Keys : RetrievalFilters(filters).lists[key] =
              IF key \in DOMAIN filters THEN filters[key] ELSE {}
BY DEF RetrievalFilters

(* What the runner finds correct under filters that are given, retrieval finds, *)
(* where their tags are folded in one way. *)
LEMMA CorrectGetsThrough ==
  ASSUME NEW document, NEW filters, DOMAIN filters \subseteq Keys,
         Satisfies(document, filters), PlainTags(filters)
  PROVE  LetsThrough(RetrievalFilters(filters), document)
<1> DEFINE f == RetrievalFilters(filters)
<1>1. f.after = 0 /\ f.before = 0
  BY FilterLists
<1>2. Folded(f.lists["tags"]) \subseteq Lowered(StoredTags(document))
  <2>1. "tags" \in Keys
    BY DEF Keys
  <2>2. f.lists["tags"] \subseteq document["tags"]
    <3>1. CASE "tags" \in DOMAIN filters
      BY <2>1, <3>1, FilterLists DEF Satisfies
    <3>2. CASE "tags" \notin DOMAIN filters
      BY <2>1, <3>2, FilterLists
    <3> QED
      BY <3>1, <3>2
  <2>3. \A tag \in f.lists["tags"] : Casefold[tag] = Lower[tag]
    BY DEF PlainTags, TagsAsked
  <2> HIDE DEF f
  <2> QED
    BY <2>2, <2>3 DEF Folded, Lowered, StoredTags
<1>3. ASSUME NEW key \in Keys \ {"tags"}, f.lists[key] # {}
      PROVE  document[key] \intersect f.lists[key] # {}
  <2>1. key \in DOMAIN filters /\ f.lists[key] = filters[key]
    BY <1>3, FilterLists
  <2> QED
    BY <1>3, <2>1 DEF Satisfies
<1> HIDE DEF f
<1> QED
  BY <1>1, <1>2, <1>3 DEF LetsThrough, f

(* Without filters every Document gets through. *)
LEMMA EveryoneGetsThrough == ASSUME NEW document PROVE LetsThrough(Unfiltered, document)
<1>1. DOMAIN <<>> = {}
  OBVIOUS
<1>2. Satisfies(document, <<>>)
  BY <1>1 DEF Satisfies
<1>3. PlainTags(<<>>)
  BY <1>1, FilterLists DEF PlainTags, TagsAsked, Keys
<1> QED
  BY <1>1, <1>2, <1>3, CorrectGetsThrough DEF Unfiltered

(* Where every list has a word, what gets through is correct but for tags that *)
(* the runner does not see. *)
LEMMA ThroughIsCorrect ==
  ASSUME NEW document, NEW filters, NEW inferred, DOMAIN filters \subseteq Keys,
         \A key \in DOMAIN filters : filters[key] # {},
         Folded(TagsAsked(filters) \ document["tags"])
           \intersect Lowered(StoredTags(document)) = {},
         LetsThrough(FiltersOf(filters, inferred), document)
  PROVE  Satisfies(document, filters)
<1>1. CASE RetrievalFilters(filters) = Unfiltered
  <2>1. ASSUME NEW key \in DOMAIN filters PROVE FALSE
    <3>1. key \in Keys /\ DOMAIN <<>> = {}
      OBVIOUS
    <3>2. RetrievalFilters(filters).lists[key] = filters[key]
      BY <3>1, FilterLists
    <3>3. Unfiltered.lists[key] = {}
      BY <3>1, FilterLists DEF Unfiltered
    <3> QED
      BY <1>1, <3>2, <3>3
  <2> QED
    BY <2>1 DEF Satisfies
<1>2. CASE RetrievalFilters(filters) # Unfiltered
  <2> DEFINE f == RetrievalFilters(filters)
  <2>1. LetsThrough(f, document)
    BY <1>2 DEF FiltersOf
  <2>2. ASSUME NEW key \in DOMAIN filters, key # "tags"
        PROVE  document[key] \intersect filters[key] # {}
    <3>1. f.lists[key] = filters[key]
      BY FilterLists
    <3> HIDE DEF f
    <3> QED
      BY <2>1, <2>2, <3>1 DEF LetsThrough
  <2>3. ASSUME "tags" \in DOMAIN filters PROVE filters["tags"] \subseteq document["tags"]
    <3>1. f.lists["tags"] = filters["tags"]
      BY <2>3, FilterLists DEF Keys
    <3>2. Folded(filters["tags"]) \subseteq Lowered(StoredTags(document))
      <4> HIDE DEF f
      <4> QED BY <2>1, <3>1 DEF LetsThrough
    <3>3. ASSUME NEW tag \in filters["tags"], tag \notin document["tags"] PROVE FALSE
      <4>1. Casefold[tag] \in Folded(TagsAsked(filters) \ document["tags"])
        BY <3>1, <3>3 DEF Folded, TagsAsked
      <4>2. Casefold[tag] \in Lowered(StoredTags(document))
        BY <3>2, <3>3 DEF Folded
      <4> QED
        BY <4>1, <4>2
    <3> QED
      BY <3>3
  <2> QED
    BY <2>2, <2>3 DEF Satisfies
<1> QED
  BY <1>1, <1>2

Loading == result = Load(input.case, input.owner, input.filters, input.inferred)

(* Retrieval and the runner agree on the filters of a case. *)
LEMMA FiltersDoAgree ==
  ASSUME Has("load"), Loading, input \in Manifests
  PROVE  FiltersAgree
<1> DEFINE filters == input.filters
<1>1. DOMAIN filters \subseteq Keys
  BY ManifestsAssumption
<1>2. /\ result.through = {p \in DOMAIN input.owner :
                             LetsThrough(FiltersOf(filters, input.inferred), input.owner[p])}
      /\ result.correct = {p \in DOMAIN input.owner : Satisfies(input.owner[p], filters)}
  BY DEF Loading, Load
<1>3. ASSUME \A key \in DOMAIN filters : filters[key] # {}, NEW p \in result.through,
             Folded(TagsAsked(filters) \ input.owner[p]["tags"])
               \intersect Lowered(StoredTags(input.owner[p])) = {}
      PROVE  p \in result.correct
  <2>1. p \in DOMAIN input.owner /\ LetsThrough(FiltersOf(filters, input.inferred), input.owner[p])
    BY <1>2
  <2>2. Satisfies(input.owner[p], filters)
    <3> HIDE DEF filters
    <3> QED BY <1>1, <1>3, <2>1, ThroughIsCorrect
  <2> QED
    BY <1>2, <2>1, <2>2
<1>4. ASSUME RetrievalFilters(filters) # Unfiltered, PlainTags(filters), NEW p \in result.correct
      PROVE  p \in result.through
  <2>1. p \in DOMAIN input.owner /\ Satisfies(input.owner[p], filters)
    BY <1>2
  <2>2. LetsThrough(RetrievalFilters(filters), input.owner[p])
    BY <1>1, <1>4, <2>1, CorrectGetsThrough
  <2>3. FiltersOf(filters, input.inferred) = RetrievalFilters(filters)
    BY <1>4 DEF FiltersOf
  <2> QED
    BY <1>2, <2>1, <2>2, <2>3
<1> QED
  BY <1>3, <1>4 DEF FiltersAgree

(* An answer to a case that passes retrieval and is faithful to it. *)
Passing(case, passages, sufficient, used, outcome) ==
    LET run == RunCase(case, [sufficient |-> sufficient, unnamed |-> FALSE, passages |-> passages],
                       [outcome |-> outcome, used |-> used,
                        facts   |-> UNION Asked(case)])
    IN  run.passed /\ run.faithful /\ run.ends = "ok"

(* The answer that cites every relevant passage passes, where one is to be given *)
(* and every list of phrases has one. *)
LEMMA PassingAnswer ==
  ASSUME NEW case, Loads(case), case.supported \in BOOLEAN,
         ~(~case.supported /\ case.required = {}),
         \A phrases \in Asked(case) : phrases # {}
  PROVE  Passing(case, case.relevant, TRUE, case.relevant,
                 IF case.supported THEN "grounded_answer" ELSE "conflicting_evidence")
<1> DEFINE found == [sufficient |-> TRUE, unnamed |-> FALSE, passages |-> case.relevant]
           outcome == IF case.supported THEN "grounded_answer" ELSE "conflicting_evidence"
           answer == [outcome |-> outcome, used |-> case.relevant,
                      facts |-> UNION Asked(case)]
           run == RunCase(case, found, answer)
<1>1. /\ case.required \subseteq case.relevant
      /\ case.refusal = ~case.supported
      /\ case.conflicting = (case.required # {} /\ ~case.supported)
      /\ \A claim \in case.claims : claim.evidence \subseteq case.required
  BY DEF Loads
<1>2. RetrievalPassed(case, found)
  BY <1>1 DEF RetrievalPassed
<1>3. Answer(found, answer) = answer
  BY DEF Answer
<1>4. RefusalCorrect(case, answer)
  <2>1. CASE case.supported
    BY <1>1, <2>1 DEF RefusalCorrect
  <2>2. CASE ~case.supported
    BY <1>1, <2>2 DEF RefusalCorrect
  <2> QED
    BY <2>1, <2>2
<1>5. Faithful(case, answer)
  <2>1. \A phrases \in Asked(case) : phrases \intersect answer.facts # {}
    <3> HIDE DEF outcome
    <3> QED OBVIOUS
  <2>2. answer.used = case.relevant
    OBVIOUS
  <2> HIDE DEF answer
  <2> QED
    BY <1>1, <1>4, <2>1, <2>2 DEF Faithful
<1>6. run = [ends |-> "ok", passed |-> RetrievalPassed(case, found),
             faithful |-> Faithful(case, answer)]
  <2>1. found.sufficient /\ ~found.unnamed /\ answer.outcome # "failed"
    OBVIOUS
  <2> HIDE DEF found, answer
  <2> QED BY <1>3, <2>1 DEF RunCase
<1> HIDE DEF run
<1>7. run.passed /\ run.faithful /\ run.ends = "ok"
  <2> HIDE DEF found, answer
  <2> QED BY <1>2, <1>5, <1>6
<1> QED
  BY <1>7 DEF Passing, run

(* A refusal passes where nothing is relevant and it has the words asked for. *)
LEMMA PassingRefusal ==
  ASSUME NEW case, Loads(case), ~case.supported, case.required = {},
         case.relevant = {}, NEW passages,
         \A phrases \in Asked(case) : phrases \intersect RefusalPhrases # {}
  PROVE  Passing(case, passages, FALSE, {}, "insufficient_evidence")
<1> DEFINE found == [sufficient |-> FALSE, unnamed |-> FALSE, passages |-> passages]
           answer == [outcome |-> "insufficient_evidence", used |-> {},
                      facts |-> UNION Asked(case)]
           run == RunCase(case, found, answer)
<1>1. /\ case.refusal /\ ~case.conflicting
      /\ \A claim \in case.claims : claim.evidence = {}
  BY DEF Loads
<1>2. RetrievalPassed(case, found)
  BY DEF RetrievalPassed
<1>3. Answer(found, answer) = Refusal
  BY DEF Answer
<1>4. Faithful(case, Refusal)
  BY <1>1 DEF Faithful, RefusalCorrect, Refusal
<1>5. run = [ends |-> "ok", passed |-> RetrievalPassed(case, found),
             faithful |-> Faithful(case, Refusal)]
  <2>1. ~found.sufficient /\ ~found.unnamed
    OBVIOUS
  <2> HIDE DEF found, answer
  <2> QED BY <1>3, <2>1 DEF RunCase
<1> HIDE DEF run
<1>6. run.passed /\ run.faithful /\ run.ends = "ok"
  <2> HIDE DEF found, answer
  <2> QED BY <1>2, <1>4, <1>5
<1> QED
  BY <1>6 DEF Passing, run

(* So every case that loads can be passed. *)
LEMMA LoadedCanBePassed ==
  ASSUME Has("load"), Loading, input \in Manifests
  PROVE  CasesCanBePassed
<1> DEFINE case == input.case
           filters == input.filters
           passages == case.relevant \intersect result.through
           Witnessed == \E sufficient \in BOOLEAN, used \in SUBSET passages,
              outcome \in {"grounded_answer", "conflicting_evidence", "insufficient_evidence"} :
                Passing(case, passages, sufficient, used, outcome)
<1>1. /\ case.supported \in BOOLEAN
      /\ case.relevant \subseteq DOMAIN input.owner
      /\ DOMAIN filters \subseteq Keys
  BY ManifestsAssumption
<1>2. /\ result.through = {p \in DOMAIN input.owner :
                             LetsThrough(FiltersOf(filters, input.inferred), input.owner[p])}
      /\ result.loaded = (Loads(case) /\ QrelsSatisfy(case, input.owner, filters))
  BY DEF Loading, Load
<1>3. SUFFICES ASSUME result.loaded,
                      ~(/\ ~case.supported /\ case.required = {}
                        /\ case.relevant # {}),
                      ~(\E phrases \in Asked(case) :
                          IF ~case.supported /\ case.required = {}
                            THEN phrases \intersect RefusalPhrases = {} ELSE phrases = {}),
                      PlainTags(filters),
                      ~(RetrievalFilters(filters) = Unfiltered /\ input.inferred # Unfiltered)
               PROVE  Witnessed
  BY DEF CasesCanBePassed, Passing
<1>4. Loads(case) /\ QrelsSatisfy(case, input.owner, filters)
  BY <1>2, <1>3
<1>5. passages = case.relevant
  <2>1. ASSUME NEW p \in case.relevant
        PROVE  LetsThrough(FiltersOf(filters, input.inferred), input.owner[p])
    <3>1. CASE RetrievalFilters(filters) = Unfiltered
      <4>1. FiltersOf(filters, input.inferred) = Unfiltered
        BY <1>3, <3>1 DEF FiltersOf
      <4> QED
        BY <4>1, EveryoneGetsThrough
    <3>2. CASE RetrievalFilters(filters) # Unfiltered
      <4>1. Satisfies(input.owner[p], filters)
        BY <1>4 DEF QrelsSatisfy
      <4>2. FiltersOf(filters, input.inferred) = RetrievalFilters(filters)
        BY <3>2 DEF FiltersOf
      <4> QED
        BY <1>1, <1>3, <4>1, <4>2, CorrectGetsThrough
    <3> QED
      BY <3>1, <3>2
  <2> QED
    BY <1>1, <1>2, <2>1
<1>6. CASE ~case.supported /\ case.required = {}
  <2>1. /\ case.relevant = {}
        /\ \A phrases \in Asked(case) : phrases \intersect RefusalPhrases # {}
    BY <1>3, <1>6
  <2>2. Passing(case, passages, FALSE, {}, "insufficient_evidence")
    BY <1>4, <1>6, <2>1, PassingRefusal
  <2> HIDE DEF passages, case
  <2> QED
    BY <2>2
<1>7. CASE ~(~case.supported /\ case.required = {})
  <2> DEFINE outcome == IF case.supported THEN "grounded_answer" ELSE "conflicting_evidence"
  <2>1. Passing(case, passages, TRUE, passages, outcome)
    <3>1. \A phrases \in Asked(case) : phrases # {}
      BY <1>3, <1>7
    <3> QED
      BY <1>1, <1>4, <1>5, <1>7, <3>1, PassingAnswer
  <2>2. outcome \in {"grounded_answer", "conflicting_evidence", "insufficient_evidence"}
    OBVIOUS
  <2> HIDE DEF passages, case, outcome
  <2> QED
    BY <2>1, <2>2
<1> QED
  BY <1>6, <1>7

-----------------------------------------------------------------------------
(* Metrics and verdicts.                                                      *)

Summing(iter, S, g) ==
  iter = [s \in SUBSET S |-> IF s = {} THEN 0
                             ELSE g[CHOOSE x \in s : TRUE] + iter[s \ {CHOOSE x \in s : TRUE}]]

SumOf(S, g) == (CHOOSE iter : Summing(iter, S, g))[S]

(* A sum is in every set that holds 0 and that adding a value does not leave. *)
LEMMA SumIn ==
  ASSUME NEW S, IsFiniteSet(S), NEW T, 0 \in T, NEW g, \A x \in S : \A v \in T : g[x] + v \in T
  PROVE  SumOf(S, g) \in T
<1> DEFINE some(s) == CHOOSE x \in s : TRUE
           pick == [s \in (SUBSET S) \ {{}} |-> some(s)]
           step == [p \in S \X T |-> g[p[1]] + p[2]]
           c == CHOOSE iter : Summing(iter, S, g)
<1>1. ASSUME NEW s \in SUBSET S, s # {} PROVE some(s) \in s
  BY <1>1
<1>2. pick \in [(SUBSET S) \ {{}} -> S]
      /\ \A s \in (SUBSET S) \ {{}} : pick[s] \in s /\ pick[s] = some(s)
  <2> HIDE DEF some
  <2> QED BY <1>1
<1>3. step \in [S \X T -> T]
  OBVIOUS
<1>4. PICK f : Folding(f, S, T, 0, pick, step)
  <2> HIDE DEF pick, step
  <2> QED BY <1>2, <1>3, SubsetRecursion
<1>5. Summing(f, S, g)
  <2>1. ASSUME NEW s \in SUBSET S
        PROVE  f[s] = IF s = {} THEN 0 ELSE g[some(s)] + f[s \ {some(s)}]
    <3>1. CASE s = {}
      BY <1>4, <3>1 DEF Folding
    <3>2. CASE s # {}
      <4>1. f[s] = step[<<some(s), f[s \ {some(s)}]>>]
        <5> HIDE DEF step, pick, some
        <5> QED BY <1>2, <1>4, <3>2 DEF Folding
      <4>2. some(s) \in S /\ f[s \ {some(s)}] \in T
        <5> HIDE DEF step, pick, some
        <5> QED BY <1>1, <1>4, <3>2 DEF Folding
      <4> HIDE DEF some
      <4> QED
        BY <3>2, <4>1, <4>2
    <3> QED
      BY <3>1, <3>2
  <2>2. f = [s \in SUBSET S |-> f[s]]
    <3> HIDE DEF pick, step
    <3> QED BY <1>4 DEF Folding
  <2> QED
    BY <2>1, <2>2 DEF Summing
<1>6. Summing(c, S, g)
  <2> HIDE DEF pick, step
  <2> QED BY <1>5
<1> HIDE DEF c
<1>7. \A s \in SUBSET S : c[s] = IF s = {} THEN 0 ELSE g[some(s)] + c[s \ {some(s)}]
  BY <1>6 DEF Summing
<1> DEFINE M == {k \in Nat : \A s \in SUBSET S : Cardinality(s) = k => c[s] \in T}
<1>8. \A s \in SUBSET S : IsFiniteSet(s) /\ Cardinality(s) \in Nat
  BY FS_Subset, FS_CardinalityType
<1>9. 0 \in M
  <2>1. ASSUME NEW s \in SUBSET S, Cardinality(s) = 0 PROVE s = {}
    BY <1>8, <2>1, FS_EmptySet
  <2> HIDE DEF some
  <2> QED
    BY <1>7, <2>1
<1>10. ASSUME NEW k \in Nat, k \in M PROVE k + 1 \in M
  <2>1. SUFFICES ASSUME NEW s \in SUBSET S, Cardinality(s) = k + 1 PROVE c[s] \in T
    OBVIOUS
  <2>2. s # {}
    BY <2>1, FS_EmptySet
  <2> DEFINE x == some(s)
  <2>3. x \in s
    BY <1>1, <2>2
  <2> HIDE DEF some
  <2>4. Cardinality(s \ {x}) = k
    <3> HIDE DEF x
    <3>1. Cardinality(s \ {x}) = Cardinality(s) - 1
      BY <1>8, <2>3, FS_RemoveElement
    <3> QED
      BY <2>1, <3>1, (k + 1) - 1 = k
  <2>5. c[s \ {x}] \in T
    BY <1>10, <2>4
  <2>6. c[s] = g[x] + c[s \ {x}]
    BY <1>7, <2>2
  <2> HIDE DEF x
  <2> QED
    BY <2>3, <2>5, <2>6
<1>11. S \in SUBSET S /\ Cardinality(S) \in M
  <2>1. Nat \subseteq M
    <3> HIDE DEF M
    <3> QED BY <1>9, <1>10, SetInduction
  <2> HIDE DEF M
  <2> QED BY <1>8, <2>1
<1> QED
  BY <1>11 DEF SumOf, c

(* A metric is the sum of its component over the cases. *)
LEMMA MetricSum ==
  ASSUME NEW name, NEW cases, NEW observed
  PROVE  Metric(name, cases, observed) =
           SumOf(1 .. Len(cases), [i \in 1 .. Len(cases) |-> Component(name, cases[i], observed[i].ranked)])
BY DEF Metric, SumFunction, SumFunctionOnSet, FoldFunctionOnSet, MapThenFoldSet, SumOf, Summing

Gains(cases, baseline, candidate) ==
  [name \in Components |-> Metric(name, cases, candidate) - Metric(name, cases, baseline)]

(* What the quality gate compares is the sum of the gains. *)
LEMMA GainSum ==
  ASSUME NEW cases, NEW baseline, NEW candidate, NEW minimum
  PROVE  LET Gain(name) == Metric(name, cases, candidate) - Metric(name, cases, baseline)
         IN  MapThenSumSet(Gain, Components) = SumOf(Components, Gains(cases, baseline, candidate))
<1> DEFINE Gain(name) == Metric(name, cases, candidate) - Metric(name, cases, baseline)
           Eq(iter) == iter = [s \in SUBSET Components |-> IF s = {} THEN 0
                             ELSE Gain(CHOOSE x \in s : TRUE) + iter[s \ {CHOOSE x \in s : TRUE}]]
           g == Gains(cases, baseline, candidate)
<1>1. MapThenSumSet(Gain, Components) = (CHOOSE iter : Eq(iter))[Components]
  BY DEF MapThenSumSet, MapThenFoldSet
<1>2. ASSUME NEW iter PROVE Eq(iter) <=> Summing(iter, Components, g)
  <2>1. ASSUME NEW s \in SUBSET Components, s # {}
        PROVE  Gain(CHOOSE x \in s : TRUE) = g[CHOOSE x \in s : TRUE]
    <3>1. (CHOOSE x \in s : TRUE) \in Components
      BY <2>1
    <3> QED
      BY <3>1 DEF Gains
  <2> HIDE DEF Gain, g
  <2> QED
    BY <2>1 DEF Summing
<1> HIDE DEF Eq
<1>3. (CHOOSE iter : Eq(iter)) = CHOOSE iter : Summing(iter, Components, g)
  BY <1>2
<1> QED
  BY <1>1, <1>3 DEF SumOf

(* A metric is a whole number. *)
LEMMA ComponentType ==
  ASSUME NEW name \in Components, NEW case, IsFiniteSet(case.relevant), NEW ranked \in Seq(STRING)
  PROVE  Component(name, case, ranked) \in Int
<1>1. ASSUME NEW actual PROVE Recall(case.relevant, actual) \in Int
  <2> DEFINE expected == case.relevant
  <2>1. CASE expected = {}
    BY <2>1, ScoresAssumption DEF Recall
  <2>2. CASE expected # {}
    <3>1. Cardinality(expected) \in Nat \ {0}
      BY <2>2, FS_CardinalityType, FS_EmptySet
    <3>2. Cardinality(expected \intersect actual) \in Nat
      BY FS_Intersection, FS_CardinalityType
    <3>3. Whole * Cardinality(expected \intersect actual) \in Nat
      BY <3>2, ScoresAssumption
    <3>4. (Whole * Cardinality(expected \intersect actual)) \div Cardinality(expected) \in Int
      BY <3>1, <3>3
    <3> QED
      BY <2>2, <3>4 DEF Recall
  <2> QED
    BY <2>1, <2>2
<1>2. ReciprocalRank(case.relevant, ranked) \in Int
  <2> DEFINE n == Min({CutOff, Len(ranked)})
             hits == {i \in 1 .. n : ranked[i] \in case.relevant}
  <2>1. n \in Nat
    <3>1. CutOff \in Nat /\ Len(ranked) \in Nat
      BY ScoresAssumption
    <3>2. \E x \in {CutOff, Len(ranked)} : \A y \in {CutOff, Len(ranked)} : x <= y
      BY <3>1
    <3>3. n \in {CutOff, Len(ranked)}
      BY <3>2 DEF Min
    <3> QED
      BY <3>1, <3>3
  <2> HIDE DEF n
  <2>2. CASE hits = {}
    BY <2>2, ScoresAssumption DEF ReciprocalRank, n
  <2>3. CASE hits # {}
    <3>1. Min(hits) \in 1 .. n
      <4>1. hits \in SUBSET (1 .. n)
        OBVIOUS
      <4> HIDE DEF hits
      <4> QED BY <2>1, <2>3, <4>1, MinIn
    <3>2. Whole \div Min(hits) \in Int
      <4> HIDE DEF hits
      <4> QED BY <3>1, <2>1, ScoresAssumption
    <3> QED
      BY <2>3, <3>2, ScoresAssumption DEF ReciprocalRank, n
  <2> QED
    BY <2>2, <2>3
<1>3. CASE name \in {"recall_at_cutoff", "recall"}
  BY <1>1, <1>3 DEF Component
<1>4. CASE name = "reciprocal_rank"
  BY <1>2, <1>4 DEF Component
<1>5. CASE name = "required"
  BY <1>5, ScoresAssumption DEF Component
<1> QED
  BY <1>3, <1>4, <1>5 DEF Components

LEMMA MetricType ==
  ASSUME NEW name \in Components, NEW cases, NEW observed, Len(cases) \in Nat,
         \A i \in 1 .. Len(cases) :
            IsFiniteSet(cases[i].relevant) /\ observed[i].ranked \in Seq(STRING)
  PROVE  Metric(name, cases, observed) \in Int
<1> DEFINE g == [i \in 1 .. Len(cases) |-> Component(name, cases[i], observed[i].ranked)]
<1>1. \A i \in 1 .. Len(cases) : g[i] \in Int
  BY ComponentType
<1>2. IsFiniteSet(1 .. Len(cases))
  BY FS_Interval
<1>3. SumOf(1 .. Len(cases), g) \in Int
  <2> HIDE DEF g
  <2>1. \A i \in 1 .. Len(cases) : \A v \in Int : g[i] + v \in Int
    BY <1>1
  <2> QED
    BY <1>2, <2>1, 0 \in Int, SumIn
<1> QED
  BY <1>3, MetricSum

(* The gain that is asked for on average is a gain. *)
LEMMA PositiveProduct ==
  ASSUME NEW a \in Nat \ {0}, NEW b \in Nat \ {0}
  PROVE  4 * a * b > 0
OBVIOUS

(* A gate on quality that passes has a gain where one is asked for. *)
LEMMA GainIsSomewhere ==
  ASSUME NEW cases, NEW baseline, NEW candidate, NEW minimum \in Int, minimum > 0,
         Len(cases) \in Nat \ {0},
         \A i \in 1 .. Len(cases) :
            /\ IsFiniteSet(cases[i].relevant)
            /\ baseline[i].ranked \in Seq(STRING) /\ candidate[i].ranked \in Seq(STRING),
         QualityGate(cases, baseline, candidate, minimum) = "pass"
  PROVE  \E name \in Components :
            Metric(name, cases, candidate) - Metric(name, cases, baseline) > 0
<1> DEFINE g == Gains(cases, baseline, candidate)
           T == {v \in Int : v <= 0}
<1>1. SUFFICES ASSUME \A name \in Components : ~(g[name] > 0) PROVE FALSE
  BY DEF Gains
<1>2. \A name \in Components : g[name] \in Int
  <2>1. ASSUME NEW name \in Components
        PROVE  Metric(name, cases, candidate) \in Int /\ Metric(name, cases, baseline) \in Int
    BY MetricType
  <2> QED
    BY <2>1 DEF Gains
<1>3. SumOf(Components, g) \in T
  <2>1. \A name \in Components : \A v \in T : g[name] + v \in T
    <3> HIDE DEF g
    <3> QED BY <1>1, <1>2
  <2>2. IsFiniteSet(Components) /\ 0 \in T
    <3>1. IsFiniteSet({"recall_at_cutoff"} \union {"recall"})
      BY FS_Singleton, FS_Union
    <3>2. IsFiniteSet({"reciprocal_rank"} \union {"required"})
      BY FS_Singleton, FS_Union
    <3>3. Components = ({"recall_at_cutoff"} \union {"recall"})
                         \union ({"reciprocal_rank"} \union {"required"})
      BY DEF Components
    <3>4. IsFiniteSet(Components)
      BY <3>1, <3>2, <3>3, FS_Union
    <3> QED
      BY <3>4
  <2> HIDE DEF g, T
  <2> QED BY <2>1, <2>2, SumIn
<1>4. SumOf(Components, g) >= 4 * Len(cases) * minimum
  BY GainSum DEF QualityGate, Gate
<1>5. 4 * Len(cases) * minimum > 0
  <2>1. minimum \in Nat \ {0}
    OBVIOUS
  <2> QED
    BY <2>1, PositiveProduct
<1> HIDE DEF g
<1> QED
  BY <1>3, <1>4, <1>5

Verdict(v) ==
    [ready    |-> Ready(v.cases, v.ran, v.baseline, v.candidate, v.checks, v.limits),
     compared |-> ComparedReady(v.cases, v.ran, v.baseline, v.candidate, v.limits, v.eligible)]

(* What a gate says. *)
LEMMA GateValues ==
  ASSUME NEW v
  PROVE  /\ QualityGate(v.cases, v.baseline, v.candidate, v.limits.minimum) \in {"pass", "fail"}
         /\ CrossPageGate(v.cases, v.candidate) \in {"pass", "fail", "not_measured"}
         /\ OperationalGate(v.checks) \in {"pass", "fail", "not_measured"}
BY DEF QualityGate, CrossPageGate, CaseGate, OperationalGate, Gate

(* One element more. *)
LEMMA ElementsOfAppend ==
  ASSUME NEW T, NEW s \in Seq(T), NEW e \in T
  PROVE  ToSet(Append(s, e)) = ToSet(s) \union {e}
<1>1. /\ DOMAIN s = 1 .. Len(s) /\ Len(s) \in Nat
      /\ DOMAIN Append(s, e) = 1 .. Len(s) + 1
      /\ Append(s, e)[Len(s) + 1] = e
      /\ \A i \in 1 .. Len(s) : Append(s, e)[i] = s[i]
  OBVIOUS
<1>2. 1 .. Len(s) + 1 = (1 .. Len(s)) \union {Len(s) + 1}
  BY <1>1
<1> QED
  BY <1>1, <1>2 DEF ToSet

(* The verdicts read every measured gate, and the first one the operational gate too. *)
LEMMA MeasuredRange ==
  ASSUME NEW v
  PROVE  LET gates == MeasuredGates(v.cases, v.baseline, v.candidate, v.limits)
         IN  /\ QualityGate(v.cases, v.baseline, v.candidate, v.limits.minimum) \in ToSet(gates)
             /\ CrossPageGate(v.cases, v.candidate) \in ToSet(gates)
             /\ ToSet(Append(gates, OperationalGate(v.checks)))
                  = ToSet(gates) \union {OperationalGate(v.checks)}
<1> DEFINE gates == MeasuredGates(v.cases, v.baseline, v.candidate, v.limits)
           q == QualityGate(v.cases, v.baseline, v.candidate, v.limits.minimum)
           c == CrossPageGate(v.cases, v.candidate)
           o == OperationalGate(v.checks)
<1>1. \E x3, x4, x5, x6 : gates = <<c, x3, q, x4, x5, x6>>
  BY DEF MeasuredGates
<1> HIDE DEF gates, q, c, o
<1>2. PICK x3, x4, x5, x6 : gates = <<c, x3, q, x4, x5, x6>>
  BY <1>1
<1>3. ToSet(gates) = {c, x3, q, x4, x5, x6}
  BY <1>2 DEF ToSet
<1>4. gates \in Seq({c, x3, q, x4, x5, x6, o})
  BY <1>2
<1>5. ToSet(Append(gates, o)) = ToSet(gates) \union {o}
  BY <1>4, ElementsOfAppend
<1> QED
  BY <1>3, <1>5 DEF gates, q, c, o

(* A favourable verdict is earned. *)
LEMMA EarnedVerdict ==
  ASSUME Has("verdict"), result = Verdict(input), input \in Verdicts
  PROVE  VerdictIsEarned
<1> DEFINE v == input
           gates == MeasuredGates(v.cases, v.baseline, v.candidate, v.limits)
           q == QualityGate(v.cases, v.baseline, v.candidate, v.limits.minimum)
           c == CrossPageGate(v.cases, v.candidate)
           o == OperationalGate(v.checks)
           Gain(name) == Metric(name, v.cases, v.candidate) - Metric(name, v.cases, v.baseline)
<1>1. /\ Len(v.cases) \in Nat \ {0}
      /\ \A i \in 1 .. Len(v.cases) :
            /\ IsFiniteSet(v.cases[i].relevant)
            /\ v.baseline[i].ranked \in Seq(STRING)
            /\ v.candidate[i].ranked \in Seq(STRING)
      /\ v.limits.minimum \in Int /\ v.eligible \in BOOLEAN
      /\ v.checks \subseteq {"true", "missing", "false"} /\ v.checks # {}
  BY VerdictsAssumption
<1>2. /\ result.ready = (ToSet(v.ran) = ToSet(Ids(v.cases)) /\ ToSet(Append(gates, o)) = {"pass"})
      /\ result.compared = (/\ v.eligible /\ v.cases # <<>> /\ v.ran = Ids(v.cases)
                            /\ "fail" \notin ToSet(gates))
  BY DEF Verdict, Ready, ComparedReady
<1>3. /\ q \in ToSet(gates) /\ c \in ToSet(gates)
      /\ ToSet(Append(gates, o)) = ToSet(gates) \union {o}
  BY MeasuredRange
<1>4. /\ q \in {"pass", "fail"} /\ c \in {"pass", "fail", "not_measured"}
  BY GateValues
<1>5. ASSUME result.ready
      PROVE  ToSet(gates) \subseteq {"pass"} /\ o = "pass"
  <2> HIDE DEF gates, o
  <2> QED BY <1>2, <1>3, <1>5
<1>6. ASSUME result.ready \/ result.compared
      PROVE  q = "pass" /\ c # "fail"
  <2>1. "fail" \notin ToSet(gates)
    <3> HIDE DEF gates, o
    <3> QED BY <1>2, <1>5, <1>6
  <2> HIDE DEF gates, q, c
  <2> QED
    BY <1>3, <1>4, <2>1
<1>7. ASSUME q = "pass"
      PROVE  /\ \A name \in Components : Gain(name) >= 0
             /\ v.limits.minimum > 0 => \E name \in Components : Gain(name) > 0
  <2>1. \A name \in Components : Gain(name) >= 0
    BY <1>7 DEF QualityGate, Gate
  <2>2. v.limits.minimum > 0 => \E name \in Components : Gain(name) > 0
    BY <1>1, <1>7, GainIsSomewhere
  <2> QED
    BY <2>1, <2>2
<1>8. ASSUME c # "fail", NEW i \in 1 .. Len(v.cases), v.cases[i].crossPage
      PROVE  Component("required", v.cases[i], v.candidate[i].ranked) = Whole
  <2>1. v.cases[i].required \subseteq ToSet(v.candidate[i].ranked)
    BY <1>8 DEF CrossPageGate, CaseGate, Gate
  <2> QED
    BY <2>1 DEF Component
<1>9. ASSUME o = "pass" PROVE v.checks = {"true"}
  BY <1>1, <1>9 DEF OperationalGate, Gate
<1>10. ASSUME result.ready, v.eligible, v.ran = Ids(v.cases) PROVE result.compared
  <2>1. "fail" \notin ToSet(gates)
    <3> HIDE DEF gates, o
    <3> QED BY <1>5, <1>10
  <2>2. v.cases # <<>>
    BY <1>1
  <2> QED
    BY <1>2, <1>10, <2>1, <2>2
<1>11. ASSUME result.ready \/ result.compared
       PROVE  {v.cases[i].id : i \in 1 .. Len(v.cases)} = ToSet(v.ran)
  <2>1. ToSet(v.ran) = ToSet(Ids(v.cases))
    BY <1>2, <1>11
  <2>2. ToSet(Ids(v.cases)) = {v.cases[i].id : i \in 1 .. Len(v.cases)}
    BY DEF Ids, ToSet
  <2> QED
    BY <2>1, <2>2
<1> HIDE DEF q, c, o, gates
<1> QED
  BY <1>5, <1>6, <1>7, <1>8, <1>9, <1>10, <1>11 DEF VerdictIsEarned

-----------------------------------------------------------------------------
(* Folds over sequences, read off at each prefix.                          *)

Follows(c, n, V, base, step) ==
  /\ c[{}] = base
  /\ \A s \in SUBSET (1 .. n) :
        s # {} /\ c[s \ {Max(s)}] \in V => c[s] = step[<<Max(s), c[s \ {Max(s)}]>>]

RunOf(g, c, n, base, step) ==
  /\ g[0] = base /\ g[n] = c[1 .. n]
  /\ \A k \in 1 .. n : g[k] = step[<<k, g[k - 1]>>]

(* A fold from the left over positions, read off its value at each prefix: the *)
(* values follow the steps as long as they stay in V.                          *)
LEMMA PrefixRun ==
  ASSUME NEW n \in Nat, NEW V, NEW base \in V, NEW step \in [(1 .. n) \X V -> V],
         NEW c, Follows(c, n, V, base, step)
  PROVE  \E g \in [0 .. n -> V] : RunOf(g, c, n, base, step)
<1> DEFINE g == [k \in 0 .. n |-> c[1 .. k]]
           M == {k \in Nat : k <= n => g[k] \in V}
<1>1. ASSUME NEW k \in 1 .. n, g[k - 1] \in V PROVE g[k] = step[<<k, g[k - 1]>>]
  <2>1. Max(1 .. k) = k /\ (1 .. k) \ {k} = 1 .. k - 1
    BY MaxOfPrefix, k \in Nat, k # 0
  <2>2. 1 .. k \in SUBSET (1 .. n) /\ 1 .. k # {} /\ k - 1 \in 0 .. n
    OBVIOUS
  <2>3. c[(1 .. k) \ {Max(1 .. k)}] \in V
    BY <1>1, <2>1, <2>2
  <2>4. c[1 .. k] = step[<<Max(1 .. k), c[(1 .. k) \ {Max(1 .. k)}]>>]
    BY <2>2, <2>3 DEF Follows
  <2>5. g[k] = c[1 .. k] /\ g[k - 1] = c[1 .. k - 1]
    BY <2>2
  <2> HIDE DEF g
  <2> QED
    BY <2>1, <2>4, <2>5
<1>2. g[0] = base
  <2>1. 1 .. 0 = {}
    OBVIOUS
  <2> QED
    BY <2>1 DEF Follows
<1>3. 0 \in M
  BY <1>2
<1>4. ASSUME NEW k \in Nat, k \in M PROVE k + 1 \in M
  <2>1. SUFFICES ASSUME k + 1 <= n PROVE g[k + 1] \in V
    OBVIOUS
  <2>2. k + 1 \in 1 .. n /\ (k + 1) - 1 = k /\ g[k] \in V
    BY <1>4, <2>1
  <2> HIDE DEF g
  <2>3. g[k + 1] = step[<<k + 1, g[k]>>]
    BY <1>1, <2>2
  <2> QED
    BY <2>2, <2>3
<1>5. \A k \in 0 .. n : g[k] \in V
  <2>1. Nat \subseteq M
    <3> HIDE DEF M
    <3> QED BY <1>3, <1>4, SetInduction
  <2> HIDE DEF g
  <2> QED
    BY <2>1
<1>6. g \in [0 .. n -> V] /\ g[n] = c[1 .. n]
  BY <1>5
<1>7. \A k \in 1 .. n : g[k] = step[<<k, g[k - 1]>>]
  <2> HIDE DEF g
  <2> QED
    BY <1>1, <1>5
<1> QED
  BY <1>2, <1>6, <1>7 DEF RunOf

(* The function picked takes the elements of s at the positions in taken: after *)
(* k of them, in their order.  The place of an element taken is where it is.    *)
Picks(picked, s, taken) ==
  /\ picked[0] = <<>>
  /\ \A k \in 1 .. Len(s) :
        picked[k] = IF k \in taken THEN Append(picked[k - 1], s[k]) ELSE picked[k - 1]

(* The elements that have been taken after n positions are those at the *)
(* positions w, in order. *)
PicksAt(picked, s, taken, n, w) ==
  /\ w \in [1 .. Len(picked[n]) -> taken \cap (1 .. n)]
  /\ \A q \in taken \cap (1 .. n) : \E i \in 1 .. Len(picked[n]) : w[i] = q
  /\ \A i, j \in 1 .. Len(picked[n]) : i < j => w[i] < w[j]
  /\ \A i \in 1 .. Len(picked[n]) : picked[n][i] = s[w[i]]
  /\ \A k \in 0 .. n :
        /\ Len(picked[k]) <= Len(picked[n])
        /\ \A i \in 1 .. Len(picked[n]) : i <= Len(picked[k]) <=> w[i] <= k
        /\ \A i \in 1 .. Len(picked[k]) : picked[k][i] = picked[n][i]

(* One element more is taken or left. *)
LEMMA PicksStep ==
  ASSUME NEW T, NEW s \in Seq(T), NEW taken, NEW picked \in [0 .. Len(s) -> Seq(T)],
         Picks(picked, s, taken), NEW n \in Nat, n + 1 \in 1 .. Len(s),
         NEW w, PicksAt(picked, s, taken, n, w)
  PROVE  \E v : PicksAt(picked, s, taken, n + 1, v)
<1> DEFINE p == picked[n]
           l == Len(p)
           q == picked[n + 1]
<1>1. p \in Seq(T) /\ l \in Nat /\ q \in Seq(T) /\ n \in 0 .. Len(s)
  OBVIOUS
<1>2. \A k \in 0 .. n + 1 : k \in 0 .. n \/ k = n + 1
  OBVIOUS
<1>3. \A k \in 0 .. n : Len(picked[k]) \in Nat
  OBVIOUS
<1>4. CASE n + 1 \notin taken
  <2>1. q = p
    BY <1>4, (n + 1) - 1 = n DEF Picks
  <2>2. taken \cap (1 .. n + 1) = taken \cap (1 .. n)
    BY <1>4
  <2>3. \A i \in 1 .. l : w[i] <= n
    BY DEF PicksAt
  <2>4. PicksAt(picked, s, taken, n + 1, w)
    <3>1. \A k \in 0 .. n + 1 :
            /\ Len(picked[k]) <= l
            /\ \A i \in 1 .. l : i <= Len(picked[k]) <=> w[i] <= k
            /\ \A i \in 1 .. Len(picked[k]) : picked[k][i] = p[i]
      <4>1. \A i \in 1 .. l : w[i] \in 1 .. n
        BY DEF PicksAt
      <4> SUFFICES ASSUME NEW k \in 0 .. n + 1
                   PROVE  /\ Len(picked[k]) <= l
                          /\ \A i \in 1 .. l : i <= Len(picked[k]) <=> w[i] <= k
                          /\ \A i \in 1 .. Len(picked[k]) : picked[k][i] = p[i]
        OBVIOUS
      <4>2. CASE k \in 0 .. n
        BY <4>2 DEF PicksAt
      <4>3. CASE k = n + 1
        <5>1. picked[k] = p
          BY <2>1, <4>3
        <5> HIDE DEF p
        <5> QED BY <1>1, <4>1, <4>3, <5>1
      <4> QED
        BY <1>2, <4>2, <4>3
    <3> QED
      BY <2>1, <2>2, <3>1 DEF PicksAt
  <2> QED
    BY <2>4
<1>5. CASE n + 1 \in taken
  <2> DEFINE x == s[n + 1]
             v == [i \in 1 .. l + 1 |-> IF i = l + 1 THEN n + 1 ELSE w[i]]
  <2>1. q = Append(p, x) /\ x \in T
    <3>1. q = IF n + 1 \in taken THEN Append(picked[(n + 1) - 1], s[n + 1])
              ELSE picked[(n + 1) - 1]
      BY DEF Picks
    <3>2. (n + 1) - 1 = n /\ x \in T
      OBVIOUS
    <3> QED
      BY <1>5, <3>1, <3>2
  <2>2. Len(q) = l + 1 /\ q[l + 1] = x /\ \A i \in 1 .. l : q[i] = p[i]
    <3> HIDE DEF p, q, x
    <3> QED BY <1>1, <2>1
  <2>3. \A i \in 1 .. l + 1 : i \in 1 .. l \/ i = l + 1
    BY <1>1
  <2>4. \A i \in 1 .. l : w[i] \in taken \cap (1 .. n) /\ i \in 1 .. l + 1 /\ v[i] = w[i]
    <3>1. w \in [1 .. l -> taken \cap (1 .. n)]
      BY DEF PicksAt
    <3>2. \A i \in 1 .. l : i \in 1 .. l + 1 /\ i # l + 1
      BY <1>1
    <3> HIDE DEF l
    <3> QED BY <3>1, <3>2
  <2>5. v[l + 1] = n + 1 /\ l + 1 \in 1 .. l + 1
    BY <1>1
  <2>6. v \in [1 .. l + 1 -> taken \cap (1 .. n + 1)]
    <3>1. \A i \in 1 .. l + 1 : v[i] \in taken \cap (1 .. n + 1)
      <4>1. 1 .. n \subseteq 1 .. n + 1 /\ n + 1 \in 1 .. n + 1
        OBVIOUS
      <4> HIDE DEF v, l
      <4> QED BY <1>5, <2>3, <2>4, <2>5, <4>1
    <3> QED
      BY <3>1
  <2> HIDE DEF v, q, x
  <2>7. \A m \in taken \cap (1 .. n + 1) : \E i \in 1 .. l + 1 : v[i] = m
    <3> SUFFICES ASSUME NEW m \in taken \cap (1 .. n + 1) PROVE \E i \in 1 .. l + 1 : v[i] = m
      OBVIOUS
    <3>1. CASE m = n + 1
      BY <2>5, <3>1
    <3>2. CASE m # n + 1
      <4>1. m \in taken \cap (1 .. n)
        BY <3>2
      <4>2. PICK i \in 1 .. l : w[i] = m
        BY <4>1 DEF PicksAt
      <4> QED
        BY <2>4, <4>2
    <3> QED
      BY <3>1, <3>2
  <2>8. \A i, j \in 1 .. l + 1 : i < j => v[i] < v[j]
    <3> SUFFICES ASSUME NEW i \in 1 .. l + 1, NEW j \in 1 .. l + 1, i < j PROVE v[i] < v[j]
      OBVIOUS
    <3>1. i \in 1 .. l /\ w[i] \in 1 .. n
      BY <1>1, <2>4
    <3>2. CASE j = l + 1
      BY <2>4, <2>5, <3>1, <3>2
    <3>3. CASE j \in 1 .. l
      BY <2>4, <3>1, <3>3 DEF PicksAt
    <3> QED
      BY <2>3, <3>2, <3>3
  <2>9. \A i \in 1 .. l + 1 : q[i] = s[v[i]]
    BY <2>2, <2>3, <2>4, <2>5 DEF PicksAt, x
  <2>10. ASSUME NEW k \in 0 .. n + 1
         PROVE  /\ Len(picked[k]) <= l + 1
                /\ \A i \in 1 .. l + 1 : i <= Len(picked[k]) <=> v[i] <= k
                /\ \A i \in 1 .. Len(picked[k]) : picked[k][i] = q[i]
    <3>1. CASE k \in 0 .. n
      <4>1. /\ Len(picked[k]) <= l /\ Len(picked[k]) \in Nat
            /\ \A i \in 1 .. l : i <= Len(picked[k]) <=> w[i] <= k
            /\ \A i \in 1 .. Len(picked[k]) : picked[k][i] = p[i]
        BY <1>3, <3>1 DEF PicksAt
      <4>2. \A i \in 1 .. l + 1 : i <= Len(picked[k]) <=> v[i] <= k
        BY <1>1, <2>3, <2>4, <2>5, <3>1, <4>1
      <4> QED
        BY <1>1, <2>2, <4>1, <4>2
    <3>2. CASE k = n + 1
      <4>1. picked[k] = q
        BY <3>2 DEF q
      <4>2. \A i \in 1 .. l + 1 : v[i] \in 1 .. n + 1
        BY <2>6
      <4> QED
        BY <1>1, <2>2, <3>2, <4>1, <4>2
    <3> QED
      BY <1>2, <3>1, <3>2
  <2>11. PicksAt(picked, s, taken, n + 1, v)
    BY <2>2, <2>6, <2>7, <2>8, <2>9, <2>10 DEF PicksAt, q
  <2> QED
    BY <2>11
<1> QED
  BY <1>4, <1>5

(* What is taken, is taken in order: at each prefix a prefix of what is taken at *)
(* the end. *)
LEMMA PicksInOrder ==
  ASSUME NEW T, NEW s \in Seq(T), NEW taken, NEW picked \in [0 .. Len(s) -> Seq(T)],
         Picks(picked, s, taken)
  PROVE  \E w : PicksAt(picked, s, taken, Len(s), w)
<1> DEFINE M == {k \in Nat : k <= Len(s) => \E w : PicksAt(picked, s, taken, k, w)}
<1>1. 0 \in M
  <2>1. picked[0] = <<>> /\ Len(picked[0]) = 0 /\ 1 .. 0 = {}
    BY DEF Picks
  <2>2. \A k \in 0 .. 0 : k = 0
    OBVIOUS
  <2>3. PicksAt(picked, s, taken, 0, [i \in {} |-> 0])
    BY <2>1, <2>2 DEF PicksAt
  <2> QED
    BY <2>3
<1>2. ASSUME NEW k \in Nat, k \in M PROVE k + 1 \in M
  <2>1. SUFFICES ASSUME k + 1 <= Len(s) PROVE \E w : PicksAt(picked, s, taken, k + 1, w)
    OBVIOUS
  <2>2. PICK w : PicksAt(picked, s, taken, k, w)
    BY <1>2, <2>1
  <2>3. k + 1 \in 1 .. Len(s)
    BY <2>1
  <2> QED
    BY <2>2, <2>3, PicksStep
<1>3. Nat \subseteq M
  <2> HIDE DEF M
  <2> QED BY <1>1, <1>2, SetInduction
<1> QED
  BY <1>3, Len(s) \in Nat

-----------------------------------------------------------------------------
(* Sorting: each element goes where as many go before it. *)

(* How many go before x, and its place. *)
PlaceIn(keys, before, x) == 1 + Cardinality({k \in keys : <<k, x>> \in before})

(* In a strict total order the places are 1 .. the number of keys, each of one *)
(* key, and follow the order. *)
LEMMA PlacesInOrder ==
  ASSUME NEW keys, IsFiniteSet(keys), NEW before \in SUBSET (keys \X keys),
         \A x \in keys : <<x, x>> \notin before,
         \A x, y, z \in keys : <<x, y>> \in before /\ <<y, z>> \in before => <<x, z>> \in before,
         \A x, y \in keys : x # y => <<x, y>> \in before \/ <<y, x>> \in before
  PROVE  /\ \A x \in keys : PlaceIn(keys, before, x) \in 1 .. Cardinality(keys)
         /\ \A x, y \in keys :
              <<x, y>> \in before <=> PlaceIn(keys, before, x) < PlaceIn(keys, before, y)
         /\ \A m \in 1 .. Cardinality(keys) : \E x \in keys : PlaceIn(keys, before, x) = m
<1> DEFINE Under(x) == {k \in keys : <<k, x>> \in before}
           c == Cardinality(keys)
           place == [x \in keys |-> PlaceIn(keys, before, x)]
<1>1. c \in Nat
  BY FS_CardinalityType
<1>2. ASSUME NEW x \in keys
      PROVE  IsFiniteSet(Under(x)) /\ Cardinality(Under(x)) \in Nat /\ Cardinality(Under(x)) < c
  <2>1. Under(x) \in SUBSET keys /\ Under(x) # keys
    OBVIOUS
  <2>2. /\ IsFiniteSet(Under(x)) /\ Cardinality(Under(x)) <= c
        /\ c = Cardinality(Under(x)) => keys = Under(x)
    <3> HIDE DEF Under
    <3> QED BY <2>1, FS_Subset
  <2>3. Cardinality(Under(x)) \in Nat
    <3> HIDE DEF Under
    <3> QED BY <2>2, FS_CardinalityType
  <2> HIDE DEF Under, c
  <2> QED
    BY <1>1, <2>1, <2>2, <2>3
<1>3. \A x \in keys : PlaceIn(keys, before, x) = 1 + Cardinality(Under(x))
  BY DEF PlaceIn
<1>4. \A x \in keys : PlaceIn(keys, before, x) \in 1 .. c
  <2> HIDE DEF Under, c
  <2> QED BY <1>1, <1>2, <1>3
<1>5. ASSUME NEW x \in keys, NEW y \in keys, <<x, y>> \in before
      PROVE  PlaceIn(keys, before, x) < PlaceIn(keys, before, y)
  <2>1. Under(x) \in SUBSET Under(y) /\ Under(x) # Under(y)
    BY <1>5
  <2>2. /\ Cardinality(Under(x)) <= Cardinality(Under(y))
        /\ Cardinality(Under(y)) # Cardinality(Under(x))
    <3>1. IsFiniteSet(Under(y))
      BY <1>2
    <3> HIDE DEF Under
    <3> QED BY <2>1, <3>1, FS_Subset
  <2> HIDE DEF Under
  <2> QED
    BY <1>2, <1>3, <2>2
<1>6. \A x, y \in keys : x # y => place[x] # place[y]
  <2> SUFFICES ASSUME NEW x \in keys, NEW y \in keys, x # y PROVE place[x] # place[y]
    OBVIOUS
  <2>1. /\ place[x] = PlaceIn(keys, before, x) /\ PlaceIn(keys, before, x) \in 1 .. c
        /\ place[y] = PlaceIn(keys, before, y) /\ PlaceIn(keys, before, y) \in 1 .. c
    BY <1>4
  <2>2. \/ PlaceIn(keys, before, x) < PlaceIn(keys, before, y)
        \/ PlaceIn(keys, before, y) < PlaceIn(keys, before, x)
    BY <1>5
  <2> HIDE DEF place, c
  <2> QED BY <1>1, <2>1, <2>2
<1>7. place \in Injection(keys, 1 .. c)
  <2>1. place \in [keys -> 1 .. c]
    BY <1>4
  <2> HIDE DEF place
  <2> QED BY <1>6, <2>1 DEF Injection, IsInjective
<1>8. IsFiniteSet(1 .. c) /\ Cardinality(1 .. c) = c
  BY <1>1, FS_Interval
<1>9. place \in Surjection(keys, 1 .. c)
  <2> HIDE DEF place
  <2> QED BY <1>7, <1>8, FS_Injection
<1>10. \A m \in 1 .. c : \E x \in keys : PlaceIn(keys, before, x) = m
  <2>1. \A m \in 1 .. c : \E x \in keys : place[x] = m
    <3> HIDE DEF place
    <3> QED BY <1>9 DEF Surjection
  <2> QED
    BY <2>1
<1>11. ASSUME NEW x \in keys, NEW y \in keys,
              PlaceIn(keys, before, x) < PlaceIn(keys, before, y)
       PROVE  <<x, y>> \in before
  <2>1. x # y
    BY <1>4, <1>11
  <2>2. <<y, x>> \notin before
    BY <1>4, <1>5, <1>11
  <2> QED
    BY <2>1, <2>2
<1> QED
  BY <1>4, <1>5, <1>10, <1>11

(* The key of an element with its place in the sequence. *)
WithPlace(keys, i) == Append(keys[i], -i)

IsKey(a, l) == a \in Seq(Int) /\ Len(a) = l

(* Keys of one length that differ somewhere differ first somewhere. *)
LEMMA FirstDifference ==
  ASSUME NEW l \in Nat, NEW a, NEW b, IsKey(a, l), IsKey(b, l), a # b
  PROVE  \E i \in 1 .. l : a[i] # b[i] /\ \A j \in 1 .. i - 1 : a[j] = b[j]
<1> DEFINE D == {i \in 1 .. l : a[i] # b[i]}
<1>1. D # {}
  <2> SUFFICES ASSUME \A i \in 1 .. l : a[i] = b[i] PROVE a = b
    OBVIOUS
  <2> QED
    BY DEF IsKey
<1>2. D \in SUBSET (1 .. l)
  OBVIOUS
<1>3. Min(D) \in D /\ \A i \in D : Min(D) <= i
  <2> HIDE DEF D
  <2> QED BY <1>1, <1>2, MinIn
<1> DEFINE i == Min(D)
<1>4. i \in 1 .. l /\ a[i] # b[i] /\ \A j \in 1 .. i - 1 : a[j] = b[j]
  <2>1. i \in 1 .. l /\ a[i] # b[i]
    BY <1>3
  <2>2. ASSUME NEW j \in 1 .. i - 1 PROVE a[j] = b[j]
    <3>1. j \in 1 .. l /\ ~(i <= j)
      BY <2>1
    <3> QED
      BY <1>3, <3>1
  <2> QED
    BY <2>1, <2>2
<1> QED
  BY <1>4

(* The order of the keys of one length is a strict total order. *)
LEMMA KeysInOrder ==
  ASSUME NEW l \in Nat
  PROVE  /\ \A a : IsKey(a, l) => ~Precedes(a, a)
         /\ \A a, b, c : /\ IsKey(a, l) /\ IsKey(b, l) /\ IsKey(c, l)
                         /\ Precedes(a, b) /\ Precedes(b, c)
                         => Precedes(a, c)
         /\ \A a, b : IsKey(a, l) /\ IsKey(b, l) /\ a # b => Precedes(a, b) \/ Precedes(b, a)
<1>1. ASSUME NEW a, IsKey(a, l) PROVE ~Precedes(a, a)
  BY <1>1 DEF Precedes, IsKey
<1>2. ASSUME NEW a, NEW b, NEW c, IsKey(a, l), IsKey(b, l), IsKey(c, l),
             Precedes(a, b), Precedes(b, c)
      PROVE  Precedes(a, c)
  <2>1. Len(a) = l /\ Len(b) = l /\ \A i \in 1 .. l : a[i] \in Int /\ b[i] \in Int /\ c[i] \in Int
    BY <1>2 DEF IsKey
  <2>2. PICK i \in 1 .. l : a[i] > b[i] /\ \A m \in 1 .. i - 1 : a[m] = b[m]
    BY <1>2, <2>1 DEF Precedes
  <2>3. PICK j \in 1 .. l : b[j] > c[j] /\ \A m \in 1 .. j - 1 : b[m] = c[m]
    BY <1>2, <2>1 DEF Precedes
  <2>4. CASE i <= j
    <3>1. b[i] >= c[i]
      BY <2>1, <2>3, <2>4, SMTT(30)
    <3>2. a[i] > c[i]
      BY <2>1, <2>2, <3>1
    <3>3. \A m \in 1 .. i - 1 : a[m] = c[m]
      <4>1. \A m \in 1 .. i - 1 : m \in 1 .. j - 1
        BY <2>4
      <4> QED
        BY <2>2, <2>3, <4>1
    <3> QED
      BY <2>1, <3>2, <3>3 DEF Precedes
  <2>5. CASE j < i
    <3>1. a[j] > c[j]
      BY <2>1, <2>2, <2>3, <2>5
    <3>2. \A m \in 1 .. j - 1 : a[m] = c[m]
      <4>1. \A m \in 1 .. j - 1 : m \in 1 .. i - 1
        BY <2>5
      <4> QED
        BY <2>2, <2>3, <4>1
    <3> QED
      BY <2>1, <3>1, <3>2 DEF Precedes
  <2> QED
    BY <2>4, <2>5
<1>3. ASSUME NEW a, NEW b, IsKey(a, l), IsKey(b, l), a # b PROVE Precedes(a, b) \/ Precedes(b, a)
  <2>1. PICK i \in 1 .. l : a[i] # b[i] /\ \A j \in 1 .. i - 1 : a[j] = b[j]
    BY <1>3, FirstDifference
  <2>2. Len(a) = l /\ Len(b) = l /\ a[i] \in Int /\ b[i] \in Int
    BY <1>3 DEF IsKey
  <2>3. a[i] > b[i] \/ b[i] > a[i]
    BY <2>1, <2>2
  <2> QED
    BY <2>1, <2>2, <2>3 DEF Precedes
<1> QED
  BY <1>1, <1>2, <1>3

(* r has the elements of s, each once, in the order of their keys and, among *)
(* equal keys, of their places in s; `from' leads back.                      *)
Arranges(from, r, s, keys) ==
  /\ from \in [1 .. Len(s) -> 1 .. Len(s)]
  /\ r = [m \in 1 .. Len(s) |-> s[from[m]]]
  /\ \A i \in 1 .. Len(s) : \E m \in 1 .. Len(s) : from[m] = i
  /\ \A m, p \in 1 .. Len(s) :
        m < p <=> Precedes(WithPlace(keys, from[m]), WithPlace(keys, from[p]))

(* Sorting by keys arranges. *)
LEMMA SortingArranges ==
  ASSUME NEW s, Len(s) \in Nat, NEW keys, NEW l \in Nat,
         \A i \in 1 .. Len(s) : IsKey(keys[i], l)
  PROVE  \E from : Arranges(from, SortedBy(s, keys), s, keys)
<1> DEFINE n == Len(s)
           I == 1 .. n
           full == [i \in I |-> WithPlace(keys, i)]
           before == {ij \in I \X I : Precedes(full[ij[1]], full[ij[2]])}
           place(i) == PlaceIn(I, before, i)
           from == [m \in I |-> CHOOSE i \in I : place(i) = m]
<1>1. /\ \A i \in I : full[i] = WithPlace(keys, i) /\ IsKey(full[i], l + 1)
      /\ \A i \in I : full[i][l + 1] = -i
  <2> SUFFICES ASSUME NEW i \in I
               PROVE  IsKey(WithPlace(keys, i), l + 1) /\ WithPlace(keys, i)[l + 1] = -i
    OBVIOUS
  <2>1. IsKey(keys[i], l) /\ -i \in Int
    OBVIOUS
  <2> QED
    BY <2>1 DEF IsKey, WithPlace
<1>2. \A i, j \in I : i # j => full[i] # full[j]
  BY <1>1
<1>3. IsFiniteSet(I) /\ Cardinality(I) = n
  BY FS_Interval, SMTT(30)
<1>4. \A i, j \in I : <<i, j>> \in before <=> Precedes(full[i], full[j])
  OBVIOUS
<1>5. before \in SUBSET (I \X I)
  OBVIOUS
<1> HIDE DEF full, before
<1>6. /\ \A x \in I : <<x, x>> \notin before
      /\ \A x, y, z \in I : <<x, y>> \in before /\ <<y, z>> \in before => <<x, z>> \in before
      /\ \A x, y \in I : x # y => <<x, y>> \in before \/ <<y, x>> \in before
  <2>1. \A x \in I : IsKey(full[x], l + 1)
    BY <1>1
  <2>2. l + 1 \in Nat
    OBVIOUS
  <2>3. \A x \in I : ~Precedes(full[x], full[x])
    BY <2>1, <2>2, KeysInOrder
  <2>4. \A x, y, z \in I :
          Precedes(full[x], full[y]) /\ Precedes(full[y], full[z]) => Precedes(full[x], full[z])
    BY <2>1, <2>2, KeysInOrder
  <2>5. \A x, y \in I : x # y => Precedes(full[x], full[y]) \/ Precedes(full[y], full[x])
    BY <1>2, <2>1, <2>2, KeysInOrder
  <2> HIDE DEF I
  <2> QED
    BY <1>4, <2>3, <2>4, <2>5
<1>7. /\ \A x \in I : place(x) \in 1 .. n
      /\ \A x, y \in I : <<x, y>> \in before <=> place(x) < place(y)
      /\ \A m \in 1 .. n : \E x \in I : place(x) = m
  <2>1. /\ \A x \in I : PlaceIn(I, before, x) \in 1 .. Cardinality(I)
        /\ \A x, y \in I : <<x, y>> \in before <=> PlaceIn(I, before, x) < PlaceIn(I, before, y)
        /\ \A m \in 1 .. Cardinality(I) : \E x \in I : PlaceIn(I, before, x) = m
    <3> HIDE DEF I
    <3> QED BY <1>3, <1>5, <1>6, PlacesInOrder
  <2> QED
    BY <1>3, <2>1
<1>8. \A m \in I : from[m] \in I /\ place(from[m]) = m
  <2> HIDE DEF place
  <2> QED BY <1>7
<1>9. SortedBy(s, keys) = [m \in 1 .. n |-> s[from[m]]]
  <2>1. \A i \in I :
          place(i) = 1 + Cardinality({j \in 1 .. n : Precedes(WithPlace(keys, j), WithPlace(keys, i))})
    <3> SUFFICES ASSUME NEW i \in I
                 PROVE  {j \in I : <<j, i>> \in before}
                          = {j \in 1 .. n : Precedes(WithPlace(keys, j), WithPlace(keys, i))}
      BY DEF PlaceIn
    <3> QED
      BY <1>1, <1>4
  <2>2. SortedBy(s, keys)
          = [m \in 1 .. n |-> s[CHOOSE i \in 1 .. n :
                1 + Cardinality({j \in 1 .. n : Precedes(WithPlace(keys, j), WithPlace(keys, i))}) = m]]
    BY DEF SortedBy, WithPlace
  <2>3. \A m \in 1 .. n :
          (CHOOSE i \in 1 .. n :
              1 + Cardinality({j \in 1 .. n : Precedes(WithPlace(keys, j), WithPlace(keys, i))}) = m)
            = from[m]
    <3> HIDE DEF place
    <3> QED BY <2>1
  <2> HIDE DEF from, place
  <2> QED
    BY <2>2, <2>3
<1>10. from \in [1 .. n -> 1 .. n]
  BY <1>8
<1> HIDE DEF from, place
<1>11. \A i \in I : \E m \in I : from[m] = i
  <2> SUFFICES ASSUME NEW i \in I PROVE \E m \in I : from[m] = i
    OBVIOUS
  <2> DEFINE m == place(i)
  <2>1. m \in I /\ from[m] \in I /\ place(from[m]) = m
    BY <1>7, <1>8
  <2>2. <<from[m], i>> \notin before /\ <<i, from[m]>> \notin before
    <3>1. place(i) \in Int /\ place(from[m]) = place(i)
      BY <1>7, <2>1
    <3> HIDE DEF place, I, m
    <3> QED BY <1>7, <2>1, <3>1
  <2> QED
    BY <1>6, <2>1, <2>2
<1>12. \A m, p \in I : m < p <=> Precedes(WithPlace(keys, from[m]), WithPlace(keys, from[p]))
  <2> SUFFICES ASSUME NEW m \in I, NEW p \in I
               PROVE  m < p <=> Precedes(full[from[m]], full[from[p]])
    BY <1>1, <1>8
  <2>1. /\ from[m] \in I /\ place(from[m]) = m
        /\ from[p] \in I /\ place(from[p]) = p
    BY <1>8
  <2>2. <<from[m], from[p]>> \in before <=> m < p
    BY <1>7, <2>1
  <2> QED
    BY <1>4, <2>1, <2>2
<1>13. Arranges(from, SortedBy(s, keys), s, keys)
  BY <1>9, <1>10, <1>11, <1>12 DEF Arranges
<1> QED
  BY <1>13

(* What an arrangement is: the sequence in another order, by the first component *)
(* of the keys, and by the places where the keys are equal.                      *)
LEMMA Arranged ==
  ASSUME NEW T, NEW s \in Seq(T), NEW keys, NEW l \in Nat \ {0},
         \A i \in 1 .. Len(s) : IsKey(keys[i], l),
         NEW from, NEW r, Arranges(from, r, s, keys)
  PROVE  /\ r \in Seq(T) /\ Len(r) = Len(s)
         /\ from \in [1 .. Len(s) -> 1 .. Len(s)]
         /\ \A m \in 1 .. Len(s) : r[m] = s[from[m]]
         /\ \A i \in 1 .. Len(s) : \E m \in 1 .. Len(s) : from[m] = i
         /\ \A m, p \in 1 .. Len(s) : m < p => keys[from[m]][1] >= keys[from[p]][1]
         /\ \A m, p \in 1 .. Len(s) : m < p /\ keys[from[m]] = keys[from[p]] => from[m] < from[p]
<1>1. /\ from \in [1 .. Len(s) -> 1 .. Len(s)] /\ r = [m \in 1 .. Len(s) |-> s[from[m]]]
      /\ \A i \in 1 .. Len(s) : \E m \in 1 .. Len(s) : from[m] = i
      /\ \A m, p \in 1 .. Len(s) :
           m < p => Precedes(WithPlace(keys, from[m]), WithPlace(keys, from[p]))
  BY DEF Arranges
<1>2. r \in Seq(T) /\ Len(r) = Len(s) /\ \A m \in 1 .. Len(s) : r[m] = s[from[m]]
  <2>1. \A m \in 1 .. Len(s) : s[from[m]] \in T
    BY <1>1, ElementOf
  <2>2. Len(s) \in Nat
    OBVIOUS
  <2> QED
    BY <1>1, <2>1, <2>2
<1>3. ASSUME NEW m \in 1 .. Len(s), NEW p \in 1 .. Len(s), m < p
      PROVE  /\ keys[from[m]][1] >= keys[from[p]][1]
             /\ keys[from[m]] = keys[from[p]] => from[m] < from[p]
  <2> DEFINE a == keys[from[m]]
             b == keys[from[p]]
             u == Append(a, -from[m])
             v == Append(b, -from[p])
  <2>1. from[m] \in 1 .. Len(s) /\ from[p] \in 1 .. Len(s)
    BY <1>1
  <2>2. IsKey(a, l) /\ IsKey(b, l)
    BY <2>1
  <2>3. /\ Len(u) = l + 1 /\ \A k \in 1 .. l : u[k] = a[k]
        /\ \A k \in 1 .. l : v[k] = b[k]
        /\ u[l + 1] = -from[m] /\ v[l + 1] = -from[p]
        /\ \A k \in 1 .. l : a[k] \in Int /\ b[k] \in Int
    <3> HIDE DEF a, b
    <3> QED BY <2>2 DEF IsKey
  <2>4. Precedes(u, v)
    BY <1>1, <1>3 DEF WithPlace
  <2> HIDE DEF u, v, a, b
  <2>5. PICK k \in 1 .. l + 1 : u[k] > v[k] /\ \A j \in 1 .. k - 1 : u[j] = v[j]
    BY <2>3, <2>4 DEF Precedes
  <2>6. 1 \in 1 .. l /\ (k = 1 \/ 1 \in 1 .. k - 1)
    OBVIOUS
  <2>7. a[1] >= b[1]
    <3>1. u[1] = v[1] \/ u[1] > v[1]
      BY <2>5, <2>6
    <3>2. u[1] = a[1] /\ v[1] = b[1] /\ a[1] \in Int /\ b[1] \in Int
      BY <2>3, <2>6
    <3> QED
      BY <3>1, <3>2
  <2>8. ASSUME a = b PROVE from[m] < from[p]
    <3>1. k = l + 1
      <4> SUFFICES ASSUME k \in 1 .. l PROVE FALSE
        OBVIOUS
      <4>1. u[k] = v[k] /\ a[k] \in Int /\ u[k] = a[k]
        BY <2>3, <2>8
      <4> QED
        BY <2>5, <4>1
    <3>2. -from[m] > -from[p]
      BY <2>3, <2>5, <3>1
    <3> QED
      BY <2>1, <3>2
  <2> QED
    BY <2>7, <2>8 DEF a, b
<1> QED
  BY <1>1, <1>2, <1>3

Scores(x) == /\ x.fused \in Int /\ x.sim \in Int /\ x.lex \in Int

GoesBefore(x, i, y, j) ==
  \/ x.fused > y.fused
  \/ x.fused = y.fused /\ x.sim > y.sim
  \/ x.fused = y.fused /\ x.sim = y.sim /\ x.lex > y.lex
  \/ x.fused = y.fused /\ x.sim = y.sim /\ x.lex = y.lex /\ i < j

(* The order of the keys of fusion. *)
LEMMA FusionOrder ==
  ASSUME NEW c, NEW i \in 1 .. Len(c), NEW j \in 1 .. Len(c), Len(c) \in Nat,
         Scores(c[i]), Scores(c[j])
  PROVE  Precedes(WithPlace(FusionKeys(c), i), WithPlace(FusionKeys(c), j))
            <=> GoesBefore(c[i], i, c[j], j)
<1> DEFINE a == WithPlace(FusionKeys(c), i)
           b == WithPlace(FusionKeys(c), j)
<1>1. /\ Len(a) = 4 /\ a[1] = c[i].fused /\ a[2] = c[i].sim /\ a[3] = c[i].lex /\ a[4] = -i
      /\ b[1] = c[j].fused /\ b[2] = c[j].sim /\ b[3] = c[j].lex /\ b[4] = -j
  BY DEF WithPlace, FusionKeys, Scores
<1> HIDE DEF a, b
<1>2. Precedes(a, b) <=> \/ a[1] > b[1]
                         \/ a[1] = b[1] /\ a[2] > b[2]
                         \/ a[1] = b[1] /\ a[2] = b[2] /\ a[3] > b[3]
                         \/ a[1] = b[1] /\ a[2] = b[2] /\ a[3] = b[3] /\ a[4] > b[4]
  <2>1. Precedes(a, b) <=> \E k \in {1, 2, 3, 4} :
                              a[k] > b[k] /\ \A m \in 1 .. k - 1 : a[m] = b[m]
    <3>1. 1 .. 4 = {1, 2, 3, 4}
      OBVIOUS
    <3> QED
      BY <1>1, <3>1 DEF Precedes
  <2>2. /\ \A m \in 1 .. 1 - 1 : FALSE
        /\ 1 .. 2 - 1 = {1} /\ 1 .. 3 - 1 = {1, 2} /\ 1 .. 4 - 1 = {1, 2, 3}
    OBVIOUS
  <2> QED
    BY <2>1, <2>2
<1> QED
  BY <1>1, <1>2 DEF a, b, GoesBefore

(* Sorting for fusion permutes, best key first, and keeps the order of equals. *)
LEMMA SortedForFusion ==
  ASSUME NEW c, Len(c) \in Nat, \A i \in 1 .. Len(c) : Scores(c[i])
  PROVE  \E from \in [1 .. Len(c) -> 1 .. Len(c)] :
            /\ SortedBy(c, FusionKeys(c)) = [m \in 1 .. Len(c) |-> c[from[m]]]
            /\ \A i \in 1 .. Len(c) : \E m \in 1 .. Len(c) : from[m] = i
            /\ \A m, p \in 1 .. Len(c) :
                 m < p <=> GoesBefore(c[from[m]], from[m], c[from[p]], from[p])
<1>1. \A i \in 1 .. Len(c) : IsKey(FusionKeys(c)[i], 3)
  BY DEF IsKey, FusionKeys, Scores
<1>2. PICK from : Arranges(from, SortedBy(c, FusionKeys(c)), c, FusionKeys(c))
  BY <1>1, SortingArranges
<1>3. /\ from \in [1 .. Len(c) -> 1 .. Len(c)]
      /\ SortedBy(c, FusionKeys(c)) = [m \in 1 .. Len(c) |-> c[from[m]]]
      /\ \A i \in 1 .. Len(c) : \E m \in 1 .. Len(c) : from[m] = i
      /\ \A m, p \in 1 .. Len(c) :
           m < p <=> Precedes(WithPlace(FusionKeys(c), from[m]), WithPlace(FusionKeys(c), from[p]))
  BY <1>2 DEF Arranges
<1>4. \A m, p \in 1 .. Len(c) :
         m < p <=> GoesBefore(c[from[m]], from[m], c[from[p]], from[p])
  <2> SUFFICES ASSUME NEW m \in 1 .. Len(c), NEW p \in 1 .. Len(c)
               PROVE  m < p <=> GoesBefore(c[from[m]], from[m], c[from[p]], from[p])
    OBVIOUS
  <2>1. from[m] \in 1 .. Len(c) /\ from[p] \in 1 .. Len(c)
    BY <1>3
  <2> QED
    BY <1>3, <2>1, FusionOrder
<1> QED
  BY <1>3, <1>4

-----------------------------------------------------------------------------
(* Fusion: the dictionary, the shares of the ranks, the order and the limits. *)

(* The dictionary of fusion: what a chunk is first seen as. *)
Defaulted(seen, x) == IF Position(seen, x.chunk) = 0 THEN Append(seen, x) ELSE seen

Dictionary(s) == FoldLeft(Defaulted, <<>>, s)

(* The selection of fusion. *)
Selection(s, limit, cap) ==
  LET Step(selected, c) == Capped(selected, c, limit, cap)
  IN  FoldLeft(Step, <<>>, s)

DictionarySteps(g, s, n) ==
  /\ g[0] = <<>> /\ g[n] = Dictionary(s)
  /\ \A k \in 1 .. n : g[k] = Defaulted(g[k - 1], s[k])

(* The dictionary after each of the candidates. *)
LEMMA DictionaryRun ==
  ASSUME NEW V, NEW s, NEW n \in Nat, DOMAIN s = 1 .. n, <<>> \in V,
         \A a \in V, i \in 1 .. n : Defaulted(a, s[i]) \in V
  PROVE  \E g \in [0 .. n -> V] : DictionarySteps(g, s, n)
<1> DEFINE Eq(iter) == iter = [t \in SUBSET (1 .. n) |->
                          IF t = {} THEN <<>>
                          ELSE Defaulted(iter[t \ {Max(t)}], s[Max(t)])]
           step == [p \in (1 .. n) \X V |-> Defaulted(p[2], s[p[1]])]
<1>1. step \in [(1 .. n) \X V -> V]
  OBVIOUS
<1>2. \A i \in 1 .. n, a \in V : step[<<i, a>>] = Defaulted(a, s[i])
  OBVIOUS
<1>3. PICK f \in [SUBSET (1 .. n) -> V] : LeftFold(f, n, <<>>, step)
  <2> HIDE DEF step
  <2> QED BY <1>1, LeftFoldExists
<1>4. Eq(f)
  <2>1. ASSUME NEW t \in SUBSET (1 .. n)
        PROVE  f[t] = IF t = {} THEN <<>>
                      ELSE Defaulted(f[t \ {Max(t)}], s[Max(t)])
    <3>1. CASE t = {}
      BY <1>3, <3>1 DEF LeftFold
    <3>2. CASE t # {}
      <4>1. f[t] = step[<<Max(t), f[t \ {Max(t)}]>>]
        <5> HIDE DEF step
        <5> QED BY <1>3, <3>2 DEF LeftFold
      <4>2. Max(t) \in 1 .. n /\ f[t \ {Max(t)}] \in V
        <5>1. Max(t) \in t
          BY <3>2, MaxIn
        <5> QED
          BY <1>3, <5>1
      <4> HIDE DEF step
      <4> QED BY <1>2, <3>2, <4>1, <4>2
    <3> QED
      BY <3>1, <3>2
  <2>2. f = [t \in SUBSET (1 .. n) |-> f[t]]
    BY <1>3
  <2> QED
    BY <2>1, <2>2
<1> DEFINE c == CHOOSE iter : Eq(iter)
<1>5. Dictionary(s) = c[1 .. n]
  <2>1. Dictionary(s) = (CHOOSE iter : iter = [t \in SUBSET DOMAIN s |->
                IF t = {} THEN <<>>
                ELSE Defaulted(iter[t \ {Max(t)}], s[Max(t)])])[DOMAIN s]
    BY DEF FoldLeft, MapThenFoldSet, Dictionary
  <2> QED
    BY <2>1
<1>6. Eq(c)
  <2> HIDE DEF Eq
  <2> QED BY <1>4
<1> HIDE DEF c
<1>7. /\ c[{}] = <<>>
      /\ \A t \in SUBSET (1 .. n) : t # {} => c[t] = Defaulted(c[t \ {Max(t)}], s[Max(t)])
  BY <1>6
<1>8. \A t \in SUBSET (1 .. n) :
        t # {} /\ c[t \ {Max(t)}] \in V => c[t] = step[<<Max(t), c[t \ {Max(t)}]>>]
  <2> SUFFICES ASSUME NEW t \in SUBSET (1 .. n), t # {}, c[t \ {Max(t)}] \in V
               PROVE  c[t] = step[<<Max(t), c[t \ {Max(t)}]>>]
    OBVIOUS
  <2>1. Max(t) \in 1 .. n
    BY MaxIn
  <2> HIDE DEF Eq, step
  <2> QED
    BY <1>2, <1>7, <2>1
<1>9. PICK g \in [0 .. n -> V] : RunOf(g, c, n, <<>>, step)
  <2>1. Follows(c, n, V, <<>>, step)
    BY <1>7, <1>8 DEF Follows
  <2> HIDE DEF Eq, step
  <2> QED BY <1>1, <2>1, PrefixRun
<1>10. \A k \in 1 .. n : g[k] = Defaulted(g[k - 1], s[k])
  <2>1. \A k \in 1 .. n : k - 1 \in 0 .. n
    OBVIOUS
  <2> HIDE DEF Eq, step
  <2> QED BY <1>2, <1>9, <2>1 DEF RunOf
<1> HIDE DEF Eq, step
<1> QED
  BY <1>5, <1>9, <1>10 DEF RunOf, DictionarySteps

CappedSteps(g, s, n, limit, cap) ==
  /\ g[0] = <<>> /\ g[n] = Selection(s, limit, cap)
  /\ \A k \in 1 .. n : g[k] = Capped(g[k - 1], s[k], limit, cap)

(* The selection after each of the candidates. *)
LEMMA CappedRun ==
  ASSUME NEW V, NEW s, NEW n \in Nat, DOMAIN s = 1 .. n, NEW limit, NEW cap, <<>> \in V,
         \A a \in V, i \in 1 .. n : Capped(a, s[i], limit, cap) \in V
  PROVE  \E g \in [0 .. n -> V] : CappedSteps(g, s, n, limit, cap)
<1> DEFINE Eq(iter) == iter = [t \in SUBSET (1 .. n) |->
                          IF t = {} THEN <<>>
                          ELSE Capped(iter[t \ {Max(t)}], s[Max(t)], limit, cap)]
           step == [p \in (1 .. n) \X V |-> Capped(p[2], s[p[1]], limit, cap)]
<1>1. step \in [(1 .. n) \X V -> V]
  OBVIOUS
<1>2. \A i \in 1 .. n, a \in V : step[<<i, a>>] = Capped(a, s[i], limit, cap)
  OBVIOUS
<1>3. PICK f \in [SUBSET (1 .. n) -> V] : LeftFold(f, n, <<>>, step)
  <2> HIDE DEF step
  <2> QED BY <1>1, LeftFoldExists
<1>4. Eq(f)
  <2>1. ASSUME NEW t \in SUBSET (1 .. n)
        PROVE  f[t] = IF t = {} THEN <<>>
                      ELSE Capped(f[t \ {Max(t)}], s[Max(t)], limit, cap)
    <3>1. CASE t = {}
      BY <1>3, <3>1 DEF LeftFold
    <3>2. CASE t # {}
      <4>1. f[t] = step[<<Max(t), f[t \ {Max(t)}]>>]
        <5> HIDE DEF step
        <5> QED BY <1>3, <3>2 DEF LeftFold
      <4>2. Max(t) \in 1 .. n /\ f[t \ {Max(t)}] \in V
        <5>1. Max(t) \in t
          BY <3>2, MaxIn
        <5> QED
          BY <1>3, <5>1
      <4> HIDE DEF step
      <4> QED BY <1>2, <3>2, <4>1, <4>2
    <3> QED
      BY <3>1, <3>2
  <2>2. f = [t \in SUBSET (1 .. n) |-> f[t]]
    BY <1>3
  <2> QED
    BY <2>1, <2>2
<1> DEFINE c == CHOOSE iter : Eq(iter)
<1>5. Selection(s, limit, cap) = c[1 .. n]
  <2>1. Selection(s, limit, cap) = (CHOOSE iter : iter = [t \in SUBSET DOMAIN s |->
                IF t = {} THEN <<>>
                ELSE Capped(iter[t \ {Max(t)}], s[Max(t)], limit, cap)])[DOMAIN s]
    BY DEF FoldLeft, MapThenFoldSet, Selection
  <2> QED
    BY <2>1
<1>6. Eq(c)
  <2> HIDE DEF Eq
  <2> QED BY <1>4
<1> HIDE DEF c
<1>7. /\ c[{}] = <<>>
      /\ \A t \in SUBSET (1 .. n) : t # {} => c[t] = Capped(c[t \ {Max(t)}], s[Max(t)], limit, cap)
  BY <1>6
<1>8. \A t \in SUBSET (1 .. n) :
        t # {} /\ c[t \ {Max(t)}] \in V => c[t] = step[<<Max(t), c[t \ {Max(t)}]>>]
  <2> SUFFICES ASSUME NEW t \in SUBSET (1 .. n), t # {}, c[t \ {Max(t)}] \in V
               PROVE  c[t] = step[<<Max(t), c[t \ {Max(t)}]>>]
    OBVIOUS
  <2>1. Max(t) \in 1 .. n
    BY MaxIn
  <2> HIDE DEF Eq, step
  <2> QED
    BY <1>2, <1>7, <2>1
<1>9. PICK g \in [0 .. n -> V] : RunOf(g, c, n, <<>>, step)
  <2>1. Follows(c, n, V, <<>>, step)
    BY <1>7, <1>8 DEF Follows
  <2> HIDE DEF Eq, step
  <2> QED BY <1>1, <2>1, PrefixRun
<1>10. \A k \in 1 .. n : g[k] = Capped(g[k - 1], s[k], limit, cap)
  <2>1. \A k \in 1 .. n : k - 1 \in 0 .. n
    OBVIOUS
  <2> HIDE DEF Eq, step
  <2> QED BY <1>2, <1>9, <2>1 DEF RunOf
<1> HIDE DEF Eq, step
<1> QED
  BY <1>5, <1>9, <1>10 DEF RunOf, CappedSteps

(* The position of a chunk in a sequence. *)
LEMMA PositionIn ==
  ASSUME NEW leg, Len(leg) \in Nat, NEW chunk
  PROVE  /\ Position(leg, chunk) \in 0 .. Len(leg)
         /\ Position(leg, chunk) # 0 =>
              /\ Position(leg, chunk) \in 1 .. Len(leg)
              /\ leg[Position(leg, chunk)].chunk = chunk
         /\ Position(leg, chunk) = 0 => \A i \in 1 .. Len(leg) : leg[i].chunk # chunk
         /\ EachChunkOnce(leg)
              => \A i \in 1 .. Len(leg) : leg[i].chunk = chunk => Position(leg, chunk) = i
<1>1. CASE \E i \in 1 .. Len(leg) : leg[i].chunk = chunk
  <2>1. /\ Position(leg, chunk) \in 1 .. Len(leg)
        /\ leg[Position(leg, chunk)].chunk = chunk
    BY <1>1 DEF Position
  <2>2. Position(leg, chunk) # 0 /\ Position(leg, chunk) \in 0 .. Len(leg)
    BY <2>1
  <2> QED
    BY <2>1, <2>2 DEF EachChunkOnce
<1>2. CASE \A i \in 1 .. Len(leg) : leg[i].chunk # chunk
  <2>1. Position(leg, chunk) = 0
    BY <1>2 DEF Position
  <2> QED
    BY <1>2, <2>1
<1> QED
  BY <1>1, <1>2

(* Where a chunk is first seen: in the first leg, or behind it in the second. *)
SeenAt(semantic, lexical, chunk) ==
  IF Position(semantic, chunk) # 0 THEN Position(semantic, chunk)
  ELSE Len(semantic) + Position(lexical, chunk)

(* The dictionary has every chunk of its candidates once, with the first of *)
(* them, in the order of these.                                             *)
LEMMA DictionaryOf ==
  ASSUME NEW T, NEW cat \in Seq(T)
  PROVE  \E w : LET all == Dictionary(cat)
                IN  /\ all \in Seq(T)
                    /\ w \in [1 .. Len(all) -> 1 .. Len(cat)]
                    /\ \A i, j \in 1 .. Len(all) : i < j => w[i] < w[j]
                    /\ \A i \in 1 .. Len(all) :
                         /\ all[i] = cat[w[i]]
                         /\ \A m \in 1 .. w[i] - 1 : cat[m].chunk # cat[w[i]].chunk
                    /\ \A m \in 1 .. Len(cat) :
                         \E i \in 1 .. Len(all) : all[i].chunk = cat[m].chunk
<1> DEFINE n == Len(cat)
           V == Seq(T)
           all == Dictionary(cat)
<1>1. n \in Nat /\ DOMAIN cat = 1 .. n /\ <<>> \in V
  OBVIOUS
<1>2. \A a \in V, i \in 1 .. n : Defaulted(a, cat[i]) \in V
  <2> SUFFICES ASSUME NEW a \in V, NEW i \in 1 .. n PROVE Defaulted(a, cat[i]) \in V
    OBVIOUS
  <2>1. cat[i] \in T
    BY ElementOf
  <2> QED
    BY <2>1 DEF Defaulted
<1>3. PICK g \in [0 .. n -> V] :
        /\ g[0] = <<>> /\ g[n] = all
        /\ \A k \in 1 .. n : g[k] = Defaulted(g[k - 1], cat[k])
  <2>1. \E g \in [0 .. n -> V] : DictionarySteps(g, cat, n)
    <3> HIDE DEF V, n
    <3> QED BY <1>1, <1>2, DictionaryRun
  <2> HIDE DEF V, n
  <2> QED BY <2>1 DEF DictionarySteps
<1> HIDE DEF all
<1> DEFINE taken == {k \in 1 .. n : Position(g[k - 1], cat[k].chunk) = 0}
<1>4. Picks(g, cat, taken)
  <2>1. \A k \in 1 .. n :
          g[k] = IF k \in taken THEN Append(g[k - 1], cat[k]) ELSE g[k - 1]
    BY <1>3 DEF Defaulted
  <2> HIDE DEF taken
  <2> QED
    BY <1>3, <2>1 DEF Picks
<1>5. PICK w : PicksAt(g, cat, taken, n, w)
  <2> HIDE DEF taken
  <2> QED BY <1>3, <1>4, PicksInOrder
<1>6. \A k \in 0 .. n : g[k] \in V /\ Len(g[k]) \in Nat
  BY <1>3
<1> DEFINE M == {k \in Nat : k <= n => \A m \in 1 .. k :
                                \E i \in 1 .. Len(g[k]) : g[k][i].chunk = cat[m].chunk}
<1>7. 0 \in M
  OBVIOUS
<1>8. ASSUME NEW k \in Nat, k \in M PROVE k + 1 \in M
  <2> SUFFICES ASSUME k + 1 <= n, NEW m \in 1 .. k + 1
               PROVE  \E i \in 1 .. Len(g[k + 1]) : g[k + 1][i].chunk = cat[m].chunk
    OBVIOUS
  <2>1. /\ k + 1 \in 1 .. n /\ (k + 1) - 1 = k /\ k \in 0 .. n
        /\ g[k] \in V /\ Len(g[k]) \in Nat /\ cat[k + 1] \in T
    BY <1>6, ElementOf
  <2>2. g[k + 1] = Defaulted(g[k], cat[k + 1])
    BY <1>3, <2>1
  <2>3. \A i \in 1 .. Len(g[k]) : i \in 1 .. Len(g[k + 1]) /\ g[k + 1][i] = g[k][i]
    <3> DEFINE p == g[k]
               x == cat[k + 1]
    <3>1. p \in Seq(T) /\ x \in T /\ g[k + 1] = Defaulted(p, x)
      BY <2>1, <2>2
    <3> HIDE DEF p, x
    <3>2. \A i \in 1 .. Len(p) : i \in 1 .. Len(g[k + 1]) /\ g[k + 1][i] = p[i]
      BY <3>1 DEF Defaulted
    <3> QED
      BY <3>2 DEF p
  <2>4. CASE m \in 1 .. k
    <3>1. PICK i \in 1 .. Len(g[k]) : g[k][i].chunk = cat[m].chunk
      BY <1>8, <2>1, <2>4
    <3> QED
      BY <2>3, <3>1
  <2>5. CASE m = k + 1
    <3>1. CASE Position(g[k], cat[k + 1].chunk) = 0
      <4> DEFINE p == g[k]
                 x == cat[k + 1]
      <4>1. p \in Seq(T) /\ x \in T /\ g[k + 1] = Append(p, x)
        BY <2>1, <2>2, <3>1 DEF Defaulted
      <4>2. m = k + 1 /\ x = cat[m]
        BY <2>5
      <4> HIDE DEF p, x
      <4>3. Len(p) + 1 \in 1 .. Len(g[k + 1]) /\ g[k + 1][Len(p) + 1] = x
        BY <4>1
      <4> QED
        BY <4>2, <4>3
    <3>2. CASE Position(g[k], cat[k + 1].chunk) # 0
      <4> DEFINE i == Position(g[k], cat[k + 1].chunk)
      <4>1. i \in 1 .. Len(g[k]) /\ g[k][i].chunk = cat[k + 1].chunk
        BY <2>1, <3>2, PositionIn
      <4> HIDE DEF i
      <4> QED
        BY <2>3, <2>5, <4>1
    <3> QED
      BY <3>1, <3>2
  <2> QED
    BY <2>4, <2>5
<1>9. Nat \subseteq M
  <2> HIDE DEF M
  <2> QED BY <1>7, <1>8, SetInduction
<1>10. /\ w \in [1 .. Len(all) -> taken] /\ all \in Seq(T)
       /\ \A i, j \in 1 .. Len(all) : i < j => w[i] < w[j]
       /\ \A i \in 1 .. Len(all) : all[i] = cat[w[i]]
  <2>1. g[n] = all /\ all \in Seq(T)
    BY <1>3
  <2> HIDE DEF taken
  <2> QED BY <1>5, <2>1 DEF PicksAt
<1>11. ASSUME NEW i \in 1 .. Len(all), NEW m \in 1 .. w[i] - 1
       PROVE  cat[m].chunk # cat[w[i]].chunk
  <2> DEFINE k == w[i]
  <2>1. k \in 1 .. n /\ Position(g[k - 1], cat[k].chunk) = 0
    BY <1>10
  <2>2. k - 1 \in Nat /\ k - 1 <= n /\ k - 1 \in 0 .. n /\ m \in 1 .. k - 1
    BY <2>1
  <2>5. Len(g[k - 1]) \in Nat /\ k - 1 \in M
    <3> HIDE DEF M, k
    <3> QED BY <1>6, <1>9, <2>2
  <2>6. \A r \in 1 .. k - 1 : \E j \in 1 .. Len(g[k - 1]) : g[k - 1][j].chunk = cat[r].chunk
    <3> HIDE DEF k
    <3> QED BY <2>2, <2>5
  <2>3. PICK j \in 1 .. Len(g[k - 1]) : g[k - 1][j].chunk = cat[m].chunk
    BY <2>2, <2>6
  <2>4. g[k - 1][j].chunk # cat[k].chunk
    BY <2>1, <2>3, <2>5, PositionIn
  <2> QED
    BY <2>3, <2>4
<1>12. \A m \in 1 .. n : \E i \in 1 .. Len(all) : all[i].chunk = cat[m].chunk
  <2>1. n \in M
    BY <1>1, <1>9
  <2> QED
    BY <1>3, <2>1
<1>13. w \in [1 .. Len(all) -> 1 .. n]
  BY <1>10
<1> QED
  BY <1>10, <1>11, <1>12, <1>13 DEF all

(* The share of a rank is a number, and no smaller than that of a rank below. *)
LEMMA ShareIn ==
  ASSUME NEW weight \in Nat, NEW rank \in Nat
  PROVE  Share(weight, rank) \in Nat
<1>1. CASE rank = 0
  BY <1>1 DEF Share
<1>2. CASE rank # 0
  <2>1. RrfK + rank \in Nat \ {0} /\ Scale \in Nat
    BY <1>2, FusionsAssumption
  <2>2. Scale \div (RrfK + rank) \in Nat
    BY <2>1
  <2>3. \A q \in Nat : weight * q \in Nat
    OBVIOUS
  <2> QED
    BY <1>2, <2>2, <2>3 DEF Share
<1> QED
  BY <1>1, <1>2

(* Integer division falls as the divisor grows; of its definition only this is *)
(* used, which rounding to floating point keeps. *)
LEMMA Quotients ==
  ASSUME NEW total \in Nat, NEW a \in Nat \ {0}, NEW b \in Nat \ {0}, a <= b
  PROVE  total \div a >= total \div b
<1> DEFINE p == total \div a
           q == total \div b
<1>1. p \in Nat /\ q \in Nat /\ total < a * (p + 1) /\ b * q <= total
  OBVIOUS
<1> HIDE DEF p, q
<1>2. CASE p < q
  <2>1. a * (p + 1) <= a * q
    <3>1. \A d \in Nat : a * d >= 0
      OBVIOUS
    <3>2. q - (p + 1) \in Nat /\ a * q = a * (p + 1) + a * (q - (p + 1))
      BY <1>1, <1>2
    <3> QED
      BY <1>1, <3>1, <3>2
  <2>2. a * q <= b * q
    <3>1. b - a \in Nat /\ b * q = a * q + (b - a) * q
      BY <1>1
    <3>2. \A d \in Nat : d * q >= 0
      BY <1>1
    <3> QED
      BY <1>1, <3>1, <3>2
  <2>3. a * (p + 1) \in Nat /\ a * q \in Nat /\ b * q \in Nat
    BY <1>1
  <2> QED
    BY <1>1, <2>1, <2>2, <2>3
<1> QED
  BY <1>1, <1>2 DEF p, q

(* A lower rank, or none, has no larger share. *)
LEMMA SharesFall ==
  ASSUME NEW weight \in Nat, NEW rank \in Nat, NEW below \in Nat,
         rank # 0, below = 0 \/ rank <= below
  PROVE  Share(weight, rank) >= Share(weight, below)
<1>1. CASE below = 0
  BY <1>1, ShareIn DEF Share
<1>2. CASE below # 0
  <2> DEFINE p == Scale \div (RrfK + rank)
             q == Scale \div (RrfK + below)
  <2>1. /\ RrfK + rank \in Nat \ {0} /\ Scale \in Nat
        /\ RrfK + below \in Nat \ {0} /\ RrfK + rank <= RrfK + below
    BY <1>2, FusionsAssumption
  <2>2. p >= q /\ p \in Nat /\ q \in Nat
    <3>1. p \in Nat /\ q \in Nat
      BY <2>1
    <3>2. Scale \div (RrfK + rank) >= Scale \div (RrfK + below)
      BY <2>1, Quotients
    <3> QED
      BY <3>1, <3>2
  <2>3. Share(weight, rank) = weight * p /\ Share(weight, below) = weight * q
    BY <1>2 DEF Share
  <2> HIDE DEF p, q
  <2>4. p - q \in Nat /\ weight * p = weight * q + weight * (p - q)
    BY <2>2
  <2>5. \A d \in Nat : weight * d \in Nat
    OBVIOUS
  <2> QED
    BY <2>2, <2>3, <2>4, <2>5
<1> QED
  BY <1>1, <1>2

(* The same with the rank 0 of a chunk that the leg does not have. *)
LEMMA ShareOrder ==
  ASSUME NEW weight \in Nat, NEW a \in Nat, NEW b \in Nat, b = 0 \/ (a # 0 /\ a <= b)
  PROVE  /\ Share(weight, a) >= Share(weight, b)
         /\ Share(weight, a) \in Nat /\ Share(weight, b) \in Nat
<1>1. Share(weight, a) \in Nat /\ Share(weight, b) \in Nat
  BY ShareIn
<1>2. CASE a # 0
  BY <1>1, <1>2, SharesFall
<1>3. CASE a = 0
  BY <1>1, <1>3
<1> QED
  BY <1>1, <1>2, <1>3

-----------------------------------------------------------------------------
(* What fusion sorts. *)

(* The scores of a chunk: what its legs say, the sum of its shares. *)
ScoredBy(x, semantic, lexical, weights) ==
  LET s == Position(semantic, x.chunk)
      l == Position(lexical, x.chunk)
  IN  /\ x.sim = IF s # 0 THEN semantic[s].sim ELSE Absent
      /\ x.lex = IF l # 0 THEN lexical[l].lex ELSE Absent
      /\ x.fused = Share(weights[1], s) + Share(weights[2], l)

(* Every candidate of the leg is there, with its Document. *)
HasAll(c, leg) ==
  \A m \in 1 .. Len(leg) :
    /\ \E i \in 1 .. Len(c) : c[i].chunk = leg[m].chunk
    /\ \A i \in 1 .. Len(c) : c[i].chunk = leg[m].chunk => c[i].doc = leg[m].doc

(* The chunks of two legs, each once. *)
Gathers(c, semantic, lexical) ==
  /\ EachChunkOnce(c)
  /\ \A i \in 1 .. Len(c) :
       \/ \E m \in 1 .. Len(semantic) : c[i].chunk = semantic[m].chunk
       \/ \E m \in 1 .. Len(lexical) : c[i].chunk = lexical[m].chunk
  /\ HasAll(c, semantic) /\ HasAll(c, lexical)

(* What a leg of fusion is: a list of candidates, each chunk once, in the order *)
(* of the leg's own score. *)
LEMMA FusionInput ==
  ASSUME NEW f \in Fusions
  PROVE  /\ f.semantic \in Seq(Scored) /\ EachChunkOnce(f.semantic)
         /\ f.lexical \in Seq(Scored) /\ EachChunkOnce(f.lexical)
         /\ \A i \in 1 .. Len(f.semantic) :
                /\ f.semantic[i].lex = Absent /\ f.semantic[i].sim >= Absent
                /\ \A j \in 1 .. i : f.semantic[j].sim >= f.semantic[i].sim
         /\ \A i \in 1 .. Len(f.lexical) :
                /\ f.lexical[i].sim = Absent /\ f.lexical[i].lex >= Absent
                /\ \A j \in 1 .. i : f.lexical[j].lex >= f.lexical[i].lex
         /\ \A i \in 1 .. Len(f.semantic), j \in 1 .. Len(f.lexical) :
                f.semantic[i].chunk = f.lexical[j].chunk => f.semantic[i].doc = f.lexical[j].doc
         /\ f.weights[1] \in Nat /\ f.weights[2] \in Nat /\ f.limit \in Nat /\ f.cap \in Nat
BY FusionsAssumption

(* An element of a concatenation comes from its part. *)
LEMMA ElementOfBoth ==
  ASSUME NEW T, NEW s \in Seq(T), NEW t \in Seq(T)
  PROVE  /\ s \o t \in Seq(T) /\ Len(s \o t) = Len(s) + Len(t)
         /\ \A i \in 1 .. Len(s) : (s \o t)[i] = s[i]
         /\ \A i \in 1 .. Len(t) : (s \o t)[Len(s) + i] = t[i]
OBVIOUS

(* The dictionary has the chunks of both legs, each once with its scores, those *)
(* of the semantic leg first and in its order. *)
LEMMA CombinedGathers ==
  ASSUME NEW f \in Fusions
  PROVE  LET c == Combined(f.semantic, f.lexical, f.weights)
         IN  /\ Len(c) \in Nat /\ DOMAIN c = 1 .. Len(c)
             /\ \A i \in 1 .. Len(c) :
                  /\ c[i] \in Scored
                  /\ ScoredBy(c[i], f.semantic, f.lexical, f.weights)
             /\ Gathers(c, f.semantic, f.lexical)
             /\ \A i, j \in 1 .. Len(c) :
                  SeenAt(f.semantic, f.lexical, c[i].chunk)
                    < SeenAt(f.semantic, f.lexical, c[j].chunk) => i < j
<1> DEFINE S == f.semantic
           L == f.lexical
           cat == S \o L
           all == Dictionary(cat)
           Entry(x) ==
             [x EXCEPT !.sim = IF Position(S, x.chunk) > 0 THEN S[Position(S, x.chunk)].sim ELSE @,
                       !.lex = IF Position(L, x.chunk) > 0 THEN L[Position(L, x.chunk)].lex ELSE @,
                       !.fused = Share(f.weights[1], Position(S, x.chunk))
                                   + Share(f.weights[2], Position(L, x.chunk))]
           c == [i \in 1 .. Len(all) |-> Entry(all[i])]
<1>1. Combined(S, L, f.weights) = c
  BY DEF Combined, Dictionary, Defaulted
<1>2. /\ S \in Seq(Scored) /\ EachChunkOnce(S) /\ L \in Seq(Scored) /\ EachChunkOnce(L)
      /\ Len(S) \in Nat /\ Len(L) \in Nat
      /\ \A i \in 1 .. Len(S) : S[i] \in Scored /\ S[i].lex = Absent
      /\ \A i \in 1 .. Len(L) : L[i] \in Scored /\ L[i].sim = Absent
      /\ \A i \in 1 .. Len(S), j \in 1 .. Len(L) : S[i].chunk = L[j].chunk => S[i].doc = L[j].doc
      /\ f.weights[1] \in Nat /\ f.weights[2] \in Nat
  <2>1. S \in Seq(Scored) /\ L \in Seq(Scored)
    BY FusionInput
  <2>2. (\A i \in 1 .. Len(S) : S[i] \in Scored) /\ \A i \in 1 .. Len(L) : L[i] \in Scored
    <3> HIDE DEF S, L
    <3> QED BY <2>1, ElementOf
  <2>3. Len(S) \in Nat /\ Len(L) \in Nat
    <3> HIDE DEF S, L
    <3> QED BY <2>1
  <2> QED
    BY <2>1, <2>2, <2>3, FusionInput
<1> HIDE DEF S, L
<1>3. /\ cat \in Seq(Scored) /\ Len(cat) = Len(S) + Len(L)
      /\ \A i \in 1 .. Len(S) : cat[i] = S[i]
      /\ \A i \in 1 .. Len(L) : cat[Len(S) + i] = L[i]
  BY <1>2, ElementOfBoth
<1>4. PICK w : /\ all \in Seq(Scored)
               /\ w \in [1 .. Len(all) -> 1 .. Len(cat)]
               /\ \A i, j \in 1 .. Len(all) : i < j => w[i] < w[j]
               /\ \A i \in 1 .. Len(all) :
                    /\ all[i] = cat[w[i]]
                    /\ \A m \in 1 .. w[i] - 1 : cat[m].chunk # cat[w[i]].chunk
               /\ \A m \in 1 .. Len(cat) :
                    \E i \in 1 .. Len(all) : all[i].chunk = cat[m].chunk
  <2> HIDE DEF cat
  <2> QED BY <1>3, DictionaryOf
<1> DEFINE n == Len(all)
<1>5. n \in Nat /\ \A i \in 1 .. n : all[i] \in Scored
  <2>1. all \in Seq(Scored)
    BY <1>4
  <2> HIDE DEF all
  <2> QED BY <2>1, ElementOf
<1> HIDE DEF cat, all
<1>6. ASSUME NEW i \in 1 .. n
      PROVE  /\ w[i] = SeenAt(S, L, all[i].chunk)
             /\ Position(S, all[i].chunk) # 0 => all[i] = S[Position(S, all[i].chunk)]
             /\ Position(S, all[i].chunk) = 0 =>
                  /\ Position(L, all[i].chunk) # 0
                  /\ all[i] = L[Position(L, all[i].chunk)]
  <2> DEFINE x == all[i].chunk
             p == Position(S, x)
  <2>1. /\ w[i] \in 1 .. Len(S) + Len(L) /\ all[i] = cat[w[i]] /\ cat[w[i]].chunk = x
        /\ \A m \in 1 .. w[i] - 1 : cat[m].chunk # x
    BY <1>3, <1>4
  <2>2. CASE p # 0
    <3>1. p \in 1 .. Len(S) /\ S[p].chunk = x /\ cat[p] = S[p]
      BY <1>2, <1>3, <2>2, PositionIn
    <3>2. w[i] <= p
      <4>1. CASE p < w[i]
        <5>1. p \in 1 .. w[i] - 1
          BY <1>2, <2>1, <3>1, <4>1
        <5> QED
          BY <2>1, <3>1, <5>1
      <4> QED
        BY <1>2, <2>1, <3>1, <4>1
    <3>3. w[i] \in 1 .. Len(S)
      BY <1>2, <2>1, <3>1, <3>2
    <3>4. cat[w[i]] = S[w[i]] /\ w[i] = p
      BY <1>2, <1>3, <2>1, <3>1, <3>3 DEF EachChunkOnce
    <3> QED
      BY <2>1, <2>2, <3>4 DEF SeenAt
  <2>3. CASE p = 0
    <3>1. \A m \in 1 .. Len(S) : S[m].chunk # x
      BY <1>2, <2>3, PositionIn
    <3>2. w[i] \notin 1 .. Len(S)
      BY <1>3, <2>1, <3>1
    <3> DEFINE q == w[i] - Len(S)
    <3>3. q \in 1 .. Len(L) /\ w[i] = Len(S) + q
      <4>1. \A v \in 1 .. Len(S) + Len(L) :
              v \notin 1 .. Len(S) => v - Len(S) \in 1 .. Len(L) /\ v = Len(S) + (v - Len(S))
        BY <1>2
      <4> QED
        BY <2>1, <3>2, <4>1
    <3>4. cat[w[i]] = L[q] /\ L[q].chunk = x
      BY <1>3, <2>1, <3>3
    <3>5. Position(L, x) = q /\ q # 0
      <4> HIDE DEF q
      <4> QED BY <1>2, <3>3, <3>4, PositionIn
    <3> QED
      BY <2>1, <2>3, <3>3, <3>4, <3>5 DEF SeenAt
  <2> QED
    BY <2>2, <2>3
<1>7. ASSUME NEW x \in Scored
      PROVE  /\ Entry(x).chunk = x.chunk /\ Entry(x).doc = x.doc /\ Entry(x) \in Scored
             /\ Entry(x).sim = IF Position(S, x.chunk) > 0
                                 THEN S[Position(S, x.chunk)].sim ELSE x.sim
             /\ Entry(x).lex = IF Position(L, x.chunk) > 0
                                 THEN L[Position(L, x.chunk)].lex ELSE x.lex
             /\ Entry(x).fused = Share(f.weights[1], Position(S, x.chunk))
                                   + Share(f.weights[2], Position(L, x.chunk))
  <2> DEFINE p == Position(S, x.chunk)
             q == Position(L, x.chunk)
             sim == IF p > 0 THEN S[p].sim ELSE x.sim
             lex == IF q > 0 THEN L[q].lex ELSE x.lex
             fused == Share(f.weights[1], p) + Share(f.weights[2], q)
  <2>1. p \in 0 .. Len(S) /\ q \in 0 .. Len(L)
    BY <1>2, PositionIn
  <2>2. fused \in Int
    <3>1. Share(f.weights[1], p) \in Nat /\ Share(f.weights[2], q) \in Nat
      <4>1. p \in Nat /\ q \in Nat
        BY <2>1
      <4> HIDE DEF p, q
      <4> QED BY <1>2, <4>1, ShareIn
    <3> QED
      BY <3>1
  <2>3. sim \in Int /\ lex \in Int
    <3>1. x.sim \in Int /\ x.lex \in Int
      BY DEF Scored
    <3>2. \A i \in 1 .. Len(S) : S[i].sim \in Int
      BY <1>2 DEF Scored
    <3>3. \A i \in 1 .. Len(L) : L[i].lex \in Int
      BY <1>2 DEF Scored
    <3>4. (p > 0 => p \in 1 .. Len(S)) /\ (q > 0 => q \in 1 .. Len(L))
      BY <1>2, <2>1
    <3> HIDE DEF p, q
    <3> QED BY <3>1, <3>2, <3>3, <3>4
  <2>4. Entry(x) = [x EXCEPT !.sim = sim, !.lex = lex, !.fused = fused]
    BY DEF Scored
  <2> HIDE DEF sim, lex, fused
  <2>5. LET e == [x EXCEPT !.sim = sim, !.lex = lex, !.fused = fused]
        IN  /\ e.chunk = x.chunk /\ e.doc = x.doc /\ e \in Scored
            /\ e.sim = sim /\ e.lex = lex /\ e.fused = fused
    BY <2>2, <2>3 DEF Scored
  <2> HIDE DEF Entry
  <2> QED
    BY <2>4, <2>5 DEF sim, lex, fused
<1> HIDE DEF Entry
<1>8. /\ Len(c) = n /\ DOMAIN c = 1 .. n
      /\ \A i \in 1 .. n : c[i] = Entry(all[i]) /\ c[i].chunk = all[i].chunk /\ c[i].doc = all[i].doc
  BY <1>5, <1>7
<1> HIDE DEF c
<1>9. \A i \in 1 .. n : c[i] \in Scored
  BY <1>5, <1>7, <1>8
<1>10. ASSUME NEW i \in 1 .. n PROVE ScoredBy(c[i], S, L, f.weights)
  <2> DEFINE x == all[i]
             p == Position(S, x.chunk)
             q == Position(L, x.chunk)
  <2>1. p \in 0 .. Len(S) /\ q \in 0 .. Len(L) /\ x \in Scored
    BY <1>2, <1>5, PositionIn
  <2>2. p = 0 => x.sim = Absent
    <3>1. p = 0 => q \in 1 .. Len(L) /\ x = L[q]
      BY <1>2, <1>6, <2>1
    <3> QED
      BY <1>2, <3>1
  <2>3. q = 0 => x.lex = Absent
    <3>1. q = 0 => p \in 1 .. Len(S) /\ x = S[p]
      BY <1>2, <1>6, <2>1
    <3> QED
      BY <1>2, <3>1
  <2>4. (p > 0 <=> p # 0) /\ (q > 0 <=> q # 0)
    BY <1>2, <2>1
  <2>5. /\ c[i].chunk = x.chunk
        /\ c[i].sim = IF p > 0 THEN S[p].sim ELSE x.sim
        /\ c[i].lex = IF q > 0 THEN L[q].lex ELSE x.lex
        /\ c[i].fused = Share(f.weights[1], p) + Share(f.weights[2], q)
    BY <1>7, <1>8, <2>1
  <2> QED
    BY <2>2, <2>3, <2>4, <2>5 DEF ScoredBy
<1>11. \A i, j \in 1 .. n : SeenAt(S, L, c[i].chunk) < SeenAt(S, L, c[j].chunk) => i < j
  <2> SUFFICES ASSUME NEW i \in 1 .. n, NEW j \in 1 .. n, w[i] < w[j] PROVE i < j
    BY <1>6, <1>8
  <2>1. w[i] \in Nat /\ w[j] \in Nat /\ (j < i => w[j] < w[i])
    BY <1>4, SMTT(30)
  <2> QED
    BY <2>1
<1>12. Gathers(c, S, L)
  <2>1. EachChunkOnce(c)
    <3> SUFFICES ASSUME NEW i \in 1 .. n, NEW j \in 1 .. n, all[i].chunk = all[j].chunk PROVE i = j
      BY <1>8 DEF EachChunkOnce
    <3>1. w[i] = w[j]
      BY <1>6
    <3> QED
      BY <1>4, <3>1
  <2>2. \A i \in 1 .. n : \/ \E m \in 1 .. Len(S) : c[i].chunk = S[m].chunk
                          \/ \E m \in 1 .. Len(L) : c[i].chunk = L[m].chunk
    <3> SUFFICES ASSUME NEW i \in 1 .. n
                 PROVE  \/ \E m \in 1 .. Len(S) : c[i].chunk = S[m].chunk
                        \/ \E m \in 1 .. Len(L) : c[i].chunk = L[m].chunk
      OBVIOUS
    <3>1. CASE Position(S, all[i].chunk) # 0
      <4>1. Position(S, all[i].chunk) \in 1 .. Len(S)
        BY <1>2, <3>1, PositionIn
      <4> QED
        BY <1>6, <1>8, <3>1, <4>1
    <3>2. CASE Position(S, all[i].chunk) = 0
      <4>1. Position(L, all[i].chunk) \in 1 .. Len(L)
        BY <1>2, <1>6, <3>2, PositionIn
      <4> QED
        BY <1>6, <1>8, <3>2, <4>1
    <3> QED
      BY <3>1, <3>2
  <2>3. ASSUME NEW m \in 1 .. Len(S)
        PROVE  /\ \E i \in 1 .. n : c[i].chunk = S[m].chunk
               /\ \A i \in 1 .. n : c[i].chunk = S[m].chunk => c[i].doc = S[m].doc
    <3>1. m \in 1 .. Len(cat) /\ cat[m] = S[m]
      BY <1>2, <1>3
    <3>2. \E i \in 1 .. n : c[i].chunk = S[m].chunk
      <4>1. PICK i \in 1 .. n : all[i].chunk = cat[m].chunk
        BY <1>4, <3>1
      <4>2. c[i].chunk = S[m].chunk
        BY <1>8, <3>1, <4>1
      <4> QED
        BY <4>2
    <3>3. \A i \in 1 .. n : c[i].chunk = S[m].chunk => c[i].doc = S[m].doc
      <4> SUFFICES ASSUME NEW i \in 1 .. n, all[i].chunk = S[m].chunk PROVE all[i].doc = S[m].doc
        BY <1>8
      <4>1. Position(S, all[i].chunk) = m
        BY <1>2, PositionIn
      <4> QED
        BY <1>6, <4>1
    <3> QED
      BY <3>2, <3>3
  <2>4. ASSUME NEW m \in 1 .. Len(L)
        PROVE  /\ \E i \in 1 .. n : c[i].chunk = L[m].chunk
               /\ \A i \in 1 .. n : c[i].chunk = L[m].chunk => c[i].doc = L[m].doc
    <3>1. Len(S) + m \in 1 .. Len(cat) /\ cat[Len(S) + m] = L[m]
      BY <1>2, <1>3
    <3>2. \E i \in 1 .. n : c[i].chunk = L[m].chunk
      <4>1. PICK i \in 1 .. n : all[i].chunk = cat[Len(S) + m].chunk
        BY <1>4, <3>1
      <4>2. c[i].chunk = L[m].chunk
        BY <1>8, <3>1, <4>1
      <4> QED
        BY <4>2
    <3>3. \A i \in 1 .. n : c[i].chunk = L[m].chunk => c[i].doc = L[m].doc
      <4> SUFFICES ASSUME NEW i \in 1 .. n, all[i].chunk = L[m].chunk PROVE all[i].doc = L[m].doc
        BY <1>8
      <4>1. CASE Position(S, all[i].chunk) # 0
        <5> DEFINE p == Position(S, all[i].chunk)
        <5>1. p \in 1 .. Len(S) /\ S[p].chunk = L[m].chunk
          BY <1>2, <4>1, PositionIn
        <5>2. all[i] = S[p]
          BY <1>6, <4>1
        <5> QED
          BY <1>2, <5>1, <5>2
      <4>2. CASE Position(S, all[i].chunk) = 0
        <5>1. Position(L, all[i].chunk) = m
          BY <1>2, PositionIn
        <5> QED
          BY <1>6, <4>2, <5>1
      <4> QED
        BY <4>1, <4>2
    <3> QED
      BY <3>2, <3>3
  <2> QED
    BY <1>8, <2>1, <2>2, <2>3, <2>4 DEF Gathers, HasAll
<1>13. c = Combined(f.semantic, f.lexical, f.weights)
  BY <1>1 DEF S, L
<1> QED
  BY <1>5, <1>8, <1>9, <1>10, <1>11, <1>12, <1>13 DEF S, L

(* Ranked at least as high by both legs, and higher by one. *)
AboveIn(semantic, lexical, a, b) ==
  /\ RankIn(semantic, a) <= RankIn(semantic, b)
  /\ RankIn(lexical, a) <= RankIn(lexical, b)
  /\ \/ RankIn(semantic, a) < RankIn(semantic, b)
     \/ RankIn(lexical, a) < RankIn(lexical, b)

(* The rank in a leg is the position, where there is one. *)
LEMMA RankOrder ==
  ASSUME NEW leg, Len(leg) \in Nat, NEW a, NEW b
  PROVE  /\ RankIn(leg, a) <= RankIn(leg, b) =>
              Position(leg, b) = 0 \/ (Position(leg, a) # 0 /\ Position(leg, a) <= Position(leg, b))
         /\ RankIn(leg, a) < RankIn(leg, b) => Position(leg, a) # Position(leg, b)
<1>1. /\ Position(leg, a) \in 0 .. Len(leg) /\ Position(leg, b) \in 0 .. Len(leg)
  BY PositionIn
<1>2. /\ RankIn(leg, a) = IF Position(leg, a) = 0 THEN Len(leg) + 1 ELSE Position(leg, a)
      /\ RankIn(leg, b) = IF Position(leg, b) = 0 THEN Len(leg) + 1 ELSE Position(leg, b)
  BY DEF RankIn
<1> QED
  BY <1>1, <1>2

(* A chunk that is above another in the legs goes before it. *)
LEMMA AboveGoesBefore ==
  ASSUME NEW f \in Fusions, NEW c, c = Combined(f.semantic, f.lexical, f.weights),
         NEW u \in 1 .. Len(c), NEW v \in 1 .. Len(c),
         AboveIn(f.semantic, f.lexical, c[u].chunk, c[v].chunk)
  PROVE  GoesBefore(c[u], u, c[v], v)
<1> DEFINE S == f.semantic
           L == f.lexical
           a == c[u].chunk
           b == c[v].chunk
           sa == Position(S, a)
           sb == Position(S, b)
           la == Position(L, a)
           lb == Position(L, b)
<1>1. /\ S \in Seq(Scored) /\ EachChunkOnce(S) /\ L \in Seq(Scored) /\ EachChunkOnce(L)
      /\ \A i \in 1 .. Len(S) : S[i].sim >= Absent /\ \A j \in 1 .. i : S[j].sim >= S[i].sim
      /\ \A i \in 1 .. Len(L) : L[i].lex >= Absent /\ \A j \in 1 .. i : L[j].lex >= L[i].lex
      /\ f.weights[1] \in Nat /\ f.weights[2] \in Nat
  BY FusionInput
<1>2. /\ Len(c) \in Nat /\ c[u] \in Scored /\ c[v] \in Scored
      /\ ScoredBy(c[u], S, L, f.weights) /\ ScoredBy(c[v], S, L, f.weights)
      /\ Gathers(c, S, L)
      /\ SeenAt(S, L, a) < SeenAt(S, L, b) => u < v
  BY CombinedGathers
<1> HIDE DEF S, L
<1>3. /\ Len(S) \in Nat /\ Len(L) \in Nat
      /\ \A i \in 1 .. Len(S) : S[i].sim \in Int
      /\ \A i \in 1 .. Len(L) : L[i].lex \in Int
  <2>1. (\A i \in 1 .. Len(S) : S[i] \in Scored) /\ \A i \in 1 .. Len(L) : L[i] \in Scored
    BY <1>1, ElementOf
  <2>2. Len(S) \in Nat /\ Len(L) \in Nat
    BY <1>1
  <2>3. \A x \in Scored : x.sim \in Int /\ x.lex \in Int
    BY DEF Scored
  <2> QED
    BY <2>1, <2>2, <2>3
<1>4. /\ sa \in 0 .. Len(S) /\ sb \in 0 .. Len(S) /\ la \in 0 .. Len(L) /\ lb \in 0 .. Len(L)
      /\ sa \in Nat /\ sb \in Nat /\ la \in Nat /\ lb \in Nat
  BY <1>3, PositionIn
<1>5. /\ sb = 0 \/ (sa # 0 /\ sa <= sb)
      /\ lb = 0 \/ (la # 0 /\ la <= lb)
      /\ sa # sb \/ la # lb
  <2>1. AboveIn(S, L, a, b)
    BY DEF S, L
  <2> HIDE DEF a, b
  <2> QED
    BY <1>3, <2>1, RankOrder DEF AboveIn
<1>6. (sa # 0 \/ la # 0) /\ (sb # 0 \/ lb # 0)
  <2>1. ASSUME NEW i \in 1 .. Len(c)
        PROVE  Position(S, c[i].chunk) # 0 \/ Position(L, c[i].chunk) # 0
    <3>1. \/ \E m \in 1 .. Len(S) : c[i].chunk = S[m].chunk
          \/ \E m \in 1 .. Len(L) : c[i].chunk = L[m].chunk
      BY <1>2 DEF Gathers
    <3>2. /\ \A d : Position(S, d) = 0 => \A m \in 1 .. Len(S) : S[m].chunk # d
          /\ \A d : Position(L, d) = 0 => \A m \in 1 .. Len(L) : L[m].chunk # d
      BY <1>3, PositionIn
    <3> QED
      BY <3>1, <3>2
  <2> QED
    BY <2>1
<1>7. SeenAt(S, L, a) < SeenAt(S, L, b)
  <2>1. /\ SeenAt(S, L, a) = IF sa # 0 THEN sa ELSE Len(S) + la
        /\ SeenAt(S, L, b) = IF sb # 0 THEN sb ELSE Len(S) + lb
    BY DEF SeenAt
  <2>2. sa = sb /\ sa # 0 => a = b
    <3> HIDE DEF a, b
    <3> QED BY <1>3, PositionIn
  <2>3. a = b => la = lb
    <3> HIDE DEF a, b
    <3> QED OBVIOUS
  <2> HIDE DEF sa, sb, la, lb, a, b
  <2> QED
    BY <1>3, <1>4, <1>5, <1>6, <2>1, <2>2, <2>3
<1>8. c[u].sim >= c[v].sim
  <2>1. /\ c[u].sim = IF sa # 0 THEN S[sa].sim ELSE Absent
        /\ c[v].sim = IF sb # 0 THEN S[sb].sim ELSE Absent
    BY <1>2 DEF ScoredBy
  <2>2. (sa # 0 => sa \in 1 .. Len(S)) /\ (sb # 0 => sb \in 1 .. Len(S) /\ sa \in 1 .. sb)
    BY <1>3, <1>4, <1>5
  <2>3. Absent \in Int
    BY DEF Absent
  <2>4. sb = 0 \/ (sa # 0 /\ sa <= sb)
    BY <1>5
  <2>5. \A i \in 1 .. Len(S) : S[i].sim >= Absent /\ \A j \in 1 .. i : S[j].sim >= S[i].sim
    BY <1>1
  <2> HIDE DEF sa, sb
  <2> QED
    BY <1>3, <2>1, <2>2, <2>3, <2>4, <2>5
<1>9. c[u].lex >= c[v].lex
  <2>1. /\ c[u].lex = IF la # 0 THEN L[la].lex ELSE Absent
        /\ c[v].lex = IF lb # 0 THEN L[lb].lex ELSE Absent
    BY <1>2 DEF ScoredBy
  <2>4. lb = 0 \/ (la # 0 /\ la <= lb)
    BY <1>5
  <2>2. (la # 0 => la \in 1 .. Len(L)) /\ (lb # 0 => lb \in 1 .. Len(L) /\ la \in 1 .. lb)
    BY <1>3, <1>4, <1>5
  <2>3. Absent \in Int
    BY DEF Absent
  <2>5. \A i \in 1 .. Len(L) : L[i].lex >= Absent /\ \A j \in 1 .. i : L[j].lex >= L[i].lex
    BY <1>1
  <2> HIDE DEF la, lb
  <2> QED
    BY <1>3, <2>1, <2>2, <2>3, <2>4, <2>5
<1>10. c[u].fused >= c[v].fused
  <2>1. /\ c[u].fused = Share(f.weights[1], sa) + Share(f.weights[2], la)
        /\ c[v].fused = Share(f.weights[1], sb) + Share(f.weights[2], lb)
    BY <1>2 DEF ScoredBy
  <2> HIDE DEF sa, sb, la, lb
  <2>2. /\ Share(f.weights[1], sa) >= Share(f.weights[1], sb)
        /\ Share(f.weights[1], sa) \in Nat /\ Share(f.weights[1], sb) \in Nat
    BY <1>1, <1>4, <1>5, ShareOrder
  <2>3. /\ Share(f.weights[2], la) >= Share(f.weights[2], lb)
        /\ Share(f.weights[2], la) \in Nat /\ Share(f.weights[2], lb) \in Nat
    BY <1>1, <1>4, <1>5, ShareOrder
  <2> QED
    BY <2>1, <2>2, <2>3
<1>11. /\ c[u].fused \in Int /\ c[u].sim \in Int /\ c[u].lex \in Int
       /\ c[v].fused \in Int /\ c[v].sim \in Int /\ c[v].lex \in Int
  BY <1>2 DEF Scored
<1>12. u < v
  BY <1>2, <1>7
<1> QED
  BY <1>8, <1>9, <1>10, <1>11, <1>12 DEF GoesBefore

(* A permutation covers what the sequence covers. *)
LEMMA HasAllPermuted ==
  ASSUME NEW c, NEW leg, HasAll(c, leg), NEW ranked, Len(ranked) = Len(c),
         NEW from \in [1 .. Len(c) -> 1 .. Len(c)],
         \A i \in 1 .. Len(c) : \E m \in 1 .. Len(c) : from[m] = i,
         \A m \in 1 .. Len(c) : ranked[m] = c[from[m]]
  PROVE  HasAll(ranked, leg)
<1> SUFFICES ASSUME NEW m \in 1 .. Len(leg)
             PROVE  /\ \E i \in 1 .. Len(c) : ranked[i].chunk = leg[m].chunk
                    /\ \A i \in 1 .. Len(c) :
                         ranked[i].chunk = leg[m].chunk => ranked[i].doc = leg[m].doc
  BY DEF HasAll
<1>1. PICK i \in 1 .. Len(c) : c[i].chunk = leg[m].chunk
  BY DEF HasAll
<1>2. PICK k \in 1 .. Len(c) : from[k] = i
  OBVIOUS
<1>3. \A j \in 1 .. Len(c) : c[j].chunk = leg[m].chunk => c[j].doc = leg[m].doc
  BY DEF HasAll
<1>4. ranked[k].chunk = leg[m].chunk
  BY <1>1, <1>2
<1>5. \A j \in 1 .. Len(c) : ranked[j].chunk = leg[m].chunk => ranked[j].doc = leg[m].doc
  <2> SUFFICES ASSUME NEW j \in 1 .. Len(c), ranked[j].chunk = leg[m].chunk
               PROVE  ranked[j].doc = leg[m].doc
    OBVIOUS
  <2>1. ranked[j] = c[from[j]] /\ from[j] \in 1 .. Len(c)
    OBVIOUS
  <2> QED
    BY <1>3, <2>1
<1> QED
  BY <1>4, <1>5

(* What fusion selects from: every chunk of the legs once, and one that is *)
(* above another before it. *)
LEMMA RankedForFusion ==
  ASSUME NEW f \in Fusions
  PROVE  LET combined == Combined(f.semantic, f.lexical, f.weights)
             ranked == SortedBy(combined, FusionKeys(combined))
         IN  /\ ranked \in Seq(Scored)
             /\ Gathers(ranked, f.semantic, f.lexical)
             /\ \A i, j \in 1 .. Len(ranked) :
                  AboveIn(f.semantic, f.lexical, ranked[i].chunk, ranked[j].chunk) => i < j
<1> DEFINE S == f.semantic
           L == f.lexical
           c == Combined(S, L, f.weights)
           ranked == SortedBy(c, FusionKeys(c))
           n == Len(c)
<1>1. /\ n \in Nat /\ Gathers(c, S, L)
      /\ \A i \in 1 .. n : c[i] \in Scored
  BY CombinedGathers
<1>2. \A u, v \in 1 .. n : AboveIn(S, L, c[u].chunk, c[v].chunk) => GoesBefore(c[u], u, c[v], v)
  <2>1. SUFFICES ASSUME NEW u \in 1 .. n, NEW v \in 1 .. n, AboveIn(S, L, c[u].chunk, c[v].chunk)
                 PROVE  GoesBefore(c[u], u, c[v], v)
    OBVIOUS
  <2>2. c = Combined(f.semantic, f.lexical, f.weights)
    OBVIOUS
  <2> HIDE DEF c
  <2> QED BY <2>1, <2>2, AboveGoesBefore
<1> HIDE DEF S, L, c
<1>3. PICK from \in [1 .. n -> 1 .. n] :
        /\ ranked = [m \in 1 .. n |-> c[from[m]]]
        /\ \A i \in 1 .. n : \E m \in 1 .. n : from[m] = i
        /\ \A m, p \in 1 .. n : m < p <=> GoesBefore(c[from[m]], from[m], c[from[p]], from[p])
  <2>1. \A i \in 1 .. n : Scores(c[i])
    BY <1>1 DEF Scored, Scores
  <2> QED
    BY <1>1, <2>1, SortedForFusion
<1> HIDE DEF ranked
<1>4. /\ Len(ranked) = n /\ ranked \in Seq(Scored)
      /\ \A m \in 1 .. n : ranked[m] = c[from[m]] /\ from[m] \in 1 .. n
  <2>1. \A m \in 1 .. n : c[from[m]] \in Scored
    BY <1>1, <1>3
  <2> QED
    BY <1>1, <1>3, <2>1
<1>5. \A i, j \in 1 .. n : AboveIn(S, L, ranked[i].chunk, ranked[j].chunk) => i < j
  BY <1>2, <1>3, <1>4
<1>6. Gathers(ranked, S, L)
  <2>1. ASSUME NEW i \in 1 .. n, NEW j \in 1 .. n, ranked[i].chunk = ranked[j].chunk PROVE i = j
    <3>1. from[i] = from[j]
      <4>1. c[from[i]].chunk = c[from[j]].chunk /\ from[i] \in 1 .. n /\ from[j] \in 1 .. n
        BY <1>4, <2>1
      <4> QED
        BY <1>1, <4>1 DEF Gathers, EachChunkOnce
    <3>2. ~(i < j) /\ ~(j < i)
      <4>1. GoesBefore(c[from[i]], from[i], c[from[j]], from[j])
              <=> GoesBefore(c[from[j]], from[j], c[from[i]], from[i])
        BY <3>1
      <4> QED
        BY <1>3, <4>1, SMTT(30)
    <3> QED
      BY <3>2
  <2>2. \A i \in 1 .. n : \/ \E m \in 1 .. Len(S) : ranked[i].chunk = S[m].chunk
                          \/ \E m \in 1 .. Len(L) : ranked[i].chunk = L[m].chunk
    <3>1. \A k \in 1 .. n : \/ \E m \in 1 .. Len(S) : c[k].chunk = S[m].chunk
                            \/ \E m \in 1 .. Len(L) : c[k].chunk = L[m].chunk
      BY <1>1 DEF Gathers
    <3> QED
      BY <1>4, <3>1, SMTT(30)
  <2>3. HasAll(ranked, S) /\ HasAll(ranked, L)
    <3>1. HasAll(c, S) /\ HasAll(c, L)
      BY <1>1 DEF Gathers
    <3>2. \A m \in 1 .. n : ranked[m] = c[from[m]]
      BY <1>4
    <3> QED
      BY <1>3, <1>4, <3>1, <3>2, HasAllPermuted
  <2> QED
    BY <1>4, <2>1, <2>2, <2>3 DEF Gathers, EachChunkOnce
<1> QED
  BY <1>4, <1>5, <1>6 DEF S, L, c, ranked

(* The positions of a Document are finitely many, and one more with an element. *)
LEMMA OfDocumentIn ==
  ASSUME NEW T, NEW s \in Seq(T), NEW doc
  PROVE  /\ IsFiniteSet(OfDocument(s, doc)) /\ Cardinality(OfDocument(s, doc)) \in Nat
         /\ OfDocument(s, doc) \in SUBSET (1 .. Len(s))
<1>1. OfDocument(s, doc) \in SUBSET (1 .. Len(s))
  BY DEF OfDocument
<1>2. IsFiniteSet(1 .. Len(s))
  BY FS_Interval, Len(s) \in Nat
<1> QED
  BY <1>1, <1>2, FS_Subset, FS_CardinalityType

(* An element more is one more of its Document and of no other. *)
LEMMA OfDocumentAppended ==
  ASSUME NEW T, NEW s \in Seq(T), NEW x \in T, NEW doc
  PROVE  Cardinality(OfDocument(Append(s, x), doc))
           = Cardinality(OfDocument(s, doc)) + IF x.doc = doc THEN 1 ELSE 0
<1> DEFINE r == Append(s, x)
           l == Len(s)
<1>1. l \in Nat /\ Len(r) = l + 1 /\ r[l + 1] = x /\ \A i \in 1 .. l : r[i] = s[i]
  OBVIOUS
<1> HIDE DEF r
<1>2. IsFiniteSet(OfDocument(s, doc)) /\ Cardinality(OfDocument(s, doc)) \in Nat
  BY OfDocumentIn
<1>3. CASE x.doc = doc
  <2>1. OfDocument(r, doc) = OfDocument(s, doc) \union {l + 1}
    BY <1>1, <1>3 DEF OfDocument
  <2>2. l + 1 \notin OfDocument(s, doc)
    BY <1>1 DEF OfDocument
  <2> QED
    BY <1>2, <1>3, <2>1, <2>2, FS_AddElement DEF r
<1>4. CASE x.doc # doc
  <2>1. OfDocument(r, doc) = OfDocument(s, doc)
    BY <1>1, <1>4 DEF OfDocument
  <2> QED
    BY <1>2, <1>4, <2>1 DEF r
<1> QED
  BY <1>3, <1>4

(* The limits of a selection. *)
Limited(s, limit, cap) ==
  Len(s) <= limit /\ \A doc : Cardinality(OfDocument(s, doc)) <= cap

(* No round of the selection exceeds a limit. *)
LEMMA CappedIsLimited ==
  ASSUME NEW T, NEW s \in Seq(T), NEW x \in T, NEW limit \in Nat, NEW cap \in Nat,
         Limited(s, limit, cap)
  PROVE  Limited(Capped(s, x, limit, cap), limit, cap)
<1>1. CASE Len(s) = limit \/ Cardinality(OfDocument(s, x.doc)) >= cap
  BY <1>1 DEF Capped
<1>2. CASE ~(Len(s) = limit \/ Cardinality(OfDocument(s, x.doc)) >= cap)
  <2>1. Capped(s, x, limit, cap) = Append(s, x)
    BY <1>2 DEF Capped
  <2>2. Len(Append(s, x)) <= limit
    BY <1>2 DEF Limited
  <2>3. ASSUME NEW doc PROVE Cardinality(OfDocument(Append(s, x), doc)) <= cap
    <3>1. /\ Cardinality(OfDocument(Append(s, x), doc))
               = Cardinality(OfDocument(s, doc)) + IF x.doc = doc THEN 1 ELSE 0
          /\ Cardinality(OfDocument(s, doc)) \in Nat
      BY OfDocumentAppended, OfDocumentIn
    <3>2. Cardinality(OfDocument(s, doc)) <= cap
      BY DEF Limited
    <3>3. CASE x.doc = doc
      <4>1. ~(Cardinality(OfDocument(s, doc)) >= cap)
        BY <1>2, <3>3
      <4> QED
        BY <3>1, <3>3, <4>1
    <3>4. CASE x.doc # doc
      BY <3>1, <3>2, <3>4
    <3> QED
      BY <3>3, <3>4
  <2> QED
    BY <2>1, <2>2, <2>3 DEF Limited
<1> QED
  BY <1>1, <1>2

(* What the selection takes from a sequence, and why it leaves an element. *)
Selects(r, s, n, limit, cap, w, g) ==
  /\ Limited(r, limit, cap)
  /\ w \in [1 .. Len(r) -> 1 .. n]
  /\ \A i, j \in 1 .. Len(r) : i < j => w[i] < w[j]
  /\ \A i \in 1 .. Len(r) : r[i] = s[w[i]]
  /\ \A k \in 1 .. n :
       /\ Len(g[k - 1]) <= Len(r)
       /\ \A i \in 1 .. Len(r) : i <= Len(g[k - 1]) <=> w[i] < k
       /\ \A i \in 1 .. Len(g[k - 1]) : g[k - 1][i] = r[i]
       /\ \/ /\ Len(g[k - 1]) < limit
             /\ Cardinality(OfDocument(g[k - 1], s[k].doc)) < cap
             /\ \E i \in 1 .. Len(r) : w[i] = k
          \/ /\ \/ Len(g[k - 1]) = limit
                \/ Cardinality(OfDocument(g[k - 1], s[k].doc)) >= cap
             /\ \A i \in 1 .. Len(r) : w[i] # k

(* The selection takes an element exactly where neither limit is reached. *)
LEMMA SelectionSelects ==
  ASSUME NEW T, NEW s \in Seq(T), NEW limit \in Nat, NEW cap \in Nat
  PROVE  /\ Selection(s, limit, cap) \in Seq(T)
         /\ \E w, g : /\ g \in [0 .. Len(s) -> Seq(T)]
                      /\ Selects(Selection(s, limit, cap), s, Len(s), limit, cap, w, g)
<1> DEFINE n == Len(s)
           V == Seq(T)
           r == Selection(s, limit, cap)
<1>1. n \in Nat /\ DOMAIN s = 1 .. n /\ <<>> \in V /\ \A i \in 1 .. n : s[i] \in T
  OBVIOUS
<1>2. \A a \in V, i \in 1 .. n : Capped(a, s[i], limit, cap) \in V
  BY <1>1 DEF Capped
<1>3. PICK g \in [0 .. n -> V] :
        /\ g[0] = <<>> /\ g[n] = r
        /\ \A k \in 1 .. n : g[k] = Capped(g[k - 1], s[k], limit, cap)
  <2>1. \E g \in [0 .. n -> V] : CappedSteps(g, s, n, limit, cap)
    <3> HIDE DEF V, n
    <3> QED BY <1>1, <1>2, CappedRun
  <2> HIDE DEF V, n
  <2> QED BY <2>1 DEF CappedSteps
<1> HIDE DEF r
<1> DEFINE Full(k) == \/ Len(g[k - 1]) = limit
                      \/ Cardinality(OfDocument(g[k - 1], s[k].doc)) >= cap
           taken == {k \in 1 .. n : ~Full(k)}
<1>4. Picks(g, s, taken)
  <2>1. \A k \in 1 .. n : g[k] = IF k \in taken THEN Append(g[k - 1], s[k]) ELSE g[k - 1]
    BY <1>3 DEF Capped
  <2> HIDE DEF taken
  <2> QED
    BY <1>3, <2>1 DEF Picks
<1>5. PICK w : PicksAt(g, s, taken, n, w)
  <2> HIDE DEF taken
  <2> QED BY <1>3, <1>4, PicksInOrder
<1>6. \A k \in 0 .. n : g[k] \in V /\ Len(g[k]) \in Nat
  BY <1>3
<1> DEFINE M == {k \in Nat : k <= n => Limited(g[k], limit, cap)}
<1>7. 0 \in M
  <2>1. \A doc : OfDocument(<<>>, doc) = {}
    BY DEF OfDocument
  <2>2. Cardinality({}) = 0
    BY FS_EmptySet
  <2>3. Limited(<<>>, limit, cap)
    <3>1. \A doc : Cardinality(OfDocument(<<>>, doc)) = 0
      BY <2>1, <2>2
    <3>2. Len(<<>>) <= limit
      OBVIOUS
    <3>3. \A doc : Cardinality(OfDocument(<<>>, doc)) <= cap
      <4>1. 0 <= cap
        OBVIOUS
      <4> QED BY <3>1, <4>1
    <3> QED
      BY <3>2, <3>3 DEF Limited
  <2>4. g[0] = <<>>
    BY <1>3
  <2> HIDE DEF V, n
  <2> QED
    BY <2>3, <2>4
<1>8. ASSUME NEW k \in Nat, k \in M PROVE k + 1 \in M
  <2> SUFFICES ASSUME k + 1 <= n PROVE Limited(g[k + 1], limit, cap)
    OBVIOUS
  <2>1. k + 1 \in 1 .. n /\ (k + 1) - 1 = k /\ k \in 0 .. n /\ Limited(g[k], limit, cap)
    BY <1>8
  <2>2. g[k + 1] = Capped(g[k], s[k + 1], limit, cap) /\ g[k] \in Seq(T) /\ s[k + 1] \in T
    BY <1>1, <1>3, <1>6, <2>1
  <2> QED
    BY <2>1, <2>2, CappedIsLimited
<1>9. \A k \in 0 .. n : Limited(g[k], limit, cap)
  <2>1. Nat \subseteq M
    <3> HIDE DEF M
    <3> QED BY <1>7, <1>8, SetInduction
  <2> QED
    BY <2>1
<1>10. /\ w \in [1 .. Len(r) -> 1 .. n] /\ \A i \in 1 .. Len(r) : w[i] \in taken
       /\ \A q \in taken : \E i \in 1 .. Len(r) : w[i] = q
       /\ \A i, j \in 1 .. Len(r) : i < j => w[i] < w[j]
       /\ \A i \in 1 .. Len(r) : r[i] = s[w[i]]
       /\ \A k \in 0 .. n :
            /\ Len(g[k]) <= Len(r)
            /\ \A i \in 1 .. Len(r) : i <= Len(g[k]) <=> w[i] <= k
            /\ \A i \in 1 .. Len(g[k]) : g[k][i] = r[i]
  <2>1. taken \cap (1 .. n) = taken
    OBVIOUS
  <2>2. taken \subseteq 1 .. n
    OBVIOUS
  <2> HIDE DEF taken
  <2> QED BY <1>3, <1>5, <2>1, <2>2 DEF PicksAt
<1>11. ASSUME NEW k \in 1 .. n
       PROVE  /\ Len(g[k - 1]) <= Len(r)
              /\ \A i \in 1 .. Len(r) : i <= Len(g[k - 1]) <=> w[i] < k
              /\ \A i \in 1 .. Len(g[k - 1]) : g[k - 1][i] = r[i]
              /\ \/ /\ Len(g[k - 1]) < limit
                    /\ Cardinality(OfDocument(g[k - 1], s[k].doc)) < cap
                    /\ \E i \in 1 .. Len(r) : w[i] = k
                 \/ /\ \/ Len(g[k - 1]) = limit
                       \/ Cardinality(OfDocument(g[k - 1], s[k].doc)) >= cap
                    /\ \A i \in 1 .. Len(r) : w[i] # k
  <2>1. k - 1 \in 0 .. n
    OBVIOUS
  <2>2. /\ g[k - 1] \in Seq(T) /\ Len(g[k - 1]) \in Nat /\ Len(g[k - 1]) <= limit
    BY <1>6, <1>9, <2>1 DEF Limited
  <2>3. Cardinality(OfDocument(g[k - 1], s[k].doc)) \in Nat
    BY <2>2, OfDocumentIn
  <2>4. CASE k \in taken
    <3>1. ~Full(k)
      BY <2>4
    <3>2. Len(g[k - 1]) < limit /\ Cardinality(OfDocument(g[k - 1], s[k].doc)) < cap
      BY <2>2, <2>3, <3>1
    <3>3. \A i \in 1 .. Len(r) : w[i] \in Nat /\ (w[i] <= k - 1 <=> w[i] < k)
      BY <1>10
    <3> HIDE DEF taken, Full
    <3> QED
      BY <1>10, <2>1, <2>4, <3>2, <3>3
  <2>5. CASE k \notin taken
    <3>1. Full(k)
      BY <2>5
    <3>3. \A i \in 1 .. Len(r) : w[i] \in Nat /\ (w[i] <= k - 1 <=> w[i] < k)
      BY <1>10
    <3>4. \A i \in 1 .. Len(r) : w[i] # k
      <4> HIDE DEF taken
      <4> QED BY <1>10, <2>5
    <3> HIDE DEF taken
    <3> QED
      BY <1>10, <2>1, <3>1, <3>3, <3>4
  <2> QED
    BY <2>4, <2>5
<1>12. r \in Seq(T) /\ Limited(r, limit, cap)
  <2>1. n \in 0 .. n
    BY <1>1
  <2> QED
    BY <1>3, <1>6, <1>9, <2>1
<1>13. Selects(r, s, n, limit, cap, w, g)
  <2> HIDE DEF taken
  <2> QED BY <1>10, <1>11, <1>12 DEF Selects
<1> QED
  BY <1>12, <1>13 DEF r

(* The selection r of fusion's input f respects the ranks of the legs. *)
RespectsRanks(r, f) ==
  LET legs == ToSet(f.semantic) \union ToSet(f.lexical)
      chunks == {c.chunk : c \in legs}
      Same(a) == {i \in 1 .. Len(r) : \E c \in legs : c.chunk = a /\ c.doc = r[i].doc}
  IN  /\ Cardinality({r[i].chunk : i \in 1 .. Len(r)}) = Len(r)
      /\ \A a, b \in chunks :
           /\ AboveIn(f.semantic, f.lexical, a, b) /\ Position(r, b) # 0
           /\ Cardinality({i \in Same(a) : i < Position(r, b)}) < f.cap
           => Position(r, a) \in 1 .. Position(r, b) - 1
      /\ \A a \in chunks :
           Position(r, a) # 0 \/ Len(r) = f.limit \/ Cardinality(Same(a)) = f.cap

(* Fusion respects the ranks: what goes first is considered first, and the caps *)
(* that leave a chunk out are full when it is considered.                       *)
LEMMA FusedByRanks ==
  ASSUME NEW f \in Fusions
  PROVE  RespectsRanks(Fuse(f.semantic, f.lexical, f.weights, f.limit, f.cap), f)
<1> DEFINE S == f.semantic
           L == f.lexical
           combined == Combined(S, L, f.weights)
           ranked == SortedBy(combined, FusionKeys(combined))
           n == Len(ranked)
           r == Fuse(S, L, f.weights, f.limit, f.cap)
           legs == ToSet(S) \union ToSet(L)
           Same(a) == {i \in 1 .. Len(r) : \E c \in legs : c.chunk = a /\ c.doc = r[i].doc}
<1>1. /\ ranked \in Seq(Scored) /\ Gathers(ranked, S, L)
      /\ \A i, j \in 1 .. n : AboveIn(S, L, ranked[i].chunk, ranked[j].chunk) => i < j
  BY RankedForFusion
<1>2. S \in Seq(Scored) /\ L \in Seq(Scored) /\ f.limit \in Nat /\ f.cap \in Nat
  BY FusionInput
<1>3. r = Selection(ranked, f.limit, f.cap)
  BY DEF Fuse, Selection
<1> HIDE DEF ranked, r, S, L
<1>4. /\ legs = {S[m] : m \in 1 .. Len(S)} \union {L[m] : m \in 1 .. Len(L)}
  BY <1>2 DEF ToSet
<1> HIDE DEF legs
<1>5. r \in Seq(Scored) /\ \E w, g : g \in [0 .. n -> Seq(Scored)]
                                      /\ Selects(r, ranked, n, f.limit, f.cap, w, g)
  BY <1>1, <1>2, <1>3, SelectionSelects
<1>6. PICK w, g : g \in [0 .. n -> Seq(Scored)] /\ Selects(r, ranked, n, f.limit, f.cap, w, g)
  BY <1>5
<1>7. Len(r) \in Nat /\ n \in Nat
  BY <1>1, <1>5
<1>8. ASSUME NEW a \in {c.chunk : c \in legs}
      PROVE  \E p \in 1 .. n : /\ ranked[p].chunk = a
                              /\ Same(a) = OfDocument(r, ranked[p].doc)
  <2>1. PICK x \in legs : x.chunk = a
    OBVIOUS
  <2>2. \A y \in legs : \A i \in 1 .. n : ranked[i].chunk = y.chunk => ranked[i].doc = y.doc
    BY <1>1, <1>4 DEF Gathers, HasAll
  <2>3. PICK p \in 1 .. n : ranked[p].chunk = a
    <3>1. CASE \E m \in 1 .. Len(S) : x = S[m]
      <4>1. PICK m \in 1 .. Len(S) : x = S[m]
        BY <3>1
      <4>2. HasAll(ranked, S)
        BY <1>1 DEF Gathers
      <4>3. \E i \in 1 .. n : ranked[i].chunk = S[m].chunk
        BY <4>2 DEF HasAll
      <4> QED
        BY <2>1, <4>1, <4>3
    <3>2. CASE \E m \in 1 .. Len(L) : x = L[m]
      <4>1. PICK m \in 1 .. Len(L) : x = L[m]
        BY <3>2
      <4>2. HasAll(ranked, L)
        BY <1>1 DEF Gathers
      <4>3. \E i \in 1 .. n : ranked[i].chunk = L[m].chunk
        BY <4>2 DEF HasAll
      <4> QED
        BY <2>1, <4>1, <4>3
    <3> QED
      BY <1>4, <3>1, <3>2
  <2>4. \A y \in legs : y.chunk = a => y.doc = ranked[p].doc
    BY <2>2, <2>3
  <2>5. \A d : (\E y \in legs : y.chunk = a /\ y.doc = d) <=> d = ranked[p].doc
    BY <2>1, <2>4
  <2>6. Same(a) = {i \in 1 .. Len(r) : r[i].doc = ranked[p].doc}
    BY <2>5
  <2> HIDE DEF Same
  <2> QED
    BY <2>3, <2>6 DEF OfDocument
<1> HIDE DEF Same
<1>9. \A i \in 1 .. Len(r) : w[i] \in 1 .. n /\ r[i] = ranked[w[i]]
  BY <1>6 DEF Selects
<1>10. EachChunkOnce(r)
  <2> SUFFICES ASSUME NEW i \in 1 .. Len(r), NEW j \in 1 .. Len(r), r[i].chunk = r[j].chunk
               PROVE  i = j
    BY DEF EachChunkOnce
  <2>1. w[i] = w[j]
    BY <1>1, <1>9 DEF Gathers, EachChunkOnce
  <2>2. ~(i < j) /\ ~(j < i)
    BY <1>6, <1>9, <2>1 DEF Selects
  <2> QED
    BY <1>7, <2>2
<1>11. Cardinality({r[i].chunk : i \in 1 .. Len(r)}) = Len(r)
  <2> DEFINE s == [i \in 1 .. Len(r) |-> r[i].chunk]
  <2>1. \A i \in 1 .. Len(r) : r[i].chunk \in STRING
    <3>1. \A i \in 1 .. Len(r) : r[i] \in Scored
      BY <1>5, ElementOf
    <3> QED
      BY <3>1 DEF Scored
  <2>2. s \in Seq(STRING) /\ Len(s) = Len(r) /\ DOMAIN s = 1 .. Len(r)
    BY <1>7, <2>1
  <2>3. \A i, j \in 1 .. Len(s) : s[i] = s[j] => i = j
    BY <1>10, <2>2 DEF EachChunkOnce
  <2>4. ToSet(s) = {r[i].chunk : i \in 1 .. Len(r)}
    BY <2>2 DEF ToSet
  <2> HIDE DEF s
  <2> QED
    BY <2>2, <2>3, <2>4, DistinctElements
<1>12. \A a : Position(r, a) # 0 => /\ Position(r, a) \in 1 .. Len(r)
                                   /\ r[Position(r, a)].chunk = a
  BY <1>7, PositionIn
<1>13. \A i \in 1 .. Len(r) : Position(r, r[i].chunk) = i
  BY <1>7, <1>10, PositionIn
<1>14. ASSUME NEW a \in {c.chunk : c \in legs}, NEW b \in {c.chunk : c \in legs},
              AboveIn(S, L, a, b), Position(r, b) # 0,
              Cardinality({i \in Same(a) : i < Position(r, b)}) < f.cap
       PROVE  Position(r, a) \in 1 .. Position(r, b) - 1
  <2> DEFINE t == Position(r, b)
             q == w[t]
  <2>1. t \in 1 .. Len(r) /\ r[t].chunk = b /\ q \in 1 .. n /\ ranked[q].chunk = b
    BY <1>9, <1>12, <1>14
  <2>2. PICK p \in 1 .. n : ranked[p].chunk = a /\ Same(a) = OfDocument(r, ranked[p].doc)
    BY <1>8
  <2>3. p < q
    BY <1>1, <1>14, <2>1, <2>2
  <2> HIDE DEF t, q
  <2>4. /\ Len(g[q - 1]) < f.limit
        /\ \A i \in 1 .. Len(r) : i <= Len(g[q - 1]) <=> w[i] < q
    <3>1. w[t] = q
      BY DEF q
    <3> QED
      BY <1>6, <2>1, <3>1 DEF Selects
  <2>5. /\ g[p - 1] \in Seq(Scored) /\ Len(g[p - 1]) \in Nat
        /\ g[q - 1] \in Seq(Scored) /\ Len(g[q - 1]) \in Nat
    <3>1. p - 1 \in 0 .. n /\ q - 1 \in 0 .. n
      BY <2>1, <2>2
    <3> QED
      BY <1>6, <3>1
  <2>6. /\ Len(g[p - 1]) <= Len(r)
        /\ \A i \in 1 .. Len(r) : i <= Len(g[p - 1]) <=> w[i] < p
        /\ \A i \in 1 .. Len(g[p - 1]) : g[p - 1][i] = r[i]
        /\ Len(g[q - 1]) <= Len(r)
    BY <1>6, <2>1, <2>2 DEF Selects
  <2>7. Len(g[q - 1]) < t
    <3>1. ~(t <= Len(g[q - 1]))
      BY <2>1, <2>4 DEF q
    <3> QED
      BY <1>7, <2>1, <2>5, <3>1
  <2>8. Len(g[p - 1]) <= Len(g[q - 1])
    <3>1. CASE Len(g[p - 1]) = 0
      BY <2>5, <3>1
    <3>2. CASE Len(g[p - 1]) # 0
      <4> DEFINE l == Len(g[p - 1])
      <4>1. l \in 1 .. Len(r) /\ l <= Len(g[p - 1])
        BY <1>7, <2>5, <2>6, <3>2
      <4>2. w[l] < p
        BY <2>6, <4>1
      <4>3. w[l] < q
        BY <1>9, <2>1, <2>2, <2>3, <4>1, <4>2
      <4> QED
        BY <2>4, <4>1, <4>3
    <3> QED
      BY <3>1, <3>2
  <2>9. Cardinality(OfDocument(g[p - 1], ranked[p].doc)) < f.cap
    <3> DEFINE U == {i \in Same(a) : i < t}
               W == OfDocument(g[p - 1], ranked[p].doc)
    <3>1. W \in SUBSET U
      <4> SUFFICES ASSUME NEW i \in 1 .. Len(g[p - 1]), g[p - 1][i].doc = ranked[p].doc
                   PROVE  i \in U
        BY DEF OfDocument
      <4>1. i \in 1 .. Len(r) /\ i < t /\ r[i].doc = ranked[p].doc
        BY <1>7, <2>1, <2>5, <2>6, <2>7, <2>8, SMTT(30)
      <4> QED
        BY <2>2, <4>1 DEF OfDocument
    <3>2. IsFiniteSet(U) /\ Cardinality(U) \in Nat
      <4>1. U \in SUBSET OfDocument(r, ranked[p].doc)
        BY <2>2
      <4>2. IsFiniteSet(OfDocument(r, ranked[p].doc))
        BY <1>5, OfDocumentIn
      <4> HIDE DEF U
      <4> QED BY <4>1, <4>2, FS_Subset, FS_CardinalityType
    <3>3. Cardinality(U) < f.cap
      BY <1>14 DEF t
    <3>4. Cardinality(W) \in Nat /\ Cardinality(W) <= Cardinality(U)
      <4>1. Cardinality(W) \in Nat
        BY <2>5, OfDocumentIn
      <4> HIDE DEF U, W
      <4> QED BY <3>1, <3>2, <4>1, FS_Subset
    <3> HIDE DEF U, W
    <3>5. Cardinality(W) < f.cap
      BY <1>2, <3>2, <3>3, <3>4
    <3> QED
      BY <3>5 DEF W
  <2>10. \E i \in 1 .. Len(r) : w[i] = p
    <3>1. ~(Len(g[p - 1]) = f.limit)
      BY <1>2, <2>4, <2>5, <2>8
    <3>2. ~(Cardinality(OfDocument(g[p - 1], ranked[p].doc)) >= f.cap)
      <4>1. Cardinality(OfDocument(g[p - 1], ranked[p].doc)) \in Nat
        BY <2>5, OfDocumentIn
      <4> QED
        BY <1>2, <2>9, <4>1
    <3> QED
      BY <1>6, <2>2, <3>1, <3>2 DEF Selects
  <2>11. PICK i \in 1 .. Len(r) : w[i] = p
    BY <2>10
  <2>12. i < t
    <3>1. ~(t < i) /\ t # i
      <4>1. w[i] < w[t] /\ w[i] \in Nat /\ w[t] \in Nat
        BY <1>9, <2>1, <2>3, <2>11 DEF q
      <4> QED
        BY <1>6, <2>1, <4>1, SMTT(30) DEF Selects
    <3> QED
      BY <1>7, <2>1, <3>1
  <2>13. Position(r, a) = i
    BY <1>9, <1>13, <2>2, <2>11
  <2> QED
    BY <1>7, <2>1, <2>12, <2>13 DEF t
<1>15. ASSUME NEW a \in {c.chunk : c \in legs}
       PROVE  Position(r, a) # 0 \/ Len(r) = f.limit \/ Cardinality(Same(a)) = f.cap
  <2>1. PICK p \in 1 .. n : ranked[p].chunk = a /\ Same(a) = OfDocument(r, ranked[p].doc)
    BY <1>8
  <2>2. /\ Limited(r, f.limit, f.cap) /\ Len(g[p - 1]) <= Len(r)
        /\ \A i \in 1 .. Len(g[p - 1]) : g[p - 1][i] = r[i]
        /\ \/ \E i \in 1 .. Len(r) : w[i] = p
           \/ Len(g[p - 1]) = f.limit
           \/ Cardinality(OfDocument(g[p - 1], ranked[p].doc)) >= f.cap
    BY <1>6 DEF Selects
  <2>3. g[p - 1] \in Seq(Scored) /\ Len(g[p - 1]) \in Nat
    <3>1. p - 1 \in 0 .. n
      OBVIOUS
    <3> QED
      BY <1>6, <3>1
  <2>4. CASE \E i \in 1 .. Len(r) : w[i] = p
    <3>1. PICK i \in 1 .. Len(r) : w[i] = p
      BY <2>4
    <3>2. Position(r, a) = i
      BY <1>9, <1>13, <2>1, <3>1
    <3> QED
      BY <3>2
  <2>5. CASE Len(g[p - 1]) = f.limit
    BY <1>2, <1>7, <2>2, <2>5 DEF Limited
  <2>6. CASE Cardinality(OfDocument(g[p - 1], ranked[p].doc)) >= f.cap
    <3> DEFINE U == OfDocument(r, ranked[p].doc)
               W == OfDocument(g[p - 1], ranked[p].doc)
    <3>1. W \in SUBSET U
      <4> SUFFICES ASSUME NEW i \in 1 .. Len(g[p - 1]), g[p - 1][i].doc = ranked[p].doc
                   PROVE  i \in U
        BY DEF OfDocument
      <4>1. i \in 1 .. Len(r) /\ r[i].doc = ranked[p].doc
        BY <1>7, <2>2, <2>3
      <4> QED
        BY <4>1 DEF OfDocument
    <3>2. IsFiniteSet(U) /\ Cardinality(U) \in Nat /\ Cardinality(W) \in Nat
      BY <1>5, <2>3, OfDocumentIn
    <3>3. Cardinality(W) <= Cardinality(U)
      <4> HIDE DEF U, W
      <4> QED BY <3>1, <3>2, FS_Subset
    <3>4. Cardinality(U) <= f.cap
      BY <2>2 DEF Limited
    <3>5. Cardinality(W) >= f.cap
      BY <2>6
    <3> HIDE DEF U, W
    <3>6. Cardinality(U) = f.cap
      BY <1>2, <3>2, <3>3, <3>4, <3>5
    <3> QED
      BY <2>1, <3>6 DEF U
  <2> QED
    BY <2>2, <2>4, <2>5, <2>6
<1> QED
  BY <1>11, <1>14, <1>15 DEF RespectsRanks, S, L, r, legs, Same

-----------------------------------------------------------------------------
(* The suppression of duplicates.                                          *)

(* The suppression of duplicates, and what it remembers. *)
NothingSifted == [hashes |-> {}, retained |-> <<>>]

Sifting(s) == FoldLeft(Sifted, NothingSifted, s)

(* The rounds of the diversity selection. *)
Spreading(s, start, penalty) ==
  LET Step(acc, round) == DiversityRound(acc, penalty)
  IN  FoldLeft(Step, start, s)

SiftedSteps(g, s, n) ==
  /\ g[0] = NothingSifted /\ g[n] = Sifting(s)
  /\ \A k \in 1 .. n : g[k] = Sifted(g[k - 1], s[k])

(* The suppression after each of the candidates. *)
LEMMA SiftedRun ==
  ASSUME NEW V, NEW s, NEW n \in Nat, DOMAIN s = 1 .. n, NothingSifted \in V,
         \A a \in V, i \in 1 .. n : Sifted(a, s[i]) \in V
  PROVE  \E g \in [0 .. n -> V] : SiftedSteps(g, s, n)
<1> DEFINE Eq(iter) == iter = [t \in SUBSET (1 .. n) |->
                          IF t = {} THEN NothingSifted
                          ELSE Sifted(iter[t \ {Max(t)}], s[Max(t)])]
           step == [p \in (1 .. n) \X V |-> Sifted(p[2], s[p[1]])]
<1>1. step \in [(1 .. n) \X V -> V]
  OBVIOUS
<1>2. \A i \in 1 .. n, a \in V : step[<<i, a>>] = Sifted(a, s[i])
  OBVIOUS
<1>3. PICK f \in [SUBSET (1 .. n) -> V] : LeftFold(f, n, NothingSifted, step)
  <2> HIDE DEF step
  <2> QED BY <1>1, LeftFoldExists
<1>4. Eq(f)
  <2>1. ASSUME NEW t \in SUBSET (1 .. n)
        PROVE  f[t] = IF t = {} THEN NothingSifted
                      ELSE Sifted(f[t \ {Max(t)}], s[Max(t)])
    <3>1. CASE t = {}
      BY <1>3, <3>1 DEF LeftFold
    <3>2. CASE t # {}
      <4>1. f[t] = step[<<Max(t), f[t \ {Max(t)}]>>]
        <5> HIDE DEF step
        <5> QED BY <1>3, <3>2 DEF LeftFold
      <4>2. Max(t) \in 1 .. n /\ f[t \ {Max(t)}] \in V
        <5>1. Max(t) \in t
          BY <3>2, MaxIn
        <5> QED
          BY <1>3, <5>1
      <4> HIDE DEF step
      <4> QED BY <1>2, <3>2, <4>1, <4>2
    <3> QED
      BY <3>1, <3>2
  <2>2. f = [t \in SUBSET (1 .. n) |-> f[t]]
    BY <1>3
  <2> QED
    BY <2>1, <2>2
<1> DEFINE c == CHOOSE iter : Eq(iter)
<1>5. Sifting(s) = c[1 .. n]
  <2>1. Sifting(s) = (CHOOSE iter : iter = [t \in SUBSET DOMAIN s |->
                IF t = {} THEN NothingSifted
                ELSE Sifted(iter[t \ {Max(t)}], s[Max(t)])])[DOMAIN s]
    BY DEF FoldLeft, MapThenFoldSet, Sifting
  <2> QED
    BY <2>1
<1>6. Eq(c)
  <2> HIDE DEF Eq
  <2> QED BY <1>4
<1> HIDE DEF c
<1>7. /\ c[{}] = NothingSifted
      /\ \A t \in SUBSET (1 .. n) : t # {} => c[t] = Sifted(c[t \ {Max(t)}], s[Max(t)])
  BY <1>6
<1>8. \A t \in SUBSET (1 .. n) :
        t # {} /\ c[t \ {Max(t)}] \in V => c[t] = step[<<Max(t), c[t \ {Max(t)}]>>]
  <2> SUFFICES ASSUME NEW t \in SUBSET (1 .. n), t # {}, c[t \ {Max(t)}] \in V
               PROVE  c[t] = step[<<Max(t), c[t \ {Max(t)}]>>]
    OBVIOUS
  <2>1. Max(t) \in 1 .. n
    BY MaxIn
  <2> HIDE DEF Eq, step
  <2> QED
    BY <1>2, <1>7, <2>1
<1>9. PICK g \in [0 .. n -> V] : RunOf(g, c, n, NothingSifted, step)
  <2>1. Follows(c, n, V, NothingSifted, step)
    BY <1>7, <1>8 DEF Follows
  <2> HIDE DEF Eq, step
  <2> QED BY <1>1, <2>1, PrefixRun
<1>10. \A k \in 1 .. n : g[k] = Sifted(g[k - 1], s[k])
  <2>1. \A k \in 1 .. n : k - 1 \in 0 .. n
    OBVIOUS
  <2> HIDE DEF Eq, step
  <2> QED BY <1>2, <1>9, <2>1 DEF RunOf
<1> HIDE DEF Eq, step
<1> QED
  BY <1>5, <1>9, <1>10 DEF RunOf, SiftedSteps

SpreadSteps(g, s, n, start, penalty) ==
  /\ g[0] = start /\ g[n] = Spreading(s, start, penalty)
  /\ \A k \in 1 .. n : g[k] = DiversityRound(g[k - 1], penalty)

(* The diversity selection after each round. *)
LEMMA SpreadRun ==
  ASSUME NEW V, NEW s, NEW n \in Nat, DOMAIN s = 1 .. n, NEW start, NEW penalty, start \in V,
         \A a \in V, i \in 1 .. n : DiversityRound(a, penalty) \in V
  PROVE  \E g \in [0 .. n -> V] : SpreadSteps(g, s, n, start, penalty)
<1> DEFINE Eq(iter) == iter = [t \in SUBSET (1 .. n) |->
                          IF t = {} THEN start
                          ELSE DiversityRound(iter[t \ {Max(t)}], penalty)]
           step == [p \in (1 .. n) \X V |-> DiversityRound(p[2], penalty)]
<1>1. step \in [(1 .. n) \X V -> V]
  OBVIOUS
<1>2. \A i \in 1 .. n, a \in V : step[<<i, a>>] = DiversityRound(a, penalty)
  OBVIOUS
<1>3. PICK f \in [SUBSET (1 .. n) -> V] : LeftFold(f, n, start, step)
  <2> HIDE DEF step
  <2> QED BY <1>1, LeftFoldExists
<1>4. Eq(f)
  <2>1. ASSUME NEW t \in SUBSET (1 .. n)
        PROVE  f[t] = IF t = {} THEN start
                      ELSE DiversityRound(f[t \ {Max(t)}], penalty)
    <3>1. CASE t = {}
      BY <1>3, <3>1 DEF LeftFold
    <3>2. CASE t # {}
      <4>1. f[t] = step[<<Max(t), f[t \ {Max(t)}]>>]
        <5> HIDE DEF step
        <5> QED BY <1>3, <3>2 DEF LeftFold
      <4>2. Max(t) \in 1 .. n /\ f[t \ {Max(t)}] \in V
        <5>1. Max(t) \in t
          BY <3>2, MaxIn
        <5> QED
          BY <1>3, <5>1
      <4> HIDE DEF step
      <4> QED BY <1>2, <3>2, <4>1, <4>2
    <3> QED
      BY <3>1, <3>2
  <2>2. f = [t \in SUBSET (1 .. n) |-> f[t]]
    BY <1>3
  <2> QED
    BY <2>1, <2>2
<1> DEFINE c == CHOOSE iter : Eq(iter)
<1>5. Spreading(s, start, penalty) = c[1 .. n]
  <2>1. Spreading(s, start, penalty) = (CHOOSE iter : iter = [t \in SUBSET DOMAIN s |->
                IF t = {} THEN start
                ELSE DiversityRound(iter[t \ {Max(t)}], penalty)])[DOMAIN s]
    BY DEF FoldLeft, MapThenFoldSet, Spreading
  <2> QED
    BY <2>1
<1>6. Eq(c)
  <2> HIDE DEF Eq
  <2> QED BY <1>4
<1> HIDE DEF c
<1>7. /\ c[{}] = start
      /\ \A t \in SUBSET (1 .. n) : t # {} => c[t] = DiversityRound(c[t \ {Max(t)}], penalty)
  BY <1>6
<1>8. \A t \in SUBSET (1 .. n) :
        t # {} /\ c[t \ {Max(t)}] \in V => c[t] = step[<<Max(t), c[t \ {Max(t)}]>>]
  <2> SUFFICES ASSUME NEW t \in SUBSET (1 .. n), t # {}, c[t \ {Max(t)}] \in V
               PROVE  c[t] = step[<<Max(t), c[t \ {Max(t)}]>>]
    OBVIOUS
  <2>1. Max(t) \in 1 .. n
    BY MaxIn
  <2> HIDE DEF Eq, step
  <2> QED
    BY <1>2, <1>7, <2>1
<1>9. PICK g \in [0 .. n -> V] : RunOf(g, c, n, start, step)
  <2>1. Follows(c, n, V, start, step)
    BY <1>7, <1>8 DEF Follows
  <2> HIDE DEF Eq, step
  <2> QED BY <1>1, <2>1, PrefixRun
<1>10. \A k \in 1 .. n : g[k] = DiversityRound(g[k - 1], penalty)
  <2>1. \A k \in 1 .. n : k - 1 \in 0 .. n
    OBVIOUS
  <2>2. \A k \in 1 .. n : g[k] = step[<<k, g[k - 1]>>] /\ g[k - 1] \in V
    <3> HIDE DEF Eq, step
    <3> QED BY <1>9, <2>1 DEF RunOf
  <2> HIDE DEF Eq, step
  <2> QED BY <1>2, <2>2
<1> HIDE DEF Eq, step
<1> QED
  BY <1>5, <1>9, <1>10 DEF RunOf, SpreadSteps

(* What the suppression knows after k candidates: the hashes are of candidates *)
(* it has seen, and of those it retained every hash is among them.             *)
Remembers(acc, s, k) ==
  /\ acc.hashes \subseteq {s[m] : m \in 1 .. k}
  /\ \A i \in 1 .. Len(acc.retained) :
        acc.retained[i].hash # None => acc.retained[i] \in acc.hashes
  /\ \A i \in 1 .. Len(acc.retained) : acc.retained[i] \in {s[m] : m \in 1 .. k}

(* A candidate is known by its hash, or overlaps one that was retained. *)
Known(acc, x) == x.hash # None /\ \E h \in acc.hashes : SameText(x, h)

Overlaps(acc, x) == \E i \in 1 .. Len(acc.retained) : HighlyOverlapping(x, acc.retained[i])

(* What a candidate changes in what the suppression has retained. *)
LEMMA SiftedRetains ==
  ASSUME NEW acc, NEW x,
         acc = [hashes |-> acc.hashes, retained |-> acc.retained]
  PROVE  /\ Sifted(acc, x) = [hashes |-> Sifted(acc, x).hashes,
                             retained |-> Sifted(acc, x).retained]
         /\ Sifted(acc, x).retained
              = IF ~Known(acc, x) /\ ~Overlaps(acc, x) THEN Append(acc.retained, x)
                ELSE acc.retained
         /\ Sifted(acc, x).hashes
              = IF Known(acc, x) \/ x.hash = None THEN acc.hashes
                ELSE acc.hashes \union {x}
<1> DEFINE hashes == IF x.hash = None THEN acc.hashes ELSE acc.hashes \union {x}
<1>1. Sifted(acc, x) = IF Known(acc, x) THEN acc
                       ELSE IF Overlaps(acc, x) THEN [acc EXCEPT !.hashes = hashes]
                       ELSE [hashes |-> hashes, retained |-> Append(acc.retained, x)]
  BY DEF Sifted, Known, Overlaps
<1>2. CASE Known(acc, x)
  BY <1>1, <1>2
<1>3. CASE ~Known(acc, x) /\ Overlaps(acc, x)
  <2>1. [acc EXCEPT !.hashes = hashes] = [hashes |-> hashes, retained |-> acc.retained]
    <3> HIDE DEF hashes
    <3>1. \A u, v : [[hashes |-> u, retained |-> v] EXCEPT !.hashes = hashes]
                      = [hashes |-> hashes, retained |-> v]
      OBVIOUS
    <3> QED
      BY <3>1
  <2> QED
    BY <1>1, <1>3, <2>1
<1>4. CASE ~Known(acc, x) /\ ~Overlaps(acc, x)
  BY <1>1, <1>4
<1> QED
  BY <1>2, <1>3, <1>4

(* One candidate more is remembered. *)
LEMMA SiftedRemembers ==
  ASSUME NEW T, NEW s, NEW k \in Nat, NEW acc, acc.retained \in Seq(T), s[k + 1] \in T,
         acc = [hashes |-> acc.hashes, retained |-> acc.retained], Remembers(acc, s, k)
  PROVE  Remembers(Sifted(acc, s[k + 1]), s, k + 1)
<1> DEFINE x == s[k + 1]
           new == Sifted(acc, x)
           l == Len(acc.retained)
<1>1. /\ new.retained = (IF ~Known(acc, x) /\ ~Overlaps(acc, x) THEN Append(acc.retained, x)
                         ELSE acc.retained)
      /\ new.hashes = (IF Known(acc, x) \/ x.hash = None THEN acc.hashes
                       ELSE acc.hashes \union {x})
  BY SiftedRetains
<1>2. x \in {s[m] : m \in 1 .. k + 1}
  OBVIOUS
<1>3. {s[m] : m \in 1 .. k} \subseteq {s[m] : m \in 1 .. k + 1}
  OBVIOUS
<1>4. l \in Nat /\ Len(Append(acc.retained, x)) = l + 1 /\ Append(acc.retained, x)[l + 1] = x
      /\ \A i \in 1 .. l : Append(acc.retained, x)[i] = acc.retained[i]
  OBVIOUS
<1> HIDE DEF x, new
<1>5. new.hashes \subseteq {s[m] : m \in 1 .. k + 1}
  BY <1>1, <1>2, <1>3 DEF Remembers
<1>6. acc.hashes \subseteq new.hashes
  BY <1>1
<1>7. CASE new.retained = acc.retained
  BY <1>3, <1>5, <1>6, <1>7 DEF Remembers, new, x
<1>8. CASE new.retained # acc.retained
  <2>1. /\ new.retained = Append(acc.retained, x) /\ ~Known(acc, x)
        /\ x.hash # None => x \in new.hashes
    BY <1>1, <1>8
  <2>2. Len(new.retained) = l + 1
    BY <1>4, <2>1
  <2>3. \A i \in 1 .. l + 1 : i \in 1 .. l \/ i = l + 1
    BY <1>4
  <2>4. ASSUME NEW i \in 1 .. l + 1
        PROVE  /\ new.retained[i].hash # None => new.retained[i] \in new.hashes
               /\ new.retained[i] \in {s[m] : m \in 1 .. k + 1}
    <3>1. CASE i \in 1 .. l
      <4>1. new.retained[i] = acc.retained[i]
        BY <1>4, <2>1, <3>1
      <4>2. /\ acc.retained[i].hash # None => acc.retained[i] \in acc.hashes
            /\ acc.retained[i] \in {s[m] : m \in 1 .. k}
        BY <3>1 DEF Remembers
      <4> QED
        BY <1>3, <1>6, <4>1, <4>2
    <3>2. CASE i = l + 1
      BY <1>2, <1>4, <2>1, <3>2
    <3> QED
      BY <2>3, <3>1, <3>2
  <2> QED
    BY <1>5, <2>2, <2>4 DEF Remembers, new, x
<1> QED
  BY <1>7, <1>8

(* What the suppression retains: the candidates at the places w, in order; none *)
(* says what another of its Document says, and whoever is not retained repeats  *)
(* or overlaps one before it.                                                   *)
Distinct(r, s, w) ==
  /\ w \in [1 .. Len(r) -> 1 .. Len(s)]
  /\ \A i, j \in 1 .. Len(r) : i < j => w[i] < w[j]
  /\ \A i \in 1 .. Len(r) : r[i] = s[w[i]]
  /\ \A i, j \in 1 .. Len(r) : i < j => ~SameText(r[j], r[i])
  /\ \A k \in 1 .. Len(s) :
        \/ \E i \in 1 .. Len(r) : w[i] = k
        \/ \E m \in 1 .. k - 1 : SameText(s[k], s[m]) \/ HighlyOverlapping(s[k], s[m])

(* The suppression retains what is distinct: its fold read off at each prefix. *)
LEMMA SuppressionIsDistinct ==
  ASSUME NEW T, NEW s \in Seq(T)
  PROVE  /\ SuppressDuplicates(s) \in Seq(T)
         /\ \E w : Distinct(SuppressDuplicates(s), s, w)
<1> DEFINE n == Len(s)
           V == [hashes : SUBSET T, retained : Seq(T)]
           r == SuppressDuplicates(s)
<1>1. n \in Nat /\ DOMAIN s = 1 .. n /\ NothingSifted \in V /\ \A i \in 1 .. n : s[i] \in T
  <2>1. {} \in SUBSET T /\ <<>> \in Seq(T)
    OBVIOUS
  <2> QED
    BY <2>1, ElementOf DEF NothingSifted
<1>2. \A a \in V, i \in 1 .. n : Sifted(a, s[i]) \in V
  <2> SUFFICES ASSUME NEW a \in V, NEW i \in 1 .. n PROVE Sifted(a, s[i]) \in V
    OBVIOUS
  <2> DEFINE b == Sifted(a, s[i])
  <2>1. /\ b = [hashes |-> b.hashes, retained |-> b.retained]
        /\ b.retained \in {a.retained, Append(a.retained, s[i])}
        /\ b.hashes \in {a.hashes, a.hashes \union {s[i]}}
    BY SiftedRetains
  <2>2. a.retained \in Seq(T) /\ Append(a.retained, s[i]) \in Seq(T)
    BY <1>1
  <2>3. b.hashes \in SUBSET T /\ b.retained \in Seq(T)
    BY <1>1, <2>1, <2>2
  <2> HIDE DEF b
  <2>4. b \in V
    BY <2>1, <2>3
  <2> QED
    BY <2>4 DEF b
<1>3. PICK g \in [0 .. n -> V] : SiftedSteps(g, s, n)
  <2> HIDE DEF V, n
  <2> QED BY <1>1, <1>2, SiftedRun
<1>4. /\ g[0] = NothingSifted /\ g[n].retained = r
      /\ \A k \in 1 .. n : g[k] = Sifted(g[k - 1], s[k])
  BY <1>3 DEF SiftedSteps, Sifting, SuppressDuplicates, NothingSifted
<1> HIDE DEF r
<1>5. \A k \in 0 .. n : /\ g[k] = [hashes |-> g[k].hashes, retained |-> g[k].retained]
                        /\ g[k].retained \in Seq(T)
  <2>1. \A k \in 0 .. n : g[k] \in V
    OBVIOUS
  <2> QED
    BY <2>1
<1> DEFINE picked == [k \in 0 .. n |-> g[k].retained]
           taken == {k \in 1 .. n : ~Known(g[k - 1], s[k]) /\ ~Overlaps(g[k - 1], s[k])}
           M == {k \in Nat : k <= n => Remembers(g[k], s, k)}
<1>6. picked \in [0 .. n -> Seq(T)] /\ \A k \in 0 .. n : picked[k] = g[k].retained
  BY <1>5
<1>7. \A k \in 1 .. n : k - 1 \in 0 .. n /\ k \in 0 .. n
  OBVIOUS
<1>8. Picks(picked, s, taken)
  <2>1. picked[0] = <<>>
    BY <1>1, <1>4, <1>6 DEF NothingSifted
  <2>2. ASSUME NEW k \in 1 .. n
        PROVE  picked[k] = IF k \in taken THEN Append(picked[k - 1], s[k]) ELSE picked[k - 1]
    <3>1. /\ g[k] = Sifted(g[k - 1], s[k])
          /\ picked[k] = g[k].retained /\ picked[k - 1] = g[k - 1].retained
      BY <1>4, <1>6, <1>7
    <3>2. Sifted(g[k - 1], s[k]).retained
             = IF ~Known(g[k - 1], s[k]) /\ ~Overlaps(g[k - 1], s[k])
                 THEN Append(g[k - 1].retained, s[k]) ELSE g[k - 1].retained
      BY <1>5, <1>7, SiftedRetains
    <3>3. k \in taken <=> (~Known(g[k - 1], s[k]) /\ ~Overlaps(g[k - 1], s[k]))
      OBVIOUS
    <3> HIDE DEF taken, picked
    <3> QED
      BY <3>1, <3>2, <3>3
  <2> HIDE DEF taken, picked
  <2> QED
    BY <2>1, <2>2 DEF Picks
<1>9. PICK w : PicksAt(picked, s, taken, n, w)
  <2> HIDE DEF taken, picked
  <2> QED BY <1>6, <1>8, PicksInOrder
<1>10. \A k \in 0 .. n : Remembers(g[k], s, k)
  <2>1. 0 \in M
    <3>1. Remembers(g[0], s, 0)
      BY <1>4, 1 .. 0 = {} DEF Remembers, NothingSifted
    <3> QED
      BY <3>1
  <2>2. ASSUME NEW k \in Nat, k \in M PROVE k + 1 \in M
    <3> SUFFICES ASSUME k + 1 <= n PROVE Remembers(g[k + 1], s, k + 1)
      OBVIOUS
    <3>1. k + 1 \in 1 .. n /\ (k + 1) - 1 = k /\ k \in 0 .. n /\ Remembers(g[k], s, k)
      BY <2>2
    <3>2. g[k + 1] = Sifted(g[k], s[k + 1])
      BY <1>4, <3>1
    <3> QED
      BY <1>1, <1>5, <3>1, <3>2, SiftedRemembers
  <2>3. Nat \subseteq M
    <3> HIDE DEF M
    <3> QED BY <2>1, <2>2, SetInduction
  <2> QED
    BY <2>3
<1>11. picked[n] = r /\ taken \cap (1 .. n) = taken /\ r \in Seq(T)
  BY <1>1, <1>4, <1>5, <1>6
<1>12. /\ w \in [1 .. Len(r) -> 1 .. n] /\ \A i \in 1 .. Len(r) : w[i] \in taken
       /\ \A q \in taken : \E i \in 1 .. Len(r) : w[i] = q
       /\ \A i, j \in 1 .. Len(r) : i < j => w[i] < w[j]
       /\ \A i \in 1 .. Len(r) : r[i] = s[w[i]]
       /\ \A k \in 0 .. n :
            /\ \A i \in 1 .. Len(r) : i <= Len(picked[k]) <=> w[i] <= k
            /\ \A i \in 1 .. Len(picked[k]) : picked[k][i] = r[i]
  <2>1. taken \subseteq 1 .. n
    OBVIOUS
  <2> HIDE DEF taken, picked
  <2> QED BY <1>9, <1>11, <2>1 DEF PicksAt
<1>13. ASSUME NEW i \in 1 .. Len(r), NEW j \in 1 .. Len(r), i < j
       PROVE  ~SameText(r[j], r[i])
  <2> DEFINE k == w[j]
             x == s[k]
  <2>1. k \in 1 .. n /\ k \in taken /\ w[i] \in 1 .. n /\ w[i] < k /\ r[j] = x
    <3> HIDE DEF taken, picked
    <3> QED BY <1>12, <1>13
  <2>2. ~Known(g[k - 1], x)
    BY <2>1
  <2> HIDE DEF taken, picked, x, k
  <2>3. k - 1 \in 0 .. n /\ w[i] <= k - 1
    BY <2>1
  <2>4. i <= Len(picked[k - 1]) /\ picked[k - 1] = g[k - 1].retained
    BY <1>6, <1>12, <2>3
  <2>5. g[k - 1].retained[i] = r[i] /\ i \in 1 .. Len(g[k - 1].retained)
    <3>1. Len(picked[k - 1]) \in Nat
      BY <1>6, <2>3
    <3>2. i \in 1 .. Len(picked[k - 1])
      BY <2>4, <3>1
    <3> QED
      BY <1>12, <2>3, <2>4, <3>2
  <2>6. r[i].hash # None => r[i] \in g[k - 1].hashes
    BY <1>10, <2>3, <2>5 DEF Remembers
  <2> QED
    BY <2>1, <2>2, <2>6 DEF Known, SameText
<1>14. ASSUME NEW k \in 1 .. n, k \notin taken
       PROVE  \E m \in 1 .. k - 1 : SameText(s[k], s[m]) \/ HighlyOverlapping(s[k], s[m])
  <2>1. Known(g[k - 1], s[k]) \/ Overlaps(g[k - 1], s[k])
    BY <1>14
  <2>2. Remembers(g[k - 1], s, k - 1)
    BY <1>7, <1>10
  <2>3. CASE Known(g[k - 1], s[k])
    BY <2>2, <2>3 DEF Known, Remembers
  <2>4. CASE Overlaps(g[k - 1], s[k])
    BY <2>2, <2>4 DEF Overlaps, Remembers
  <2> QED
    BY <2>1, <2>3, <2>4
<1>15. Distinct(r, s, w)
  <2>1. \A k \in 1 .. n :
          \/ \E i \in 1 .. Len(r) : w[i] = k
          \/ \E m \in 1 .. k - 1 : SameText(s[k], s[m]) \/ HighlyOverlapping(s[k], s[m])
    <3> HIDE DEF taken, picked
    <3> QED BY <1>12, <1>14
  <2> HIDE DEF taken, picked
  <2> QED
    BY <1>11, <1>12, <1>13, <2>1 DEF Distinct
<1> QED
  BY <1>11, <1>15 DEF r

-----------------------------------------------------------------------------
(* The diversity selection.                                                *)

(* The first of n places that none of them beats. *)
FirstBest(beats, n, i) ==
  /\ \A j \in 1 .. n : <<j, i>> \notin beats
  /\ \A j \in 1 .. i - 1 : <<i, j>> \in beats

(* Where what is beaten by one is beaten by whatever that one does not beat,   *)
(* there is a first among the best.                                            *)
LEMMA FirstBestExists ==
  ASSUME NEW n \in Nat \ {0}, NEW beats,
         \A i \in 1 .. n : <<i, i>> \notin beats,
         \A i, j, k \in 1 .. n :
            <<j, i>> \notin beats /\ <<k, i>> \in beats => <<k, j>> \in beats /\ <<j, k>> \notin beats
  PROVE  \E i \in 1 .. n : FirstBest(beats, n, i)
<1> DEFINE M == {m \in Nat : m + 1 <= n => \E i \in 1 .. m + 1 : FirstBest(beats, m + 1, i)}
<1>1. 0 \in M
  <2>1. 1 .. 1 = {1} /\ 1 .. 0 = {}
    OBVIOUS
  <2>2. FirstBest(beats, 1, 1)
    BY <2>1 DEF FirstBest
  <2> QED
    BY <2>2
<1>2. ASSUME NEW m \in Nat, m \in M PROVE m + 1 \in M
  <2> SUFFICES ASSUME (m + 1) + 1 <= n
               PROVE  \E i \in 1 .. (m + 1) + 1 : FirstBest(beats, (m + 1) + 1, i)
    OBVIOUS
  <2> DEFINE k == (m + 1) + 1
  <2>1. PICK i \in 1 .. m + 1 : FirstBest(beats, m + 1, i)
    BY <1>2
  <2>2. i \in 1 .. k /\ i \in 1 .. n /\ k \in 1 .. k /\ k \in 1 .. n
        /\ \A j \in 1 .. k : j \in 1 .. m + 1 \/ j = k
    OBVIOUS
  <2>3. CASE <<k, i>> \notin beats
    <3>1. FirstBest(beats, k, i)
      <4> HIDE DEF k
      <4> QED BY <2>1, <2>2, <2>3 DEF FirstBest
    <3> QED
      BY <2>2, <3>1
  <2>4. CASE <<k, i>> \in beats
    <3>1. ASSUME NEW j \in 1 .. m + 1 PROVE <<k, j>> \in beats /\ <<j, k>> \notin beats
      <4>1. <<j, i>> \notin beats /\ j \in 1 .. n
        BY <2>1 DEF FirstBest
      <4> HIDE DEF k
      <4> QED BY <2>2, <2>4, <4>1
    <3>2. \A j \in 1 .. k - 1 : j \in 1 .. m + 1
      OBVIOUS
    <3>3. FirstBest(beats, k, k)
      <4> HIDE DEF k
      <4> QED BY <2>2, <3>1, <3>2 DEF FirstBest
    <3> QED
      BY <2>2, <3>3
  <2> QED
    BY <2>3, <2>4
<1>3. Nat \subseteq M
  <2> HIDE DEF M
  <2> QED BY <1>1, <1>2, SetInduction
<1>4. n - 1 \in Nat /\ (n - 1) + 1 = n
  OBVIOUS
<1> QED
  BY <1>3, <1>4

(* Quotients compared across: a / p <= b / q < c / r. *)
LEMMA CrossOrder ==
  ASSUME NEW a \in Int, NEW b \in Int, NEW c \in Int,
         NEW p \in Nat \ {0}, NEW q \in Nat \ {0}, NEW r \in Nat \ {0},
         a * q <= b * p, c * q > b * r
  PROVE  c * p > a * r
<1>1. (a * q) * r <= (b * p) * r
  <2>1. \A u, v \in Int, t \in Nat : u <= v => u * t <= v * t
    OBVIOUS
  <2> QED
    BY <2>1
<1>2. (c * q) * p > (b * r) * p
  <2>1. \A u, v \in Int, t \in Nat \ {0} : u > v => u * t > v * t
    OBVIOUS
  <2> QED
    BY <2>1
<1>3. (a * q) * r = (a * r) * q /\ (b * p) * r = (b * r) * p /\ (c * q) * p = (c * p) * q
  OBVIOUS
<1>4. (a * r) * q < (c * p) * q
  <2>1. (a * r) * q \in Int /\ (c * p) * q \in Int /\ (b * r) * p \in Int
    OBVIOUS
  <2> QED
    BY <1>1, <1>2, <1>3, <2>1
<1>5. \A u, v \in Int : u * q < v * q => u < v
  OBVIOUS
<1> QED
  BY <1>4, <1>5

(* Candidates with scores, those of the diversity selection among them. *)
Graded(T) == \A x \in T : x.rerank \in Int /\ x.fused \in Int

(* What candidates with scores have. *)
LEMMA CandidateFields ==
  ASSUME NEW T, Graded(T), NEW x \in T
  PROVE  x.rerank \in Int /\ x.fused \in Int /\ EffectiveScore(x) \in Int
<1>1. x.rerank \in Int /\ x.fused \in Int
  BY DEF Graded
<1> QED
  BY <1>1 DEF EffectiveScore

(* The candidates of the diversity selection have scores. *)
LEMMA CandidatesGraded == Graded(Candidates)
BY DEF Graded, Candidates

(* The divisor counts: it is positive, the least where the Document is not there *)
(* yet, and the same for candidates of one parent.                               *)
LEMMA Divisors ==
  ASSUME NEW T, NEW selected \in Seq(T), NEW penalty \in Nat, NEW x
  PROVE  /\ Divisor(x, selected, penalty) \in Nat \ {0}
         /\ Divisor(x, selected, penalty) >= 2 * Unit
         /\ 2 * Unit \in Nat \ {0}
         /\ (\A i \in 1 .. Len(selected) : selected[i].doc # x.doc)
              => Divisor(x, selected, penalty) = 2 * Unit
         /\ \A y : ParentKey(x) = ParentKey(y)
                     => Divisor(x, selected, penalty) = Divisor(y, selected, penalty)
<1> DEFINE d == Cardinality(OfDocument(selected, x.doc))
           p == Cardinality(OfParent(selected, ParentKey(x)))
<1>1. d \in Nat
  BY OfDocumentIn
<1>2. p \in Nat
  <2>1. OfParent(selected, ParentKey(x)) \in SUBSET (1 .. Len(selected))
    BY DEF OfParent
  <2>2. IsFiniteSet(1 .. Len(selected))
    BY FS_Interval, Len(selected) \in Nat
  <2> QED
    BY <2>1, <2>2, FS_Subset, FS_CardinalityType
<1>3. Divisor(x, selected, penalty) = 2 * Unit + 2 * penalty * d + penalty * p
  BY DEF Divisor
<1>4. Unit \in Nat \ {0}
  BY SelectionsAssumption
<1>5. 2 * penalty * d \in Nat /\ penalty * p \in Nat
  <2> HIDE DEF d, p
  <2> QED BY <1>1, <1>2
<1>6. Divisor(x, selected, penalty) \in Nat \ {0} /\ Divisor(x, selected, penalty) >= 2 * Unit
      /\ 2 * Unit \in Nat \ {0}
  <2> DEFINE u == 2 * penalty * d
             v == penalty * p
  <2> HIDE DEF d, p
  <2>1. u \in Nat /\ v \in Nat /\ Divisor(x, selected, penalty) = 2 * Unit + u + v
    BY <1>3, <1>5
  <2> HIDE DEF u, v
  <2> QED BY <1>4, <2>1
<1>7. ASSUME \A i \in 1 .. Len(selected) : selected[i].doc # x.doc
      PROVE  Divisor(x, selected, penalty) = 2 * Unit
  <2>1. OfDocument(selected, x.doc) = {}
    BY <1>7 DEF OfDocument
  <2>2. OfParent(selected, ParentKey(x)) = {}
    BY <1>7 DEF OfParent, ParentKey
  <2>3. d = 0 /\ p = 0
    BY <2>1, <2>2, FS_EmptySet
  <2> HIDE DEF d, p
  <2> QED BY <1>3, <1>4, <2>3
<1>8. ASSUME NEW y, ParentKey(x) = ParentKey(y)
      PROVE  Divisor(x, selected, penalty) = Divisor(y, selected, penalty)
  <2>1. x.doc = y.doc
    BY <1>8 DEF ParentKey
  <2> QED
    BY <1>8, <2>1 DEF Divisor
<1> QED
  BY <1>6, <1>7, <1>8

(* There is a candidate to select as long as some remain. *)
LEMMA BestIn ==
  ASSUME NEW T, Graded(T), NEW remaining \in Seq(T), remaining # <<>>,
         NEW selected \in Seq(T), NEW penalty \in Nat
  PROVE  /\ Best(remaining, selected, penalty) \in 1 .. Len(remaining)
         /\ \A j \in 1 .. Len(remaining) :
              ~Beats(remaining[j], remaining[Best(remaining, selected, penalty)],
                     selected, penalty)
         /\ \A j \in 1 .. Best(remaining, selected, penalty) - 1 :
              Beats(remaining[Best(remaining, selected, penalty)], remaining[j],
                    selected, penalty)
<1> DEFINE n == Len(remaining)
           Score(i) == EffectiveScore(remaining[i])
           Div(i) == Divisor(remaining[i], selected, penalty)
           B(i, j) == Beats(remaining[i], remaining[j], selected, penalty)
           beats == {ij \in (1 .. n) \X (1 .. n) : B(ij[1], ij[2])}
<1>1. n \in Nat \ {0}
  BY EmptySeq
<1>2. \A i \in 1 .. n : Score(i) \in Int /\ Div(i) \in Nat \ {0}
  BY CandidateFields, Divisors, ElementOf
<1>3. \A i, j \in 1 .. n : B(i, j) <=> Score(i) * Div(j) > Score(j) * Div(i)
  BY DEF Beats
<1> HIDE DEF Score, Div
<1>4. \A i, j \in 1 .. n : <<i, j>> \in beats <=> Score(i) * Div(j) > Score(j) * Div(i)
  BY <1>3
<1> HIDE DEF beats
<1>5. \A i \in 1 .. n : <<i, i>> \notin beats
  <2> SUFFICES ASSUME NEW i \in 1 .. n PROVE ~(Score(i) * Div(i) > Score(i) * Div(i))
    BY <1>4
  <2>1. Score(i) * Div(i) \in Int
    BY <1>2
  <2> QED
    BY <2>1
<1>6. \A i, j, k \in 1 .. n : <<j, i>> \notin beats /\ <<k, i>> \in beats
                                => <<k, j>> \in beats /\ <<j, k>> \notin beats
  <2> SUFFICES ASSUME NEW i \in 1 .. n, NEW j \in 1 .. n, NEW k \in 1 .. n,
                      <<j, i>> \notin beats, <<k, i>> \in beats
               PROVE  <<k, j>> \in beats /\ <<j, k>> \notin beats
    OBVIOUS
  <2>1. /\ Score(i) \in Int /\ Score(j) \in Int /\ Score(k) \in Int
        /\ Div(i) \in Nat \ {0} /\ Div(j) \in Nat \ {0} /\ Div(k) \in Nat \ {0}
    BY <1>2
  <2>2. /\ Score(j) * Div(i) \in Int /\ Score(i) * Div(j) \in Int
        /\ Score(k) * Div(j) \in Int /\ Score(j) * Div(k) \in Int
    BY <2>1, SMTT(30)
  <2>3. Score(j) * Div(i) <= Score(i) * Div(j) /\ Score(k) * Div(i) > Score(i) * Div(k)
    BY <1>4, <2>2
  <2>4. Score(k) * Div(j) > Score(j) * Div(k)
    BY <2>1, <2>3, CrossOrder
  <2>5. ~(Score(j) * Div(k) > Score(k) * Div(j))
    BY <2>2, <2>4
  <2> QED
    BY <1>4, <2>4, <2>5
<1>7. \E i \in 1 .. n : FirstBest(beats, n, i)
  <2> HIDE DEF n
  <2> QED BY <1>1, <1>5, <1>6, FirstBestExists
<1> DEFINE Is(i) == /\ \A j \in 1 .. Len(remaining) : ~B(j, i)
                    /\ \A j \in 1 .. i - 1 : B(i, j)
<1>8. \E i \in 1 .. n : Is(i)
  <2>1. PICK i \in 1 .. n : FirstBest(beats, n, i)
    BY <1>7
  <2>2. \A j \in 1 .. n : ~B(j, i)
    BY <1>3, <1>4, <2>1 DEF FirstBest
  <2>3. \A j \in 1 .. i - 1 : B(i, j)
    <3>1. \A j \in 1 .. i - 1 : j \in 1 .. n
      OBVIOUS
    <3> QED
      BY <1>3, <1>4, <2>1, <3>1 DEF FirstBest
  <2> QED
    BY <2>2, <2>3
<1>9. Best(remaining, selected, penalty) = CHOOSE i \in 1 .. n : Is(i)
  BY DEF Best
<1>10. Best(remaining, selected, penalty) \in 1 .. n /\ Is(Best(remaining, selected, penalty))
  <2> HIDE DEF Is
  <2> QED BY <1>8, <1>9
<1> QED
  BY <1>10

(* Why x was not selected before y. *)
Fair(y, before, x) ==
  EffectiveScore(y) < EffectiveScore(x) =>
    /\ ParentKey(y) # ParentKey(x)
    /\ \/ \E k \in 1 .. Len(before) : before[k].doc = x.doc
       \/ EffectiveScore(y) < 0

(* What is not beaten is selected for its score or for spread. *)
LEMMA FairChoice ==
  ASSUME NEW x \in Candidates, NEW y \in Candidates, NEW selected \in Seq(Candidates),
         NEW penalty \in Nat, ~Beats(x, y, selected, penalty)
  PROVE  Fair(y, selected, x)
<1> DEFINE a == EffectiveScore(x)
           b == EffectiveScore(y)
           p == Divisor(x, selected, penalty)
           q == Divisor(y, selected, penalty)
<1>1. a \in Int /\ b \in Int
  BY CandidateFields, CandidatesGraded
<1>2. p \in Nat \ {0} /\ q \in Nat \ {0} /\ q >= 2 * Unit /\ 2 * Unit \in Nat \ {0}
  BY Divisors
<1>3. ~(a * q > b * p)
  BY DEF Beats
<1>4. ParentKey(y) = ParentKey(x) => p = q
  BY Divisors
<1>5. (\A i \in 1 .. Len(selected) : selected[i].doc # x.doc) => p = 2 * Unit
  BY Divisors
<1> HIDE DEF a, b, p, q
<1>6. ASSUME b < a PROVE p # q
  <2>1. \A t \in Nat \ {0} : a * t > b * t
    BY <1>1, <1>6
  <2> QED
    BY <1>2, <1>3, <2>1
<1>7. ASSUME b < a, p = 2 * Unit PROVE b < 0
  <2>1. SUFFICES ASSUME b >= 0 PROVE FALSE
    BY <1>1
  <2>2. a \in Nat /\ b \in Nat /\ p <= q
    BY <1>1, <1>2, <1>7, <2>1
  <2>3. b * p < a * p
    BY <1>2, <1>7, <2>2
  <2>4. a * p <= a * q
    BY <1>2, <2>2
  <2>5. b * p \in Int /\ a * p \in Int /\ a * q \in Int
    BY <1>1, <1>2
  <2> QED
    BY <1>3, <2>3, <2>4, <2>5
<1> QED
  BY <1>4, <1>5, <1>6, <1>7 DEF Fair, a, b

(* One element removed. *)
LEMMA Removed ==
  ASSUME NEW T, NEW s \in Seq(T), NEW i \in 1 .. Len(s)
  PROVE  /\ RemoveAt(s, i) \in Seq(T) /\ Len(RemoveAt(s, i)) = Len(s) - 1
         /\ \A j \in 1 .. Len(s) - 1 : RemoveAt(s, i)[j] = s[IF j < i THEN j ELSE j + 1]
<1> DEFINE a == SubSeq(s, 1, i - 1)
           b == SubSeq(s, i + 1, Len(s))
<1>1. Len(s) \in Nat /\ i \in Nat /\ 1 <= i /\ i <= Len(s)
  OBVIOUS
<1>2. a \in Seq(T) /\ Len(a) = i - 1 /\ \A j \in 1 .. i - 1 : a[j] = s[j]
  BY <1>1
<1>3. b \in Seq(T) /\ Len(b) = Len(s) - i /\ \A j \in 1 .. Len(s) - i : b[j] = s[i + j]
  BY <1>1
<1>4. RemoveAt(s, i) = a \o b
  BY DEF RemoveAt
<1> HIDE DEF a, b
<1>5. /\ a \o b \in Seq(T) /\ Len(a \o b) = Len(a) + Len(b)
      /\ \A j \in 1 .. Len(a) : (a \o b)[j] = a[j]
      /\ \A j \in 1 .. Len(b) : (a \o b)[Len(a) + j] = b[j]
  <2>1. a \in Seq(T) /\ b \in Seq(T)
    BY <1>2, <1>3
  <2> QED
    BY <2>1, ElementOfBoth
<1>6. ASSUME NEW j \in 1 .. Len(s) - 1
      PROVE  (a \o b)[j] = s[IF j < i THEN j ELSE j + 1]
  <2>1. CASE j < i
    <3>1. j \in 1 .. i - 1
      BY <1>1, <2>1
    <3> QED
      BY <1>2, <1>5, <2>1, <3>1
  <2>2. CASE ~(j < i)
    <3> DEFINE m == j - (i - 1)
    <3>1. m \in 1 .. Len(s) - i /\ (i - 1) + m = j /\ i + m = j + 1
      BY <1>1, <2>2
    <3> HIDE DEF m
    <3>2. (a \o b)[Len(a) + m] = b[m] /\ b[m] = s[i + m]
      BY <1>3, <1>5, <3>1
    <3> QED
      BY <1>2, <2>2, <3>1, <3>2
  <2> QED
    BY <2>1, <2>2
<1> QED
  BY <1>1, <1>2, <1>3, <1>4, <1>5, <1>6

(* Nobody after the place i was passed over at i but for its score or for spread. *)
FairAt(s, i, x) ==
  EffectiveScore(s[i]) < EffectiveScore(x) =>
    /\ ParentKey(s[i]) # ParentKey(x)
    /\ \/ \E k \in 1 .. i - 1 : s[k].doc = x.doc
       \/ EffectiveScore(s[i]) < 0

(* The state of the diversity selection over the candidates d after k rounds. *)
Spreads(acc, d, k) ==
  /\ Elements(acc.remaining) \union Elements(acc.selected) = Elements(d)
  /\ EachChunkOnce(acc.remaining) /\ EachChunkOnce(acc.selected)
  /\ \A x \in Elements(acc.remaining), y \in Elements(acc.selected) : x.chunk # y.chunk
  /\ \A i \in 1 .. Len(acc.selected) : \A x \in Elements(acc.remaining) : FairAt(acc.selected, i, x)
  /\ \A i, j \in 1 .. Len(acc.selected) : i < j => FairAt(acc.selected, i, acc.selected[j])
  /\ Len(acc.selected) = k \/ acc.remaining = <<>>

States == [remaining : Seq(Candidates), selected : Seq(Candidates)]

(* A round of the diversity selection keeps what is said of its state. *)
LEMMA RoundSpreads ==
  ASSUME NEW acc \in States, NEW d, NEW k \in Nat, NEW penalty \in Nat, Spreads(acc, d, k)
  PROVE  Spreads(DiversityRound(acc, penalty), d, k + 1)
<1>1. CASE acc.remaining = <<>>
  <2>1. DiversityRound(acc, penalty) = acc
    BY <1>1 DEF DiversityRound
  <2> QED
    BY <1>1, <2>1 DEF Spreads
<1>2. CASE acc.remaining # <<>>
  <2> DEFINE r == acc.remaining
             s == acc.selected
             l == Len(s)
             b == Best(r, s, penalty)
             y == r[b]
             q == RemoveAt(r, b)
             t == Append(s, y)
  <2>1. r \in Seq(Candidates) /\ s \in Seq(Candidates) /\ l \in Nat /\ Len(r) \in Nat
    BY DEF States
  <2>2. b \in 1 .. Len(r) /\ \A j \in 1 .. Len(r) : ~Beats(r[j], y, s, penalty)
    BY <1>2, <2>1, BestIn, CandidatesGraded
  <2>3. DiversityRound(acc, penalty) = [remaining |-> q, selected |-> t]
    BY <1>2 DEF DiversityRound
  <2> HIDE DEF r, s, b
  <2>4. y \in Candidates
    BY <2>1, <2>2, ElementOf
  <2>5. Len(t) = l + 1 /\ t[l + 1] = y /\ \A i \in 1 .. l : t[i] = s[i]
    BY <2>1, <2>4
  <2>6. /\ Len(q) = Len(r) - 1
        /\ \A j \in 1 .. Len(r) - 1 : q[j] = r[IF j < b THEN j ELSE j + 1]
    BY <2>1, <2>2, Removed
  <2>7. \A j \in 1 .. Len(q) : \E m \in 1 .. Len(r) : m # b /\ q[j] = r[m]
    <3> SUFFICES ASSUME NEW j \in 1 .. Len(q)
                 PROVE  \E m \in 1 .. Len(r) : m # b /\ q[j] = r[m]
      OBVIOUS
    <3>1. (IF j < b THEN j ELSE j + 1) \in 1 .. Len(r) /\ (IF j < b THEN j ELSE j + 1) # b
      BY <2>1, <2>2, <2>6
    <3> HIDE DEF q
    <3> QED
      BY <2>6, <3>1
  <2>8. \A m \in 1 .. Len(r) : m # b => \E j \in 1 .. Len(q) : q[j] = r[m]
    <3> SUFFICES ASSUME NEW m \in 1 .. Len(r), m # b
                 PROVE  \E j \in 1 .. Len(q) : q[j] = r[m]
      OBVIOUS
    <3>1. CASE m < b
      <4>1. m \in 1 .. Len(r) - 1
        BY <2>1, <2>2, <3>1
      <4> HIDE DEF q
      <4> QED BY <2>6, <3>1, <4>1
    <3>2. CASE ~(m < b)
      <4>1. m - 1 \in 1 .. Len(r) - 1 /\ ~(m - 1 < b) /\ (m - 1) + 1 = m
        BY <2>1, <2>2, <3>2
      <4> HIDE DEF q
      <4> QED BY <2>6, <4>1
    <3> QED
      BY <3>1, <3>2
  <2> HIDE DEF q, t, y
  <2>9. Elements(q) \subseteq Elements(r) /\ Elements(r) = Elements(q) \union {y} /\ y \in Elements(r)
    <3>1. y \in Elements(r)
      BY <2>2 DEF Elements, y
    <3>2. Elements(q) \subseteq Elements(r)
      BY <2>7 DEF Elements
    <3>3. Elements(r) \subseteq Elements(q) \union {y}
      BY <2>8 DEF Elements, y
    <3> QED
      BY <3>1, <3>2, <3>3
  <2>10. Elements(t) = Elements(s) \union {y}
    <3>1. \A i \in 1 .. l + 1 : i \in 1 .. l \/ i = l + 1
      BY <2>1
    <3>2. \A i \in 1 .. l : i \in 1 .. l + 1
      BY <2>1
    <3>3. l + 1 \in 1 .. l + 1
      BY <2>1
    <3>4. Elements(t) \subseteq Elements(s) \union {y}
      BY <2>5, <3>1 DEF Elements
    <3>5. Elements(s) \subseteq Elements(t)
      BY <2>5, <3>2 DEF Elements
    <3>6. y \in Elements(t)
      BY <2>5, <3>3 DEF Elements
    <3> QED
      BY <3>4, <3>5, <3>6
  <2>11. /\ Elements(r) \union Elements(s) = Elements(d)
         /\ EachChunkOnce(r) /\ EachChunkOnce(s)
         /\ \A x \in Elements(r), z \in Elements(s) : x.chunk # z.chunk
         /\ \A i \in 1 .. l : \A x \in Elements(r) : FairAt(s, i, x)
         /\ \A i, j \in 1 .. l : i < j => FairAt(s, i, s[j])
         /\ l = k
    BY <1>2 DEF Spreads, r, s
  <2>12. Elements(q) \union Elements(t) = Elements(d)
    BY <2>9, <2>10, <2>11
  <2>13. \A x \in Elements(q) : x.chunk # y.chunk
    <3> SUFFICES ASSUME NEW j \in 1 .. Len(q) PROVE q[j].chunk # y.chunk
      BY DEF Elements
    <3>1. PICK m \in 1 .. Len(r) : m # b /\ q[j] = r[m]
      BY <2>7
    <3> QED
      BY <2>2, <2>11, <3>1 DEF EachChunkOnce, y
  <2>14. EachChunkOnce(q)
    <3> SUFFICES ASSUME NEW i \in 1 .. Len(q), NEW j \in 1 .. Len(q), q[i].chunk = q[j].chunk
                 PROVE  i = j
      BY DEF EachChunkOnce
    <3> DEFINE u == IF i < b THEN i ELSE i + 1
               v == IF j < b THEN j ELSE j + 1
    <3>1. u \in 1 .. Len(r) /\ v \in 1 .. Len(r) /\ (u = v => i = j)
      BY <2>1, <2>2, <2>6
    <3>2. q[i] = r[u] /\ q[j] = r[v]
      BY <2>6
    <3> HIDE DEF u, v
    <3> QED
      BY <2>11, <3>1, <3>2 DEF EachChunkOnce
  <2>15. \A i \in 1 .. l + 1 : i \in 1 .. l \/ i = l + 1
    BY <2>1
  <2>16. \A i \in 1 .. l : t[i].chunk # y.chunk
    BY <2>5, <2>9, <2>11 DEF Elements
  <2>17. EachChunkOnce(t)
    <3> SUFFICES ASSUME NEW i \in 1 .. l + 1, NEW j \in 1 .. l + 1, t[i].chunk = t[j].chunk
                 PROVE  i = j
      BY <2>5 DEF EachChunkOnce
    <3>1. CASE i \in 1 .. l /\ j \in 1 .. l
      BY <2>5, <2>11, <3>1 DEF EachChunkOnce
    <3>2. CASE i = l + 1 \/ j = l + 1
      BY <2>5, <2>15, <2>16, <3>2
    <3> QED
      BY <2>15, <3>1, <3>2
  <2>18. \A x \in Elements(q), z \in Elements(t) : x.chunk # z.chunk
    BY <2>9, <2>10, <2>11, <2>13
  <2>19. ASSUME NEW i \in 1 .. l, NEW x, FairAt(s, i, x) PROVE FairAt(t, i, x)
    <3>1. \A m \in 1 .. i - 1 : m \in 1 .. l
      BY <2>1
    <3> QED
      BY <2>5, <2>19, <3>1 DEF FairAt
  <2>20. ASSUME NEW x \in Elements(r) PROVE FairAt(t, l + 1, x)
    <3>1. x \in Candidates /\ ~Beats(x, y, s, penalty)
      <4>1. PICK m \in 1 .. Len(r) : x = r[m]
        BY DEF Elements
      <4> QED
        BY <2>1, <2>2, <4>1, ElementOf DEF y
    <3>2. Fair(y, s, x)
      BY <2>1, <2>4, <3>1, FairChoice
    <3>3. (l + 1) - 1 = l
      BY <2>1
    <3> QED
      BY <2>5, <3>2, <3>3 DEF Fair, FairAt
  <2>21. \A i \in 1 .. l + 1 : \A x \in Elements(r) : FairAt(t, i, x)
    BY <2>11, <2>15, <2>19, <2>20
  <2>22. ASSUME NEW i \in 1 .. l + 1, NEW j \in 1 .. l + 1, i < j PROVE FairAt(t, i, t[j])
    <3>1. CASE j = l + 1
      BY <2>5, <2>9, <2>21, <3>1
    <3>2. CASE j \in 1 .. l
      <4>1. i \in 1 .. l
        BY <2>1, <2>22, <3>2
      <4>2. FairAt(s, i, s[j])
        BY <2>11, <2>22, <3>2, <4>1
      <4> QED
        BY <2>5, <2>19, <3>2, <4>1, <4>2
    <3> QED
      BY <2>15, <3>1, <3>2
  <2>23. Spreads([remaining |-> q, selected |-> t], d, k + 1)
    BY <2>5, <2>9, <2>11, <2>12, <2>14, <2>17, <2>18, <2>21, <2>22 DEF Spreads
  <2> QED
    BY <2>3, <2>23 DEF q, t, y
<1> QED
  BY <1>1, <1>2

(* The diversity selection trades score for spread only. *)
LEMMA DiversityIsFair ==
  ASSUME NEW d \in Selections
  PROVE  LET r == Diversify(d.candidates, d.limit, d.penalty)
             all == d.candidates
         IN  /\ \A i, j \in 1 .. Len(r) : i < j => FairAt(r, i, r[j])
             /\ Len(r) < d.limit =>
                  \A c \in Elements(all) \ Elements(r) :
                    \E n \in 1 .. Len(all) :
                       /\ all[n] # c /\ Position(all, c.chunk) > n
                       /\ SameText(c, all[n]) \/ HighlyOverlapping(c, all[n])
             /\ \A i, j \in 1 .. Len(r) : i # j => ~SameText(r[i], r[j])
<1> DEFINE all == d.candidates
           distinct == SuppressDuplicates(all)
           start == [remaining |-> distinct, selected |-> <<>>]
           rounds == [round \in 1 .. d.limit |-> round]
           r == Diversify(all, d.limit, d.penalty)
           n == d.limit
<1>1. all \in Seq(Candidates) /\ EachChunkOnce(all) /\ n \in Nat /\ d.penalty \in Nat
  BY SelectionsAssumption
<1>2. PICK w : Distinct(distinct, all, w)
  BY <1>1, SuppressionIsDistinct
<1> HIDE DEF all, distinct, n
<1>3. distinct \in Seq(Candidates) /\ start \in States
  <2>1. <<>> \in Seq(Candidates) /\ distinct \in Seq(Candidates)
    BY <1>1, SuppressionIsDistinct DEF distinct
  <2> QED
    BY <2>1 DEF States
<1>4. \A a \in States : DiversityRound(a, d.penalty) \in States
  <2> SUFFICES ASSUME NEW a \in States PROVE DiversityRound(a, d.penalty) \in States
    OBVIOUS
  <2>1. a.remaining \in Seq(Candidates) /\ a.selected \in Seq(Candidates)
    BY DEF States
  <2>2. CASE a.remaining = <<>>
    BY <2>2 DEF DiversityRound
  <2>3. CASE a.remaining # <<>>
    <3> DEFINE b == Best(a.remaining, a.selected, d.penalty)
    <3>1. b \in 1 .. Len(a.remaining)
      BY <1>1, <2>1, <2>3, BestIn, CandidatesGraded
    <3>2. DiversityRound(a, d.penalty)
            = [remaining |-> RemoveAt(a.remaining, b), selected |-> Append(a.selected, a.remaining[b])]
      BY <2>3 DEF DiversityRound
    <3> HIDE DEF b
    <3>3. RemoveAt(a.remaining, b) \in Seq(Candidates) /\ a.remaining[b] \in Candidates
      BY <2>1, <3>1, Removed, ElementOf
    <3>4. Append(a.selected, a.remaining[b]) \in Seq(Candidates)
      BY <2>1, <3>3
    <3> QED
      BY <3>2, <3>3, <3>4 DEF States
  <2> QED
    BY <2>2, <2>3
<1>5. PICK g \in [0 .. n -> States] : SpreadSteps(g, rounds, n, start, d.penalty)
  <2>1. DOMAIN rounds = 1 .. n
    BY DEF n
  <2> HIDE DEF rounds, start
  <2> QED BY <1>1, <1>3, <1>4, <2>1, SpreadRun
<1>6. /\ g[0] = start /\ g[n].selected = r
      /\ \A k \in 1 .. n : g[k] = DiversityRound(g[k - 1], d.penalty)
  BY <1>5 DEF SpreadSteps, Spreading, Diversify, distinct, n
<1> HIDE DEF r, rounds
<1> DEFINE M == {k \in Nat : k <= n => Spreads(g[k], distinct, k)}
<1>7. 0 \in M
  <2>1. EachChunkOnce(distinct)
    <3> SUFFICES ASSUME NEW i \in 1 .. Len(distinct), NEW j \in 1 .. Len(distinct),
                        distinct[i].chunk = distinct[j].chunk
                 PROVE  i = j
      BY DEF EachChunkOnce
    <3>1. w[i] = w[j] /\ w[i] \in Nat
      <4>1. /\ w[i] \in 1 .. Len(all) /\ w[j] \in 1 .. Len(all)
            /\ distinct[i] = all[w[i]] /\ distinct[j] = all[w[j]]
        BY <1>2 DEF Distinct
      <4> QED
        BY <1>1, <4>1 DEF EachChunkOnce
    <3>2. ~(i < j) /\ ~(j < i)
      BY <1>2, <3>1 DEF Distinct
    <3> QED
      BY <1>3, <3>2
  <2>2. Len(<<>>) = 0 /\ 1 .. 0 = {} /\ Elements(<<>>) = {}
    BY DEF Elements
  <2>3. EachChunkOnce(<<>>)
    BY <2>2 DEF EachChunkOnce
  <2>4. Spreads(start, distinct, 0)
    BY <2>1, <2>2, <2>3 DEF Spreads
  <2> QED
    BY <1>6, <2>4
<1>8. ASSUME NEW k \in Nat, k \in M PROVE k + 1 \in M
  <2> SUFFICES ASSUME k + 1 <= n PROVE Spreads(g[k + 1], distinct, k + 1)
    OBVIOUS
  <2>1. k + 1 \in 1 .. n /\ (k + 1) - 1 = k /\ k \in 0 .. n /\ Spreads(g[k], distinct, k)
    BY <1>1, <1>8
  <2>2. g[k + 1] = DiversityRound(g[k], d.penalty) /\ g[k] \in States
    BY <1>5, <1>6, <2>1
  <2> QED
    BY <1>1, <2>1, <2>2, RoundSpreads
<1>9. Spreads(g[n], distinct, n) /\ g[n] \in States
  <2>1. Nat \subseteq M
    <3> HIDE DEF M
    <3> QED BY <1>7, <1>8, SetInduction
  <2> QED
    BY <1>1, <1>5, <2>1
<1>10. r \in Seq(Candidates) /\ EachChunkOnce(r) /\ Elements(r) \subseteq Elements(distinct)
       /\ \A i, j \in 1 .. Len(r) : i < j => FairAt(r, i, r[j])
  BY <1>6, <1>9 DEF Spreads, States
<1>11. ASSUME NEW i \in 1 .. Len(r), NEW j \in 1 .. Len(r), i # j
       PROVE  ~SameText(r[i], r[j])
  <2>1. r[i].chunk # r[j].chunk
    BY <1>10, <1>11 DEF EachChunkOnce
  <2>2. r[i] \in Elements(distinct) /\ r[j] \in Elements(distinct)
    BY <1>10 DEF Elements
  <2>3. PICK p \in 1 .. Len(distinct) : r[i] = distinct[p]
    BY <2>2 DEF Elements
  <2>4. PICK q \in 1 .. Len(distinct) : r[j] = distinct[q]
    BY <2>2 DEF Elements
  <2>5. p # q
    BY <2>1, <2>3, <2>4
  <2>6. p < q \/ q < p
    BY <1>3, <2>5
  <2>7. ~SameText(distinct[p], distinct[q])
    <3>1. SameText(distinct[p], distinct[q]) <=> SameText(distinct[q], distinct[p])
      BY DEF SameText
    <3> QED
      BY <1>2, <2>6, <3>1 DEF Distinct
  <2> QED
    BY <2>3, <2>4, <2>7
<1>12. ASSUME Len(r) < n, NEW c \in Elements(all) \ Elements(r)
       PROVE  \E m \in 1 .. Len(all) :
                 /\ all[m] # c /\ Position(all, c.chunk) > m
                 /\ SameText(c, all[m]) \/ HighlyOverlapping(c, all[m])
  <2>1. Elements(r) = Elements(distinct)
    <3>1. g[n].remaining = <<>>
      BY <1>1, <1>6, <1>9, <1>12 DEF Spreads
    <3>2. Elements(<<>>) = {}
      BY DEF Elements
    <3> QED
      BY <1>6, <1>9, <3>1, <3>2 DEF Spreads
  <2>2. PICK k \in 1 .. Len(all) : c = all[k]
    BY DEF Elements
  <2>3. ~\E i \in 1 .. Len(distinct) : w[i] = k
    <3> SUFFICES ASSUME NEW i \in 1 .. Len(distinct), w[i] = k PROVE FALSE
      OBVIOUS
    <3>1. distinct[i] = c
      BY <1>2, <2>2 DEF Distinct
    <3> QED
      BY <1>12, <2>1, <3>1 DEF Elements
  <2>4. PICK m \in 1 .. k - 1 : SameText(c, all[m]) \/ HighlyOverlapping(c, all[m])
    BY <1>2, <2>2, <2>3 DEF Distinct
  <2>5. Len(all) \in Nat /\ m \in 1 .. Len(all) /\ m < k
    BY <1>1
  <2>6. Position(all, c.chunk) = k
    BY <1>1, <2>2, <2>5, PositionIn
  <2>7. all[m] # c
    BY <1>1, <2>2, <2>5 DEF EachChunkOnce
  <2> QED
    BY <2>4, <2>5, <2>6, <2>7
<1> QED
  BY <1>10, <1>11, <1>12 DEF r, all, n

-----------------------------------------------------------------------------
(* The theorems.                                                              *)

(* An algorithm has one of its inputs, and its result once it has returned. *)
Running(name, inputs, value) ==
    algorithm = name => input \in inputs /\ (returned => result = value)

(* The inductive invariant: of the algorithms that are proved about, every *)
(* result is what the algorithm makes of an input it may have. *)
Computed ==
    /\ Running("fuse", Fusions,
               Fuse(input.semantic, input.lexical, input.weights, input.limit, input.cap))
    /\ Running("diversify", Selections,
               Diversify(input.candidates, input.limit, input.penalty))
    /\ Running("render", Generations, Render(input.output, input.evidence))
    /\ Running("plan", Questions, QueryPlan(input.question, input.history, input.reply))
    /\ Running("execute", Evaluations, Execute(input))
    /\ Running("load", Manifests,
               Load(input.case, input.owner, input.filters, input.inferred))
    /\ Running("case", Cases, RunCase(input.case, input.found, input.answer))
    /\ Running("verdict", Verdicts, Verdict(input))

(* At first nothing has returned. *)
LEMMA InitiallyComputed == Init => Computed
BY DEF Init, Chosen, Computed, Running

(* The step that returns the value of one algorithm keeps what Computed says *)
(* of another. *)
LEMMA OthersKeep ==
  ASSUME Computed, NEW name, NEW value, Returns(name, value),
         name \notin {"fuse", "diversify", "render", "plan", "execute", "load", "case",
                      "verdict"}
  PROVE  Computed'
BY DEF Returns, Computed, Running

(* No step changes an input, and every step that returns computes. *)
LEMMA StaysComputed == Computed /\ [Next]_vars => Computed'
<1> SUFFICES ASSUME Computed, [Next]_vars PROVE Computed'
  OBVIOUS
<1>1. CASE RunRetrieve \/ RunOverview
  BY <1>1, OthersKeep DEF RunRetrieve, RunOverview
<1>2. CASE RunMarkdown \/ RunPdf \/ RunDocx \/ RunHierarchy
  BY <1>2, OthersKeep DEF RunMarkdown, RunPdf, RunDocx, RunHierarchy
<1>3. CASE RunStore \/ RunPack \/ RunSpans
  BY <1>3, OthersKeep DEF RunStore, RunPack, RunSpans
<1>4. CASE RunRender
  BY <1>4 DEF RunRender, Returns, Computed, Running
<1>5. CASE RunPlan
  BY <1>5 DEF RunPlan, Returns, Computed, Running
<1>6. CASE RunExecute
  BY <1>6 DEF RunExecute, Returns, Computed, Running
<1>7. CASE RunLoad
  BY <1>7 DEF RunLoad, Returns, Computed, Running
<1>8. CASE RunJudged
  BY <1>8 DEF RunJudged, Returns, Computed, Running
<1>9. CASE RunVerdict
  BY <1>9 DEF RunVerdict, Returns, Computed, Running, Verdict
<1>10. CASE RunFuse
  BY <1>10 DEF RunFuse, Returns, Computed, Running
<1>11. CASE RunDiversify
  BY <1>11 DEF RunDiversify, Returns, Computed, Running
<1>12. CASE UNCHANGED vars
  BY <1>12 DEF vars, Computed, Running
<1> QED
  BY <1>1, <1>2, <1>3, <1>4, <1>5, <1>6, <1>7, <1>8, <1>9, <1>10, <1>11, <1>12 DEF Next

(* Computed holds in every state of every run, for all sets of inputs. *)
THEOREM ResultsComputed == Spec => []Computed
<1> QED
  BY InitiallyComputed, StaysComputed, PTL DEF Spec

(* A candidate is passed over for a reason: fusion never selects a chunk after *)
(* one that both legs rank no higher, and one of them lower, and leaves out    *)
(* only what a limit excludes (rag/fusion.py); the diversity selection trades  *)
(* score for spread only, keeps no text twice, and leaves out of an unfilled   *)
(* selection only duplicates (rag/evidence_assembly.py): for legs of any       *)
(* length in the order of their own scores, and any scores, weights, limits    *)
(* and penalty.                                                                *)
THEOREM RanksAreFollowed == Spec => []EvidenceFollowsRanks
<1>1. Computed => FusionRespectsRanks
  <2> SUFFICES ASSUME Computed, Has("fuse") PROVE FusionRespectsRanks
    BY DEF FusionRespectsRanks
  <2>1. /\ input \in Fusions
        /\ result = Fuse(input.semantic, input.lexical, input.weights, input.limit, input.cap)
    BY DEF Computed, Running, Has
  <2>2. RespectsRanks(result, input)
    BY <2>1, FusedByRanks
  <2> QED
    BY <2>2 DEF RespectsRanks, FusionRespectsRanks, AboveIn
<1>2. Computed => SpreadIsTheOnlyReason
  <2> SUFFICES ASSUME Computed, Has("diversify") PROVE SpreadIsTheOnlyReason
    BY DEF SpreadIsTheOnlyReason
  <2>1. /\ input \in Selections
        /\ result = Diversify(input.candidates, input.limit, input.penalty)
    BY DEF Computed, Running, Has
  <2>2. /\ \A i, j \in 1 .. Len(result) : i < j => FairAt(result, i, result[j])
        /\ Len(result) < input.limit =>
             \A c \in Elements(input.candidates) \ Elements(result) :
               \E n \in 1 .. Len(input.candidates) :
                  /\ input.candidates[n] # c /\ Position(input.candidates, c.chunk) > n
                  /\ SameText(c, input.candidates[n]) \/ HighlyOverlapping(c, input.candidates[n])
        /\ \A i, j \in 1 .. Len(result) : i # j => ~SameText(result[i], result[j])
    BY <2>1, DiversityIsFair
  <2> QED
    BY <2>2 DEF SpreadIsTheOnlyReason, FairAt
<1> QED
  BY <1>1, <1>2, ResultsComputed, PTL DEF EvidenceFollowsRanks

(* The numbers in an answer lead to the evidence its claims cite, and the *)
(* citation rows are that evidence, each once, in order of first use: for *)
(* every output of the model and all evidence (rag/grounding.py,          *)
(* validate_and_render).                                                  *)
THEOREM MarkersAlwaysLead == Spec => []MarkersLeadToEvidence
<1>1. Computed => MarkersLeadToEvidence
  <2>1. SUFFICES ASSUME Computed, Has("render"), result.accepted PROVE MarkersLeadToEvidence
    BY DEF MarkersLeadToEvidence
  <2>2. input \in Generations /\ result = Render(input.output, input.evidence)
    BY <2>1 DEF Computed, Running, Has
  <2> QED
    BY <2>1, <2>2, GenerationsAssumption, RenderedMarkers
<1> QED
  BY <1>1, ResultsComputed, PTL

(* The effective query keeps the identifiers of the question and, rewritten, *)
(* of the history: for every question, history and reply (rag/query_plan.py, *)
(* build_query_plan).                                                        *)
THEOREM PlansKeepTheQuestion == Spec => []PlanKeepsTheQuestion
<1>1. Computed => PlanKeepsTheQuestion
  BY PlanNames DEF Computed, Running, Has, PlanKeepsTheQuestion
<1> QED
  BY <1>1, ResultsComputed, PTL

(* The record of an evaluation, its cases and its filters can be believed, and *)
(* every case that loads can be passed: for every course of a run, manifest,   *)
(* retrieval and answer (evaluation/runner.py).                                *)
THEOREM RecordsAreHonest == Spec => []RunRecordIsHonest
<1>1. Computed => RunRecordIsHonest
  <2> SUFFICES ASSUME Computed PROVE RunRecordIsHonest
    OBVIOUS
  <2>1. RecordIsHonest
    <3>1. CASE Has("execute")
      BY <3>1, ExecutedRecord DEF Computed, Running, Has
    <3> QED
      BY <3>1 DEF RecordIsHonest
  <2>2. FaithfulnessIsRetrieved
    <3>1. CASE Has("case")
      BY <3>1, JudgedFaithfully DEF Computed, Running, Has
    <3> QED
      BY <3>1 DEF FaithfulnessIsRetrieved
  <2>3. FiltersAgree /\ CasesCanBePassed
    <3>1. CASE Has("load")
      BY <3>1, FiltersDoAgree, LoadedCanBePassed DEF Computed, Running, Has, Loading
    <3> QED
      BY <3>1 DEF FiltersAgree, CasesCanBePassed
  <2> QED
    BY <2>1, <2>2, <2>3 DEF RunRecordIsHonest
<1> QED
  BY <1>1, ResultsComputed, PTL

(* A favourable verdict is earned, whatever the cases and the observations *)
(* (acceptance.py and evaluation/compare.py). *)
THEOREM VerdictsAreEarned == Spec => []VerdictIsEarned
<1>1. Computed => VerdictIsEarned
  <2> SUFFICES ASSUME Computed PROVE VerdictIsEarned
    OBVIOUS
  <2>1. CASE Has("verdict")
    BY <2>1, EarnedVerdict DEF Computed, Running, Has
  <2> QED
    BY <2>1 DEF VerdictIsEarned
<1> QED
  BY <1>1, ResultsComputed, PTL

=============================================================================
