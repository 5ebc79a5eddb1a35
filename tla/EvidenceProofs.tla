---------------------------- MODULE EvidenceProofs ----------------------------
(* The best candidate of a retrieval reaches the model, for every corpus and   *)
(* every result of the searches.                                               *)
(*                                                                             *)
(* Each step of the pipeline is a fold, so the lemmas come in layers: what one *)
(* fold does to the head of its sequence and to the set its elements are of    *)
(* (suppression, diversity, assembly), what the sorts keep in front, what one  *)
(* passage along the children of a parent holds, what merging and expansion    *)
(* make of the best candidate, and then the two results of a retrieval.        *)
EXTENDS AlgorithmsProofs

-----------------------------------------------------------------------------
(* Elements of sequences, and finite sets of numbers.                        *)

(* What the elements of a sequence are. *)
LEMMA ElementsOf ==
  ASSUME NEW T, NEW s \in Seq(T)
  PROVE  /\ Elements(s) \subseteq T /\ s \in Seq(Elements(s))
         /\ \A i \in 1 .. Len(s) : s[i] \in Elements(s)
         /\ \A x \in Elements(s) : \E i \in 1 .. Len(s) : x = s[i]
         /\ IsFiniteSet(Elements(s))
         /\ s # <<>> => 1 \in 1 .. Len(s) /\ Head(s) = s[1] /\ Head(s) \in Elements(s)
<1>1. /\ \A i \in 1 .. Len(s) : s[i] \in Elements(s)
      /\ \A x \in Elements(s) : \E i \in 1 .. Len(s) : x = s[i]
  BY DEF Elements
<1>2. Elements(s) \subseteq T
  BY <1>1, ElementOf
<1>3. s \in Seq(Elements(s))
  BY <1>1
<1>4. IsFiniteSet(Elements(s))
  <2>1. IsFiniteSet(1 .. Len(s))
    BY FS_Interval, Len(s) \in Nat
  <2> DEFINE f == [i \in 1 .. Len(s) |-> s[i]]
  <2>2. f \in Surjection(1 .. Len(s), Elements(s))
    BY <1>1 DEF Surjection
  <2> QED
    BY <2>1, <2>2, FS_Surjection
<1>5. s # <<>> => 1 \in 1 .. Len(s) /\ Head(s) = s[1]
  OBVIOUS
<1> QED
  BY <1>1, <1>2, <1>3, <1>4, <1>5

(* The elements of two sequences, one after the other. *)
LEMMA ElementsJoined ==
  ASSUME NEW T, NEW x \in Seq(T), NEW y \in Seq(T)
  PROVE  /\ x \o y \in Seq(T) /\ Elements(x \o y) = Elements(x) \union Elements(y)
         /\ Len(x \o y) = Len(x) + Len(y)
         /\ \A i \in 1 .. Len(x) : (x \o y)[i] = x[i]
         /\ \A i \in 1 .. Len(x) + Len(y) : i > Len(x) => (x \o y)[i] = y[i - Len(x)]
<1>1. /\ x \o y \in Seq(T) /\ Len(x \o y) = Len(x) + Len(y)
      /\ Len(x) \in Nat /\ Len(y) \in Nat
  OBVIOUS
<1>2. \A i \in 1 .. Len(x) : (x \o y)[i] = x[i]
  OBVIOUS
<1>3. \A i \in 1 .. Len(x) + Len(y) : i > Len(x) => (x \o y)[i] = y[i - Len(x)]
  OBVIOUS
<1> DEFINE z == x \o y
<1> HIDE DEF z
<1>4. \A i \in 1 .. Len(z) : z[i] \in Elements(x) \union Elements(y)
  <2> SUFFICES ASSUME NEW i \in 1 .. Len(z) PROVE z[i] \in Elements(x) \union Elements(y)
    OBVIOUS
  <2>1. CASE i \in 1 .. Len(x)
    BY <1>2, <2>1 DEF Elements, z
  <2>2. CASE i > Len(x)
    <3>1. i - Len(x) \in 1 .. Len(y) /\ z[i] = y[i - Len(x)]
      BY <1>1, <1>3, <2>2 DEF z
    <3> QED
      BY <3>1 DEF Elements
  <2> QED
    BY <1>1, <2>1, <2>2 DEF z
<1>5. \A i \in 1 .. Len(x) : x[i] \in Elements(z)
  <2> SUFFICES ASSUME NEW i \in 1 .. Len(x) PROVE x[i] \in Elements(z)
    OBVIOUS
  <2>1. i \in 1 .. Len(z) /\ z[i] = x[i]
    BY <1>1, <1>2 DEF z
  <2> QED
    BY <2>1 DEF Elements
<1>6. \A i \in 1 .. Len(y) : y[i] \in Elements(z)
  <2> SUFFICES ASSUME NEW i \in 1 .. Len(y) PROVE y[i] \in Elements(z)
    OBVIOUS
  <2> DEFINE k == Len(x) + i
  <2>1. k \in 1 .. Len(z) /\ k \in 1 .. Len(x) + Len(y) /\ k > Len(x) /\ k - Len(x) = i
    BY <1>1 DEF z
  <2>2. z[k] = y[i]
    BY <1>3, <2>1 DEF z
  <2> QED
    BY <2>1, <2>2 DEF Elements
<1>7. Elements(z) = Elements(x) \union Elements(y)
  BY <1>4, <1>5, <1>6 DEF Elements
<1> QED
  BY <1>1, <1>2, <1>3, <1>7 DEF z

(* A finite set in some order. *)
LEMMA SetInOrder ==
  ASSUME NEW S, IsFiniteSet(S)
  PROVE  SetToSeq(S) \in Seq(S) /\ Elements(SetToSeq(S)) = S
<1> DEFINE n == Cardinality(S)
<1>1. n \in Nat
  BY FS_CardinalityType
<1>2. IsFiniteSet(1 .. n) /\ Cardinality(1 .. n) = n
  BY <1>1, FS_Interval
<1>3. \E f : f \in Bijection(1 .. n, S)
  BY <1>1, <1>2, FS_SameCardinalityBij DEF ExistsBijection
<1>4. \E f \in [1 .. n -> S] : IsInjective(f)
  BY <1>3 DEF Bijection, Injection, IsInjective
<1> DEFINE s == SetToSeq(S)
<1>5. s \in [1 .. n -> S] /\ IsInjective(s)
  BY <1>4 DEF SetToSeq
<1> HIDE DEF s
<1>6. s \in Injection(1 .. n, S)
  BY <1>5 DEF Injection, IsInjective
<1>7. s \in Surjection(1 .. n, S)
  BY <1>2, <1>6, FS_Injection
<1>8. s \in Seq(S) /\ Len(s) = n
  BY <1>1, <1>5
<1>9. Elements(s) = S
  <2>1. \A x \in S : \E i \in 1 .. n : s[i] = x
    BY <1>7 DEF Surjection
  <2>2. \A i \in 1 .. n : s[i] \in S
    BY <1>5
  <2> QED
    BY <1>8, <2>1, <2>2 DEF Elements
<1> QED
  BY <1>8, <1>9 DEF s

(* A finite set of numbers has a largest element. *)
LEMMA LargestIn ==
  ASSUME NEW S \in SUBSET Int, IsFiniteSet(S), S # {}
  PROVE  Max(S) \in S /\ \A x \in S : x <= Max(S)
<1> DEFINE s == SetToSeq(S)
           n == Len(s)
           beats == {ij \in (1 .. n) \X (1 .. n) : s[ij[1]] > s[ij[2]]}
<1>1. s \in Seq(S) /\ Elements(s) = S
  BY SetInOrder
<1> HIDE DEF s
<1>2. n \in Nat \ {0} /\ \A i \in 1 .. n : s[i] \in Int
  <2>1. Elements(<<>>) = {}
    BY DEF Elements
  <2>2. s # <<>>
    BY <1>1, <2>1
  <2>3. \A i \in 1 .. n : s[i] \in S
    BY <1>1, ElementOf
  <2>4. n \in Nat /\ n # 0
    BY <1>1, <2>2
  <2> QED
    BY <2>3, <2>4
<1>3. \A i, j \in 1 .. n : <<i, j>> \in beats <=> s[i] > s[j]
  OBVIOUS
<1> HIDE DEF beats
<1>4. PICK i \in 1 .. n : FirstBest(beats, n, i)
  <2>1. /\ \A i \in 1 .. n : <<i, i>> \notin beats
        /\ \A i, j, k \in 1 .. n : <<j, i>> \notin beats /\ <<k, i>> \in beats
                                     => <<k, j>> \in beats /\ <<j, k>> \notin beats
    BY <1>2, <1>3, SMTT(30)
  <2> HIDE DEF n
  <2> QED BY <1>2, <2>1, FirstBestExists
<1>5. s[i] \in S /\ \A x \in S : s[i] >= x
  <2>1. \A j \in 1 .. n : s[i] >= s[j]
    <3> SUFFICES ASSUME NEW j \in 1 .. n PROVE s[i] >= s[j]
      OBVIOUS
    <3>1. ~(s[j] > s[i])
      BY <1>3, <1>4 DEF FirstBest
    <3>2. s[i] \in Int /\ s[j] \in Int
      BY <1>2
    <3> QED
      BY <3>1, <3>2
  <2>2. \A x \in S : \E j \in 1 .. n : x = s[j]
    BY <1>1 DEF Elements
  <2> QED
    BY <1>1, <2>1, <2>2
<1>6. Max(S) \in S /\ \A x \in S : Max(S) >= x
  BY <1>5 DEF Max
<1> QED
  BY <1>6

(* The larger and the smaller of two numbers. *)
LEMMA OfTwo ==
  ASSUME NEW a \in Int, NEW b \in Int
  PROVE  /\ Max({a, b}) = (IF a >= b THEN a ELSE b)
         /\ Min({a, b}) = (IF a <= b THEN a ELSE b)
<1> DEFINE x == IF a >= b THEN a ELSE b
           y == IF a <= b THEN a ELSE b
<1>1. x \in {a, b} /\ \A z \in {a, b} : x >= z
  OBVIOUS
<1>2. y \in {a, b} /\ \A z \in {a, b} : y <= z
  OBVIOUS
<1>3. x \in Int /\ y \in Int
  OBVIOUS
<1> HIDE DEF x, y
<1>4. Max({a, b}) = x
  <2>1. \A z \in {a, b} : (\A w \in {a, b} : z >= w) => z = x
    BY <1>1, <1>3
  <2> QED
    BY <1>1, <2>1 DEF Max
<1>5. Min({a, b}) = y
  <2>1. \A z \in {a, b} : (\A w \in {a, b} : z <= w) => z = y
    BY <1>2, <1>3
  <2> QED
    BY <1>2, <2>1 DEF Min
<1> QED
  BY <1>4, <1>5 DEF x, y

(* The largest value of something over the elements of a sequence. *)
LEMMA LargestOf ==
  ASSUME NEW P, IsFiniteSet(P), P # {}, NEW f \in [P -> Int]
  PROVE  /\ \E c \in P : Max({f[d] : d \in P}) = f[c]
         /\ \A c \in P : f[c] <= Max({f[d] : d \in P})
<1> DEFINE S == {f[d] : d \in P}
<1>1. S \in SUBSET Int /\ S # {}
  OBVIOUS
<1>2. IsFiniteSet(S)
  <2>1. f \in Surjection(P, S)
    BY DEF Surjection
  <2> HIDE DEF S
  <2> QED BY <2>1, FS_Surjection
<1>3. Max(S) \in S /\ \A x \in S : x <= Max(S)
  <2> HIDE DEF S
  <2> QED BY <1>1, <1>2, LargestIn
<1> QED
  BY <1>3

-----------------------------------------------------------------------------
(* The folds behind the evidence.                                            *)

(* One more element of those that are kept. *)
Keeping(kept, x, S) == IF x \in S THEN Append(kept, x) ELSE kept

(* One more element of the evidence. *)
Fitted(selected, x, maxItems, budget) ==
  IF Fits(selected, x, maxItems, budget) THEN Append(selected, x) ELSE selected

Fitting(s, maxItems, budget) ==
  LET Step(selected, c) == Fitted(selected, c, maxItems, budget)
  IN  FoldLeft(Step, <<>>, s)

(* One more member of a passage. *)
Extended(acc, x, limit) ==
  IF acc.full \/ Tokens(MergedCandidate(acc.passage, x)) > limit
    THEN [acc EXCEPT !.full = TRUE]
    ELSE [acc EXCEPT !.passage = MergedCandidate(@, x)]

Extending(s, start, limit) ==
  LET Step(acc, c) == Extended(acc, c, limit)
  IN  FoldLeft(Step, start, s)

(* One more seed of the merge. *)
PassageOf(acc, x, candidates, limit) ==
  LET members == Compatible(x, candidates, acc.consumed)
  IN  IF members = <<>> THEN x ELSE Passage(members, limit)

Seeded(acc, x, candidates, limit) ==
  IF x.chunk \in acc.consumed THEN acc
  ELSE [merged   |-> Append(acc.merged, PassageOf(acc, x, candidates, limit)),
        consumed |-> acc.consumed \union PassageOf(acc, x, candidates, limit).members]

NothingMerged == [merged |-> <<>>, consumed |-> {}]

Merging(s, candidates, limit) ==
  LET Step(acc, seed) == Seeded(acc, seed, candidates, limit)
  IN  FoldLeft(Step, NothingMerged, s)

AmongSteps(g, s, n, S) ==
  /\ g[0] = <<>> /\ g[n] = Among(s, S)
  /\ \A k \in 1 .. n : g[k] = Keeping(g[k - 1], s[k], S)

(* What is kept of each prefix. *)
LEMMA AmongRun ==
  ASSUME NEW V, NEW s, NEW n \in Nat, DOMAIN s = 1 .. n, NEW S, <<>> \in V,
         \A a \in V, i \in 1 .. n : Keeping(a, s[i], S) \in V
  PROVE  \E g \in [0 .. n -> V] : AmongSteps(g, s, n, S)
<1> DEFINE Eq(iter) == iter = [t \in SUBSET (1 .. n) |->
                          IF t = {} THEN <<>>
                          ELSE Keeping(iter[t \ {Max(t)}], s[Max(t)], S)]
           step == [p \in (1 .. n) \X V |-> Keeping(p[2], s[p[1]], S)]
<1>1. step \in [(1 .. n) \X V -> V]
  OBVIOUS
<1>2. \A i \in 1 .. n, a \in V : step[<<i, a>>] = Keeping(a, s[i], S)
  OBVIOUS
<1>3. PICK f \in [SUBSET (1 .. n) -> V] : LeftFold(f, n, <<>>, step)
  <2> HIDE DEF step
  <2> QED BY <1>1, LeftFoldExists
<1>4. Eq(f)
  <2>1. ASSUME NEW t \in SUBSET (1 .. n)
        PROVE  f[t] = IF t = {} THEN <<>>
                      ELSE Keeping(f[t \ {Max(t)}], s[Max(t)], S)
    <3>1. CASE t = {}
      BY <1>3, <3>1 DEF LeftFold
    <3>2. CASE t # {}
      <4>1. f[t] = step[<<Max(t), f[t \ {Max(t)}]>>]
        <5> HIDE DEF step
        <5> QED BY <1>3, <3>2 DEF LeftFold
      <4>2. Max(t) \in 1 .. n /\ f[t \ {Max(t)}] \in V
        <5>1. Max(t) \in t
          BY <3>2, MaxIn
        <5> QED
          BY <1>3, <5>1
      <4> HIDE DEF step
      <4> QED BY <1>2, <3>2, <4>1, <4>2
    <3> QED
      BY <3>1, <3>2
  <2>2. f = [t \in SUBSET (1 .. n) |-> f[t]]
    BY <1>3
  <2> QED
    BY <2>1, <2>2
<1> DEFINE c == CHOOSE iter : Eq(iter)
<1>5. Among(s, S) = c[1 .. n]
  <2>1. Among(s, S) = (CHOOSE iter : iter = [t \in SUBSET DOMAIN s |->
                IF t = {} THEN <<>>
                ELSE Keeping(iter[t \ {Max(t)}], s[Max(t)], S)])[DOMAIN s]
    BY DEF FoldLeft, MapThenFoldSet, Among, Keeping
  <2> QED
    BY <2>1
<1>6. Eq(c)
  <2> HIDE DEF Eq
  <2> QED BY <1>4
<1> HIDE DEF c
<1>7. /\ c[{}] = <<>>
      /\ \A t \in SUBSET (1 .. n) : t # {} => c[t] = Keeping(c[t \ {Max(t)}], s[Max(t)], S)
  BY <1>6
<1>8. \A t \in SUBSET (1 .. n) :
        t # {} /\ c[t \ {Max(t)}] \in V => c[t] = step[<<Max(t), c[t \ {Max(t)}]>>]
  <2> SUFFICES ASSUME NEW t \in SUBSET (1 .. n), t # {}, c[t \ {Max(t)}] \in V
               PROVE  c[t] = step[<<Max(t), c[t \ {Max(t)}]>>]
    OBVIOUS
  <2>1. Max(t) \in 1 .. n
    BY MaxIn
  <2> HIDE DEF Eq, step
  <2> QED
    BY <1>2, <1>7, <2>1
<1>9. PICK g \in [0 .. n -> V] : RunOf(g, c, n, <<>>, step)
  <2>1. Follows(c, n, V, <<>>, step)
    BY <1>7, <1>8 DEF Follows
  <2> HIDE DEF Eq, step
  <2> QED BY <1>1, <2>1, PrefixRun
<1>10. \A k \in 1 .. n : g[k] = Keeping(g[k - 1], s[k], S)
  <2>1. \A k \in 1 .. n : k - 1 \in 0 .. n
    OBVIOUS
  <2> HIDE DEF Eq, step
  <2> QED BY <1>2, <1>9, <2>1 DEF RunOf
<1> HIDE DEF Eq, step
<1> QED
  BY <1>5, <1>9, <1>10 DEF RunOf, AmongSteps

TokensSteps(g, s, n) ==
  /\ g[0] = 0 /\ g[n] = TokensOf(s)
  /\ \A k \in 1 .. n : g[k] = (g[k - 1] + Tokens(s[k]))

(* The tokens of each prefix. *)
LEMMA TokensRun ==
  ASSUME NEW V, NEW s, NEW n \in Nat, DOMAIN s = 1 .. n, 0 \in V,
         \A a \in V, i \in 1 .. n : (a + Tokens(s[i])) \in V
  PROVE  \E g \in [0 .. n -> V] : TokensSteps(g, s, n)
<1> DEFINE Eq(iter) == iter = [t \in SUBSET (1 .. n) |->
                          IF t = {} THEN 0
                          ELSE (iter[t \ {Max(t)}] + Tokens(s[Max(t)]))]
           step == [p \in (1 .. n) \X V |-> (p[2] + Tokens(s[p[1]]))]
<1>1. step \in [(1 .. n) \X V -> V]
  OBVIOUS
<1>2. \A i \in 1 .. n, a \in V : step[<<i, a>>] = (a + Tokens(s[i]))
  OBVIOUS
<1>3. PICK f \in [SUBSET (1 .. n) -> V] : LeftFold(f, n, 0, step)
  <2> HIDE DEF step
  <2> QED BY <1>1, LeftFoldExists
<1>4. Eq(f)
  <2>1. ASSUME NEW t \in SUBSET (1 .. n)
        PROVE  f[t] = IF t = {} THEN 0
                      ELSE (f[t \ {Max(t)}] + Tokens(s[Max(t)]))
    <3>1. CASE t = {}
      BY <1>3, <3>1 DEF LeftFold
    <3>2. CASE t # {}
      <4>1. f[t] = step[<<Max(t), f[t \ {Max(t)}]>>]
        <5> HIDE DEF step
        <5> QED BY <1>3, <3>2 DEF LeftFold
      <4>2. Max(t) \in 1 .. n /\ f[t \ {Max(t)}] \in V
        <5>1. Max(t) \in t
          BY <3>2, MaxIn
        <5> QED
          BY <1>3, <5>1
      <4> HIDE DEF step
      <4> QED BY <1>2, <3>2, <4>1, <4>2
    <3> QED
      BY <3>1, <3>2
  <2>2. f = [t \in SUBSET (1 .. n) |-> f[t]]
    BY <1>3
  <2> QED
    BY <2>1, <2>2
<1> DEFINE c == CHOOSE iter : Eq(iter)
<1>5. TokensOf(s) = c[1 .. n]
  <2>1. TokensOf(s) = (CHOOSE iter : iter = [t \in SUBSET DOMAIN s |->
                IF t = {} THEN 0
                ELSE (iter[t \ {Max(t)}] + Tokens(s[Max(t)]))])[DOMAIN s]
    BY DEF FoldLeft, MapThenFoldSet, TokensOf
  <2> QED
    BY <2>1
<1>6. Eq(c)
  <2> HIDE DEF Eq
  <2> QED BY <1>4
<1> HIDE DEF c
<1>7. /\ c[{}] = 0
      /\ \A t \in SUBSET (1 .. n) : t # {} => c[t] = (c[t \ {Max(t)}] + Tokens(s[Max(t)]))
  BY <1>6
<1>8. \A t \in SUBSET (1 .. n) :
        t # {} /\ c[t \ {Max(t)}] \in V => c[t] = step[<<Max(t), c[t \ {Max(t)}]>>]
  <2> SUFFICES ASSUME NEW t \in SUBSET (1 .. n), t # {}, c[t \ {Max(t)}] \in V
               PROVE  c[t] = step[<<Max(t), c[t \ {Max(t)}]>>]
    OBVIOUS
  <2>1. Max(t) \in 1 .. n
    BY MaxIn
  <2> HIDE DEF Eq, step
  <2> QED
    BY <1>2, <1>7, <2>1
<1>9. PICK g \in [0 .. n -> V] : RunOf(g, c, n, 0, step)
  <2>1. Follows(c, n, V, 0, step)
    BY <1>7, <1>8 DEF Follows
  <2> HIDE DEF Eq, step
  <2> QED BY <1>1, <2>1, PrefixRun
<1>10. \A k \in 1 .. n : g[k] = (g[k - 1] + Tokens(s[k]))
  <2>1. \A k \in 1 .. n : k - 1 \in 0 .. n
    OBVIOUS
  <2> HIDE DEF Eq, step
  <2> QED BY <1>2, <1>9, <2>1 DEF RunOf
<1> HIDE DEF Eq, step
<1> QED
  BY <1>5, <1>9, <1>10 DEF RunOf, TokensSteps

FittingSteps(g, s, n, maxItems, budget) ==
  /\ g[0] = <<>> /\ g[n] = Fitting(s, maxItems, budget)
  /\ \A k \in 1 .. n : g[k] = Fitted(g[k - 1], s[k], maxItems, budget)

(* The evidence after each of the candidates. *)
LEMMA FittingRun ==
  ASSUME NEW V, NEW s, NEW n \in Nat, DOMAIN s = 1 .. n, NEW maxItems, NEW budget, <<>> \in V,
         \A a \in V, i \in 1 .. n : Fitted(a, s[i], maxItems, budget) \in V
  PROVE  \E g \in [0 .. n -> V] : FittingSteps(g, s, n, maxItems, budget)
<1> DEFINE Eq(iter) == iter = [t \in SUBSET (1 .. n) |->
                          IF t = {} THEN <<>>
                          ELSE Fitted(iter[t \ {Max(t)}], s[Max(t)], maxItems, budget)]
           step == [p \in (1 .. n) \X V |-> Fitted(p[2], s[p[1]], maxItems, budget)]
<1>1. step \in [(1 .. n) \X V -> V]
  OBVIOUS
<1>2. \A i \in 1 .. n, a \in V : step[<<i, a>>] = Fitted(a, s[i], maxItems, budget)
  OBVIOUS
<1>3. PICK f \in [SUBSET (1 .. n) -> V] : LeftFold(f, n, <<>>, step)
  <2> HIDE DEF step
  <2> QED BY <1>1, LeftFoldExists
<1>4. Eq(f)
  <2>1. ASSUME NEW t \in SUBSET (1 .. n)
        PROVE  f[t] = IF t = {} THEN <<>>
                      ELSE Fitted(f[t \ {Max(t)}], s[Max(t)], maxItems, budget)
    <3>1. CASE t = {}
      BY <1>3, <3>1 DEF LeftFold
    <3>2. CASE t # {}
      <4>1. f[t] = step[<<Max(t), f[t \ {Max(t)}]>>]
        <5> HIDE DEF step
        <5> QED BY <1>3, <3>2 DEF LeftFold
      <4>2. Max(t) \in 1 .. n /\ f[t \ {Max(t)}] \in V
        <5>1. Max(t) \in t
          BY <3>2, MaxIn
        <5> QED
          BY <1>3, <5>1
      <4> HIDE DEF step
      <4> QED BY <1>2, <3>2, <4>1, <4>2
    <3> QED
      BY <3>1, <3>2
  <2>2. f = [t \in SUBSET (1 .. n) |-> f[t]]
    BY <1>3
  <2> QED
    BY <2>1, <2>2
<1> DEFINE c == CHOOSE iter : Eq(iter)
<1>5. Fitting(s, maxItems, budget) = c[1 .. n]
  <2>1. Fitting(s, maxItems, budget) = (CHOOSE iter : iter = [t \in SUBSET DOMAIN s |->
                IF t = {} THEN <<>>
                ELSE Fitted(iter[t \ {Max(t)}], s[Max(t)], maxItems, budget)])[DOMAIN s]
    BY DEF FoldLeft, MapThenFoldSet, Fitting
  <2> QED
    BY <2>1
<1>6. Eq(c)
  <2> HIDE DEF Eq
  <2> QED BY <1>4
<1> HIDE DEF c
<1>7. /\ c[{}] = <<>>
      /\ \A t \in SUBSET (1 .. n) : t # {} => c[t] = Fitted(c[t \ {Max(t)}], s[Max(t)], maxItems, budget)
  BY <1>6
<1>8. \A t \in SUBSET (1 .. n) :
        t # {} /\ c[t \ {Max(t)}] \in V => c[t] = step[<<Max(t), c[t \ {Max(t)}]>>]
  <2> SUFFICES ASSUME NEW t \in SUBSET (1 .. n), t # {}, c[t \ {Max(t)}] \in V
               PROVE  c[t] = step[<<Max(t), c[t \ {Max(t)}]>>]
    OBVIOUS
  <2>1. Max(t) \in 1 .. n
    BY MaxIn
  <2> HIDE DEF Eq, step
  <2> QED
    BY <1>2, <1>7, <2>1
<1>9. PICK g \in [0 .. n -> V] : RunOf(g, c, n, <<>>, step)
  <2>1. Follows(c, n, V, <<>>, step)
    BY <1>7, <1>8 DEF Follows
  <2> HIDE DEF Eq, step
  <2> QED BY <1>1, <2>1, PrefixRun
<1>10. \A k \in 1 .. n : g[k] = Fitted(g[k - 1], s[k], maxItems, budget)
  <2>1. \A k \in 1 .. n : k - 1 \in 0 .. n
    OBVIOUS
  <2> HIDE DEF Eq, step
  <2> QED BY <1>2, <1>9, <2>1 DEF RunOf
<1> HIDE DEF Eq, step
<1> QED
  BY <1>5, <1>9, <1>10 DEF RunOf, FittingSteps

ExtendingSteps(g, s, n, start, limit) ==
  /\ g[0] = start /\ g[n] = Extending(s, start, limit)
  /\ \A k \in 1 .. n : g[k] = Extended(g[k - 1], s[k], limit)

(* The passage after each member. *)
LEMMA ExtendingRun ==
  ASSUME NEW V, NEW s, NEW n \in Nat, DOMAIN s = 1 .. n, NEW start, NEW limit, start \in V,
         \A a \in V, i \in 1 .. n : Extended(a, s[i], limit) \in V
  PROVE  \E g \in [0 .. n -> V] : ExtendingSteps(g, s, n, start, limit)
<1> DEFINE Eq(iter) == iter = [t \in SUBSET (1 .. n) |->
                          IF t = {} THEN start
                          ELSE Extended(iter[t \ {Max(t)}], s[Max(t)], limit)]
           step == [p \in (1 .. n) \X V |-> Extended(p[2], s[p[1]], limit)]
<1>1. step \in [(1 .. n) \X V -> V]
  OBVIOUS
<1>2. \A i \in 1 .. n, a \in V : step[<<i, a>>] = Extended(a, s[i], limit)
  OBVIOUS
<1>3. PICK f \in [SUBSET (1 .. n) -> V] : LeftFold(f, n, start, step)
  <2> HIDE DEF step
  <2> QED BY <1>1, LeftFoldExists
<1>4. Eq(f)
  <2>1. ASSUME NEW t \in SUBSET (1 .. n)
        PROVE  f[t] = IF t = {} THEN start
                      ELSE Extended(f[t \ {Max(t)}], s[Max(t)], limit)
    <3>1. CASE t = {}
      BY <1>3, <3>1 DEF LeftFold
    <3>2. CASE t # {}
      <4>1. f[t] = step[<<Max(t), f[t \ {Max(t)}]>>]
        <5> HIDE DEF step
        <5> QED BY <1>3, <3>2 DEF LeftFold
      <4>2. Max(t) \in 1 .. n /\ f[t \ {Max(t)}] \in V
        <5>1. Max(t) \in t
          BY <3>2, MaxIn
        <5> QED
          BY <1>3, <5>1
      <4> HIDE DEF step
      <4> QED BY <1>2, <3>2, <4>1, <4>2
    <3> QED
      BY <3>1, <3>2
  <2>2. f = [t \in SUBSET (1 .. n) |-> f[t]]
    BY <1>3
  <2> QED
    BY <2>1, <2>2
<1> DEFINE c == CHOOSE iter : Eq(iter)
<1>5. Extending(s, start, limit) = c[1 .. n]
  <2>1. Extending(s, start, limit) = (CHOOSE iter : iter = [t \in SUBSET DOMAIN s |->
                IF t = {} THEN start
                ELSE Extended(iter[t \ {Max(t)}], s[Max(t)], limit)])[DOMAIN s]
    BY DEF FoldLeft, MapThenFoldSet, Extending
  <2> QED
    BY <2>1
<1>6. Eq(c)
  <2> HIDE DEF Eq
  <2> QED BY <1>4
<1> HIDE DEF c
<1>7. /\ c[{}] = start
      /\ \A t \in SUBSET (1 .. n) : t # {} => c[t] = Extended(c[t \ {Max(t)}], s[Max(t)], limit)
  BY <1>6
<1>8. \A t \in SUBSET (1 .. n) :
        t # {} /\ c[t \ {Max(t)}] \in V => c[t] = step[<<Max(t), c[t \ {Max(t)}]>>]
  <2> SUFFICES ASSUME NEW t \in SUBSET (1 .. n), t # {}, c[t \ {Max(t)}] \in V
               PROVE  c[t] = step[<<Max(t), c[t \ {Max(t)}]>>]
    OBVIOUS
  <2>1. Max(t) \in 1 .. n
    BY MaxIn
  <2> HIDE DEF Eq, step
  <2> QED
    BY <1>2, <1>7, <2>1
<1>9. PICK g \in [0 .. n -> V] : RunOf(g, c, n, start, step)
  <2>1. Follows(c, n, V, start, step)
    BY <1>7, <1>8 DEF Follows
  <2> HIDE DEF Eq, step
  <2> QED BY <1>1, <2>1, PrefixRun
<1>10. \A k \in 1 .. n : g[k] = Extended(g[k - 1], s[k], limit)
  <2>1. \A k \in 1 .. n : k - 1 \in 0 .. n
    OBVIOUS
  <2> HIDE DEF Eq, step
  <2> QED BY <1>2, <1>9, <2>1 DEF RunOf
<1> HIDE DEF Eq, step
<1> QED
  BY <1>5, <1>9, <1>10 DEF RunOf, ExtendingSteps

MergingSteps(g, s, n, candidates, limit) ==
  /\ g[0] = NothingMerged /\ g[n] = Merging(s, candidates, limit)
  /\ \A k \in 1 .. n : g[k] = Seeded(g[k - 1], s[k], candidates, limit)

(* The passages after each seed. *)
LEMMA MergingRun ==
  ASSUME NEW V, NEW s, NEW n \in Nat, DOMAIN s = 1 .. n, NEW candidates, NEW limit, NothingMerged \in V,
         \A a \in V, i \in 1 .. n : Seeded(a, s[i], candidates, limit) \in V
  PROVE  \E g \in [0 .. n -> V] : MergingSteps(g, s, n, candidates, limit)
<1> DEFINE Eq(iter) == iter = [t \in SUBSET (1 .. n) |->
                          IF t = {} THEN NothingMerged
                          ELSE Seeded(iter[t \ {Max(t)}], s[Max(t)], candidates, limit)]
           step == [p \in (1 .. n) \X V |-> Seeded(p[2], s[p[1]], candidates, limit)]
<1>1. step \in [(1 .. n) \X V -> V]
  OBVIOUS
<1>2. \A i \in 1 .. n, a \in V : step[<<i, a>>] = Seeded(a, s[i], candidates, limit)
  OBVIOUS
<1>3. PICK f \in [SUBSET (1 .. n) -> V] : LeftFold(f, n, NothingMerged, step)
  <2> HIDE DEF step
  <2> QED BY <1>1, LeftFoldExists
<1>4. Eq(f)
  <2>1. ASSUME NEW t \in SUBSET (1 .. n)
        PROVE  f[t] = IF t = {} THEN NothingMerged
                      ELSE Seeded(f[t \ {Max(t)}], s[Max(t)], candidates, limit)
    <3>1. CASE t = {}
      BY <1>3, <3>1 DEF LeftFold
    <3>2. CASE t # {}
      <4>1. f[t] = step[<<Max(t), f[t \ {Max(t)}]>>]
        <5> HIDE DEF step
        <5> QED BY <1>3, <3>2 DEF LeftFold
      <4>2. Max(t) \in 1 .. n /\ f[t \ {Max(t)}] \in V
        <5>1. Max(t) \in t
          BY <3>2, MaxIn
        <5> QED
          BY <1>3, <5>1
      <4> HIDE DEF step
      <4> QED BY <1>2, <3>2, <4>1, <4>2
    <3> QED
      BY <3>1, <3>2
  <2>2. f = [t \in SUBSET (1 .. n) |-> f[t]]
    BY <1>3
  <2> QED
    BY <2>1, <2>2
<1> DEFINE c == CHOOSE iter : Eq(iter)
<1>5. Merging(s, candidates, limit) = c[1 .. n]
  <2>1. Merging(s, candidates, limit) = (CHOOSE iter : iter = [t \in SUBSET DOMAIN s |->
                IF t = {} THEN NothingMerged
                ELSE Seeded(iter[t \ {Max(t)}], s[Max(t)], candidates, limit)])[DOMAIN s]
    BY DEF FoldLeft, MapThenFoldSet, Merging
  <2> QED
    BY <2>1
<1>6. Eq(c)
  <2> HIDE DEF Eq
  <2> QED BY <1>4
<1> HIDE DEF c
<1>7. /\ c[{}] = NothingMerged
      /\ \A t \in SUBSET (1 .. n) : t # {} => c[t] = Seeded(c[t \ {Max(t)}], s[Max(t)], candidates, limit)
  BY <1>6
<1>8. \A t \in SUBSET (1 .. n) :
        t # {} /\ c[t \ {Max(t)}] \in V => c[t] = step[<<Max(t), c[t \ {Max(t)}]>>]
  <2> SUFFICES ASSUME NEW t \in SUBSET (1 .. n), t # {}, c[t \ {Max(t)}] \in V
               PROVE  c[t] = step[<<Max(t), c[t \ {Max(t)}]>>]
    OBVIOUS
  <2>1. Max(t) \in 1 .. n
    BY MaxIn
  <2> HIDE DEF Eq, step
  <2> QED
    BY <1>2, <1>7, <2>1
<1>9. PICK g \in [0 .. n -> V] : RunOf(g, c, n, NothingMerged, step)
  <2>1. Follows(c, n, V, NothingMerged, step)
    BY <1>7, <1>8 DEF Follows
  <2> HIDE DEF Eq, step
  <2> QED BY <1>1, <2>1, PrefixRun
<1>10. \A k \in 1 .. n : g[k] = Seeded(g[k - 1], s[k], candidates, limit)
  <2>1. \A k \in 1 .. n : k - 1 \in 0 .. n
    OBVIOUS
  <2> HIDE DEF Eq, step
  <2> QED BY <1>2, <1>9, <2>1 DEF RunOf
<1> HIDE DEF Eq, step
<1> QED
  BY <1>5, <1>9, <1>10 DEF RunOf, MergingSteps

-----------------------------------------------------------------------------
(* What suppression, diversity and assembly do to the head of a sequence.    *)

(* The elements of a sequence that are in a set. *)
LEMMA AmongKeeps ==
  ASSUME NEW T, NEW s \in Seq(T), NEW S
  PROVE  Among(s, S) \in Seq(T) /\ Elements(Among(s, S)) = Elements(s) \cap S
<1> DEFINE E == Elements(s) \cap S
           V == Seq(E)
           n == Len(s)
<1>1. n \in Nat /\ DOMAIN s = 1 .. n /\ \A i \in 1 .. n : s[i] \in Elements(s)
  BY ElementsOf
<1>2. <<>> \in V
  OBVIOUS
<1>3. \A a \in V, i \in 1 .. n : Keeping(a, s[i], S) \in V
  <2> SUFFICES ASSUME NEW a \in V, NEW i \in 1 .. n PROVE Keeping(a, s[i], S) \in V
    OBVIOUS
  <2>1. CASE s[i] \in S
    <3>1. s[i] \in E
      BY <1>1, <2>1
    <3> HIDE DEF E
    <3> QED BY <2>1, <3>1 DEF Keeping
  <2>2. CASE s[i] \notin S
    BY <2>2 DEF Keeping
  <2> QED
    BY <2>1, <2>2
<1>4. PICK g \in [0 .. n -> V] : AmongSteps(g, s, n, S)
  <2> HIDE DEF V, n
  <2> QED BY <1>1, <1>2, <1>3, AmongRun
<1>5. /\ g[0] = <<>> /\ g[n] = Among(s, S) /\ \A k \in 0 .. n : g[k] \in Seq(E)
      /\ \A k \in 1 .. n : g[k] = Keeping(g[k - 1], s[k], S)
  BY <1>1, <1>4 DEF AmongSteps
<1> DEFINE M == {k \in Nat : k <= n => \A i \in 1 .. k : s[i] \in S => s[i] \in Elements(g[k])}
<1>6. 0 \in M
  BY 1 .. 0 = {}
<1>7. ASSUME NEW k \in Nat, k \in M PROVE k + 1 \in M
  <2> SUFFICES ASSUME k + 1 <= n, NEW i \in 1 .. k + 1, s[i] \in S
               PROVE  s[i] \in Elements(g[k + 1])
    OBVIOUS
  <2>1. /\ k + 1 \in 1 .. n /\ (k + 1) - 1 = k /\ k \in 0 .. n
        /\ \A j \in 1 .. k : s[j] \in S => s[j] \in Elements(g[k])
    BY <1>7
  <2>2. g[k + 1] = Keeping(g[k], s[k + 1], S) /\ g[k] \in Seq(E)
    BY <1>5, <2>1
  <2> HIDE DEF E
  <2>3. CASE s[k + 1] \in S
    <3>1. g[k + 1] = Append(g[k], s[k + 1]) /\ s[k + 1] \in E
      BY <1>1, <2>1, <2>2, <2>3 DEF Keeping, E
    <3>2. Elements(g[k + 1]) = Elements(g[k]) \union {s[k + 1]}
      BY <2>2, <3>1, ElementsOfAppend, SMTT(30)
    <3>3. i \in 1 .. k \/ i = k + 1
      BY <2>1
    <3> QED
      BY <2>1, <3>2, <3>3
  <2>4. CASE s[k + 1] \notin S
    <3>1. g[k + 1] = g[k] /\ i \in 1 .. k
      BY <2>1, <2>2, <2>4 DEF Keeping
    <3> QED
      BY <2>1, <3>1
  <2> QED
    BY <2>3, <2>4
<1>8. Nat \subseteq M
  <2> HIDE DEF M
  <2> QED BY <1>6, <1>7, SetInduction
<1> DEFINE r == Among(s, S)
<1>9. r \in Seq(E) /\ \A i \in 1 .. n : s[i] \in S => s[i] \in Elements(r)
  BY <1>1, <1>5, <1>8
<1> HIDE DEF r
<1>10. Elements(r) \subseteq E
  <2> HIDE DEF E
  <2> QED BY <1>9, ElementsOf
<1>11. E \subseteq Elements(r)
  <2> SUFFICES ASSUME NEW x \in Elements(s), x \in S PROVE x \in Elements(r)
    OBVIOUS
  <2>1. PICK i \in 1 .. n : x = s[i]
    BY ElementsOf
  <2> QED
    BY <1>9, <2>1
<1>12. r \in Seq(T)
  <2>1. \A i \in 1 .. Len(r) : r[i] \in T
    BY <1>9, ElementsOf, ElementOf
  <2> QED
    BY <1>9, <2>1
<1> QED
  BY <1>10, <1>11, <1>12 DEF r

(* The suppression retains the first of its candidates, in its place. *)
LEMMA SuppressionKeepsHead ==
  ASSUME NEW T, NEW s \in Seq(T), s # <<>>
  PROVE  /\ SuppressDuplicates(s) \in Seq(Elements(s)) /\ SuppressDuplicates(s) # <<>>
         /\ SuppressDuplicates(s)[1] = s[1]
<1> DEFINE r == SuppressDuplicates(s)
<1>1. s \in Seq(Elements(s))
  BY ElementsOf
<1>2. PICK w : r \in Seq(Elements(s)) /\ Distinct(r, s, w)
  BY <1>1, SuppressionIsDistinct
<1> HIDE DEF r
<1>3. 1 \in 1 .. Len(s) /\ 1 .. 1 - 1 = {}
  OBVIOUS
<1>4. PICK i \in 1 .. Len(r) : w[i] = 1
  BY <1>2, <1>3 DEF Distinct
<1>5. Len(r) \in Nat /\ 1 \in 1 .. Len(r)
  BY <1>2
<1>6. i = 1
  <2>1. 1 < i => w[1] < w[i]
    BY <1>2, <1>5 DEF Distinct
  <2>2. w[1] \in 1 .. Len(s)
    BY <1>2, <1>5 DEF Distinct
  <2> QED
    BY <1>4, <2>1, <2>2
<1>7. r[1] = s[1]
  BY <1>2, <1>4, <1>5, <1>6 DEF Distinct
<1> QED
  BY <1>2, <1>5, <1>7 DEF r

(* The states of the diversity selection, and the candidate a round takes. *)
StatesOf(T) == [remaining : Seq(T), selected : Seq(T)]

Takes(a, next, penalty) ==
  IF a.remaining = <<>> THEN next = a
  ELSE \E b \in 1 .. Len(a.remaining) :
         /\ next.selected = Append(a.selected, a.remaining[b])
         /\ \A j \in 1 .. b - 1 :
              Beats(a.remaining[b], a.remaining[j], a.selected, penalty)

(* What one round does. *)
LEMMA RoundTakes ==
  ASSUME NEW T, Graded(T), NEW a \in StatesOf(T), NEW penalty \in Nat
  PROVE  /\ DiversityRound(a, penalty) \in StatesOf(T)
         /\ Takes(a, DiversityRound(a, penalty), penalty)
<1>1. a.remaining \in Seq(T) /\ a.selected \in Seq(T)
  BY DEF StatesOf
<1>2. CASE a.remaining = <<>>
  BY <1>2 DEF DiversityRound, Takes
<1>3. CASE a.remaining # <<>>
  <2> DEFINE b == Best(a.remaining, a.selected, penalty)
  <2>1. /\ b \in 1 .. Len(a.remaining)
        /\ \A j \in 1 .. b - 1 : Beats(a.remaining[b], a.remaining[j], a.selected, penalty)
    BY <1>1, <1>3, BestIn
  <2>2. DiversityRound(a, penalty)
          = [remaining |-> RemoveAt(a.remaining, b), selected |-> Append(a.selected, a.remaining[b])]
    BY <1>3 DEF DiversityRound
  <2> HIDE DEF b
  <2>3. RemoveAt(a.remaining, b) \in Seq(T) /\ a.remaining[b] \in T
    BY <1>1, <2>1, Removed, ElementOf
  <2>4. Append(a.selected, a.remaining[b]) \in Seq(T)
    BY <1>1, <2>3
  <2>5. DiversityRound(a, penalty) \in StatesOf(T)
    BY <2>2, <2>3, <2>4 DEF StatesOf
  <2>6. DiversityRound(a, penalty).selected = Append(a.selected, a.remaining[b])
    BY <2>2
  <2> QED
    BY <1>3, <2>1, <2>5, <2>6 DEF Takes
<1> QED
  BY <1>2, <1>3

(* The first round takes the first of the candidates where none has a higher *)
(* score: no Document is there yet.                                          *)
LEMMA FirstRound ==
  ASSUME NEW T, Graded(T), NEW s \in Seq(T), NEW penalty \in Nat,
         NEW b \in 1 .. Len(s), \A j \in 1 .. b - 1 : Beats(s[b], s[j], <<>>, penalty),
         EffectiveScore(s[b]) <= EffectiveScore(s[1])
  PROVE  b = 1
<1> SUFFICES ASSUME b # 1 PROVE FALSE
  OBVIOUS
<1>1. 1 \in 1 .. b - 1 /\ 1 \in 1 .. Len(s)
  OBVIOUS
<1>2. Beats(s[b], s[1], <<>>, penalty)
  BY <1>1
<1>3. <<>> \in Seq(T) /\ \A i \in 1 .. Len(<<>>) : FALSE
  OBVIOUS
<1>4. \A x : Divisor(x, <<>>, penalty) = 2 * Unit /\ 2 * Unit \in Nat \ {0}
  BY <1>3, Divisors
<1>5. EffectiveScore(s[b]) * (2 * Unit) > EffectiveScore(s[1]) * (2 * Unit)
  BY <1>2, <1>4 DEF Beats
<1>6. EffectiveScore(s[b]) \in Int /\ EffectiveScore(s[1]) \in Int
  BY <1>1, CandidateFields, ElementOf
<1>7. \A x, y \in Int, t \in Nat \ {0} : x <= y => ~(x * t > y * t)
  OBVIOUS
<1> QED
  BY <1>4, <1>5, <1>6, <1>7

(* The diversity selection starts with the first candidate where none has a *)
(* higher score, and takes only candidates.                                 *)
LEMMA DiversityKeepsHead ==
  ASSUME NEW T, Graded(T), NEW s \in Seq(T), s # <<>>,
         NEW limit \in Nat \ {0}, NEW penalty \in Nat,
         \A i \in 1 .. Len(s) : EffectiveScore(s[i]) <= EffectiveScore(s[1])
  PROVE  /\ Diversify(s, limit, penalty) \in Seq(Elements(s))
         /\ Diversify(s, limit, penalty) # <<>>
         /\ Diversify(s, limit, penalty)[1] = s[1]
<1> DEFINE E == Elements(s)
           distinct == SuppressDuplicates(s)
           start == [remaining |-> distinct, selected |-> <<>>]
           rounds == [round \in 1 .. limit |-> round]
           r == Diversify(s, limit, penalty)
<1>1. distinct \in Seq(E) /\ distinct # <<>> /\ distinct[1] = s[1]
  BY SuppressionKeepsHead
<1>2. Graded(E) /\ \A x \in E : EffectiveScore(x) <= EffectiveScore(s[1])
  <2>1. E \subseteq T /\ \A x \in E : \E i \in 1 .. Len(s) : x = s[i]
    BY ElementsOf
  <2> HIDE DEF E
  <2> QED BY <2>1 DEF Graded
<1> HIDE DEF E
<1>3. start \in StatesOf(E)
  <2>1. <<>> \in Seq(E)
    OBVIOUS
  <2> HIDE DEF distinct
  <2> QED BY <1>1, <2>1 DEF StatesOf
<1>4. PICK g \in [0 .. limit -> StatesOf(E)] : SpreadSteps(g, rounds, limit, start, penalty)
  <2>1. DOMAIN rounds = 1 .. limit
    OBVIOUS
  <2>2. \A a \in StatesOf(E), i \in 1 .. limit : DiversityRound(a, penalty) \in StatesOf(E)
    BY <1>2, RoundTakes
  <2> HIDE DEF rounds, start
  <2> QED BY <1>3, <2>1, <2>2, SpreadRun
<1>5. /\ g[0] = start /\ g[limit].selected = r
      /\ \A k \in 1 .. limit : g[k] = DiversityRound(g[k - 1], penalty)
  BY <1>4 DEF SpreadSteps, Spreading, Diversify
<1> HIDE DEF r, rounds
<1>6. /\ g[0] \in StatesOf(E) /\ g[0].remaining = distinct /\ g[0].selected = <<>>
      /\ \A k \in 0 .. limit : g[k] \in StatesOf(E)
  BY <1>3, <1>4, <1>5
<1> HIDE DEF start, distinct
<1> DEFINE Starts(k) == g[k].selected # <<>> /\ g[k].selected[1] = s[1]
           M == {k \in Nat : k + 1 <= limit => Starts(k + 1)}
<1>7. 0 \in M
  <2>1. 1 \in 1 .. limit /\ 1 - 1 = 0
    OBVIOUS
  <2>2. g[1] = DiversityRound(g[0], penalty)
    BY <1>5, <2>1
  <2>3. PICK b \in 1 .. Len(distinct) :
           /\ g[1].selected = Append(<<>>, distinct[b])
           /\ \A j \in 1 .. b - 1 : Beats(distinct[b], distinct[j], <<>>, penalty)
    <3>1. Takes(g[0], g[1], penalty)
      BY <1>2, <1>6, <2>2, RoundTakes
    <3> QED
      BY <1>1, <1>6, <3>1 DEF Takes
  <2>4. EffectiveScore(distinct[b]) <= EffectiveScore(distinct[1])
    BY <1>1, <1>2, ElementOf
  <2>5. b = 1
    BY <1>1, <1>2, <2>3, <2>4, FirstRound
  <2>6. g[1].selected = <<s[1]>>
    BY <1>1, <2>3, <2>5
  <2> QED
    BY <2>6
<1>8. ASSUME NEW k \in Nat, k \in M PROVE k + 1 \in M
  <2> SUFFICES ASSUME (k + 1) + 1 <= limit PROVE Starts((k + 1) + 1)
    OBVIOUS
  <2> DEFINE m == k + 1
  <2>1. m \in 0 .. limit /\ m + 1 \in 1 .. limit /\ (m + 1) - 1 = m /\ Starts(m)
    BY <1>8
  <2> HIDE DEF m
  <2>2. g[m + 1] = DiversityRound(g[m], penalty) /\ g[m] \in StatesOf(E)
    BY <1>5, <1>6, <2>1
  <2>3. g[m].selected \in Seq(E) /\ g[m].remaining \in Seq(E)
    BY <2>2 DEF StatesOf
  <2>6. Takes(g[m], g[m + 1], penalty)
    BY <1>2, <2>2, RoundTakes
  <2>4. CASE g[m].remaining = <<>>
    <3>1. g[m + 1] = g[m]
      BY <2>4, <2>6 DEF Takes
    <3> QED
      BY <2>1, <3>1 DEF m
  <2>5. CASE g[m].remaining # <<>>
    <3>1. PICK b \in 1 .. Len(g[m].remaining) :
             g[m + 1].selected = Append(g[m].selected, g[m].remaining[b])
      BY <2>5, <2>6 DEF Takes
    <3>3. \A q \in Seq(E), x \in E : q # <<>> => Append(q, x) # <<>> /\ Append(q, x)[1] = q[1]
      OBVIOUS
    <3>4. g[m].remaining[b] \in E
      BY <2>3, ElementOf
    <3>2. Append(g[m].selected, g[m].remaining[b]) # <<>>
          /\ Append(g[m].selected, g[m].remaining[b])[1] = g[m].selected[1]
      BY <2>1, <2>3, <3>3, <3>4
    <3> QED
      BY <2>1, <3>1, <3>2 DEF m
  <2> QED
    BY <2>4, <2>5
<1>9. limit - 1 \in Nat /\ (limit - 1) + 1 = limit
  OBVIOUS
<1>10. Starts(limit)
  <2>1. Nat \subseteq M
    <3> HIDE DEF M
    <3> QED BY <1>7, <1>8, SetInduction
  <2>2. limit - 1 \in M
    BY <1>9, <2>1
  <2> HIDE DEF Starts
  <2>3. (limit - 1) + 1 <= limit => Starts((limit - 1) + 1)
    BY <2>2
  <2> QED
    BY <1>9, <2>3
<1>11. r \in Seq(E)
  <2>1. limit \in 0 .. limit
    OBVIOUS
  <2>2. g[limit] \in StatesOf(E)
    BY <1>6, <2>1
  <2> HIDE DEF Starts, M
  <2> QED
    BY <1>5, <2>2 DEF StatesOf
<1> QED
  BY <1>5, <1>10, <1>11 DEF r, E

(* Candidates with a text. *)
Textual(T) == \A x \in T : x.start \in Int /\ x.end \in Int

(* The tokens of a text, and of a sequence and one more. *)
LEMMA TokensIn ==
  ASSUME NEW T, Textual(T), NEW x \in T
  PROVE  Tokens(x) \in Int
BY DEF Textual, Tokens

(* The tokens of a sequence are counted from its first element on. *)
LEMMA TokensCount ==
  ASSUME NEW T, Textual(T), NEW s \in Seq(T)
  PROVE  \E g \in [0 .. Len(s) -> Int] : TokensSteps(g, s, Len(s))
<1>1. Len(s) \in Nat /\ DOMAIN s = 1 .. Len(s) /\ 0 \in Int
  OBVIOUS
<1>2. \A a \in Int, i \in 1 .. Len(s) : (a + Tokens(s[i])) \in Int
  BY TokensIn, ElementOf
<1> QED
  BY <1>1, <1>2, TokensRun

(* One more text adds its tokens. *)
LEMMA TokensAdd ==
  ASSUME NEW T, Textual(T), NEW s \in Seq(T), NEW x \in T
  PROVE  /\ TokensOf(s) \in Int /\ TokensOf(<<>>) = 0
         /\ TokensOf(Append(s, x)) = TokensOf(s) + Tokens(x)
<1> DEFINE r == Append(s, x)
           n == Len(s)
<1>1. /\ n \in Nat /\ r \in Seq(T) /\ Len(r) = n + 1 /\ r[n + 1] = x
      /\ \A i \in 1 .. n : r[i] = s[i]
  OBVIOUS
<1>2. PICK f \in [0 .. n -> Int] : TokensSteps(f, s, n)
  BY TokensCount
<1> HIDE DEF r
<1>3. PICK g \in [0 .. n + 1 -> Int] : TokensSteps(g, r, n + 1)
  BY <1>1, TokensCount
<1>4. /\ f[0] = 0 /\ f[n] = TokensOf(s)
      /\ \A k \in 1 .. n : f[k] = (f[k - 1] + Tokens(s[k]))
  BY <1>2 DEF TokensSteps
<1>5. /\ g[0] = 0 /\ g[n + 1] = TokensOf(r)
      /\ \A k \in 1 .. n + 1 : g[k] = (g[k - 1] + Tokens(r[k]))
  BY <1>3 DEF TokensSteps
<1> DEFINE M == {k \in Nat : k <= n => f[k] = g[k]}
<1>6. 0 \in M
  BY <1>4, <1>5
<1>7. ASSUME NEW k \in Nat, k \in M PROVE k + 1 \in M
  <2> SUFFICES ASSUME k + 1 <= n PROVE f[k + 1] = g[k + 1]
    OBVIOUS
  <2>1. k + 1 \in 1 .. n /\ k + 1 \in 1 .. n + 1 /\ (k + 1) - 1 = k /\ f[k] = g[k]
    BY <1>1, <1>7
  <2> QED
    BY <1>1, <1>4, <1>5, <2>1
<1>8. f[n] = g[n]
  <2>1. Nat \subseteq M
    <3> HIDE DEF M
    <3> QED BY <1>6, <1>7, SetInduction
  <2> QED
    BY <1>1, <2>1
<1>9. TokensOf(r) = TokensOf(s) + Tokens(x)
  <2>1. n + 1 \in 1 .. n + 1 /\ (n + 1) - 1 = n
    BY <1>1
  <2> QED
    BY <1>1, <1>4, <1>5, <1>8, <2>1
<1>10. TokensOf(<<>>) = 0
  <2>1. <<>> \in Seq(T) /\ Len(<<>>) = 0
    OBVIOUS
  <2>2. PICK h \in [0 .. 0 -> Int] : TokensSteps(h, <<>>, 0)
    BY <2>1, TokensCount
  <2> QED
    BY <2>2 DEF TokensSteps
<1>11. TokensOf(s) \in Int
  BY <1>1, <1>2, <1>4
<1> QED
  BY <1>9, <1>10, <1>11 DEF r

(* What assembly makes of a sequence within a number of items and of tokens: *)
(* no text twice, and the first of the sequence first where it fits.         *)
Assembled(r, s, maxItems, budget) ==
  /\ Len(r) <= maxItems /\ TokensOf(r) <= budget
  /\ \A i, j \in 1 .. Len(r) : i # j => ~SameText(r[i], r[j])
  /\ s # <<>> /\ Tokens(s[1]) <= budget => r # <<>> /\ r[1] = s[1]

(* Assembly assembles. *)
LEMMA AssemblyAssembles ==
  ASSUME NEW T, Textual(T), NEW s \in Seq(T), NEW maxItems \in Nat \ {0}, NEW budget \in Nat
  PROVE  /\ Assemble(s, maxItems, budget) \in Seq(Elements(s))
         /\ Assembled(Assemble(s, maxItems, budget), s, maxItems, budget)
<1> DEFINE E == Elements(s)
           d == SuppressDuplicates(s)
           n == Len(d)
           r == Assemble(s, maxItems, budget)
<1>1. s \in Seq(E) /\ E \subseteq T /\ Textual(E)
  BY ElementsOf DEF Textual
<1> HIDE DEF E
<1>2. PICK v : d \in Seq(E) /\ Distinct(d, s, v)
  BY <1>1, SuppressionIsDistinct
<1>3. r = Fitting(d, maxItems, budget)
  BY DEF Assemble, Fitting, Fitted
<1> HIDE DEF d, r
<1>4. n \in Nat /\ DOMAIN d = 1 .. n /\ \A i \in 1 .. n : d[i] \in E
  BY <1>2, ElementOf
<1>5. \A a \in Seq(E), i \in 1 .. n : Fitted(a, d[i], maxItems, budget) \in Seq(E)
  BY <1>4 DEF Fitted
<1>6. PICK g \in [0 .. n -> Seq(E)] : FittingSteps(g, d, n, maxItems, budget)
  <2>1. <<>> \in Seq(E)
    OBVIOUS
  <2> HIDE DEF n
  <2> QED BY <1>4, <1>5, <2>1, FittingRun
<1>7. /\ g[0] = <<>> /\ g[n] = r /\ \A k \in 0 .. n : g[k] \in Seq(E)
      /\ \A k \in 1 .. n : g[k] = Fitted(g[k - 1], d[k], maxItems, budget)
  BY <1>3, <1>6 DEF FittingSteps
<1> DEFINE taken == {k \in 1 .. n : Fits(g[k - 1], d[k], maxItems, budget)}
<1>8. Picks(g, d, taken)
  <2>1. \A k \in 1 .. n : k \in taken <=> Fits(g[k - 1], d[k], maxItems, budget)
    OBVIOUS
  <2> HIDE DEF taken
  <2> QED BY <1>7, <2>1 DEF Picks, Fitted
<1>9. PICK w : PicksAt(g, d, taken, n, w)
  <2> HIDE DEF taken
  <2> QED BY <1>2, <1>6, <1>8, PicksInOrder
<1>10. /\ r \in Seq(E) /\ \A i \in 1 .. Len(r) : w[i] \in 1 .. n /\ r[i] = d[w[i]]
       /\ \A i, j \in 1 .. Len(r) : i < j => w[i] < w[j]
  <2>1. taken \cap (1 .. n) \subseteq 1 .. n
    OBVIOUS
  <2> HIDE DEF taken
  <2>2. /\ w \in [1 .. Len(g[n]) -> taken \cap (1 .. n)]
        /\ \A i, j \in 1 .. Len(g[n]) : i < j => w[i] < w[j]
        /\ \A i \in 1 .. Len(g[n]) : g[n][i] = d[w[i]]
    BY <1>9 DEF PicksAt
  <2>3. n \in 0 .. n
    BY <1>4
  <2> HIDE DEF n
  <2> QED BY <1>7, <2>1, <2>2, <2>3
<1>11. ASSUME NEW i \in 1 .. Len(r), NEW j \in 1 .. Len(r), i # j PROVE ~SameText(r[i], r[j])
  <2>1. w[i] < w[j] \/ w[j] < w[i]
    BY <1>10, <1>11
  <2>2. ~SameText(d[w[i]], d[w[j]])
    <3>1. SameText(d[w[i]], d[w[j]]) <=> SameText(d[w[j]], d[w[i]])
      BY DEF SameText
    <3> QED
      BY <1>2, <1>10, <2>1, <3>1 DEF Distinct
  <2> QED
    BY <1>10, <2>2
<1> DEFINE Modest(k) == Len(g[k]) <= maxItems /\ TokensOf(g[k]) <= budget
           M == {k \in Nat : k <= n => Modest(k)}
<1>12. 0 \in M
  <2>1. TokensOf(<<>>) = 0 \/ E = {}
    <3> SUFFICES ASSUME NEW x \in E PROVE TokensOf(<<>>) = 0
      OBVIOUS
    <3>1. <<>> \in Seq(E)
      OBVIOUS
    <3> QED
      BY <1>1, <3>1, TokensAdd
  <2>2. TokensOf(<<>>) = 0
    <3>1. Textual({}) /\ <<>> \in Seq({}) /\ Len(<<>>) = 0
      BY DEF Textual
    <3>2. PICK h \in [0 .. 0 -> Int] : TokensSteps(h, <<>>, 0)
      BY <3>1, TokensCount
    <3> QED
      BY <3>2 DEF TokensSteps
  <2> QED
    BY <1>7, <2>2
<1>13. ASSUME NEW k \in Nat, k \in M PROVE k + 1 \in M
  <2> SUFFICES ASSUME k + 1 <= n PROVE Modest(k + 1)
    OBVIOUS
  <2>1. k + 1 \in 1 .. n /\ (k + 1) - 1 = k /\ k \in 0 .. n /\ Modest(k)
    BY <1>13
  <2>2. g[k + 1] = Fitted(g[k], d[k + 1], maxItems, budget) /\ g[k] \in Seq(E) /\ d[k + 1] \in E
    BY <1>4, <1>7, <2>1
  <2>3. CASE Fits(g[k], d[k + 1], maxItems, budget)
    <3>1. g[k + 1] = Append(g[k], d[k + 1])
      BY <2>2, <2>3 DEF Fitted
    <3>2. TokensOf(g[k + 1]) = TokensOf(g[k]) + Tokens(d[k + 1])
      BY <1>1, <2>2, <3>1, TokensAdd
    <3>3. Len(g[k + 1]) = Len(g[k]) + 1 /\ Len(g[k]) \in Nat
      BY <2>2, <3>1
    <3> QED
      BY <2>3, <3>2, <3>3 DEF Fits
  <2>4. CASE ~Fits(g[k], d[k + 1], maxItems, budget)
    BY <2>1, <2>2, <2>4 DEF Fitted
  <2> QED
    BY <2>3, <2>4
<1>14. Modest(n)
  <2>1. Nat \subseteq M
    <3> HIDE DEF M
    <3> QED BY <1>12, <1>13, SetInduction
  <2> HIDE DEF Modest
  <2> QED BY <1>4, <2>1
<1>15. ASSUME s # <<>>, Tokens(s[1]) <= budget PROVE r # <<>> /\ r[1] = s[1]
  <2>1. d # <<>> /\ d[1] = s[1] /\ 1 \in 1 .. n
    <3>1. d # <<>> /\ d[1] = s[1]
      BY <1>15, SuppressionKeepsHead DEF d
    <3> QED
      BY <1>2, <3>1
  <2> DEFINE Starts(k) == g[k] # <<>> /\ g[k][1] = s[1]
             S == {k \in Nat : k + 1 <= n => Starts(k + 1)}
  <2>2. 0 \in S
    <3>1. 1 - 1 = 0 /\ Len(<<>>) = 0
      OBVIOUS
    <3>2. d[1] \in E /\ <<>> \in Seq(E)
      BY <1>4, <2>1
    <3>3. TokensOf(<<>>) = 0 /\ Tokens(d[1]) \in Int
      BY <1>1, <3>2, TokensAdd, TokensIn
    <3>4. Fits(<<>>, d[1], maxItems, budget)
      BY <1>15, <2>1, <3>1, <3>3 DEF Fits
    <3>6. g[1] = Fitted(g[0], d[1], maxItems, budget)
      BY <1>7, <2>1, <3>1
    <3>5. g[1] = Append(<<>>, d[1])
      BY <1>7, <3>4, <3>6 DEF Fitted
    <3> QED
      BY <2>1, <3>5
  <2>3. ASSUME NEW k \in Nat, k \in S PROVE k + 1 \in S
    <3> SUFFICES ASSUME (k + 1) + 1 <= n PROVE Starts((k + 1) + 1)
      OBVIOUS
    <3> DEFINE m == k + 1
    <3>1. m \in 0 .. n /\ m + 1 \in 1 .. n /\ (m + 1) - 1 = m /\ Starts(m)
      BY <2>3
    <3> HIDE DEF m
    <3>2. g[m + 1] = Fitted(g[m], d[m + 1], maxItems, budget) /\ g[m] \in Seq(E) /\ d[m + 1] \in E
      BY <1>4, <1>7, <3>1
    <3>3. \A q \in Seq(E), x \in E : q # <<>> => Append(q, x) # <<>> /\ Append(q, x)[1] = q[1]
      OBVIOUS
    <3>4. g[m + 1] = g[m] \/ g[m + 1] = Append(g[m], d[m + 1])
      BY <3>2 DEF Fitted
    <3>5. Starts(m + 1)
      BY <3>1, <3>2, <3>3, <3>4
    <3> QED
      BY <3>5 DEF m
  <2>4. n - 1 \in Nat /\ (n - 1) + 1 = n
    BY <1>4, <2>1
  <2>5. Nat \subseteq S
    <3> HIDE DEF S
    <3> QED BY <2>2, <2>3, SetInduction
  <2>6. Starts(n)
    <3>1. n - 1 \in S
      <4> HIDE DEF S
      <4> QED BY <2>4, <2>5
    <3> HIDE DEF Starts, n
    <3> QED BY <2>4, <3>1
  <2> QED
    BY <1>7, <2>6
<1>16. Assembled(r, s, maxItems, budget)
  BY <1>7, <1>11, <1>14, <1>15 DEF Assembled
<1> QED
  BY <1>10, <1>16 DEF r, E

-----------------------------------------------------------------------------
(* Sorting by the scores and by the place in the Document.                   *)

(* r has the elements of s, by the first component of their keys and, among *)
(* equal keys, by their places.                                             *)
Sorting(from, r, s, keys) ==
  /\ Len(r) = Len(s)
  /\ \A m \in 1 .. Len(s) : from[m] \in 1 .. Len(s) /\ r[m] = s[from[m]]
  /\ \A i \in 1 .. Len(s) : \E m \in 1 .. Len(s) : from[m] = i
  /\ \A m, p \in 1 .. Len(s) : m < p => keys[from[m]][1] >= keys[from[p]][1]
  /\ \A m, p \in 1 .. Len(s) : m < p /\ keys[from[m]] = keys[from[p]] => from[m] < from[p]

(* Every element of s has a key of the length l. *)
Keyed(s, keys, l) == l \in Nat \ {0} /\ \A i \in 1 .. Len(s) : IsKey(keys[i], l)

(* Sorting by keys sorts. *)
LEMMA SortingSorts ==
  ASSUME NEW T, NEW s \in Seq(T), NEW keys, NEW l, Keyed(s, keys, l)
  PROVE  /\ SortedBy(s, keys) \in Seq(T) /\ Elements(SortedBy(s, keys)) = Elements(s)
         /\ \E from : Sorting(from, SortedBy(s, keys), s, keys)
<1> DEFINE r == SortedBy(s, keys)
<1>1. /\ Len(s) \in Nat /\ l \in Nat /\ l \in Nat \ {0}
      /\ \A i \in 1 .. Len(s) : IsKey(keys[i], l)
  BY DEF Keyed
<1>2. PICK from : Arranges(from, r, s, keys)
  <2> HIDE DEF r
  <2>1. \E from : Arranges(from, SortedBy(s, keys), s, keys)
    BY <1>1, SortingArranges
  <2> QED
    BY <2>1 DEF r
<1> HIDE DEF r
<1>3. /\ r \in Seq(T) /\ Len(r) = Len(s)
      /\ from \in [1 .. Len(s) -> 1 .. Len(s)]
      /\ \A m \in 1 .. Len(s) : r[m] = s[from[m]]
      /\ \A i \in 1 .. Len(s) : \E m \in 1 .. Len(s) : from[m] = i
      /\ \A m, p \in 1 .. Len(s) : m < p => keys[from[m]][1] >= keys[from[p]][1]
      /\ \A m, p \in 1 .. Len(s) : m < p /\ keys[from[m]] = keys[from[p]] => from[m] < from[p]
  BY <1>1, <1>2, Arranged
<1>4. Sorting(from, r, s, keys)
  BY <1>3 DEF Sorting
<1>5. Elements(r) = Elements(s)
  <2>1. \A m \in 1 .. Len(s) : r[m] \in Elements(s)
    BY <1>4 DEF Sorting, Elements
  <2>2. ASSUME NEW i \in 1 .. Len(s) PROVE s[i] \in Elements(r)
    <3>1. PICK m \in 1 .. Len(s) : from[m] = i
      BY <1>3
    <3> QED
      BY <1>3, <3>1 DEF Elements
  <2>3. \A x \in Elements(r) : \E m \in 1 .. Len(s) : x = r[m]
    BY <1>3 DEF Elements
  <2>4. \A x \in Elements(s) : \E i \in 1 .. Len(s) : x = s[i]
    BY DEF Elements
  <2>5. Elements(r) \subseteq Elements(s)
    BY <2>1, <2>3
  <2>6. Elements(s) \subseteq Elements(r)
    BY <2>2, <2>4
  <2> QED
    BY <2>5, <2>6
<1> QED
  BY <1>3, <1>4, <1>5 DEF r

(* The rows of chunks have scores and a text. *)
LEMMA RowFields ==
  /\ Graded(Rows) /\ Textual(Rows)
  /\ \A x \in Rows : /\ x.ordinal \in Int /\ x.sim \in Int /\ x.lex \in Int
                     /\ x.fused \in Int /\ x.rerank \in Int
<1>1. \A x \in Rows : /\ x.ordinal \in Int /\ x.sim \in Int /\ x.lex \in Int
                      /\ x.fused \in Int /\ x.rerank \in Int
                      /\ x.start \in Int /\ x.end \in Int
  BY DEF Rows
<1> QED
  BY <1>1 DEF Graded, Textual

(* Every row has an effective score. *)
LEMMA RowScore ==
  ASSUME NEW x \in Rows PROVE EffectiveScore(x) \in Int
BY RowFields, CandidateFields

(* r is s with the scores, best first. *)
Rescored(r, s, scores) ==
  /\ Len(r) = Len(s)
  /\ \A m \in 1 .. Len(s) : \E i \in 1 .. Len(s) : r[m] = [s[i] EXCEPT !.rerank = scores[i]]
  /\ \A m, p \in 1 .. Len(s) : m < p => EffectiveScore(r[m]) >= EffectiveScore(r[p])

(* Reranking sorts by the new scores. *)
LEMMA RerankSorts ==
  ASSUME NEW s \in Seq(Rows), NEW scores, \A i \in 1 .. Len(s) : scores[i] \in Int
  PROVE  Rerank(s, scores) \in Seq(Rows) /\ Rescored(Rerank(s, scores), s, scores)
<1> DEFINE n == Len(s)
           scored == [i \in 1 .. n |-> [s[i] EXCEPT !.rerank = scores[i]]]
           keys == RerankKeys(scored)
           r == Rerank(s, scores)
<1>1. n \in Nat /\ \A i \in 1 .. n : s[i] \in Rows
  BY ElementOf
<1>2. \A i \in 1 .. n : [s[i] EXCEPT !.rerank = scores[i]] \in Rows
  <2> SUFFICES ASSUME NEW i \in 1 .. n PROVE [s[i] EXCEPT !.rerank = scores[i]] \in Rows
    OBVIOUS
  <2>1. \A x \in Rows, z \in Int : [x EXCEPT !.rerank = z] \in Rows
    BY DEF Rows
  <2> QED
    BY <1>1, <2>1
<1>3. scored \in Seq(Rows) /\ Len(scored) = n
      /\ \A i \in 1 .. n : scored[i] = [s[i] EXCEPT !.rerank = scores[i]]
  BY <1>1, <1>2
<1>4. r = SortedBy(scored, keys)
  BY DEF Rerank
<1> HIDE DEF scored, r
<1>5. \A i \in 1 .. n :
         /\ keys[i] = <<EffectiveScore(scored[i]), scored[i].fused,
                        OrElse(scored[i].sim, Absent), OrElse(scored[i].lex, Absent)>>
         /\ EffectiveScore(scored[i]) \in Int /\ scored[i].fused \in Int
         /\ OrElse(scored[i].sim, Absent) \in Int /\ OrElse(scored[i].lex, Absent) \in Int
  <2> SUFFICES ASSUME NEW i \in 1 .. n
               PROVE  /\ keys[i] = <<EffectiveScore(scored[i]), scored[i].fused,
                          OrElse(scored[i].sim, Absent), OrElse(scored[i].lex, Absent)>>
                      /\ EffectiveScore(scored[i]) \in Int /\ scored[i].fused \in Int
                      /\ OrElse(scored[i].sim, Absent) \in Int
                      /\ OrElse(scored[i].lex, Absent) \in Int
    OBVIOUS
  <2>1. scored[i] \in Rows
    BY <1>3, ElementOf
  <2>2. EffectiveScore(scored[i]) \in Int /\ scored[i].fused \in Int
        /\ scored[i].sim \in Int /\ scored[i].lex \in Int
    BY <2>1, RowFields, RowScore
  <2> QED
    BY <1>3, <2>2 DEF RerankKeys, OrElse, Absent
<1> HIDE DEF keys
<1>6. /\ \A i \in 1 .. n : keys[i][1] = EffectiveScore(scored[i])
      /\ Keyed(scored, keys, 4)
  <2>1. ASSUME NEW a \in Int, NEW b \in Int, NEW c \in Int, NEW d \in Int
        PROVE  IsKey(<<a, b, c, d>>, 4) /\ <<a, b, c, d>>[1] = a
    BY DEF IsKey
  <2>2. ASSUME NEW i \in 1 .. n
        PROVE  IsKey(keys[i], 4) /\ keys[i][1] = EffectiveScore(scored[i])
    <3> DEFINE a == EffectiveScore(scored[i])
               b == scored[i].fused
               c == OrElse(scored[i].sim, Absent)
               d == OrElse(scored[i].lex, Absent)
    <3>1. a \in Int /\ b \in Int /\ c \in Int /\ d \in Int /\ keys[i] = <<a, b, c, d>>
      BY <1>5
    <3> HIDE DEF a, b, c, d
    <3>2. IsKey(keys[i], 4) /\ keys[i][1] = a
      BY <2>1, <3>1
    <3> QED
      BY <3>2 DEF a
  <2> QED
    BY <1>3, <2>2 DEF Keyed
<1>7. /\ r \in Seq(Rows)
      /\ \E from : Sorting(from, r, scored, keys)
  BY <1>3, <1>4, <1>6, SortingSorts
<1>8. PICK from : Sorting(from, r, scored, keys)
  BY <1>7
<1>9. /\ Len(r) = n
      /\ \A m \in 1 .. n : from[m] \in 1 .. n /\ r[m] = scored[from[m]]
      /\ \A m, p \in 1 .. n : m < p => keys[from[m]][1] >= keys[from[p]][1]
  BY <1>3, <1>8 DEF Sorting
<1>10. \A m \in 1 .. n : r[m] = [s[from[m]] EXCEPT !.rerank = scores[from[m]]]
  BY <1>3, <1>9
<1>11. \A m, p \in 1 .. n : m < p => EffectiveScore(r[m]) >= EffectiveScore(r[p])
  BY <1>3, <1>6, <1>9
<1>12. Rescored(r, s, scores)
  BY <1>9, <1>10, <1>11 DEF Rescored
<1> QED
  BY <1>7, <1>12 DEF r

(* r has the elements of s, best first, and first the first of the best. *)
BestFirst(r, s) ==
  /\ Len(r) = Len(s) /\ Elements(r) = Elements(s)
  /\ \A m, p \in 1 .. Len(s) : m < p => EffectiveScore(r[m]) >= EffectiveScore(r[p])
  /\ s # <<>> => \E i \in 1 .. Len(s) :
        /\ r[1] = s[i]
        /\ \A j \in 1 .. Len(s) : EffectiveScore(s[j]) <= EffectiveScore(s[i])
        /\ \A j \in 1 .. i - 1 : EffectiveScore(s[j]) < EffectiveScore(s[i])

(* Sorting by the score puts the best first. *)
LEMMA ByScoreSorts ==
  ASSUME NEW T, Graded(T), NEW s \in Seq(T)
  PROVE  ByScore(s) \in Seq(T) /\ BestFirst(ByScore(s), s)
<1> DEFINE n == Len(s)
           keys == [i \in 1 .. n |-> <<EffectiveScore(s[i])>>]
           r == ByScore(s)
<1>1. n \in Nat /\ \A i \in 1 .. n : EffectiveScore(s[i]) \in Int
  BY CandidateFields, ElementOf
<1>2. \A i \in 1 .. n : /\ keys[i] = <<EffectiveScore(s[i])>> /\ IsKey(keys[i], 1)
                        /\ keys[i][1] = EffectiveScore(s[i])
  BY <1>1 DEF IsKey
<1>3. r = SortedBy(s, keys)
  BY DEF ByScore
<1> HIDE DEF keys, r
<1>4. /\ r \in Seq(T) /\ Elements(r) = Elements(s)
      /\ \E from : Sorting(from, r, s, keys)
  <2>1. Keyed(s, keys, 1)
    BY <1>2 DEF Keyed
  <2> QED
    BY <1>3, <2>1, SortingSorts
<1>5. PICK from : Sorting(from, r, s, keys)
  BY <1>4
<1>6. /\ Len(r) = n
      /\ \A m \in 1 .. n : from[m] \in 1 .. n /\ r[m] = s[from[m]]
      /\ \A i \in 1 .. n : \E m \in 1 .. n : from[m] = i
      /\ \A m, p \in 1 .. n : m < p => keys[from[m]][1] >= keys[from[p]][1]
      /\ \A m, p \in 1 .. n : m < p /\ keys[from[m]] = keys[from[p]] => from[m] < from[p]
  BY <1>5 DEF Sorting
<1>7. ASSUME NEW m \in 1 .. n, NEW p \in 1 .. n, m < p
      PROVE  EffectiveScore(r[m]) >= EffectiveScore(r[p])
  <2>1. from[m] \in 1 .. n /\ from[p] \in 1 .. n /\ keys[from[m]][1] >= keys[from[p]][1]
    BY <1>6, <1>7
  <2> QED
    BY <1>2, <1>6, <2>1
<1>8. ASSUME s # <<>>
      PROVE  \E i \in 1 .. n :
                /\ r[1] = s[i]
                /\ \A j \in 1 .. n : EffectiveScore(s[j]) <= EffectiveScore(s[i])
                /\ \A j \in 1 .. i - 1 : EffectiveScore(s[j]) < EffectiveScore(s[i])
  <2>1. 1 \in 1 .. n
    BY <1>1, <1>8
  <2> DEFINE i == from[1]
  <2>2. i \in 1 .. n /\ r[1] = s[i]
    BY <1>6, <2>1
  <2>3. ASSUME NEW j \in 1 .. n
        PROVE  /\ EffectiveScore(s[j]) <= EffectiveScore(s[i])
               /\ EffectiveScore(s[j]) = EffectiveScore(s[i]) => i <= j
    <3>1. PICK m \in 1 .. n : from[m] = j
      BY <1>6
    <3>2. EffectiveScore(s[j]) \in Int /\ EffectiveScore(s[i]) \in Int
      BY <1>1, <2>2
    <3>3. CASE m = 1
      BY <3>1, <3>2, <3>3
    <3>4. CASE 1 < m
      <4>1. keys[i][1] >= keys[j][1] /\ (keys[i] = keys[j] => i < j)
        BY <1>6, <2>1, <3>1, <3>4
      <4> HIDE DEF i
      <4> QED
        BY <1>2, <2>2, <3>2, <4>1
    <3> QED
      BY <3>3, <3>4
  <2>4. ASSUME NEW j \in 1 .. i - 1 PROVE EffectiveScore(s[j]) < EffectiveScore(s[i])
    <3>1. j \in 1 .. n /\ ~(i <= j)
      BY <2>2
    <3>2. EffectiveScore(s[j]) \in Int /\ EffectiveScore(s[i]) \in Int
      BY <1>1, <2>2, <3>1
    <3> QED
      BY <2>3, <3>1, <3>2
  <2> QED
    BY <2>2, <2>3, <2>4
<1>9. BestFirst(r, s)
  BY <1>4, <1>6, <1>7, <1>8 DEF BestFirst
<1> QED
  BY <1>4, <1>9 DEF r

(* The rows in the order of their ordinals. *)
InOrder(r) == \A m, p \in 1 .. Len(r) : m < p => r[m].ordinal <= r[p].ordinal

(* Rows come back in their order. *)
LEMMA RowsInOrder ==
  ASSUME NEW rows \in SUBSET Rows, IsFiniteSet(rows)
  PROVE  /\ InRowOrder(rows) \in Seq(rows) /\ Elements(InRowOrder(rows)) = rows
         /\ InOrder(InRowOrder(rows))
<1> DEFINE s == SetToSeq(rows)
           n == Len(s)
           keys == [i \in 1 .. n |-> <<-s[i].ordinal>>]
           r == InRowOrder(rows)
<1>1. s \in Seq(rows) /\ Elements(s) = rows
  BY SetInOrder
<1>2. r = SortedBy(s, keys)
  BY DEF InRowOrder
<1> HIDE DEF s, r
<1>3. n \in Nat /\ \A i \in 1 .. n : s[i].ordinal \in Int
  BY <1>1, ElementOf, RowFields
<1>4. \A i \in 1 .. n : IsKey(keys[i], 1) /\ keys[i][1] = -s[i].ordinal
  BY <1>3 DEF IsKey
<1> HIDE DEF keys
<1>5. /\ r \in Seq(rows) /\ Elements(r) = Elements(s)
      /\ \E from : Sorting(from, r, s, keys)
  <2>1. Keyed(s, keys, 1)
    BY <1>4 DEF Keyed
  <2> QED
    BY <1>1, <1>2, <2>1, SortingSorts
<1>6. PICK from : Sorting(from, r, s, keys)
  BY <1>5
<1>7. /\ Len(r) = n
      /\ \A m \in 1 .. n : from[m] \in 1 .. n /\ r[m] = s[from[m]]
      /\ \A m, p \in 1 .. n : m < p => keys[from[m]][1] >= keys[from[p]][1]
  BY <1>6 DEF Sorting
<1>8. InOrder(r)
  <2> SUFFICES ASSUME NEW m \in 1 .. n, NEW p \in 1 .. n, m < p
               PROVE  r[m].ordinal <= r[p].ordinal
    BY <1>7 DEF InOrder
  <2>1. from[m] \in 1 .. n /\ from[p] \in 1 .. n
    BY <1>7
  <2>2. -s[from[m]].ordinal >= -s[from[p]].ordinal
    BY <1>4, <1>7, <2>1
  <2>3. s[from[m]].ordinal \in Int /\ s[from[p]].ordinal \in Int
    BY <1>3, <2>1
  <2> QED
    BY <1>7, <2>2, <2>3
<1> QED
  BY <1>1, <1>5, <1>8 DEF r

(* The first of a sequence, as many as are wanted. *)
LEMMA TopOf ==
  ASSUME NEW T, NEW s \in Seq(T), NEW limit \in Nat
  PROVE  /\ Top(s, limit) \in Seq(T) /\ Elements(Top(s, limit)) \subseteq Elements(s)
         /\ Len(Top(s, limit)) <= limit /\ Len(Top(s, limit)) <= Len(s)
         /\ \A i \in 1 .. Len(Top(s, limit)) : Top(s, limit)[i] = s[i]
         /\ s # <<>> /\ limit # 0 => Top(s, limit) # <<>>
<1> DEFINE m == Min({limit, Len(s)})
           r == Top(s, limit)
<1>1. m = IF limit <= Len(s) THEN limit ELSE Len(s)
  BY OfTwo, Len(s) \in Int, limit \in Int
<1>2. m \in Nat /\ m <= limit /\ m <= Len(s) /\ (s # <<>> /\ limit # 0 => m # 0)
  <2>1. Len(s) \in Nat /\ (s # <<>> => Len(s) # 0)
    OBVIOUS
  <2> HIDE DEF m
  <2> QED BY <1>1, <2>1
<1>3. r = SubSeq(s, 1, m)
  BY DEF Top
<1> HIDE DEF m, r
<1>4. r \in Seq(T) /\ Len(r) = m /\ \A i \in 1 .. m : r[i] = s[i]
  BY <1>2, <1>3
<1>5. Elements(r) \subseteq Elements(s)
  <2>1. \A i \in 1 .. m : i \in 1 .. Len(s)
    BY <1>2
  <2> QED
    BY <1>4, <2>1 DEF Elements
<1>6. s # <<>> /\ limit # 0 => r # <<>>
  BY <1>2, <1>4
<1> QED
  BY <1>2, <1>4, <1>5, <1>6 DEF r

-----------------------------------------------------------------------------
(* From the summaries that were found to those that are ranked.              *)

(* No more is kept than there was. *)
LEMMA AmongIsShorter ==
  ASSUME NEW T, NEW s \in Seq(T), NEW S
  PROVE  Len(Among(s, S)) <= Len(s)
<1> DEFINE n == Len(s)
           V == Seq(T)
<1>1. n \in Nat /\ DOMAIN s = 1 .. n /\ <<>> \in V /\ \A i \in 1 .. n : s[i] \in T
  BY ElementOf
<1>2. \A a \in V, i \in 1 .. n : Keeping(a, s[i], S) \in V
  BY <1>1 DEF Keeping
<1>3. PICK g \in [0 .. n -> V] : AmongSteps(g, s, n, S)
  <2> HIDE DEF V, n
  <2> QED BY <1>1, <1>2, AmongRun
<1>4. /\ g[0] = <<>> /\ g[n] = Among(s, S) /\ \A k \in 0 .. n : g[k] \in Seq(T)
      /\ \A k \in 1 .. n : g[k] = Keeping(g[k - 1], s[k], S)
  BY <1>1, <1>3 DEF AmongSteps
<1> DEFINE M == {k \in Nat : k <= n => Len(g[k]) <= k}
<1>5. 0 \in M
  BY <1>4
<1>6. ASSUME NEW k \in Nat, k \in M PROVE k + 1 \in M
  <2> SUFFICES ASSUME k + 1 <= n PROVE Len(g[k + 1]) <= k + 1
    OBVIOUS
  <2>1. k + 1 \in 1 .. n /\ (k + 1) - 1 = k /\ k \in 0 .. n /\ Len(g[k]) <= k
    BY <1>6
  <2>2. g[k + 1] = Keeping(g[k], s[k + 1], S) /\ g[k] \in Seq(T) /\ s[k + 1] \in T
    BY <1>1, <1>4, <2>1
  <2> QED
    BY <2>1, <2>2 DEF Keeping
<1>7. n \in M
  <2> HIDE DEF M
  <2> QED BY <1>1, <1>5, <1>6, SetInduction
<1> QED
  BY <1>1, <1>4, <1>7

(* The diversity selection takes only candidates. *)
LEMMA DiversityIsOfCandidates ==
  ASSUME NEW T, Graded(T), NEW s \in Seq(T), NEW limit \in Nat, NEW penalty \in Nat
  PROVE  Diversify(s, limit, penalty) \in Seq(T)
<1> DEFINE distinct == SuppressDuplicates(s)
           start == [remaining |-> distinct, selected |-> <<>>]
           rounds == [round \in 1 .. limit |-> round]
           r == Diversify(s, limit, penalty)
<1>1. distinct \in Seq(T)
  BY SuppressionIsDistinct
<1>2. start \in StatesOf(T)
  <2>1. <<>> \in Seq(T)
    OBVIOUS
  <2> HIDE DEF distinct
  <2> QED BY <1>1, <2>1 DEF StatesOf
<1>3. PICK g \in [0 .. limit -> StatesOf(T)] : SpreadSteps(g, rounds, limit, start, penalty)
  <2>1. DOMAIN rounds = 1 .. limit
    OBVIOUS
  <2>2. \A a \in StatesOf(T), i \in 1 .. limit : DiversityRound(a, penalty) \in StatesOf(T)
    BY RoundTakes
  <2> HIDE DEF rounds, start
  <2> QED BY <1>2, <2>1, <2>2, SpreadRun
<1>4. g[limit].selected = r
  BY <1>3 DEF SpreadSteps, Spreading, Diversify
<1> HIDE DEF r, start, rounds, distinct
<1>5. limit \in 0 .. limit
  OBVIOUS
<1> QED
  BY <1>3, <1>4, <1>5 DEF StatesOf, r

(* The dictionary of fusion has an entry where there is a candidate. *)
LEMMA DictionaryKeeps ==
  ASSUME NEW T, NEW s \in Seq(T)
  PROVE  Dictionary(s) \in Seq(T) /\ (s # <<>> => Dictionary(s) # <<>>)
<1> DEFINE n == Len(s)
           V == Seq(T)
<1>1. n \in Nat /\ DOMAIN s = 1 .. n /\ <<>> \in V /\ \A i \in 1 .. n : s[i] \in T
  BY ElementOf
<1>2. \A a \in V, i \in 1 .. n : Defaulted(a, s[i]) \in V
  BY <1>1 DEF Defaulted
<1>3. PICK g \in [0 .. n -> V] : DictionarySteps(g, s, n)
  <2> HIDE DEF V, n
  <2> QED BY <1>1, <1>2, DictionaryRun
<1>4. /\ g[0] = <<>> /\ g[n] = Dictionary(s) /\ \A k \in 0 .. n : g[k] \in Seq(T)
      /\ \A k \in 1 .. n : g[k] = Defaulted(g[k - 1], s[k])
  BY <1>1, <1>3 DEF DictionarySteps
<1>5. ASSUME s # <<>> PROVE g[n] # <<>>
  <2>1. n # 0 /\ n - 1 \in 0 .. n /\ n \in 1 .. n
    BY <1>1, <1>5
  <2>2. g[n] = Defaulted(g[n - 1], s[n]) /\ g[n - 1] \in Seq(T) /\ s[n] \in T
    BY <1>1, <1>4, <2>1
  <2>3. CASE g[n - 1] = <<>>
    <3>1. Position(<<>>, s[n].chunk) = 0
      BY 1 .. 0 = {} DEF Position
    <3> QED
      BY <2>2, <2>3, <3>1 DEF Defaulted
  <2>4. CASE g[n - 1] # <<>>
    BY <2>2, <2>4 DEF Defaulted
  <2> QED
    BY <2>3, <2>4
<1> QED
  BY <1>1, <1>4, <1>5

(* Rows that stay there with other scores. *)
Regraded(T) ==
  /\ T \subseteq Rows
  /\ \A x \in T, z \in Int :
       /\ [x EXCEPT !.sim = z] \in T /\ [x EXCEPT !.lex = z] \in T
       /\ [x EXCEPT !.fused = z] \in T /\ [x EXCEPT !.rerank = z] \in T

(* A position in a sequence. *)
LEMMA PositionOf ==
  ASSUME NEW T, NEW s \in Seq(T), NEW chunk
  PROVE  Position(s, chunk) = 0 \/ Position(s, chunk) \in 1 .. Len(s)
BY DEF Position

(* A share of a rank. *)
LEMMA ShareOf ==
  ASSUME NEW T, NEW s \in Seq(T), NEW chunk
  PROVE  Share(1, Position(s, chunk)) \in Int
<1>1. Position(s, chunk) \in Nat /\ 1 \in Nat
  BY PositionOf
<1> QED
  BY <1>1, ShareIn

(* The dictionary of two legs, with their scores. *)
LEMMA CombinedKeeps ==
  ASSUME NEW T, Regraded(T), NEW s \in Seq(T), NEW t \in Seq(T)
  PROVE  /\ Combined(s, t, <<1, 1>>) \in Seq(T)
         /\ s # <<>> \/ t # <<>> => Combined(s, t, <<1, 1>>) # <<>>
<1> DEFINE all == Dictionary(s \o t)
           entry(x) ==
             [x EXCEPT !.sim = IF Position(s, x.chunk) > 0 THEN s[Position(s, x.chunk)].sim ELSE @,
                       !.lex = IF Position(t, x.chunk) > 0 THEN t[Position(t, x.chunk)].lex ELSE @,
                       !.fused = Share(<<1, 1>>[1], Position(s, x.chunk))
                                   + Share(<<1, 1>>[2], Position(t, x.chunk))]
           c == Combined(s, t, <<1, 1>>)
<1>2. s \o t \in Seq(T) /\ (s # <<>> \/ t # <<>> => s \o t # <<>>)
  OBVIOUS
<1>3. all \in Seq(T) /\ (s # <<>> \/ t # <<>> => all # <<>>)
  BY <1>2, DictionaryKeeps
<1>4. c = [i \in 1 .. Len(all) |-> entry(all[i])]
  BY DEF Combined, Dictionary, Defaulted
<1> HIDE DEF all, c
<1>5. ASSUME NEW x \in T PROVE entry(x) \in T
  <2> DEFINE p == Position(s, x.chunk)
             q == Position(t, x.chunk)
             a == IF p > 0 THEN s[p].sim ELSE x.sim
             b == IF q > 0 THEN t[q].lex ELSE x.lex
             d == Share(<<1, 1>>[1], p) + Share(<<1, 1>>[2], q)
  <2>1. (p = 0 \/ p \in 1 .. Len(s)) /\ (q = 0 \/ q \in 1 .. Len(t))
    BY PositionOf
  <2>2. d \in Int
    <3>1. Share(1, p) \in Int /\ Share(1, q) \in Int
      BY ShareOf
    <3> HIDE DEF p, q
    <3> QED BY <3>1
  <2>3. \A y \in T : y.sim \in Int /\ y.lex \in Int
    BY RowFields DEF Regraded
  <2> HIDE DEF p, q
  <2>4. a \in Int /\ b \in Int
    BY <2>1, <2>3, ElementOf
  <2>5. entry(x) = [x EXCEPT !.sim = a, !.lex = b, !.fused = d]
    BY DEF p, q
  <2> HIDE DEF a, b, d, entry
  <2>6. [x EXCEPT !.sim = a, !.lex = b, !.fused = d] \in T
    <3>1. [x EXCEPT !.sim = a] \in T
      BY <2>4 DEF Regraded
    <3>2. [[x EXCEPT !.sim = a] EXCEPT !.lex = b] \in T
      BY <2>4, <3>1 DEF Regraded
    <3>3. [[[x EXCEPT !.sim = a] EXCEPT !.lex = b] EXCEPT !.fused = d] \in T
      BY <2>2, <3>2 DEF Regraded
    <3> QED
      BY <3>3
  <2> QED
    BY <2>5, <2>6
<1> HIDE DEF entry
<1>6. c \in Seq(T) /\ Len(c) = Len(all)
  <2>1. \A i \in 1 .. Len(all) : entry(all[i]) \in T
    BY <1>3, <1>5, ElementOf
  <2> QED
    BY <1>3, <1>4, <2>1
<1>7. s # <<>> \/ t # <<>> => c # <<>>
  BY <1>3, <1>6
<1> QED
  BY <1>6, <1>7 DEF c

(* The selection of fusion takes the first candidate. *)
LEMMA SelectionStarts ==
  ASSUME NEW T, NEW s \in Seq(T), NEW limit \in Nat \ {0}, NEW cap \in Nat \ {0}
  PROVE  /\ Selection(s, limit, cap) \in Seq(T)
         /\ Len(Selection(s, limit, cap)) <= limit
         /\ s # <<>> => Selection(s, limit, cap) # <<>>
<1> DEFINE n == Len(s)
           r == Selection(s, limit, cap)
<1>1. limit \in Nat /\ cap \in Nat /\ n \in Nat
  OBVIOUS
<1>2. r \in Seq(T)
  BY <1>1, SelectionSelects
<1>3. PICK w, g : Selects(r, s, n, limit, cap, w, g) /\ g \in [0 .. n -> Seq(T)]
  BY <1>1, SelectionSelects
<1> HIDE DEF r
<1>4. Len(r) <= limit
  BY <1>3 DEF Selects, Limited
<1>5. ASSUME s # <<>> PROVE r # <<>>
  <2> SUFFICES ASSUME r = <<>> PROVE FALSE
    OBVIOUS
  <2>1. 1 \in 1 .. n /\ 1 - 1 = 0 /\ 0 \in 0 .. n
    BY <1>5
  <2>2. g[0] \in Seq(T) /\ Len(g[0]) <= 0
    BY <1>3, <2>1 DEF Selects
  <2>3. g[0] = <<>>
    BY <2>2
  <2>4. Cardinality(OfDocument(<<>>, s[1].doc)) = 0
    <3>1. OfDocument(<<>>, s[1].doc) = {}
      BY 1 .. 0 = {} DEF OfDocument
    <3> QED
      BY <3>1, FS_EmptySet
  <2>5. \/ \E i \in 1 .. Len(r) : w[i] = 1
        \/ Len(g[0]) = limit
        \/ Cardinality(OfDocument(g[0], s[1].doc)) >= cap
    BY <1>3, <2>1 DEF Selects
  <2>6. Len(g[0]) = 0 /\ 1 .. Len(r) = {}
    BY <2>3, 1 .. 0 = {}
  <2> QED
    BY <2>3, <2>4, <2>5, <2>6
<1> QED
  BY <1>2, <1>4, <1>5 DEF r

(* Fusion of two legs that count the same and of no Document too many. *)
LEMMA FuseKeeps ==
  ASSUME NEW T, Regraded(T), NEW s \in Seq(T), NEW t \in Seq(T), NEW limit \in Nat \ {0}
  PROVE  LET r == Fuse(s, t, <<1, 1>>, limit, Len(s) + Len(t))
         IN  /\ r \in Seq(T) /\ Len(r) <= limit
             /\ s # <<>> \/ t # <<>> => r # <<>>
<1> DEFINE c == Combined(s, t, <<1, 1>>)
           cap == Len(s) + Len(t)
           ranked == SortedBy(c, FusionKeys(c))
           r == Fuse(s, t, <<1, 1>>, limit, cap)
<1>1. c \in Seq(T) /\ (s # <<>> \/ t # <<>> => c # <<>>)
  BY CombinedKeeps
<1>2. r = Selection(ranked, limit, cap)
  BY DEF Fuse, Selection
<1> HIDE DEF c, r
<1>3. Keyed(c, FusionKeys(c), 3)
  <2>1. ASSUME NEW i \in 1 .. Len(c) PROVE IsKey(FusionKeys(c)[i], 3)
    <3>1. c[i].fused \in Int /\ c[i].sim \in Int /\ c[i].lex \in Int
      BY <1>1, ElementOf, RowFields DEF Regraded
    <3>2. FusionKeys(c)[i] = <<c[i].fused, c[i].sim, c[i].lex>>
      BY DEF FusionKeys
    <3> QED
      BY <3>1, <3>2 DEF IsKey
  <2> QED
    BY <2>1 DEF Keyed
<1>4. /\ ranked \in Seq(T)
      /\ \E from : Sorting(from, ranked, c, FusionKeys(c))
  BY <1>1, <1>3, SortingSorts
<1>5. c # <<>> => ranked # <<>>
  <2>1. Len(ranked) = Len(c)
    BY <1>4 DEF Sorting
  <2> HIDE DEF ranked
  <2> QED
    BY <1>1, <1>4, <2>1
<1> HIDE DEF ranked
<1>6. CASE cap = 0
  <2>1. s = <<>> /\ t = <<>>
    BY <1>6
  <2>2. cap \in Nat /\ limit \in Nat
    OBVIOUS
  <2>3. r \in Seq(T) /\ \E w, g : Selects(r, ranked, Len(ranked), limit, cap, w, g)
    <3> HIDE DEF cap
    <3> QED BY <1>2, <1>4, <2>2, SelectionSelects
  <2>4. Len(r) <= limit
    BY <2>3 DEF Selects, Limited
  <2> QED
    BY <2>1, <2>3, <2>4 DEF r
<1>7. CASE cap # 0
  <2>1. cap \in Nat \ {0}
    BY <1>7
  <2>2. r \in Seq(T) /\ Len(r) <= limit /\ (ranked # <<>> => r # <<>>)
    <3> HIDE DEF cap
    <3> QED BY <1>2, <1>4, <2>1, SelectionStarts
  <2> QED
    BY <1>1, <1>5, <2>2 DEF r
<1> QED
  BY <1>6, <1>7

-----------------------------------------------------------------------------
(* The best summary reaches the evidence.                                    *)

(* The summaries a budget has room for. *)
SummariesWithin(budget) == {x \in Rows : x.level \in SummaryLevels /\ Tokens(x) <= budget}

OfWhole(T) == {x \in T : x.level = "document_summary"}

(* Other scores leave a summary what it is. *)
LEMMA SummariesRegraded ==
  ASSUME NEW budget \in Nat
  PROVE  /\ Regraded(SummariesWithin(budget)) /\ Regraded(OfWhole(SummariesWithin(budget)))
         /\ Regraded(SummariesWithin(budget) \ OfWhole(SummariesWithin(budget)))
         /\ Textual(SummariesWithin(budget))
<1> DEFINE T == SummariesWithin(budget)
<1>1. ASSUME NEW x \in Rows, NEW z \in Int
      PROVE  /\ [x EXCEPT !.sim = z] \in Rows /\ [x EXCEPT !.lex = z] \in Rows
             /\ [x EXCEPT !.fused = z] \in Rows /\ [x EXCEPT !.rerank = z] \in Rows
  BY DEF Rows
<1>2. ASSUME NEW x \in Rows, NEW z \in Int
      PROVE  \A y \in {[x EXCEPT !.sim = z], [x EXCEPT !.lex = z],
                       [x EXCEPT !.fused = z], [x EXCEPT !.rerank = z]} :
                y.level = x.level /\ y.start = x.start /\ y.end = x.end
  BY DEF Rows
<1>3. ASSUME NEW x \in T, NEW z \in Int
      PROVE  \A y \in {[x EXCEPT !.sim = z], [x EXCEPT !.lex = z],
                       [x EXCEPT !.fused = z], [x EXCEPT !.rerank = z]} :
                y \in T /\ y.level = x.level
  <2> SUFFICES ASSUME NEW y \in {[x EXCEPT !.sim = z], [x EXCEPT !.lex = z],
                                 [x EXCEPT !.fused = z], [x EXCEPT !.rerank = z]}
               PROVE  y \in T /\ y.level = x.level
    OBVIOUS
  <2>1. x \in Rows /\ x.level \in SummaryLevels /\ Tokens(x) <= budget
    BY DEF SummariesWithin
  <2>2. y \in Rows
    BY <1>1, <2>1
  <2>3. y.level = x.level /\ y.start = x.start /\ y.end = x.end
    BY <1>2, <2>1
  <2>4. Tokens(y) = Tokens(x)
    BY <2>3 DEF Tokens
  <2> QED
    BY <2>1, <2>2, <2>3, <2>4 DEF SummariesWithin
<1>4. T \subseteq Rows
  BY DEF SummariesWithin
<1>5. Textual(T)
  BY <1>4, RowFields DEF Textual
<1> HIDE DEF T
<1>6. Regraded(T)
  BY <1>3, <1>4 DEF Regraded
<1>7. Regraded(OfWhole(T))
  BY <1>3, <1>4 DEF Regraded, OfWhole
<1>8. Regraded(T \ OfWhole(T))
  BY <1>3, <1>4 DEF Regraded, OfWhole
<1> QED
  BY <1>5, <1>6, <1>7, <1>8 DEF T

(* What is asked of a leg: its rows, some of them where one was found. *)
LEMMA LegKeeps ==
  ASSUME NEW T, Regraded(T), NEW found \in SUBSET T, IsFiniteSet(found), NEW items \in Nat \ {0},
         NEW keys, Keyed(SetToSeq(found), keys, 1)
  PROVE  LET leg == Top(SortedBy(SetToSeq(found), keys), 4 * items)
         IN  leg \in Seq(T) /\ (found # {} => leg # <<>>)
<1> DEFINE s == SetToSeq(found)
           r == SortedBy(s, keys)
<1>1. s \in Seq(found) /\ Elements(s) = found
  BY SetInOrder
<1>2. r \in Seq(found) /\ Elements(r) = found
  BY <1>1, SortingSorts
<1> HIDE DEF s, r
<1>3. found # {} => r # <<>>
  <2>1. Elements(<<>>) = {}
    BY 1 .. 0 = {} DEF Elements
  <2> QED
    BY <1>2, <2>1
<1>4. 4 * items \in Nat /\ 4 * items # 0 /\ r \in Seq(T)
  BY <1>2
<1> QED
  BY <1>3, <1>4, TopOf DEF r, s

(* Both legs have summaries, one of them some where one has a score. *)
LEMMA LegsOfSummaries ==
  ASSUME NEW T, Regraded(T), NEW rows \in SUBSET Rows, IsFiniteSet(rows),
         SummariesAmong(rows) \subseteq T, NEW items \in Nat \ {0}
  PROVE  /\ SemanticSummaries(rows, items) \in Seq(T)
         /\ LexicalSummaries(rows, items) \in Seq(T)
         /\ \A c \in SummariesAmong(rows) :
              /\ c.sim # Absent => SemanticSummaries(rows, items) # <<>>
              /\ c.lex # Absent => LexicalSummaries(rows, items) # <<>>
<1> DEFINE P == {d \in SummariesAmong(rows) : d.sim # Absent}
           Q == {d \in SummariesAmong(rows) : d.lex # Absent}
           f == [c \in P |-> [c EXCEPT !.lex = Absent]]
           h == [c \in Q |-> [c EXCEPT !.sim = Absent]]
           A == {[c EXCEPT !.lex = Absent] : c \in P}
           B == {[c EXCEPT !.sim = Absent] : c \in Q}
<1>1. P \subseteq rows /\ Q \subseteq rows /\ P \subseteq T /\ Q \subseteq T /\ Absent \in Int
  BY DEF SummariesAmong, Absent
<1>2. IsFiniteSet(P) /\ IsFiniteSet(Q)
  BY <1>1, FS_Subset
<1> HIDE DEF P, Q
<1>3. A \subseteq T /\ B \subseteq T
  BY <1>1 DEF Regraded
<1>4. IsFiniteSet(A) /\ IsFiniteSet(B)
  <2>1. f \in Surjection(P, A) /\ h \in Surjection(Q, B)
    BY DEF Surjection
  <2> HIDE DEF A, B
  <2> QED BY <1>2, <2>1, FS_Surjection
<1> DEFINE a == SetToSeq(A)
           b == SetToSeq(B)
           keysA == [i \in 1 .. Len(a) |-> <<a[i].sim>>]
           keysB == [i \in 1 .. Len(b) |-> <<b[i].lex>>]
<1>5. Keyed(a, keysA, 1) /\ Keyed(b, keysB, 1)
  <2>1. a \in Seq(A) /\ b \in Seq(B)
    <3> HIDE DEF A, B
    <3> QED BY <1>4, SetInOrder
  <2> HIDE DEF a, b
  <2>2. ASSUME NEW i \in 1 .. Len(a) PROVE IsKey(keysA[i], 1)
    <3>1. a[i] \in Rows
      BY <1>3, <2>1, ElementOf DEF Regraded
    <3>2. a[i].sim \in Int
      BY <3>1, RowFields
    <3> QED
      BY <3>2 DEF IsKey
  <2>3. ASSUME NEW i \in 1 .. Len(b) PROVE IsKey(keysB[i], 1)
    <3>1. b[i] \in Rows
      BY <1>3, <2>1, ElementOf DEF Regraded
    <3>2. b[i].lex \in Int
      BY <3>1, RowFields
    <3> QED
      BY <3>2 DEF IsKey
  <2> HIDE DEF keysA, keysB
  <2> QED
    BY <2>2, <2>3 DEF Keyed
<1>6. /\ SemanticSummaries(rows, items) = Top(SortedBy(a, keysA), 4 * items)
      /\ LexicalSummaries(rows, items) = Top(SortedBy(b, keysB), 4 * items)
  BY DEF SemanticSummaries, LexicalSummaries, P, Q
<1>7. ASSUME NEW c \in SummariesAmong(rows)
      PROVE  (c.sim # Absent => A # {}) /\ (c.lex # Absent => B # {})
  BY DEF P, Q
<1> HIDE DEF keysA, keysB, A, B
<1>8. /\ SemanticSummaries(rows, items) \in Seq(T)
      /\ A # {} => SemanticSummaries(rows, items) # <<>>
  BY <1>3, <1>4, <1>5, <1>6, LegKeeps
<1>9. /\ LexicalSummaries(rows, items) \in Seq(T)
      /\ B # {} => LexicalSummaries(rows, items) # <<>>
  BY <1>3, <1>4, <1>5, <1>6, LegKeeps
<1> QED
  BY <1>7, <1>8, <1>9

(* Reranking changes only scores, and its best is first. *)
LEMMA RerankKeeps ==
  ASSUME NEW T, Regraded(T), NEW s \in Seq(T), NEW scores,
         \A i \in 1 .. Len(s) : scores[i] \in Int
  PROVE  /\ Rerank(s, scores) \in Seq(T) /\ Len(Rerank(s, scores)) = Len(s)
         /\ \A i \in 1 .. Len(s) :
               EffectiveScore(Rerank(s, scores)[i]) <= EffectiveScore(Rerank(s, scores)[1])
<1> DEFINE r == Rerank(s, scores)
<1>1. s \in Seq(Rows) /\ T \subseteq Rows
  BY DEF Regraded
<1>2. r \in Seq(Rows) /\ Rescored(r, s, scores)
  BY <1>1, RerankSorts
<1> HIDE DEF r
<1>3. ASSUME NEW m \in 1 .. Len(s) PROVE r[m] \in T
  <2>1. PICK i \in 1 .. Len(s) : r[m] = [s[i] EXCEPT !.rerank = scores[i]]
    BY <1>2 DEF Rescored
  <2>2. s[i] \in T /\ scores[i] \in Int
    BY ElementOf
  <2>3. \A x \in T, z \in Int : [x EXCEPT !.rerank = z] \in T
    BY DEF Regraded
  <2> QED
    BY <2>1, <2>2, <2>3
<1>4. Len(r) = Len(s)
  BY <1>2 DEF Rescored
<1>5. r \in Seq(T)
  BY <1>2, <1>3, <1>4
<1>6. ASSUME NEW i \in 1 .. Len(s) PROVE EffectiveScore(r[i]) <= EffectiveScore(r[1])
  <2>1. 1 \in 1 .. Len(s)
    OBVIOUS
  <2>2. EffectiveScore(r[i]) \in Int /\ EffectiveScore(r[1]) \in Int
    BY <1>1, <1>3, <2>1, RowScore
  <2>3. 1 < i => EffectiveScore(r[1]) >= EffectiveScore(r[i])
    BY <1>2, <2>1 DEF Rescored
  <2> QED
    BY <2>2, <2>3
<1> QED
  BY <1>4, <1>5, <1>6 DEF r

(* Summaries of whole Documents, or none. *)
Alike(U) == \A x, y \in U : x.level = "document_summary" => y.level = "document_summary"

(* The summaries in r are those of s, of one kind where that is asked. *)
Narrows(r, s, T, whole) ==
  /\ Len(r) <= Len(s)
  /\ s # <<>> => r # <<>>
  /\ \E U \in SUBSET T : Regraded(U) /\ r \in Seq(U) /\ (whole => Alike(U))

(* What a question about whole Documents is narrowed to. *)
LEMMA NarrowedKeeps ==
  ASSUME NEW T, Regraded(T), Regraded(OfWhole(T)), Regraded(T \ OfWhole(T)),
         NEW s \in Seq(T), NEW whole \in BOOLEAN
  PROVE  Narrows(Narrowed(s, whole), s, T, whole)
<1> DEFINE S == {c \in Elements(s) : c.level = "document_summary"}
           d == Among(s, S)
           r == Narrowed(s, whole)
<1>1. r = IF whole /\ d # <<>> THEN d ELSE s
  BY DEF Narrowed
<1>2. d \in Seq(T) /\ Elements(d) = Elements(s) \cap S /\ Len(d) <= Len(s)
  BY AmongKeeps, AmongIsShorter
<1>3. Elements(s) \subseteq T /\ s \in Seq(Elements(s)) /\ d \in Seq(Elements(d))
  BY <1>2, ElementsOf
<1>4. S \subseteq OfWhole(T)
  BY <1>3 DEF OfWhole
<1>5. Alike(OfWhole(T)) /\ Alike(T \ OfWhole(T))
  BY DEF Alike, OfWhole
<1>6. OfWhole(T) \subseteq T
  BY DEF OfWhole
<1>7. d = <<>> => s \in Seq(T \ OfWhole(T))
  <2> SUFFICES ASSUME d = <<>> PROVE s \in Seq(T \ OfWhole(T))
    OBVIOUS
  <2>1. Elements(d) = {}
    BY 1 .. 0 = {} DEF Elements
  <2>2. Elements(s) \cap S = {}
    BY <1>2, <2>1
  <2>3. Elements(s) \subseteq T \ OfWhole(T)
    BY <1>3, <2>2 DEF OfWhole
  <2> QED
    BY <1>3, <2>3
<1>8. d \in Seq(OfWhole(T))
  BY <1>2, <1>3, <1>4
<1> HIDE DEF d, r
<1>9. CASE whole /\ d # <<>>
  BY <1>1, <1>2, <1>5, <1>6, <1>8, <1>9 DEF r, Narrows
<1>10. CASE whole /\ d = <<>>
  <2>1. T \ OfWhole(T) \in SUBSET T /\ Len(s) <= Len(s)
    OBVIOUS
  <2> QED
    BY <1>1, <1>5, <1>7, <1>10, <2>1 DEF r, Narrows
<1>11. CASE ~whole
  <2>1. T \in SUBSET T /\ Len(s) <= Len(s)
    OBVIOUS
  <2> QED
    BY <1>1, <1>11, <2>1 DEF r, Narrows
<1> QED
  BY <1>9, <1>10, <1>11

(* The summaries a question is answered with. *)
SummaryKept(o, r) ==
  LET ranked == RankedSummaries(o.rows, o.whole, o.scores, o.limits)
      n == Len(r)
  IN  /\ (\E c \in o.rows : c.level \in SummaryLevels /\ {c.sim, c.lex} # {Absent})
           => r # <<>> /\ Head(r) = Head(ranked)
      /\ \A i \in 1 .. n : r[i].level \in SummaryLevels
      /\ o.whole => \A i, j \in 1 .. n :
             r[i].level = "document_summary" => r[j].level = "document_summary"
      /\ \A i, j \in 1 .. n : i # j => ~SameText(r[i], r[j])
      /\ n <= o.limits.items
      /\ TokensOf(r) <= o.limits.budget

(* The ranked summaries, the best first. *)
LEMMA SummariesRanked ==
  ASSUME NEW o \in Overviews
  PROVE  LET ranked == RankedSummaries(o.rows, o.whole, o.scores, o.limits)
         IN  \E U \in SUBSET SummariesWithin(o.limits.budget) :
               /\ Regraded(U) /\ ranked \in Seq(U) /\ (o.whole => Alike(U))
               /\ \A i \in 1 .. Len(ranked) : EffectiveScore(ranked[i]) <= EffectiveScore(ranked[1])
               /\ (\E c \in o.rows : c.level \in SummaryLevels /\ {c.sim, c.lex} # {Absent})
                    => ranked # <<>>
<1> DEFINE rows == o.rows
           items == o.limits.items
           T == SummariesWithin(o.limits.budget)
           s == SemanticSummaries(rows, items)
           t == LexicalSummaries(rows, items)
           f == Fuse(s, t, <<1, 1>>, 3 * items, Len(s) + Len(t))
           v == Narrowed(f, o.whole)
           ranked == RankedSummaries(rows, o.whole, o.scores, o.limits)
<1>1. /\ rows \in SUBSET Rows /\ IsFiniteSet(rows) /\ o.whole \in BOOLEAN
      /\ items \in Nat \ {0} /\ o.limits.budget \in Nat
      /\ \A c \in SummariesAmong(rows) : Tokens(c) <= o.limits.budget
      /\ \A i \in 1 .. 3 * items : o.scores[i] \in Int
  BY OverviewsAssumption
<1>2. Regraded(T) /\ Regraded(OfWhole(T)) /\ Regraded(T \ OfWhole(T))
  BY <1>1, SummariesRegraded
<1>3. SummariesAmong(rows) \subseteq T
  BY <1>1 DEF SummariesAmong, SummariesWithin
<1>4. ranked = Rerank(v, o.scores)
  BY DEF RankedSummaries
<1> HIDE DEF T, s, t, f, v, ranked, items, rows
<1>5. /\ s \in Seq(T) /\ t \in Seq(T)
      /\ \A c \in SummariesAmong(rows) : (c.sim # Absent => s # <<>>) /\ (c.lex # Absent => t # <<>>)
  BY <1>1, <1>2, <1>3, LegsOfSummaries DEF s, t
<1>6. f \in Seq(T) /\ Len(f) <= 3 * items /\ (s # <<>> \/ t # <<>> => f # <<>>)
  <2>1. 3 * items \in Nat \ {0}
    BY <1>1
  <2> QED
    BY <1>2, <1>5, <2>1, FuseKeeps DEF f
<1>7. Narrows(v, f, T, o.whole)
  BY <1>1, <1>2, <1>6, NarrowedKeeps DEF v
<1>8. PICK U \in SUBSET T : Regraded(U) /\ v \in Seq(U) /\ (o.whole => Alike(U))
  BY <1>7 DEF Narrows
<1>9. Len(v) <= 3 * items /\ (f # <<>> => v # <<>>)
  <2>1. Len(v) <= Len(f) /\ (f # <<>> => v # <<>>)
    BY <1>7 DEF Narrows
  <2> QED
    BY <1>1, <1>6, <1>8, <2>1
<1>10. /\ ranked \in Seq(U) /\ Len(ranked) = Len(v)
      /\ \A i \in 1 .. Len(v) : EffectiveScore(ranked[i]) <= EffectiveScore(ranked[1])
  <2>1. \A i \in 1 .. Len(v) : o.scores[i] \in Int
    BY <1>1, <1>8, <1>9
  <2> QED
    BY <1>4, <1>8, <2>1, RerankKeeps
<1>11. ASSUME NEW c \in rows, c.level \in SummaryLevels, {c.sim, c.lex} # {Absent}
       PROVE  ranked # <<>>
  <2>1. c \in SummariesAmong(rows) /\ (c.sim # Absent \/ c.lex # Absent)
    BY <1>11 DEF SummariesAmong
  <2>2. v # <<>>
    BY <1>5, <1>6, <1>9, <2>1
  <2> QED
    BY <1>8, <1>10, <2>2
<1> QED
  BY <1>8, <1>10, <1>11 DEF T, ranked, rows

(* The best summary is kept. *)
LEMMA OverviewKeeps ==
  ASSUME NEW o \in Overviews
  PROVE  SummaryKept(o, RetrieveSummaries(o.rows, o.whole, o.scores, o.limits))
<1> DEFINE ranked == RankedSummaries(o.rows, o.whole, o.scores, o.limits)
           T == SummariesWithin(o.limits.budget)
           a == SuppressDuplicates(ranked)
           b == Diversify(a, o.limits.items, o.limits.penalty)
           r == RetrieveSummaries(o.rows, o.whole, o.scores, o.limits)
           Found == \E c \in o.rows : c.level \in SummaryLevels /\ {c.sim, c.lex} # {Absent}
<1>1. /\ o.limits.items \in Nat \ {0} /\ o.limits.items \in Nat
      /\ o.limits.penalty \in Nat /\ o.limits.budget \in Nat
  BY OverviewsAssumption
<1>2. r = Assemble(b, o.limits.items, o.limits.budget)
  BY DEF RetrieveSummaries
<1>3. PICK U \in SUBSET T :
        /\ Regraded(U) /\ ranked \in Seq(U) /\ (o.whole => Alike(U))
        /\ \A i \in 1 .. Len(ranked) : EffectiveScore(ranked[i]) <= EffectiveScore(ranked[1])
        /\ Found => ranked # <<>>
  BY SummariesRanked
<1>4. Graded(U) /\ Textual(U) /\ \A x \in U : x.level \in SummaryLevels /\ Tokens(x) <= o.limits.budget
  <2>1. U \subseteq Rows
    BY <1>3 DEF Regraded
  <2> QED
    BY <1>3, <2>1, RowFields DEF Graded, Textual, SummariesWithin
<1> HIDE DEF ranked, a, b, r, T, Found
<1>5. a \in Seq(U)
  BY <1>3, SuppressionIsDistinct DEF a
<1>6. b \in Seq(U)
  BY <1>1, <1>4, <1>5, DiversityIsOfCandidates DEF b
<1>7. /\ r \in Seq(Elements(b)) /\ Assembled(r, b, o.limits.items, o.limits.budget)
  BY <1>1, <1>2, <1>4, <1>6, AssemblyAssembles
<1>8. r \in Seq(U)
  BY <1>6, <1>7, ElementsOf
<1>9. ASSUME Found PROVE r # <<>> /\ Head(r) = Head(ranked)
  <2>1. ranked # <<>>
    BY <1>3, <1>9
  <2>2. a \in Seq(Elements(ranked)) /\ a # <<>> /\ a[1] = ranked[1]
    BY <1>3, <2>1, SuppressionKeepsHead DEF a
  <2>3. \A i \in 1 .. Len(a) : EffectiveScore(a[i]) <= EffectiveScore(a[1])
    <3> SUFFICES ASSUME NEW i \in 1 .. Len(a) PROVE EffectiveScore(a[i]) <= EffectiveScore(a[1])
      OBVIOUS
    <3>1. a[i] \in Elements(ranked)
      BY <2>2, ElementOf
    <3>2. PICK m \in 1 .. Len(ranked) : a[i] = ranked[m]
      BY <1>3, <3>1, ElementsOf
    <3> QED
      BY <1>3, <2>2, <3>2
  <2>4. b # <<>> /\ b[1] = a[1]
    BY <1>1, <1>4, <1>5, <2>2, <2>3, DiversityKeepsHead DEF b
  <2>5. Tokens(b[1]) <= o.limits.budget
    <3>1. 1 \in 1 .. Len(b)
      BY <1>6, <2>4
    <3> QED
      BY <1>4, <1>6, <3>1, ElementOf
  <2>6. r # <<>> /\ r[1] = b[1]
    BY <1>7, <2>4, <2>5 DEF Assembled
  <2>7. Head(r) = r[1] /\ Head(ranked) = ranked[1]
    BY <1>3, <1>8, <2>1, <2>6
  <2> QED
    BY <2>2, <2>4, <2>6, <2>7
<1>10. /\ \A i \in 1 .. Len(r) : r[i].level \in SummaryLevels
       /\ o.whole => \A i, j \in 1 .. Len(r) :
              r[i].level = "document_summary" => r[j].level = "document_summary"
  <2>1. \A i \in 1 .. Len(r) : r[i] \in U
    BY <1>8, ElementOf
  <2> QED
    BY <1>3, <1>4, <2>1 DEF Alike
<1>11. /\ Len(r) <= o.limits.items /\ TokensOf(r) <= o.limits.budget
       /\ \A i, j \in 1 .. Len(r) : i # j => ~SameText(r[i], r[j])
  BY <1>7 DEF Assembled
<1>12. SummaryKept(o, r)
  BY <1>9, <1>10, <1>11 DEF SummaryKept, Found, ranked
<1> QED
  BY <1>12 DEF r

-----------------------------------------------------------------------------
(* What expansion and merging make of the candidates.                        *)

(* The same chunk, whatever its scores. *)
SamePlace(c, row) ==
  /\ c.chunk = row.chunk /\ c.doc = row.doc /\ c.parent = row.parent /\ c.level = row.level
  /\ c.ordinal = row.ordinal /\ c.start = row.start /\ c.end = row.end

(* x is the row with other scores. *)
ScoresReplaced(x, row, a, b, c, d) ==
  x = [row EXCEPT !.sim = a, !.lex = b, !.fused = c, !.rerank = d]

(* A row with other scores is a row. *)
LEMMA RowRegraded ==
  ASSUME NEW row \in Rows, NEW a \in Int, NEW b \in Int, NEW c \in Int, NEW d \in Int,
         NEW x, ScoresReplaced(x, row, a, b, c, d)
  PROVE  x \in Rows /\ SamePlace(x, row) /\ x.sim = a /\ x.lex = b /\ x.rerank = d
<1>1. x = [row EXCEPT !.sim = a, !.lex = b, !.fused = c, !.rerank = d]
  BY DEF ScoresReplaced
<1>2. x \in Rows
  BY <1>1 DEF Rows
<1>3. SamePlace(x, row) /\ x.sim = a /\ x.lex = b /\ x.rerank = d
  BY <1>1 DEF Rows, SamePlace
<1> QED
  BY <1>2, <1>3

(* x has its text and its scores replaced. *)
Replaced(x, row, s, e, a, b, d) ==
  /\ x \in Rows /\ x.doc = row.doc /\ x.start = s /\ x.end = e
  /\ x.sim = a /\ x.lex = b /\ x.rerank = d

(* x is the row with the text, the scores and more members. *)
TextMerged(x, row, o, s, e, a, b, c, d, more) ==
  x = [row EXCEPT !.ordinal = o, !.start = s, !.end = e, !.hash = None,
                  !.sim = a, !.lex = b, !.fused = c, !.rerank = d,
                  !.members = row.members \union more]

(* A row with another text and other scores. *)
LEMMA RowMerged ==
  ASSUME NEW row \in Rows, NEW o \in Int, NEW s \in Int, NEW e \in Int,
         NEW a \in Int, NEW b \in Int, NEW c \in Int, NEW d \in Int, NEW more \in SUBSET STRING,
         NEW x, TextMerged(x, row, o, s, e, a, b, c, d, more)
  PROVE  Replaced(x, row, s, e, a, b, d)
<1> DEFINE m == row.members \union more
<1>1. m \in SUBSET STRING
  <2>1. row.members \in SUBSET STRING
    BY DEF Rows
  <2> QED
    BY <2>1
<1>2. x = [row EXCEPT !.ordinal = o, !.start = s, !.end = e, !.hash = None,
                      !.sim = a, !.lex = b, !.fused = c, !.rerank = d, !.members = m]
  BY DEF TextMerged
<1> HIDE DEF m
<1>3. x \in Rows
  BY <1>1, <1>2 DEF Rows
<1>4. /\ x.doc = row.doc /\ x.start = s /\ x.end = e
      /\ x.sim = a /\ x.lex = b /\ x.rerank = d
  BY <1>2 DEF Rows
<1> QED
  BY <1>3, <1>4 DEF Replaced

(* The passage reaches the candidate: it has its text, and its scores count. *)
Reaches(p, c) ==
  /\ Covers(p, c) /\ p.sim >= c.sim /\ p.lex >= c.lex
  /\ EffectiveScore(p) >= EffectiveScore(c)

(* Whatever has its Document and its scores from C, is no longer than the limit *)
(* and no better than the best.                                                 *)
TracedTo(C, limit, best) ==
  {x \in Rows :
     /\ Tokens(x) <= limit /\ EffectiveScore(x) > Absent
     /\ \E c \in C : x.doc = c.doc
     /\ \E c \in C : x.sim = c.sim
     /\ \E c \in C : x.lex = c.lex
     /\ best >= 0 => EffectiveScore(x) <= best}

(* The fields of what is traced. *)
LEMMA TracedFields ==
  ASSUME NEW C, NEW limit \in Nat, NEW best \in Int
  PROVE  /\ TracedTo(C, limit, best) \subseteq Rows
         /\ Graded(TracedTo(C, limit, best)) /\ Textual(TracedTo(C, limit, best))
<1>1. TracedTo(C, limit, best) \subseteq Rows
  BY DEF TracedTo
<1> QED
  BY <1>1, RowFields DEF Graded, Textual

(* What merging two candidates makes. *)
Merges(p, x, y) ==
  /\ p \in Rows /\ p.doc = x.doc
  /\ p.start = (IF x.start <= y.start THEN x.start ELSE y.start)
  /\ p.end = (IF x.end >= y.end THEN x.end ELSE y.end)
  /\ p.sim = (IF x.sim >= y.sim THEN x.sim ELSE y.sim)
  /\ p.lex = (IF x.lex >= y.lex THEN x.lex ELSE y.lex)
  /\ p.rerank = (IF EffectiveScore(x) >= EffectiveScore(y)
                   THEN EffectiveScore(x) ELSE EffectiveScore(y))

(* The merged candidate merges. *)
LEMMA MergedMerges ==
  ASSUME NEW x \in Rows, NEW y \in Rows
  PROVE  Merges(MergedCandidate(x, y), x, y)
<1> DEFINE o == Min({x.ordinal, y.ordinal})
           s == Min({x.start, y.start})
           e == Max({x.end, y.end})
           a == Max({x.sim, y.sim})
           b == Max({x.lex, y.lex})
           c == Max({x.fused, y.fused})
           d == Max({EffectiveScore(x), EffectiveScore(y)})
           more == y.members
           p == MergedCandidate(x, y)
<1>1. /\ x.ordinal \in Int /\ x.sim \in Int /\ x.lex \in Int /\ x.fused \in Int
      /\ y.ordinal \in Int /\ y.sim \in Int /\ y.lex \in Int /\ y.fused \in Int
      /\ x.start \in Int /\ x.end \in Int /\ y.start \in Int /\ y.end \in Int
      /\ EffectiveScore(x) \in Int /\ EffectiveScore(y) \in Int /\ more \in SUBSET STRING
  <2>1. more \in SUBSET STRING
    BY DEF Rows
  <2> QED
    BY <2>1, RowFields, RowScore DEF Textual
<1>2. /\ o \in Int /\ c \in Int
      /\ s \in Int /\ s = (IF x.start <= y.start THEN x.start ELSE y.start)
      /\ e \in Int /\ e = (IF x.end >= y.end THEN x.end ELSE y.end)
      /\ a \in Int /\ a = (IF x.sim >= y.sim THEN x.sim ELSE y.sim)
      /\ b \in Int /\ b = (IF x.lex >= y.lex THEN x.lex ELSE y.lex)
      /\ d \in Int /\ d = (IF EffectiveScore(x) >= EffectiveScore(y)
                             THEN EffectiveScore(x) ELSE EffectiveScore(y))
  <2>1. o = (IF x.ordinal <= y.ordinal THEN x.ordinal ELSE y.ordinal)
    BY <1>1, OfTwo
  <2>2. c = (IF x.fused >= y.fused THEN x.fused ELSE y.fused)
    BY <1>1, OfTwo
  <2>3. s = (IF x.start <= y.start THEN x.start ELSE y.start)
    BY <1>1, OfTwo
  <2>4. e = (IF x.end >= y.end THEN x.end ELSE y.end)
    BY <1>1, OfTwo
  <2>5. a = (IF x.sim >= y.sim THEN x.sim ELSE y.sim)
    BY <1>1, OfTwo
  <2>6. b = (IF x.lex >= y.lex THEN x.lex ELSE y.lex)
    BY <1>1, OfTwo
  <2>7. d = (IF EffectiveScore(x) >= EffectiveScore(y)
               THEN EffectiveScore(x) ELSE EffectiveScore(y))
    BY <1>1, OfTwo
  <2> HIDE DEF o, s, e, a, b, c, d
  <2> QED
    BY <1>1, <2>1, <2>2, <2>3, <2>4, <2>5, <2>6, <2>7
<1>3. TextMerged(p, x, o, s, e, a, b, c, d, more)
  BY DEF MergedCandidate, TextMerged
<1> HIDE DEF o, s, e, a, b, c, d, more, p
<1>4. /\ p \in Rows /\ p.doc = x.doc /\ p.start = s /\ p.end = e
      /\ p.sim = a /\ p.lex = b /\ p.rerank = d
  <2>1. Replaced(p, x, s, e, a, b, d)
    BY <1>1, <1>2, <1>3, RowMerged
  <2> QED
    BY <2>1 DEF Replaced
<1>5. Merges(p, x, y)
  BY <1>2, <1>4 DEF Merges
<1> QED
  BY <1>5 DEF p

(* Merging what is traced, within the limit, is traced, reaches both where they *)
(* are of one Document, and what they reach.                                    *)
LEMMA MergedIsTraced ==
  ASSUME NEW C, NEW limit \in Nat, NEW best \in Int,
         NEW x \in TracedTo(C, limit, best), NEW y \in TracedTo(C, limit, best),
         Tokens(MergedCandidate(x, y)) <= limit
  PROVE  MergedCandidate(x, y) \in TracedTo(C, limit, best)
<1> DEFINE p == MergedCandidate(x, y)
<1>1. x \in Rows /\ y \in Rows
  BY TracedFields
<1>2. Merges(p, x, y)
  BY <1>1, MergedMerges
<1> HIDE DEF p
<1>3. EffectiveScore(x) \in Int /\ EffectiveScore(y) \in Int
  BY <1>1, RowScore
<1>4. /\ EffectiveScore(x) > Absent /\ EffectiveScore(y) > Absent
      /\ best >= 0 => EffectiveScore(x) <= best /\ EffectiveScore(y) <= best
      /\ \E c \in C : x.doc = c.doc
      /\ \E c \in C : x.sim = c.sim
      /\ \E c \in C : y.sim = c.sim
      /\ \E c \in C : x.lex = c.lex
      /\ \E c \in C : y.lex = c.lex
  BY DEF TracedTo
<1>5. EffectiveScore(p) \in {EffectiveScore(x), EffectiveScore(y)}
  <2>1. p.rerank \in {EffectiveScore(x), EffectiveScore(y)}
    BY <1>2 DEF Merges
  <2>2. p.rerank # Absent
    BY <1>3, <1>4, <2>1 DEF Absent
  <2> QED
    BY <2>1, <2>2 DEF EffectiveScore
<1>6. /\ p \in Rows /\ p.doc = x.doc /\ p.sim \in {x.sim, y.sim} /\ p.lex \in {x.lex, y.lex}
  BY <1>2 DEF Merges
<1>7. p \in TracedTo(C, limit, best)
  <2>1. Tokens(p) <= limit
    BY DEF p
  <2>2. EffectiveScore(p) > Absent /\ (best >= 0 => EffectiveScore(p) <= best)
    BY <1>4, <1>5
  <2>3. /\ \E c \in C : p.doc = c.doc
        /\ \E c \in C : p.sim = c.sim
        /\ \E c \in C : p.lex = c.lex
    BY <1>4, <1>6
  <2> QED
    BY <1>6, <2>1, <2>2, <2>3 DEF TracedTo
<1> QED
  BY <1>7 DEF p

(* The merged candidate reaches what its parts reach, in the same Document. *)
LEMMA MergedReaches ==
  ASSUME NEW x \in Rows, NEW y \in Rows,
         EffectiveScore(x) > Absent, EffectiveScore(y) > Absent
  PROVE  /\ \A c \in Rows : Reaches(x, c) => Reaches(MergedCandidate(x, y), c)
         /\ x.doc = y.doc => Reaches(MergedCandidate(x, y), y)
<1> DEFINE p == MergedCandidate(x, y)
<1>1. Merges(p, x, y)
  BY MergedMerges
<1> HIDE DEF p
<1>2. /\ x.sim \in Int /\ x.lex \in Int /\ y.sim \in Int /\ y.lex \in Int
      /\ x.start \in Int /\ x.end \in Int /\ y.start \in Int /\ y.end \in Int
      /\ EffectiveScore(x) \in Int /\ EffectiveScore(y) \in Int
  BY RowFields, RowScore DEF Textual
<1>3. /\ p.start <= x.start /\ p.start <= y.start /\ p.end >= x.end /\ p.end >= y.end
      /\ p.sim >= x.sim /\ p.sim >= y.sim /\ p.lex >= x.lex /\ p.lex >= y.lex
      /\ p.start \in Int /\ p.end \in Int /\ p.sim \in Int /\ p.lex \in Int
      /\ p.doc = x.doc
  BY <1>1, <1>2 DEF Merges
<1>4. /\ EffectiveScore(p) >= EffectiveScore(x) /\ EffectiveScore(p) >= EffectiveScore(y)
      /\ EffectiveScore(p) \in Int
  <2>1. /\ p.rerank >= EffectiveScore(x) /\ p.rerank >= EffectiveScore(y) /\ p.rerank \in Int
        /\ p.rerank \in {EffectiveScore(x), EffectiveScore(y)}
    BY <1>1, <1>2 DEF Merges
  <2>2. p.rerank # Absent
    BY <1>2, <2>1 DEF Absent
  <2>3. EffectiveScore(p) = p.rerank
    BY <2>2 DEF EffectiveScore
  <2> QED
    BY <2>1, <2>3
<1>5. ASSUME NEW c \in Rows, Reaches(x, c) PROVE Reaches(p, c)
  <2>1. /\ c.sim \in Int /\ c.lex \in Int /\ c.start \in Int /\ c.end \in Int
        /\ EffectiveScore(c) \in Int
    BY RowFields, RowScore DEF Textual
  <2>2. /\ x.doc = c.doc /\ x.start <= c.start /\ x.end >= c.end
        /\ x.sim >= c.sim /\ x.lex >= c.lex /\ EffectiveScore(x) >= EffectiveScore(c)
    BY <1>5 DEF Reaches, Covers
  <2> QED
    BY <1>2, <1>3, <1>4, <2>1, <2>2 DEF Reaches, Covers
<1>6. ASSUME x.doc = y.doc PROVE Reaches(p, y)
  BY <1>3, <1>4, <1>6 DEF Reaches, Covers
<1> QED
  BY <1>5, <1>6 DEF p

-----------------------------------------------------------------------------
(* A passage along the children of one parent.                               *)

(* The members of a run are of one Document and follow each other in it. *)
Following(run) ==
  \A m, p \in 1 .. Len(run) :
    /\ run[m].doc = run[p].doc
    /\ m <= p => run[m].start <= run[p].start /\ run[m].end <= run[p].end

(* The states of a passage that grows. *)
Growing(C, limit, best) == [full : BOOLEAN, passage : TracedTo(C, limit, best)]

(* A passage that is full stays what it is. *)
LEMMA FullGrows ==
  ASSUME NEW C, NEW limit \in Nat, NEW best \in Int, NEW acc \in Growing(C, limit, best)
  PROVE  /\ [acc EXCEPT !.full = TRUE] \in Growing(C, limit, best)
         /\ [acc EXCEPT !.full = TRUE].full = TRUE
         /\ [acc EXCEPT !.full = TRUE].passage = acc.passage
BY DEF Growing

(* One more member leaves the passage within its limit. *)
LEMMA ExtendedGrows ==
  ASSUME NEW C, NEW limit \in Nat, NEW best \in Int,
         NEW acc \in Growing(C, limit, best), NEW x \in TracedTo(C, limit, best)
  PROVE  Extended(acc, x, limit) \in Growing(C, limit, best)
<1> DEFINE T == TracedTo(C, limit, best)
           p == MergedCandidate(acc.passage, x)
<1>1. acc.full \in BOOLEAN /\ acc.passage \in T /\ acc = [full |-> acc.full, passage |-> acc.passage]
  BY DEF Growing
<1> HIDE DEF T, p
<1>2. CASE acc.full \/ Tokens(p) > limit
  <2>1. Extended(acc, x, limit) = [acc EXCEPT !.full = TRUE]
    BY <1>2 DEF Extended, p
  <2> QED
    BY <2>1, FullGrows
<1>3. CASE ~(acc.full \/ Tokens(p) > limit)
  <2>1. Extended(acc, x, limit) = [acc EXCEPT !.passage = p]
    BY <1>3 DEF Extended, p
  <2>2. [acc EXCEPT !.passage = p] = [full |-> acc.full, passage |-> p]
    BY <1>1
  <2>3. p \in T
    <3>1. x \in Rows /\ acc.passage \in Rows
      BY <1>1, TracedFields DEF T
    <3>2. Merges(p, acc.passage, x)
      BY <3>1, MergedMerges DEF p
    <3>3. Tokens(p) \in Int
      BY <3>2, RowFields, TokensIn DEF Merges
    <3>4. Tokens(p) <= limit
      BY <1>3, <3>3
    <3> QED
      BY <1>1, <3>4, MergedIsTraced DEF T, p
  <2> QED
    BY <1>1, <2>1, <2>2, <2>3 DEF Growing, T
<1> QED
  BY <1>2, <1>3

(* How far a passage has come: it starts where the run does, and of the k first *)
(* members it reaches each one whose end is within the limit.                   *)
Along(acc, run, k, limit) ==
  /\ acc.passage.doc = run[1].doc /\ acc.passage.start = run[1].start
  /\ \E m \in 1 .. k : acc.passage.end = run[m].end
  /\ \A j \in 1 .. k : Reaches(acc.passage, run[j]) \/ run[j].end - run[1].start > limit
  /\ acc.full => \E m \in 1 .. k : run[m].end - run[1].start > limit

(* One more member leaves it so. *)
LEMMA ExtendedIsAlong ==
  ASSUME NEW C, NEW limit \in Nat, NEW best \in Int,
         NEW run \in Seq(TracedTo(C, limit, best)), Following(run),
         NEW k \in Nat \ {0}, k + 1 <= Len(run),
         NEW acc \in Growing(C, limit, best), Along(acc, run, k, limit)
  PROVE  Along(Extended(acc, run[k + 1], limit), run, k + 1, limit)
<1> DEFINE T == TracedTo(C, limit, best)
           q == acc.passage
           x == run[k + 1]
           p == MergedCandidate(q, x)
           next == Extended(acc, x, limit)
<1>1. /\ acc.full \in BOOLEAN /\ q \in T /\ acc = [full |-> acc.full, passage |-> q]
  BY DEF Growing
<1>2. /\ 1 \in 1 .. Len(run) /\ k + 1 \in 1 .. Len(run) /\ x \in T
      /\ \A j \in 1 .. k : j \in 1 .. Len(run) /\ j <= k + 1 /\ j \in 1 .. k + 1
      /\ \A j \in 1 .. k + 1 : j \in 1 .. k \/ j = k + 1
      /\ k + 1 \in 1 .. k + 1
  BY ElementOf
<1>3. /\ \A j \in 1 .. Len(run) : /\ run[j] \in Rows /\ run[j].start \in Int /\ run[j].end \in Int
                                  /\ EffectiveScore(run[j]) > Absent
      /\ q \in Rows /\ q.start \in Int /\ q.end \in Int /\ EffectiveScore(q) > Absent
  <2>1. \A y \in T : y \in Rows /\ y.start \in Int /\ y.end \in Int /\ EffectiveScore(y) > Absent
    BY TracedFields DEF TracedTo, Textual
  <2> HIDE DEF T, q
  <2> QED
    BY <1>1, <2>1, ElementOf DEF T
<1>4. /\ q.doc = run[1].doc /\ q.start = run[1].start
      /\ \E m \in 1 .. k : q.end = run[m].end
      /\ \A j \in 1 .. k : Reaches(q, run[j]) \/ run[j].end - run[1].start > limit
      /\ acc.full => \E m \in 1 .. k : run[m].end - run[1].start > limit
  BY DEF Along
<1>5. /\ x.doc = run[1].doc /\ run[1].start <= x.start
      /\ \A m \in 1 .. k : run[m].end <= x.end
  BY <1>2 DEF Following
<1>6. /\ x \in Rows /\ x.start \in Int /\ x.end \in Int /\ EffectiveScore(x) > Absent
      /\ run[1].start \in Int
  BY <1>2, <1>3
<1>7. q.end <= x.end
  BY <1>4, <1>5
<1> HIDE DEF T, q, x, p
<1>8. Merges(p, q, x)
  BY <1>3, <1>6, MergedMerges DEF p
<1>9. p.start = run[1].start /\ p.end = x.end /\ p.doc = run[1].doc
  <2>1. p.start = q.start
    BY <1>4, <1>5, <1>8 DEF Merges
  <2>2. p.end = x.end
    BY <1>3, <1>6, <1>7, <1>8 DEF Merges
  <2> QED
    BY <1>4, <1>8, <2>1, <2>2 DEF Merges
<1>10. CASE acc.full \/ Tokens(p) > limit
  <2>1. next = [acc EXCEPT !.full = TRUE]
    BY <1>10 DEF Extended, p, q
  <2>2. x.end - run[1].start > limit
    <3>1. CASE acc.full
      <4>1. PICK m \in 1 .. k : run[m].end - run[1].start > limit
        BY <1>4, <3>1
      <4>2. run[m].end <= x.end /\ run[m].end \in Int
        BY <1>2, <1>3, <1>5
      <4> QED
        BY <1>6, <4>1, <4>2
    <3>2. CASE Tokens(p) > limit
      BY <1>9, <3>2 DEF Tokens
    <3> QED
      BY <1>10, <3>1, <3>2
  <2> HIDE DEF next
  <2>3. next.full = TRUE /\ next.passage = q
    BY <2>1, FullGrows DEF q
  <2>4. \A j \in 1 .. k + 1 : Reaches(q, run[j]) \/ run[j].end - run[1].start > limit
    BY <1>2, <1>4, <2>2 DEF x
  <2>5. \E m \in 1 .. k + 1 : q.end = run[m].end
    BY <1>2, <1>4
  <2>6. \E m \in 1 .. k + 1 : run[m].end - run[1].start > limit
    BY <1>2, <2>2 DEF x
  <2> QED
    BY <1>4, <2>3, <2>4, <2>5, <2>6 DEF Along, next, x
<1>11. CASE ~(acc.full \/ Tokens(p) > limit)
  <2>1. next = [full |-> acc.full, passage |-> p]
    <3>1. next = [acc EXCEPT !.passage = p]
      BY <1>11 DEF Extended, p, q
    <3> QED
      BY <1>1, <3>1
  <2> HIDE DEF next
  <2>2. next.full = acc.full /\ next.passage = p /\ ~acc.full
    BY <1>11, <2>1
  <2>3. Reaches(p, x) /\ \A c \in Rows : Reaches(q, c) => Reaches(p, c)
    BY <1>3, <1>4, <1>5, <1>6, MergedReaches DEF p
  <2>4. \A j \in 1 .. k + 1 : Reaches(p, run[j]) \/ run[j].end - run[1].start > limit
    BY <1>2, <1>3, <1>4, <2>3 DEF x
  <2>5. \E m \in 1 .. k + 1 : p.end = run[m].end
    BY <1>2, <1>9 DEF x
  <2> QED
    BY <1>9, <2>2, <2>4, <2>5 DEF Along, next, x
<1> QED
  BY <1>10, <1>11 DEF next, x

(* What becomes of a member of the run: the passage reaches it, or it is left *)
(* behind one that is too far from its end.                                   *)
Arrives(passage, run, i, limit) ==
  \/ Reaches(passage, run[i])
  \/ run[1].start < run[i].start /\ run[i].end - run[1].start > limit

(* Every member of the run arrives, or is left behind. *)
LEMMA PassageArrives ==
  ASSUME NEW C, NEW limit \in Nat, NEW best \in Int,
         NEW run \in Seq(TracedTo(C, limit, best)), run # <<>>, Following(run)
  PROVE  /\ Passage(run, limit) \in TracedTo(C, limit, best)
         /\ \A i \in 1 .. Len(run) : Arrives(Passage(run, limit), run, i, limit)
<1> DEFINE T == TracedTo(C, limit, best)
           V == Growing(C, limit, best)
           s == Tail(run)
           n == Len(s)
           start == [full |-> FALSE, passage |-> Head(run)]
           r == Passage(run, limit)
<1> USE DEF T
<1>1. /\ n \in Nat /\ Len(run) = n + 1 /\ DOMAIN s = 1 .. n
      /\ \A k \in 1 .. n : s[k] = run[k + 1]
      /\ Head(run) = run[1] /\ \A k \in 1 .. n + 1 : run[k] \in T
  BY ElementOf
<1> HIDE DEF T, s, n
<1>2. 1 \in 1 .. n + 1 /\ start \in V /\ start.full = FALSE /\ start.passage = run[1]
  BY <1>1 DEF Growing, T
<1>3. \A a \in V, i \in 1 .. n : Extended(a, s[i], limit) \in V
  <2> SUFFICES ASSUME NEW a \in V, NEW i \in 1 .. n PROVE Extended(a, s[i], limit) \in V
    OBVIOUS
  <2>1. i + 1 \in 1 .. n + 1 /\ s[i] \in T
    BY <1>1
  <2> QED
    BY <2>1, ExtendedGrows DEF T
<1>4. r = Extending(s, start, limit).passage
  BY DEF Passage, Extending, Extended, s
<1> HIDE DEF start, r, V
<1>5. PICK g \in [0 .. n -> V] : ExtendingSteps(g, s, n, start, limit)
  BY <1>1, <1>2, <1>3, ExtendingRun
<1>6. /\ g[0] = start /\ g[n].passage = r
      /\ \A k \in 1 .. n : g[k] = Extended(g[k - 1], s[k], limit)
      /\ \A k \in 0 .. n : g[k] \in V
  BY <1>1, <1>4, <1>5 DEF ExtendingSteps
<1>7. \A k \in 1 .. n + 1 : /\ run[k].start \in Int /\ run[k].end \in Int /\ Tokens(run[k]) <= limit
                            /\ run[k] \in Rows
  <2>1. \A y \in T : y.start \in Int /\ y.end \in Int /\ Tokens(y) <= limit /\ y \in Rows
    BY TracedFields DEF TracedTo, Textual, T
  <2> QED
    BY <1>1, <2>1
<1> DEFINE M == {k \in Nat : k <= n => Along(g[k], run, k + 1, limit)}
<1>8. 0 \in M
  <2>1. Reaches(run[1], run[1])
    <3>1. run[1].sim \in Int /\ run[1].lex \in Int /\ EffectiveScore(run[1]) \in Int
      BY <1>2, <1>7, RowFields, RowScore
    <3> QED
      BY <1>2, <1>7, <3>1 DEF Reaches, Covers
  <2>2. 1 .. 0 + 1 = {1}
    OBVIOUS
  <2>3. Along(g[0], run, 0 + 1, limit)
    BY <1>2, <1>6, <2>1, <2>2 DEF Along
  <2> QED
    BY <2>3
<1>9. ASSUME NEW k \in Nat, k \in M PROVE k + 1 \in M
  <2> SUFFICES ASSUME k + 1 <= n PROVE Along(g[k + 1], run, (k + 1) + 1, limit)
    OBVIOUS
  <2> DEFINE m == k + 1
  <2>1. /\ m \in 1 .. n /\ m - 1 = k /\ k \in 0 .. n /\ m \in Nat \ {0} /\ m + 1 <= Len(run)
        /\ Along(g[k], run, m, limit)
    BY <1>1, <1>9
  <2> HIDE DEF m
  <2>2. g[m] = Extended(g[k], run[m + 1], limit) /\ g[k] \in V
    BY <1>1, <1>6, <2>1
  <2>3. Along(g[m], run, m + 1, limit)
    BY <2>1, <2>2, ExtendedIsAlong DEF V
  <2> QED
    BY <2>3 DEF m
<1>10. Along(g[n], run, n + 1, limit)
  <2>1. Nat \subseteq M
    <3> HIDE DEF M
    <3> QED BY <1>8, <1>9, SetInduction
  <2> QED
    BY <1>1, <2>1
<1>11. ASSUME NEW i \in 1 .. n + 1 PROVE Arrives(r, run, i, limit)
  <2>1. Reaches(r, run[i]) \/ run[i].end - run[1].start > limit
    BY <1>6, <1>10 DEF Along
  <2>2. /\ run[i].end - run[i].start <= limit /\ run[i].end \in Int /\ run[i].start \in Int
        /\ run[1].start \in Int
    BY <1>2, <1>7 DEF Tokens
  <2>3. run[i].end - run[1].start > limit => run[1].start < run[i].start
    BY <2>2
  <2> QED
    BY <2>1, <2>3 DEF Arrives
<1>12. r \in T
  <2>1. n \in 0 .. n
    BY <1>1
  <2> QED
    BY <1>6, <2>1 DEF V, T, Growing
<1> QED
  BY <1>1, <1>11, <1>12 DEF r, T

-----------------------------------------------------------------------------
(* Merging, the best seed first.                                             *)

(* The children are rows of the corpus, whatever their scores. *)
Settled(E) ==
  \A x \in E : x.level = "child" =>
      \E row \in Corpus : row.level = "child" /\ SamePlace(x, row)

(* What is compatible with a seed: a run of candidates, the seed among them if it *)
(* may be.                                                                        *)
RunsThrough(run, seed, s, consumed) ==
  /\ Elements(run) \subseteq Elements(s) /\ Following(run)
  /\ seed.chunk \notin consumed /\ seed.level = "child" /\ seed.parent # None
       => seed \in Elements(run)
  /\ run # <<>> => seed.level = "child"

(* The compatible candidates run through the seed. *)
LEMMA CompatibleRuns ==
  ASSUME NEW T \in SUBSET Rows, NEW s \in Seq(T), Settled(Elements(s)),
         NEW seed \in Elements(s), NEW consumed
  PROVE  /\ Compatible(seed, s, consumed) \in Seq(T)
         /\ RunsThrough(Compatible(seed, s, consumed), seed, s, consumed)
<1> DEFINE group == {c \in Elements(s) : c.chunk \notin consumed /\ SameMergeGroup(seed, c)}
           Reached(c) == \A o \in Min({c.ordinal, seed.ordinal})
                                 .. Max({c.ordinal, seed.ordinal}) :
                            \E d \in group : d.ordinal = o
           S == {c \in group : Reached(c)}
           run == Compatible(seed, s, consumed)
<1>1. run = InRowOrder(S)
  BY DEF Compatible
<1>2. S \subseteq Elements(s) /\ Elements(s) \subseteq T /\ IsFiniteSet(Elements(s)) /\ S \subseteq group
  <2>1. S \subseteq Elements(s) /\ S \subseteq group
    OBVIOUS
  <2> QED
    BY <2>1, ElementsOf
<1>3. \A x \in group : /\ x \in Elements(s) /\ seed.doc = x.doc /\ seed.parent # None
                       /\ seed.parent = x.parent /\ seed.level = "child" /\ x.level = "child"
  BY DEF SameMergeGroup
<1>4. seed.chunk \notin consumed /\ seed.level = "child" /\ seed.parent # None => seed \in S
  <2> SUFFICES ASSUME seed.chunk \notin consumed, seed.level = "child", seed.parent # None
               PROVE  seed \in S
    OBVIOUS
  <2>1. seed \in group
    BY DEF SameMergeGroup
  <2>2. seed.ordinal \in Int
    BY <1>2, RowFields
  <2>3. Min({seed.ordinal, seed.ordinal}) = seed.ordinal /\ Max({seed.ordinal, seed.ordinal}) = seed.ordinal
    BY <2>2, OfTwo
  <2>4. \A o \in Min({seed.ordinal, seed.ordinal}) .. Max({seed.ordinal, seed.ordinal}) :
           o = seed.ordinal
    BY <2>2, <2>3
  <2>5. Reached(seed)
    <3> HIDE DEF group
    <3> QED BY <2>1, <2>4
  <2> QED
    BY <2>1, <2>5
<1> HIDE DEF group, Reached, S, run
<1>5. IsFiniteSet(S) /\ S \in SUBSET Rows
  BY <1>2, FS_Subset
<1>6. run \in Seq(S) /\ Elements(run) = S /\ InOrder(run)
  BY <1>1, <1>5, RowsInOrder
<1>7. \A m \in 1 .. Len(run) : run[m] \in S
  BY <1>6, ElementOf
<1>8. Following(run)
  <2> SUFFICES ASSUME NEW m \in 1 .. Len(run), NEW p \in 1 .. Len(run)
               PROVE  /\ run[m].doc = run[p].doc
                      /\ m <= p => run[m].start <= run[p].start /\ run[m].end <= run[p].end
    BY DEF Following
  <2> DEFINE x == run[m]
             y == run[p]
  <2>1. x \in group /\ y \in group /\ x \in Rows /\ y \in Rows
    BY <1>2, <1>5, <1>7
  <2>2. PICK a \in Corpus : a.level = "child" /\ SamePlace(x, a)
    BY <1>3, <2>1 DEF Settled
  <2>3. PICK b \in Corpus : b.level = "child" /\ SamePlace(y, b)
    BY <1>3, <2>1 DEF Settled
  <2>4. a.parent = b.parent /\ a.parent # None
    BY <1>3, <2>1, <2>2, <2>3 DEF SamePlace
  <2>5. a.ordinal <= b.ordinal => a.start <= b.start /\ a.end <= b.end
    BY <2>2, <2>3, <2>4, CorpusAssumption
  <2>6. m <= p => x.ordinal <= y.ordinal
    <3>1. m < p => x.ordinal <= y.ordinal
      BY <1>6 DEF InOrder
    <3>2. x.ordinal \in Int
      BY <2>1, RowFields
    <3>3. m = p => x.ordinal <= y.ordinal
      BY <3>2
    <3> QED
      BY <3>1, <3>3
  <2>7. x.doc = y.doc
    BY <1>3, <2>1
  <2> HIDE DEF x, y
  <2>8. m <= p => x.start <= y.start /\ x.end <= y.end
    BY <2>2, <2>3, <2>5, <2>6 DEF SamePlace
  <2> QED
    BY <2>7, <2>8 DEF x, y
<1>9. run # <<>> => seed.level = "child"
  <2> SUFFICES ASSUME run # <<>> PROVE seed.level = "child"
    OBVIOUS
  <2>1. 1 \in 1 .. Len(run)
    BY <1>6
  <2>2. run[1] \in group
    BY <1>2, <1>7, <2>1
  <2> QED
    BY <1>3, <2>2
<1>10. run \in Seq(T)
  BY <1>2, <1>6
<1>11. RunsThrough(run, seed, s, consumed)
  BY <1>2, <1>4, <1>6, <1>8, <1>9 DEF RunsThrough
<1> QED
  BY <1>10, <1>11 DEF run

(* The passage of a seed is traced, and that of the first seed reaches it or *)
(* leaves it behind.                                                         *)
LEMMA PassageOfSeed ==
  ASSUME NEW C, NEW limit \in Nat, NEW best \in Int,
         NEW s \in Seq(TracedTo(C, limit, best)), Settled(Elements(s)),
         NEW seed \in Elements(s), NEW acc
  PROVE  /\ PassageOf(acc, seed, s, limit) \in TracedTo(C, limit, best)
         /\ acc.consumed = {} =>
              Reaches(PassageOf(acc, seed, s, limit), seed) \/ LeftBehind(seed, s, limit)
<1> DEFINE T == TracedTo(C, limit, best)
           run == Compatible(seed, s, acc.consumed)
           r == PassageOf(acc, seed, s, limit)
<1>1. T \in SUBSET Rows /\ seed \in T /\ s \in Seq(T)
  BY TracedFields, ElementsOf
<1>2. run \in Seq(T) /\ RunsThrough(run, seed, s, acc.consumed)
  <2> HIDE DEF T
  <2> QED BY <1>1, CompatibleRuns
<1>3. r = IF run = <<>> THEN seed ELSE Passage(run, limit)
  BY DEF PassageOf
<1>4. Reaches(seed, seed)
  <2>1. /\ seed.sim \in Int /\ seed.lex \in Int /\ seed.start \in Int /\ seed.end \in Int
        /\ EffectiveScore(seed) \in Int
    BY <1>1, RowFields, RowScore DEF Textual
  <2> QED
    BY <2>1 DEF Reaches, Covers
<1> HIDE DEF r, run
<1>5. CASE run = <<>>
  BY <1>1, <1>3, <1>4, <1>5 DEF r
<1>6. CASE run # <<>>
  <2>1. Following(run)
    BY <1>2 DEF RunsThrough
  <2>2. r \in T /\ \A i \in 1 .. Len(run) : Arrives(r, run, i, limit)
    BY <1>2, <1>3, <1>6, <2>1, PassageArrives
  <2>3. ASSUME acc.consumed = {} PROVE Reaches(r, seed) \/ LeftBehind(seed, s, limit)
    <3>1. seed.level = "child"
      BY <1>2, <1>6 DEF RunsThrough
    <3>2. CASE seed.parent # None
      <4>1. seed \in Elements(run)
        BY <1>2, <2>3, <3>1, <3>2 DEF RunsThrough
      <4>2. PICK i \in 1 .. Len(run) : seed = run[i]
        BY <4>1 DEF Elements
      <4>3. Arrives(r, run, i, limit)
        BY <2>2
      <4>4. run[1] \in Elements(run)
        <5>1. 1 \in 1 .. Len(run)
          BY <1>2, <1>6
        <5> QED
          BY <5>1 DEF Elements
      <4>5. run = Compatible(seed, s, {})
        BY <2>3 DEF run
      <4> QED
        BY <4>2, <4>3, <4>4, <4>5 DEF Arrives, LeftBehind
    <3>3. CASE seed.parent = None
      <4>1. run = <<>>
        <5>1. {c \in Elements(s) : c.chunk \notin acc.consumed /\ SameMergeGroup(seed, c)} = {}
          BY <3>3 DEF SameMergeGroup
        <5>2. run = InRowOrder({})
          BY <5>1 DEF run, Compatible
        <5>3. Elements(InRowOrder({})) = {} /\ InRowOrder({}) \in Seq({})
          <6>1. {} \in SUBSET Rows /\ IsFiniteSet({})
            BY FS_EmptySet
          <6> QED
            BY <6>1, RowsInOrder
        <5> QED
          BY <5>2, <5>3
      <4> QED
        BY <1>6, <4>1
    <3> QED
      BY <3>2, <3>3
  <2> QED
    BY <2>2, <2>3 DEF r
<1> QED
  BY <1>5, <1>6

(* The states of the merge. *)
MergeStates(T) == [merged : Seq(T), consumed : SUBSET STRING]

(* What the merge of the candidates leaves: passages, and first that of the best *)
(* candidate if it reaches it.                                                   *)
MergeReaches(r, s, limit, best) ==
  /\ r # <<>>
  /\ best >= 0 /\ EffectiveScore(ByScore(s)[1]) = best =>
       \/ Reaches(r[1], ByScore(s)[1])
       \/ LeftBehind(ByScore(s)[1], s, limit)

(* The best candidate comes first, or is left behind. *)
LEMMA MergeKeepsBest ==
  ASSUME NEW C, NEW limit \in Nat, NEW best \in Int,
         NEW s \in Seq(TracedTo(C, limit, best)), Settled(Elements(s)), s # <<>>
  PROVE  /\ Merge(s, limit) \in Seq(TracedTo(C, limit, best))
         /\ MergeReaches(Merge(s, limit), s, limit, best)
<1> DEFINE T == TracedTo(C, limit, best)
           V == MergeStates(T)
           q == ByScore(s)
           n == Len(q)
           r == Merge(s, limit)
           state == Merging(q, s, limit)
<1> USE DEF T
<1>1. T \in SUBSET Rows /\ Graded(T) /\ s \in Seq(T)
  BY TracedFields
<1> HIDE DEF T
<1>2. q \in Seq(T) /\ BestFirst(q, s)
  BY <1>1, ByScoreSorts
<1> HIDE DEF q
<1>3. /\ n \in Nat \ {0} /\ DOMAIN q = 1 .. n
      /\ \A i \in 1 .. n : q[i] \in Elements(s) /\ q[i] \in T
  <2>1. Len(q) = Len(s) /\ Elements(q) = Elements(s)
    BY <1>2 DEF BestFirst
  <2>2. Len(s) \in Nat \ {0}
    BY <1>1
  <2> QED
    BY <1>2, <2>1, <2>2, ElementsOf, ElementOf
<1> HIDE DEF n
<1>4. NothingMerged \in V
  BY DEF NothingMerged, MergeStates
<1>5. \A i \in 1 .. n, a \in V : PassageOf(a, q[i], s, limit) \in T
  <2> SUFFICES ASSUME NEW i \in 1 .. n, NEW a \in V PROVE PassageOf(a, q[i], s, limit) \in T
    OBVIOUS
  <2>1. q[i] \in Elements(s)
    BY <1>3
  <2> QED
    BY <1>1, <2>1, PassageOfSeed DEF T
<1>6. \A a \in V, i \in 1 .. n :
        /\ Seeded(a, q[i], s, limit) \in V
        /\ a.merged # <<>> => /\ Seeded(a, q[i], s, limit).merged # <<>>
                              /\ Seeded(a, q[i], s, limit).merged[1] = a.merged[1]
  <2> SUFFICES ASSUME NEW a \in V, NEW i \in 1 .. n
               PROVE  /\ Seeded(a, q[i], s, limit) \in V
                      /\ a.merged # <<>> => /\ Seeded(a, q[i], s, limit).merged # <<>>
                                            /\ Seeded(a, q[i], s, limit).merged[1] = a.merged[1]
    OBVIOUS
  <2> DEFINE p == PassageOf(a, q[i], s, limit)
             next == Seeded(a, q[i], s, limit)
  <2>1. p \in T /\ p.members \in SUBSET STRING
    BY <1>1, <1>5 DEF Rows
  <2>2. a.merged \in Seq(T) /\ a.consumed \in SUBSET STRING
    BY DEF MergeStates
  <2>3. CASE q[i].chunk \in a.consumed
    BY <2>3 DEF Seeded
  <2>4. CASE q[i].chunk \notin a.consumed
    <3>1. next = [merged |-> Append(a.merged, p), consumed |-> a.consumed \union p.members]
      BY <2>4 DEF Seeded
    <3> HIDE DEF p, next
    <3>2. Append(a.merged, p) \in Seq(T) /\ a.consumed \union p.members \in SUBSET STRING
      BY <2>1, <2>2
    <3>3. a.merged # <<>> => Append(a.merged, p) # <<>> /\ Append(a.merged, p)[1] = a.merged[1]
      BY <2>1, <2>2
    <3>4. next \in V /\ next.merged = Append(a.merged, p)
      BY <3>1, <3>2 DEF MergeStates
    <3> QED
      BY <3>3, <3>4 DEF next
  <2> QED
    BY <2>3, <2>4
<1>7. PICK g \in [0 .. n -> V] : MergingSteps(g, q, n, s, limit)
  <2>1. n \in Nat
    BY <1>3
  <2>2. \A a \in V, i \in 1 .. n : Seeded(a, q[i], s, limit) \in V
    BY <1>6
  <2> HIDE DEF V
  <2> QED BY <1>3, <1>4, <2>1, <2>2, MergingRun
<1>8. /\ g[0] = NothingMerged /\ g[n] = state
      /\ \A k \in 1 .. n : g[k] = Seeded(g[k - 1], q[k], s, limit)
      /\ \A k \in 0 .. n : g[k] \in V
  BY <1>7 DEF MergingSteps
<1> DEFINE first == PassageOf(NothingMerged, q[1], s, limit)
           Starts(k) == g[k].merged # <<>> /\ g[k].merged[1] = first
           M == {k \in Nat : k + 1 <= n => Starts(k + 1)}
<1> HIDE DEF V, state
<1>9. 0 \in M
  <2>1. 1 \in 1 .. n /\ 1 - 1 = 0
    BY <1>3
  <2>2. g[1] = Seeded(NothingMerged, q[1], s, limit)
    BY <1>8, <2>1
  <2>3. NothingMerged.merged = <<>> /\ NothingMerged.consumed = {}
    BY DEF NothingMerged
  <2>4. Seeded(NothingMerged, q[1], s, limit)
          = [merged |-> Append(<<>>, first), consumed |-> {} \union first.members]
    BY <2>3 DEF Seeded
  <2> HIDE DEF first
  <2>5. g[1].merged = <<first>>
    BY <2>2, <2>4
  <2>6. Starts(1)
    BY <2>5
  <2>7. 0 + 1 = 1 /\ 0 \in Nat
    OBVIOUS
  <2> HIDE DEF Starts
  <2> QED
    BY <2>6, <2>7
<1>10. ASSUME NEW k \in Nat, k \in M PROVE k + 1 \in M
  <2> SUFFICES ASSUME (k + 1) + 1 <= n PROVE Starts((k + 1) + 1)
    OBVIOUS
  <2> DEFINE m == k + 1
  <2>1. m \in 0 .. n /\ m + 1 \in 1 .. n /\ (m + 1) - 1 = m /\ Starts(m)
    BY <1>3, <1>10
  <2> HIDE DEF m, first
  <2>2. g[m + 1] = Seeded(g[m], q[m + 1], s, limit) /\ g[m] \in V
    BY <1>8, <2>1
  <2> QED
    BY <1>6, <2>1, <2>2 DEF m
<1>11. Starts(n)
  <2>1. Nat \subseteq M
    <3> HIDE DEF M
    <3> QED BY <1>9, <1>10, SetInduction
  <2>2. n - 1 \in Nat /\ (n - 1) + 1 = n
    BY <1>3
  <2> HIDE DEF Starts
  <2> QED BY <2>1, <2>2
<1> DEFINE u == state.merged
<1>12. u \in Seq(T) /\ u # <<>> /\ u[1] = first
  <2>1. n \in 0 .. n
    BY <1>3
  <2>2. state \in V
    BY <1>8, <2>1
  <2> QED
    BY <1>8, <1>11, <2>2 DEF V, MergeStates
<1>13. r = ByScore(u)
  BY DEF Merge, Merging, Seeded, PassageOf, NothingMerged, q, state
<1> HIDE DEF first, u, r, Starts, M
<1>14. r \in Seq(T) /\ BestFirst(r, u)
  BY <1>1, <1>12, <1>13, ByScoreSorts
<1>15. r # <<>> /\ 1 \in 1 .. n
  <2>1. Len(r) = Len(u) /\ Len(u) \in Nat \ {0}
    BY <1>12, <1>14 DEF BestFirst
  <2> QED
    BY <1>3, <2>1
<1>16. ASSUME best >= 0, EffectiveScore(q[1]) = best, ~LeftBehind(q[1], s, limit)
       PROVE  Reaches(r[1], q[1])
  <2>1. Reaches(first, q[1])
    <3>1. q[1] \in Elements(s) /\ NothingMerged.consumed = {}
      BY <1>3, <1>15 DEF NothingMerged
    <3> QED
      BY <1>1, <1>16, <3>1, PassageOfSeed DEF T, first
  <2>2. PICK i \in 1 .. Len(u) :
           /\ r[1] = u[i]
           /\ \A j \in 1 .. i - 1 : EffectiveScore(u[j]) < EffectiveScore(u[i])
    BY <1>12, <1>14 DEF BestFirst
  <2>3. /\ EffectiveScore(u[i]) <= best /\ EffectiveScore(u[i]) \in Int
        /\ EffectiveScore(u[1]) >= best /\ EffectiveScore(u[1]) \in Int
    <3>1. \A x \in T : EffectiveScore(x) <= best /\ EffectiveScore(x) \in Int
      BY <1>1, <1>16, RowScore DEF T, TracedTo
    <3>2. u[i] \in T /\ 1 \in 1 .. Len(u) /\ u[1] \in T
      BY <1>12, <2>2, ElementOf
    <3>3. EffectiveScore(first) >= best
      BY <1>16, <2>1 DEF Reaches
    <3> QED
      BY <1>12, <3>1, <3>2, <3>3
  <2>4. i = 1
    <3> SUFFICES ASSUME i # 1 PROVE FALSE
      OBVIOUS
    <3>1. 1 \in 1 .. i - 1
      BY <2>2
    <3>2. EffectiveScore(u[1]) < EffectiveScore(u[i])
      BY <2>2, <3>1
    <3> QED
      BY <2>3, <3>2
  <2> QED
    BY <1>12, <2>1, <2>2, <2>4
<1>17. MergeReaches(r, s, limit, best)
  BY <1>15, <1>16 DEF MergeReaches, q
<1> QED
  BY <1>14, <1>17 DEF r, T

-----------------------------------------------------------------------------
(* What the seeds are expanded by.                                           *)

(* Children that the search found, with a score, no longer than the limit. *)
Drawn(limit) ==
  {c \in Rows :
     /\ c.level = "child" /\ Tokens(c) <= limit /\ EffectiveScore(c) > Absent
     /\ \E row \in Corpus : row.level = "child" /\ SamePlace(c, row)}

(* None of them is better than the best. *)
NoneBetter(C, best) == best >= 0 => \A c \in C : EffectiveScore(c) <= best

(* Every child fits. *)
ChildrenFit(limit) == \A row \in Corpus : row.level = "child" => Tokens(row) <= limit

(* A child that was found is traced to itself. *)
LEMMA DrawnIsTraced ==
  ASSUME NEW limit \in Nat, NEW best \in Int, NEW C \in SUBSET Drawn(limit), NoneBetter(C, best)
  PROVE  C \subseteq TracedTo(C, limit, best) /\ Settled(C)
<1>1. ASSUME NEW x \in C PROVE x \in TracedTo(C, limit, best)
  <2>1. x \in Rows /\ Tokens(x) <= limit /\ EffectiveScore(x) > Absent
    BY DEF Drawn
  <2>2. best >= 0 => EffectiveScore(x) <= best
    BY DEF NoneBetter
  <2> QED
    BY <2>1, <2>2 DEF TracedTo
<1>2. Settled(C)
  BY DEF Settled, Drawn
<1> QED
  BY <1>1, <1>2

(* A neighbour is a row of the corpus and traced to its seed. *)
LEMMA NeighbourIsTraced ==
  ASSUME NEW limit \in Nat, NEW best \in Int, NEW C \in SUBSET Drawn(limit), NoneBetter(C, best),
         ChildrenFit(limit), NEW seed \in C, NEW row \in Corpus,
         row.level = "child", row.parent = seed.parent, seed.parent # None
  PROVE  /\ NeighbourCandidate(row, seed) \in TracedTo(C, limit, best)
         /\ SamePlace(NeighbourCandidate(row, seed), row)
<1> DEFINE e == EffectiveScore(seed)
           a == (seed.fused * 9) \div 10
           b == (e * 9) \div 10
           x == NeighbourCandidate(row, seed)
<1>1. seed \in Rows /\ e > Absent /\ row \in Rows
  BY CorpusAssumption DEF Drawn
<1>2. seed.sim \in Int /\ seed.lex \in Int /\ seed.fused \in Int /\ e \in Int
  BY <1>1, RowFields, RowScore
<1> HIDE DEF e
<1>3. a \in Int /\ b \in Int /\ b > Absent /\ (e >= 0 => b <= e) /\ (e < 0 => b < 0)
  BY <1>1, <1>2 DEF Absent
<1>4. ScoresReplaced(x, row, seed.sim, seed.lex, a, b)
  BY DEF NeighbourCandidate, ScoresReplaced, e
<1> HIDE DEF a, b, x
<1>5. x \in Rows /\ SamePlace(x, row) /\ x.sim = seed.sim /\ x.lex = seed.lex /\ x.rerank = b
  BY <1>1, <1>2, <1>3, <1>4, RowRegraded
<1>6. EffectiveScore(x) = b
  BY <1>3, <1>5 DEF EffectiveScore
<1>7. x.doc = seed.doc
  <2>1. PICK child \in Corpus : child.level = "child" /\ SamePlace(seed, child)
    BY DEF Drawn
  <2>2. row.parent = child.parent /\ row.parent # None
    BY <2>1 DEF SamePlace
  <2>3. row.doc = child.doc
    BY <2>1, <2>2, CorpusAssumption
  <2> QED
    BY <1>5, <2>1, <2>3 DEF SamePlace
<1>8. Tokens(x) <= limit
  <2>1. Tokens(x) = Tokens(row)
    BY <1>5 DEF SamePlace, Tokens
  <2> QED
    BY <2>1 DEF ChildrenFit
<1>9. best >= 0 => EffectiveScore(x) <= best
  <2> SUFFICES ASSUME best >= 0 PROVE b <= best
    BY <1>6
  <2>1. e <= best
    BY DEF NoneBetter, e
  <2> QED
    BY <1>2, <1>3, <2>1
<1>10. x \in TracedTo(C, limit, best)
  BY <1>3, <1>5, <1>6, <1>7, <1>8, <1>9 DEF TracedTo
<1> QED
  BY <1>5, <1>10 DEF x

(* A promoted parent reaches the seeds it stands for and has the score of one. *)
StandsFor(x, C, P) ==
  /\ x.level = "parent" /\ P # {} /\ P \subseteq C
  /\ \A c \in P : Reaches(x, c)
  /\ \E c \in P : EffectiveScore(x) = EffectiveScore(c)

(* A promoted parent is traced to the seeds it stands for. *)
LEMMA PromotedIsTraced ==
  ASSUME NEW limit \in Nat, NEW best \in Int, NEW C \in SUBSET Drawn(limit), NoneBetter(C, best),
         NEW seeds \in Seq(C), NEW row \in Promoted(seeds, limit)
  PROVE  /\ PromotedCandidate(row, seeds) \in TracedTo(C, limit, best)
         /\ StandsFor(PromotedCandidate(row, seeds), C, SeedsOf(seeds, row.chunk))
<1> DEFINE P == SeedsOf(seeds, row.chunk)
           a == Max({c.sim : c \in P})
           b == Max({c.lex : c \in P})
           d == Max({c.fused : c \in P})
           e == Max({EffectiveScore(c) : c \in P})
           x == PromotedCandidate(row, seeds)
<1>1. /\ row \in Corpus /\ row \in Rows /\ row.level = "parent" /\ Tokens(row) <= limit
      /\ row.chunk \in RequestedParents(seeds)
  BY CorpusAssumption DEF Promoted
<1>2. P \subseteq C /\ IsFiniteSet(P) /\ P # {} /\ \A c \in P : c.parent = row.chunk
  <2>1. P \subseteq Elements(seeds) /\ \A c \in P : c.parent = row.chunk
    BY DEF SeedsOf
  <2>2. Elements(seeds) \subseteq C /\ IsFiniteSet(Elements(seeds))
    BY ElementsOf
  <2>3. \E c \in Elements(seeds) : c.parent = row.chunk
    BY <1>1 DEF RequestedParents
  <2>4. P # {}
    BY <2>3 DEF SeedsOf
  <2> QED
    BY <2>1, <2>2, <2>4, FS_Subset
<1> HIDE DEF P
<1>3. \A c \in P : /\ c \in Rows /\ c.sim \in Int /\ c.lex \in Int /\ c.fused \in Int
                   /\ EffectiveScore(c) \in Int /\ EffectiveScore(c) > Absent
  BY <1>2, RowFields, RowScore DEF Drawn
<1>4. (\E c \in P : a = c.sim) /\ \A c \in P : c.sim <= a
  <2> DEFINE f == [c \in P |-> c.sim]
  <2>1. f \in [P -> Int] /\ \A c \in P : f[c] = c.sim
    BY <1>3
  <2>2. a = Max({f[c] : c \in P})
    BY <2>1
  <2> HIDE DEF f, a
  <2> QED
    BY <1>2, <2>1, <2>2, LargestOf
<1>5. (\E c \in P : b = c.lex) /\ \A c \in P : c.lex <= b
  <2> DEFINE f == [c \in P |-> c.lex]
  <2>1. f \in [P -> Int] /\ \A c \in P : f[c] = c.lex
    BY <1>3
  <2>2. b = Max({f[c] : c \in P})
    BY <2>1
  <2> HIDE DEF f, b
  <2> QED
    BY <1>2, <2>1, <2>2, LargestOf
<1>6. \E c \in P : d = c.fused
  <2> DEFINE f == [c \in P |-> c.fused]
  <2>1. f \in [P -> Int] /\ \A c \in P : f[c] = c.fused
    BY <1>3
  <2>2. d = Max({f[c] : c \in P})
    BY <2>1
  <2> HIDE DEF f, d
  <2> QED
    BY <1>2, <2>1, <2>2, LargestOf
<1>7. (\E c \in P : e = EffectiveScore(c)) /\ \A c \in P : EffectiveScore(c) <= e
  <2> DEFINE f == [c \in P |-> EffectiveScore(c)]
  <2>1. f \in [P -> Int] /\ \A c \in P : f[c] = EffectiveScore(c)
    BY <1>3
  <2>2. {f[c] : c \in P} = {EffectiveScore(c) : c \in P}
    BY <2>1
  <2>3. e = Max({f[c] : c \in P})
    BY <2>2
  <2> HIDE DEF f, e
  <2>4. (\E c \in P : e = f[c]) /\ \A c \in P : f[c] <= e
    BY <1>2, <2>1, <2>3, LargestOf
  <2> QED
    BY <2>1, <2>4
<1>8. ScoresReplaced(x, row, a, b, d, e)
  BY DEF PromotedCandidate, ScoresReplaced, P
<1> HIDE DEF a, b, d, e, x
<1>9. a \in Int /\ b \in Int /\ d \in Int /\ e \in Int /\ e > Absent
  BY <1>3, <1>4, <1>5, <1>6, <1>7
<1>10. x \in Rows /\ SamePlace(x, row) /\ x.sim = a /\ x.lex = b /\ x.rerank = e
  BY <1>1, <1>8, <1>9, RowRegraded
<1>11. EffectiveScore(x) = e
  BY <1>9, <1>10 DEF EffectiveScore, Absent
<1>12. ASSUME NEW c \in P PROVE Covers(x, c)
  <2>1. PICK child \in Corpus : child.level = "child" /\ SamePlace(c, child)
    BY <1>2 DEF Drawn
  <2>2. child.parent = row.chunk
    BY <1>2, <2>1 DEF SamePlace
  <2>3. child.doc = row.doc /\ row.start <= child.start /\ child.end <= row.end
    BY <1>1, <2>2, CorpusAssumption
  <2>4. /\ c.start = child.start /\ c.end = child.end /\ c.doc = child.doc
        /\ x.start = row.start /\ x.end = row.end /\ x.doc = row.doc
    BY <1>10, <2>1 DEF SamePlace
  <2>5. /\ c.start \in Int /\ c.end \in Int /\ x.start \in Int /\ x.end \in Int
    BY <1>3, <1>10, RowFields DEF Textual
  <2> QED
    BY <2>3, <2>4, <2>5 DEF Covers
<1>13. ASSUME NEW c \in P PROVE Reaches(x, c)
  <2>1. c.sim \in Int /\ c.lex \in Int /\ EffectiveScore(c) \in Int
    BY <1>3
  <2>2. c.sim <= a /\ c.lex <= b /\ EffectiveScore(c) <= e
    BY <1>4, <1>5, <1>7
  <2> QED
    BY <1>9, <1>10, <1>11, <1>12, <2>1, <2>2 DEF Reaches
<1>14. x.level = "parent"
  BY <1>1, <1>10 DEF SamePlace
<1>15. StandsFor(x, C, P)
  BY <1>2, <1>7, <1>11, <1>13, <1>14 DEF StandsFor
<1>16. x \in TracedTo(C, limit, best)
  <2>1. Tokens(x) <= limit
    BY <1>1, <1>10 DEF SamePlace, Tokens
  <2>2. \E c \in C : x.doc = c.doc
    BY <1>2, <1>13 DEF Reaches, Covers
  <2>3. (\E c \in C : x.sim = c.sim) /\ (\E c \in C : x.lex = c.lex)
    BY <1>2, <1>4, <1>5, <1>10
  <2>4. best >= 0 => EffectiveScore(x) <= best
    BY <1>2, <1>7, <1>11 DEF NoneBetter
  <2> QED
    BY <1>9, <1>10, <1>11, <2>1, <2>2, <2>3, <2>4 DEF TracedTo
<1> QED
  BY <1>15, <1>16 DEF x, P

(* What the merge starts with: a candidate with the best score, or a parent that *)
(* stands for one.                                                               *)
Leads(q, C, best) ==
  /\ EffectiveScore(q) = best
  /\ \E c \in C : /\ EffectiveScore(c) = best
                  /\ q = c \/ (q.level = "parent" /\ Reaches(q, c))

(* A parent of x stands for the candidate and others. *)
StoodFor(c, x, C) == \E q \in Elements(x) : \E P : StandsFor(q, C, P) /\ c \in P

(* e is x, the seeds that are retained and the parents that stand for the *)
(* others, and then y, the neighbours.                                    *)
Parted(e, x, y, C, seeds) ==
  /\ e = x \o y /\ Settled(Elements(x)) /\ Settled(Elements(y))
  /\ \A q \in Elements(x) : q \in C \/ \E P : StandsFor(q, C, P)
  /\ \A c \in Elements(seeds) :
       c \in Elements(x) \/ StoodFor(c, x, C)

(* The expansion has these parts. *)
LEMMA ExpandedParts ==
  ASSUME NEW limit \in Nat, NEW best \in Int, NEW C \in SUBSET Drawn(limit), NoneBetter(C, best),
         ChildrenFit(limit), NEW seeds \in Seq(C), NEW reach
  PROVE  \E x, y \in Seq(TracedTo(C, limit, best)) :
            Parted(Expand(seeds, reach, limit), x, y, C, seeds)
<1> DEFINE T == TracedTo(C, limit, best)
           promoted == {row.chunk : row \in Promoted(seeds, limit)}
           S == {c \in Elements(seeds) : c.parent \notin promoted}
           B == {PromotedCandidate(row, seeds) : row \in Promoted(seeds, limit)}
           D == {NeighbourCandidate(n[1], n[2]) : n \in Neighbours(seeds, reach)}
           a == Among(seeds, S)
           b == InRowOrder(B)
           d == InRowOrder(D)
<1>1. C \subseteq T /\ Settled(C) /\ T \subseteq Rows
  BY DrawnIsTraced, TracedFields
<1>2. Elements(seeds) \subseteq C /\ IsFiniteSet(Elements(seeds)) /\ IsFiniteSet(Corpus)
  BY ElementsOf, CorpusAssumption
<1>3. Expand(seeds, reach, limit) = a \o b \o d
  BY DEF Expand
<1>4. a \in Seq(C) /\ Elements(a) = Elements(seeds) \cap S
  <2> HIDE DEF S
  <2> QED BY AmongKeeps
<1>5. IsFiniteSet(B) /\ IsFiniteSet(D)
  <2>1. IsFiniteSet(Promoted(seeds, limit))
    BY <1>2, FS_Subset DEF Promoted
  <2>2. IsFiniteSet(Neighbours(seeds, reach))
    <3>1. IsFiniteSet(Corpus \X Elements(seeds))
      BY <1>2, FS_Product
    <3>2. Neighbours(seeds, reach) \subseteq Corpus \X Elements(seeds)
      BY DEF Neighbours
    <3> QED
      BY <3>1, <3>2, FS_Subset
  <2> DEFINE f == [row \in Promoted(seeds, limit) |-> PromotedCandidate(row, seeds)]
             h == [n \in Neighbours(seeds, reach) |-> NeighbourCandidate(n[1], n[2])]
  <2>3. f \in Surjection(Promoted(seeds, limit), B) /\ h \in Surjection(Neighbours(seeds, reach), D)
    BY DEF Surjection
  <2> HIDE DEF f, h, B, D
  <2> QED
    BY <2>1, <2>2, <2>3, FS_Surjection
<1>6. \A row \in Promoted(seeds, limit) :
        /\ PromotedCandidate(row, seeds) \in T
        /\ StandsFor(PromotedCandidate(row, seeds), C, SeedsOf(seeds, row.chunk))
  BY PromotedIsTraced
<1>7. \A y \in D : y \in T /\ \E row \in Corpus : row.level = "child" /\ SamePlace(y, row)
  <2> SUFFICES ASSUME NEW n \in Neighbours(seeds, reach)
               PROVE  /\ NeighbourCandidate(n[1], n[2]) \in T
                      /\ \E row \in Corpus :
                           row.level = "child" /\ SamePlace(NeighbourCandidate(n[1], n[2]), row)
    OBVIOUS
  <2>1. /\ n[1] \in Corpus /\ n[2] \in Elements(seeds) /\ n[1].level = "child"
        /\ n[1].parent = n[2].parent /\ n[2].parent # None
    BY DEF Neighbours
  <2>2. n[2] \in C
    BY <1>2, <2>1
  <2> HIDE DEF T
  <2> QED
    BY <2>1, <2>2, NeighbourIsTraced DEF T
<1> HIDE DEF T
<1>8. \A y \in B : y \in T /\ \E P : StandsFor(y, C, P)
  BY <1>6
<1>9. B \in SUBSET Rows /\ D \in SUBSET Rows /\ B \subseteq T /\ D \subseteq T
  BY <1>1, <1>7, <1>8
<1>10. /\ b \in Seq(B) /\ Elements(b) = B
       /\ d \in Seq(D) /\ Elements(d) = D
  <2> HIDE DEF B, D
  <2> QED BY <1>5, <1>9, RowsInOrder
<1> DEFINE x == a \o b
<1>11. a \in Seq(T) /\ b \in Seq(T) /\ d \in Seq(T)
  <2> HIDE DEF a, b, d
  <2> QED BY <1>1, <1>4, <1>9, <1>10
<1>12. x \in Seq(T) /\ Elements(x) = Elements(a) \union B
  <2> HIDE DEF a, b, B
  <2> QED BY <1>10, <1>11, ElementsJoined
<1>13. Settled(Elements(d))
  BY <1>7, <1>10 DEF Settled
<1>14. Elements(a) \subseteq C /\ \A q \in B : q.level = "parent"
  BY <1>2, <1>4, <1>6 DEF StandsFor
<1>15. Settled(Elements(x))
  <2> HIDE DEF x, a, B
  <2> QED BY <1>1, <1>12, <1>14 DEF Settled
<1>16. \A q \in Elements(x) : q \in C \/ \E P : StandsFor(q, C, P)
  <2> HIDE DEF x, a, B
  <2> QED BY <1>8, <1>12, <1>14
<1>17. ASSUME NEW c \in Elements(seeds)
       PROVE  c \in Elements(x) \/ StoodFor(c, x, C)
  <2>1. CASE c \in S
    BY <1>4, <1>12, <2>1
  <2>2. CASE c \notin S
    <3>1. PICK row \in Promoted(seeds, limit) : c.parent = row.chunk
      BY <2>2
    <3>2. c \in SeedsOf(seeds, row.chunk)
      BY <3>1 DEF SeedsOf
    <3>3. PromotedCandidate(row, seeds) \in Elements(x)
      BY <1>12
    <3> QED
      BY <1>6, <3>2, <3>3 DEF StoodFor
  <2> QED
    BY <2>1, <2>2
<1> HIDE DEF x, a, b, d, B, D, S
<1>18. Parted(Expand(seeds, reach, limit), x, d, C, seeds)
  BY <1>3, <1>13, <1>15, <1>16, <1>17 DEF Parted, x
<1> QED
  BY <1>11, <1>12, <1>18 DEF T

(* What the expansion leaves to the merge. *)
Expands(x, C, limit, best) ==
  /\ x \in Seq(TracedTo(C, limit, best)) /\ x # <<>> /\ Settled(Elements(x))
  /\ best >= 0 => Leads(ByScore(x)[1], C, best)

(* The best candidate is still the best after the expansion. *)
LEMMA ExpansionKeepsBest ==
  ASSUME NEW limit \in Nat, NEW best \in Int, NEW C \in SUBSET Drawn(limit), NoneBetter(C, best),
         ChildrenFit(limit), NEW seeds \in Seq(C), seeds # <<>>,
         EffectiveScore(seeds[1]) = best, NEW reach
  PROVE  Expands(Expand(seeds, reach, limit), C, limit, best)
<1> DEFINE T == TracedTo(C, limit, best)
           e == Expand(seeds, reach, limit)
           r == ByScore(e)
<1>1. PICK x \in Seq(T), y \in Seq(T) : Parted(e, x, y, C, seeds)
  BY ExpandedParts
<1>2. /\ e = x \o y /\ Settled(Elements(x)) /\ Settled(Elements(y))
      /\ \A q \in Elements(x) : q \in C \/ \E P : StandsFor(q, C, P)
      /\ \A c \in Elements(seeds) :
           c \in Elements(x) \/ StoodFor(c, x, C)
  BY <1>1 DEF Parted
<1> HIDE DEF e
<1>3. /\ T \subseteq Rows /\ Graded(T)
       /\ \A z \in T : EffectiveScore(z) \in Int /\ (best >= 0 => EffectiveScore(z) <= best)
  <2>1. T \subseteq Rows /\ Graded(T)
    BY TracedFields
  <2>2. \A z \in T : best >= 0 => EffectiveScore(z) <= best
    BY DEF TracedTo
  <2> HIDE DEF T
  <2> QED
    BY <2>1, <2>2, RowScore
<1> HIDE DEF T, r
<1>4. seeds[1] \in Elements(seeds) /\ seeds[1] \in C
  BY ElementsOf
<1>5. e \in Seq(T) /\ Elements(e) = Elements(x) \union Elements(y) /\ Len(e) = Len(x) + Len(y)
      /\ \A i \in 1 .. Len(x) : e[i] = x[i]
  BY <1>2, ElementsJoined
<1>6. Settled(Elements(e))
  BY <1>2, <1>5 DEF Settled
<1>7. \A q \in Elements(x) : \E i \in 1 .. Len(x) : q = x[i]
  BY DEF Elements
<1>8. x # <<>> /\ Len(x) \in Nat /\ Len(y) \in Nat
  <2>1. \E q \in Elements(x) : TRUE
    BY <1>2, <1>4 DEF StoodFor
  <2>2. Elements(<<>>) = {}
    BY 1 .. 0 = {} DEF Elements
  <2> QED
    BY <2>1, <2>2
<1>9. e # <<>>
  BY <1>2, <1>5, <1>8
<1>10. ASSUME best >= 0 PROVE Leads(ByScore(e)[1], C, best)
  <2>1. PICK k \in 1 .. Len(x) : EffectiveScore(x[k]) >= best
    <3>1. PICK q \in Elements(x) : EffectiveScore(q) >= best
      <4>1. CASE seeds[1] \in Elements(x)
        BY <4>1
      <4>2. CASE seeds[1] \notin Elements(x)
        <5>1. PICK q \in Elements(x) : \E P : StandsFor(q, C, P) /\ seeds[1] \in P
          BY <1>2, <1>4, <4>2 DEF StoodFor
        <5>2. EffectiveScore(q) >= best
          BY <5>1 DEF StandsFor, Reaches
        <5> QED
          BY <5>2
      <4> QED
        BY <4>1, <4>2
    <3> QED
      BY <1>7, <3>1
  <2>2. r \in Seq(T) /\ BestFirst(r, e)
    BY <1>3, <1>5, ByScoreSorts DEF r
  <2>3. PICK i \in 1 .. Len(e) :
           /\ r[1] = e[i]
           /\ \A j \in 1 .. Len(e) : EffectiveScore(e[j]) <= EffectiveScore(e[i])
           /\ \A j \in 1 .. i - 1 : EffectiveScore(e[j]) < EffectiveScore(e[i])
    BY <1>9, <2>2 DEF BestFirst
  <2>4. k \in 1 .. Len(e) /\ e[k] = x[k] /\ EffectiveScore(e[k]) >= best
    BY <1>5, <1>8, <2>1
  <2>5. EffectiveScore(e[i]) = best
    <3>1. e[i] \in T /\ e[k] \in T
      BY <1>5, <2>4, ElementOf
    <3>2. EffectiveScore(e[k]) <= EffectiveScore(e[i])
      BY <2>3, <2>4
    <3> QED
      BY <1>3, <1>10, <2>4, <3>1, <3>2
  <2>6. i \in 1 .. Len(x)
    <3> SUFFICES ASSUME i > Len(x) PROVE FALSE
      BY <1>8
    <3>1. k \in 1 .. i - 1
      BY <1>8, <2>3
    <3>2. EffectiveScore(e[k]) < EffectiveScore(e[i])
      BY <2>3, <3>1
    <3>3. EffectiveScore(e[k]) \in Int
      BY <1>3, <1>5, <2>4, ElementOf
    <3> QED
      BY <2>4, <2>5, <3>2, <3>3
  <2>7. r[1] \in Elements(x)
    BY <1>5, <2>3, <2>6 DEF Elements
  <2>8. EffectiveScore(r[1]) = best
    BY <2>3, <2>5
  <2>9. CASE r[1] \in C
    BY <2>8, <2>9 DEF Leads, r
  <2>10. CASE \E P : StandsFor(r[1], C, P)
    <3>1. PICK P : StandsFor(r[1], C, P)
      BY <2>10
    <3>2. PICK c \in P : EffectiveScore(r[1]) = EffectiveScore(c)
      BY <3>1 DEF StandsFor
    <3>3. c \in C /\ r[1].level = "parent" /\ Reaches(r[1], c)
      BY <3>1, <3>2 DEF StandsFor
    <3> QED
      BY <2>8, <3>2, <3>3 DEF Leads, r
  <2> QED
    BY <1>2, <2>7, <2>9, <2>10
<1> QED
  BY <1>5, <1>6, <1>9, <1>10 DEF Expands, e, T

-----------------------------------------------------------------------------
(* The best passage reaches the evidence.                                    *)

(* Candidates of these Documents, as the search finds them. *)
FoundIn(docs, limit) == {c \in Drawn(limit) : c.doc \in docs /\ c.sim >= Absent /\ c.lex >= Absent}

(* A row with other scores is the same chunk. *)
LEMMA RowPlace ==
  ASSUME NEW row \in Rows, NEW c, IsRow(c, row)
  PROVE  SamePlace(c, row)
BY DEF IsRow, SamePlace, Rows

(* The reranker's score leaves a candidate what it is. *)
LEMMA RerankedIsFound ==
  ASSUME NEW docs, NEW limit \in Nat, NEW x \in FoundIn(docs, limit), NEW z \in Int, z > Absent
  PROVE  [x EXCEPT !.rerank = z] \in FoundIn(docs, limit)
<1> DEFINE y == [x EXCEPT !.rerank = z]
<1>1. /\ x \in Rows /\ x.level = "child" /\ Tokens(x) <= limit
      /\ x.doc \in docs /\ x.sim >= Absent /\ x.lex >= Absent
      /\ \E row \in Corpus : row.level = "child" /\ SamePlace(x, row)
  BY DEF FoundIn, Drawn
<1>2. y \in Rows /\ SamePlace(y, x) /\ y.sim = x.sim /\ y.lex = x.lex /\ y.rerank = z
  <2>1. y \in Rows
    BY <1>1 DEF Rows
  <2>2. SamePlace(y, x) /\ y.sim = x.sim /\ y.lex = x.lex /\ y.rerank = z
    BY <1>1 DEF Rows, SamePlace
  <2> QED
    BY <2>1, <2>2
<1> HIDE DEF y
<1>3. EffectiveScore(y) > Absent
  BY <1>2 DEF EffectiveScore, Absent
<1>4. y.level = "child" /\ Tokens(y) <= limit /\ y.doc \in docs
  BY <1>1, <1>2 DEF SamePlace, Tokens
<1>5. \E row \in Corpus : row.level = "child" /\ SamePlace(y, row)
  BY <1>1, <1>2 DEF SamePlace
<1>6. y \in FoundIn(docs, limit)
  BY <1>1, <1>2, <1>3, <1>4, <1>5 DEF FoundIn, Drawn
<1> QED
  BY <1>6 DEF y

DocumentsOf(s) == {c.doc : c \in Elements(s)}

(* What fusion leaves are children that the search found, best first. *)
LEMMA FusedAreFound ==
  ASSUME NEW r \in Retrievals
  PROVE  /\ r.fused \in Seq(FoundIn(DocumentsOf(r.fused), r.limits.passage))
         /\ \A i \in 1 .. Len(r.fused) : \A j \in 1 .. i :
              EffectiveScore(r.fused[j]) >= EffectiveScore(r.fused[i])
<1> DEFINE s == r.fused
           limit == r.limits.passage
           T == FoundIn(DocumentsOf(s), limit)
<1>1. /\ s \in Seq(Rows) /\ limit \in Nat /\ ChildrenFit(limit)
      /\ \A i \in 1 .. Len(s) :
           /\ \E row \in Corpus : row.level = "child" /\ IsRow(s[i], row)
           /\ s[i].sim >= Absent /\ s[i].lex >= Absent
           /\ s[i].fused >= 0 /\ s[i].rerank = Absent
           /\ \A j \in 1 .. i : s[j].fused >= s[i].fused
  BY RetrievalsAssumption DEF ChildrenFit
<1> HIDE DEF s, limit, T
<1>2. \A i \in 1 .. Len(s) : EffectiveScore(s[i]) = s[i].fused
  BY <1>1 DEF EffectiveScore
<1>3. ASSUME NEW i \in 1 .. Len(s) PROVE s[i] \in T
  <2>1. s[i] \in Rows /\ s[i].fused \in Int
    BY <1>1, ElementOf, RowFields
  <2>2. PICK row \in Corpus : row.level = "child" /\ IsRow(s[i], row)
    BY <1>1
  <2>3. row \in Rows
    BY CorpusAssumption
  <2>4. SamePlace(s[i], row)
    BY <2>2, <2>3, RowPlace
  <2>5. s[i].level = "child" /\ Tokens(s[i]) <= limit
    BY <1>1, <2>2, <2>4 DEF SamePlace, Tokens, ChildrenFit
  <2>6. EffectiveScore(s[i]) > Absent
    BY <1>1, <1>2, <2>1 DEF Absent
  <2>7. s[i].doc \in DocumentsOf(s)
    BY DEF DocumentsOf, Elements
  <2> QED
    BY <1>1, <2>1, <2>2, <2>4, <2>5, <2>6, <2>7 DEF T, FoundIn, Drawn
<1>4. s \in Seq(T)
  BY <1>1, <1>3
<1>5. \A i \in 1 .. Len(s) : \A j \in 1 .. i : EffectiveScore(s[j]) >= EffectiveScore(s[i])
  <2> SUFFICES ASSUME NEW i \in 1 .. Len(s), NEW j \in 1 .. i
               PROVE  EffectiveScore(s[j]) >= EffectiveScore(s[i])
    OBVIOUS
  <2>1. j \in 1 .. Len(s)
    OBVIOUS
  <2> QED
    BY <1>1, <1>2, <2>1
<1> QED
  BY <1>4, <1>5 DEF s, limit, T

(* The candidates that are selected, the best first. *)
BestIsFirst(s) ==
  s # <<>> /\ \A i \in 1 .. Len(s) : EffectiveScore(s[i]) <= EffectiveScore(s[1])

(* What is selected are children that the search found, the best first. *)
LEMMA SelectedAreFound ==
  ASSUME NEW r \in Retrievals, r.fused # <<>>
  PROVE  LET selected == Reranked(r.fused, r.scores, r.fails, r.limits.items)
         IN  /\ selected \in Seq(FoundIn(DocumentsOf(r.fused), r.limits.passage))
             /\ BestIsFirst(selected)
<1> DEFINE s == r.fused
           limit == r.limits.passage
           T == FoundIn(DocumentsOf(s), limit)
           u == Rerank(s, r.scores)
           v == IF r.fails THEN s ELSE u
           items == r.limits.items
           selected == Reranked(s, r.scores, r.fails, items)
<1>1. /\ limit \in Nat /\ items \in Nat /\ items # 0 /\ r.fails \in BOOLEAN
      /\ \A i \in 1 .. Len(s) : r.fails \/ (r.scores[i] \in Int /\ r.scores[i] > Absent)
  BY RetrievalsAssumption
<1>2. /\ s \in Seq(T) /\ s # <<>>
      /\ \A i \in 1 .. Len(s) : \A j \in 1 .. i : EffectiveScore(s[j]) >= EffectiveScore(s[i])
  BY FusedAreFound
<1>3. selected = Top(v, items)
  BY DEF Reranked
<1>4. T \subseteq Rows
  BY DEF FoundIn, Drawn
<1>5. \A x \in T, z \in Int : z > Absent => [x EXCEPT !.rerank = z] \in T
  BY <1>1, RerankedIsFound
<1>6. \A x \in T : EffectiveScore(x) \in Int
  BY <1>4, RowScore
<1> HIDE DEF s, limit, T, u, items, selected
<1>7. 1 \in 1 .. Len(s) /\ Len(s) \in Nat
  BY <1>2
<1>8. CASE r.fails
  <2>1. v = s
    BY <1>8
  <2>2. ASSUME NEW i \in 1 .. Len(s) PROVE EffectiveScore(s[i]) <= EffectiveScore(s[1])
    <3>1. s[i] \in T /\ s[1] \in T /\ 1 \in 1 .. i
      BY <1>2, <1>7, ElementOf
    <3>2. EffectiveScore(s[i]) \in Int /\ EffectiveScore(s[1]) \in Int
      BY <1>6, <3>1
    <3> QED
      BY <1>2, <3>1, <3>2
  <2> HIDE DEF v
  <2>3. v \in Seq(T) /\ BestIsFirst(v)
    BY <1>2, <2>1, <2>2 DEF BestIsFirst
  <2> QED
    <3>1. /\ selected \in Seq(T) /\ selected # <<>> /\ Len(selected) <= Len(v)
          /\ \A i \in 1 .. Len(selected) : selected[i] = v[i]
      BY <1>1, <1>3, <2>3, TopOf DEF BestIsFirst
    <3>2. 1 \in 1 .. Len(selected) /\ \A i \in 1 .. Len(selected) : i \in 1 .. Len(v)
      BY <2>3, <3>1
    <3>3. BestIsFirst(selected)
      BY <2>3, <3>1, <3>2 DEF BestIsFirst
    <3> QED
      BY <3>1, <3>3 DEF selected, T, s, limit, items
<1>9. CASE ~r.fails
  <2>1. v = u
    BY <1>9
  <2>2. u \in Seq(Rows) /\ Rescored(u, s, r.scores)
    <3>1. s \in Seq(Rows) /\ \A i \in 1 .. Len(s) : r.scores[i] \in Int
      BY <1>1, <1>2, <1>4, <1>9
    <3> QED
      BY <3>1, RerankSorts DEF u
  <2>3. Len(u) = Len(s)
    BY <2>2 DEF Rescored
  <2>4. ASSUME NEW m \in 1 .. Len(s) PROVE u[m] \in T
    <3>1. PICK i \in 1 .. Len(s) : u[m] = [s[i] EXCEPT !.rerank = r.scores[i]]
      BY <2>2 DEF Rescored
    <3>2. s[i] \in T /\ r.scores[i] \in Int /\ r.scores[i] > Absent
      BY <1>1, <1>2, <1>9, ElementOf
    <3> QED
      BY <1>5, <3>1, <3>2
  <2>5. u \in Seq(T)
    BY <2>2, <2>3, <2>4
  <2>6. ASSUME NEW i \in 1 .. Len(u) PROVE EffectiveScore(u[i]) <= EffectiveScore(u[1])
    <3>1. EffectiveScore(u[i]) \in Int /\ EffectiveScore(u[1]) \in Int
      BY <1>6, <1>7, <2>3, <2>4
    <3>2. 1 < i => EffectiveScore(u[1]) >= EffectiveScore(u[i])
      BY <1>7, <2>2, <2>3 DEF Rescored
    <3> QED
      BY <3>1, <3>2
  <2> HIDE DEF v
  <2>7. v \in Seq(T) /\ BestIsFirst(v)
    <3>1. u # <<>>
      BY <1>7, <2>3, <2>5
    <3> QED
      BY <2>1, <2>5, <2>6, <3>1 DEF BestIsFirst
  <2> QED
    <3>1. /\ selected \in Seq(T) /\ selected # <<>> /\ Len(selected) <= Len(v)
          /\ \A i \in 1 .. Len(selected) : selected[i] = v[i]
      BY <1>1, <1>3, <2>7, TopOf DEF BestIsFirst
    <3>2. 1 \in 1 .. Len(selected) /\ \A i \in 1 .. Len(selected) : i \in 1 .. Len(v)
      BY <2>7, <3>1
    <3>3. BestIsFirst(selected)
      BY <2>7, <3>1, <3>2 DEF BestIsFirst
    <3> QED
      BY <3>1, <3>3 DEF selected, T, s, limit, items
<1> QED
  BY <1>1, <1>8, <1>9

(* The evidence of a retrieval. *)
PassageKept(o, r) ==
  o.fused # <<>> =>
    LET selected == Reranked(o.fused, o.scores, o.fails, o.limits.items)
        best     == EffectiveScore(Head(selected))
        evidence == r.evidence
        Proves(c) == IsSufficient(<<c>>, o.limits.similarity, o.limits.lexical)
    IN  /\ evidence # <<>>
        /\ best >= 0 =>
               \E c \in Elements(selected) :
                   /\ EffectiveScore(c) = best
                   /\ \/ Covers(Head(evidence), c) /\ (Proves(c) => r.sufficient)
                      \/ LeftBehind(c, Expanded(selected, o.limits), o.limits.passage)
        /\ r.sufficient => \E c \in Elements(selected) : Proves(c)
        /\ Len(evidence) <= o.limits.items /\ TokensOf(evidence) <= o.limits.budget
        /\ \A i \in 1 .. Len(evidence) :
               evidence[i].doc \in {c.doc : c \in Elements(o.fused)}

(* A candidate that is sufficient alone. *)
Sufficient(c, minSim, minLex) ==
  \/ c.sim # Absent /\ c.sim >= minSim
  \/ c.lex # Absent /\ c.lex >= minLex

(* What suffices alone. *)
LEMMA SufficientAlone ==
  ASSUME NEW c, NEW minSim, NEW minLex
  PROVE  IsSufficient(<<c>>, minSim, minLex) <=> Sufficient(c, minSim, minLex)
<1>1. Len(<<c>>) = 1 /\ <<c>>[1] = c /\ 1 .. 1 = {1}
  OBVIOUS
<1> QED
  BY <1>1 DEF IsSufficient, Sufficient

(* The seeds are candidates, and the best one is first. *)
LEMMA SeedsKeepBest ==
  ASSUME NEW T \in SUBSET Rows, NEW s \in Seq(T), BestIsFirst(s), NEW limits,
         limits.items \in Nat \ {0}, limits.penalty \in Nat
  PROVE  /\ Seeds(s, limits) \in Seq(Elements(s)) /\ Seeds(s, limits) # <<>>
         /\ Seeds(s, limits)[1] = s[1]
<1> DEFINE C == Elements(s)
           a == SuppressDuplicates(s)
           b == Seeds(s, limits)
<1>1. C \subseteq T /\ Graded(C)
  <2>1. C \subseteq T
    BY ElementsOf
  <2> QED
    BY <2>1, RowFields DEF Graded
<1>2. s # <<>> /\ \A x \in C : EffectiveScore(x) <= EffectiveScore(s[1])
  BY DEF BestIsFirst, Elements
<1>3. a \in Seq(C) /\ a # <<>> /\ a[1] = s[1]
  BY <1>2, SuppressionKeepsHead
<1>4. b = Diversify(a, limits.items, limits.penalty)
  BY DEF Seeds
<1> HIDE DEF C, a, b
<1>5. \A i \in 1 .. Len(a) : EffectiveScore(a[i]) <= EffectiveScore(a[1])
  BY <1>2, <1>3, ElementOf
<1>6. b \in Seq(Elements(a)) /\ b # <<>> /\ b[1] = a[1]
  BY <1>1, <1>3, <1>4, <1>5, DiversityKeepsHead
<1>7. Elements(a) \subseteq C
  BY <1>3, ElementsOf
<1> QED
  BY <1>3, <1>6, <1>7 DEF b, C

(* What reaches what reaches a candidate reaches it. *)
LEMMA ReachesOn ==
  ASSUME NEW x \in Rows, NEW y \in Rows, NEW c \in Rows, Reaches(x, y), Reaches(y, c)
  PROVE  Reaches(x, c)
<1>1. \A z \in {x, y, c} : /\ z.sim \in Int /\ z.lex \in Int /\ z.start \in Int /\ z.end \in Int
                           /\ EffectiveScore(z) \in Int
  BY RowFields, RowScore DEF Textual
<1> QED
  BY <1>1 DEF Reaches, Covers

(* A parent is not left behind: it is not merged. *)
LEMMA ParentIsNotLeft ==
  ASSUME NEW T \in SUBSET Rows, NEW s \in Seq(T), Settled(Elements(s)),
         NEW q \in Elements(s), q.level = "parent", NEW limit
  PROVE  ~LeftBehind(q, s, limit)
<1> SUFFICES ASSUME LeftBehind(q, s, limit) PROVE FALSE
  OBVIOUS
<1> DEFINE run == Compatible(q, s, {})
<1>1. \E d \in Elements(run) : TRUE
  BY DEF LeftBehind
<1>2. RunsThrough(run, q, s, {})
  BY CompatibleRuns
<1>3. Elements(<<>>) = {}
  BY 1 .. 0 = {} DEF Elements
<1> HIDE DEF run
<1> QED
  BY <1>1, <1>2, <1>3 DEF RunsThrough

(* The best candidate is in the evidence, or left behind. *)
LEMMA RetrieveKeeps ==
  ASSUME NEW o \in Retrievals
  PROVE  PassageKept(o, Retrieve(o.fused, o.scores, o.fails, o.limits))
<1> SUFFICES ASSUME o.fused # <<>>
             PROVE  PassageKept(o, Retrieve(o.fused, o.scores, o.fails, o.limits))
  BY DEF PassageKept
<1> DEFINE limits == o.limits
           limit == limits.passage
           docs == DocumentsOf(o.fused)
           F == FoundIn(docs, limit)
           selected == Reranked(o.fused, o.scores, o.fails, limits.items)
           C == Elements(selected)
           best == EffectiveScore(selected[1])
           T == TracedTo(C, limit, best)
           x == Expanded(selected, limits)
           y == Merge(x, limit)
           evidence == Assemble(y, limits.items, limits.budget)
           sufficient == IsSufficient(evidence, limits.similarity, limits.lexical)
           r == Retrieve(o.fused, o.scores, o.fails, limits)
<1>1. /\ limit \in Nat /\ limits.budget \in Nat /\ limit <= limits.budget
      /\ limits.items \in Nat \ {0} /\ limits.penalty \in Nat /\ limits.reach \in Nat
      /\ limits.similarity \in Int /\ limits.lexical \in Int /\ ChildrenFit(limit)
  BY RetrievalsAssumption DEF ChildrenFit
<1>2. r = [evidence |-> evidence, sufficient |-> sufficient]
  BY DEF Retrieve
<1>3. selected \in Seq(F) /\ BestIsFirst(selected)
  BY SelectedAreFound
<1>4. x = Expand(Seeds(selected, limits), limits.reach, limit)
  BY DEF Expanded
<1>5. F \subseteq Drawn(limit) /\ F \subseteq Rows
  BY DEF FoundIn, Drawn
<1>6. \A c \in F : c.doc \in docs /\ c.sim >= Absent /\ c.lex >= Absent
  BY DEF FoundIn
<1> HIDE DEF limit, docs, F, selected, x, y, evidence, sufficient, r, limits
<1>7. C \subseteq F /\ C \in SUBSET Drawn(limit) /\ selected[1] \in C /\ Head(selected) = selected[1]
  <2>1. selected # <<>>
    BY <1>3 DEF BestIsFirst
  <2> QED
    BY <1>3, <1>5, <2>1, ElementsOf
<1>8. NoneBetter(C, best)
  BY <1>3 DEF BestIsFirst, NoneBetter, Elements
<1>9. best \in Int
  <2>1. selected[1] \in Rows
    BY <1>5, <1>7
  <2> QED
    BY <2>1, RowScore
<1> HIDE DEF C, best
<1>10. /\ Seeds(selected, limits) \in Seq(C) /\ Seeds(selected, limits) # <<>>
       /\ EffectiveScore(Seeds(selected, limits)[1]) = best
  BY <1>1, <1>3, <1>5, SeedsKeepBest DEF C, best
<1>11. Expands(x, C, limit, best)
  BY <1>1, <1>4, <1>7, <1>8, <1>9, <1>10, ExpansionKeepsBest
<1>12. /\ x \in Seq(T) /\ x # <<>> /\ Settled(Elements(x))
       /\ best >= 0 => Leads(ByScore(x)[1], C, best)
  BY <1>11 DEF Expands
<1>13. y \in Seq(T) /\ MergeReaches(y, x, limit, best)
  BY <1>1, <1>9, <1>12, MergeKeepsBest DEF y
<1>14. T \in SUBSET Rows /\ Graded(T) /\ Textual(T)
  BY <1>1, <1>9, TracedFields
<1>15. \A z \in T : /\ Tokens(z) <= limit
                    /\ \E c \in C : z.doc = c.doc
                    /\ \E c \in C : z.sim = c.sim
                    /\ \E c \in C : z.lex = c.lex
  BY DEF TracedTo
<1> HIDE DEF T
<1>16. y # <<>> /\ 1 \in 1 .. Len(y) /\ y[1] \in T
  <2>1. y # <<>>
    BY <1>13 DEF MergeReaches
  <2> QED
    BY <1>13, <2>1, ElementOf
<1>17. /\ evidence \in Seq(Elements(y))
       /\ Assembled(evidence, y, limits.items, limits.budget)
  BY <1>1, <1>13, <1>14, AssemblyAssembles DEF evidence
<1>18. evidence \in Seq(T) /\ \A i \in 1 .. Len(evidence) : evidence[i] \in T
  BY <1>13, <1>17, ElementsOf, ElementOf
<1>19. evidence # <<>> /\ evidence[1] = y[1] /\ Head(evidence) = y[1] /\ 1 \in 1 .. Len(evidence)
  <2>1. Tokens(y[1]) <= limits.budget
    <3>1. Tokens(y[1]) \in Int /\ Tokens(y[1]) <= limit
      BY <1>14, <1>15, <1>16, TokensIn
    <3> QED
      BY <1>1, <3>1
  <2>2. evidence # <<>> /\ evidence[1] = y[1]
    BY <1>16, <1>17, <2>1 DEF Assembled
  <2> QED
    BY <1>18, <2>2
<1>20. ASSUME best >= 0
       PROVE  \E c \in C : /\ EffectiveScore(c) = best
                           /\ \/ /\ Covers(Head(evidence), c)
                                 /\ Sufficient(c, limits.similarity, limits.lexical) => sufficient
                              \/ LeftBehind(c, x, limit)
  <2> DEFINE q == ByScore(x)[1]
  <2>1. /\ EffectiveScore(q) = best
        /\ Reaches(y[1], q) \/ LeftBehind(q, x, limit)
    BY <1>12, <1>13, <1>20 DEF Leads, MergeReaches
  <2>2. PICK c \in C : /\ EffectiveScore(c) = best
                       /\ q = c \/ (q.level = "parent" /\ Reaches(q, c))
    BY <1>12, <1>20 DEF Leads
  <2>3. q \in Elements(x) /\ q \in Rows
    <3>1. ByScore(x) \in Seq(T) /\ BestFirst(ByScore(x), x)
      BY <1>12, <1>14, ByScoreSorts
    <3>2. ByScore(x) # <<>>
      <4>1. Len(ByScore(x)) = Len(x)
        BY <3>1 DEF BestFirst
      <4> QED
        BY <1>12, <3>1, <4>1
    <3>3. q \in Elements(ByScore(x)) /\ Elements(ByScore(x)) \subseteq T
      BY <3>1, <3>2, ElementsOf
    <3>4. Elements(ByScore(x)) = Elements(x)
      BY <3>1 DEF BestFirst
    <3> QED
      BY <1>14, <3>3, <3>4
  <2> HIDE DEF q
  <2>4. c \in Rows /\ y[1] \in Rows
    BY <1>5, <1>7, <1>14, <1>16
  <2>5. Reaches(y[1], c) \/ LeftBehind(c, x, limit)
    <3>1. CASE q = c
      BY <2>1, <3>1
    <3>2. CASE q.level = "parent" /\ Reaches(q, c)
      <4>1. ~LeftBehind(q, x, limit)
        BY <1>12, <1>14, <2>3, <3>2, ParentIsNotLeft
      <4> QED
        BY <2>1, <2>3, <2>4, <3>2, <4>1, ReachesOn
    <3> QED
      BY <2>2, <3>1, <3>2
  <2>6. ASSUME Reaches(y[1], c), Sufficient(c, limits.similarity, limits.lexical)
        PROVE  sufficient
    <3> DEFINE p == evidence[1]
    <3>1. p = y[1] /\ p \in Rows
      BY <1>19, <2>4
    <3>2. p.sim \in Int /\ p.lex \in Int /\ c.sim \in Int /\ c.lex \in Int
      BY <2>4, <3>1, RowFields
    <3> HIDE DEF p
    <3>3. p.sim >= c.sim /\ p.lex >= c.lex /\ c.sim >= Absent /\ c.lex >= Absent
      BY <1>6, <1>7, <2>6, <3>1 DEF Reaches
    <3>4. Sufficient(p, limits.similarity, limits.lexical)
      <4>1. limits.similarity \in Int /\ limits.lexical \in Int /\ Absent \in Int
        BY <1>1 DEF Absent
      <4>2. CASE c.sim # Absent /\ c.sim >= limits.similarity
        <5>1. p.sim # Absent /\ p.sim >= limits.similarity
          BY <3>2, <3>3, <4>1, <4>2
        <5> QED
          BY <5>1 DEF Sufficient
      <4>3. CASE c.lex # Absent /\ c.lex >= limits.lexical
        <5>1. p.lex # Absent /\ p.lex >= limits.lexical
          BY <3>2, <3>3, <4>1, <4>3
        <5> QED
          BY <5>1 DEF Sufficient
      <4> QED
        BY <2>6, <4>2, <4>3 DEF Sufficient
    <3> QED
      BY <1>19, <3>4 DEF Sufficient, IsSufficient, sufficient, p
  <2> QED
    BY <1>19, <2>2, <2>5, <2>6 DEF Reaches
<1>21. ASSUME sufficient
       PROVE  \E c \in C : Sufficient(c, limits.similarity, limits.lexical)
  <2>1. PICK i \in 1 .. Len(evidence) :
           \/ evidence[i].sim # Absent /\ evidence[i].sim >= limits.similarity
           \/ evidence[i].lex # Absent /\ evidence[i].lex >= limits.lexical
    BY <1>21 DEF sufficient, IsSufficient
  <2>2. evidence[i] \in T
    BY <1>18
  <2>3. PICK a \in C : evidence[i].sim = a.sim
    BY <1>15, <2>2
  <2>4. PICK b \in C : evidence[i].lex = b.lex
    BY <1>15, <2>2
  <2>5. Sufficient(a, limits.similarity, limits.lexical)
          \/ Sufficient(b, limits.similarity, limits.lexical)
    BY <2>1, <2>3, <2>4 DEF Sufficient
  <2> QED
    BY <2>5
<1>22. Len(evidence) <= limits.items /\ TokensOf(evidence) <= limits.budget
  BY <1>17 DEF Assembled
<1>23. \A i \in 1 .. Len(evidence) : evidence[i].doc \in docs
  <2> SUFFICES ASSUME NEW i \in 1 .. Len(evidence) PROVE evidence[i].doc \in docs
    OBVIOUS
  <2>1. PICK c \in C : evidence[i].doc = c.doc
    BY <1>15, <1>18
  <2> QED
    BY <1>6, <1>7, <2>1
<1>24. r.evidence = evidence /\ r.sufficient = sufficient
  BY <1>2
<1>25. PassageKept(o, r)
  <2>1. /\ evidence # <<>>
        /\ best >= 0 =>
             \E c \in C : /\ EffectiveScore(c) = best
                          /\ \/ /\ Covers(Head(evidence), c)
                                /\ IsSufficient(<<c>>, limits.similarity, limits.lexical) => sufficient
                             \/ LeftBehind(c, x, limit)
        /\ sufficient => \E c \in C : IsSufficient(<<c>>, limits.similarity, limits.lexical)
    BY <1>19, <1>20, <1>21, SufficientAlone
  <2>2. best = EffectiveScore(Head(selected))
    BY <1>7 DEF best
  <2> QED
    BY <1>22, <1>23, <1>24, <2>1, <2>2
       DEF PassageKept, docs, DocumentsOf, C, selected, x, limits, limit
<1> QED
  BY <1>25 DEF r, limits

-----------------------------------------------------------------------------
(* The theorem.                                                               *)

(* The inductive invariant: a result of the two retrievals is what they make *)
(* of an input they may have. *)
Retrieved ==
    /\ Running("retrieve", Retrievals,
               Retrieve(input.fused, input.scores, input.fails, input.limits))
    /\ Running("overview", Overviews,
               RetrieveSummaries(input.rows, input.whole, input.scores, input.limits))

(* The step that returns the value of another algorithm keeps it. *)
LEMMA RetrievedKeeps ==
  ASSUME Retrieved, NEW name, NEW value, Returns(name, value),
         name \notin {"retrieve", "overview"}
  PROVE  Retrieved'
BY DEF Returns, Retrieved, Running

(* It holds at first. *)
LEMMA InitiallyRetrieved == Init => Retrieved
BY DEF Init, Chosen, Retrieved, Running

(* Every step keeps it. *)
LEMMA StaysRetrieved == Retrieved /\ [Next]_vars => Retrieved'
<1> SUFFICES ASSUME Retrieved, [Next]_vars PROVE Retrieved'
  OBVIOUS
<1>1. CASE RunRetrieve
  BY <1>1 DEF RunRetrieve, Returns, Retrieved, Running
<1>2. CASE RunOverview
  BY <1>2 DEF RunOverview, Returns, Retrieved, Running
<1>3. CASE RunFuse \/ RunDiversify \/ RunRender \/ RunPlan
  BY <1>3, RetrievedKeeps DEF RunFuse, RunDiversify, RunRender, RunPlan
<1>4. CASE RunMarkdown \/ RunPdf \/ RunDocx \/ RunHierarchy
  BY <1>4, RetrievedKeeps DEF RunMarkdown, RunPdf, RunDocx, RunHierarchy
<1>5. CASE RunStore \/ RunPack \/ RunSpans
  BY <1>5, RetrievedKeeps DEF RunStore, RunPack, RunSpans
<1>6. CASE RunExecute \/ RunLoad \/ RunJudged \/ RunVerdict
  BY <1>6, RetrievedKeeps DEF RunExecute, RunLoad, RunJudged, RunVerdict
<1>7. CASE UNCHANGED vars
  BY <1>7 DEF vars, Retrieved, Running
<1> QED
  BY <1>1, <1>2, <1>3, <1>4, <1>5, <1>6, <1>7 DEF Next

(* The best candidate of a retrieval reaches the model: where its score is not  *)
(* negative, the first piece of evidence has the text of one with that score,   *)
(* as itself, its parent or a passage made of it, unless a full passage left it *)
(* behind, and if it is enough alone, the evidence is (rag/retrieval.py,        *)
(* rag/evidence_assembly.py); the first summary is the best                     *)
(* (rag/summary_retrieval.py); the limits hold, and nothing is from a Document  *)
(* that the search did not find.  For every corpus and every result of the      *)
(* searches, any scores of the reranker, its failure included, and any limits   *)
(* that the configuration accepts.                                              *)
THEOREM BestIsKept == Spec => []BestReachesEvidence
<1>1. Retrieved => BestPassageIsKept
  <2> SUFFICES ASSUME Retrieved, Has("retrieve") PROVE BestPassageIsKept
    BY DEF BestPassageIsKept
  <2>1. /\ input \in Retrievals
        /\ result = Retrieve(input.fused, input.scores, input.fails, input.limits)
    BY DEF Retrieved, Running, Has
  <2>2. PassageKept(input, result)
    BY <2>1, RetrieveKeeps
  <2> QED
    BY <2>2 DEF PassageKept, BestPassageIsKept
<1>2. Retrieved => BestSummaryIsKept
  <2> SUFFICES ASSUME Retrieved, Has("overview") PROVE BestSummaryIsKept
    BY DEF BestSummaryIsKept
  <2>1. /\ input \in Overviews
        /\ result = RetrieveSummaries(input.rows, input.whole, input.scores, input.limits)
    BY DEF Retrieved, Running, Has
  <2>2. SummaryKept(input, result)
    BY <2>1, OverviewKeeps
  <2> QED
    BY <2>2 DEF SummaryKept, BestSummaryIsKept
<1>3. Retrieved => BestReachesEvidence
  BY <1>1, <1>2 DEF BestReachesEvidence
<1> QED
  BY <1>3, InitiallyRetrieved, StaysRetrieved, PTL DEF Spec

=============================================================================
