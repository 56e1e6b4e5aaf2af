---------------------------- MODULE ExecutorProofs ----------------------------
(***************************************************************************)
(* Proofs about Executor, for any graph, any number of runs and targets,   *)
(* and with or without --force.  Three invariants carry them, each         *)
(* inductive relative to the ones before:                                  *)
(*                                                                         *)
(*   LockInv  who holds the lock of a test, and what is known of its       *)
(*            checkpoint under it;                                         *)
(*   DataInv  what a run knows: its chain of calls, its memo, and the      *)
(*            guests it owns;                                              *)
(*   DirInv   which run made an artifact directory, and how runs ended.    *)
(*                                                                         *)
(* The functions over the graph (Machines, Descriptor, Separate) and the   *)
(* folds over sequences are recursive: the first sections show that their  *)
(* equations have solutions.                                               *)
(***************************************************************************)
EXTENDS Executor, SequenceTheorems, WellFoundedInduction, TLAPS

------------------------------------------------------------------------------
(* Recursion and folds: what CHOOSE picks for a recursive function *)

\* A relation without infinite descent: of every nonempty set some element has
\* nothing of the set below it.
NoDescent(N, below) ==
  /\ below \in [N -> SUBSET N]
  /\ \A S \in SUBSET N : S # {} => \E n \in S : below[n] \cap S = {}

\* A step of a recursion over the relation: H[n][f] looks at f below n only.
LooksBelow(N, V, below, H) ==
  /\ H \in [N -> [[N -> V] -> V]]
  /\ \A n \in N : \A f, g \in [N -> V] :
       (\A m \in below[n] : f[m] = g[m]) => H[n][f] = H[n][g]

\* The function the recursion H defines.
Solution(N, V, H, f) == f \in [N -> V] /\ \A n \in N : f[n] = H[n][f]

\* A recursion over a relation without infinite descent has a solution: what
\* CHOOSE picks for a recursive function over the graph satisfies its equation.
LEMMA RecursionExists ==
  ASSUME NEW N, NEW V, V # {}, NEW below, NoDescent(N, below),
         NEW H, LooksBelow(N, V, below, H)
  PROVE  \E f : Solution(N, V, H, f)
<1>a. PICK v0 : v0 \in V
  OBVIOUS
<1>b. /\ below \in [N -> SUBSET N]
      /\ \A S \in SUBSET N : S # {} => \E n \in S : below[n] \cap S = {}
      /\ H \in [N -> [[N -> V] -> V]]
      /\ \A n \in N : \A f, g \in [N -> V] :
           (\A m \in below[n] : f[m] = g[m]) => H[n][f] = H[n][g]
  BY DEF NoDescent, LooksBelow
<1> DEFINE Val(n, f) == H[n][f]
<1>0. /\ \A n \in N : \A f \in [N -> V] : Val(n, f) \in V
      /\ \A n \in N : \A f, g \in [N -> V] :
           (\A m \in below[n] : f[m] = g[m]) => Val(n, f) = Val(n, g)
  <2>1. PICK X : X = [N -> V]
    OBVIOUS
  <2>2. \A n \in N : \A f \in X : H[n][f] \in V
    BY <1>b, <2>1
  <2>3. QED
    BY <1>b, <2>1, <2>2
<1> HIDE DEF Val
<1> DEFINE Closed(D) == D \in SUBSET N /\ \A n \in D : below[n] \subseteq D
           Solves(g, D) == \A n \in D : g[n] = Val(n, g)
           Found(n, g) == \E D : Closed(D) /\ n \in D /\ Solves(g, D)
           U == {n \in N : \E g \in [N -> V] : Found(n, g)}
           F == [n \in N |-> IF n \in U
                   THEN (CHOOSE g \in [N -> V] : Found(n, g))[n] ELSE v0]
<1>1. ASSUME NEW D, NEW E, NEW g \in [N -> V], NEW h \in [N -> V],
             Closed(D), Closed(E), Solves(g, D), Solves(h, E)
      PROVE  \A n \in D \cap E : g[n] = h[n]
  <2> DEFINE S == {n \in D \cap E : g[n] # h[n]}
  <2>1. SUFFICES ASSUME S # {}
                 PROVE  FALSE
    OBVIOUS
  <2>2. S \in SUBSET N
    BY <1>1
  <2>3. PICK n \in S : below[n] \cap S = {}
    BY <1>b, <2>1, <2>2
  <2>4. \A m \in below[n] : g[m] = h[m]
    BY <1>1, <2>3
  <2>5. Val(n, g) = Val(n, h)
    BY <1>0, <2>2, <2>4
  <2>6. QED
    BY <1>1, <2>3, <2>5
<1>2. F \in [N -> V]
  BY <1>a
<1>3. ASSUME NEW n \in U
      PROVE  \E D : /\ Closed(D) /\ n \in D /\ D \subseteq U
                    /\ \E g \in [N -> V] : Solves(g, D) /\ \A m \in D : F[m] = g[m]
  <2>1. PICK g \in [N -> V] : Found(n, g)
    OBVIOUS
  <2>2. PICK D : Closed(D) /\ n \in D /\ Solves(g, D)
    BY <2>1
  <2>3. D \subseteq U
    BY <2>2
  <2>4. ASSUME NEW m \in D
        PROVE  F[m] = g[m]
    <3> DEFINE h == CHOOSE k \in [N -> V] : Found(m, k)
    <3>1. h \in [N -> V] /\ Found(m, h)
      BY <2>2
    <3>2. PICK E : Closed(E) /\ m \in E /\ Solves(h, E)
      BY <3>1
    <3> HIDE DEF h, Closed, Solves, Found, U
    <3>3. g[m] = h[m]
      BY <1>1, <2>2, <3>1, <3>2
    <3>4. m \in U /\ m \in N
      BY <2>3 DEF U
    <3>5. F[m] = h[m]
      BY <3>4 DEF h
    <3>6. QED
      BY <3>3, <3>5
  <2> HIDE DEF Closed, Solves, Found, U, F
  <2>5. QED
    BY <2>1, <2>2, <2>3, <2>4
<1> HIDE DEF F
<1>4. ASSUME NEW n \in U
      PROVE  below[n] \subseteq U /\ F[n] = Val(n, F)
  <2> HIDE DEF U, Found
  <2>1. PICK D : /\ Closed(D) /\ n \in D /\ D \subseteq U
                 /\ \E g \in [N -> V] : Solves(g, D) /\ \A m \in D : F[m] = g[m]
    BY <1>3
  <2>2. PICK g \in [N -> V] : Solves(g, D) /\ \A m \in D : F[m] = g[m]
    BY <2>1
  <2>3. below[n] \subseteq D
    BY <2>1
  <2>4. Val(n, F) = Val(n, g)
    <3>1. n \in N /\ \A m \in below[n] : F[m] = g[m]
      BY <2>2, <2>3 DEF U
    <3>2. QED
      BY <1>0, <1>2, <2>2, <3>1
  <2>5. QED
    BY <2>1, <2>2, <2>3, <2>4
<1>5. U = N
  <2>1. SUFFICES ASSUME N \ U # {}
                 PROVE  FALSE
    OBVIOUS
  <2>2. PICK n \in N \ U : below[n] \cap (N \ U) = {}
    BY <1>b, <2>1
  <2>3. below[n] \subseteq U /\ n \notin below[n]
    BY <1>b, <2>2
  <2> DEFINE G == [F EXCEPT ![n] = Val(n, F)]
             D == U \cup {n}
  <2>4. Val(n, F) \in V
    BY <1>0, <1>2
  <2>5. G \in [N -> V] /\ G[n] = Val(n, F) /\ \A m \in U : G[m] = F[m]
    BY <1>2, <2>2, <2>4
  <2> HIDE DEF G
  <2>6. Closed(D)
    BY <1>b, <1>4, <2>3
  <2>7. ASSUME NEW m \in D
        PROVE  G[m] = Val(m, G)
    <3>1. m \in N /\ G[m] = Val(m, F) /\ \A k \in below[m] : G[k] = F[k]
      <4>1. CASE m = n
        BY <2>2, <2>3, <2>5, <4>1
      <4>2. CASE m # n
        <5>1. m \in U /\ m \in N
          BY <4>2
        <5>2. below[m] \subseteq U /\ F[m] = Val(m, F)
          BY <1>4, <5>1
        <5>3. QED
          BY <2>5, <5>1, <5>2
      <4>3. QED
        BY <4>1, <4>2
    <3> HIDE DEF U
    <3>2. Val(m, G) = Val(m, F)
      BY <1>0, <1>2, <2>5, <3>1
    <3>3. QED
      BY <3>1, <3>2
  <2>8. Found(n, G)
    <3>1. Closed(D) /\ n \in D /\ Solves(G, D)
      BY <2>6, <2>7
    <3> HIDE DEF Closed, Solves, D
    <3>2. QED
      BY <3>1
  <2>9. \E g \in [N -> V] : Found(n, g)
    <3> HIDE DEF Found
    <3>1. QED
      BY <2>5, <2>8
  <2> HIDE DEF Found
  <2>10. QED
    BY <2>2, <2>9
<1> HIDE DEF U
<1>6. \A n \in N : F[n] = Val(n, F)
  BY <1>4, <1>5
<1>7. QED
  BY <1>2, <1>6 DEF Val, Solution

\* A nonempty set of numbers has a least element.
LEMMA LeastNumber ==
  ASSUME NEW S, S \subseteq Nat, S # {}
  PROVE  \E m \in S : \A k \in S : m <= k
<1>1. PICK R : R = OpToRel(<, Nat)
  OBVIOUS
<1>2. \A x, y \in Nat : <<x, y>> \in R <=> x < y
  BY <1>1 DEF OpToRel
<1>3. IsWellFoundedOn(R, Nat)
  BY <1>1, NatLessThanWellFounded
<1>4. \E x \in S : \A y \in S : <<y, x>> \notin R
  BY <1>3, WFMin, Zenon
<1>5. PICK m \in S : \A k \in S : ~ (k < m)
  BY <1>2, <1>4
<1>6. m \in Nat /\ \A k \in S : k \in Nat
  OBVIOUS
<1>7. QED
  BY <1>5, <1>6

\* The same for a value computed along the numbers up to n.
FoldOf(n, V, v0, Nxt, f) ==
  /\ f \in [0..n -> V]
  /\ f[0] = v0 /\ \A i \in 1..n : f[i] = Nxt[f[i - 1]][i]

\* A step of a fold: from the value so far and the index to the next value.
IsStep(n, V, Nxt) == Nxt \in [V -> [1..n -> V]]

\* A fold along the numbers up to n has its values.
LEMMA FoldExists ==
  ASSUME NEW n \in Nat, NEW V, NEW v0 \in V, NEW Nxt, IsStep(n, V, Nxt)
  PROVE  \E f : FoldOf(n, V, v0, Nxt, f)
<1>0. Nxt \in [V -> [1..n -> V]]
  BY DEF IsStep
<1> DEFINE N == 0..n
           below == [i \in N |-> {i - 1} \cap N]
           H == [i \in N |-> [f \in [N -> V] |->
                   IF i = 0 THEN v0 ELSE Nxt[f[i - 1]][i]]]
<1>1. \A i \in N : i # 0 => i - 1 \in N /\ i \in 1..n
  OBVIOUS
<1>2. \A i \in N : \A f \in [N -> V] :
        H[i][f] = IF i = 0 THEN v0 ELSE Nxt[f[i - 1]][i]
  OBVIOUS
<1>3. H \in [N -> [[N -> V] -> V]]
  <2>1. ASSUME NEW i \in N, NEW f \in [N -> V]
        PROVE  (IF i = 0 THEN v0 ELSE Nxt[f[i - 1]][i]) \in V
    <3>1. CASE i = 0
      BY <3>1
    <3>2. CASE i # 0
      <4>1. i - 1 \in N /\ i \in 1..n
        BY <1>1, <3>2
      <4>2. f[i - 1] \in V
        BY <4>1
      <4> HIDE DEF N
      <4>3. QED
        BY <1>0, <3>2, <4>1, <4>2
    <3>3. QED
      BY <3>1, <3>2
  <2>2. QED
    BY <2>1
<1>4. ASSUME NEW S \in SUBSET N, S # {}
      PROVE  \E i \in S : below[i] \cap S = {}
  <2>1. S \subseteq Nat
    OBVIOUS
  <2>2. PICK i \in S : \A k \in S : i <= k
    BY <1>4, <2>1, LeastNumber
  <2>3. i \in Nat /\ ~ (i <= i - 1)
    BY <2>1
  <2>4. QED
    BY <2>2, <2>3
<1>5. ASSUME NEW i \in N, NEW f \in [N -> V], NEW g \in [N -> V],
             \A m \in below[i] : f[m] = g[m]
      PROVE  H[i][f] = H[i][g]
  <2>1. i # 0 => f[i - 1] = g[i - 1]
    BY <1>1, <1>5
  <2>2. /\ H[i][f] = IF i = 0 THEN v0 ELSE Nxt[f[i - 1]][i]
        /\ H[i][g] = IF i = 0 THEN v0 ELSE Nxt[g[i - 1]][i]
    BY <1>2
  <2> HIDE DEF H, N
  <2>3. QED
    BY <2>1, <2>2
<1>6. below \in [N -> SUBSET N]
  OBVIOUS
<1>7. 0 \in N /\ \A i \in 1..n : i \in N /\ i # 0
  OBVIOUS
<1> HIDE DEF N, below, H
<1>8. PICK f : Solution(N, V, H, f)
  <2>1. NoDescent(N, below)
    BY <1>4, <1>6 DEF NoDescent
  <2>2. LooksBelow(N, V, below, H)
    BY <1>3, <1>5 DEF LooksBelow
  <2>3. V # {}
    OBVIOUS
  <2>4. QED
    BY <2>1, <2>2, <2>3, RecursionExists
<1>9. f \in [N -> V] /\ \A i \in N : f[i] = H[i][f]
  BY <1>8 DEF Solution
<1>10. f[0] = v0 /\ \A i \in 1..n : f[i] = Nxt[f[i - 1]][i]
  BY <1>2, <1>7, <1>9
<1>11. QED
  BY <1>9, <1>10 DEF N, FoldOf

------------------------------------------------------------------------------
(* Sequences: their elements, FlattenSeq and Once *)

\* The elements of a sequence.
LEMMA Elements ==
  ASSUME NEW X, NEW s \in Seq(X)
  PROVE  /\ ToSet(s) = {s[i] : i \in 1..Len(s)} /\ ToSet(s) \subseteq X
         /\ Len(s) \in Nat /\ DOMAIN s = 1..Len(s)
         /\ s # <<>> <=> ToSet(s) # {}
<1>1. Len(s) \in Nat /\ DOMAIN s = 1..Len(s) /\ s \in [1..Len(s) -> X]
  BY LenProperties
<1>2. ToSet(s) = {s[i] : i \in 1..Len(s)}
  BY <1>1 DEF ToSet
<1>3. ToSet(s) \subseteq X
  BY <1>1, <1>2
<1>4. ASSUME s # <<>>
      PROVE  ToSet(s) # {}
  <2>1. Len(s) \in Nat \ {0}
    BY <1>4, EmptySeq
  <2>2. 1 \in 1..Len(s)
    BY <2>1
  <2>3. QED
    BY <1>2, <2>2
<1>5. ASSUME s = <<>>
      PROVE  ToSet(s) = {}
  <2>1. Len(s) = 0
    BY <1>5, EmptySeq
  <2>2. QED
    BY <1>2, <2>1
<1>6. QED
  BY <1>1, <1>2, <1>3, <1>4, <1>5

\* The elements of two sequences joined, and of one with an element more.
LEMMA JoinedElements ==
  ASSUME NEW X, NEW s \in Seq(X), NEW t \in Seq(X)
  PROVE  s \o t \in Seq(X) /\ ToSet(s \o t) = ToSet(s) \cup ToSet(t)
<1>1. /\ s \o t \in Seq(X) /\ Len(s \o t) = Len(s) + Len(t)
      /\ \A i \in 1..Len(s) + Len(t) :
           (s \o t)[i] = IF i <= Len(s) THEN s[i] ELSE t[i - Len(s)]
  BY ConcatProperties
<1>2. /\ Len(s) \in Nat /\ Len(t) \in Nat
      /\ ToSet(s) = {s[i] : i \in 1..Len(s)} /\ ToSet(t) = {t[i] : i \in 1..Len(t)}
  BY Elements
<1>3. PICK u \in Seq(X) : u = s \o t
  BY <1>1
<1>4. ToSet(u) = {u[i] : i \in 1..Len(u)}
  BY Elements
<1>5. PICK m \in Nat : m = Len(s)
  BY <1>2
<1>6. PICK n \in Nat : n = Len(t)
  BY <1>2
<1>7. /\ \A i \in 1..m : i \in 1..m + n /\ i <= m
      /\ \A i \in 1..n : m + i \in 1..m + n /\ ~ (m + i <= m) /\ (m + i) - m = i
      /\ \A i \in 1..m + n : i <= m => i \in 1..m
      /\ \A i \in 1..m + n : ~ (i <= m) => i - m \in 1..n
  OBVIOUS
<1>8. \A i \in 1..m + n : u[i] = IF i <= m THEN s[i] ELSE t[i - m]
  BY <1>1, <1>3, <1>5, <1>6
<1>9. {u[i] : i \in 1..m + n} = {s[i] : i \in 1..m} \cup {t[i] : i \in 1..n}
  <2>1. \A i \in 1..m : u[i] = s[i]
    BY <1>7, <1>8
  <2>2. \A i \in 1..n : u[m + i] = t[i]
    <3>1. ASSUME NEW i \in 1..n
          PROVE  u[m + i] = t[i]
      <4>1. u[m + i] = t[(m + i) - m]
        BY <1>7, <1>8
      <4>2. QED
        BY <1>7, <4>1
    <3>2. QED
      BY <3>1
  <2>3. ASSUME NEW i \in 1..m + n
        PROVE  u[i] \in {s[j] : j \in 1..m} \cup {t[j] : j \in 1..n}
    <3>1. CASE i <= m
      <4>1. i \in 1..m /\ u[i] = s[i]
        BY <1>7, <1>8, <3>1
      <4>2. QED
        BY <4>1
    <3>2. CASE ~ (i <= m)
      <4>1. i - m \in 1..n /\ u[i] = t[i - m]
        BY <1>7, <1>8, <3>2
      <4>2. QED
        BY <4>1
    <3>3. QED
      BY <3>1, <3>2
  <2>4. \A i \in 1..m : s[i] \in {u[j] : j \in 1..m + n}
    BY <1>7, <2>1
  <2>5. \A i \in 1..n : t[i] \in {u[j] : j \in 1..m + n}
    BY <1>7, <2>2
  <2>6. QED
    BY <2>3, <2>4, <2>5, Zenon
<1>10. Len(u) = m + n
  BY <1>1, <1>3, <1>5, <1>6
<1>11. ToSet(u) = ToSet(s) \cup ToSet(t)
  BY <1>2, <1>4, <1>5, <1>6, <1>9, <1>10
<1>12. QED
  BY <1>3, <1>11

\* The same with one element appended.
LEMMA AppendedElements ==
  ASSUME NEW X, NEW s \in Seq(X), NEW e \in X
  PROVE  Append(s, e) \in Seq(X) /\ ToSet(Append(s, e)) = ToSet(s) \cup {e}
<1>1. Append(s, e) = s \o <<e>> /\ <<e>> \in Seq(X)
  BY AppendIsConcat
<1>2. PICK t \in Seq(X) : t = <<e>>
  BY <1>1
<1>3. ToSet(t) = {e}
  BY <1>2 DEF ToSet
<1>4. s \o t \in Seq(X) /\ ToSet(s \o t) = ToSet(s) \cup ToSet(t)
  BY JoinedElements
<1>5. QED
  BY <1>1, <1>2, <1>3, <1>4

\* Induction: what fails at some number of 1..n fails at 1 or after one at which
\* it holds.
LEMMA FirstFailure ==
  ASSUME NEW n \in Nat, NEW Bad \in SUBSET (1..n), Bad # {}
  PROVE  \E i \in Bad : i = 1 \/ (i - 1 \in 1..n /\ i - 1 \notin Bad)
<1>1. Bad \subseteq Nat
  OBVIOUS
<1>2. PICK i \in Bad : \A k \in Bad : i <= k
  BY <1>1, LeastNumber
<1>3. i \in 1..n
  OBVIOUS
<1>4. i # 1 => i - 1 \in 1..n /\ ~ (i <= i - 1)
  BY <1>3
<1>5. QED
  BY <1>2, <1>4

\* What FlattenSeq has joined after each of its sequences.
Joins(X, seqs, n, h) ==
  /\ h \in [1..n -> Seq(X)] /\ FlattenSeq(seqs) = h[n]
  /\ \A i \in 1..n : h[i] = IF i = 1 THEN seqs[i] ELSE h[i - 1] \o seqs[i]

\* FlattenSeq is the fold its definition says.
LEMMA FlattenUnfolds ==
  ASSUME NEW X, NEW seqs \in Seq(Seq(X)), NEW n \in Nat \ {0}, n = Len(seqs)
  PROVE  \E h : Joins(X, seqs, n, h)
<1>1. \A i \in 1..n : seqs[i] \in Seq(X)
  BY ElementOfSeq
<1> DEFINE Nxt == [s \in Seq(X) |-> [i \in 1..n |-> s \o seqs[i]]]
<1>2. Nxt \in [Seq(X) -> [1..n -> Seq(X)]]
  BY <1>1, ConcatProperties
<1>3. \A s \in Seq(X) : \A i \in 1..n : Nxt[s][i] = s \o seqs[i]
  OBVIOUS
<1>4. <<>> \in Seq(X)
  OBVIOUS
<1> HIDE DEF Nxt
<1>5. PICK f \in [0..n -> Seq(X)] :
        f[0] = <<>> /\ \A i \in 1..n : f[i] = Nxt[f[i - 1]][i]
  <2>1. IsStep(n, Seq(X), Nxt)
    BY <1>2 DEF IsStep
  <2>2. PICK f : FoldOf(n, Seq(X), <<>>, Nxt, f)
    BY <1>4, <2>1, FoldExists
  <2>3. QED
    BY <2>2, Zenon DEF FoldOf
<1>6. \A i \in 1..n : i - 1 \in 0..n /\ i \in 0..n /\ f[i - 1] \in Seq(X)
  <2>1. \A i \in 1..n : i - 1 \in 0..n /\ i \in 0..n
    OBVIOUS
  <2>2. PICK V : V = Seq(X)
    OBVIOUS
  <2>3. f \in [0..n -> V]
    BY <2>2
  <2>4. \A i \in 0..n : f[i] \in V
    BY <2>3
  <2>5. QED
    BY <2>1, <2>2, <2>4
<1>7. \A i \in 1..n : f[i] = f[i - 1] \o seqs[i]
  BY <1>3, <1>5, <1>6
<1>8. f[1] = seqs[1]
  <2>1. 1 \in 1..n /\ 1 - 1 = 0
    OBVIOUS
  <2>2. seqs[1] \in Seq(X) /\ f[1] = <<>> \o seqs[1]
    BY <1>1, <1>5, <1>7, <2>1
  <2>3. PICK t \in Seq(X) : t = seqs[1]
    BY <2>2
  <2>4. <<>> \o t = t
    BY ConcatEmptySeq
  <2>5. QED
    BY <2>2, <2>3, <2>4
<1> DEFINE g == [i \in 1..n |-> f[i]]
           Eq(h) == h = [i \in 1..Len(seqs) |->
                           IF i = 1 THEN seqs[i] ELSE h[i - 1] \o seqs[i]]
           h0 == CHOOSE h : Eq(h)
<1>9. Eq(g)
  <2>1. \A i \in 1..n : i # 1 => i - 1 \in 1..n
    OBVIOUS
  <2>2. \A i \in 1..n : g[i] = IF i = 1 THEN seqs[i] ELSE g[i - 1] \o seqs[i]
    BY <1>7, <1>8, <2>1
  <2>3. g = [i \in 1..n |-> g[i]]
    OBVIOUS
  <2> HIDE DEF g
  <2>4. QED
    BY <2>2, <2>3
<1>10. Eq(h0)
  <2> HIDE DEF g, Eq
  <2>1. QED
    BY <1>9
<1>11. FlattenSeq(seqs) = h0[n]
  BY DEF FlattenSeq
<1> HIDE DEF h0
<1>12. /\ h0 = [i \in 1..n |-> h0[i]]
       /\ \A i \in 1..n : h0[i] = IF i = 1 THEN seqs[i] ELSE h0[i - 1] \o seqs[i]
  BY <1>10
<1>13. \A i \in 1..n : h0[i] \in Seq(X)
  <2> DEFINE Bad == {i \in 1..n : h0[i] \notin Seq(X)}
  <2>1. SUFFICES ASSUME Bad # {}
                 PROVE  FALSE
    OBVIOUS
  <2>2. PICK i \in Bad : i = 1 \/ (i - 1 \in 1..n /\ i - 1 \notin Bad)
    BY <2>1, FirstFailure
  <2>3. CASE i = 1
    BY <1>1, <1>12, <2>3
  <2>4. CASE i # 1
    <3>1. h0[i - 1] \in Seq(X) /\ seqs[i] \in Seq(X) /\ h0[i] = h0[i - 1] \o seqs[i]
      BY <1>1, <1>12, <2>2, <2>4
    <3>2. PICK s \in Seq(X) : s = h0[i - 1]
      BY <3>1
    <3>3. PICK t \in Seq(X) : t = seqs[i]
      BY <3>1
    <3>4. s \o t \in Seq(X)
      BY ConcatProperties
    <3>5. QED
      BY <3>1, <3>2, <3>3, <3>4
  <2>5. QED
    BY <2>3, <2>4
<1>14. h0 \in [1..n -> Seq(X)]
  BY <1>12, <1>13
<1>15. QED
  BY <1>11, <1>12, <1>14 DEF Joins

\* FlattenSeq has the elements of all the sequences, and no others.
LEMMA Flattened ==
  ASSUME NEW X, NEW seqs \in Seq(Seq(X))
  PROVE  /\ FlattenSeq(seqs) \in Seq(X)
         /\ ToSet(FlattenSeq(seqs)) = UNION {ToSet(seqs[i]) : i \in 1..Len(seqs)}
<1>1. Len(seqs) \in Nat /\ \A i \in 1..Len(seqs) : seqs[i] \in Seq(X)
  BY LenProperties, ElementOfSeq
<1>2. PICK n \in Nat : n = Len(seqs)
  BY <1>1
<1>3. CASE n = 0
  <2>1. FlattenSeq(seqs) = seqs /\ seqs = <<>>
    BY <1>2, <1>3, EmptySeq DEF FlattenSeq
  <2>2. 1..n = {}
    BY <1>3
  <2>3. QED
    BY <1>2, <2>1, <2>2 DEF ToSet
<1>4. CASE n # 0
  <2>1. n \in Nat \ {0}
    BY <1>4
  <2>2. PICK h \in [1..n -> Seq(X)] :
          /\ FlattenSeq(seqs) = h[n]
          /\ \A i \in 1..n : h[i] = IF i = 1 THEN seqs[i] ELSE h[i - 1] \o seqs[i]
    <3>1. PICK h : Joins(X, seqs, n, h)
      BY <1>2, <2>1, FlattenUnfolds
    <3>2. QED
      BY <3>1 DEF Joins
  <2> DEFINE Upto(i) == UNION {ToSet(seqs[k]) : k \in 1..i}
             Bad == {i \in 1..n : ToSet(h[i]) # Upto(i)}
  <2>3. Bad = {}
    <3>1. SUFFICES ASSUME Bad # {}
                   PROVE  FALSE
      OBVIOUS
    <3>2. PICK i \in Bad : i = 1 \/ (i - 1 \in 1..n /\ i - 1 \notin Bad)
      BY <3>1, FirstFailure
    <3>3. i \in 1..n
      OBVIOUS
    <3>4. CASE i = 1
      <4>1. h[i] = seqs[i]
        BY <2>2, <3>3, <3>4, Zenon
      <4>3. 1..i = {i}
        BY <3>4
      <4>2. QED
        BY <4>1, <4>3
    <3>5. CASE i # 1
      <4>1. /\ h[i - 1] \in Seq(X) /\ seqs[i] \in Seq(X)
            /\ h[i] = h[i - 1] \o seqs[i] /\ ToSet(h[i - 1]) = Upto(i - 1)
        BY <1>1, <1>2, <2>2, <3>2, <3>5
      <4>2. PICK s \in Seq(X) : s = h[i - 1]
        BY <4>1
      <4>3. PICK t \in Seq(X) : t = seqs[i]
        BY <4>1
      <4>4. ToSet(s \o t) = ToSet(s) \cup ToSet(t)
        BY JoinedElements
      <4>5. ToSet(h[i]) = Upto(i - 1) \cup ToSet(seqs[i])
        BY <4>1, <4>2, <4>3, <4>4
      <4>6. 1..i = (1..i - 1) \cup {i}
        BY <3>3
      <4>7. Upto(i) = Upto(i - 1) \cup ToSet(seqs[i])
        BY <4>6
      <4>8. QED
        BY <4>5, <4>7
    <3>6. QED
      BY <3>4, <3>5
  <2>4. n \in 1..n /\ h[n] \in Seq(X)
    BY <2>1, <2>2
  <2>5. ToSet(h[n]) = Upto(n)
    BY <2>3, <2>4
  <2>6. QED
    BY <1>2, <2>2, <2>4, <2>5
<1>5. QED
  BY <1>3, <1>4

Distinct(s) == \A i, j \in 1..Len(s) : s[i] = s[j] => i = j

\* A new element keeps a sequence without repetitions.
LEMMA AppendedDistinct ==
  ASSUME NEW X, NEW s \in Seq(X), NEW e \in X, Distinct(s), e \notin ToSet(s)
  PROVE  Distinct(Append(s, e))
<1>1. /\ Len(Append(s, e)) = Len(s) + 1
      /\ \A i \in 1..Len(s) : Append(s, e)[i] = s[i]
      /\ Append(s, e)[Len(s) + 1] = e
  BY AppendProperties
<1>2. Len(s) \in Nat /\ ToSet(s) = {s[i] : i \in 1..Len(s)}
  BY Elements
<1>3. PICK u : u = Append(s, e)
  OBVIOUS
<1>4. PICK n \in Nat : n = Len(s)
  BY <1>2
<1>5. /\ Len(u) = n + 1 /\ \A i \in 1..n : u[i] = s[i] /\ s[i] # e
      /\ u[n + 1] = e /\ \A i, j \in 1..n : s[i] = s[j] => i = j
  BY <1>1, <1>2, <1>3, <1>4 DEF Distinct
<1>6. \A i \in 1..n + 1 : i \in 1..n \/ i = n + 1
  OBVIOUS
<1>7. \A i, j \in 1..n + 1 : u[i] = u[j] => i = j
  BY <1>5, <1>6
<1>8. Distinct(u)
  BY <1>5, <1>7 DEF Distinct
<1>9. QED
  BY <1>3, <1>8

\* What Once keeps after the first i elements.
Kept(X, s, h) ==
  /\ h \in [0..Len(s) -> Seq(X)] /\ Once(s) = h[Len(s)] /\ h[0] = <<>>
  /\ \A i \in 1..Len(s) :
       h[i] = IF s[i] \in ToSet(h[i - 1]) THEN h[i - 1] ELSE Append(h[i - 1], s[i])

\* Once is the fold its definition says.
LEMMA OnceUnfolds ==
  ASSUME NEW X, NEW s \in Seq(X)
  PROVE  \E h : Kept(X, s, h)
<1>1. PICK n \in Nat : n = Len(s)
  BY Elements
<1>2. \A i \in 1..n : s[i] \in X
  BY <1>1, ElementOfSeq
<1> DEFINE Nxt == [t \in Seq(X) |-> [i \in 1..n |->
                     IF s[i] \in ToSet(t) THEN t ELSE Append(t, s[i])]]
<1>3. IsStep(n, Seq(X), Nxt)
  <2>1. ASSUME NEW t \in Seq(X), NEW i \in 1..n
        PROVE  Append(t, s[i]) \in Seq(X)
    BY <1>2, AppendProperties
  <2>2. QED
    BY <2>1 DEF IsStep
<1>4. \A t \in Seq(X) : \A i \in 1..n :
        Nxt[t][i] = IF s[i] \in ToSet(t) THEN t ELSE Append(t, s[i])
  OBVIOUS
<1>5. <<>> \in Seq(X)
  OBVIOUS
<1> HIDE DEF Nxt
<1>6. PICK f : FoldOf(n, Seq(X), <<>>, Nxt, f)
  BY <1>3, <1>5, FoldExists
<1>7. /\ f \in [0..n -> Seq(X)] /\ f[0] = <<>>
      /\ \A i \in 1..n : f[i] = Nxt[f[i - 1]][i]
  BY <1>6 DEF FoldOf
<1>8. \A i \in 1..n : i - 1 \in 0..n
  OBVIOUS
<1>9. \A i \in 1..n : f[i - 1] \in Seq(X)
  BY <1>7, <1>8
<1>10. \A i \in 1..n :
         f[i] = IF s[i] \in ToSet(f[i - 1]) THEN f[i - 1] ELSE Append(f[i - 1], s[i])
  BY <1>4, <1>7, <1>9
<1> DEFINE Eq(h) == h = [i \in 0..Len(s) |->
                       IF i = 0 THEN <<>>
                       ELSE IF s[i] \in ToSet(h[i - 1]) THEN h[i - 1]
                       ELSE Append(h[i - 1], s[i])]
           h0 == CHOOSE h : Eq(h)
<1>11. Eq(f)
  <2>1. \A i \in 0..n : i # 0 => i \in 1..n
    OBVIOUS
  <2>2. \A i \in 0..n : f[i] = IF i = 0 THEN <<>>
                       ELSE IF s[i] \in ToSet(f[i - 1]) THEN f[i - 1]
                       ELSE Append(f[i - 1], s[i])
    BY <1>7, <1>10, <2>1
  <2>3. f = [i \in 0..n |-> f[i]]
    BY <1>7
  <2>4. QED
    BY <1>1, <2>2, <2>3
<1>12. Eq(h0)
  <2> HIDE DEF Eq
  <2>1. QED
    BY <1>11
<1>13. Once(s) = h0[Len(s)]
  BY DEF Once
<1> HIDE DEF h0
<1>14. /\ h0 = [i \in 0..n |-> h0[i]] /\ h0[0] = <<>>
       /\ \A i \in 1..n : h0[i] = IF s[i] \in ToSet(h0[i - 1]) THEN h0[i - 1]
                                  ELSE Append(h0[i - 1], s[i])
  <2>1. /\ h0 = [i \in 0..n |-> h0[i]]
        /\ \A i \in 0..n : h0[i] = IF i = 0 THEN <<>>
                             ELSE IF s[i] \in ToSet(h0[i - 1]) THEN h0[i - 1]
                             ELSE Append(h0[i - 1], s[i])
    BY <1>1, <1>12
  <2>2. 0 \in 0..n /\ \A i \in 1..n : i \in 0..n /\ i # 0
    OBVIOUS
  <2>3. QED
    BY <2>1, <2>2
<1>15. \A i \in 0..n : h0[i] \in Seq(X)
  <2> DEFINE Bad == {i \in 1..n : h0[i] \notin Seq(X)}
  <2>1. Bad = {}
    <3>1. SUFFICES ASSUME Bad # {}
                   PROVE  FALSE
      OBVIOUS
    <3>2. PICK i \in Bad : i = 1 \/ (i - 1 \in 1..n /\ i - 1 \notin Bad)
      BY <3>1, FirstFailure
    <3>3. h0[i - 1] \in Seq(X)
      <4>1. i = 1 => i - 1 = 0
        OBVIOUS
      <4>2. QED
        BY <1>5, <1>14, <3>2, <4>1
    <3>4. PICK t \in Seq(X) : t = h0[i - 1]
      BY <3>3
    <3>5. Append(t, s[i]) \in Seq(X)
      BY <1>2, AppendProperties
    <3>6. QED
      BY <1>14, <3>4, <3>5
  <2>2. \A i \in 0..n : i = 0 \/ i \in 1..n
    OBVIOUS
  <2>3. QED
    BY <1>5, <1>14, <2>1, <2>2
<1>16. h0 \in [0..n -> Seq(X)]
  BY <1>14, <1>15
<1>17. QED
  BY <1>1, <1>13, <1>14, <1>16 DEF Kept

\* Once keeps every element, and each at one place.
LEMMA OnceElements ==
  ASSUME NEW X, NEW s \in Seq(X)
  PROVE  Once(s) \in Seq(X) /\ ToSet(Once(s)) = ToSet(s) /\ Distinct(Once(s))
<1>1. PICK h : Kept(X, s, h)
  BY OnceUnfolds
<1>2. PICK n \in Nat : n = Len(s) /\ ToSet(s) = {s[i] : i \in 1..n}
  BY Elements
<1>3. /\ h \in [0..n -> Seq(X)] /\ Once(s) = h[n] /\ h[0] = <<>>
      /\ \A i \in 1..n :
           h[i] = IF s[i] \in ToSet(h[i - 1]) THEN h[i - 1] ELSE Append(h[i - 1], s[i])
  BY <1>1, <1>2 DEF Kept
<1>4. \A i \in 1..n : s[i] \in X
  BY <1>2, ElementOfSeq
<1> DEFINE Upto(i) == {s[k] : k \in 1..i}
           Bad == {i \in 1..n : ~(ToSet(h[i]) = Upto(i) /\ Distinct(h[i]))}
<1>5. ToSet(h[0]) = Upto(0) /\ Distinct(h[0])
  <2>1. ToSet(<<>>) = {} /\ Distinct(<<>>) /\ 1..0 = {}
    BY DEF ToSet, Distinct
  <2>2. QED
    BY <1>3, <2>1
<1>6. Bad = {}
  <2>1. SUFFICES ASSUME Bad # {}
                 PROVE  FALSE
    OBVIOUS
  <2>2. PICK i \in Bad : i = 1 \/ (i - 1 \in 1..n /\ i - 1 \notin Bad)
    BY <2>1, FirstFailure
  <2>3. i - 1 \in 0..n /\ (i = 1 => i - 1 = 0) /\ 1..i = (1..i - 1) \cup {i}
    OBVIOUS
  <2>4. ToSet(h[i - 1]) = Upto(i - 1) /\ Distinct(h[i - 1])
    BY <1>5, <2>2, <2>3
  <2>5. Upto(i) = Upto(i - 1) \cup {s[i]}
    BY <2>3
  <2>6. PICK t \in Seq(X) : t = h[i - 1]
    BY <1>3, <2>3
  <2>7. PICK e \in X : e = s[i]
    BY <1>4
  <2>8. CASE e \in ToSet(t)
    <3>1. h[i] = t
      BY <1>3, <2>6, <2>7, <2>8
    <3>2. ToSet(h[i]) = Upto(i) /\ Distinct(h[i])
      BY <2>4, <2>5, <2>6, <2>7, <2>8, <3>1
    <3>3. QED
      BY <3>2
  <2>9. CASE e \notin ToSet(t)
    <3>1. h[i] = Append(t, e)
      BY <1>3, <2>6, <2>7, <2>9
    <3>2. ToSet(Append(t, e)) = ToSet(t) \cup {e}
      BY AppendedElements
    <3>3. Distinct(Append(t, e))
      BY <2>4, <2>6, <2>9, AppendedDistinct
    <3>4. ToSet(h[i]) = Upto(i) /\ Distinct(h[i])
      BY <2>4, <2>5, <2>6, <2>7, <3>1, <3>2, <3>3
    <3>5. QED
      BY <3>4
  <2>10. QED
    BY <2>8, <2>9
<1>7. ToSet(h[n]) = Upto(n) /\ Distinct(h[n])
  <2>1. n = 0 \/ n \in 1..n
    OBVIOUS
  <2>2. QED
    BY <1>5, <1>6, <2>1
<1>8. n \in 0..n
  OBVIOUS
<1>9. QED
  BY <1>2, <1>3, <1>7, <1>8

------------------------------------------------------------------------------
(* The graph: inputs, machines, descriptors *)

\* An input of a test: the node it is the value of, and which item of that value.
Input == [node : Nodes, item : Nat]

\* A test has inputs, each of a node.
LEMMA InputsTyped ==
  ASSUME NEW t \in Tests
  PROVE  /\ Inputs[t] \in Seq(Input) /\ Len(Inputs[t]) \in Nat \ {0}
         /\ DOMAIN Inputs[t] = 1..Len(Inputs[t])
         /\ \A i \in 1..Len(Inputs[t]) :
              Inputs[t][i].node \in Nodes /\ Inputs[t][i].item \in Nat
<1>1. Inputs[t] \in Seq(Input) /\ Inputs[t] # <<>>
  BY ExecutorAssumption DEF Input
<1>2. PICK s \in Seq(Input) : s = Inputs[t]
  BY <1>1
<1>3. Len(s) \in Nat \ {0} /\ DOMAIN s = 1..Len(s)
  BY <1>1, <1>2, LenProperties, EmptySeq
<1>4. \A i \in 1..Len(s) : s[i] \in Input
  BY ElementOfSeq
<1>5. \A i \in 1..Len(s) : s[i].node \in Nodes /\ s[i].item \in Nat
  BY <1>4 DEF Input
<1>6. QED
  BY <1>1, <1>2, <1>3, <1>5

\* A node is a source or a test, never both.
LEMMA NodesSplit == \A n \in Nodes : n \notin Sources <=> n \in Tests
BY ExecutorAssumption DEF Nodes

\* The nodes a node is built from.
Before == [n \in Nodes |->
  IF n \in Sources THEN {} ELSE {Inputs[n][i].node : i \in DOMAIN Inputs[n]}]

\* A graph without a cycle: induction along its edges.
LEMMA GraphInduction ==
  ASSUME NEW Bad \in SUBSET Nodes, Bad # {}
  PROVE  \E n \in Bad :
           \/ n \in Sources
           \/ /\ n \in Tests
              /\ \A i \in DOMAIN Inputs[n] : Inputs[n][i].node \notin Bad
<1>1. CASE Bad \cap Sources # {}
  BY <1>1
<1>2. CASE Bad \cap Sources = {}
  <2>1. Bad \in SUBSET Tests
    BY <1>2 DEF Nodes
  <2>2. \E t \in Bad : \A i \in DOMAIN Inputs[t] : Inputs[t][i].node \notin Bad
    BY <2>1, ExecutorAssumption
  <2>3. QED
    BY <2>1, <2>2
<1>3. QED
  BY <1>1, <1>2

\* The relation of a node to its inputs has no infinite descent: the graph has
\* no cycle.
LEMMA NoCycle == NoDescent(Nodes, Before)
<1>1. \A n \in Nodes : Before[n] \in SUBSET Nodes
  BY InputsTyped, NodesSplit DEF Before
<1>2. Before \in [Nodes -> SUBSET Nodes]
  BY <1>1 DEF Before
<1>3. ASSUME NEW S \in SUBSET Nodes, S # {}
      PROVE  \E n \in S : Before[n] \cap S = {}
  <2>1. PICK n \in S :
          \/ n \in Sources
          \/ n \in Tests /\ (\A i \in DOMAIN Inputs[n] : Inputs[n][i].node \notin S)
    BY <1>3, GraphInduction
  <2>2. CASE n \in Sources
    BY <2>2 DEF Before
  <2>3. CASE n \notin Sources
    <3>1. Before[n] = {Inputs[n][i].node : i \in DOMAIN Inputs[n]}
      BY <2>3 DEF Before
    <3>2. QED
      BY <2>1, <2>3, <3>1
  <2>4. QED
    BY <2>2, <2>3
<1>4. QED
  BY <1>2, <1>3 DEF NoDescent

\* The machines of a node: itself, or those of its inputs.
LEMMA MachinesUnfold ==
  /\ \A n \in Sources : Machines[n] = {n}
  /\ \A n \in Tests :
       Machines[n] = UNION {Machines[Inputs[n][i].node] : i \in DOMAIN Inputs[n]}
<1> DEFINE V == SUBSET Sources
           Body(n, f) == IF n \in Sources THEN {n}
                         ELSE UNION {f[Inputs[n][i].node] : i \in DOMAIN Inputs[n]}
           H == [n \in Nodes |-> [f \in [Nodes -> V] |-> Body(n, f)]]
           Eq(f) == f = [n \in Nodes |-> Body(n, f)]
<1>1. \A n \in Nodes : \A f \in [Nodes -> V] : H[n][f] = Body(n, f)
  OBVIOUS
<1>2. LooksBelow(Nodes, V, Before, H)
  <2>1. ASSUME NEW n \in Nodes, NEW f \in [Nodes -> V]
        PROVE  Body(n, f) \in V
    <3>1. CASE n \in Sources
      BY <3>1
    <3>2. CASE n \notin Sources
      <4>1. \A i \in DOMAIN Inputs[n] : Inputs[n][i].node \in Nodes
        BY <3>2, InputsTyped, NodesSplit
      <4>2. \A i \in DOMAIN Inputs[n] : f[Inputs[n][i].node] \subseteq Sources
        BY <4>1
      <4>3. QED
        BY <3>2, <4>2
    <3>3. QED
      BY <3>1, <3>2
  <2>2. ASSUME NEW n \in Nodes, NEW f \in [Nodes -> V], NEW g \in [Nodes -> V],
               \A m \in Before[n] : f[m] = g[m]
        PROVE  Body(n, f) = Body(n, g)
    <3>1. CASE n \in Sources
      BY <3>1
    <3>2. CASE n \notin Sources
      <4>1. \A i \in DOMAIN Inputs[n] : Inputs[n][i].node \in Before[n]
        BY <3>2 DEF Before
      <4>2. \A i \in DOMAIN Inputs[n] : f[Inputs[n][i].node] = g[Inputs[n][i].node]
        BY <2>2, <4>1
      <4>3. {f[Inputs[n][i].node] : i \in DOMAIN Inputs[n]}
              = {g[Inputs[n][i].node] : i \in DOMAIN Inputs[n]}
        BY <4>2
      <4>4. QED
        BY <3>2, <4>3
    <3>3. QED
      BY <3>1, <3>2
  <2> HIDE DEF Body
  <2>3. H \in [Nodes -> [[Nodes -> V] -> V]]
    BY <2>1
  <2>4. QED
    BY <1>1, <2>2, <2>3 DEF LooksBelow
<1> HIDE DEF H
<1>3. PICK f : Solution(Nodes, V, H, f)
  <2>1. V # {}
    OBVIOUS
  <2> HIDE DEF V
  <2>2. QED
    BY <1>2, <2>1, NoCycle, RecursionExists
<1>4. Eq(f)
  <2> HIDE DEF Body, V
  <2>1. f \in [Nodes -> V] /\ \A n \in Nodes : f[n] = Body(n, f)
    BY <1>1, <1>3 DEF Solution
  <2>2. QED
    BY <2>1
<1>5. Machines = CHOOSE g : Eq(g)
  BY DEF Machines
<1>6. Eq(Machines)
  <2> HIDE DEF Eq
  <2>1. QED
    BY <1>4, <1>5
<1>7. \A n \in Nodes : Machines[n] = Body(n, Machines)
  <2> HIDE DEF Body
  <2>1. PICK g : g = Machines
    OBVIOUS
  <2>2. g = [n \in Nodes |-> Body(n, g)]
    BY <1>6, <2>1
  <2>3. \A n \in Nodes : g[n] = Body(n, g)
    BY <2>2
  <2>4. QED
    BY <2>1, <2>3
<1>8. QED
  BY <1>7, NodesSplit DEF Nodes

\* Every node has machines, and they are sources.
LEMMA MachinesTyped ==
  \A n \in Nodes : Machines[n] \subseteq Sources /\ Machines[n] # {}
<1> DEFINE Bad == {n \in Nodes : ~(Machines[n] \subseteq Sources /\ Machines[n] # {})}
<1>1. SUFFICES ASSUME Bad # {}
               PROVE  FALSE
  OBVIOUS
<1>2. PICK n \in Bad :
        \/ n \in Sources
        \/ n \in Tests /\ (\A i \in DOMAIN Inputs[n] : Inputs[n][i].node \notin Bad)
  BY <1>1, GraphInduction
<1>3. CASE n \in Sources
  BY <1>3, MachinesUnfold
<1>4. CASE n \in Tests /\ (\A i \in DOMAIN Inputs[n] : Inputs[n][i].node \notin Bad)
  <2>1. /\ 1 \in DOMAIN Inputs[n]
        /\ \A i \in DOMAIN Inputs[n] : Inputs[n][i].node \in Nodes
    BY <1>4, InputsTyped
  <2>2. \A i \in DOMAIN Inputs[n] : /\ Machines[Inputs[n][i].node] \subseteq Sources
                                    /\ Machines[Inputs[n][i].node] # {}
    BY <1>4, <2>1
  <2>3. Machines[n] = UNION {Machines[Inputs[n][i].node] : i \in DOMAIN Inputs[n]}
    BY <1>4, MachinesUnfold
  <2>4. QED
    BY <2>1, <2>2, <2>3
<1>5. QED
  BY <1>2, <1>3, <1>4

\* The machines of a test are those of its inputs, all of them and no other.
LEMMA InputMachines ==
  ASSUME NEW t \in Tests
  PROVE  /\ \A i \in DOMAIN Inputs[t] :
              Machines[Inputs[t][i].node] \subseteq Machines[t]
         /\ \A s \in Machines[t] : \E i \in DOMAIN Inputs[t] :
              s \in Machines[Inputs[t][i].node]
BY MachinesUnfold

\* An item of a value holds guests of that value only, and some if it has any.
LEMMA ItemOf ==
  ASSUME NEW X, NEW value \in Seq(X), NEW k
  PROVE  /\ Item(value, k) \in Seq(X) /\ ToSet(Item(value, k)) \subseteq ToSet(value)
         /\ value # <<>> => Item(value, k) # <<>>
<1>1. CASE k \in DOMAIN value
  <2>1. value[k] \in X /\ value[k] \in ToSet(value)
    BY <1>1, LenProperties, ElementOfSeq DEF ToSet
  <2>2. Item(value, k) = <<value[k]>>
    BY <1>1 DEF Item
  <2>3. ToSet(<<value[k]>>) = {value[k]}
    BY DEF ToSet
  <2>4. QED
    BY <2>1, <2>2, <2>3
<1>2. CASE k \notin DOMAIN value
  BY <1>2 DEF Item
<1>3. QED
  BY <1>1, <1>2

\* The descriptor of a node: itself, or the items of its inputs in their order.
LEMMA DescriptorUnfold ==
  /\ \A n \in Sources : Descriptor[n] = <<n>>
  /\ \A n \in Tests :
       Descriptor[n] = FlattenSeq([i \in DOMAIN Inputs[n] |->
                         Item(Descriptor[Inputs[n][i].node], Inputs[n][i].item)])
<1> DEFINE V == Seq(Sources)
           Parts(n, f) == [i \in DOMAIN Inputs[n] |->
                             Item(f[Inputs[n][i].node], Inputs[n][i].item)]
           Body(n, f) == IF n \in Sources THEN <<n>> ELSE FlattenSeq(Parts(n, f))
           H == [n \in Nodes |-> [f \in [Nodes -> V] |-> Body(n, f)]]
           Eq(f) == f = [n \in Nodes |-> Body(n, f)]
<1>1. \A n \in Nodes : \A f \in [Nodes -> V] : H[n][f] = Body(n, f)
  OBVIOUS
<1>2. LooksBelow(Nodes, V, Before, H)
  <2>1. ASSUME NEW n \in Nodes, NEW f \in [Nodes -> V]
        PROVE  Body(n, f) \in V
    <3>1. CASE n \in Sources
      BY <3>1
    <3>2. CASE n \notin Sources
      <4>1. PICK m \in Nat : m = Len(Inputs[n])
        BY <3>2, InputsTyped, NodesSplit
      <4>2. /\ DOMAIN Inputs[n] = 1..m
            /\ \A i \in 1..m : Inputs[n][i].node \in Nodes
        BY <3>2, <4>1, InputsTyped, NodesSplit
      <4>3. \A i \in 1..m : f[Inputs[n][i].node] \in Seq(Sources)
        BY <4>2
      <4>4. \A i \in 1..m : Item(f[Inputs[n][i].node], Inputs[n][i].item) \in Seq(Sources)
        BY <4>3, ItemOf
      <4>5. Parts(n, f) \in Seq(Seq(Sources))
        BY <4>2, <4>4
      <4>6. PICK p \in Seq(Seq(Sources)) : p = Parts(n, f)
        BY <4>5
      <4>7. FlattenSeq(p) \in Seq(Sources)
        BY Flattened
      <4>8. QED
        BY <3>2, <4>6, <4>7
    <3>3. QED
      BY <3>1, <3>2
  <2>2. ASSUME NEW n \in Nodes, NEW f \in [Nodes -> V], NEW g \in [Nodes -> V],
               \A m \in Before[n] : f[m] = g[m]
        PROVE  Body(n, f) = Body(n, g)
    <3>1. CASE n \in Sources
      BY <3>1
    <3>2. CASE n \notin Sources
      <4>1. \A i \in DOMAIN Inputs[n] : Inputs[n][i].node \in Before[n]
        BY <3>2 DEF Before
      <4>2. \A i \in DOMAIN Inputs[n] : f[Inputs[n][i].node] = g[Inputs[n][i].node]
        BY <2>2, <4>1
      <4>3. Parts(n, f) = Parts(n, g)
        BY <4>2
      <4> HIDE DEF Parts
      <4>4. QED
        BY <3>2, <4>3
    <3>3. QED
      BY <3>1, <3>2
  <2> HIDE DEF Body
  <2>3. H \in [Nodes -> [[Nodes -> V] -> V]]
    BY <2>1
  <2>4. QED
    BY <1>1, <2>2, <2>3 DEF LooksBelow
<1> HIDE DEF H
<1>3. PICK f : Solution(Nodes, V, H, f)
  <2>1. V # {}
    BY EmptySeq
  <2> HIDE DEF V
  <2>2. QED
    BY <1>2, <2>1, NoCycle, RecursionExists
<1>4. Eq(f)
  <2> HIDE DEF Body, V
  <2>1. f \in [Nodes -> V] /\ \A n \in Nodes : f[n] = Body(n, f)
    BY <1>1, <1>3 DEF Solution
  <2>2. QED
    BY <2>1
<1>5. Descriptor = CHOOSE g : Eq(g)
  BY DEF Descriptor
<1>6. Eq(Descriptor)
  <2> HIDE DEF Eq
  <2>1. QED
    BY <1>4, <1>5
<1>7. \A n \in Nodes : Descriptor[n] = Body(n, Descriptor)
  <2> HIDE DEF Body
  <2>1. PICK g : g = Descriptor
    OBVIOUS
  <2>2. g = [n \in Nodes |-> Body(n, g)]
    BY <1>6, <2>1
  <2>3. \A n \in Nodes : g[n] = Body(n, g)
    BY <2>2
  <2>4. QED
    BY <2>1, <2>3
<1>8. QED
  BY <1>7, NodesSplit DEF Nodes

\* A checkpoint restores some machines, of those the node stands on.
LEMMA DescriptorFits ==
  \A n \in Nodes : /\ Descriptor[n] \in Seq(Sources) /\ Descriptor[n] # <<>>
                   /\ ToSet(Descriptor[n]) \subseteq Machines[n]
<1> DEFINE Fits(n) == /\ Descriptor[n] \in Seq(Sources) /\ Descriptor[n] # <<>>
                      /\ ToSet(Descriptor[n]) \subseteq Machines[n]
           Bad == {n \in Nodes : ~Fits(n)}
<1>1. SUFFICES ASSUME Bad # {}
               PROVE  FALSE
  OBVIOUS
<1>2. PICK n \in Bad :
        \/ n \in Sources
        \/ n \in Tests /\ (\A i \in DOMAIN Inputs[n] : Inputs[n][i].node \notin Bad)
  BY <1>1, GraphInduction
<1>3. CASE n \in Sources
  <2>1. Descriptor[n] = <<n>> /\ Machines[n] = {n}
    BY <1>3, DescriptorUnfold, MachinesUnfold
  <2>2. <<n>> \in Seq(Sources) /\ <<n>> # <<>> /\ ToSet(<<n>>) = {n}
    BY <1>3 DEF ToSet
  <2>3. QED
    BY <2>1, <2>2
<1>4. CASE n \in Tests /\ (\A i \in DOMAIN Inputs[n] : Inputs[n][i].node \notin Bad)
  <2> DEFINE Part(i) == Item(Descriptor[Inputs[n][i].node], Inputs[n][i].item)
             parts == [i \in DOMAIN Inputs[n] |-> Part(i)]
  <2>1. PICK m \in Nat \ {0} : m = Len(Inputs[n])
    BY <1>4, InputsTyped
  <2>2. /\ DOMAIN Inputs[n] = 1..m
        /\ \A i \in 1..m : Inputs[n][i].node \in Nodes
    BY <1>4, <2>1, InputsTyped
  <2>3. \A i \in 1..m : Fits(Inputs[n][i].node)
    BY <1>4, <2>2
  <2>4. ASSUME NEW i \in 1..m
        PROVE  /\ Part(i) \in Seq(Sources) /\ Part(i) # <<>>
               /\ ToSet(Part(i)) \subseteq Machines[Inputs[n][i].node]
    <3>1. PICK d \in Seq(Sources) : d = Descriptor[Inputs[n][i].node]
      BY <2>3
    <3>2. /\ Part(i) \in Seq(Sources) /\ Part(i) # <<>>
          /\ ToSet(Part(i)) \subseteq ToSet(d)
      BY <2>3, <3>1, ItemOf
    <3>3. QED
      BY <2>3, <3>1, <3>2
  <2> HIDE DEF Part
  <2>5. parts \in Seq(Seq(Sources)) /\ Len(parts) = m
    BY <2>2, <2>4
  <2>6. \A i \in 1..m : parts[i] = Part(i)
    BY <2>2
  <2>7. Descriptor[n] = FlattenSeq(parts)
    BY <1>4, DescriptorUnfold DEF Part
  <2> HIDE DEF parts
  <2>8. /\ FlattenSeq(parts) \in Seq(Sources)
        /\ ToSet(FlattenSeq(parts)) = UNION {ToSet(parts[i]) : i \in 1..Len(parts)}
    BY <2>5, Flattened
  <2>9. ToSet(Descriptor[n]) = UNION {ToSet(Part(i)) : i \in 1..m}
    BY <2>5, <2>6, <2>7, <2>8
  <2>10. Descriptor[n] # <<>>
    <3>1. 1 \in 1..m
      BY <2>1
    <3>2. ToSet(Part(1)) # {}
      BY <2>4, <3>1, Elements
    <3>3. ToSet(Descriptor[n]) # {}
      BY <2>9, <3>1, <3>2
    <3>4. QED
      BY <2>7, <2>8, <3>3, Elements
  <2>11. ToSet(Descriptor[n]) \subseteq Machines[n]
    <3>1. \A i \in 1..m : Machines[Inputs[n][i].node] \subseteq Machines[n]
      BY <1>4, <2>2, InputMachines
    <3>2. QED
      BY <2>4, <2>9, <3>1
  <2>12. QED
    BY <2>7, <2>8, <2>10, <2>11
<1>5. QED
  BY <1>2, <1>3, <1>4

\* Two inputs of a test on machines of their own, or of one test.
Apart(t) ==
  \A i, j \in DOMAIN Inputs[t] : i # j =>
    \/ Machines[Inputs[t][i].node] \cap Machines[Inputs[t][j].node] = {}
    \/ /\ Inputs[t][i].node = Inputs[t][j].node
       /\ Inputs[t][i].node \in Tests

\* Separate of a test is Apart of it and of the tests below.
LEMMA SeparateUnfold ==
  \A t \in Tests :
    Separate[t] <=> Apart(t) /\ \A i \in DOMAIN Inputs[t] : Separate[Inputs[t][i].node]
<1> DEFINE V == BOOLEAN
           Here(n) == \A i, j \in DOMAIN Inputs[n] : i # j =>
                        \/ Machines[Inputs[n][i].node] \cap Machines[Inputs[n][j].node] = {}
                        \/ /\ Inputs[n][i].node = Inputs[n][j].node
                           /\ Inputs[n][i].node \in Tests
           Body(n, f) == \/ n \in Sources
                         \/ /\ Here(n)
                            /\ \A i \in DOMAIN Inputs[n] : f[Inputs[n][i].node]
           H == [n \in Nodes |-> [f \in [Nodes -> V] |-> Body(n, f)]]
           Eq(f) == f = [n \in Nodes |-> Body(n, f)]
<1>1. \A n \in Nodes : \A f \in [Nodes -> V] : H[n][f] = Body(n, f)
  <2> HIDE DEF Body
  <2>1. QED
    OBVIOUS
<1>2. LooksBelow(Nodes, V, Before, H)
  <2>1. ASSUME NEW n \in Nodes, NEW f \in [Nodes -> V]
        PROVE  Body(n, f) \in V
    OBVIOUS
  <2>2. ASSUME NEW n \in Nodes, NEW f \in [Nodes -> V], NEW g \in [Nodes -> V],
               \A m \in Before[n] : f[m] = g[m]
        PROVE  Body(n, f) = Body(n, g)
    <3>1. CASE n \in Sources
      BY <3>1
    <3>2. CASE n \notin Sources
      <4>1. \A i \in DOMAIN Inputs[n] : Inputs[n][i].node \in Before[n]
        BY <3>2 DEF Before
      <4>2. \A i \in DOMAIN Inputs[n] : f[Inputs[n][i].node] = g[Inputs[n][i].node]
        BY <2>2, <4>1
      <4> HIDE DEF Here
      <4>3. Body(n, f) <=> Body(n, g)
        BY <3>2, <4>2
      <4>4. Body(n, f) \in BOOLEAN /\ Body(n, g) \in BOOLEAN
        OBVIOUS
      <4> HIDE DEF Body
      <4>5. QED
        BY <4>3, <4>4
    <3>3. QED
      BY <3>1, <3>2
  <2> HIDE DEF Body
  <2>3. H \in [Nodes -> [[Nodes -> V] -> V]]
    BY <2>1
  <2>4. QED
    BY <1>1, <2>2, <2>3 DEF LooksBelow
<1> HIDE DEF H
<1>3. PICK f : Solution(Nodes, V, H, f)
  <2>1. V # {}
    OBVIOUS
  <2> HIDE DEF V
  <2>2. QED
    BY <1>2, <2>1, NoCycle, RecursionExists
<1>4. Eq(f)
  <2> HIDE DEF Body, V
  <2>1. f \in [Nodes -> V] /\ \A n \in Nodes : f[n] = Body(n, f)
    BY <1>1, <1>3 DEF Solution
  <2>2. QED
    BY <2>1
<1>5. Separate = CHOOSE g : Eq(g)
  BY DEF Separate
<1>6. Eq(Separate)
  <2> HIDE DEF Eq
  <2>1. QED
    BY <1>4, <1>5
<1>7. \A n \in Nodes : Separate[n] = Body(n, Separate)
  <2> HIDE DEF Body
  <2>1. PICK g : g = Separate
    OBVIOUS
  <2>2. g = [n \in Nodes |-> Body(n, g)]
    BY <1>6, <2>1
  <2>3. \A n \in Nodes : g[n] = Body(n, g)
    BY <2>2
  <2>4. QED
    BY <2>1, <2>3
<1>8. ASSUME NEW t \in Tests
      PROVE  Separate[t] <=>
               Apart(t) /\ \A i \in DOMAIN Inputs[t] : Separate[Inputs[t][i].node]
  <2>1. t \in Nodes /\ t \notin Sources
    BY NodesSplit DEF Nodes
  <2>2. Here(t) <=> Apart(t)
    BY DEF Apart
  <2>3. Separate[t] = Body(t, Separate)
    BY <1>7, <2>1
  <2> HIDE DEF Here
  <2>4. QED
    BY <2>1, <2>2, <2>3
<1>9. QED
  BY <1>8

------------------------------------------------------------------------------
(* Stacks: what pushing, replacing and popping a call does to the others *)

\* A call is pushed.
LEMMA PushedCall ==
  ASSUME NEW S, NEW s \in Seq(S), NEW f
  PROVE  /\ Append(s, f) \in Seq(S \cup {f}) /\ Append(s, f) # <<>>
         /\ Len(Append(s, f)) = Len(s) + 1
         /\ \A i \in 1..Len(s) : Append(s, f)[i] = s[i]
         /\ Append(s, f)[Len(s) + 1] = f
<1>1. s \in Seq(S \cup {f})
  BY SeqMonotonic
<1>2. QED
  BY <1>1, AppendProperties

\* A call is popped.
LEMMA FrontOfStack ==
  ASSUME NEW S, NEW s \in Seq(S), s # <<>>
  PROVE  /\ Len(s) \in Nat \ {0} /\ Front(s) \in Seq(S)
         /\ Len(Front(s)) = Len(s) - 1
         /\ \A i \in 1..Len(s) - 1 : Front(s)[i] = s[i]
<1>1. Len(s) \in Nat \ {0} /\ \A i \in 1..Len(s) : s[i] \in S
  BY LenProperties, EmptySeq, ElementOfSeq
<1>2. \A i \in 1..Len(s) - 1 : s[i] \in S
  BY <1>1
<1>3. Len(s) - 1 \in Int /\ Len(s) - 1 <= Len(s) /\ Len(s) - 1 >= 0
  BY <1>1
<1>4. /\ Front(s) = [i \in 1..Len(s) - 1 |-> s[i]]
  BY <1>1, <1>3, SMTT(30) DEF Front
<1>5. Front(s) \in Seq(S) /\ Len(Front(s)) = Len(s) - 1
  BY <1>1, <1>2, <1>3, <1>4, IsASeq, LenProperties
<1>6. QED
  BY <1>1, <1>4, <1>5

\* The innermost call is replaced.
LEMMA ReplacedCall ==
  ASSUME NEW S, NEW s \in Seq(S), s # <<>>, NEW f
  PROVE  /\ Append(Front(s), f) \in Seq(S \cup {f}) /\ Append(Front(s), f) # <<>>
         /\ Len(Append(Front(s), f)) = Len(s)
         /\ \A i \in 1..Len(s) - 1 : Append(Front(s), f)[i] = s[i]
         /\ Append(Front(s), f)[Len(s)] = f
<1>1. /\ Len(s) \in Nat \ {0} /\ Front(s) \in Seq(S)
      /\ Len(Front(s)) = Len(s) - 1
      /\ \A i \in 1..Len(s) - 1 : Front(s)[i] = s[i]
  BY FrontOfStack
<1>2. Len(Front(s)) + 1 = Len(s)
  BY <1>1
<1>3. QED
  BY <1>1, <1>2, PushedCall

------------------------------------------------------------------------------
(* The inductive invariant of the locks *)

FrameFields == {"node", "at", "args", "done"}

\* The calls of a run are made for its target, of tests of the graph.
StacksTyped ==
  /\ \E S : stack \in [Runs -> Seq(S)]
  /\ \A r \in Runs : \A i \in 1..Len(stack[r]) :
       /\ DOMAIN stack[r][i] = FrameFields
       /\ stack[r][i].node \in Tests /\ stack[r][i].at \in Places
  /\ \A r \in Runs : stack[r] # <<>> => stack[r][1].node = Target[r]

SharedTyped ==
  /\ lock \in [Tests -> Runs \cup {NoRun}]
  /\ store \subseteq Tests
  /\ saves \in [Tests -> Nat]

\* LocksMatchCalls, with the indices of a stack spelt out.
HoldersCall ==
  \A t \in Tests, r \in Runs :
    lock[t] = r <=> \E i \in 1..Len(stack[r]) :
                      stack[r][i].node = t /\ stack[r][i].at # "lock"

\* The target itself is never restored, and of a test only one call of a run
\* is past the lock.
CallsDistinct ==
  \A r \in Runs : \A i \in 1..Len(stack[r]) :
    /\ stack[r][i].node = Target[r] => stack[r][i].at # "restore"
    /\ \A j \in 1..Len(stack[r]) :
         /\ stack[r][i].at # "lock" /\ stack[r][j].at # "lock"
         /\ stack[r][i].node = stack[r][j].node
         => i = j

\* Who builds a checkpoint builds one that is not there.
BuildsMissing ==
  \A r \in Runs : \A i \in 1..Len(stack[r]) :
    /\ stack[r][i].at = "save" => stack[r][i].node \notin ExpectedFailures
    /\ ~Forced /\ stack[r][i].at \in {"args", "save"}
         /\ stack[r][i].node \notin ExpectedFailures
         => stack[r][i].node \notin store

SavesStored ==
  ~Forced => \A t \in Tests : saves[t] <= 1 /\ (saves[t] = 1 => t \in store)

LockInv ==
  /\ StacksTyped /\ SharedTyped
  /\ HoldersCall /\ CallsDistinct /\ BuildsMissing /\ SavesStored

\* The inductive invariant says what LocksMatchCalls says.
LEMMA LocksByIndex == LockInv => LocksMatchCalls
<1> SUFFICES ASSUME LockInv
             PROVE  LocksMatchCalls
  OBVIOUS
<1>1. \A r \in Runs : DOMAIN stack[r] = 1..Len(stack[r])
  BY LenProperties DEF LockInv, StacksTyped
<1>2. QED
  BY <1>1 DEF LocksMatchCalls, LockInv, HoldersCall

\* The invariant of the locks holds initially.
LEMMA InitLocks == Init => LockInv
<1> SUFFICES ASSUME Init
             PROVE  LockInv
  OBVIOUS
<1> DEFINE S == {Call(Target[r]) : r \in Runs}
<1>1. \A r \in Runs : /\ stack[r] = <<Call(Target[r])>> /\ stack[r] \in Seq(S)
                      /\ Len(stack[r]) = 1 /\ stack[r][1] = Call(Target[r])
  BY DEF Init
<1> HIDE DEF S
<1>2. stack \in [Runs -> Seq(S)]
  <2>1. stack = [r \in Runs |-> stack[r]]
    BY DEF Init
  <2>2. QED
    BY <1>1, <2>1
<1>3. \A r \in Runs : \A i \in 1..Len(stack[r]) :
         /\ i = 1 /\ stack[r][i] = Call(Target[r])
         /\ DOMAIN stack[r][i] = FrameFields
         /\ stack[r][i].node = Target[r] /\ stack[r][i].at = "lock"
  <2>1. \A t : /\ DOMAIN Call(t) = FrameFields
                /\ Call(t).node = t /\ Call(t).at = "lock"
    BY DEF Call, FrameFields
  <2>2. ASSUME NEW r \in Runs, NEW i \in 1..Len(stack[r])
        PROVE  i = 1
    <3>1. Len(stack[r]) = 1
      BY <1>1
    <3>2. QED
      BY <3>1
  <2>3. ASSUME NEW r \in Runs, NEW i \in 1..Len(stack[r])
        PROVE  stack[r][i] = Call(Target[r])
    BY <1>1, <2>2
  <2>4. QED
    BY <2>1, <2>2, <2>3
<1>4. Target \in [Runs -> Tests] /\ NoRun \notin Runs
  BY ExecutorAssumption
<1>5. StacksTyped
  <2>1. \E T : stack \in [Runs -> Seq(T)]
    BY <1>2
  <2>2. ASSUME NEW r \in Runs
        PROVE  stack[r][1].node = Target[r]
    <3>1. stack[r][1] = Call(Target[r])
      BY <1>1
    <3>2. Call(Target[r]).node = Target[r]
      BY DEF Call
    <3>3. QED
      BY <3>1, <3>2
  <2>3. QED
    BY <1>3, <1>4, <2>1, <2>2 DEF StacksTyped, Places
<1>6. SharedTyped /\ SavesStored
  BY DEF Init, SharedTyped, SavesStored
<1>7. HoldersCall
  <2>1. \A t \in Tests, r \in Runs : lock[t] # r
    BY <1>4 DEF Init
  <2>2. QED
    BY <1>3, <2>1 DEF HoldersCall
<1>8. CallsDistinct /\ BuildsMissing
  BY <1>3 DEF CallsDistinct, BuildsMissing
<1>9. QED
  BY <1>5, <1>6, <1>7, <1>8 DEF LockInv

------------------------------------------------------------------------------
(* Steps that replace the innermost call by one of the same test *)

\* The innermost call of a run that has one is a call of a test.
LEMMA TopOfStack ==
  ASSUME StacksTyped, NEW r \in Runs, stack[r] # <<>>
  PROVE  /\ Len(stack[r]) \in Nat \ {0} /\ Top(r) = stack[r][Len(stack[r])]
         /\ DOMAIN Top(r) = FrameFields
         /\ Top(r).node \in Tests /\ Top(r).at \in Places
<1>1. PICK S : stack \in [Runs -> Seq(S)]
  BY DEF StacksTyped
<1>2. Len(stack[r]) \in Nat \ {0}
  BY <1>1, FrontOfStack
<1>3. Top(r) = stack[r][Len(stack[r])]
  BY DEF Top, Last
<1>4. Len(stack[r]) \in 1..Len(stack[r])
  BY <1>2
<1>5. QED
  BY <1>2, <1>3, <1>4, Zenon DEF StacksTyped

\* What Becomes does, index by index.
LEMMA BecomesStack ==
  ASSUME StacksTyped, NEW r \in Runs, stack[r] # <<>>, NEW f, Becomes(r, f),
         DOMAIN f = FrameFields, f.node = Top(r).node, f.at \in Places
  PROVE  /\ StacksTyped'
         /\ \A q \in Runs : /\ Len(stack'[q]) = Len(stack[q])
                            /\ q # r => stack'[q] = stack[q]
         /\ \A i \in 1..Len(stack[r]) - 1 : stack'[r][i] = stack[r][i]
         /\ stack'[r][Len(stack[r])] = f
<1>1. PICK S : stack \in [Runs -> Seq(S)]
  BY DEF StacksTyped
<1>2. /\ Len(stack[r]) \in Nat \ {0} /\ Top(r) = stack[r][Len(stack[r])]
      /\ Top(r).node \in Tests
  BY TopOfStack
<1>3. /\ Append(Front(stack[r]), f) \in Seq(S \cup {f})
      /\ Append(Front(stack[r]), f) # <<>>
      /\ Len(Append(Front(stack[r]), f)) = Len(stack[r])
      /\ \A i \in 1..Len(stack[r]) - 1 :
           Append(Front(stack[r]), f)[i] = stack[r][i]
      /\ Append(Front(stack[r]), f)[Len(stack[r])] = f
  <2>1. stack[r] \in Seq(S)
    BY <1>1
  <2>2. PICK s \in Seq(S) : s = stack[r]
    BY <2>1
  <2>3. s # <<>>
    BY <2>2
  <2>4. /\ Append(Front(s), f) \in Seq(S \cup {f}) /\ Append(Front(s), f) # <<>>
        /\ Len(Append(Front(s), f)) = Len(s)
        /\ \A i \in 1..Len(s) - 1 : Append(Front(s), f)[i] = s[i]
        /\ Append(Front(s), f)[Len(s)] = f
    BY <2>3, ReplacedCall, ZenonT(60)
  <2>5. QED
    BY <2>2, <2>4, Zenon
<1>4. /\ stack'[r] = Append(Front(stack[r]), f) /\ DOMAIN stack' = Runs
      /\ \A q \in Runs : q # r => stack'[q] = stack[q]
      /\ stack' = [q \in Runs |-> stack'[q]]
  BY <1>1 DEF Becomes
<1>5. \A q \in Runs : Len(stack'[q]) = Len(stack[q])
  BY <1>3, <1>4
<1>6. \A q \in Runs : stack'[q] \in Seq(S \cup {f})
  <2>1. \A q \in Runs : stack[q] \in Seq(S \cup {f})
    BY <1>1, SeqMonotonic
  <2>2. QED
    BY <1>3, <1>4, <2>1
<1>7. stack' \in [Runs -> Seq(S \cup {f})]
  BY <1>4, <1>6
<1>8. ASSUME NEW q \in Runs, NEW i \in 1..Len(stack'[q])
      PROVE  /\ DOMAIN stack'[q][i] = FrameFields
             /\ stack'[q][i].node \in Tests /\ stack'[q][i].at \in Places
  <2>1. CASE q = r /\ i = Len(stack[r])
    BY <1>2, <1>3, <1>4, <2>1
  <2>2. CASE ~(q = r /\ i = Len(stack[r]))
    <3>1. i \in 1..Len(stack[q]) /\ stack'[q][i] = stack[q][i]
      BY <1>2, <1>3, <1>4, <1>5, <2>2
    <3>2. QED
      BY <3>1 DEF StacksTyped
  <2>3. QED
    BY <2>1, <2>2
<1>9. ASSUME NEW q \in Runs, stack'[q] # <<>>
      PROVE  stack'[q][1].node = Target[q]
  <2>1. CASE q = r
    <3>1. stack[r][1].node = Target[r]
      BY DEF StacksTyped
    <3>2. CASE Len(stack[r]) = 1
      BY <1>2, <1>3, <1>4, <2>1, <3>1, <3>2
    <3>3. CASE Len(stack[r]) # 1
      <4>1. Len(stack[r]) \in Nat \ {0}
        BY <1>2
      <4>2. 1 \in 1..Len(stack[r]) - 1
        <5>1. \A n \in Nat \ {0} : n # 1 => 1 \in 1..n - 1
          OBVIOUS
        <5>2. QED
          BY <3>3, <4>1, <5>1
      <4>3. QED
        BY <1>3, <1>4, <2>1, <3>1, <4>2
    <3>4. QED
      BY <3>2, <3>3
  <2>2. CASE q # r
    BY <1>4, <1>9, <2>2 DEF StacksTyped
  <2>3. QED
    BY <2>1, <2>2
<1>10. StacksTyped'
  <2>1. \E T : stack' \in [Runs -> Seq(T)]
    BY <1>7
  <2>2. QED
    BY <1>8, <1>9, <2>1 DEF StacksTyped
<1>11. QED
  BY <1>3, <1>4, <1>5, <1>10

\* A step that leaves the test and the place of every call as they are.
LEMMA SameCalls ==
  ASSUME LockInv, StacksTyped', lock' = lock, store' = store, saves' = saves,
         \A q \in Runs : Len(stack'[q]) = Len(stack[q]),
         \A q \in Runs : \A i \in 1..Len(stack[q]) :
           stack'[q][i].node = stack[q][i].node /\ stack'[q][i].at = stack[q][i].at
  PROVE  LockInv'
<1>1. SharedTyped' /\ SavesStored'
  BY DEF LockInv, SharedTyped, SavesStored
<1>2. HoldersCall'
  BY DEF LockInv, HoldersCall
<1>3. CallsDistinct'
  BY DEF LockInv, CallsDistinct
<1>4. BuildsMissing'
  BY DEF LockInv, BuildsMissing
<1>5. QED
  BY <1>1, <1>2, <1>3, <1>4 DEF LockInv

\* A step that leaves the innermost call at its place, in any other of its
\* fields, keeps the invariant.
LEMMA ReplacedByLike ==
  ASSUME LockInv, NEW r \in Runs, stack[r] # <<>>, NEW f, Becomes(r, f),
         DOMAIN f = FrameFields, f.node = Top(r).node, f.at = Top(r).at,
         lock' = lock, store' = store, saves' = saves
  PROVE  LockInv'
<1>1. StacksTyped
  BY DEF LockInv
<1>2. /\ Len(stack[r]) \in Nat \ {0} /\ Top(r) = stack[r][Len(stack[r])]
      /\ f.at \in Places
  BY <1>1, TopOfStack
<1>3. /\ StacksTyped'
      /\ \A q \in Runs : /\ Len(stack'[q]) = Len(stack[q])
                         /\ q # r => stack'[q] = stack[q]
      /\ \A i \in 1..Len(stack[r]) - 1 : stack'[r][i] = stack[r][i]
      /\ stack'[r][Len(stack[r])] = f
  BY <1>1, <1>2, BecomesStack
<1>4. ASSUME NEW q \in Runs, NEW i \in 1..Len(stack[q])
      PROVE  /\ stack'[q][i].node = stack[q][i].node
             /\ stack'[q][i].at = stack[q][i].at
  <2>1. CASE q = r /\ i = Len(stack[r])
    BY <1>2, <1>3, <2>1
  <2>2. CASE ~(q = r /\ i = Len(stack[r]))
    <3>1. stack'[q][i] = stack[q][i]
      BY <1>2, <1>3, <2>2
    <3>2. QED
      BY <3>1
  <2>3. QED
    BY <2>1, <2>2
<1>5. QED
  BY <1>3, <1>4, SameCalls

\* Only the place of the innermost call changes.
LEMMA MovedCall ==
  ASSUME StacksTyped, NEW r \in Runs, stack[r] # <<>>, NEW f, Becomes(r, f),
         DOMAIN f = FrameFields, f.node = Top(r).node, f.at \in Places
  PROVE  /\ StacksTyped'
         /\ \A q \in Runs : Len(stack'[q]) = Len(stack[q])
         /\ \A q \in Runs : \A i \in 1..Len(stack[q]) :
              /\ stack'[q][i].node = stack[q][i].node
              /\ q # r \/ i # Len(stack[r]) => stack'[q][i].at = stack[q][i].at
         /\ stack'[r][Len(stack[r])].at = f.at
<1>1. Len(stack[r]) \in Nat \ {0} /\ Top(r) = stack[r][Len(stack[r])]
  BY TopOfStack
<1>2. /\ StacksTyped'
      /\ \A q \in Runs : /\ Len(stack'[q]) = Len(stack[q])
                         /\ q # r => stack'[q] = stack[q]
      /\ \A i \in 1..Len(stack[r]) - 1 : stack'[r][i] = stack[r][i]
      /\ stack'[r][Len(stack[r])] = f
  BY BecomesStack
<1>3. ASSUME NEW q \in Runs, NEW i \in 1..Len(stack[q])
      PROVE  /\ stack'[q][i].node = stack[q][i].node
             /\ q # r \/ i # Len(stack[r]) => stack'[q][i].at = stack[q][i].at
  <2>1. CASE q = r /\ i = Len(stack[r])
    BY <1>1, <1>2, <2>1
  <2>2. CASE ~(q = r /\ i = Len(stack[r]))
    <3>1. stack'[q][i] = stack[q][i]
      BY <1>1, <1>2, <2>2
    <3>2. QED
      BY <3>1
  <2>3. QED
    BY <2>1, <2>2
<1>4. QED
  BY <1>2, <1>3

\* Of the calls of a test past the lock, of all runs, there is one.
LEMMA OneHolder ==
  ASSUME LockInv, NEW q \in Runs, NEW r \in Runs,
         NEW i \in 1..Len(stack[q]), NEW j \in 1..Len(stack[r]),
         stack[q][i].node = stack[r][j].node,
         stack[q][i].at # "lock", stack[r][j].at # "lock"
  PROVE  q = r /\ i = j
<1>1. stack[r][j].node \in Tests
  BY DEF LockInv, StacksTyped
<1>2. lock[stack[r][j].node] = r /\ lock[stack[r][j].node] = q
  BY <1>1 DEF LockInv, HoldersCall
<1>3. QED
  BY <1>2 DEF LockInv, CallsDistinct

\* Who publishes a checkpoint is the first to: of a test past the lock it was
\* not there when the lock was taken, and nobody else has held it since.
LEMMA PublishedNew ==
  ASSUME LockInv, NEW r \in Runs, NEW n \in 1..Len(stack[r]),
         NEW t, stack[r][n].node = t, stack[r][n].at = "save",
         store' = store \cup {t}, saves' = [saves EXCEPT ![t] = @ + 1],
         lock' \in [Tests -> Runs \cup {NoRun}]
  PROVE  SharedTyped' /\ SavesStored'
<1>1. t \in Tests /\ t \notin ExpectedFailures /\ (~Forced => t \notin store)
  BY DEF LockInv, StacksTyped, BuildsMissing
<1>2. saves \in [Tests -> Nat] /\ store \subseteq Tests
  BY DEF LockInv, SharedTyped
<1>3. saves'[t] = saves[t] + 1 /\ \A u \in Tests : u # t => saves'[u] = saves[u]
  BY <1>1, <1>2
<1>4. ~Forced => saves[t] = 0
  <2>1. ~Forced => saves[t] <= 1 /\ saves[t] # 1
    BY <1>1 DEF LockInv, SavesStored
  <2>2. saves[t] \in Nat
    BY <1>1, <1>2
  <2>3. QED
    BY <2>1, <2>2
<1>5. SavesStored'
  BY <1>1, <1>3, <1>4 DEF LockInv, SavesStored
<1>6. SharedTyped'
  BY <1>1, <1>2 DEF SharedTyped
<1>7. QED
  BY <1>5, <1>6

------------------------------------------------------------------------------
(* The actions keep the invariant of the locks *)

\* Recall, SaveMachine and RestoreMachine: the holder goes on holding.
LEMMA HoldingOn ==
  ASSUME LockInv, NEW r \in Runs, Recall(r) \/ SaveMachine(r) \/ RestoreMachine(r)
  PROVE  LockInv'
<1>1. PICK f : /\ stack[r] # <<>> /\ Becomes(r, f)
               /\ lock' = lock /\ store' = store /\ saves' = saves
               /\ \/ f = Take(Top(r), values[r][NextInput(Top(r)).node])
                  \/ f = [Top(r) EXCEPT !.done = @ + 1]
  BY DEF Recall, SaveMachine, RestoreMachine, At
<1>2. DOMAIN Top(r) = FrameFields
  BY <1>1, TopOfStack DEF LockInv
<1>3. DOMAIN f = FrameFields /\ f.node = Top(r).node /\ f.at = Top(r).at
  BY <1>1, <1>2 DEF Take, FrameFields
<1>4. QED
  BY <1>1, <1>3, ReplacedByLike

\* Boot: the calls stay the same, or the innermost one goes on.
LEMMA BootHolds ==
  ASSUME LockInv, NEW r \in Runs, NEW s \in Sources, Boot(r, s)
  PROVE  LockInv'
<1>1. PICK f : /\ stack[r] # <<>> /\ Becomes(r, f)
               /\ lock' = lock /\ store' = store /\ saves' = saves
               /\ f = Take(Top(r), <<[source |-> s, stage |-> s]>>)
  BY DEF Boot, Unresolved, At
<1>2. DOMAIN Top(r) = FrameFields
  BY <1>1, TopOfStack DEF LockInv
<1>3. DOMAIN f = FrameFields /\ f.node = Top(r).node /\ f.at = Top(r).at
  BY <1>1, <1>2 DEF Take, FrameFields
<1>4. QED
  BY <1>1, <1>3, ReplacedByLike

\* BodyReturns: a body that has its arguments goes on to save, and takes no lock.
LEMMA BodyReturnsHolds ==
  ASSUME LockInv, NEW r \in Runs, BodyReturns(r)
  PROVE  LockInv'
<1> DEFINE n == Len(stack[r])
           f == [Top(r) EXCEPT !.at = "save"]
<1>1. /\ stack[r] # <<>> /\ Top(r).at = "args" /\ Becomes(r, f)
      /\ Top(r).node \notin ExpectedFailures
      /\ lock' = lock /\ store' = store /\ saves' = saves
  BY DEF BodyReturns, InBody, At
<1>2. /\ n \in Nat \ {0} /\ n \in 1..n /\ Top(r) = stack[r][n]
      /\ DOMAIN Top(r) = FrameFields
  BY <1>1, TopOfStack DEF LockInv
<1>3. DOMAIN f = FrameFields /\ f.node = Top(r).node /\ f.at = "save" /\ f.at \in Places
  BY <1>2 DEF FrameFields, Places
<1> HIDE DEF f
<1>4. /\ StacksTyped'
      /\ \A q \in Runs : Len(stack'[q]) = Len(stack[q])
      /\ \A q \in Runs : \A i \in 1..Len(stack[q]) :
           /\ stack'[q][i].node = stack[q][i].node
           /\ q # r \/ i # n => stack'[q][i].at = stack[q][i].at
      /\ stack'[r][n].at = "save"
  BY <1>1, <1>3, MovedCall DEF LockInv
<1> HIDE DEF n
<1>5. \A q \in Runs : \A i \in 1..Len(stack[q]) :
        /\ stack'[q][i].at = "lock" <=> stack[q][i].at = "lock"
        /\ stack'[q][i].at = "restore" <=> stack[q][i].at = "restore"
        /\ stack'[q][i].at \in {"args", "save"} <=> stack[q][i].at \in {"args", "save"}
        /\ stack'[q][i].at = "save" =>
             stack[q][i].at = "save" \/ stack[q][i].node \notin ExpectedFailures
  BY <1>1, <1>2, <1>4
<1>6. SharedTyped' /\ SavesStored'
  BY <1>1 DEF LockInv, SharedTyped, SavesStored
<1>7. HoldersCall'
  BY <1>1, <1>4, <1>5, SMTT(30) DEF LockInv, HoldersCall
<1>8. CallsDistinct'
  BY <1>4, <1>5, SMTT(30) DEF LockInv, CallsDistinct
<1>9. BuildsMissing'
  BY <1>1, <1>4, <1>5 DEF LockInv, BuildsMissing
<1>10. QED
  BY <1>4, <1>6, <1>7, <1>8, <1>9 DEF LockInv

\* Enter: a run takes the lock of a test nobody holds, and looks at the store
\* under it: it restores what is there and builds what is not.
LEMMA EnterHolds ==
  ASSUME LockInv, NEW r \in Runs, Enter(r)
  PROVE  LockInv'
<1> DEFINE n == Len(stack[r])
           t == Top(r).node
           f == [Top(r) EXCEPT !.at = IF Cached(t) THEN "restore" ELSE "args"]
<1>1. /\ stack[r] # <<>> /\ Top(r).at = "lock" /\ Becomes(r, f)
      /\ lock[t] = NoRun /\ lock' = [lock EXCEPT ![t] = r]
      /\ ~(t = Target[r] /\ Cached(Target[r]))
      /\ store' = store /\ saves' = saves
  BY DEF Enter, At
<1>2. /\ n \in Nat \ {0} /\ n \in 1..n /\ Top(r) = stack[r][n]
      /\ DOMAIN Top(r) = FrameFields /\ t \in Tests
  BY <1>1, TopOfStack DEF LockInv
<1>3. /\ DOMAIN f = FrameFields /\ f.node = t
      /\ f.at \in {"args", "restore"} /\ f.at \in Places
      /\ f.at = "restore" <=> Cached(t)
  BY <1>2 DEF FrameFields, Places
<1> HIDE DEF f
<1>4. /\ StacksTyped'
      /\ \A q \in Runs : Len(stack'[q]) = Len(stack[q])
      /\ \A q \in Runs : \A i \in 1..Len(stack[q]) :
           /\ stack'[q][i].node = stack[q][i].node
           /\ q # r \/ i # n => stack'[q][i].at = stack[q][i].at
      /\ stack'[r][n].at = f.at
  BY <1>1, <1>3, MovedCall DEF LockInv
<1>5. stack[r][n].node = t /\ stack[r][n].at = "lock"
  BY <1>1, <1>2
<1> HIDE DEF n, t
<1>6. \* Before the step no call of the test is past the lock.
      \A q \in Runs : \A i \in 1..Len(stack[q]) :
        stack[q][i].node = t => stack[q][i].at = "lock"
  <2>1. ASSUME NEW q \in Runs, NEW i \in 1..Len(stack[q]),
               stack[q][i].node = t, stack[q][i].at # "lock"
        PROVE  FALSE
    <3>1. lock[t] = q
      BY <1>2, <2>1 DEF LockInv, HoldersCall
    <3>2. QED
      BY <1>1, <3>1, ExecutorAssumption
  <2>2. QED
    BY <2>1
<1>7. /\ DOMAIN lock = Tests /\ lock'[t] = r
      /\ \A u \in Tests : u # t => lock'[u] = lock[u]
  BY <1>1, <1>2 DEF LockInv, SharedTyped
<1>8. SharedTyped' /\ SavesStored'
  BY <1>1 DEF LockInv, SharedTyped, SavesStored
<1>9. HoldersCall'
  <2>1. ASSUME NEW u \in Tests, NEW q \in Runs, lock'[u] = q
        PROVE  \E i \in 1..Len(stack'[q]) :
                 stack'[q][i].node = u /\ stack'[q][i].at # "lock"
    <3>1. CASE u = t
      <4>1. q = r
        BY <1>7, <2>1, <3>1
      <4>2. n \in 1..Len(stack'[r])
        BY <1>2, <1>4 DEF n
      <4>3. stack'[r][n].node = u /\ stack'[r][n].at # "lock"
        BY <1>2, <1>3, <1>4, <1>5, <3>1 DEF n
      <4>4. QED
        BY <4>1, <4>2, <4>3
    <3>2. CASE u # t
      <4>1. PICK i \in 1..Len(stack[q]) :
              stack[q][i].node = u /\ stack[q][i].at # "lock"
        BY <1>7, <2>1, <3>2 DEF LockInv, HoldersCall
      <4>2. stack'[q][i].node = u /\ stack'[q][i].at # "lock"
        BY <1>4, <1>5, <4>1
      <4>3. QED
        BY <1>4, <4>2
    <3>3. QED
      BY <3>1, <3>2
  <2>2. ASSUME NEW u \in Tests, NEW q \in Runs, NEW i \in 1..Len(stack'[q]),
               stack'[q][i].node = u, stack'[q][i].at # "lock"
        PROVE  lock'[u] = q
    <3>1. i \in 1..Len(stack[q]) /\ stack[q][i].node = u
      BY <1>4, <2>2
    <3>2. CASE q = r /\ i = n
      <4>1. u = t
        BY <1>5, <3>1, <3>2
      <4>2. QED
        BY <1>7, <3>2, <4>1
    <3>3. CASE q # r \/ i # n
      <4>1. stack[q][i].at # "lock"
        BY <1>4, <2>2, <3>1, <3>3
      <4>2. u # t
        BY <1>6, <3>1, <4>1
      <4>3. lock[u] = q
        BY <3>1, <4>1 DEF LockInv, HoldersCall
      <4>4. QED
        BY <1>7, <4>2, <4>3
    <3>4. QED
      BY <3>2, <3>3
  <2>3. QED
    BY <2>1, <2>2 DEF HoldersCall
<1>10. CallsDistinct'
  <2>1. ASSUME NEW q \in Runs, NEW i \in 1..Len(stack'[q]),
               stack'[q][i].node = Target[q]
        PROVE  stack'[q][i].at # "restore"
    <3>1. i \in 1..Len(stack[q]) /\ stack[q][i].node = Target[q]
      BY <1>4, <2>1
    <3>2. CASE q = r /\ i = n
      BY <1>1, <1>3, <1>4, <1>5, <3>1, <3>2
    <3>3. CASE q # r \/ i # n
      BY <1>4, <3>1, <3>3 DEF LockInv, CallsDistinct
    <3>4. QED
      BY <3>2, <3>3
  <2>2. ASSUME NEW q \in Runs, NEW i \in 1..Len(stack'[q]), NEW j \in 1..Len(stack'[q]),
               stack'[q][i].at # "lock", stack'[q][j].at # "lock",
               stack'[q][i].node = stack'[q][j].node
        PROVE  i = j
    <3>1. /\ i \in 1..Len(stack[q]) /\ j \in 1..Len(stack[q])
          /\ stack[q][i].node = stack[q][j].node
      BY <1>4, <2>2
    <3>2. CASE q = r /\ (i = n \/ j = n)
      <4>1. ASSUME NEW k \in 1..Len(stack[r]), k # n, stack[r][k].node = t
            PROVE  stack'[r][k].at = "lock"
        BY <1>4, <1>6, <4>1
      <4>2. QED
        BY <1>5, <2>2, <3>1, <3>2, <4>1
    <3>3. CASE q # r \/ (i # n /\ j # n)
      <4>1. stack[q][i].at # "lock" /\ stack[q][j].at # "lock"
        BY <1>4, <2>2, <3>1, <3>3
      <4>2. QED
        BY <3>1, <4>1 DEF LockInv, CallsDistinct
    <3>4. QED
      BY <3>2, <3>3
  <2>3. QED
    BY <2>1, <2>2 DEF CallsDistinct
<1>11. BuildsMissing'
  <2>1. ASSUME NEW q \in Runs, NEW i \in 1..Len(stack'[q])
        PROVE  /\ stack'[q][i].at = "save" => stack'[q][i].node \notin ExpectedFailures
               /\ ~Forced /\ stack'[q][i].at \in {"args", "save"}
                    /\ stack'[q][i].node \notin ExpectedFailures
                    => stack'[q][i].node \notin store'
    <3>1. i \in 1..Len(stack[q]) /\ stack'[q][i].node = stack[q][i].node
      BY <1>4
    <3>2. CASE q = r /\ i = n
      BY <1>1, <1>3, <1>4, <1>5, <3>1, <3>2 DEF Cached
    <3>3. CASE q # r \/ i # n
      BY <1>1, <1>4, <3>1, <3>3 DEF LockInv, BuildsMissing
    <3>4. QED
      BY <3>2, <3>3
  <2>2. QED
    BY <2>1 DEF BuildsMissing
<1>12. QED
  BY <1>4, <1>8, <1>9, <1>10, <1>11 DEF LockInv

\* The save of a checkpoint that is not the target, and the start of its restore.
LEMMA PublishHolds ==
  ASSUME LockInv, NEW r \in Runs, Publish(r)
  PROVE  LockInv'
<1> DEFINE n == Len(stack[r])
           t == Top(r).node
           f == [Top(r) EXCEPT !.at = "restore", !.done = 0]
<1>1. /\ stack[r] # <<>> /\ Top(r).at = "save" /\ Becomes(r, f)
      /\ t # Target[r] /\ lock' = lock
      /\ store' = store \cup {t} /\ saves' = [saves EXCEPT ![t] = @ + 1]
  BY DEF Publish, Saved, At
<1>2. /\ n \in Nat \ {0} /\ n \in 1..n /\ Top(r) = stack[r][n]
      /\ DOMAIN Top(r) = FrameFields /\ t \in Tests
  BY <1>1, TopOfStack DEF LockInv
<1>3. DOMAIN f = FrameFields /\ f.node = t /\ f.at = "restore" /\ f.at \in Places
  BY <1>2 DEF FrameFields, Places
<1> HIDE DEF f
<1>4. /\ StacksTyped'
      /\ \A q \in Runs : Len(stack'[q]) = Len(stack[q])
      /\ \A q \in Runs : \A i \in 1..Len(stack[q]) :
           /\ stack'[q][i].node = stack[q][i].node
           /\ q # r \/ i # n => stack'[q][i].at = stack[q][i].at
      /\ stack'[r][n].at = "restore"
  BY <1>1, <1>3, MovedCall DEF LockInv
<1>5. stack[r][n].node = t /\ stack[r][n].at = "save"
  BY <1>1, <1>2
<1> HIDE DEF n, t
<1>6. SharedTyped' /\ SavesStored'
  <2>1. lock' \in [Tests -> Runs \cup {NoRun}]
    BY <1>1 DEF LockInv, SharedTyped
  <2>2. n \in 1..Len(stack[r])
    BY <1>2 DEF n
  <2>3. QED
    BY <1>1, <1>5, <2>1, <2>2, PublishedNew
<1>7. \A q \in Runs : \A i \in 1..Len(stack[q]) :
        /\ stack'[q][i].at = "lock" <=> stack[q][i].at = "lock"
        /\ stack'[q][i].at = "restore" =>
             \/ stack[q][i].at = "restore"
             \/ q = r /\ stack[q][i].node = t
        /\ stack'[q][i].at \in {"args", "save"} =>
             /\ stack[q][i].at = stack'[q][i].at
             /\ stack[q][i].node # t
  <2>1. ASSUME NEW q \in Runs, NEW i \in 1..Len(stack[q]),
               stack'[q][i].at \in {"args", "save"}
        PROVE  stack[q][i].at = stack'[q][i].at /\ stack[q][i].node # t
    <3>1. q # r \/ i # n
      BY <1>4, <2>1
    <3>2. stack[q][i].at = stack'[q][i].at /\ stack[q][i].at # "lock"
      BY <1>4, <2>1, <3>1
    <3>3. ASSUME stack[q][i].node = t
          PROVE  FALSE
      <4>1. n \in 1..Len(stack[r]) /\ stack[r][n].at # "lock"
        BY <1>2, <1>5 DEF n
      <4>2. q = r /\ i = n
        BY <1>5, <3>2, <3>3, <4>1, OneHolder
      <4>3. QED
        BY <3>1, <4>2
    <3>4. QED
      BY <3>2, <3>3
  <2>2. QED
    BY <1>4, <1>5, <2>1
<1>8. HoldersCall'
  BY <1>1, <1>4, <1>7, SMTT(30) DEF LockInv, HoldersCall
<1>9. CallsDistinct'
  BY <1>1, <1>4, <1>7 DEF LockInv, CallsDistinct
<1>10. BuildsMissing'
  BY <1>1, <1>4, <1>7 DEF LockInv, BuildsMissing
<1>11. QED
  BY <1>4, <1>6, <1>8, <1>9, <1>10 DEF LockInv

\* A call of another test: it waits for its lock.
LEMMA DescendHolds ==
  ASSUME LockInv, NEW r \in Runs, NEW t \in Tests, Descend(r, t)
  PROVE  LockInv'
<1> DEFINE n == Len(stack[r])
<1>1. /\ stack[r] # <<>> /\ stack' = [stack EXCEPT ![r] = Append(@, Call(t))]
      /\ lock' = lock /\ store' = store /\ saves' = saves
  BY DEF Descend, Unresolved, At
<1>2. PICK S : stack \in [Runs -> Seq(S)]
  BY DEF LockInv, StacksTyped
<1>3. n \in Nat \ {0}
  BY <1>1, TopOfStack DEF LockInv
<1>4. /\ stack'[r] = Append(stack[r], Call(t)) /\ DOMAIN stack' = Runs
      /\ \A q \in Runs : q # r => stack'[q] = stack[q]
      /\ stack' = [q \in Runs |-> stack'[q]]
  BY <1>1, <1>2
<1>5. DOMAIN Call(t) = FrameFields /\ Call(t).node = t /\ Call(t).at = "lock"
  BY DEF Call, FrameFields
<1>6. PICK f : f = Call(t)
  OBVIOUS
<1>7. /\ stack'[r] \in Seq(S \cup {f}) /\ stack'[r] # <<>>
      /\ Len(stack'[r]) = n + 1 /\ stack'[r][n + 1] = f
      /\ \A i \in 1..n : stack'[r][i] = stack[r][i]
  <2>1. PICK s \in Seq(S) : s = stack[r]
    BY <1>2
  <2>2. stack'[r] = Append(s, f)
    BY <1>4, <1>6, <2>1
  <2>3. /\ Append(s, f) \in Seq(S \cup {f}) /\ Append(s, f) # <<>>
        /\ Len(Append(s, f)) = Len(s) + 1
        /\ \A i \in 1..Len(s) : Append(s, f)[i] = s[i]
        /\ Append(s, f)[Len(s) + 1] = f
    BY PushedCall, Zenon
  <2>4. QED
    BY <2>1, <2>2, <2>3, Zenon
<1> HIDE DEF n
<1>8. \A q \in Runs : \A i \in 1..Len(stack'[q]) :
        \/ i \in 1..Len(stack[q]) /\ stack'[q][i] = stack[q][i]
        \/ q = r /\ i = n + 1 /\ stack'[q][i] = f
  <2>1. ASSUME NEW i \in 1..n + 1
        PROVE  i \in 1..n \/ i = n + 1
    BY <1>3
  <2>2. QED
    BY <1>4, <1>7, <2>1 DEF n
<1>9. \A q \in Runs : \A i \in 1..Len(stack[q]) :
        i \in 1..Len(stack'[q]) /\ stack'[q][i] = stack[q][i]
  <2>1. ASSUME NEW i \in 1..n
        PROVE  i \in 1..n + 1
    BY <1>3
  <2>2. QED
    BY <1>4, <1>7, <2>1 DEF n
<1>10. StacksTyped'
  <2>1. \E T : stack' \in [Runs -> Seq(T)]
    <3>1. \A q \in Runs : stack[q] \in Seq(S \cup {f})
      BY <1>2, SeqMonotonic
    <3>2. \A q \in Runs : stack'[q] \in Seq(S \cup {f})
      BY <1>4, <1>7, <3>1
    <3>3. stack' \in [Runs -> Seq(S \cup {f})]
      BY <1>4, <3>2
    <3>4. QED
      BY <3>3
  <2>2. \A q \in Runs : \A i \in 1..Len(stack'[q]) :
          /\ DOMAIN stack'[q][i] = FrameFields
          /\ stack'[q][i].node \in Tests /\ stack'[q][i].at \in Places
    BY <1>5, <1>6, <1>8 DEF LockInv, StacksTyped, Places
  <2>3. ASSUME NEW q \in Runs, stack'[q] # <<>>
        PROVE  stack'[q][1].node = Target[q]
    <3>1. CASE q = r
      <4>1. 1 \in 1..n
        BY <1>3
      <4>2. stack'[q][1] = stack[q][1]
        BY <1>7, <3>1, <4>1
      <4>3. QED
        BY <1>1, <3>1, <4>2 DEF LockInv, StacksTyped
    <3>2. CASE q # r
      BY <1>4, <2>3, <3>2 DEF LockInv, StacksTyped
    <3>3. QED
      BY <3>1, <3>2
  <2>4. QED
    BY <2>1, <2>2, <2>3 DEF StacksTyped
<1>11. SharedTyped' /\ SavesStored'
  BY <1>1 DEF LockInv, SharedTyped, SavesStored
<1>12. HoldersCall'
  BY <1>1, <1>5, <1>6, <1>8, <1>9 DEF LockInv, HoldersCall
<1>13. CallsDistinct'
  BY <1>5, <1>6, <1>8, SMTT(30) DEF LockInv, CallsDistinct
<1>14. BuildsMissing'
  BY <1>1, <1>5, <1>6, <1>8 DEF LockInv, BuildsMissing
<1>15. QED
  BY <1>10, <1>11, <1>12, <1>13, <1>14 DEF LockInv

\* A run that ends, in whatever way, lets go of every lock it has.
LEMMA LeaveHolds ==
  ASSUME LockInv, NEW r \in Runs, NEW how, Leave(r, how),
         SharedTyped', SavesStored',
         \A q \in Runs : q # r => \A i \in 1..Len(stack[q]) :
           stack[q][i].at \in {"args", "save"} /\ stack[q][i].node \notin store
           => stack[q][i].node \notin store'
  PROVE  LockInv'
<1>1. /\ stack' = [stack EXCEPT ![r] = <<>>]
      /\ lock' = [t \in Tests |-> IF lock[t] = r THEN NoRun ELSE lock[t]]
  BY DEF Leave, LetGo
<1>2. PICK S : stack \in [Runs -> Seq(S)]
  BY DEF LockInv, StacksTyped
<1>3. /\ stack'[r] = <<>> /\ \A q \in Runs : q # r => stack'[q] = stack[q]
      /\ stack' \in [Runs -> Seq(S)] /\ Len(stack'[r]) = 0
  BY <1>1, <1>2
<1>4. \A q \in Runs : \A i \in 1..Len(stack'[q]) : q # r
  <2>1. ~ \E i : i \in 1..0
    OBVIOUS
  <2>2. QED
    BY <1>3, <2>1
<1>5. StacksTyped'
  <2>1. \E T : stack' \in [Runs -> Seq(T)]
    BY <1>3
  <2>2. QED
    BY <1>3, <1>4, <2>1, ZenonT(30) DEF LockInv, StacksTyped
<1>6. HoldersCall'
  <2>1. ASSUME NEW t \in Tests, NEW q \in Runs
        PROVE  lock'[t] = q <=> \E i \in 1..Len(stack'[q]) :
                                  stack'[q][i].node = t /\ stack'[q][i].at # "lock"
    <3>1. lock'[t] = IF lock[t] = r THEN NoRun ELSE lock[t]
      BY <1>1
    <3>2. CASE q = r
      BY <1>4, <3>1, <3>2, ExecutorAssumption
    <3>3. CASE q # r
      <4>1. lock'[t] = q <=> lock[t] = q
        BY <3>1, <3>3, ExecutorAssumption
      <4>2. QED
        BY <1>3, <3>3, <4>1, SMTT(30) DEF LockInv, HoldersCall
    <3>4. QED
      BY <3>2, <3>3
  <2>2. QED
    BY <2>1 DEF HoldersCall
<1>7. CallsDistinct'
  BY <1>3, <1>4 DEF LockInv, CallsDistinct
<1>8. BuildsMissing'
  BY <1>3, <1>4 DEF LockInv, BuildsMissing
<1>9. QED
  BY <1>5, <1>6, <1>7, <1>8 DEF LockInv

\* The ends of a run other than by publishing its target.
LEMMA EarlyEnds ==
  ASSUME LockInv, NEW r \in Runs,
         HitTarget(r) \/ Collide(r) \/ Fail(r) \/ Cancel(r)
  PROVE  LockInv'
<1>1. PICK how : Leave(r, how) /\ store' = store /\ saves' = saves
  BY DEF HitTarget, Collide, Fail, Cancel
<1>2. lock' \in [Tests -> Runs \cup {NoRun}]
  <2>1. lock' = [t \in Tests |-> IF lock[t] = r THEN NoRun ELSE lock[t]]
    BY <1>1 DEF Leave, LetGo
  <2>2. QED
    BY <2>1 DEF LockInv, SharedTyped
<1>3. SharedTyped' /\ SavesStored'
  BY <1>1, <1>2 DEF LockInv, SharedTyped, SavesStored
<1>4. QED
  BY <1>1, <1>3, LeaveHolds

\* PublishTarget: the outermost call is published and its lock released.
LEMMA PublishTargetHolds ==
  ASSUME LockInv, NEW r \in Runs, PublishTarget(r)
  PROVE  LockInv'
<1> DEFINE n == Len(stack[r])
           t == Top(r).node
<1>1. /\ stack[r] # <<>> /\ Top(r).at = "save" /\ Leave(r, "pass")
      /\ store' = store \cup {t} /\ saves' = [saves EXCEPT ![t] = @ + 1]
  BY DEF PublishTarget, Saved, At
<1>2. n \in 1..n /\ stack[r][n].node = t /\ stack[r][n].at = "save"
  BY <1>1, TopOfStack DEF LockInv
<1>3. lock' \in [Tests -> Runs \cup {NoRun}]
  <2>1. lock' = [u \in Tests |-> IF lock[u] = r THEN NoRun ELSE lock[u]]
    BY <1>1 DEF Leave, LetGo
  <2>2. QED
    BY <2>1 DEF LockInv, SharedTyped
<1> HIDE DEF t
<1>4. SharedTyped' /\ SavesStored'
  BY <1>1, <1>2, <1>3, PublishedNew
<1>5. ASSUME NEW q \in Runs, q # r, NEW i \in 1..Len(stack[q]),
             stack[q][i].at \in {"args", "save"}, stack[q][i].node \notin store
      PROVE  stack[q][i].node \notin store'
  <2>1. stack[q][i].at # "lock" /\ stack[r][n].at # "lock"
    BY <1>2, <1>5
  <2>2. stack[q][i].node # t
    BY <1>2, <1>5, <2>1, OneHolder
  <2>3. QED
    BY <1>1, <1>5, <2>2
<1>6. QED
  BY <1>1, <1>4, <1>5, LeaveHolds

\* The end of a restore: the call returns to the one that made it.
LEMMA RestoredHolds ==
  ASSUME LockInv, NEW r \in Runs, Restored(r)
  PROVE  LockInv'
<1> DEFINE n == Len(stack[r])
           t == Top(r).node
           calls == Front(stack[r])
<1>1. PICK value :
        /\ stack[r] # <<>> /\ Top(r).at = "restore"
        /\ stack' = [stack EXCEPT ![r] = Append(Front(calls), Take(Last(calls), value))]
        /\ lock' = [lock EXCEPT ![t] = NoRun] /\ store' = store /\ saves' = saves
  BY DEF Restored, At
<1>2. /\ n \in Nat \ {0} /\ n \in 1..n /\ stack[r][n].node = t
      /\ stack[r][n].at = "restore" /\ t \in Tests
  BY <1>1, TopOfStack DEF LockInv
<1>3. PICK S : stack \in [Runs -> Seq(S)]
  BY DEF LockInv, StacksTyped
<1>4. PICK s \in Seq(S) : s = stack[r]
  BY <1>3
<1>5. n - 1 \in Nat \ {0}
  <2>1. n # 1
    <3>1. ASSUME n = 1
          PROVE  FALSE
      <4>1. stack[r][n].node = Target[r]
        BY <1>1, <3>1 DEF LockInv, StacksTyped
      <4>2. QED
        BY <1>2, <4>1 DEF LockInv, CallsDistinct
    <3>2. QED
      BY <3>1
  <2>2. \A m \in Nat \ {0} : m # 1 => m - 1 \in Nat \ {0}
    OBVIOUS
  <2>3. QED
    BY <1>2, <2>1, <2>2
<1>6. PICK c : c = Front(s)
  OBVIOUS
<1>7. /\ c \in Seq(S) /\ c # <<>> /\ Len(c) = n - 1
      /\ \A i \in 1..n - 1 : c[i] = stack[r][i]
  <2>1. /\ Front(s) \in Seq(S) /\ Len(Front(s)) = Len(s) - 1
        /\ \A i \in 1..Len(s) - 1 : Front(s)[i] = s[i]
    BY <1>1, <1>4, FrontOfStack
  <2>2. /\ c \in Seq(S) /\ Len(c) = n - 1
        /\ \A i \in 1..n - 1 : c[i] = stack[r][i]
    BY <1>4, <1>6, <2>1
  <2>3. c # <<>>
    BY <1>5, <2>2
  <2>4. QED
    BY <2>2, <2>3
<1>8. PICK f : f = Take(Last(c), value)
  OBVIOUS
<1>9. stack' = [stack EXCEPT ![r] = Append(Front(c), f)]
  BY <1>1, <1>4, <1>6, <1>8
<1> HIDE DEF n, t, calls
<1>10. /\ Last(c) = stack[r][n - 1] /\ n - 1 \in 1..n - 1 /\ n - 1 \in 1..n
  BY <1>2, <1>5, <1>7 DEF Last
<1>11. /\ DOMAIN f = FrameFields
       /\ f.node = stack[r][n - 1].node /\ f.at = stack[r][n - 1].at
  <2>1. DOMAIN stack[r][n - 1] = FrameFields
    BY <1>10 DEF LockInv, StacksTyped, n
  <2>2. QED
    BY <1>8, <1>10, <2>1 DEF Take, FrameFields
<1>12. /\ stack'[r] \in Seq(S \cup {f}) /\ stack'[r] # <<>>
       /\ Len(stack'[r]) = n - 1 /\ stack'[r][n - 1] = f
       /\ \A i \in 1..(n - 1) - 1 : stack'[r][i] = c[i]
  <2>1. /\ Append(Front(c), f) \in Seq(S \cup {f}) /\ Append(Front(c), f) # <<>>
        /\ Len(Append(Front(c), f)) = Len(c)
        /\ \A i \in 1..Len(c) - 1 : Append(Front(c), f)[i] = c[i]
        /\ Append(Front(c), f)[Len(c)] = f
    BY <1>7, ReplacedCall, ZenonT(30)
  <2>2. stack'[r] = Append(Front(c), f)
    BY <1>3, <1>9
  <2>3. QED
    BY <1>7, <2>1, <2>2, Zenon
<1>13. /\ \A q \in Runs : q # r => stack'[q] = stack[q]
       /\ stack' = [q \in Runs |-> stack'[q]]
  BY <1>3, <1>9
<1>14. \* Every call but the one that returned is where it was.
       \A q \in Runs : \A i \in 1..Len(stack'[q]) :
         /\ i \in 1..Len(stack[q]) /\ (q = r => i # n)
         /\ stack'[q][i].node = stack[q][i].node
         /\ stack'[q][i].at = stack[q][i].at
         /\ DOMAIN stack'[q][i] = FrameFields
  <2>1. ASSUME NEW q \in Runs, NEW i \in 1..Len(stack'[q]), q = r
        PROVE  /\ i \in 1..Len(stack[q]) /\ i # n
               /\ stack'[q][i].node = stack[q][i].node
               /\ stack'[q][i].at = stack[q][i].at
               /\ DOMAIN stack'[q][i] = FrameFields
    <3>1. i \in 1..n - 1
      BY <1>12, <2>1
    <3>2. \A m \in Nat : \A j \in 1..m - 1 :
            j \in 1..m /\ j # m /\ (j # m - 1 => j \in 1..(m - 1) - 1)
      OBVIOUS
    <3>3. i \in 1..n /\ i # n /\ (i # n - 1 => i \in 1..(n - 1) - 1)
      BY <1>2, <3>1, <3>2
    <3>4. CASE i = n - 1
      BY <1>11, <1>12, <2>1, <3>3, <3>4 DEF n
    <3>5. CASE i # n - 1
      <4>1. stack'[q][i] = stack[q][i]
        BY <1>7, <1>12, <2>1, <3>1, <3>3, <3>5
      <4>2. QED
        BY <2>1, <3>3, <4>1 DEF n, LockInv, StacksTyped
    <3>6. QED
      BY <3>4, <3>5
  <2>2. ASSUME NEW q \in Runs, NEW i \in 1..Len(stack'[q]), q # r
        PROVE  /\ i \in 1..Len(stack[q])
               /\ stack'[q][i].node = stack[q][i].node
               /\ stack'[q][i].at = stack[q][i].at
               /\ DOMAIN stack'[q][i] = FrameFields
    BY <1>13, <2>2 DEF LockInv, StacksTyped
  <2>3. QED
    BY <2>1, <2>2
<1>15. \A q \in Runs : \A i \in 1..Len(stack[q]) :
         q # r \/ i # n => i \in 1..Len(stack'[q])
  <2>1. \A m \in Nat : \A j \in 1..m : j # m => j \in 1..m - 1
    OBVIOUS
  <2>2. QED
    BY <1>2, <1>12, <1>13, <2>1 DEF n
<1>16. StacksTyped'
  <2>1. \E T : stack' \in [Runs -> Seq(T)]
    <3>1. \A q \in Runs : stack[q] \in Seq(S \cup {f})
      BY <1>3, SeqMonotonic
    <3>2. \A q \in Runs : stack'[q] \in Seq(S \cup {f})
      BY <1>12, <1>13, <3>1
    <3>3. stack' \in [Runs -> Seq(S \cup {f})]
      BY <1>13, <3>2
    <3>4. QED
      BY <3>3
  <2>2. \A q \in Runs : \A i \in 1..Len(stack'[q]) :
          /\ DOMAIN stack'[q][i] = FrameFields
          /\ stack'[q][i].node \in Tests /\ stack'[q][i].at \in Places
    BY <1>14, ZenonT(30) DEF LockInv, StacksTyped
  <2>3. ASSUME NEW q \in Runs, stack'[q] # <<>>
        PROVE  stack'[q][1].node = Target[q]
    <3>1. CASE q = r
      <4>1. 1 \in 1..Len(stack'[q])
        BY <1>5, <1>12, <3>1
      <4>2. stack'[q][1].node = stack[q][1].node
        BY <1>14, <4>1
      <4>3. QED
        BY <1>1, <3>1, <4>2 DEF LockInv, StacksTyped
    <3>2. CASE q # r
      BY <1>13, <2>3, <3>2 DEF LockInv, StacksTyped
    <3>3. QED
      BY <3>1, <3>2
  <2>4. QED
    BY <2>1, <2>2, <2>3 DEF StacksTyped
<1>17. SharedTyped' /\ SavesStored'
  BY <1>1, <1>2 DEF LockInv, SharedTyped, SavesStored
<1>18. CallsDistinct'
  BY <1>14, SMTT(30) DEF LockInv, CallsDistinct
<1>19. BuildsMissing'
  BY <1>1, <1>14 DEF LockInv, BuildsMissing
<1>20. HoldersCall'
  <2>1. \A u \in Tests : lock'[u] = IF u = t THEN NoRun ELSE lock[u]
    BY <1>1, <1>2 DEF LockInv, SharedTyped
  <2>2. ASSUME NEW u \in Tests, NEW q \in Runs, lock'[u] = q
        PROVE  \E i \in 1..Len(stack'[q]) :
                 stack'[q][i].node = u /\ stack'[q][i].at # "lock"
    <3>1. u # t /\ lock[u] = q
      BY <2>1, <2>2, ExecutorAssumption
    <3>2. PICK i \in 1..Len(stack[q]) :
            stack[q][i].node = u /\ stack[q][i].at # "lock"
      BY <3>1 DEF LockInv, HoldersCall
    <3>3. q # r \/ i # n
      BY <1>2, <3>1, <3>2
    <3>4. i \in 1..Len(stack'[q])
      BY <1>15, <3>3
    <3>5. QED
      BY <1>14, <3>2, <3>4
  <2>3. ASSUME NEW u \in Tests, NEW q \in Runs, NEW i \in 1..Len(stack'[q]),
               stack'[q][i].node = u, stack'[q][i].at # "lock"
        PROVE  lock'[u] = q
    <3>1. /\ i \in 1..Len(stack[q]) /\ (q = r => i # n)
          /\ stack[q][i].node = u /\ stack[q][i].at # "lock"
      BY <1>14, <2>3
    <3>2. ASSUME u = t
          PROVE  FALSE
      <4>1. n \in 1..Len(stack[r]) /\ stack[r][n].at # "lock"
        BY <1>2 DEF n
      <4>2. q = r /\ i = n
        BY <1>2, <3>1, <3>2, <4>1, OneHolder
      <4>3. QED
        BY <3>1, <4>2
    <3>3. lock[u] = q
      BY <3>1 DEF LockInv, HoldersCall
    <3>4. QED
      BY <2>1, <3>2, <3>3
  <2>4. QED
    BY <2>2, <2>3 DEF HoldersCall
<1>21. QED
  BY <1>16, <1>17, <1>18, <1>19, <1>20 DEF LockInv

------------------------------------------------------------------------------
(* What the locks guarantee *)

\* Every step keeps the invariant of the locks.
LEMMA NextHolds == LockInv /\ [Next]_vars => LockInv'
<1> SUFFICES ASSUME LockInv, [Next]_vars
             PROVE  LockInv'
  OBVIOUS
<1>1. ASSUME stack' = stack, lock' = lock, store' = store, saves' = saves
      PROVE  LockInv'
  <2>1. StacksTyped' /\ SharedTyped'
    BY <1>1 DEF LockInv, StacksTyped, SharedTyped
  <2>2. HoldersCall'
    BY <1>1 DEF LockInv, HoldersCall
  <2>3. CallsDistinct'
    BY <1>1 DEF LockInv, CallsDistinct
  <2>4. BuildsMissing'
    BY <1>1 DEF LockInv, BuildsMissing
  <2>5. SavesStored'
    BY <1>1 DEF LockInv, SavesStored
  <2>6. QED
    BY <2>1, <2>2, <2>3, <2>4, <2>5 DEF LockInv
<1>2. CASE UNCHANGED vars
  BY <1>1, <1>2 DEF vars
<1>3. CASE StopAllInstances
  BY <1>1, <1>3 DEF StopAllInstances
<1>4. ASSUME NEW r \in Runs, Step(r)
      PROVE  LockInv'
  <2>1. CASE HitTarget(r)
    BY <2>1, EarlyEnds
  <2>2. CASE Enter(r)
    BY <2>2, EnterHolds
  <2>3. CASE Recall(r)
    BY <2>3, HoldingOn
  <2>4. CASE \E t \in Tests : Descend(r, t)
    BY <2>4, DescendHolds
  <2>5. CASE \E s \in Sources : Boot(r, s)
    BY <2>5, BootHolds
  <2>6. CASE BodyReturns(r)
    BY <2>6, BodyReturnsHolds
  <2>7. CASE SaveMachine(r)
    BY <2>7, HoldingOn
  <2>8. CASE Publish(r)
    BY <2>8, PublishHolds
  <2>9. CASE PublishTarget(r)
    BY <2>9, PublishTargetHolds
  <2>10. CASE RestoreMachine(r)
    BY <2>10, HoldingOn
  <2>11. CASE Restored(r)
    BY <2>11, RestoredHolds
  <2>12. CASE Collide(r)
    BY <2>12, EarlyEnds
  <2>13. CASE Dispose(r)
    BY <1>1, <2>13 DEF Dispose
  <2>14. CASE End(r)
    BY <1>1, <2>14 DEF End
  <2>15. QED
    BY <1>4, <2>1, <2>2, <2>3, <2>4, <2>5, <2>6, <2>7, <2>8, <2>9, <2>10,
       <2>11, <2>12, <2>13, <2>14 DEF Step
<1>5. ASSUME NEW r \in Runs, DisposeRaises(r)
      PROVE  LockInv'
  BY <1>1, <1>5 DEF DisposeRaises
<1>6. ASSUME NEW r \in Runs, Fail(r) \/ Cancel(r)
      PROVE  LockInv'
  BY <1>6, EarlyEnds
<1>7. QED
  BY <1>2, <1>3, <1>4, <1>5, <1>6 DEF Next

\* The invariant of the locks holds throughout.
LEMMA LocksInvariant == Spec => []LockInv
BY InitLocks, NextHolds, PTL DEF Spec

\* A run holds the lock of a test exactly while it saves or restores its
\* checkpoint, for any graph and any number of runs: not two at the same time,
\* and none after its end, however it ended.
THEOREM LocksMatch == Spec => []LocksMatchCalls
BY LocksInvariant, LocksByIndex, PTL

\* Concurrent runs that need one checkpoint build it once: the second finds it
\* on disk when it gets the lock.  The key is the lock with what is known of
\* the store under it (BuildsMissing), which no run but the holder changes.
THEOREM BuiltOnce == Spec => []PublishedOnce
<1>1. LockInv => PublishedOnce
  BY DEF LockInv, SavesStored, PublishedOnce
<1>2. QED
  BY <1>1, LocksInvariant, PTL

------------------------------------------------------------------------------
(* What a run knows: its calls S, its memo v and the guests R it owns *)

\* The node the k-th argument of a call is the value of.
From(f, k) == Inputs[f.node][k].node

\* The inputs a call has resolved, and the machines that are its business.
Taken(f) == {From(f, k) : k \in 1..Len(f.args)}
Covered(f) ==
  IF f.at = "restore" THEN Machines[f.node] ELSE UNION {Machines[n] : n \in Taken(f)}

\* A call has at most its arguments, each on the machines of its input.
FrameOK(f) ==
  /\ Len(f.args) <= Len(Inputs[f.node])
  /\ \A k \in 1..Len(f.args) : \A g \in ToSet(f.args[k]) :
       g.source \in Machines[From(f, k)]
  /\ f.at = "lock" => f.args = <<>> /\ f.done = 0
  /\ f.at = "save" => Len(f.args) = Len(Inputs[f.node])

\* Every call but the innermost waits for the next input, which is the next call.
Chain(S) ==
  /\ \A i \in 1..Len(S) - 1 :
       /\ S[i].at = "args" /\ Len(S[i].args) < Len(Inputs[S[i].node])
       /\ S[i + 1].node = From(S[i], Len(S[i].args) + 1)
  /\ \A i, j \in 1..Len(S) : i < j => Machines[S[j].node] \subseteq Machines[S[i].node]

\* No pending test is resolved; what a call has taken is.
Pending(S, v) ==
  \A i \in 1..Len(S) :
    /\ v[S[i].node] = <<>>
    /\ S[i].at = "args" => \A n \in Taken(S[i]) : v[n] # <<>>

\* The memo has for a node guests on its machines.
Placed(v) == \A n \in Nodes : \A g \in ToSet(v[n]) : g.source \in Machines[n]

\* Every guest known is on a machine some call has to do with.
Known(v, R) == ToSet(R) \cup UNION {ToSet(v[n]) : n \in Nodes}
CoverOK(S, v, R) ==
  \A g \in Known(v, R) : \E i \in 1..Len(S) : g.source \in Covered(S[i])

\* The machines restored so far.
RestoredOK(S, R) ==
  \A i \in 1..Len(S) : S[i].at = "restore" =>
    \A j \in 1..Len(Restoring(S[i])) : j <= S[i].done =>
      [source |-> Restoring(S[i])[j], stage |-> S[i].node] \in ToSet(R)

\* What a run knows in any graph.
Good(S, v, R) ==
  /\ \A i \in 1..Len(S) : FrameOK(S[i])
  /\ Chain(S) /\ Pending(S, v) /\ Placed(v) /\ CoverOK(S, v, R) /\ RestoredOK(S, R)

\* When no two inputs share a machine: what a call has taken is running, in the
\* state of the input.
LiveFrame(f, v, R) ==
  \A k \in 1..Len(f.args) : \A g \in ToSet(v[From(f, k)]) \cup ToSet(f.args[k]) :
    g \in ToSet(R) /\ g.stage = From(f, k)

Live(S, v, R) ==
  \A i \in 1..Len(S) : S[i].at = "args" => LiveFrame(S[i], v, R)

\* What it knows besides, when no two inputs of its target share a machine.
GoodSep(S, v, R) == (\A i \in 1..Len(S) : Separate[S[i].node]) /\ Live(S, v, R)

\* The memo of a run: no value, or the guests a node was resolved to.
Memo == [Nodes -> Seq(Guest)]

\* The fields of a call.
LEMMA FrameTyped ==
  ASSUME NEW f \in Frame
  PROVE  /\ f.node \in Tests /\ f.node \in Nodes /\ f.at \in Places /\ f.done \in Nat
         /\ f.args \in Seq(Seq(Guest)) /\ Len(f.args) \in Nat
         /\ \A k \in 1..Len(f.args) : f.args[k] \in Seq(Guest)
<1>1. /\ f.node \in Tests /\ f.at \in Places /\ f.done \in Nat
      /\ f.args \in Seq(Seq(Guest))
  BY DEF Frame
<1>2. PICK a \in Seq(Seq(Guest)) : a = f.args
  BY <1>1
<1>3. Len(a) \in Nat /\ \A k \in 1..Len(a) : a[k] \in Seq(Guest)
  BY LenProperties, ElementOfSeq
<1>4. QED
  BY <1>1, <1>2, <1>3 DEF Nodes

\* What a waiting call has taken has no machine in common with the calls inside.
LEMMA TakenApart ==
  ASSUME NEW S \in Seq(Frame), NEW v, Chain(S), Pending(S, v),
         NEW i \in 1..Len(S) - 1, Separate[S[i].node],
         NEW k \in 1..Len(S[i].args)
  PROVE  Machines[From(S[i], k)] \cap Machines[S[i + 1].node] = {}
<1>1. PICK m \in Nat : m = Len(S)
  BY LenProperties
<1>2. i \in 1..m /\ i + 1 \in 1..m /\ i \in 1..m - 1
  BY <1>1
<1>3. PICK f \in Frame : f = S[i]
  BY <1>1, <1>2, ElementOfSeq
<1>4. f.node \in Tests /\ Len(f.args) \in Nat
  BY FrameTyped
<1>5. PICK a \in Nat : a = Len(f.args)
  BY <1>4
<1>6. /\ f.at = "args" /\ a < Len(Inputs[f.node]) /\ S[i + 1].node = From(f, a + 1)
      /\ v[S[i + 1].node] = <<>>
  BY <1>1, <1>2, <1>3, <1>5 DEF Chain, Pending
<1>7. Len(Inputs[f.node]) \in Nat /\ DOMAIN Inputs[f.node] = 1..Len(Inputs[f.node])
  BY <1>4, InputsTyped
<1>8. k \in DOMAIN Inputs[f.node] /\ a + 1 \in DOMAIN Inputs[f.node] /\ k # a + 1
  BY <1>3, <1>5, <1>6, <1>7
<1>9. v[From(f, k)] # <<>>
  BY <1>1, <1>2, <1>3, <1>6 DEF Pending, Taken
<1>10. From(f, k) # From(f, a + 1)
  BY <1>6, <1>9
<1>11. Apart(f.node)
  BY <1>3, <1>4, SeparateUnfold
<1>12. Machines[From(f, k)] \cap Machines[From(f, a + 1)] = {}
  BY <1>8, <1>10, <1>11 DEF Apart, From
<1>13. QED
  BY <1>3, <1>6, <1>12

\* The innermost call becomes f, of the same test.
TopBecomes(S, T, f) ==
  /\ Len(T) = Len(S) /\ \A i \in 1..Len(S) - 1 : T[i] = S[i]
  /\ T[Len(S)] = f /\ f.node = S[Len(S)].node

\* The calls of a run by their indices: the innermost and those that wait.
LEMMA TopIndices ==
  ASSUME NEW S \in Seq(Frame), S # <<>>
  PROVE  /\ Len(S) \in Nat \ {0} /\ Len(S) \in 1..Len(S)
         /\ \A i \in 1..Len(S) : S[i] \in Frame
         /\ \A i \in 1..Len(S) : i = Len(S) \/ i \in 1..Len(S) - 1
         /\ \A i \in 1..Len(S) - 1 : i \in 1..Len(S) /\ i + 1 \in 1..Len(S)
         /\ \A i \in 1..Len(S) - 1 : i < i + 1 /\ i < Len(S)
                                     /\ (i + 1 < Len(S) \/ i + 1 = Len(S))
<1>1. PICK n \in Nat \ {0} : n = Len(S)
  BY EmptySeq
<1>2. \A i \in 1..n : S[i] \in Frame
  BY <1>1, ElementOfSeq
<1>3. /\ n \in 1..n /\ \A i \in 1..n : i = n \/ i \in 1..n - 1
      /\ \A i \in 1..n - 1 : i \in 1..n /\ i + 1 \in 1..n
      /\ \A i \in 1..n - 1 : i < i + 1 /\ i < n /\ (i + 1 < n \/ i + 1 = n)
  OBVIOUS
<1>4. QED
  BY <1>1, <1>2, <1>3

\* The chain of calls looks at the innermost call by its test only.
LEMMA TopChain ==
  ASSUME NEW S \in Seq(Frame), S # <<>>, NEW T, NEW f, TopBecomes(S, T, f), Chain(S)
  PROVE  Chain(T)
<1>1. PICK n \in Nat \ {0} : n = Len(S)
  BY TopIndices
<1>2. /\ \A i \in 1..n - 1 : i \in 1..n /\ i + 1 \in 1..n
      /\ \A i \in 1..n : i = n \/ i \in 1..n - 1
  BY <1>1, TopIndices
<1>3. Len(T) = n /\ (\A i \in 1..n - 1 : T[i] = S[i]) /\ T[n].node = S[n].node
  BY <1>1 DEF TopBecomes
<1>4. \A i \in 1..n : T[i].node = S[i].node
  BY <1>2, <1>3
<1>5. /\ \A i \in 1..n - 1 : /\ S[i].at = "args" /\ Len(S[i].args) < Len(Inputs[S[i].node])
                             /\ S[i + 1].node = From(S[i], Len(S[i].args) + 1)
      /\ \A i, j \in 1..n : i < j => Machines[S[j].node] \subseteq Machines[S[i].node]
  BY <1>1 DEF Chain
<1>6. \A i \in 1..n - 1 : /\ T[i].at = "args" /\ Len(T[i].args) < Len(Inputs[T[i].node])
                          /\ T[i + 1].node = From(T[i], Len(T[i].args) + 1)
  BY <1>2, <1>3, <1>4, <1>5
<1>7. \A i, j \in 1..n : i < j => Machines[T[j].node] \subseteq Machines[T[i].node]
  BY <1>4, <1>5
<1>8. QED
  BY <1>3, <1>6, <1>7 DEF Chain

\* The machines inside a waiting call.
LEMMA InnerMachines ==
  ASSUME NEW S \in Seq(Frame), S # <<>>, Chain(S), NEW i \in 1..Len(S) - 1
  PROVE  Machines[S[Len(S)].node] \subseteq Machines[S[i + 1].node]
<1>1. PICK n \in Nat \ {0} : n = Len(S)
  BY TopIndices
<1>2. n \in 1..n /\ i + 1 \in 1..n /\ (i + 1 < n \/ i + 1 = n)
  BY <1>1, TopIndices
<1>3. CASE i + 1 < n
  BY <1>1, <1>2, <1>3 DEF Chain
<1>4. CASE i + 1 = n
  BY <1>1, <1>4
<1>5. QED
  BY <1>2, <1>3, <1>4

\* A step of the innermost call f0, which becomes f: the guests change on its own
\* machines only.
Moves(f0, f, v, R, Q) ==
  /\ FrameOK(f) /\ Covered(f0) \subseteq Covered(f)
  /\ f.at = "args" => \A n \in Taken(f) : v[n] # <<>>
  /\ \A g \in ToSet(Q) : g \in ToSet(R) \/ g.source \in Covered(f)
  /\ f.at = "restore" => \A j \in 1..Len(Restoring(f)) : j <= f.done =>
       [source |-> Restoring(f)[j], stage |-> f.node] \in ToSet(Q)

\* A step of the innermost call that leaves the memo alone keeps Good.
LEMMA StepGood ==
  ASSUME NEW S \in Seq(Frame), S # <<>>, NEW T, NEW f, TopBecomes(S, T, f),
         NEW v \in Memo, NEW R, NEW Q, Good(S, v, R), Moves(S[Len(S)], f, v, R, Q)
  PROVE  Good(T, v, Q)
<1>a. /\ FrameOK(f) /\ Covered(S[Len(S)]) \subseteq Covered(f)
      /\ f.at = "args" => \A n \in Taken(f) : v[n] # <<>>
      /\ \A g \in ToSet(Q) : g \in ToSet(R) \/ g.source \in Covered(f)
      /\ f.at = "restore" => \A j \in 1..Len(Restoring(f)) : j <= f.done =>
           [source |-> Restoring(f)[j], stage |-> f.node] \in ToSet(Q)
  BY DEF Moves
<1>1. PICK n \in Nat \ {0} : n = Len(S)
  BY TopIndices
<1>2. n \in 1..n /\ \A i \in 1..n : i = n \/ i \in 1..n - 1
  BY <1>1, TopIndices
<1>3. /\ Len(T) = n /\ (\A i \in 1..n - 1 : T[i] = S[i]) /\ T[n] = f
      /\ f.node = S[n].node
  BY <1>1 DEF TopBecomes
<1>4. Chain(T)
  BY TopChain DEF Good
<1>5. \A i \in 1..Len(T) : FrameOK(T[i])
  BY <1>a, <1>1, <1>2, <1>3 DEF Good
<1>6. Pending(T, v)
  <2>1. \A i \in 1..n : /\ v[S[i].node] = <<>>
                        /\ S[i].at = "args" => \A m \in Taken(S[i]) : v[m] # <<>>
    BY <1>1 DEF Good, Pending
  <2>2. \A i \in 1..n : /\ v[T[i].node] = <<>>
                        /\ T[i].at = "args" => \A m \in Taken(T[i]) : v[m] # <<>>
    <3>1. ASSUME NEW i \in 1..n
          PROVE  /\ v[T[i].node] = <<>>
                 /\ T[i].at = "args" => \A m \in Taken(T[i]) : v[m] # <<>>
      <4>1. CASE i = n
        BY <1>a, <1>3, <2>1, <4>1
      <4>2. CASE i # n
        <5>1. T[i] = S[i]
          BY <1>2, <1>3, <4>2
        <5>2. QED
          BY <2>1, <5>1
      <4>3. QED
        BY <4>1, <4>2
    <3>2. QED
      BY <3>1
  <2>3. QED
    BY <1>3, <2>2 DEF Pending
<1>7. CoverOK(T, v, Q)
  <2>1. \A i \in 1..n : Covered(S[i]) \subseteq Covered(T[i])
    BY <1>a, <1>1, <1>2, <1>3
  <2>2. \A g \in Known(v, R) : \E i \in 1..n : g.source \in Covered(S[i])
    BY <1>1 DEF Good, CoverOK
  <2>3. ASSUME NEW g \in Known(v, Q)
        PROVE  \E i \in 1..n : g.source \in Covered(T[i])
    <3>1. CASE g \in Known(v, R)
      BY <2>1, <2>2, <3>1
    <3>2. CASE g \notin Known(v, R)
      <4>1. g \in ToSet(Q) /\ g \notin ToSet(R)
        BY <3>2 DEF Known
      <4>2. QED
        BY <1>a, <1>2, <1>3, <4>1
    <3>3. QED
      BY <3>1, <3>2
  <2>4. QED
    BY <1>3, <2>3 DEF CoverOK
<1>8. RestoredOK(T, Q)
  <2>1. \A i \in 1..n - 1 : T[i].at # "restore"
    BY <1>1, <1>3 DEF Good, Chain
  <2>2. QED
    BY <1>a, <1>2, <1>3, <2>1 DEF RestoredOK
<1>9. QED
  BY <1>4, <1>5, <1>6, <1>7, <1>8 DEF Good

\* The guests of other machines go on running.
MovesSep(f, v, R, Q) ==
  /\ f.at = "args" => LiveFrame(f, v, Q)
  /\ \A g \in ToSet(R) : g \in ToSet(Q) \/ g.source \in Machines[f.node]

\* The same for GoodSep.
LEMMA StepGoodSep ==
  ASSUME NEW S \in Seq(Frame), S # <<>>, NEW T, NEW f, TopBecomes(S, T, f),
         NEW v \in Memo, NEW R, NEW Q, Good(S, v, R), GoodSep(S, v, R),
         MovesSep(f, v, R, Q)
  PROVE  GoodSep(T, v, Q)
<1>a. /\ f.at = "args" => LiveFrame(f, v, Q)
      /\ \A g \in ToSet(R) : g \in ToSet(Q) \/ g.source \in Machines[f.node]
  BY DEF MovesSep
<1>1. PICK n \in Nat \ {0} : n = Len(S)
  BY TopIndices
<1>2. /\ n \in 1..n /\ \A i \in 1..n : i = n \/ i \in 1..n - 1
      /\ \A i \in 1..n - 1 : i \in 1..n
  BY <1>1, TopIndices
<1>3. /\ Len(T) = n /\ (\A i \in 1..n - 1 : T[i] = S[i]) /\ T[n] = f
      /\ f.node = S[n].node
  BY <1>1 DEF TopBecomes
<1>4. \A i \in 1..n : Separate[T[i].node]
  BY <1>a, <1>1, <1>2, <1>3 DEF GoodSep
<1>5. ASSUME NEW i \in 1..n - 1
      PROVE  LiveFrame(S[i], v, Q)
  <2>1. i \in 1..n /\ S[i] \in Frame
    BY <1>1, <1>2, TopIndices
  <2>2. LiveFrame(S[i], v, R) /\ FrameOK(S[i])
    BY <1>1, <2>1 DEF GoodSep, Live, Good, Chain
  <2>3. ASSUME NEW k \in 1..Len(S[i].args),
               NEW g \in ToSet(v[From(S[i], k)]) \cup ToSet(S[i].args[k])
        PROVE  g \in ToSet(Q) /\ g.stage = From(S[i], k)
    <3>1. g \in ToSet(R) /\ g.stage = From(S[i], k)
      BY <2>2 DEF LiveFrame
    <3>2. From(S[i], k) \in Nodes
      <4>1. /\ S[i].node \in Tests /\ Len(S[i].args) \in Nat
            /\ Len(S[i].args) <= Len(Inputs[S[i].node])
        BY <2>1, <2>2, FrameTyped DEF FrameOK
      <4>2. k \in 1..Len(Inputs[S[i].node])
        BY <4>1, InputsTyped
      <4>3. QED
        BY <4>1, <4>2, InputsTyped DEF From
    <3>3. g.source \in Machines[From(S[i], k)]
      BY <2>2, <3>2 DEF FrameOK, Good, Placed
    <3>4. Machines[From(S[i], k)] \cap Machines[S[i + 1].node] = {}
      BY <1>1, <2>1, TakenApart DEF GoodSep, Good
    <3>5. Machines[f.node] \subseteq Machines[S[i + 1].node]
      BY <1>1, <1>3, InnerMachines DEF Good
    <3>6. QED
      BY <1>a, <3>1, <3>3, <3>4, <3>5
  <2>4. QED
    BY <2>3 DEF LiveFrame
<1>6. Live(T, v, Q)
  <2>1. \A i \in 1..n : T[i].at = "args" => LiveFrame(T[i], v, Q)
    BY <1>a, <1>2, <1>3, <1>5
  <2>2. QED
    BY <1>3, <2>1 DEF Live
<1>7. QED
  BY <1>3, <1>4, <1>6 DEF GoodSep

\* A call of the next input is pushed.
Pushed(S, T, f) ==
  /\ Len(T) = Len(S) + 1 /\ \A i \in 1..Len(S) : T[i] = S[i]
  /\ T[Len(S) + 1] = f

\* A call waits for its next input.
Waits(f) == f.at = "args" /\ Len(f.args) < Len(Inputs[f.node])

\* The next input of a waiting call.
LEMMA NextNode ==
  ASSUME NEW f \in Frame, Waits(f)
  PROVE  /\ Len(f.args) + 1 \in DOMAIN Inputs[f.node]
         /\ From(f, Len(f.args) + 1) = NextInput(f).node
         /\ NextInput(f).node \in Nodes
         /\ Machines[NextInput(f).node] \subseteq Machines[f.node]
<1>1. f.node \in Tests /\ Len(f.args) \in Nat /\ Len(f.args) < Len(Inputs[f.node])
  BY FrameTyped DEF Waits
<1>2. /\ Len(Inputs[f.node]) \in Nat /\ DOMAIN Inputs[f.node] = 1..Len(Inputs[f.node])
      /\ \A i \in 1..Len(Inputs[f.node]) : Inputs[f.node][i].node \in Nodes
  BY <1>1, InputsTyped
<1>3. Len(f.args) + 1 \in DOMAIN Inputs[f.node]
  BY <1>1, <1>2
<1>4. QED
  BY <1>1, <1>2, <1>3, InputMachines DEF From, NextInput

\* Descend: the next input is a test without a value, its call is pushed.
LEMMA PushGood ==
  ASSUME NEW S \in Seq(Frame), S # <<>>, NEW T, Waits(S[Len(S)]),
         NEW t, t = NextInput(S[Len(S)]).node, Pushed(S, T, Call(t)),
         NEW v \in Memo, v[t] = <<>>, NEW R, Good(S, v, R)
  PROVE  Good(T, v, R)
<1>1. PICK n \in Nat \ {0} : n = Len(S)
  BY TopIndices
<1>2. /\ n \in 1..n /\ \A i \in 1..n + 1 : i = n + 1 \/ i \in 1..n
      /\ \A i \in 1..n : i \in 1..n + 1 /\ ~ (n + 1 < i) /\ (i = n \/ i < n)
      /\ \A i \in 1..n : i = n \/ i \in 1..n - 1
      /\ (n + 1) - 1 = n /\ \A i \in 1..n - 1 : i + 1 \in 1..n /\ i \in 1..n
      /\ ~ (n + 1 < n + 1)
  OBVIOUS
<1>3. Len(T) = n + 1 /\ (\A i \in 1..n : T[i] = S[i]) /\ T[n + 1] = Call(t)
  BY <1>1 DEF Pushed
<1>4. Call(t).node = t /\ Call(t).at = "lock" /\ Call(t).args = <<>> /\ Call(t).done = 0
  BY DEF Call
<1>5. /\ S[n] \in Frame /\ Machines[t] \subseteq Machines[S[n].node]
      /\ t = From(S[n], Len(S[n].args) + 1)
      /\ S[n].at = "args" /\ Len(S[n].args) < Len(Inputs[S[n].node])
  <2>1. S[n] \in Frame
    BY <1>1, TopIndices
  <2>2. QED
    BY <1>1, <2>1, NextNode DEF Waits
<1>6. \A i \in 1..n + 1 : FrameOK(T[i])
  <2>1. FrameOK(Call(t))
    <3>1. Len(<<>>) = 0 /\ 1..0 = {}
      OBVIOUS
    <3>3. 0 <= Len(Inputs[t])
      BY InputsTyped
    <3>4. QED
      BY <1>4, <3>1, <3>3 DEF FrameOK
  <2>2. QED
    BY <1>1, <1>2, <1>3, <2>1 DEF Good
<1>7. Chain(T)
  <2>1. /\ \A i \in 1..n - 1 : /\ S[i].at = "args" /\ Len(S[i].args) < Len(Inputs[S[i].node])
                               /\ S[i + 1].node = From(S[i], Len(S[i].args) + 1)
        /\ \A i, j \in 1..n : i < j => Machines[S[j].node] \subseteq Machines[S[i].node]
    BY <1>1 DEF Good, Chain
  <2>2. ASSUME NEW i \in 1..n
        PROVE  /\ T[i].at = "args" /\ Len(T[i].args) < Len(Inputs[T[i].node])
               /\ T[i + 1].node = From(T[i], Len(T[i].args) + 1)
    <3>1. CASE i = n
      BY <1>2, <1>3, <1>4, <1>5, <3>1
    <3>2. CASE i # n
      <4>1. i \in 1..n - 1 /\ i + 1 \in 1..n
        BY <1>2, <3>2
      <4>2. T[i] = S[i] /\ T[i + 1] = S[i + 1]
        BY <1>3, <4>1
      <4>3. QED
        BY <2>1, <4>1, <4>2
    <3>3. QED
      BY <3>1, <3>2
  <2>3. ASSUME NEW i \in 1..n
        PROVE  Machines[t] \subseteq Machines[S[i].node]
    <3>1. CASE i = n
      BY <1>5, <3>1
    <3>2. CASE i # n
      BY <1>2, <1>5, <2>1, <3>2
    <3>3. QED
      BY <3>1, <3>2
  <2>4. ASSUME NEW i \in 1..n + 1, NEW j \in 1..n + 1, i < j
        PROVE  Machines[T[j].node] \subseteq Machines[T[i].node]
    <3>1. i \in 1..n /\ T[i] = S[i]
      BY <1>2, <1>3, <2>4
    <3>2. CASE j = n + 1
      BY <1>3, <1>4, <2>3, <3>1, <3>2
    <3>3. CASE j # n + 1
      BY <1>2, <1>3, <2>1, <2>4, <3>1, <3>3
    <3>4. QED
      BY <3>2, <3>3
  <2>5. QED
    BY <1>2, <1>3, <2>2, <2>4 DEF Chain
<1>8. Pending(T, v)
  <2>1. \A i \in 1..n : /\ v[S[i].node] = <<>>
                        /\ S[i].at = "args" => \A m \in Taken(S[i]) : v[m] # <<>>
    BY <1>1 DEF Good, Pending
  <2>2. ASSUME NEW i \in 1..n + 1
        PROVE  /\ v[T[i].node] = <<>>
               /\ T[i].at = "args" => \A m \in Taken(T[i]) : v[m] # <<>>
    <3>1. CASE i = n + 1
      BY <1>3, <1>4, <3>1
    <3>2. CASE i # n + 1
      <4>1. i \in 1..n /\ T[i] = S[i]
        BY <1>2, <1>3, <3>2
      <4>2. QED
        BY <2>1, <4>1
    <3>3. QED
      BY <3>1, <3>2
  <2>3. QED
    BY <1>3, <2>2 DEF Pending
<1>9. CoverOK(T, v, R)
  <2>1. \A g \in Known(v, R) : \E i \in 1..n : g.source \in Covered(S[i])
    BY <1>1 DEF Good, CoverOK
  <2>2. \A g \in Known(v, R) : \E i \in 1..n + 1 : g.source \in Covered(T[i])
    BY <1>2, <1>3, <2>1
  <2>3. QED
    BY <1>3, <2>2 DEF CoverOK
<1>10. RestoredOK(T, R)
  <2>1. T[n + 1].at # "restore"
    BY <1>3, <1>4
  <2>2. QED
    BY <1>1, <1>2, <1>3, <2>1 DEF Good, RestoredOK
<1>11. QED
  BY <1>3, <1>6, <1>7, <1>8, <1>9, <1>10 DEF Good

\* The same for GoodSep.
LEMMA PushGoodSep ==
  ASSUME NEW S \in Seq(Frame), S # <<>>, NEW T, Waits(S[Len(S)]),
         NEW t, t = NextInput(S[Len(S)]).node, Pushed(S, T, Call(t)), t \in Tests,
         NEW v, NEW R, GoodSep(S, v, R)
  PROVE  GoodSep(T, v, R)
<1>1. PICK n \in Nat \ {0} : n = Len(S)
  BY TopIndices
<1>2. n \in 1..n /\ \A i \in 1..n + 1 : i = n + 1 \/ i \in 1..n
  OBVIOUS
<1>3. Len(T) = n + 1 /\ (\A i \in 1..n : T[i] = S[i]) /\ T[n + 1] = Call(t)
  BY <1>1 DEF Pushed
<1>4. Call(t).node = t /\ Call(t).at = "lock"
  BY DEF Call
<1>5. Separate[t]
  <2>1. S[n] \in Frame /\ S[n].node \in Tests /\ Separate[S[n].node]
    BY <1>1, <1>2, TopIndices, FrameTyped DEF GoodSep
  <2>2. t = From(S[n], Len(S[n].args) + 1) /\ Len(S[n].args) + 1 \in DOMAIN Inputs[S[n].node]
    BY <1>1, <2>1, NextNode
  <2>3. QED
    BY <2>1, <2>2, SeparateUnfold DEF From
<1>6. \A i \in 1..n + 1 : Separate[T[i].node]
  BY <1>1, <1>2, <1>3, <1>4, <1>5 DEF GoodSep
<1>7. \A i \in 1..n + 1 : T[i].at = "args" => LiveFrame(T[i], v, R)
  BY <1>1, <1>2, <1>3, <1>4 DEF GoodSep, Live
<1>8. QED
  BY <1>3, <1>6, <1>7 DEF GoodSep, Live

\* A call takes the value w of its next input.
LEMMA TakeFrame ==
  ASSUME NEW f \in Frame, Waits(f), FrameOK(f), NEW x, x = NextInput(f).node,
         NEW w \in Seq(Guest), \A g \in ToSet(w) : g.source \in Machines[x],
         NEW h, h = Take(f, w)
  PROVE  /\ h \in Frame /\ h.node = f.node /\ h.at = "args" /\ FrameOK(h)
         /\ Len(h.args) = Len(f.args) + 1 /\ From(h, Len(f.args) + 1) = x
         /\ \A k \in 1..Len(f.args) : h.args[k] = f.args[k] /\ From(h, k) = From(f, k)
         /\ ToSet(h.args[Len(f.args) + 1]) \subseteq ToSet(w)
         /\ Taken(h) = Taken(f) \cup {x} /\ Covered(h) = Covered(f) \cup Machines[x]
<1>1. /\ f.node \in Tests /\ f.args \in Seq(Seq(Guest)) /\ f.done \in Nat
      /\ f.at = "args" /\ Len(f.args) < Len(Inputs[f.node])
  BY FrameTyped DEF Waits
<1>2. PICK n \in Nat : n = Len(f.args)
  BY FrameTyped
<1>3. PICK e \in Seq(Guest) : e = Item(w, NextInput(f).item)
  BY ItemOf
<1>4. ToSet(e) \subseteq ToSet(w)
  BY <1>3, ItemOf
<1>5. PICK a \in Seq(Seq(Guest)) : a = f.args
  BY <1>1
<1>6. /\ Append(a, e) \in Seq(Seq(Guest)) /\ Len(Append(a, e)) = Len(a) + 1
      /\ \A i \in 1..Len(a) : Append(a, e)[i] = a[i]
      /\ Append(a, e)[Len(a) + 1] = e
  BY AppendProperties
<1>7. h = [f EXCEPT !.args = Append(a, e)]
  BY <1>3, <1>5 DEF Take
<1>8. /\ h \in Frame /\ h.node = f.node /\ h.at = "args" /\ h.done = f.done
      /\ h.args = Append(a, e)
  <2>1. PICK b \in Seq(Seq(Guest)) : b = Append(a, e)
    BY <1>6
  <2>2. h = [f EXCEPT !.args = b]
    BY <1>7, <2>1
  <2>3. h \in Frame /\ h.node = f.node /\ h.at = f.at /\ h.done = f.done /\ h.args = b
    BY <2>2 DEF Frame
  <2>4. QED
    BY <1>1, <2>1, <2>3
<1>9. /\ Len(h.args) = n + 1 /\ (\A k \in 1..n : h.args[k] = f.args[k])
      /\ h.args[n + 1] = e
  BY <1>2, <1>5, <1>6, <1>8
<1>10. /\ From(h, n + 1) = x /\ From(f, n + 1) = x
       /\ \A k : From(h, k) = From(f, k)
  BY <1>2, <1>8, NextNode DEF From
<1>11. \A k \in 1..n + 1 : k = n + 1 \/ k \in 1..n
  OBVIOUS
<1>12. n + 1 \in 1..n + 1 /\ \A k \in 1..n : k \in 1..n + 1
  OBVIOUS
<1>13. Taken(h) = Taken(f) \cup {x}
  <2>1. Taken(h) = {From(f, k) : k \in 1..n + 1} /\ Taken(f) = {From(f, k) : k \in 1..n}
    BY <1>2, <1>9, <1>10 DEF Taken
  <2>2. QED
    BY <1>10, <1>11, <1>12, <2>1
<1>14. Covered(h) = Covered(f) \cup Machines[x]
  BY <1>1, <1>8, <1>13 DEF Covered
<1>15. FrameOK(h)
  <2>1. n + 1 <= Len(Inputs[f.node])
    BY <1>1, <1>2, InputsTyped
  <2>2. \A k \in 1..n + 1 : \A g \in ToSet(h.args[k]) : g.source \in Machines[From(h, k)]
    <3>1. ASSUME NEW k \in 1..n + 1, NEW g \in ToSet(h.args[k])
          PROVE  g.source \in Machines[From(h, k)]
      <4>1. CASE k = n + 1
        BY <1>4, <1>9, <1>10, <4>1
      <4>2. CASE k # n + 1
        BY <1>2, <1>9, <1>10, <1>11, <4>2 DEF FrameOK
      <4>3. QED
        BY <4>1, <4>2
    <3>2. QED
      BY <3>1
  <2>3. QED
    BY <1>8, <1>9, <2>1, <2>2 DEF FrameOK
<1>16. QED
  BY <1>2, <1>4, <1>8, <1>9, <1>10, <1>13, <1>14, <1>15

\* The innermost of the calls S waits for its next input x.
Ready(S, v, x) ==
  /\ Chain(S) /\ Pending(S, v) /\ \A i \in 1..Len(S) : FrameOK(S[i])
  /\ Waits(S[Len(S)]) /\ x = NextInput(S[Len(S)]).node

\* What a call has taken has no machine in common with the next input of the
\* innermost call, unless that call has taken this very test.
LEMMA NextApart ==
  ASSUME NEW S \in Seq(Frame), S # <<>>, NEW v, NEW x, Ready(S, v, x),
         NEW i \in 1..Len(S), Separate[S[i].node], NEW k \in 1..Len(S[i].args)
  PROVE  \/ Machines[From(S[i], k)] \cap Machines[x] = {}
         \/ i = Len(S) /\ From(S[i], k) = x /\ x \in Tests
<1>0. /\ Chain(S) /\ Pending(S, v) /\ \A j \in 1..Len(S) : FrameOK(S[j])
      /\ Waits(S[Len(S)]) /\ x = NextInput(S[Len(S)]).node
  BY DEF Ready
<1>1. PICK n \in Nat \ {0} : n = Len(S)
  BY TopIndices
<1>2. S[i] \in Frame /\ S[n] \in Frame /\ (i = n \/ i \in 1..n - 1)
  BY <1>1, TopIndices
<1>3. Machines[x] \subseteq Machines[S[n].node]
  BY <1>0, <1>1, <1>2, NextNode
<1>4. CASE i \in 1..n - 1
  <2>1. Machines[From(S[i], k)] \cap Machines[S[i + 1].node] = {}
    BY <1>0, <1>1, <1>4, TakenApart
  <2>2. Machines[S[n].node] \subseteq Machines[S[i + 1].node]
    BY <1>0, <1>1, <1>4, InnerMachines
  <2>3. QED
    BY <1>3, <2>1, <2>2
<1>5. CASE i = n
  <2>1. PICK f \in Frame : f = S[n]
    BY <1>2
  <2>2. /\ f.node \in Tests /\ Len(f.args) \in Nat
        /\ DOMAIN Inputs[f.node] = 1..Len(Inputs[f.node])
        /\ Len(Inputs[f.node]) \in Nat
        /\ Len(f.args) < Len(Inputs[f.node])
    BY <1>0, <1>1, <2>1, FrameTyped, InputsTyped DEF Waits
  <2>3. PICK a \in Nat : a = Len(f.args)
    BY <2>2
  <2>4. k \in DOMAIN Inputs[f.node] /\ a + 1 \in DOMAIN Inputs[f.node] /\ k # a + 1
    BY <1>5, <2>1, <2>2, <2>3
  <2>5. x = From(f, a + 1)
    BY <1>0, <1>1, <2>1, <2>3, NextNode
  <2>6. Apart(f.node)
    BY <1>5, <2>1, <2>2, SeparateUnfold
  <2>7. \/ Machines[From(f, k)] \cap Machines[From(f, a + 1)] = {}
        \/ From(f, k) = From(f, a + 1) /\ From(f, k) \in Tests
    BY <2>4, <2>6 DEF Apart, From
  <2>8. QED
    BY <1>1, <1>5, <2>1, <2>5, <2>7
<1>6. QED
  BY <1>2, <1>4, <1>5

\* The innermost call takes the value of its next input x from the memo w.
Takes(S, T, x, w) ==
  TopBecomes(S, T, Take(S[Len(S)], w[x]))

\* x gets a value in the memo, and nothing else does.
Resolves(S, v, x, w, Q) ==
  /\ \A i \in 1..Len(S) : S[i].node # x
  /\ Placed(w) /\ w[x] # <<>>
  /\ \A n \in Nodes : n # x => (w[n] = <<>> <=> v[n] = <<>>)
  /\ \A g \in Known(w, Q) : \/ g.source \in Machines[x]
                            \/ \E i \in 1..Len(S) : g.source \in Covered(S[i])

\* Recall, Boot and the end of a restore: the innermost call takes the value of
\* its next input, which the memo has now.
LEMMA TakeGood ==
  ASSUME NEW S \in Seq(Frame), S # <<>>, NEW v, NEW x, Ready(S, v, x),
         NEW w \in Memo, NEW Q, NEW T, Takes(S, T, x, w), Resolves(S, v, x, w, Q)
  PROVE  Good(T, w, Q)
<1> DEFINE h == Take(S[Len(S)], w[x])
<1>a. /\ Chain(S) /\ Pending(S, v) /\ \A j \in 1..Len(S) : FrameOK(S[j])
      /\ Waits(S[Len(S)]) /\ x = NextInput(S[Len(S)]).node
  BY DEF Ready
<1>b. TopBecomes(S, T, h)
  BY DEF Takes
<1>c. /\ \A i \in 1..Len(S) : S[i].node # x
      /\ Placed(w) /\ w[x] # <<>>
      /\ \A n \in Nodes : n # x => (w[n] = <<>> <=> v[n] = <<>>)
      /\ \A g \in Known(w, Q) : \/ g.source \in Machines[x]
                                \/ \E i \in 1..Len(S) : g.source \in Covered(S[i])
  BY DEF Resolves
<1>d. h = Take(S[Len(S)], w[x])
  OBVIOUS
<1> HIDE DEF h
<1>1. PICK n \in Nat \ {0} : n = Len(S)
  BY TopIndices
<1>2. /\ n \in 1..n /\ \A i \in 1..n : i = n \/ i \in 1..n - 1
      /\ \A i \in 1..n - 1 : i \in 1..n
  BY <1>1, TopIndices
<1>3. /\ Len(T) = n /\ (\A i \in 1..n - 1 : T[i] = S[i]) /\ T[n] = h
      /\ h.node = S[n].node
  BY <1>b, <1>1 DEF TopBecomes
<1>4. PICK f \in Frame : f = S[n]
  BY <1>1, TopIndices
<1>5. x \in Nodes /\ Waits(f) /\ FrameOK(f) /\ w[x] \in Seq(Guest)
      /\ \A g \in ToSet(w[x]) : g.source \in Machines[x]
  <2>1. x \in Nodes /\ Waits(f) /\ FrameOK(f)
    BY <1>a, <1>1, <1>2, <1>4, NextNode
  <2>2. QED
    BY <1>c, <2>1 DEF Memo, Placed
<1>6. PICK c \in Seq(Guest) : c = w[x]
  BY <1>5
<1>7. /\ h \in Frame /\ h.at = "args" /\ FrameOK(h)
      /\ Taken(h) = Taken(f) \cup {x} /\ Covered(h) = Covered(f) \cup Machines[x]
  BY <1>a, <1>d, <1>1, <1>4, <1>5, <1>6, TakeFrame
<1>8. Chain(T)
  BY <1>a, <1>b, TopChain
<1>9. \A i \in 1..n : FrameOK(T[i])
  BY <1>a, <1>1, <1>2, <1>3, <1>7
<1>10. ASSUME NEW i \in 1..n
       PROVE  T[i].at = "args" /\ Taken(T[i]) \subseteq Taken(S[i]) \cup {x}
              /\ T[i].node = S[i].node /\ S[i].at = "args"
              /\ Covered(S[i]) \subseteq Covered(T[i])
  <2>1. CASE i = n
    BY <1>3, <1>4, <1>5, <1>7, <2>1 DEF Waits
  <2>2. CASE i # n
    <3>1. i \in 1..n - 1
      BY <1>2, <2>2
    <3>2. T[i] = S[i] /\ S[i].at = "args"
      BY <1>a, <1>1, <1>3, <3>1 DEF Chain
    <3>3. QED
      BY <3>2
  <2>3. QED
    BY <2>1, <2>2
<1>11. Pending(T, w)
  <2>1. ASSUME NEW i \in 1..n
        PROVE  w[T[i].node] = <<>> /\ \A m \in Taken(T[i]) : w[m] # <<>>
    <3>1. S[i] \in Frame /\ S[i].node \in Nodes /\ S[i].node # x
      BY <1>c, <1>1, TopIndices, FrameTyped
    <3>2. v[S[i].node] = <<>> /\ \A m \in Taken(S[i]) : v[m] # <<>>
      BY <1>a, <1>1, <1>10 DEF Pending
    <3>3. w[T[i].node] = <<>>
      BY <1>c, <1>10, <3>1, <3>2
    <3>4. \A m \in Taken(S[i]) : m \in Nodes
      <4>1. /\ S[i].node \in Tests /\ Len(S[i].args) \in Nat
            /\ Len(S[i].args) <= Len(Inputs[S[i].node])
        BY <1>a, <1>1, <3>1, FrameTyped DEF FrameOK
      <4>2. \A k \in 1..Len(S[i].args) : k \in 1..Len(Inputs[S[i].node])
        BY <4>1, InputsTyped
      <4>3. QED
        BY <4>1, <4>2, InputsTyped DEF Taken, From
    <3>5. \A m \in Taken(T[i]) : w[m] # <<>>
      BY <1>c, <1>10, <3>2, <3>4
    <3>6. QED
      BY <3>3, <3>5
  <2>2. QED
    BY <1>3, <2>1 DEF Pending
<1>12. CoverOK(T, w, Q)
  <2>1. ASSUME NEW g \in Known(w, Q)
        PROVE  \E i \in 1..n : g.source \in Covered(T[i])
    <3>1. CASE g.source \in Machines[x]
      BY <1>2, <1>3, <1>7, <3>1
    <3>2. CASE \E i \in 1..n : g.source \in Covered(S[i])
      BY <1>10, <3>2
    <3>3. QED
      BY <1>c, <1>1, <3>1, <3>2
  <2>2. QED
    BY <1>3, <2>1 DEF CoverOK
<1>13. RestoredOK(T, Q)
  BY <1>3, <1>10 DEF RestoredOK
<1>14. QED
  BY <1>c, <1>3, <1>8, <1>9, <1>11, <1>12, <1>13 DEF Good

\* The same for the state of the guests: what the call takes runs, and only
\* guests on the machines of x are replaced.
Updates(v, x, w, R, Q) ==
  /\ \A n \in Nodes : \A g \in ToSet(w[n]) : g \in ToSet(v[n]) \/ g.source \in Machines[x]
  /\ \A g \in ToSet(R) : g \in ToSet(Q) \/ g.source \in Machines[x]
  /\ \A g \in ToSet(w[x]) : g \in ToSet(Q) /\ g.stage = x
  /\ v[x] = <<>> \/ Q = R

\* The same for GoodSep: the guests taken run, and no guest the other calls
\* wait with was replaced.
LEMMA TakeGoodSep ==
  ASSUME NEW S \in Seq(Frame), S # <<>>, NEW v, NEW x, Ready(S, v, x),
         NEW w \in Memo, NEW R, NEW Q, NEW T, Takes(S, T, x, w), Placed(w),
         GoodSep(S, v, R), Updates(v, x, w, R, Q)
  PROVE  GoodSep(T, w, Q)
<1> DEFINE h == Take(S[Len(S)], w[x])
<1>a. /\ Chain(S) /\ Pending(S, v) /\ \A j \in 1..Len(S) : FrameOK(S[j])
      /\ Waits(S[Len(S)]) /\ x = NextInput(S[Len(S)]).node
  BY DEF Ready
<1>b. TopBecomes(S, T, h)
  BY DEF Takes
<1>c. /\ \A n \in Nodes : \A g \in ToSet(w[n]) :
           g \in ToSet(v[n]) \/ g.source \in Machines[x]
      /\ \A g \in ToSet(R) : g \in ToSet(Q) \/ g.source \in Machines[x]
      /\ \A g \in ToSet(w[x]) : g \in ToSet(Q) /\ g.stage = x
      /\ v[x] = <<>> \/ Q = R
  BY DEF Updates
<1>d. h = Take(S[Len(S)], w[x])
  OBVIOUS
<1> HIDE DEF h
<1>1. PICK n \in Nat \ {0} : n = Len(S)
  BY TopIndices
<1>2. /\ n \in 1..n /\ \A i \in 1..n : i = n \/ i \in 1..n - 1
      /\ \A i \in 1..n - 1 : i \in 1..n
  BY <1>1, TopIndices
<1>3. /\ Len(T) = n /\ (\A i \in 1..n - 1 : T[i] = S[i]) /\ T[n] = h
      /\ h.node = S[n].node
  BY <1>b, <1>1 DEF TopBecomes
<1>4. PICK f \in Frame : f = S[n]
  BY <1>1, TopIndices
<1>5. x \in Nodes /\ Waits(f) /\ FrameOK(f) /\ w[x] \in Seq(Guest)
      /\ \A g \in ToSet(w[x]) : g.source \in Machines[x]
  <2>1. x \in Nodes /\ Waits(f) /\ FrameOK(f)
    BY <1>a, <1>1, <1>2, <1>4, NextNode
  <2>2. QED
    BY <2>1 DEF Memo, Placed
<1>6. PICK c \in Seq(Guest) : c = w[x]
  BY <1>5
<1>7. PICK a \in Nat : a = Len(f.args)
  BY FrameTyped
<1>8. /\ h \in Frame /\ h.at = "args"
      /\ Len(h.args) = a + 1 /\ From(h, a + 1) = x
      /\ \A k \in 1..a : h.args[k] = f.args[k] /\ From(h, k) = From(f, k)
      /\ ToSet(h.args[a + 1]) \subseteq ToSet(w[x])
  <2>1. h = Take(f, c) /\ x = NextInput(f).node
    BY <1>a, <1>d, <1>1, <1>4, <1>6
  <2>2. /\ h \in Frame /\ h.at = "args"
        /\ Len(h.args) = Len(f.args) + 1 /\ From(h, Len(f.args) + 1) = x
        /\ \A k \in 1..Len(f.args) : h.args[k] = f.args[k] /\ From(h, k) = From(f, k)
        /\ ToSet(h.args[Len(f.args) + 1]) \subseteq ToSet(c)
    BY <1>5, <1>6, <2>1, TakeFrame
  <2>3. QED
    BY <1>6, <1>7, <2>2
<1>9. \A i \in 1..n : S[i].at = "args" /\ Separate[S[i].node] /\ LiveFrame(S[i], v, R)
  <2>1. \A i \in 1..n : S[i].at = "args"
    BY <1>a, <1>1, <1>2, <1>4, <1>5 DEF Chain, Waits
  <2>2. QED
    BY <1>1, <2>1 DEF GoodSep, Live
<1>0. ASSUME NEW i \in 1..Len(S), NEW k \in 1..Len(S[i].args)
      PROVE  \/ Machines[From(S[i], k)] \cap Machines[x] = {}
             \/ From(S[i], k) = x
  <2>1. Separate[S[i].node]
    BY <1>1, <1>9
  <2>2. Ready(S, v, x)
    BY DEF Ready
  <2>3. QED
    BY <2>1, <2>2, NextApart
<1>10. ASSUME NEW i \in 1..n, NEW k \in 1..Len(S[i].args),
              NEW g \in ToSet(w[From(S[i], k)]) \cup ToSet(S[i].args[k])
       PROVE  g \in ToSet(Q) /\ g.stage = From(S[i], k)
  <2>1. From(S[i], k) \in Nodes /\ g.source \in Machines[From(S[i], k)]
    <3>1. S[i] \in Frame /\ FrameOK(S[i])
      BY <1>a, <1>1, TopIndices
    <3>2. /\ S[i].node \in Tests /\ Len(S[i].args) \in Nat
          /\ Len(S[i].args) <= Len(Inputs[S[i].node])
      BY <3>1, FrameTyped DEF FrameOK
    <3>3. k \in 1..Len(Inputs[S[i].node])
      BY <3>2, InputsTyped
    <3>4. From(S[i], k) \in Nodes
      BY <3>2, <3>3, InputsTyped DEF From
    <3>5. QED
      BY <3>1, <3>4 DEF FrameOK, Placed
  <2>2. CASE Machines[From(S[i], k)] \cap Machines[x] = {}
    <3>1. g.source \notin Machines[x]
      BY <2>1, <2>2
    <3>2. g \in ToSet(v[From(S[i], k)]) \cup ToSet(S[i].args[k])
      BY <1>c, <2>1, <3>1
    <3>3. g \in ToSet(R) /\ g.stage = From(S[i], k)
      BY <1>9, <3>2 DEF LiveFrame
    <3>4. QED
      BY <1>c, <3>1, <3>3
  <2>3. CASE From(S[i], k) = x
    <3>1. CASE g \in ToSet(w[x])
      BY <1>c, <2>3, <3>1
    <3>2. CASE g \in ToSet(S[i].args[k])
      <4>1. g \in ToSet(R) /\ g.stage = x
        BY <1>9, <2>3, <3>2 DEF LiveFrame
      <4>2. v[x] # <<>>
        BY <1>a, <1>1, <1>9, <2>3 DEF Pending, Taken
      <4>3. QED
        BY <1>c, <2>3, <4>1, <4>2
    <3>3. QED
      BY <2>3, <3>1, <3>2
  <2>4. QED
    BY <1>1, <1>0, <2>2, <2>3
<1>11. Live(T, w, Q)
  <2>1. ASSUME NEW i \in 1..n
        PROVE  LiveFrame(T[i], w, Q)
    <3>1. CASE i # n
      <4>1. T[i] = S[i]
        BY <1>2, <1>3, <3>1
      <4>2. QED
        BY <1>10, <4>1 DEF LiveFrame
    <3>2. CASE i = n
      <4>1. ASSUME NEW k \in 1..a + 1,
                   NEW g \in ToSet(w[From(h, k)]) \cup ToSet(h.args[k])
            PROVE  g \in ToSet(Q) /\ g.stage = From(h, k)
        <5>1. CASE k = a + 1
          BY <1>c, <1>8, <4>1, <5>1
        <5>2. CASE k # a + 1
          <6>1. k \in 1..a
            BY <5>2
          <6>2. From(h, k) = From(S[n], k) /\ h.args[k] = S[n].args[k]
            BY <1>4, <1>8, <6>1
          <6>3. QED
            BY <1>2, <1>4, <1>7, <1>10, <6>1, <6>2
        <5>3. QED
          BY <5>1, <5>2
      <4>2. QED
        BY <1>3, <1>8, <3>2, <4>1 DEF LiveFrame
    <3>3. QED
      BY <3>1, <3>2
  <2>2. QED
    BY <1>3, <2>1 DEF Live
<1>12. \A i \in 1..n : Separate[T[i].node]
  BY <1>2, <1>3, <1>9
<1>13. QED
  BY <1>3, <1>11, <1>12 DEF GoodSep

------------------------------------------------------------------------------
(* The guests a run owns: one on each machine *)

\* No two guests on one machine.
OneEach(R) == \A i, j \in 1..Len(R) : R[i].source = R[j].source => i = j

\* A sequence without its i-th element.
LEMMA RemovedElement ==
  ASSUME NEW X, NEW s \in Seq(X), NEW i \in 1..Len(s)
  PROVE  /\ RemoveAt(s, i) \in Seq(X) /\ Len(RemoveAt(s, i)) = Len(s) - 1
         /\ \A j \in 1..Len(s) - 1 :
              RemoveAt(s, i)[j] = IF j < i THEN s[j] ELSE s[j + 1]
<1>1. PICK n \in Nat \ {0} : n = Len(s) /\ \A j \in 1..n : s[j] \in X
  <2>1. Len(s) \in Nat /\ \A j \in 1..Len(s) : s[j] \in X
    BY LenProperties, ElementOfSeq
  <2>2. QED
    BY <2>1
<1>2. i \in 1..n /\ i - 1 \in Int /\ i + 1 \in Int /\ n \in Int
  BY <1>1
<1>3. /\ \A j \in 1..i - 1 : j \in 1..n
      /\ \A j \in i + 1..n : j \in 1..n
  BY <1>2
<1>4. /\ SubSeq(s, 1, i - 1) \in Seq(X) /\ Len(SubSeq(s, 1, i - 1)) = i - 1
      /\ \A j \in 1..i - 1 : SubSeq(s, 1, i - 1)[j] = s[j]
  <2>1. \A j \in 1..i - 1 : s[j] \in X
    BY <1>1, <1>3
  <2>2. 1 \in Int /\ (i - 1) - 1 + 1 = i - 1 /\ \A j \in 1..i - 1 : 1 + j - 1 = j
    BY <1>2
  <2>3. IF 1 <= i - 1 THEN (i - 1) - 1 + 1 = i - 1 ELSE 0 = i - 1
    BY <1>2
  <2>4. /\ SubSeq(s, 1, i - 1) \in Seq(X)
        /\ Len(SubSeq(s, 1, i - 1)) = IF 1 <= i - 1 THEN (i - 1) - 1 + 1 ELSE 0
        /\ \A j \in 1..(i - 1) - 1 + 1 : SubSeq(s, 1, i - 1)[j] = s[1 + j - 1]
    BY <1>2, <2>1, <2>2, SubSeqProperties
  <2>5. QED
    BY <2>2, <2>3, <2>4
<1>5. /\ SubSeq(s, i + 1, n) \in Seq(X) /\ Len(SubSeq(s, i + 1, n)) = n - i
      /\ \A j \in 1..n - i : SubSeq(s, i + 1, n)[j] = s[i + j]
  <2>1. \A j \in i + 1..n : s[j] \in X
    BY <1>1, <1>3
  <2>2. n - (i + 1) + 1 = n - i /\ \A j \in 1..n - i : (i + 1) + j - 1 = i + j
    BY <1>2
  <2>3. IF i + 1 <= n THEN n - (i + 1) + 1 = n - i ELSE 0 = n - i
    BY <1>2
  <2>4. /\ SubSeq(s, i + 1, n) \in Seq(X)
        /\ Len(SubSeq(s, i + 1, n)) = IF i + 1 <= n THEN n - (i + 1) + 1 ELSE 0
        /\ \A j \in 1..n - (i + 1) + 1 : SubSeq(s, i + 1, n)[j] = s[(i + 1) + j - 1]
    BY <1>2, <2>1, SubSeqProperties
  <2>5. QED
    BY <2>2, <2>3, <2>4
<1>6. PICK a \in Seq(X) : a = SubSeq(s, 1, i - 1)
  BY <1>4
<1>7. PICK b \in Seq(X) : b = SubSeq(s, i + 1, n)
  BY <1>5
<1>8. /\ a \o b \in Seq(X) /\ Len(a \o b) = Len(a) + Len(b)
      /\ \A j \in 1..Len(a) + Len(b) :
           (a \o b)[j] = IF j <= Len(a) THEN a[j] ELSE b[j - Len(a)]
  BY ConcatProperties
<1>9. PICK c : c = a \o b
  OBVIOUS
<1>10. RemoveAt(s, i) = c
  BY <1>1, <1>6, <1>7, <1>9 DEF RemoveAt
<1>11. /\ Len(a) = i - 1 /\ Len(b) = n - i /\ (\A j \in 1..i - 1 : a[j] = s[j])
       /\ \A j \in 1..n - i : b[j] = s[i + j]
  BY <1>4, <1>5, <1>6, <1>7
<1>12. (i - 1) + (n - i) = n - 1
  BY <1>2
<1>13. c \in Seq(X) /\ Len(c) = n - 1
       /\ \A j \in 1..n - 1 : c[j] = IF j <= i - 1 THEN a[j] ELSE b[j - (i - 1)]
  BY <1>8, <1>9, <1>11, <1>12
<1>14. ASSUME NEW j \in 1..n - 1
       PROVE  c[j] = IF j < i THEN s[j] ELSE s[j + 1]
  <2>1. CASE j < i
    <3>1. j <= i - 1 /\ j \in 1..i - 1
      BY <1>2, <2>1
    <3>2. QED
      BY <1>11, <1>13, <2>1, <3>1
  <2>2. CASE ~ (j < i)
    <3>1. ~ (j <= i - 1) /\ j - (i - 1) \in 1..n - i /\ i + (j - (i - 1)) = j + 1
      BY <1>2, <2>2
    <3>2. c[j] = b[j - (i - 1)]
      BY <1>13, <3>1
    <3>3. b[j - (i - 1)] = s[i + (j - (i - 1))]
      BY <1>11, <3>1
    <3>4. QED
      BY <2>2, <3>1, <3>2, <3>3
  <2>3. QED
    BY <2>1, <2>2
<1>15. QED
  BY <1>1, <1>10, <1>13, <1>14

\* A guest that leaves takes nothing else with it.
LEMMA RemovedGuest ==
  ASSUME NEW R \in Seq(Guest), OneEach(R), NEW i \in 1..Len(R)
  PROVE  /\ RemoveAt(R, i) \in Seq(Guest) /\ OneEach(RemoveAt(R, i))
         /\ ToSet(RemoveAt(R, i)) = {g \in ToSet(R) : g.source # R[i].source}
<1>1. PICK n \in Nat \ {0} : n = Len(R)
  <2>1. Len(R) \in Nat
    BY LenProperties
  <2>2. QED
    BY <2>1
<1>2. PICK Q \in Seq(Guest) : Q = RemoveAt(R, i)
  BY RemovedElement
<1>3. /\ Len(Q) = n - 1
      /\ \A j \in 1..n - 1 : Q[j] = IF j < i THEN R[j] ELSE R[j + 1]
  BY <1>1, <1>2, RemovedElement
<1>4. \A j, k \in 1..n : R[j].source = R[k].source => j = k
  BY <1>1 DEF OneEach
<1> DEFINE at(j) == IF j < i THEN j ELSE j + 1
<1>5. /\ i \in 1..n
      /\ \A j \in 1..n - 1 : at(j) \in 1..n /\ at(j) # i
      /\ \A j, k \in 1..n - 1 : at(j) = at(k) => j = k
      /\ \A j \in 1..n : j # i => \E k \in 1..n - 1 : at(k) = j
  <2>1. i \in 1..n
    BY <1>1
  <2>2. /\ \A j \in 1..n - 1 : at(j) \in 1..n /\ at(j) # i
        /\ \A j, k \in 1..n - 1 : at(j) = at(k) => j = k
    BY <2>1
  <2>3. ASSUME NEW j \in 1..n, j # i
        PROVE  \E k \in 1..n - 1 : at(k) = j
    <3>1. CASE j < i
      <4>1. j \in 1..n - 1 /\ at(j) = j
        BY <2>1, <3>1
      <4>2. QED
        BY <4>1
    <3>2. CASE ~ (j < i)
      <4>1. j - 1 \in 1..n - 1 /\ at(j - 1) = j
        BY <2>1, <2>3, <3>2
      <4>2. QED
        BY <4>1
    <3>3. QED
      BY <3>1, <3>2
  <2>4. QED
    BY <2>1, <2>2, <2>3
<1>6. \A j \in 1..n - 1 : Q[j] = R[at(j)]
  BY <1>3
<1> HIDE DEF at
<1>7. OneEach(Q)
  <2>1. ASSUME NEW j \in 1..n - 1, NEW k \in 1..n - 1, Q[j].source = Q[k].source
        PROVE  j = k
    <3>1. R[at(j)].source = R[at(k)].source /\ at(j) \in 1..n /\ at(k) \in 1..n
      BY <1>5, <1>6, <2>1
    <3>2. at(j) = at(k)
      BY <1>4, <3>1
    <3>3. QED
      BY <1>5, <3>2
  <2>2. QED
    BY <1>3, <2>1 DEF OneEach
<1>8. ToSet(R) = {R[j] : j \in 1..n} /\ ToSet(Q) = {Q[j] : j \in 1..n - 1}
  BY <1>1, <1>3, Elements
<1>9. ASSUME NEW j \in 1..n - 1
      PROVE  Q[j] \in {g \in ToSet(R) : g.source # R[i].source}
  <2>1. Q[j] = R[at(j)] /\ at(j) \in 1..n /\ at(j) # i
    BY <1>5, <1>6
  <2>2. QED
    BY <1>4, <1>5, <1>8, <2>1
<1>10. ASSUME NEW g \in ToSet(R), g.source # R[i].source
       PROVE  g \in ToSet(Q)
  <2>1. PICK j \in 1..n : g = R[j]
    BY <1>8
  <2>2. j # i
    BY <1>10, <2>1
  <2>3. PICK k \in 1..n - 1 : at(k) = j
    BY <1>5, <2>2
  <2>4. QED
    BY <1>6, <1>8, <2>1, <2>3
<1>11. ToSet(Q) = {g \in ToSet(R) : g.source # R[i].source}
  BY <1>8, <1>9, <1>10
<1>12. QED
  BY <1>2, <1>7, <1>11

\* A guest on a new machine is started.
LEMMA AddedGuest ==
  ASSUME NEW R \in Seq(Guest), OneEach(R), NEW g \in Guest,
         \A h \in ToSet(R) : h.source # g.source
  PROVE  /\ Append(R, g) \in Seq(Guest) /\ OneEach(Append(R, g))
         /\ ToSet(Append(R, g)) = ToSet(R) \cup {g}
<1>1. /\ Append(R, g) \in Seq(Guest) /\ ToSet(Append(R, g)) = ToSet(R) \cup {g}
  BY AppendedElements
<1>2. PICK n \in Nat : n = Len(R)
  BY LenProperties
<1>3. PICK Q : Q = Append(R, g)
  OBVIOUS
<1>4. Len(Q) = n + 1 /\ (\A i \in 1..n : Q[i] = R[i]) /\ Q[n + 1] = g
  BY <1>2, <1>3, AppendProperties
<1>5. \A i \in 1..n : R[i] \in ToSet(R)
  BY <1>2, Elements
<1>6. ASSUME NEW i \in 1..n + 1, NEW j \in 1..n + 1, Q[i].source = Q[j].source
      PROVE  i = j
  <2>1. (i = n + 1 \/ i \in 1..n) /\ (j = n + 1 \/ j \in 1..n)
    OBVIOUS
  <2>2. CASE i \in 1..n /\ j \in 1..n
    BY <1>2, <1>4, <1>6, <2>2 DEF OneEach
  <2>3. CASE ~(i \in 1..n /\ j \in 1..n)
    BY <1>4, <1>5, <1>6, <2>1, <2>3
  <2>4. QED
    BY <2>2, <2>3
<1>7. OneEach(Q)
  BY <1>4, <1>6 DEF OneEach
<1>8. QED
  BY <1>1, <1>3, <1>7

\* The last guest is stopped.
LEMMA LastGuest ==
  ASSUME NEW R \in Seq(Guest), OneEach(R), R # <<>>
  PROVE  /\ Front(R) \in Seq(Guest) /\ OneEach(Front(R)) /\ Last(R) \in ToSet(R)
         /\ ToSet(Front(R)) = ToSet(R) \ {Last(R)}
<1>1. PICK n \in Nat \ {0} : n = Len(R)
  BY FrontOfStack
<1>2. PICK Q \in Seq(Guest) : Q = Front(R)
  BY FrontOfStack
<1>3. Len(Q) = n - 1 /\ \A i \in 1..n - 1 : Q[i] = R[i]
  BY <1>1, <1>2, FrontOfStack
<1>4. \A i, j \in 1..n : R[i].source = R[j].source => i = j
  BY <1>1 DEF OneEach
<1>5. /\ n \in 1..n /\ \A i \in 1..n : i = n \/ i \in 1..n - 1
      /\ \A i \in 1..n - 1 : i \in 1..n /\ i # n
  OBVIOUS
<1>6. ToSet(R) = {R[j] : j \in 1..n} /\ ToSet(Q) = {Q[j] : j \in 1..n - 1}
  BY <1>1, <1>3, Elements
<1>7. Last(R) = R[n] /\ Last(R) \in ToSet(R)
  BY <1>1, <1>5, <1>6 DEF Last
<1>8. OneEach(Q)
  BY <1>3, <1>4, <1>5 DEF OneEach
<1>9. ToSet(Q) = ToSet(R) \ {R[n]}
  <2>1. \A i \in 1..n - 1 : R[i] # R[n]
    BY <1>4, <1>5
  <2>2. ToSet(Q) = {R[j] : j \in 1..n - 1}
    BY <1>3, <1>6
  <2>3. QED
    BY <1>5, <1>6, <2>1, <2>2
<1>10. QED
  BY <1>2, <1>7, <1>8, <1>9

------------------------------------------------------------------------------
(* The inductive invariant of the data *)

\* The QEMU processes of a run.
ProcessesOf(r) == {p \in qemu : p[1] = r}

\* A run owns its processes; the exceptions are those of ExecutorInv.
Owned(r) ==
  \/ ProcessesOf(r) = Processes(r, ToSet(runtimes[r]))
  \/ r \in leaked \/ over \/ ~Separate[Target[r]]

\* The inductive invariant, for one run.
RunOK(r) ==
  /\ phase[r] = "going" <=> stack[r] # <<>>
  /\ r \in leaked => phase[r] = "ended"
  /\ over => phase[r] = "ended"
  /\ OneEach(runtimes[r]) /\ Owned(r)
  /\ stack[r] # <<>> => Good(stack[r], values[r], runtimes[r])
  /\ stack[r] # <<>> /\ Separate[Target[r]] =>
       GoodSep(stack[r], values[r], runtimes[r])

\* The inductive invariant of the data.
DataInv == TypeOK /\ \A r \in Runs : RunOK(r)

\* A step of the run r leaves the others alone.
OthersSame(r) ==
  /\ over' = over
  /\ \A q \in Runs : q # r =>
       /\ stack'[q] = stack[q] /\ phase'[q] = phase[q] /\ values'[q] = values[q]
       /\ runtimes'[q] = runtimes[q] /\ (q \in leaked' <=> q \in leaked)
       /\ ProcessesOf(q)' = ProcessesOf(q)

\* A step of one run is a matter of that run.
LEMMA OneRun ==
  ASSUME DataInv, NEW r \in Runs, TypeOK', RunOK(r)', OthersSame(r)
  PROVE  DataInv'
<1>1. ASSUME NEW q \in Runs, q # r
      PROVE  RunOK(q)'
  <2>1. RunOK(q)
    BY DEF DataInv
  <2>2. /\ stack'[q] = stack[q] /\ phase'[q] = phase[q] /\ values'[q] = values[q]
        /\ runtimes'[q] = runtimes[q] /\ (q \in leaked' <=> q \in leaked)
        /\ ProcessesOf(q)' = ProcessesOf(q) /\ over' = over
    BY <1>1 DEF OthersSame
  <2>3. Owned(q)'
    <3>1. Owned(q)
      BY <2>1 DEF RunOK
    <3>2. ToSet(runtimes[q])' = ToSet(runtimes[q])
      BY <2>2
    <3>3. QED
      BY <2>2, <3>1, <3>2 DEF Owned, Processes
  <2>4. QED
    BY <2>1, <2>2, <2>3 DEF RunOK
<1>2. QED
  BY <1>1 DEF DataInv

\* The variables of a run.
LEMMA Typed ==
  ASSUME TypeOK, NEW r \in Runs
  PROVE  /\ stack[r] \in Seq(Frame) /\ values[r] \in Memo /\ runtimes[r] \in Seq(Guest)
         /\ \A n \in Nodes : values[r][n] \in Seq(Guest)
BY DEF TypeOK, Memo

\* The innermost call is a call.
LEMMA TopTyped ==
  ASSUME TypeOK, NEW r \in Runs, stack[r] # <<>>
  PROVE  Top(r) = stack[r][Len(stack[r])] /\ Top(r) \in Frame
<1>1. PICK S \in Seq(Frame) : S = stack[r]
  BY Typed
<1>2. S[Len(S)] \in Frame
  BY <1>1, TopIndices
<1>3. QED
  BY <1>1, <1>2 DEF Top, Last

\* What Becomes does to the calls of every run.
LEMMA BecomesTop ==
  ASSUME TypeOK, NEW r \in Runs, stack[r] # <<>>, NEW f \in Frame,
         f.node = Top(r).node, Becomes(r, f)
  PROVE  /\ stack' \in [Runs -> Seq(Frame)] /\ stack'[r] # <<>>
         /\ TopBecomes(stack[r], stack'[r], f)
         /\ \A q \in Runs : q # r => stack'[q] = stack[q]
<1>1. PICK S \in Seq(Frame) : S = stack[r]
  BY Typed
<1>2. /\ Append(Front(S), f) \in Seq(Frame \cup {f}) /\ Append(Front(S), f) # <<>>
      /\ Len(Append(Front(S), f)) = Len(S)
      /\ \A i \in 1..Len(S) - 1 : Append(Front(S), f)[i] = S[i]
      /\ Append(Front(S), f)[Len(S)] = f
  <2>1. S # <<>>
    BY <1>1
  <2>2. QED
    BY <2>1, ReplacedCall, ZenonT(60)
<1>3. Frame \cup {f} = Frame
  OBVIOUS
<1>4. stack \in [Runs -> Seq(Frame)]
  BY DEF TypeOK
<1>5. /\ stack'[r] = Append(Front(S), f)
      /\ \A q \in Runs : q # r => stack'[q] = stack[q]
      /\ stack' = [q \in Runs |-> stack'[q]]
  BY <1>1, <1>4 DEF Becomes
<1>6. stack' \in [Runs -> Seq(Frame)]
  BY <1>2, <1>3, <1>4, <1>5
<1>7. Top(r) = S[Len(S)]
  BY <1>1 DEF Top, Last
<1>8. QED
  BY <1>1, <1>2, <1>5, <1>6, <1>7 DEF TopBecomes

\* A step of the innermost call of a run.
LEMMA TopMoves ==
  ASSUME TypeOK, NEW r \in Runs, RunOK(r), stack[r] # <<>>,
         NEW f \in Frame, f.node = Top(r).node, Becomes(r, f),
         phase' = phase, values' = values, leaked' = leaked, over' = over,
         OneEach(runtimes'[r]),
         Moves(Top(r), f, values[r], runtimes[r], runtimes'[r]),
         MovesSep(f, values[r], runtimes[r], runtimes'[r]) \/ ~Separate[Target[r]],
         ProcessesOf(r) = Processes(r, ToSet(runtimes[r])) =>
           ProcessesOf(r)' = Processes(r, ToSet(runtimes'[r]))
  PROVE  RunOK(r)'
<1>1. PICK S \in Seq(Frame) : S = stack[r]
  BY Typed
<1>2. PICK v \in Memo : v = values[r]
  BY Typed
<1>3. PICK R : R = runtimes[r]
  OBVIOUS
<1>4. PICK Q : Q = runtimes'[r]
  OBVIOUS
<1>5. PICK T : T = stack'[r]
  OBVIOUS
<1>6. TopBecomes(S, T, f) /\ T # <<>> /\ S # <<>> /\ Top(r) = S[Len(S)]
  BY <1>1, <1>5, BecomesTop, TopTyped
<1>7. Good(S, v, R)
  BY <1>1, <1>2, <1>3 DEF RunOK
<1>8. Moves(S[Len(S)], f, v, R, Q)
  BY <1>2, <1>3, <1>4, <1>6
<1>9. Good(T, v, Q)
  BY <1>6, <1>7, <1>8, StepGood
<1>10. Separate[Target[r]] => GoodSep(T, v, Q)
  <2>1. SUFFICES ASSUME Separate[Target[r]]
                 PROVE  GoodSep(T, v, Q)
    OBVIOUS
  <2>2. GoodSep(S, v, R) /\ MovesSep(f, v, R, Q)
    BY <1>1, <1>2, <1>3, <1>4, <2>1 DEF RunOK
  <2>3. QED
    BY <1>6, <1>7, <2>2, StepGoodSep
<1>11. Owned(r)'
  <2>1. Owned(r)
    BY DEF RunOK
  <2>2. ProcessesOf(r) = Processes(r, ToSet(runtimes[r])) =>
          ProcessesOf(r)' = Processes(r, ToSet(runtimes[r]))'
    BY DEF Processes
  <2>3. QED
    BY <2>1, <2>2 DEF Owned
<1>12. Good(stack'[r], values'[r], runtimes'[r])
  BY <1>2, <1>4, <1>5, <1>9
<1>13. Separate[Target[r]] => GoodSep(stack'[r], values'[r], runtimes'[r])
  BY <1>2, <1>4, <1>5, <1>10
<1>14. stack'[r] # <<>>
  BY <1>5, <1>6
<1>15. QED
  BY <1>11, <1>12, <1>13, <1>14 DEF RunOK

\* A run whose calls are left: nothing is asked of its memo any more.
LEMMA RunLeaves ==
  ASSUME TypeOK, NEW r \in Runs, RunOK(r), phase[r] = "going",
         phase'[r] = "closing", stack'[r] = <<>>, r \notin leaked', over' = over,
         OneEach(runtimes'[r]),
         ProcessesOf(r) = Processes(r, ToSet(runtimes[r])) =>
           ProcessesOf(r)' = Processes(r, ToSet(runtimes'[r]))
  PROVE  RunOK(r)'
<1>1. ~over /\ r \notin leaked
  BY DEF RunOK
<1>2. Owned(r)'
  <2>1. Owned(r)
    BY DEF RunOK
  <2>2. ProcessesOf(r) = Processes(r, ToSet(runtimes[r])) =>
          ProcessesOf(r)' = Processes(r, ToSet(runtimes[r]))'
    BY DEF Processes
  <2>3. QED
    BY <1>1, <2>1, <2>2 DEF Owned
<1>3. QED
  BY <1>1, <1>2 DEF RunOK

------------------------------------------------------------------------------
(* The actions keep the invariant of the data *)

\* The type of the variables other than the calls, the artifacts and the locks'
\* history: what an action that only moves a call leaves in place.
TypeRest ==
  /\ phase \in [Runs -> {"going", "closing", "ended"}]
  /\ outcome \in [Runs -> {"none", "pass", "fail", "cancelled"}]
  /\ values \in [Runs -> [Nodes -> Seq(Guest)]]
  /\ runtimes \in [Runs -> Seq(Guest)]
  /\ lock \in [Tests -> Runs \cup {NoRun}]
  /\ store \subseteq Tests
  /\ qemu \subseteq Runs \X Guest
  /\ faults \subseteq Runs /\ leaked \subseteq Runs
  /\ saves \in [Tests -> Nat]
  /\ over \in BOOLEAN

\* Enter: the lock is taken; the innermost call restores, or resolves its
\* inputs.
LEMMA EnterData ==
  ASSUME LockInv, DataInv, NEW r \in Runs, Enter(r)
  PROVE  DataInv'
<1>1. TypeOK /\ RunOK(r) /\ phase[r] = "going" /\ stack[r] # <<>>
      /\ Top(r) \in Frame /\ Top(r) = stack[r][Len(stack[r])]
  BY TopTyped DEF DataInv, Enter, At
<1>2. PICK f \in Frame : f = Top(r)
  BY <1>1
<1>3. PICK h : h = [f EXCEPT !.at = IF Cached(f.node) THEN "restore" ELSE "args"]
  OBVIOUS
<1>4. /\ h \in Frame /\ h.node = f.node /\ h.args = f.args /\ h.done = f.done
      /\ h.at \in {"restore", "args"}
  BY <1>3 DEF Frame, Places
<1>5. f.at = "lock" /\ Becomes(r, h)
  BY <1>2, <1>3 DEF Enter, At
<1>6. stack' \in [Runs -> Seq(Frame)] /\ \A q \in Runs : q # r => stack'[q] = stack[q]
  BY <1>1, <1>2, <1>4, <1>5, BecomesTop
<1>7. TypeOK'
  <2>1. f.node \in Tests
    BY FrameTyped
  <2>2. lock' = [lock EXCEPT ![f.node] = r]
    BY <1>2 DEF Enter
  <2>3. lock' \in [Tests -> Runs \cup {NoRun}]
    BY <1>1, <2>1, <2>2 DEF TypeOK
  <2>4. TypeRest'
    BY <1>1, <2>3 DEF TypeOK, TypeRest, Enter
  <2>5. QED
    BY <1>6, <2>4 DEF TypeOK, TypeRest
<1>8. RunOK(r)'
  <2>1. f.args = <<>> /\ f.done = 0 /\ FrameOK(f)
    <3>1. PICK S \in Seq(Frame) : S = stack[r]
      BY <1>1, Typed
    <3>2. Len(S) \in 1..Len(S) /\ S[Len(S)] = f
      BY <1>1, <1>2, <3>1, TopIndices
    <3>3. \A i \in 1..Len(S) : FrameOK(S[i])
      BY <1>1, <3>1 DEF RunOK, Good
    <3>4. FrameOK(f)
      BY <3>2, <3>3
    <3>5. QED
      BY <1>5, <3>4 DEF FrameOK
  <2>2. Len(<<>>) = 0 /\ 1..0 = {}
    OBVIOUS
  <2>3. FrameOK(h)
    BY <1>4, <2>1, <2>2 DEF FrameOK
  <2>4. Taken(f) = {} /\ Taken(h) = {} /\ Covered(f) = {}
    BY <1>4, <1>5, <2>1, <2>2 DEF Taken, Covered
  <2>5. runtimes' = runtimes /\ values' = values /\ phase' = phase /\ leaked' = leaked
        /\ over' = over /\ qemu' = qemu
    BY DEF Enter
  <2>6. Restoring(h) \in Seq(Sources)
    BY <1>4, FrameTyped, DescriptorFits, OnceElements DEF Restoring
  <2>7. \A j \in 1..Len(Restoring(h)) : ~ (j <= h.done)
    BY <1>4, <2>1
  <2>8. Moves(f, h, values[r], runtimes[r], runtimes'[r])
    BY <2>3, <2>4, <2>5, <2>7 DEF Moves
  <2>9. MovesSep(h, values[r], runtimes[r], runtimes'[r])
    BY <1>4, <2>1, <2>2, <2>5 DEF MovesSep, LiveFrame
  <2>10. OneEach(runtimes'[r])
    BY <1>1, <2>5 DEF RunOK
  <2>11. ProcessesOf(r)' = ProcessesOf(r)
    BY <2>5 DEF ProcessesOf
  <2>12. QED
    BY <1>1, <1>2, <1>4, <1>5, <2>5, <2>8, <2>9, <2>10, <2>11, TopMoves
<1>9. OthersSame(r)
  BY <1>6 DEF Enter, OthersSame, ProcessesOf
<1>10. QED
  BY <1>7, <1>8, <1>9, OneRun

\* What the invariant says of the innermost call.
LEMMA TopKnows ==
  ASSUME TypeOK, NEW r \in Runs, RunOK(r), stack[r] # <<>>
  PROVE  /\ FrameOK(Top(r)) /\ values[r][Top(r).node] = <<>>
         /\ Top(r).at = "args" => \A n \in Taken(Top(r)) : values[r][n] # <<>>
         /\ Top(r).at = "restore" =>
              \A j \in 1..Len(Restoring(Top(r))) : j <= Top(r).done =>
                [source |-> Restoring(Top(r))[j], stage |-> Top(r).node]
                  \in ToSet(runtimes[r])
         /\ Separate[Target[r]] => Separate[Top(r).node]
         /\ Separate[Target[r]] /\ Top(r).at = "args" =>
              LiveFrame(Top(r), values[r], runtimes[r])
<1>1. PICK S \in Seq(Frame) : S = stack[r]
  BY Typed
<1>2. PICK n \in 1..Len(S) : n = Len(S)
  BY <1>1, TopIndices
<1>3. PICK f : f = S[n]
  OBVIOUS
<1>4. Top(r) = f
  BY <1>1, <1>2, <1>3, TopTyped
<1>5. PICK v : v = values[r]
  OBVIOUS
<1>6. PICK R : R = runtimes[r]
  OBVIOUS
<1>7. Good(S, v, R) /\ (Separate[Target[r]] => GoodSep(S, v, R))
  BY <1>1, <1>5, <1>6 DEF RunOK
<1>8. /\ FrameOK(f) /\ v[f.node] = <<>>
      /\ f.at = "args" => \A m \in Taken(f) : v[m] # <<>>
  BY <1>3, <1>7 DEF Good, Pending
<1>9. f.at = "restore" =>
        \A j \in 1..Len(Restoring(f)) : j <= f.done =>
          [source |-> Restoring(f)[j], stage |-> f.node] \in ToSet(R)
  BY <1>3, <1>7 DEF Good, RestoredOK
<1>10. Separate[Target[r]] => Separate[f.node] /\ (f.at = "args" => LiveFrame(f, v, R))
  BY <1>3, <1>7 DEF GoodSep, Live
<1>11. QED
  BY <1>4, <1>5, <1>6, <1>8, <1>9, <1>10

\* The machines a test is saved on are its own.
LEMMA SavingFits ==
  ASSUME NEW f \in Frame, FrameOK(f)
  PROVE  /\ Saving(f) \in Seq(Sources) /\ ToSet(Saving(f)) \subseteq Machines[f.node]
         /\ Len(Saving(f)) \in Nat
<1>1. f.node \in Tests /\ f.args \in Seq(Seq(Guest)) /\ Len(f.args) \in Nat
  BY FrameTyped
<1>2. PICK a \in Seq(Seq(Guest)) : a = f.args
  BY <1>1
<1>3. PICK guests \in Seq(Guest) :
        guests = FlattenSeq(a) /\ ToSet(guests) = UNION {ToSet(a[i]) : i \in 1..Len(a)}
  BY Flattened
<1>4. Len(guests) \in Nat /\ DOMAIN guests = 1..Len(guests)
      /\ \A i \in 1..Len(guests) : guests[i] \in Guest /\ guests[i] \in ToSet(guests)
  BY ElementOfSeq, Elements
<1>5. PICK q : q = [i \in DOMAIN guests |-> guests[i].source]
  OBVIOUS
<1>6. \A i \in 1..Len(guests) : guests[i].source \in Sources
  BY <1>4 DEF Guest
<1>7. q \in Seq(Sources) /\ Len(q) = Len(guests)
      /\ \A i \in 1..Len(guests) : q[i] = guests[i].source
  BY <1>4, <1>5, <1>6
<1>8. Once(q) \in Seq(Sources) /\ ToSet(Once(q)) = ToSet(q)
  BY <1>7, OnceElements
<1>9. Saving(f) = Once(q)
  BY <1>2, <1>3, <1>5 DEF Saving
<1>10. ASSUME NEW g \in ToSet(guests)
       PROVE  g.source \in Machines[f.node]
  <2>1. PICK k \in 1..Len(f.args) : g \in ToSet(f.args[k])
    BY <1>2, <1>3
  <2>2. g.source \in Machines[From(f, k)]
    BY <2>1 DEF FrameOK
  <2>3. k \in DOMAIN Inputs[f.node]
    BY <1>1, <2>1, InputsTyped DEF FrameOK
  <2>4. QED
    BY <1>1, <2>2, <2>3, InputMachines DEF From
<1>11. ToSet(q) \subseteq Machines[f.node]
  <2>1. ToSet(q) = {q[i] : i \in 1..Len(q)}
    BY <1>7, Elements
  <2>2. QED
    BY <1>4, <1>7, <1>10, <2>1
<1>12. PICK p \in Seq(Sources) : p = Once(q)
  BY <1>8
<1>13. Len(p) \in Nat
  BY LenProperties
<1>14. QED
  BY <1>8, <1>9, <1>11, <1>12, <1>13

\* The machines a test is restored on: those of its descriptor, once each.
LEMMA RestoringFits ==
  ASSUME NEW f \in Frame
  PROVE  /\ Restoring(f) \in Seq(Sources) /\ Len(Restoring(f)) \in Nat
         /\ Distinct(Restoring(f))
         /\ ToSet(Restoring(f)) = ToSet(Descriptor[f.node])
         /\ ToSet(Restoring(f)) = {Restoring(f)[j] : j \in 1..Len(Restoring(f))}
         /\ ToSet(Restoring(f)) \subseteq Machines[f.node]
<1>1. PICK d \in Seq(Sources) : d = Descriptor[f.node] /\ ToSet(d) \subseteq Machines[f.node]
  BY FrameTyped, DescriptorFits
<1>2. Once(d) \in Seq(Sources) /\ ToSet(Once(d)) = ToSet(d) /\ Distinct(Once(d))
  BY OnceElements
<1>3. PICK p \in Seq(Sources) : p = Once(d)
  BY <1>2
<1>4. Len(p) \in Nat /\ ToSet(p) = {p[j] : j \in 1..Len(p)}
  BY Elements
<1>5. Restoring(f) = p
  BY <1>1, <1>3 DEF Restoring
<1>6. QED
  BY <1>1, <1>2, <1>3, <1>4, <1>5

\* The guest on a machine leaves `runtimes`.
LEMMA WithoutGuest ==
  ASSUME TypeOK, NEW r \in Runs, OneEach(runtimes[r]), NEW s
  PROVE  /\ Without(r, s) \in Seq(Guest) /\ OneEach(Without(r, s))
         /\ ToSet(Without(r, s)) = {g \in ToSet(runtimes[r]) : g.source # s}
         /\ ToSet(Without(r, s)) = ToSet(runtimes[r]) \ Of(r, s)
<1>1. PICK R \in Seq(Guest) : R = runtimes[r]
  BY Typed
<1>2. OneEach(R) /\ DOMAIN R = 1..Len(R) /\ ToSet(R) = {R[i] : i \in 1..Len(R)}
  BY <1>1, Elements
<1>3. Of(r, s) = {g \in ToSet(R) : g.source = s}
  BY <1>1 DEF Of
<1>4. CASE Of(r, s) = {}
  <2>1. Without(r, s) = R
    BY <1>1, <1>4 DEF Without
  <2>2. ToSet(R) = {g \in ToSet(R) : g.source # s}
    BY <1>3, <1>4
  <2>3. QED
    BY <1>1, <1>2, <1>4, <2>1, <2>2
<1>5. CASE Of(r, s) # {}
  <2>1. \E i \in DOMAIN R : R[i].source = s
    BY <1>2, <1>3, <1>5
  <2>2. PICK k \in 1..Len(R) : k = (CHOOSE i \in DOMAIN R : R[i].source = s) /\ R[k].source = s
    BY <1>2, <2>1
  <2>3. Without(r, s) = RemoveAt(R, k)
    BY <1>1, <1>5, <2>2 DEF Without
  <2>4. /\ RemoveAt(R, k) \in Seq(Guest) /\ OneEach(RemoveAt(R, k))
        /\ ToSet(RemoveAt(R, k)) = {g \in ToSet(R) : g.source # R[k].source}
    BY <1>2, RemovedGuest
  <2>5. {g \in ToSet(R) : g.source # s} = ToSet(R) \ Of(r, s)
    BY <1>3
  <2>6. QED
    BY <1>1, <2>2, <2>3, <2>4, <2>5
<1>6. QED
  BY <1>4, <1>5

\* Stopped processes are no longer among those of the run.
LEMMA StoppedProcesses ==
  ASSUME NEW r \in Runs, NEW G, NEW H, ProcessesOf(r) = Processes(r, G),
         qemu' = qemu \ Processes(r, H)
  PROVE  ProcessesOf(r)' = Processes(r, G \ H)
<1>1. ProcessesOf(r)' = {p \in qemu \ Processes(r, H) : p[1] = r}
  BY DEF ProcessesOf
<1>2. {p \in qemu \ Processes(r, H) : p[1] = r} = ProcessesOf(r) \ Processes(r, H)
  BY DEF ProcessesOf
<1>3. Processes(r, G) \ Processes(r, H) = Processes(r, G \ H)
  BY DEF Processes
<1>4. QED
  BY <1>1, <1>2, <1>3

\* BodyReturns: the call goes on to save.
LEMMA BodyReturnsData ==
  ASSUME DataInv, NEW r \in Runs, BodyReturns(r)
  PROVE  DataInv'
<1>1. TypeOK /\ RunOK(r) /\ stack[r] # <<>> /\ Top(r) \in Frame
  BY TopTyped DEF DataInv, BodyReturns, InBody, At
<1>2. PICK f \in Frame : f = Top(r)
  BY <1>1
<1>3. PICK h : h = [f EXCEPT !.at = "save"]
  OBVIOUS
<1>4. /\ h \in Frame /\ h.node = f.node /\ h.args = f.args /\ h.done = f.done
      /\ h.at = "save"
  BY <1>3 DEF Frame, Places
<1>5. /\ f.at = "args" /\ Len(f.args) = Len(Inputs[f.node]) /\ Becomes(r, h)
      /\ phase' = phase /\ outcome' = outcome /\ values' = values /\ runtimes' = runtimes
      /\ lock' = lock /\ store' = store /\ qemu' = qemu /\ faults' = faults
      /\ leaked' = leaked /\ saves' = saves /\ over' = over
  BY <1>2, <1>3 DEF BodyReturns, InBody, At
<1>6. stack' \in [Runs -> Seq(Frame)] /\ \A q \in Runs : q # r => stack'[q] = stack[q]
  BY <1>1, <1>2, <1>4, <1>5, BecomesTop
<1>7. TypeOK'
  BY <1>1, <1>5, <1>6 DEF TypeOK
<1>8. RunOK(r)'
  <2>1. FrameOK(h)
    <3>1. FrameOK(f)
      BY <1>1, <1>2, TopKnows
    <3>2. QED
      BY <1>4, <1>5, <3>1 DEF FrameOK, From
  <2>2. Covered(f) = Covered(h)
    BY <1>4, <1>5 DEF Covered, Taken, From
  <2>3. Moves(f, h, values[r], runtimes[r], runtimes'[r])
    BY <1>4, <1>5, <2>1, <2>2 DEF Moves
  <2>4. MovesSep(h, values[r], runtimes[r], runtimes'[r])
    BY <1>4, <1>5 DEF MovesSep
  <2>5. OneEach(runtimes'[r])
    BY <1>1, <1>5 DEF RunOK
  <2>6. ProcessesOf(r)' = ProcessesOf(r)
    BY <1>5 DEF ProcessesOf
  <2>7. QED
    BY <1>1, <1>2, <1>4, <1>5, <2>3, <2>4, <2>5, <2>6, TopMoves
<1>9. OthersSame(r)
  BY <1>5, <1>6 DEF OthersSame, ProcessesOf
<1>10. QED
  BY <1>7, <1>8, <1>9, OneRun

\* Publish: the call goes on to restore what it published.
LEMMA PublishData ==
  ASSUME DataInv, NEW r \in Runs, Publish(r)
  PROVE  DataInv'
<1>1. TypeOK /\ RunOK(r) /\ stack[r] # <<>> /\ Top(r) \in Frame
  BY TopTyped DEF DataInv, Publish, Saved, At
<1>2. PICK f \in Frame : f = Top(r)
  BY <1>1
<1>3. PICK h : h = [f EXCEPT !.at = "restore", !.done = 0]
  OBVIOUS
<1>4. /\ h \in Frame /\ h.node = f.node /\ h.args = f.args /\ h.done = 0
      /\ h.at = "restore"
  BY <1>3 DEF Frame, Places
<1>5. /\ f.at = "save" /\ Becomes(r, h)
      /\ phase' = phase /\ outcome' = outcome /\ values' = values /\ runtimes' = runtimes
      /\ lock' = lock /\ qemu' = qemu /\ faults' = faults
      /\ leaked' = leaked /\ over' = over
      /\ store' = store \cup {f.node} /\ saves' = [saves EXCEPT ![f.node] = @ + 1]
  BY <1>2, <1>3 DEF Publish, Saved, At
<1>6. stack' \in [Runs -> Seq(Frame)] /\ \A q \in Runs : q # r => stack'[q] = stack[q]
  BY <1>1, <1>2, <1>4, <1>5, BecomesTop
<1>7. TypeOK'
  <2>1. f.node \in Tests
    BY FrameTyped
  <2>2. store' \subseteq Tests /\ saves' \in [Tests -> Nat]
    BY <1>1, <1>5, <2>1 DEF TypeOK
  <2>3. QED
    BY <1>1, <1>5, <1>6, <2>2 DEF TypeOK
<1>8. RunOK(r)'
  <2>1. FrameOK(f) /\ f.node \in Tests /\ Len(f.args) \in Nat
    BY <1>1, <1>2, TopKnows, FrameTyped
  <2>2. FrameOK(h)
    BY <1>4, <2>1 DEF FrameOK, From
  <2>3. Covered(f) \subseteq Covered(h)
    <3>1. \A k \in 1..Len(f.args) : k \in DOMAIN Inputs[f.node]
      BY <2>1, InputsTyped DEF FrameOK
    <3>2. \A k \in 1..Len(f.args) : Machines[From(f, k)] \subseteq Machines[f.node]
      BY <2>1, <3>1, InputMachines DEF From
    <3>3. QED
      BY <1>4, <1>5, <3>2 DEF Covered, Taken
  <2>4. \A j \in 1..Len(Restoring(h)) : ~ (j <= h.done)
    BY <1>4, RestoringFits
  <2>5. Moves(f, h, values[r], runtimes[r], runtimes'[r])
    BY <1>4, <1>5, <2>2, <2>3, <2>4 DEF Moves
  <2>6. MovesSep(h, values[r], runtimes[r], runtimes'[r])
    BY <1>4, <1>5 DEF MovesSep
  <2>7. OneEach(runtimes'[r])
    BY <1>1, <1>5 DEF RunOK
  <2>8. ProcessesOf(r)' = ProcessesOf(r)
    BY <1>5 DEF ProcessesOf
  <2>9. QED
    BY <1>1, <1>2, <1>4, <1>5, <2>5, <2>6, <2>7, <2>8, TopMoves
<1>9. OthersSame(r)
  BY <1>5, <1>6 DEF OthersSame, ProcessesOf
<1>10. QED
  BY <1>7, <1>8, <1>9, OneRun

\* The processes of the other runs are not touched.
LEMMA OthersProcesses ==
  ASSUME NEW r \in Runs, NEW H, NEW G,
         qemu' = (qemu \ Processes(r, H)) \cup Processes(r, G)
  PROVE  \A q \in Runs : q # r => ProcessesOf(q)' = ProcessesOf(q)
<1>1. ASSUME NEW q \in Runs, q # r
      PROVE  ProcessesOf(q)' = ProcessesOf(q)
  <2>1. \A p \in Processes(r, H) \cup Processes(r, G) : p[1] # q
    BY <1>1 DEF Processes
  <2>2. \A p : p[1] = q => (p \in qemu' <=> p \in qemu)
    BY <2>1
  <2>3. QED
    BY <2>2 DEF ProcessesOf
<1>2. QED
  BY <1>1

\* SaveMachine: the guest on a machine is saved and stopped.
LEMMA SaveMachineData ==
  ASSUME DataInv, NEW r \in Runs, SaveMachine(r)
  PROVE  DataInv'
<1>1. TypeOK /\ RunOK(r) /\ stack[r] # <<>> /\ Top(r) \in Frame
  BY TopTyped DEF DataInv, SaveMachine, At
<1>2. PICK f \in Frame : f = Top(r)
  BY <1>1
<1>3. PICK s : s = Saving(f)[f.done + 1]
  OBVIOUS
<1>4. PICK h : h = [f EXCEPT !.done = @ + 1]
  OBVIOUS
<1>5. f.done \in Nat /\ f.node \in Tests
  BY FrameTyped
<1>6. /\ h \in Frame /\ h.node = f.node /\ h.args = f.args /\ h.at = f.at
      /\ h.done = f.done + 1
  BY <1>4, <1>5 DEF Frame, Places
<1>7. /\ f.at = "save" /\ f.done < Len(Saving(f)) /\ Becomes(r, h)
      /\ qemu' = qemu \ Processes(r, Of(r, s))
      /\ runtimes' = [runtimes EXCEPT ![r] = Without(r, s)]
      /\ phase' = phase /\ outcome' = outcome /\ values' = values
      /\ lock' = lock /\ store' = store /\ faults' = faults
      /\ leaked' = leaked /\ saves' = saves /\ over' = over
  BY <1>2, <1>3, <1>4 DEF SaveMachine, At
<1>8. stack' \in [Runs -> Seq(Frame)] /\ \A q \in Runs : q # r => stack'[q] = stack[q]
  BY <1>1, <1>2, <1>6, <1>7, BecomesTop
<1>9. /\ Without(r, s) \in Seq(Guest) /\ OneEach(Without(r, s))
      /\ ToSet(Without(r, s)) = {g \in ToSet(runtimes[r]) : g.source # s}
      /\ ToSet(Without(r, s)) = ToSet(runtimes[r]) \ Of(r, s)
  BY <1>1, WithoutGuest DEF RunOK
<1>10. /\ runtimes'[r] = Without(r, s) /\ runtimes' \in [Runs -> Seq(Guest)]
       /\ \A q \in Runs : q # r => runtimes'[q] = runtimes[q]
  BY <1>1, <1>7, <1>9 DEF TypeOK
<1>11. TypeOK'
  BY <1>1, <1>7, <1>8, <1>10 DEF TypeOK
<1>12. RunOK(r)'
  <2>1. FrameOK(f)
    BY <1>1, <1>2, TopKnows
  <2>2. FrameOK(h)
    BY <1>6, <1>7, <2>1 DEF FrameOK, From
  <2>3. s \in Machines[f.node]
    <3>1. PICK p \in Seq(Sources) :
            p = Saving(f) /\ ToSet(p) \subseteq Machines[f.node] /\ Len(p) \in Nat
      BY <2>1, SavingFits
    <3>2. f.done + 1 \in 1..Len(p)
      BY <1>5, <1>7, <3>1
    <3>3. p[f.done + 1] \in ToSet(p)
      BY <3>2, Elements
    <3>4. QED
      BY <1>3, <3>1, <3>3
  <2>4. Covered(f) = Covered(h)
    BY <1>6, <1>7 DEF Covered, Taken, From
  <2>5. Moves(f, h, values[r], runtimes[r], runtimes'[r])
    BY <1>6, <1>7, <1>9, <1>10, <2>2, <2>4 DEF Moves
  <2>6. MovesSep(h, values[r], runtimes[r], runtimes'[r])
    BY <1>6, <1>7, <1>9, <1>10, <2>3 DEF MovesSep
  <2>7. ProcessesOf(r) = Processes(r, ToSet(runtimes[r])) =>
          ProcessesOf(r)' = Processes(r, ToSet(runtimes'[r]))
    BY <1>7, <1>9, <1>10, StoppedProcesses
  <2>8. OneEach(runtimes'[r])
    BY <1>9, <1>10
  <2>9. QED
    BY <1>1, <1>2, <1>6, <1>7, <2>5, <2>6, <2>7, <2>8, TopMoves
<1>13. OthersSame(r)
  <2>1. qemu' = (qemu \ Processes(r, Of(r, s))) \cup Processes(r, {})
    BY <1>7 DEF Processes
  <2>2. \A q \in Runs : q # r => ProcessesOf(q)' = ProcessesOf(q)
    BY <2>1, OthersProcesses
  <2>3. QED
    BY <1>7, <1>8, <1>10, <2>2 DEF OthersSame
<1>14. QED
  BY <1>11, <1>12, <1>13, OneRun

\* The guest that is restored next is on a machine of the test.
LEMMA IncomingGuest ==
  ASSUME NEW f \in Frame, f.done < Len(Restoring(f)), NEW s,
         s = Restoring(f)[f.done + 1]
  PROVE  /\ s \in Machines[f.node] /\ s \in Sources
         /\ [source |-> s, stage |-> f.node] \in Guest
         /\ \A j \in 1..Len(Restoring(f)) : j <= f.done => Restoring(f)[j] # s
<1>1. f.done \in Nat /\ f.node \in Nodes
  BY FrameTyped
<1>2. PICK p \in Seq(Sources) :
        /\ p = Restoring(f) /\ ToSet(p) \subseteq Machines[f.node]
        /\ Len(p) \in Nat /\ Distinct(p)
  BY RestoringFits
<1>3. f.done + 1 \in 1..Len(p) /\ \A j \in 1..Len(p) : j <= f.done => j # f.done + 1
  BY <1>1, <1>2
<1>4. s \in ToSet(p) /\ s \in Sources
  BY <1>2, <1>3, Elements, ElementOfSeq
<1>5. \A j \in 1..Len(p) : j <= f.done => p[j] # s
  BY <1>2, <1>3 DEF Distinct
<1>6. QED
  BY <1>1, <1>2, <1>4, <1>5 DEF Guest

\* RestoreMachine: the guest on a machine is replaced by the one restored.
LEMMA RestoreMachineData ==
  ASSUME DataInv, NEW r \in Runs, RestoreMachine(r)
  PROVE  DataInv'
<1>1. TypeOK /\ RunOK(r) /\ stack[r] # <<>> /\ Top(r) \in Frame
  BY TopTyped DEF DataInv, RestoreMachine, At
<1>2. PICK f \in Frame : f = Top(r)
  BY <1>1
<1>3. PICK s : s = Restoring(f)[f.done + 1]
  OBVIOUS
<1>4. PICK g : g = [source |-> s, stage |-> f.node]
  OBVIOUS
<1>5. PICK h : h = [f EXCEPT !.done = @ + 1]
  OBVIOUS
<1>6. f.done \in Nat /\ f.node \in Tests
  BY FrameTyped
<1>7. /\ h \in Frame /\ h.node = f.node /\ h.args = f.args /\ h.at = f.at
      /\ h.done = f.done + 1
  BY <1>5, <1>6 DEF Frame, Places
<1>8. g = Incoming(r) /\ g.source = s /\ g.stage = f.node
  BY <1>2, <1>3, <1>4 DEF Incoming
<1>9. /\ f.at = "restore" /\ f.done < Len(Restoring(f)) /\ Becomes(r, h)
      /\ qemu' = (qemu \ Processes(r, Of(r, s))) \cup {<<r, g>>}
      /\ runtimes' = [runtimes EXCEPT ![r] = Append(Without(r, s), g)]
      /\ phase' = phase /\ outcome' = outcome /\ values' = values
      /\ lock' = lock /\ store' = store /\ faults' = faults
      /\ leaked' = leaked /\ saves' = saves /\ over' = over
  BY <1>2, <1>5, <1>8 DEF RestoreMachine, At
<1>10. stack' \in [Runs -> Seq(Frame)] /\ \A q \in Runs : q # r => stack'[q] = stack[q]
  BY <1>1, <1>2, <1>7, <1>9, BecomesTop
<1>11. /\ s \in Machines[f.node] /\ g \in Guest
       /\ \A j \in 1..Len(Restoring(f)) : j <= f.done => Restoring(f)[j] # s
  BY <1>3, <1>4, <1>9, IncomingGuest
<1>12. /\ Without(r, s) \in Seq(Guest) /\ OneEach(Without(r, s))
       /\ ToSet(Without(r, s)) = {k \in ToSet(runtimes[r]) : k.source # s}
       /\ ToSet(Without(r, s)) = ToSet(runtimes[r]) \ Of(r, s)
  BY <1>1, WithoutGuest DEF RunOK
<1>13. PICK W \in Seq(Guest) : W = Without(r, s)
  BY <1>12
<1>14. PICK Q : Q = Append(W, g)
  OBVIOUS
<1>15. /\ Q \in Seq(Guest) /\ OneEach(Q) /\ ToSet(Q) = ToSet(W) \cup {g}
  <2>1. \A k \in ToSet(W) : k.source # g.source
    BY <1>8, <1>12, <1>13
  <2>2. QED
    BY <1>11, <1>12, <1>13, <1>14, <2>1, AddedGuest
<1>16. /\ runtimes'[r] = Q /\ runtimes' \in [Runs -> Seq(Guest)]
       /\ \A q \in Runs : q # r => runtimes'[q] = runtimes[q]
  BY <1>1, <1>9, <1>13, <1>14, <1>15 DEF TypeOK
<1>17. TypeOK'
  BY <1>1, <1>9, <1>10, <1>11, <1>16 DEF TypeOK
<1>18. RunOK(r)'
  <2>1. FrameOK(f) /\ \A j \in 1..Len(Restoring(f)) : j <= f.done =>
          [source |-> Restoring(f)[j], stage |-> f.node] \in ToSet(runtimes[r])
    BY <1>1, <1>2, <1>9, TopKnows
  <2>2. FrameOK(h)
    BY <1>7, <1>9, <2>1 DEF FrameOK, From
  <2>3. Covered(f) = Machines[f.node] /\ Covered(h) = Machines[f.node]
    BY <1>7, <1>9 DEF Covered
  <2>4. Restoring(h) = Restoring(f)
    BY <1>7 DEF Restoring
  <2>5. ASSUME NEW j \in 1..Len(Restoring(f)), j <= f.done + 1
        PROVE  [source |-> Restoring(f)[j], stage |-> f.node] \in ToSet(Q)
    <3>1. CASE j = f.done + 1
      BY <1>3, <1>4, <1>15, <3>1
    <3>2. CASE j # f.done + 1
      <4>1. j <= f.done
        BY <1>6, <2>5, <3>2, RestoringFits
      <4>2. PICK k : k = [source |-> Restoring(f)[j], stage |-> f.node]
        OBVIOUS
      <4>3. k \in ToSet(runtimes[r]) /\ k.source # s
        BY <1>11, <2>1, <4>1, <4>2
      <4>4. QED
        BY <1>12, <1>13, <1>15, <4>2, <4>3
    <3>3. QED
      BY <3>1, <3>2
  <2>6. \A k \in ToSet(Q) : k \in ToSet(runtimes[r]) \/ k.source \in Machines[f.node]
    BY <1>8, <1>11, <1>12, <1>13, <1>15
  <2>7. \A k \in ToSet(runtimes[r]) : k \in ToSet(Q) \/ k.source \in Machines[f.node]
    BY <1>11, <1>12, <1>13, <1>15
  <2>8. Moves(f, h, values[r], runtimes[r], runtimes'[r])
    BY <1>7, <1>9, <1>16, <2>2, <2>3, <2>4, <2>5, <2>6 DEF Moves
  <2>9. MovesSep(h, values[r], runtimes[r], runtimes'[r])
    BY <1>7, <1>9, <1>16, <2>7 DEF MovesSep
  <2>10. ProcessesOf(r) = Processes(r, ToSet(runtimes[r])) =>
           ProcessesOf(r)' = Processes(r, ToSet(runtimes'[r]))
    <3>1. ToSet(Q) = (ToSet(runtimes[r]) \ Of(r, s)) \cup {g}
      BY <1>12, <1>13, <1>15
    <3>2. PICK G : G = ToSet(runtimes[r])
      OBVIOUS
    <3>3. PICK H : H = Of(r, s)
      OBVIOUS
    <3>4. qemu' = (qemu \ Processes(r, H)) \cup {<<r, g>>}
      BY <1>9, <3>3
    <3>5. SUFFICES ASSUME ProcessesOf(r) = Processes(r, G)
                   PROVE  ProcessesOf(r)' = Processes(r, (G \ H) \cup {g})
      BY <1>16, <3>1, <3>2, <3>3
    <3>6. ProcessesOf(r)' = (ProcessesOf(r) \ Processes(r, H)) \cup {<<r, g>>}
      BY <3>4 DEF ProcessesOf
    <3>7. Processes(r, (G \ H) \cup {g}) = (Processes(r, G) \ Processes(r, H)) \cup {<<r, g>>}
      BY DEF Processes
    <3>8. QED
      BY <3>5, <3>6, <3>7
  <2>11. OneEach(runtimes'[r])
    BY <1>15, <1>16
  <2>12. QED
    BY <1>1, <1>2, <1>7, <1>9, <2>8, <2>9, <2>10, <2>11, TopMoves
<1>19. OthersSame(r)
  <2>1. qemu' = (qemu \ Processes(r, Of(r, s))) \cup Processes(r, {g})
    BY <1>9 DEF Processes
  <2>2. \A q \in Runs : q # r => ProcessesOf(q)' = ProcessesOf(q)
    BY <2>1, OthersProcesses
  <2>3. QED
    BY <1>9, <1>10, <1>16, <2>2 DEF OthersSame
<1>20. QED
  BY <1>17, <1>18, <1>19, OneRun

\* Leave: a run has no calls any more and closes.
LEMMA LeaveTyped ==
  ASSUME TypeOK, NEW r \in Runs, NEW how \in {"pass", "fail", "cancelled"}, Leave(r, how)
  PROVE  /\ stack' \in [Runs -> Seq(Frame)] /\ lock' \in [Tests -> Runs \cup {NoRun}]
         /\ phase' \in [Runs -> {"going", "closing", "ended"}]
         /\ outcome' \in [Runs -> {"none", "pass", "fail", "cancelled"}]
         /\ stack'[r] = <<>> /\ phase'[r] = "closing"
         /\ \A q \in Runs : q # r => stack'[q] = stack[q] /\ phase'[q] = phase[q]
<1>1. /\ stack' = [stack EXCEPT ![r] = <<>>] /\ phase' = [phase EXCEPT ![r] = "closing"]
      /\ outcome' = [outcome EXCEPT ![r] = how]
      /\ lock' = [t \in Tests |-> IF lock[t] = r THEN NoRun ELSE lock[t]]
  BY DEF Leave, LetGo
<1>2. /\ stack \in [Runs -> Seq(Frame)] /\ lock \in [Tests -> Runs \cup {NoRun}]
      /\ phase \in [Runs -> {"going", "closing", "ended"}]
      /\ outcome \in [Runs -> {"none", "pass", "fail", "cancelled"}]
  BY DEF TypeOK
<1>3. <<>> \in Seq(Frame)
  BY EmptySeq
<1>4. stack' \in [Runs -> Seq(Frame)]
  BY <1>1, <1>2, <1>3
<1>5. lock' \in [Tests -> Runs \cup {NoRun}]
  BY <1>1, <1>2
<1>6. QED
  BY <1>1, <1>2, <1>4, <1>5

\* An exception, or the end, that leaves the guests as they are.
LEMMA LeaveData ==
  ASSUME DataInv, NEW r \in Runs, phase[r] = "going",
         NEW how \in {"pass", "fail", "cancelled"}, Leave(r, how),
         values' = values, runtimes' = runtimes, qemu' = qemu, leaked' = leaked,
         over' = over, store' \subseteq Tests, faults' \subseteq Runs,
         saves' \in [Tests -> Nat]
  PROVE  DataInv'
<1>1. TypeOK /\ RunOK(r)
  BY DEF DataInv
<1>2. /\ stack' \in [Runs -> Seq(Frame)] /\ lock' \in [Tests -> Runs \cup {NoRun}]
      /\ phase' \in [Runs -> {"going", "closing", "ended"}]
      /\ outcome' \in [Runs -> {"none", "pass", "fail", "cancelled"}]
      /\ stack'[r] = <<>> /\ phase'[r] = "closing"
      /\ \A q \in Runs : q # r => stack'[q] = stack[q] /\ phase'[q] = phase[q]
  BY <1>1, LeaveTyped
<1>3. TypeOK'
  BY <1>1, <1>2 DEF TypeOK
<1>4. ProcessesOf(r)' = ProcessesOf(r) /\ OneEach(runtimes'[r]) /\ r \notin leaked'
  BY <1>1 DEF ProcessesOf, RunOK
<1>5. RunOK(r)'
  BY <1>1, <1>2, <1>4, RunLeaves
<1>6. OthersSame(r)
  BY <1>2 DEF OthersSame, ProcessesOf
<1>7. QED
  BY <1>3, <1>5, <1>6, OneRun

\* HitTarget: the checkpoint of the target is there, the run is over.
LEMMA HitTargetData ==
  ASSUME DataInv, NEW r \in Runs, HitTarget(r)
  PROVE  DataInv'
BY LeaveData DEF HitTarget, At, DataInv, TypeOK

\* PublishTarget: the target is published, the run is over.
LEMMA PublishTargetData ==
  ASSUME DataInv, NEW r \in Runs, PublishTarget(r)
  PROVE  DataInv'
<1>1. /\ TypeOK /\ stack[r] # <<>> /\ phase[r] = "going" /\ Leave(r, "pass")
      /\ values' = values /\ runtimes' = runtimes /\ qemu' = qemu /\ leaked' = leaked
      /\ over' = over /\ faults' = faults /\ store' = store \cup {Top(r).node}
      /\ saves' = [saves EXCEPT ![Top(r).node] = @ + 1]
  BY DEF PublishTarget, Saved, At, DataInv
<1>2. Top(r).node \in Tests
  BY <1>1, TopTyped, FrameTyped
<1>3. store' \subseteq Tests /\ faults' \subseteq Runs /\ saves' \in [Tests -> Nat]
  BY <1>1, <1>2 DEF TypeOK
<1>4. QED
  BY <1>1, <1>3, LeaveData

\* Fail: a step of the run raises.
LEMMA FailData ==
  ASSUME DataInv, NEW r \in Runs, Fail(r)
  PROVE  DataInv'
<1>1. store' \subseteq Tests /\ faults' \subseteq Runs /\ saves' \in [Tests -> Nat]
  BY DEF Fail, DataInv, TypeOK
<1>2. QED
  BY <1>1, LeaveData DEF Fail

\* Cancel: the run is cancelled.
LEMMA CancelData ==
  ASSUME DataInv, NEW r \in Runs, Cancel(r)
  PROVE  DataInv'
<1>1. store' \subseteq Tests /\ faults' \subseteq Runs /\ saves' \in [Tests -> Nat]
  BY DEF Cancel, DataInv, TypeOK
<1>2. QED
  BY <1>1, LeaveData DEF Cancel

\* Collide: the artifact directory exists already.
LEMMA CollideData ==
  ASSUME DataInv, NEW r \in Runs, Collide(r)
  PROVE  DataInv'
<1>1. /\ TypeOK /\ RunOK(r) /\ Leave(r, "fail") /\ phase[r] = "going"
      /\ values' = values /\ store' = store /\ faults' = faults /\ leaked' = leaked
      /\ saves' = saves /\ over' = over
  BY DEF Collide, DataInv, Unresolved, At
<1>2. store' \subseteq Tests /\ faults' \subseteq Runs /\ saves' \in [Tests -> Nat]
  BY <1>1 DEF TypeOK
<1>3. CASE qemu' = qemu /\ runtimes' = runtimes
  BY <1>1, <1>2, <1>3, LeaveData
<1>4. ASSUME NEW s, qemu' = qemu \ Processes(r, Of(r, s)),
             runtimes' = [runtimes EXCEPT ![r] = Without(r, s)]
      PROVE  DataInv'
  <2>1. /\ stack' \in [Runs -> Seq(Frame)] /\ lock' \in [Tests -> Runs \cup {NoRun}]
        /\ phase' \in [Runs -> {"going", "closing", "ended"}]
        /\ outcome' \in [Runs -> {"none", "pass", "fail", "cancelled"}]
        /\ stack'[r] = <<>> /\ phase'[r] = "closing"
        /\ \A q \in Runs : q # r => stack'[q] = stack[q] /\ phase'[q] = phase[q]
    BY <1>1, LeaveTyped
  <2>2. /\ Without(r, s) \in Seq(Guest) /\ OneEach(Without(r, s))
        /\ ToSet(Without(r, s)) = ToSet(runtimes[r]) \ Of(r, s)
    BY <1>1, WithoutGuest DEF RunOK
  <2>3. /\ runtimes'[r] = Without(r, s) /\ runtimes' \in [Runs -> Seq(Guest)]
        /\ \A q \in Runs : q # r => runtimes'[q] = runtimes[q]
    BY <1>1, <1>4, <2>2 DEF TypeOK
  <2>4. TypeOK'
    BY <1>1, <1>4, <2>1, <2>3 DEF TypeOK
  <2>5. ProcessesOf(r) = Processes(r, ToSet(runtimes[r])) =>
          ProcessesOf(r)' = Processes(r, ToSet(runtimes'[r]))
    BY <1>4, <2>2, <2>3, StoppedProcesses
  <2>6. OneEach(runtimes'[r]) /\ r \notin leaked'
    BY <1>1, <2>2, <2>3 DEF RunOK
  <2>7. RunOK(r)'
    BY <1>1, <2>1, <2>5, <2>6, RunLeaves
  <2>8. qemu' = (qemu \ Processes(r, Of(r, s))) \cup Processes(r, {})
    BY <1>4 DEF Processes
  <2>9. \A q \in Runs : q # r => ProcessesOf(q)' = ProcessesOf(q)
    BY <2>8, OthersProcesses
  <2>10. OthersSame(r)
    BY <1>1, <2>1, <2>3, <2>9 DEF OthersSame
  <2>11. QED
    BY <2>4, <2>7, <2>10, OneRun
<1>5. \/ qemu' = qemu /\ runtimes' = runtimes
      \/ \E s : /\ qemu' = qemu \ Processes(r, Of(r, s))
                /\ runtimes' = [runtimes EXCEPT ![r] = Without(r, s)]
  BY DEF Collide
<1>6. QED
  BY <1>3, <1>4, <1>5

\* Dispose: a closing run stops its last guest.
LEMMA DisposeData ==
  ASSUME DataInv, NEW r \in Runs, Dispose(r)
  PROVE  DataInv'
<1>1. /\ TypeOK /\ RunOK(r) /\ phase[r] = "closing" /\ runtimes[r] # <<>>
      /\ qemu' = qemu \ {<<r, Last(runtimes[r])>>}
      /\ runtimes' = [runtimes EXCEPT ![r] = Front(@)]
      /\ stack' = stack /\ phase' = phase /\ outcome' = outcome /\ values' = values
      /\ lock' = lock /\ store' = store /\ faults' = faults /\ leaked' = leaked
      /\ saves' = saves /\ over' = over
  BY DEF Dispose, DataInv
<1>2. PICK R \in Seq(Guest) : R = runtimes[r]
  BY <1>1, Typed
<1>3. /\ Front(R) \in Seq(Guest) /\ OneEach(Front(R)) /\ Last(R) \in ToSet(R)
      /\ ToSet(Front(R)) = ToSet(R) \ {Last(R)}
  BY <1>1, <1>2, LastGuest DEF RunOK
<1>4. /\ runtimes'[r] = Front(R) /\ runtimes' \in [Runs -> Seq(Guest)]
      /\ \A q \in Runs : q # r => runtimes'[q] = runtimes[q]
  BY <1>1, <1>2, <1>3 DEF TypeOK
<1>5. TypeOK'
  BY <1>1, <1>4 DEF TypeOK
<1>6. {<<r, Last(R)>>} = Processes(r, {Last(R)}) /\ qemu' = qemu \ {<<r, Last(R)>>}
  BY <1>1, <1>2 DEF Processes
<1>7. ProcessesOf(r) = Processes(r, ToSet(runtimes[r])) =>
        ProcessesOf(r)' = Processes(r, ToSet(runtimes'[r]))
  BY <1>2, <1>3, <1>4, <1>6, StoppedProcesses
<1>8. Owned(r)'
  <2>1. Owned(r)
    BY <1>1 DEF RunOK
  <2>2. ProcessesOf(r) = Processes(r, ToSet(runtimes[r])) =>
          ProcessesOf(r)' = Processes(r, ToSet(runtimes[r]))'
    BY <1>7 DEF Processes
  <2>3. QED
    BY <1>1, <2>1, <2>2 DEF Owned
<1>9. RunOK(r)'
  BY <1>1, <1>3, <1>4, <1>8 DEF RunOK
<1>10. qemu' = (qemu \ Processes(r, {Last(R)})) \cup Processes(r, {})
  BY <1>6 DEF Processes
<1>11. \A q \in Runs : q # r => ProcessesOf(q)' = ProcessesOf(q)
  BY <1>10, OthersProcesses
<1>12. OthersSame(r)
  BY <1>1, <1>4, <1>11 DEF OthersSame
<1>13. QED
  BY <1>5, <1>9, <1>12, OneRun

\* DisposeRaises: closing fails, and what is left running is leaked.
LEMMA DisposeRaisesData ==
  ASSUME DataInv, NEW r \in Runs, DisposeRaises(r)
  PROVE  DataInv'
<1>1. /\ TypeOK /\ RunOK(r) /\ phase[r] = "closing"
      /\ qemu' = qemu \ {<<r, Last(runtimes[r])>>}
      /\ phase' = [phase EXCEPT ![r] = "ended"]
      /\ leaked' = leaked \cup {r} /\ faults' = faults \cup {r}
      /\ runtimes' = runtimes
      /\ stack' = stack /\ outcome' = outcome /\ values' = values
      /\ lock' = lock /\ store' = store /\ dirs' = dirs
      /\ saves' = saves /\ over' = over
  BY DEF DisposeRaises, DataInv
<1>2. TypeOK'
  BY <1>1 DEF TypeOK
<1>3. /\ phase'[r] = "ended" /\ \A q \in Runs : q # r => phase'[q] = phase[q]
  BY <1>1 DEF TypeOK
<1>4. RunOK(r)'
  BY <1>1, <1>3 DEF RunOK, Owned
<1>5. qemu' = (qemu \ Processes(r, {Last(runtimes[r])})) \cup Processes(r, {})
  BY <1>1 DEF Processes
<1>6. \A q \in Runs : q # r => ProcessesOf(q)' = ProcessesOf(q)
  BY <1>5, OthersProcesses
<1>7. OthersSame(r)
  BY <1>1, <1>3, <1>6 DEF OthersSame
<1>8. QED
  BY <1>2, <1>4, <1>7, OneRun

\* End: a run without guests has ended.
LEMMA EndData ==
  ASSUME DataInv, NEW r \in Runs, End(r)
  PROVE  DataInv'
<1>1. /\ TypeOK /\ RunOK(r) /\ phase[r] = "closing"
      /\ phase' = [phase EXCEPT ![r] = "ended"]
      /\ qemu' = qemu /\ leaked' = leaked /\ faults' = faults
      /\ runtimes' = runtimes
      /\ stack' = stack /\ outcome' = outcome /\ values' = values
      /\ lock' = lock /\ store' = store /\ saves' = saves /\ over' = over
  BY DEF End, DataInv
<1>2. TypeOK'
  BY <1>1 DEF TypeOK
<1>3. /\ phase'[r] = "ended" /\ \A q \in Runs : q # r => phase'[q] = phase[q]
  BY <1>1 DEF TypeOK
<1>4. Owned(r)'
  <2>1. Owned(r)
    BY <1>1 DEF RunOK
  <2>2. QED
    BY <1>1, <2>1 DEF Owned, ProcessesOf, Processes
<1>5. RunOK(r)'
  BY <1>1, <1>3, <1>4 DEF RunOK
<1>6. OthersSame(r)
  BY <1>1, <1>3 DEF OthersSame, ProcessesOf
<1>7. QED
  BY <1>2, <1>5, <1>6, OneRun

\* StopAll: every run has ended, the processes left are stopped.
LEMMA StopAllData ==
  ASSUME DataInv, StopAllInstances
  PROVE  DataInv'
<1>1. /\ \A r \in Runs : phase[r] = "ended"
      /\ qemu' = {} /\ over' = TRUE
      /\ stack' = stack /\ phase' = phase /\ outcome' = outcome /\ values' = values
      /\ runtimes' = runtimes /\ lock' = lock /\ store' = store /\ faults' = faults
      /\ leaked' = leaked /\ saves' = saves
  BY DEF StopAllInstances
<1>2. TypeOK'
  BY <1>1 DEF DataInv, TypeOK
<1>3. ASSUME NEW r \in Runs
      PROVE  RunOK(r)'
  <2>1. RunOK(r)
    BY DEF DataInv
  <2>2. Owned(r)'
    BY <1>1 DEF Owned
  <2>3. QED
    BY <1>1, <2>1, <2>2 DEF RunOK
<1>4. QED
  BY <1>2, <1>3 DEF DataInv

\* Descend: the next input has no value yet and its call is pushed.
LEMMA DescendData ==
  ASSUME DataInv, NEW r \in Runs, NEW t \in Tests, Descend(r, t)
  PROVE  DataInv'
<1>1. /\ TypeOK /\ RunOK(r) /\ phase[r] = "going" /\ stack[r] # <<>>
      /\ Top(r) \in Frame /\ Top(r) = stack[r][Len(stack[r])]
  BY TopTyped DEF DataInv, Descend, Unresolved, At
<1>2. /\ stack' = [stack EXCEPT ![r] = Append(@, Call(t))]
      /\ phase' = phase /\ outcome' = outcome /\ values' = values /\ runtimes' = runtimes
      /\ lock' = lock /\ store' = store /\ qemu' = qemu /\ faults' = faults
      /\ leaked' = leaked /\ saves' = saves /\ over' = over
  BY DEF Descend
<1>3. PICK S \in Seq(Frame) : S = stack[r]
  BY <1>1, Typed
<1>4. PICK v \in Memo : v = values[r]
  BY <1>1, Typed
<1>5. PICK R : R = runtimes[r]
  OBVIOUS
<1>6. PICK T : T = Append(S, Call(t))
  OBVIOUS
<1>7. Call(t) \in Frame
  <2>1. <<>> \in Seq(Seq(Guest))
    BY EmptySeq
  <2>2. QED
    BY <2>1 DEF Call, Frame, Places
<1>8. T \in Seq(Frame) /\ T # <<>> /\ Pushed(S, T, Call(t))
  <2>1. PICK c \in Frame : c = Call(t)
    BY <1>7
  <2>2. /\ Append(S, c) \in Seq(Frame \cup {c}) /\ Append(S, c) # <<>>
        /\ Len(Append(S, c)) = Len(S) + 1
        /\ \A i \in 1..Len(S) : Append(S, c)[i] = S[i]
        /\ Append(S, c)[Len(S) + 1] = c
    BY PushedCall, ZenonT(60)
  <2>3. Frame \cup {c} = Frame
    OBVIOUS
  <2>4. QED
    BY <1>6, <2>1, <2>2, <2>3 DEF Pushed
<1>9. stack'[r] = T /\ stack' \in [Runs -> Seq(Frame)]
      /\ \A q \in Runs : q # r => stack'[q] = stack[q]
  <2>1. stack \in [Runs -> Seq(Frame)]
    BY <1>1 DEF TypeOK
  <2>2. QED
    BY <1>2, <1>3, <1>6, <1>8, <2>1
<1>10. TypeOK'
  BY <1>1, <1>2, <1>9 DEF TypeOK
<1>11. RunOK(r)'
  <2>1. Waits(S[Len(S)]) /\ t = NextInput(S[Len(S)]).node /\ v[t] = <<>> /\ S # <<>>
    BY <1>1, <1>3, <1>4 DEF Descend, Unresolved, At, Waits
  <2>2. Good(S, v, R)
    BY <1>1, <1>3, <1>4, <1>5 DEF RunOK
  <2>3. Good(T, v, R)
    BY <1>8, <2>1, <2>2, PushGood
  <2>4. Separate[Target[r]] => GoodSep(S, v, R)
    BY <1>1, <1>3, <1>4, <1>5 DEF RunOK
  <2>5. GoodSep(S, v, R) => GoodSep(T, v, R)
    BY <1>8, <2>1, PushGoodSep
  <2>6. Owned(r)'
    BY <1>1, <1>2 DEF RunOK, Owned, ProcessesOf, Processes
  <2>7. /\ stack'[r] = T /\ T # <<>> /\ values'[r] = v /\ runtimes'[r] = R
        /\ phase'[r] = "going" /\ r \notin leaked' /\ ~over' /\ OneEach(R)
    BY <1>1, <1>2, <1>4, <1>5, <1>8, <1>9 DEF RunOK
  <2>8. QED
    BY <2>3, <2>4, <2>5, <2>6, <2>7 DEF RunOK
<1>12. OthersSame(r)
  BY <1>2, <1>9 DEF OthersSame, ProcessesOf
<1>13. QED
  BY <1>10, <1>11, <1>12, OneRun

\* The innermost call takes the value of its next input, x.
LEMMA TakeMoves ==
  ASSUME TypeOK, NEW r \in Runs, RunOK(r), phase[r] = "going",
         NEW S \in Seq(Frame), S # <<>>, NEW v, NEW x, NEW R, Ready(S, v, x),
         stack'[r] # <<>>, Takes(S, stack'[r], x, values'[r]), values'[r] \in Memo,
         Resolves(S, v, x, values'[r], runtimes'[r]),
         \/ ~Separate[Target[r]]
         \/ GoodSep(S, v, R) /\ Updates(v, x, values'[r], R, runtimes'[r]),
         phase' = phase, leaked' = leaked, over' = over, OneEach(runtimes'[r]),
         ~Separate[Target[r]] \/
           (ProcessesOf(r) = Processes(r, ToSet(runtimes[r])) =>
              ProcessesOf(r)' = Processes(r, ToSet(runtimes'[r])))
  PROVE  RunOK(r)'
<1>1. PICK T : T = stack'[r]
  OBVIOUS
<1>2. PICK w \in Memo : w = values'[r]
  OBVIOUS
<1>3. PICK Q : Q = runtimes'[r]
  OBVIOUS
<1>4. Takes(S, T, x, w) /\ Resolves(S, v, x, w, Q)
  BY <1>1, <1>2, <1>3
<1>5. Good(T, w, Q)
  BY <1>4, TakeGood
<1>6. Separate[Target[r]] => GoodSep(T, w, Q)
  <2>1. SUFFICES ASSUME Separate[Target[r]]
                 PROVE  GoodSep(T, w, Q)
    OBVIOUS
  <2>2. GoodSep(S, v, R) /\ Updates(v, x, w, R, Q)
    BY <1>2, <1>3, <2>1
  <2>3. Placed(w)
    BY <1>4 DEF Resolves
  <2>4. QED
    BY <1>4, <2>2, <2>3, TakeGoodSep
<1>7. Owned(r)'
  <2>1. Owned(r)
    BY DEF RunOK
  <2>2. ~Separate[Target[r]] \/
          (ProcessesOf(r) = Processes(r, ToSet(runtimes[r])) =>
             ProcessesOf(r)' = Processes(r, ToSet(runtimes[r]))')
    BY DEF Processes
  <2>3. QED
    BY <2>1, <2>2 DEF Owned
<1>8. Good(stack'[r], values'[r], runtimes'[r])
  BY <1>1, <1>2, <1>3, <1>5
<1>9. Separate[Target[r]] => GoodSep(stack'[r], values'[r], runtimes'[r])
  BY <1>1, <1>2, <1>3, <1>6
<1>10. QED
  BY <1>7, <1>8, <1>9 DEF RunOK

\* The guests on the machines of the next input, when no two inputs share one:
\* the innermost call has taken the same test before.
LEMMA KnownNext ==
  ASSUME NEW S \in Seq(Frame), S # <<>>, NEW v, NEW x, NEW R, Ready(S, v, x),
         Good(S, v, R), GoodSep(S, v, R), NEW g \in Known(v, R),
         g.source \in Machines[x]
  PROVE  x \in Tests /\ \E k \in 1..Len(S[Len(S)].args) : From(S[Len(S)], k) = x
<1>1. PICK n \in Nat \ {0} : n = Len(S)
  BY TopIndices
<1>2. n \in 1..n /\ \A i \in 1..n : i = n \/ i \in 1..n - 1
  BY <1>1, TopIndices
<1>3. \A i \in 1..n : S[i].at = "args" /\ Separate[S[i].node]
  <2>1. S[n].at = "args" /\ \A i \in 1..n - 1 : S[i].at = "args"
    BY <1>1 DEF Ready, Chain, Waits
  <2>2. \A i \in 1..n : Separate[S[i].node]
    BY <1>1 DEF GoodSep
  <2>3. QED
    BY <1>2, <2>1, <2>2
<1>4. PICK i \in 1..n : g.source \in Covered(S[i])
  BY <1>1 DEF Good, CoverOK
<1>5. PICK k \in 1..Len(S[i].args) : g.source \in Machines[From(S[i], k)]
  BY <1>3, <1>4 DEF Covered, Taken
<1>6. \/ Machines[From(S[i], k)] \cap Machines[x] = {}
      \/ i = Len(S) /\ From(S[i], k) = x /\ x \in Tests
  BY <1>1, <1>3, NextApart
<1>7. QED
  BY <1>5, <1>6

\* Recall: the next input has its value in the memo.
LEMMA RecallData ==
  ASSUME DataInv, NEW r \in Runs, Recall(r)
  PROVE  DataInv'
<1>1. /\ TypeOK /\ RunOK(r) /\ phase[r] = "going" /\ stack[r] # <<>>
      /\ Top(r) \in Frame /\ Top(r) = stack[r][Len(stack[r])]
  BY TopTyped DEF DataInv, Recall, At
<1>2. PICK S \in Seq(Frame) : S = stack[r]
  BY <1>1, Typed
<1>3. PICK v \in Memo : v = values[r]
  BY <1>1, Typed
<1>4. PICK R : R = runtimes[r]
  OBVIOUS
<1>5. PICK f \in Frame : f = Top(r) /\ f = S[Len(S)]
  BY <1>1, <1>2
<1>6. PICK x : x = NextInput(f).node
  OBVIOUS
<1>7. PICK h : h = Take(f, v[x])
  OBVIOUS
<1>8. /\ phase' = phase /\ outcome' = outcome /\ values' = values /\ runtimes' = runtimes
      /\ lock' = lock /\ store' = store /\ qemu' = qemu /\ faults' = faults
      /\ leaked' = leaked /\ saves' = saves /\ over' = over
      /\ Becomes(r, h) /\ v[x] # <<>> /\ Waits(f)
  BY <1>3, <1>5, <1>6, <1>7 DEF Recall, At, Waits
<1>9. Good(S, v, R) /\ (Separate[Target[r]] => GoodSep(S, v, R)) /\ S # <<>>
  BY <1>1, <1>2, <1>3, <1>4 DEF RunOK
<1>10. Ready(S, v, x)
  BY <1>5, <1>6, <1>8, <1>9 DEF Ready, Good
<1>11. x \in Nodes /\ FrameOK(f) /\ Placed(v)
  <2>1. Len(S) \in 1..Len(S)
    BY <1>9, TopIndices
  <2>2. QED
    BY <1>5, <1>6, <1>8, <1>9, <2>1, NextNode DEF Good
<1>12. h \in Frame /\ h.node = f.node
  <2>1. PICK c \in Seq(Guest) : c = v[x]
    BY <1>11 DEF Memo
  <2>2. \A g \in ToSet(c) : g.source \in Machines[x]
    BY <1>11, <2>1 DEF Placed
  <2>3. QED
    BY <1>6, <1>7, <1>8, <1>11, <2>1, <2>2, TakeFrame
<1>13. /\ stack' \in [Runs -> Seq(Frame)] /\ stack'[r] # <<>>
       /\ TopBecomes(S, stack'[r], h)
       /\ \A q \in Runs : q # r => stack'[q] = stack[q]
  BY <1>1, <1>2, <1>5, <1>8, <1>12, BecomesTop
<1>14. TypeOK'
  BY <1>1, <1>8, <1>13 DEF TypeOK
<1>15. Takes(S, stack'[r], x, v)
  BY <1>5, <1>7, <1>13 DEF Takes
<1>16. Resolves(S, v, x, v, R)
  <2>1. \A i \in 1..Len(S) : S[i].node # x
    BY <1>8, <1>9 DEF Good, Pending
  <2>2. \A g \in Known(v, R) : \E i \in 1..Len(S) : g.source \in Covered(S[i])
    BY <1>9 DEF Good, CoverOK
  <2>3. QED
    BY <1>8, <1>11, <2>1, <2>2 DEF Resolves
<1>17. ASSUME Separate[Target[r]]
       PROVE  GoodSep(S, v, R) /\ Updates(v, x, v, R, R)
  <2>1. GoodSep(S, v, R)
    BY <1>9, <1>17
  <2>2. ASSUME NEW g \in ToSet(v[x])
        PROVE  g \in ToSet(R) /\ g.stage = x
    <3>1. g \in Known(v, R) /\ g.source \in Machines[x]
      BY <1>11, <2>2 DEF Known, Placed
    <3>2. PICK k \in 1..Len(S[Len(S)].args) : From(S[Len(S)], k) = x
      BY <1>9, <1>10, <2>1, <3>1, KnownNext
    <3>3. Len(S) \in 1..Len(S)
      BY <1>9, TopIndices
    <3>4. LiveFrame(f, v, R)
      BY <1>5, <1>8, <2>1, <3>3 DEF GoodSep, Live, Waits
    <3>5. k \in 1..Len(f.args) /\ g \in ToSet(v[From(f, k)]) /\ From(f, k) = x
      BY <1>5, <2>2, <3>2
    <3>6. g \in ToSet(R) /\ g.stage = From(f, k)
      BY <3>4, <3>5 DEF LiveFrame
    <3>7. QED
      BY <3>5, <3>6
  <2>3. Updates(v, x, v, R, R)
    BY <2>2 DEF Updates
  <2>4. QED
    BY <2>1, <2>3
<1>18. RunOK(r)'
  <2>1. values'[r] = v /\ runtimes'[r] = R /\ OneEach(R)
    BY <1>1, <1>3, <1>4, <1>8 DEF RunOK
  <2>2. ProcessesOf(r)' = ProcessesOf(r) /\ runtimes'[r] = runtimes[r]
    BY <1>8 DEF ProcessesOf
  <2>3. Takes(S, stack'[r], x, values'[r]) /\ values'[r] \in Memo
        /\ Resolves(S, v, x, values'[r], runtimes'[r]) /\ OneEach(runtimes'[r])
    BY <1>3, <1>15, <1>16, <2>1
  <2>4. \/ ~Separate[Target[r]]
        \/ GoodSep(S, v, R) /\ Updates(v, x, values'[r], R, runtimes'[r])
    BY <1>17, <2>1
  <2>5. ProcessesOf(r) = Processes(r, ToSet(runtimes[r])) =>
          ProcessesOf(r)' = Processes(r, ToSet(runtimes'[r]))
    BY <2>2
  <2>6. QED
    BY <1>1, <1>8, <1>9, <1>10, <1>13, <2>3, <2>4, <2>5, TakeMoves
<1>19. OthersSame(r)
  BY <1>8, <1>13 DEF OthersSame, ProcessesOf
<1>20. QED
  BY <1>14, <1>18, <1>19, OneRun

\* A guest takes the place of the one on its machine, if there is one.
LEMMA PlacedGuest ==
  ASSUME NEW R \in Seq(Guest), OneEach(R), NEW g \in Guest,
         NEW Q, Q = IF {k \in ToSet(R) : k.source = g.source} = {} THEN Append(R, g)
                    ELSE [i \in DOMAIN R |-> IF R[i].source = g.source THEN g ELSE R[i]]
  PROVE  /\ Q \in Seq(Guest) /\ OneEach(Q) /\ g \in ToSet(Q)
         /\ ToSet(Q) = {k \in ToSet(R) : k.source # g.source} \cup {g}
<1>1. /\ ToSet(R) = {R[i] : i \in 1..Len(R)} /\ DOMAIN R = 1..Len(R) /\ Len(R) \in Nat
      /\ \A i \in 1..Len(R) : R[i] \in Guest
  BY Elements, ElementOfSeq
<1>2. CASE {k \in ToSet(R) : k.source = g.source} = {}
  <2>1. \A k \in ToSet(R) : k.source # g.source
    BY <1>2
  <2>2. /\ Append(R, g) \in Seq(Guest) /\ OneEach(Append(R, g))
        /\ ToSet(Append(R, g)) = ToSet(R) \cup {g}
    BY <2>1, AddedGuest
  <2>3. Q = Append(R, g)
    BY <1>2
  <2>4. QED
    BY <2>1, <2>2, <2>3
<1>3. CASE {k \in ToSet(R) : k.source = g.source} # {}
  <2>1. PICK m \in 1..Len(R) : R[m].source = g.source
    BY <1>1, <1>3
  <2>2. Q = [i \in 1..Len(R) |-> IF R[i].source = g.source THEN g ELSE R[i]]
    BY <1>1, <1>3
  <2>3. /\ Q \in Seq(Guest) /\ Len(Q) = Len(R)
        /\ \A i \in 1..Len(R) : Q[i] = IF R[i].source = g.source THEN g ELSE R[i]
    <3>1. PICK n \in Nat : n = Len(R)
      BY <1>1
    <3>2. Q = [i \in 1..n |-> IF R[i].source = g.source THEN g ELSE R[i]]
      BY <2>2, <3>1
    <3>3. \A i \in 1..n : R[i] \in Guest
      BY <1>1, <3>1
    <3>4. \A i \in 1..n : (IF R[i].source = g.source THEN g ELSE R[i]) \in Guest
      BY <3>3
    <3>5. Q \in [1..n -> Guest]
      BY <3>2, <3>4
    <3>6. Q \in Seq(Guest) /\ Len(Q) = n
      BY <3>5
    <3>7. QED
      BY <3>1, <3>2, <3>6
  <2>4. \A i \in 1..Len(R) : Q[i].source = R[i].source
    BY <2>3
  <2>5. OneEach(Q)
    BY <2>3, <2>4 DEF OneEach
  <2>6. ToSet(Q) = {Q[i] : i \in 1..Len(R)}
    <3>1. PICK c \in Seq(Guest) : c = Q
      BY <2>3
    <3>2. ToSet(c) = {c[i] : i \in 1..Len(c)}
      BY Elements
    <3>3. QED
      BY <2>3, <3>1, <3>2
  <2>7. Q[m] = g
    BY <2>1, <2>3
  <2>8. ASSUME NEW i \in 1..Len(R)
        PROVE  Q[i] \in {k \in ToSet(R) : k.source # g.source} \cup {g}
    BY <1>1, <2>3
  <2>9. ASSUME NEW k \in ToSet(R), k.source # g.source
        PROVE  k \in ToSet(Q)
    <3>1. PICK i \in 1..Len(R) : k = R[i]
      BY <1>1
    <3>2. Q[i] = k
      BY <2>3, <2>9, <3>1
    <3>3. QED
      BY <2>6, <3>2
  <2>10. g \in ToSet(Q)
    BY <2>6, <2>7
  <2>11. ToSet(Q) = {k \in ToSet(R) : k.source # g.source} \cup {g}
    <3>1. PICK Z : Z = {k \in ToSet(R) : k.source # g.source} \cup {g}
      OBVIOUS
    <3>2. \A i \in 1..Len(R) : Q[i] \in Z
      BY <2>8, <3>1
    <3>3. \A k \in Z : k \in ToSet(Q)
      BY <2>9, <2>10, <3>1
    <3>4. ToSet(Q) = Z
      BY <2>6, <3>2, <3>3
    <3>5. QED
      BY <3>1, <3>4
  <2>12. QED
    BY <2>3, <2>5, <2>10, <2>11
<1>4. QED
  BY <1>2, <1>3

\* Boot: the next input is a source, its guest is started.
LEMMA BootData ==
  ASSUME DataInv, NEW r \in Runs, NEW s \in Sources, Boot(r, s)
  PROVE  DataInv'
<1>1. /\ TypeOK /\ RunOK(r) /\ phase[r] = "going" /\ stack[r] # <<>>
      /\ Top(r) \in Frame /\ Top(r) = stack[r][Len(stack[r])]
  BY TopTyped DEF DataInv, Boot, Unresolved, At
<1>2. PICK S \in Seq(Frame) : S = stack[r]
  BY <1>1, Typed
<1>3. PICK v \in Memo : v = values[r]
  BY <1>1, Typed
<1>4. PICK R \in Seq(Guest) : R = runtimes[r]
  BY <1>1, Typed
<1>5. PICK f \in Frame : f = Top(r) /\ f = S[Len(S)]
  BY <1>1, <1>2
<1>6. PICK g : g = [source |-> s, stage |-> s]
  OBVIOUS
<1>7. g \in Guest /\ g.source = s /\ g.stage = s /\ s \in Nodes /\ Machines[s] = {s}
  BY <1>6, MachinesUnfold DEF Guest, Nodes
<1>8. PICK h : h = Take(f, <<g>>)
  OBVIOUS
<1>9. PICK Q : Q = runtimes'[r]
  OBVIOUS
<1>10. PICK w : w = values'[r]
  OBVIOUS
<1>11. /\ phase' = phase /\ outcome' = outcome
       /\ lock' = lock /\ store' = store /\ qemu' = qemu \cup {<<r, g>>} /\ faults' = faults
       /\ leaked' = leaked /\ saves' = saves /\ over' = over
       /\ Becomes(r, h) /\ v[s] = <<>> /\ Waits(f) /\ s = NextInput(f).node
       /\ values' = [values EXCEPT ![r][s] = <<g>>]
       /\ runtimes' = [runtimes EXCEPT ![r] =
            IF Of(r, s) = {} THEN Append(@, g)
            ELSE [i \in DOMAIN @ |-> IF @[i].source = s THEN g ELSE @[i]]]
  BY <1>3, <1>5, <1>6, <1>8 DEF Boot, Unresolved, At, Waits
<1>12. /\ Q = IF Of(r, s) = {} THEN Append(R, g)
              ELSE [i \in DOMAIN R |-> IF R[i].source = s THEN g ELSE R[i]]
       /\ \A q \in Runs : q # r => runtimes'[q] = runtimes[q]
  <2>1. runtimes \in [Runs -> Seq(Guest)]
    BY <1>1 DEF TypeOK
  <2>2. QED
    BY <1>4, <1>9, <1>11, <2>1
<1>13. OneEach(R) /\ Of(r, s) = {k \in ToSet(R) : k.source = s}
  BY <1>1, <1>4 DEF RunOK, Of
<1>14. /\ Q \in Seq(Guest) /\ OneEach(Q) /\ g \in ToSet(Q)
       /\ ToSet(Q) = {k \in ToSet(R) : k.source # s} \cup {g}
  <2>1. Q = IF {k \in ToSet(R) : k.source = g.source} = {} THEN Append(R, g)
            ELSE [i \in DOMAIN R |-> IF R[i].source = g.source THEN g ELSE R[i]]
    BY <1>7, <1>12, <1>13
  <2>2. /\ Q \in Seq(Guest) /\ OneEach(Q) /\ g \in ToSet(Q)
        /\ ToSet(Q) = {k \in ToSet(R) : k.source # g.source} \cup {g}
    BY <1>7, <1>13, <2>1, PlacedGuest
  <2>3. QED
    BY <1>7, <2>2
<1>15. /\ w \in Memo /\ w[s] = <<g>> /\ \A n \in Nodes : n # s => w[n] = v[n]
       /\ \A q \in Runs : q # r => values'[q] = values[q]
       /\ values' \in [Runs -> [Nodes -> Seq(Guest)]]
  <2>1. values \in [Runs -> [Nodes -> Seq(Guest)]]
    BY <1>1 DEF TypeOK
  <2>2. <<g>> \in Seq(Guest)
    BY <1>7
  <2>3. w = [v EXCEPT ![s] = <<g>>] /\ \A q \in Runs : q # r => values'[q] = values[q]
    BY <1>3, <1>10, <1>11, <2>1
  <2>4. w \in [Nodes -> Seq(Guest)] /\ w[s] = <<g>> /\ \A n \in Nodes : n # s => w[n] = v[n]
    BY <1>7, <2>2, <2>3 DEF Memo
  <2>5. values' \in [Runs -> [Nodes -> Seq(Guest)]]
    BY <1>11, <2>1, <2>2
  <2>6. QED
    BY <2>3, <2>4, <2>5 DEF Memo
<1>16. ToSet(<<g>>) = {g} /\ <<g>> \in Seq(Guest) /\ <<g>> # <<>>
  <2>1. PICK b : b = <<g>>
    OBVIOUS
  <2>2. b \in Seq(Guest) /\ Len(b) = 1 /\ b[1] = g /\ b # <<>>
    BY <1>7, <2>1
  <2>3. ToSet(b) = {b[i] : i \in 1..1}
    BY <2>2, Elements
  <2>4. 1..1 = {1}
    OBVIOUS
  <2>5. QED
    BY <2>1, <2>2, <2>3, <2>4
<1>17. Good(S, v, R) /\ (Separate[Target[r]] => GoodSep(S, v, R)) /\ S # <<>>
  BY <1>1, <1>2, <1>3, <1>4 DEF RunOK
<1>18. Ready(S, v, s) /\ FrameOK(f) /\ Placed(v)
  <2>1. Len(S) \in 1..Len(S)
    BY <1>17, TopIndices
  <2>2. QED
    BY <1>5, <1>11, <1>17, <2>1 DEF Ready, Good
<1>19. h \in Frame /\ h.node = f.node
  <2>1. PICK b \in Seq(Guest) : b = <<g>> /\ \A k \in ToSet(b) : k.source \in Machines[s]
    BY <1>7, <1>16
  <2>2. h = Take(f, b)
    BY <1>8, <2>1
  <2>3. Waits(f) /\ FrameOK(f) /\ s = NextInput(f).node
    BY <1>11, <1>18
  <2>4. \A k \in ToSet(b) : k.source \in Machines[s]
    BY <2>1
  <2>5. QED
    BY <2>2, <2>3, <2>4, TakeFrame
<1>20. /\ stack' \in [Runs -> Seq(Frame)] /\ stack'[r] # <<>>
       /\ TopBecomes(S, stack'[r], h)
       /\ \A q \in Runs : q # r => stack'[q] = stack[q]
  BY <1>1, <1>2, <1>5, <1>11, <1>19, BecomesTop
<1>21. TypeOK'
  <2>1. runtimes \in [Runs -> Seq(Guest)] /\ qemu \subseteq Runs \X Guest
    BY <1>1 DEF TypeOK
  <2>2. runtimes' \in [Runs -> Seq(Guest)]
    <3>1. runtimes' = [q \in Runs |-> runtimes'[q]]
      BY <1>11, <2>1
    <3>2. QED
      BY <1>9, <1>12, <1>14, <2>1, <3>1
  <2>3. qemu' \subseteq Runs \X Guest
    BY <1>7, <1>11, <2>1
  <2>4. QED
    BY <1>1, <1>11, <1>15, <1>20, <2>2, <2>3 DEF TypeOK
<1>22. Takes(S, stack'[r], s, w)
  BY <1>5, <1>8, <1>15, <1>20 DEF Takes
<1>23. \A i \in 1..Len(S) : S[i].node # s
  <2>1. \A i \in 1..Len(S) : S[i] \in Frame
    BY <1>17, TopIndices
  <2>2. QED
    BY <2>1, FrameTyped, ExecutorAssumption
<1>24. Placed(w) /\ \A n \in Nodes : \A k \in ToSet(w[n]) : k \in ToSet(v[n]) \/ k = g
  <2>1. \A n \in Nodes : \A k \in ToSet(w[n]) : k \in ToSet(v[n]) \/ k = g
    BY <1>15, <1>16
  <2>2. ASSUME NEW n \in Nodes, NEW k \in ToSet(w[n])
        PROVE  k.source \in Machines[n]
    <3>1. CASE n = s
      BY <1>7, <1>15, <1>16, <2>2, <3>1
    <3>2. CASE n # s
      BY <1>15, <1>18, <2>2, <3>2 DEF Placed
    <3>3. QED
      BY <3>1, <3>2
  <2>3. QED
    BY <2>1, <2>2 DEF Placed
<1>25. Resolves(S, v, s, w, Q)
  <2>1. ASSUME NEW k \in Known(w, Q)
        PROVE  \/ k.source \in Machines[s]
               \/ \E i \in 1..Len(S) : k.source \in Covered(S[i])
    <3>1. k = g \/ k \in Known(v, R)
      BY <1>14, <1>24, <2>1 DEF Known
    <3>2. k \in Known(v, R) => \E i \in 1..Len(S) : k.source \in Covered(S[i])
      BY <1>17 DEF Good, CoverOK
    <3>3. QED
      BY <1>7, <3>1, <3>2
  <2>2. \A n \in Nodes : n # s => (w[n] = <<>> <=> v[n] = <<>>)
    BY <1>15
  <2>3. w[s] # <<>>
    BY <1>15, <1>16
  <2>4. QED
    BY <1>23, <1>24, <2>1, <2>2, <2>3 DEF Resolves
<1>26. Updates(v, s, w, R, Q)
  <2>1. \A n \in Nodes : \A k \in ToSet(w[n]) : k \in ToSet(v[n]) \/ k.source \in Machines[s]
    BY <1>7, <1>24
  <2>2. \A k \in ToSet(R) : k \in ToSet(Q) \/ k.source \in Machines[s]
    BY <1>7, <1>14
  <2>3. \A k \in ToSet(w[s]) : k \in ToSet(Q) /\ k.stage = s
    BY <1>7, <1>14, <1>15, <1>16
  <2>4. QED
    BY <1>11, <2>1, <2>2, <2>3 DEF Updates
<1>27. ASSUME Separate[Target[r]]
       PROVE  ProcessesOf(r) = Processes(r, ToSet(R)) =>
                ProcessesOf(r)' = Processes(r, ToSet(Q))
  <2>1. ASSUME NEW k \in ToSet(R)
        PROVE  k.source # s
    <3>1. SUFFICES ASSUME k.source = s
                   PROVE  FALSE
      OBVIOUS
    <3>2. k \in Known(v, R) /\ k.source \in Machines[s]
      BY <1>7, <2>1, <3>1 DEF Known
    <3>3. GoodSep(S, v, R)
      BY <1>17, <1>27
    <3>4. s \in Tests
      BY <1>17, <1>18, <3>2, <3>3, KnownNext
    <3>5. QED
      BY <3>4, ExecutorAssumption
  <2>2. ToSet(Q) = ToSet(R) \cup {g}
    BY <1>14, <2>1
  <2>3. ProcessesOf(r)' = ProcessesOf(r) \cup {<<r, g>>}
    BY <1>11 DEF ProcessesOf
  <2>4. QED
    BY <2>2, <2>3 DEF Processes
<1>28. RunOK(r)'
  <2>1. Takes(S, stack'[r], s, values'[r]) /\ values'[r] \in Memo
        /\ Resolves(S, v, s, values'[r], runtimes'[r]) /\ OneEach(runtimes'[r])
    BY <1>9, <1>10, <1>14, <1>15, <1>22, <1>25
  <2>2. \/ ~Separate[Target[r]]
        \/ GoodSep(S, v, R) /\ Updates(v, s, values'[r], R, runtimes'[r])
    BY <1>9, <1>10, <1>17, <1>26
  <2>3. ~Separate[Target[r]] \/
          (ProcessesOf(r) = Processes(r, ToSet(runtimes[r])) =>
             ProcessesOf(r)' = Processes(r, ToSet(runtimes'[r])))
    BY <1>4, <1>9, <1>27
  <2>4. QED
    BY <1>1, <1>11, <1>17, <1>18, <1>20, <2>1, <2>2, <2>3, TakeMoves
<1>29. OthersSame(r)
  <2>1. qemu' = (qemu \ Processes(r, {})) \cup Processes(r, {g})
    BY <1>11 DEF Processes
  <2>2. \A q \in Runs : q # r => ProcessesOf(q)' = ProcessesOf(q)
    BY <2>1, OthersProcesses
  <2>3. QED
    BY <1>11, <1>12, <1>15, <1>20, <2>2 DEF OthersSame
<1>30. QED
  BY <1>21, <1>28, <1>29, OneRun

\* The innermost of the calls S restored x and returns, C are left.
Returns(S, C, x) ==
  /\ Len(S) \in Nat \ {0, 1} /\ S[Len(S)].at = "restore" /\ x = S[Len(S)].node
  /\ \A i \in 1..Len(S) - 1 : S[i].node # x
  /\ Len(C) = Len(S) - 1 /\ \A i \in 1..Len(S) - 1 : C[i] = S[i]

\* The call of x returns: the calls left wait for x, and every guest known is on
\* a machine of x or of a call left.
LEMMA CallReturns ==
  ASSUME NEW S \in Seq(Frame), NEW C \in Seq(Frame), NEW x, Returns(S, C, x),
         NEW v, NEW R, Good(S, v, R)
  PROVE  /\ C # <<>> /\ Ready(C, v, x) /\ (GoodSep(S, v, R) => GoodSep(C, v, R))
         /\ \A g \in Known(v, R) : \/ g.source \in Machines[x]
                                   \/ \E i \in 1..Len(C) : g.source \in Covered(C[i])
<1>a. PICK n \in Nat \ {0, 1} :
        /\ n = Len(S) /\ S[n].at = "restore" /\ x = S[n].node
        /\ \A i \in 1..n - 1 : S[i].node # x
        /\ Len(C) = n - 1 /\ \A i \in 1..n - 1 : C[i] = S[i]
  BY DEF Returns
<1>1. PICK m \in Nat \ {0} : m = n - 1
  <2>1. n \in Nat /\ n # 0 /\ n # 1
    BY <1>a
  <2>2. n - 1 \in Nat \ {0}
    BY <2>1
  <2>3. QED
    BY <2>2
<1>2. /\ n = m + 1 /\ m \in 1..m /\ n \in 1..n /\ Len(C) = m
      /\ \A i \in 1..n : i = n \/ i \in 1..m
      /\ \A i \in 1..m : i \in 1..n /\ i \in 1..n - 1
      /\ \A i \in 1..m - 1 : i \in 1..m /\ i + 1 \in 1..m
  BY <1>a, <1>1
<1>3. \A i \in 1..m : C[i] = S[i]
  BY <1>a, <1>1
<1>4. /\ \A i \in 1..m : /\ S[i].at = "args" /\ Len(S[i].args) < Len(Inputs[S[i].node])
                         /\ S[i + 1].node = From(S[i], Len(S[i].args) + 1)
      /\ \A i, j \in 1..n : i < j => Machines[S[j].node] \subseteq Machines[S[i].node]
  BY <1>a, <1>1 DEF Good, Chain
<1>5. Chain(C)
  <2>1. \A i \in 1..m - 1 : /\ C[i].at = "args" /\ Len(C[i].args) < Len(Inputs[C[i].node])
                            /\ C[i + 1].node = From(C[i], Len(C[i].args) + 1)
    BY <1>2, <1>3, <1>4
  <2>2. \A i, j \in 1..m : i < j => Machines[C[j].node] \subseteq Machines[C[i].node]
    BY <1>2, <1>3, <1>4
  <2>3. QED
    BY <1>2, <2>1, <2>2 DEF Chain
<1>6. Pending(C, v) /\ \A i \in 1..Len(C) : FrameOK(C[i])
  <2>1. \A i \in 1..n : /\ v[S[i].node] = <<>>
                        /\ S[i].at = "args" => \A k \in Taken(S[i]) : v[k] # <<>>
    BY <1>a DEF Good, Pending
  <2>2. \A i \in 1..n : FrameOK(S[i])
    BY <1>a DEF Good
  <2>3. QED
    BY <1>2, <1>3, <2>1, <2>2 DEF Pending
<1>7. Waits(C[m]) /\ x = NextInput(C[m]).node
  <2>1. C[m] = S[m]
    BY <1>2, <1>3
  <2>2. Waits(S[m])
    BY <1>2, <1>4 DEF Waits
  <2>3. x = From(S[m], Len(S[m].args) + 1)
    BY <1>a, <1>2, <1>4
  <2>4. QED
    BY <2>1, <2>2, <2>3 DEF From, NextInput
<1>8. Ready(C, v, x)
  BY <1>2, <1>5, <1>6, <1>7 DEF Ready
<1>9. GoodSep(S, v, R) => GoodSep(C, v, R)
  BY <1>a, <1>2, <1>3 DEF GoodSep, Live
<1>10. ASSUME NEW g \in Known(v, R)
       PROVE  \/ g.source \in Machines[x]
              \/ \E i \in 1..m : g.source \in Covered(C[i])
  <2>1. PICK i \in 1..n : g.source \in Covered(S[i])
    BY <1>a DEF Good, CoverOK
  <2>2. CASE i = n
    BY <1>a, <2>1, <2>2 DEF Covered
  <2>3. CASE i \in 1..m
    BY <1>3, <2>1, <2>3
  <2>4. QED
    BY <1>2, <2>2, <2>3
<1>11. C # <<>>
  <2>1. Len(<<>>) = 0
    OBVIOUS
  <2>2. QED
    BY <1>2, <2>1
<1>12. QED
  BY <1>2, <1>8, <1>9, <1>10, <1>11

\* What is remembered after a restore: the value of the test, and in the other
\* values the guests on the machines it was restored on.
RestoredValue(f) ==
  [i \in DOMAIN Descriptor[f.node] |->
     [source |-> Descriptor[f.node][i], stage |-> f.node]]

\* The guests restored are those of the test, each on one of its machines.
LEMMA ValueOfRestore ==
  ASSUME NEW f \in Frame
  PROVE  /\ RestoredValue(f) \in Seq(Guest) /\ RestoredValue(f) # <<>>
         /\ \A g \in ToSet(RestoredValue(f)) :
              /\ g.source \in ToSet(Descriptor[f.node]) /\ g.source \in Machines[f.node]
              /\ g = [source |-> g.source, stage |-> f.node]
<1>1. f.node \in Nodes
  BY FrameTyped
<1>2. PICK d \in Seq(Sources) : /\ d = Descriptor[f.node] /\ d # <<>>
                                /\ ToSet(d) \subseteq Machines[f.node]
  BY <1>1, DescriptorFits
<1>3. PICK n \in Nat : n = Len(d) /\ DOMAIN d = 1..n /\ ToSet(d) = {d[i] : i \in 1..n}
  BY Elements
<1>4. \A i \in 1..n : d[i] \in Sources
  BY <1>3, ElementOfSeq
<1>5. PICK q : q = RestoredValue(f)
  OBVIOUS
<1>6. q = [i \in 1..n |-> [source |-> d[i], stage |-> f.node]]
  BY <1>2, <1>3, <1>5 DEF RestoredValue
<1>7. q \in [1..n -> Guest]
  BY <1>1, <1>4, <1>6 DEF Guest
<1>8. q \in Seq(Guest) /\ Len(q) = n
  BY <1>7
<1>9. ToSet(q) = {q[i] : i \in 1..n}
  BY <1>8, Elements
<1>10. n # 0
  BY <1>2, <1>3, EmptySeq
<1>11. q # <<>>
  BY <1>8, <1>10, EmptySeq
<1>12. ASSUME NEW g \in ToSet(q)
       PROVE  /\ g.source \in ToSet(d) /\ g = [source |-> g.source, stage |-> f.node]
  <2>1. PICK i \in 1..n : g = q[i]
    BY <1>9
  <2>2. g = [source |-> d[i], stage |-> f.node]
    BY <1>6, <2>1
  <2>3. g.source = d[i]
    BY <2>2
  <2>4. QED
    BY <1>3, <2>2, <2>3
<1>13. QED
  BY <1>2, <1>5, <1>8, <1>11, <1>12

\* A value whose guests were replaced has guests on the same machines.
LEMMA ReplacedFits ==
  ASSUME NEW f \in Frame, NEW c \in Seq(Guest)
  PROVE  /\ Replaced(c, f) \in Seq(Guest) /\ (Replaced(c, f) = <<>> <=> c = <<>>)
         /\ \A g \in ToSet(Replaced(c, f)) :
              /\ \E k \in ToSet(c) : k.source = g.source
              /\ g \in ToSet(c) \/ g.source \in Machines[f.node]
<1>1. f.node \in Nodes
  BY FrameTyped
<1>2. PICK D : D = ToSet(Descriptor[f.node]) /\ D \subseteq Machines[f.node]
  BY <1>1, DescriptorFits
<1>3. PICK n \in Nat : n = Len(c) /\ DOMAIN c = 1..n /\ ToSet(c) = {c[i] : i \in 1..n}
  BY Elements
<1>4. \A i \in 1..n : c[i] \in Guest
  BY <1>3, ElementOfSeq
<1>5. PICK q : q = Replaced(c, f)
  OBVIOUS
<1>6. q = [i \in 1..n |-> IF c[i].source \in D
             THEN [source |-> c[i].source, stage |-> f.node] ELSE c[i]]
  BY <1>2, <1>3, <1>5 DEF Replaced
<1>7. \A i \in 1..n : (IF c[i].source \in D
        THEN [source |-> c[i].source, stage |-> f.node] ELSE c[i]) \in Guest
  BY <1>1, <1>4 DEF Guest
<1>8. q \in [1..n -> Guest]
  BY <1>6, <1>7
<1>9. q \in Seq(Guest) /\ Len(q) = n
  BY <1>8
<1>10. ToSet(q) = {q[i] : i \in 1..n}
  BY <1>9, Elements
<1>11. q = <<>> <=> c = <<>>
  BY <1>3, <1>9, EmptySeq
<1>12. ASSUME NEW g \in ToSet(q)
       PROVE  /\ \E k \in ToSet(c) : k.source = g.source
              /\ g \in ToSet(c) \/ g.source \in Machines[f.node]
  <2>1. PICK i \in 1..n : g = q[i]
    BY <1>10
  <2>2. c[i] \in ToSet(c)
    BY <1>3
  <2>3. CASE c[i].source \in D
    <3>1. g = [source |-> c[i].source, stage |-> f.node]
      BY <1>6, <2>1, <2>3
    <3>2. g.source = c[i].source
      BY <3>1
    <3>3. QED
      BY <1>2, <2>2, <2>3, <3>2
  <2>4. CASE c[i].source \notin D
    BY <1>6, <2>1, <2>2, <2>4
  <2>5. QED
    BY <2>3, <2>4
<1>13. QED
  BY <1>5, <1>9, <1>11, <1>12

\* The call that restores was made by another call, of another test.
LEMMA RestoringIsInner ==
  ASSUME LockInv, TypeOK, NEW r \in Runs, RunOK(r), stack[r] # <<>>,
         Top(r).at = "restore", NEW S \in Seq(Frame), S = stack[r]
  PROVE  /\ Len(S) \in Nat \ {0, 1}
         /\ \A i \in 1..Len(S) - 1 : S[i].node # S[Len(S)].node
<1>1. PICK n \in Nat \ {0} : n = Len(S)
  BY TopIndices
<1>2. /\ n \in 1..n /\ 1 \in 1..n
      /\ \A i \in 1..n - 1 : i \in 1..n /\ i # n
  OBVIOUS
<1>3. S[n].at = "restore"
  BY <1>1, TopTyped
<1>4. n # 1
  <2>1. S[1].node = Target[r]
    BY DEF LockInv, StacksTyped
  <2>2. S[1].node = Target[r] => S[1].at # "restore"
    BY <1>1, <1>2 DEF LockInv, CallsDistinct
  <2>3. QED
    BY <1>3, <2>1, <2>2
<1>5. ASSUME NEW i \in 1..n - 1
      PROVE  S[i].node # S[n].node
  <2>1. S[i].at = "args"
    BY <1>1 DEF RunOK, Good, Chain
  <2>2. S[i].at # "lock" /\ S[n].at # "lock" /\ S[i].node = S[n].node => i = n
    BY <1>1, <1>2 DEF LockInv, CallsDistinct
  <2>3. QED
    BY <1>2, <1>3, <2>1, <2>2
<1>6. QED
  BY <1>1, <1>4, <1>5

\* Restored: the test gets its value, the guests on its machines are replaced in
\* the memo, and the call returns to the one that waits for it.
LEMMA RestoredData ==
  ASSUME LockInv, DataInv, NEW r \in Runs, Restored(r)
  PROVE  DataInv'
<1>1. /\ TypeOK /\ RunOK(r) /\ phase[r] = "going" /\ stack[r] # <<>>
      /\ Top(r) \in Frame /\ Top(r) = stack[r][Len(stack[r])]
  BY TopTyped DEF DataInv, Restored, At
<1>2. PICK S \in Seq(Frame) : S = stack[r]
  BY <1>1, Typed
<1>3. PICK v \in Memo : v = values[r]
  BY <1>1, Typed
<1>4. PICK R \in Seq(Guest) : R = runtimes[r]
  BY <1>1, Typed
<1>5. PICK f \in Frame : f = Top(r) /\ f = S[Len(S)]
  BY <1>1, <1>2
<1>6. PICK x \in Tests : x = f.node
  BY FrameTyped
<1>7. PICK c \in Seq(Guest) : /\ c = RestoredValue(f) /\ c # <<>>
                              /\ \A g \in ToSet(c) :
                                   /\ g.source \in ToSet(Descriptor[x])
                                   /\ g.source \in Machines[x]
                                   /\ g = [source |-> g.source, stage |-> x]
  BY <1>6, ValueOfRestore
<1>8. PICK C : C = Front(S)
  OBVIOUS
<1>9. PICK h : h = Take(Last(C), c)
  OBVIOUS
<1>10. /\ phase' = phase /\ outcome' = outcome /\ runtimes' = runtimes
       /\ store' = store /\ qemu' = qemu /\ faults' = faults
       /\ leaked' = leaked /\ saves' = saves /\ over' = over
       /\ f.at = "restore" /\ f.done = Len(Restoring(f))
       /\ lock' = [lock EXCEPT ![x] = NoRun]
       /\ stack' = [stack EXCEPT ![r] = Append(Front(C), h)]
       /\ values' = [values EXCEPT ![r] =
            [m \in Nodes |-> IF m = x THEN c ELSE Replaced(@[m], f)]]
  BY <1>2, <1>5, <1>6, <1>7, <1>8, <1>9 DEF Restored, At, RestoredValue
<1>11. PICK n \in Nat \ {0, 1} : n = Len(S) /\ \A i \in 1..n - 1 : S[i].node # x
  BY <1>1, <1>2, <1>5, <1>6, <1>10, RestoringIsInner
<1>12. C \in Seq(Frame) /\ Len(C) = n - 1 /\ \A i \in 1..n - 1 : C[i] = S[i]
  <2>1. S # <<>>
    BY <1>1, <1>2
  <2>2. QED
    BY <1>8, <1>11, <2>1, FrontOfStack
<1>13. Good(S, v, R) /\ (Separate[Target[r]] => GoodSep(S, v, R))
  BY <1>1, <1>2, <1>3, <1>4 DEF RunOK
<1>14. /\ C # <<>> /\ Ready(C, v, x) /\ (GoodSep(S, v, R) => GoodSep(C, v, R))
       /\ \A g \in Known(v, R) : \/ g.source \in Machines[x]
                                 \/ \E i \in 1..Len(C) : g.source \in Covered(C[i])
  <2>1. Returns(S, C, x)
    BY <1>5, <1>6, <1>10, <1>11, <1>12 DEF Returns
  <2>2. QED
    BY <1>12, <1>13, <2>1, CallReturns
<1>15. PICK w : w = [m \in Nodes |-> IF m = x THEN c ELSE Replaced(v[m], f)]
  OBVIOUS
<1>16. \A m \in Nodes : v[m] \in Seq(Guest) /\ \A g \in ToSet(v[m]) : g.source \in Machines[m]
  BY <1>13 DEF Memo, Good, Placed
<1>17. x \in Nodes /\ w[x] = c /\ \A m \in Nodes : m # x => w[m] = Replaced(v[m], f)
  BY <1>15 DEF Nodes
<1>18. \A m \in Nodes : m # x =>
         /\ w[m] \in Seq(Guest) /\ (w[m] = <<>> <=> v[m] = <<>>)
         /\ \A g \in ToSet(w[m]) : /\ \E k \in ToSet(v[m]) : k.source = g.source
                                   /\ g \in ToSet(v[m]) \/ g.source \in Machines[x]
  BY <1>6, <1>16, <1>17, ReplacedFits
<1>19. w \in Memo
  <2>1. \A m \in Nodes : w[m] \in Seq(Guest)
    BY <1>17, <1>18
  <2>2. QED
    BY <1>15, <2>1 DEF Memo
<1>20. values'[r] = w /\ values' \in [Runs -> [Nodes -> Seq(Guest)]]
       /\ \A q \in Runs : q # r => values'[q] = values[q]
  <2>1. values \in [Runs -> [Nodes -> Seq(Guest)]]
    BY <1>1 DEF TypeOK
  <2>2. values' = [values EXCEPT ![r] = w]
    BY <1>3, <1>10, <1>15
  <2>3. QED
    BY <1>19, <2>1, <2>2 DEF Memo
<1>21. Placed(w)
  <2>1. ASSUME NEW m \in Nodes, NEW g \in ToSet(w[m])
        PROVE  g.source \in Machines[m]
    <3>1. CASE m = x
      BY <1>7, <1>17, <2>1, <3>1
    <3>2. CASE m # x
      BY <1>16, <1>18, <2>1, <3>2
    <3>3. QED
      BY <3>1, <3>2
  <2>2. QED
    BY <2>1 DEF Placed
<1>22. Resolves(C, v, x, w, R)
  <2>1. \A i \in 1..Len(C) : C[i].node # x
    BY <1>11, <1>12
  <2>2. ASSUME NEW g \in Known(w, R)
        PROVE  \/ g.source \in Machines[x]
               \/ \E i \in 1..Len(C) : g.source \in Covered(C[i])
    <3>1. CASE g \in ToSet(R)
      BY <1>14, <3>1 DEF Known
    <3>2. ASSUME NEW m \in Nodes, g \in ToSet(w[m])
          PROVE  \/ g.source \in Machines[x]
                 \/ \E i \in 1..Len(C) : g.source \in Covered(C[i])
      <4>1. CASE m = x
        BY <1>21, <3>2, <4>1 DEF Placed
      <4>2. CASE m # x
        <5>1. PICK k \in ToSet(v[m]) : k.source = g.source
          BY <1>18, <3>2, <4>2
        <5>2. k \in Known(v, R)
          BY <5>1 DEF Known
        <5>3. QED
          BY <1>14, <5>1, <5>2
      <4>3. QED
        BY <4>1, <4>2
    <3>3. g \in ToSet(R) \/ \E m \in Nodes : g \in ToSet(w[m])
      BY <2>2 DEF Known
    <3>4. QED
      BY <3>1, <3>2, <3>3
  <2>3. w[x] # <<>> /\ \A m \in Nodes : m # x => (w[m] = <<>> <=> v[m] = <<>>)
    BY <1>7, <1>17, <1>18
  <2>4. QED
    BY <1>21, <2>1, <2>2, <2>3 DEF Resolves
<1>23. Updates(v, x, w, R, R)
  <2>1. ASSUME NEW m \in Nodes, NEW g \in ToSet(w[m])
        PROVE  g \in ToSet(v[m]) \/ g.source \in Machines[x]
    BY <1>18, <1>21, <2>1 DEF Placed
  <2>2. ASSUME NEW g \in ToSet(w[x])
        PROVE  g \in ToSet(R) /\ g.stage = x
    <3>1. /\ g.source \in ToSet(Descriptor[x])
          /\ g = [source |-> g.source, stage |-> x]
      BY <1>7, <1>17, <2>2
    <3>a. ToSet(Descriptor[f.node]) = {Restoring(f)[j] : j \in 1..Len(Restoring(f))}
      BY RestoringFits
    <3>2. PICK j \in 1..Len(Restoring(f)) : Restoring(f)[j] = g.source
      BY <1>6, <3>1, <3>a
    <3>3. j <= f.done
      BY <1>10, <3>2, RestoringFits
    <3>4. [source |-> Restoring(f)[j], stage |-> f.node] \in ToSet(R)
      BY <1>1, <1>4, <1>5, <1>10, <3>3, TopKnows
    <3>5. PICK k : k = [source |-> Restoring(f)[j], stage |-> f.node]
      OBVIOUS
    <3>6. k = g /\ k.stage = x
      BY <1>6, <3>1, <3>2, <3>5
    <3>7. QED
      BY <3>4, <3>5, <3>6
  <2>3. v[x] = <<>>
    BY <1>1, <1>3, <1>5, <1>6, TopKnows
  <2>4. QED
    BY <2>1, <2>2, <2>3 DEF Updates
<1>24. PICK m \in Nat \ {0} : m = Len(C)
  BY <1>12
<1>25. h \in Frame /\ h.node = C[m].node /\ h = Take(C[m], c)
  <2>1. h = Take(C[m], c)
    BY <1>9, <1>24 DEF Last
  <2>2. PICK e \in Frame : e = C[m]
    BY <1>12, <1>14, <1>24, TopIndices
  <2>3. m \in 1..m
    OBVIOUS
  <2>4. Waits(e) /\ FrameOK(e) /\ x = NextInput(e).node
    BY <1>14, <1>24, <2>2, <2>3 DEF Ready
  <2>5. \A g \in ToSet(c) : g.source \in Machines[x]
    BY <1>7
  <2>6. h = Take(e, c)
    BY <2>1, <2>2
  <2>7. QED
    BY <2>1, <2>2, <2>4, <2>5, <2>6, TakeFrame
<1>26. PICK T : T = Append(Front(C), h)
  OBVIOUS
<1>27. T \in Seq(Frame) /\ T # <<>> /\ TopBecomes(C, T, h)
  <2>1. PICK e \in Frame : e = h
    BY <1>25
  <2>2. /\ Append(Front(C), e) \in Seq(Frame \cup {e}) /\ Append(Front(C), e) # <<>>
        /\ Len(Append(Front(C), e)) = Len(C)
        /\ \A i \in 1..Len(C) - 1 : Append(Front(C), e)[i] = C[i]
        /\ Append(Front(C), e)[Len(C)] = e
    BY <1>12, <1>14, ReplacedCall, ZenonT(60)
  <2>3. Frame \cup {e} = Frame
    OBVIOUS
  <2>4. QED
    BY <1>24, <1>25, <1>26, <2>1, <2>2, <2>3 DEF TopBecomes
<1>28. stack'[r] = T /\ stack' \in [Runs -> Seq(Frame)]
       /\ \A q \in Runs : q # r => stack'[q] = stack[q]
  <2>1. stack \in [Runs -> Seq(Frame)]
    BY <1>1 DEF TypeOK
  <2>2. QED
    BY <1>10, <1>26, <1>27, <2>1
<1>29. TypeOK'
  <2>1. lock' \in [Tests -> Runs \cup {NoRun}]
    BY <1>1, <1>10 DEF TypeOK
  <2>2. QED
    BY <1>1, <1>10, <1>20, <1>28, <2>1 DEF TypeOK
<1>30. RunOK(r)'
  <2>1. Takes(C, stack'[r], x, values'[r])
    BY <1>17, <1>20, <1>24, <1>25, <1>27, <1>28 DEF Takes
  <2>2. /\ values'[r] \in Memo /\ Resolves(C, v, x, values'[r], runtimes'[r])
        /\ OneEach(runtimes'[r]) /\ stack'[r] # <<>>
    BY <1>1, <1>4, <1>10, <1>19, <1>20, <1>22, <1>27, <1>28 DEF RunOK
  <2>3. \/ ~Separate[Target[r]]
        \/ GoodSep(C, v, R) /\ Updates(v, x, values'[r], R, runtimes'[r])
    BY <1>4, <1>10, <1>13, <1>14, <1>20, <1>23
  <2>4. ~Separate[Target[r]] \/
          (ProcessesOf(r) = Processes(r, ToSet(runtimes[r])) =>
             ProcessesOf(r)' = Processes(r, ToSet(runtimes'[r])))
    BY <1>10 DEF ProcessesOf
  <2>5. QED
    BY <1>1, <1>10, <1>12, <1>14, <2>1, <2>2, <2>3, <2>4, TakeMoves
<1>31. OthersSame(r)
  BY <1>10, <1>20, <1>28 DEF OthersSame, ProcessesOf
<1>32. QED
  BY <1>29, <1>30, <1>31, OneRun

\* The invariant of the data holds initially.
LEMMA InitData == Init => DataInv
<1>1. SUFFICES ASSUME Init
               PROVE  DataInv
  OBVIOUS
<1>2. /\ stack = [r \in Runs |-> <<Call(Target[r])>>]
      /\ phase = [r \in Runs |-> "going"]
      /\ outcome = [r \in Runs |-> "none"]
      /\ values = [r \in Runs |-> [n \in Nodes |-> <<>>]]
      /\ runtimes = [r \in Runs |-> <<>>]
      /\ lock = [t \in Tests |-> NoRun]
      /\ store \subseteq Tests
      /\ qemu = {} /\ faults = {} /\ leaked = {}
      /\ saves = [t \in Tests |-> 0] /\ over = FALSE
  BY <1>1 DEF Init
<1>3. /\ <<>> \in Seq(Guest) /\ <<>> \in Seq(Seq(Guest)) /\ Len(<<>>) = 0 /\ 1..0 = {}
  BY EmptySeq
<1>4. PICK none \in Seq(Guest) : none = <<>> /\ ToSet(none) = {} /\ Len(none) = 0
  <2>1. PICK none \in Seq(Guest) : none = <<>>
    BY <1>3
  <2>2. ToSet(none) = {none[i] : i \in 1..Len(none)}
    BY Elements
  <2>3. Len(none) = 0
    BY <2>1, EmptySeq
  <2>4. QED
    BY <1>3, <2>1, <2>2, <2>3
<1>5. \A r \in Runs : Call(Target[r]) \in Frame
  BY <1>3, ExecutorAssumption DEF Call, Frame, Places
<1>6. stack \in [Runs -> Seq(Frame)]
  BY <1>2, <1>5
<1>7. values \in [Runs -> [Nodes -> Seq(Guest)]] /\ runtimes \in [Runs -> Seq(Guest)]
  BY <1>2, <1>3
<1>8. TypeOK
  BY <1>2, <1>6, <1>7, ExecutorAssumption DEF TypeOK
<1>9. ASSUME NEW r \in Runs
      PROVE  RunOK(r)
  <2>1. PICK S : S = stack[r]
    OBVIOUS
  <2>2. PICK v \in Memo : v = values[r] /\ \A n \in Nodes : v[n] = none
    BY <1>2, <1>4, <1>7 DEF Memo
  <2>3. PICK f \in Frame : f = Call(Target[r])
    BY <1>5
  <2>4. f.node = Target[r] /\ f.at = "lock" /\ f.args = <<>> /\ f.done = 0
    BY <2>3 DEF Call
  <2>5. Len(S) = 1 /\ S[1] = f /\ S # <<>>
    BY <1>2, <2>1, <2>3
  <2>6. 1..1 = {1} /\ 1..1 - 1 = {}
    OBVIOUS
  <2>7. FrameOK(f)
    <3>1. 0 <= Len(Inputs[f.node])
      BY FrameTyped, InputsTyped
    <3>2. QED
      BY <1>3, <2>4, <3>1 DEF FrameOK
  <2>8. runtimes[r] = none
    BY <1>2, <1>4
  <2>9. Chain(S)
    <3>1. \A i, j \in 1..1 : ~ (i < j)
      OBVIOUS
    <3>2. QED
      BY <2>5, <2>6, <3>1 DEF Chain
  <2>10. Pending(S, v)
    <3>1. f.node \in Nodes
      BY FrameTyped
    <3>2. QED
      BY <1>4, <2>2, <2>4, <2>5, <2>6, <3>1 DEF Pending
  <2>11. Placed(v) /\ CoverOK(S, v, none)
    <3>1. \A n \in Nodes : ToSet(v[n]) = {}
      BY <1>4, <2>2
    <3>2. Known(v, none) = {}
      BY <1>4, <3>1 DEF Known
    <3>3. QED
      BY <3>1, <3>2 DEF Placed, CoverOK
  <2>12. RestoredOK(S, none)
    BY <2>4, <2>5, <2>6 DEF RestoredOK
  <2>13. Good(S, v, none)
    BY <2>5, <2>6, <2>7, <2>9, <2>10, <2>11, <2>12 DEF Good
  <2>14. Separate[Target[r]] => GoodSep(S, v, none)
    BY <2>4, <2>5, <2>6 DEF GoodSep, Live
  <2>15. OneEach(none)
    BY <1>3, <1>4 DEF OneEach
  <2>16. ProcessesOf(r) = Processes(r, ToSet(none))
    BY <1>2, <1>4 DEF ProcessesOf, Processes
  <2>17. phase[r] = "going" /\ r \notin leaked /\ ~over
    BY <1>2
  <2>18. QED
    BY <2>1, <2>2, <2>5, <2>8, <2>13, <2>14, <2>15, <2>16, <2>17 DEF RunOK, Owned
<1>10. QED
  BY <1>8, <1>9 DEF DataInv

\* A step that changes no variable keeps it.
LEMMA StutterData ==
  ASSUME DataInv, UNCHANGED vars
  PROVE  DataInv'
<1>1. /\ stack' = stack /\ phase' = phase /\ outcome' = outcome /\ values' = values
      /\ runtimes' = runtimes /\ lock' = lock /\ store' = store /\ qemu' = qemu
      /\ faults' = faults /\ leaked' = leaked /\ saves' = saves /\ over' = over
  BY DEF vars
<1>2. TypeOK'
  BY <1>1 DEF DataInv, TypeOK
<1>3. ASSUME NEW r \in Runs
      PROVE  RunOK(r)'
  <2>1. RunOK(r)
    BY DEF DataInv
  <2>2. Owned(r)'
    BY <1>1, <2>1 DEF RunOK, Owned, ProcessesOf, Processes
  <2>3. QED
    BY <1>1, <2>1, <2>2 DEF RunOK
<1>4. QED
  BY <1>2, <1>3 DEF DataInv

\* Every step keeps the invariant of the data.
LEMMA NextData == LockInv /\ DataInv /\ [Next]_vars => DataInv'
<1>1. SUFFICES ASSUME LockInv, DataInv, [Next]_vars
               PROVE  DataInv'
  OBVIOUS
<1>2. CASE UNCHANGED vars
  BY <1>1, <1>2, StutterData
<1>3. CASE StopAllInstances
  BY <1>1, <1>3, StopAllData
<1>4. ASSUME NEW r \in Runs, Step(r)
      PROVE  DataInv'
  <2>1. CASE HitTarget(r)
    BY <1>1, <2>1, HitTargetData
  <2>2. CASE Enter(r)
    BY <1>1, <2>2, EnterData
  <2>3. CASE Recall(r)
    BY <1>1, <2>3, RecallData
  <2>4. CASE \E t \in Tests : Descend(r, t)
    BY <1>1, <2>4, DescendData
  <2>5. CASE \E s \in Sources : Boot(r, s)
    BY <1>1, <2>5, BootData
  <2>6. CASE BodyReturns(r)
    BY <1>1, <2>6, BodyReturnsData
  <2>7. CASE SaveMachine(r)
    BY <1>1, <2>7, SaveMachineData
  <2>8. CASE Publish(r)
    BY <1>1, <2>8, PublishData
  <2>9. CASE PublishTarget(r)
    BY <1>1, <2>9, PublishTargetData
  <2>10. CASE RestoreMachine(r)
    BY <1>1, <2>10, RestoreMachineData
  <2>11. CASE Restored(r)
    BY <1>1, <2>11, RestoredData
  <2>12. CASE Collide(r)
    BY <1>1, <2>12, CollideData
  <2>13. CASE Dispose(r)
    BY <1>1, <2>13, DisposeData
  <2>14. CASE End(r)
    BY <1>1, <2>14, EndData
  <2>15. QED
    BY <1>4, <2>1, <2>2, <2>3, <2>4, <2>5, <2>6, <2>7, <2>8, <2>9, <2>10, <2>11,
       <2>12, <2>13, <2>14 DEF Step
<1>5. ASSUME NEW r \in Runs, Fail(r) \/ Cancel(r) \/ DisposeRaises(r)
      PROVE  DataInv'
  BY <1>1, <1>5, FailData, CancelData, DisposeRaisesData
<1>6. QED
  BY <1>1, <1>2, <1>3, <1>4, <1>5 DEF Next

\* The invariant of the data holds throughout.
LEMMA DataInvariant == Spec => []DataInv
BY InitData, NextData, LocksInvariant, PTL DEF Spec

------------------------------------------------------------------------------
(* What the invariant of the data guarantees *)

\* It implies ExecutorInv.
LEMMA DataOwned == DataInv => ExecutorInv
<1>1. SUFFICES ASSUME DataInv
               PROVE  ExecutorInv
  OBVIOUS
<1>2. ASSUME NEW r \in Runs
      PROVE  \/ {p \in qemu : p[1] = r} = Processes(r, ToSet(runtimes[r]))
             \/ r \in leaked \/ over \/ ~Separate[Target[r]]
  BY <1>1 DEF DataInv, RunOK, Owned, ProcessesOf
<1>3. QED
  BY <1>1, <1>2 DEF ExecutorInv, OwnedGuestsRun, DataInv

\* A run owns the QEMU processes it started: while it goes on and when it ends,
\* however it ends, the processes running for it are those of the runtimes it
\* will close, for any graph in which no two inputs of a test share a machine.
\* The exceptions are those of the code: a dispose that raised, and the processes
\* stopped at the end of the session.
THEOREM GuestsOwned == Spec => []ExecutorInv
BY DataInvariant, DataOwned, PTL

\* The invariant of the data implies ArgumentsExact.
LEMMA DataArguments == DataInv => ArgumentsExact
<1>1. SUFFICES ASSUME DataInv, NEW r \in Runs, InBody(r), Separate[Target[r]]
               PROVE  FromInputs(r)
  BY DEF ArgumentsExact
<1>2. /\ TypeOK /\ RunOK(r) /\ phase[r] = "going" /\ stack[r] # <<>> /\ Top(r).at = "args"
  BY <1>1 DEF DataInv, InBody, At
<1>3. PICK f \in Frame : f = Top(r)
  BY <1>2, TopTyped
<1>4. LiveFrame(f, values[r], runtimes[r])
  BY <1>1, <1>2, <1>3, TopKnows
<1>5. ProcessesOf(r) = Processes(r, ToSet(runtimes[r]))
  BY <1>1, <1>2 DEF RunOK, Owned
<1>6. PICK a \in Seq(Seq(Guest)) : a = f.args
  BY FrameTyped
<1>7. DOMAIN a = 1..Len(a) /\ \A i \in 1..Len(a) : a[i] \in Seq(Guest)
  BY Elements, ElementOfSeq
<1>8. ASSUME NEW i \in DOMAIN a, NEW j \in DOMAIN a[i]
      PROVE  <<r, a[i][j]>> \in qemu /\ a[i][j].stage = Inputs[f.node][i].node
  <2>1. PICK c \in Seq(Guest) : c = a[i]
    BY <1>7
  <2>2. c[j] \in ToSet(c)
    BY <2>1, Elements
  <2>3. c[j] \in ToSet(runtimes[r]) /\ c[j].stage = From(f, i)
    BY <1>4, <1>6, <1>7, <2>1, <2>2 DEF LiveFrame
  <2>4. <<r, c[j]>> \in qemu
    BY <1>5, <2>3 DEF ProcessesOf, Processes
  <2>5. QED
    BY <2>1, <2>3, <2>4 DEF From
<1>9. QED
  BY <1>3, <1>6, <1>8 DEF FromInputs

\* The body of a test runs on guests that are running, each in the state its
\* input left: whatever was booted, built or restored before, in whatever order,
\* for any graph in which no two inputs of a test share a machine.
THEOREM ArgumentsFromInputs == Spec => []ArgumentsExact
BY DataInvariant, DataArguments, PTL

------------------------------------------------------------------------------
(* The artifact directories *)

\* A run has started the guest on the machine s that is in the state of n.
MadeIn(S, v, s, n) ==
  \/ v[n] # <<>>
  \/ \E i \in 1..Len(S) :
       /\ S[i].at = "restore" /\ S[i].node = n
       /\ \E j \in 1..Len(Restoring(S[i])) : j <= S[i].done /\ Restoring(S[i])[j] = s
Made(r, s, n) == MadeIn(stack[r], values[r], s, n)

\* The last part of a guest's directory.
StageName(n) == IF n \in Sources THEN "boot" ELSE Name[n]
DirectoryOf(r, s, n) == <<Target[r], Parameter(Target[r], s), StageName(n)>>

\* Every directory was made by a run, for a guest it started.
MadeBy(d, q) ==
  \E n \in Nodes : \E s \in Machines[n] \cap Machines[Target[q]] :
    d = DirectoryOf(q, s, n) /\ (phase[q] # "going" \/ Made(q, s, n))

\* How a run ended, and what that left.
OutcomeOK(r) ==
  /\ phase[r] # "going" => outcome[r] # "none"
  /\ outcome[r] = "pass" => Target[r] \notin ExpectedFailures /\ Target[r] \in store
  /\ outcome[r] = "cancelled" => r \in faults

DirInv ==
  /\ \A d \in dirs : \E q \in Runs : MadeBy(d, q)
  /\ \A r \in Runs : OutcomeOK(r)
  /\ FailuresHaveCauses

\* What was made stays made as long as the run goes on.
Keeps(q) ==
  phase'[q] # "going" \/
    /\ phase[q] = "going"
    /\ \A n \in Nodes, s \in Sources : Made(q, s, n) => Made(q, s, n)'

\* Directories stay those that runs made, when what was made stays made.
LEMMA KeptDirs ==
  ASSUME \A d \in dirs : \E q \in Runs : MadeBy(d, q),
         \A q \in Runs : Keeps(q),
         \A d \in dirs' : d \in dirs \/ \E q \in Runs : MadeBy(d, q)'
  PROVE  \A d \in dirs' : \E q \in Runs : MadeBy(d, q)'
<1>1. ASSUME NEW d \in dirs
      PROVE  \E q \in Runs : MadeBy(d, q)'
  <2>1. PICK q \in Runs : MadeBy(d, q)
    OBVIOUS
  <2>2. PICK n \in Nodes : \E s \in Machines[n] \cap Machines[Target[q]] :
          d = DirectoryOf(q, s, n) /\ (phase[q] # "going" \/ Made(q, s, n))
    BY <2>1 DEF MadeBy
  <2>0. PICK s \in Machines[n] \cap Machines[Target[q]] :
          d = DirectoryOf(q, s, n) /\ (phase[q] # "going" \/ Made(q, s, n))
    BY <2>2
  <2>3. s \in Sources
    BY <2>0, MachinesTyped
  <2>4. Keeps(q)
    OBVIOUS
  <2>5. phase'[q] # "going" \/ Made(q, s, n)'
    BY <2>0, <2>3, <2>4 DEF Keeps
  <2>6. d = DirectoryOf(q, s, n)'
    BY <2>0 DEF DirectoryOf, StageName, Parameter
  <2>7. MadeBy(d, q)'
    BY <2>0, <2>5, <2>6 DEF MadeBy
  <2>8. QED
    BY <2>7
<1>2. QED
  BY <1>1

\* The calls and the memo of a run stay as they are.
LEMMA SameMade ==
  ASSUME NEW q \in Runs, stack'[q] = stack[q], values'[q] = values[q], phase'[q] = phase[q]
  PROVE  Keeps(q)
BY DEF Keeps, Made, MadeIn, Restoring

\* A step of the innermost call.
LEMMA TopKeeps ==
  ASSUME LockInv, TypeOK, NEW r \in Runs, stack[r] # <<>>, phase[r] = "going",
         NEW f, Becomes(r, f), DOMAIN f = FrameFields, f.node = Top(r).node,
         f.at \in Places,
         Top(r).at = "restore" => f.at = "restore" /\ f.done = Top(r).done + 1,
         \A n \in Nodes : values[r][n] # <<>> => values'[r][n] # <<>>
  PROVE  /\ Keeps(r) /\ \A q \in Runs : q # r => stack'[q] = stack[q]
         /\ Len(stack'[r]) = Len(stack[r]) /\ stack'[r][Len(stack[r])] = f
<1>1. PICK S \in Seq(Frame) : S = stack[r]
  BY Typed
<1>2. PICK n \in Nat \ {0} : n = Len(S)
  BY <1>1, TopIndices
<1>3. PICK T : T = stack'[r]
  OBVIOUS
<1>4. /\ Len(T) = n /\ (\A i \in 1..n - 1 : T[i] = S[i]) /\ T[n] = f
      /\ \A q \in Runs : q # r => stack'[q] = stack[q]
  <2>1. StacksTyped
    BY DEF LockInv
  <2>2. QED
    BY <1>1, <1>2, <1>3, <2>1, BecomesStack
<1>5. PICK g \in Frame : g = Top(r) /\ g = S[n]
  BY <1>1, <1>2, TopTyped
<1>6. g.done \in Nat /\ Len(Restoring(g)) \in Nat
  BY FrameTyped, RestoringFits
<1>7. \A i \in 1..n : i = n \/ i \in 1..n - 1
  OBVIOUS
<1>8. ASSUME NEW m \in Nodes, NEW s \in Sources, MadeIn(S, values[r], s, m)
      PROVE  MadeIn(T, values'[r], s, m)
  <2>1. CASE values[r][m] # <<>>
    BY <2>1 DEF MadeIn
  <2>2. ASSUME NEW i \in 1..n, S[i].at = "restore", S[i].node = m,
               NEW j \in 1..Len(Restoring(S[i])), j <= S[i].done,
               Restoring(S[i])[j] = s
        PROVE  MadeIn(T, values'[r], s, m)
    <3>1. CASE i \in 1..n - 1
      BY <1>4, <2>2, <3>1 DEF MadeIn
    <3>2. CASE i = n
      <4>1. f.at = "restore" /\ f.done = g.done + 1 /\ f.node = g.node
        BY <1>5, <2>2, <3>2
      <4>2. Restoring(f) = Restoring(g)
        BY <4>1 DEF Restoring
      <4>3. j \in 1..Len(Restoring(g)) /\ j <= g.done
        BY <1>5, <2>2, <3>2
      <4>4. j <= f.done
        BY <1>6, <4>1, <4>3
      <4>5. n \in 1..n /\ T[n] = f /\ f.node = m /\ Restoring(f)[j] = s
            /\ j \in 1..Len(Restoring(f))
        BY <1>4, <1>5, <2>2, <3>2, <4>1, <4>2, <4>3
      <4>6. QED
        BY <1>4, <4>1, <4>4, <4>5 DEF MadeIn
    <3>3. QED
      BY <1>7, <3>1, <3>2
  <2>3. QED
    BY <1>2, <1>8, <2>1, <2>2 DEF MadeIn
<1>9. Keeps(r)
  <2>1. \A m \in Nodes, s \in Sources : Made(r, s, m) => Made(r, s, m)'
    <3>1. \A m \in Nodes, s \in Sources : Made(r, s, m) <=> MadeIn(S, values[r], s, m)
      BY <1>1 DEF Made
    <3>2. \A m \in Nodes, s \in Sources : Made(r, s, m)' <=> MadeIn(T, values'[r], s, m)
      BY <1>3 DEF Made, MadeIn, Restoring
    <3>3. QED
      BY <1>8, <3>1, <3>2
  <2>2. QED
    BY <2>1 DEF Keeps
<1>10. QED
  BY <1>1, <1>2, <1>3, <1>4, <1>9

\* Who goes on waits for the lock of the target, or holds it and resolves inputs.
LEMMA OutermostCall ==
  ASSUME LockInv, DataInv, NEW r \in Runs, stack[r] # <<>>
  PROVE  /\ Top(r).node \in Tests /\ Machines[Top(r).node] \subseteq Machines[Target[r]]
         /\ stack[r][1].node = Target[r] /\ 1 \in 1..Len(stack[r])
         /\ Top(r).at \in {"args", "restore"} => stack[r][1].at = "args"
         /\ stack[r][1].at = "lock" =>
              Len(stack[r]) = 1 /\ \A n \in Nodes : values[r][n] = <<>>
<1>1. TypeOK /\ RunOK(r)
  BY DEF DataInv
<1>2. PICK S \in Seq(Frame) : S = stack[r]
  BY <1>1, Typed
<1>3. PICK v \in Memo : v = values[r]
  BY <1>1, Typed
<1>4. PICK R : R = runtimes[r]
  OBVIOUS
<1>5. PICK n \in Nat \ {0} : n = Len(S)
  BY <1>2, TopIndices
<1>6. /\ 1 \in 1..n /\ n \in 1..n /\ (n = 1 \/ (1 \in 1..n - 1 /\ 1 < n))
  OBVIOUS
<1>7. Good(S, v, R)
  BY <1>1, <1>2, <1>3, <1>4 DEF RunOK
<1>8. S[1].node = Target[r] /\ (S[1].at = "restore" => S[1].node # Target[r])
  <2>1. S[1].node = Target[r]
    BY <1>2 DEF LockInv, StacksTyped
  <2>2. S[1].node = Target[r] => S[1].at # "restore"
    BY <1>2, <1>5, <1>6 DEF LockInv, CallsDistinct
  <2>3. QED
    BY <2>1, <2>2
<1>9. Top(r) = S[n] /\ Top(r).node \in Tests
  <2>1. Top(r) = S[n] /\ Top(r) \in Frame
    BY <1>1, <1>2, <1>5, TopTyped
  <2>2. QED
    BY <2>1, FrameTyped
<1>10. n = 1 \/ (S[1].at = "args" /\ Machines[S[n].node] \subseteq Machines[S[1].node])
  BY <1>5, <1>6, <1>7 DEF Good, Chain
<1>11. ASSUME S[1].at = "lock"
       PROVE  n = 1 /\ \A m \in Nodes : v[m] = <<>>
  <2>1. n = 1
    BY <1>10, <1>11
  <2>2. S[1] \in Frame
    BY <1>5, <1>6, TopIndices, <1>2
  <2>3. S[1].args = <<>>
    BY <1>5, <1>6, <1>7, <1>11 DEF Good, FrameOK
  <2>4. Len(<<>>) = 0 /\ 1..0 = {}
    OBVIOUS
  <2>5. Covered(S[1]) = {}
    BY <1>11, <2>3, <2>4 DEF Covered, Taken
  <2>6. \A i \in 1..n : i = 1
    BY <2>1
  <2>7. \A g \in Known(v, R) : FALSE
    BY <1>5, <1>7, <2>5, <2>6 DEF Good, CoverOK
  <2>8. ASSUME NEW m \in Nodes
        PROVE  v[m] = <<>>
    <3>1. PICK c \in Seq(Guest) : c = v[m]
      BY DEF Memo
    <3>2. ToSet(c) = {}
      BY <2>7, <3>1 DEF Known
    <3>3. QED
      BY <3>1, <3>2, Elements
  <2>9. QED
    BY <2>1, <2>8
<1>12. Top(r).at \in {"args", "restore"} => S[1].at = "args"
  BY <1>8, <1>9, <1>10
<1>13. Machines[Top(r).node] \subseteq Machines[Target[r]]
  BY <1>8, <1>9, <1>10
<1>14. QED
  BY <1>2, <1>3, <1>5, <1>6, <1>8, <1>9, <1>11, <1>12, <1>13

\* What the name of a directory tells.
LEMMA NamesTell ==
  ASSUME NEW t \in Tests, DirectoriesTell(t),
         NEW n \in Nodes, NEW s \in Machines[n] \cap Machines[t],
         NEW m \in Nodes, NEW x \in Machines[m] \cap Machines[t],
         Parameter(t, s) = Parameter(t, x), StageName(n) = StageName(m)
  PROVE  s = x /\ n = m
<1>1. s = x
  BY DEF DirectoriesTell
<1>2. \A t1, t2 \in Tests : Machines[t] \cap Machines[t1] \cap Machines[t2] # {} =>
        Name[t1] # "boot" /\ (Name[t1] = Name[t2] => t1 = t2)
  BY DEF DirectoriesTell
<1>3. (n \in Sources \/ n \in Tests) /\ (m \in Sources \/ m \in Tests)
      /\ ~ (n \in Sources /\ n \in Tests) /\ ~ (m \in Sources /\ m \in Tests)
  BY NodesSplit
<1>4. (n \in Sources => s = n) /\ (m \in Sources => s = m)
  BY <1>1, MachinesUnfold
<1>5. s \in Machines[t] /\ s \in Machines[n] /\ s \in Machines[m]
  BY <1>1
<1>6. CASE n \in Tests /\ m \in Tests
  <2>1. Name[n] = Name[m]
    BY <1>3, <1>6 DEF StageName
  <2>2. QED
    BY <1>1, <1>2, <1>5, <1>6, <2>1
<1>7. CASE n \in Tests /\ m \in Sources
  <2>1. Name[n] = "boot"
    BY <1>3, <1>7 DEF StageName
  <2>2. QED
    BY <1>2, <1>5, <1>7, <2>1
<1>8. CASE n \in Sources /\ m \in Tests
  <2>1. Name[m] = "boot"
    BY <1>3, <1>8 DEF StageName
  <2>2. QED
    BY <1>2, <1>5, <1>8, <2>1
<1>9. CASE n \in Sources /\ m \in Sources
  BY <1>1, <1>4, <1>9
<1>10. QED
  BY <1>3, <1>6, <1>7, <1>8, <1>9

\* The causes FailuresHaveCauses allows for a failure.
CauseFor(r) ==
  \/ \E q \in faults : Target[q] = Target[r]
  \/ Forced /\ \E q \in Runs \ {r} : Target[q] = Target[r]

\* Whose directory a run meets: another run's of the same test, that is over and
\* has published nothing.
LEMMA Collided ==
  ASSUME LockInv, DataInv, DirInv, NEW r \in Runs, phase[r] = "going",
         stack[r] # <<>>, Top(r).at \in {"args", "restore"},
         NEW m \in Nodes, NEW x \in Machines[m] \cap Machines[Target[r]],
         ~Made(r, x, m), DirectoryOf(r, x, m) \in dirs, DirectoriesTell(Target[r])
  PROVE  CauseFor(r)
<1>1. PICK q \in Runs : MadeBy(DirectoryOf(r, x, m), q)
  BY DEF DirInv
<1>2. PICK n \in Nodes : \E s \in Machines[n] \cap Machines[Target[q]] :
        /\ DirectoryOf(r, x, m) = DirectoryOf(q, s, n)
        /\ phase[q] # "going" \/ Made(q, s, n)
  BY <1>1 DEF MadeBy
<1>3. PICK s \in Machines[n] \cap Machines[Target[q]] :
        /\ DirectoryOf(r, x, m) = DirectoryOf(q, s, n)
        /\ phase[q] # "going" \/ Made(q, s, n)
  BY <1>2
<1>4. PICK t \in Tests : t = Target[r]
  BY ExecutorAssumption
<1>5. Target[q] = t /\ Parameter(t, s) = Parameter(t, x) /\ StageName(n) = StageName(m)
  BY <1>3, <1>4 DEF DirectoryOf
<1>6. s = x /\ n = m
  BY <1>3, <1>4, <1>5, NamesTell
<1>7. q # r
  BY <1>3, <1>6
<1>8. CASE Forced
  BY <1>4, <1>5, <1>7, <1>8 DEF CauseFor
<1>9. CASE ~Forced
  <2>1. /\ stack[r][1].node = t /\ stack[r][1].at = "args" /\ 1 \in 1..Len(stack[r])
    BY <1>4, OutermostCall
  <2>2. CASE phase[q] = "going"
    <3>1. stack[q] # <<>>
      BY <2>2 DEF DataInv, RunOK
    <3>2. /\ stack[q][1].node = t /\ 1 \in 1..Len(stack[q])
          /\ stack[q][1].at = "lock" =>
               Len(stack[q]) = 1 /\ \A k \in Nodes : values[q][k] = <<>>
      BY <1>5, <3>1, OutermostCall
    <3>3. stack[q][1].at # "lock"
      <4>1. SUFFICES ASSUME stack[q][1].at = "lock"
                     PROVE  FALSE
        OBVIOUS
      <4>2. Len(stack[q]) = 1 /\ values[q][m] = <<>>
        BY <3>2, <4>1
      <4>3. \A i \in 1..1 : i = 1
        OBVIOUS
      <4>4. ~Made(q, x, m)
        BY <4>1, <4>2, <4>3 DEF Made, MadeIn
      <4>5. QED
        BY <1>3, <1>6, <2>2, <4>4
    <3>4. q = r
      BY <2>1, <3>2, <3>3, OneHolder
    <3>5. QED
      BY <1>7, <3>4
  <2>3. CASE phase[q] # "going"
    <3>1. OutcomeOK(q)
      BY DEF DirInv
    <3>2. outcome[q] \in {"pass", "fail", "cancelled"}
      <4>1. outcome[q] \in {"none", "pass", "fail", "cancelled"}
        BY DEF DataInv, TypeOK
      <4>2. QED
        BY <2>3, <3>1, <4>1 DEF OutcomeOK
    <3>3. CASE outcome[q] = "pass"
      <4>1. t \notin ExpectedFailures /\ t \in store
        BY <1>5, <3>1, <3>3 DEF OutcomeOK
      <4>2. t \notin store
        BY <1>9, <2>1, <4>1 DEF LockInv, BuildsMissing
      <4>3. QED
        BY <4>1, <4>2
    <3>4. CASE outcome[q] = "cancelled"
      <4>1. q \in faults
        BY <3>1, <3>4 DEF OutcomeOK
      <4>2. QED
        BY <1>4, <1>5, <4>1 DEF CauseFor
    <3>5. CASE outcome[q] = "fail"
      <4>1. \E p \in faults : Target[p] = Target[q]
        BY <1>4, <1>5, <1>9, <3>5 DEF DirInv, FailuresHaveCauses
      <4>2. QED
        BY <1>4, <1>5, <4>1 DEF CauseFor
    <3>6. QED
      BY <3>2, <3>3, <3>4, <3>5
  <2>4. QED
    BY <2>2, <2>3
<1>10. QED
  BY <1>8, <1>9

\* A step in which no run leaves its calls.
LEMMA DirsGoOn ==
  ASSUME DirInv, outcome' = outcome, store \subseteq store', faults \subseteq faults',
         \A q \in Runs : phase'[q] # "going" => phase[q] # "going",
         \A q \in Runs : Keeps(q),
         \A d \in dirs' : d \in dirs \/ \E q \in Runs : MadeBy(d, q)'
  PROVE  DirInv'
<1>1. \A d \in dirs' : \E q \in Runs : MadeBy(d, q)'
  BY KeptDirs DEF DirInv
<1>2. ASSUME NEW q \in Runs
      PROVE  OutcomeOK(q)'
  <2>1. OutcomeOK(q)
    BY DEF DirInv
  <2>2. QED
    BY <2>1 DEF OutcomeOK
<1>3. FailuresHaveCauses'
  <2>1. FailuresHaveCauses
    BY DEF DirInv
  <2>2. \A q \in Runs : DirectoriesTell(Target[q])' <=> DirectoriesTell(Target[q])
    BY DEF DirectoriesTell, Parameter
  <2>3. QED
    BY <2>1, <2>2 DEF FailuresHaveCauses
<1>4. QED
  BY <1>1, <1>2, <1>3 DEF DirInv

\* A step in which the run r leaves its calls.
LEMMA DirsLeft ==
  ASSUME TypeOK, DirInv, NEW r \in Runs, phase[r] = "going",
         NEW how \in {"pass", "fail", "cancelled"}, Leave(r, how), values' = values,
         store \subseteq store', faults \subseteq faults', dirs' \subseteq dirs,
         how = "pass" => Target[r] \notin ExpectedFailures /\ Target[r] \in store',
         how = "cancelled" => r \in faults',
         how = "fail" /\ DirectoriesTell(Target[r]) => CauseFor(r)'
  PROVE  DirInv'
<1>1. /\ stack'[r] = <<>> /\ phase'[r] = "closing"
      /\ \A q \in Runs : q # r => stack'[q] = stack[q] /\ phase'[q] = phase[q]
  BY LeaveTyped
<1>2. outcome'[r] = how /\ \A q \in Runs : q # r => outcome'[q] = outcome[q]
  BY DEF Leave, TypeOK
<1>3. ASSUME NEW q \in Runs
      PROVE  Keeps(q)
  <2>1. CASE q = r
    BY <1>1, <2>1 DEF Keeps
  <2>2. CASE q # r
    BY <1>1, <2>2, SameMade
  <2>3. QED
    BY <2>1, <2>2
<1>4. \A d \in dirs' : \E q \in Runs : MadeBy(d, q)'
  BY <1>3, KeptDirs DEF DirInv
<1>5. ASSUME NEW q \in Runs
      PROVE  OutcomeOK(q)'
  <2>1. OutcomeOK(q)
    BY DEF DirInv
  <2>2. CASE q = r
    BY <1>1, <1>2, <2>2 DEF OutcomeOK
  <2>3. CASE q # r
    BY <1>1, <1>2, <2>1, <2>3 DEF OutcomeOK
  <2>4. QED
    BY <2>2, <2>3
<1>6. FailuresHaveCauses'
  <2>1. FailuresHaveCauses
    BY DEF DirInv
  <2>2. \A q \in Runs : DirectoriesTell(Target[q])' <=> DirectoriesTell(Target[q])
    BY DEF DirectoriesTell, Parameter
  <2>3. ASSUME NEW q \in Runs, outcome'[q] = "fail", DirectoriesTell(Target[q])
        PROVE  CauseFor(q)'
    <3>1. CASE q = r
      BY <1>2, <2>3, <3>1
    <3>2. CASE q # r
      <4>1. outcome[q] = "fail"
        BY <1>2, <2>3, <3>2
      <4>2. CauseFor(q)
        BY <2>1, <2>3, <4>1 DEF FailuresHaveCauses, CauseFor
      <4>3. QED
        BY <4>2 DEF CauseFor
    <3>3. QED
      BY <3>1, <3>2
  <2>4. QED
    BY <2>2, <2>3 DEF FailuresHaveCauses, CauseFor
<1>7. QED
  BY <1>4, <1>5, <1>6 DEF DirInv

------------------------------------------------------------------------------
(* The actions keep the invariant of the directories *)

\* HitTarget: the run passes, its target is in the store.
LEMMA HitTargetDirs ==
  ASSUME TypeOK, DirInv, NEW r \in Runs, HitTarget(r)
  PROVE  DirInv'
BY DirsLeft DEF HitTarget, At, Cached

\* PublishTarget: the run passes, its target is in the store now.
LEMMA PublishTargetDirs ==
  ASSUME LockInv, TypeOK, DirInv, NEW r \in Runs, PublishTarget(r)
  PROVE  DirInv'
<1>1. /\ phase[r] = "going" /\ stack[r] # <<>> /\ Leave(r, "pass") /\ values' = values
      /\ store' = store \cup {Target[r]} /\ faults' = faults /\ dirs' = dirs
      /\ Top(r).node = Target[r] /\ Top(r).at = "save"
  BY DEF PublishTarget, Saved, At
<1>2. PICK S \in Seq(Frame) : S = stack[r]
  BY Typed
<1>3. Top(r) = S[Len(S)] /\ Len(S) \in 1..Len(S)
  BY <1>1, <1>2, TopTyped, TopIndices
<1>4. Target[r] \notin ExpectedFailures
  BY <1>1, <1>2, <1>3 DEF LockInv, BuildsMissing
<1>5. QED
  BY <1>1, <1>4, DirsLeft

\* Fail: the run fails, by a fault of its own.
LEMMA FailDirs ==
  ASSUME TypeOK, DirInv, NEW r \in Runs, Fail(r)
  PROVE  DirInv'
<1>1. /\ phase[r] = "going" /\ Leave(r, "fail") /\ values' = values /\ store' = store
      /\ faults' = faults \cup {r} /\ dirs' = dirs
  BY DEF Fail
<1>2. CauseFor(r)'
  BY <1>1 DEF CauseFor
<1>3. QED
  BY <1>1, <1>2, DirsLeft

\* Cancel: the run was cancelled.
LEMMA CancelDirs ==
  ASSUME TypeOK, DirInv, NEW r \in Runs, Cancel(r)
  PROVE  DirInv'
<1>1. /\ phase[r] = "going" /\ Leave(r, "cancelled") /\ values' = values /\ store' = store
      /\ faults' = faults \cup {r} /\ dirs' = dirs
  BY DEF Cancel
<1>2. QED
  BY <1>1, DirsLeft

\* Collide: the run fails, and there is a cause: the directory was made for the
\* same guest, never by this run and not by one the target's lock kept out.
LEMMA CollideDirs ==
  ASSUME LockInv, DataInv, DirInv, NEW r \in Runs, Collide(r)
  PROVE  DirInv'
<1>1. /\ TypeOK /\ RunOK(r) /\ phase[r] = "going" /\ stack[r] # <<>>
      /\ Leave(r, "fail") /\ values' = values /\ store' = store /\ faults' = faults
  BY DEF Collide, Unresolved, At, DataInv
<1>2. PICK f \in Frame : f = Top(r)
  BY <1>1, TopTyped
<1>3. Machines[f.node] \subseteq Machines[Target[r]] /\ f.node \in Tests /\ f.node \in Nodes
  BY <1>1, <1>2, OutermostCall, FrameTyped
<1>4. SUFFICES ASSUME DirectoriesTell(Target[r])
               PROVE  dirs' \subseteq dirs /\ CauseFor(r)
  <2>1. dirs' \subseteq dirs
    BY DEF Collide
  <2>2. CauseFor(r)' <=> CauseFor(r)
    BY <1>1 DEF CauseFor
  <2>3. QED
    BY <1>1, <2>1, <2>2, DirsLeft
<1>5. dirs' \subseteq dirs
  BY DEF Collide
<1>6. ASSUME NEW s \in Sources, Unresolved(r, s),
             Directory(r, [source |-> s, stage |-> s]) \in dirs
      PROVE  CauseFor(r)
  <2>1. f.at = "args" /\ Waits(f) /\ NextInput(f).node = s /\ values[r][s] = <<>>
    BY <1>2, <1>6 DEF Unresolved, At, Waits
  <2>2. s \in Nodes /\ Machines[s] = {s} /\ s \in Machines[Target[r]]
    <3>1. Machines[s] \subseteq Machines[f.node]
      BY <2>1, NextNode
    <3>2. QED
      BY <1>3, <3>1, MachinesUnfold DEF Nodes
  <2>3. ~Made(r, s, s)
    <3>1. PICK S \in Seq(Frame) : S = stack[r]
      BY <1>1, Typed
    <3>2. \A i \in 1..Len(S) : S[i].node # s
      <4>1. \A i \in 1..Len(S) : S[i] \in Frame
        BY <1>1, <3>1, TopIndices
      <4>2. QED
        BY <4>1, FrameTyped, ExecutorAssumption
    <3>3. QED
      BY <2>1, <3>1, <3>2 DEF Made, MadeIn
  <2>4. DirectoryOf(r, s, s) \in dirs
    BY <1>6 DEF Directory, DirectoryOf, StageName
  <2>5. s \in Machines[s] \cap Machines[Target[r]]
    BY <2>2
  <2>6. QED
    BY <1>1, <1>2, <1>4, <2>1, <2>2, <2>3, <2>4, <2>5, Collided
<1>7. ASSUME At(r, "restore"), f.done < Len(Restoring(f)), Directory(r, Incoming(r)) \in dirs
      PROVE  CauseFor(r)
  <2>1. PICK s : s = Restoring(f)[f.done + 1]
    OBVIOUS
  <2>2. /\ s \in Machines[f.node] /\ s \in Sources
        /\ \A j \in 1..Len(Restoring(f)) : j <= f.done => Restoring(f)[j] # s
    BY <1>7, <2>1, IncomingGuest
  <2>3. f.at = "restore"
    BY <1>2, <1>7 DEF At
  <2>4. ~Made(r, s, f.node)
    <3>1. values[r][f.node] = <<>>
      BY <1>1, <1>2, TopKnows
    <3>2. PICK S \in Seq(Frame) : S = stack[r]
      BY <1>1, Typed
    <3>3. PICK n \in Nat \ {0} : n = Len(S) /\ f = S[n]
      BY <1>1, <1>2, <3>2, TopIndices, TopTyped
    <3>4. \A i \in 1..n - 1 : S[i].at = "args"
      BY <1>1, <3>2, <3>3 DEF RunOK, Good, Chain
    <3>5. \A i \in 1..n : S[i].at = "restore" => S[i] = f
      <4>1. \A i \in 1..n : i = n \/ i \in 1..n - 1
        OBVIOUS
      <4>2. QED
        BY <3>3, <3>4, <4>1
    <3>6. QED
      BY <2>2, <3>1, <3>2, <3>3, <3>5 DEF Made, MadeIn
  <2>5. DirectoryOf(r, s, f.node) \in dirs
    <3>1. Incoming(r) = [source |-> s, stage |-> f.node]
      BY <1>2, <2>1 DEF Incoming
    <3>2. QED
      BY <1>7, <3>1 DEF Directory, DirectoryOf, StageName
  <2>6. s \in Machines[f.node] \cap Machines[Target[r]]
    BY <1>3, <2>2
  <2>7. Top(r).at \in {"args", "restore"}
    BY <1>2, <2>3
  <2>8. QED
    BY <1>1, <1>3, <1>4, <2>4, <2>5, <2>6, <2>7, Collided
<1>8. \/ \E s \in Sources : /\ Unresolved(r, s)
                            /\ Directory(r, [source |-> s, stage |-> s]) \in dirs
      \/ /\ At(r, "restore") /\ f.done < Len(Restoring(f))
         /\ Directory(r, Incoming(r)) \in dirs'
  BY <1>2 DEF Collide
<1>9. QED
  BY <1>5, <1>6, <1>7, <1>8

\* A step of the innermost call.
LEMMA TopDirs ==
  ASSUME LockInv, TypeOK, DirInv, NEW r \in Runs, stack[r] # <<>>, phase[r] = "going",
         NEW f, Becomes(r, f), DOMAIN f = FrameFields, f.node = Top(r).node,
         f.at \in Places,
         Top(r).at = "restore" => f.at = "restore" /\ f.done = Top(r).done + 1,
         \A n \in Nodes : values[r][n] # <<>> => values'[r][n] # <<>>,
         \A q \in Runs : q # r => values'[q] = values[q],
         phase' = phase, outcome' = outcome, store \subseteq store', faults' = faults,
         \A d \in dirs' : d \in dirs \/ MadeBy(d, r)'
  PROVE  DirInv'
<1>1. Keeps(r) /\ \A q \in Runs : q # r => stack'[q] = stack[q]
  BY TopKeeps
<1>2. ASSUME NEW q \in Runs
      PROVE  Keeps(q)
  <2>1. CASE q = r
    BY <1>1, <2>1
  <2>2. CASE q # r
    BY <1>1, <2>2, SameMade
  <2>3. QED
    BY <2>1, <2>2
<1>3. QED
  BY <1>2, DirsGoOn

\* The steps that move the innermost call and start no guest.
LEMMA PlainTopDirs ==
  ASSUME LockInv, DataInv, DirInv, NEW r \in Runs,
         Enter(r) \/ Recall(r) \/ BodyReturns(r) \/ SaveMachine(r) \/ Publish(r)
  PROVE  DirInv'
<1>1. /\ TypeOK /\ phase[r] = "going" /\ stack[r] # <<>> /\ Top(r).at # "restore"
      /\ phase' = phase /\ outcome' = outcome /\ values' = values /\ faults' = faults
      /\ store \subseteq store' /\ dirs' \subseteq dirs
  BY DEF Enter, Recall, BodyReturns, SaveMachine, Publish, Saved, InBody, At, DataInv
<1>2. DOMAIN Top(r) = FrameFields /\ Top(r).at \in Places
  BY <1>1, TopOfStack DEF LockInv
<1>3. \E f : /\ Becomes(r, f) /\ DOMAIN f = FrameFields /\ f.node = Top(r).node
             /\ f.at \in Places
  <2>1. CASE Enter(r)
    <3>1. PICK f : f = [Top(r) EXCEPT !.at = IF Cached(Top(r).node) THEN "restore"
                                             ELSE "args"]
      OBVIOUS
    <3>2. Becomes(r, f) /\ DOMAIN f = FrameFields /\ f.node = Top(r).node /\ f.at \in Places
      BY <1>2, <2>1, <3>1 DEF Enter, FrameFields, Places
    <3>3. QED
      BY <3>2
  <2>2. CASE Recall(r)
    <3>1. PICK f : f = Take(Top(r), values[r][NextInput(Top(r)).node])
      OBVIOUS
    <3>2. Becomes(r, f) /\ DOMAIN f = FrameFields /\ f.node = Top(r).node /\ f.at \in Places
      BY <1>2, <2>2, <3>1 DEF Recall, Take, FrameFields
    <3>3. QED
      BY <3>2
  <2>3. CASE BodyReturns(r)
    <3>1. PICK f : f = [Top(r) EXCEPT !.at = "save"]
      OBVIOUS
    <3>2. Becomes(r, f) /\ DOMAIN f = FrameFields /\ f.node = Top(r).node /\ f.at \in Places
      BY <1>2, <2>3, <3>1 DEF BodyReturns, FrameFields, Places
    <3>3. QED
      BY <3>2
  <2>4. CASE SaveMachine(r)
    <3>1. PICK f : f = [Top(r) EXCEPT !.done = @ + 1]
      OBVIOUS
    <3>2. Becomes(r, f) /\ DOMAIN f = FrameFields /\ f.node = Top(r).node /\ f.at \in Places
      BY <1>2, <2>4, <3>1 DEF SaveMachine, FrameFields
    <3>3. QED
      BY <3>2
  <2>5. CASE Publish(r)
    <3>1. PICK f : f = [Top(r) EXCEPT !.at = "restore", !.done = 0]
      OBVIOUS
    <3>2. Becomes(r, f) /\ DOMAIN f = FrameFields /\ f.node = Top(r).node /\ f.at \in Places
      BY <1>2, <2>5, <3>1 DEF Publish, FrameFields, Places
    <3>3. QED
      BY <3>2
  <2>6. QED
    BY <2>1, <2>2, <2>3, <2>4, <2>5
<1>4. QED
  BY <1>1, <1>3, TopDirs

\* Descend: a call is pushed, nothing is started.
LEMMA DescendDirs ==
  ASSUME TypeOK, DirInv, NEW r \in Runs, NEW t \in Tests, Descend(r, t)
  PROVE  DirInv'
<1>1. /\ stack' = [stack EXCEPT ![r] = Append(@, Call(t))]
      /\ phase' = phase /\ outcome' = outcome /\ values' = values
      /\ store' = store /\ dirs' = dirs /\ faults' = faults
  BY DEF Descend
<1>2. PICK S \in Seq(Frame) : S = stack[r]
  BY Typed
<1>3. PICK T : T = Append(S, Call(t))
  OBVIOUS
<1>4. PICK n \in Nat : n = Len(S)
  BY LenProperties
<1>5. Len(T) = n + 1 /\ \A i \in 1..n : T[i] = S[i] /\ i \in 1..n + 1
  <2>1. PICK c : c = Call(t)
    OBVIOUS
  <2>2. /\ Append(S, c) \in Seq(Frame \cup {c}) /\ Append(S, c) # <<>>
        /\ Len(Append(S, c)) = Len(S) + 1
        /\ \A i \in 1..Len(S) : Append(S, c)[i] = S[i]
        /\ Append(S, c)[Len(S) + 1] = c
    BY PushedCall, ZenonT(60)
  <2>3. T = Append(S, c)
    BY <1>3, <2>1
  <2>4. QED
    BY <1>4, <2>2, <2>3
<1>6. stack'[r] = T /\ \A q \in Runs : q # r => stack'[q] = stack[q]
  BY <1>1, <1>2, <1>3 DEF TypeOK
<1>7. ASSUME NEW m \in Nodes, NEW s \in Sources, MadeIn(S, values[r], s, m)
      PROVE  MadeIn(T, values'[r], s, m)
  BY <1>1, <1>4, <1>5, <1>7 DEF MadeIn
<1>8. Keeps(r)
  <2>1. \A m \in Nodes, s \in Sources : Made(r, s, m) <=> MadeIn(S, values[r], s, m)
    BY <1>2 DEF Made
  <2>2. \A m \in Nodes, s \in Sources : Made(r, s, m)' <=> MadeIn(T, values'[r], s, m)
    BY <1>6 DEF Made, MadeIn, Restoring
  <2>3. phase[r] = "going"
    BY DEF Descend, Unresolved, At
  <2>4. QED
    BY <1>7, <2>1, <2>2, <2>3 DEF Keeps
<1>9. ASSUME NEW q \in Runs
      PROVE  Keeps(q)
  <2>1. CASE q = r
    BY <1>8, <2>1
  <2>2. CASE q # r
    BY <1>1, <1>6, <2>2, SameMade
  <2>3. QED
    BY <2>1, <2>2
<1>10. QED
  BY <1>1, <1>9, DirsGoOn

\* Boot: the directory of the guest booted is made.
LEMMA BootDirs ==
  ASSUME LockInv, DataInv, DirInv, NEW r \in Runs, NEW s \in Sources, Boot(r, s)
  PROVE  DirInv'
<1>1. PICK g : g = [source |-> s, stage |-> s]
  OBVIOUS
<1>2. PICK f : f = Take(Top(r), <<g>>)
  OBVIOUS
<1>3. /\ TypeOK /\ phase[r] = "going" /\ stack[r] # <<>> /\ Top(r).at = "args"
      /\ phase' = phase /\ outcome' = outcome /\ faults' = faults /\ store' = store
      /\ values' = [values EXCEPT ![r][s] = <<g>>]
      /\ dirs' = dirs \cup {Directory(r, g)} /\ Becomes(r, f)
      /\ Len(Top(r).args) < Len(Inputs[Top(r).node]) /\ NextInput(Top(r)).node = s
  BY <1>1, <1>2 DEF Boot, Unresolved, At, DataInv
<1>4. DOMAIN Top(r) = FrameFields /\ Top(r).at \in Places
  BY <1>3, TopOfStack DEF LockInv
<1>5. DOMAIN f = FrameFields /\ f.node = Top(r).node /\ f.at \in Places
  BY <1>2, <1>4 DEF Take, FrameFields
<1>6. /\ s \in Nodes /\ <<g>> # <<>>
      /\ \A q \in Runs : q # r => values'[q] = values[q]
      /\ values'[r][s] = <<g>> /\ \A n \in Nodes : n # s => values'[r][n] = values[r][n]
  <2>1. values \in [Runs -> [Nodes -> Seq(Guest)]]
    BY <1>3 DEF TypeOK
  <2>2. s \in Nodes
    BY DEF Nodes
  <2>3. QED
    BY <1>3, <2>1, <2>2
<1>7. MadeBy(Directory(r, g), r)'
  <2>1. s \in Machines[s] /\ s \in Machines[Target[r]]
    <3>1. PICK h \in Frame : h = Top(r)
      BY <1>3, TopTyped
    <3>2. Machines[s] \subseteq Machines[h.node]
      BY <1>3, <3>1, NextNode DEF Waits
    <3>3. Machines[h.node] \subseteq Machines[Target[r]]
      BY <1>3, <3>1, OutermostCall
    <3>4. QED
      BY <3>2, <3>3, MachinesUnfold
  <2>2. Made(r, s, s)'
    BY <1>6 DEF Made, MadeIn
  <2>3. Directory(r, g) = DirectoryOf(r, s, s)
    BY <1>1 DEF Directory, DirectoryOf, StageName
  <2>4. Directory(r, g) = DirectoryOf(r, s, s)'
    BY <2>3 DEF DirectoryOf, StageName, Parameter
  <2>5. Directory(r, g)' = Directory(r, g)
    BY DEF Directory, Parameter
  <2>6. QED
    BY <1>6, <2>1, <2>2, <2>4, <2>5 DEF MadeBy
<1>8. \A d \in dirs' : d \in dirs \/ MadeBy(d, r)'
  BY <1>3, <1>7 DEF Directory, Parameter
<1>9. \A n \in Nodes : values[r][n] # <<>> => values'[r][n] # <<>>
  BY <1>6
<1>10. QED
  BY <1>3, <1>5, <1>6, <1>8, <1>9, TopDirs

\* RestoreMachine: the directory of the guest restored is made.
LEMMA RestoreMachineDirs ==
  ASSUME LockInv, DataInv, DirInv, NEW r \in Runs, RestoreMachine(r)
  PROVE  DirInv'
<1>1. PICK g : g = Incoming(r)
  OBVIOUS
<1>2. /\ TypeOK /\ phase[r] = "going" /\ stack[r] # <<>> /\ Top(r).at = "restore"
      /\ phase' = phase /\ outcome' = outcome /\ faults' = faults /\ store' = store
      /\ values' = values
      /\ dirs' \subseteq dirs \cup {Directory(r, g)}
      /\ Becomes(r, [Top(r) EXCEPT !.done = @ + 1])
      /\ Top(r).done < Len(Restoring(Top(r)))
  BY <1>1 DEF RestoreMachine, At, DataInv
<1>3. PICK e \in Frame : e = Top(r)
  BY <1>2, TopTyped
<1>4. PICK f : f = [e EXCEPT !.done = @ + 1]
  OBVIOUS
<1>5. DOMAIN e = FrameFields /\ e.at \in Places
  BY <1>2, <1>3, TopOfStack DEF LockInv
<1>6. /\ DOMAIN f = FrameFields /\ f.node = e.node /\ f.at = "restore"
      /\ f.done = e.done + 1 /\ Becomes(r, f)
  BY <1>2, <1>3, <1>4, <1>5 DEF FrameFields
<1>7. PICK s : s = Restoring(e)[e.done + 1]
  OBVIOUS
<1>8. s \in Machines[e.node] /\ s \in Machines[Target[r]] /\ e.node \in Nodes /\ s \in Sources
  <2>1. s \in Machines[e.node] /\ s \in Sources
    BY <1>2, <1>3, <1>7, IncomingGuest
  <2>2. Machines[e.node] \subseteq Machines[Target[r]]
    BY <1>2, <1>3, OutermostCall
  <2>3. QED
    BY <2>1, <2>2, FrameTyped
<1>9. Made(r, s, e.node)'
  <2>1. PICK n \in Nat \ {0} : n = Len(stack[r]) /\ n \in 1..n
    <3>1. PICK S \in Seq(Frame) : S = stack[r]
      BY <1>2, Typed
    <3>2. QED
      BY <1>2, <3>1, TopIndices
  <2>2. Len(stack'[r]) = n /\ stack'[r][n] = f
    <3>1. f.at \in Places
      BY <1>6 DEF Places
    <3>2. QED
      BY <1>2, <1>3, <1>6, <2>1, <3>1, TopKeeps
  <2>3. Restoring(f) = Restoring(e)
    BY <1>6 DEF Restoring
  <2>4. e.done \in Nat /\ Len(Restoring(e)) \in Nat
    BY FrameTyped, RestoringFits
  <2>5. e.done + 1 \in 1..Len(Restoring(f)) /\ e.done + 1 <= f.done
    BY <1>2, <1>3, <1>6, <2>3, <2>4
  <2>6. Restoring(f)[e.done + 1] = s
    BY <1>7, <2>3
  <2>7. MadeIn(stack'[r], values'[r], s, e.node)
    BY <1>6, <2>1, <2>2, <2>5, <2>6 DEF MadeIn
  <2>8. QED
    BY <2>7 DEF Made, MadeIn, Restoring
<1>10. MadeBy(Directory(r, g), r)'
  <2>1. g = [source |-> s, stage |-> e.node]
    BY <1>1, <1>3, <1>7 DEF Incoming
  <2>2. PICK d : d = Directory(r, g)
    OBVIOUS
  <2>3. d = DirectoryOf(r, s, e.node)
    BY <2>1, <2>2 DEF Directory, DirectoryOf, StageName
  <2>4. d = DirectoryOf(r, s, e.node)'
    BY <2>3 DEF DirectoryOf, StageName, Parameter
  <2>5. MadeBy(d, r)'
    BY <1>8, <1>9, <2>4 DEF MadeBy
  <2>6. Directory(r, g)' = d
    BY <2>2 DEF Directory, Parameter
  <2>7. QED
    BY <2>5, <2>6
<1>11. \A d \in dirs' : d \in dirs \/ MadeBy(d, r)'
  BY <1>2, <1>10 DEF Directory, Parameter
<1>12. f.at \in Places
  BY <1>6 DEF Places
<1>13. QED
  BY <1>2, <1>3, <1>6, <1>11, <1>12, TopDirs

\* Restored: what the call started is now in the memo.
LEMMA RestoredDirs ==
  ASSUME LockInv, DataInv, DirInv, NEW r \in Runs, Restored(r)
  PROVE  DirInv'
<1>1. /\ TypeOK /\ RunOK(r) /\ phase[r] = "going" /\ stack[r] # <<>>
      /\ Top(r) \in Frame /\ Top(r) = stack[r][Len(stack[r])]
  BY TopTyped DEF DataInv, Restored, At
<1>2. PICK S \in Seq(Frame) : S = stack[r]
  BY <1>1, Typed
<1>3. PICK v \in Memo : v = values[r]
  BY <1>1, Typed
<1>4. PICK f \in Frame : f = Top(r) /\ f = S[Len(S)]
  BY <1>1, <1>2
<1>5. PICK x \in Tests : x = f.node
  BY FrameTyped
<1>6. PICK c : c = RestoredValue(f) /\ c # <<>>
  BY ValueOfRestore
<1>7. /\ phase' = phase /\ outcome' = outcome /\ store' = store /\ faults' = faults
      /\ dirs' = dirs
      /\ \E T : stack' = [stack EXCEPT ![r] = T]
      /\ values' = [values EXCEPT ![r] =
           [m \in Nodes |-> IF m = x THEN c ELSE Replaced(@[m], f)]]
  BY <1>4, <1>5, <1>6 DEF Restored, RestoredValue
<1>8. \A q \in Runs : q # r => stack'[q] = stack[q] /\ values'[q] = values[q]
  BY <1>1, <1>7 DEF TypeOK
<1>9. PICK w : w = values'[r]
  OBVIOUS
<1>10. w = [m \in Nodes |-> IF m = x THEN c ELSE Replaced(v[m], f)]
  BY <1>1, <1>3, <1>7, <1>9 DEF TypeOK
<1>11. w[x] # <<>> /\ \A m \in Nodes : v[m] # <<>> => w[m] # <<>>
  <2>1. x \in Nodes /\ w[x] = c /\ \A m \in Nodes : m # x => w[m] = Replaced(v[m], f)
    BY <1>10 DEF Nodes
  <2>2. \A m \in Nodes : v[m] \in Seq(Guest)
    BY DEF Memo
  <2>3. \A m \in Nodes : Replaced(v[m], f) = <<>> <=> v[m] = <<>>
    BY <2>2, ReplacedFits
  <2>4. QED
    BY <1>6, <2>1, <2>3
<1>12. PICK n \in Nat \ {0} : n = Len(S)
  BY <1>1, <1>2, TopIndices
<1>13. \A i \in 1..n - 1 : S[i].at = "args"
  BY <1>1, <1>2, <1>12 DEF RunOK, Good, Chain
<1>14. ASSUME NEW m \in Nodes, NEW s \in Sources, MadeIn(S, v, s, m)
       PROVE  w[m] # <<>>
  <2>1. CASE v[m] # <<>>
    BY <1>11, <2>1
  <2>2. ASSUME NEW i \in 1..n, S[i].at = "restore", S[i].node = m
        PROVE  w[m] # <<>>
    <3>1. i = n \/ i \in 1..n - 1
      OBVIOUS
    <3>2. i = n
      BY <1>13, <2>2, <3>1
    <3>3. m = x
      BY <1>4, <1>5, <1>12, <2>2, <3>2
    <3>4. QED
      BY <1>11, <3>3
  <2>3. QED
    BY <1>12, <1>14, <2>1, <2>2 DEF MadeIn
<1>15. Keeps(r)
  <2>1. \A m \in Nodes, s \in Sources : Made(r, s, m) => MadeIn(S, v, s, m)
    BY <1>2, <1>3 DEF Made
  <2>2. \A m \in Nodes, s \in Sources : w[m] # <<>> => Made(r, s, m)'
    BY <1>9 DEF Made, MadeIn
  <2>3. QED
    BY <1>1, <1>14, <2>1, <2>2 DEF Keeps
<1>16. ASSUME NEW q \in Runs
       PROVE  Keeps(q)
  <2>1. CASE q = r
    BY <1>15, <2>1
  <2>2. CASE q # r
    BY <1>7, <1>8, <2>2, SameMade
  <2>3. QED
    BY <2>1, <2>2
<1>17. QED
  BY <1>7, <1>16, DirsGoOn

\* A step of a run that has left its calls.
LEMMA ClosingDirs ==
  ASSUME DirInv, outcome' = outcome, store' = store, faults \subseteq faults',
         dirs' \subseteq dirs, stack' = stack, values' = values,
         \A q \in Runs : phase'[q] = phase[q] \/ (phase[q] # "going" /\ phase'[q] # "going")
  PROVE  DirInv'
<1>1. ASSUME NEW q \in Runs
      PROVE  Keeps(q)
  <2>1. CASE phase'[q] = phase[q]
    BY <2>1, SameMade
  <2>2. CASE phase'[q] # "going"
    BY <2>2 DEF Keeps
  <2>3. QED
    BY <2>1, <2>2
<1>2. QED
  BY <1>1, DirsGoOn

\* The invariant of the directories holds initially.
LEMMA InitDirs == Init => DirInv
BY DEF Init, DirInv, OutcomeOK, FailuresHaveCauses

\* Every step keeps it.
LEMMA NextDirs == LockInv /\ DataInv /\ DirInv /\ [Next]_vars => DirInv'
<1>1. SUFFICES ASSUME LockInv, DataInv, DirInv, [Next]_vars
               PROVE  DirInv'
  OBVIOUS
<1>2. TypeOK
  BY <1>1 DEF DataInv
<1>3. CASE UNCHANGED vars
  BY <1>1, <1>3, ClosingDirs DEF vars
<1>4. CASE StopAllInstances
  BY <1>1, <1>4, ClosingDirs DEF StopAllInstances
<1>5. ASSUME NEW r \in Runs, Dispose(r) \/ End(r) \/ DisposeRaises(r)
      PROVE  DirInv'
  <2>1. \A q \in Runs : phase'[q] = phase[q] \/ (phase[q] # "going" /\ phase'[q] # "going")
    BY <1>2, <1>5 DEF Dispose, End, DisposeRaises, TypeOK
  <2>2. /\ outcome' = outcome /\ store' = store /\ faults \subseteq faults'
        /\ dirs' \subseteq dirs /\ stack' = stack /\ values' = values
    BY <1>5 DEF Dispose, End, DisposeRaises
  <2>3. QED
    BY <1>1, <2>1, <2>2, ClosingDirs
<1>6. ASSUME NEW r \in Runs, Step(r)
      PROVE  DirInv'
  <2>1. CASE HitTarget(r)
    BY <1>1, <1>2, <2>1, HitTargetDirs
  <2>2. CASE Enter(r) \/ Recall(r) \/ BodyReturns(r) \/ SaveMachine(r) \/ Publish(r)
    BY <1>1, <2>2, PlainTopDirs
  <2>3. CASE \E t \in Tests : Descend(r, t)
    BY <1>1, <1>2, <2>3, DescendDirs
  <2>4. CASE \E s \in Sources : Boot(r, s)
    BY <1>1, <2>4, BootDirs
  <2>5. CASE PublishTarget(r)
    BY <1>1, <1>2, <2>5, PublishTargetDirs
  <2>6. CASE RestoreMachine(r)
    BY <1>1, <2>6, RestoreMachineDirs
  <2>7. CASE Restored(r)
    BY <1>1, <2>7, RestoredDirs
  <2>8. CASE Collide(r)
    BY <1>1, <2>8, CollideDirs
  <2>9. CASE Dispose(r) \/ End(r)
    BY <1>5, <2>9
  <2>10. QED
    BY <1>6, <2>1, <2>2, <2>3, <2>4, <2>5, <2>6, <2>7, <2>8, <2>9 DEF Step
<1>7. ASSUME NEW r \in Runs, Fail(r) \/ Cancel(r)
      PROVE  DirInv'
  BY <1>1, <1>2, <1>7, FailDirs, CancelDirs
<1>8. QED
  BY <1>1, <1>3, <1>4, <1>5, <1>6, <1>7 DEF Next

------------------------------------------------------------------------------
(* Why a run fails *)

\* The invariant of the directories holds throughout.
LEMMA DirInvariant == Spec => []DirInv
BY InitDirs, NextDirs, LocksInvariant, DataInvariant, PTL DEF Spec

\* No run fails or collides with an artifact directory by the doing of the
\* executor alone: a failure has a fault behind it (an exception, a
\* cancellation), an expectation of the target, or, with --force, another run of
\* the same target, for any graph, any number of runs and any of their orders.
THEOREM FailuresCaused == Spec => []FailuresHaveCauses
<1>1. DirInv => FailuresHaveCauses
  BY DEF DirInv
<1>2. QED
  BY <1>1, DirInvariant, PTL

==============================================================================
