---------------------------- MODULE SurfacesProofs ----------------------------
(***************************************************************************)
(* Theorems about Surfaces.                                                *)
(***************************************************************************)
EXTENDS Surfaces, FiniteSetTheorems, SequenceTheorems, WellFoundedInduction, TLAPS

(***************************************************************************)
(* Lists.                                                                  *)
(***************************************************************************)

(* s is a sequence, of whatever items.                                      *)
IsList(s) == s \in Seq(ToSet(s))

(* The ranks of the members of a finite set of positions are 1 up to their  *)
(* number, in their order.                                                  *)
LEMMA RankOrders ==
  ASSUME NEW K, IsFiniteSet(K), \A k \in K : k \in Int
  PROVE  /\ Cardinality(K) \in Nat
         /\ \A i \in K : Rank(K, i) \in 1 .. Cardinality(K)
         /\ \A i, j \in K : i < j => Rank(K, i) < Rank(K, j)
         /\ \A n \in 1 .. Cardinality(K) : \E i \in K : Rank(K, i) = n
<1> DEFINE Upto(i) == {j \in K : j <= i}
           r == [i \in K |-> Cardinality(Upto(i))]
<1>1. Cardinality(K) \in Nat
  BY FS_CardinalityType
<1>2. \A i \in K : IsFiniteSet(Upto(i)) /\ Cardinality(Upto(i)) \in Nat
                     /\ Cardinality(Upto(i)) <= Cardinality(K) /\ Cardinality(Upto(i)) # 0
  <2> TAKE i \in K
  <2>1. Upto(i) \in SUBSET K /\ i \in Upto(i) /\ Upto(i) # {}
    OBVIOUS
  <2> HIDE DEF Upto
  <2> QED  BY <1>1, <2>1, FS_Subset, FS_CardinalityType, FS_EmptySet
<1>3. \A i, j \in K : i < j => Cardinality(Upto(i)) < Cardinality(Upto(j))
  <2> SUFFICES ASSUME NEW i \in K, NEW j \in K, i < j
               PROVE  Cardinality(Upto(i)) < Cardinality(Upto(j))
    OBVIOUS
  <2>1. Upto(i) \in SUBSET Upto(j) /\ j \in Upto(j) /\ j \notin Upto(i)
    OBVIOUS
  <2> HIDE DEF Upto
  <2>2. IsFiniteSet(Upto(j)) /\ Upto(i) # Upto(j)
    BY <1>2, <2>1
  <2>3. Cardinality(Upto(i)) <= Cardinality(Upto(j)) /\ Cardinality(Upto(i)) # Cardinality(Upto(j))
    BY <2>1, <2>2, FS_Subset
  <2>4. Cardinality(Upto(i)) \in Nat /\ Cardinality(Upto(j)) \in Nat
    BY <1>2
  <2> QED  BY <2>3, <2>4
<1> HIDE DEF Upto
<1>4. IsFiniteSet(1 .. Cardinality(K)) /\ Cardinality(1 .. Cardinality(K)) = Cardinality(K)
  BY <1>1, FS_Interval
<1>5. r \in Injection(K, 1 .. Cardinality(K))
  <2>1. r \in [K -> 1 .. Cardinality(K)]
    BY <1>1, <1>2
  <2>2. ASSUME NEW i \in K, NEW j \in K, r[i] = r[j] PROVE i = j
    BY <1>2, <1>3, <2>2
  <2> QED  BY <2>1, <2>2 DEF Injection, IsInjective
<1>6. r \in Surjection(K, 1 .. Cardinality(K))
  BY <1>4, <1>5, FS_Injection
<1>7. \A n \in 1 .. Cardinality(K) : \E i \in K : Cardinality(Upto(i)) = n
  BY <1>6 DEF Surjection
<1>8. \A i \in K : Rank(K, i) = Cardinality(Upto(i))
  BY DEF Rank, Upto
<1>9. \A i \in K : Rank(K, i) \in 1 .. Cardinality(K)
  BY <1>1, <1>2, <1>8
<1> QED  BY <1>1, <1>3, <1>7, <1>8, <1>9

(* pos lists the members of K in their order, each once.                    *)
InOrder(pos, K) ==
  /\ pos \in [1 .. Cardinality(K) -> K]
  /\ \A m, n \in 1 .. Cardinality(K) : m < n => pos[m] < pos[n]
  /\ \A i \in K : \E n \in 1 .. Cardinality(K) : pos[n] = i

(* The positions that are kept can be listed in order, and the items at     *)
(* them are the items of that listing.                                      *)
LEMMA PositionsInOrder ==
  ASSUME NEW K, IsFiniteSet(K), \A k \in K : k \in Int
  PROVE  /\ Cardinality(K) \in Nat
         /\ \E pos : /\ InOrder(pos, K)
                     /\ \A items : AtPositions(items, K) = [n \in 1 .. Cardinality(K) |-> items[pos[n]]]
<1> DEFINE pos == [n \in 1 .. Cardinality(K) |-> CHOOSE i \in K : Rank(K, i) = n]
<1>1. Cardinality(K) \in Nat
  BY RankOrders
<1>2. \A n \in 1 .. Cardinality(K) : pos[n] \in K /\ Rank(K, pos[n]) = n
  BY RankOrders
<1>3. \A i \in K : pos[Rank(K, i)] = i
  <2> SUFFICES ASSUME NEW i \in K, pos[Rank(K, i)] # i PROVE FALSE
    OBVIOUS
  <2> DEFINE j == pos[Rank(K, i)]
  <2>1. Rank(K, i) \in 1 .. Cardinality(K)  BY RankOrders
  <2>2. j \in K /\ Rank(K, j) = Rank(K, i)  BY <1>2, <2>1
  <2> HIDE DEF j
  <2>3. i \in Int /\ j \in Int /\ i # j  BY <2>2 DEF j
  <2>4. i < j \/ j < i  BY <2>3
  <2>5. Rank(K, i) < Rank(K, j) \/ Rank(K, j) < Rank(K, i)  BY <2>2, <2>4, RankOrders
  <2> QED  BY <2>1, <2>2, <2>5
<1>4. \A m, n \in 1 .. Cardinality(K) : m < n => pos[m] < pos[n]
  <2> SUFFICES ASSUME NEW m \in 1 .. Cardinality(K), NEW n \in 1 .. Cardinality(K), m < n
               PROVE  pos[m] < pos[n]
    OBVIOUS
  <2>1. pos[m] \in K /\ pos[n] \in K /\ Rank(K, pos[m]) = m /\ Rank(K, pos[n]) = n
    BY <1>2
  <2> HIDE DEF pos
  <2>2. pos[m] \in Int /\ pos[n] \in Int /\ m \in Nat /\ n \in Nat  BY <1>1, <2>1
  <2>3. CASE pos[n] < pos[m]
    <3>1. Rank(K, pos[n]) < Rank(K, pos[m])  BY <2>1, <2>3, RankOrders
    <3> QED  BY <2>1, <2>2, <3>1
  <2>4. CASE pos[n] = pos[m]
    BY <2>1, <2>2, <2>4
  <2> QED  BY <2>2, <2>3, <2>4
<1>5. pos \in [1 .. Cardinality(K) -> K]
  BY <1>2
<1>6. \A items : AtPositions(items, K) = [n \in 1 .. Cardinality(K) |-> items[pos[n]]]
  BY DEF AtPositions
<1>7. \A i \in K : \E n \in 1 .. Cardinality(K) : pos[n] = i
  BY <1>3, RankOrders
<1> HIDE DEF pos
<1>8. InOrder(pos, K)
  BY <1>4, <1>5, <1>7 DEF InOrder
<1> QED  BY <1>1, <1>6, <1>8

(* A list is a function on 1 up to its length.                              *)
LEMMA ListShape ==
  ASSUME NEW s, IsList(s)
  PROVE  /\ Len(s) \in Nat /\ DOMAIN s = 1 .. Len(s)
         /\ s = [i \in 1 .. Len(s) |-> s[i]]
         /\ \A i \in DOMAIN s : i \in Int
<1>1. Len(s) \in Nat /\ DOMAIN s = 1 .. Len(s)
  BY LenProperties DEF IsList
<1>2. s \in [1 .. Len(s) -> ToSet(s)]
  BY <1>1, LenProperties DEF IsList
<1> QED  BY <1>1, <1>2

(* A function on 1 .. n is a list of length n.                              *)
LEMMA MakeList ==
  ASSUME NEW n \in Nat, NEW s, s = [i \in 1 .. n |-> s[i]]
  PROVE  IsList(s) /\ Len(s) = n /\ DOMAIN s = 1 .. n
<1>1. s \in [1 .. n -> ToSet(s)]
  <2>1. DOMAIN s = 1 .. n  OBVIOUS
  <2>2. \A i \in 1 .. n : s[i] \in ToSet(s)  BY <2>1 DEF ToSet
  <2> QED  BY <2>2
<1>2. s \in Seq(ToSet(s))
  BY <1>1, SeqDef
<1>3. Len(s) \in Nat /\ 1 .. Len(s) = 1 .. n
  BY <1>1, <1>2, LenProperties
<1>4. Len(s) = n
  BY <1>3
<1> QED  BY <1>2, <1>3, <1>4 DEF IsList

(* Lists of the same length with the same items are equal.                  *)
LEMMA SameList ==
  ASSUME NEW s, NEW t, IsList(s), IsList(t), Len(s) = Len(t),
         \A i \in 1 .. Len(s) : s[i] = t[i]
  PROVE  s = t
<1>1. s = [i \in 1 .. Len(s) |-> s[i]] /\ t = [i \in 1 .. Len(t) |-> t[i]]
  BY ListShape
<1> QED  BY <1>1

(* The items of a concatenation are those of its parts, and nothing else.   *)
LEMMA ListConcat ==
  ASSUME NEW s, NEW t, IsList(s), IsList(t)
  PROVE  /\ IsList(s \o t) /\ Len(s \o t) = Len(s) + Len(t)
         /\ \A i \in 1 .. Len(s) : (s \o t)[i] = s[i]
         /\ \A i \in 1 .. Len(t) : (s \o t)[Len(s) + i] = t[i]
         /\ \A i \in 1 .. Len(s) + Len(t) :
              i \in 1 .. Len(s) \/ \E j \in 1 .. Len(t) : i = Len(s) + j
<1> DEFINE S == ToSet(s) \cup ToSet(t)
<1>1. Len(s) \in Nat /\ Len(t) \in Nat
  BY ListShape
<1>2. s \in Seq(S) /\ t \in Seq(S)
  <2>1. ToSet(s) \subseteq S /\ ToSet(t) \subseteq S  OBVIOUS
  <2> HIDE DEF S
  <2> QED  BY <2>1, SeqMonotonic DEF IsList
<1> HIDE DEF S
<1>3. /\ s \o t \in Seq(S) /\ Len(s \o t) = Len(s) + Len(t)
      /\ \A i \in 1 .. Len(s) + Len(t) :
            (s \o t)[i] = IF i <= Len(s) THEN s[i] ELSE t[i - Len(s)]
  BY <1>2, ConcatProperties
<1>4. DOMAIN (s \o t) = 1 .. Len(s) + Len(t) /\ s \o t \in [DOMAIN (s \o t) -> S]
  BY <1>3, LenProperties
<1>5. IsList(s \o t)
  <2>1. s \o t = [i \in 1 .. Len(s) + Len(t) |-> (s \o t)[i]]
    BY <1>4
  <2>2. Len(s) + Len(t) \in Nat  BY <1>1
  <2> QED  BY <2>1, <2>2, MakeList
<1>6. \A i \in 1 .. Len(s) : (s \o t)[i] = s[i]
  BY <1>1, <1>3
<1>7. ASSUME NEW i \in 1 .. Len(t) PROVE (s \o t)[Len(s) + i] = t[i]
  <2>1. Len(s) + i \in 1 .. Len(s) + Len(t) /\ ~ (Len(s) + i <= Len(s)) /\ Len(s) + i - Len(s) = i
    BY <1>1
  <2> QED  BY <1>3, <2>1
<1>8. ASSUME NEW i \in 1 .. Len(s) + Len(t)
      PROVE  i \in 1 .. Len(s) \/ \E j \in 1 .. Len(t) : i = Len(s) + j
  <2>1. CASE i <= Len(s)  BY <1>1, <2>1
  <2>2. CASE ~ (i <= Len(s))
    <3>1. i - Len(s) \in 1 .. Len(t) /\ i = Len(s) + (i - Len(s))  BY <1>1, <2>2
    <3> QED  BY <3>1
  <2> QED  BY <2>1, <2>2
<1> QED  BY <1>3, <1>5, <1>6, <1>7, <1>8

(* Appending adds one item at the end.                                      *)
LEMMA ListAppend ==
  ASSUME NEW s, NEW x, IsList(s)
  PROVE  /\ IsList(Append(s, x)) /\ Len(Append(s, x)) = Len(s) + 1
         /\ \A i \in 1 .. Len(s) : Append(s, x)[i] = s[i]
         /\ Append(s, x)[Len(s) + 1] = x
<1> DEFINE S == ToSet(s) \cup {x}
<1>1. Len(s) \in Nat
  BY ListShape
<1>2. s \in Seq(S)
  <2>1. ToSet(s) \subseteq S  OBVIOUS
  <2> HIDE DEF S
  <2> QED  BY <2>1, SeqMonotonic DEF IsList
<1>3. x \in S  OBVIOUS
<1> HIDE DEF S
<1>4. /\ Append(s, x) \in Seq(S) /\ Len(Append(s, x)) = Len(s) + 1
      /\ \A i \in 1 .. Len(s) : Append(s, x)[i] = s[i]
      /\ Append(s, x)[Len(s) + 1] = x
  BY <1>2, <1>3, AppendProperties
<1>5. Append(s, x) = [i \in 1 .. Len(s) + 1 |-> Append(s, x)[i]]
  BY <1>4, LenProperties
<1>6. Len(s) + 1 \in Nat
  BY <1>1
<1> QED  BY <1>4, <1>5, <1>6, MakeList

(* Any positions of a list are a finite set of numbers.                     *)
LEMMA PositionsAreFinite ==
  ASSUME NEW s, IsList(s), NEW K \in SUBSET (DOMAIN s)
  PROVE  IsFiniteSet(K) /\ \A k \in K : k \in Int
<1>1. Len(s) \in Nat /\ DOMAIN s = 1 .. Len(s)
  BY ListShape
<1>2. IsFiniteSet(1 .. Len(s))
  BY <1>1, FS_Interval
<1> QED  BY <1>1, <1>2, FS_Subset

(* The items at some of a list's positions are a list of them in their      *)
(* order.                                                                   *)
LEMMA Selection ==
  ASSUME NEW s, IsList(s), NEW K \in SUBSET (DOMAIN s)
  PROVE  /\ IsList(AtPositions(s, K)) /\ Len(AtPositions(s, K)) = Cardinality(K)
         /\ DOMAIN AtPositions(s, K) = 1 .. Cardinality(K)
         /\ \E pos : /\ InOrder(pos, K)
                     /\ \A n \in 1 .. Cardinality(K) : AtPositions(s, K)[n] = s[pos[n]]
<1> DEFINE t == AtPositions(s, K)
<1>1. IsFiniteSet(K) /\ \A k \in K : k \in Int
  BY PositionsAreFinite
<1>2. Cardinality(K) \in Nat
  BY <1>1, PositionsInOrder
<1>3. PICK pos : /\ InOrder(pos, K)
                 /\ t = [n \in 1 .. Cardinality(K) |-> s[pos[n]]]
  BY <1>1, PositionsInOrder
<1> HIDE DEF t
<1>4. DOMAIN t = 1 .. Cardinality(K) /\ \A n \in DOMAIN t : t[n] = s[pos[n]]
  BY <1>3
<1>5. t = [n \in 1 .. Cardinality(K) |-> t[n]]
  BY <1>3
<1>6. IsList(t) /\ Len(t) = Cardinality(K)
  BY <1>2, <1>5, MakeList
<1> QED  BY <1>3, <1>4, <1>6 DEF t

(***************************************************************************)
(* Folds.                                                                  *)
(***************************************************************************)

(* What holds at zero and passes from each number up to n - 1 to the next   *)
(* holds up to n.                                                           *)
LEMMA Upwards ==
  ASSUME NEW n \in Nat, NEW T, 0 \in T, \A i \in 1 .. n : i - 1 \in T => i \in T
  PROVE  \A i \in 0 .. n : i \in T
<1> DEFINE Out == {i \in 0 .. n : i \notin T}
<1> SUFFICES ASSUME Out # {} PROVE FALSE
  OBVIOUS
<1>1. Out \subseteq Nat
  OBVIOUS
<1>2. \E k \in Out : \A j \in Out : ~ (<<j, k>> \in OpToRel(<, Nat))
  <2> HIDE DEF Out
  <2> QED  BY <1>1, WFMin, NatLessThanWellFounded
<1>3. PICK k \in Out : \A j \in Out : ~ (j < k)
  BY <1>1, <1>2 DEF OpToRel
<1>4. k \in 0 .. n /\ k \notin T /\ k # 0 /\ k - 1 \in 0 .. n /\ k - 1 < k
  BY <1>3
<1>5. k - 1 \in T
  BY <1>3, <1>4
<1> QED  BY <1>4, <1>5

(* The size of an interval that starts at one.                              *)
LEMMA IntervalSize ==
  ASSUME NEW n \in Nat
  PROVE  IsFiniteSet(1 .. n) /\ Cardinality(1 .. n) = n
<1>1. IsFiniteSet(1 .. n) /\ Cardinality(1 .. n) = IF 1 > n THEN 0 ELSE n - 1 + 1
  BY FS_Interval
<1> QED  BY <1>1

(* A finite set of numbers has a maximum.                                   *)
LEMMA MaxIsMember ==
  ASSUME NEW S, IsFiniteSet(S), S # {}, \A i \in S : i \in Int
  PROVE  Max(S) \in S /\ \A i \in S : i <= Max(S)
<1>1. Cardinality(S) \in Nat /\ Cardinality(S) # 0
  BY FS_CardinalityType, FS_EmptySet
<1>2. PICK m \in S : Rank(S, m) = Cardinality(S)
  <2>1. Cardinality(S) \in 1 .. Cardinality(S)
    BY <1>1
  <2> QED  BY <2>1, RankOrders
<1>3. ASSUME NEW i \in S PROVE m >= i
  <2> SUFFICES ASSUME m < i PROVE FALSE
    OBVIOUS
  <2>1. Rank(S, m) < Rank(S, i) /\ Rank(S, i) \in 1 .. Cardinality(S)
    BY RankOrders
  <2> QED  BY <1>1, <1>2, <2>1
<1>4. Max(S) \in S /\ \A i \in S : Max(S) >= i
  BY <1>3 DEF Max
<1> QED  BY <1>4

(* The maximum of an interval is its end.                                   *)
LEMMA MaxOfInterval ==
  ASSUME NEW n \in Nat, n # 0
  PROVE  Max(1 .. n) = n
<1>1. n \in 1 .. n /\ \A i \in 1 .. n : n >= i
  OBVIOUS
<1>2. Max(1 .. n) \in 1 .. n /\ \A i \in 1 .. n : Max(1 .. n) >= i
  BY <1>1 DEF Max
<1> QED  BY <1>1, <1>2

(* The steps that are folded over the parts of a line and over calls.       *)
Step(op, s, item) ==
  CASE op = "part" -> OnPart(s, item)
    [] op = "call" -> EmitCallAt(s, item)
    [] op = "use"  -> SendToolUse(s, item)

(* The recursion of a fold, over the subsets of 1 .. n, takes out the       *)
(* maximum.                                                                 *)
Solves(f, op, base, seq, n) ==
  f = [s \in SUBSET (1 .. n) |->
         IF s = {} THEN base ELSE Step(op, f[s \ {Max(s)}], seq[Max(s)])]

(* Following it along 0, 1 .. n.                                            *)
Follows(run, op, base, seq, n) ==
  run[0] = base /\ \A i \in 1 .. n : run[i] = Step(op, run[i - 1], seq[i])

(* It has a solution, and any solution can be followed along 0, 1 .. n.     *)
LEMMA Recursion ==
  ASSUME NEW op, NEW base, NEW seq, NEW n \in Nat
  PROVE  /\ \E f : Solves(f, op, base, seq, n)
         /\ \A f : Solves(f, op, base, seq, n) =>
               \E run : Follows(run, op, base, seq, n) /\ f[1 .. n] = run[n]
<1> DEFINE D == SUBSET (1 .. n)
           Eq(g, s) == g[s] = IF s = {} THEN base
                              ELSE Step(op, g[s \ {Max(s)}], seq[Max(s)])
           Upto(k) == {s \in D : Cardinality(s) <= k}
           T == {k \in 0 .. n : \E g : g = [s \in D |-> g[s]] /\ \A s \in Upto(k) : Eq(g, s)}
           G(g) == [s \in D |-> IF s = {} THEN base
                                ELSE Step(op, g[s \ {Max(s)}], seq[Max(s)])]
<1>1. \A s \in D : /\ IsFiniteSet(s) /\ Cardinality(s) \in Nat /\ Cardinality(s) <= n
                   /\ Cardinality(s) = 0 <=> s = {}
  <2>1. IsFiniteSet(1 .. n) /\ Cardinality(1 .. n) = n
    BY IntervalSize
  <2> SUFFICES ASSUME NEW s \in D
               PROVE  /\ IsFiniteSet(s) /\ Cardinality(s) \in Nat /\ Cardinality(s) <= n
                      /\ Cardinality(s) = 0 <=> s = {}
    OBVIOUS
  <2>2. IsFiniteSet(s) /\ Cardinality(s) <= n
    <3>1. s \in SUBSET (1 .. n)
      OBVIOUS
    <3>2. IsFiniteSet(s) /\ Cardinality(s) <= Cardinality(1 .. n)
      BY <2>1, <3>1, FS_Subset
    <3> HIDE DEF D
    <3> QED  BY <2>1, <3>2
  <2> QED  BY <2>2, FS_CardinalityType, FS_EmptySet
<1>2. ASSUME NEW s \in D, s # {}
      PROVE  /\ Max(s) \in s
             /\ s \ {Max(s)} \in D /\ Cardinality(s \ {Max(s)}) = Cardinality(s) - 1
  <2>1. IsFiniteSet(s) /\ \A i \in s : i \in Int
    BY <1>1
  <2>2. Max(s) \in s
    BY <1>2, <2>1, MaxIsMember
  <2> QED  BY <1>1, <2>2, FS_RemoveElement
<1>3. 0 \in T
  <2> DEFINE g == [s \in D |-> base]
  <2>1. \A s \in Upto(0) : s = {}
    <3> SUFFICES ASSUME NEW s \in D, Cardinality(s) <= 0 PROVE s = {}
      OBVIOUS
    <3> QED  BY <1>1
  <2>2. \A s \in Upto(0) : Eq(g, s)
    BY <2>1
  <2>3. g = [s \in D |-> g[s]]
    OBVIOUS
  <2> HIDE DEF g, D, Eq, Upto
  <2> QED  BY <2>2, <2>3
<1>4. ASSUME NEW i \in 1 .. n, i - 1 \in T PROVE i \in T
  <2>1. PICK g : \A s \in Upto(i - 1) : Eq(g, s)
    BY <1>4
  <2>2. \A s \in D : G(g)[s] = IF s = {} THEN base ELSE Step(op, g[s \ {Max(s)}], seq[Max(s)])
    OBVIOUS
  <2>3. ASSUME NEW s \in Upto(i), s # {} PROVE G(g)[s \ {Max(s)}] = g[s \ {Max(s)}]
    <3> DEFINE t == s \ {Max(s)}
    <3>1. t \in Upto(i - 1) /\ t \in D
      <4>1. s \in D /\ Cardinality(s) <= i /\ Cardinality(s) \in Nat
        BY <1>1, <2>3
      <4>2. t \in D /\ Cardinality(t) = Cardinality(s) - 1
        BY <1>2, <2>3, <4>1
      <4> HIDE DEF t, D
      <4> QED  BY <4>1, <4>2
    <3> HIDE DEF t
    <3>2. Eq(g, t)  BY <2>1, <3>1
    <3>3. G(g)[t] = g[t]  BY <2>2, <3>1, <3>2
    <3> QED  BY <3>3 DEF t
  <2>4. \A s \in Upto(i) : Eq(G(g), s)
    BY <2>2, <2>3
  <2>5. G(g) = [s \in D |-> G(g)[s]]
    OBVIOUS
  <2>6. i \in 0 .. n
    OBVIOUS
  <2> HIDE DEF G, D, Eq, Upto
  <2> QED  BY <2>4, <2>5, <2>6
<1>5. n \in T
  <2> HIDE DEF T
  <2> QED BY <1>3, <1>4, Upwards
<1>6. PICK g : g = [s \in D |-> g[s]] /\ \A s \in D : Eq(g, s)
  BY <1>1, <1>5
<1>7. Solves(g, op, base, seq, n)
  BY <1>6 DEF Solves
<1>8. ASSUME NEW f, Solves(f, op, base, seq, n)
      PROVE  \E run : Follows(run, op, base, seq, n) /\ f[1 .. n] = run[n]
  <2> DEFINE run == [i \in 0 .. n |-> f[1 .. i]]
  <2>1. run[0] = base
    <3>1. f[{}] = base  BY <1>8 DEF Solves
    <3>2. 1 .. 0 = {} OBVIOUS
    <3> QED  BY <3>1, <3>2
  <2>2. ASSUME NEW i \in 1 .. n PROVE run[i] = Step(op, run[i - 1], seq[i])
    <3>1. Max(1 .. i) = i
      BY MaxOfInterval
    <3>2. (1 .. i) \ {i} = 1 .. (i - 1) /\ 1 .. i \in D /\ 1 .. i # {}
      OBVIOUS
    <3>3. f[1 .. i] = Step(op, f[(1 .. i) \ {Max(1 .. i)}], seq[Max(1 .. i)])
      BY <1>8, <3>2 DEF Solves
    <3>4. run[i] = f[1 .. i] /\ run[i - 1] = f[1 .. (i - 1)]
      OBVIOUS
    <3> QED  BY <3>1, <3>2, <3>3, <3>4
  <2>3. f[1 .. n] = run[n]
    OBVIOUS
  <2> HIDE DEF run
  <2> QED BY <2>1, <2>2, <2>3 DEF Follows
<1> HIDE DEF T, G, Eq, Upto, D
<1> QED BY <1>7, <1>8

(* The parts of a line are received one after another.                      *)
LEMMA FoldRuns ==
  ASSUME NEW parts, IsList(parts)
  PROVE  \E run : /\ run[0] = LineBegins
                  /\ \A i \in 1 .. Len(parts) : run[i] = OnPart(run[i - 1], parts[i])
                  /\ OnParsed(parts) = LineEnds(run[Len(parts)])
<1> DEFINE n == Len(parts)
           D == SUBSET (1 .. n)
           iter == CHOOSE f : f = [s \in D |-> IF s = {} THEN LineBegins
                                               ELSE OnPart(f[s \ {Max(s)}], parts[Max(s)])]
<1>1. n \in Nat /\ DOMAIN parts = 1 .. n
  BY ListShape
<1>2. iter = [s \in D |-> IF s = {} THEN LineBegins ELSE OnPart(iter[s \ {Max(s)}], parts[Max(s)])]
  <2>1. PICK f : Solves(f, "part", LineBegins, parts, n)
    <3> HIDE DEF n
    <3> QED  BY <1>1, Recursion
  <2>2. f = [s \in D |-> IF s = {} THEN LineBegins ELSE OnPart(f[s \ {Max(s)}], parts[Max(s)])]
    BY <2>1 DEF Solves, Step
  <2> QED  BY <2>2
<1>3. OnParsed(parts) = LineEnds(iter[1 .. n])
  BY <1>1 DEF OnParsed, FoldLeft, MapThenFoldSet
<1> HIDE DEF iter
<1>4. Solves(iter, "part", LineBegins, parts, n)
  BY <1>2 DEF Solves, Step
<1>5. PICK run : Follows(run, "part", LineBegins, parts, n) /\ iter[1 .. n] = run[n]
  <2> HIDE DEF n
  <2> QED  BY <1>1, <1>4, Recursion
<1>6. run[0] = LineBegins /\ \A i \in 1 .. n : run[i] = OnPart(run[i - 1], parts[i])
  BY <1>5 DEF Follows, Step
<1> QED  BY <1>1, <1>3, <1>5, <1>6

(* The calls of a response are told one after another.                      *)
LEMMA CallsRun ==
  ASSUME NEW base, NEW calls, IsList(calls)
  PROVE  \E run : /\ run[0] = base
                  /\ \A i \in 1 .. Len(calls) : run[i] = EmitCallAt(run[i - 1], <<i, calls[i]>>)
                  /\ EmitCalls(base, calls) = run[Len(calls)]
<1> DEFINE n == Len(calls)
           D == SUBSET (1 .. n)
           seq == [i \in DOMAIN calls |-> <<i, calls[i]>>]
           iter == CHOOSE f : f = [s \in D |-> IF s = {} THEN base
                                               ELSE EmitCallAt(f[s \ {Max(s)}], seq[Max(s)])]
<1>1. n \in Nat /\ DOMAIN seq = 1 .. n
  BY ListShape
<1>2. iter = [s \in D |-> IF s = {} THEN base ELSE EmitCallAt(iter[s \ {Max(s)}], seq[Max(s)])]
  <2>1. PICK f : Solves(f, "call", base, seq, n)
    <3> HIDE DEF n, seq
    <3> QED  BY <1>1, Recursion
  <2>2. f = [s \in D |-> IF s = {} THEN base ELSE EmitCallAt(f[s \ {Max(s)}], seq[Max(s)])]
    BY <2>1 DEF Solves, Step
  <2> QED  BY <2>2
<1>3. EmitCalls(base, calls) = iter[1 .. n]
  BY <1>1 DEF EmitCalls, FoldLeft, MapThenFoldSet
<1> HIDE DEF iter
<1>4. Solves(iter, "call", base, seq, n)
  BY <1>2 DEF Solves, Step
<1>5. PICK run : Follows(run, "call", base, seq, n) /\ iter[1 .. n] = run[n]
  <2> HIDE DEF n, seq
  <2> QED  BY <1>1, <1>4, Recursion
<1>6. run[0] = base /\ \A i \in 1 .. n : run[i] = EmitCallAt(run[i - 1], seq[i])
  BY <1>5 DEF Follows, Step
<1> QED  BY <1>1, <1>3, <1>5, <1>6

(* So are those of a Claude answer.                                        *)
LEMMA UsesRun ==
  ASSUME NEW base, NEW calls, IsList(calls)
  PROVE  \E run : /\ run[0] = base
                  /\ \A i \in 1 .. Len(calls) : run[i] = SendToolUse(run[i - 1], calls[i])
                  /\ SendToolUses(base, calls) = run[Len(calls)]
<1> DEFINE n == Len(calls)
           D == SUBSET (1 .. n)
           iter == CHOOSE f : f = [s \in D |-> IF s = {} THEN base
                                               ELSE SendToolUse(f[s \ {Max(s)}], calls[Max(s)])]
<1>1. n \in Nat /\ DOMAIN calls = 1 .. n
  BY ListShape
<1>2. iter = [s \in D |-> IF s = {} THEN base ELSE SendToolUse(iter[s \ {Max(s)}], calls[Max(s)])]
  <2>1. PICK f : Solves(f, "use", base, calls, n)
    <3> HIDE DEF n
    <3> QED  BY <1>1, Recursion
  <2>2. f = [s \in D |-> IF s = {} THEN base ELSE SendToolUse(f[s \ {Max(s)}], calls[Max(s)])]
    BY <2>1 DEF Solves, Step
  <2> QED  BY <2>2
<1>3. SendToolUses(base, calls) = iter[1 .. n]
  BY <1>1 DEF SendToolUses, FoldLeft, MapThenFoldSet
<1> HIDE DEF iter
<1>4. Solves(iter, "use", base, calls, n)
  BY <1>2 DEF Solves, Step
<1>5. PICK run : Follows(run, "use", base, calls, n) /\ iter[1 .. n] = run[n]
  <2> HIDE DEF n
  <2> QED  BY <1>1, <1>4, Recursion
<1>6. run[0] = base /\ \A i \in 1 .. n : run[i] = SendToolUse(run[i - 1], calls[i])
  BY <1>5 DEF Follows, Step
<1> QED  BY <1>1, <1>3, <1>5, <1>6

(***************************************************************************)
(* What the streams of all surfaces have in common.                        *)
(***************************************************************************)

(* The kinds of parts.                                                      *)
AllKinds == {"thought", "plan", "text", "space", "held", "block", "head", "tail"}

(* A part is a kind and a number.                                           *)
IsPart(p) == p = Part(p.kind, p.n) /\ p.kind \in Kinds

(* What was received is kept as lists of parts, thinking apart from text.   *)
IsAcc(acc) ==
  /\ DOMAIN acc = {"text", "thinking", "detection"}
  /\ IsList(acc.text) /\ IsList(acc.thinking) /\ IsList(acc.detection)
  /\ \A i \in DOMAIN acc.text : IsPart(acc.text[i]) /\ acc.text[i].kind \notin Thinking

(* The numbers of the parts of the text.                                    *)
TextNumbers(acc) == {acc.text[i].n : i \in DOMAIN acc.text}

(* What the sieve keeps back is of the text received.                       *)
SieveKeeps(sieve, acc) ==
  /\ DOMAIN sieve = {"pending", "held", "capture"}
  /\ IsList(sieve.pending) /\ IsList(sieve.held) /\ IsList(sieve.capture)
  /\ ToSet(sieve.held) \subseteq TextNumbers(acc)
  /\ ToSet(sieve.capture) \subseteq TextNumbers(acc)

(* The events that end an answer.                                           *)
EndNames == {"finish", "completed", "message_stop", "failed", "error"}

(* Nothing on the wire ends the answer.                                     *)
Quiet(wire) == \A k \in DOMAIN wire : wire[k][1] \notin EndNames

(* The empty list and lists of one item.                                    *)
LEMMA ShortLists ==
  /\ IsList(<<>>) /\ Len(<<>>) = 0 /\ ToSet(<<>>) = {} /\ DOMAIN <<>> = {}
  /\ \A x : IsList(<<x>>) /\ Len(<<x>>) = 1 /\ ToSet(<<x>>) = {x} /\ <<x>> # <<>>
<1>1. IsList(<<>>) /\ Len(<<>>) = 0 /\ ToSet(<<>>) = {} /\ DOMAIN <<>> = {}
  BY DEF IsList, ToSet
<1>2. ASSUME NEW x PROVE IsList(<<x>>) /\ Len(<<x>>) = 1 /\ ToSet(<<x>>) = {x} /\ <<x>> # <<>>
  <2>1. ToSet(<<x>>) = {x}
    BY DEF ToSet
  <2> QED  BY <2>1 DEF IsList
<1> QED  BY <1>1, <1>2

(* The items of a list are those of its positions.                          *)
LEMMA ItemsAre ==
  ASSUME NEW s, IsList(s)
  PROVE  /\ \A i \in 1 .. Len(s) : s[i] \in ToSet(s)
         /\ \A x \in ToSet(s) : \E i \in 1 .. Len(s) : s[i] = x
         /\ s = <<>> <=> Len(s) = 0
<1>1. Len(s) \in Nat /\ DOMAIN s = 1 .. Len(s)
  BY ListShape
<1>2. s = <<>> <=> Len(s) = 0
  BY EmptySeq DEF IsList
<1> QED  BY <1>1, <1>2 DEF ToSet

(* A concatenation has the items of both lists.                             *)
LEMMA ConcatItems ==
  ASSUME NEW s, NEW t, IsList(s), IsList(t)
  PROVE  IsList(s \o t) /\ ToSet(s \o t) = ToSet(s) \cup ToSet(t)
<1>1. Len(s) \in Nat /\ Len(t) \in Nat
  BY ListShape
<1>2. /\ IsList(s \o t) /\ Len(s \o t) = Len(s) + Len(t)
      /\ \A i \in 1 .. Len(s) : (s \o t)[i] = s[i]
      /\ \A i \in 1 .. Len(t) : (s \o t)[Len(s) + i] = t[i]
      /\ \A i \in 1 .. Len(s) + Len(t) :
           i \in 1 .. Len(s) \/ \E j \in 1 .. Len(t) : i = Len(s) + j
  BY ListConcat
<1>3. ASSUME NEW x \in ToSet(s \o t) PROVE x \in ToSet(s) \cup ToSet(t)
  <2> DEFINE u == s \o t
  <2>1. \E i \in 1 .. Len(u) : u[i] = x
    <3>1. IsList(u) /\ x \in ToSet(u)
      BY <1>2, <1>3
    <3> HIDE DEF u
    <3> QED  BY <3>1, ItemsAre
  <2>2. PICK i \in 1 .. Len(s) + Len(t) : (s \o t)[i] = x
    BY <1>2, <2>1
  <2> QED  BY <1>2, <2>2, ItemsAre, SMTT(30)
<1>4. ASSUME NEW x \in ToSet(s) PROVE x \in ToSet(s \o t)
  <2>1. PICK i \in 1 .. Len(s) : s[i] = x
    BY ItemsAre
  <2>2. i \in 1 .. Len(s) + Len(t)
    BY <1>1
  <2> QED  BY <1>2, <2>1, <2>2, ItemsAre
<1>5. ASSUME NEW x \in ToSet(t) PROVE x \in ToSet(s \o t)
  <2>1. PICK i \in 1 .. Len(t) : t[i] = x
    BY ItemsAre
  <2>2. Len(s) + i \in 1 .. Len(s) + Len(t)
    BY <1>1
  <2> QED  BY <1>2, <2>1, <2>2, ItemsAre
<1> QED  BY <1>2, <1>3, <1>4, <1>5

(* An event that is sent is the last one, and nothing else changes.         *)
LEMMA SendOne ==
  ASSUME NEW s, NEW e, IsList(s.wire), "wire" \in DOMAIN s
  PROVE  /\ DOMAIN Send(s, e) = DOMAIN s
         /\ \A f \in DOMAIN s : f # "wire" => Send(s, e)[f] = s[f]
         /\ IsList(Send(s, e).wire) /\ Len(Send(s, e).wire) = Len(s.wire) + 1
         /\ Len(s.wire) \in Nat
         /\ DOMAIN s.wire = 1 .. Len(s.wire) /\ DOMAIN Send(s, e).wire = 1 .. Len(s.wire) + 1
         /\ \A k \in 1 .. Len(s.wire) : Send(s, e).wire[k] = s.wire[k]
         /\ Send(s, e).wire[Len(s.wire) + 1] = e
<1> DEFINE w == Append(s.wire, e)
<1>1. /\ DOMAIN Send(s, e) = DOMAIN s
      /\ \A f \in DOMAIN s : f # "wire" => Send(s, e)[f] = s[f]
      /\ Send(s, e).wire = w
  <2> HIDE DEF w
  <2>1. Send(s, e) = [s EXCEPT !.wire = w]
    BY DEF Send, w
  <2> QED  BY <2>1
<1>2. /\ IsList(w) /\ Len(w) = Len(s.wire) + 1
      /\ \A k \in 1 .. Len(s.wire) : w[k] = s.wire[k]
      /\ w[Len(s.wire) + 1] = e
  BY ListAppend
<1>3. Len(s.wire) \in Nat /\ DOMAIN s.wire = 1 .. Len(s.wire) /\ DOMAIN w = 1 .. Len(w)
  BY <1>2, ListShape
<1> HIDE DEF w
<1> QED  BY <1>1, <1>2, <1>3

(* A part that is received is added to the text or to the thinking.         *)
LEMMA PartIsReceived ==
  ASSUME NEW acc, NEW part, NEW thinking \in BOOLEAN, IsAcc(acc), IsPart(part)
  PROVE  /\ IsAcc(Apply(acc, part, thinking))
         /\ TextNumbers(acc) \subseteq TextNumbers(Apply(acc, part, thinking))
         /\ part.kind \notin Thinking => part.n \in TextNumbers(Apply(acc, part, thinking))
<1> DEFINE a == Apply(acc, part, thinking)
<1>1. CASE part.kind \in Thinking
  <2> DEFINE d == Append(acc.detection, part)
             v == acc.thinking \o Shown(part, thinking)
  <2>1. IsList(d)
    BY ListAppend DEF IsAcc
  <2>2. IsList(Shown(part, thinking))
    BY ShortLists DEF Shown
  <2>3. IsList(v)
    BY <2>2, ListConcat DEF IsAcc
  <2>4. a = [acc EXCEPT !.detection = d, !.thinking = v]
    BY <1>1 DEF Apply
  <2> HIDE DEF a, d, v
  <2>5. /\ DOMAIN a = DOMAIN acc /\ a.text = acc.text /\ a.detection = d /\ a.thinking = v
    BY <2>4 DEF IsAcc
  <2>6. IsAcc(a) /\ TextNumbers(a) = TextNumbers(acc)
    BY <2>1, <2>3, <2>5 DEF IsAcc, TextNumbers
  <2> QED  BY <1>1, <2>6 DEF a
<1>2. CASE part.kind \notin Thinking
  <2> DEFINE t == Append(acc.text, part)
  <2>1. /\ IsList(t) /\ Len(t) = Len(acc.text) + 1
        /\ \A i \in 1 .. Len(acc.text) : t[i] = acc.text[i]
        /\ t[Len(acc.text) + 1] = part
    BY ListAppend DEF IsAcc
  <2>2. a = [acc EXCEPT !.text = t]
    BY <1>2 DEF Apply
  <2> HIDE DEF a, t
  <2>3. /\ DOMAIN a = DOMAIN acc /\ a.text = t
        /\ a.detection = acc.detection /\ a.thinking = acc.thinking
    BY <2>2 DEF IsAcc
  <2>4. /\ DOMAIN acc.text = 1 .. Len(acc.text) /\ Len(acc.text) \in Nat
        /\ DOMAIN t = 1 .. Len(acc.text) + 1
    BY <2>1, ListShape DEF IsAcc
  <2>5. \A i \in 1 .. Len(acc.text) + 1 : i \in 1 .. Len(acc.text) \/ i = Len(acc.text) + 1
    BY <2>4
  <2>6. IsAcc(a)
    BY <1>2, <2>1, <2>3, <2>4, <2>5 DEF IsAcc
  <2>7. \A i \in DOMAIN acc.text : i \in DOMAIN t /\ t[i].n = acc.text[i].n
    BY <2>1, <2>4
  <2>8. Len(acc.text) + 1 \in DOMAIN t
    BY <2>4
  <2> QED  BY <2>1, <2>3, <2>6, <2>7, <2>8 DEF TextNumbers, a
<1> QED  BY <1>1, <1>2

(* What a part leaves in the sieve and what it lets out is text received.   *)
LEMMA ChunkIsSieved ==
  ASSUME NEW sieve, NEW part, NEW acc, SieveKeeps(sieve, acc),
         IsPart(part), part.n \in TextNumbers(acc)
  PROVE  /\ SieveKeeps(ProcessChunk(sieve, part).sieve, acc)
         /\ IsList(ProcessChunk(sieve, part).calls) /\ IsList(ProcessChunk(sieve, part).text)
         /\ ToSet(ProcessChunk(sieve, part).text) \subseteq TextNumbers(acc)
<1> DEFINE kept == Kept(sieve, part)
           out == Released(sieve, part)
<1>1. /\ ProcessChunk(sieve, part).sieve = kept
      /\ ProcessChunk(sieve, part).calls = sieve.pending
      /\ ProcessChunk(sieve, part).text = out
  BY DEF ProcessChunk, Reported
<1>2. SieveKeeps(kept, acc)
  BY ShortLists DEF SieveKeeps, Kept
<1>3. IsList(out) /\ ToSet(out) \subseteq TextNumbers(acc)
  <2> DEFINE now == IF part.kind \in {"text", "space"} THEN <<part.n>> ELSE <<>>
  <2>1. IsList(now) /\ ToSet(now) \subseteq TextNumbers(acc)
    BY ShortLists
  <2>2. out = sieve.held \o now
    BY DEF Released
  <2> HIDE DEF out, now
  <2> QED  BY <2>1, <2>2, ConcatItems DEF SieveKeeps
<1> HIDE DEF kept, out
<1> QED  BY <1>1, <1>2, <1>3 DEF SieveKeeps

(* What the sieve lets out at the end is text received.                     *)
LEMMA SieveIsFlushed ==
  ASSUME NEW sieve, NEW acc, SieveKeeps(sieve, acc)
  PROVE  /\ IsList(FlushSieve(sieve).calls) /\ IsList(FlushSieve(sieve).text)
         /\ ToSet(FlushSieve(sieve).text) \subseteq TextNumbers(acc)
<1>1. IsList(sieve.capture \o sieve.held)
      /\ ToSet(sieve.capture \o sieve.held) = ToSet(sieve.capture) \cup ToSet(sieve.held)
  BY ConcatItems DEF SieveKeeps
<1>2. FlushSieve(sieve).calls = sieve.pending /\ FlushSieve(sieve).text = sieve.capture \o sieve.held
  BY DEF FlushSieve
<1> QED  BY <1>1, <1>2 DEF SieveKeeps

(* The sieve keeps its text when more is received.                          *)
LEMMA SieveStays ==
  ASSUME NEW sieve, NEW acc, NEW b, SieveKeeps(sieve, acc), TextNumbers(acc) \subseteq TextNumbers(b)
  PROVE  SieveKeeps(sieve, b)
BY DEF SieveKeeps

(* An empty sieve keeps nothing.                                            *)
LEMMA EmptySieveKeeps ==
  ASSUME NEW acc
  PROVE  SieveKeeps(EmptySieve, acc)
BY ShortLists DEF SieveKeeps, EmptySieve

(* A stream that has received nothing.                                      *)
LEMMA NothingReceived == IsAcc(NoParts) /\ TextNumbers(NoParts) = {}
BY ShortLists DEF IsAcc, NoParts, TextNumbers

(* What is shown of a part is a list, of its number at most.                *)
LEMMA ShownIsList ==
  ASSUME NEW part, NEW thinking
  PROVE  IsList(Shown(part, thinking)) /\ ToSet(Shown(part, thinking)) \subseteq {part.n}
BY ShortLists DEF Shown

(***************************************************************************)
(* How an answer ends.                                                      *)
(***************************************************************************)

(* Just one event ends the answer, at this place.                           *)
EndsAt(wire, p) ==
  /\ p \in DOMAIN wire /\ wire[p][1] \in EndNames
  /\ \A k \in DOMAIN wire : wire[k][1] \in EndNames => k = p

(* It is followed by [DONE] only, or by nothing.                            *)
EndsDone(wire, e) ==
  /\ IsList(wire) /\ EndsAt(wire, Len(wire) - 1)
  /\ wire[Len(wire) - 1] = e /\ wire[Len(wire)] = <<"[DONE]">>
EndsPlain(wire, e) ==
  IsList(wire) /\ EndsAt(wire, Len(wire)) /\ wire[Len(wire)] = e

(* An end that is sent to a quiet wire, without [DONE] or with it.          *)
LEMMA EndIsSent ==
  ASSUME NEW s, NEW e, IsList(s.wire), "wire" \in DOMAIN s, Quiet(s.wire), e[1] \in EndNames
  PROVE  EndsPlain(Send(s, e).wire, e)
<1> DEFINE t == Send(s, e)
           n == Len(s.wire)
<1>1. /\ IsList(t.wire) /\ Len(t.wire) = n + 1 /\ n \in Nat
      /\ DOMAIN s.wire = 1 .. n /\ DOMAIN t.wire = 1 .. n + 1
      /\ \A k \in 1 .. n : t.wire[k] = s.wire[k]
      /\ t.wire[n + 1] = e
  BY SendOne
<1> HIDE DEF t, n
<1>2. \A k \in 1 .. n + 1 : k \in 1 .. n \/ k = n + 1
  BY <1>1
<1>3. n + 1 \in 1 .. n + 1
  BY <1>1
<1> QED  BY <1>1, <1>2, <1>3 DEF EndsPlain, EndsAt, Quiet, t

(* With [DONE] after it.                                                    *)
LEMMA EndAndDoneAreSent ==
  ASSUME NEW s, NEW e, IsList(s.wire), "wire" \in DOMAIN s, Quiet(s.wire), e[1] \in EndNames
  PROVE  EndsDone(Send(Send(s, e), <<"[DONE]">>).wire, e)
<1> DEFINE t == Send(s, e)
           done == <<"[DONE]">>
           u == Send(t, done)
           n == Len(t.wire)
<1>1. EndsPlain(t.wire, e) /\ "wire" \in DOMAIN t
  BY EndIsSent, SendOne
<1>2. done[1] \notin EndNames
  BY DEF EndNames
<1> HIDE DEF t, done
<1>3. /\ IsList(u.wire) /\ Len(u.wire) = n + 1 /\ n \in Nat
      /\ DOMAIN t.wire = 1 .. n /\ DOMAIN u.wire = 1 .. n + 1
      /\ \A k \in 1 .. n : u.wire[k] = t.wire[k]
      /\ u.wire[n + 1] = done
  BY <1>1, SendOne DEF EndsPlain
<1> HIDE DEF u, n
<1>4. \A k \in 1 .. n + 1 : k \in 1 .. n \/ k = n + 1
  BY <1>3
<1>5. n \in 1 .. n /\ t.wire[n] = e /\ e[1] \in EndNames
      /\ \A k \in 1 .. n : t.wire[k][1] \in EndNames => k = n
  BY <1>1, <1>3 DEF EndsPlain, EndsAt, n
<1>6. n \in 1 .. n + 1 /\ n + 1 - 1 = n
  BY <1>3, <1>5
<1>7. EndsAt(u.wire, n)
  BY <1>2, <1>3, <1>4, <1>5, <1>6 DEF EndsAt
<1> QED  BY <1>3, <1>5, <1>6, <1>7 DEF EndsDone, u, t, done

(* Why another attempt may follow: nothing but blanks was received, or a    *)
(* call was required that is missing.                                       *)
MayFollow(acc, required) ==
  ParsedCalls(acc.text) = <<>> /\ (required \/ BlankText(acc.text))

(* On the surfaces where no call is required.                               *)
WasEmpty(acc) == ParsedCalls(acc.text) = <<>> /\ BlankText(acc.text)

(* An attempt whose end is not told.                                        *)
IsDeferred(end) == end.over = FALSE /\ end.history = <<>> /\ end.stored = <<>>

(***************************************************************************)
(* What an answer amounts to.                                               *)
(***************************************************************************)

(* The parts of some kinds are a list, which is empty when there are none,  *)
(* and so are their numbers.                                                *)
LEMMA KindsAreSelected ==
  ASSUME NEW parts, NEW kinds, IsList(parts)
  PROVE  /\ IsList(OfKinds(parts, kinds)) /\ IsList(Numbers(OfKinds(parts, kinds)))
         /\ OfKinds(parts, kinds) = <<>> <=> \A i \in DOMAIN parts : parts[i].kind \notin kinds
         /\ Numbers(OfKinds(parts, kinds)) = <<>> <=> OfKinds(parts, kinds) = <<>>
<1> DEFINE K == {i \in DOMAIN parts : parts[i].kind \in kinds}
           t == OfKinds(parts, kinds)
           u == Numbers(t)
<1>1. IsFiniteSet(K) /\ Cardinality(K) \in Nat /\ (Cardinality(K) = 0 <=> K = {})
  <2>1. K \in SUBSET (DOMAIN parts)
    OBVIOUS
  <2> HIDE DEF K
  <2> QED  BY <2>1, PositionsAreFinite, FS_CardinalityType, FS_EmptySet
<1>2. t = AtPositions(parts, K)
  BY DEF OfKinds
<1>3. IsList(t) /\ Len(t) = Cardinality(K)
  <2> HIDE DEF t
  <2>1. K \in SUBSET (DOMAIN parts)
    OBVIOUS
  <2> HIDE DEF K
  <2> QED  BY <1>2, <2>1, Selection
<1> HIDE DEF t
<1>4. DOMAIN t = 1 .. Len(t) /\ Len(t) \in Nat
  BY <1>3, ListShape
<1>5. u = [i \in 1 .. Len(t) |-> u[i]]
  BY <1>4 DEF Numbers
<1> HIDE DEF u
<1>6. IsList(u) /\ Len(u) = Len(t)
  BY <1>4, <1>5, MakeList
<1>7. (t = <<>> <=> Len(t) = 0) /\ (u = <<>> <=> Len(u) = 0)
  BY <1>3, <1>6, ItemsAre
<1>8. K = {} <=> \A i \in DOMAIN parts : parts[i].kind \notin kinds
  OBVIOUS
<1> HIDE DEF K
<1> QED  BY <1>1, <1>3, <1>6, <1>7, <1>8 DEF t, u

(* The calls found in a text are a list, empty when it has no whole block.  *)
LEMMA CallsAreParsed ==
  ASSUME NEW parts, IsList(parts)
  PROVE  /\ IsList(ParsedCalls(parts))
         /\ ParsedCalls(parts) = <<>>
              <=> \A i \in DOMAIN parts : parts[i].kind \notin {"block", "tail", "plan"}
BY KindsAreSelected DEF ParsedCalls

(* A text without a whole block is blank just when it has nothing but       *)
(* blanks.                                                                  *)
LEMMA BlankMeans ==
  ASSUME NEW acc, IsAcc(acc), ParsedCalls(acc.text) = <<>>
  PROVE  BlankText(acc.text) <=> \A i \in DOMAIN acc.text : acc.text[i].kind = "space"
<1> DEFINE text == acc.text
           Unclosed(i) == i = Len(text) \/ text[i + 1].kind # "tail"
           K == {i \in DOMAIN text : \/ text[i].kind \in {"text", "space", "held"}
                                     \/ text[i].kind = "head" /\ Unclosed(i)}
           v == AtPositions(text, K)
<1>1. IsList(text) /\ DOMAIN text = 1 .. Len(text) /\ Len(text) \in Nat
  BY ListShape DEF IsAcc
<1>2. /\ \A i \in DOMAIN text : text[i].kind \notin {"block", "tail", "plan"}
      /\ \A i \in DOMAIN text : text[i].kind \in AllKinds \ Thinking
  BY <1>1, CallsAreParsed, SurfacesAssumption DEF IsAcc, IsPart, AllKinds
<1>3. \A i \in DOMAIN text : text[i].kind \in {"text", "space", "held", "head"}
  BY <1>2 DEF AllKinds, Thinking
<1>4. \A i \in DOMAIN text : Unclosed(i)
  <2> SUFFICES ASSUME NEW i \in DOMAIN text, i # Len(text), text[i + 1].kind = "tail" PROVE FALSE
    OBVIOUS
  <2>1. i + 1 \in DOMAIN text
    BY <1>1
  <2> QED  BY <1>2, <2>1
<1>5. K = DOMAIN text
  BY <1>3, <1>4
<1>6. VisibleText(text) = v
  BY DEF VisibleText
<1>7. v = [n \in 1 .. Cardinality(K) |-> text[CHOOSE i \in K : Rank(K, i) = n]]
  BY DEF AtPositions
<1>8. /\ IsList(v) /\ Len(v) = Cardinality(K) /\ DOMAIN v = 1 .. Cardinality(K)
      /\ \E pos : /\ InOrder(pos, K)
                  /\ \A n \in 1 .. Cardinality(K) : v[n] = text[pos[n]]
  <2>1. K \in SUBSET (DOMAIN text)
    OBVIOUS
  <2> HIDE DEF K, text
  <2> QED  BY <1>1, <2>1, Selection DEF v
<1> HIDE DEF v, K
<1>9. PICK pos : InOrder(pos, K) /\ \A n \in 1 .. Cardinality(K) : v[n] = text[pos[n]]
  BY <1>8
<1>10. BlankText(text) <=> \A n \in DOMAIN v : v[n].kind \notin {"text", "held", "head"}
  BY <1>6, <1>8, KindsAreSelected DEF BlankText
<1>11. (\A n \in DOMAIN v : v[n].kind \notin {"text", "held", "head"})
        <=> \A i \in DOMAIN text : text[i].kind \notin {"text", "held", "head"}
  <2>1. ASSUME NEW n \in DOMAIN v PROVE pos[n] \in DOMAIN text /\ v[n] = text[pos[n]]
    BY <1>5, <1>8, <1>9 DEF InOrder
  <2>2. ASSUME NEW i \in DOMAIN text PROVE \E n \in DOMAIN v : v[n] = text[i]
    <3>1. i \in K
      BY <1>5
    <3>2. PICK n \in 1 .. Cardinality(K) : pos[n] = i
      BY <1>9, <3>1 DEF InOrder
    <3> QED  BY <1>8, <1>9, <3>2
  <2> QED  BY <2>1, <2>2
<1> QED  BY <1>3, <1>10, <1>11

(* The calls that an answer amounts to are a list.                          *)
LEMMA CallsAreList ==
  ASSUME NEW acc, IsAcc(acc)
  PROVE  IsList(DetectAssistantToolCalls(acc))
BY CallsAreParsed DEF DetectAssistantToolCalls, IsAcc

(* An answer that fails has no call and told none; it has nothing but       *)
(* blanks, or a call was required.                                          *)
LEMMA FailureMeans ==
  ASSUME NEW acc, IsAcc(acc), NEW filtered, NEW required \in BOOLEAN,
         NEW before \in BOOLEAN, NEW emitted \in BOOLEAN,
         FinalizeTurn(BuildTurn(acc, filtered, required, before), emitted).error # "none"
  PROVE  /\ ~ before /\ ~ emitted
         /\ BuildTurn(acc, filtered, required, before).calls = <<>>
         /\ ParsedCalls(acc.text) = <<>>
         /\ required \/ BlankText(acc.text)
<1> DEFINE calls == DetectAssistantToolCalls(acc)
           turn == BuildTurn(acc, filtered, required, before)
<1>1. turn.calls = calls
      /\ turn.error = IF before THEN "none" ELSE ValidateTurn(calls, acc, filtered, required)
  BY DEF BuildTurn
<1>2. calls = <<>> /\ ~ emitted /\ turn.error # "none"
  <2> HIDE DEF turn, calls
  <2>1. FinalizeTurn(turn, emitted).error # "none"
    BY DEF turn
  <2> QED  BY <1>1, <2>1 DEF FinalizeTurn
<1>3. ~ before /\ (required \/ BlankText(acc.text))
  BY <1>1, <1>2 DEF ValidateTurn
<1>4. ParsedCalls(acc.text) = <<>>
  BY <1>2 DEF DetectAssistantToolCalls
<1> QED  BY <1>1, <1>2, <1>3, <1>4

(***************************************************************************)
(* Chat Completions.                                                        *)
(***************************************************************************)

(* What an event of a chat answer says is of the text received, or calls    *)
(* with ids that were given out.                                            *)
ChatSays(e, s) ==
  /\ e[1] \in {"content", "reasoning", "calls", "finish", "error", "[DONE]"}
  /\ e[1] = "content" => Last(e) = e[2] /\ ToSet(e[2]) \subseteq TextNumbers(s.acc)
  /\ e[1] = "calls" =>
        s.emitted /\ IsList(e[2]) /\ \A a \in DOMAIN e[2] : e[2][a].id \in 1 .. s.lastID

(* No two calls have the same id.                                           *)
IDsDiffer(w) ==
  \A j, k \in DOMAIN w : w[j][1] = "calls" /\ w[k][1] = "calls" =>
     \A a \in DOMAIN w[j][2], b \in DOMAIN w[k][2] :
        w[j][2][a].id = w[k][2][b].id => j = k /\ a = b

(* The stream of a chat answer.                                             *)
ChatInv(s) ==
  /\ DOMAIN s = {"acc", "sieve", "wire", "emitted", "ids", "lastID"}
  /\ IsAcc(s.acc) /\ SieveKeeps(s.sieve, s.acc)
  /\ s.emitted \in BOOLEAN /\ s.lastID \in Nat
  /\ IsList(s.wire) /\ IDsDiffer(s.wire)
  /\ \A k \in DOMAIN s.wire : ChatSays(s.wire[k], s)

(* One whose last event is not written.                                     *)
ChatOpen(s) == ChatInv(s) /\ Quiet(s.wire) /\ s.ids = <<>>

(* A chat answer begins open.                                               *)
LEMMA ChatBegins == ChatOpen(NewChatStream) /\ NewChatStream.emitted = FALSE
BY ShortLists, NothingReceived, EmptySieveKeeps
   DEF ChatOpen, ChatInv, Quiet, NewChatStream, IDsDiffer

(* An event without calls that says what it may.                            *)
LEMMA ChatSends ==
  ASSUME NEW s, NEW e, ChatInv(s), ChatSays(e, s), e[1] # "calls"
  PROVE  /\ ChatInv(Send(s, e))
         /\ \A f \in DOMAIN s : f # "wire" => Send(s, e)[f] = s[f]
         /\ Quiet(s.wire) /\ e[1] \notin EndNames => Quiet(Send(s, e).wire)
<1> DEFINE t == Send(s, e)
           n == Len(s.wire)
<1>1. /\ DOMAIN t = DOMAIN s /\ \A f \in DOMAIN s : f # "wire" => t[f] = s[f]
      /\ IsList(t.wire) /\ n \in Nat
      /\ DOMAIN s.wire = 1 .. n /\ DOMAIN t.wire = 1 .. n + 1
      /\ \A k \in 1 .. n : t.wire[k] = s.wire[k]
      /\ t.wire[n + 1] = e
  BY SendOne DEF ChatInv
<1>2. t.acc = s.acc /\ t.sieve = s.sieve /\ t.emitted = s.emitted /\ t.lastID = s.lastID
  BY <1>1 DEF ChatInv
<1> HIDE DEF t, n
<1>3. \A k \in 1 .. n + 1 : k \in 1 .. n \/ k = n + 1
  BY <1>1
<1>4. \A k \in DOMAIN t.wire : ChatSays(t.wire[k], t)
  BY <1>1, <1>2, <1>3 DEF ChatInv, ChatSays
<1>5. IDsDiffer(t.wire)
  <2> SUFFICES ASSUME NEW j \in DOMAIN t.wire, NEW k \in DOMAIN t.wire,
                      t.wire[j][1] = "calls", t.wire[k][1] = "calls"
               PROVE  /\ j \in DOMAIN s.wire /\ k \in DOMAIN s.wire
                      /\ t.wire[j] = s.wire[j] /\ t.wire[k] = s.wire[k]
    BY DEF ChatInv, IDsDiffer
  <2> QED  BY <1>1, <1>3
<1>6. Quiet(s.wire) /\ e[1] \notin EndNames => Quiet(t.wire)
  BY <1>1, <1>3 DEF Quiet
<1> QED  BY <1>1, <1>2, <1>4, <1>5, <1>6 DEF ChatInv, t

(* Calls that are sent get ids of their own.                                *)
LEMMA ChatSendsCalls ==
  ASSUME NEW s, NEW calls, ChatInv(s), s.ids = <<>>, IsList(calls)
  PROVE  /\ ChatInv(SendToolCalls(s, calls)) /\ SendToolCalls(s, calls).emitted
         /\ SendToolCalls(s, calls).acc = s.acc
         /\ Quiet(s.wire) => Quiet(SendToolCalls(s, calls).wire)
<1> DEFINE fresh == [i \in 1 .. Len(calls) - Len(s.ids) |-> s.lastID + i]
           ids == s.ids \o fresh
           told == [i \in DOMAIN calls |-> [n |-> calls[i], id |-> ids[i]]]
           e == <<"calls", told>>
           t == Send(s, e)
           n == Len(s.wire)
           u == SendToolCalls(s, calls)
           m == Len(calls)
<1>1. m \in Nat /\ DOMAIN calls = 1 .. m /\ Len(s.ids) = 0
  BY ListShape, ShortLists
<1>2. IsList(fresh) /\ Len(fresh) = m /\ \A i \in 1 .. m : fresh[i] = s.lastID + i
  <2>1. fresh = [i \in 1 .. m |-> fresh[i]] /\ \A i \in 1 .. m : fresh[i] = s.lastID + i
    BY <1>1
  <2> HIDE DEF fresh
  <2> QED  BY <1>1, <2>1, MakeList
<1>3. \A i \in 1 .. m : ids[i] = s.lastID + i
  <2>1. \A i \in 1 .. Len(fresh) : (s.ids \o fresh)[Len(s.ids) + i] = fresh[i]
    <3> HIDE DEF fresh
    <3> QED  BY <1>2, ShortLists, ListConcat
  <2> QED  BY <1>1, <1>2, <2>1
<1>4. IsList(told) /\ DOMAIN told = 1 .. m /\ \A i \in 1 .. m : told[i].id = s.lastID + i
  <2>1. told = [i \in 1 .. m |-> told[i]] /\ \A i \in 1 .. m : told[i].id = ids[i]
    <3> HIDE DEF ids
    <3> QED  BY <1>1
  <2> HIDE DEF told, ids
  <2> QED  BY <1>1, <1>3, <2>1, MakeList
<1>5. /\ DOMAIN t = DOMAIN s /\ \A f \in DOMAIN s : f # "wire" => t[f] = s[f]
      /\ IsList(t.wire) /\ n \in Nat
      /\ DOMAIN s.wire = 1 .. n /\ DOMAIN t.wire = 1 .. n + 1
      /\ \A k \in 1 .. n : t.wire[k] = s.wire[k]
      /\ t.wire[n + 1] = e
  <2> HIDE DEF e
  <2> QED  BY SendOne DEF ChatInv
<1>6. u = [t EXCEPT !.emitted = TRUE, !.ids = ids, !.lastID = @ + Len(fresh)]
  BY DEF SendToolCalls
<1>7. e[1] = "calls" /\ e[2] = told
  OBVIOUS
<1> HIDE DEF fresh, ids, told, e, t, n, u, m
<1>8. /\ DOMAIN u = DOMAIN s /\ u.wire = t.wire /\ u.emitted = TRUE /\ u.acc = s.acc
      /\ u.sieve = s.sieve /\ u.lastID = s.lastID + m
  BY <1>2, <1>5, <1>6 DEF ChatInv
<1>9. \A k \in 1 .. n + 1 : k \in 1 .. n \/ k = n + 1
  BY <1>5
<1>10. u.lastID \in Nat /\ \A i \in 1 .. s.lastID : i \in 1 .. u.lastID
  BY <1>1, <1>8 DEF ChatInv
<1>11. \A k \in DOMAIN u.wire : ChatSays(u.wire[k], u)
  <2> SUFFICES ASSUME NEW k \in 1 .. n + 1 PROVE ChatSays(t.wire[k], u)
    BY <1>5, <1>8
  <2>1. CASE k \in 1 .. n
    <3>1. ChatSays(s.wire[k], s) /\ t.wire[k] = s.wire[k]
      BY <1>5, <2>1 DEF ChatInv
    <3> QED  BY <1>8, <1>10, <3>1 DEF ChatSays
  <2>2. CASE k = n + 1
    <3>1. \A i \in 1 .. m : told[i].id \in 1 .. u.lastID
      BY <1>1, <1>4, <1>8 DEF ChatInv
    <3> QED  BY <1>4, <1>5, <1>7, <1>8, <2>2, <3>1 DEF ChatSays
  <2> QED  BY <1>9, <2>1, <2>2
<1>12. IDsDiffer(u.wire)
  <2> SUFFICES ASSUME NEW j \in 1 .. n + 1, NEW k \in 1 .. n + 1,
                      t.wire[j][1] = "calls", t.wire[k][1] = "calls",
                      NEW a \in DOMAIN t.wire[j][2], NEW b \in DOMAIN t.wire[k][2],
                      t.wire[j][2][a].id = t.wire[k][2][b].id
               PROVE  j = k /\ a = b
    BY <1>5, <1>8 DEF IDsDiffer
  <2>1. \A i \in 1 .. n : t.wire[i][1] = "calls" =>
           \A c \in DOMAIN t.wire[i][2] : t.wire[i][2][c].id \in 1 .. s.lastID
    BY <1>5 DEF ChatInv, ChatSays
  <2>2. \A c \in DOMAIN t.wire[n + 1][2] :
           /\ c \in 1 .. m /\ t.wire[n + 1][2][c].id = s.lastID + c
           /\ ~ (t.wire[n + 1][2][c].id \in 1 .. s.lastID)
    <3> SUFFICES ASSUME NEW c \in 1 .. m
                 PROVE  told[c].id = s.lastID + c /\ ~ (told[c].id \in 1 .. s.lastID)
      BY <1>4, <1>5, <1>7
    <3> QED  BY <1>1, <1>4 DEF ChatInv
  <2>3. CASE j \in 1 .. n /\ k \in 1 .. n
    <3>1. /\ j \in DOMAIN s.wire /\ k \in DOMAIN s.wire /\ IDsDiffer(s.wire)
          /\ t.wire[j] = s.wire[j] /\ t.wire[k] = s.wire[k]
      BY <1>5, <2>3 DEF ChatInv
    <3> QED  BY <3>1 DEF IDsDiffer
  <2>4. CASE j = n + 1 /\ k = n + 1
    <3>1. s.lastID + a = s.lastID + b /\ a \in 1 .. m /\ b \in 1 .. m
      BY <2>2, <2>4
    <3> QED  BY <1>1, <2>4, <3>1 DEF ChatInv
  <2>5. CASE j \in 1 .. n /\ k = n + 1
    BY <2>1, <2>2, <2>5
  <2>6. CASE j = n + 1 /\ k \in 1 .. n
    BY <2>1, <2>2, <2>6
  <2> QED  BY <1>9, <2>3, <2>4, <2>5, <2>6
<1>13. Quiet(s.wire) => Quiet(u.wire)
  <2>1. e[1] \notin EndNames
    BY <1>7 DEF EndNames
  <2> QED  BY <1>5, <1>8, <1>9, <2>1, ZenonT(60) DEF Quiet
<1> QED  BY <1>5, <1>8, <1>10, <1>11, <1>12, <1>13 DEF ChatInv, u

(* The deltas gathered so far are of the text received.                     *)
ChatBatch(b) ==
  /\ DOMAIN b = {"s", "field", "parts"} /\ ChatOpen(b.s) /\ IsList(b.parts)
  /\ b.parts # <<>> => b.field \in {"content", "reasoning"}
  /\ b.field = "content" => ToSet(b.parts) \subseteq TextNumbers(b.s.acc)

(* An empty batch.                                                          *)
LEMMA ChatBatchBegins ==
  ASSUME NEW s, ChatOpen(s)
  PROVE  ChatBatch(Batch(s)) /\ Batch(s).s = s /\ Batch(s).parts = <<>>
BY ShortLists DEF ChatBatch, Batch

(* Receiving more keeps the stream's invariant.                             *)
LEMMA ChatAccGrows ==
  ASSUME NEW s, ChatOpen(s), NEW acc, IsAcc(acc), TextNumbers(s.acc) \subseteq TextNumbers(acc)
  PROVE  ChatOpen([s EXCEPT !.acc = acc]) /\ [s EXCEPT !.acc = acc].acc = acc
<1> DEFINE t == [s EXCEPT !.acc = acc]
<1>1. /\ DOMAIN t = DOMAIN s /\ t.acc = acc /\ t.sieve = s.sieve /\ t.wire = s.wire
      /\ t.emitted = s.emitted /\ t.ids = s.ids /\ t.lastID = s.lastID
  BY DEF ChatOpen, ChatInv
<1> HIDE DEF t
<1>2. \A e : ChatSays(e, s) => ChatSays(e, t)
  BY <1>1 DEF ChatSays
<1>3. SieveKeeps(s.sieve, acc)
  BY SieveStays DEF ChatOpen, ChatInv
<1> QED  BY <1>1, <1>2, <1>3 DEF ChatOpen, ChatInv, t

(* The sieve may keep other text.                                           *)
LEMMA ChatSieveChanges ==
  ASSUME NEW s, ChatOpen(s), NEW sieve, SieveKeeps(sieve, s.acc)
  PROVE  ChatOpen([s EXCEPT !.sieve = sieve]) /\ [s EXCEPT !.sieve = sieve].acc = s.acc
<1> DEFINE t == [s EXCEPT !.sieve = sieve]
<1>1. /\ DOMAIN t = DOMAIN s /\ t.acc = s.acc /\ t.sieve = sieve /\ t.wire = s.wire
      /\ t.emitted = s.emitted /\ t.ids = s.ids /\ t.lastID = s.lastID
  BY DEF ChatOpen, ChatInv
<1> HIDE DEF t
<1>2. \A e : ChatSays(e, s) => ChatSays(e, t)
  BY <1>1 DEF ChatSays
<1> QED  BY <1>1, <1>2 DEF ChatOpen, ChatInv, t

(* The calls of an attempt are closed when the sieve has let them out.      *)
LEMMA ChatCallsAreClosed ==
  ASSUME NEW s, ChatInv(s), Quiet(s.wire)
  PROVE  ChatOpen(ResetToolCallState(s)) /\ ResetToolCallState(s).acc = s.acc
<1> DEFINE t == ResetToolCallState(s)
<1>1. /\ DOMAIN t = DOMAIN s /\ t.acc = s.acc /\ t.sieve = s.sieve /\ t.wire = s.wire
      /\ t.emitted = s.emitted /\ t.ids = <<>> /\ t.lastID = s.lastID
  BY DEF ChatInv, ResetToolCallState
<1> HIDE DEF t
<1>2. \A e : ChatSays(e, s) => ChatSays(e, t)
  BY <1>1 DEF ChatSays
<1> QED  BY <1>1, <1>2 DEF ChatOpen, ChatInv, t

(* A batch that is flushed is empty, and what it gathered is sent.          *)
LEMMA ChatFlushes ==
  ASSUME NEW b, ChatBatch(b)
  PROVE  ChatBatch(Flush(b)) /\ Flush(b).parts = <<>> /\ Flush(b).s.acc = b.s.acc
<1>1. CASE b.parts = <<>>
  BY <1>1 DEF Flush
<1>2. CASE b.parts # <<>>
  <2> DEFINE e == <<b.field, b.parts>>
             t == Send(b.s, e)
  <2>1. e[1] = b.field /\ e[2] = b.parts /\ Last(e) = b.parts
    BY DEF Last
  <2>2. Flush(b) = Batch(t)
    BY <1>2 DEF Flush
  <2> HIDE DEF e, t
  <2>3. ChatSays(e, b.s) /\ e[1] # "calls" /\ e[1] \notin EndNames
    BY <1>2, <2>1 DEF ChatBatch, ChatSays, EndNames
  <2>4. ChatInv(b.s) /\ Quiet(b.s.wire) /\ b.s.ids = <<>>
        /\ {"acc", "ids"} \subseteq DOMAIN b.s
    BY DEF ChatBatch, ChatOpen, ChatInv
  <2>5. ChatInv(t) /\ Quiet(t.wire) /\ t.acc = b.s.acc /\ t.ids = b.s.ids
    BY <2>3, <2>4, ChatSends DEF t
  <2>6. ChatOpen(t)
    BY <2>4, <2>5 DEF ChatOpen
  <2> QED  BY <2>2, <2>5, <2>6, ChatBatchBegins
<1> QED  BY <1>1, <1>2

(* Deltas are gathered.                                                     *)
LEMMA ChatGathers ==
  ASSUME NEW b, ChatBatch(b), NEW field \in {"content", "reasoning"}, NEW parts, IsList(parts),
         field = "content" => ToSet(parts) \subseteq TextNumbers(b.s.acc)
  PROVE  ChatBatch(AppendTo(b, field, parts)) /\ AppendTo(b, field, parts).s.acc = b.s.acc
<1>1. CASE parts = <<>>
  BY <1>1 DEF AppendTo
<1>2. CASE parts # <<>>
  <2> DEFINE c == IF b.field = field THEN b ELSE Flush(b)
             more == c.parts \o parts
             t == AppendTo(b, field, parts)
  <2>1. ChatBatch(c) /\ c.s.acc = b.s.acc /\ (c.field = field \/ c.parts = <<>>)
    BY ChatFlushes
  <2>2. t = [c EXCEPT !.field = field, !.parts = more]
    BY <1>2 DEF AppendTo
  <2> HIDE DEF c
  <2>3. IsList(more) /\ ToSet(more) = ToSet(c.parts) \cup ToSet(parts)
    BY <2>1, ConcatItems DEF ChatBatch
  <2> HIDE DEF more, t
  <2>4. DOMAIN t = DOMAIN c /\ t.s = c.s /\ t.field = field /\ t.parts = more
    BY <2>1, <2>2 DEF ChatBatch
  <2>5. field = "content" => ToSet(more) \subseteq TextNumbers(t.s.acc)
    BY <2>1, <2>3, <2>4, ShortLists DEF ChatBatch
  <2> QED  BY <2>1, <2>3, <2>4, <2>5 DEF ChatBatch, t
<1> QED  BY <1>1, <1>2

(* What the sieve lets out is told.                                         *)
LEMMA ChatLetsOut ==
  ASSUME NEW b, ChatBatch(b), NEW out, IsList(out.calls), IsList(out.text),
         ToSet(out.text) \subseteq TextNumbers(b.s.acc)
  PROVE  ChatBatch(ChatLetOut(b, out)) /\ ChatLetOut(b, out).s.acc = b.s.acc
<1> DEFINE f == Flush(b).s
           sent == SendToolCalls(f, out.calls)
           told == IF out.calls = <<>> THEN b ELSE Batch(ResetToolCallState(sent))
<1>1. ChatOpen(f) /\ f.acc = b.s.acc
  BY ChatFlushes DEF ChatBatch
<1> HIDE DEF f
<1>2. ChatInv(sent) /\ Quiet(sent.wire) /\ sent.acc = b.s.acc
  BY <1>1, ChatSendsCalls DEF ChatOpen
<1> HIDE DEF sent
<1>3. ChatBatch(told) /\ told.s.acc = b.s.acc
  BY <1>2, ChatCallsAreClosed, ChatBatchBegins
<1>4. ChatLetOut(b, out) = AppendTo(told, "content", out.text)
  BY DEF ChatLetOut, told, sent, f
<1> HIDE DEF told
<1> QED  BY <1>3, <1>4, ChatGathers

(* A part of a line.                                                        *)
LEMMA ChatReceives ==
  ASSUME NEW b, ChatBatch(b), NEW part, IsPart(part), NEW tools \in BOOLEAN, NEW thinking \in BOOLEAN
  PROVE  /\ ChatBatch(ChatPart(b, part, tools, thinking))
         /\ ChatPart(b, part, tools, thinking).s.acc = Apply(b.s.acc, part, thinking)
<1> DEFINE acc == Apply(b.s.acc, part, thinking)
           s == [b.s EXCEPT !.acc = acc]
           c == [b EXCEPT !.s.acc = Apply(@, part, thinking)]
           shown == Shown(part, thinking)
           chunk == ProcessChunk(c.s.sieve, part)
           d == [c EXCEPT !.s.sieve = chunk.sieve]
<1>1. /\ IsAcc(acc) /\ TextNumbers(b.s.acc) \subseteq TextNumbers(acc)
      /\ part.kind \notin Thinking => part.n \in TextNumbers(acc)
  BY PartIsReceived DEF ChatBatch, ChatOpen, ChatInv
<1>2. IsList(shown) /\ ToSet(shown) \subseteq {part.n}
  BY ShownIsList
<1> HIDE DEF acc, shown
<1>3. ChatOpen(s) /\ s.acc = acc /\ s.sieve = b.s.sieve
  BY <1>1, ChatAccGrows DEF ChatBatch, ChatOpen, ChatInv
<1>4. DOMAIN c = DOMAIN b /\ c.s = s /\ c.field = b.field /\ c.parts = b.parts
  BY DEF ChatBatch, acc
<1> HIDE DEF s, c
<1>5. ChatBatch(c) /\ c.s.acc = acc
  BY <1>1, <1>3, <1>4 DEF ChatBatch
<1>6. CASE part.kind \in Thinking
  <2>1. ChatPart(b, part, tools, thinking) = AppendTo(c, "reasoning", shown)
    BY <1>6 DEF ChatPart, c, shown
  <2> QED  BY <1>2, <1>5, <2>1, ChatGathers DEF acc
<1>7. CASE part.kind \notin Thinking /\ ~ tools
  <2>1. ChatPart(b, part, tools, thinking) = AppendTo(c, "content", shown)
    BY <1>7 DEF ChatPart, c, shown
  <2>2. ToSet(shown) \subseteq TextNumbers(c.s.acc)
    BY <1>1, <1>2, <1>5, <1>7
  <2> QED  BY <1>2, <1>5, <2>1, <2>2, ChatGathers DEF acc
<1>8. CASE part.kind \notin Thinking /\ tools
  <2>1. ChatPart(b, part, tools, thinking) = ChatLetOut(d, chunk)
    BY <1>8 DEF ChatPart, c
  <2>2. SieveKeeps(c.s.sieve, acc)
    BY <1>5 DEF ChatBatch, ChatOpen, ChatInv
  <2>3. /\ SieveKeeps(chunk.sieve, acc) /\ IsList(chunk.calls) /\ IsList(chunk.text)
        /\ ToSet(chunk.text) \subseteq TextNumbers(acc)
    BY <1>1, <1>8, <2>2, ChunkIsSieved
  <2> HIDE DEF chunk
  <2>4. DOMAIN d = DOMAIN c /\ d.s = [c.s EXCEPT !.sieve = chunk.sieve]
        /\ d.field = c.field /\ d.parts = c.parts
    BY <1>5 DEF ChatBatch
  <2> HIDE DEF d
  <2>5. ChatOpen(d.s) /\ d.s.acc = acc
    BY <1>5, <2>3, <2>4, ChatSieveChanges DEF ChatBatch
  <2>6. ChatBatch(d)
    BY <1>5, <2>4, <2>5 DEF ChatBatch
  <2> QED  BY <2>1, <2>3, <2>5, <2>6, ChatLetsOut DEF acc
<1> QED  BY <1>6, <1>7, <1>8

(* An attempt that leaves the answer open.                                  *)
ChatDeferred(end, required) ==
  IsDeferred(end) /\ ChatOpen(end.s) /\ end.s.emitted = FALSE /\ MayFollow(end.s.acc, required)

(* One that ends it.                                                        *)
ChatOver(end) ==
  /\ end.over = TRUE /\ end.stored = <<>> /\ ChatInv(end.s)
  /\ \E e : /\ EndsDone(end.s.wire, e)
            /\ \/ e[1] = "finish" /\ end.history = <<"success">>
               \/ e[1] = "error" /\ end.history = <<"error">>

(* The end of a chat answer is told with [DONE] after it.                   *)
LEMMA ChatEnds ==
  ASSUME NEW s, ChatInv(s), Quiet(s.wire), NEW e, e[1] \in {"finish", "error"}
  PROVE  /\ ChatInv(Send(Send(s, e), <<"[DONE]">>))
         /\ EndsDone(Send(Send(s, e), <<"[DONE]">>).wire, e)
<1> DEFINE done == <<"[DONE]">>
           t == Send(s, e)
<1>1. done[1] = "[DONE]" /\ e[1] \in EndNames /\ IsList(s.wire) /\ "wire" \in DOMAIN s
  BY DEF EndNames, ChatInv
<1>2. EndsDone(Send(t, done).wire, e)
  BY <1>1, EndAndDoneAreSent
<1> HIDE DEF done
<1>3. ChatInv(t)
  BY ChatSends DEF ChatSays
<1> HIDE DEF t
<1>4. ChatSays(done, t) /\ done[1] # "calls"
  BY <1>1 DEF ChatSays
<1>5. ChatInv(Send(t, done))
  BY <1>3, <1>4, ChatSends
<1> QED  BY <1>2, <1>5 DEF t, done

(* A failure is told and recorded.                                          *)
LEMMA ChatFails ==
  ASSUME NEW s, ChatInv(s), Quiet(s.wire), NEW code
  PROVE  ChatOver(Failed(s, code))
<1> DEFINE e == <<"error", code>>
           t == ChatFailed(s, code)
<1>1. e[1] = "error" /\ t = Send(Send(s, e), <<"[DONE]">>)
  BY DEF ChatFailed
<1>2. /\ Failed(s, code).s = t /\ Failed(s, code).over = TRUE
      /\ Failed(s, code).history = <<"error">> /\ Failed(s, code).stored = <<>>
  BY DEF Failed
<1> HIDE DEF e, t
<1>3. ChatInv(t) /\ EndsDone(t.wire, e)
  BY <1>1, ChatEnds
<1> QED  BY <1>1, <1>2, <1>3 DEF ChatOver

(* What is told at the end of an attempt before its outcome.                *)
LEMMA ChatRests ==
  ASSUME NEW s, ChatOpen(s), NEW turn, IsList(turn.calls), NEW tools \in BOOLEAN
  PROVE  /\ ChatInv(ChatRest(s, turn, tools)) /\ Quiet(ChatRest(s, turn, tools).wire)
         /\ ChatRest(s, turn, tools).acc = s.acc
         /\ turn.calls = <<>> \/ s.emitted => ChatOpen(ChatRest(s, turn, tools))
<1> DEFINE rest == ChatRest(s, turn, tools)
<1>1. CASE turn.calls # <<>> /\ ~ s.emitted
  <2>1. rest = SendToolCalls(s, turn.calls)
    BY <1>1 DEF ChatRest
  <2> HIDE DEF rest
  <2> QED  BY <1>1, <2>1, ChatSendsCalls DEF ChatOpen, rest
<1>2. CASE (turn.calls = <<>> \/ s.emitted) /\ ~ tools
  BY <1>2 DEF ChatRest, ChatOpen, ChatInv
<1>3. CASE (turn.calls = <<>> \/ s.emitted) /\ tools
  <2> DEFINE out == FlushSieve(s.sieve)
             b == ChatLetOut(Batch(s), out)
             f == Flush(b).s
  <2>1. rest = [f EXCEPT !.sieve = EmptySieve]
    BY <1>3 DEF ChatRest, ChatOpen, ChatInv
  <2>2. /\ IsList(out.calls) /\ IsList(out.text)
        /\ ToSet(out.text) \subseteq TextNumbers(s.acc)
    BY SieveIsFlushed DEF ChatOpen, ChatInv
  <2> HIDE DEF out
  <2>3. ChatBatch(b) /\ b.s.acc = s.acc
    BY <2>2, ChatBatchBegins, ChatLetsOut
  <2> HIDE DEF b
  <2>4. ChatOpen(f) /\ f.acc = s.acc
    BY <2>3, ChatFlushes DEF ChatBatch
  <2> HIDE DEF f, rest
  <2>5. ChatOpen(rest) /\ rest.acc = s.acc
    BY <2>1, <2>4, EmptySieveKeeps, ChatSieveChanges
  <2> QED  BY <2>5 DEF ChatOpen, rest
<1> QED  BY <1>1, <1>2, <1>3 DEF ChatOpen, ChatInv

(* An attempt ends the answer, or leaves it open because it may; one that   *)
(* was filtered only with something shown.                                  *)
LEMMA ChatAttempts ==
  ASSUME NEW s, ChatOpen(s), NEW r, r.tools \in BOOLEAN, r.required \in BOOLEAN,
         NEW how \in {"closed", "broken", "filtered", "failed"}, NEW defer \in BOOLEAN
  PROVE  \/ ChatOver(ChatAttemptEnds(s, r, how, defer))
         \/ /\ defer /\ ChatDeferred(ChatAttemptEnds(s, r, how, defer), r.required)
            /\ ChatAttemptEnds(s, r, how, defer).s.acc = s.acc
            /\ how = "filtered" => ~ BlankText(ChatAttemptEnds(s, r, how, defer).s.acc.text)
<1> DEFINE filtered == ChatFiltered(s, how)
           later == defer /\ ~ filtered
           turn == BuildTurn(s.acc, filtered, r.required, s.emitted)
           rest == ChatRest(s, turn, r.tools)
           outcome == FinalizeTurn(turn, rest.emitted)
           end == ChatAttemptEnds(s, r, how, defer)
           e == <<"finish", outcome.finish>>
           told == Send(Send(rest, e), <<"[DONE]">>)
<1>1. end = IF outcome.error = "none"
            THEN [s |-> told, over |-> TRUE, history |-> <<"success">>, stored |-> <<>>]
            ELSE IF later THEN Deferred(rest) ELSE Failed(rest, outcome.error)
  BY DEF ChatAttemptEnds, ChatFinalize
<1>2. IsList(turn.calls)
  BY CallsAreList DEF BuildTurn, ChatOpen, ChatInv
<1>3. IsAcc(s.acc) /\ s.emitted \in BOOLEAN
  BY DEF ChatOpen, ChatInv
<1>4. /\ ChatInv(rest) /\ Quiet(rest.wire) /\ rest.acc = s.acc /\ rest.emitted \in BOOLEAN
      /\ turn.calls = <<>> => ChatOpen(rest)
  <2> HIDE DEF turn
  <2>1. /\ ChatInv(rest) /\ Quiet(rest.wire) /\ rest.acc = s.acc
        /\ turn.calls = <<>> => ChatOpen(rest)
    BY <1>2, ChatRests
  <2> QED  BY <2>1 DEF ChatInv
<1>5. outcome.error # "none" =>
        /\ ~ s.emitted /\ ~ rest.emitted /\ turn.calls = <<>>
        /\ ParsedCalls(s.acc.text) = <<>> /\ (r.required \/ BlankText(s.acc.text))
  <2> HIDE DEF rest
  <2> QED  BY <1>3, <1>4, FailureMeans
<1>6. e[1] = "finish"
  OBVIOUS
<1> HIDE DEF turn, rest, outcome, e, end, filtered
<1>7. CASE outcome.error = "none"
  <2>1. ChatInv(told) /\ EndsDone(told.wire, e)
    BY <1>4, <1>6, ChatEnds
  <2> HIDE DEF told
  <2>2. end.s = told /\ end.over = TRUE /\ end.history = <<"success">> /\ end.stored = <<>>
    BY <1>1, <1>7
  <2>3. ChatOver(end)
    BY <1>6, <2>1, <2>2 DEF ChatOver
  <2> QED  BY <2>3 DEF end
<1>8. CASE outcome.error # "none" /\ ~ later
  <2>1. end = Failed(rest, outcome.error)
    BY <1>1, <1>8
  <2>2. ChatOver(end)
    BY <1>4, <2>1, ChatFails
  <2> QED  BY <2>2 DEF end
<1>9. CASE outcome.error # "none" /\ later
  <2>1. end.s = rest /\ end.over = FALSE /\ end.history = <<>> /\ end.stored = <<>>
    BY <1>1, <1>9 DEF Deferred
  <2>2. ChatDeferred(end, r.required)
    BY <1>4, <1>5, <1>9, <2>1 DEF ChatDeferred, IsDeferred, MayFollow
  <2>3. ASSUME how = "filtered" PROVE ~ BlankText(s.acc.text)
    <3>1. ~ BlankSoFar(s.acc)
      BY <1>9, <2>3 DEF filtered, ChatFiltered
    <3>2. IsList(s.acc.text)
      BY <1>3 DEF IsAcc
    <3>3. \E i \in DOMAIN s.acc.text : s.acc.text[i].kind \in {"text", "held", "head", "tail"}
      BY <3>1, <3>2, KindsAreSelected DEF BlankSoFar
    <3> QED  BY <1>3, <1>5, <1>9, <3>3, BlankMeans
  <2> QED  BY <1>4, <1>9, <2>1, <2>2, <2>3 DEF end
<1> QED  BY <1>7, <1>8, <1>9

(***************************************************************************)
(* Gemini generateContent.                                                  *)
(***************************************************************************)

(* A failure is named, and never as that of a retry.                        *)
LEMMA FailureIsNamed ==
  ASSUME NEW acc, NEW filtered, NEW required, NEW before, NEW emitted
  PROVE  FinalizeTurn(BuildTurn(acc, filtered, required, before), emitted).error # "error"
<1> DEFINE calls == DetectAssistantToolCalls(acc)
           error == ValidateTurn(calls, acc, filtered, required)
           turn == BuildTurn(acc, filtered, required, before)
<1>1. turn.error = IF before THEN "none" ELSE error
  BY DEF BuildTurn
<1>2. error # "error"
  <2> HIDE DEF calls
  <2> QED  BY DEF ValidateTurn, EmptyOutputCode
<1> HIDE DEF error, turn
<1>3. FinalizeTurn(turn, emitted).error \in {"none", turn.error}
  BY DEF FinalizeTurn
<1> QED  BY <1>1, <1>2, <1>3 DEF turn

(* How the surfaces that write no [DONE] end an answer and record it: a      *)
(* failed retry is not recorded.                                            *)
EndsRecorded(wire, told) ==
  \E e : /\ EndsPlain(wire, e)
         /\ \/ e[1] \in {"finish", "message_stop"} /\ told = <<"success">>
            \/ e[1] = "error" /\ e # <<"error", "error">> /\ told = <<"error">>
            \/ e = <<"error", "error">> /\ told = <<>>

(* What an event says before the end.                                       *)
GeminiSays(e, s) ==
  /\ e[1] \in {"thought", "text"}
  /\ e[1] = "text" => Last(e) = e[2] /\ ToSet(e[2]) \subseteq TextNumbers(s.acc)

(* The stream of a Gemini answer.                                           *)
GeminiInv(s) ==
  /\ DOMAIN s = {"acc", "wire", "filtered"}
  /\ IsAcc(s.acc) /\ s.filtered \in BOOLEAN /\ IsList(s.wire)
  /\ \A k \in DOMAIN s.wire : s.wire[k][1] \in {"thought", "text", "parts", "finish", "error"}

(* One whose last event is not written.                                     *)
GeminiOpen(s) == GeminiInv(s) /\ \A k \in DOMAIN s.wire : GeminiSays(s.wire[k], s)

(* One that is over.                                                        *)
GeminiOver(end) ==
  /\ end.over = TRUE /\ end.stored = <<>> /\ GeminiInv(end.s)
  /\ EndsRecorded(end.s.wire, end.history)

(* A Gemini answer begins open.                                             *)
LEMMA GeminiBegins == GeminiOpen(NewGeminiStream)
BY ShortLists, NothingReceived DEF GeminiOpen, GeminiInv, NewGeminiStream

(* An event is sent.                                                        *)
LEMMA GeminiSends ==
  ASSUME NEW s, GeminiInv(s), NEW e, e[1] \in {"thought", "text", "parts", "finish", "error"}
  PROVE  /\ GeminiInv(Send(s, e)) /\ Send(s, e).acc = s.acc
         /\ GeminiOpen(s) /\ GeminiSays(e, s) => GeminiOpen(Send(s, e))
         /\ Quiet(s.wire) /\ e[1] \notin EndNames => Quiet(Send(s, e).wire)
<1> DEFINE t == Send(s, e)
           n == Len(s.wire)
<1>1. /\ DOMAIN t = DOMAIN s /\ \A f \in DOMAIN s : f # "wire" => t[f] = s[f]
      /\ IsList(t.wire) /\ n \in Nat
      /\ DOMAIN s.wire = 1 .. n /\ DOMAIN t.wire = 1 .. n + 1
      /\ \A k \in 1 .. n : t.wire[k] = s.wire[k]
      /\ t.wire[n + 1] = e
  BY SendOne DEF GeminiInv
<1>2. t.acc = s.acc /\ t.filtered = s.filtered
  BY <1>1 DEF GeminiInv
<1> HIDE DEF t, n
<1>3. \A k \in 1 .. n + 1 : k \in 1 .. n \/ k = n + 1
  BY <1>1
<1>4. GeminiInv(t)
  BY <1>1, <1>2, <1>3 DEF GeminiInv
<1>5. GeminiOpen(s) /\ GeminiSays(e, s) => GeminiOpen(t)
  BY <1>1, <1>2, <1>3, <1>4 DEF GeminiOpen, GeminiSays
<1>6. Quiet(s.wire) /\ e[1] \notin EndNames => Quiet(t.wire)
  BY <1>1, <1>3 DEF Quiet
<1> QED  BY <1>2, <1>4, <1>5, <1>6 DEF t

(* An open stream is quiet.                                                 *)
LEMMA GeminiIsQuiet ==
  ASSUME NEW s, GeminiOpen(s)
  PROVE  Quiet(s.wire)
BY DEF GeminiOpen, GeminiSays, Quiet, EndNames

(* A part of a line.                                                        *)
LEMMA GeminiReceives ==
  ASSUME NEW s, GeminiOpen(s), NEW part, IsPart(part), NEW tools \in BOOLEAN, NEW thinking \in BOOLEAN
  PROVE  /\ GeminiOpen(GeminiPart(s, part, tools, thinking))
         /\ GeminiPart(s, part, tools, thinking).acc = Apply(s.acc, part, thinking)
<1> DEFINE acc == Apply(s.acc, part, thinking)
           t == [s EXCEPT !.acc = Apply(@, part, thinking)]
           shown == Shown(part, thinking)
           e == <<IF part.kind \in Thinking THEN "thought" ELSE "text", shown>>
<1>1. /\ IsAcc(acc) /\ TextNumbers(s.acc) \subseteq TextNumbers(acc)
      /\ part.kind \notin Thinking => part.n \in TextNumbers(acc)
  BY PartIsReceived DEF GeminiOpen, GeminiInv
<1>2. IsList(shown) /\ ToSet(shown) \subseteq {part.n}
  BY ShownIsList
<1>3. DOMAIN t = DOMAIN s /\ t.acc = acc /\ t.wire = s.wire /\ t.filtered = s.filtered
  BY DEF GeminiOpen, GeminiInv
<1>4. /\ e[1] = IF part.kind \in Thinking THEN "thought" ELSE "text"
      /\ e[2] = shown /\ Last(e) = shown
  BY DEF Last
<1>5. GeminiPart(s, part, tools, thinking) = IF tools \/ shown = <<>> THEN t ELSE Send(t, e)
  BY DEF GeminiPart
<1> HIDE DEF acc, t, shown, e
<1>6. GeminiOpen(t)
  BY <1>1, <1>3 DEF GeminiOpen, GeminiInv, GeminiSays
<1>7. GeminiSays(e, t)
  BY <1>1, <1>2, <1>3, <1>4 DEF GeminiSays
<1>8. GeminiOpen(Send(t, e)) /\ Send(t, e).acc = t.acc
  <2>1. GeminiInv(t) /\ e[1] \in {"thought", "text", "parts", "finish", "error"}
    BY <1>4, <1>6 DEF GeminiOpen
  <2> QED  BY <1>6, <1>7, <2>1, GeminiSends
<1> QED  BY <1>3, <1>5, <1>6, <1>8 DEF acc

(* The end of the answer is told and recorded.                              *)
LEMMA GeminiEnds ==
  ASSUME NEW s, GeminiInv(s), Quiet(s.wire), NEW e, e[1] \in {"finish", "error"}
  PROVE  GeminiInv(Send(s, e)) /\ EndsPlain(Send(s, e).wire, e)
BY GeminiSends, EndIsSent DEF GeminiInv, EndNames

(* The end of an attempt, whatever was filtered.                            *)
LEMMA GeminiFinalizes ==
  ASSUME NEW s, GeminiOpen(s), NEW r, r.tools \in BOOLEAN, NEW defer
  PROVE  \/ GeminiOver(GeminiFinalize(s, r, defer))
         \/ /\ IsDeferred(GeminiFinalize(s, r, defer))
            /\ GeminiFinalize(s, r, defer).s = s /\ WasEmpty(s.acc)
<1> DEFINE turn == BuildTurn(s.acc, s.filtered, FALSE, FALSE)
           outcome == FinalizeTurn(turn, FALSE)
           end == GeminiFinalize(s, r, defer)
           parts == <<"parts", PartsFromTurn(turn)>>
           told == IF r.tools THEN Send(s, parts) ELSE s
           finish == <<"finish", "STOP">>
           error == <<"error", outcome.error>>
<1>1. end = IF outcome.error = "none"
            THEN [s |-> Send(told, finish), over |-> TRUE, history |-> <<"success">>, stored |-> <<>>]
            ELSE IF defer THEN Deferred(s)
            ELSE [s |-> Send(s, error), over |-> TRUE, history |-> <<"error">>, stored |-> <<>>]
  BY DEF GeminiFinalize, GeminiSucceeds, GeminiError
<1>2. parts[1] = "parts" /\ finish[1] = "finish" /\ error[1] = "error" /\ error[2] = outcome.error
  OBVIOUS
<1>3. outcome.error # "error"
  BY FailureIsNamed
<1>4. outcome.error # "none" => WasEmpty(s.acc)
  BY FailureMeans DEF GeminiOpen, GeminiInv, WasEmpty
<1> HIDE DEF turn, outcome, end, finish, parts
<1>5. GeminiInv(s) /\ Quiet(s.wire)
  BY GeminiIsQuiet DEF GeminiOpen
<1>6. GeminiInv(told) /\ Quiet(told.wire)
  BY <1>2, <1>5, GeminiSends DEF EndNames
<1> HIDE DEF told
<1>7. CASE outcome.error = "none"
  <2>1. GeminiInv(Send(told, finish)) /\ EndsPlain(Send(told, finish).wire, finish)
    BY <1>2, <1>6, GeminiEnds
  <2>2. GeminiOver(end)
    BY <1>1, <1>2, <1>7, <2>1 DEF GeminiOver, EndsRecorded
  <2> QED  BY <2>2 DEF end
<1>8. CASE outcome.error # "none" /\ ~ defer
  <2>1. error # <<"error", "error">>
    BY <1>3
  <2> HIDE DEF error
  <2>2. GeminiInv(Send(s, error)) /\ EndsPlain(Send(s, error).wire, error)
    BY <1>2, <1>5, GeminiEnds
  <2>3. GeminiOver(end)
    BY <1>1, <1>2, <1>8, <2>1, <2>2 DEF GeminiOver, EndsRecorded
  <2> QED  BY <2>3 DEF end
<1>9. CASE outcome.error # "none" /\ defer
  <2>1. end = Deferred(s)
    BY <1>1, <1>9
  <2>2. IsDeferred(end) /\ end.s = s
    BY <2>1 DEF Deferred, IsDeferred
  <2> QED  BY <1>4, <1>9, <2>2 DEF end
<1> QED  BY <1>7, <1>8, <1>9

(* An attempt ends the answer, or leaves it open because it may.            *)
LEMMA GeminiAttempts ==
  ASSUME NEW s, GeminiOpen(s), NEW r, r.tools \in BOOLEAN, NEW how, NEW defer
  PROVE  \/ GeminiOver(GeminiAttemptEnds(s, r, how, defer))
         \/ /\ IsDeferred(GeminiAttemptEnds(s, r, how, defer))
            /\ GeminiOpen(GeminiAttemptEnds(s, r, how, defer).s)
            /\ WasEmpty(GeminiAttemptEnds(s, r, how, defer).s.acc)
            /\ GeminiAttemptEnds(s, r, how, defer).s.acc = s.acc
<1> DEFINE t == [s EXCEPT !.filtered = @ \/ how = "filtered"]
<1>1. /\ DOMAIN t = DOMAIN s /\ t.acc = s.acc /\ t.wire = s.wire /\ t.filtered \in BOOLEAN
  BY DEF GeminiOpen, GeminiInv
<1>2. GeminiAttemptEnds(s, r, how, defer) = GeminiFinalize(t, r, defer)
  BY DEF GeminiAttemptEnds
<1> HIDE DEF t
<1>3. GeminiOpen(t)
  BY <1>1 DEF GeminiOpen, GeminiInv, GeminiSays
<1>4. ASSUME NEW u, GeminiOpen(u)
      PROVE  \/ GeminiOver(GeminiFinalize(u, r, defer))
             \/ /\ IsDeferred(GeminiFinalize(u, r, defer))
                /\ GeminiFinalize(u, r, defer).s = u /\ WasEmpty(u.acc)
  BY <1>4, GeminiFinalizes
<1> QED  BY <1>1, <1>2, <1>3, <1>4

(* A retry that fails ends the answer.                                      *)
LEMMA GeminiRetryFails ==
  ASSUME NEW s, GeminiOpen(s)
  PROVE  GeminiOver(GeminiRetryFailed(s))
<1> DEFINE e == <<"error", "error">>
<1>1. e[1] = "error" /\ GeminiRetryFailed(s) =
        [s |-> Send(s, e), over |-> TRUE, history |-> <<>>, stored |-> <<>>]
  BY DEF GeminiRetryFailed, GeminiError
<1> HIDE DEF e
<1>2. GeminiInv(Send(s, e)) /\ EndsPlain(Send(s, e).wire, e)
  BY <1>1, GeminiIsQuiet, GeminiEnds DEF GeminiOpen
<1> QED  BY <1>1, <1>2 DEF GeminiOver, EndsRecorded, e

(***************************************************************************)
(* Responses: the items on the wire.                                        *)
(***************************************************************************)

(* What is said of an item, and of its part of text.                        *)
AboutItem == {"part.added", "text", "text.done", "part.done", "item.done", "args.done"}
AboutPart == {"text", "text.done", "part.done"}

(* Before place k, the part of an item was added and not done since.        *)
OpenAt(w, out, k) ==
  \E j \in DOMAIN w :
     /\ j < k /\ w[j][1] = "part.added" /\ w[j][2] = out
     /\ \A i \in DOMAIN w : i < k /\ w[i][1] = "part.done" /\ w[i][2] = out => i < j

(* The framing of what was written, with items of which last is the latest. *)
ItemsKept(w, last) ==
  /\ \A k \in DOMAIN w : w[k][1] = "item.added" =>
        w[k] = <<"item.added", w[k][2]>> /\ w[k][2] \in 1 .. last
  /\ \A j, k \in DOMAIN w :
        w[j][1] = "item.added" /\ w[k][1] = "item.added" /\ w[j][2] = w[k][2] => j = k
  /\ \A k \in DOMAIN w : w[k][1] \in AboutItem =>
        \E j \in DOMAIN w : j < k /\ w[j] = <<"item.added", w[k][2]>>
  /\ \A k \in DOMAIN w : w[k][1] \in AboutPart => OpenAt(w, w[k][2], k)
  /\ \A k \in DOMAIN w : w[k][1] = "part.added" => ~ OpenAt(w, w[k][2], k)
  /\ \A k, j \in DOMAIN w : w[k][1] = "completed" /\ w[j][1] = "item.added" =>
        \E i \in DOMAIN w : i < k /\ w[i] = <<"item.done", w[j][2]>>

(* Where the writing stands: the message's item, whether its part is open,  *)
(* and the items that may not be done yet.                                  *)
ItemsNow(w, out, part, busy) ==
  /\ out # 0 => \E j \in DOMAIN w : w[j] = <<"item.added", out>>
  /\ part = TRUE <=> OpenAt(w, out, Len(w) + 1)
  /\ \A j \in DOMAIN w : w[j][1] = "item.added" =>
        w[j][2] \in busy \/ \E i \in DOMAIN w : w[i] = <<"item.done", w[j][2]>>

(* What may be written next.                                                *)
MayBeSent(w, last, e) ==
  /\ e[1] = "item.added" => e = <<"item.added", e[2]>> /\ e[2] \in Nat /\ e[2] > last
  /\ e[1] \in AboutItem => \E j \in DOMAIN w : w[j] = <<"item.added", e[2]>>
  /\ e[1] \in AboutPart => OpenAt(w, e[2], Len(w) + 1)
  /\ e[1] = "part.added" => ~ OpenAt(w, e[2], Len(w) + 1)
  /\ e[1] = "completed" => \A j \in DOMAIN w : w[j][1] = "item.added" =>
        \E i \in DOMAIN w : w[i] = <<"item.done", w[j][2]>>
  /\ Quiet(w) \/ e[1] = "[DONE]"

(* Writing an event.                                                        *)
LEMMA Written ==
  ASSUME NEW w, NEW e, IsList(w)
  PROVE  /\ IsList(Append(w, e)) /\ Len(Append(w, e)) = Len(w) + 1 /\ Len(w) \in Nat
         /\ DOMAIN w = 1 .. Len(w) /\ DOMAIN Append(w, e) = 1 .. Len(w) + 1
         /\ \A k \in 1 .. Len(w) : k \in 1 .. Len(w) + 1 /\ k < Len(w) + 1 /\ Append(w, e)[k] = w[k]
         /\ Append(w, e)[Len(w) + 1] = e /\ Len(w) + 1 \in 1 .. Len(w) + 1
         /\ \A k \in 1 .. Len(w) + 1 : k \in 1 .. Len(w) \/ k = Len(w) + 1
<1> DEFINE v == Append(w, e)
<1>1. /\ IsList(v) /\ Len(v) = Len(w) + 1
      /\ \A k \in 1 .. Len(w) : v[k] = w[k]
      /\ v[Len(w) + 1] = e
  BY ListAppend
<1>2. Len(w) \in Nat /\ DOMAIN w = 1 .. Len(w) /\ DOMAIN v = 1 .. Len(v)
  BY <1>1, ListShape
<1> HIDE DEF v
<1>3. \A k \in 1 .. Len(w) : k \in 1 .. Len(w) + 1 /\ k < Len(w) + 1
  BY <1>2
<1>4. \A k \in 1 .. Len(w) + 1 : k \in 1 .. Len(w) \/ k = Len(w) + 1
  BY <1>2
<1>5. Len(w) + 1 \in 1 .. Len(w) + 1
  BY <1>2
<1> QED  BY <1>1, <1>2, <1>3, <1>4, <1>5 DEF v

(* Whether a part is open, after another event and before it.               *)
LEMMA OpenAfter ==
  ASSUME NEW w, IsList(w), NEW e, NEW out
  PROVE  /\ OpenAt(Append(w, e), out, Len(w) + 2)
              <=> \/ e[1] = "part.added" /\ e[2] = out
                  \/ OpenAt(w, out, Len(w) + 1) /\ ~ (e[1] = "part.done" /\ e[2] = out)
         /\ \A k \in 1 .. Len(w) + 1 : OpenAt(Append(w, e), out, k) <=> OpenAt(w, out, k)
<1> DEFINE v == Append(w, e)
           n == Len(w)
<1>1. /\ n \in Nat /\ DOMAIN w = 1 .. n /\ DOMAIN v = 1 .. n + 1
      /\ \A k \in 1 .. n : k \in 1 .. n + 1 /\ k < n + 1 /\ v[k] = w[k]
      /\ v[n + 1] = e /\ n + 1 \in 1 .. n + 1
      /\ \A k \in 1 .. n + 1 : k \in 1 .. n \/ k = n + 1
  BY Written
<1> HIDE DEF v, n
<1>2. \A k \in 1 .. n + 1 : OpenAt(v, out, k) <=> OpenAt(w, out, k)
  <2> SUFFICES ASSUME NEW k \in 1 .. n + 1 PROVE OpenAt(v, out, k) <=> OpenAt(w, out, k)
    OBVIOUS
  <2>1. \A j \in DOMAIN v : j < k => j \in 1 .. n
    BY <1>1
  <2> QED  BY <1>1, <2>1 DEF OpenAt
<1>3. \A j \in 1 .. n + 1 : j < n + 2
  BY <1>1
<1>4. CASE e[1] = "part.added" /\ e[2] = out
  <2>1. \A i \in DOMAIN v : v[i][1] = "part.done" => i < n + 1
    BY <1>1, <1>4
  <2> QED  BY <1>1, <1>2, <1>3, <1>4, <2>1 DEF OpenAt, v, n
<1>5. CASE e[1] = "part.done" /\ e[2] = out
  <2>1. ~ OpenAt(v, out, n + 2)
    <3> SUFFICES ASSUME NEW j \in 1 .. n + 1, n + 1 < j PROVE FALSE
      BY <1>1, <1>3, <1>5 DEF OpenAt
    <3> QED  BY <1>1
  <2> QED  BY <1>2, <1>5, <2>1 DEF v, n
<1>6. CASE ~ (e[1] = "part.added" /\ e[2] = out) /\ ~ (e[1] = "part.done" /\ e[2] = out)
  <2>1. OpenAt(v, out, n + 2) <=> OpenAt(w, out, n + 1)
    <3>1. ASSUME OpenAt(v, out, n + 2) PROVE OpenAt(w, out, n + 1)
      <4>1. PICK j \in DOMAIN v :
               /\ v[j][1] = "part.added" /\ v[j][2] = out
               /\ \A i \in DOMAIN v : i < n + 2 /\ v[i][1] = "part.done" /\ v[i][2] = out => i < j
        BY <3>1 DEF OpenAt
      <4>2. j \in 1 .. n /\ j < n + 1 /\ w[j] = v[j]
        BY <1>1, <1>6, <4>1
      <4>3. \A i \in DOMAIN w : w[i][1] = "part.done" /\ w[i][2] = out => i < j
        BY <1>1, <1>3, <4>1
      <4> QED  BY <1>1, <4>1, <4>2, <4>3 DEF OpenAt
    <3>2. ASSUME OpenAt(w, out, n + 1) PROVE OpenAt(v, out, n + 2)
      <4>1. PICK j \in DOMAIN w :
               /\ w[j][1] = "part.added" /\ w[j][2] = out
               /\ \A i \in DOMAIN w : i < n + 1 /\ w[i][1] = "part.done" /\ w[i][2] = out => i < j
        BY <3>2 DEF OpenAt
      <4>2. j \in DOMAIN v /\ j < n + 2 /\ v[j] = w[j]
        BY <1>1, <1>3
      <4>3. \A i \in DOMAIN v : v[i][1] = "part.done" /\ v[i][2] = out => i < j
        BY <1>1, <1>6, <4>1
      <4> QED  BY <4>1, <4>2, <4>3 DEF OpenAt
    <3> QED  BY <3>1, <3>2
  <2> QED  BY <1>2, <1>6, <2>1 DEF v, n
<1> QED  BY <1>4, <1>5, <1>6

(* An event that may be written keeps the framing.                          *)
LEMMA ItemsStayKept ==
  ASSUME NEW w, IsList(w), NEW e, NEW last \in Nat, NEW next \in Nat, next >= last,
         ItemsKept(w, last), MayBeSent(w, last, e), e[1] = "item.added" => e[2] <= next
  PROVE  ItemsKept(Append(w, e), next)
<1> DEFINE v == Append(w, e)
           n == Len(w)
<1>1. /\ n \in Nat /\ DOMAIN w = 1 .. n /\ DOMAIN v = 1 .. n + 1
      /\ \A k \in 1 .. n : k \in 1 .. n + 1 /\ k < n + 1 /\ v[k] = w[k]
      /\ v[n + 1] = e /\ n + 1 \in 1 .. n + 1
      /\ \A k \in 1 .. n + 1 : k \in 1 .. n \/ k = n + 1
  BY Written
<1>2. \A out : \A k \in 1 .. n + 1 : OpenAt(v, out, k) <=> OpenAt(w, out, k)
  BY OpenAfter
<1> HIDE DEF v, n
<1>3. ASSUME NEW k \in DOMAIN v, v[k][1] = "item.added"
      PROVE  v[k] = <<"item.added", v[k][2]>> /\ v[k][2] \in 1 .. next
  <2>1. CASE k \in 1 .. n
    <3>1. v[k] = <<"item.added", v[k][2]>> /\ v[k][2] \in 1 .. last
      BY <1>1, <1>3, <2>1 DEF ItemsKept
    <3> QED  BY <3>1
  <2>2. CASE k = n + 1
    BY <1>1, <1>3, <2>2 DEF MayBeSent
  <2> QED  BY <1>1, <2>1, <2>2
<1>4. ASSUME NEW j \in DOMAIN v, NEW k \in DOMAIN v,
             v[j][1] = "item.added", v[k][1] = "item.added", v[j][2] = v[k][2]
      PROVE  j = k
  <2>1. \A i \in 1 .. n : v[i][1] = "item.added" => v[i][2] \in 1 .. last
    BY <1>1 DEF ItemsKept
  <2>2. e[1] = "item.added" => ~ (e[2] \in 1 .. last)
    BY DEF MayBeSent
  <2>3. CASE j \in 1 .. n /\ k \in 1 .. n
    BY <1>1, <1>4, <2>3 DEF ItemsKept
  <2>4. CASE j = n + 1 \/ k = n + 1
    BY <1>1, <1>4, <2>1, <2>2, <2>4
  <2> QED  BY <1>1, <2>3, <2>4
<1>5. ASSUME NEW k \in DOMAIN v, v[k][1] \in AboutItem
      PROVE  \E j \in DOMAIN v : j < k /\ v[j] = <<"item.added", v[k][2]>>
  <2>1. CASE k \in 1 .. n
    <3>1. w[k][1] \in AboutItem /\ v[k] = w[k]
      BY <1>1, <1>5, <2>1
    <3>2. PICK j \in DOMAIN w : j < k /\ w[j] = <<"item.added", w[k][2]>>
      BY <1>1, <2>1, <3>1 DEF ItemsKept
    <3> QED  BY <1>1, <3>1, <3>2
  <2>2. CASE k = n + 1
    BY <1>1, <1>5, <2>2 DEF MayBeSent
  <2> QED  BY <1>1, <2>1, <2>2
<1>6. ASSUME NEW k \in DOMAIN v
      PROVE  /\ v[k][1] \in AboutPart => OpenAt(v, v[k][2], k)
             /\ v[k][1] = "part.added" => ~ OpenAt(v, v[k][2], k)
  <2>1. CASE k \in 1 .. n
    BY <1>1, <1>2, <2>1 DEF ItemsKept
  <2>2. CASE k = n + 1
    BY <1>1, <1>2, <2>2 DEF MayBeSent, n
  <2> QED  BY <1>1, <2>1, <2>2
<1>7. ASSUME NEW k \in DOMAIN v, NEW j \in DOMAIN v, v[k][1] = "completed", v[j][1] = "item.added"
      PROVE  \E i \in DOMAIN v : i < k /\ v[i] = <<"item.done", v[j][2]>>
  <2>1. CASE k \in 1 .. n
    <3>1. ~ Quiet(w)
      BY <1>1, <1>7, <2>1 DEF Quiet, EndNames
    <3>2. j \in 1 .. n
      BY <1>1, <1>7, <3>1 DEF MayBeSent
    <3>3. w[k][1] = "completed" /\ w[j][1] = "item.added" /\ v[j] = w[j]
      BY <1>1, <1>7, <2>1, <3>2
    <3>4. \A a, b \in DOMAIN w : w[a][1] = "completed" /\ w[b][1] = "item.added" =>
             \E i \in DOMAIN w : i < a /\ w[i] = <<"item.done", w[b][2]>>
      BY DEF ItemsKept
    <3>5. PICK i \in DOMAIN w : i < k /\ w[i] = <<"item.done", w[j][2]>>
      BY <1>1, <2>1, <3>2, <3>3, <3>4
    <3> QED  BY <1>1, <3>3, <3>5
  <2>2. CASE k = n + 1
    <3>1. j \in 1 .. n
      BY <1>1, <1>7, <2>2
    <3>2. PICK i \in DOMAIN w : w[i] = <<"item.done", w[j][2]>>
      BY <1>1, <1>7, <2>2, <3>1 DEF MayBeSent
    <3> QED  BY <1>1, <2>2, <3>1, <3>2
  <2> QED  BY <1>1, <2>1, <2>2
<1>8. ItemsKept(v, next)
  BY <1>3, <1>4, <1>5, <1>6, <1>7 DEF ItemsKept
<1> QED  BY <1>8 DEF v

(* Where the writing stands after an event.                                 *)
LEMMA ItemsGoOn ==
  ASSUME NEW w, IsList(w), NEW e, NEW out, NEW part, NEW busy, ItemsNow(w, out, part, busy),
         NEW out2, NEW part2, NEW busy2,
         out2 = 0 \/ out2 = out \/ e = <<"item.added", out2>>,
         part2 = TRUE <=> OpenAt(Append(w, e), out2, Len(w) + 2),
         \A o \in busy : o \in busy2 \/ e = <<"item.done", o>>,
         e[1] = "item.added" => e[2] \in busy2
  PROVE  ItemsNow(Append(w, e), out2, part2, busy2)
<1> DEFINE v == Append(w, e)
           n == Len(w)
<1>1. /\ n \in Nat /\ DOMAIN w = 1 .. n /\ DOMAIN v = 1 .. n + 1 /\ Len(v) = n + 1
      /\ \A k \in 1 .. n : k \in 1 .. n + 1 /\ k < n + 1 /\ v[k] = w[k]
      /\ v[n + 1] = e /\ n + 1 \in 1 .. n + 1
      /\ \A k \in 1 .. n + 1 : k \in 1 .. n \/ k = n + 1
  BY Written
<1>2. part2 = TRUE <=> OpenAt(v, out2, n + 2)
  OBVIOUS
<1> HIDE DEF v, n
<1>3. out2 # 0 => \E j \in DOMAIN v : v[j] = <<"item.added", out2>>
  BY <1>1 DEF ItemsNow
<1>4. part2 = TRUE <=> OpenAt(v, out2, Len(v) + 1)
  <2>1. Len(v) + 1 = n + 2
    BY <1>1
  <2> QED  BY <1>2, <2>1
<1>5. ASSUME NEW j \in DOMAIN v, v[j][1] = "item.added"
      PROVE  v[j][2] \in busy2 \/ \E i \in DOMAIN v : v[i] = <<"item.done", v[j][2]>>
  <2>1. CASE j \in 1 .. n
    BY <1>1, <1>5, <2>1 DEF ItemsNow
  <2>2. CASE j = n + 1
    BY <1>1, <1>5, <2>2
  <2> QED  BY <1>1, <2>1, <2>2
<1> QED  BY <1>3, <1>4, <1>5 DEF ItemsNow, v

(***************************************************************************)
(* Responses: the stream.                                                   *)
(***************************************************************************)

(* The names of the events of a response.                                   *)
ResponsesEvents ==
  {"created", "item.added", "part.added", "text", "text.done", "part.done", "item.done",
   "args.done", "reasoning", "completed", "failed", "[DONE]"}

(* What an event says is of the text received, or a call that was told.     *)
ResponsesSays(e, s) ==
  /\ e[1] \in ResponsesEvents
  /\ e[1] = "text" => Last(e) = e[3] /\ ToSet(e[3]) \subseteq TextNumbers(s.acc)
  /\ e[1] = "args.done" => s.emitted = TRUE

(* The stream of a response, with items that may not be done yet.           *)
ResponsesAt(s, busy) ==
  /\ DOMAIN s = {"acc", "sieve", "wire", "emitted", "message", "functions", "lastOut"}
  /\ DOMAIN s.message = {"out", "added", "part", "text"}
  /\ IsAcc(s.acc) /\ SieveKeeps(s.sieve, s.acc)
  /\ s.emitted \in BOOLEAN /\ s.lastOut \in Nat
  /\ s.message.out \in Nat /\ s.message.added \in BOOLEAN /\ s.message.part \in BOOLEAN
  /\ s.message.added = TRUE <=> s.message.out # 0
  /\ IsList(s.wire) /\ ItemsKept(s.wire, s.lastOut)
  /\ ItemsNow(s.wire, s.message.out, s.message.part, busy)
  /\ \A k \in DOMAIN s.wire : ResponsesSays(s.wire[k], s)

(* One whose last event is not written: only the message may not be done.   *)
ResponsesOpen(s) == ResponsesAt(s, {s.message.out}) /\ Quiet(s.wire)

(* A response begins open.                                                  *)
LEMMA ResponsesBegins == ResponsesOpen(NewResponsesStream) /\ NewResponsesStream.emitted = FALSE
<1> DEFINE e == <<"created">>
           w == <<e>>
           s == NewResponsesStream
<1>1. /\ DOMAIN s = {"acc", "sieve", "wire", "emitted", "message", "functions", "lastOut"}
      /\ DOMAIN s.message = {"out", "added", "part", "text"}
      /\ s.acc = NoParts /\ s.sieve = EmptySieve /\ s.wire = w /\ s.emitted = FALSE
      /\ s.lastOut = 0 /\ s.message.out = 0 /\ s.message.added = FALSE /\ s.message.part = FALSE
  BY DEF NewResponsesStream, None
<1>1a. /\ s.emitted \in BOOLEAN /\ s.lastOut \in Nat
       /\ s.message.out \in Nat /\ s.message.added \in BOOLEAN /\ s.message.part \in BOOLEAN
       /\ s.message.added = TRUE <=> s.message.out # 0
  BY DEF NewResponsesStream, None
<1>2. e[1] = "created"
  OBVIOUS
<1> HIDE DEF e, s
<1>3. DOMAIN w = {1} /\ w[1] = e
  OBVIOUS
<1>4. IsList(w)
  BY ShortLists
<1> HIDE DEF w
<1>5. ItemsKept(s.wire, s.lastOut)
  BY <1>1, <1>2, <1>3 DEF ItemsKept, AboutItem, AboutPart
<1>6. ItemsNow(w, s.message.out, s.message.part, {s.message.out})
  BY <1>1, <1>2, <1>3 DEF ItemsNow, OpenAt
<1>7. Quiet(w)
  BY <1>2, <1>3 DEF Quiet, EndNames
<1>8. \A k \in DOMAIN w : ResponsesSays(w[k], s)
  BY <1>2, <1>3 DEF ResponsesSays, ResponsesEvents
<1>9. IsAcc(s.acc) /\ SieveKeeps(s.sieve, s.acc)
  BY <1>1, NothingReceived, EmptySieveKeeps
<1>10. /\ IsList(s.wire) /\ Quiet(s.wire) /\ \A k \in DOMAIN s.wire : ResponsesSays(s.wire[k], s)
       /\ ItemsNow(s.wire, s.message.out, s.message.part, {s.message.out})
  BY <1>1, <1>4, <1>6, <1>7, <1>8
<1>12. ResponsesAt(s, {s.message.out})
  <2>1. /\ DOMAIN s = {"acc", "sieve", "wire", "emitted", "message", "functions", "lastOut"}
        /\ DOMAIN s.message = {"out", "added", "part", "text"}
    BY <1>1
  <2> QED BY <2>1, <1>5, <1>9, <1>10, <1>1a DEF ResponsesAt
<1>13. ResponsesOpen(s)
  BY <1>10, <1>12 DEF ResponsesOpen
<1> QED  BY <1>1, <1>13 DEF s

(* An item that was not added has no open part.                             *)
LEMMA NoItemNoPart ==
  ASSUME NEW w, IsList(w), NEW last \in Nat, ItemsKept(w, last), NEW out, out \notin 1 .. last, NEW k
  PROVE  ~ OpenAt(w, out, k)
<1> SUFFICES ASSUME NEW j \in DOMAIN w, w[j][1] = "part.added", w[j][2] = out PROVE FALSE
  BY DEF OpenAt
<1>1. w[j][1] \in AboutItem
  BY DEF AboutItem
<1>2. PICK i \in DOMAIN w : w[i] = <<"item.added", w[j][2]>>
  BY <1>1 DEF ItemsKept
<1>3. w[i][1] = "item.added" /\ w[i][2] = out
  BY <1>2
<1> QED  BY <1>3 DEF ItemsKept

(* A step that writes an event.                                             *)
LEMMA ResponsesWrites ==
  ASSUME NEW s, NEW busy, ResponsesAt(s, busy), NEW e, NEW t, NEW more,
         DOMAIN t = DOMAIN s, DOMAIN t.message = DOMAIN s.message,
         t.acc = s.acc, t.sieve = s.sieve, t.wire = Append(s.wire, e),
         t.emitted \in BOOLEAN, s.emitted = TRUE => t.emitted = TRUE,
         t.lastOut \in Nat, t.lastOut >= s.lastOut,
         t.message.out \in Nat, t.message.added \in BOOLEAN, t.message.part \in BOOLEAN,
         t.message.added = TRUE <=> t.message.out # 0,
         MayBeSent(s.wire, s.lastOut, e), e[1] = "item.added" => e[2] <= t.lastOut,
         ResponsesSays(e, t),
         ItemsNow(t.wire, t.message.out, t.message.part, more)
  PROVE  /\ ResponsesAt(t, more)
         /\ e[1] \notin EndNames /\ Quiet(s.wire) => Quiet(t.wire)
<1> DEFINE n == Len(s.wire)
<1>1. /\ IsList(t.wire)
      /\ n \in Nat /\ DOMAIN s.wire = 1 .. n /\ DOMAIN t.wire = 1 .. n + 1
      /\ \A k \in 1 .. n : t.wire[k] = s.wire[k]
      /\ t.wire[n + 1] = e
      /\ \A k \in 1 .. n + 1 : k \in 1 .. n \/ k = n + 1
  BY Written DEF ResponsesAt
<1> HIDE DEF n
<1>2. ItemsKept(t.wire, t.lastOut)
  BY ItemsStayKept DEF ResponsesAt
<1>3. \A k \in DOMAIN t.wire : ResponsesSays(t.wire[k], t)
  <2> SUFFICES ASSUME NEW k \in 1 .. n + 1 PROVE ResponsesSays(t.wire[k], t)
    BY <1>1
  <2>1. CASE k \in 1 .. n
    <3>1. ResponsesSays(t.wire[k], s)
      BY <1>1, <2>1 DEF ResponsesAt
    <3> QED  BY <3>1 DEF ResponsesSays
  <2>2. CASE k = n + 1
    BY <1>1, <2>2
  <2> QED  BY <1>1, <2>1, <2>2
<1>4. e[1] \notin EndNames /\ Quiet(s.wire) => Quiet(t.wire)
  BY <1>1 DEF Quiet
<1> QED  BY <1>1, <1>2, <1>3, <1>4 DEF ResponsesAt

(* One that writes an event and changes nothing else.                       *)
LEMMA ResponsesSends ==
  ASSUME NEW s, NEW busy, ResponsesAt(s, busy), NEW e, NEW more,
         e[1] \notin {"item.added", "part.added", "part.done"}, ResponsesSays(e, s),
         MayBeSent(s.wire, s.lastOut, e), \A o \in busy : o \in more \/ e = <<"item.done", o>>
  PROVE  /\ ResponsesAt(Send(s, e), more)
         /\ e[1] \notin EndNames /\ Quiet(s.wire) => Quiet(Send(s, e).wire)
         /\ \A f \in DOMAIN s : f # "wire" => Send(s, e)[f] = s[f]
         /\ Send(s, e).wire = Append(s.wire, e)
<1> DEFINE t == Send(s, e)
           w == Append(s.wire, e)
<1>1. /\ DOMAIN t = DOMAIN s /\ t.wire = w
      /\ \A f \in DOMAIN s : f # "wire" => t[f] = s[f]
  <2>1. t = [s EXCEPT !.wire = w]
    BY DEF Send
  <2> HIDE DEF t, w
  <2> QED  BY <2>1 DEF ResponsesAt
<1>2. OpenAt(w, s.message.out, Len(s.wire) + 2) <=> OpenAt(s.wire, s.message.out, Len(s.wire) + 1)
  BY OpenAfter DEF ResponsesAt
<1>3. s.message.part = TRUE <=> OpenAt(w, s.message.out, Len(s.wire) + 2)
  BY <1>2 DEF ResponsesAt, ItemsNow
<1>4. ItemsNow(w, s.message.out, s.message.part, more)
  <2>1. IsList(s.wire) /\ ItemsNow(s.wire, s.message.out, s.message.part, busy)
    BY DEF ResponsesAt
  <2> QED  BY <1>3, <2>1, ItemsGoOn
<1> HIDE DEF t, w
<1>5. /\ t.acc = s.acc /\ t.sieve = s.sieve /\ t.emitted = s.emitted
      /\ t.lastOut = s.lastOut /\ t.message = s.message
  BY <1>1 DEF ResponsesAt
<1>6. ResponsesSays(e, t)
  BY <1>5 DEF ResponsesSays
<1>7. s.lastOut >= s.lastOut
  BY DEF ResponsesAt
<1>8. ResponsesAt(t, more) /\ (e[1] \notin EndNames /\ Quiet(s.wire) => Quiet(t.wire))
  <2>1. /\ t.emitted \in BOOLEAN /\ t.lastOut \in Nat
        /\ t.message.out \in Nat /\ t.message.added \in BOOLEAN /\ t.message.part \in BOOLEAN
        /\ t.message.added = TRUE <=> t.message.out # 0
    BY <1>5 DEF ResponsesAt
  <2>2. t.wire = Append(s.wire, e) /\ ItemsNow(t.wire, t.message.out, t.message.part, more)
    BY <1>1, <1>4, <1>5 DEF w
  <2>3. DOMAIN t = DOMAIN s /\ DOMAIN t.message = DOMAIN s.message /\ t.lastOut >= s.lastOut
    BY <1>1, <1>5, <1>7
  <2> QED  BY <1>5, <1>6, <2>1, <2>2, <2>3, ResponsesWrites
<1> QED  BY <1>1, <1>8 DEF t, w

(* Fields that a step of the message leaves alone.                          *)
SameBut(s, t) == t.acc = s.acc /\ t.sieve = s.sieve /\ t.emitted = s.emitted

(* The message's item is there when it was asked for.                       *)
LEMMA MessageIsAdded ==
  ASSUME NEW s, ResponsesOpen(s)
  PROVE  /\ ResponsesOpen(EnsureMessageAdded(s)) /\ SameBut(s, EnsureMessageAdded(s))
         /\ EnsureMessageAdded(s).message.added = TRUE
         /\ EnsureMessageAdded(s).message.part = s.message.part
<1> DEFINE t == EnsureMessageAdded(s)
           u == EnsureMessageOutput(s)
           out == s.lastOut + 1
           e == <<"item.added", out>>
           w == Append(s.wire, e)
<1>1. CASE s.message.added = TRUE
  BY <1>1 DEF EnsureMessageAdded, SameBut
<1>2. CASE s.message.added # TRUE
  <2>1. s.message.out = 0 /\ s.message.part \in BOOLEAN /\ s.lastOut \in Nat /\ IsList(s.wire)
        /\ ItemsKept(s.wire, s.lastOut) /\ s.message.added = FALSE
    BY <1>2 DEF ResponsesOpen, ResponsesAt
  <2>2. u = [s EXCEPT !.lastOut = @ + 1, !.message.out = out]
    BY <2>1 DEF EnsureMessageOutput, None
  <2>3. /\ DOMAIN u = DOMAIN s /\ u.wire = s.wire /\ u.lastOut = out /\ SameBut(s, u)
        /\ DOMAIN u.message = DOMAIN s.message /\ u.message.out = out
        /\ u.message.part = s.message.part
    BY <2>2 DEF ResponsesOpen, ResponsesAt, SameBut
  <2>4. t = [Send(u, <<"item.added", u.message.out>>) EXCEPT !.message.added = TRUE]
    BY <2>1 DEF EnsureMessageAdded
  <2> HIDE DEF u
  <2>5. t = [[u EXCEPT !.wire = w] EXCEPT !.message.added = TRUE]
    BY <2>3, <2>4 DEF Send
  <2>6. e[1] = "item.added" /\ e[2] = out
    OBVIOUS
  <2> HIDE DEF t, w, e
  <2>7. /\ DOMAIN t = DOMAIN s /\ t.wire = w /\ t.lastOut = out /\ SameBut(s, t)
        /\ DOMAIN t.message = DOMAIN s.message /\ t.message.out = out
        /\ t.message.part = s.message.part /\ t.message.added = TRUE
    BY <2>3, <2>5 DEF ResponsesOpen, ResponsesAt, SameBut
  <2> HIDE DEF out
  <2>8. out \in Nat /\ out > s.lastOut /\ out >= s.lastOut /\ out <= out /\ out # 0
        /\ out \notin 1 .. s.lastOut /\ 0 \notin 1 .. s.lastOut
    BY <2>1 DEF out
  <2>9. MayBeSent(s.wire, s.lastOut, e)
    BY <2>6, <2>8 DEF MayBeSent, AboutItem, AboutPart, ResponsesOpen, e
  <2>10. ~ OpenAt(s.wire, out, Len(s.wire) + 1) /\ ~ OpenAt(s.wire, 0, Len(s.wire) + 1)
    BY <2>1, <2>8, NoItemNoPart
  <2>11. ~ OpenAt(w, out, Len(s.wire) + 2)
    BY <2>1, <2>6, <2>10, OpenAfter DEF w
  <2>12. s.message.part # TRUE
    BY <2>1, <2>10 DEF ResponsesOpen, ResponsesAt, ItemsNow
  <2>13. ItemsNow(w, out, t.message.part, {out})
    <3>1. ItemsNow(s.wire, 0, s.message.part, {0})
      BY <2>1 DEF ResponsesOpen, ResponsesAt
    <3>2. ItemsNow(s.wire, 0, s.message.part, {out})
      <4>1. \A j \in DOMAIN s.wire : s.wire[j][1] = "item.added" => s.wire[j][2] \in 1 .. s.lastOut
        BY <2>1 DEF ItemsKept
      <4>2. \A j \in DOMAIN s.wire : s.wire[j][1] = "item.added" => s.wire[j][2] # 0
        BY <2>8, <4>1
      <4> QED  BY <3>1, <4>2 DEF ItemsNow
    <3>3. e = <<"item.added", out>> /\ e[2] \in {out}
      BY <2>6 DEF e
    <3>4. t.message.part = TRUE <=> OpenAt(Append(s.wire, e), out, Len(s.wire) + 2)
      BY <2>7, <2>11, <2>12 DEF w
    <3>5. /\ \A o \in {out} : o \in {out} \/ e = <<"item.done", o>>
          /\ out = 0 \/ out = 0 \/ e = <<"item.added", out>>
          /\ e[1] = "item.added" => e[2] \in {out}
      BY <3>3
    <3> HIDE DEF w
    <3>6. ItemsNow(Append(s.wire, e), out, t.message.part, {out})
      BY <2>1, <3>2, <3>4, <3>5, ItemsGoOn
    <3> QED  BY <3>6 DEF w
  <2>14. ResponsesSays(e, t) /\ e[1] \notin EndNames
    BY <2>6 DEF ResponsesSays, ResponsesEvents, EndNames
  <2>15. ResponsesAt(t, {out}) /\ (e[1] \notin EndNames /\ Quiet(s.wire) => Quiet(t.wire))
    <3>1. /\ t.emitted \in BOOLEAN /\ t.message.added \in BOOLEAN /\ t.message.part \in BOOLEAN
          /\ t.acc = s.acc /\ t.sieve = s.sieve /\ (s.emitted = TRUE => t.emitted = TRUE)
      BY <2>1, <2>7 DEF ResponsesOpen, ResponsesAt, SameBut
    <3>2. /\ t.lastOut \in Nat /\ t.lastOut >= s.lastOut /\ t.message.out \in Nat
          /\ t.message.added = TRUE <=> t.message.out # 0
          /\ e[1] = "item.added" => e[2] <= t.lastOut
          /\ t.wire = Append(s.wire, e) /\ ItemsNow(t.wire, t.message.out, t.message.part, {out})
      BY <2>6, <2>7, <2>8, <2>13 DEF w
    <3>3. ResponsesAt(s, {s.message.out})
      BY DEF ResponsesOpen
    <3> QED  BY <2>7, <2>9, <2>14, <3>1, <3>2, <3>3, ResponsesWrites
  <2>16. ResponsesOpen(t)
    BY <2>7, <2>14, <2>15 DEF ResponsesOpen
  <2> QED  BY <2>7, <2>16 DEF t
<1> QED  BY <1>1, <1>2

(* Its part of text is open when it was asked for.                          *)
LEMMA PartIsAdded ==
  ASSUME NEW s, ResponsesOpen(s)
  PROVE  /\ ResponsesOpen(EnsurePartAdded(s)) /\ SameBut(s, EnsurePartAdded(s))
         /\ EnsurePartAdded(s).message.part = TRUE
<1> DEFINE t == EnsurePartAdded(s)
           u == EnsureMessageAdded(s)
           e == <<"part.added", u.message.out>>
           w == Append(u.wire, e)
<1>1. CASE s.message.part = TRUE
  BY <1>1 DEF EnsurePartAdded, SameBut
<1>2. CASE s.message.part # TRUE
  <2>1. /\ ResponsesOpen(u) /\ SameBut(s, u) /\ u.message.added = TRUE
        /\ u.message.part = s.message.part
    BY MessageIsAdded
  <2>2. t = [[u EXCEPT !.wire = w] EXCEPT !.message.part = TRUE]
    BY <1>2 DEF EnsurePartAdded, Send, ResponsesOpen, ResponsesAt
  <2>3. e[1] = "part.added" /\ e[2] = u.message.out
    OBVIOUS
  <2> HIDE DEF t, u, w, e
  <2>4. /\ DOMAIN t = DOMAIN u /\ t.wire = w /\ t.lastOut = u.lastOut /\ SameBut(u, t)
        /\ DOMAIN t.message = DOMAIN u.message /\ t.message.out = u.message.out
        /\ t.message.part = TRUE /\ t.message.added = u.message.added
    BY <2>1, <2>2 DEF ResponsesOpen, ResponsesAt, SameBut
  <2>5. /\ IsList(u.wire) /\ u.message.out # 0 /\ u.lastOut >= u.lastOut
        /\ ~ OpenAt(u.wire, u.message.out, Len(u.wire) + 1)
        /\ \E j \in DOMAIN u.wire : u.wire[j] = <<"item.added", u.message.out>>
    <3>1. /\ IsList(u.wire) /\ u.message.out # 0 /\ u.lastOut >= u.lastOut
          /\ ItemsNow(u.wire, u.message.out, u.message.part, {u.message.out})
      BY <2>1 DEF ResponsesOpen, ResponsesAt
    <3>2. u.message.part # TRUE
      BY <1>2, <2>1
    <3> QED  BY <3>1, <3>2 DEF ItemsNow
  <2>6. MayBeSent(u.wire, u.lastOut, e)
    BY <2>1, <2>3, <2>5 DEF MayBeSent, AboutPart, ResponsesOpen
  <2>7. OpenAt(w, u.message.out, Len(u.wire) + 2)
    BY <2>3, <2>5, OpenAfter DEF w
  <2>8. ItemsNow(w, t.message.out, t.message.part, {u.message.out})
    <3>1. ItemsNow(u.wire, u.message.out, u.message.part, {u.message.out})
      BY <2>1 DEF ResponsesOpen, ResponsesAt
    <3>2. t.message.part = TRUE <=> OpenAt(Append(u.wire, e), t.message.out, Len(u.wire) + 2)
      BY <2>4, <2>7 DEF w
    <3> QED  BY <2>3, <2>4, <2>5, <3>1, <3>2, ItemsGoOn, ZenonT(60) DEF w
  <2>9. ResponsesSays(e, t) /\ e[1] \notin EndNames
    BY <2>3 DEF ResponsesSays, ResponsesEvents, EndNames
  <2>10. ResponsesAt(t, {u.message.out}) /\ (e[1] \notin EndNames /\ Quiet(u.wire) => Quiet(t.wire))
    <3>1. /\ t.emitted \in BOOLEAN /\ t.message.added \in BOOLEAN /\ t.message.part \in BOOLEAN
          /\ t.acc = u.acc /\ t.sieve = u.sieve /\ (u.emitted = TRUE => t.emitted = TRUE)
          /\ t.lastOut \in Nat /\ t.lastOut >= u.lastOut /\ t.message.out \in Nat
          /\ t.message.added = TRUE <=> t.message.out # 0
      BY <2>1, <2>4, <2>5 DEF ResponsesOpen, ResponsesAt, SameBut
    <3>2. /\ e[1] = "item.added" => e[2] <= t.lastOut
          /\ t.wire = Append(u.wire, e)
          /\ ItemsNow(t.wire, t.message.out, t.message.part, {u.message.out})
      BY <2>3, <2>4, <2>8 DEF w
    <3>3. ResponsesAt(u, {u.message.out})
      BY <2>1 DEF ResponsesOpen
    <3> QED  BY <2>4, <2>6, <2>9, <3>1, <3>2, <3>3, ResponsesWrites
  <2>11. ResponsesOpen(t)
    BY <2>1, <2>4, <2>9, <2>10 DEF ResponsesOpen
  <2> QED  BY <2>1, <2>4, <2>11 DEF t, SameBut
<1> QED  BY <1>1, <1>2

(* The message's text is kept for its end.                                  *)
LEMMA TextIsGathered ==
  ASSUME NEW s, ResponsesOpen(s), NEW text
  PROVE  /\ ResponsesOpen([s EXCEPT !.message.text = text])
         /\ SameBut(s, [s EXCEPT !.message.text = text])
<1> DEFINE t == [s EXCEPT !.message.text = text]
<1>1. /\ DOMAIN t = DOMAIN s /\ t.wire = s.wire /\ t.lastOut = s.lastOut /\ SameBut(s, t)
      /\ DOMAIN t.message = DOMAIN s.message /\ t.message.out = s.message.out
      /\ t.message.part = s.message.part /\ t.message.added = s.message.added
  BY DEF ResponsesOpen, ResponsesAt, SameBut
<1> HIDE DEF t
<1>2. \A e : ResponsesSays(e, s) => ResponsesSays(e, t)
  BY <1>1 DEF ResponsesSays, SameBut
<1> QED  BY <1>1, <1>2 DEF ResponsesOpen, ResponsesAt, SameBut, t

(* Text of what was received is told.                                       *)
LEMMA TextIsEmitted ==
  ASSUME NEW s, ResponsesOpen(s), NEW parts, ToSet(parts) \subseteq TextNumbers(s.acc)
  PROVE  ResponsesOpen(EmitText(s, parts)) /\ SameBut(s, EmitText(s, parts))
<1>1. CASE parts = <<>>
  BY <1>1 DEF EmitText, SameBut
<1>2. CASE parts # <<>>
  <2> DEFINE t == EnsurePartAdded(s)
             e == <<"text", t.message.out, parts>>
             u == Send(t, e)
             text == u.message.text \o parts
  <2>1. ResponsesOpen(t) /\ SameBut(s, t) /\ t.message.part = TRUE
    BY PartIsAdded
  <2>2. EmitText(s, parts) = [u EXCEPT !.message.text = @ \o parts]
    BY <1>2 DEF EmitText
  <2>3. e[1] = "text" /\ e[2] = t.message.out /\ e[3] = parts /\ Last(e) = e[3]
    BY DEF Last
  <2> HIDE DEF t, e
  <2>4. ResponsesSays(e, t) /\ e[1] \notin EndNames
    BY <2>1, <2>3 DEF ResponsesSays, ResponsesEvents, EndNames, SameBut
  <2>5. ResponsesAt(t, {t.message.out}) /\ Quiet(t.wire)
    BY <2>1 DEF ResponsesOpen
  <2>6. /\ OpenAt(t.wire, t.message.out, Len(t.wire) + 1)
        /\ \E j \in DOMAIN t.wire : t.wire[j] = <<"item.added", t.message.out>>
    <3>1. ItemsNow(t.wire, t.message.out, t.message.part, {t.message.out})
      BY <2>5 DEF ResponsesAt
    <3>2. OpenAt(t.wire, t.message.out, Len(t.wire) + 1)
      BY <2>1, <3>1 DEF ItemsNow
    <3>3. IsList(t.wire) /\ ItemsKept(t.wire, t.lastOut) /\ t.lastOut \in Nat
      BY <2>5 DEF ResponsesAt
    <3>4. t.message.out # 0
      <4>1. 0 \notin 1 .. t.lastOut
        BY <3>3
      <4> QED  BY <3>2, <3>3, <4>1, NoItemNoPart
    <3> QED  BY <3>1, <3>2, <3>4 DEF ItemsNow
  <2>7. MayBeSent(t.wire, t.lastOut, e)
    BY <2>3, <2>5, <2>6 DEF MayBeSent
  <2>8. /\ ResponsesAt(u, {t.message.out}) /\ Quiet(u.wire)
        /\ \A f \in DOMAIN t : f # "wire" => u[f] = t[f]
    <3> DEFINE busy == {t.message.out}
    <3>1. e[1] \notin {"item.added", "part.added", "part.done"} /\ \A o \in busy : o \in busy
      BY <2>3
    <3>2. ResponsesAt(t, busy)
      BY <2>5
    <3> HIDE DEF busy, text
    <3>3. /\ ResponsesAt(Send(t, e), busy)
          /\ e[1] \notin EndNames /\ Quiet(t.wire) => Quiet(Send(t, e).wire)
          /\ \A f \in DOMAIN t : f # "wire" => Send(t, e)[f] = t[f]
      BY <2>4, <2>7, <3>1, <3>2, ResponsesSends, ZenonT(60)
    <3> QED  BY <2>4, <2>5, <3>3 DEF busy, u
  <2>9. u.message = t.message /\ SameBut(t, u)
    BY <2>5, <2>8 DEF ResponsesAt, SameBut
  <2>10. ResponsesOpen(u)
    BY <2>8, <2>9 DEF ResponsesOpen
  <2>11. EmitText(s, parts) = [u EXCEPT !.message.text = text]
    BY <2>2
  <2> HIDE DEF u, text
  <2>12. ResponsesOpen(EmitText(s, parts)) /\ SameBut(u, EmitText(s, parts))
    BY <2>10, <2>11, TextIsGathered
  <2> QED  BY <2>1, <2>9, <2>12 DEF SameBut
<1> QED  BY <1>1, <1>2

(* A part that was open is done.                                            *)
PartDone(s) ==
  IF s.message.part
  THEN [Send(Send(s, <<"text.done", s.message.out, s.message.text>>),
             <<"part.done", s.message.out>>) EXCEPT !.message.part = FALSE]
  ELSE s

(* It is closed on the wire too.                                            *)
LEMMA PartIsDone ==
  ASSUME NEW s, ResponsesOpen(s)
  PROVE  /\ ResponsesOpen(PartDone(s)) /\ SameBut(s, PartDone(s))
         /\ PartDone(s).message.out = s.message.out /\ PartDone(s).message.added = s.message.added
         /\ PartDone(s).message.part = FALSE
<1>1. CASE s.message.part # TRUE
  BY <1>1 DEF PartDone, SameBut, ResponsesOpen, ResponsesAt
<1>2. CASE s.message.part = TRUE
  <2> DEFINE out == s.message.out
             d == <<"text.done", out, s.message.text>>
             e == <<"part.done", out>>
             u == Send(s, d)
             w == Append(u.wire, e)
             t == PartDone(s)
  <2>1. ResponsesAt(s, {out}) /\ Quiet(s.wire)
    BY DEF ResponsesOpen
  <2>2. d[1] = "text.done" /\ d[2] = out /\ e[1] = "part.done" /\ e[2] = out
    OBVIOUS
  <2>3. OpenAt(s.wire, out, Len(s.wire) + 1) /\ IsList(s.wire) /\ s.lastOut \in Nat
        /\ ItemsKept(s.wire, s.lastOut) /\ ItemsNow(s.wire, out, s.message.part, {out})
    BY <1>2, <2>1 DEF ResponsesAt, ItemsNow
  <2>4. out # 0
    <3>1. 0 \notin 1 .. s.lastOut
      BY <2>3
    <3> QED  BY <2>3, <3>1, NoItemNoPart
  <2>5. \E j \in DOMAIN s.wire : s.wire[j] = <<"item.added", out>>
    BY <2>3, <2>4 DEF ItemsNow
  <2>6. t = [[u EXCEPT !.wire = w] EXCEPT !.message.part = FALSE]
    BY <1>2 DEF PartDone, Send
  <2> HIDE DEF d, e
  <2>7. ResponsesSays(d, s) /\ d[1] \notin EndNames /\ MayBeSent(s.wire, s.lastOut, d)
    BY <2>1, <2>2, <2>3, <2>5
       DEF MayBeSent, ResponsesSays, ResponsesEvents, EndNames, AboutItem, AboutPart
  <2>8. /\ ResponsesAt(u, {out}) /\ Quiet(u.wire) /\ u.wire = Append(s.wire, d)
        /\ \A f \in DOMAIN s : f # "wire" => u[f] = s[f]
    BY <2>1, <2>2, <2>7, ResponsesSends, ZenonT(60)
  <2>9. u.message = s.message /\ SameBut(s, u) /\ u.lastOut = s.lastOut
    BY <2>1, <2>8 DEF ResponsesAt, SameBut
  <2> HIDE DEF u, t, w
  <2>10. /\ DOMAIN t = DOMAIN u /\ t.wire = w /\ t.lastOut = u.lastOut /\ SameBut(u, t)
         /\ DOMAIN t.message = DOMAIN u.message /\ t.message.out = out
         /\ t.message.part = FALSE /\ t.message.added = s.message.added
    BY <2>6, <2>8, <2>9 DEF ResponsesAt, SameBut
  <2>11. /\ IsList(u.wire) /\ u.lastOut \in Nat /\ u.lastOut >= u.lastOut
         /\ ItemsNow(u.wire, out, s.message.part, {out})
    BY <2>8, <2>9 DEF ResponsesAt
  <2>12. OpenAt(u.wire, out, Len(u.wire) + 1)
    BY <1>2, <2>11 DEF ItemsNow
  <2>13. \E j \in DOMAIN u.wire : u.wire[j] = <<"item.added", out>>
    BY <2>4, <2>11 DEF ItemsNow
  <2>14. MayBeSent(u.wire, u.lastOut, e)
    BY <2>2, <2>8, <2>12, <2>13 DEF MayBeSent
  <2>15. ~ OpenAt(w, out, Len(u.wire) + 2)
    BY <2>2, <2>11, OpenAfter DEF w
  <2>16. ItemsNow(t.wire, t.message.out, t.message.part, {out})
    <3>1. t.message.part = TRUE <=> OpenAt(Append(u.wire, e), out, Len(u.wire) + 2)
      BY <2>10, <2>15 DEF w
    <3>2. ItemsNow(w, out, t.message.part, {out})
      BY <2>2, <2>11, <3>1, ItemsGoOn DEF w
    <3> QED  BY <2>10, <3>2
  <2>17. ResponsesSays(e, t) /\ e[1] \notin EndNames
    BY <2>2 DEF ResponsesSays, ResponsesEvents, EndNames
  <2>18. ResponsesAt(t, {out}) /\ (e[1] \notin EndNames /\ Quiet(u.wire) => Quiet(t.wire))
    <3>1. /\ t.emitted \in BOOLEAN /\ t.message.added \in BOOLEAN /\ t.message.part \in BOOLEAN
          /\ t.acc = u.acc /\ t.sieve = u.sieve /\ (u.emitted = TRUE => t.emitted = TRUE)
          /\ t.lastOut \in Nat /\ t.lastOut >= u.lastOut /\ t.message.out \in Nat
          /\ t.message.added = TRUE <=> t.message.out # 0
      BY <2>8, <2>9, <2>10, <2>11 DEF ResponsesAt, SameBut
    <3>2. /\ e[1] = "item.added" => e[2] <= t.lastOut
          /\ t.wire = Append(u.wire, e)
      BY <2>2, <2>10 DEF w
    <3> QED  BY <2>8, <2>10, <2>14, <2>16, <2>17, <3>1, <3>2, ResponsesWrites
  <2>19. ResponsesOpen(t)
    BY <2>8, <2>10, <2>17, <2>18 DEF ResponsesOpen
  <2> QED  BY <2>9, <2>10, <2>19 DEF t, SameBut, out
<1> QED  BY <1>1, <1>2

(* The message is done when it is closed, and so is every item.             *)
LEMMA MessageIsClosed ==
  ASSUME NEW s, ResponsesOpen(s)
  PROVE  /\ ResponsesAt(CloseMessage(s), {}) /\ Quiet(CloseMessage(s).wire)
         /\ SameBut(s, CloseMessage(s))
<1>1. CASE s.message.added # TRUE
  <2>1. CloseMessage(s) = s
    BY <1>1 DEF CloseMessage, ResponsesOpen, ResponsesAt
  <2>2. ResponsesAt(s, {0}) /\ Quiet(s.wire)
    BY <1>1 DEF ResponsesOpen, ResponsesAt
  <2>3. \A j \in DOMAIN s.wire : s.wire[j][1] = "item.added" => s.wire[j][2] # 0
    <3>1. \A j \in DOMAIN s.wire : s.wire[j][1] = "item.added" => s.wire[j][2] \in 1 .. s.lastOut
      BY <2>2 DEF ResponsesAt, ItemsKept
    <3>2. 0 \notin 1 .. s.lastOut
      BY <2>2 DEF ResponsesAt
    <3> QED  BY <3>1, <3>2
  <2>4. ItemsNow(s.wire, s.message.out, s.message.part, {})
    BY <2>2, <2>3 DEF ResponsesAt, ItemsNow
  <2>5. ResponsesAt(s, {})
    BY <2>2, <2>4 DEF ResponsesAt
  <2> QED  BY <2>1, <2>2, <2>5 DEF SameBut
<1>2. CASE s.message.added = TRUE
  <2> DEFINE out == s.message.out
             u == PartDone(s)
             e == <<"item.done", out>>
             v == Send(u, e)
             t == CloseMessage(s)
  <2>1. /\ ResponsesOpen(u) /\ SameBut(s, u) /\ u.message.out = out /\ u.message.added = TRUE
        /\ u.message.part = FALSE
    BY <1>2, PartIsDone
  <2>2. e[1] = "item.done" /\ e[2] = out
    OBVIOUS
  <2>3. ResponsesAt(u, {out}) /\ Quiet(u.wire)
    BY <2>1 DEF ResponsesOpen
  <2>4. \E j \in DOMAIN u.wire : u.wire[j] = <<"item.added", out>>
    <3>1. out # 0 /\ ItemsNow(u.wire, out, u.message.part, {out})
      BY <2>1, <2>3 DEF ResponsesAt
    <3> QED  BY <3>1 DEF ItemsNow
  <2>5. /\ t.wire = v.wire /\ DOMAIN t = DOMAIN u /\ DOMAIN t.message = DOMAIN u.message
        /\ SameBut(u, t) /\ t.lastOut = u.lastOut
        /\ t.message.out = out /\ t.message.part = FALSE /\ t.message.added = u.message.added
    <3> DEFINE b == IF s.message.part
                    THEN Send(Send(s, <<"text.done", out, s.message.text>>), <<"part.done", out>>)
                    ELSE s
    <3>1. t = [Send(b, e) EXCEPT !.message.part = FALSE]
      BY <1>2 DEF CloseMessage
    <3>2. u.wire = b.wire /\ DOMAIN b = DOMAIN s /\ SameBut(s, b) /\ b.lastOut = s.lastOut
          /\ b.message = s.message /\ u.lastOut = s.lastOut
          /\ DOMAIN u = DOMAIN s /\ DOMAIN u.message = DOMAIN s.message
      BY DEF PartDone, Send, SameBut, ResponsesOpen, ResponsesAt
    <3> HIDE DEF b, e, u, t
    <3>3. Send(b, e) = [b EXCEPT !.wire = Append(b.wire, e)] /\ v.wire = Append(u.wire, e)
      BY <2>3 DEF Send, ResponsesAt
    <3>4. "wire" \in DOMAIN s /\ "message" \in DOMAIN s
          /\ DOMAIN s = {"acc", "sieve", "wire", "emitted", "message", "functions", "lastOut"}
          /\ DOMAIN s.message = {"out", "added", "part", "text"}
      BY DEF ResponsesOpen, ResponsesAt
    <3> QED  BY <1>2, <2>1, <3>1, <3>2, <3>3, <3>4, ZenonT(60) DEF SameBut
  <2> HIDE DEF e, u, v, t, out
  <2>6. ResponsesSays(e, u) /\ e[1] \notin EndNames /\ MayBeSent(u.wire, u.lastOut, e)
    BY <2>2, <2>3, <2>4 DEF MayBeSent, ResponsesSays, ResponsesEvents, EndNames, AboutPart
  <2> DEFINE none == {}
  <2>7. \A o \in {out} : o \in none \/ e = <<"item.done", o>>
    BY DEF e
  <2> HIDE DEF none
  <2>8. /\ ResponsesAt(v, none) /\ Quiet(v.wire) /\ \A f \in DOMAIN u : f # "wire" => v[f] = u[f]
    BY <2>2, <2>3, <2>6, <2>7, ResponsesSends DEF v
  <2>9. v.message = u.message /\ SameBut(u, v) /\ v.lastOut = u.lastOut /\ DOMAIN v = DOMAIN u
    BY <2>3, <2>8 DEF ResponsesAt, SameBut
  <2>10. ResponsesAt(t, {})
    <3>1. /\ t.acc = v.acc /\ t.sieve = v.sieve /\ t.emitted = v.emitted /\ t.wire = v.wire
          /\ t.lastOut = v.lastOut /\ t.message.out = v.message.out
          /\ t.message.part = v.message.part /\ t.message.added = v.message.added
          /\ DOMAIN t = DOMAIN v /\ DOMAIN t.message = DOMAIN v.message
      BY <2>1, <2>5, <2>9 DEF SameBut
    <3>2. \A x : ResponsesSays(x, v) => ResponsesSays(x, t)
      BY <3>1 DEF ResponsesSays
    <3> QED  BY <2>8, <3>1, <3>2 DEF ResponsesAt, none
  <2> QED  BY <2>1, <2>5, <2>8, <2>10 DEF SameBut, t
<1> QED  BY <1>1, <1>2 DEF ResponsesOpen, ResponsesAt

(* A call is told as an item of its own.                                    *)
LEMMA CallIsEmitted ==
  ASSUME NEW s, ResponsesOpen(s), NEW i, NEW call_
  PROVE  ResponsesOpen(EmitCall(s, i, call_)) /\ EmitCall(s, i, call_).acc = s.acc
<1>1. CASE i <= Len(s.functions)
  BY <1>1 DEF EmitCall
<1>2. CASE ~ (i <= Len(s.functions))
  <2> DEFINE out == s.lastOut + 1
             msg == s.message.out
             e1 == <<"item.added", out>>
             e2 == <<"args.done", out, call_>>
             e3 == <<"item.done", out>>
             w1 == Append(s.wire, e1)
             v1 == [s EXCEPT !.wire = w1, !.lastOut = out, !.emitted = TRUE]
             v2 == Send(v1, e2)
             v3 == Send(v2, e3)
             t == EmitCall(s, i, call_)
             both == {msg, out}
             one == {msg}
  <2>1. ResponsesAt(s, {msg}) /\ Quiet(s.wire)
    BY DEF ResponsesOpen
  <2>2. /\ IsList(s.wire) /\ s.lastOut \in Nat /\ ItemsNow(s.wire, msg, s.message.part, {msg})
        /\ ItemsKept(s.wire, s.lastOut)
    BY <2>1 DEF ResponsesAt
  <2>3. out \in Nat /\ out > s.lastOut /\ out >= s.lastOut /\ out <= out
    BY <2>2
  <2>4. /\ e1[1] = "item.added" /\ e1[2] = out /\ e2[1] = "args.done" /\ e2[2] = out
        /\ e3[1] = "item.done" /\ e3[2] = out /\ e1 = <<"item.added", e1[2]>>
    OBVIOUS
  <2>5. t = [Send(Send(Send(s, e1), e2), e3)
               EXCEPT !.lastOut = out, !.functions = Append(@, out), !.emitted = TRUE]
    BY <1>2 DEF EmitCall
  <2>6. /\ DOMAIN t = DOMAIN s /\ t.acc = s.acc /\ t.sieve = s.sieve /\ t.emitted = TRUE
        /\ t.lastOut = out /\ t.message = s.message /\ t.wire = Append(Append(w1, e2), e3)
    <3> HIDE DEF t, e1, e2, e3, out
    <3> QED  BY <2>1, <2>5 DEF Send, ResponsesAt
  <2>7. /\ DOMAIN v1 = DOMAIN s /\ v1.acc = s.acc /\ v1.sieve = s.sieve /\ v1.emitted = TRUE
        /\ v1.lastOut = out /\ v1.message = s.message /\ v1.wire = w1
    <3> HIDE DEF e1, w1, out
    <3> QED  BY <2>1 DEF ResponsesAt
  <2> HIDE DEF t, v1, w1, e1, e2, e3, both
  <2>8. MayBeSent(s.wire, s.lastOut, e1) /\ ResponsesSays(e1, v1) /\ e1[1] \notin EndNames
    BY <2>1, <2>3, <2>4
       DEF MayBeSent, ResponsesSays, ResponsesEvents, EndNames, AboutItem, AboutPart
  <2>9. ItemsNow(v1.wire, v1.message.out, v1.message.part, both)
    <3>1. OpenAt(w1, msg, Len(s.wire) + 2) <=> OpenAt(s.wire, msg, Len(s.wire) + 1)
      BY <2>2, <2>4, OpenAfter DEF w1
    <3>2. s.message.part = TRUE <=> OpenAt(Append(s.wire, e1), msg, Len(s.wire) + 2)
      BY <2>2, <3>1 DEF ItemsNow, w1
    <3>3. /\ \A o \in {msg} : o \in both \/ e1 = <<"item.done", o>>
          /\ e1[1] = "item.added" => e1[2] \in both
      BY <2>4 DEF both
    <3>4. ItemsNow(w1, msg, s.message.part, both)
      <4>1. ItemsNow(s.wire, msg, s.message.part, one) /\ \A o \in one : o \in both \/ e1 = <<"item.done", o>>
        BY <2>2, <3>3
      <4> HIDE DEF one, msg
      <4>2. ItemsNow(Append(s.wire, e1), msg, s.message.part, both)
        BY <2>2, <3>2, <3>3, <4>1, ItemsGoOn
      <4> QED BY <4>2 DEF w1
    <3> QED  BY <2>7, <3>4
  <2>10. ResponsesAt(v1, both) /\ Quiet(v1.wire)
    <3>1. /\ v1.emitted \in BOOLEAN /\ v1.lastOut \in Nat /\ v1.lastOut >= s.lastOut
          /\ v1.message.out \in Nat /\ v1.message.added \in BOOLEAN /\ v1.message.part \in BOOLEAN
          /\ v1.message.added = TRUE <=> v1.message.out # 0
          /\ e1[1] = "item.added" => e1[2] <= v1.lastOut
          /\ v1.wire = Append(s.wire, e1) /\ (s.emitted = TRUE => v1.emitted = TRUE)
      BY <2>1, <2>3, <2>4, <2>7 DEF ResponsesAt, w1
    <3> QED  BY <2>1, <2>7, <2>8, <2>9, <3>1, ResponsesWrites
  <2>11. \E j \in DOMAIN v1.wire : v1.wire[j] = <<"item.added", out>>
    BY <2>2, <2>7, Written DEF w1, e1
  <2>12. ResponsesSays(e2, v1) /\ e2[1] \notin EndNames /\ MayBeSent(v1.wire, v1.lastOut, e2)
    BY <2>4, <2>7, <2>10, <2>11
       DEF MayBeSent, ResponsesSays, ResponsesEvents, EndNames, AboutPart
  <2>13. /\ ResponsesAt(v2, both) /\ Quiet(v2.wire) /\ v2.wire = Append(v1.wire, e2)
         /\ \A f \in DOMAIN v1 : f # "wire" => v2[f] = v1[f]
    BY <2>4, <2>10, <2>12, ResponsesSends, ZenonT(60)
  <2>14. \E j \in DOMAIN v2.wire : v2.wire[j] = <<"item.added", out>>
    <3>1. IsList(v1.wire)
      BY <2>10 DEF ResponsesAt
    <3> QED  BY <2>11, <2>13, <3>1, Written
  <2> HIDE DEF v2
  <2>15. ResponsesSays(e3, v2) /\ e3[1] \notin EndNames /\ MayBeSent(v2.wire, v2.lastOut, e3)
    BY <2>4, <2>13, <2>14
       DEF MayBeSent, ResponsesSays, ResponsesEvents, EndNames, AboutPart
  <2>16. \A o \in both : o \in one \/ e3 = <<"item.done", o>>
    BY DEF e3, both
  <2> HIDE DEF one
  <2>17. /\ ResponsesAt(v3, one) /\ Quiet(v3.wire) /\ v3.wire = Append(v2.wire, e3)
         /\ \A f \in DOMAIN v2 : f # "wire" => v3[f] = v2[f]
    <3>1. e3[1] \notin {"item.added", "part.added", "part.done"} /\ ResponsesAt(v2, both) /\ Quiet(v2.wire)
      BY <2>4, <2>13
    <3> HIDE DEF msg, out
    <3> QED  BY <2>15, <2>16, <3>1, ResponsesSends, ZenonT(60)
  <2> HIDE DEF v3
  <2>18. /\ t.acc = v3.acc /\ t.sieve = v3.sieve /\ t.emitted = v3.emitted /\ t.wire = v3.wire
         /\ t.lastOut = v3.lastOut /\ t.message = v3.message /\ DOMAIN t = DOMAIN v3
    BY <2>6, <2>7, <2>10, <2>13, <2>17, ZenonT(60) DEF ResponsesAt
  <2>19. ResponsesAt(t, {msg})
    <3>1. \A x : ResponsesSays(x, v3) => ResponsesSays(x, t)
      BY <2>18 DEF ResponsesSays
    <3> QED  BY <2>17, <2>18, <3>1 DEF ResponsesAt, one
  <2>20. ResponsesOpen(t)
    BY <2>6, <2>17, <2>18, <2>19 DEF ResponsesOpen
  <2> QED  BY <2>6, <2>20 DEF t
<1> QED  BY <1>1, <1>2

(* So are all of a block's calls.                                           *)
LEMMA CallsAreEmitted ==
  ASSUME NEW s, ResponsesOpen(s), NEW calls, IsList(calls)
  PROVE  ResponsesOpen(EmitCalls(s, calls)) /\ EmitCalls(s, calls).acc = s.acc
<1> DEFINE n == Len(calls)
<1>1. n \in Nat
  BY ListShape
<1>2. PICK run : /\ run[0] = s
                 /\ \A i \in 1 .. n : run[i] = EmitCallAt(run[i - 1], <<i, calls[i]>>)
                 /\ EmitCalls(s, calls) = run[n]
  BY CallsRun, ZenonT(60)
<1> HIDE DEF n
<1> DEFINE T == {i \in 0 .. n : ResponsesOpen(run[i]) /\ run[i].acc = s.acc}
<1>4. 0 \in T
  BY <1>1, <1>2
<1>5. ASSUME NEW i \in 1 .. n, i - 1 \in T PROVE i \in T
  <2>1. ResponsesOpen(run[i - 1]) /\ run[i - 1].acc = s.acc
    BY <1>5
  <2>2. run[i] = EmitCall(run[i - 1], i, calls[i])
    BY <1>2 DEF EmitCallAt
  <2>3. ResponsesOpen(run[i]) /\ run[i].acc = s.acc
    BY <2>1, <2>2, CallIsEmitted
  <2>4. i \in 0 .. n
    BY <1>1
  <2> QED  BY <2>3, <2>4
<1>6. n \in T
  <2>1. n \in 0 .. n
    BY <1>1
  <2> HIDE DEF T
  <2> QED  BY <1>1, <1>4, <1>5, <2>1, Upwards
<1> QED  BY <1>2, <1>6

(* A stream that differs in what its framing does not depend on.            *)
LEMMA ResponsesIsSame ==
  ASSUME NEW s, ResponsesOpen(s), NEW t, DOMAIN t = DOMAIN s, IsAcc(t.acc),
         TextNumbers(s.acc) \subseteq TextNumbers(t.acc), SieveKeeps(t.sieve, t.acc),
         t.wire = s.wire, t.emitted = s.emitted, t.lastOut = s.lastOut, t.message = s.message
  PROVE  ResponsesOpen(t)
<1>1. \A x : ResponsesSays(x, s) => ResponsesSays(x, t)
  BY DEF ResponsesSays
<1> QED  BY <1>1 DEF ResponsesOpen, ResponsesAt

(* What the sieve lets out is told.                                         *)
LEMMA ResponsesLetsOut ==
  ASSUME NEW s, ResponsesOpen(s), NEW out, IsList(out.calls), ToSet(out.text) \subseteq TextNumbers(s.acc)
  PROVE  ResponsesOpen(ResponsesLetOut(s, out)) /\ ResponsesLetOut(s, out).acc = s.acc
<1> DEFINE c == EmitCalls(s, out.calls)
           r == ResetFunctions(c)
           t == IF out.calls = <<>> THEN s ELSE r
<1>1. ResponsesOpen(c) /\ c.acc = s.acc
  BY CallsAreEmitted
<1> HIDE DEF c
<1>2. /\ DOMAIN r = DOMAIN c /\ r.acc = c.acc /\ r.sieve = c.sieve /\ r.wire = c.wire
      /\ r.emitted = c.emitted /\ r.lastOut = c.lastOut /\ r.message = c.message
  BY <1>1 DEF ResetFunctions, ResponsesOpen, ResponsesAt
<1> HIDE DEF r
<1>3. ResponsesOpen(r)
  <2>1. IsAcc(c.acc) /\ SieveKeeps(c.sieve, c.acc)
    BY <1>1 DEF ResponsesOpen, ResponsesAt
  <2> QED  BY <1>1, <1>2, <2>1, ResponsesIsSame
<1>4. ResponsesOpen(t) /\ t.acc = s.acc
  BY <1>1, <1>2, <1>3
<1>5. ResponsesLetOut(s, out) = EmitText(t, out.text)
  BY DEF ResponsesLetOut, t, r, c
<1> HIDE DEF t
<1> QED  BY <1>4, <1>5, TextIsEmitted DEF SameBut

(* The deltas gathered so far are of the text received.                     *)
ResponsesBatch(b) ==
  /\ DOMAIN b = {"s", "field", "parts"} /\ ResponsesOpen(b.s) /\ IsList(b.parts)
  /\ b.parts # <<>> => b.field \in {"text", "reasoning"}
  /\ b.field = "text" => ToSet(b.parts) \subseteq TextNumbers(b.s.acc)

(* An empty batch.                                                          *)
LEMMA ResponsesBatchBegins ==
  ASSUME NEW s, ResponsesOpen(s)
  PROVE  ResponsesBatch(Pending(s)) /\ Pending(s).s = s /\ Pending(s).parts = <<>>
BY ShortLists DEF ResponsesBatch, Pending

(* An event that is told of no item.                                        *)
LEMMA ResponsesRemarks ==
  ASSUME NEW s, ResponsesOpen(s), NEW e, e[1] = "reasoning"
  PROVE  ResponsesOpen(Send(s, e)) /\ Send(s, e).acc = s.acc
<1>1. ResponsesSays(e, s) /\ e[1] \notin EndNames /\ MayBeSent(s.wire, s.lastOut, e)
  BY DEF ResponsesSays, ResponsesEvents, EndNames, MayBeSent, AboutItem, AboutPart, ResponsesOpen
<1> DEFINE one == {s.message.out}
<1>2. ResponsesAt(s, one) /\ Quiet(s.wire) /\ \A o \in one : o \in one \/ e = <<"item.done", o>>
  BY DEF ResponsesOpen
<1>3. {"acc", "message"} \subseteq DOMAIN s
  BY DEF ResponsesOpen, ResponsesAt
<1>4. ResponsesAt(Send(s, e), one) /\ Quiet(Send(s, e).wire)
      /\ Send(s, e).message = s.message /\ Send(s, e).acc = s.acc
  <2> HIDE DEF one
  <2> QED  BY <1>1, <1>2, <1>3, ResponsesSends, ZenonT(60)
<1> QED  BY <1>4 DEF ResponsesOpen

(* A batch that is flushed is empty, and what it gathered is told.          *)
LEMMA ResponsesFlushes ==
  ASSUME NEW b, ResponsesBatch(b)
  PROVE  /\ ResponsesBatch(FlushPending(b)) /\ FlushPending(b).parts = <<>>
         /\ FlushPending(b).s.acc = b.s.acc
<1>1. CASE b.parts = <<>>
  BY <1>1 DEF FlushPending
<1>2. CASE b.parts # <<>>
  <2> DEFINE e == <<"reasoning", b.parts>>
             t == IF b.field = "text" THEN EmitText(b.s, b.parts) ELSE Send(b.s, e)
  <2>1. e[1] = "reasoning"
    OBVIOUS
  <2>2. FlushPending(b) = Pending(t)
    BY <1>2 DEF FlushPending
  <2> HIDE DEF e
  <2>3. ResponsesOpen(t) /\ t.acc = b.s.acc
    <3>1. CASE b.field = "text"
      BY <3>1, TextIsEmitted DEF ResponsesBatch, SameBut
    <3>2. CASE b.field # "text"
      BY <2>1, <3>2, ResponsesRemarks DEF ResponsesBatch
    <3> QED  BY <3>1, <3>2
  <2> HIDE DEF t
  <2> QED  BY <2>2, <2>3, ResponsesBatchBegins
<1> QED  BY <1>1, <1>2

(* Deltas are gathered.                                                     *)
LEMMA ResponsesGathers ==
  ASSUME NEW b, ResponsesBatch(b), NEW field \in {"text", "reasoning"}, NEW parts, IsList(parts),
         field = "text" => ToSet(parts) \subseteq TextNumbers(b.s.acc)
  PROVE  /\ ResponsesBatch(AppendPending(b, field, parts))
         /\ AppendPending(b, field, parts).s.acc = b.s.acc
<1>1. CASE parts = <<>>
  BY <1>1 DEF AppendPending
<1>2. CASE parts # <<>>
  <2> DEFINE c == IF b.field = field THEN b ELSE FlushPending(b)
             more == c.parts \o parts
             t == AppendPending(b, field, parts)
  <2>1. ResponsesBatch(c) /\ c.s.acc = b.s.acc /\ (c.field = field \/ c.parts = <<>>)
    BY ResponsesFlushes
  <2>2. t = [c EXCEPT !.field = field, !.parts = more]
    BY <1>2 DEF AppendPending
  <2> HIDE DEF c
  <2>3. IsList(more) /\ ToSet(more) = ToSet(c.parts) \cup ToSet(parts)
    BY <2>1, ConcatItems DEF ResponsesBatch
  <2> HIDE DEF more, t
  <2>4. DOMAIN t = DOMAIN c /\ t.s = c.s /\ t.field = field /\ t.parts = more
    BY <2>1, <2>2 DEF ResponsesBatch
  <2>5. field = "text" => ToSet(more) \subseteq TextNumbers(t.s.acc)
    BY <2>1, <2>3, <2>4, ShortLists DEF ResponsesBatch
  <2> QED  BY <2>1, <2>3, <2>4, <2>5 DEF ResponsesBatch, t
<1> QED  BY <1>1, <1>2

(* A part of a line.                                                        *)
LEMMA ResponsesReceives ==
  ASSUME NEW b, ResponsesBatch(b), NEW part, IsPart(part),
         NEW tools \in BOOLEAN, NEW thinking \in BOOLEAN
  PROVE  /\ ResponsesBatch(ResponsesPart(b, part, tools, thinking))
         /\ ResponsesPart(b, part, tools, thinking).s.acc = Apply(b.s.acc, part, thinking)
<1> DEFINE acc == Apply(b.s.acc, part, thinking)
           s == [b.s EXCEPT !.acc = acc]
           c == [b EXCEPT !.s.acc = Apply(@, part, thinking)]
           shown == Shown(part, thinking)
           t == FlushPending(c).s
           chunk == ProcessChunk(t.sieve, part)
           d == [t EXCEPT !.sieve = chunk.sieve]
<1>1. /\ IsAcc(acc) /\ TextNumbers(b.s.acc) \subseteq TextNumbers(acc)
      /\ part.kind \notin Thinking => part.n \in TextNumbers(acc)
  BY PartIsReceived DEF ResponsesBatch, ResponsesOpen, ResponsesAt
<1>2. IsList(shown) /\ ToSet(shown) \subseteq {part.n}
  BY ShownIsList
<1> HIDE DEF acc, shown
<1>3. ResponsesOpen(s) /\ s.acc = acc
  <2>1. /\ DOMAIN s = DOMAIN b.s /\ s.acc = acc /\ s.sieve = b.s.sieve /\ s.wire = b.s.wire
        /\ s.emitted = b.s.emitted /\ s.lastOut = b.s.lastOut /\ s.message = b.s.message
    BY DEF ResponsesBatch, ResponsesOpen, ResponsesAt
  <2> HIDE DEF s
  <2>2. ResponsesOpen(b.s) /\ SieveKeeps(b.s.sieve, b.s.acc)
    BY DEF ResponsesBatch, ResponsesOpen, ResponsesAt
  <2>3. SieveKeeps(s.sieve, s.acc)
    BY <1>1, <2>1, <2>2, SieveStays
  <2> QED  BY <1>1, <2>1, <2>2, <2>3, ResponsesIsSame
<1>4. DOMAIN c = DOMAIN b /\ c.s = s /\ c.field = b.field /\ c.parts = b.parts
  BY DEF ResponsesBatch, acc
<1> HIDE DEF s, c
<1>5. ResponsesBatch(c) /\ c.s.acc = acc
  BY <1>1, <1>3, <1>4 DEF ResponsesBatch
<1>6. CASE part.kind \in Thinking
  <2>1. ResponsesPart(b, part, tools, thinking) = AppendPending(c, "reasoning", shown)
    BY <1>6 DEF ResponsesPart, c, shown
  <2> QED  BY <1>2, <1>5, <2>1, ResponsesGathers DEF acc
<1>7. CASE part.kind \notin Thinking /\ ~ tools
  <2>1. ResponsesPart(b, part, tools, thinking) = AppendPending(c, "text", shown)
    BY <1>7 DEF ResponsesPart, c, shown
  <2>2. ToSet(shown) \subseteq TextNumbers(c.s.acc)
    BY <1>1, <1>2, <1>5, <1>7
  <2> QED  BY <1>2, <1>5, <2>1, <2>2, ResponsesGathers DEF acc
<1>8. CASE part.kind \notin Thinking /\ tools
  <2>1. ResponsesPart(b, part, tools, thinking) = Pending(ResponsesLetOut(d, chunk))
    BY <1>8 DEF ResponsesPart, c
  <2>2. ResponsesOpen(t) /\ t.acc = acc
    BY <1>5, ResponsesFlushes DEF ResponsesBatch
  <2> HIDE DEF t
  <2>3. SieveKeeps(t.sieve, acc)
    BY <2>2 DEF ResponsesOpen, ResponsesAt
  <2>4. /\ SieveKeeps(chunk.sieve, acc) /\ IsList(chunk.calls) /\ IsList(chunk.text)
        /\ ToSet(chunk.text) \subseteq TextNumbers(acc)
    BY <1>1, <1>8, <2>3, ChunkIsSieved
  <2> HIDE DEF chunk
  <2>5. /\ DOMAIN d = DOMAIN t /\ d.acc = acc /\ d.sieve = chunk.sieve /\ d.wire = t.wire
        /\ d.emitted = t.emitted /\ d.lastOut = t.lastOut /\ d.message = t.message
    BY <2>2 DEF ResponsesOpen, ResponsesAt
  <2> HIDE DEF d
  <2>6. ResponsesOpen(d)
    <3>1. TextNumbers(t.acc) \subseteq TextNumbers(d.acc)
      BY <2>2, <2>5
    <3> QED  BY <1>1, <2>2, <2>4, <2>5, <3>1, ResponsesIsSame
  <2>7. ResponsesOpen(ResponsesLetOut(d, chunk)) /\ ResponsesLetOut(d, chunk).acc = acc
    BY <2>4, <2>5, <2>6, ResponsesLetsOut
  <2> QED  BY <2>1, <2>7, ResponsesBatchBegins DEF acc
<1> QED  BY <1>6, <1>7, <1>8

(* An attempt that leaves the answer open.                                  *)
ResponsesDeferred(end, required) ==
  IsDeferred(end) /\ ResponsesOpen(end.s) /\ end.s.emitted = FALSE /\ MayFollow(end.s.acc, required)

(* One that ends it: what is told is stored too.                            *)
ResponsesOver(end) ==
  /\ end.over = TRUE /\ \E busy : ResponsesAt(end.s, busy)
  /\ \E e : /\ EndsDone(end.s.wire, e) /\ end.stored = <<e>>
            /\ \/ e[1] = "completed" /\ end.history = <<"success">>
               \/ e[1] = "failed" /\ end.history = <<"error">>

(* The end of a response is told with [DONE] after it; one that completes   *)
(* it when every item is done.                                              *)
LEMMA ResponsesEnds ==
  ASSUME NEW s, NEW busy, ResponsesAt(s, busy), Quiet(s.wire), NEW e,
         e[1] = "failed" \/ (e[1] = "completed" /\ busy = {})
  PROVE  /\ ResponsesAt(Send(Send(s, e), <<"[DONE]">>), busy)
         /\ EndsDone(Send(Send(s, e), <<"[DONE]">>).wire, e)
<1> DEFINE done == <<"[DONE]">>
           t == Send(s, e)
<1>1. done[1] = "[DONE]" /\ e[1] \in EndNames /\ IsList(s.wire) /\ "wire" \in DOMAIN s
  BY DEF EndNames, ResponsesAt
<1>2. EndsDone(Send(t, done).wire, e)
  BY <1>1, EndAndDoneAreSent
<1> HIDE DEF done
<1>3. MayBeSent(s.wire, s.lastOut, e) /\ ResponsesSays(e, s)
      /\ e[1] \notin {"item.added", "part.added", "part.done"}
  <2>1. CASE e[1] = "failed"
    BY <2>1 DEF MayBeSent, ResponsesSays, ResponsesEvents, AboutItem, AboutPart
  <2>2. CASE e[1] = "completed" /\ busy = {}
    <3>1. \A j \in DOMAIN s.wire : s.wire[j][1] = "item.added" =>
             \E i \in DOMAIN s.wire : s.wire[i] = <<"item.done", s.wire[j][2]>>
      BY <2>2 DEF ResponsesAt, ItemsNow
    <3> QED  BY <2>2, <3>1 DEF MayBeSent, ResponsesSays, ResponsesEvents, AboutItem, AboutPart
  <2> QED  BY <2>1, <2>2
<1>4. ResponsesAt(t, busy)
  <2>1. \A o \in busy : o \in busy \/ e = <<"item.done", o>>
    OBVIOUS
  <2> QED  BY <1>3, <2>1, ResponsesSends
<1> HIDE DEF t
<1>5. MayBeSent(t.wire, t.lastOut, done) /\ ResponsesSays(done, t)
      /\ done[1] \notin {"item.added", "part.added", "part.done"}
  BY <1>1 DEF MayBeSent, ResponsesSays, ResponsesEvents, AboutItem, AboutPart
<1>6. ResponsesAt(Send(t, done), busy)
  <2>1. \A o \in busy : o \in busy \/ done = <<"item.done", o>>
    OBVIOUS
  <2> QED  BY <1>4, <1>5, <2>1, ResponsesSends
<1> QED  BY <1>2, <1>6 DEF t, done

(* A failure is told, recorded and stored.                                  *)
LEMMA ResponseFails ==
  ASSUME NEW s, NEW busy, ResponsesAt(s, busy), Quiet(s.wire), NEW code
  PROVE  ResponsesOver(FailResponse(s, code))
<1> DEFINE e == <<"failed", code>>
           t == Send(Send(s, e), <<"[DONE]">>)
           end == FailResponse(s, code)
<1>1. e[1] = "failed"
  OBVIOUS
<1>2. end.s = t /\ end.over = TRUE /\ end.history = <<"error">> /\ end.stored = <<e>>
  BY DEF FailResponse
<1> HIDE DEF e, end
<1>3. ResponsesAt(t, busy) /\ EndsDone(t.wire, e)
  BY <1>1, ResponsesEnds
<1> HIDE DEF t
<1>4. ResponsesOver(end)
  BY <1>1, <1>2, <1>3 DEF ResponsesOver
<1> QED  BY <1>4 DEF end

(* A success likewise.                                                      *)
LEMMA ResponseCompletes ==
  ASSUME NEW s, ResponsesAt(s, {}), Quiet(s.wire), NEW turn
  PROVE  ResponsesOver(CompleteResponse(s, turn))
<1> DEFINE none == {}
           e == <<"completed", CompletedItems(s, turn)>>
           t == Send(Send(s, e), <<"[DONE]">>)
           end == CompleteResponse(s, turn)
<1>1. e[1] = "completed" /\ ResponsesAt(s, none) /\ none = {}
  OBVIOUS
<1>2. end.s = t /\ end.over = TRUE /\ end.history = <<"success">> /\ end.stored = <<e>>
  BY DEF CompleteResponse
<1> HIDE DEF e, end, none
<1>3. ResponsesAt(t, none) /\ EndsDone(t.wire, e)
  BY <1>1, ResponsesEnds
<1> HIDE DEF t
<1>4. ResponsesOver(end)
  BY <1>1, <1>2, <1>3 DEF ResponsesOver
<1> QED  BY <1>4 DEF end

(* What is told at the end of an attempt before its outcome.                *)
LEMMA ResponsesFlushesAll ==
  ASSUME NEW s, ResponsesOpen(s)
  PROVE  /\ ResponsesOpen([ResponsesLetOut(s, FlushSieve(s.sieve)) EXCEPT !.sieve = EmptySieve])
         /\ [ResponsesLetOut(s, FlushSieve(s.sieve)) EXCEPT !.sieve = EmptySieve].acc = s.acc
<1> DEFINE out == FlushSieve(s.sieve)
           b == ResponsesLetOut(s, out)
           t == [b EXCEPT !.sieve = EmptySieve]
<1>1. /\ IsList(out.calls) /\ IsList(out.text)
      /\ ToSet(out.text) \subseteq TextNumbers(s.acc)
  BY SieveIsFlushed DEF ResponsesOpen, ResponsesAt
<1> HIDE DEF out
<1>2. ResponsesOpen(b) /\ b.acc = s.acc
  BY <1>1, ResponsesLetsOut
<1> HIDE DEF b
<1>3. /\ DOMAIN t = DOMAIN b /\ t.acc = b.acc /\ t.sieve = EmptySieve /\ t.wire = b.wire
      /\ t.emitted = b.emitted /\ t.lastOut = b.lastOut /\ t.message = b.message
  BY <1>2 DEF ResponsesOpen, ResponsesAt
<1> HIDE DEF t
<1>4. IsAcc(t.acc) /\ SieveKeeps(t.sieve, t.acc) /\ TextNumbers(b.acc) \subseteq TextNumbers(t.acc)
  BY <1>2, <1>3, EmptySieveKeeps DEF ResponsesOpen, ResponsesAt
<1>5. ResponsesOpen(t)
  BY <1>2, <1>3, <1>4, ResponsesIsSame
<1> QED  BY <1>2, <1>3, <1>5 DEF t, b, out

(* A closed stream is an open one with all done.                            *)
LEMMA DoneIsOpen ==
  ASSUME NEW s, ResponsesAt(s, {}), Quiet(s.wire)
  PROVE  ResponsesOpen(s)
BY DEF ResponsesOpen, ResponsesAt, ItemsNow

(* An attempt ends the response, or leaves it open because it may; one that *)
(* was filtered ends it.                                                    *)
LEMMA ResponsesAttempts ==
  ASSUME NEW s, ResponsesOpen(s), NEW r, r.tools \in BOOLEAN, r.required \in BOOLEAN,
         NEW how \in {"closed", "broken", "filtered", "failed"}, NEW defer
  PROVE  \/ ResponsesOver(ResponsesAttemptEnds(s, r, how, defer))
         \/ /\ ResponsesDeferred(ResponsesAttemptEnds(s, r, how, defer), r.required)
            /\ ResponsesAttemptEnds(s, r, how, defer).s.acc = s.acc
            /\ how # "filtered"
<1> DEFINE filtered == how \in {"filtered", "failed"}
           flushed == IF r.tools
                      THEN [ResponsesLetOut(s, FlushSieve(s.sieve)) EXCEPT !.sieve = EmptySieve]
                      ELSE s
           turn == BuildTurn(s.acc, filtered, r.required, flushed.emitted)
           told == IF flushed.emitted THEN flushed ELSE EmitCalls(flushed, turn.calls)
           closed == CloseMessage(told)
           outcome == FinalizeTurn(turn, closed.emitted)
           end == ResponsesAttemptEnds(s, r, how, defer)
<1>1. end = IF outcome.error = "none" THEN CompleteResponse(closed, turn)
            ELSE IF defer /\ ~ filtered THEN Deferred(closed)
            ELSE FailResponse(closed, outcome.error)
  BY DEF ResponsesAttemptEnds, ResponsesFinalize
<1>2. ResponsesOpen(flushed) /\ flushed.acc = s.acc
  BY ResponsesFlushesAll
<1>3. IsAcc(s.acc) /\ flushed.emitted \in BOOLEAN
  BY <1>2 DEF ResponsesOpen, ResponsesAt
<1> HIDE DEF flushed
<1>4. IsList(turn.calls)
  BY <1>3, CallsAreList DEF BuildTurn
<1>5. ResponsesOpen(told) /\ told.acc = s.acc
  <2> HIDE DEF turn
  <2> QED  BY <1>2, <1>4, CallsAreEmitted
<1> HIDE DEF told
<1>6. /\ ResponsesAt(closed, {}) /\ Quiet(closed.wire) /\ closed.acc = s.acc
      /\ closed.emitted \in BOOLEAN
  BY <1>5, MessageIsClosed DEF SameBut, ResponsesOpen, ResponsesAt
<1> HIDE DEF closed
<1>7. outcome.error # "none" =>
        /\ ~ closed.emitted
        /\ ParsedCalls(s.acc.text) = <<>> /\ (r.required \/ BlankText(s.acc.text))
  BY <1>3, <1>6, FailureMeans
<1> HIDE DEF turn, outcome, end
<1>8. CASE outcome.error = "none"
  <2>1. end = CompleteResponse(closed, turn)
    BY <1>1, <1>8
  <2>2. ResponsesOver(end)
    BY <1>6, <2>1, ResponseCompletes
  <2> QED  BY <2>2 DEF end
<1>9. CASE outcome.error # "none" /\ ~ (defer /\ ~ filtered)
  <2>1. end = FailResponse(closed, outcome.error)
    BY <1>1, <1>9
  <2>2. ResponsesOver(end)
    BY <1>6, <2>1, ResponseFails
  <2> QED  BY <2>2 DEF end
<1>10. CASE outcome.error # "none" /\ defer /\ ~ filtered
  <2>1. end = Deferred(closed)
    BY <1>1, <1>10
  <2>2. end.s = closed /\ IsDeferred(end)
    BY <2>1 DEF Deferred, IsDeferred
  <2>3. ResponsesOpen(closed)
    BY <1>6, DoneIsOpen
  <2>4. ResponsesDeferred(end, r.required)
    BY <1>6, <1>7, <1>10, <2>2, <2>3 DEF ResponsesDeferred, MayFollow
  <2> QED  BY <1>6, <1>10, <2>2, <2>4 DEF end
<1> QED  BY <1>8, <1>9, <1>10

(***************************************************************************)
(* Claude Messages: the blocks on the wire.                                 *)
(***************************************************************************)

(* The places where blocks start.                                           *)
Starts(w) == {k \in DOMAIN w : w[k][1] = "start"}

(* Before place k, the block was started and not stopped.                   *)
BlockOpen(w, i, k) ==
  /\ \E j \in Starts(w) : j < k /\ w[j][2] = i
  /\ \A j \in DOMAIN w : j < k /\ w[j][1] = "stop" => w[j][2] # i

(* A block of text is filled with text that was received.                   *)
FillsText(w, e, acc) ==
  (\E j \in DOMAIN w : w[j] = <<"start", e[2], "text">>) =>
     Last(e) = e[3] /\ ToSet(e[3]) \subseteq TextNumbers(acc)

(* The framing of what was written, with next the number of the next block. *)
BlocksKept(w, next, acc) ==
  /\ next \in Nat /\ Cardinality(Starts(w)) = next
  /\ \A k \in Starts(w) :
        w[k][2] = Cardinality({j \in Starts(w) : j < k}) /\ w[k][2] \in 0 .. next - 1
  /\ \A j, k \in Starts(w) : w[j][2] = w[k][2] => j = k
  /\ \A k \in DOMAIN w : w[k][1] \in {"delta", "stop"} => BlockOpen(w, w[k][2], k)
  /\ \A k \in DOMAIN w, j \in Starts(w) : w[k][1] = "message_stop" => ~ BlockOpen(w, w[j][2], k)
  /\ \A k \in DOMAIN w : w[k][1] = "delta" => FillsText(w, w[k], acc)

(* Where the writing stands: the thinking and the text block, and the       *)
(* blocks that may be open.                                                 *)
BlocksNow(w, thinking, text, busy) ==
  /\ thinking = text => thinking = Closed
  /\ thinking # Closed => /\ BlockOpen(w, thinking, Len(w) + 1)
                          /\ \E j \in DOMAIN w : w[j] = <<"start", thinking, "thinking">>
  /\ text # Closed => /\ BlockOpen(w, text, Len(w) + 1)
                      /\ \E j \in DOMAIN w : w[j] = <<"start", text, "text">>
  /\ \A j \in Starts(w) : BlockOpen(w, w[j][2], Len(w) + 1) => w[j][2] \in busy

(* What may be written next.                                                *)
BlockMayBe(w, next, acc, e) ==
  /\ e[1] = "start" => e[2] = next
  /\ e[1] \in {"delta", "stop"} => BlockOpen(w, e[2], Len(w) + 1)
  /\ e[1] = "delta" => FillsText(w, e, acc)
  /\ e[1] = "message_stop" => \A j \in Starts(w) : ~ BlockOpen(w, w[j][2], Len(w) + 1)

(* Whether a block is open, after another event and before it.              *)
LEMMA BlockAfter ==
  ASSUME NEW w, IsList(w), NEW next, NEW acc, BlocksKept(w, next, acc), NEW e,
         BlockMayBe(w, next, acc, e), NEW i
  PROVE  /\ BlockOpen(Append(w, e), i, Len(w) + 2)
              <=> \/ e[1] = "start" /\ e[2] = i
                  \/ BlockOpen(w, i, Len(w) + 1) /\ ~ (e[1] = "stop" /\ e[2] = i)
         /\ \A k \in 1 .. Len(w) + 1 : BlockOpen(Append(w, e), i, k) <=> BlockOpen(w, i, k)
<1> DEFINE v == Append(w, e)
           n == Len(w)
<1>1. /\ n \in Nat /\ DOMAIN w = 1 .. n /\ DOMAIN v = 1 .. n + 1
      /\ \A k \in 1 .. n : k \in 1 .. n + 1 /\ k < n + 1 /\ v[k] = w[k]
      /\ v[n + 1] = e /\ n + 1 \in 1 .. n + 1
      /\ \A k \in 1 .. n + 1 : k \in 1 .. n \/ k = n + 1
  BY Written
<1> HIDE DEF v, n
<1>2. \A k \in 1 .. n + 1 : BlockOpen(v, i, k) <=> BlockOpen(w, i, k)
  <2> SUFFICES ASSUME NEW k \in 1 .. n + 1 PROVE BlockOpen(v, i, k) <=> BlockOpen(w, i, k)
    OBVIOUS
  <2>1. \A j \in DOMAIN v : j < k => j \in 1 .. n
    BY <1>1
  <2> QED  BY <1>1, <2>1 DEF BlockOpen, Starts
<1>3. \A j \in 1 .. n + 1 : j < n + 2
  BY <1>1
<1>4. CASE e[1] = "start" /\ e[2] = i
  <2>1. \A j \in 1 .. n : w[j][1] = "stop" => w[j][2] # i
    <3> SUFFICES ASSUME NEW j \in 1 .. n, w[j][1] = "stop", w[j][2] = i PROVE FALSE
      OBVIOUS
    <3>1. BlockOpen(w, i, j)
      BY <1>1 DEF BlocksKept
    <3>2. PICK k \in Starts(w) : w[k][2] = i
      BY <3>1 DEF BlockOpen
    <3>3. i \in 0 .. next - 1 /\ i = next /\ next \in Nat
      BY <1>4, <3>2 DEF BlocksKept, BlockMayBe
    <3> QED  BY <3>3
  <2>2. \A j \in DOMAIN v : v[j][1] = "stop" => v[j][2] # i
    BY <1>1, <1>4, <2>1
  <2>3. n + 1 \in Starts(v) /\ n + 1 < n + 2 /\ v[n + 1][2] = i
    BY <1>1, <1>4 DEF Starts
  <2>4. BlockOpen(v, i, n + 2)
    BY <2>2, <2>3 DEF BlockOpen
  <2> QED  BY <1>2, <1>4, <2>4 DEF v, n
<1>5. CASE e[1] = "stop" /\ e[2] = i
  <2>1. ~ BlockOpen(v, i, n + 2)
    BY <1>1, <1>3, <1>5 DEF BlockOpen
  <2> QED  BY <1>2, <1>5, <2>1 DEF v, n
<1>6. CASE ~ (e[1] = "start" /\ e[2] = i) /\ ~ (e[1] = "stop" /\ e[2] = i)
  <2>1. (\E j \in Starts(v) : j < n + 2 /\ v[j][2] = i) <=> \E j \in Starts(w) : j < n + 1 /\ w[j][2] = i
    BY <1>1, <1>3, <1>6 DEF Starts
  <2>2. (\A j \in DOMAIN v : j < n + 2 /\ v[j][1] = "stop" => v[j][2] # i)
         <=> \A j \in DOMAIN w : j < n + 1 /\ w[j][1] = "stop" => w[j][2] # i
    BY <1>1, <1>3, <1>6
  <2>3. BlockOpen(v, i, n + 2) <=> BlockOpen(w, i, n + 1)
    BY <2>1, <2>2 DEF BlockOpen
  <2> QED  BY <1>2, <1>6, <2>3 DEF v, n
<1> QED  BY <1>4, <1>5, <1>6

(* The number of blocks after another event.                                *)
LEMMA StartsAre ==
  ASSUME NEW w, IsList(w), NEW e
  PROVE  /\ IsFiniteSet(Starts(w)) /\ Cardinality(Starts(w)) \in Nat
         /\ Starts(Append(w, e)) = Starts(w) \cup (IF e[1] = "start" THEN {Len(w) + 1} ELSE {})
         /\ Len(w) + 1 \notin Starts(w)
         /\ Cardinality(Starts(Append(w, e)))
              = Cardinality(Starts(w)) + IF e[1] = "start" THEN 1 ELSE 0
<1> DEFINE v == Append(w, e)
           n == Len(w)
<1>1. /\ n \in Nat /\ DOMAIN w = 1 .. n /\ DOMAIN v = 1 .. n + 1
      /\ \A k \in 1 .. n : k \in 1 .. n + 1 /\ k < n + 1 /\ v[k] = w[k]
      /\ v[n + 1] = e /\ n + 1 \in 1 .. n + 1
      /\ \A k \in 1 .. n + 1 : k \in 1 .. n \/ k = n + 1
  BY Written
<1>2. IsFiniteSet(Starts(w))
  <2>1. Starts(w) \in SUBSET (DOMAIN w)
    BY DEF Starts
  <2> QED  BY <2>1, PositionsAreFinite
<1> HIDE DEF v, n
<1>3. n + 1 \notin Starts(w)
  BY <1>1 DEF Starts
<1>4. Starts(v) = Starts(w) \cup (IF e[1] = "start" THEN {n + 1} ELSE {})
  BY <1>1 DEF Starts
<1>5. Cardinality(Starts(w)) \in Nat
  BY <1>2, FS_CardinalityType
<1>6. CASE e[1] = "start"
  <2>1. Starts(v) = Starts(w) \cup {n + 1}
    BY <1>4, <1>6
  <2>2. Cardinality(Starts(v)) = Cardinality(Starts(w)) + 1
    BY <1>2, <1>3, <2>1, FS_AddElement
  <2> QED  BY <1>2, <1>3, <1>4, <1>5, <1>6, <2>2 DEF v, n
<1>7. CASE e[1] # "start"
  <2>1. Starts(v) = Starts(w)
    BY <1>4, <1>7
  <2>2. Cardinality(Starts(v)) = Cardinality(Starts(w)) + 0
    BY <1>5, <2>1
  <2> QED  BY <1>2, <1>3, <1>4, <1>5, <1>7, <2>2 DEF v, n
<1> QED  BY <1>6, <1>7

(* An event that may be written keeps the framing.                          *)
LEMMA BlocksStayKept ==
  ASSUME NEW w, IsList(w), NEW next, NEW acc, BlocksKept(w, next, acc), NEW e,
         BlockMayBe(w, next, acc, e), NEW later, later = IF e[1] = "start" THEN next + 1 ELSE next
  PROVE  BlocksKept(Append(w, e), later, acc)
<1> DEFINE v == Append(w, e)
           n == Len(w)
<1>1. /\ n \in Nat /\ DOMAIN w = 1 .. n /\ DOMAIN v = 1 .. n + 1
      /\ \A k \in 1 .. n : k \in 1 .. n + 1 /\ k < n + 1 /\ v[k] = w[k]
      /\ v[n + 1] = e /\ n + 1 \in 1 .. n + 1
      /\ \A k \in 1 .. n + 1 : k \in 1 .. n \/ k = n + 1
  BY Written
<1>2. \A i : \A k \in 1 .. n + 1 : BlockOpen(v, i, k) <=> BlockOpen(w, i, k)
  BY BlockAfter
<1>3. /\ Starts(v) = Starts(w) \cup (IF e[1] = "start" THEN {n + 1} ELSE {})
      /\ n + 1 \notin Starts(w) /\ next \in Nat /\ Cardinality(Starts(w)) = next
      /\ Cardinality(Starts(v)) = Cardinality(Starts(w)) + IF e[1] = "start" THEN 1 ELSE 0
  BY StartsAre DEF BlocksKept
<1> HIDE DEF v, n
<1>4. later \in Nat /\ later >= next /\ Cardinality(Starts(v)) = later
  BY <1>3
<1>5. Starts(w) \subseteq 1 .. n
  BY <1>1 DEF Starts
<1>6. ASSUME NEW k \in Starts(v)
      PROVE  v[k][2] = Cardinality({j \in Starts(v) : j < k}) /\ v[k][2] \in 0 .. later - 1
  <2>1. CASE k \in Starts(w)
    <3>1. v[k][2] = Cardinality({j \in Starts(w) : j < k}) /\ v[k][2] \in 0 .. next - 1
      BY <1>1, <1>5, <2>1 DEF BlocksKept
    <3>2. {j \in Starts(v) : j < k} = {j \in Starts(w) : j < k}
      <4>1. ~ (n + 1 < k)
        BY <1>1, <1>5, <2>1
      <4> QED  BY <1>3, <4>1
    <3>3. v[k] = w[k] /\ v[k][2] = Cardinality({j \in Starts(v) : j < k})
      <4>1. v[k] = w[k]
        BY <1>1, <1>5, <2>1
      <4> QED  BY <3>1, <3>2, <4>1
    <3>4. v[k][2] \in 0 .. next - 1
      BY <3>1
    <3>5. v[k][2] \in 0 .. later - 1
      <4> DEFINE x == v[k][2]
      <4>1. x \in 0 .. next - 1
        BY <3>4
      <4> HIDE DEF x
      <4>2. x \in 0 .. later - 1
        BY <1>3, <1>4, <4>1
      <4> QED  BY <4>2 DEF x
    <3> QED  BY <3>3, <3>5
  <2>2. CASE k = n + 1 /\ e[1] = "start"
    <3>1. {j \in Starts(v) : j < k} = Starts(w)
      <4>1. \A j \in Starts(w) : j < k
        BY <1>1, <1>5, <2>2
      <4>2. ~ (n + 1 < k)
        BY <1>1, <2>2
      <4> QED  BY <1>3, <4>1, <4>2
    <3>2. v[k][2] = next
      BY <1>1, <2>2 DEF BlockMayBe
    <3> QED  BY <1>3, <1>4, <2>2, <3>1, <3>2
  <2> QED  BY <1>3, <2>1, <2>2
<1>7. ASSUME NEW j \in Starts(v), NEW k \in Starts(v), v[j][2] = v[k][2] PROVE j = k
  <2>1. \A i \in Starts(w) : v[i] = w[i] /\ w[i][2] \in 0 .. next - 1
    BY <1>1, <1>5 DEF BlocksKept
  <2>2. e[1] = "start" => v[n + 1][2] = next /\ next \notin 0 .. next - 1
    BY <1>1, <1>3 DEF BlockMayBe
  <2>3. CASE j \in Starts(w) /\ k \in Starts(w)
    BY <1>7, <2>1, <2>3 DEF BlocksKept
  <2>4. CASE j = n + 1 /\ k = n + 1
    BY <2>4
  <2>5. CASE j \in Starts(w) /\ k = n + 1 /\ e[1] = "start"
    BY <1>7, <2>1, <2>2, <2>5
  <2>6. CASE j = n + 1 /\ k \in Starts(w) /\ e[1] = "start"
    BY <1>7, <2>1, <2>2, <2>6
  <2> QED  BY <1>3, <2>3, <2>4, <2>5, <2>6
<1>8. ASSUME NEW k \in DOMAIN v, v[k][1] \in {"delta", "stop"} PROVE BlockOpen(v, v[k][2], k)
  <2>1. CASE k \in 1 .. n
    BY <1>1, <1>2, <1>8, <2>1 DEF BlocksKept
  <2>2. CASE k = n + 1
    BY <1>1, <1>2, <1>8, <2>2 DEF BlockMayBe, n
  <2> QED  BY <1>1, <2>1, <2>2
<1>9. ASSUME NEW k \in DOMAIN v, NEW j \in Starts(v), v[k][1] = "message_stop"
      PROVE  ~ BlockOpen(v, v[j][2], k)
  <2>1. ASSUME NEW a \in Starts(v) PROVE (a \in Starts(w) /\ v[a] = w[a]) \/ a = n + 1
    BY <1>1, <1>3, <1>5
  <2>2. ASSUME BlockOpen(w, v[j][2], k), k \in 1 .. n + 1
        PROVE  \E a \in Starts(w) : a < k /\ w[a][2] = v[j][2]
    BY <2>2 DEF BlockOpen
  <2>3. CASE k \in 1 .. n
    BY <1>1, <1>2, <1>5, <1>9, <2>2, <2>3 DEF BlocksKept
  <2>4. CASE k = n + 1
    BY <1>1, <1>2, <1>9, <2>2, <2>4 DEF BlockMayBe, n
  <2> QED  BY <1>1, <2>3, <2>4
<1>10. ASSUME NEW k \in DOMAIN v, v[k][1] = "delta" PROVE FillsText(v, v[k], acc)
  <2> DEFINE i == v[k][2]
  <2>1. BlockOpen(v, i, k) /\ k \in 1 .. n + 1
    BY <1>1, <1>8, <1>10
  <2>2. \E a \in Starts(w) : w[a][2] = i
    BY <1>2, <2>1 DEF BlockOpen
  <2>3. e[1] = "start" => e[2] # i
    <3>1. PICK a \in Starts(w) : w[a][2] = i
      BY <2>2
    <3> HIDE DEF i
    <3>2. i \in 0 .. next - 1
      BY <3>1 DEF BlocksKept
    <3>3. next \notin 0 .. next - 1
      BY <1>3
    <3> QED  BY <3>2, <3>3 DEF BlockMayBe
  <2> HIDE DEF i
  <2>4. ASSUME NEW j \in DOMAIN v, v[j] = <<"start", i, "text">>
        PROVE  \E a \in DOMAIN w : w[a] = <<"start", i, "text">>
    <3>1. CASE j \in 1 .. n
      BY <1>1, <2>4, <3>1
    <3>2. CASE j = n + 1
      <4>1. e = <<"start", i, "text">>
        BY <1>1, <2>4, <3>2
      <4>2. e[1] = "start" /\ e[2] = i
        BY <4>1
      <4> QED  BY <2>3, <4>2
    <3> QED  BY <1>1, <3>1, <3>2
  <2>5. CASE k \in 1 .. n
    <3>1. FillsText(w, w[k], acc) /\ v[k] = w[k]
      BY <1>1, <1>10, <2>5 DEF BlocksKept
    <3> QED  BY <2>4, <3>1 DEF FillsText, i
  <2>6. CASE k = n + 1
    <3>1. FillsText(w, e, acc) /\ v[k] = e
      BY <1>1, <1>10, <2>6 DEF BlockMayBe
    <3> QED  BY <2>4, <3>1 DEF FillsText, i
  <2> QED  BY <1>1, <2>5, <2>6
<1>11. BlocksKept(v, later, acc)
  BY <1>4, <1>6, <1>7, <1>8, <1>9, <1>10 DEF BlocksKept
<1> QED  BY <1>11 DEF v

(* Where the writing stands after an event.                                 *)
LEMMA BlocksGoOn ==
  ASSUME NEW w, IsList(w), NEW next, NEW acc, BlocksKept(w, next, acc), NEW e,
         BlockMayBe(w, next, acc, e), NEW thinking, NEW text, NEW busy,
         BlocksNow(w, thinking, text, busy),
         NEW thinking2, NEW text2, NEW busy2, thinking2 = text2 => thinking2 = Closed,
         \/ thinking2 = Closed
         \/ thinking2 = thinking /\ ~ (e[1] = "stop" /\ e[2] = thinking)
         \/ e = <<"start", thinking2, "thinking">>,
         \/ text2 = Closed
         \/ text2 = text /\ ~ (e[1] = "stop" /\ e[2] = text)
         \/ e = <<"start", text2, "text">>,
         \A o \in busy : o \in busy2 \/ (e[1] = "stop" /\ e[2] = o),
         e[1] = "start" => e[2] \in busy2
  PROVE  BlocksNow(Append(w, e), thinking2, text2, busy2)
<1> DEFINE v == Append(w, e)
           n == Len(w)
<1>1. /\ n \in Nat /\ DOMAIN w = 1 .. n /\ DOMAIN v = 1 .. n + 1 /\ Len(v) + 1 = n + 2
      /\ \A k \in 1 .. n : k \in 1 .. n + 1 /\ v[k] = w[k]
      /\ v[n + 1] = e /\ n + 1 \in 1 .. n + 1
  <2>1. Len(v) = n + 1 /\ n \in Nat
    BY Written
  <2>2. Len(v) + 1 = n + 2
    <3> HIDE DEF v, n
    <3> QED  BY <2>1
  <2> QED  BY <2>2, Written
<1>2. \A i : BlockOpen(v, i, n + 2)
              <=> \/ e[1] = "start" /\ e[2] = i
                  \/ BlockOpen(w, i, n + 1) /\ ~ (e[1] = "stop" /\ e[2] = i)
  BY BlockAfter
<1>3. Starts(v) = Starts(w) \cup (IF e[1] = "start" THEN {n + 1} ELSE {})
  BY StartsAre
<1> HIDE DEF v, n
<1>4. \A x, y : e = <<"start", x, y>> => e[1] = "start" /\ e[2] = x
  OBVIOUS
<1>5. ASSUME thinking2 # Closed
      PROVE  /\ BlockOpen(v, thinking2, Len(v) + 1)
             /\ \E j \in DOMAIN v : v[j] = <<"start", thinking2, "thinking">>
  <2>1. CASE thinking2 = thinking /\ ~ (e[1] = "stop" /\ e[2] = thinking)
    <3>1. BlockOpen(w, thinking, n + 1) /\ \E j \in DOMAIN w : w[j] = <<"start", thinking, "thinking">>
      BY <1>5, <2>1 DEF BlocksNow, n
    <3> QED  BY <1>1, <1>2, <2>1, <3>1
  <2>2. CASE e = <<"start", thinking2, "thinking">>
    BY <1>1, <1>2, <1>4, <2>2
  <2> QED  BY <1>5, <2>1, <2>2
<1>6. ASSUME text2 # Closed
      PROVE  /\ BlockOpen(v, text2, Len(v) + 1)
             /\ \E j \in DOMAIN v : v[j] = <<"start", text2, "text">>
  <2>1. CASE text2 = text /\ ~ (e[1] = "stop" /\ e[2] = text)
    <3>1. BlockOpen(w, text, n + 1) /\ \E j \in DOMAIN w : w[j] = <<"start", text, "text">>
      BY <1>6, <2>1 DEF BlocksNow, n
    <3> QED  BY <1>1, <1>2, <2>1, <3>1
  <2>2. CASE e = <<"start", text2, "text">>
    BY <1>1, <1>2, <1>4, <2>2
  <2> QED  BY <1>6, <2>1, <2>2
<1>7. ASSUME NEW j \in Starts(v), BlockOpen(v, v[j][2], Len(v) + 1) PROVE v[j][2] \in busy2
  <2>1. CASE e[1] = "start" /\ e[2] = v[j][2]
    BY <2>1
  <2>2. CASE BlockOpen(w, v[j][2], n + 1) /\ ~ (e[1] = "stop" /\ e[2] = v[j][2])
    <3>1. PICK a \in Starts(w) : w[a][2] = v[j][2]
      BY <2>2 DEF BlockOpen
    <3>2. v[j][2] \in busy
      BY <2>2, <3>1 DEF BlocksNow, n
    <3> QED  BY <2>2, <3>2
  <2> QED  BY <1>1, <1>2, <1>7, <2>1, <2>2
<1>8. BlocksNow(v, thinking2, text2, busy2)
  BY <1>5, <1>6, <1>7 DEF BlocksNow
<1> QED  BY <1>8 DEF v

(***************************************************************************)
(* Claude Messages: the stream.                                             *)
(***************************************************************************)

(* The names of the events of an answer.                                    *)
ClaudeEvents ==
  {"message_start", "start", "delta", "stop", "message_delta", "message_stop", "error"}

(* The stream of a Claude answer, with blocks that may be open.             *)
ClaudeAt(s, busy) ==
  /\ DOMAIN s = {"acc", "sieve", "wire", "emitted", "next", "thinking", "text", "textEmitted"}
  /\ IsAcc(s.acc) /\ SieveKeeps(s.sieve, s.acc)
  /\ s.emitted \in BOOLEAN /\ s.textEmitted \in BOOLEAN
  /\ IsList(s.wire) /\ BlocksKept(s.wire, s.next, s.acc)
  /\ BlocksNow(s.wire, s.thinking, s.text, busy)
  /\ \A k \in DOMAIN s.wire : s.wire[k][1] \in ClaudeEvents

(* One whose last event is not written: only the blocks that are written to *)
(* are open.                                                                *)
Busy(s) == {s.thinking, s.text} \ {Closed}
ClaudeFramed(s) == ClaudeAt(s, Busy(s)) /\ Quiet(s.wire)

(* No call was told.                                                        *)
StartsTool(e) == \E i : e = <<"start", i, "tool_use">>
NoTools(w) == \A k \in DOMAIN w : ~ StartsTool(w[k])

(* A stream that remembers whether it told calls.                           *)
ClaudeOpen(s) == ClaudeFramed(s) /\ (s.emitted = TRUE \/ NoTools(s.wire))

(* What a step of the blocks leaves alone.                                  *)
ClaudeKeeps(s, t) ==
  /\ t.acc = s.acc /\ t.sieve = s.sieve /\ t.emitted = s.emitted
  /\ NoTools(s.wire) => NoTools(t.wire)

(* A step that writes an event.                                             *)
LEMMA ClaudeWrites ==
  ASSUME NEW s, NEW busy, ClaudeAt(s, busy), NEW e, NEW t, NEW more,
         DOMAIN t = DOMAIN s, t.acc = s.acc, t.sieve = s.sieve,
         t.emitted \in BOOLEAN, t.textEmitted \in BOOLEAN, t.wire = Append(s.wire, e),
         t.next = IF e[1] = "start" THEN s.next + 1 ELSE s.next,
         e[1] \in ClaudeEvents, BlockMayBe(s.wire, s.next, s.acc, e),
         t.thinking = t.text => t.thinking = Closed,
         \/ t.thinking = Closed
         \/ t.thinking = s.thinking /\ ~ (e[1] = "stop" /\ e[2] = s.thinking)
         \/ e = <<"start", t.thinking, "thinking">>,
         \/ t.text = Closed
         \/ t.text = s.text /\ ~ (e[1] = "stop" /\ e[2] = s.text)
         \/ e = <<"start", t.text, "text">>,
         \A o \in busy : o \in more \/ (e[1] = "stop" /\ e[2] = o),
         e[1] = "start" => e[2] \in more
  PROVE  /\ ClaudeAt(t, more)
         /\ e[1] \notin EndNames /\ Quiet(s.wire) => Quiet(t.wire)
         /\ NoTools(s.wire) /\ ~ StartsTool(e) => NoTools(t.wire)
<1> DEFINE n == Len(s.wire)
           next == t.next
           thinking == t.thinking
           text == t.text
<1>1. /\ IsList(t.wire)
      /\ n \in Nat /\ DOMAIN s.wire = 1 .. n /\ DOMAIN t.wire = 1 .. n + 1
      /\ \A k \in 1 .. n : t.wire[k] = s.wire[k]
      /\ t.wire[n + 1] = e
      /\ \A k \in 1 .. n + 1 : k \in 1 .. n \/ k = n + 1
  BY Written DEF ClaudeAt
<1> HIDE DEF n
<1>2. /\ IsList(s.wire) /\ BlocksKept(s.wire, s.next, s.acc)
      /\ BlocksNow(s.wire, s.thinking, s.text, busy)
  BY DEF ClaudeAt
<1>3. BlocksKept(t.wire, next, t.acc)
  <2> HIDE DEF next
  <2>1. next = IF e[1] = "start" THEN s.next + 1 ELSE s.next
    BY DEF next
  <2>2. BlocksKept(Append(s.wire, e), next, s.acc)
    BY <1>2, <2>1, BlocksStayKept
  <2> QED  BY <2>2
<1>4. BlocksNow(t.wire, thinking, text, more)
  <2>1. /\ thinking = text => thinking = Closed
        /\ \/ thinking = Closed
           \/ thinking = s.thinking /\ ~ (e[1] = "stop" /\ e[2] = s.thinking)
           \/ e = <<"start", thinking, "thinking">>
        /\ \/ text = Closed
           \/ text = s.text /\ ~ (e[1] = "stop" /\ e[2] = s.text)
           \/ e = <<"start", text, "text">>
    OBVIOUS
  <2> HIDE DEF thinking, text
  <2>2. BlocksNow(Append(s.wire, e), thinking, text, more)
    BY <1>2, <2>1, BlocksGoOn
  <2> QED  BY <2>2
<1>5. \A k \in DOMAIN t.wire : t.wire[k][1] \in ClaudeEvents
  BY <1>1 DEF ClaudeAt
<1>6. e[1] \notin EndNames /\ Quiet(s.wire) => Quiet(t.wire)
  BY <1>1 DEF Quiet
<1>7. NoTools(s.wire) /\ ~ StartsTool(e) => NoTools(t.wire)
  BY <1>1 DEF NoTools
<1>8. ClaudeAt(t, more)
  BY <1>1, <1>3, <1>4, <1>5 DEF ClaudeAt
<1> QED  BY <1>6, <1>7, <1>8

(* A Claude answer begins open.                                             *)
LEMMA ClaudeBegins == ClaudeOpen(NewClaudeStream) /\ NewClaudeStream.emitted = FALSE
<1> DEFINE e == <<"message_start">>
           w == <<e>>
           s == NewClaudeStream
           none == Busy(s)
           wrong == Starts(w)
<1>1. /\ DOMAIN s = {"acc", "sieve", "wire", "emitted", "next", "thinking", "text", "textEmitted"}
      /\ s.acc = NoParts /\ s.sieve = EmptySieve /\ s.wire = w /\ s.emitted = FALSE
      /\ s.next = 0 /\ s.thinking = Closed /\ s.text = Closed
      /\ s.emitted \in BOOLEAN /\ s.textEmitted \in BOOLEAN
  BY DEF NewClaudeStream
<1>2. e[1] = "message_start" /\ ~ StartsTool(e)
  BY DEF StartsTool
<1> HIDE DEF e, s
<1>3. DOMAIN w = {1} /\ w[1] = e
  OBVIOUS
<1>4. IsList(w)
  BY ShortLists
<1> HIDE DEF w
<1>5. wrong = {} /\ Cardinality(wrong) = 0 /\ s.next \in Nat
  BY <1>1, <1>2, <1>3, FS_EmptySet DEF Starts
<1>6. BlocksKept(w, s.next, s.acc)
  BY <1>1, <1>2, <1>3, <1>5 DEF BlocksKept
<1>7. BlocksNow(w, s.thinking, s.text, none)
  BY <1>1, <1>5 DEF BlocksNow
<1>8. Quiet(w) /\ NoTools(w) /\ \A k \in DOMAIN w : w[k][1] \in ClaudeEvents
  BY <1>2, <1>3 DEF Quiet, NoTools, EndNames, ClaudeEvents
<1>9. IsAcc(s.acc) /\ SieveKeeps(s.sieve, s.acc)
  BY <1>1, NothingReceived, EmptySieveKeeps
<1>10. ClaudeAt(s, none)
  BY <1>1, <1>4, <1>6, <1>7, <1>8, <1>9 DEF ClaudeAt
<1>11. ClaudeOpen(s)
  BY <1>1, <1>8, <1>10 DEF ClaudeOpen, ClaudeFramed
<1> QED  BY <1>1, <1>11 DEF s

(* A thinking block is closed.                                              *)
LEMMA ThinkingIsClosed ==
  ASSUME NEW s, ClaudeFramed(s)
  PROVE  /\ ClaudeFramed(CloseThinkingBlock(s)) /\ ClaudeKeeps(s, CloseThinkingBlock(s))
         /\ CloseThinkingBlock(s).thinking = Closed /\ CloseThinkingBlock(s).text = s.text
<1> DEFINE t == CloseThinkingBlock(s)
           e == <<"stop", s.thinking>>
           w == Append(s.wire, e)
           busy == Busy(s)
           more == Busy(t)
<1>1. CASE s.thinking = Closed
  BY <1>1 DEF CloseThinkingBlock, ClaudeKeeps
<1>2. CASE s.thinking # Closed
  <2>1. t = [[s EXCEPT !.wire = w] EXCEPT !.thinking = Closed]
    BY <1>2 DEF CloseThinkingBlock, Send
  <2>2. e[1] = "stop" /\ e[2] = s.thinking /\ ~ StartsTool(e)
    BY DEF StartsTool
  <2> HIDE DEF t, e, w
  <2>3. /\ DOMAIN t = DOMAIN s /\ t.wire = w /\ t.acc = s.acc /\ t.sieve = s.sieve
        /\ t.emitted = s.emitted /\ t.textEmitted = s.textEmitted /\ t.next = s.next
        /\ t.thinking = Closed /\ t.text = s.text
    BY <2>1 DEF ClaudeFramed, ClaudeAt
  <2>4. /\ ClaudeAt(s, busy) /\ Quiet(s.wire)
        /\ s.emitted \in BOOLEAN /\ s.textEmitted \in BOOLEAN
        /\ BlocksNow(s.wire, s.thinking, s.text, busy)
    BY DEF ClaudeFramed, ClaudeAt
  <2>5. s.thinking # s.text /\ BlockOpen(s.wire, s.thinking, Len(s.wire) + 1)
    BY <1>2, <2>4 DEF BlocksNow
  <2>6. BlockMayBe(s.wire, s.next, s.acc, e) /\ e[1] \in ClaudeEvents /\ e[1] \notin EndNames
    BY <2>2, <2>5 DEF BlockMayBe, ClaudeEvents, EndNames
  <2>7. \A o \in busy : o \in more \/ (e[1] = "stop" /\ e[2] = o)
    BY <2>2, <2>3 DEF Busy
  <2>8. /\ t.wire = Append(s.wire, e) /\ t.emitted \in BOOLEAN /\ t.textEmitted \in BOOLEAN
        /\ t.next = IF e[1] = "start" THEN s.next + 1 ELSE s.next
        /\ t.thinking = t.text => t.thinking = Closed
        /\ t.text = s.text /\ ~ (e[1] = "stop" /\ e[2] = s.text)
        /\ e[1] = "start" => e[2] \in more
    BY <2>2, <2>3, <2>4, <2>5 DEF w
  <2> HIDE DEF busy, more
  <2>9. /\ DOMAIN t = DOMAIN s /\ t.acc = s.acc /\ t.sieve = s.sieve
        /\ \/ t.thinking = Closed
           \/ t.thinking = s.thinking /\ ~ (e[1] = "stop" /\ e[2] = s.thinking)
           \/ e = <<"start", t.thinking, "thinking">>
        /\ \/ t.text = Closed
           \/ t.text = s.text /\ ~ (e[1] = "stop" /\ e[2] = s.text)
           \/ e = <<"start", t.text, "text">>
    BY <2>3, <2>8
  <2>10. ClaudeAt(t, more) /\ Quiet(t.wire) /\ (NoTools(s.wire) => NoTools(t.wire))
    BY <2>2, <2>4, <2>6, <2>7, <2>8, <2>9, ClaudeWrites
  <2> QED  BY <2>3, <2>10 DEF t, more, ClaudeFramed, ClaudeKeeps
<1> QED  BY <1>1, <1>2

(* A text block is closed.                                                  *)
LEMMA TextIsClosed ==
  ASSUME NEW s, ClaudeFramed(s)
  PROVE  /\ ClaudeFramed(CloseTextBlock(s)) /\ ClaudeKeeps(s, CloseTextBlock(s))
         /\ CloseTextBlock(s).text = Closed /\ CloseTextBlock(s).thinking = s.thinking
<1> DEFINE t == CloseTextBlock(s)
           e == <<"stop", s.text>>
           w == Append(s.wire, e)
           busy == Busy(s)
           more == Busy(t)
<1>1. CASE s.text = Closed
  BY <1>1 DEF CloseTextBlock, ClaudeKeeps
<1>2. CASE s.text # Closed
  <2>1. t = [[s EXCEPT !.wire = w] EXCEPT !.text = Closed]
    BY <1>2 DEF CloseTextBlock, Send
  <2>2. e[1] = "stop" /\ e[2] = s.text /\ ~ StartsTool(e)
    BY DEF StartsTool
  <2> HIDE DEF t, e, w
  <2>3. /\ DOMAIN t = DOMAIN s /\ t.wire = w /\ t.acc = s.acc /\ t.sieve = s.sieve
        /\ t.emitted = s.emitted /\ t.textEmitted = s.textEmitted /\ t.next = s.next
        /\ t.text = Closed /\ t.thinking = s.thinking
    BY <2>1 DEF ClaudeFramed, ClaudeAt
  <2>4. /\ ClaudeAt(s, busy) /\ Quiet(s.wire)
        /\ s.emitted \in BOOLEAN /\ s.textEmitted \in BOOLEAN
        /\ BlocksNow(s.wire, s.thinking, s.text, busy)
    BY DEF ClaudeFramed, ClaudeAt
  <2>5. s.thinking # s.text /\ BlockOpen(s.wire, s.text, Len(s.wire) + 1)
    BY <1>2, <2>4 DEF BlocksNow
  <2>6. BlockMayBe(s.wire, s.next, s.acc, e) /\ e[1] \in ClaudeEvents /\ e[1] \notin EndNames
    BY <2>2, <2>5 DEF BlockMayBe, ClaudeEvents, EndNames
  <2>7. \A o \in busy : o \in more \/ (e[1] = "stop" /\ e[2] = o)
    BY <2>2, <2>3 DEF Busy
  <2>8. /\ t.wire = Append(s.wire, e) /\ t.emitted \in BOOLEAN /\ t.textEmitted \in BOOLEAN
        /\ t.next = IF e[1] = "start" THEN s.next + 1 ELSE s.next
        /\ t.thinking = t.text => t.thinking = Closed
        /\ t.thinking = s.thinking /\ ~ (e[1] = "stop" /\ e[2] = s.thinking)
        /\ e[1] = "start" => e[2] \in more
    BY <2>2, <2>3, <2>4, <2>5 DEF w
  <2> HIDE DEF busy, more
  <2>9. /\ DOMAIN t = DOMAIN s /\ t.acc = s.acc /\ t.sieve = s.sieve
        /\ \/ t.thinking = Closed
           \/ t.thinking = s.thinking /\ ~ (e[1] = "stop" /\ e[2] = s.thinking)
           \/ e = <<"start", t.thinking, "thinking">>
        /\ \/ t.text = Closed
           \/ t.text = s.text /\ ~ (e[1] = "stop" /\ e[2] = s.text)
           \/ e = <<"start", t.text, "text">>
    BY <2>3, <2>8
  <2>10. ClaudeAt(t, more) /\ Quiet(t.wire) /\ (NoTools(s.wire) => NoTools(t.wire))
    BY <2>2, <2>4, <2>6, <2>7, <2>8, <2>9, ClaudeWrites
  <2> QED  BY <2>3, <2>10 DEF t, more, ClaudeFramed, ClaudeKeeps
<1> QED  BY <1>1, <1>2

(* A block has one type.                                                    *)
LEMMA BlockHasOneType ==
  ASSUME NEW w, NEW next, NEW acc, BlocksKept(w, next, acc), NEW i, NEW x, NEW y,
         NEW j \in DOMAIN w, w[j] = <<"start", i, x>>, NEW k \in DOMAIN w, w[k] = <<"start", i, y>>
  PROVE  x = y
<1>1. j \in Starts(w) /\ k \in Starts(w) /\ w[j][2] = i /\ w[k][2] = i
  BY DEF Starts
<1>2. j = k
  BY <1>1 DEF BlocksKept
<1>3. <<"start", i, x>> = <<"start", i, y>>
  BY <1>2
<1> QED  BY <1>3

(* An open block is written to.                                             *)
LEMMA BlockIsFilled ==
  ASSUME NEW s, NEW busy, ClaudeAt(s, busy), Quiet(s.wire), NEW i, NEW parts,
         BlockOpen(s.wire, i, Len(s.wire) + 1),
         FillsText(s.wire, <<"delta", i, parts>>, s.acc),
         NEW t, t = Send(s, <<"delta", i, parts>>)
  PROVE  /\ ClaudeAt(t, busy) /\ Quiet(t.wire) /\ ClaudeKeeps(s, t)
         /\ DOMAIN t = DOMAIN s /\ \A f \in DOMAIN s : f # "wire" => t[f] = s[f]
<1> DEFINE e == <<"delta", i, parts>>
           w == Append(s.wire, e)
<1>1. t = [s EXCEPT !.wire = w]
  BY DEF Send
<1>2. e[1] = "delta" /\ e[2] = i /\ ~ StartsTool(e)
  BY DEF StartsTool
<1> HIDE DEF e, w
<1>3. DOMAIN t = DOMAIN s /\ t.wire = w /\ \A f \in DOMAIN s : f # "wire" => t[f] = s[f]
  BY <1>1 DEF ClaudeAt
<1>4. /\ t.acc = s.acc /\ t.sieve = s.sieve /\ t.emitted = s.emitted /\ t.textEmitted = s.textEmitted
      /\ t.next = s.next /\ t.thinking = s.thinking /\ t.text = s.text
  BY <1>3 DEF ClaudeAt
<1>5. BlockMayBe(s.wire, s.next, s.acc, e) /\ e[1] \in ClaudeEvents /\ e[1] \notin EndNames
  <2>1. FillsText(s.wire, e, s.acc)
    BY DEF e
  <2> QED  BY <1>2, <2>1 DEF BlockMayBe, ClaudeEvents, EndNames
<1>6. /\ t.wire = Append(s.wire, e) /\ t.emitted \in BOOLEAN /\ t.textEmitted \in BOOLEAN
      /\ t.next = IF e[1] = "start" THEN s.next + 1 ELSE s.next
      /\ t.thinking = t.text => t.thinking = Closed
      /\ t.thinking = s.thinking /\ ~ (e[1] = "stop" /\ e[2] = s.thinking)
      /\ t.text = s.text /\ ~ (e[1] = "stop" /\ e[2] = s.text)
      /\ e[1] = "start" => e[2] \in busy
      /\ \A o \in busy : o \in busy \/ (e[1] = "stop" /\ e[2] = o)
  BY <1>2, <1>3, <1>4 DEF w, ClaudeAt, BlocksNow
<1>7. ClaudeAt(t, busy) /\ Quiet(t.wire) /\ (NoTools(s.wire) => NoTools(t.wire))
  BY <1>2, <1>3, <1>4, <1>5, <1>6, ClaudeWrites, ZenonT(60)
<1> QED  BY <1>3, <1>4, <1>7 DEF ClaudeKeeps

(* The next block is not one that is written to.                            *)
LEMMA NextIsNew ==
  ASSUME NEW s, NEW busy, ClaudeAt(s, busy)
  PROVE  s.thinking # s.next /\ s.text # s.next /\ s.next # Closed
<1>1. /\ BlocksKept(s.wire, s.next, s.acc) /\ s.next \in Nat
      /\ BlocksNow(s.wire, s.thinking, s.text, busy)
  BY DEF ClaudeAt, BlocksKept
<1>2. ASSUME NEW i, i # Closed, BlockOpen(s.wire, i, Len(s.wire) + 1) PROVE i # s.next
  <2>1. PICK j \in Starts(s.wire) : s.wire[j][2] = i
    BY <1>2 DEF BlockOpen
  <2>2. i \in 0 .. s.next - 1
    BY <1>1, <2>1 DEF BlocksKept
  <2> QED  BY <1>1, <2>2
<1>3. Closed # s.next
  BY <1>1 DEF Closed
<1> QED  BY <1>1, <1>2, <1>3 DEF BlocksNow

(* A block is started.                                                      *)
LEMMA BlockIsStarted ==
  ASSUME NEW s, NEW busy, ClaudeAt(s, busy), Quiet(s.wire), NEW type,
         NEW t, DOMAIN t = DOMAIN s, t.acc = s.acc, t.sieve = s.sieve, t.emitted = s.emitted,
         t.textEmitted = s.textEmitted, t.next = s.next + 1,
         t.wire = Append(s.wire, <<"start", s.next, type>>),
         \/ t.thinking = s.thinking
         \/ t.thinking = s.next /\ type = "thinking",
         \/ t.text = s.text
         \/ t.text = s.next /\ type = "text",
         NEW more, busy \subseteq more, s.next \in more
  PROVE  /\ ClaudeAt(t, more) /\ Quiet(t.wire)
         /\ NoTools(s.wire) /\ type # "tool_use" => NoTools(t.wire)
         /\ BlockOpen(t.wire, s.next, Len(t.wire) + 1)
         /\ \E j \in DOMAIN t.wire : t.wire[j] = <<"start", s.next, type>>
<1> DEFINE e == <<"start", s.next, type>>
<1>1. e[1] = "start" /\ e[2] = s.next
  OBVIOUS
<1>2. StartsTool(e) => type = "tool_use"
  BY DEF StartsTool
<1>0. t.wire = Append(s.wire, e)
  OBVIOUS
<1>3. /\ IsList(s.wire) /\ BlocksKept(s.wire, s.next, s.acc) /\ s.next \in Nat
      /\ BlocksNow(s.wire, s.thinking, s.text, busy)
  BY DEF ClaudeAt, BlocksKept
<1>4. s.thinking # s.next /\ s.text # s.next
  BY NextIsNew
<1>5. BlockMayBe(s.wire, s.next, s.acc, e) /\ e[1] \in ClaudeEvents /\ e[1] \notin EndNames
  BY <1>1 DEF BlockMayBe, ClaudeEvents, EndNames
<1>6. t.thinking = t.text => t.thinking = Closed
  <2>1. s.thinking = s.text => s.thinking = Closed
    BY <1>3 DEF BlocksNow
  <2>2. "thinking" # "text"
    OBVIOUS
  <2> QED  BY <1>4, <2>1, <2>2
<1>7. /\ \/ t.thinking = Closed
         \/ t.thinking = s.thinking /\ ~ (e[1] = "stop" /\ e[2] = s.thinking)
         \/ e = <<"start", t.thinking, "thinking">>
      /\ \/ t.text = Closed
         \/ t.text = s.text /\ ~ (e[1] = "stop" /\ e[2] = s.text)
         \/ e = <<"start", t.text, "text">>
  BY <1>1
<1> HIDE DEF e
<1>8. /\ t.emitted \in BOOLEAN /\ t.textEmitted \in BOOLEAN
      /\ t.next = IF e[1] = "start" THEN s.next + 1 ELSE s.next
      /\ \A o \in busy : o \in more \/ (e[1] = "stop" /\ e[2] = o)
      /\ e[1] = "start" => e[2] \in more
  BY <1>1 DEF ClaudeAt
<1>9. /\ ClaudeAt(t, more) /\ Quiet(t.wire)
      /\ NoTools(s.wire) /\ ~ StartsTool(e) => NoTools(t.wire)
  BY <1>0, <1>5, <1>6, <1>7, <1>8, ClaudeWrites
<1>10. BlockOpen(t.wire, s.next, Len(t.wire) + 1) /\ \E j \in DOMAIN t.wire : t.wire[j] = e
  <2> DEFINE i == s.next
             v == Append(s.wire, e)
  <2>1. /\ Len(v) = Len(s.wire) + 1 /\ Len(s.wire) \in Nat
        /\ DOMAIN v = 1 .. Len(s.wire) + 1
        /\ v[Len(s.wire) + 1] = e /\ Len(s.wire) + 1 \in 1 .. Len(s.wire) + 1
    BY <1>3, Written
  <2>2. BlockOpen(v, i, Len(s.wire) + 2)
    BY <1>1, <1>3, <1>5, BlockAfter
  <2> HIDE DEF v, i
  <2>3. Len(v) + 1 = Len(s.wire) + 2
    BY <2>1
  <2>4. t.wire = v
    BY <1>0 DEF v
  <2> QED  BY <2>1, <2>2, <2>3, <2>4 DEF i
<1> QED  BY <1>2, <1>9, <1>10 DEF e

(* Thinking is told in its block.                                           *)
LEMMA ThinkingIsSent ==
  ASSUME NEW s, ClaudeFramed(s), NEW parts
  PROVE  ClaudeFramed(SendThinking(s, parts)) /\ ClaudeKeeps(s, SendThinking(s, parts))
<1> DEFINE type == "thinking"
           t == IF s.thinking # Closed THEN s
                ELSE [Send(s, <<"start", s.next, type>>) EXCEPT !.thinking = s.next, !.next = @ + 1]
           u == Send(t, <<"delta", t.thinking, parts>>)
           busy == Busy(s)
           more == Busy(t)
<1>1. SendThinking(s, parts) = u
  BY DEF SendThinking
<1>2. ClaudeAt(s, busy) /\ Quiet(s.wire)
  BY DEF ClaudeFramed
<1>3. /\ ClaudeAt(t, more) /\ Quiet(t.wire) /\ ClaudeKeeps(s, t) /\ t.thinking # Closed
  <2>1. CASE s.thinking # Closed
    BY <1>2, <2>1 DEF ClaudeKeeps
  <2>2. CASE s.thinking = Closed
    <3> DEFINE w == Append(s.wire, <<"start", s.next, type>>)
    <3>1. t = [[s EXCEPT !.wire = w] EXCEPT !.thinking = s.next, !.next = @ + 1]
      BY <2>2 DEF Send
    <3> HIDE DEF t, w, type
    <3>2. /\ DOMAIN t = DOMAIN s /\ t.wire = w /\ t.acc = s.acc /\ t.sieve = s.sieve
          /\ t.emitted = s.emitted /\ t.textEmitted = s.textEmitted /\ t.next = s.next + 1
          /\ t.thinking = s.next /\ t.text = s.text
      BY <1>2, <3>1 DEF ClaudeAt
    <3>3. s.next # Closed
      BY <1>2, NextIsNew
    <3>4. busy \subseteq more /\ s.next \in more
      BY <2>2, <3>2, <3>3 DEF Busy
    <3>5. /\ type # "tool_use" /\ t.wire = Append(s.wire, <<"start", s.next, type>>)
          /\ \/ t.thinking = s.thinking
             \/ t.thinking = s.next /\ type = "thinking"
          /\ \/ t.text = s.text
             \/ t.text = s.next /\ type = "text"
      <4>1. type = "thinking" /\ type # "tool_use"
        BY DEF type
      <4> QED  BY <3>2, <4>1 DEF w
    <3> HIDE DEF busy, more
    <3>6. ClaudeAt(t, more) /\ Quiet(t.wire) /\ (NoTools(s.wire) => NoTools(t.wire))
      BY <1>2, <3>2, <3>4, <3>5, BlockIsStarted
    <3> QED  BY <3>2, <3>3, <3>6 DEF ClaudeKeeps
  <2> QED  BY <2>1, <2>2
<1> HIDE DEF t
<1>4. /\ BlocksKept(t.wire, t.next, t.acc) /\ BlockOpen(t.wire, t.thinking, Len(t.wire) + 1)
      /\ \E j \in DOMAIN t.wire : t.wire[j] = <<"start", t.thinking, "thinking">>
  BY <1>3 DEF ClaudeAt, BlocksNow
<1>5. ~ \E j \in DOMAIN t.wire : t.wire[j] = <<"start", t.thinking, "text">>
  <2> DEFINE x == "thinking"
             y == "text"
             i == t.thinking
  <2>1. x # y
    OBVIOUS
  <2>2. PICK j \in DOMAIN t.wire : t.wire[j] = <<"start", i, x>>
    BY <1>4
  <2> HIDE DEF x, y, i
  <2>3. ASSUME NEW k \in DOMAIN t.wire, t.wire[k] = <<"start", i, y>> PROVE FALSE
    <3>1. x = y
      BY <1>4, <2>2, <2>3, BlockHasOneType, ZenonT(60)
    <3> QED  BY <2>1, <3>1
  <2> QED  BY <2>3 DEF y, i
<1>6. /\ ClaudeAt(u, more) /\ Quiet(u.wire) /\ ClaudeKeeps(t, u)
      /\ DOMAIN u = DOMAIN t /\ \A f \in DOMAIN t : f # "wire" => u[f] = t[f]
  <2> HIDE DEF more
  <2>1. FillsText(t.wire, <<"delta", t.thinking, parts>>, t.acc)
    <3> DEFINE e == <<"delta", t.thinking, parts>>
    <3>1. e[2] = t.thinking
      OBVIOUS
    <3> HIDE DEF e
    <3>2. FillsText(t.wire, e, t.acc)
      BY <1>5, <3>1 DEF FillsText
    <3> QED  BY <3>2 DEF e
  <2> QED  BY <1>3, <1>4, <2>1, BlockIsFilled
<1> HIDE DEF u
<1>7. u.thinking = t.thinking /\ u.text = t.text
  BY <1>3, <1>6 DEF ClaudeAt
<1>8. Busy(u) = more
  BY <1>7 DEF Busy
<1> QED  BY <1>1, <1>3, <1>6, <1>8 DEF ClaudeFramed, ClaudeKeeps

(* Text is told in its block.                                               *)
LEMMA TextIsSent ==
  ASSUME NEW s, ClaudeFramed(s), NEW parts, ToSet(parts) \subseteq TextNumbers(s.acc)
  PROVE  /\ ClaudeFramed(SendText(s, parts)) /\ ClaudeKeeps(s, SendText(s, parts))
         /\ SendText(s, parts).thinking = s.thinking
<1> DEFINE type == "text"
           t == IF s.text # Closed THEN s
                ELSE [Send(s, <<"start", s.next, type>>) EXCEPT !.text = s.next, !.next = @ + 1]
           u == Send(t, <<"delta", t.text, parts>>)
           v == [u EXCEPT !.textEmitted = TRUE]
           busy == Busy(s)
           more == Busy(t)
<1>1. SendText(s, parts) = v
  BY DEF SendText
<1>2. ClaudeAt(s, busy) /\ Quiet(s.wire)
  BY DEF ClaudeFramed
<1>3. /\ ClaudeAt(t, more) /\ Quiet(t.wire) /\ ClaudeKeeps(s, t) /\ t.text # Closed
      /\ t.thinking = s.thinking
  <2>1. CASE s.text # Closed
    BY <1>2, <2>1 DEF ClaudeKeeps
  <2>2. CASE s.text = Closed
    <3> DEFINE w == Append(s.wire, <<"start", s.next, type>>)
    <3>1. t = [[s EXCEPT !.wire = w] EXCEPT !.text = s.next, !.next = @ + 1]
      BY <2>2 DEF Send
    <3> HIDE DEF t, w, type
    <3>2. /\ DOMAIN t = DOMAIN s /\ t.wire = w /\ t.acc = s.acc /\ t.sieve = s.sieve
          /\ t.emitted = s.emitted /\ t.textEmitted = s.textEmitted /\ t.next = s.next + 1
          /\ t.text = s.next /\ t.thinking = s.thinking
      BY <1>2, <3>1 DEF ClaudeAt
    <3>3. s.next # Closed
      BY <1>2, NextIsNew
    <3>4. busy \subseteq more /\ s.next \in more
      BY <2>2, <3>2, <3>3 DEF Busy
    <3>5. /\ type # "tool_use" /\ t.wire = Append(s.wire, <<"start", s.next, type>>)
          /\ \/ t.thinking = s.thinking
             \/ t.thinking = s.next /\ type = "thinking"
          /\ \/ t.text = s.text
             \/ t.text = s.next /\ type = "text"
      <4>1. type = "text" /\ type # "tool_use"
        BY DEF type
      <4> QED  BY <3>2, <4>1 DEF w
    <3> HIDE DEF busy, more
    <3>6. ClaudeAt(t, more) /\ Quiet(t.wire) /\ (NoTools(s.wire) => NoTools(t.wire))
      BY <1>2, <3>2, <3>4, <3>5, BlockIsStarted, ZenonT(60)
    <3> QED  BY <3>2, <3>3, <3>6 DEF ClaudeKeeps
  <2> QED  BY <2>1, <2>2
<1> HIDE DEF t
<1>4. BlockOpen(t.wire, t.text, Len(t.wire) + 1)
  BY <1>3 DEF ClaudeAt, BlocksNow
<1>5. /\ ClaudeAt(u, more) /\ Quiet(u.wire) /\ ClaudeKeeps(t, u)
      /\ DOMAIN u = DOMAIN t /\ \A f \in DOMAIN t : f # "wire" => u[f] = t[f]
  <2> HIDE DEF more
  <2>1. FillsText(t.wire, <<"delta", t.text, parts>>, t.acc)
    BY <1>3 DEF ClaudeKeeps, FillsText, Last
  <2> QED  BY <1>3, <1>4, <2>1, BlockIsFilled
<1>6. u.thinking = t.thinking /\ u.text = t.text
  <2> HIDE DEF u
  <2> QED  BY <1>3, <1>5 DEF ClaudeAt
<1> HIDE DEF u
<1>7. /\ DOMAIN v = DOMAIN u /\ v.textEmitted = TRUE /\ v.acc = u.acc /\ v.sieve = u.sieve
      /\ v.wire = u.wire /\ v.emitted = u.emitted /\ v.next = u.next
      /\ v.thinking = u.thinking /\ v.text = u.text
  BY <1>5 DEF ClaudeAt
<1> HIDE DEF v
<1>8. ClaudeAt(v, more) /\ Busy(v) = more
  <2>1. v.textEmitted \in BOOLEAN
    BY <1>7
  <2>2. Busy(v) = more
    BY <1>6, <1>7 DEF Busy
  <2> HIDE DEF more
  <2> QED  BY <1>5, <1>7, <2>1, <2>2 DEF ClaudeAt
<1> QED  BY <1>1, <1>3, <1>5, <1>6, <1>7, <1>8 DEF ClaudeFramed, ClaudeKeeps

(* A stream with the fields of another one.                                 *)
LEMMA ClaudeIsSame ==
  ASSUME NEW s, NEW busy, ClaudeAt(s, busy), NEW t, DOMAIN t = DOMAIN s,
         IsAcc(t.acc), TextNumbers(s.acc) \subseteq TextNumbers(t.acc), SieveKeeps(t.sieve, t.acc),
         t.wire = s.wire, t.emitted \in BOOLEAN, t.textEmitted = s.textEmitted,
         t.next = s.next, t.thinking = s.thinking, t.text = s.text
  PROVE  ClaudeAt(t, busy) /\ Busy(t) = Busy(s)
<1>1. \A e : FillsText(s.wire, e, s.acc) => FillsText(s.wire, e, t.acc)
  BY DEF FillsText
<1>2. BlocksKept(t.wire, t.next, t.acc)
  BY <1>1 DEF BlocksKept, ClaudeAt
<1>3. ClaudeAt(t, busy)
  BY <1>2 DEF ClaudeAt
<1> QED  BY <1>3 DEF Busy

(* A call is told in a block of its own.                                    *)
LEMMA ToolUseIsSent ==
  ASSUME NEW s, ClaudeFramed(s), NEW call_
  PROVE  /\ ClaudeFramed(SendToolUse(s, call_))
         /\ SendToolUse(s, call_).acc = s.acc /\ SendToolUse(s, call_).sieve = s.sieve
         /\ SendToolUse(s, call_).emitted = s.emitted
         /\ SendToolUse(s, call_).thinking = s.thinking /\ SendToolUse(s, call_).text = s.text
<1> DEFINE type == "tool_use"
           i == s.next
           one == <<call_>>
           e1 == <<"start", i, type>>
           e2 == <<"delta", i, one>>
           e3 == <<"stop", i>>
           t == SendToolUse(s, call_)
           w1 == Append(s.wire, e1)
           v1 == [s EXCEPT !.wire = w1, !.next = i + 1]
           v2 == Send(v1, e2)
           v3 == Send(v2, e3)
           busy == Busy(s)
           more == busy \cup {i}
<1>1. /\ DOMAIN v1 = DOMAIN s /\ v1.wire = w1 /\ v1.acc = s.acc /\ v1.sieve = s.sieve
      /\ v1.emitted = s.emitted /\ v1.textEmitted = s.textEmitted /\ v1.next = i + 1
      /\ v1.thinking = s.thinking /\ v1.text = s.text
  <2> HIDE DEF i, w1
  <2> QED  BY DEF ClaudeFramed, ClaudeAt
<1>2. /\ DOMAIN t = DOMAIN s /\ t.acc = s.acc /\ t.sieve = s.sieve
      /\ t.wire = Append(Append(w1, e2), e3)
      /\ t.emitted = s.emitted /\ t.textEmitted = s.textEmitted /\ t.next = i + 1
      /\ t.thinking = s.thinking /\ t.text = s.text
  <2>1. t = [Send(Send(Send(s, e1), e2), e3) EXCEPT !.next = @ + 1]
    BY DEF SendToolUse
  <2> HIDE DEF t, e1, e2, e3
  <2> QED  BY <2>1 DEF Send, ClaudeFramed, ClaudeAt
<1>3. /\ DOMAIN v3 = DOMAIN v1 /\ v3.wire = Append(Append(w1, e2), e3)
      /\ v3.acc = v1.acc /\ v3.sieve = v1.sieve
      /\ v3.emitted = v1.emitted /\ v3.textEmitted = v1.textEmitted /\ v3.next = v1.next
      /\ v3.thinking = v1.thinking /\ v3.text = v1.text
  <2> HIDE DEF v1, e1, e2, e3, w1
  <2> QED  BY <1>1 DEF Send, ClaudeFramed, ClaudeAt
<1>4. ClaudeAt(s, busy) /\ Quiet(s.wire)
  BY DEF ClaudeFramed
<1>5. i # Closed /\ i # s.thinking /\ i # s.text
  BY <1>4, NextIsNew
<1>6. ClaudeAt(v1, more) /\ Quiet(v1.wire)
      /\ BlockOpen(v1.wire, i, Len(v1.wire) + 1)
      /\ \E j \in DOMAIN v1.wire : v1.wire[j] = <<"start", i, type>>
  <2>1. /\ busy \subseteq more /\ i \in more
        /\ v1.wire = Append(s.wire, <<"start", s.next, type>>)
        /\ \/ v1.thinking = s.thinking
           \/ v1.thinking = s.next /\ type = "thinking"
        /\ \/ v1.text = s.text
           \/ v1.text = s.next /\ type = "text"
        /\ v1.next = s.next + 1
    BY <1>1
  <2>2. DOMAIN v1 = DOMAIN s /\ v1.acc = s.acc /\ v1.sieve = s.sieve
        /\ v1.emitted = s.emitted /\ v1.textEmitted = s.textEmitted
    BY <1>1
  <2> HIDE DEF v1, type, busy, more, i
  <2>3. ClaudeAt(v1, more) /\ Quiet(v1.wire)
    BY <1>4, <2>1, <2>2, BlockIsStarted DEF i
  <2>4. BlockOpen(v1.wire, s.next, Len(v1.wire) + 1)
    BY <1>4, <2>1, <2>2, BlockIsStarted DEF i
  <2>5. \E j \in DOMAIN v1.wire : v1.wire[j] = <<"start", i, type>>
    <3>1. IsList(s.wire)
      BY <1>4 DEF ClaudeAt
    <3>2. \A e : Len(s.wire) + 1 \in DOMAIN Append(s.wire, e) /\ Append(s.wire, e)[Len(s.wire) + 1] = e
      BY <3>1, Written
    <3> QED  BY <2>1, <3>2 DEF i
  <2> QED  BY <2>3, <2>4, <2>5 DEF i
<1>7. FillsText(v1.wire, e2, v1.acc)
  <2>1. BlocksKept(v1.wire, v1.next, v1.acc)
    BY <1>6 DEF ClaudeAt
  <2> DEFINE x == "text"
  <2>2. type # x
    OBVIOUS
  <2>3. e2[2] = i
    OBVIOUS
  <2> HIDE DEF v1, type, x, i, e2
  <2>4. ASSUME NEW k \in DOMAIN v1.wire, v1.wire[k] = <<"start", i, x>> PROVE FALSE
    <3>1. type = x
      BY <1>6, <2>1, <2>4, BlockHasOneType
    <3> QED  BY <2>2, <3>1
  <2> QED  BY <2>3, <2>4 DEF FillsText, x
<1>8. ClaudeAt(v2, more) /\ Quiet(v2.wire) /\ v2.wire = Append(v1.wire, e2)
      /\ DOMAIN v2 = DOMAIN v1 /\ \A f \in DOMAIN v1 : f # "wire" => v2[f] = v1[f]
  <2>1. v2 = Send(v1, <<"delta", i, one>>) /\ FillsText(v1.wire, <<"delta", i, one>>, v1.acc)
    BY <1>7
  <2> HIDE DEF v2, v1, i, one, more, e2
  <2>2. ClaudeAt(v2, more) /\ Quiet(v2.wire)
        /\ DOMAIN v2 = DOMAIN v1 /\ \A f \in DOMAIN v1 : f # "wire" => v2[f] = v1[f]
    BY <1>6, <2>1, BlockIsFilled
  <2>3. v2.wire = Append(v1.wire, e2)
    BY <1>6 DEF v2, Send, ClaudeAt
  <2> QED  BY <2>2, <2>3
<1>9. /\ BlockOpen(v2.wire, i, Len(v2.wire) + 1) /\ ~ (e2[1] = "stop")
  <2>1. BlockMayBe(v1.wire, v1.next, v1.acc, e2) /\ e2[1] = "delta"
    <3>1. e2[1] = "delta" /\ e2[2] = i
      OBVIOUS
    <3> HIDE DEF v1, e2, i
    <3> QED  BY <1>6, <1>7, <3>1 DEF BlockMayBe
  <2>2. IsList(v1.wire) /\ BlocksKept(v1.wire, v1.next, v1.acc)
    BY <1>6 DEF ClaudeAt
  <2> HIDE DEF v1, v2, e2, i
  <2>3. BlockOpen(Append(v1.wire, e2), i, Len(v1.wire) + 2)
    BY <1>6, <2>1, <2>2, BlockAfter
  <2>4. Len(Append(v1.wire, e2)) = Len(v1.wire) + 1 /\ Len(v1.wire) \in Nat
    BY <2>2, Written
  <2>5. Len(v2.wire) + 1 = Len(v1.wire) + 2
    BY <1>8, <2>4
  <2> QED  BY <1>8, <2>1, <2>3, <2>5
<1>10. ClaudeAt(v3, busy) /\ Quiet(v3.wire)
  <2>1. e3[1] = "stop" /\ e3[2] = i
    OBVIOUS
  <2> HIDE DEF v1, v2, e3, i
  <2>2. /\ DOMAIN v3 = DOMAIN v2 /\ v3.wire = Append(v2.wire, e3)
        /\ v3.acc = v2.acc /\ v3.sieve = v2.sieve
        /\ v3.emitted = v2.emitted /\ v3.textEmitted = v2.textEmitted /\ v3.next = v2.next
        /\ v3.thinking = v2.thinking /\ v3.text = v2.text
    BY <1>8 DEF Send, ClaudeAt
  <2>3. v2.thinking = s.thinking /\ v2.text = s.text
    BY <1>1, <1>4, <1>8 DEF ClaudeAt
  <2> HIDE DEF v3
  <2>4. /\ BlockMayBe(v2.wire, v2.next, v2.acc, e3) /\ e3[1] \in ClaudeEvents
        /\ e3[1] \notin EndNames
    BY <1>9, <2>1 DEF BlockMayBe, ClaudeEvents, EndNames
  <2>5. \A o \in more : o \in busy \/ (e3[1] = "stop" /\ e3[2] = o)
    BY <2>1
  <2>6. /\ v3.emitted \in BOOLEAN /\ v3.textEmitted \in BOOLEAN
        /\ v3.thinking = v3.text => v3.thinking = Closed
    BY <1>8, <2>2 DEF ClaudeAt, BlocksNow
  <2>7. /\ v3.thinking = v2.thinking /\ ~ (e3[1] = "stop" /\ e3[2] = v2.thinking)
        /\ v3.text = v2.text /\ ~ (e3[1] = "stop" /\ e3[2] = v2.text)
        /\ v3.next = IF e3[1] = "start" THEN v2.next + 1 ELSE v2.next
        /\ e3[1] = "start" => e3[2] \in busy
        /\ \/ v3.thinking = Closed
           \/ v3.thinking = v2.thinking /\ ~ (e3[1] = "stop" /\ e3[2] = v2.thinking)
           \/ e3 = <<"start", v3.thinking, "thinking">>
        /\ \/ v3.text = Closed
           \/ v3.text = v2.text /\ ~ (e3[1] = "stop" /\ e3[2] = v2.text)
           \/ e3 = <<"start", v3.text, "text">>
    BY <1>5, <2>1, <2>2, <2>3
  <2>8. ClaudeAt(v2, more) /\ Quiet(v2.wire)
    BY <1>8
  <2> HIDE DEF busy, more
  <2> QED  BY <2>2, <2>4, <2>5, <2>6, <2>7, <2>8, ClaudeWrites, ZenonT(60)
<1>11. ClaudeAt(t, busy) /\ Busy(t) = Busy(v3)
  <2>1. /\ DOMAIN t = DOMAIN v3 /\ t.acc = v3.acc /\ t.sieve = v3.sieve /\ t.wire = v3.wire
        /\ t.emitted = v3.emitted /\ t.textEmitted = v3.textEmitted
        /\ t.next = v3.next /\ t.thinking = v3.thinking /\ t.text = v3.text
    BY <1>1, <1>2, <1>3
  <2> HIDE DEF t, v3, busy
  <2>2. IsAcc(v3.acc) /\ SieveKeeps(v3.sieve, v3.acc) /\ v3.emitted \in BOOLEAN
    BY <1>10 DEF ClaudeAt
  <2> QED  BY <1>10, <2>1, <2>2, ClaudeIsSame, SMTT(30)
<1>12. Busy(t) = busy /\ Quiet(t.wire)
  <2>1. t.wire = v3.wire
    BY <1>2, <1>3
  <2> HIDE DEF t, v3
  <2> QED  BY <1>2, <1>10, <2>1 DEF Busy
<1> HIDE DEF t, busy
<1> QED  BY <1>2, <1>11, <1>12 DEF ClaudeFramed, t

(* So are several calls.                                                    *)
LEMMA ToolUsesAreSent ==
  ASSUME NEW s, ClaudeFramed(s), NEW calls, IsList(calls)
  PROVE  /\ ClaudeFramed(SendToolUses(s, calls))
         /\ SendToolUses(s, calls).acc = s.acc /\ SendToolUses(s, calls).sieve = s.sieve
         /\ SendToolUses(s, calls).emitted = s.emitted
         /\ SendToolUses(s, calls).thinking = s.thinking
         /\ SendToolUses(s, calls).text = s.text
<1> DEFINE n == Len(calls)
<1>1. n \in Nat
  BY ListShape
<1>2. PICK run : /\ run[0] = s
                 /\ \A i \in 1 .. n : run[i] = SendToolUse(run[i - 1], calls[i])
                 /\ SendToolUses(s, calls) = run[n]
  BY UsesRun
<1> HIDE DEF n
<1> DEFINE Good(t) == /\ ClaudeFramed(t) /\ t.acc = s.acc /\ t.sieve = s.sieve
                      /\ t.emitted = s.emitted /\ t.thinking = s.thinking /\ t.text = s.text
           T == {i \in 0 .. n : Good(run[i])}
<1>3. 0 \in T
  BY <1>1, <1>2
<1>4. ASSUME NEW i \in 1 .. n, i - 1 \in T PROVE i \in T
  <2>1. Good(run[i - 1])
    BY <1>4
  <2>2. run[i] = SendToolUse(run[i - 1], calls[i])
    BY <1>2
  <2>3. Good(run[i])
    BY <2>1, <2>2, ToolUseIsSent
  <2>4. i \in 0 .. n
    BY <1>1
  <2> HIDE DEF Good
  <2> QED  BY <2>3, <2>4
<1>5. n \in T
  <2>1. n \in 0 .. n
    BY <1>1
  <2> HIDE DEF T
  <2> QED  BY <1>1, <1>3, <1>4, <2>1, Upwards
<1> QED  BY <1>2, <1>5

(* Calls are told after the text before them.                               *)
LEMMA ClaudeCallsAreTold ==
  ASSUME NEW s, ClaudeFramed(s), NEW calls, IsList(calls)
  PROVE  /\ ClaudeOpen(ClaudeCalls(s, calls)) /\ ClaudeCalls(s, calls).acc = s.acc
         /\ ClaudeCalls(s, calls).sieve = s.sieve
<1> DEFINE c == CloseTextBlock(s)
           u == SendToolUses(c, calls)
           t == [u EXCEPT !.emitted = TRUE]
<1>1. ClaudeFramed(c) /\ c.acc = s.acc /\ c.sieve = s.sieve
  BY TextIsClosed DEF ClaudeKeeps
<1> HIDE DEF c
<1>2. ClaudeFramed(u) /\ u.acc = s.acc /\ u.sieve = s.sieve
  BY <1>1, ToolUsesAreSent
<1>3. ClaudeCalls(s, calls) = t
  BY DEF ClaudeCalls, c
<1> HIDE DEF u
<1>4. /\ DOMAIN t = DOMAIN u /\ t.acc = u.acc /\ t.sieve = u.sieve /\ t.wire = u.wire
      /\ t.emitted = TRUE /\ t.textEmitted = u.textEmitted /\ t.next = u.next
      /\ t.thinking = u.thinking /\ t.text = u.text
  BY <1>2 DEF ClaudeFramed, ClaudeAt
<1> DEFINE busy == Busy(u)
<1>5. /\ ClaudeAt(u, busy) /\ Quiet(u.wire) /\ IsAcc(u.acc) /\ SieveKeeps(u.sieve, u.acc)
      /\ t.emitted \in BOOLEAN
  BY <1>2, <1>4 DEF ClaudeFramed, ClaudeAt
<1> HIDE DEF t, busy
<1>6. ClaudeAt(t, busy) /\ Busy(t) = Busy(u)
  BY <1>4, <1>5, ClaudeIsSame
<1>7. ClaudeOpen(t)
  BY <1>4, <1>5, <1>6 DEF ClaudeOpen, ClaudeFramed, busy
<1> QED  BY <1>2, <1>3, <1>4, <1>7

(* What a step that leaves calls alone keeps.                               *)
LEMMA ClaudeStaysOpen ==
  ASSUME NEW s, ClaudeOpen(s), NEW t, ClaudeFramed(t), ClaudeKeeps(s, t)
  PROVE  ClaudeOpen(t)
BY DEF ClaudeOpen, ClaudeKeeps

(* What the sieve lets out is told, beside the thinking or after it.        *)
LEMMA ClaudeLetsOut ==
  ASSUME NEW s, ClaudeOpen(s), NEW out, IsList(out.calls), ToSet(out.text) \subseteq TextNumbers(s.acc)
  PROVE  /\ ClaudeOpen(ClaudeLetOut(s, out)) /\ ClaudeLetOut(s, out).acc = s.acc
         /\ ClaudeOpen(ClaudeFlush(s, out)) /\ ClaudeFlush(s, out).acc = s.acc
<1> DEFINE told == IF out.calls = <<>> THEN s ELSE ClaudeCalls(s, out.calls)
           closed == CloseThinkingBlock(told)
           t == SendText(closed, out.text)
           u == SendText(told, out.text)
<1>1. ClaudeOpen(told) /\ told.acc = s.acc
  <2>1. CASE out.calls = <<>>
    BY <2>1
  <2>2. CASE out.calls # <<>>
    BY <2>2, ClaudeCallsAreTold DEF ClaudeOpen
  <2> QED  BY <2>1, <2>2
<1>2. ClaudeLetOut(s, out) = (IF out.text = <<>> THEN told ELSE t)
      /\ ClaudeFlush(s, out) = (IF out.text = <<>> THEN told ELSE u)
  BY DEF ClaudeLetOut, ClaudeFlush
<1> HIDE DEF told
<1>3. ClaudeFramed(told)
  BY <1>1 DEF ClaudeOpen
<1>4. ClaudeOpen(closed) /\ ClaudeFramed(closed) /\ closed.acc = s.acc
  <2>1. ClaudeFramed(closed) /\ ClaudeKeeps(told, closed)
    BY <1>3, ThinkingIsClosed
  <2> HIDE DEF closed
  <2>2. ClaudeOpen(closed)
    BY <1>1, <2>1, ClaudeStaysOpen
  <2> QED  BY <1>1, <2>1, <2>2 DEF ClaudeKeeps
<1> HIDE DEF closed
<1>5. ClaudeOpen(t) /\ t.acc = s.acc
  <2>1. ClaudeFramed(t) /\ ClaudeKeeps(closed, t)
    BY <1>4, TextIsSent
  <2> HIDE DEF t
  <2>2. ClaudeOpen(t)
    BY <1>4, <2>1, ClaudeStaysOpen
  <2> QED  BY <1>4, <2>1, <2>2 DEF ClaudeKeeps
<1>6. ClaudeOpen(u) /\ u.acc = s.acc
  <2>1. ClaudeFramed(u) /\ ClaudeKeeps(told, u)
    BY <1>1, <1>3, TextIsSent
  <2> HIDE DEF u
  <2>2. ClaudeOpen(u)
    BY <1>1, <2>1, ClaudeStaysOpen
  <2> QED  BY <1>1, <2>1, <2>2 DEF ClaudeKeeps
<1> HIDE DEF t, u
<1> QED  BY <1>1, <1>2, <1>5, <1>6

(* A part of a line.                                                        *)
LEMMA ClaudeReceives ==
  ASSUME NEW s, ClaudeOpen(s), NEW part, IsPart(part), NEW tools \in BOOLEAN, NEW thinking \in BOOLEAN
  PROVE  /\ ClaudeOpen(ClaudePart(s, part, tools, thinking))
         /\ ClaudePart(s, part, tools, thinking).acc = Apply(s.acc, part, thinking)
<1> DEFINE acc == Apply(s.acc, part, thinking)
           t == [s EXCEPT !.acc = Apply(@, part, thinking)]
           shown == Shown(part, thinking)
           chunk == ProcessChunk(t.sieve, part)
           u == [t EXCEPT !.sieve = chunk.sieve]
           think == SendThinking(CloseTextBlock(t), shown)
           say == SendText(CloseThinkingBlock(t), shown)
           out == ClaudeLetOut(u, chunk)
           result == ClaudePart(s, part, tools, thinking)
<1>1. /\ IsAcc(acc) /\ TextNumbers(s.acc) \subseteq TextNumbers(acc)
      /\ part.kind \notin Thinking => part.n \in TextNumbers(acc)
  BY PartIsReceived DEF ClaudeOpen, ClaudeFramed, ClaudeAt
<1>2. IsList(shown) /\ ToSet(shown) \subseteq {part.n}
  BY ShownIsList
<1>3. \/ shown = <<>> /\ result = t
      \/ shown # <<>> /\ part.kind \in Thinking /\ result = think
      \/ shown # <<>> /\ part.kind \notin Thinking /\ result = say
      \/ shown # <<>> /\ part.kind \notin Thinking /\ result = out
  BY DEF ClaudePart
<1>4. /\ DOMAIN t = DOMAIN s /\ t.acc = acc /\ t.sieve = s.sieve /\ t.wire = s.wire
      /\ t.emitted = s.emitted /\ t.textEmitted = s.textEmitted /\ t.next = s.next
      /\ t.thinking = s.thinking /\ t.text = s.text
  BY DEF ClaudeOpen, ClaudeFramed, ClaudeAt
<1> HIDE DEF acc, t, shown, result
<1>5. ClaudeOpen(t) /\ ClaudeFramed(t)
  <2> DEFINE busy == Busy(s)
  <2>1. /\ ClaudeAt(s, busy) /\ Quiet(s.wire) /\ s.emitted \in BOOLEAN /\ SieveKeeps(s.sieve, s.acc)
    BY DEF ClaudeOpen, ClaudeFramed, ClaudeAt
  <2>2. SieveKeeps(t.sieve, t.acc)
    BY <1>1, <1>4, <2>1, SieveStays
  <2> HIDE DEF busy
  <2>3. ClaudeAt(t, busy) /\ Busy(t) = Busy(s)
    BY <1>1, <1>4, <2>1, <2>2, ClaudeIsSame
  <2> QED  BY <1>4, <2>1, <2>3 DEF ClaudeOpen, ClaudeFramed, busy
<1>6. ClaudeOpen(think) /\ think.acc = acc
  <2> DEFINE c == CloseTextBlock(t)
  <2>1. ClaudeFramed(c) /\ ClaudeKeeps(t, c)
    BY <1>5, TextIsClosed
  <2> HIDE DEF c
  <2>2. ClaudeFramed(think) /\ ClaudeKeeps(c, think)
    BY <2>1, ThinkingIsSent DEF c
  <2> HIDE DEF think
  <2>3. ClaudeOpen(c) /\ ClaudeOpen(think)
    BY <1>5, <2>1, <2>2, ClaudeStaysOpen
  <2> QED  BY <1>4, <2>1, <2>2, <2>3 DEF ClaudeKeeps
<1>7. part.kind \notin Thinking => ClaudeOpen(say) /\ say.acc = acc
  <2> SUFFICES ASSUME part.kind \notin Thinking PROVE ClaudeOpen(say) /\ say.acc = acc
    OBVIOUS
  <2> DEFINE c == CloseThinkingBlock(t)
  <2>1. ClaudeFramed(c) /\ ClaudeKeeps(t, c)
    BY <1>5, ThinkingIsClosed
  <2> HIDE DEF c
  <2>2. ToSet(shown) \subseteq TextNumbers(c.acc)
    BY <1>1, <1>2, <1>4, <2>1 DEF ClaudeKeeps
  <2>3. ClaudeFramed(say) /\ ClaudeKeeps(c, say)
    BY <2>1, <2>2, TextIsSent DEF c
  <2> HIDE DEF say
  <2>4. ClaudeOpen(c) /\ ClaudeOpen(say)
    BY <1>5, <2>1, <2>3, ClaudeStaysOpen
  <2> QED  BY <1>4, <2>1, <2>3, <2>4 DEF ClaudeKeeps
<1>8. part.kind \notin Thinking => ClaudeOpen(out) /\ out.acc = acc
  <2> SUFFICES ASSUME part.kind \notin Thinking PROVE ClaudeOpen(out) /\ out.acc = acc
    OBVIOUS
  <2>1. SieveKeeps(t.sieve, t.acc) /\ IsAcc(t.acc) /\ part.n \in TextNumbers(t.acc)
    BY <1>1, <1>4, <1>5 DEF ClaudeFramed, ClaudeAt
  <2>2. /\ SieveKeeps(chunk.sieve, t.acc) /\ IsList(chunk.calls)
        /\ ToSet(chunk.text) \subseteq TextNumbers(t.acc)
    BY <2>1, ChunkIsSieved
  <2> HIDE DEF chunk
  <2>3. /\ DOMAIN u = DOMAIN t /\ u.acc = t.acc /\ u.sieve = chunk.sieve /\ u.wire = t.wire
        /\ u.emitted = t.emitted /\ u.textEmitted = t.textEmitted /\ u.next = t.next
        /\ u.thinking = t.thinking /\ u.text = t.text
    BY <1>5 DEF ClaudeFramed, ClaudeAt
  <2> HIDE DEF u
  <2> DEFINE busy == Busy(t)
  <2>4. /\ ClaudeAt(t, busy) /\ Quiet(t.wire) /\ t.emitted \in BOOLEAN
    BY <1>5 DEF ClaudeFramed, ClaudeAt
  <2> HIDE DEF busy
  <2>5. ClaudeAt(u, busy) /\ Busy(u) = Busy(t)
    BY <2>1, <2>2, <2>3, <2>4, ClaudeIsSame
  <2>6. ClaudeOpen(u)
    BY <1>5, <2>3, <2>4, <2>5 DEF ClaudeOpen, ClaudeFramed, busy
  <2>7. ClaudeOpen(out) /\ out.acc = u.acc
    BY <2>2, <2>3, <2>6, ClaudeLetsOut
  <2> HIDE DEF out
  <2> QED  BY <1>4, <2>3, <2>7
<1> HIDE DEF think, say, out
<1>9. ClaudeOpen(result) /\ result.acc = acc
  BY <1>3, <1>4, <1>5, <1>6, <1>7, <1>8
<1> QED  BY <1>9 DEF result, acc

(***************************************************************************)
(* Claude Messages: the end.                                                *)
(***************************************************************************)

(* What is visible of the text was received.                                *)
LEMMA VisibleIsReceived ==
  ASSUME NEW acc, IsAcc(acc)
  PROVE  ToSet(Numbers(VisibleText(acc.text))) \subseteq TextNumbers(acc)
<1> DEFINE text == acc.text
           Unclosed(i) == i = Len(text) \/ text[i + 1].kind # "tail"
           K == {i \in DOMAIN text : \/ text[i].kind \in {"text", "space", "held"}
                                     \/ text[i].kind = "head" /\ Unclosed(i)}
           v == AtPositions(text, K)
           u == Numbers(v)
<1>1. K \in SUBSET (DOMAIN text) /\ IsList(text)
  BY DEF IsAcc
<1>2. VisibleText(text) = v
  BY DEF VisibleText
<1> HIDE DEF K
<1>3. /\ DOMAIN v = 1 .. Cardinality(K)
      /\ \E pos : /\ InOrder(pos, K)
                  /\ \A n \in 1 .. Cardinality(K) : v[n] = text[pos[n]]
  <2> HIDE DEF text
  <2> QED  BY <1>1, Selection
<1> HIDE DEF v
<1>4. \A n \in DOMAIN v : \E i \in DOMAIN text : v[n] = text[i]
  BY <1>1, <1>3 DEF InOrder
<1>5. ToSet(u) \subseteq TextNumbers(acc)
  BY <1>4 DEF Numbers, ToSet, TextNumbers
<1> QED  BY <1>2, <1>5 DEF v

(* An event beside the blocks.                                              *)
LEMMA ClaudeRemarks ==
  ASSUME NEW s, NEW busy, ClaudeAt(s, busy), Quiet(s.wire), NEW e,
         \/ e[1] \in {"message_delta", "error"}
         \/ e[1] = "message_stop" /\ busy = {}
  PROVE  /\ ClaudeAt(Send(s, e), busy)
         /\ e[1] \notin EndNames => Quiet(Send(s, e).wire)
         /\ e[1] \in EndNames => EndsPlain(Send(s, e).wire, e)
<1> DEFINE t == Send(s, e)
           w == Append(s.wire, e)
<1>1. t = [s EXCEPT !.wire = w]
  BY DEF Send
<1>2. /\ DOMAIN t = DOMAIN s /\ t.acc = s.acc /\ t.sieve = s.sieve /\ t.wire = w
      /\ t.emitted = s.emitted /\ t.textEmitted = s.textEmitted /\ t.next = s.next
      /\ t.thinking = s.thinking /\ t.text = s.text
  <2> HIDE DEF t, w
  <2> QED  BY <1>1 DEF ClaudeAt
<1> HIDE DEF t
<1>3. e[1] = "message_stop" => \A j \in Starts(s.wire) : ~ BlockOpen(s.wire, s.wire[j][2], Len(s.wire) + 1)
  BY DEF ClaudeAt, BlocksNow
<1>4. BlockMayBe(s.wire, s.next, s.acc, e) /\ e[1] \in ClaudeEvents
  BY <1>3 DEF BlockMayBe, ClaudeEvents
<1>5. e[1] # "stop" /\ e[1] # "start"
  OBVIOUS
<1>6. /\ t.wire = Append(s.wire, e) /\ t.emitted \in BOOLEAN /\ t.textEmitted \in BOOLEAN
      /\ t.next = IF e[1] = "start" THEN s.next + 1 ELSE s.next
      /\ t.thinking = t.text => t.thinking = Closed
      /\ t.thinking = s.thinking /\ ~ (e[1] = "stop" /\ e[2] = s.thinking)
      /\ t.text = s.text /\ ~ (e[1] = "stop" /\ e[2] = s.text)
      /\ e[1] = "start" => e[2] \in busy
      /\ \A o \in busy : o \in busy \/ (e[1] = "stop" /\ e[2] = o)
  BY <1>2, <1>5 DEF ClaudeAt, BlocksNow
<1>7. ClaudeAt(t, busy) /\ (e[1] \notin EndNames => Quiet(t.wire))
  BY <1>2, <1>4, <1>6, ClaudeWrites
<1>8. IsList(s.wire) /\ "wire" \in DOMAIN s
  BY DEF ClaudeAt
<1>9. e[1] \in EndNames => EndsPlain(Send(s, e).wire, e)
  BY <1>8, EndIsSent
<1> QED  BY <1>7, <1>9 DEF t

(* An attempt that leaves the answer open.                                  *)
ClaudeDeferred(end) ==
  IsDeferred(end) /\ ClaudeOpen(end.s) /\ end.s.emitted = FALSE /\ WasEmpty(end.s.acc)

(* One that ends it.                                                        *)
ClaudeOver(end) ==
  /\ end.over = TRUE /\ end.stored = <<>> /\ \E busy : ClaudeAt(end.s, busy)
  /\ EndsRecorded(end.s.wire, end.history)

(* A failure is told and recorded.                                          *)
LEMMA ClaudeFails ==
  ASSUME NEW s, ClaudeFramed(s), NEW code, code # "error"
  PROVE  ClaudeOver(ClaudeError(s, code))
<1> DEFINE e == <<"error", code>>
           end == ClaudeError(s, code)
           busy == Busy(s)
<1>1. /\ end.s = Send(s, e) /\ end.over = TRUE /\ end.history = <<"error">> /\ end.stored = <<>>
  BY DEF ClaudeError
<1>2. e[1] = "error" /\ e # <<"error", "error">>
  OBVIOUS
<1>3. ClaudeAt(s, busy) /\ Quiet(s.wire)
  BY DEF ClaudeFramed
<1> HIDE DEF e, end, busy
<1>4. ClaudeAt(Send(s, e), busy) /\ EndsPlain(Send(s, e).wire, e)
  BY <1>2, <1>3, ClaudeRemarks DEF EndNames
<1> QED  BY <1>1, <1>2, <1>4 DEF ClaudeOver, EndsRecorded, end

(* A retry that fails ends the answer, unrecorded.                          *)
LEMMA ClaudeRetryFails ==
  ASSUME NEW s, ClaudeFramed(s)
  PROVE  ClaudeOver(ClaudeRetryFailed(s))
<1> DEFINE e == <<"error", "error">>
           end == ClaudeRetryFailed(s)
           busy == Busy(s)
<1>1. /\ end.s = Send(s, e) /\ end.over = TRUE /\ end.history = <<>> /\ end.stored = <<>>
  BY DEF ClaudeRetryFailed
<1>2. e[1] = "error"
  OBVIOUS
<1>3. ClaudeAt(s, busy) /\ Quiet(s.wire)
  BY DEF ClaudeFramed
<1> HIDE DEF e, end, busy
<1>4. ClaudeAt(Send(s, e), busy) /\ EndsPlain(Send(s, e).wire, e)
  BY <1>2, <1>3, ClaudeRemarks DEF EndNames
<1> QED  BY <1>1, <1>4 DEF ClaudeOver, EndsRecorded, end, e

(* What no event has told yet is told before a successful end.              *)
LEMMA ClaudeRests ==
  ASSUME NEW s, ClaudeFramed(s), s.thinking = Closed, s.text = Closed,
         NEW turn, IsList(turn.calls), ToSet(Numbers(turn.text)) \subseteq TextNumbers(s.acc),
         NEW tools
  PROVE  /\ ClaudeFramed(ClaudeRest(s, turn, tools))
         /\ ClaudeRest(s, turn, tools).thinking = Closed
         /\ ClaudeRest(s, turn, tools).text = Closed
<1> DEFINE rest == ClaudeRest(s, turn, tools)
           used == SendToolUses(s, turn.calls)
           said == SendText(s, Numbers(turn.text))
           told == CloseTextBlock(said)
<1>1. rest = s \/ rest = used \/ rest = told
  BY DEF ClaudeRest
<1> HIDE DEF rest
<1>2. ClaudeFramed(used) /\ used.thinking = Closed /\ used.text = Closed
  BY ToolUsesAreSent
<1>3. ClaudeFramed(said) /\ said.thinking = Closed
  <2> DEFINE parts == Numbers(turn.text)
  <2>1. ToSet(parts) \subseteq TextNumbers(s.acc)
    OBVIOUS
  <2> HIDE DEF parts
  <2>2. ClaudeFramed(SendText(s, parts)) /\ SendText(s, parts).thinking = s.thinking
    BY <2>1, TextIsSent
  <2> QED  BY <2>2 DEF parts
<1> HIDE DEF said
<1>4. ClaudeFramed(told) /\ told.thinking = Closed /\ told.text = Closed
  BY <1>3, TextIsClosed
<1> HIDE DEF used, told
<1> QED  BY <1>1, <1>2, <1>4 DEF rest

(* A success is told, with all blocks closed, and recorded.                 *)
LEMMA ClaudeIsDone ==
  ASSUME NEW s, ClaudeFramed(s), s.text = Closed,
         NEW turn, IsList(turn.calls), ToSet(Numbers(turn.text)) \subseteq TextNumbers(s.acc),
         NEW tools
  PROVE  ClaudeOver(ClaudeSucceeds(s, turn, tools))
<1> DEFINE c == CloseThinkingBlock(s)
           rest == ClaudeRest(c, turn, tools)
           reason == IF turn.calls # <<>> \/ c.emitted THEN "tool_use" ELSE "end_turn"
           end == ClaudeSucceeds(s, turn, tools)
<1>1. ClaudeFramed(c) /\ c.thinking = Closed /\ c.text = Closed /\ c.acc = s.acc /\ c.emitted = s.emitted
  BY ThinkingIsClosed DEF ClaudeKeeps
<1>2. PICK code : /\ end.s = Send(Send(rest, <<"message_delta", code>>), <<"message_stop">>)
                  /\ end.over = TRUE /\ end.history = <<"success">> /\ end.stored = <<>>
  BY DEF ClaudeSucceeds
<1> HIDE DEF c
<1>3. ClaudeFramed(rest) /\ rest.thinking = Closed /\ rest.text = Closed
  BY <1>1, ClaudeRests
<1> DEFINE e1 == <<"message_delta", code>>
           e2 == <<"message_stop">>
           u == Send(rest, e1)
           busy == Busy(rest)
<1>4. e1[1] = "message_delta" /\ e2[1] = "message_stop"
  OBVIOUS
<1>5. end.s = Send(u, e2)
  BY <1>2
<1> HIDE DEF rest, e1, e2, end
<1>6. busy = {}
  BY <1>3 DEF Busy
<1>7. ClaudeAt(rest, busy) /\ Quiet(rest.wire)
  BY <1>3 DEF ClaudeFramed
<1> HIDE DEF busy
<1>8. ClaudeAt(u, busy) /\ Quiet(u.wire)
  BY <1>4, <1>7, ClaudeRemarks DEF EndNames
<1> HIDE DEF u
<1>9. ClaudeAt(Send(u, e2), busy) /\ EndsPlain(Send(u, e2).wire, e2)
  BY <1>4, <1>6, <1>8, ClaudeRemarks DEF EndNames
<1> QED  BY <1>2, <1>4, <1>5, <1>9 DEF ClaudeOver, EndsRecorded, end

(* The end of an attempt that was not cut off.                              *)
LEMMA ClaudeFinalizes ==
  ASSUME NEW s, ClaudeOpen(s), NEW r, NEW defer
  PROVE  \/ ClaudeOver(ClaudeFinalize(s, r, defer))
         \/ /\ ClaudeDeferred(ClaudeFinalize(s, r, defer))
            /\ ClaudeFinalize(s, r, defer).s.acc = s.acc
<1> DEFINE out == FlushSieve(s.sieve)
           f == ClaudeFlush(s, out)
           g == [f EXCEPT !.sieve = EmptySieve]
           flushed == IF r.tools THEN g ELSE s
           closed == CloseTextBlock(flushed)
           turn == BuildTurn(closed.acc, FALSE, FALSE, closed.emitted)
           outcome == FinalizeTurn(turn, closed.emitted)
           last == CloseThinkingBlock(closed)
           end == ClaudeFinalize(s, r, defer)
<1>1. end = IF outcome.error = "none" THEN ClaudeSucceeds(closed, turn, r.tools)
            ELSE IF defer THEN Deferred(closed) ELSE ClaudeError(last, outcome.error)
  BY DEF ClaudeFinalize
<1>2. ClaudeOpen(f) /\ f.acc = s.acc
  <2>1. IsList(out.calls) /\ ToSet(out.text) \subseteq TextNumbers(s.acc)
    BY SieveIsFlushed DEF ClaudeOpen, ClaudeFramed, ClaudeAt
  <2> HIDE DEF out
  <2> QED  BY <2>1, ClaudeLetsOut
<1> HIDE DEF f
<1>3. ClaudeOpen(g) /\ g.acc = s.acc
  <2>1. /\ DOMAIN g = DOMAIN f /\ g.acc = f.acc /\ g.sieve = EmptySieve /\ g.wire = f.wire
        /\ g.emitted = f.emitted /\ g.textEmitted = f.textEmitted /\ g.next = f.next
        /\ g.thinking = f.thinking /\ g.text = f.text
    BY <1>2 DEF ClaudeOpen, ClaudeFramed, ClaudeAt
  <2> HIDE DEF g
  <2> DEFINE busy == Busy(f)
  <2>2. ClaudeAt(f, busy) /\ Quiet(f.wire) /\ IsAcc(f.acc) /\ f.emitted \in BOOLEAN
    BY <1>2 DEF ClaudeOpen, ClaudeFramed, ClaudeAt
  <2>3. SieveKeeps(g.sieve, g.acc)
    BY <2>1, EmptySieveKeeps
  <2> HIDE DEF busy
  <2>4. ClaudeAt(g, busy) /\ Busy(g) = Busy(f)
    BY <2>1, <2>2, <2>3, ClaudeIsSame
  <2> QED  BY <1>2, <2>1, <2>2, <2>4 DEF ClaudeOpen, ClaudeFramed, busy
<1> HIDE DEF g
<1>4. ClaudeOpen(flushed) /\ ClaudeFramed(flushed) /\ flushed.acc = s.acc
  BY <1>3 DEF ClaudeOpen
<1> HIDE DEF flushed
<1>5. ClaudeOpen(closed) /\ ClaudeFramed(closed) /\ closed.text = Closed /\ closed.acc = s.acc
  <2>1. ClaudeFramed(closed) /\ ClaudeKeeps(flushed, closed) /\ closed.text = Closed
    BY <1>4, TextIsClosed
  <2> HIDE DEF closed
  <2>2. ClaudeOpen(closed)
    BY <1>4, <2>1, ClaudeStaysOpen
  <2> QED  BY <1>4, <2>1, <2>2 DEF ClaudeKeeps
<1> HIDE DEF closed
<1>6. IsAcc(closed.acc) /\ closed.emitted \in BOOLEAN
  BY <1>5 DEF ClaudeFramed, ClaudeAt
<1>7. IsList(turn.calls) /\ turn.text = VisibleText(closed.acc.text)
  BY <1>6, CallsAreList DEF BuildTurn
<1>8. outcome.error # "none" => closed.emitted = FALSE /\ WasEmpty(closed.acc)
  <2>1. outcome.error # "none" =>
          /\ ~ closed.emitted /\ ParsedCalls(closed.acc.text) = <<>>
          /\ (FALSE \/ BlankText(closed.acc.text))
    BY <1>6, FailureMeans, ZenonT(60)
  <2> HIDE DEF turn, outcome
  <2> QED  BY <1>6, <2>1 DEF WasEmpty
<1>9. outcome.error # "error"
  BY FailureIsNamed
<1> HIDE DEF turn, outcome, end
<1>10. CASE outcome.error = "none"
  <2>1. end = ClaudeSucceeds(closed, turn, r.tools)
    BY <1>1, <1>10
  <2>2. ToSet(Numbers(turn.text)) \subseteq TextNumbers(closed.acc)
    BY <1>6, <1>7, VisibleIsReceived
  <2>3. ClaudeOver(end)
    BY <1>5, <1>7, <2>1, <2>2, ClaudeIsDone
  <2> QED  BY <2>3 DEF end
<1>11. CASE outcome.error # "none" /\ ~ defer
  <2>1. end = ClaudeError(last, outcome.error)
    BY <1>1, <1>11
  <2>2. ClaudeFramed(last)
    BY <1>5, ThinkingIsClosed
  <2> HIDE DEF last
  <2>3. ClaudeOver(end)
    BY <1>9, <2>1, <2>2, ClaudeFails
  <2> QED  BY <2>3 DEF end
<1>12. CASE outcome.error # "none" /\ defer
  <2>1. end = Deferred(closed)
    BY <1>1, <1>12
  <2>2. end.s = closed /\ IsDeferred(end)
    BY <2>1 DEF Deferred, IsDeferred
  <2>3. ClaudeDeferred(end)
    BY <1>5, <1>8, <1>12, <2>2 DEF ClaudeDeferred
  <2> QED  BY <1>5, <2>2, <2>3 DEF end
<1> QED  BY <1>10, <1>11, <1>12

(* An attempt ends the answer, or leaves it open because it may.            *)
LEMMA ClaudeAttempts ==
  ASSUME NEW s, ClaudeOpen(s), NEW r, NEW how, NEW defer
  PROVE  \/ ClaudeOver(ClaudeAttemptEnds(s, r, how, defer))
         \/ /\ ClaudeDeferred(ClaudeAttemptEnds(s, r, how, defer))
            /\ ClaudeAttemptEnds(s, r, how, defer).s.acc = s.acc
<1>1. CASE how \in {"failed", "broken"}
  <2>1. ClaudeAttemptEnds(s, r, how, defer) = ClaudeError(s, how)
    BY <1>1 DEF ClaudeAttemptEnds
  <2>2. how # "error" /\ ClaudeFramed(s)
    BY <1>1 DEF ClaudeOpen
  <2> QED  BY <2>1, <2>2, ClaudeFails
<1>2. CASE how \notin {"failed", "broken"}
  <2>1. ClaudeAttemptEnds(s, r, how, defer) = ClaudeFinalize(s, r, defer)
    BY <1>2 DEF ClaudeAttemptEnds
  <2> QED  BY <2>1, ClaudeFinalizes
<1> QED  BY <1>1, <1>2

(***************************************************************************)
(* All surfaces.                                                            *)
(***************************************************************************)

(* A stream whose last event is not written.                                *)
OpenAs(surface, s) ==
  /\ surface = "chat" => ChatOpen(s)
  /\ surface = "responses" => ResponsesOpen(s)
  /\ surface = "claude" => ClaudeOpen(s)
  /\ surface = "gemini" => GeminiOpen(s)

(* One in the middle of a line, with its batch on the OpenAI surfaces.      *)
MidAs(surface, x) ==
  /\ surface = "chat" => ChatBatch(x)
  /\ surface = "responses" => ResponsesBatch(x)
  /\ surface = "claude" => ClaudeOpen(x)
  /\ surface = "gemini" => GeminiOpen(x)
MidAcc(surface, x) == IF surface \in OpenAI THEN x.s.acc ELSE x.acc

(* What is asked.                                                           *)
IsRequest(r) ==
  /\ r.surface \in {"chat", "responses", "claude", "gemini"}
  /\ r.tools \in BOOLEAN /\ r.required \in BOOLEAN /\ r.thinking \in BOOLEAN
  /\ r.managed \in BOOLEAN
  /\ r.required = TRUE => r.surface \in OpenAI

LEMMA RequestsAre ==
  ASSUME req \in Requests
  PROVE  IsRequest(req)
<1>1. req \in [surface : SurfaceNames, tools : BOOLEAN, required : BOOLEAN,
               thinking : BOOLEAN, managed : BOOLEAN]
      /\ (req.required => req.tools /\ req.surface \in {"chat", "responses"})
  BY DEF Requests
<1>2. /\ req.surface \in SurfaceNames /\ req.tools \in BOOLEAN /\ req.required \in BOOLEAN
      /\ req.thinking \in BOOLEAN /\ req.managed \in BOOLEAN
  BY <1>1
<1>3. req.surface \in {"chat", "responses", "claude", "gemini"}
  BY <1>2, SurfacesAssumption
<1>4. req.required = TRUE => req.surface \in OpenAI
  BY <1>1 DEF OpenAI
<1> QED  BY <1>2, <1>3, <1>4 DEF IsRequest

(* Every stream keeps what was received as lists of parts.                  *)
LEMMA OpenReceives ==
  ASSUME NEW surface \in {"chat", "responses", "claude", "gemini"}, NEW s, OpenAs(surface, s)
  PROVE  IsAcc(s.acc)
<1>1. CASE surface = "chat"
  BY <1>1 DEF OpenAs, ChatOpen, ChatInv
<1>2. CASE surface = "responses"
  BY <1>2 DEF OpenAs, ResponsesOpen, ResponsesAt
<1>3. CASE surface = "claude"
  BY <1>3 DEF OpenAs, ClaudeOpen, ClaudeFramed, ClaudeAt
<1>4. CASE surface = "gemini"
  BY <1>4 DEF OpenAs, GeminiOpen, GeminiInv
<1> QED  BY <1>1, <1>2, <1>3, <1>4

LEMMA MidReceives ==
  ASSUME NEW surface \in {"chat", "responses", "claude", "gemini"}, NEW x, MidAs(surface, x)
  PROVE  IsAcc(MidAcc(surface, x))
<1>1. CASE surface = "chat"
  BY <1>1 DEF MidAs, MidAcc, OpenAI, ChatBatch, ChatOpen, ChatInv
<1>2. CASE surface = "responses"
  BY <1>2 DEF MidAs, MidAcc, OpenAI, ResponsesBatch, ResponsesOpen, ResponsesAt
<1>3. CASE surface = "claude"
  BY <1>3 DEF MidAs, MidAcc, OpenAI, ClaudeOpen, ClaudeFramed, ClaudeAt
<1>4. CASE surface = "gemini"
  BY <1>4 DEF MidAs, MidAcc, OpenAI, GeminiOpen, GeminiInv
<1> QED  BY <1>1, <1>2, <1>3, <1>4

(* The text that was received grows by a part at most.                      *)
LEMMA TextGrows ==
  ASSUME NEW acc, IsAcc(acc), NEW part, NEW thinking
  PROVE  /\ Len(acc.text) \in Nat
         /\ Len(Apply(acc, part, thinking).text) \in {Len(acc.text), Len(acc.text) + 1}
<1>1. Len(acc.text) \in Nat
  BY ListShape DEF IsAcc
<1>2. CASE part.kind \in Thinking
  <2> DEFINE d == Append(acc.detection, part)
             v == acc.thinking \o Shown(part, thinking)
             a == Apply(acc, part, thinking)
  <2>1. a = [acc EXCEPT !.detection = d, !.thinking = v]
    BY <1>2 DEF Apply
  <2> HIDE DEF a, d, v
  <2>2. a.text = acc.text
    BY <2>1 DEF IsAcc
  <2> QED  BY <1>1, <2>2 DEF a
<1>3. CASE part.kind \notin Thinking
  <2> DEFINE t == Append(acc.text, part)
             a == Apply(acc, part, thinking)
  <2>1. Len(t) = Len(acc.text) + 1
    BY ListAppend DEF IsAcc
  <2>2. a = [acc EXCEPT !.text = t]
    BY <1>3 DEF Apply
  <2> HIDE DEF a, t
  <2>3. a.text = t
    BY <2>2 DEF IsAcc
  <2> QED  BY <1>1, <2>1, <2>3 DEF a
<1> QED  BY <1>2, <1>3

(* A part of a line is received.                                            *)
LEMMA PartIsTaken ==
  ASSUME IsRequest(req), NEW x, MidAs(req.surface, x), NEW part, IsPart(part)
  PROVE  /\ MidAs(req.surface, OnPart(x, part))
         /\ MidAcc(req.surface, OnPart(x, part)) = Apply(MidAcc(req.surface, x), part, req.thinking)
<1>1. /\ req.surface \in {"chat", "responses", "claude", "gemini"}
      /\ req.tools \in BOOLEAN /\ req.thinking \in BOOLEAN
  BY DEF IsRequest
<1>2. CASE req.surface = "chat"
  <2>1. OnPart(x, part) = ChatPart(x, part, req.tools, req.thinking)
    BY <1>2 DEF OnPart
  <2>2. ChatBatch(x)
    BY <1>2 DEF MidAs
  <2>3. /\ ChatBatch(OnPart(x, part))
        /\ OnPart(x, part).s.acc = Apply(x.s.acc, part, req.thinking)
    BY <1>1, <2>1, <2>2, ChatReceives
  <2> QED  BY <1>2, <2>3 DEF MidAs, MidAcc, OpenAI
<1>3. CASE req.surface = "responses"
  <2>1. OnPart(x, part) = ResponsesPart(x, part, req.tools, req.thinking)
    BY <1>3 DEF OnPart
  <2>2. ResponsesBatch(x)
    BY <1>3 DEF MidAs
  <2>3. /\ ResponsesBatch(OnPart(x, part))
        /\ OnPart(x, part).s.acc = Apply(x.s.acc, part, req.thinking)
    BY <1>1, <2>1, <2>2, ResponsesReceives
  <2> QED  BY <1>3, <2>3 DEF MidAs, MidAcc, OpenAI
<1>4. CASE req.surface = "claude"
  <2>1. OnPart(x, part) = ClaudePart(x, part, req.tools, req.thinking)
    BY <1>4 DEF OnPart
  <2>2. ClaudeOpen(x)
    BY <1>4 DEF MidAs
  <2>3. /\ ClaudeOpen(OnPart(x, part))
        /\ OnPart(x, part).acc = Apply(x.acc, part, req.thinking)
    BY <1>1, <2>1, <2>2, ClaudeReceives
  <2> QED  BY <1>4, <2>3 DEF MidAs, MidAcc, OpenAI
<1>5. CASE req.surface = "gemini"
  <2>1. OnPart(x, part) = GeminiPart(x, part, req.tools, req.thinking)
    BY <1>5 DEF OnPart
  <2>2. GeminiOpen(x)
    BY <1>5 DEF MidAs
  <2>3. /\ GeminiOpen(OnPart(x, part))
        /\ OnPart(x, part).acc = Apply(x.acc, part, req.thinking)
    BY <1>1, <2>1, <2>2, GeminiReceives
  <2> QED  BY <1>5, <2>3 DEF MidAs, MidAcc, OpenAI
<1> QED  BY <1>1, <1>2, <1>3, <1>4, <1>5

(* A line begins with the stream, and leaves it open.                       *)
LEMMA LineIsBegun ==
  ASSUME IsRequest(req), OpenAs(req.surface, stream)
  PROVE  /\ MidAs(req.surface, LineBegins) /\ MidAcc(req.surface, LineBegins) = stream.acc
         /\ \A x : MidAs(req.surface, x) =>
               /\ OpenAs(req.surface, LineEnds(x))
               /\ LineEnds(x).acc = MidAcc(req.surface, x)
<1>1. req.surface \in {"chat", "responses", "claude", "gemini"}
  BY DEF IsRequest
<1>2. CASE req.surface = "chat"
  <2>1. LineBegins = Batch(stream) /\ \A x : LineEnds(x) = Flush(x).s
    BY <1>2 DEF LineBegins, LineEnds
  <2>2. ChatBatch(Batch(stream)) /\ Batch(stream).s = stream
    BY <1>2, ChatBatchBegins DEF OpenAs
  <2>3. ASSUME NEW x, ChatBatch(x) PROVE ChatOpen(Flush(x).s) /\ Flush(x).s.acc = x.s.acc
    BY <2>3, ChatFlushes DEF ChatBatch
  <2> QED  BY <1>2, <2>1, <2>2, <2>3 DEF MidAs, MidAcc, OpenAs, OpenAI
<1>3. CASE req.surface = "responses"
  <2>1. LineBegins = Pending(stream) /\ \A x : LineEnds(x) = FlushPending(x).s
    BY <1>3 DEF LineBegins, LineEnds
  <2>2. ResponsesBatch(Pending(stream)) /\ Pending(stream).s = stream
    BY <1>3, ResponsesBatchBegins DEF OpenAs
  <2>3. ASSUME NEW x, ResponsesBatch(x)
        PROVE  ResponsesOpen(FlushPending(x).s) /\ FlushPending(x).s.acc = x.s.acc
    BY <2>3, ResponsesFlushes DEF ResponsesBatch
  <2> QED  BY <1>3, <2>1, <2>2, <2>3 DEF MidAs, MidAcc, OpenAs, OpenAI
<1>4. CASE req.surface \in {"claude", "gemini"}
  <2>1. LineBegins = stream /\ \A x : LineEnds(x) = x
    BY <1>4 DEF LineBegins, LineEnds
  <2> QED  BY <1>4, <2>1 DEF MidAs, MidAcc, OpenAs, OpenAI
<1> QED  BY <1>1, <1>2, <1>3, <1>4

(* A line leaves the stream open, with its parts received.                  *)
LEMMA LineIsTaken ==
  ASSUME IsRequest(req), OpenAs(req.surface, stream), NEW parts, IsList(parts),
         \A i \in 1 .. Len(parts) : IsPart(parts[i])
  PROVE  /\ OpenAs(req.surface, OnParsed(parts))
         /\ Len(stream.acc.text) \in Nat /\ Len(OnParsed(parts).acc.text) \in Nat
         /\ Len(OnParsed(parts).acc.text) <= Len(stream.acc.text) + Len(parts)
<1> DEFINE n == Len(parts)
           m == Len(stream.acc.text)
           size(x) == Len(MidAcc(req.surface, x).text)
<1>1. req.surface \in {"chat", "responses", "claude", "gemini"}
  BY DEF IsRequest
<1>2. n \in Nat
  BY ListShape
<1>3. m \in Nat
  BY <1>1, OpenReceives, ListShape DEF IsAcc
<1>4. PICK run : /\ run[0] = LineBegins
                 /\ \A i \in 1 .. n : run[i] = OnPart(run[i - 1], parts[i])
                 /\ OnParsed(parts) = LineEnds(run[n])
  BY FoldRuns
<1> DEFINE T == {i \in 0 .. n : MidAs(req.surface, run[i]) /\ size(run[i]) <= m + i}
<1>5. 0 \in T
  <2>1. MidAs(req.surface, run[0]) /\ MidAcc(req.surface, run[0]) = stream.acc
    BY <1>4, LineIsBegun
  <2> QED  BY <1>2, <1>3, <2>1
<1>6. ASSUME NEW i \in 1 .. n, i - 1 \in T PROVE i \in T
  <2> DEFINE x == run[i - 1]
  <2>1. MidAs(req.surface, x) /\ size(x) <= m + (i - 1)
    BY <1>6
  <2>2. run[i] = OnPart(x, parts[i]) /\ IsPart(parts[i])
    BY <1>4
  <2> HIDE DEF x, m, n
  <2>3. /\ MidAs(req.surface, run[i])
        /\ MidAcc(req.surface, run[i]) = Apply(MidAcc(req.surface, x), parts[i], req.thinking)
    BY <2>1, <2>2, PartIsTaken
  <2>4. size(x) \in Nat /\ size(run[i]) \in {size(x), size(x) + 1}
    BY <1>1, <2>1, <2>3, MidReceives, TextGrows
  <2> HIDE DEF size
  <2>5. size(run[i]) <= m + i
    BY <1>2, <1>3, <2>1, <2>4
  <2>6. i \in 0 .. n
    BY <1>2
  <2> QED  BY <2>3, <2>5, <2>6
<1>7. n \in T
  <2>1. \A i \in 0 .. n : i \in T
    <3> HIDE DEF T, n
    <3> QED  BY <1>2, <1>5, <1>6, Upwards
  <2>2. n \in 0 .. n
    BY <1>2
  <2> HIDE DEF T, n
  <2> QED  BY <2>1, <2>2
<1>8. /\ OpenAs(req.surface, OnParsed(parts))
      /\ OnParsed(parts).acc = MidAcc(req.surface, run[n])
  BY <1>4, <1>7, LineIsBegun
<1>9. Len(OnParsed(parts).acc.text) \in Nat
  <2> DEFINE o == OnParsed(parts)
  <2>1. OpenAs(req.surface, o)
    BY <1>8
  <2> HIDE DEF o
  <2>2. Len(o.acc.text) \in Nat
    BY <1>1, <2>1, OpenReceives, ListShape DEF IsAcc
  <2> QED  BY <2>2 DEF o
<1> QED  BY <1>3, <1>7, <1>8, <1>9

(* An answer that has ended.                                                *)
OverAs(surface, end) ==
  /\ surface = "chat" => ChatOver(end)
  /\ surface = "responses" => ResponsesOver(end)
  /\ surface = "claude" => ClaudeOver(end)
  /\ surface = "gemini" => GeminiOver(end)

(* One that was left by the caller of an OpenAI surface.                    *)
LeftAs(surface, end) ==
  /\ end.over = TRUE /\ end.stored = <<>> /\ OpenAs(surface, end.s) /\ surface \in OpenAI
  /\ end.history = IF surface = "chat" THEN <<"stopped">> ELSE <<>>

(* One that another attempt may go on with.                                 *)
UnseenAs(surface, s, required, how) ==
  /\ surface = "chat" =>
        s.emitted = FALSE /\ MayFollow(s.acc, required) /\ (how = "filtered" => ~ BlankText(s.acc.text))
  /\ surface = "responses" =>
        s.emitted = FALSE /\ MayFollow(s.acc, required) /\ how # "filtered"
  /\ surface = "claude" => s.emitted = FALSE /\ WasEmpty(s.acc)
  /\ surface = "gemini" => WasEmpty(s.acc)

(* The record of the attempts.                                              *)
IsCall(c) ==
  /\ DOMAIN c = {"pc", "attempts", "switched", "from", "cancelled", "end", "parts"}
  /\ c.attempts \in 0 .. RetryMax /\ c.switched \in BOOLEAN /\ c.cancelled \in BOOLEAN
  /\ c.parts \in 0 .. MaxParts /\ c.from \in 0 .. c.parts

(* How the answer has ended, as an end of an attempt.                       *)
EndNow == [s |-> stream, over |-> TRUE, history |-> history, stored |-> stored]

(* The inductive invariant: until the answer is over the stream is open,    *)
(* and nothing is recorded or stored; between attempts the caller has seen  *)
(* nothing that must not be told again.                                     *)
SurfaceInv ==
  /\ req \in Requests /\ IsCall(call) /\ call.pc \in {"consuming", "deferred", "returned"}
  /\ call.pc # "returned" =>
        /\ OpenAs(req.surface, stream) /\ Len(stream.acc.text) <= call.parts
        /\ history = <<>> /\ stored = <<>>
  /\ call.pc = "deferred" => UnseenAs(req.surface, stream, req.required, call.end)
  /\ call.pc = "returned" =>
        OverAs(req.surface, EndNow) \/ (LeftAs(req.surface, EndNow) /\ call.cancelled = TRUE)

(* Before anything was recorded or stored, what an end brings is all.       *)
LEMMA NothingBefore ==
  ASSUME NEW l, IsList(l)
  PROVE  <<>> \o l = l
<1> DEFINE empty == <<>>
           t == empty \o l
<1>1. IsList(empty) /\ Len(empty) = 0
  BY ShortLists
<1> HIDE DEF empty
<1>2. /\ IsList(empty \o l) /\ Len(empty \o l) = Len(empty) + Len(l)
      /\ \A i \in 1 .. Len(l) : (empty \o l)[Len(empty) + i] = l[i]
  BY <1>1, ListConcat
<1> HIDE DEF t
<1>3. Len(l) \in Nat
  BY ListShape
<1>4. IsList(t) /\ Len(t) = Len(l) /\ \A i \in 1 .. Len(t) : t[i] = l[i]
  <2>1. Len(t) = Len(l)
    BY <1>1, <1>2, <1>3 DEF t
  <2>2. ASSUME NEW i \in 1 .. Len(l) PROVE t[i] = l[i]
    <3>1. 0 + i = i
      BY <1>3
    <3> QED  BY <1>1, <1>2, <3>1 DEF t
  <2> QED  BY <1>2, <2>1, <2>2 DEF t
<1>5. t = l
  BY <1>4, SameList
<1> QED  BY <1>5 DEF t, empty

(* What an end records and stores are lists of one item at most.            *)
LEMMA EndsAreLists ==
  ASSUME NEW surface \in {"chat", "responses", "claude", "gemini"}, NEW end,
         OverAs(surface, end) \/ LeftAs(surface, end)
  PROVE  /\ end.over = TRUE
         /\ end.history \in {<<>>, <<"success">>, <<"error">>, <<"stopped">>}
         /\ IsList(end.history) /\ IsList(end.stored)
<1>1. CASE LeftAs(surface, end)
  BY <1>1, ShortLists DEF LeftAs
<1>2. CASE OverAs(surface, end) /\ surface = "chat"
  BY <1>2, ShortLists DEF OverAs, ChatOver
<1>3. CASE OverAs(surface, end) /\ surface = "responses"
  BY <1>3, ShortLists DEF OverAs, ResponsesOver
<1>4. CASE OverAs(surface, end) /\ surface = "claude"
  BY <1>4, ShortLists DEF OverAs, ClaudeOver, EndsRecorded
<1>5. CASE OverAs(surface, end) /\ surface = "gemini"
  BY <1>5, ShortLists DEF OverAs, GeminiOver, EndsRecorded
<1> QED  BY <1>1, <1>2, <1>3, <1>4, <1>5

(* Ends that agree in what they say.                                        *)
LEMMA EndsAgree ==
  ASSUME NEW surface, NEW end, NEW other, other.s = end.s, other.over = end.over,
         other.history = end.history, other.stored = end.stored
  PROVE  /\ OverAs(surface, end) => OverAs(surface, other)
         /\ LeftAs(surface, end) => LeftAs(surface, other)
<1>1. ChatOver(end) => ChatOver(other)
  BY DEF ChatOver
<1>2. ResponsesOver(end) => ResponsesOver(other)
  BY DEF ResponsesOver
<1>3. ClaudeOver(end) => ClaudeOver(other)
  BY DEF ClaudeOver
<1>4. GeminiOver(end) => GeminiOver(other)
  BY DEF GeminiOver
<1> QED  BY <1>1, <1>2, <1>3, <1>4 DEF OverAs, LeftAs

(* What may come of an attempt.                                             *)
EndMayBe(surface, end, required, text, c) ==
  \/ OverAs(surface, end)
  \/ LeftAs(surface, end) /\ c.cancelled = TRUE
  \/ /\ IsDeferred(end) /\ OpenAs(surface, end.s) /\ end.s.acc.text = text
     /\ UnseenAs(surface, end.s, required, c.end)

(* An end that may be keeps the invariant.                                  *)
LEMMA Concludes ==
  ASSUME SurfaceInv, call.pc # "returned", NEW end, NEW c, IsCall(c), c.parts = call.parts,
         EndMayBe(req.surface, end, req.required, stream.acc.text, c), Conclude(end, c)
  PROVE  SurfaceInv'
<1>1. /\ req \in Requests /\ history = <<>> /\ stored = <<>>
      /\ Len(stream.acc.text) <= call.parts
  BY DEF SurfaceInv
<1>2. req.surface \in {"chat", "responses", "claude", "gemini"}
  BY <1>1, RequestsAre DEF IsRequest
<1>3. /\ stream' = end.s /\ history' = <<>> \o end.history /\ stored' = <<>> \o end.stored
      /\ call' = [c EXCEPT !.pc = IF end.over THEN "returned" ELSE "deferred"] /\ req' = req
  BY <1>1 DEF Conclude
<1>4. IsCall(call') /\ call'.cancelled = c.cancelled /\ call'.end = c.end /\ call'.parts = c.parts
      /\ call'.pc = IF end.over THEN "returned" ELSE "deferred"
  BY <1>3 DEF IsCall
<1>5. CASE OverAs(req.surface, end) \/ (LeftAs(req.surface, end) /\ c.cancelled = TRUE)
  <2>1. end.over = TRUE /\ IsList(end.history) /\ IsList(end.stored)
    BY <1>2, <1>5, EndsAreLists
  <2>2. history' = end.history /\ stored' = end.stored
    BY <1>3, <2>1, NothingBefore
  <2> DEFINE now == [s |-> stream', over |-> TRUE, history |-> history', stored |-> stored']
  <2>3. /\ now.s = end.s /\ now.over = end.over
        /\ now.history = end.history /\ now.stored = end.stored
    BY <1>3, <2>1, <2>2
  <2> HIDE DEF now
  <2>4. \/ OverAs(req.surface, now)
        \/ LeftAs(req.surface, now) /\ c.cancelled = TRUE
    BY <1>5, <2>3, EndsAgree
  <2>5. call'.pc = "returned"
    BY <1>4, <2>1
  <2>6. EndNow' = now
    BY DEF EndNow, now
  <2> QED  BY <1>1, <1>3, <1>4, <2>4, <2>5, <2>6 DEF SurfaceInv
<1>6. CASE /\ IsDeferred(end) /\ OpenAs(req.surface, end.s) /\ end.s.acc.text = stream.acc.text
           /\ UnseenAs(req.surface, end.s, req.required, c.end)
  <2>1. end.over = FALSE /\ IsList(end.history) /\ IsList(end.stored)
        /\ end.history = <<>> /\ end.stored = <<>>
    BY <1>6, ShortLists DEF IsDeferred
  <2>2. history' = <<>> /\ stored' = <<>>
    BY <1>3, <2>1, NothingBefore
  <2>3. call'.pc = "deferred"
    BY <1>4, <2>1
  <2> QED  BY <1>1, <1>3, <1>4, <1>6, <2>2, <2>3 DEF SurfaceInv
<1> QED  BY <1>5, <1>6 DEF EndMayBe

(* What the end of an attempt brings.                                       *)
LEMMA AttemptBrings ==
  ASSUME IsRequest(req), OpenAs(req.surface, stream),
         NEW how \in {"closed", "broken", "filtered", "failed"}, NEW defer \in BOOLEAN, NEW c,
         c.end = how \/ (defer = FALSE /\ (req.surface = "responses" => c.end # "filtered"))
  PROVE  EndMayBe(req.surface, EndOf(how, defer), req.required, stream.acc.text, c)
<1> DEFINE end == EndOf(how, defer)
<1>1. /\ req.surface \in {"chat", "responses", "claude", "gemini"}
      /\ req.tools \in BOOLEAN /\ req.required \in BOOLEAN
  BY DEF IsRequest
<1>2. CASE req.surface = "chat"
  <2>1. end = ChatAttemptEnds(stream, req, how, defer)
    BY <1>2 DEF EndOf
  <2>2. ChatOpen(stream)
    BY <1>2 DEF OpenAs
  <2> HIDE DEF end
  <2>3. \/ ChatOver(end)
        \/ /\ defer /\ ChatDeferred(end, req.required) /\ end.s.acc = stream.acc
           /\ how = "filtered" => ~ BlankText(end.s.acc.text)
    BY <1>1, <2>1, <2>2, ChatAttempts
  <2>4. CASE ChatOver(end)
    BY <1>2, <2>4 DEF EndMayBe, OverAs, end
  <2>5. CASE /\ defer /\ ChatDeferred(end, req.required) /\ end.s.acc = stream.acc
             /\ how = "filtered" => ~ BlankText(end.s.acc.text)
    <3>1. /\ IsDeferred(end) /\ ChatOpen(end.s) /\ end.s.emitted = FALSE
          /\ MayFollow(end.s.acc, req.required)
      BY <2>5 DEF ChatDeferred
    <3>2. c.end = how
      BY <2>5
    <3>3. OpenAs(req.surface, end.s) /\ UnseenAs(req.surface, end.s, req.required, c.end)
      BY <1>2, <2>5, <3>1, <3>2 DEF OpenAs, UnseenAs
    <3> QED  BY <2>5, <3>1, <3>3 DEF EndMayBe, end
  <2> QED  BY <2>3, <2>4, <2>5
<1>3. CASE req.surface = "responses"
  <2>1. end = ResponsesAttemptEnds(stream, req, how, defer)
    BY <1>3 DEF EndOf
  <2>2. ResponsesOpen(stream)
    BY <1>3 DEF OpenAs
  <2> HIDE DEF end
  <2>3. \/ ResponsesOver(end)
        \/ /\ ResponsesDeferred(end, req.required) /\ end.s.acc = stream.acc
           /\ how # "filtered"
    BY <1>1, <2>1, <2>2, ResponsesAttempts
  <2>4. CASE ResponsesOver(end)
    BY <1>3, <2>4 DEF EndMayBe, OverAs, end
  <2>5. CASE /\ ResponsesDeferred(end, req.required) /\ end.s.acc = stream.acc
             /\ how # "filtered"
    <3>1. /\ IsDeferred(end) /\ ResponsesOpen(end.s) /\ end.s.emitted = FALSE
          /\ MayFollow(end.s.acc, req.required)
      BY <2>5 DEF ResponsesDeferred
    <3>2. c.end # "filtered"
      BY <1>3, <2>5
    <3>3. OpenAs(req.surface, end.s) /\ UnseenAs(req.surface, end.s, req.required, c.end)
      BY <1>3, <3>1, <3>2 DEF OpenAs, UnseenAs
    <3> QED  BY <2>5, <3>1, <3>3 DEF EndMayBe, end
  <2> QED  BY <2>3, <2>4, <2>5
<1>4. CASE req.surface = "claude"
  <2>1. end = ClaudeAttemptEnds(stream, req, how, defer)
    BY <1>4 DEF EndOf
  <2>2. ClaudeOpen(stream)
    BY <1>4 DEF OpenAs
  <2> HIDE DEF end
  <2>3. ClaudeOver(end) \/ (ClaudeDeferred(end) /\ end.s.acc = stream.acc)
    BY <2>1, <2>2, ClaudeAttempts
  <2> QED  BY <1>4, <2>3 DEF EndMayBe, OverAs, OpenAs, UnseenAs, ClaudeDeferred, end
<1>5. CASE req.surface = "gemini"
  <2>1. end = GeminiAttemptEnds(stream, req, how, defer)
    BY <1>5 DEF EndOf
  <2>2. GeminiOpen(stream)
    BY <1>5 DEF OpenAs
  <2> HIDE DEF end
  <2>3. \/ GeminiOver(end)
        \/ /\ IsDeferred(end) /\ GeminiOpen(end.s) /\ WasEmpty(end.s.acc)
           /\ end.s.acc = stream.acc
    BY <1>1, <2>1, <2>2, GeminiAttempts
  <2> QED  BY <1>5, <2>3 DEF EndMayBe, OverAs, OpenAs, UnseenAs, end
<1> QED  BY <1>1, <1>2, <1>3, <1>4, <1>5

(* What a caller who leaves brings about.                                   *)
LEMMA LeavingBrings ==
  ASSUME IsRequest(req), OpenAs(req.surface, stream), NEW defer \in BOOLEAN, NEW c,
         c.cancelled = TRUE
  PROVE  EndMayBe(req.surface, CancelOf(defer), req.required, stream.acc.text, c)
<1> DEFINE end == CancelOf(defer)
<1>1. /\ req.surface \in {"chat", "responses", "claude", "gemini"} /\ req.tools \in BOOLEAN
  BY DEF IsRequest
<1>2. CASE req.surface = "chat"
  <2>1. end = [s |-> stream, over |-> TRUE, history |-> <<"stopped">>, stored |-> <<>>]
    BY <1>2 DEF CancelOf, ChatCancelled
  <2> HIDE DEF end
  <2>2. LeftAs(req.surface, end)
    BY <1>2, <2>1 DEF LeftAs, OpenAI
  <2> QED  BY <2>2 DEF EndMayBe, end
<1>3. CASE req.surface = "responses"
  <2>1. end = [s |-> stream, over |-> TRUE, history |-> <<>>, stored |-> <<>>]
    BY <1>3 DEF CancelOf, ResponsesCancelled
  <2> HIDE DEF end
  <2>2. LeftAs(req.surface, end)
    BY <1>3, <2>1 DEF LeftAs, OpenAI
  <2> QED  BY <2>2 DEF EndMayBe, end
<1>4. CASE req.surface = "claude"
  <2>1. end = ClaudeFinalize(stream, req, defer)
    BY <1>4 DEF CancelOf, ClaudeCancelled
  <2>2. ClaudeOpen(stream)
    BY <1>4 DEF OpenAs
  <2> HIDE DEF end
  <2>3. ClaudeOver(end) \/ (ClaudeDeferred(end) /\ end.s.acc = stream.acc)
    BY <2>1, <2>2, ClaudeFinalizes
  <2> QED  BY <1>4, <2>3 DEF EndMayBe, OverAs, OpenAs, UnseenAs, ClaudeDeferred, end
<1>5. CASE req.surface = "gemini"
  <2>1. end = GeminiFinalize(stream, req, defer)
    BY <1>5 DEF CancelOf, GeminiCancelled
  <2>2. GeminiOpen(stream)
    BY <1>5 DEF OpenAs
  <2> HIDE DEF end
  <2>3. GeminiOver(end) \/ (IsDeferred(end) /\ end.s = stream /\ WasEmpty(stream.acc))
    BY <1>1, <2>1, <2>2, GeminiFinalizes
  <2> QED  BY <1>5, <2>2, <2>3 DEF EndMayBe, OverAs, OpenAs, UnseenAs, end
<1> QED  BY <1>1, <1>2, <1>3, <1>4, <1>5

(* What a retry brings that fails.                                          *)
LEMMA FailedRetryBrings ==
  ASSUME IsRequest(req), OpenAs(req.surface, stream), NEW c
  PROVE  EndMayBe(req.surface, RetryFailedOf, req.required, stream.acc.text, c)
<1>1. req.surface \in {"chat", "responses", "claude", "gemini"}
  BY DEF IsRequest
<1>2. CASE req.surface = "chat"
  <2>1. RetryFailedOf = Failed(stream, "error")
    BY <1>2 DEF RetryFailedOf, ChatRetryFailed
  <2>2. ChatInv(stream) /\ Quiet(stream.wire)
    BY <1>2 DEF OpenAs, ChatOpen
  <2>3. ChatOver(RetryFailedOf)
    BY <2>1, <2>2, ChatFails
  <2> QED  BY <1>2, <2>3 DEF EndMayBe, OverAs
<1>3. CASE req.surface = "responses"
  <2>1. RetryFailedOf = FailResponse(stream, "error")
    BY <1>3 DEF RetryFailedOf, ResponsesRetryFailed
  <2> DEFINE busy == {stream.message.out}
  <2>2. ResponsesAt(stream, busy) /\ Quiet(stream.wire)
    BY <1>3 DEF OpenAs, ResponsesOpen
  <2> HIDE DEF busy
  <2>3. ResponsesOver(RetryFailedOf)
    BY <2>1, <2>2, ResponseFails
  <2> QED  BY <1>3, <2>3 DEF EndMayBe, OverAs
<1>4. CASE req.surface = "claude"
  <2>1. RetryFailedOf = ClaudeRetryFailed(stream) /\ ClaudeFramed(stream)
    BY <1>4 DEF RetryFailedOf, OpenAs, ClaudeOpen
  <2>2. ClaudeOver(RetryFailedOf)
    BY <2>1, ClaudeRetryFails
  <2> QED  BY <1>4, <2>2 DEF EndMayBe, OverAs
<1>5. CASE req.surface = "gemini"
  <2>1. RetryFailedOf = GeminiRetryFailed(stream) /\ GeminiOpen(stream)
    BY <1>5 DEF RetryFailedOf, OpenAs
  <2>2. GeminiOver(RetryFailedOf)
    BY <2>1, GeminiRetryFails
  <2> QED  BY <1>5, <2>2 DEF EndMayBe, OverAs
<1> QED  BY <1>1, <1>2, <1>3, <1>4, <1>5

(* The parts of a line are a list.                                          *)
LEMMA LinesAreLists ==
  ASSUME NEW line \in Lines
  PROVE  /\ IsList(Numbered(line)) /\ Len(Numbered(line)) = Len(line) /\ Len(line) \in Nat
         /\ \A i \in 1 .. Len(line) : IsPart(Numbered(line)[i])
<1> DEFINE parts == Numbered(line)
<1>1. PICK k \in 1 .. MaxLine : line \in [1 .. k -> Kinds]
  BY DEF Lines
<1>2. k \in Nat
  BY SurfacesAssumption
<1>3. IsList(line) /\ Len(line) = k /\ DOMAIN line = 1 .. k
  <2>1. line = [i \in 1 .. k |-> line[i]]
    BY <1>1
  <2> QED  BY <1>2, <2>1, MakeList
<1>4. \A i \in 1 .. k : parts[i] = Part(line[i], call.parts + i)
  BY <1>1 DEF Numbered
<1>5. IsList(parts) /\ Len(parts) = k
  <2>1. parts = [i \in 1 .. k |-> parts[i]]
    BY <1>1 DEF Numbered
  <2> HIDE DEF parts
  <2> QED  BY <1>2, <2>1, MakeList
<1>6. \A i \in 1 .. k : IsPart(parts[i])
  <2> TAKE i \in 1 .. k
  <2>1. parts[i] = Part(line[i], call.parts + i) /\ line[i] \in Kinds
    BY <1>1, <1>4
  <2> HIDE DEF parts
  <2> QED  BY <2>1 DEF IsPart, Part
<1> QED  BY <1>2, <1>3, <1>5, <1>6 DEF parts

(* At first.                                                                *)
LEMMA SurfacesBegin == Init => SurfaceInv
<1> SUFFICES ASSUME Init PROVE SurfaceInv
  OBVIOUS
<1>1. /\ req \in Requests /\ stream = NewStream(req.surface) /\ history = <<>> /\ stored = <<>>
      /\ call = [pc |-> "consuming", attempts |-> 0, switched |-> FALSE, from |-> 0,
                 cancelled |-> FALSE, end |-> "none", parts |-> 0]
  BY DEF Init
<1>2. req.surface \in {"chat", "responses", "claude", "gemini"}
  BY <1>1, RequestsAre DEF IsRequest
<1>3. OpenAs(req.surface, stream)
  BY <1>1, <1>2, ChatBegins, ResponsesBegins, ClaudeBegins, GeminiBegins DEF NewStream, OpenAs
<1>4. stream.acc = NoParts
  BY <1>1, <1>2 DEF NewStream, NewChatStream, NewResponsesStream, NewClaudeStream, NewGeminiStream
<1>5. Len(stream.acc.text) = 0
  BY <1>4, ShortLists DEF NoParts
<1>6. MaxParts \in Nat /\ RetryMax \in Nat
  BY SurfacesAssumption
<1>7. IsCall(call) /\ call.pc = "consuming" /\ call.parts = 0
  BY <1>1, <1>6 DEF IsCall
<1>8. Len(stream.acc.text) <= call.parts
  BY <1>5, <1>7
<1> QED  BY <1>1, <1>3, <1>7, <1>8 DEF SurfaceInv

(* A line.                                                                  *)
LEMMA LineKeeps ==
  ASSUME SurfaceInv, NEW line \in Lines, ParsedLine(line)
  PROVE  SurfaceInv'
<1> DEFINE parts == Numbered(line)
           o == OnParsed(parts)
<1>1. /\ call.pc = "consuming" /\ call.parts + Len(line) <= MaxParts /\ stream' = o
      /\ call' = [call EXCEPT !.parts = @ + Len(line)]
      /\ req' = req /\ history' = history /\ stored' = stored
  BY DEF ParsedLine
<1>2. /\ req \in Requests /\ IsCall(call) /\ OpenAs(req.surface, stream)
      /\ Len(stream.acc.text) <= call.parts /\ history = <<>> /\ stored = <<>>
  BY <1>1 DEF SurfaceInv
<1>3. /\ IsList(parts) /\ Len(parts) = Len(line) /\ Len(line) \in Nat
      /\ \A i \in 1 .. Len(parts) : IsPart(parts[i])
  BY LinesAreLists
<1>4. IsRequest(req)
  BY <1>2, RequestsAre
<1> HIDE DEF parts
<1>5. /\ OpenAs(req.surface, o) /\ Len(stream.acc.text) \in Nat /\ Len(o.acc.text) \in Nat
      /\ Len(o.acc.text) <= Len(stream.acc.text) + Len(parts)
  BY <1>2, <1>3, <1>4, LineIsTaken
<1> HIDE DEF o
<1>6. call.parts \in 0 .. MaxParts /\ MaxParts \in Nat /\ call.from \in 0 .. call.parts
  BY <1>2, SurfacesAssumption DEF IsCall
<1>7. Len(o.acc.text) <= call.parts + Len(line) /\ call.parts + Len(line) \in 0 .. MaxParts
      /\ call.from \in 0 .. call.parts + Len(line)
  BY <1>1, <1>2, <1>3, <1>5, <1>6, SMTT(30)
<1>8. /\ DOMAIN call' = DOMAIN call /\ call'.parts = call.parts + Len(line)
      /\ \A f \in DOMAIN call : f # "parts" => call'[f] = call[f]
  BY <1>1, <1>2 DEF IsCall
<1>9. IsCall(call') /\ call'.pc = "consuming"
  BY <1>1, <1>2, <1>7, <1>8 DEF IsCall
<1> QED  BY <1>1, <1>2, <1>5, <1>7, <1>8, <1>9 DEF SurfaceInv

(* The end of an attempt.                                                   *)
LEMMA EndKeeps ==
  ASSUME SurfaceInv, NEW how \in {"closed", "broken", "filtered", "failed"}, AttemptEnds(how)
  PROVE  SurfaceInv'
<1> DEFINE c == [call EXCEPT !.end = how]
           end == EndOf(how, AllowDefer)
<1>1. call.pc = "consuming" /\ Conclude(end, c)
  BY DEF AttemptEnds
<1>2. req \in Requests /\ IsCall(call) /\ OpenAs(req.surface, stream)
  BY <1>1 DEF SurfaceInv
<1>3. IsCall(c) /\ c.parts = call.parts /\ c.end = how
  BY <1>2 DEF IsCall
<1>4. IsRequest(req)
  BY <1>2, RequestsAre
<1>5. AllowDefer \in BOOLEAN
  BY DEF AllowDefer
<1> HIDE DEF c
<1>6. EndMayBe(req.surface, end, req.required, stream.acc.text, c)
  BY <1>2, <1>3, <1>4, <1>5, AttemptBrings
<1> HIDE DEF end
<1> QED  BY <1>1, <1>3, <1>6, Concludes

(* A caller who leaves during an attempt.                                   *)
LEMMA LeavingKeeps ==
  ASSUME SurfaceInv, ContextDone
  PROVE  SurfaceInv'
<1> DEFINE c == [call EXCEPT !.cancelled = TRUE]
           end == CancelOf(AllowDefer)
<1>1. call.pc = "consuming" /\ Conclude(end, c)
  BY DEF ContextDone
<1>2. req \in Requests /\ IsCall(call) /\ OpenAs(req.surface, stream)
  BY <1>1 DEF SurfaceInv
<1>3. IsCall(c) /\ c.parts = call.parts /\ c.cancelled = TRUE
  BY <1>2 DEF IsCall
<1>4. IsRequest(req)
  BY <1>2, RequestsAre
<1>5. AllowDefer \in BOOLEAN
  BY DEF AllowDefer
<1> HIDE DEF c
<1>6. EndMayBe(req.surface, end, req.required, stream.acc.text, c)
  BY <1>2, <1>3, <1>4, <1>5, LeavingBrings
<1> HIDE DEF end
<1> QED  BY <1>1, <1>3, <1>6, Concludes

(* One who leaves between two.                                              *)
LEMMA LeavingBetweenKeeps ==
  ASSUME SurfaceInv, LeaveBetweenAttempts
  PROVE  SurfaceInv'
<1>1. /\ call.pc = "deferred" /\ call' = [call EXCEPT !.cancelled = TRUE]
      /\ req' = req /\ stream' = stream /\ history' = history /\ stored' = stored
  BY DEF LeaveBetweenAttempts
<1>2. IsCall(call)
  BY DEF SurfaceInv
<1>3. /\ IsCall(call') /\ call'.pc = "deferred" /\ call'.parts = call.parts
      /\ call'.end = call.end
  BY <1>1, <1>2 DEF IsCall
<1> QED  BY <1>1, <1>3 DEF SurfaceInv

(* Another attempt.                                                         *)
LEMMA AttemptKeeps ==
  ASSUME SurfaceInv, call.pc = "deferred", NEW c, IsCall(c), c.parts = call.parts,
         NextAttempt(c) \/ FailedAttempt(c)
  PROVE  SurfaceInv'
<1>1. /\ req \in Requests /\ IsCall(call) /\ OpenAs(req.surface, stream)
      /\ Len(stream.acc.text) <= call.parts
  BY DEF SurfaceInv
<1>2. IsRequest(req)
  BY <1>1, RequestsAre
<1>3. CASE NextAttempt(c)
  <2> DEFINE n == Len(stream.acc.text)
  <2>1. /\ call' = [c EXCEPT !.pc = "consuming", !.from = n]
        /\ req' = req /\ stream' = stream /\ history' = history /\ stored' = stored
    BY <1>3 DEF NextAttempt
  <2>2. n \in Nat
    <3>1. req.surface \in {"chat", "responses", "claude", "gemini"}
      BY <1>2 DEF IsRequest
    <3>2. IsAcc(stream.acc)
      BY <1>1, <3>1, OpenReceives
    <3> QED  BY <3>2, ListShape DEF IsAcc
  <2>3. c.parts \in 0 .. MaxParts /\ MaxParts \in Nat
    BY SurfacesAssumption DEF IsCall
  <2>4. n \in 0 .. c.parts
    BY <1>1, <2>2, <2>3
  <2> HIDE DEF n
  <2>5. /\ DOMAIN call' = DOMAIN c /\ call'.pc = "consuming" /\ call'.from = n
        /\ \A f \in DOMAIN c : f \notin {"pc", "from"} => call'[f] = c[f]
    BY <2>1 DEF IsCall
  <2>6. IsCall(call') /\ call'.pc = "consuming" /\ call'.parts = call.parts
    BY <2>4, <2>5 DEF IsCall
  <2> QED  BY <2>1, <2>6 DEF SurfaceInv
<1>4. CASE FailedAttempt(c)
  <2>1. Conclude(RetryFailedOf, c)
    BY <1>4 DEF FailedAttempt
  <2>2. EndMayBe(req.surface, RetryFailedOf, req.required, stream.acc.text, c)
    BY <1>1, <1>2, FailedRetryBrings
  <2> QED  BY <2>1, <2>2, Concludes
<1> QED  BY <1>3, <1>4

(* As a retry.                                                              *)
LEMMA RetryKeeps ==
  ASSUME SurfaceInv, Retry
  PROVE  SurfaceInv'
<1> DEFINE c == [call EXCEPT !.attempts = @ + 1]
<1>1. call.pc = "deferred" /\ call.attempts < RetryMax /\ (NextAttempt(c) \/ FailedAttempt(c))
  BY DEF Retry
<1>2. IsCall(call)
  BY DEF SurfaceInv
<1>3. call.attempts + 1 \in 0 .. RetryMax
  BY <1>1, <1>2, SurfacesAssumption DEF IsCall
<1>4. IsCall(c) /\ c.parts = call.parts
  BY <1>2, <1>3 DEF IsCall
<1> HIDE DEF c
<1> QED  BY <1>1, <1>4, AttemptKeeps

(* With another account.                                                    *)
LEMMA SwitchKeeps ==
  ASSUME SurfaceInv, Switch
  PROVE  SurfaceInv'
<1> DEFINE c == [call EXCEPT !.switched = TRUE]
<1>1. call.pc = "deferred" /\ (NextAttempt(c) \/ FailedAttempt(c))
  BY DEF Switch
<1>2. IsCall(call)
  BY DEF SurfaceInv
<1>3. IsCall(c) /\ c.parts = call.parts
  BY <1>2 DEF IsCall
<1> HIDE DEF c
<1> QED  BY <1>1, <1>3, AttemptKeeps

(* With none left.                                                          *)
LEMMA NoAccountKeeps ==
  ASSUME SurfaceInv, NoAccountLeft
  PROVE  SurfaceInv'
<1> DEFINE no == FALSE
           end == EndOf("closed", no)
<1>1. call.pc = "deferred" /\ Conclude(end, call)
  BY DEF NoAccountLeft
<1>2. /\ req \in Requests /\ IsCall(call) /\ OpenAs(req.surface, stream)
      /\ UnseenAs(req.surface, stream, req.required, call.end)
  BY <1>1 DEF SurfaceInv
<1>3. req.surface = "responses" => call.end # "filtered"
  BY <1>2 DEF UnseenAs
<1>4. IsRequest(req)
  BY <1>2, RequestsAre
<1>5. no \in BOOLEAN /\ no = FALSE
  OBVIOUS
<1> HIDE DEF no
<1>6. EndMayBe(req.surface, end, req.required, stream.acc.text, call)
  BY <1>2, <1>3, <1>4, <1>5, AttemptBrings
<1> HIDE DEF end
<1> QED  BY <1>1, <1>2, <1>6, Concludes

(* The invariant holds in every state: whatever upstream sends and however  *)
(* attempts end, are retried or are left, on every surface.                 *)
LEMMA SurfacesKeep == Spec => []SurfaceInv
<1>1. ASSUME SurfaceInv, [Next]_vars PROVE SurfaceInv'
  <2>1. CASE UNCHANGED vars
    BY <1>1, <2>1 DEF vars, SurfaceInv, EndNow
  <2>2. CASE Next
    <3>1. ASSUME NEW line \in Lines, ParsedLine(line) PROVE SurfaceInv'
      BY <1>1, <3>1, LineKeeps
    <3>2. ASSUME NEW how \in {"closed", "broken", "filtered", "failed"}, AttemptEnds(how)
          PROVE  SurfaceInv'
      BY <1>1, <3>2, EndKeeps
    <3>3. CASE ContextDone           BY <1>1, <3>3, LeavingKeeps
    <3>4. CASE LeaveBetweenAttempts  BY <1>1, <3>4, LeavingBetweenKeeps
    <3>5. CASE Retry                 BY <1>1, <3>5, RetryKeeps
    <3>6. CASE Switch                BY <1>1, <3>6, SwitchKeeps
    <3>7. CASE NoAccountLeft         BY <1>1, <3>7, NoAccountKeeps
    <3> QED  BY <2>2, <3>1, <3>2, <3>3, <3>4, <3>5, <3>6, <3>7 DEF Next
  <2> QED  BY <1>1, <2>1, <2>2
<1> QED  BY <1>1, SurfacesBegin, PTL DEF Spec

(***************************************************************************)
(* The end of an answer.                                                    *)
(***************************************************************************)

(* A stream that is not over has no end on its wire.                        *)
LEMMA OpenIsQuiet ==
  ASSUME NEW surface \in {"chat", "responses", "claude", "gemini"}, NEW s, OpenAs(surface, s)
  PROVE  Quiet(s.wire)
<1>1. CASE surface = "gemini"
  BY <1>1, GeminiIsQuiet DEF OpenAs
<1>2. CASE surface # "gemini"
  BY <1>2 DEF OpenAs, ChatOpen, ResponsesOpen, ClaudeOpen, ClaudeFramed
<1> QED  BY <1>1, <1>2

LEMMA QuietMeans ==
  ASSUME Quiet(stream.wire)
  PROVE  Ends = {} /\ At({"completed", "failed"}) = {}
<1>1. \A k \in DOMAIN stream.wire : stream.wire[k][1] \notin EndNames
  BY DEF Quiet
<1>2. Ends = {}
  BY <1>1 DEF Ends, At, EndNames
<1>3. At({"completed", "failed"}) = {}
  BY <1>1 DEF At, EndNames
<1> QED  BY <1>2, <1>3

(* One that is over has one, at its place.                                  *)
LEMMA EndMeans ==
  ASSUME NEW p, EndsAt(stream.wire, p)
  PROVE  /\ Ends = {p} /\ TheEnd = stream.wire[p]
         /\ Succeeded <=> stream.wire[p][1] \in {"finish", "completed", "message_stop"}
         /\ At({"completed", "failed"}) = {} <=> stream.wire[p][1] \notin {"completed", "failed"}
<1>1. /\ p \in DOMAIN stream.wire /\ stream.wire[p][1] \in EndNames
      /\ \A k \in DOMAIN stream.wire : stream.wire[k][1] \in EndNames => k = p
  BY DEF EndsAt
<1>2. Ends = {p}
  BY <1>1 DEF Ends, At, EndNames
<1>3. TheEnd = stream.wire[p]
  BY <1>2 DEF TheEnd
<1>4. Succeeded <=> stream.wire[p][1] \in {"finish", "completed", "message_stop"}
  BY <1>1 DEF Succeeded, At, EndNames
<1>5. At({"completed", "failed"}) = {} <=> stream.wire[p][1] \notin {"completed", "failed"}
  BY <1>1 DEF At, EndNames
<1> QED  BY <1>2, <1>3, <1>4, <1>5

(* What is said of the end, while the answer is not over or was left.       *)
LEMMA NoEndIsRecorded ==
  ASSUME SurfaceInv,
         call.pc # "returned" \/ (LeftAs(req.surface, EndNow) /\ call.cancelled = TRUE)
  PROVE  EndsOnce /\ RecordedAsTold /\ StoredAsTold
<1>1. req.surface \in {"chat", "responses", "claude", "gemini"}
  BY RequestsAre DEF SurfaceInv, IsRequest
<1>2. OpenAs(req.surface, stream)
  BY DEF SurfaceInv, LeftAs, EndNow
<1>3. Ends = {} /\ At({"completed", "failed"}) = {}
  BY <1>1, <1>2, OpenIsQuiet, QuietMeans
<1>4. CASE call.pc # "returned"
  <2>1. history = <<>> /\ stored = <<>>
    BY <1>4 DEF SurfaceInv
  <2>2. EndsOnce /\ StoredAsTold
    BY <1>3, <1>4, <2>1 DEF EndsOnce, StoredAsTold
  <2>3. RecordedAsTold
    BY <1>4, <2>1 DEF RecordedAsTold
  <2> QED  BY <2>2, <2>3
<1>5. CASE call.pc = "returned" /\ LeftAs(req.surface, EndNow) /\ call.cancelled = TRUE
  <2>1. /\ stored = <<>> /\ req.surface \in OpenAI
        /\ history = IF req.surface = "chat" THEN <<"stopped">> ELSE <<>>
    BY <1>5 DEF LeftAs, EndNow
  <2>2. EndsOnce /\ StoredAsTold
    BY <1>3, <1>5, <2>1 DEF EndsOnce, StoredAsTold
  <2>3. RecordedAsTold
    BY <1>3, <1>5, <2>1 DEF RecordedAsTold, OpenAI
  <2> QED  BY <2>2, <2>3
<1> QED  BY <1>4, <1>5

(* On an OpenAI surface that ended the answer.                              *)
LEMMA OpenAIEndIsRecorded ==
  ASSUME call.pc = "returned", req.surface \in OpenAI, OverAs(req.surface, EndNow)
  PROVE  EndsOnce /\ RecordedAsTold /\ StoredAsTold
<1>1. PICK e : /\ EndsDone(stream.wire, e)
               /\ \/ /\ req.surface = "chat" /\ stored = <<>>
                     /\ \/ e[1] = "finish" /\ history = <<"success">>
                        \/ e[1] = "error" /\ history = <<"error">>
                  \/ /\ req.surface = "responses" /\ stored = <<e>>
                     /\ \/ e[1] = "completed" /\ history = <<"success">>
                        \/ e[1] = "failed" /\ history = <<"error">>
  <2>1. CASE req.surface = "chat"
    <3>1. ChatOver(EndNow)
      BY <2>1 DEF OverAs
    <3> QED  BY <2>1, <3>1 DEF ChatOver, EndNow
  <2>2. CASE req.surface = "responses"
    <3>1. ResponsesOver(EndNow)
      BY <2>2 DEF OverAs
    <3> QED  BY <2>2, <3>1 DEF ResponsesOver, EndNow
  <2> QED  BY <2>1, <2>2 DEF OpenAI
<1> DEFINE p == Len(stream.wire) - 1
<1>2. /\ EndsAt(stream.wire, p) /\ stream.wire[p] = e /\ Len(stream.wire) \in Nat
      /\ stream.wire[Len(stream.wire)] = <<"[DONE]">> /\ p + 1 = Len(stream.wire)
  BY <1>1, ListShape DEF EndsDone
<1> HIDE DEF p
<1>3. /\ Ends = {p} /\ TheEnd = e
      /\ Succeeded <=> e[1] \in {"finish", "completed", "message_stop"}
      /\ At({"completed", "failed"}) = {} <=> e[1] \notin {"completed", "failed"}
  BY <1>2, EndMeans
<1>4. EndsOnce
  BY <1>2, <1>3 DEF EndsOnce
<1>5. StoredAsTold
  BY <1>1, <1>3 DEF StoredAsTold
<1>6. RecordedAsTold
  <2>1. req.surface \notin {"claude", "gemini"} /\ Ends # {}
    BY <1>3 DEF OpenAI
  <2>2. history = <<IF Succeeded THEN "success" ELSE "error">>
    BY <1>1, <1>3
  <2> QED  BY <2>1, <2>2 DEF RecordedAsTold
<1> QED  BY <1>4, <1>5, <1>6

(* On the others.                                                           *)
LEMMA OtherEndIsRecorded ==
  ASSUME call.pc = "returned", req.surface \in {"claude", "gemini"}, OverAs(req.surface, EndNow)
  PROVE  EndsOnce /\ RecordedAsTold /\ StoredAsTold
<1>1. stored = <<>> /\ EndsRecorded(stream.wire, history)
  <2>1. CASE req.surface = "claude"
    <3>1. ClaudeOver(EndNow)
      BY <2>1 DEF OverAs
    <3> QED  BY <3>1 DEF ClaudeOver, EndNow
  <2>2. CASE req.surface = "gemini"
    <3>1. GeminiOver(EndNow)
      BY <2>2 DEF OverAs
    <3> QED  BY <3>1 DEF GeminiOver, EndNow
  <2> QED  BY <2>1, <2>2
<1>2. PICK e : /\ EndsPlain(stream.wire, e)
               /\ \/ e[1] \in {"finish", "message_stop"} /\ history = <<"success">>
                  \/ e[1] = "error" /\ e # <<"error", "error">> /\ history = <<"error">>
                  \/ e = <<"error", "error">> /\ history = <<>>
  BY <1>1 DEF EndsRecorded
<1> DEFINE p == Len(stream.wire)
<1>3. EndsAt(stream.wire, p) /\ stream.wire[p] = e
  BY <1>2 DEF EndsPlain
<1>4. /\ Ends = {p} /\ TheEnd = e
      /\ Succeeded <=> e[1] \in {"finish", "completed", "message_stop"}
      /\ At({"completed", "failed"}) = {} <=> e[1] \notin {"completed", "failed"}
  <2> HIDE DEF p
  <2> QED  BY <1>3, EndMeans
<1>5. req.surface \notin OpenAI /\ req.surface # "responses"
  BY DEF OpenAI
<1>6. EndsOnce
  BY <1>4, <1>5 DEF EndsOnce
<1>7. e[1] \in {"finish", "message_stop", "error"}
  BY <1>2
<1>8. StoredAsTold
  BY <1>1, <1>4, <1>7 DEF StoredAsTold
<1>9. CASE e = <<"error", "error">>
  <2>1. history = <<>>
    BY <1>2, <1>9
  <2>2. RecordedAsTold
    BY <1>4, <1>9, <2>1 DEF RecordedAsTold
  <2> QED  BY <1>6, <1>8, <2>2
<1>10. CASE e # <<"error", "error">>
  <2>1. history = <<IF Succeeded THEN "success" ELSE "error">>
    BY <1>2, <1>4, <1>10
  <2>2. Ends # {} /\ TheEnd # <<"error", "error">>
    BY <1>4, <1>10
  <2>3. RecordedAsTold
    BY <1>5, <2>1, <2>2 DEF RecordedAsTold
  <2> QED  BY <1>6, <1>8, <2>3
<1> QED  BY <1>9, <1>10

(* The types of the state.                                                  *)
LEMMA SurfacesTyped ==
  ASSUME SurfaceInv
  PROVE  TypeOK
<1>1. /\ req \in Requests /\ IsCall(call) /\ call.pc \in {"consuming", "deferred", "returned"}
  BY DEF SurfaceInv
<1>2. req.surface \in {"chat", "responses", "claude", "gemini"}
  BY <1>1, RequestsAre DEF IsRequest
<1>3. IsAcc(stream.acc)
  <2>1. CASE OpenAs(req.surface, stream)
    BY <1>2, <2>1, OpenReceives
  <2>2. CASE OverAs(req.surface, EndNow)
    <3>1. CASE req.surface = "chat"
      BY <2>2, <3>1 DEF OverAs, ChatOver, ChatInv, EndNow
    <3>2. CASE req.surface = "responses"
      BY <2>2, <3>2 DEF OverAs, ResponsesOver, ResponsesAt, EndNow
    <3>3. CASE req.surface = "claude"
      BY <2>2, <3>3 DEF OverAs, ClaudeOver, ClaudeAt, EndNow
    <3>4. CASE req.surface = "gemini"
      BY <2>2, <3>4 DEF OverAs, GeminiOver, GeminiInv, EndNow
    <3> QED  BY <1>2, <3>1, <3>2, <3>3, <3>4
  <2>3. OpenAs(req.surface, stream) \/ OverAs(req.surface, EndNow)
    BY DEF SurfaceInv, LeftAs, EndNow
  <2> QED  BY <2>1, <2>2, <2>3
<1>4. {part.kind : part \in ToSet(stream.acc.text)} \subseteq Kinds \ Thinking
  BY <1>3 DEF IsAcc, IsPart, ToSet
<1>5. ToSet(history) \subseteq {"success", "error", "stopped"}
  <2>1. history \in {<<>>, <<"success">>, <<"error">>, <<"stopped">>}
    <3>1. CASE call.pc # "returned"
      BY <3>1 DEF SurfaceInv
    <3>2. CASE call.pc = "returned"
      <4> DEFINE end == EndNow
      <4>1. OverAs(req.surface, end) \/ LeftAs(req.surface, end)
        BY <3>2 DEF SurfaceInv
      <4>2. end.history = history
        BY DEF EndNow
      <4> HIDE DEF end
      <4> QED  BY <1>2, <4>1, <4>2, EndsAreLists
    <3> QED  BY <3>1, <3>2
  <2> QED  BY <2>1, ShortLists
<1> QED  BY <1>1, <1>4, <1>5 DEF TypeOK, IsCall

(* Over sieve, batches, blocks and attempts an answer has one end, written  *)
(* once and last, and the caller, the recording session and the response    *)
(* store agree on it, for any bounds on what upstream sends and how often   *)
(* it is asked: the finalize, fail, cancel and retry hooks of the four      *)
(* surfaces around ExecuteStreamWithRetry.                                  *)
THEOREM EndsAreRecorded == Spec => []EndIsRecorded
<1>1. ASSUME SurfaceInv PROVE EndIsRecorded
  <2>1. EndsOnce /\ RecordedAsTold /\ StoredAsTold
    <3>1. CASE \/ call.pc # "returned"
               \/ LeftAs(req.surface, EndNow) /\ call.cancelled = TRUE
      BY <1>1, <3>1, NoEndIsRecorded
    <3>2. CASE call.pc = "returned" /\ OverAs(req.surface, EndNow)
      <4>1. req.surface \in OpenAI \/ req.surface \in {"claude", "gemini"}
        BY <1>1, RequestsAre DEF SurfaceInv, IsRequest, OpenAI
      <4> QED  BY <3>2, <4>1, OpenAIEndIsRecorded, OtherEndIsRecorded
    <3> QED  BY <1>1, <3>1, <3>2 DEF SurfaceInv
  <2> QED  BY <1>1, <2>1, SurfacesTyped DEF EndIsRecorded
<1> QED  BY <1>1, SurfacesKeep, PTL

(***************************************************************************)
(* The framing.                                                             *)
(***************************************************************************)

(* A wire is a list.                                                        *)
LEMMA PlacesAre ==
  ASSUME NEW w, IsList(w), NEW k \in DOMAIN w
  PROVE  k \in Nat /\ \A j \in DOMAIN w : j \in Nat /\ (j < k => j \in 1 .. k - 1)
<1>1. DOMAIN w = 1 .. Len(w) /\ Len(w) \in Nat
  BY ListShape
<1> QED  BY <1>1

(* Claude's blocks, open or over.                                           *)
LEMMA BlocksAreFramed ==
  ASSUME SurfaceInv
  PROVE  BlocksAreClosed
<1> SUFFICES ASSUME req.surface = "claude" PROVE BlocksAreClosed
  BY DEF BlocksAreClosed
<1> DEFINE w == stream.wire
<1>1. \E busy : ClaudeAt(stream, busy)
  <2>1. OpenAs(req.surface, stream) \/ OverAs(req.surface, EndNow)
    BY DEF SurfaceInv, LeftAs, EndNow
  <2>2. CASE OpenAs(req.surface, stream)
    BY <2>2 DEF OpenAs, ClaudeOpen, ClaudeFramed
  <2>3. CASE OverAs(req.surface, EndNow)
    BY <2>3 DEF OverAs, ClaudeOver, EndNow
  <2> QED  BY <2>1, <2>2, <2>3
<1>2. BlocksKept(w, stream.next, stream.acc) /\ IsList(w)
  BY <1>1 DEF ClaudeAt
<1>3. At({"start"}) = Starts(w)
  BY DEF At, Starts
<1>4. \A k \in Starts(w) : w[k][2] = Cardinality({j \in Starts(w) : j < k})
  BY <1>2 DEF BlocksKept
<1> DEFINE Open(i, k) ==
             /\ \E j \in Starts(w) : j < k /\ w[j][2] = i
             /\ \A j \in At({"stop"}) : j < k => w[j][2] # i
<1>5. \A i, k : Open(i, k) <=> BlockOpen(w, i, k)
  BY DEF BlockOpen, At
<1>6. \A k \in At({"delta", "stop"}) : Open(w[k][2], k)
  <2> SUFFICES ASSUME NEW k \in DOMAIN w, w[k][1] \in {"delta", "stop"} PROVE BlockOpen(w, w[k][2], k)
    BY <1>5 DEF At
  <2> QED  BY <1>2 DEF BlocksKept
<1>7. \A k \in At({"message_stop"}), j \in Starts(w) : ~ Open(w[j][2], k)
  <2> SUFFICES ASSUME NEW k \in DOMAIN w, w[k][1] = "message_stop", NEW j \in Starts(w)
               PROVE  ~ BlockOpen(w, w[j][2], k)
    BY <1>5 DEF At
  <2> QED  BY <1>2 DEF BlocksKept
<1> QED  BY <1>3, <1>4, <1>6, <1>7 DEF BlocksAreClosed

(* The items of a response.                                                 *)
LEMMA ItemsAreFramed ==
  ASSUME SurfaceInv
  PROVE  ItemsAreAdded
<1> SUFFICES ASSUME req.surface = "responses" PROVE ItemsAreAdded
  BY DEF ItemsAreAdded
<1> DEFINE w == stream.wire
<1>1. \E busy : ResponsesAt(stream, busy)
  <2>1. OpenAs(req.surface, stream) \/ OverAs(req.surface, EndNow)
    BY DEF SurfaceInv, LeftAs, EndNow
  <2>2. CASE OpenAs(req.surface, stream)
    BY <2>2 DEF OpenAs, ResponsesOpen
  <2>3. CASE OverAs(req.surface, EndNow)
    BY <2>3 DEF OverAs, ResponsesOver, EndNow
  <2> QED  BY <2>1, <2>2, <2>3
<1>2. ItemsKept(w, stream.lastOut) /\ IsList(w)
  BY <1>1 DEF ResponsesAt
<1> DEFINE Before(k, event) == \E j \in 1 .. k - 1 : w[j] = event
           IsOpen(k) == \E j \in At({"part.added"}) :
              /\ j < k /\ w[j][2] = w[k][2]
              /\ \A i \in At({"part.done"}) : i < k /\ w[i][2] = w[k][2] => i < j
<1>3. \A k \in DOMAIN w : IsOpen(k) <=> OpenAt(w, w[k][2], k)
  BY DEF OpenAt, At
<1>4. \A j, k \in At({"item.added"}) : w[j] = w[k] => j = k
  BY <1>2 DEF ItemsKept, At
<1>5. ASSUME NEW k \in DOMAIN w, w[k][1] \in AboutItem PROVE Before(k, <<"item.added", w[k][2]>>)
  <2>1. PICK j \in DOMAIN w : j < k /\ w[j] = <<"item.added", w[k][2]>>
    BY <1>2, <1>5 DEF ItemsKept
  <2>2. j \in 1 .. k - 1
    <3> HIDE DEF w
    <3> QED  BY <1>2, <2>1, PlacesAre
  <2> QED  BY <2>1, <2>2
<1>6. ASSUME NEW k \in DOMAIN w, w[k][1] \in AboutPart PROVE IsOpen(k)
  <2>1. OpenAt(w, w[k][2], k)
    BY <1>2, <1>6 DEF ItemsKept
  <2> QED  BY <1>3, <2>1
<1>7. ASSUME NEW k \in DOMAIN w, w[k][1] = "part.added" PROVE ~ IsOpen(k)
  <2>1. ~ OpenAt(w, w[k][2], k)
    BY <1>2, <1>7 DEF ItemsKept
  <2> QED  BY <1>3, <2>1
<1>8. ASSUME NEW k \in DOMAIN w, w[k][1] = "completed", NEW j \in DOMAIN w, w[j][1] = "item.added"
      PROVE  Before(k, <<"item.done", w[j][2]>>)
  <2>1. PICK i \in DOMAIN w : i < k /\ w[i] = <<"item.done", w[j][2]>>
    BY <1>2, <1>8 DEF ItemsKept
  <2>2. i \in 1 .. k - 1
    <3> HIDE DEF w
    <3> QED  BY <1>2, <2>1, PlacesAre
  <2> QED  BY <2>1, <2>2
<1>9. \A k \in At(AboutItem) : Before(k, <<"item.added", w[k][2]>>)
  BY <1>5 DEF At
<1>10. \A k \in At(AboutPart) : IsOpen(k)
  BY <1>6 DEF At
<1>11. \A k \in At({"part.added"}) : ~ IsOpen(k)
  BY <1>7 DEF At
<1>12. \A k \in At({"completed"}), j \in At({"item.added"}) : Before(k, <<"item.done", w[j][2]>>)
  BY <1>8 DEF At
<1> QED  BY <1>4, <1>9, <1>10, <1>11, <1>12 DEF ItemsAreAdded, AboutItem, AboutPart

(* The ids of a chat answer's calls.                                        *)
LEMMA IDsAreOwn ==
  ASSUME SurfaceInv
  PROVE  OwnCallIDs
<1> SUFFICES ASSUME req.surface = "chat" PROVE OwnCallIDs
  BY DEF OwnCallIDs
<1>1. ChatInv(stream)
  <2>1. OpenAs(req.surface, stream) \/ OverAs(req.surface, EndNow)
    BY DEF SurfaceInv, LeftAs, EndNow
  <2>2. CASE OpenAs(req.surface, stream)
    BY <2>2 DEF OpenAs, ChatOpen
  <2>3. CASE OverAs(req.surface, EndNow)
    BY <2>3 DEF OverAs, ChatOver, EndNow
  <2> QED  BY <2>1, <2>2, <2>3
<1>2. IDsDiffer(stream.wire)
  BY <1>1 DEF ChatInv
<1> QED  BY <1>2 DEF IDsDiffer, OwnCallIDs, At

(* Each surface keeps the framing its clients parse by, however many        *)
(* attempts an answer takes and whatever calls and text they bring: content *)
(* blocks of claude/stream_runtime_emit.go, output items of                 *)
(* responses_stream_runtime_events.go, call ids of                          *)
(* chat_stream_runtime.go.                                                  *)
THEOREM FramesAreKept == Spec => []FramingIsKept
<1>1. SurfaceInv => FramingIsKept
  BY BlocksAreFramed, ItemsAreFramed, IDsAreOwn DEF FramingIsKept
<1> QED  BY <1>1, SurfacesKeep, PTL

(***************************************************************************)
(* Another attempt.                                                         *)
(***************************************************************************)

(* What an event tells that may be repeated.                                *)
Repeatable(e) ==
  /\ CallsToldBy(e) = <<>>
  /\ ToSet(TextToldBy(e)) \subseteq TextNumbers(stream.acc)

(* On each surface, before anything was told but blanks.                    *)
LEMMA ChatRepeats ==
  ASSUME ChatOpen(stream), stream.emitted = FALSE, NEW k \in DOMAIN stream.wire
  PROVE  Repeatable(stream.wire[k])
<1> DEFINE e == stream.wire[k]
<1>1. ChatSays(e, stream)
  BY DEF ChatOpen, ChatInv
<1> HIDE DEF e
<1>2. /\ e[1] \in {"content", "reasoning", "finish", "error", "[DONE]"}
      /\ e[1] = "content" => Last(e) = e[2] /\ ToSet(e[2]) \subseteq TextNumbers(stream.acc)
  BY <1>1 DEF ChatSays
<1>3. CallsToldBy(e) = <<>>
  BY <1>2 DEF CallsToldBy
<1>4. CASE e[1] = "content"
  <2>1. TextToldBy(e) = Last(e)
    BY <1>4 DEF TextToldBy
  <2> QED  BY <1>2, <1>3, <1>4, <2>1 DEF Repeatable, e
<1>5. CASE e[1] # "content"
  <2>1. TextToldBy(e) = <<>>
    BY <1>2, <1>5 DEF TextToldBy, IsDeltaOf
  <2> QED  BY <1>3, <2>1, ShortLists DEF Repeatable, e
<1> QED  BY <1>4, <1>5

LEMMA ResponsesRepeat ==
  ASSUME ResponsesOpen(stream), stream.emitted = FALSE, NEW k \in DOMAIN stream.wire
  PROVE  Repeatable(stream.wire[k])
<1> DEFINE e == stream.wire[k]
<1>1. ResponsesSays(e, stream)
  BY DEF ResponsesOpen, ResponsesAt
<1> HIDE DEF e
<1>2. /\ e[1] \in ResponsesEvents \ {"args.done"}
      /\ e[1] = "text" => Last(e) = e[3] /\ ToSet(e[3]) \subseteq TextNumbers(stream.acc)
  BY <1>1 DEF ResponsesSays
<1>3. CallsToldBy(e) = <<>>
  BY <1>2 DEF CallsToldBy, ResponsesEvents
<1>4. CASE e[1] = "text"
  <2>1. TextToldBy(e) = Last(e)
    BY <1>4 DEF TextToldBy
  <2> QED  BY <1>2, <1>3, <1>4, <2>1 DEF Repeatable, e
<1>5. CASE e[1] # "text"
  <2>1. TextToldBy(e) = <<>>
    BY <1>2, <1>5 DEF TextToldBy, IsDeltaOf, ResponsesEvents
  <2> QED  BY <1>3, <2>1, ShortLists DEF Repeatable, e
<1> QED  BY <1>4, <1>5

LEMMA ClaudeRepeats ==
  ASSUME ClaudeOpen(stream), stream.emitted = FALSE, NEW k \in DOMAIN stream.wire
  PROVE  Repeatable(stream.wire[k])
<1> DEFINE e == stream.wire[k]
<1>1. /\ NoTools(stream.wire) /\ BlocksKept(stream.wire, stream.next, stream.acc)
      /\ e[1] \in ClaudeEvents
  BY DEF ClaudeOpen, ClaudeFramed, ClaudeAt
<1>2. e[1] = "delta" => FillsText(stream.wire, e, stream.acc)
  BY <1>1 DEF BlocksKept
<1> HIDE DEF e
<1>3. ~ IsDeltaOf(e, "tool_use")
  <2> SUFFICES ASSUME NEW j \in DOMAIN stream.wire, stream.wire[j] = <<"start", e[2], "tool_use">>
               PROVE  FALSE
    BY DEF IsDeltaOf, At
  <2> QED  BY <1>1 DEF NoTools, StartsTool
<1>4. CallsToldBy(e) = <<>>
  BY <1>1, <1>3 DEF CallsToldBy, ClaudeEvents
<1>5. CASE IsDeltaOf(e, "text")
  <2>1. e[1] = "delta" /\ \E j \in DOMAIN stream.wire : stream.wire[j] = <<"start", e[2], "text">>
    BY <1>5 DEF IsDeltaOf, At
  <2>2. Last(e) = e[3] /\ ToSet(e[3]) \subseteq TextNumbers(stream.acc)
    BY <1>2, <2>1 DEF FillsText
  <2>3. TextToldBy(e) = Last(e)
    BY <1>5 DEF TextToldBy
  <2> QED  BY <1>4, <2>2, <2>3 DEF Repeatable, e
<1>6. CASE ~ IsDeltaOf(e, "text")
  <2>1. TextToldBy(e) = <<>>
    BY <1>1, <1>6 DEF TextToldBy, ClaudeEvents
  <2> QED  BY <1>4, <2>1, ShortLists DEF Repeatable, e
<1> QED  BY <1>5, <1>6

LEMMA GeminiRepeats ==
  ASSUME GeminiOpen(stream), NEW k \in DOMAIN stream.wire
  PROVE  Repeatable(stream.wire[k])
<1> DEFINE e == stream.wire[k]
<1>1. GeminiSays(e, stream)
  BY DEF GeminiOpen
<1> HIDE DEF e
<1>2. /\ e[1] \in {"thought", "text"}
      /\ e[1] = "text" => Last(e) = e[2] /\ ToSet(e[2]) \subseteq TextNumbers(stream.acc)
  BY <1>1 DEF GeminiSays
<1>3. CallsToldBy(e) = <<>>
  BY <1>2 DEF CallsToldBy
<1>4. CASE e[1] = "text"
  <2>1. TextToldBy(e) = Last(e)
    BY <1>4 DEF TextToldBy
  <2> QED  BY <1>2, <1>3, <1>4, <2>1 DEF Repeatable, e
<1>5. CASE e[1] = "thought"
  <2>1. TextToldBy(e) = <<>>
    BY <1>5 DEF TextToldBy, IsDeltaOf
  <2> QED  BY <1>3, <2>1, ShortLists DEF Repeatable, e
<1> QED  BY <1>2, <1>4, <1>5

(* Between attempts.                                                        *)
LEMMA DeferredIsRepeatable ==
  ASSUME SurfaceInv, call.pc = "deferred"
  PROVE  /\ IsAcc(stream.acc) /\ MayFollow(stream.acc, req.required)
         /\ \A k \in DOMAIN stream.wire : Repeatable(stream.wire[k])
<1>1. /\ IsRequest(req) /\ OpenAs(req.surface, stream)
      /\ UnseenAs(req.surface, stream, req.required, call.end)
  BY RequestsAre DEF SurfaceInv
<1>2. req.surface \in {"chat", "responses", "claude", "gemini"}
  BY <1>1 DEF IsRequest
<1>3. IsAcc(stream.acc)
  BY <1>1, <1>2, OpenReceives
<1>4. WasEmpty(stream.acc) => MayFollow(stream.acc, req.required)
  BY DEF WasEmpty, MayFollow
<1>5. CASE req.surface = "chat"
  BY <1>1, <1>3, <1>5, ChatRepeats DEF OpenAs, UnseenAs
<1>6. CASE req.surface = "responses"
  BY <1>1, <1>3, <1>6, ResponsesRepeat DEF OpenAs, UnseenAs
<1>7. CASE req.surface = "claude"
  BY <1>1, <1>3, <1>4, <1>7, ClaudeRepeats DEF OpenAs, UnseenAs
<1>8. CASE req.surface = "gemini"
  BY <1>1, <1>3, <1>4, <1>8, GeminiRepeats DEF OpenAs, UnseenAs
<1> QED  BY <1>2, <1>5, <1>6, <1>7, <1>8

(* Another attempt follows only when the caller has seen no call, and       *)
(* nothing but thinking and blanks unless a call was required; an OpenAI    *)
(* answer that was filtered blank is not asked for again: what the defer    *)
(* branches of finalize in the four stream runtimes let through to          *)
(* ExecuteStreamWithRetry.                                                  *)
THEOREM RetriesAreUnseen == Spec => []RetriedOnlyIfEmpty
<1>1. ASSUME SurfaceInv PROVE FilteredIsFinal
  <2> SUFFICES ASSUME call.pc = "deferred", req.surface \in OpenAI, call.end = "filtered"
               PROVE  ~ BlankText(stream.acc.text)
    BY DEF FilteredIsFinal
  <2>1. UnseenAs(req.surface, stream, req.required, call.end)
    BY <1>1 DEF SurfaceInv
  <2> QED  BY <2>1 DEF UnseenAs, OpenAI
<1>2. ASSUME SurfaceInv PROVE RetriedUnseen
  <2> SUFFICES ASSUME call.pc = "deferred", NEW k \in DOMAIN stream.wire
               PROVE  /\ CallsToldBy(stream.wire[k]) = <<>>
                      /\ req.required \/ \A n \in ToSet(TextToldBy(stream.wire[k])) :
                            Part("space", n) \in ToSet(stream.acc.text)
    BY DEF RetriedUnseen
  <2>1. /\ IsAcc(stream.acc) /\ MayFollow(stream.acc, req.required)
        /\ Repeatable(stream.wire[k])
    BY <1>2, DeferredIsRepeatable
  <2>2. ASSUME ~ req.required, NEW n \in ToSet(TextToldBy(stream.wire[k]))
        PROVE  Part("space", n) \in ToSet(stream.acc.text)
    <3>1. \A i \in DOMAIN stream.acc.text : stream.acc.text[i].kind = "space"
      BY <2>1, <2>2, BlankMeans DEF MayFollow
    <3>2. PICK i \in DOMAIN stream.acc.text : stream.acc.text[i].n = n
      BY <2>1, <2>2 DEF Repeatable, TextNumbers
    <3>3. stream.acc.text[i] = Part(stream.acc.text[i].kind, stream.acc.text[i].n)
      BY <2>1, <3>2 DEF IsAcc, IsPart
    <3>4. stream.acc.text[i] = Part("space", n)
      BY <3>1, <3>2, <3>3
    <3> QED  BY <3>2, <3>4 DEF ToSet
  <2> QED  BY <2>1, <2>2 DEF Repeatable
<1>3. SurfaceInv => RetriedOnlyIfEmpty
  BY <1>1, <1>2 DEF RetriedOnlyIfEmpty
<1> QED  BY <1>3, SurfacesKeep, PTL
=============================================================================
