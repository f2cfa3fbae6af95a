-------------------------- MODULE RankingScoreProofs -------------------------
(***************************************************************************)
(* The Score of the ranking is right, for every set of submissions and     *)
(* subchanges and in every score mode, whatever the order in which they    *)
(* come, are replaced, deleted and loaded; no subchange in the stores is   *)
(* without its submission until a death cuts a file off; and the ranking   *)
(* refuses nothing ProxyService sends while requests succeed.              *)
(***************************************************************************)
EXTENDS RankingScore, ProxyBatch, FiniteSetTheorems, WellFoundedInduction, TLAPS

-----------------------------------------------------------------------------
(* Induction, the greatest element of a finite set, and bags.              *)

(* Induction up to a bound, with a set for the property.                   *)
LEMMA InductionUpTo ==
  ASSUME NEW N \in Nat, NEW S, 0 \in S,
         \A n \in 1 .. N : n - 1 \in S => n \in S
  PROVE  \A n \in 0 .. N : n \in S
  <1> SUFFICES ASSUME NEW m \in 0 .. N, m \notin S PROVE FALSE
    OBVIOUS
  <1> DEFINE others == {n \in 0 .. N : n \notin S}
             less == OpToRel(<, Nat)
  <1>1. others \subseteq Nat /\ m \in others
    OBVIOUS
  <1>2. IsWellFoundedOn(less, Nat)
    BY NatLessThanWellFounded
  <1>3. \A i, j \in Nat : <<i, j>> \in less <=> i < j
    BY DEF OpToRel
  <1> HIDE DEF less
  <1>4. PICK k \in others : \A j \in others : ~ (<<j, k>> \in less)
    BY <1>1, <1>2, WFMin
  <1>5. k # 0 /\ k \in 1 .. N /\ k - 1 \in 0 .. N
    BY <1>4
  <1>6. k - 1 \notin others
    <2>1. <<k - 1, k>> \in less
      BY <1>3, <1>5
    <2> QED BY <1>4, <2>1
  <1> QED BY <1>4, <1>5, <1>6

-----------------------------------------------------------------------------

(* What Max chooses, when there is a greatest element.                     *)
LEMMA MaxIs ==
  ASSUME NEW A \in SUBSET Nat, NEW x \in A, \A y \in A : y <= x
  PROVE  Max(A) = x
  <1>1. \A y \in A : x >= y
    OBVIOUS
  <1>2. ASSUME NEW z \in A, \A y \in A : z >= y PROVE z = x
    <2>1. z >= x /\ x >= z /\ z \in Nat /\ x \in Nat
      BY <1>1, <1>2
    <2>2. QED BY <2>1
  <1>3. QED BY <1>1, <1>2 DEF Max

(* A finite set of numbers has a greatest element.                         *)
LEMMA MaxExists ==
  ASSUME NEW A \in SUBSET Nat, IsFiniteSet(A), A # {}
  PROVE  Max(A) \in A /\ \A y \in A : y <= Max(A)
  <1> DEFINE N == Cardinality(A)
             S == {n \in 0 .. N : \A B \in SUBSET A :
                     Cardinality(B) = n /\ B # {} => \E x \in B : \A y \in B : y <= x}
  <1>0. N \in Nat
    BY FS_CardinalityType
  <1>1. 0 \in S
    <2>1. ASSUME NEW B \in SUBSET A, Cardinality(B) = 0 PROVE B = {}
      <3>1. IsFiniteSet(B)
        BY FS_Subset
      <3>2. QED BY <2>1, <3>1, FS_EmptySet
    <2>2. 0 \in 0 .. N
      BY <1>0
    <2>3. QED BY <2>1, <2>2
  <1>2. ASSUME NEW n \in 1 .. N, n - 1 \in S PROVE n \in S
    <2>1. SUFFICES ASSUME NEW B \in SUBSET A, Cardinality(B) = n, B # {}
                   PROVE  \E x \in B : \A y \in B : y <= x
      BY <1>0
    <2>2. PICK z \in B : TRUE
      BY <2>1
    <2>3. IsFiniteSet(B)
      BY FS_Subset
    <2>4. Cardinality(B \ {z}) = n - 1
      BY <2>1, <2>2, <2>3, FS_RemoveElement
    <2>5. CASE B \ {z} = {}
      BY <2>2, <2>5
    <2>6. CASE B \ {z} # {}
      <3>1. PICK x \in B \ {z} : \A y \in B \ {z} : y <= x
        BY <1>2, <2>4, <2>6
      <3>2. x \in Nat /\ z \in Nat /\ B \subseteq Nat
        OBVIOUS
      <3>3. CASE x <= z
        BY <3>1, <3>2, <3>3, <2>2
      <3>4. CASE z <= x
        BY <3>1, <3>2, <3>4, <2>2
      <3>5. QED BY <3>2, <3>3, <3>4
    <2>7. QED BY <2>5, <2>6
  <1> HIDE DEF S
  <1>3. N \in S
    BY <1>0, <1>1, <1>2, InductionUpTo
  <1>4. PICK x \in A : \A y \in A : y <= x
    BY <1>3 DEF S
  <1>5. QED BY <1>4, MaxIs

(* The greatest of two sets.                                               *)
LEMMA MaxOfUnion ==
  ASSUME NEW A \in SUBSET Nat, NEW B \in SUBSET Nat,
         IsFiniteSet(A), IsFiniteSet(B), A # {}, B # {}
  PROVE  Max({Max(A), Max(B)}) = Max(A \cup B)
  <1> DEFINE a == Max(A)
             b == Max(B)
  <1>1. a \in A /\ b \in B /\ (\A y \in A : y <= a) /\ (\A y \in B : y <= b)
    BY MaxExists
  <1> HIDE DEF a, b
  <1>2. a \in Nat /\ b \in Nat
    BY <1>1
  <1>3. CASE a <= b
    <2>1. Max({a, b}) = b
      BY <1>2, <1>3, MaxIs
    <2>2. \A y \in A \cup B : y <= b
      BY <1>1, <1>2, <1>3
    <2>3. Max(A \cup B) = b
      BY <1>1, <2>2, MaxIs
    <2>4. QED BY <2>1, <2>3 DEF a, b
  <1>4. CASE b <= a
    <2>1. Max({a, b}) = a
      BY <1>2, <1>4, MaxIs
    <2>2. \A y \in A \cup B : y <= a
      BY <1>1, <1>2, <1>4
    <2>3. Max(A \cup B) = a
      BY <1>1, <2>2, MaxIs
    <2>4. QED BY <2>1, <2>3 DEF a, b
  <1>5. QED BY <1>2, <1>3, <1>4

(* Nothing to choose from, but 0, or values some of which are 0 or more.   *)
LEMMA MaxWithZero ==
  ASSUME NEW A \in SUBSET Nat, IsFiniteSet(A), A # {}
  PROVE  Max(A \cup {0}) = Max(A)
  <1> DEFINE x == Max(A)
  <1>1. x \in A /\ (\A y \in A : y <= x)
    BY MaxExists
  <1> HIDE DEF x
  <1>2. x \in A \cup {0} /\ \A y \in A \cup {0} : y <= x
    BY <1>1
  <1>3. A \cup {0} \in SUBSET Nat
    OBVIOUS
  <1>4. Max(A \cup {0}) = x
    BY <1>2, <1>3, MaxIs
  <1>5. QED BY <1>4 DEF x

(* A bag that counts the values of f on T.                                 *)
Tallies(bag, f, T) ==
  /\ IsFiniteSet(T)
  /\ bag = [x \in {f[s] : s \in T} |-> Cardinality({s \in T : f[s] = x})]

(* The empty bag tallies nobody.                                           *)
LEMMA TalliesNothing == ASSUME NEW f PROVE Tallies(EmptyBag, f, {})
  <1>1. IsFiniteSet({})
    BY FS_EmptySet
  <1>2. EmptyBag = [x \in {} |-> 1]
    BY DEF EmptyBag, SetToBag
  <1>3. [x \in {} |-> 1] = [x \in {f[s] : s \in {}} |-> Cardinality({s \in {} : f[s] = x})]
    OBVIOUS
  <1>4. QED BY <1>1, <1>2, <1>3 DEF Tallies

(* NumberSet.insert: one more is tallied.                                  *)
LEMMA TallyAdded ==
  ASSUME NEW bag, NEW f, NEW g, NEW T, NEW s, s \notin T, Tallies(bag, f, T),
         \A t \in T : g[t] = f[t]
  PROVE  Tallies(bag (+) BagOf(g[s]), g, T \cup {s})
  <1> DEFINE x == g[s]
             N(y) == {t \in T : f[t] = y}
             M(y) == {t \in T \cup {s} : g[t] = y}
  <1>1. /\ IsFiniteSet(T) /\ DOMAIN bag = {f[t] : t \in T}
        /\ \A y \in DOMAIN bag : bag[y] = Cardinality(N(y))
    BY DEF Tallies
  <1>2. IsFiniteSet(T \cup {s}) /\ \A y : IsFiniteSet(N(y))
    <2>1. \A y : N(y) \in SUBSET T
      OBVIOUS
    <2>2. QED BY <1>1, <2>1, FS_Subset, FS_AddElement
  <1>3. \A y : M(y) = IF y = x THEN N(y) \cup {s} ELSE N(y)
    OBVIOUS
  <1>4. \A y : Cardinality(M(y)) = Cardinality(N(y)) + (IF y = x THEN 1 ELSE 0)
    <2>1. TAKE y
    <2>2. s \notin N(y) /\ IsFiniteSet(N(y))
      BY <1>2
    <2>3. Cardinality(N(y)) \in Nat /\ Cardinality(N(y) \cup {s}) = Cardinality(N(y)) + 1
      BY <2>2, FS_AddElement, FS_CardinalityType
    <2>4. M(y) = IF y = x THEN N(y) \cup {s} ELSE N(y)
      BY <1>3
    <2> HIDE DEF M, N, x
    <2>5. QED BY <2>3, <2>4
  <1>5. \A y : y \notin DOMAIN bag => Cardinality(N(y)) = 0
    <2>1. \A y : y \notin DOMAIN bag => N(y) = {}
      BY <1>1
    <2>2. QED BY <2>1, FS_EmptySet
  <1>6. {g[t] : t \in T \cup {s}} = DOMAIN bag \cup {x}
    BY <1>1
  <1>7. /\ DOMAIN BagOf(x) = {x} /\ BagOf(x)[x] = 1
    BY DEF BagOf, SetToBag
  <1>8. \A y : Cardinality(N(y)) \in Nat
    BY <1>2, FS_CardinalityType
  <1> DEFINE sum == bag (+) BagOf(x)
  <1>9. sum = [y \in DOMAIN bag \cup {x} |->
                 (IF y \in DOMAIN bag THEN bag[y] ELSE 0)
                 + (IF y \in {x} THEN BagOf(x)[y] ELSE 0)]
    BY <1>7 DEF (+)
  <1>10. ASSUME NEW y \in DOMAIN bag \cup {x}
         PROVE  (IF y \in DOMAIN bag THEN bag[y] ELSE 0) + (IF y \in {x} THEN BagOf(x)[y] ELSE 0)
                  = Cardinality(M(y))
    <2>1. (IF y \in DOMAIN bag THEN bag[y] ELSE 0) = Cardinality(N(y))
      BY <1>1, <1>5
    <2>2. (IF y \in {x} THEN BagOf(x)[y] ELSE 0) = IF y = x THEN 1 ELSE 0
      BY <1>7
    <2> HIDE DEF N, M, x
    <2>3. QED BY <1>4, <2>1, <2>2
  <1> HIDE DEF sum, x, M, N
  <1>11. sum = [y \in DOMAIN bag \cup {x} |-> Cardinality(M(y))]
    BY <1>9, <1>10
  <1>12. QED BY <1>2, <1>6, <1>11 DEF Tallies, sum, x, M

(* NumberSet.remove: one less is tallied.                                  *)
LEMMA TallyRemoved ==
  ASSUME NEW bag, NEW f, NEW T, NEW s \in T, Tallies(bag, f, T)
  PROVE  Tallies(bag (-) BagOf(f[s]), f, T \ {s})
  <1> DEFINE x == f[s]
             N(y) == {t \in T : f[t] = y}
             M(y) == {t \in T \ {s} : f[t] = y}
  <1>1. /\ IsFiniteSet(T) /\ DOMAIN bag = {f[t] : t \in T}
        /\ \A y \in DOMAIN bag : bag[y] = Cardinality(N(y))
    BY DEF Tallies
  <1>2. IsFiniteSet(T \ {s}) /\ \A y : IsFiniteSet(N(y)) /\ IsFiniteSet(M(y))
    <2>1. \A y : N(y) \in SUBSET T /\ M(y) \in SUBSET T
      OBVIOUS
    <2>2. QED BY <1>1, <2>1, FS_Subset, FS_RemoveElement
  <1>3. \A y : M(y) = IF y = x THEN N(y) \ {s} ELSE N(y)
    OBVIOUS
  <1>4. \A y : Cardinality(M(y)) = Cardinality(N(y)) - (IF y = x THEN 1 ELSE 0)
    <2>1. TAKE y
    <2>2. (y = x => s \in N(y)) /\ IsFiniteSet(N(y))
      BY <1>2
    <2>3. /\ Cardinality(N(y)) \in Nat
          /\ y = x => Cardinality(N(y) \ {s}) = Cardinality(N(y)) - 1
      BY <2>2, FS_RemoveElement, FS_CardinalityType
    <2>4. M(y) = IF y = x THEN N(y) \ {s} ELSE N(y)
      BY <1>3
    <2> HIDE DEF M, N, x
    <2>5. QED BY <2>3, <2>4
  <1>5. \A y : Cardinality(M(y)) \in Nat /\ (Cardinality(M(y)) > 0 <=> M(y) # {})
    <2>1. \A y : Cardinality(M(y)) \in Nat /\ (Cardinality(M(y)) = 0 <=> M(y) = {})
      BY <1>2, FS_CardinalityType, FS_EmptySet
    <2> HIDE DEF M
    <2>2. QED BY <2>1
  <1>6. {f[t] : t \in T \ {s}} = {y \in DOMAIN bag : M(y) # {}}
    BY <1>1
  <1>7. DOMAIN BagOf(x) = {x} /\ BagOf(x)[x] = 1
    BY DEF BagOf, SetToBag
  <1> DEFINE less == [y \in DOMAIN bag |-> IF y \in {x} THEN bag[y] - BagOf(x)[y] ELSE bag[y]]
             difference == bag (-) BagOf(x)
  <1>8. difference = [y \in {d \in DOMAIN less : less[d] > 0} |-> less[y]]
    BY <1>7 DEF (-)
  <1>9. ASSUME NEW y \in DOMAIN bag PROVE less[y] = Cardinality(M(y))
    <2>1. less[y] = bag[y] - (IF y = x THEN 1 ELSE 0)
      <3>1. bag[y] \in Nat
        BY <1>1, <1>2, FS_CardinalityType
      <3>2. QED BY <1>7, <3>1
    <2> HIDE DEF less, M, N, x
    <2>2. QED BY <1>1, <1>4, <2>1
  <1>10. DOMAIN less = DOMAIN bag
    OBVIOUS
  <1> HIDE DEF difference, less, x, M, N
  <1>11. {d \in DOMAIN less : less[d] > 0} = {y \in DOMAIN bag : M(y) # {}}
    BY <1>5, <1>9, <1>10
  <1>12. difference = [y \in {f[t] : t \in T \ {s}} |-> Cardinality(M(y))]
    BY <1>6, <1>8, <1>9, <1>10, <1>11
  <1>13. QED BY <1>2, <1>12 DEF Tallies, difference, x, M

(* Only the values of those who are tallied count.                         *)
LEMMA TalliesAlike ==
  ASSUME NEW bag, NEW f, NEW g, NEW T, Tallies(bag, f, T), \A t \in T : g[t] = f[t]
  PROVE  /\ Tallies(bag, g, T)
         /\ Tallies(bag (-) EmptyBag, g, T)
         /\ Tallies(bag (+) EmptyBag, g, T)
  <1> DEFINE N(y) == Cardinality({t \in T : g[t] = y})
             D == {g[t] : t \in T}
  <1>1. IsFiniteSet(T) /\ bag = [x \in {f[s] : s \in T} |-> Cardinality({s \in T : f[s] = x})]
    BY DEF Tallies
  <1>2. D = {f[t] : t \in T} /\ \A y : {t \in T : f[t] = y} = {t \in T : g[t] = y}
    OBVIOUS
  <1>3. bag = [x \in D |-> N(x)]
    BY <1>1, <1>2
  <1>4. \A x \in D : N(x) \in Nat /\ N(x) > 0
    <2>1. TAKE x \in D
    <2> DEFINE M == {t \in T : g[t] = x}
    <2>2. M \in SUBSET T /\ M # {}
      OBVIOUS
    <2> HIDE DEF M
    <2>3. IsFiniteSet(M)
      BY <1>1, <2>2, FS_Subset
    <2>4. Cardinality(M) \in Nat /\ Cardinality(M) # 0
      BY <2>2, <2>3, FS_CardinalityType, FS_EmptySet
    <2>5. QED BY <2>4 DEF M
  <1>5. DOMAIN EmptyBag = {}
    BY DEF EmptyBag, SetToBag
  <1> HIDE DEF D, N
  <1>6. bag (-) EmptyBag = bag
    <2> DEFINE less == [e \in DOMAIN bag |-> IF e \in DOMAIN EmptyBag THEN bag[e] - EmptyBag[e]
                                            ELSE bag[e]]
    <2>1. bag (-) EmptyBag = [e \in {d \in DOMAIN less : less[d] > 0} |-> less[e]]
      BY DEF (-)
    <2>2. less = bag
      BY <1>3, <1>5
    <2> HIDE DEF less
    <2>3. {d \in DOMAIN bag : bag[d] > 0} = D
      BY <1>3, <1>4
    <2>4. QED BY <1>3, <2>1, <2>2, <2>3
  <1>7. bag (+) EmptyBag = bag
    <2>1. bag (+) EmptyBag = [e \in DOMAIN bag \cup {} |->
                                (IF e \in DOMAIN bag THEN bag[e] ELSE 0)
                                + (IF e \in {} THEN EmptyBag[e] ELSE 0)]
      BY <1>5 DEF (+)
    <2>2. DOMAIN bag = D /\ \A e \in D : bag[e] = N(e)
      BY <1>3
    <2>3. \A e \in D : (IF e \in D THEN bag[e] ELSE 0) + (IF e \in {} THEN EmptyBag[e] ELSE 0) = N(e)
      BY <1>4, <2>2
    <2>4. D \cup {} = D
      OBVIOUS
    <2>5. QED BY <1>3, <2>1, <2>2, <2>3, <2>4
  <1>8. Tallies(bag, g, T)
    BY <1>1, <1>3 DEF Tallies, D, N
  <1>9. QED BY <1>6, <1>7, <1>8

-----------------------------------------------------------------------------
(* The order of the changes, and what they say of a submission.            *)

(* Before is a strict total order on the keys.                             *)
LEMMA BeforeIsOrder ==
  ASSUME NEW j \in Key, NEW k \in Key, NEW l \in Key
  PROVE  /\ ~Before(k, k)
         /\ Before(k, l) => ~Before(l, k)
         /\ Before(j, k) /\ Before(k, l) => Before(j, l)
         /\ k # l => Before(k, l) \/ Before(l, k)
  <1>1. /\ Time[j] \in Nat /\ Time[k] \in Nat /\ Time[l] \in Nat
        /\ j \in Nat /\ k \in Nat /\ l \in Nat
    BY RankingScoreAssumption
  <1>2. QED BY <1>1 DEF Before

(* A finite set of keys has a latest one.                                  *)
LEMMA LatestExists ==
  ASSUME NEW A \in SUBSET Key, IsFiniteSet(A), A # {}
  PROVE  \E k \in A : \A l \in A \ {k} : Before(l, k)
  <1> DEFINE N == Cardinality(A)
             S == {n \in 0 .. N : \A B \in SUBSET A :
                     Cardinality(B) = n /\ B # {} => \E k \in B : \A l \in B \ {k} : Before(l, k)}
  <1>0. N \in Nat
    BY FS_CardinalityType
  <1>1. 0 \in S
    <2>1. ASSUME NEW B \in SUBSET A, Cardinality(B) = 0 PROVE B = {}
      <3>1. IsFiniteSet(B)
        BY FS_Subset
      <3>2. QED BY <2>1, <3>1, FS_EmptySet
    <2>2. 0 \in 0 .. N
      BY <1>0
    <2>3. QED BY <2>1, <2>2
  <1>2. ASSUME NEW n \in 1 .. N, n - 1 \in S PROVE n \in S
    <2>1. SUFFICES ASSUME NEW B \in SUBSET A, Cardinality(B) = n, B # {}
                   PROVE  \E k \in B : \A l \in B \ {k} : Before(l, k)
      BY <1>0
    <2>2. PICK z \in B : TRUE
      BY <2>1
    <2>3. IsFiniteSet(B)
      BY FS_Subset
    <2>4. Cardinality(B \ {z}) = n - 1
      BY <2>1, <2>2, <2>3, FS_RemoveElement
    <2>5. CASE B \ {z} = {}
      BY <2>2, <2>5
    <2>6. CASE B \ {z} # {}
      <3>1. PICK x \in B \ {z} : \A y \in (B \ {z}) \ {x} : Before(y, x)
        BY <1>2, <2>4, <2>6
      <3>2. x \in Key /\ z \in Key /\ B \subseteq Key /\ x # z
        OBVIOUS
      <3>3. CASE Before(x, z)
        <4>1. \A y \in B \ {z} : Before(y, z)
          BY <3>1, <3>2, <3>3, BeforeIsOrder
        <4>2. QED BY <4>1, <2>2
      <3>4. CASE Before(z, x)
        <4>1. \A y \in B \ {x} : Before(y, x)
          BY <3>1, <3>4
        <4>2. QED BY <4>1
      <3>5. QED BY <3>2, <3>3, <3>4, BeforeIsOrder
    <2>7. QED BY <2>5, <2>6
  <1> HIDE DEF S
  <1>3. N \in S
    BY <1>0, <1>1, <1>2, InductionUpTo
  <1>4. QED BY <1>3 DEF S

(* Subchanges with the keys K, as they may be in store.                    *)
ContentType == [score : Nat \cup {NoScore}, extra : Seq(Nat), token : BOOLEAN]

Subchanges(sub, K) ==
  /\ K \in SUBSET Key /\ IsFiniteSet(K)
  /\ \A k \in K : sub[k] \in ContentType

Latest(A) == CHOOSE k \in A : \A l \in A \ {k} : Before(l, k)

(* The subchanges with a score of the submission s.                        *)
ScoresOf(sub, s, K) == {k \in Scoring(sub, K) : Of[k] = s}

(* Whatever comes after all the others is the latest.                      *)
LEMMA LatestIs ==
  ASSUME NEW A \in SUBSET Key, NEW k \in A, \A l \in A \ {k} : Before(l, k)
  PROVE  Latest(A) = k
  <1>1. ASSUME NEW j \in A, \A l \in A \ {j} : Before(l, j) PROVE j = k
    <2>1. SUFFICES ASSUME j # k PROVE FALSE
      OBVIOUS
    <2>2. Before(j, k) /\ Before(k, j)
      BY <1>1, <2>1
    <2>3. QED BY <2>2, BeforeIsOrder
  <1>2. QED BY <1>1 DEF Latest

(* The latest key is one of them.                                          *)
LEMMA LatestOf ==
  ASSUME NEW A \in SUBSET Key, IsFiniteSet(A), A # {}
  PROVE  Latest(A) \in A
  BY LatestExists, LatestIs

(* Given, in terms of ScoresOf and Latest.                                 *)
LEMMA GivenIs ==
  ASSUME NEW sub, NEW s, NEW K
  PROVE  LET A == ScoresOf(sub, s, K) IN
         Given(sub, s, K) =
           [score |-> IF A = {} THEN 0 ELSE sub[Latest(A)].score,
            extra |-> IF A = {} THEN <<>> ELSE sub[Latest(A)].extra,
            token |-> \E k \in K : Of[k] = s /\ sub[k].token]
  BY DEF Given, ScoresOf, Latest

(* What a submission was given is a status.                                *)
LEMMA GivenType ==
  ASSUME NEW sub, NEW K, Subchanges(sub, K), NEW s
  PROVE  Given(sub, s, K) \in Status
  <1> DEFINE A == ScoresOf(sub, s, K)
             g == [score |-> IF A = {} THEN 0 ELSE sub[Latest(A)].score,
                   extra |-> IF A = {} THEN <<>> ELSE sub[Latest(A)].extra,
                   token |-> \E k \in K : Of[k] = s /\ sub[k].token]
  <1>1. A \in SUBSET K /\ A \in SUBSET Key /\ IsFiniteSet(A)
    <2>1. A \in SUBSET K
      BY DEF ScoresOf, Scoring
    <2> HIDE DEF A
    <2>2. QED BY <2>1, FS_Subset DEF Subchanges
  <1>2. ASSUME A # {} PROVE sub[Latest(A)].score \in Nat /\ sub[Latest(A)].extra \in Seq(Nat)
    <2> DEFINE k == Latest(A)
    <2>1. k \in A
      BY <1>1, <1>2, LatestOf
    <2> HIDE DEF k
    <2>2. k \in K /\ sub[k].score # NoScore
      BY <2>1 DEF ScoresOf, Scoring
    <2>3. sub[k] \in ContentType
      BY <2>2 DEF Subchanges
    <2>4. QED BY <2>2, <2>3 DEF ContentType, k
  <1> HIDE DEF A
  <1>3. /\ (IF A = {} THEN 0 ELSE sub[Latest(A)].score) \in Nat
        /\ (IF A = {} THEN <<>> ELSE sub[Latest(A)].extra) \in Seq(Nat)
    BY <1>2
  <1>4. (\E k \in K : Of[k] = s /\ sub[k].token) \in BOOLEAN
    BY Zenon
  <1>5. g \in Status
    BY <1>3, <1>4 DEF Status
  <1>6. Given(sub, s, K) = g
    BY GivenIs DEF A
  <1>7. QED BY <1>5, <1>6

(* Nothing is given by no subchange of the submission.                     *)
LEMMA GivenByNone ==
  ASSUME NEW sub, NEW s, NEW K, \A k \in K : Of[k] # s
  PROVE  Given(sub, s, K) = Unscored
  <1>1. ScoresOf(sub, s, K) = {}
    BY DEF ScoresOf, Scoring
  <1>2. (\E k \in K : Of[k] = s /\ sub[k].token) = FALSE
    OBVIOUS
  <1>3. QED BY <1>1, <1>2, GivenIs DEF Unscored

(* Only the subchanges with the keys count.                                *)
LEMMA GivenAlike ==
  ASSUME NEW sub, NEW other, NEW K, Subchanges(sub, K), \A k \in K : sub[k] = other[k], NEW s
  PROVE  /\ Given(sub, s, K) = Given(other, s, K)
         /\ IsLastSubmission(sub, s, K) <=> IsLastSubmission(other, s, K)
  <1>1. Scoring(sub, K) = Scoring(other, K)
    BY DEF Scoring
  <1>2. IsLastSubmission(sub, s, K) <=> IsLastSubmission(other, s, K)
    BY <1>1 DEF IsLastSubmission
  <1> DEFINE A == ScoresOf(sub, s, K)
             k == Latest(A)
  <1>3. A = ScoresOf(other, s, K)
    BY <1>1 DEF ScoresOf
  <1>4. (\E l \in K : Of[l] = s /\ sub[l].token) = (\E l \in K : Of[l] = s /\ other[l].token)
    OBVIOUS
  <1>5. A # {} => sub[k] = other[k]
    <2>1. A \in SUBSET K
      BY DEF ScoresOf, Scoring
    <2>2. A \in SUBSET Key /\ IsFiniteSet(A)
      BY <2>1, FS_Subset DEF Subchanges
    <2>3. A # {} => k \in A
      BY <2>2, LatestOf
    <2>4. QED BY <2>1, <2>3
  <1> HIDE DEF A, k
  <1>6. /\ Given(sub, s, K) = [score |-> IF A = {} THEN 0 ELSE sub[k].score,
                               extra |-> IF A = {} THEN <<>> ELSE sub[k].extra,
                               token |-> \E l \in K : Of[l] = s /\ sub[l].token]
        /\ Given(other, s, K) = [score |-> IF A = {} THEN 0 ELSE other[k].score,
                                 extra |-> IF A = {} THEN <<>> ELSE other[k].extra,
                                 token |-> \E l \in K : Of[l] = s /\ other[l].token]
    BY <1>3, GivenIs DEF A, k
  <1>7. Given(sub, s, K) = Given(other, s, K)
    <2>1. /\ (IF A = {} THEN 0 ELSE sub[k].score) = (IF A = {} THEN 0 ELSE other[k].score)
          /\ (IF A = {} THEN <<>> ELSE sub[k].extra) = (IF A = {} THEN <<>> ELSE other[k].extra)
      BY <1>5
    <2> DEFINE rec(x, y, z) == [score |-> x, extra |-> y, token |-> z]
               x == IF A = {} THEN 0 ELSE sub[k].score
               y == IF A = {} THEN <<>> ELSE sub[k].extra
               z == \E l \in K : Of[l] = s /\ sub[l].token
               u == IF A = {} THEN 0 ELSE other[k].score
               v == IF A = {} THEN <<>> ELSE other[k].extra
               w == \E l \in K : Of[l] = s /\ other[l].token
    <2>2. Given(sub, s, K) = rec(x, y, z) /\ Given(other, s, K) = rec(u, v, w)
      BY <1>6
    <2>3. x = u /\ y = v /\ z = w
      BY <1>4, <2>1
    <2> HIDE DEF rec, x, y, z, u, v, w
    <2>4. QED BY <2>2, <2>3
  <1>8. QED BY <1>2, <1>7

(* What a change of another submission does to what a submission was given.*)
LEMMA GivenOther ==
  ASSUME NEW sub, NEW K, NEW k, NEW s, Of[k] # s
  PROVE  Given(sub, s, K \cup {k}) = Given(sub, s, K)
  <1>1. ScoresOf(sub, s, K \cup {k}) = ScoresOf(sub, s, K)
    BY DEF ScoresOf, Scoring
  <1> DEFINE T == \E l \in K : Of[l] = s /\ sub[l].token
             U == \E l \in K \cup {k} : Of[l] = s /\ sub[l].token
             A == ScoresOf(sub, s, K)
  <1>2. U = T
    OBVIOUS
  <1>3. /\ Given(sub, s, K) = [score |-> IF A = {} THEN 0 ELSE sub[Latest(A)].score,
                               extra |-> IF A = {} THEN <<>> ELSE sub[Latest(A)].extra,
                               token |-> T]
        /\ Given(sub, s, K \cup {k}) =
             [score |-> IF A = {} THEN 0 ELSE sub[Latest(A)].score,
              extra |-> IF A = {} THEN <<>> ELSE sub[Latest(A)].extra,
              token |-> U]
    BY <1>1, GivenIs
  <1> HIDE DEF T, U, A
  <1>4. QED BY <1>2, <1>3

(* What the latest change does to what its submission was given.           *)
Renewed(st, x) ==
  [score |-> IF x.score # NoScore THEN x.score ELSE st.score,
   extra |-> IF x.score # NoScore THEN x.extra ELSE st.extra,
   token |-> st.token \/ x.token]

(* Its submission is given what it says.                                   *)
LEMMA GivenNext ==
  ASSUME NEW sub, NEW K, NEW k \in Key, k \notin K, Subchanges(sub, K \cup {k}),
         \A l \in K : Before(l, k), NEW s, s = Of[k]
  PROVE  Given(sub, s, K \cup {k}) = Renewed(Given(sub, s, K), sub[k])
  <1> DEFINE A == ScoresOf(sub, s, K)
             B == ScoresOf(sub, s, K \cup {k})
             T == \E l \in K : Of[l] = s /\ sub[l].token
             U == \E l \in K \cup {k} : Of[l] = s /\ sub[l].token
             scored == sub[k].score # NoScore
  <1>1. /\ Given(sub, s, K) = [score |-> IF A = {} THEN 0 ELSE sub[Latest(A)].score,
                               extra |-> IF A = {} THEN <<>> ELSE sub[Latest(A)].extra,
                               token |-> T]
        /\ Given(sub, s, K \cup {k}) =
             [score |-> IF B = {} THEN 0 ELSE sub[Latest(B)].score,
              extra |-> IF B = {} THEN <<>> ELSE sub[Latest(B)].extra,
              token |-> U]
    BY GivenIs
  <1>2. B = IF s = Of[k] /\ scored THEN A \cup {k} ELSE A
    BY DEF ScoresOf, Scoring
  <1>3. U = (T \/ (s = Of[k] /\ sub[k].token))
    OBVIOUS
  <1>4. s = Of[k] /\ scored => B # {} /\ Latest(B) = k
    <2>1. SUFFICES ASSUME s = Of[k], scored PROVE B # {} /\ Latest(B) = k
      OBVIOUS
    <2>2. B = A \cup {k}
      BY <1>2, <2>1
    <2>3. A \subseteq K /\ K \subseteq Key
      BY DEF ScoresOf, Scoring, Subchanges
    <2> HIDE DEF A, B
    <2>4. B \in SUBSET Key /\ k \in B /\ \A l \in B \ {k} : Before(l, k)
      BY <2>2, <2>3
    <2>5. QED BY <2>4, LatestIs
  <1> HIDE DEF A, B, T, U, scored
  <1>5. s = Of[k]
    OBVIOUS
  <1>6. Given(sub, s, K \cup {k}) =
                 [score |-> IF scored THEN sub[k].score ELSE Given(sub, s, K).score,
                  extra |-> IF scored THEN sub[k].extra ELSE Given(sub, s, K).extra,
                  token |-> Given(sub, s, K).token \/ sub[k].token]
    <2>1. U = (Given(sub, s, K).token \/ sub[k].token)
      <3>1. Given(sub, s, K).token = T
        BY <1>1
      <3>2. QED BY Zenon, <3>1, <1>3, <1>5
    <2>2. CASE scored
      BY <1>1, <1>4, <1>5, <2>1, <2>2
    <2>3. CASE ~scored
      <3>1. B = A
        BY <1>2, <2>3
      <3>2. QED BY <1>1, <2>1, <2>3, <3>1
    <2>4. QED BY <2>2, <2>3
  <1>7. QED BY <1>6 DEF scored, Renewed

(* The same of the latest submission with a score.                         *)
LastIs(sub, S, K, last) ==
  IF Scoring(sub, K) = {} THEN last = NoSubmission
  ELSE last \in S /\ IsLastSubmission(sub, last, K)

(* The last submission, after the latest change: what the comparison of    *)
(* times in append_change makes of it.                                     *)
LEMMA LastNext ==
  ASSUME NEW sub, NEW S \in SUBSET Submission, NEW K, NEW k \in Key, k \notin K,
         Subchanges(sub, K \cup {k}), \A l \in K : Before(l, k),
         Of[k] \in S, NEW last, LastIs(sub, S, K, last)
  PROVE  LastIs(sub, S, K \cup {k},
                IF /\ sub[k].score # NoScore
                   /\ last = NoSubmission \/ SubmittedAt[Of[k]] > SubmittedAt[last]
                THEN Of[k] ELSE last)
  <1> DEFINE L == K \cup {k}
             s == Of[k]
             scored == sub[k].score # NoScore
  <1>1. Scoring(sub, L) = IF scored THEN Scoring(sub, K) \cup {k} ELSE Scoring(sub, K)
    BY DEF Scoring
  <1>2. /\ Scoring(sub, K) \subseteq K /\ K \subseteq Key
        /\ \A l \in Key : Of[l] \in Submission /\ SubmittedAt[Of[l]] \in Nat
    BY RankingScoreAssumption DEF Scoring, Subchanges
  <1>3. NoSubmission \notin S
    BY RankingScoreAssumption
  <1> HIDE DEF L, s, scored
  <1>4. CASE ~scored
    <2>1. Scoring(sub, L) = Scoring(sub, K)
      BY <1>1, <1>4
    <2>2. LastIs(sub, S, L, last)
      BY <2>1 DEF LastIs, IsLastSubmission
    <2>3. QED BY <1>4, <2>2 DEF L, scored
  <1>5. CASE scored /\ Scoring(sub, K) = {}
    <2>1. Scoring(sub, L) = {k} /\ last = NoSubmission
      BY <1>1, <1>5 DEF LastIs
    <2>2. LastIs(sub, S, L, s)
      BY <2>1 DEF LastIs, IsLastSubmission, s
    <2>3. QED BY <1>5, <2>1, <2>2 DEF L, s, scored
  <1>6. CASE scored /\ Scoring(sub, K) # {}
    <2>1. last \in S /\ last # NoSubmission
      BY <1>3, <1>6 DEF LastIs
    <2>2. PICK j \in Scoring(sub, K) :
            /\ Of[j] = last
            /\ \A l \in Scoring(sub, K) :
                 \/ SubmittedAt[Of[l]] < SubmittedAt[last]
                 \/ SubmittedAt[Of[l]] = SubmittedAt[last] /\ (Of[l] = last \/ Before(j, l))
      BY <1>6 DEF LastIs, IsLastSubmission
    <2>3. Scoring(sub, L) = Scoring(sub, K) \cup {k}
      BY <1>1, <1>6
    <2>4. SubmittedAt[s] \in Nat /\ SubmittedAt[last] \in Nat
      BY <1>2, <2>2 DEF s
    <2>5. CASE SubmittedAt[s] > SubmittedAt[last]
      <3>1. ASSUME NEW l \in Scoring(sub, L)
            PROVE  SubmittedAt[Of[l]] < SubmittedAt[s] \/ Of[l] = s
        <4>1. CASE l = k
          BY <4>1 DEF s
        <4>2. CASE l \in Scoring(sub, K)
          <5>1. SubmittedAt[Of[l]] \in Nat /\ SubmittedAt[Of[l]] <= SubmittedAt[last]
            BY <1>2, <2>2, <2>4, <4>2
          <5>2. QED BY <5>1, <2>4, <2>5
        <4>3. QED BY <2>3, <4>1, <4>2
      <3>2. k \in Scoring(sub, L)
        BY <2>3
      <3>3. IsLastSubmission(sub, s, L)
        BY <3>1, <3>2 DEF IsLastSubmission, s
      <3>4. LastIs(sub, S, L, s)
        BY <3>2, <3>3 DEF LastIs, s
      <3>5. QED BY <1>6, <2>5, <3>4 DEF L, s, scored
    <2>6. CASE ~(SubmittedAt[s] > SubmittedAt[last])
      <3>1. SubmittedAt[s] < SubmittedAt[last] \/ SubmittedAt[s] = SubmittedAt[last]
        BY <2>4, <2>6
      <3>2. Before(j, k)
        BY <1>2, <2>2
      <3>3. ASSUME NEW l \in Scoring(sub, L)
            PROVE \/ SubmittedAt[Of[l]] < SubmittedAt[last]
                  \/ SubmittedAt[Of[l]] = SubmittedAt[last] /\ (Of[l] = last \/ Before(j, l))
        <4>1. CASE l = k
          BY <3>1, <3>2, <4>1 DEF s
        <4>2. CASE l \in Scoring(sub, K)
          BY <2>2, <4>2
        <4>3. QED BY <2>3, <4>1, <4>2
      <3>4. j \in Scoring(sub, L)
        BY <2>3
      <3>5. IsLastSubmission(sub, last, L)
        BY <2>2, <3>3, <3>4 DEF IsLastSubmission
      <3>6. LastIs(sub, S, L, last)
        BY <2>1, <3>4, <3>5 DEF LastIs
      <3>7. QED BY <2>1, <2>6, <3>6 DEF L, s, scored
    <2>7. QED BY <2>5, <2>6
  <1>7. QED BY <1>4, <1>5, <1>6

(* There is one.                                                           *)
LEMMA OneLast ==
  ASSUME NEW sub, NEW K, Subchanges(sub, K), NEW s, NEW t,
         IsLastSubmission(sub, s, K), IsLastSubmission(sub, t, K)
  PROVE  s = t
  <1>1. PICK j \in Scoring(sub, K) :
          /\ Of[j] = s
          /\ \A l \in Scoring(sub, K) :
               \/ SubmittedAt[Of[l]] < SubmittedAt[s]
               \/ SubmittedAt[Of[l]] = SubmittedAt[s] /\ (Of[l] = s \/ Before(j, l))
    BY DEF IsLastSubmission
  <1>2. PICK k \in Scoring(sub, K) :
          /\ Of[k] = t
          /\ \A l \in Scoring(sub, K) :
               \/ SubmittedAt[Of[l]] < SubmittedAt[t]
               \/ SubmittedAt[Of[l]] = SubmittedAt[t] /\ (Of[l] = t \/ Before(k, l))
    BY DEF IsLastSubmission
  <1>3. j \in Key /\ k \in Key
    BY DEF Scoring, Subchanges
  <1>4. SubmittedAt[s] \in Nat /\ SubmittedAt[t] \in Nat
    BY <1>1, <1>2, <1>3, RankingScoreAssumption
  <1>5. SubmittedAt[s] = SubmittedAt[t]
    BY <1>1, <1>2, <1>4
  <1>6. SUFFICES ASSUME s # t PROVE FALSE
    OBVIOUS
  <1>7. Before(j, k) /\ Before(k, j)
    BY <1>1, <1>2, <1>4, <1>5, <1>6
  <1>8. QED BY <1>3, <1>7, BeforeIsOrder

-----------------------------------------------------------------------------
(* The score by its mode.                                                  *)

(* The sum over one subtask.                                               *)
LEMMA SumOfOne == ASSUME NEW x \in Nat PROVE SumFunction([i \in 1..1 |-> x]) = x
  <1> DEFINE f == [i \in 1..1 |-> x]
             next(g, s) == IF s = {} THEN 0
                           ELSE LET y == CHOOSE e \in s : TRUE IN f[y] + g[s \ {y}]
             iter == CHOOSE g : g = [s \in SUBSET (1..1) |-> next(g, s)]
  <1>1. SumFunction(f) = iter[1..1]
    BY DEF SumFunction, SumFunctionOnSet, FoldFunctionOnSet, MapThenFoldSet
  <1>2. 1..1 = {1} /\ SUBSET (1..1) = {{}, {1}}
    OBVIOUS
  <1> DEFINE h == [s \in SUBSET (1..1) |-> IF s = {} THEN 0 ELSE x]
  <1>3. h = [s \in SUBSET (1..1) |-> next(h, s)]
    <2>1. next(h, {}) = 0
      OBVIOUS
    <2>2. next(h, {1}) = x
      <3>1. (CHOOSE e \in {1} : TRUE) = 1
        OBVIOUS
      <3>2. f[1] = x /\ {1} \ {1} = {} /\ h[{}] = 0
        OBVIOUS
      <3>3. QED BY <3>1, <3>2
    <2>3. \A s \in SUBSET (1..1) : h[s] = next(h, s)
      BY <1>2, <2>1, <2>2
    <2>4. QED BY <2>3
  <1> HIDE DEF next
  <1>4. iter = [s \in SUBSET (1..1) |-> next(iter, s)]
    BY Zenon, <1>3
  <1>5. iter[{}] = 0 /\ iter[{1}] = f[1] + iter[{}]
    <2>1. iter[{}] = next(iter, {}) /\ iter[{1}] = next(iter, {1})
      BY <1>2, <1>4
    <2>2. (CHOOSE e \in {1} : TRUE) = 1 /\ {1} \ {1} = {} /\ {1} # {}
      OBVIOUS
    <2>3. QED BY <2>1, <2>2 DEF next
  <1>6. QED BY <1>1, <1>2, <1>5

(* The scores of subtasks are numbers.                                     *)
LEMMA SubtaskType ==
  ASSUME NEW st \in Status
  PROVE  /\ Len(Extra(st)) \in Nat \ {0}
         /\ \A i : Subtask(st, i) \in Nat
  <1>1. st.score \in Nat /\ st.extra \in Seq(Nat)
    BY DEF Status
  <1>2. Extra(st) \in Seq(Nat) /\ Extra(st) # <<>>
    BY <1>1 DEF Extra
  <1>3. Len(Extra(st)) \in Nat /\ Len(Extra(st)) # 0
    BY <1>2
  <1>4. \A i : Subtask(st, i) \in Nat
    BY <1>2 DEF Subtask
  <1>5. QED BY <1>3, <1>4

(* A submission without score has 0 in its one subtask.                    *)
LEMMA UnscoredSubtasks ==
  /\ Unscored \in Status
  /\ Len(Extra(Unscored)) = 1
  /\ \A i : Subtask(Unscored, i) = 0
  <1>1. Unscored \in Status
    BY DEF Unscored, Status
  <1>2. Extra(Unscored) = <<0>>
    BY DEF Unscored, Extra
  <1>3. QED BY <1>1, <1>2 DEF Subtask

(* The image of a finite set is finite.                                    *)
LEMMA FiniteImage ==
  ASSUME NEW S, IsFiniteSet(S), NEW f
  PROVE  IsFiniteSet({f[s] : s \in S})
  <1> DEFINE g == [s \in S |-> f[s]]
  <1>1. g \in Surjection(S, {f[s] : s \in S})
    BY DEF Surjection
  <1>2. QED BY <1>1, FS_Surjection

(* A submission without a score adds nothing to the sum over subtasks.     *)
LEMMA UnscoredAddsNothing ==
  ASSUME NEW A \in SUBSET Status, IsFiniteSet(A), A # {}
  PROVE  BySubtask(A \cup {Unscored}) = BySubtask(A)
  <1> DEFINE B == A \cup {Unscored}
             best(X, i) == Max({Subtask(st, i) : st \in X})
             width(X) == Max({Len(Extra(st)) : st \in X})
  <1>1. width(B) = width(A)
    <2> DEFINE W == {Len(Extra(st)) : st \in A}
               f == [st \in A |-> Len(Extra(st))]
    <2>1. W = {f[st] : st \in A}
      OBVIOUS
    <2>2. IsFiniteSet(W) /\ W # {} /\ W \in SUBSET (Nat \ {0})
      <3>1. W # {} /\ W \in SUBSET (Nat \ {0})
        BY SubtaskType
      <3> HIDE DEF W, f
      <3>2. QED BY <2>1, <3>1, FiniteImage
    <2>3. {Len(Extra(st)) : st \in B} = W \cup {1}
      BY UnscoredSubtasks
    <2> HIDE DEF W
    <2>4. Max(W) \in W /\ \A y \in W : y <= Max(W)
      BY <2>2, MaxExists
    <2>5. Max(W) \in W \cup {1} /\ \A y \in W \cup {1} : y <= Max(W)
      <3>0. \A y \in W : 1 <= y
        BY <2>2
      <3>1. 1 <= Max(W)
        BY <2>4, <3>0
      <3>2. QED BY <2>4, <3>1
    <2>6. W \cup {1} \in SUBSET Nat
      BY <2>2
    <2>7. Max(W \cup {1}) = Max(W)
      BY <2>5, <2>6, MaxIs
    <2>8. QED BY <2>3, <2>7 DEF W
  <1>2. \A i : best(B, i) = best(A, i)
    <2>1. TAKE i
    <2> DEFINE V == {Subtask(st, i) : st \in A}
               f == [st \in A |-> Subtask(st, i)]
    <2>2. V = {f[st] : st \in A}
      OBVIOUS
    <2>3. IsFiniteSet(V) /\ V # {} /\ V \in SUBSET Nat
      <3>1. V # {} /\ V \in SUBSET Nat
        BY SubtaskType
      <3> HIDE DEF V, f
      <3>2. QED BY <2>2, <3>1, FiniteImage
    <2>4. {Subtask(st, i) : st \in B} = V \cup {0}
      BY UnscoredSubtasks
    <2> HIDE DEF V
    <2>5. Max(V \cup {0}) = Max(V)
      BY <2>3, MaxWithZero
    <2>6. QED BY <2>4, <2>5 DEF V
  <1>3. BySubtask(B) = SumFunction([i \in 1..width(B) |-> best(B, i)])
    BY DEF BySubtask
  <1>4. BySubtask(A) = SumFunction([i \in 1..width(A) |-> best(A, i)])
    BY DEF BySubtask
  <1> HIDE DEF best, width
  <1>5. [i \in 1..width(B) |-> best(B, i)] = [i \in 1..width(A) |-> best(A, i)]
    BY <1>1, <1>2
  <1>6. QED BY <1>3, <1>4, <1>5

(* Submissions without score add up to 0.                                  *)
LEMMA UnscoredSumIsZero == BySubtask({Unscored}) = 0
  <1>1. {Len(Extra(st)) : st \in {Unscored}} = {1} /\ Max({1}) = 1
    BY UnscoredSubtasks, MaxIs
  <1>2. \A i : Max({Subtask(st, i) : st \in {Unscored}}) = 0
    <2>1. \A i : {Subtask(st, i) : st \in {Unscored}} = {0}
      BY UnscoredSubtasks
    <2>2. Max({0}) = 0
      BY MaxIs
    <2>3. QED BY <2>1, <2>2
  <1>3. BySubtask({Unscored}) = SumFunction([i \in 1..1 |-> 0])
    <2> DEFINE best(i) == Max({Subtask(st, i) : st \in {Unscored}})
    <2>1. BySubtask({Unscored}) = SumFunction([i \in 1..1 |-> best(i)])
      BY <1>1 DEF BySubtask
    <2>2. \A i : best(i) = 0
      BY <1>2
    <2> HIDE DEF best
    <2>3. [i \in 1..1 |-> best(i)] = [i \in 1..1 |-> 0]
      BY <2>2
    <2>4. QED BY <2>1, <2>3
  <1>4. QED BY <1>3, SumOfOne

(* The submissions S with subchanges that are theirs.                      *)
Stored(S, sub, K) ==
  /\ Subchanges(sub, K)
  /\ S \in SUBSET Submission /\ IsFiniteSet(S)
  /\ \A k \in K : Of[k] \in S

(* The released scores, of submissions with statuses st.                   *)
ReleasedIs(bag, S, st) == Tallies(bag, [s \in S |-> st[s].score], {s \in S : st[s].token})

(* The score the code computes from the statuses, the released scores and  *)
(* the last submission is the one by definition, when these are right.     *)
LEMMA ScoreNowIs ==
  ASSUME NEW S, NEW sub, NEW K, Stored(S, sub, K), S # {}, NEW m \in ScoreMode, NEW sc,
         sc.status = [s \in S |-> Given(sub, s, K)],
         ReleasedIs(sc.released, S, sc.status),
         LastIs(sub, S, K, sc.last)
  PROVE  ScoreNow(sc, m) = ByDefinition(S, sub, K, m)
  <1> DEFINE given == [s \in S |-> Given(sub, s, K)]
             all == {given[s] : s \in S}
             counts(s) == m = "max" \/ Given(sub, s, K).token \/ IsLastSubmission(sub, s, K)
             scores == {given[s].score : s \in {t \in S : counts(t)}}
  <1>1. given \in [S -> Status] /\ \A s \in S : given[s] = Given(sub, s, K)
    BY GivenType DEF Stored
  <1>2. {sc.status[s] : s \in DOMAIN sc.status} = all
    OBVIOUS
  <1>3. ByDefinition(S, sub, K, m) = IF m = "max_subtask" THEN BySubtask(all) ELSE Max(scores \cup {0})
    <2>1. {Given(sub, s, K) : s \in S} = all
      OBVIOUS
    <2>2. {Given(sub, s, K).score : s \in {t \in S : counts(t)}} = scores
      OBVIOUS
    <2> HIDE DEF all, scores
    <2>3. QED BY <2>1, <2>2 DEF ByDefinition
  <1>4. CASE m = "max_subtask"
    <2>1. ScoreNow(sc, m) = BySubtask(all)
      BY <1>2, <1>4 DEF ScoreNow
    <2>2. QED BY <1>3, <1>4, <2>1
  <1>5. CASE m = "max"
    <2> DEFINE A == {given[s].score : s \in S}
    <2>1. scores = A
      BY <1>5
    <2>2. {st.score : st \in all} = A
      OBVIOUS
    <2>3. ScoreNow(sc, m) = Max(A)
      BY <1>2, <1>5, <2>2 DEF ScoreNow
    <2>4. A \in SUBSET Nat /\ A # {} /\ IsFiniteSet(A)
      <3> DEFINE f == [s \in S |-> given[s].score]
      <3>1. A = {f[s] : s \in S} /\ A # {} /\ A \in SUBSET Nat
        BY <1>1 DEF Status
      <3>2. IsFiniteSet(S)
        BY DEF Stored
      <3> HIDE DEF A, f
      <3>3. QED BY <3>1, <3>2, FiniteImage
    <2> HIDE DEF A
    <2>5. Max(A \cup {0}) = Max(A)
      BY <2>4, MaxWithZero
    <2>6. QED BY <1>3, <1>5, <2>1, <2>3, <2>5
  <1>6. CASE m = "max_tokened_last"
    <2> DEFINE T == {s \in S : given[s].token}
               f == [s \in S |-> given[s].score]
               R == {f[s] : s \in T}
               x == IF sc.last = NoSubmission THEN 0 ELSE given[sc.last].score
    <2>1. BagToSet(sc.released) = R
      <3>1. Tallies(sc.released, f, T)
        BY DEF ReleasedIs
      <3> HIDE DEF f, T
      <3>2. QED BY <3>1 DEF Tallies, BagToSet
    <2>2. R \in SUBSET Nat /\ IsFiniteSet(R)
      <3>1. T \in SUBSET S /\ IsFiniteSet(S)
        BY DEF Stored
      <3>2. IsFiniteSet(T)
        BY <3>1, FS_Subset
      <3>3. \A s \in T : f[s] \in Nat
        BY <1>1 DEF Status
      <3> HIDE DEF f, T
      <3>4. QED BY <3>2, <3>3, FiniteImage
    <2>3. x \in Nat
      <3>1. sc.last # NoSubmission => sc.last \in S
        BY DEF LastIs
      <3>2. QED BY <1>1, <3>1 DEF Status
    <2>4. ScoreNow(sc, m) = Max({Max(R \cup {0}), x})
      <3>1. ScoreNow(sc, m) = Max({Query(sc.released),
                                   IF sc.last = NoSubmission THEN 0 ELSE sc.status[sc.last].score})
        BY <1>6 DEF ScoreNow
      <3>2. Query(sc.released) = Max(R \cup {0})
        BY <2>1 DEF Query
      <3>3. (IF sc.last = NoSubmission THEN 0 ELSE sc.status[sc.last].score) = x
        OBVIOUS
      <3> HIDE DEF R, x
      <3>4. QED BY <3>1, <3>2, <3>3
    <2>5. scores \cup {0} = (R \cup {0}) \cup {x}
      <3>1. CASE Scoring(sub, K) = {}
        <4>1. sc.last = NoSubmission /\ \A s : ~IsLastSubmission(sub, s, K)
          BY <3>1 DEF LastIs, IsLastSubmission
        <4>2. x = 0 /\ scores = R
          BY <1>6, <4>1
        <4>3. QED BY <4>2
      <3>2. CASE Scoring(sub, K) # {}
        <4>1. sc.last \in S /\ IsLastSubmission(sub, sc.last, K)
          BY <3>2 DEF LastIs
        <4>2. \A s : IsLastSubmission(sub, s, K) => s = sc.last
          BY <4>1, OneLast DEF Stored
        <4>3. sc.last # NoSubmission
          BY <4>1, RankingScoreAssumption DEF Stored
        <4>4. {s \in S : counts(s)} = T \cup {sc.last}
          BY <1>1, <1>6, <4>1, <4>2
        <4>5. scores = {f[s] : s \in T \cup {sc.last}}
          BY <4>4
        <4>6. x = f[sc.last]
          BY <4>1, <4>3
        <4> HIDE DEF scores, f, x
        <4>7. QED BY <4>5, <4>6
      <3>3. QED BY <3>1, <3>2
    <2> HIDE DEF R, x, scores, T, f
    <2>6. Max({x}) = x
      BY <2>3, MaxIs
    <2>7. Max({Max(R \cup {0}), Max({x})}) = Max((R \cup {0}) \cup {x})
      <3>1. IsFiniteSet(R \cup {0}) /\ IsFiniteSet({x})
        BY <2>2, FS_AddElement, FS_Singleton
      <3>2. R \cup {0} \in SUBSET Nat /\ {x} \in SUBSET Nat /\ R \cup {0} # {} /\ {x} # {}
        BY <2>2, <2>3
      <3>3. QED BY <3>1, <3>2, MaxOfUnion
    <2>8. QED BY <1>3, <1>6, <2>4, <2>5, <2>6, <2>7
  <1>7. QED BY <1>4, <1>5, <1>6 DEF ScoreMode

(* The released scores after a change of the status of s from old to new.  *)
LEMMA ReleasedNext ==
  ASSUME NEW bag, NEW S, NEW s \in S, NEW st, NEW new, ReleasedIs(bag, S, st),
         DOMAIN st = S
  PROVE  ReleasedIs(Released(bag, st[s], new), S, [st EXCEPT ![s] = new])
  <1> DEFINE now == [st EXCEPT ![s] = new]
             f == [t \in S |-> st[t].score]
             g == [t \in S |-> now[t].score]
             T == {t \in S : st[t].token}
             U == {t \in S : now[t].token}
             less == bag (-) (IF st[s].token THEN BagOf(st[s].score) ELSE EmptyBag)
             full == less (+) (IF new.token THEN BagOf(new.score) ELSE EmptyBag)
  <1>1. Tallies(bag, f, T)
    BY DEF ReleasedIs
  <1>2. /\ f[s] = st[s].score /\ g[s] = new.score
        /\ \A t \in T \ {s} : g[t] = f[t]
        /\ s \in T <=> st[s].token
        /\ U = IF new.token THEN (T \ {s}) \cup {s} ELSE T \ {s}
    OBVIOUS
  <1>3. Released(bag, st[s], new) = full
    BY DEF Released
  <1> HIDE DEF f, g, T, U
  <1>4. Tallies(less, f, T \ {s})
    <2>1. CASE st[s].token
      <3>1. Tallies(bag (-) BagOf(f[s]), f, T \ {s})
        BY <1>1, <1>2, <2>1, TallyRemoved
      <3>2. less = bag (-) BagOf(f[s])
        BY <1>2, <2>1
      <3>3. QED BY <3>1, <3>2
    <2>2. CASE ~st[s].token
      <3>1. T \ {s} = T /\ less = bag (-) EmptyBag
        BY <1>2, <2>2
      <3>2. Tallies(bag (-) EmptyBag, f, T)
        BY <1>1, TalliesAlike
      <3>3. QED BY <3>1, <3>2
    <2>3. QED BY <2>1, <2>2
  <1>5. Tallies(full, g, U)
    <2> HIDE DEF less
    <2>1. CASE new.token
      <3>1. s \notin T \ {s}
        OBVIOUS
      <3>2. Tallies(less (+) BagOf(g[s]), g, (T \ {s}) \cup {s})
        BY <1>2, <1>4, <3>1, TallyAdded
      <3>3. full = less (+) BagOf(g[s]) /\ U = (T \ {s}) \cup {s}
        BY <1>2, <2>1
      <3>4. QED BY <3>2, <3>3
    <2>2. CASE ~new.token
      <3>1. U = T \ {s} /\ full = less (+) EmptyBag
        BY <1>2, <2>2
      <3>2. Tallies(less (+) EmptyBag, g, T \ {s})
        BY <1>2, <1>4, TalliesAlike
      <3>3. QED BY <3>1, <3>2
    <2>3. QED BY <2>1, <2>2
  <1>6. QED BY <1>3, <1>5 DEF ReleasedIs, g, U

-----------------------------------------------------------------------------
(* The history by definition.                                              *)

(* How many keys of A come before k.                                       *)
Rank(k, A) == Cardinality({l \in A : Before(l, k)})
Nth(i, A) == CHOOSE k \in A : Rank(k, A) = i - 1

(* The history by definition, in terms of Nth.                             *)
LEMMA HistoryIs ==
  ASSUME NEW S, NEW sub, NEW K, NEW m
  PROVE  LET keys == ScoreChanges(S, sub, K, m) IN
         HistoryByDefinition(S, sub, K, m) =
           [i \in 1 .. Cardinality(keys) |->
              <<Time[Nth(i, keys)], ByDefinition(S, sub, UpTo(Nth(i, keys), K), m)>>]
  BY DEF HistoryByDefinition, Nth, Rank

(* Ranks do not change when a later key is added, which has the last one.  *)
LEMMA RankNext ==
  ASSUME NEW A \in SUBSET Key, IsFiniteSet(A), NEW k \in Key, k \notin A,
         \A l \in A : Before(l, k)
  PROVE  /\ \A l \in A : Rank(l, A \cup {k}) = Rank(l, A) /\ Rank(l, A) < Cardinality(A)
         /\ Rank(k, A \cup {k}) = Cardinality(A)
  <1>1. ASSUME NEW l \in A
        PROVE  Rank(l, A \cup {k}) = Rank(l, A) /\ Rank(l, A) < Cardinality(A)
    <2> DEFINE B == {j \in A : Before(j, l)}
    <2>1. {j \in A \cup {k} : Before(j, l)} = B
      BY BeforeIsOrder
    <2>2. B \in SUBSET A /\ B # A
      BY BeforeIsOrder
    <2> HIDE DEF B
    <2>3. Cardinality(B) <= Cardinality(A) /\ Cardinality(B) # Cardinality(A) /\ IsFiniteSet(B)
      BY <2>2, FS_Subset
    <2>4. Cardinality(A) \in Nat /\ Cardinality(B) \in Nat
      BY <2>3, FS_CardinalityType
    <2>5. QED BY <2>1, <2>3, <2>4 DEF Rank, B
  <1>2. {j \in A \cup {k} : Before(j, k)} = A
    BY BeforeIsOrder
  <1>3. QED BY <1>1, <1>2 DEF Rank

(* A key after all the others takes the next rank and moves none.          *)
LEMMA NthNext ==
  ASSUME NEW A \in SUBSET Key, IsFiniteSet(A), NEW k \in Key, k \notin A,
         \A l \in A : Before(l, k)
  PROVE  /\ \A i \in 1 .. Cardinality(A) : Nth(i, A \cup {k}) = Nth(i, A)
         /\ Nth(Cardinality(A) + 1, A \cup {k}) = k
  <1>0. Cardinality(A) \in Nat
    BY FS_CardinalityType
  <1>1. ASSUME NEW i \in 1 .. Cardinality(A)
        PROVE  Nth(i, A \cup {k}) = Nth(i, A)
    <2>1. \A l : (l \in A \cup {k} /\ Rank(l, A \cup {k}) = i - 1) <=> (l \in A /\ Rank(l, A) = i - 1)
      <3>1. Cardinality(A) # i - 1
        BY <1>0
      <3>2. QED BY <3>1, RankNext
    <2>2. QED BY <2>1 DEF Nth
  <1>2. \A l \in A \cup {k} : Rank(l, A \cup {k}) = (Cardinality(A) + 1) - 1 <=> l = k
    <2>1. \A l \in A : Rank(l, A \cup {k}) # Cardinality(A)
      <3>1. \A l \in A : Rank(l, A) \in Nat
        <4>1. TAKE l \in A
        <4>2. {j \in A : Before(j, l)} \in SUBSET A
          OBVIOUS
        <4>3. QED BY <4>2, FS_Subset, FS_CardinalityType DEF Rank
      <3>2. \A l \in A : Rank(l, A \cup {k}) = Rank(l, A) /\ Rank(l, A) < Cardinality(A)
        BY RankNext
      <3>3. QED BY <1>0, <3>1, <3>2
    <2>2. (Cardinality(A) + 1) - 1 = Cardinality(A)
      BY <1>0
    <2>3. QED BY <2>1, <2>2, RankNext
  <1>3. Nth(Cardinality(A) + 1, A \cup {k}) = k
    BY <1>2 DEF Nth
  <1>4. QED BY <1>1, <1>3

(* The keys of a finite set, by rank.                                      *)
LEMMA NthOf ==
  ASSUME NEW A \in SUBSET Key, IsFiniteSet(A), NEW i \in 1 .. Cardinality(A)
  PROVE  Nth(i, A) \in A
  <1> DEFINE N == Cardinality(A)
             S == {n \in 0 .. N : \A B \in SUBSET A :
                     Cardinality(B) = n => \A j \in 1 .. n : Nth(j, B) \in B}
  <1>0. N \in Nat
    BY FS_CardinalityType
  <1>1. 0 \in S
    BY <1>0
  <1>2. ASSUME NEW n \in 1 .. N, n - 1 \in S PROVE n \in S
    <2>1. SUFFICES ASSUME NEW B \in SUBSET A, Cardinality(B) = n, NEW j \in 1 .. n
                   PROVE  Nth(j, B) \in B
      BY <1>0
    <2>2. IsFiniteSet(B) /\ B # {}
      <3>1. n # 0
        BY <1>0
      <3>2. QED BY <2>1, <3>1, FS_Subset, FS_EmptySet
    <2>3. PICK k \in B : \A l \in B \ {k} : Before(l, k)
      BY <2>2, LatestExists
    <2> DEFINE C == B \ {k}
    <2>4. /\ C \in SUBSET A /\ C \in SUBSET Key /\ IsFiniteSet(C) /\ Cardinality(C) = n - 1
          /\ k \notin C /\ k \in Key /\ C \cup {k} = B /\ \A l \in C : Before(l, k)
      <3>1. IsFiniteSet(C) /\ Cardinality(C) = n - 1
        BY <2>1, <2>2, FS_RemoveElement
      <3>2. QED BY <2>3, <3>1
    <2> HIDE DEF C
    <2>5. (\A i_1 \in 1 .. n - 1 : Nth(i_1, B) = Nth(i_1, C)) /\ Nth((n - 1) + 1, B) = k
      BY <2>4, NthNext
    <2>6. \A i_1 \in 1 .. n - 1 : Nth(i_1, C) \in C
      BY <1>2, <2>4
    <2>7. CASE j = n
      <3>1. (n - 1) + 1 = n
        BY <1>0
      <3>2. QED BY <2>5, <2>7, <3>1
    <2>8. CASE j # n
      <3>1. j \in 1 .. n - 1
        BY <1>0, <2>8
      <3>2. QED BY <2>4, <2>5, <2>6, <3>1
    <2>9. QED BY <2>7, <2>8
  <1> HIDE DEF S
  <1>3. N \in S
    BY <1>0, <1>1, <1>2, InductionUpTo
  <1>4. QED BY <1>3 DEF S

(* What the latest change adds to the history.                             *)
HistoryContinues(S, sub, K, k, m) ==
  LET H == HistoryByDefinition(S, sub, K, m)
      now == ByDefinition(S, sub, K \cup {k}, m)
      before == ByDefinition(S, sub, K, m)
  IN  /\ HistoryByDefinition(S, sub, K \cup {k}, m) =
           IF now = before THEN H ELSE Append(H, <<Time[k], now>>)
      /\ GetScore(Append(H, <<Time[k], now>>)) = now

(* The history after one more change: longer exactly when the score is     *)
(* another one.                                                            *)
LEMMA HistoryNext ==
  ASSUME NEW S, NEW sub, NEW K \in SUBSET Key, IsFiniteSet(K), NEW m,
         NEW k \in Key, k \notin K, \A l \in K : Before(l, k)
  PROVE  HistoryContinues(S, sub, K, k, m)
  <1> DEFINE L == K \cup {k}
             P(M) == ByDefinition(S, sub, M, m)
             A == ScoreChanges(S, sub, K, m)
             B == ScoreChanges(S, sub, L, m)
             n == Cardinality(A)
             entry(l, M) == <<Time[l], P(UpTo(l, M))>>
             H == HistoryByDefinition(S, sub, K, m)
             last == <<Time[k], P(L)>>
  <1>1. \A l \in K : UpTo(l, L) = UpTo(l, K)
    BY BeforeIsOrder DEF UpTo
  <1>2. UpTo(k, L) = L /\ L \ {k} = K
    BY DEF UpTo
  <1>3. B = IF P(L) = P(K) THEN A ELSE A \cup {k}
    <2>1. \A l : l \in A <=> l \in K /\ P(UpTo(l, K)) # P(UpTo(l, K) \ {l})
      BY DEF ScoreChanges
    <2>2. \A l : l \in B <=> l \in L /\ P(UpTo(l, L)) # P(UpTo(l, L) \ {l})
      BY DEF ScoreChanges
    <2> HIDE DEF A, B, P
    <2>3. \A l \in K : l \in B <=> l \in A
      BY <1>1, <2>1, <2>2
    <2>4. k \in B <=> P(L) # P(K)
      BY <1>2, <2>2
    <2>5. A \subseteq K /\ B \subseteq L
      BY <2>1, <2>2
    <2>6. QED BY <2>3, <2>4, <2>5
  <1>4. /\ A \in SUBSET K /\ A \in SUBSET Key /\ IsFiniteSet(A) /\ n \in Nat
        /\ k \notin A /\ \A l \in A : Before(l, k)
    <2>1. A \in SUBSET K
      BY DEF ScoreChanges
    <2> HIDE DEF A
    <2>2. QED BY <2>1, FS_Subset, FS_CardinalityType
  <1>5. H = [i \in 1 .. n |-> entry(Nth(i, A), K)]
    BY HistoryIs
  <1>6. HistoryByDefinition(S, sub, L, m) = [i \in 1 .. Cardinality(B) |-> entry(Nth(i, B), L)]
    BY HistoryIs
  <1> HIDE DEF A, B, P, n, H, last
  <1>7. \A i \in 1 .. n : Nth(i, A) \in K
    BY <1>4, NthOf DEF n
  <1> DEFINE V == {entry(l, K) : l \in K} \cup {last}
  <1>8. H \in Seq(V) /\ last \in V /\ Len(H) = n
    <2>1. \A i \in 1 .. n : entry(Nth(i, A), K) \in V
      BY <1>7
    <2> HIDE DEF V
    <2>2. H \in [1 .. n -> V]
      BY <1>5, <2>1
    <2>3. last \in V
      BY DEF V
    <2>4. QED BY <1>4, <2>2, <2>3
  <1> HIDE DEF V
  <1>9. GetScore(Append(H, last)) = P(L)
    <2>1. Append(H, last) # <<>> /\ Last(Append(H, last)) = last
      BY <1>8 DEF Last
    <2>2. QED BY <2>1 DEF GetScore, last
  <1>10. CASE P(L) = P(K)
    <2>1. B = A
      BY <1>3, <1>10
    <2>2. \A i \in 1 .. n : entry(Nth(i, A), L) = entry(Nth(i, A), K)
      BY <1>1, <1>7
    <2> HIDE DEF entry
    <2>3. HistoryByDefinition(S, sub, L, m) = H
      BY <1>5, <1>6, <2>1, <2>2 DEF n
    <2>4. QED BY <1>9, <1>10, <2>3 DEF P, H, last, HistoryContinues
  <1>11. CASE P(L) # P(K)
    <2>1. B = A \cup {k} /\ Cardinality(B) = n + 1
      BY <1>3, <1>4, <1>11, FS_AddElement DEF n
    <2>2. \A i \in 1 .. n : entry(Nth(i, B), L) = entry(Nth(i, A), K)
      <3>1. \A i \in 1 .. n : Nth(i, B) = Nth(i, A)
        BY <1>4, <2>1, NthNext DEF n
      <3>2. QED BY <1>1, <1>7, <3>1
    <2>3. entry(Nth(n + 1, B), L) = last
      <3>1. Nth(n + 1, B) = k
        BY <1>4, <2>1, NthNext DEF n
      <3>2. QED BY <1>2, <3>1 DEF last
    <2> DEFINE G == [i \in 1 .. n + 1 |-> entry(Nth(i, B), L)]
    <2>4. G = Append(H, last)
      <3>1. Append(H, last) = [i \in 1 .. n + 1 |-> IF i = n + 1 THEN last ELSE H[i]]
        <4> DEFINE X == Append(H, last)
        <4>1. /\ X \in Seq(V) /\ Len(X) = n + 1 /\ X[n + 1] = last
              /\ \A i \in 1 .. n : X[i] = H[i]
          BY <1>4, <1>8
        <4> HIDE DEF X
        <4>2. X = [i \in 1 .. n + 1 |-> X[i]]
          BY <4>1
        <4>3. \A i \in 1 .. n + 1 : X[i] = IF i = n + 1 THEN last ELSE H[i]
          BY <1>4, <4>1
        <4>4. QED BY <4>2, <4>3 DEF X
      <3>2. \A i \in 1 .. n : H[i] = entry(Nth(i, A), K)
        BY <1>5
      <3> HIDE DEF entry
      <3>3. ASSUME NEW i \in 1 .. n + 1
            PROVE  entry(Nth(i, B), L) = IF i = n + 1 THEN last ELSE H[i]
        <4>1. i # n + 1 => i \in 1 .. n
          BY <1>4
        <4>2. QED BY <2>2, <2>3, <3>2, <4>1
      <3>4. QED BY <3>1, <3>3
    <2> HIDE DEF entry
    <2>5. HistoryByDefinition(S, sub, L, m) = Append(H, last)
      BY <1>6, <2>1, <2>4
    <2>6. QED BY <1>9, <1>11, <2>5 DEF P, H, last, HistoryContinues
  <1>12. QED BY <1>10, <1>11

-----------------------------------------------------------------------------
(* The Score is right when each of its fields is the one by definition.    *)

Right(sc, S, sub, K, m) ==
  /\ sc = [status |-> sc.status, released |-> sc.released, last |-> sc.last,
           history |-> sc.history]
  /\ sc.status = [s \in S |-> Given(sub, s, K)]
  /\ ReleasedIs(sc.released, S, sc.status)
  /\ LastIs(sub, S, K, sc.last)
  /\ sc.history = HistoryByDefinition(S, sub, K, m)
  /\ S # {} => GetScore(sc.history) = ByDefinition(S, sub, K, m)

(* Without subchanges the score is 0.                                      *)
LEMMA ScoreOfNothing ==
  ASSUME NEW S, S # {}, NEW sub, NEW m \in ScoreMode
  PROVE  ByDefinition(S, sub, {}, m) = 0
  <1>1. \A s : Given(sub, s, {}) = Unscored
    BY GivenByNone
  <1>2. {Given(sub, s, {}) : s \in S} = {Unscored}
    BY <1>1
  <1>3. CASE m = "max_subtask"
    BY <1>2, <1>3, UnscoredSumIsZero DEF ByDefinition
  <1>4. CASE m # "max_subtask"
    <2> DEFINE scores == {Given(sub, s, {}).score : s \in {t \in S :
                 m = "max" \/ Given(sub, t, {}).token \/ IsLastSubmission(sub, t, {})}}
    <2>1. scores \cup {0} = {0}
      BY <1>1 DEF Unscored
    <2>2. Max({0}) = 0
      BY MaxIs
    <2>3. ByDefinition(S, sub, {}, m) = Max(scores \cup {0})
      BY <1>4 DEF ByDefinition
    <2> HIDE DEF scores
    <2>4. QED BY <2>1, <2>2, <2>3
  <1>5. QED BY <1>3, <1>4

(* Without subchanges there is no history.                                 *)
LEMMA HistoryOfNothing ==
  ASSUME NEW S, NEW sub, NEW m
  PROVE  HistoryByDefinition(S, sub, {}, m) = <<>>
  <1>1. ScoreChanges(S, sub, {}, m) = {}
    BY DEF ScoreChanges
  <1>2. Cardinality({}) = 0
    BY FS_EmptySet
  <1> DEFINE entry(i) == <<Time[Nth(i, {})], ByDefinition(S, sub, UpTo(Nth(i, {}), {}), m)>>
             H == [i \in 1 .. 0 |-> entry(i)]
  <1>3. HistoryByDefinition(S, sub, {}, m) = H
    BY <1>1, <1>2, HistoryIs
  <1> HIDE DEF entry
  <1>4. H \in Seq({}) /\ Len(H) = 0
    OBVIOUS
  <1> HIDE DEF H
  <1>5. H = <<>>
    BY <1>4
  <1>6. QED BY <1>3, <1>5

(* reset_history starts from what is right for no subchange.               *)
LEMMA BlankIsRight ==
  ASSUME NEW S, IsFiniteSet(S), NEW sub, NEW m \in ScoreMode
  PROVE  Right(Blank(S), S, sub, {}, m)
  <1> DEFINE sc == Blank(S)
  <1>1. /\ sc = [status |-> sc.status, released |-> sc.released, last |-> sc.last,
                 history |-> sc.history]
        /\ sc.status = [s \in S |-> Unscored]
        /\ sc.released = EmptyBag /\ sc.last = NoSubmission /\ sc.history = <<>>
    BY DEF Blank
  <1> HIDE DEF sc
  <1>2. sc.status = [s \in S |-> Given(sub, s, {})]
    BY <1>1, GivenByNone
  <1>3. ReleasedIs(sc.released, S, sc.status)
    <2>1. {s \in S : sc.status[s].token} = {}
      BY <1>1 DEF Unscored
    <2>2. QED BY <1>1, <2>1, TalliesNothing DEF ReleasedIs
  <1>4. LastIs(sub, S, {}, sc.last)
    BY <1>1 DEF LastIs, Scoring
  <1>5. sc.history = HistoryByDefinition(S, sub, {}, m)
    BY <1>1, HistoryOfNothing
  <1>6. S # {} => GetScore(sc.history) = ByDefinition(S, sub, {}, m)
    BY <1>1, ScoreOfNothing DEF GetScore
  <1>7. QED BY <1>1, <1>2, <1>3, <1>4, <1>5, <1>6 DEF Right, sc

(* append_change keeps it right.                                           *)
LEMMA AppendChangeIsRight ==
  ASSUME NEW S, NEW sub, NEW K, NEW k \in Key, k \notin K, Stored(S, sub, K \cup {k}),
         \A l \in K : Before(l, k), NEW m \in ScoreMode,
         NEW sc, Right(sc, S, sub, K, m)
  PROVE  Right(AppendChange(sc, [key |-> k, content |-> sub[k]], m), S, sub, K \cup {k}, m)
  <1>a. Subchanges(sub, K \cup {k})
    BY DEF Stored
  <1>b. ASSUME NEW t, t # Of[k] PROVE Given(sub, t, K \cup {k}) = Given(sub, t, K)
    BY <1>b, GivenOther
  <1>c. HistoryContinues(S, sub, K, k, m)
    <2>1. K \in SUBSET Key /\ K \in SUBSET (K \cup {k}) /\ IsFiniteSet(K \cup {k})
      BY <1>a DEF Subchanges
    <2>2. IsFiniteSet(K)
      BY <2>1, FS_Subset
    <2>3. QED BY <2>1, <2>2, HistoryNext
  <1> DEFINE L == K \cup {k}
             s == Of[k]
             c == [key |-> k, content |-> sub[k]]
             scored == sub[k].score # NoScore
             old == sc.status[s]
             new == [score |-> IF scored THEN sub[k].score ELSE old.score,
                     extra |-> IF scored THEN sub[k].extra ELSE old.extra,
                     token |-> old.token \/ sub[k].token]
             later == sc.last = NoSubmission \/ SubmittedAt[s] > SubmittedAt[sc.last]
             last == IF scored /\ later THEN s ELSE sc.last
             next == [status |-> [sc.status EXCEPT ![s] = new],
                      released |-> Released(sc.released, old, new),
                      last |-> last, history |-> sc.history]
             now == ScoreNow(next, m)
             result == IF now = GetScore(sc.history) THEN next
                       ELSE [next EXCEPT !.history = Append(@, <<Time[k], now>>)]
  <1>1. AppendChange(sc, c, m) = result
    <2>1. c.key = k /\ c.content = sub[k]
      OBVIOUS
    <2> HIDE DEF c
    <2>2. Changed(sc, c) = next
      BY <2>1 DEF Changed
    <2> HIDE DEF next
    <2>3. QED BY <2>1, <2>2 DEF AppendChange
  <1>2. s \in S /\ S # {} /\ Stored(S, sub, K) /\ Subchanges(sub, L)
    <2>1. K \in SUBSET L /\ IsFiniteSet(L)
      BY DEF Stored, Subchanges
    <2>2. IsFiniteSet(K)
      BY <2>1, FS_Subset
    <2>3. QED BY <2>1, <2>2 DEF Stored, Subchanges
  <1>3. next.status = [t \in S |-> Given(sub, t, L)]
    <2>1. sc.status = [t \in S |-> Given(sub, t, K)]
      BY DEF Right
    <2>2. ASSUME NEW t \in S \ {s} PROVE Given(sub, t, L) = Given(sub, t, K)
      BY <1>b
    <2>3. Given(sub, s, L) = new
      <3>1. old = Given(sub, s, K)
        BY <1>2, <2>1
      <3>2. Given(sub, s, L) = Renewed(Given(sub, s, K), sub[k])
        BY <1>2, GivenNext
      <3> HIDE DEF L, s
      <3>3. QED BY <3>1, <3>2 DEF Renewed
    <2> HIDE DEF new, L
    <2>4. [sc.status EXCEPT ![s] = new] = [t \in S |-> Given(sub, t, L)]
      BY <1>2, <2>1, <2>2, <2>3
    <2>5. QED BY <2>4
  <1>4. ReleasedIs(next.released, S, next.status)
    <2>1. ReleasedIs(sc.released, S, sc.status) /\ DOMAIN sc.status = S
      BY DEF Right
    <2> HIDE DEF new
    <2>2. ReleasedIs(Released(sc.released, old, new), S, [sc.status EXCEPT ![s] = new])
      BY <1>2, <2>1, ReleasedNext
    <2>3. QED BY <2>2
  <1>5. LastIs(sub, S, L, next.last)
    <2>1. LastIs(sub, S, K, sc.last) /\ S \in SUBSET Submission
      BY DEF Right, Stored
    <2>2. LastIs(sub, S, L, last)
      BY <1>2, <2>1, LastNext
    <2>3. next.last = last
      OBVIOUS
    <2> HIDE DEF next, last
    <2>4. QED BY <2>2, <2>3
  <1>6. now = ByDefinition(S, sub, L, m)
    <2> HIDE DEF next
    <2>1. QED BY <1>2, <1>3, <1>4, <1>5, ScoreNowIs
  <1>7. /\ GetScore(sc.history) = ByDefinition(S, sub, K, m)
        /\ sc.history = HistoryByDefinition(S, sub, K, m)
    BY <1>2 DEF Right
  <1> DEFINE H == sc.history
             longer == Append(H, <<Time[k], now>>)
             history == IF now = GetScore(H) THEN H ELSE longer
  <1>8. /\ history = HistoryByDefinition(S, sub, L, m)
        /\ GetScore(history) = ByDefinition(S, sub, L, m)
    <2>1. K \in SUBSET Key /\ IsFiniteSet(K)
      BY <1>2 DEF Stored, Subchanges
    <2> DEFINE before == ByDefinition(S, sub, K, m)
               after == ByDefinition(S, sub, L, m)
               G == HistoryByDefinition(S, sub, K, m)
    <2>2. /\ HistoryByDefinition(S, sub, L, m) =
               IF after = before THEN G ELSE Append(G, <<Time[k], after>>)
          /\ GetScore(Append(G, <<Time[k], after>>)) = after
      BY <1>c DEF HistoryContinues
    <2>3. now = after /\ H = G /\ GetScore(H) = before
      BY <1>6, <1>7
    <2> HIDE DEF now, L, H, after, before, G
    <2>4. history = IF after = before THEN G ELSE Append(G, <<Time[k], after>>)
      BY <2>3
    <2>5. GetScore(history) = after
      BY <2>2, <2>3
    <2>6. QED BY <2>2, <2>4, <2>5 DEF after
  <1>9. result = [status |-> next.status, released |-> next.released, last |-> next.last,
                  history |-> history]
    <2> DEFINE x == next.status
               y == next.released
               z == next.last
    <2>1. next = [status |-> x, released |-> y, last |-> z, history |-> H]
      OBVIOUS
    <2> HIDE DEF next, x, y, z, now, H
    <2>2. CASE now = GetScore(H)
      BY <2>1, <2>2 DEF H, x, y, z
    <2>3. CASE now # GetScore(H)
      <3>1. result = [status |-> x, released |-> y, last |-> z, history |-> longer]
        BY <2>1, <2>3 DEF H
      <3>2. history = longer
        BY <2>3
      <3>3. QED BY <3>1, <3>2 DEF x, y, z
    <2>4. QED BY <2>2, <2>3
  <1> HIDE DEF result, next, history
  <1>10. Right(result, S, sub, L, m)
    BY <1>3, <1>4, <1>5, <1>8, <1>9 DEF Right
  <1>11. QED BY <1>1, <1>10 DEF L, c

(* The recursion of reset_history.                                         *)
IsReplay(f, first, chs, m) ==
  /\ f[0] = first
  /\ \A n \in 1 .. Len(chs) : f[n] = AppendChange(f[n - 1], chs[n], m)
  /\ ReplayFrom(first, chs, m) = f[Len(chs)]

(* There is such a run, which ends in what Replay returns.                 *)
LEMMA ReplayRuns ==
  ASSUME NEW first, NEW T, NEW chs \in Seq(T), NEW m
  PROVE  \E f : IsReplay(f, first, chs, m)
  <1> DEFINE N == Len(chs)
             next(n, s) == IF n = 0 THEN first ELSE AppendChange(s, chs[n], m)
             Runs(n, f) == f = [i \in 0 .. n |-> next(i, f[i - 1])]
             S == {n \in 0 .. N : \E f : Runs(n, f)}
  <1>1. N \in Nat
    OBVIOUS
  <1>2. 0 \in S
    <2> DEFINE f == [i \in 0 .. 0 |-> first]
    <2>1. f = [i \in 0 .. 0 |-> next(i, f[i - 1])]
      OBVIOUS
    <2>2. \E x : Runs(0, x)
      BY <2>1
    <2> HIDE DEF Runs
    <2>3. QED BY <1>1, <2>2
  <1>3. ASSUME NEW n \in 1 .. N, n - 1 \in S PROVE n \in S
    <2>1. PICK f : Runs(n - 1, f)
      BY <1>3
    <2> DEFINE last == next(n, f[n - 1])
               h == [i \in 0 .. n |-> IF i = n THEN last ELSE f[i]]
    <2>2. ASSUME NEW i \in 0 .. n PROVE h[i] = next(i, h[i - 1])
      <3>1. CASE i = n
        <4>1. h[i - 1] = f[n - 1] /\ h[i] = last
          BY <3>1
        <4> HIDE DEF next, h
        <4>2. QED BY <3>1, <4>1
      <3>2. CASE i # n /\ i # 0
        <4>1. i \in 0 .. n - 1 /\ i - 1 \in 0 .. n /\ i - 1 # n
          BY <3>2
        <4> HIDE DEF next
        <4>2. f[i] = next(i, f[i - 1])
          BY <2>1, <4>1
        <4>3. h[i] = f[i] /\ h[i - 1] = f[i - 1]
          BY <3>2, <4>1
        <4>4. QED BY <4>2, <4>3
      <3>3. CASE i # n /\ i = 0
        <4>1. 0 \in 0 .. n - 1
          OBVIOUS
        <4>2. f[0] = first
          BY <2>1, <4>1
        <4>3. QED BY <3>3, <4>2
      <3>4. QED BY <3>1, <3>2, <3>3
    <2>3. h = [i \in 0 .. n |-> h[i]]
      OBVIOUS
    <2> HIDE DEF h, next
    <2>4. Runs(n, h)
      BY <2>2, <2>3
    <2>5. QED BY <2>4
  <1> HIDE DEF S
  <1>4. \A n \in 0 .. N : n \in S
    BY <1>1, <1>2, <1>3, InductionUpTo
  <1>5. \E f : Runs(N, f)
    BY <1>1, <1>4 DEF S
  <1> DEFINE f == CHOOSE f : Runs(N, f)
  <1>6. Runs(N, f)
    BY Zenon, <1>5
  <1>7. ReplayFrom(first, chs, m) = f[N]
    BY DEF ReplayFrom
  <1> HIDE DEF f, N
  <1>8. f[0] = first
    BY <1>1, <1>6
  <1>9. \A n \in 1 .. N : f[n] = AppendChange(f[n - 1], chs[n], m)
    BY <1>1, <1>6
  <1>10. IsReplay(f, first, chs, m)
    BY <1>7, <1>8, <1>9 DEF N, IsReplay
  <1>11. QED BY <1>10

(* Only the subchanges with the keys count.                                *)
LEMMA HistoryAlike ==
  ASSUME NEW S, NEW sub, NEW other, NEW K, Subchanges(sub, K), \A k \in K : sub[k] = other[k],
         NEW m
  PROVE  /\ \A L \in SUBSET K : ByDefinition(S, sub, L, m) = ByDefinition(S, other, L, m)
         /\ HistoryByDefinition(S, sub, K, m) = HistoryByDefinition(S, other, K, m)
  <1>1. ASSUME NEW L \in SUBSET K
        PROVE  ByDefinition(S, sub, L, m) = ByDefinition(S, other, L, m)
    <2>1. Subchanges(sub, L)
      <3>1. IsFiniteSet(L)
        BY FS_Subset DEF Subchanges
      <3>2. QED BY <3>1 DEF Subchanges
    <2>2. \A s : /\ Given(sub, s, L) = Given(other, s, L)
                 /\ IsLastSubmission(sub, s, L) <=> IsLastSubmission(other, s, L)
      BY <2>1, GivenAlike
    <2>3. {Given(sub, s, L) : s \in S} = {Given(other, s, L) : s \in S}
      BY <2>2
    <2>4. {t \in S : m = "max" \/ Given(sub, t, L).token \/ IsLastSubmission(sub, t, L)}
            = {t \in S : m = "max" \/ Given(other, t, L).token \/ IsLastSubmission(other, t, L)}
      BY <2>2
    <2> DEFINE T == {t \in S : m = "max" \/ Given(sub, t, L).token \/ IsLastSubmission(sub, t, L)}
               U == {t \in S : m = "max" \/ Given(other, t, L).token \/ IsLastSubmission(other, t, L)}
               A == {Given(sub, s, L).score : s \in T}
               B == {Given(other, s, L).score : s \in U}
    <2>5. A = B
      <3>1. T = U
        BY <2>4
      <3> HIDE DEF T, U
      <3>2. QED BY <2>2, <3>1
    <2>6. /\ ByDefinition(S, sub, L, m) = IF m = "max_subtask"
                                          THEN BySubtask({Given(sub, s, L) : s \in S})
                                          ELSE Max(A \cup {0})
          /\ ByDefinition(S, other, L, m) = IF m = "max_subtask"
                                            THEN BySubtask({Given(other, s, L) : s \in S})
                                            ELSE Max(B \cup {0})
      BY DEF ByDefinition
    <2> DEFINE C == {Given(sub, s, L) : s \in S}
               D == {Given(other, s, L) : s \in S}
    <2>7. /\ ByDefinition(S, sub, L, m) = IF m = "max_subtask" THEN BySubtask(C)
                                          ELSE Max(A \cup {0})
          /\ ByDefinition(S, other, L, m) = IF m = "max_subtask" THEN BySubtask(D)
                                            ELSE Max(B \cup {0})
      BY <2>6
    <2>8. C = D
      BY <2>3
    <2> HIDE DEF A, B, C, D
    <2>9. QED BY <2>5, <2>7, <2>8
  <1>2. \A k \in K : UpTo(k, K) \in SUBSET K /\ UpTo(k, K) \ {k} \in SUBSET K
    BY DEF UpTo
  <1> DEFINE A == ScoreChanges(S, sub, K, m)
  <1>3. A = ScoreChanges(S, other, K, m)
    BY <1>1, <1>2 DEF ScoreChanges
  <1>4. A \in SUBSET K /\ A \in SUBSET Key /\ IsFiniteSet(A)
    <2>1. A \in SUBSET K
      BY DEF ScoreChanges
    <2> HIDE DEF A
    <2>2. QED BY <2>1, FS_Subset DEF Subchanges
  <1> DEFINE n == Cardinality(A)
             x(i) == <<Time[Nth(i, A)], ByDefinition(S, sub, UpTo(Nth(i, A), K), m)>>
             y(i) == <<Time[Nth(i, A)], ByDefinition(S, other, UpTo(Nth(i, A), K), m)>>
  <1>5. /\ HistoryByDefinition(S, sub, K, m) = [i \in 1 .. n |-> x(i)]
        /\ HistoryByDefinition(S, other, K, m) = [i \in 1 .. n |-> y(i)]
    BY <1>3, HistoryIs
  <1>6. \A i \in 1 .. n : x(i) = y(i)
    <2> HIDE DEF A
    <2>1. TAKE i \in 1 .. n
    <2>2. Nth(i, A) \in K
      BY <1>4, NthOf
    <2>3. QED BY <1>1, <1>2, <2>2
  <1> HIDE DEF x, y, n
  <1>7. QED BY <1>1, <1>5, <1>6

(* The same of all the fields.                                             *)
LEMMA RightAlike ==
  ASSUME NEW sc, NEW S, NEW sub, NEW other, NEW K, Subchanges(sub, K),
         \A k \in K : sub[k] = other[k], NEW m, Right(sc, S, sub, K, m)
  PROVE  Right(sc, S, other, K, m)
  <1>1. sc.status = [s \in S |-> Given(other, s, K)]
    <2>1. \A s : Given(sub, s, K) = Given(other, s, K)
      BY GivenAlike
    <2>2. QED BY <2>1 DEF Right
  <1>2. LastIs(other, S, K, sc.last)
    <2>1. Scoring(sub, K) = Scoring(other, K)
      BY DEF Scoring
    <2>2. IsLastSubmission(sub, sc.last, K) <=> IsLastSubmission(other, sc.last, K)
      BY GivenAlike
    <2>3. LastIs(sub, S, K, sc.last)
      BY DEF Right
    <2>4. QED BY <2>1, <2>2, <2>3 DEF LastIs
  <1>3. HistoryByDefinition(S, sub, K, m) = HistoryByDefinition(S, other, K, m)
    BY HistoryAlike
  <1>4. ByDefinition(S, sub, K, m) = ByDefinition(S, other, K, m)
    <2>1. K \in SUBSET K
      OBVIOUS
    <2>2. QED BY <2>1, HistoryAlike
  <1>5. QED BY <1>1, <1>2, <1>3, <1>4 DEF Right

(* A submission that comes later changes no score before it has its own.   *)
LEMMA NewSubmissionCountsNothing ==
  ASSUME NEW S, NEW sub, NEW K, Stored(S, sub, K), S # {}, NEW s \in Submission, s \notin S,
         NEW m \in ScoreMode
  PROVE  ByDefinition(S \cup {s}, sub, K, m) = ByDefinition(S, sub, K, m)
  <1> DEFINE U == S \cup {s}
             all(X) == {Given(sub, t, K) : t \in X}
             counts(t) == m = "max" \/ Given(sub, t, K).token \/ IsLastSubmission(sub, t, K)
             scores(X) == {Given(sub, t, K).score : t \in {u \in X : counts(u)}}
  <1>1. Given(sub, s, K) = Unscored /\ ~IsLastSubmission(sub, s, K)
    <2>1. \A k \in K : Of[k] # s
      BY DEF Stored
    <2>2. QED BY <2>1, GivenByNone DEF IsLastSubmission, Scoring
  <1>2. \A X : ByDefinition(X, sub, K, m) = IF m = "max_subtask" THEN BySubtask(all(X))
                                            ELSE Max(scores(X) \cup {0})
    BY DEF ByDefinition
  <1>3. all(U) = all(S) \cup {Unscored}
    BY <1>1
  <1>4. scores(U) \cup {0} = scores(S) \cup {0}
    BY <1>1 DEF Unscored
  <1>5. all(S) \in SUBSET Status /\ all(S) # {} /\ IsFiniteSet(all(S))
    <2> DEFINE f == [t \in S |-> Given(sub, t, K)]
    <2>1. all(S) = {f[t] : t \in S} /\ all(S) # {}
      OBVIOUS
    <2>2. all(S) \in SUBSET Status /\ IsFiniteSet(S)
      BY GivenType DEF Stored
    <2> HIDE DEF f, all
    <2>3. QED BY <2>1, <2>2, FiniteImage
  <1> HIDE DEF all, scores
  <1>6. BySubtask(all(S) \cup {Unscored}) = BySubtask(all(S))
    BY <1>5, UnscoredAddsNothing
  <1>7. QED BY <1>2, <1>3, <1>4, <1>6

(* create_submission is right, and so is a first submission that takes the *)
(* mode of the task.                                                       *)
LEMMA NewSubmissionIsRight ==
  ASSUME NEW S, NEW sub, NEW K, Stored(S, sub, K), NEW s \in Submission, s \notin S,
         NEW m \in ScoreMode, NEW n \in ScoreMode, S # {} => m = n,
         NEW sc, Right(sc, S, sub, K, m)
  PROVE  Right([sc EXCEPT !.status = [t \in S \cup {s} |-> IF t = s THEN Unscored ELSE @[t]]],
               S \cup {s}, sub, K, n)
  <1> DEFINE U == S \cup {s}
             st == [t \in S \cup {s} |-> IF t = s THEN Unscored ELSE sc.status[t]]
             next == [status |-> st, released |-> sc.released, last |-> sc.last,
                      history |-> sc.history]
  <1>1. [sc EXCEPT !.status = [t \in S \cup {s} |-> IF t = s THEN Unscored ELSE @[t]]] = next
    <2> HIDE DEF st
    <2>1. [sc EXCEPT !.status = st] = next
      <3> DEFINE x == sc.status
                 y == sc.released
                 z == sc.last
                 h == sc.history
      <3>1. sc = [status |-> x, released |-> y, last |-> z, history |-> h]
        BY DEF Right
      <3> HIDE DEF x, y, z, h
      <3>2. QED BY <3>1 DEF y, z, h
    <2>2. QED BY <2>1 DEF st
  <1>2. \A k \in K : Of[k] # s
    BY DEF Stored
  <1>3. Given(sub, s, K) = Unscored
    BY <1>2, GivenByNone
  <1>4. sc.status = [t \in S |-> Given(sub, t, K)]
    BY DEF Right
  <1>5. st = [t \in U |-> Given(sub, t, K)]
    <2>1. \A t \in U : (IF t = s THEN Unscored ELSE sc.status[t]) = Given(sub, t, K)
      BY <1>3, <1>4
    <2>2. QED BY <2>1
  <1>6. ReleasedIs(sc.released, U, st)
    <2> DEFINE f == [t \in S |-> sc.status[t].score]
               g == [t \in U |-> st[t].score]
               T == {t \in S : sc.status[t].token}
    <2>1. Tallies(sc.released, f, T)
      BY DEF Right, ReleasedIs
    <2>2. T = {t \in U : st[t].token}
      BY <1>3, <1>4, <1>5 DEF Unscored
    <2>3. \A t \in T : g[t] = f[t]
      BY <1>4, <1>5
    <2> HIDE DEF f, g, T
    <2>4. Tallies(sc.released, g, T)
      BY <2>1, <2>3, TalliesAlike
    <2>5. QED BY <2>2, <2>4 DEF ReleasedIs, g
  <1>7. LastIs(sub, U, K, sc.last)
    BY DEF Right, LastIs
  <1>8. /\ sc.history = HistoryByDefinition(U, sub, K, n)
        /\ GetScore(sc.history) = ByDefinition(U, sub, K, n)
    <2>1. CASE S = {}
      <3>1. K = {}
        BY <2>1 DEF Stored
      <3>2. sc.history = <<>>
        BY <3>1, HistoryOfNothing DEF Right
      <3>3. U # {}
        OBVIOUS
      <3> HIDE DEF U
      <3>4. HistoryByDefinition(U, sub, {}, n) = <<>> /\ ByDefinition(U, sub, {}, n) = 0
        BY <3>3, HistoryOfNothing, ScoreOfNothing
      <3>5. QED BY <3>1, <3>2, <3>4 DEF GetScore
    <2>2. CASE S # {}
      <3>1. ASSUME NEW L \in SUBSET K
            PROVE  ByDefinition(U, sub, L, m) = ByDefinition(S, sub, L, m)
        <4>1. Stored(S, sub, L)
          <5>1. IsFiniteSet(L)
            BY FS_Subset DEF Stored, Subchanges
          <5>2. QED BY <5>1 DEF Stored, Subchanges
        <4>2. QED BY <2>2, <4>1, NewSubmissionCountsNothing
      <3>2. \A k \in K : UpTo(k, K) \in SUBSET K /\ UpTo(k, K) \ {k} \in SUBSET K
        BY DEF UpTo
      <3> DEFINE A == ScoreChanges(S, sub, K, m)
      <3> HIDE DEF U
      <3>3. ScoreChanges(U, sub, K, m) = A
        BY <3>1, <3>2 DEF ScoreChanges
      <3>4. A \in SUBSET K /\ A \in SUBSET Key /\ IsFiniteSet(A)
        <4>1. A \in SUBSET K
          BY DEF ScoreChanges
        <4> HIDE DEF A
        <4>2. QED BY <4>1, FS_Subset DEF Stored, Subchanges
      <3> DEFINE x(i) == <<Time[Nth(i, A)], ByDefinition(S, sub, UpTo(Nth(i, A), K), m)>>
                 y(i) == <<Time[Nth(i, A)], ByDefinition(U, sub, UpTo(Nth(i, A), K), m)>>
      <3>5. /\ HistoryByDefinition(S, sub, K, m) = [i \in 1 .. Cardinality(A) |-> x(i)]
            /\ HistoryByDefinition(U, sub, K, m) = [i \in 1 .. Cardinality(A) |-> y(i)]
        BY <3>3, HistoryIs
      <3>6. \A i \in 1 .. Cardinality(A) : x(i) = y(i)
        <4> HIDE DEF A
        <4>1. TAKE i \in 1 .. Cardinality(A)
        <4>2. Nth(i, A) \in K
          BY <3>4, NthOf
        <4>3. QED BY <3>1, <3>2, <4>2
      <3> HIDE DEF x, y, A
      <3>7. HistoryByDefinition(U, sub, K, m) = HistoryByDefinition(S, sub, K, m)
        BY <3>5, <3>6
      <3>8. K \in SUBSET K
        OBVIOUS
      <3>9. QED BY <2>2, <3>1, <3>7, <3>8 DEF Right
    <2>3. QED BY <2>1, <2>2
  <1> HIDE DEF st, next, U
  <1>9. /\ next.status = st /\ next.released = sc.released /\ next.last = sc.last
        /\ next.history = sc.history
        /\ next = [status |-> next.status, released |-> next.released, last |-> next.last,
                   history |-> next.history]
    BY DEF next
  <1>10. Right(next, U, sub, K, n)
    BY <1>5, <1>6, <1>7, <1>8, <1>9 DEF Right
  <1>11. QED BY <1>1, <1>10 DEF U

-----------------------------------------------------------------------------
(* The list of changes: the subchanges with the keys K, in order.          *)

Listing(chs, sub, K) ==
  /\ chs \in Seq(Change)
  /\ K = {chs[i].key : i \in 1 .. Len(chs)}
  /\ \A i \in 1 .. Len(chs) : chs[i].content = sub[chs[i].key]
  /\ \A i, j \in 1 .. Len(chs) : i < j => Before(chs[i].key, chs[j].key)

(* reset_history is right.                                                 *)
LEMMA ReplayIsRight ==
  ASSUME NEW S, NEW sub, NEW K, Stored(S, sub, K), NEW chs, Listing(chs, sub, K),
         NEW m \in ScoreMode
  PROVE  Right(Replay(S, chs, m), S, sub, K, m)
  <1> DEFINE N == Len(chs)
             keys(n) == {chs[i].key : i \in 1 .. n}
  <1>1. chs \in Seq(Change) /\ N \in Nat /\ K = keys(N)
    BY DEF Listing
  <1>2. PICK f : /\ f[0] = Blank(S)
                 /\ \A n \in 1 .. Len(chs) : f[n] = AppendChange(f[n - 1], chs[n], m)
                 /\ ReplayFrom(Blank(S), chs, m) = f[Len(chs)]
    <2>1. \E f : IsReplay(f, Blank(S), chs, m)
      BY <1>1, ReplayRuns
    <2>2. QED BY <2>1 DEF IsReplay
  <1> DEFINE R == {n \in 0 .. N : Right(f[n], S, sub, keys(n), m)}
  <1>3. 0 \in R
    <2>1. keys(0) = {}
      OBVIOUS
    <2>2. IsFiniteSet(S)
      BY DEF Stored
    <2> HIDE DEF keys
    <2>3. Right(Blank(S), S, sub, {}, m)
      BY <2>2, BlankIsRight
    <2>4. Right(f[0], S, sub, keys(0), m)
      BY <1>2, <2>1, <2>3
    <2>5. 0 \in 0 .. N
      BY <1>1
    <2>6. QED BY <2>4, <2>5
  <1>4. ASSUME NEW n \in 1 .. N, n - 1 \in R PROVE n \in R
    <2> DEFINE k == chs[n].key
               L == keys(n - 1)
    <2>1. k \in Key /\ chs[n] = [key |-> k, content |-> sub[k]]
      <3>1. chs[n] \in Change /\ chs[n].content = sub[k]
        BY <1>1 DEF Listing
      <3>2. QED BY <3>1 DEF Change
    <2>2. keys(n) = L \cup {k}
      <3>1. 1 .. n = (1 .. n - 1) \cup {n}
        BY <1>1
      <3>2. QED BY <3>1
    <2>3. \A l \in L : Before(l, k)
      <3>1. \A i \in 1 .. n - 1 : i \in 1 .. N /\ i < n
        BY <1>1
      <3>2. QED BY <3>1 DEF Listing
    <2>4. k \notin L
      BY <2>1, <2>3, BeforeIsOrder
    <2>5. Stored(S, sub, L \cup {k})
      <3>1. keys(n) \in SUBSET K
        BY <1>1
      <3> HIDE DEF keys, L
      <3>2. IsFiniteSet(keys(n))
        BY <3>1, FS_Subset DEF Stored, Subchanges
      <3>3. QED BY <2>2, <3>1, <3>2 DEF Stored, Subchanges
    <2>6. Right(f[n - 1], S, sub, L, m) /\ n \in 0 .. N /\ f[n] = AppendChange(f[n - 1], chs[n], m)
      BY <1>2, <1>4
    <2> HIDE DEF L, k, keys
    <2>7. Right(f[n], S, sub, L \cup {k}, m)
      BY <2>1, <2>3, <2>4, <2>5, <2>6, AppendChangeIsRight
    <2>8. QED BY <2>2, <2>6, <2>7
  <1> HIDE DEF R
  <1>5. N \in R
    <2>1. \A n \in 1 .. N : n - 1 \in R => n \in R
      BY <1>4
    <2>2. N \in Nat /\ N \in 0 .. N
      BY <1>1
    <2> HIDE DEF N
    <2>3. \A n \in 0 .. N : n \in R
      BY <1>3, <2>1, <2>2, InductionUpTo
    <2>4. QED BY <2>2, <2>3
  <1>6. QED BY <1>1, <1>2, <1>5 DEF R, Replay

(* A change that comes last.                                               *)
LEMMA ListingAppended ==
  ASSUME NEW chs, NEW sub, NEW other, NEW K, Listing(chs, sub, K),
         NEW k \in Key, other[k] \in Content[k], \A l \in K : other[l] = sub[l],
         IsLatest(k, chs)
  PROVE  /\ Listing(Append(chs, [key |-> k, content |-> other[k]]), other, K \cup {k})
         /\ \A l \in K : Before(l, k)
  <1> DEFINE N == Len(chs)
             c == [key |-> k, content |-> other[k]]
             new == Append(chs, c)
  <1>1. chs \in Seq(Change) /\ N \in Nat /\ K = {chs[i].key : i \in 1 .. N}
        /\ \A i \in 1 .. N : chs[i] \in Change /\ chs[i].key \in Key
    <2>1. chs \in Seq(Change) /\ N \in Nat /\ K = {chs[i].key : i \in 1 .. N}
      BY DEF Listing
    <2>2. \A i \in 1 .. N : chs[i] \in Change
      BY <2>1
    <2>3. QED BY <2>1, <2>2 DEF Change
  <1>2. c \in Change /\ c.key = k /\ c.content = other[k]
    BY DEF Change
  <1>3. \A l \in K : Before(l, k)
    <2>1. CASE chs = <<>>
      BY <1>1, <2>1
    <2>2. CASE chs # <<>>
      <3>1. N \in 1 .. N /\ Before(chs[N].key, k)
        BY <1>1, <2>2 DEF IsLatest, Last
      <3>2. ASSUME NEW i \in 1 .. N PROVE Before(chs[i].key, k)
        <4>1. i = N \/ Before(chs[i].key, chs[N].key)
          BY <1>1, <3>1 DEF Listing
        <4>2. QED BY <1>1, <3>1, <4>1, BeforeIsOrder
      <3>3. QED BY <1>1, <3>2
    <2>3. QED BY <2>1, <2>2
  <1> HIDE DEF c
  <1>4. /\ new \in Seq(Change) /\ Len(new) = N + 1 /\ new[N + 1] = c
        /\ \A i \in 1 .. N : new[i] = chs[i]
    BY <1>1, <1>2
  <1>5. 1 .. N + 1 = (1 .. N) \cup {N + 1}
    BY <1>1
  <1> HIDE DEF new, N
  <1>6. {new[i].key : i \in 1 .. N + 1} = K \cup {k}
    BY <1>1, <1>2, <1>4, <1>5
  <1>7. \A i \in 1 .. N + 1 : new[i].content = other[new[i].key]
    <2>1. \A i \in 1 .. N : chs[i].content = other[chs[i].key]
      BY <1>1 DEF Listing, N
    <2>2. QED BY <1>2, <1>4, <1>5, <2>1
  <1>8. ASSUME NEW i \in 1 .. N + 1, NEW j \in 1 .. N + 1, i < j
        PROVE  Before(new[i].key, new[j].key)
    <2>1. i \in 1 .. N
      BY <1>1, <1>8
    <2>2. CASE j = N + 1
      BY <1>1, <1>2, <1>3, <1>4, <2>1, <2>2
    <2>3. CASE j # N + 1
      <3>1. j \in 1 .. N
        BY <1>5, <2>3
      <3>2. Before(chs[i].key, chs[j].key)
        BY <1>8, <2>1, <3>1 DEF Listing, N
      <3>3. QED BY <1>4, <2>1, <3>1, <3>2
    <2>4. QED BY <2>2, <2>3
  <1>9. QED BY <1>3, <1>4, <1>6, <1>7, <1>8 DEF Listing, new, c, N

(* The elements of a concatenation.                                        *)
LEMMA Concatenated ==
  ASSUME NEW D, NEW s \in Seq(D), NEW t \in Seq(D)
  PROVE  /\ s \o t \in Seq(D) /\ Len(s \o t) = Len(s) + Len(t)
         /\ \A i \in 1 .. Len(s) : (s \o t)[i] = s[i]
         /\ \A i \in 1 .. Len(t) : (s \o t)[Len(s) + i] = t[i]
  OBVIOUS

(* A change that comes where Position says.                                *)
LEMMA ListingInserted ==
  ASSUME NEW chs, NEW sub, NEW other, NEW K, Listing(chs, sub, K),
         NEW k \in Key, k \notin K, other[k] \in Content[k], \A l \in K : other[l] = sub[l],
         ~IsLatest(k, chs)
  PROVE  Listing(InsertAt(chs, Position(k, chs), [key |-> k, content |-> other[k]]),
                 other, K \cup {k})
  <1> DEFINE N == Len(chs)
             c == [key |-> k, content |-> other[k]]
             p == Position(k, chs)
             new == InsertAt(chs, p, c)
  <1>1. chs \in Seq(Change) /\ N \in Nat /\ K = {chs[i].key : i \in 1 .. N}
        /\ \A i \in 1 .. N : chs[i] \in Change /\ chs[i].key \in Key
    <2>1. chs \in Seq(Change) /\ N \in Nat /\ K = {chs[i].key : i \in 1 .. N}
      BY DEF Listing
    <2>2. \A i \in 1 .. N : chs[i] \in Change
      BY <2>1
    <2>3. QED BY <2>1, <2>2 DEF Change
  <1>2. c \in Change /\ c.key = k /\ c.content = other[k]
    BY DEF Change
  <1>3. /\ p \in 1 .. N /\ Before(k, chs[p].key)
        /\ \A j \in 1 .. p - 1 : ~Before(k, chs[j].key)
    <2> DEFINE S == {i \in 1 .. N : Before(k, chs[i].key)}
               Good(i) == /\ Before(k, chs[i].key)
                          /\ \A j \in 1 .. (i - 1) : ~Before(k, chs[j].key)
    <2>1. N \in S
      <3>1. chs # <<>> /\ ~Before(chs[N].key, k)
        BY DEF IsLatest, Last
      <3>2. N \in 1 .. N /\ chs[N].key \in Key /\ chs[N].key # k
        BY <1>1, <3>1
      <3>3. QED BY <3>1, <3>2, BeforeIsOrder
    <2>2. S \subseteq Nat /\ S # {}
      BY <2>1
    <2> DEFINE less == OpToRel(<, Nat)
    <2>3. IsWellFoundedOn(less, Nat)
      BY NatLessThanWellFounded
    <2>4. \A i, j \in Nat : <<i, j>> \in less <=> i < j
      BY DEF OpToRel
    <2> HIDE DEF less
    <2>5. PICK i \in S : \A j \in S : ~ (<<j, i>> \in less)
      <3> HIDE DEF S
      <3>1. QED BY <2>2, <2>3, WFMin
    <2>6. i \in DOMAIN chs /\ Good(i)
      <3>1. i \in DOMAIN chs /\ i \in Nat /\ Before(k, chs[i].key)
        BY <1>1
      <3>2. ASSUME NEW j \in 1 .. (i - 1), Before(k, chs[j].key) PROVE FALSE
        <4>1. j \in 1 .. N /\ j < i /\ j \in Nat
          BY <1>1
        <4>2. j \in S
          BY <3>2, <4>1
        <4>3. <<j, i>> \in less
          BY <2>4, <3>1, <4>1
        <4> HIDE DEF S
        <4>4. QED BY <2>5, <4>2, <4>3
      <3>3. QED BY <3>1, <3>2
    <2>7. Position(k, chs) = CHOOSE i_1 \in DOMAIN chs : Good(i_1)
      BY DEF Position
    <2> HIDE DEF Good
    <2>8. p \in DOMAIN chs /\ Good(p)
      BY Zenon, <2>6, <2>7
    <2>9. QED BY <1>1, <2>8 DEF Good
  <1> HIDE DEF p, c
  <1>4. /\ new \in Seq(Change) /\ Len(new) = N + 1 /\ new[p] = c
        /\ \A i \in 1 .. p - 1 : new[i] = chs[i]
        /\ \A i \in p + 1 .. N + 1 : new[i] = chs[i - 1]
    <2> DEFINE front == SubSeq(chs, 1, p - 1)
               back == SubSeq(chs, p, N)
    <2>1. /\ front \in Seq(Change) /\ Len(front) = p - 1
          /\ \A i \in 1 .. p - 1 : front[i] = chs[i]
      BY <1>1, <1>3
    <2>2. /\ back \in Seq(Change) /\ Len(back) = N - p + 1
          /\ \A i \in 1 .. N - p + 1 : back[i] = chs[p + i - 1]
      BY <1>1, <1>3
    <2> HIDE DEF front, back
    <2>3. new = front \o <<c>> \o back
      BY DEF InsertAt, front, back
    <2> DEFINE begin == front \o <<c>>
    <2>4. /\ begin \in Seq(Change) /\ Len(begin) = p /\ begin[p] = c
          /\ \A i \in 1 .. p - 1 : begin[i] = front[i]
      <3>1. p \in Nat \ {0}
        BY <1>1, <1>3
      <3>2. QED BY <1>2, <2>1, <3>1
    <2> HIDE DEF begin
    <2>5. new = begin \o back
      BY <2>3 DEF begin
    <2>6. /\ new \in Seq(Change) /\ Len(new) = p + (N - p + 1)
          /\ \A i \in 1 .. p : new[i] = begin[i]
          /\ \A i \in 1 .. N - p + 1 : new[p + i] = back[i]
      <3> HIDE DEF new
      <3>1. begin \in Seq(Change) /\ back \in Seq(Change)
        BY <2>2, <2>4
      <3>2. /\ begin \o back \in Seq(Change)
            /\ Len(begin \o back) = Len(begin) + Len(back)
            /\ \A i \in 1 .. Len(begin) : (begin \o back)[i] = begin[i]
            /\ \A i \in 1 .. Len(back) : (begin \o back)[Len(begin) + i] = back[i]
        BY <3>1, Concatenated
      <3>3. Len(begin) = p /\ Len(back) = N - p + 1
        BY <2>2, <2>4
      <3> HIDE DEF N
      <3>4. QED BY <2>5, <3>2, <3>3
    <2> HIDE DEF new
    <2>7. ASSUME NEW i \in p + 1 .. N + 1 PROVE new[i] = chs[i - 1]
      <3>1. i - p \in 1 .. N - p + 1 /\ p + (i - p) = i /\ p + (i - p) - 1 = i - 1
        <4> HIDE DEF N
        <4>1. N \in Int /\ p \in Int /\ i \in Int /\ p + 1 <= i /\ i <= N + 1
          BY <1>1, <1>3
        <4>2. QED BY <4>1
      <3>2. QED BY <2>2, <2>6, <3>1
    <2>8. p + (N - p + 1) = N + 1 /\ p \in 1 .. p
      BY <1>1, <1>3
    <2>9. \A i \in 1 .. p - 1 : i \in 1 .. p
      BY <1>1, <1>3
    <2>10. QED BY <2>1, <2>4, <2>6, <2>7, <2>8, <2>9
  <1> HIDE DEF new, N
  <1> DEFINE old(i) == IF i < p THEN i ELSE i - 1
  <1>5. \A i \in 1 .. N + 1 : i = p \/ (old(i) \in 1 .. N /\ new[i] = chs[old(i)])
    BY <1>1, <1>3, <1>4
  <1>6. {new[i].key : i \in 1 .. N + 1} = K \cup {k}
    <2>1. ASSUME NEW i \in 1 .. N + 1 PROVE new[i].key \in K \cup {k}
      BY <1>1, <1>2, <1>4, <1>5
    <2>2. ASSUME NEW i \in 1 .. N PROVE \E j \in 1 .. N + 1 : new[j].key = chs[i].key
      <3>1. CASE i < p
        BY <1>1, <1>3, <1>4, <3>1
      <3>2. CASE ~(i < p)
        <4>1. i + 1 \in p + 1 .. N + 1 /\ (i + 1) - 1 = i /\ i + 1 \in 1 .. N + 1
          BY <1>1, <1>3, <3>2
        <4>2. QED BY <1>4, <4>1
      <3>3. QED BY <3>1, <3>2
    <2>3. p \in 1 .. N + 1 /\ new[p].key = k
      BY <1>1, <1>2, <1>3, <1>4
    <2>4. \A l \in K \cup {k} : \E j \in 1 .. N + 1 : new[j].key = l
      BY <1>1, <2>2, <2>3
    <2> HIDE DEF old
    <2>5. QED BY <2>1, <2>4
  <1>7. \A i \in 1 .. N + 1 : new[i].content = other[new[i].key]
    <2>1. \A i \in 1 .. N : chs[i].content = other[chs[i].key]
      BY <1>1 DEF Listing, N
    <2>2. QED BY <1>2, <1>4, <1>5, <2>1
  <1>8. ASSUME NEW i \in 1 .. N + 1, NEW j \in 1 .. N + 1, i < j
        PROVE  Before(new[i].key, new[j].key)
    <2>1. \A a, b \in 1 .. N : a < b => Before(chs[a].key, chs[b].key)
      BY DEF Listing, N
    <2>2. CASE i # p /\ j # p
      <3>1. old(i) < old(j)
        BY <1>1, <1>3, <1>8, <2>2
      <3>2. QED BY <1>5, <2>1, <2>2, <3>1
    <2>3. CASE j = p
      <3>1. i \in 1 .. p - 1 /\ i \in 1 .. N
        BY <1>1, <1>3, <1>8, <2>3
      <3>2. ~Before(k, chs[i].key) /\ chs[i].key # k
        BY <1>1, <1>3, <3>1
      <3>3. Before(chs[i].key, k)
        BY <1>1, <3>1, <3>2, BeforeIsOrder
      <3>4. QED BY <1>2, <1>4, <2>3, <3>1, <3>3
    <2>4. CASE i = p
      <3>1. j \in p + 1 .. N + 1 /\ j - 1 \in 1 .. N /\ (p < j - 1 \/ p = j - 1)
        BY <1>1, <1>3, <1>8, <2>4
      <3>2. Before(k, chs[j - 1].key)
        <4>1. p = j - 1 \/ Before(chs[p].key, chs[j - 1].key)
          BY <1>3, <2>1, <3>1
        <4>2. QED BY <1>1, <1>3, <3>1, <4>1, BeforeIsOrder
      <3>3. QED BY <1>2, <1>4, <2>4, <3>1, <3>2
    <2>5. QED BY <2>2, <2>3, <2>4
  <1>9. QED BY <1>4, <1>6, <1>7, <1>8 DEF Listing, new, c, p, N

(* The recursion of the removals.                                          *)
IsFilter(f, J, chs) ==
  /\ f[0] = <<>>
  /\ \A n \in 1 .. Len(chs) :
       f[n] = IF chs[n].key \in J THEN Append(f[n - 1], chs[n]) ELSE f[n - 1]
  /\ ChangesOf(J, chs) = f[Len(chs)]

(* There is such a run, which ends in the changes left.                    *)
LEMMA FilterRuns ==
  ASSUME NEW J, NEW T, NEW chs \in Seq(T)
  PROVE  \E f : IsFilter(f, J, chs)
  <1> DEFINE N == Len(chs)
             next(n, s) == IF n = 0 THEN <<>>
                           ELSE IF chs[n].key \in J THEN Append(s, chs[n]) ELSE s
             Runs(n, f) == f = [i \in 0 .. n |-> next(i, f[i - 1])]
             S == {n \in 0 .. N : \E f : Runs(n, f)}
  <1>1. N \in Nat
    OBVIOUS
  <1>2. 0 \in S
    <2> DEFINE f == [i \in 0 .. 0 |-> <<>>]
    <2>1. f = [i \in 0 .. 0 |-> next(i, f[i - 1])]
      OBVIOUS
    <2>2. \E x : Runs(0, x)
      BY <2>1
    <2> HIDE DEF Runs
    <2>3. QED BY <1>1, <2>2
  <1>3. ASSUME NEW n \in 1 .. N, n - 1 \in S PROVE n \in S
    <2>1. PICK f : Runs(n - 1, f)
      BY <1>3
    <2> DEFINE last == next(n, f[n - 1])
               h == [i \in 0 .. n |-> IF i = n THEN last ELSE f[i]]
    <2>2. ASSUME NEW i \in 0 .. n PROVE h[i] = next(i, h[i - 1])
      <3>1. CASE i = n
        <4>1. h[i - 1] = f[n - 1] /\ h[i] = last
          BY <3>1
        <4> HIDE DEF next, h
        <4>2. QED BY <3>1, <4>1
      <3>2. CASE i # n /\ i # 0
        <4>1. i \in 0 .. n - 1 /\ i - 1 \in 0 .. n /\ i - 1 # n
          BY <3>2
        <4> HIDE DEF next
        <4>2. f[i] = next(i, f[i - 1])
          BY <2>1, <4>1
        <4>3. h[i] = f[i] /\ h[i - 1] = f[i - 1]
          BY <3>2, <4>1
        <4>4. QED BY <4>2, <4>3
      <3>3. CASE i # n /\ i = 0
        <4>1. 0 \in 0 .. n - 1
          OBVIOUS
        <4>2. f[0] = <<>>
          BY <2>1, <4>1
        <4>3. QED BY <3>3, <4>2
      <3>4. QED BY <3>1, <3>2, <3>3
    <2>3. h = [i \in 0 .. n |-> h[i]]
      OBVIOUS
    <2> HIDE DEF h, next
    <2>4. Runs(n, h)
      BY <2>2, <2>3
    <2>5. QED BY <2>4
  <1> HIDE DEF S
  <1>4. \A n \in 0 .. N : n \in S
    BY <1>1, <1>2, <1>3, InductionUpTo
  <1>5. \E f : Runs(N, f)
    <2>1. N \in S
      BY <1>1, <1>4
    <2> HIDE DEF Runs
    <2>2. QED BY <2>1 DEF S
  <1> DEFINE f == CHOOSE f : Runs(N, f)
  <1>6. Runs(N, f)
    BY Zenon, <1>5
  <1>7. ChangesOf(J, chs) = f[N]
    BY DEF ChangesOf
  <1> HIDE DEF f, N, next
  <1>a. \A n \in 0 .. N : f[n] = next(n, f[n - 1])
    BY <1>6
  <1>8. f[0] = <<>>
    BY <1>1, <1>a DEF next
  <1>9. \A n \in 1 .. N :
          f[n] = IF chs[n].key \in J THEN Append(f[n - 1], chs[n]) ELSE f[n - 1]
    BY <1>1, <1>a DEF next
  <1>10. IsFilter(f, J, chs)
    BY <1>7, <1>8, <1>9 DEF N, IsFilter
  <1>11. QED BY <1>10

(* The changes left when some are removed.                                 *)
LEMMA ListingFiltered ==
  ASSUME NEW chs, NEW sub, NEW K, Listing(chs, sub, K), \A k \in K : sub[k] \in Content[k], NEW J
  PROVE  Listing(ChangesOf(J, chs), sub, K \cap J)
  <1> DEFINE N == Len(chs)
             keys(n) == {chs[i].key : i \in 1 .. n}
  <1>1. chs \in Seq(Change) /\ N \in Nat /\ K = keys(N)
    BY DEF Listing
  <1>2. PICK f : /\ f[0] = <<>>
                 /\ \A n \in 1 .. Len(chs) :
                      f[n] = IF chs[n].key \in J THEN Append(f[n - 1], chs[n]) ELSE f[n - 1]
                 /\ ChangesOf(J, chs) = f[Len(chs)]
    <2>1. \E f : IsFilter(f, J, chs)
      BY <1>1, FilterRuns
    <2>2. QED BY <2>1 DEF IsFilter
  <1> DEFINE R == {n \in 0 .. N : Listing(f[n], sub, keys(n) \cap J)}
  <1>3. 0 \in R
    <2>1. keys(0) \cap J = {}
      OBVIOUS
    <2> HIDE DEF keys
    <2>2. Listing(<<>>, sub, {})
      <3>1. <<>> \in Seq(Change) /\ 1 .. Len(<<>>) = {}
        OBVIOUS
      <3>2. QED BY <3>1 DEF Listing
    <2>3. 0 \in 0 .. N
      BY <1>1
    <2>4. QED BY <1>2, <2>1, <2>2, <2>3
  <1>4. ASSUME NEW n \in 1 .. N, n - 1 \in R PROVE n \in R
    <2> DEFINE k == chs[n].key
               L == keys(n - 1)
    <2>1. k \in Key /\ k \in K /\ chs[n] = [key |-> k, content |-> sub[k]]
      <3>1. chs[n] \in Change /\ chs[n].content = sub[k] /\ k \in K
        BY <1>1 DEF Listing
      <3>2. QED BY <3>1 DEF Change
    <2>2. keys(n) = L \cup {k}
      <3>1. 1 .. n = (1 .. n - 1) \cup {n}
        BY <1>1
      <3>2. QED BY <3>1
    <2>3. \A l \in L : Before(l, k)
      <3>1. \A i \in 1 .. n - 1 : i \in 1 .. N /\ i < n
        BY <1>1
      <3>2. QED BY <3>1 DEF Listing
    <2>4. /\ n \in 0 .. N /\ Listing(f[n - 1], sub, L \cap J)
          /\ f[n] = IF k \in J THEN Append(f[n - 1], chs[n]) ELSE f[n - 1]
      BY <1>2, <1>4
    <2> HIDE DEF L, k, keys
    <2>5. CASE k \notin J
      <3>1. keys(n) \cap J = L \cap J
        BY <2>2, <2>5
      <3>2. QED BY <2>4, <2>5, <3>1
    <2>6. CASE k \in J
      <3> DEFINE g == f[n - 1]
      <3>1. IsLatest(k, g)
        <4>1. g \in Seq(Change) /\ L \cap J = {g[i].key : i \in 1 .. Len(g)}
          BY <2>4 DEF Listing
        <4> HIDE DEF g
        <4>2. ASSUME g # <<>> PROVE Last(g).key \in L
          <5>1. Len(g) \in 1 .. Len(g) /\ Last(g) = g[Len(g)]
            BY <4>1, <4>2 DEF Last
          <5>2. QED BY <4>1, <5>1
        <4>3. QED BY <2>3, <4>2 DEF IsLatest
      <3>2. sub[k] \in Content[k]
        BY <2>1
      <3> HIDE DEF g
      <3>3. Listing(g, sub, L \cap J)
        BY <2>4 DEF g
      <3>4. Listing(Append(g, [key |-> k, content |-> sub[k]]), sub, (L \cap J) \cup {k})
        BY <2>1, <3>1, <3>2, <3>3, ListingAppended
      <3>5. (L \cap J) \cup {k} = keys(n) \cap J
        BY <2>2, <2>6
      <3>6. f[n] = Append(g, [key |-> k, content |-> sub[k]])
        BY <2>1, <2>4, <2>6 DEF g
      <3>7. QED BY <2>4, <3>4, <3>5, <3>6
    <2>7. QED BY <2>5, <2>6
  <1> HIDE DEF R
  <1>5. N \in R
    <2>1. \A n \in 1 .. N : n - 1 \in R => n \in R
      BY <1>4
    <2>2. N \in Nat /\ N \in 0 .. N
      BY <1>1
    <2> HIDE DEF N
    <2>3. \A n \in 0 .. N : n \in R
      BY <1>3, <2>1, <2>2, InductionUpTo
    <2>4. QED BY <2>2, <2>3
  <1>6. QED BY <1>1, <1>2, <1>5 DEF R

(* Another content for a key.                                              *)
LEMMA ListingReplaced ==
  ASSUME NEW chs, NEW sub, NEW other, NEW K, Listing(chs, sub, K),
         NEW k \in Key, other[k] \in Content[k], \A l \in K \ {k} : other[l] = sub[l]
  PROVE  Listing([i \in DOMAIN chs |-> IF chs[i].key = k THEN [key |-> k, content |-> other[k]]
                                       ELSE chs[i]], other, K)
  <1> DEFINE N == Len(chs)
             c == [key |-> k, content |-> other[k]]
             new == [i \in DOMAIN chs |-> IF chs[i].key = k THEN c ELSE chs[i]]
  <1>1. chs \in Seq(Change) /\ N \in Nat /\ DOMAIN chs = 1 .. N
        /\ K = {chs[i].key : i \in 1 .. N}
        /\ \A i \in 1 .. N : chs[i] \in Change /\ chs[i].content = sub[chs[i].key]
    BY DEF Listing
  <1>2. c \in Change /\ c.key = k /\ c.content = other[k]
    BY DEF Change
  <1> HIDE DEF c
  <1>3. \A i \in 1 .. N : /\ new[i] \in Change /\ new[i].key = chs[i].key
                          /\ new[i].content = other[new[i].key]
    BY <1>1, <1>2
  <1>4. new \in Seq(Change) /\ Len(new) = N
    <2>1. new = [i \in 1 .. N |-> new[i]]
      BY <1>1
    <2> HIDE DEF new
    <2>2. new \in [1 .. N -> Change]
      BY <1>3, <2>1
    <2>3. QED BY <1>1, <2>2
  <1> HIDE DEF new, N
  <1>5. {new[i].key : i \in 1 .. N} = K
    BY <1>1, <1>3
  <1>6. \A i, j \in 1 .. N : i < j => Before(new[i].key, new[j].key)
    BY <1>3 DEF Listing, N
  <1>7. QED BY <1>3, <1>4, <1>5, <1>6 DEF Listing, new, c, N

(* Only the subchanges with the keys count.                                *)
LEMMA ListingAlike ==
  ASSUME NEW chs, NEW sub, NEW other, NEW K, Listing(chs, sub, K),
         \A k \in K : other[k] = sub[k]
  PROVE  Listing(chs, other, K)
  BY DEF Listing

-----------------------------------------------------------------------------
(* The inductive invariant: the Score lists the subchanges that are        *)
(* loaded, and is right unless it just took a mode.                        *)

Loaded == DOMAIN subchanges \ loading

HistoryInv ==
  /\ taskMode \in ScoreMode /\ mode \in ScoreMode
  /\ submissions \in SUBSET Submission /\ IsFiniteSet(submissions)
  /\ DOMAIN subchanges \in SUBSET Key /\ IsFiniteSet(DOMAIN subchanges)
  /\ \A k \in DOMAIN subchanges : subchanges[k] \in Content[k]
  /\ loading \in SUBSET DOMAIN subchanges
  /\ \A k \in Loaded : Of[k] \in submissions
  /\ Listing(changes, subchanges, Loaded)
  /\ replayed => Right(score, submissions, subchanges, Loaded, mode)

(* What the files hold.                                                    *)
FilesInv ==
  /\ submissionFiles \in SUBSET Submission /\ IsFiniteSet(submissionFiles)
  /\ DOMAIN subchangeFiles \in SUBSET Key /\ IsFiniteSet(DOMAIN subchangeFiles)
  /\ \A k \in DOMAIN subchangeFiles : subchangeFiles[k] \in Content[k]

LEMMA FilesInit == Init => FilesInv
  <1>1. IsFiniteSet({})
    BY FS_EmptySet
  <1>2. QED BY <1>1 DEF Init, FilesInv

(* Fewer files of subchanges.                                              *)
LEMMA FilesGo ==
  ASSUME FilesInv, NEW K, subchangeFiles' = WithoutAll(subchangeFiles, K)
  PROVE  /\ DOMAIN subchangeFiles' \in SUBSET Key /\ IsFiniteSet(DOMAIN subchangeFiles')
         /\ \A k \in DOMAIN subchangeFiles' : subchangeFiles'[k] \in Content[k]
  <1>1. DOMAIN subchangeFiles' = DOMAIN subchangeFiles \ K
        /\ \A k \in DOMAIN subchangeFiles' : subchangeFiles'[k] = subchangeFiles[k]
    BY DEF WithoutAll
  <1>2. IsFiniteSet(DOMAIN subchangeFiles \ K)
    BY FS_Subset DEF FilesInv
  <1>3. QED BY <1>1, <1>2 DEF FilesInv

(* A submission is written, or its file goes.                              *)
LEMMA FilesOfSubmission ==
  ASSUME FilesInv, NEW s \in Submission,
         \/ submissionFiles' = submissionFiles \cup {s}
         \/ submissionFiles' = submissionFiles \ {s}
         \/ submissionFiles' = submissionFiles
  PROVE  submissionFiles' \in SUBSET Submission /\ IsFiniteSet(submissionFiles')
  <1>1. IsFiniteSet(submissionFiles \cup {s}) /\ IsFiniteSet(submissionFiles \ {s})
    BY FS_AddElement, FS_RemoveElement DEF FilesInv
  <1>2. QED BY <1>1 DEF FilesInv

(* A subchange is written.                                                 *)
LEMMA FilesOfSubchange ==
  ASSUME FilesInv, NEW k \in Key, NEW x \in Content[k], PutSubchange(k, x) PROVE FilesInv'
  <1>1. /\ DOMAIN subchangeFiles' = DOMAIN subchangeFiles \cup {k}
        /\ submissionFiles' = submissionFiles
        /\ subchangeFiles'[k] = x
        /\ \A l \in DOMAIN subchangeFiles \ {k} : subchangeFiles'[l] = subchangeFiles[l]
    BY DEF PutSubchange, With
  <1>2. IsFiniteSet(DOMAIN subchangeFiles \cup {k})
    BY FS_AddElement DEF FilesInv
  <1>3. QED BY <1>1, <1>2 DEF FilesInv

(* Every step keeps it.                                                    *)
LEMMA FilesStep == FilesInv /\ [Next]_vars => FilesInv'
  <1> SUFFICES ASSUME FilesInv, [Next]_vars PROVE FilesInv'
    OBVIOUS
  <1>1. ASSUME NEW m \in ScoreMode, UpdateTask(m) PROVE FilesInv'
    BY <1>1 DEF UpdateTask, storeVars, diskVars, FilesInv
  <1>2. ASSUME NEW s \in Submission, CreateSubmission(s) PROVE FilesInv'
    <2>1. submissionFiles' = submissionFiles \cup {s} /\ subchangeFiles' = subchangeFiles
      BY <1>2 DEF CreateSubmission, PutSubmission
    <2>2. QED BY <2>1, FilesOfSubmission DEF FilesInv
  <1>3. ASSUME NEW s \in Submission, UpdateSubmission(s) PROVE FilesInv'
    <2>1. submissionFiles' = submissionFiles \cup {s} /\ subchangeFiles' = subchangeFiles
      BY <1>3 DEF UpdateSubmission, PutSubmission
    <2>2. QED BY <2>1, FilesOfSubmission DEF FilesInv
  <1>4. ASSUME NEW s \in Submission, DeleteSubmission(s) PROVE FilesInv'
    <2>1. submissionFiles' = submissionFiles \ {s}
          /\ subchangeFiles' = WithoutAll(subchangeFiles, Dependents(s))
      BY <1>4 DEF DeleteSubmission, RemoveSubmission
    <2>2. QED BY <2>1, FilesOfSubmission, FilesGo DEF FilesInv
  <1>5. ASSUME NEW k \in Key, CreateSubchange(k) PROVE FilesInv'
    BY <1>5, FilesOfSubchange DEF CreateSubchange
  <1>6. ASSUME NEW k \in Key, UpdateSubchange(k) PROVE FilesInv'
    BY <1>6, FilesOfSubchange DEF UpdateSubchange
  <1>7. ASSUME NEW k \in Key, DeleteSubchange(k) PROVE FilesInv'
    <2>1. submissionFiles' = submissionFiles
          /\ subchangeFiles' = WithoutAll(subchangeFiles, {k})
      BY <1>7 DEF DeleteSubchange, RemoveSubchange
    <2>2. QED BY <2>1, FilesGo DEF FilesInv
  <1>8. CASE Restart
    BY <1>8 DEF Restart, diskVars, FilesInv
  <1>9. ASSUME NEW s \in Submission, RestartInDelete(s) PROVE FilesInv'
    <2>1. submissionFiles' = submissionFiles
          /\ \E gone \in SUBSET Dependents(s) : subchangeFiles' = WithoutAll(subchangeFiles, gone)
      BY <1>9 DEF RestartInDelete, HalfDelete
    <2>2. QED BY <2>1, FilesGo DEF FilesInv
  <1>10. ASSUME NEW s \in Submission, RestartInWriteOfSubmission(s) PROVE FilesInv'
    <2>1. submissionFiles' = submissionFiles \ {s} /\ subchangeFiles' = subchangeFiles
      BY <1>10 DEF RestartInWriteOfSubmission, HalfPutSubmission
    <2>2. QED BY <2>1, FilesOfSubmission DEF FilesInv
  <1>11. ASSUME NEW k \in Key, RestartInWriteOfSubchange(k) PROVE FilesInv'
    <2>1. submissionFiles' = submissionFiles
          /\ subchangeFiles' = WithoutAll(subchangeFiles, {k})
      BY <1>11 DEF RestartInWriteOfSubchange, HalfPutSubchange
    <2>2. QED BY <2>1, FilesGo DEF FilesInv
  <1>12. ASSUME NEW k \in Key, Load(k) PROVE FilesInv'
    BY <1>12 DEF Load, storeVars, diskVars, FilesInv
  <1>13. CASE UNCHANGED vars
    BY <1>13 DEF vars, storeVars, diskVars, FilesInv
  <1>14. QED BY <1>1, <1>2, <1>3, <1>4, <1>5, <1>6, <1>7, <1>8, <1>9, <1>10, <1>11, <1>12,
              <1>13 DEF Next

(* What the lemmas above ask of the subchanges.                            *)
LEMMA InStore ==
  ASSUME NEW S \in SUBSET Submission, IsFiniteSet(S), NEW sub, NEW D \in SUBSET Key,
         IsFiniteSet(D), \A k \in D : sub[k] \in Content[k] /\ Of[k] \in S,
         NEW K \in SUBSET D
  PROVE  Stored(S, sub, K) /\ Subchanges(sub, K) /\ \A k \in K : sub[k] \in Content[k]
  <1>1. IsFiniteSet(K)
    BY FS_Subset
  <1>2. \A k \in K : sub[k] \in ContentType
    BY RankingScoreAssumption DEF ContentType
  <1>3. QED BY <1>1, <1>2 DEF Stored, Subchanges

(* They are met in every state of the invariant.                           *)
LEMMA HistoryStored ==
  ASSUME HistoryInv
  PROVE  Stored(submissions, subchanges, Loaded) /\ Subchanges(subchanges, Loaded)
  <1>1. /\ Loaded \in SUBSET Key /\ IsFiniteSet(Loaded) /\ Loaded \in SUBSET Loaded
        /\ submissions \in SUBSET Submission /\ IsFiniteSet(submissions)
        /\ \A k \in Loaded : subchanges[k] \in Content[k] /\ Of[k] \in submissions
    BY FS_Subset DEF HistoryInv, Loaded
  <1>2. QED BY <1>1, InStore

(* create_subchange, of a subchange in store.                              *)
LEMMA CreateChangeIsRight ==
  ASSUME NEW S, S = submissions, NEW m \in ScoreMode, m = mode,
         NEW sub, NEW other, NEW K, Subchanges(sub, K), Listing(changes, sub, K),
         replayed => Right(score, S, sub, K, m),
         NEW k \in Key, k \notin K, \A l \in K : other[l] = sub[l], other[k] \in Content[k],
         Stored(S, other, K \cup {k}),
         CreateChange([key |-> k, content |-> other[k]])
  PROVE  /\ Listing(changes', other, K \cup {k})
         /\ replayed' => Right(score', S, other, K \cup {k}, m)
  <1> DEFINE c == [key |-> k, content |-> other[k]]
  <1>1. c.key = k
    OBVIOUS
  <1>2. CASE IsLatest(k, changes)
    <2>1. /\ changes' = Append(changes, c) /\ score' = AppendChange(score, c, m)
          /\ replayed' = replayed
      BY <1>1, <1>2 DEF CreateChange
    <2> HIDE DEF c
    <2>2. Listing(changes', other, K \cup {k}) /\ \A l \in K : Before(l, k)
      BY <1>2, <2>1, ListingAppended DEF c
    <2>3. ASSUME replayed' PROVE Right(score', S, other, K \cup {k}, m)
      <3>1. Right(score, S, sub, K, m)
        BY <2>1, <2>3
      <3>2. Right(score, S, other, K, m)
        BY <3>1, RightAlike
      <3>3. QED BY <2>1, <2>2, <3>2, AppendChangeIsRight DEF c
    <2>4. QED BY <2>2, <2>3
  <1>3. CASE ~IsLatest(k, changes)
    <2>1. /\ changes' = InsertAt(changes, Position(k, changes), c)
          /\ score' = Replay(S, changes', m)
      BY <1>1, <1>3 DEF CreateChange
    <2> HIDE DEF c
    <2>2. Listing(changes', other, K \cup {k})
      BY <1>3, <2>1, ListingInserted DEF c
    <2>3. Right(score', S, other, K \cup {k}, m)
      BY <2>1, <2>2, ReplayIsRight
    <2>4. QED BY <2>2, <2>3
  <1>4. QED BY <1>2, <1>3

(* Nothing is listed at first.                                             *)
LEMMA HistoryInit == Init => HistoryInv
  <1> SUFFICES ASSUME Init PROVE HistoryInv
    OBVIOUS
  <1>1. DOMAIN subchanges = {} /\ Loaded = {} /\ loading = {}
    BY DEF Init, Loaded
  <1>2. Listing(changes, subchanges, {})
    BY DEF Init, Listing
  <1>3. mode \in ScoreMode /\ taskMode \in ScoreMode /\ IsFiniteSet({})
    BY FS_EmptySet DEF Init
  <1>4. Right(score, submissions, subchanges, Loaded, mode)
    <2>1. submissions = {} /\ score = Blank({})
      BY DEF Init
    <2>2. QED BY <1>1, <1>3, <2>1, BlankIsRight
  <1>5. QED BY <1>1, <1>2, <1>3, <1>4 DEF Init, HistoryInv

(* Each action keeps the invariant.  No Score hears of another mode of the *)
(* task.                                                                   *)
LEMMA HistoryUpdateTask ==
  ASSUME HistoryInv, NEW m \in ScoreMode, UpdateTask(m) PROVE HistoryInv'
  BY DEF HistoryInv, UpdateTask, Loaded, storeVars

(* A new submission has no subchange.                                      *)
LEMMA HistoryCreateSubmission ==
  ASSUME HistoryInv, NEW s \in Submission, CreateSubmission(s) PROVE HistoryInv'
  <1>1. /\ s \notin submissions /\ submissions' = submissions \cup {s}
        /\ subchanges' = subchanges /\ changes' = changes /\ loading' = loading
        /\ taskMode' = taskMode /\ replayed' = replayed /\ Loaded' = Loaded
        /\ score' = [score EXCEPT !.status =
                       [t \in submissions \cup {s} |-> IF t = s THEN Unscored ELSE @[t]]]
        /\ mode' = IF submissions = {} THEN taskMode ELSE mode
    BY DEF CreateSubmission, PutSubmission, Loaded
  <1>2. mode \in ScoreMode /\ mode' \in ScoreMode /\ (submissions # {} => mode = mode')
    BY <1>1 DEF HistoryInv
  <1>3. Stored(submissions, subchanges, Loaded)
    BY HistoryStored
  <1>4. ASSUME replayed PROVE Right(score', submissions \cup {s}, subchanges, Loaded, mode')
    <2>1. Right(score, submissions, subchanges, Loaded, mode)
      BY <1>4 DEF HistoryInv
    <2>2. QED BY <1>1, <1>2, <1>3, <2>1, NewSubmissionIsRight
  <1>5. submissions' \in SUBSET Submission /\ IsFiniteSet(submissions')
    BY <1>1, FS_AddElement DEF HistoryInv
  <1>6. QED BY <1>1, <1>2, <1>4, <1>5 DEF HistoryInv

(* The history is right for the mode it was reset in, and replayed tells   *)
(* whether that is the mode of the Score afterwards.                       *)
LEMMA HistoryUpdateSubmission ==
  ASSUME HistoryInv, NEW s \in Submission, UpdateSubmission(s) PROVE HistoryInv'
  <1>1. /\ submissions' = submissions /\ subchanges' = subchanges /\ changes' = changes
        /\ loading' = loading /\ taskMode' = taskMode /\ mode' = taskMode
        /\ replayed' = (mode' = mode) /\ Loaded' = Loaded
        /\ score' = Replay(submissions, changes, mode)
    BY DEF UpdateSubmission, PutSubmission, Loaded
  <1>2. Right(score', submissions, subchanges, Loaded, mode)
    BY <1>1, HistoryStored, ReplayIsRight DEF HistoryInv
  <1>3. QED BY <1>1, <1>2 DEF HistoryInv

(* The subchanges and the changes that go are those of the submission.     *)
LEMMA HistoryDeleteSubmission ==
  ASSUME HistoryInv, NEW s \in Submission, DeleteSubmission(s) PROVE HistoryInv'
  <1> DEFINE J == {k \in Key : Of[k] # s}
             S == submissions \ {s}
             K == DOMAIN subchanges \ Dependents(s)
  <1>1. /\ submissions' = S /\ subchanges' = [k \in K |-> subchanges[k]]
        /\ changes' = ChangesOf(J, changes) /\ score' = Replay(submissions', changes', mode)
        /\ loading = {} /\ loading' = {} /\ taskMode' = taskMode /\ mode' = mode
    BY DEF DeleteSubmission, RemoveSubmission, WithoutAll, Serving
  <1>2. DOMAIN subchanges' = K /\ Loaded = DOMAIN subchanges /\ Loaded' = K
        /\ \A k \in K : subchanges'[k] = subchanges[k]
    BY <1>1 DEF Loaded
  <1>3. Loaded \cap J = K /\ K \in SUBSET DOMAIN subchanges
    BY <1>2 DEF Dependents, HistoryInv
  <1>4. S \in SUBSET Submission /\ IsFiniteSet(S) /\ K \in SUBSET Key /\ IsFiniteSet(K)
        /\ \A k \in K : Of[k] \in S /\ subchanges[k] \in Content[k]
    BY <1>2, <1>3, FS_Subset DEF HistoryInv, Dependents
  <1>5. Listing(changes', subchanges, K)
    <2>1. Listing(changes, subchanges, Loaded) /\ \A k \in Loaded : subchanges[k] \in Content[k]
      BY <1>2 DEF HistoryInv
    <2> HIDE DEF J, K
    <2>2. QED BY <1>1, <1>3, <2>1, ListingFiltered
  <1> HIDE DEF J, K, S
  <1>6. Listing(changes', subchanges', K)
    BY <1>2, <1>5, ListingAlike
  <1>7. Stored(S, subchanges', K)
    <2>1. \A k \in K : subchanges'[k] \in Content[k] /\ Of[k] \in S
      BY <1>2, <1>4
    <2>2. K \in SUBSET K
      OBVIOUS
    <2>3. QED BY <1>4, <2>1, <2>2, InStore
  <1>8. mode \in ScoreMode /\ taskMode \in ScoreMode
    BY DEF HistoryInv
  <1>9. Right(score', S, subchanges', K, mode)
    BY <1>1, <1>6, <1>7, <1>8, ReplayIsRight
  <1>10. QED BY <1>1, <1>2, <1>4, <1>6, <1>8, <1>9 DEF HistoryInv

(* The change goes where its key belongs.                                  *)
LEMMA HistoryCreateSubchange ==
  ASSUME HistoryInv, NEW k \in Key, CreateSubchange(k) PROVE HistoryInv'
  <1>1. PICK x \in Content[k] : PutSubchange(k, x) /\ CreateChange([key |-> k, content |-> x])
    BY DEF CreateSubchange
  <1> DEFINE D == DOMAIN subchanges
  <1>2. /\ k \notin D /\ Of[k] \in submissions /\ submissions' = submissions
        /\ subchanges' = [l \in D \cup {k} |-> IF l = k THEN x ELSE subchanges[l]]
        /\ loading = {} /\ loading' = {} /\ taskMode' = taskMode /\ mode' = mode
    BY <1>1 DEF CreateSubchange, PutSubchange, With, Serving
  <1>3. DOMAIN subchanges' = D \cup {k} /\ Loaded = D /\ Loaded' = D \cup {k}
        /\ subchanges'[k] = x /\ \A l \in D : subchanges'[l] = subchanges[l]
    BY <1>2 DEF Loaded
  <1>4. D \cup {k} \in SUBSET Key /\ IsFiniteSet(D \cup {k})
        /\ \A l \in D \cup {k} : subchanges'[l] \in Content[l] /\ Of[l] \in submissions
    BY <1>2, <1>3, FS_AddElement DEF HistoryInv
  <1>5. Stored(submissions, subchanges', D \cup {k})
    <2>1. D \cup {k} \in SUBSET (D \cup {k}) /\ submissions \in SUBSET Submission
          /\ IsFiniteSet(submissions)
      BY DEF HistoryInv
    <2> HIDE DEF D
    <2>2. QED BY <1>4, <2>1, InStore
  <1>6. /\ Subchanges(subchanges, D) /\ Listing(changes, subchanges, D)
        /\ replayed => Right(score, submissions, subchanges, D, mode)
        /\ mode \in ScoreMode /\ taskMode \in ScoreMode
    BY <1>3, HistoryStored DEF HistoryInv
  <1>7. CreateChange([key |-> k, content |-> subchanges'[k]]) /\ subchanges'[k] \in Content[k]
    BY <1>1, <1>3
  <1> HIDE DEF D
  <1>8. /\ Listing(changes', subchanges', D \cup {k})
        /\ replayed' => Right(score', submissions, subchanges', D \cup {k}, mode)
    BY <1>2, <1>3, <1>5, <1>6, <1>7, CreateChangeIsRight
  <1>9. QED BY <1>2, <1>3, <1>4, <1>6, <1>8 DEF HistoryInv

(* The change keeps its place.                                             *)
LEMMA HistoryUpdateSubchange ==
  ASSUME HistoryInv, NEW k \in Key, UpdateSubchange(k) PROVE HistoryInv'
  <1> DEFINE D == DOMAIN subchanges
  <1>1. PICK x \in Content[k] :
          /\ PutSubchange(k, x)
          /\ changes' = [i \in DOMAIN changes |->
               IF changes[i].key = k THEN [key |-> k, content |-> x] ELSE changes[i]]
    BY DEF UpdateSubchange
  <1>2. /\ k \in D /\ submissions' = submissions
        /\ subchanges' = [l \in D \cup {k} |-> IF l = k THEN x ELSE subchanges[l]]
        /\ loading = {} /\ loading' = {} /\ taskMode' = taskMode /\ mode' = mode
        /\ score' = Replay(submissions, changes', mode)
    BY <1>1 DEF UpdateSubchange, PutSubchange, With, Serving
  <1>3. DOMAIN subchanges' = D /\ Loaded = D /\ Loaded' = D
        /\ subchanges'[k] = x /\ \A l \in D \ {k} : subchanges'[l] = subchanges[l]
    BY <1>2 DEF Loaded
  <1>4. \A l \in D : subchanges'[l] \in Content[l] /\ Of[l] \in submissions
    <2>1. \A l \in D : Of[l] \in submissions /\ subchanges[l] \in Content[l]
      BY <1>3 DEF HistoryInv
    <2>2. x \in Content[k]
      OBVIOUS
    <2>3. QED BY <1>3, <2>1, <2>2
  <1>5. Stored(submissions, subchanges', D)
    <2>1. D \in SUBSET D /\ D \in SUBSET Key /\ IsFiniteSet(D)
          /\ submissions \in SUBSET Submission /\ IsFiniteSet(submissions)
      BY DEF HistoryInv
    <2> HIDE DEF D
    <2>2. QED BY <1>4, <2>1, InStore
  <1>6. Listing(changes, subchanges, D) /\ mode \in ScoreMode
    BY <1>3 DEF HistoryInv
  <1>7. subchanges'[k] \in Content[k]
        /\ changes' = [i \in DOMAIN changes |->
             IF changes[i].key = k THEN [key |-> k, content |-> subchanges'[k]] ELSE changes[i]]
    BY <1>1, <1>3
  <1>8. Listing(changes', subchanges', D)
    <2> HIDE DEF D
    <2>1. QED BY <1>3, <1>6, <1>7, ListingReplaced
  <1>9. Right(score', submissions, subchanges', D, mode)
    <2> HIDE DEF D
    <2>1. QED BY <1>2, <1>5, <1>6, <1>8, ReplayIsRight
  <1>10. QED BY <1>2, <1>3, <1>4, <1>8, <1>9 DEF HistoryInv

(* One change goes.                                                        *)
LEMMA HistoryDeleteSubchange ==
  ASSUME HistoryInv, NEW k \in Key, DeleteSubchange(k) PROVE HistoryInv'
  <1> DEFINE J == Key \ {k}
             K == DOMAIN subchanges \ {k}
  <1>1. /\ submissions' = submissions /\ subchanges' = [l \in K |-> subchanges[l]]
        /\ changes' = ChangesOf(J, changes) /\ score' = Replay(submissions, changes', mode)
        /\ loading = {} /\ loading' = {} /\ taskMode' = taskMode /\ mode' = mode
    BY DEF DeleteSubchange, RemoveSubchange, WithoutAll, Serving
  <1>2. DOMAIN subchanges' = K /\ Loaded = DOMAIN subchanges /\ Loaded' = K
        /\ \A l \in K : subchanges'[l] = subchanges[l]
    BY <1>1 DEF Loaded
  <1>3. Loaded \cap J = K /\ K \in SUBSET DOMAIN subchanges
    BY <1>2 DEF HistoryInv
  <1>4. /\ submissions \in SUBSET Submission /\ IsFiniteSet(submissions)
        /\ K \in SUBSET Key /\ IsFiniteSet(K)
        /\ \A l \in K : Of[l] \in submissions /\ subchanges[l] \in Content[l]
    BY <1>3, FS_Subset DEF HistoryInv
  <1>5. Listing(changes', subchanges, K)
    <2>1. Listing(changes, subchanges, Loaded) /\ \A l \in Loaded : subchanges[l] \in Content[l]
      BY <1>2 DEF HistoryInv
    <2> HIDE DEF J, K
    <2>2. QED BY <1>1, <1>3, <2>1, ListingFiltered
  <1> HIDE DEF J, K
  <1>6. Listing(changes', subchanges', K)
    BY <1>2, <1>5, ListingAlike
  <1>7. Stored(submissions, subchanges', K)
    <2>1. \A l \in K : subchanges'[l] \in Content[l] /\ Of[l] \in submissions
      BY <1>2, <1>4
    <2>2. K \in SUBSET K
      OBVIOUS
    <2>3. QED BY <1>4, <2>1, <2>2, InStore
  <1>8. mode \in ScoreMode /\ taskMode \in ScoreMode
    BY DEF HistoryInv
  <1>9. Right(score', submissions, subchanges', K, mode)
    BY <1>1, <1>6, <1>7, <1>8, ReplayIsRight
  <1>10. QED BY <1>1, <1>2, <1>4, <1>6, <1>8, <1>9 DEF HistoryInv

(* Nothing is in the Score after a restart, whatever the stores read.      *)
LEMMA HistoryRestart ==
  ASSUME HistoryInv, FilesInv', Restarted PROVE HistoryInv'
  <1>1. /\ loading' = DOMAIN subchanges' /\ changes' = <<>> /\ score' = Blank(submissions')
        /\ mode' = taskMode /\ taskMode' = taskMode /\ Loaded' = {}
        /\ submissions' \in SUBSET submissionFiles'
    BY DEF Restarted, LoadFromDisk, Loaded
  <1>2. PICK read \in SUBSET DOMAIN subchangeFiles' :
          subchanges' = [k \in read |-> subchangeFiles'[k]]
    BY DEF Restarted, LoadFromDisk
  <1>3. DOMAIN subchanges' = read /\ \A k \in read : subchanges'[k] = subchangeFiles'[k]
    BY <1>2
  <1>4. submissions' \in SUBSET Submission /\ IsFiniteSet(submissions')
    BY <1>1, FS_Subset DEF FilesInv
  <1>5. DOMAIN subchanges' \in SUBSET Key /\ IsFiniteSet(DOMAIN subchanges')
        /\ \A k \in DOMAIN subchanges' : subchanges'[k] \in Content[k]
    BY <1>3, FS_Subset DEF FilesInv
  <1>6. Listing(changes', subchanges', {})
    <2>1. <<>> \in Seq(Change) /\ 1 .. Len(<<>>) = {}
      OBVIOUS
    <2>2. QED BY <1>1, <2>1 DEF Listing
  <1>7. Right(score', submissions', subchanges', {}, mode')
    BY <1>1, <1>4, BlankIsRight DEF HistoryInv
  <1>8. QED BY <1>1, <1>4, <1>5, <1>6, <1>7 DEF HistoryInv

(* init_store loads a subchange into the list of those loaded before.      *)
LEMMA HistoryLoad ==
  ASSUME HistoryInv, NEW k \in Key, Load(k) PROVE HistoryInv'
  <1> DEFINE K == Loaded
  <1>1. /\ k \in loading /\ submissions' = submissions /\ subchanges' = subchanges
        /\ loading' = loading \ {k} /\ taskMode' = taskMode /\ mode' = mode
        /\ CreateChange([key |-> k, content |-> subchanges[k]])
        /\ Of[k] \in submissions
    BY DEF Load, storeVars
  <1>2. k \in DOMAIN subchanges /\ k \notin K /\ Loaded' = K \cup {k}
    BY <1>1 DEF HistoryInv, Loaded
  <1>3. K \cup {k} \in SUBSET DOMAIN subchanges /\ \A l \in K \cup {k} : Of[l] \in submissions
    BY <1>1, <1>2 DEF Loaded, HistoryInv
  <1> HIDE DEF K
  <1>4. Stored(submissions, subchanges, K \cup {k})
    <2> DEFINE D == K \cup {k}
    <2>1. /\ D \in SUBSET Key /\ IsFiniteSet(D) /\ D \in SUBSET D
          /\ \A l \in D : subchanges[l] \in Content[l] /\ Of[l] \in submissions
      BY <1>3, FS_Subset DEF HistoryInv
    <2>2. submissions \in SUBSET Submission /\ IsFiniteSet(submissions)
      BY DEF HistoryInv
    <2> HIDE DEF D
    <2>3. Stored(submissions, subchanges, D)
      BY <2>1, <2>2, InStore
    <2>4. QED BY <2>3 DEF D
  <1>5. /\ Subchanges(subchanges, K) /\ Listing(changes, subchanges, K)
        /\ replayed => Right(score, submissions, subchanges, K, mode)
        /\ mode \in ScoreMode
    BY HistoryStored DEF HistoryInv, K
  <1>6. subchanges[k] \in Content[k]
    BY <1>2 DEF HistoryInv
  <1>7. /\ Listing(changes', subchanges, K \cup {k})
        /\ replayed' => Right(score', submissions, subchanges, K \cup {k}, mode)
    BY <1>1, <1>2, <1>4, <1>5, <1>6, CreateChangeIsRight
  <1>8. QED BY <1>1, <1>2, <1>3, <1>7 DEF HistoryInv

(* Every step keeps the invariant.                                         *)
LEMMA HistoryStep == HistoryInv /\ FilesInv' /\ [Next]_vars => HistoryInv'
  <1> SUFFICES ASSUME HistoryInv, FilesInv', [Next]_vars PROVE HistoryInv'
    OBVIOUS
  <1>1. CASE \E m \in ScoreMode : UpdateTask(m)
    BY <1>1, HistoryUpdateTask
  <1>2. CASE \E s \in Submission : CreateSubmission(s)
    BY <1>2, HistoryCreateSubmission
  <1>3. CASE \E s \in Submission : UpdateSubmission(s)
    BY <1>3, HistoryUpdateSubmission
  <1>4. CASE \E s \in Submission : DeleteSubmission(s)
    BY <1>4, HistoryDeleteSubmission
  <1>5. CASE \E k \in Key : CreateSubchange(k)
    BY <1>5, HistoryCreateSubchange
  <1>6. CASE \E k \in Key : UpdateSubchange(k)
    BY <1>6, HistoryUpdateSubchange
  <1>7. CASE \E k \in Key : DeleteSubchange(k)
    BY <1>7, HistoryDeleteSubchange
  <1>8. CASE \/ Restart
             \/ \E s \in Submission : RestartInDelete(s)
             \/ \E s \in Submission : RestartInWriteOfSubmission(s)
             \/ \E k \in Key : RestartInWriteOfSubchange(k)
    BY <1>8, HistoryRestart DEF Restart, RestartInDelete, RestartInWriteOfSubmission,
       RestartInWriteOfSubchange
  <1>9. CASE \E k \in Key : Load(k)
    BY <1>9, HistoryLoad
  <1>10. CASE UNCHANGED vars
    BY <1>10 DEF vars, storeVars, HistoryInv, Loaded
  <1>11. QED BY <1>1, <1>2, <1>3, <1>4, <1>5, <1>6, <1>7, <1>8, <1>9, <1>10 DEF Next

(* HistoryIsExact: whatever the order in which the subchanges come, are    *)
(* replaced, deleted and loaded again, the history that append_change      *)
(* extends is the one by definition.                                       *)
THEOREM RankingHistoryIsExact == Spec => []HistoryIsExact
  <1>1. HistoryInv => HistoryIsExact
    BY DEF HistoryInv, HistoryIsExact, Right, Loaded
  <1>2. QED BY <1>1, FilesInit, FilesStep, HistoryInit, HistoryStep, PTL DEF Spec

(* Until a death cuts a file off, the files of the disk are those of the   *)
(* stores, and no subchange is without its submission.                     *)
UndamagedInv ==
  ~damaged =>
    /\ truncated = {}
    /\ submissionFiles = submissions /\ DOMAIN subchangeFiles = DOMAIN subchanges
    /\ \A k \in DOMAIN subchanges : Of[k] \in submissions

(* A start then reads every file.                                          *)
LEMMA UndamagedRestart ==
  ASSUME truncated' = {}, LoadFromDisk(Submission, Key),
         \A k \in DOMAIN subchangeFiles' : Of[k] \in submissionFiles'
  PROVE  UndamagedInv'
  <1>1. submissions' = submissionFiles'
    BY DEF LoadFromDisk, Reads
  <1>2. DOMAIN subchanges' = DOMAIN subchangeFiles'
    BY DEF LoadFromDisk, Reads
  <1>3. QED BY <1>1, <1>2 DEF UndamagedInv

(* NoOrphans: no subchange is in store without its submission, unless a    *)
(* death cut a file off, whatever requests come and wherever else the      *)
(* server dies: the submission goes last, with all its subchanges, and a   *)
(* subchange is refused without its submission.                            *)
THEOREM RankingNoOrphans == Spec => []NoOrphans
<1>1. Init => UndamagedInv
  BY DEF Init, UndamagedInv
<1>2. UndamagedInv /\ [Next]_vars => UndamagedInv'
  <2> SUFFICES ASSUME UndamagedInv, [Next]_vars, ~damaged'
               PROVE  UndamagedInv'
    BY DEF UndamagedInv
  <2>1. ASSUME NEW m \in ScoreMode, UpdateTask(m) PROVE UndamagedInv'
    BY <2>1 DEF UpdateTask, storeVars, diskVars, UndamagedInv
  <2>2. ASSUME NEW s \in Submission, CreateSubmission(s) PROVE UndamagedInv'
    BY <2>2 DEF CreateSubmission, PutSubmission, UndamagedInv
  <2>3. ASSUME NEW s \in Submission, UpdateSubmission(s) PROVE UndamagedInv'
    BY <2>3 DEF UpdateSubmission, PutSubmission, UndamagedInv
  <2>4. ASSUME NEW s \in Submission, DeleteSubmission(s) PROVE UndamagedInv'
    BY <2>4 DEF DeleteSubmission, RemoveSubmission, Dependents, WithoutAll, UndamagedInv
  <2>5. ASSUME NEW k \in Key, NEW x, PutSubchange(k, x), damaged' = damaged
        PROVE  UndamagedInv'
    <3>1. /\ Of[k] \in submissions
          /\ submissions' = submissions /\ submissionFiles' = submissionFiles
          /\ truncated' = truncated \ {k}
          /\ DOMAIN subchanges' = DOMAIN subchanges \cup {k}
          /\ DOMAIN subchangeFiles' = DOMAIN subchangeFiles \cup {k}
      BY <2>5 DEF PutSubchange, With
    <3> QED BY <2>5, <3>1 DEF UndamagedInv
  <2>6. ASSUME NEW k \in Key, CreateSubchange(k) \/ UpdateSubchange(k) PROVE UndamagedInv'
    BY <2>5, <2>6 DEF CreateSubchange, UpdateSubchange
  <2>7. ASSUME NEW k \in Key, DeleteSubchange(k) PROVE UndamagedInv'
    BY <2>7 DEF DeleteSubchange, RemoveSubchange, WithoutAll, UndamagedInv
  <2>8. CASE Restart
    BY <2>8, UndamagedRestart DEF Restart, Restarted, diskVars, UndamagedInv
  <2>9. ASSUME NEW s \in Submission, RestartInDelete(s) PROVE UndamagedInv'
    <3>1. /\ submissionFiles' = submissionFiles /\ truncated' = truncated /\ damaged' = damaged
          /\ DOMAIN subchangeFiles' \subseteq DOMAIN subchangeFiles
          /\ LoadFromDisk(Submission, Key)
      BY <2>9 DEF RestartInDelete, HalfDelete, WithoutAll, Restarted
    <3> QED BY <3>1, UndamagedRestart DEF UndamagedInv
  <2>10. CASE \/ \E s \in Submission : RestartInWriteOfSubmission(s)
              \/ \E k \in Key : RestartInWriteOfSubchange(k)
    BY <2>10 DEF RestartInWriteOfSubmission, RestartInWriteOfSubchange
  <2>11. ASSUME NEW k \in Key, Load(k) PROVE UndamagedInv'
    BY <2>11 DEF Load, storeVars, diskVars, UndamagedInv
  <2>12. CASE UNCHANGED vars
    BY <2>12 DEF vars, storeVars, diskVars, UndamagedInv
  <2> QED
    BY <2>1, <2>2, <2>3, <2>4, <2>6, <2>7, <2>8, <2>9, <2>10, <2>11, <2>12 DEF Next
<1>3. UndamagedInv => NoOrphans
  BY DEF UndamagedInv, NoOrphans
<1> QED BY <1>1, <1>2, <1>3, PTL DEF Spec

-----------------------------------------------------------------------------
(* The requests that ProxyService sends to the ranking: Scoreboard, over   *)
(* the same submissions, with other constants and variables of its own.    *)
CONSTANTS Dataset, Autojudged, NoOperation, MaxRight, Faults

VARIABLES
  judged, right, scoreOf, active, tokened,
  scoringQueue, current, phase, computed,
  scoredCalls, tokenedCalls, updatedCall,
  handlers, queue, sent, faults

Board == INSTANCE Scoreboard WITH score <- scoreOf

(* NothingRefused speaks of the next request only.  It holds because of    *)
(* what the ranking will know by the time a batch, or the queue behind it, *)
(* is sent: the basic data are there or come before any submission, and so *)
(* do the submissions of all subchanges.                                   *)
BasicComesFirst ==
  /\ batch.submissions # {} => ranking.basic \/ batch.basic
  /\ queue.submissions # {} => ranking.basic \/ batch.basic \/ queue.basic

SubmissionsComeFirst ==
  /\ \A c \in DOMAIN batch.subchanges :
       c[2] \in ranking.submissions \cup batch.submissions
  /\ \A c \in DOMAIN queue.subchanges :
       c[2] \in ranking.submissions \cup batch.submissions \cup queue.submissions

(* Every change that reaches the queue brings its submission; a process    *)
(* that starts queues the basic data before anything else, so that they    *)
(* are in store or on their way until a request fails.                     *)
BasicIsUnderway == ranking.basic \/ batch.basic \/ queue.basic

DataTypes ==
  /\ queue.basic \in BOOLEAN /\ batch.basic \in BOOLEAN /\ ranking.basic \in BOOLEAN
  /\ failed \in BOOLEAN

OrderInv ==
  /\ DataTypes
  /\ ~failed => BasicIsUnderway /\ BasicComesFirst /\ SubmissionsComeFirst

(* What dict.update and the pieces of a batch are made of.                 *)
LEMMA MergedFields ==
  ASSUME NEW x, NEW y
  PROVE  /\ Board!PS!Merged(x, y).basic = (x.basic \/ y.basic)
         /\ Board!PS!Merged(x, y).submissions = x.submissions \cup y.submissions
         /\ DOMAIN Board!PS!Merged(x, y).subchanges = DOMAIN x.subchanges \cup DOMAIN y.subchanges
  BY DEF Board!PS!Merged

(* The fields of the constant pieces.                                      *)
LEMMA ConstantFields ==
  /\ Board!PS!Nothing.basic = FALSE /\ Board!PS!Nothing.submissions = {}
  /\ DOMAIN Board!PS!Nothing.subchanges = {}
  /\ Board!PS!Basic.basic = TRUE /\ Board!PS!Basic.submissions = {}
  /\ DOMAIN Board!PS!Basic.subchanges = {}
  /\ DOMAIN Board!PS!NoSubchange = {}
  BY DEF Board!PS!Nothing, Board!PS!Basic, Board!PS!NoSubchange

(* The next request has one kind of data, all there is of it in the batch, *)
(* and only the basic data while there are some.                           *)
LEMMA NextDataFields ==
  ASSUME batch.basic \in BOOLEAN
  PROVE  LET data == Board!PS!NextData IN
         \/ /\ batch.basic
            /\ data.basic = TRUE /\ data.submissions = {} /\ DOMAIN data.subchanges = {}
         \/ /\ ~batch.basic /\ batch.submissions # {}
            /\ data.basic = FALSE /\ data.submissions = batch.submissions
            /\ DOMAIN data.subchanges = {}
         \/ /\ ~batch.basic /\ batch.submissions = {}
            /\ data.basic = FALSE /\ data.submissions = {}
            /\ DOMAIN data.subchanges = DOMAIN batch.subchanges
  <1>1. CASE batch.basic
    BY <1>1, ConstantFields DEF Board!PS!NextData
  <1>2. CASE ~batch.basic /\ batch.submissions # {}
    BY <1>2 DEF Board!PS!NextData, Board!PS!Nothing, Board!PS!NoSubchange
  <1>3. CASE ~batch.basic /\ batch.submissions = {}
    BY <1>3 DEF Board!PS!NextData, Board!PS!Nothing, Board!PS!NoSubchange
  <1> QED BY <1>1, <1>2, <1>3

(* With the invariant the ranking knows what the next request refers to.   *)
LEMMA OrderInvAccepts ==
  ASSUME OrderInv, ~failed
  PROVE  Board!PS!Consistent(Board!PS!NextData)
  <1>1. batch.basic \in BOOLEAN /\ BasicComesFirst /\ SubmissionsComeFirst
    BY DEF OrderInv, DataTypes
  <1> DEFINE data == Board!PS!NextData
  <1>2. data.submissions # {} => ranking.basic
    BY <1>1, NextDataFields DEF BasicComesFirst
  <1>3. \A c \in DOMAIN data.subchanges : c[2] \in ranking.submissions
    BY <1>1, NextDataFields DEF SubmissionsComeFirst
  <1> QED BY <1>2, <1>3 DEF Board!PS!Consistent

(* The basic data are in the queue at first.                               *)
LEMMA OrderInvInit == Board!Init => OrderInv
  BY ConstantFields
  DEF Board!Init, Board!PS!Init, OrderInv, DataTypes, BasicIsUnderway, BasicComesFirst, SubmissionsComeFirst

(* What is popped goes from the queue to a batch that was empty.           *)
LEMMA PopKeepsOrder ==
  ASSUME OrderInv, Board!PS!PopBatch, UNCHANGED failed
  PROVE  OrderInv'
  <1>1. /\ batch = Board!PS!Nothing /\ batch' = queue /\ queue' = Board!PS!Nothing
        /\ ranking' = ranking /\ failed' = failed
    BY DEF Board!PS!PopBatch
  <1> QED
    BY <1>1, ConstantFields
    DEF OrderInv, DataTypes, BasicIsUnderway, BasicComesFirst, SubmissionsComeFirst

(* What is sent moves from the batch to the ranking.                       *)
LEMMA PutKeepsOrder ==
  ASSUME OrderInv, Board!PS!Put, UNCHANGED failed
  PROVE  OrderInv'
  <1> DEFINE data == Board!PS!NextData
  <1>1. /\ ranking' = Board!PS!Merged(ranking, data) /\ batch' = Board!PS!Rest(data)
        /\ queue' = queue /\ failed' = failed
    BY DEF Board!PS!Put
  <1>2. /\ ranking'.basic = (ranking.basic \/ data.basic)
        /\ ranking'.submissions = ranking.submissions \cup data.submissions
    BY <1>1, MergedFields
  <1>3. /\ batch'.basic = (batch.basic /\ ~data.basic)
        /\ batch'.submissions = batch.submissions \ data.submissions
        /\ DOMAIN batch'.subchanges \subseteq DOMAIN batch.subchanges
    BY <1>1, ConstantFields DEF Board!PS!Rest
  <1>4. batch.basic \in BOOLEAN
    BY DEF OrderInv, DataTypes
  <1>5. data.basic \in BOOLEAN /\ (data.basic <=> batch.basic)
    BY <1>4, NextDataFields
  <1>6. DataTypes'
    BY <1>1, <1>2, <1>3, <1>5 DEF OrderInv, DataTypes
  <1>7. ASSUME ~failed
        PROVE  BasicIsUnderway' /\ BasicComesFirst' /\ SubmissionsComeFirst'
    <2>1. BasicIsUnderway /\ BasicComesFirst /\ SubmissionsComeFirst
      BY <1>7 DEF OrderInv
    <2>2. ranking'.basic \/ batch'.basic <=> ranking.basic \/ batch.basic
      BY <1>2, <1>3, <1>5
    <2>3. ranking'.submissions \cup batch'.submissions
             = ranking.submissions \cup batch.submissions \cup data.submissions
      BY <1>2, <1>3
    <2> QED
      BY <1>1, <1>3, <2>1, <2>2, <2>3
      DEF BasicIsUnderway, BasicComesFirst, SubmissionsComeFirst
  <1> QED BY <1>1, <1>6, <1>7 DEF OrderInv

(* A change comes with its submission.                                     *)
LEMMA EnqueueKeepsOrder ==
  ASSUME OrderInv, Board!PS!Enqueue, UNCHANGED failed
  PROVE  OrderInv'
  <1>1. PICK h : /\ queue' = Board!PS!Merged(queue, [basic |-> FALSE, submissions |-> {h.change[2]},
                                subchanges |-> [c \in {h.change} |-> h.value]])
                 /\ batch' = batch /\ ranking' = ranking /\ failed' = failed
    BY DEF Board!PS!Enqueue
  <1>2. /\ queue'.basic = (queue.basic \/ FALSE)
        /\ queue'.submissions = queue.submissions \cup {h.change[2]}
        /\ DOMAIN queue'.subchanges = DOMAIN queue.subchanges \cup {h.change}
    BY <1>1, MergedFields
  <1>3. DataTypes'
    BY <1>1, <1>2 DEF OrderInv, DataTypes
  <1>4. ASSUME ~failed
        PROVE  BasicIsUnderway' /\ BasicComesFirst' /\ SubmissionsComeFirst'
    <2>1. BasicIsUnderway /\ BasicComesFirst /\ SubmissionsComeFirst
      BY <1>4 DEF OrderInv
    <2>2. BasicIsUnderway' /\ BasicComesFirst'
      BY <1>1, <1>2, <2>1 DEF BasicIsUnderway, BasicComesFirst
    <2>3. SubmissionsComeFirst'
      BY <1>1, <1>2, <2>1 DEF SubmissionsComeFirst
    <2> QED BY <2>2, <2>3
  <1> QED BY <1>1, <1>3, <1>4 DEF OrderInv

(* initialize enqueues the basic data again.                               *)
LEMMA DatasetUpdatedKeepsOrder ==
  ASSUME OrderInv, Board!PS!DatasetUpdated, UNCHANGED failed
  PROVE  OrderInv'
  <1>1. /\ queue' = Board!PS!Merged(queue, Board!PS!Basic)
        /\ batch' = batch /\ ranking' = ranking /\ failed' = failed
    BY DEF Board!PS!DatasetUpdated
  <1>2. /\ queue'.basic = (queue.basic \/ TRUE)
        /\ queue'.submissions = queue.submissions
        /\ DOMAIN queue'.subchanges = DOMAIN queue.subchanges
    <2>1. /\ queue'.basic = (queue.basic \/ Board!PS!Basic.basic)
          /\ queue'.submissions = queue.submissions \cup Board!PS!Basic.submissions
          /\ DOMAIN queue'.subchanges = DOMAIN queue.subchanges \cup DOMAIN Board!PS!Basic.subchanges
      BY <1>1, MergedFields
    <2> QED BY <2>1, ConstantFields
  <1>3. DataTypes'
    BY <1>1, <1>2 DEF OrderInv, DataTypes
  <1>4. ASSUME ~failed
        PROVE  BasicIsUnderway' /\ BasicComesFirst' /\ SubmissionsComeFirst'
    <2>1. BasicIsUnderway /\ BasicComesFirst /\ SubmissionsComeFirst
      BY <1>4 DEF OrderInv
    <2>2. BasicIsUnderway' /\ BasicComesFirst'
      BY <1>1, <1>2, <2>1 DEF BasicIsUnderway, BasicComesFirst
    <2>3. SubmissionsComeFirst'
      BY <1>1, <1>2, <2>1 DEF SubmissionsComeFirst
    <2> QED BY <2>2, <2>3
  <1> QED BY <1>1, <1>3, <1>4 DEF OrderInv

(* A refusal would forget the batch: with the invariant there is none.     *)
LEMMA RefusalKeepsOrder ==
  ASSUME OrderInv, Board!PS!PutRefused, UNCHANGED failed
  PROVE  OrderInv'
  <1>1. /\ batch # Board!PS!Nothing /\ ~Board!PS!Consistent(Board!PS!NextData)
        /\ batch' = Board!PS!Nothing /\ queue' = queue /\ ranking' = ranking /\ failed' = failed
    BY DEF Board!PS!PutRefused
  <1>2. failed
    BY <1>1, OrderInvAccepts
  <1> QED BY <1>1, <1>2, ConstantFields DEF OrderInv, DataTypes

(* After a failed request nothing is promised.                             *)
LEMMA FailureKeepsOrder ==
  ASSUME OrderInv, Board!PutFails
  PROVE  OrderInv'
  <1>1. /\ failed' = TRUE /\ batch' = Board!PS!Nothing /\ queue' = queue
        /\ ranking' = ranking \/ ranking' = Board!PS!Merged(ranking, Board!PS!NextData)
    BY DEF Board!PutFails, Board!PS!PutFails
  <1>2. batch.basic \in BOOLEAN /\ ranking.basic \in BOOLEAN /\ queue.basic \in BOOLEAN
    BY DEF OrderInv, DataTypes
  <1>3. Board!PS!NextData.basic \in BOOLEAN
    BY <1>2, NextDataFields
  <1>4. ranking'.basic \in BOOLEAN
    BY <1>1, <1>2, <1>3, MergedFields
  <1> QED BY <1>1, <1>2, <1>4, ConstantFields DEF OrderInv, DataTypes

(* The process dies with its queue and its batch; what the ranking has     *)
(* stays, and the basic data are queued again.                             *)
LEMMA RestartKeepsOrder ==
  ASSUME OrderInv, Board!PS!Restart, UNCHANGED failed
  PROVE  OrderInv'
  <1>1. /\ queue' = Board!PS!Basic /\ batch' = Board!PS!Nothing /\ ranking' = ranking /\ failed' = failed
    BY DEF Board!PS!Restart
  <1> QED
    BY <1>1, ConstantFields
    DEF OrderInv, DataTypes, BasicIsUnderway, BasicComesFirst, SubmissionsComeFirst

(* The other steps leave batch, queue and ranking alone.                   *)
LEMMA OthersKeepOrder ==
  ASSUME OrderInv, UNCHANGED <<queue, batch, ranking, failed>>
  PROVE  OrderInv'
  BY DEF OrderInv, DataTypes, BasicIsUnderway, BasicComesFirst, SubmissionsComeFirst

(* Every step keeps the invariant.                                         *)
LEMMA OrderInvStep == OrderInv /\ [Board!Next]_(Board!vars) => OrderInv'
  <1> SUFFICES ASSUME OrderInv, [Board!Next]_(Board!vars) PROVE OrderInv'
    OBVIOUS
  <1>1. ASSUME NEW op \in Board!Operation, Board!Judge(op) PROVE OrderInv'
    BY <1>1, OthersKeepOrder DEF Board!Judge, Board!proxyVars
  <1>2. ASSUME NEW op \in Board!Operation, Board!Rejudge(op) PROVE OrderInv'
    BY <1>2, OthersKeepOrder DEF Board!Rejudge, Board!proxyVars
  <1>3. ASSUME NEW d \in Dataset, Board!Rescore(d) PROVE OrderInv'
    BY <1>3, OthersKeepOrder DEF Board!Rescore, Board!proxyVars
  <1>4. ASSUME NEW d \in Dataset, Board!Activate(d) PROVE OrderInv'
    BY <1>4, OthersKeepOrder DEF Board!Activate, Board!proxyVars
  <1>5. ASSUME NEW s \in Submission, Board!PlayToken(s) PROVE OrderInv'
    BY <1>5, OthersKeepOrder DEF Board!PlayToken, Board!proxyVars
  <1>6. CASE Board!ScoringStep
    BY <1>6, OthersKeepOrder DEF Board!ScoringStep, Board!proxyVars
  <1>7. CASE Board!ScoringNotifies
    BY <1>7, OthersKeepOrder DEF Board!ScoringNotifies, Board!proxyVars
  <1>8. CASE Board!ScoringCrash
    BY <1>8, OthersKeepOrder DEF Board!ScoringCrash, Board!proxyVars
  <1>9. CASE Board!ProxyStep
    <2>0. UNCHANGED failed
      BY <1>9 DEF Board!ProxyStep
    <2>1. ASSUME NEW s \in Submission, Board!PS!SubmissionScored(s) PROVE OrderInv'
      BY <2>0, <2>1, OthersKeepOrder DEF Board!PS!SubmissionScored
    <2>2. ASSUME NEW s \in Submission, Board!PS!SubmissionTokened(s) PROVE OrderInv'
      BY <2>0, <2>2, OthersKeepOrder DEF Board!PS!SubmissionTokened
    <2>3. ASSUME NEW s \in Submission, Board!PS!Sweep(s) PROVE OrderInv'
      BY <2>0, <2>3, OthersKeepOrder DEF Board!PS!Sweep
    <2> QED
      BY <1>9, <2>0, <2>1, <2>2, <2>3, DatasetUpdatedKeepsOrder, EnqueueKeepsOrder,
         PopKeepsOrder, PutKeepsOrder, RefusalKeepsOrder DEF Board!ProxyStep
  <1>10. CASE Board!PutFails
    BY <1>10, FailureKeepsOrder
  <1>11. CASE Board!ProxyCrash
    BY <1>11, RestartKeepsOrder DEF Board!ProxyCrash
  <1>12. CASE UNCHANGED Board!vars
    BY <1>12, OthersKeepOrder DEF Board!vars, Board!proxyVars
  <1> QED
    BY <1>1, <1>2, <1>3, <1>4, <1>5, <1>6, <1>7, <1>8, <1>9, <1>10, <1>11, <1>12 DEF Board!Next

(* However notifications, sweeps, batches and crashes of ProxyService      *)
(* interleave with what the other services do, the ranking never gets a    *)
(* submission before the basic data or a subchange before its submission,  *)
(* until a request fails.                                                  *)
THEOREM ScoreboardNothingRefused == Board!Spec => []NothingRefused
  <1>1. Board!Init => OrderInv
    BY OrderInvInit
  <1>2. OrderInv /\ [Board!Next]_(Board!vars) => OrderInv'
    BY OrderInvStep
  <1>3. OrderInv => NothingRefused
    <2>1. Board!PS!NextData = NextData
      BY DEF Board!PS!NextData, NextData, Board!PS!Basic, Basic, Board!PS!Nothing, Nothing,
             Board!PS!NoSubchange, NoSubchange
    <2>2. Board!PS!Consistent(NextData) <=> Consistent(NextData)
      BY DEF Board!PS!Consistent, Consistent
    <2>3. QED BY <2>1, <2>2, OrderInvAccepts DEF NothingRefused
  <1> QED BY <1>1, <1>2, <1>3, PTL DEF Board!Spec
=============================================================================
