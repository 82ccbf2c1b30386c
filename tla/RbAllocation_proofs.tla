------------------------- MODULE RbAllocation_proofs -------------------------
(***************************************************************************)
(* Proofs about RbAllocation, for any number of resource blocks and RbUEs,   *)
(* any size of group and any channels.                                     *)
(***************************************************************************)
EXTENDS RbAllocation, FiniteSetTheorems, WellFoundedInduction, TLAPS

-----------------------------------------------------------------------------
(* Induction, and the least and the greatest of a set of numbers. *)

LEMMA LeastOf ==
    ASSUME NEW R, NEW T, IsWellFoundedOn(R, Nat), T \subseteq Nat, T # {},
           \A x, y \in Nat : x < y => <<x, y>> \in R
    PROVE  \E n \in T : \A m \in T : n <= m
<1>1. \E x \in T : \A y \in T : ~(<<y, x>> \in R)
  BY ONLY WFMin, IsWellFoundedOn(R, Nat), T \subseteq Nat, T # {}
<1>2. PICK x \in T : \A y \in T : ~(<<y, x>> \in R)
  BY <1>1
<1>3. \A y \in T : ~(y < x)
  BY <1>2, Zenon
<1> QED BY <1>3

LEMMA NatLeast ==
    ASSUME NEW T, T \subseteq Nat, T # {}
    PROVE  \E n \in T : \A m \in T : n <= m
<1>1. \A x, y \in Nat : x < y => <<x, y>> \in OpToRel(<, Nat)
  BY DEF OpToRel
<1> QED BY <1>1, LeastOf, NatLessThanWellFounded, Zenon

LEMMA NatInd ==
    ASSUME NEW S, 0 \in S, \A n \in Nat : n \in S => n + 1 \in S
    PROVE  Nat \subseteq S
<1> DEFINE T == Nat \ S
<1> SUFFICES ASSUME T # {} PROVE FALSE
  OBVIOUS
<1>1. PICK n \in T : \A m \in T : n <= m
  <2> HIDE DEF T
  <2> T \subseteq Nat BY DEF T
  <2> QED BY NatLeast
<1>2. n # 0 /\ n - 1 \in Nat /\ n - 1 \notin T
  BY <1>1
<1> QED BY <1>1, <1>2

LEMMA NatGreatest ==
    ASSUME NEW T, T \subseteq Nat, T # {}, NEW b \in Nat, \A t \in T : t <= b
    PROVE  \E n \in T : \A m \in T : m <= n
<1> DEFINE U == {u \in Nat : \A t \in T : t <= u}
<1>1. U \subseteq Nat /\ U # {}
  OBVIOUS
<1>2. PICK u \in U : \A v \in U : u <= v
  <2> HIDE DEF U
  <2> QED BY <1>1, NatLeast
<1>3. u \in T
  <2> SUFFICES ASSUME u \notin T PROVE FALSE
    OBVIOUS
  <2>1. ASSUME NEW t \in T PROVE t <= u - 1
    <3>1. t <= u /\ t # u /\ t \in Nat /\ u \in Nat
      BY <1>2
    <3> QED BY <3>1
  <2>2. u - 1 \in Nat
    <3>1. PICK t \in T : TRUE
      OBVIOUS
    <3>2. t \in Nat /\ t <= u - 1 /\ u \in Nat
      BY <1>2, <2>1
    <3> QED BY <3>2
  <2>3. u - 1 \in U
    BY <2>1, <2>2
  <2>4. u \in Nat /\ u <= u - 1
    BY <1>2, <2>3
  <2> QED BY <2>4
<1> QED BY <1>2, <1>3

\* A function on 1..n is bounded.
LEMMA Bounded ==
    ASSUME NEW n \in Nat, NEW f, \A i \in 1 .. n : f[i] \in Nat
    PROVE  \E b \in Nat : \A i \in 1 .. n : f[i] <= b
<1> DEFINE S == {k \in Nat : \E b \in Nat : \A i \in 1 .. n : i <= k => f[i] <= b}
<1>1. 0 \in S
  OBVIOUS
<1>2. ASSUME NEW k \in Nat, k \in S PROVE k + 1 \in S
  <2>1. PICK b \in Nat : \A i \in 1 .. n : i <= k => f[i] <= b
    BY <1>2
  <2>2. CASE k + 1 \in 1 .. n
    <3> DEFINE c == IF f[k + 1] > b THEN f[k + 1] ELSE b
    <3>1. c \in Nat /\ c >= b /\ c >= f[k + 1]
      BY <2>2
    <3>2. ASSUME NEW i \in 1 .. n, i <= k + 1 PROVE f[i] <= c
      <4> HIDE DEF c
      <4>1. i <= k \/ i = k + 1
        BY <3>2
      <4>2. f[i] \in Nat
        OBVIOUS
      <4> QED BY <2>1, <3>1, <4>1, <4>2
    <3> QED BY <3>1, <3>2
  <2>3. CASE k + 1 \notin 1 .. n
    BY <2>1, <2>3
  <2> QED BY <2>2, <2>3
<1>3. Nat \subseteq S
  <2> HIDE DEF S
  <2> QED BY <1>1, <1>2, NatInd
<1>4. PICK b \in Nat : \A i \in 1 .. n : i <= n => f[i] <= b
  BY <1>3
<1>5. \A i \in 1 .. n : f[i] <= b
  BY <1>4
<1> QED BY <1>5

-----------------------------------------------------------------------------
(* Arithmetic. *)

LEMMA CeilDivFact ==
    ASSUME NEW a \in Nat, NEW b \in Nat \ {0}
    PROVE  /\ CeilDiv(a, b) \in Nat /\ CeilDiv(a, b) * b >= a
           /\ CeilDiv(a, b) <= a
           /\ 0 < a => CeilDiv(a, b) > 0
           /\ 0 < a /\ a <= b => CeilDiv(a, b) = 1
<1> DEFINE n == a + b - 1
           q == n \div b
<1>1. n \in Nat
  OBVIOUS
<1>2. q \in Nat /\ b * q <= n /\ n < b * (q + 1)
  <2> HIDE DEF n
  <2> QED BY <1>1, SMT
<1>3. q * b >= a
  BY <1>2
<1>4. q <= a
  <2> SUFFICES ASSUME q >= a + 1 PROVE FALSE
    BY <1>2
  <2>1. b * q >= b * (a + 1)
    BY <1>2
  <2>2. b * (a + 1) >= a + b
    OBVIOUS
  <2> QED BY <1>2, <2>1, <2>2
<1>5. 0 < a => q > 0
  BY <1>2
<1>6. 0 < a /\ a <= b => q = 1
  <2> SUFFICES ASSUME 0 < a, a <= b, q >= 2 PROVE FALSE
    BY <1>2, <1>5
  <2>1. b * q >= b * 2
    BY <1>2
  <2> QED BY <1>2, <2>1
<1> QED BY <1>2, <1>3, <1>4, <1>5, <1>6 DEF CeilDiv

LEMMA DivMod ==
    ASSUME NEW v \in Nat, NEW n \in Nat \ {0}
    PROVE  v \div n \in Nat /\ v = n * (v \div n) + (v % n)
<1>1. v \div n \in Nat
  OBVIOUS
<1>2. v % n = v - n * (v \div n)
  OBVIOUS
<1> QED BY <1>1, <1>2

LEMMA RequiredFact ==
    ASSUME NEW rate \in Nat \ {0}, NEW perRB \in Nat \ {0}
    PROVE  /\ requiredRBs(rate, perRB) \in Nat \ {0}
           /\ requiredRBs(rate, perRB) * perRB >= rate
           /\ rate <= perRB => requiredRBs(rate, perRB) = 1
<1> DEFINE q == CeilDiv(rate, perRB)
<1>1. /\ q \in Nat /\ q * perRB >= rate /\ q > 0
      /\ rate <= perRB => q = 1
  BY CeilDivFact
<1>2. requiredRBs(rate, perRB) = q
  <2> HIDE DEF q
  <2>1. IF q > 1 THEN q = q ELSE q = 1
    BY <1>1
  <2> QED BY <2>1 DEF requiredRBs, q
<1> HIDE DEF q
<1> QED BY <1>1, <1>2

(***************************************************************************)
(* The groups.                                                             *)
(***************************************************************************)
Scenario ==
    /\ numUEs \in NumUERange
    /\ bitratePerRB \in [RbUEs -> BitratesPerRB]
    /\ requiredBitrate \in [RbUEs -> Bitrates]

LEMMA ScenarioTypes ==
    ASSUME Scenario
    PROVE  /\ numUEs \in Nat \ {0}
           /\ \A ue \in RbUEs : bitratePerRB[ue] \in Nat /\ requiredBitrate[ue] \in Nat \ {0}
BY RbAssumption DEF Scenario

LEMMA NumGroups ==
    ASSUME Scenario
    PROVE  numGroups \in 1 .. numUEs /\ numGroups * GroupSize >= numUEs
<1> DEFINE q == CeilDiv(numUEs, GroupSize)
<1>1. GroupSize \in Nat \ {0} /\ numUEs \in Nat \ {0}
  BY ScenarioTypes, RbAssumption
<1>2. q \in Nat /\ q * GroupSize >= numUEs /\ q <= numUEs /\ q > 0
  BY <1>1, CeilDivFact
<1>3. numGroups = q
  <2> HIDE DEF q
  <2>1. IF q > 1 THEN q = q ELSE q = 1
    BY <1>2
  <2> QED BY <2>1 DEF numGroups, q
<1> HIDE DEF q
<1> QED BY <1>1, <1>2, <1>3

\* A group has between 1 and GroupSize RbUEs, and every UE is in one.
LEMMA GroupFact ==
    ASSUME Scenario
    PROVE  /\ \A g \in Groups : /\ g \in groupUEs(g) /\ IsFiniteSet(groupUEs(g))
                                /\ Cardinality(groupUEs(g)) \in 1 .. GroupSize
           /\ \A ue \in RbUEs : groupRNTI(ue) \in Groups
<1>0. numUEs \in Nat \ {0} /\ GroupSize \in Nat \ {0}
  BY ScenarioTypes, RbAssumption
<1>1. numGroups \in Nat \ {0} /\ numGroups <= numUEs /\ numGroups * GroupSize >= numUEs
  BY <1>0, NumGroups
<1>2. ASSUME NEW g \in Groups
      PROVE  /\ g \in groupUEs(g) /\ IsFiniteSet(groupUEs(g))
             /\ Cardinality(groupUEs(g)) \in 1 .. GroupSize
  <2>1. g \in RbUEs /\ g - 1 \in 0 .. numGroups - 1
    BY <1>0, <1>1 DEF Groups, RbUEs
  <2>2. (g - 1) % numGroups = g - 1
    BY <1>1, <2>1
  <2>3. groupRNTI(g) = g
    BY <2>1, <2>2 DEF groupRNTI, RbUEs
  <2>4. g \in groupUEs(g)
    BY <2>1, <2>3 DEF groupUEs
  <2> DEFINE T == 0 .. GroupSize - 1
             f == [ue \in groupUEs(g) |-> (ue - 1) \div numGroups]
  <2>5. ASSUME NEW ue \in groupUEs(g)
        PROVE  /\ ue - 1 \in Nat /\ (ue - 1) \div numGroups \in Nat
               /\ ue - 1 = numGroups * ((ue - 1) \div numGroups) + (g - 1)
               /\ (ue - 1) \div numGroups < GroupSize
    <3>1. ue \in 1 .. numUEs /\ groupRNTI(ue) = g
      BY DEF groupUEs, RbUEs
    <3>2. PICK v \in Nat : v = ue - 1 /\ v < numUEs
      BY <1>0, <3>1
    <3>3. (v % numGroups) = g - 1
      BY <1>1, <2>1, <3>1, <3>2 DEF groupRNTI, Groups
    <3>4. /\ v \div numGroups \in Nat
          /\ v = numGroups * (v \div numGroups) + (v % numGroups)
      BY <1>1, <3>2, DivMod
    <3>5. v \div numGroups < GroupSize
      <4> DEFINE w == v \div numGroups
      <4>1. w \in Nat /\ numGroups * w <= v
        BY <1>1, <3>4
      <4> HIDE DEF w
      <4>2. SUFFICES ASSUME w >= GroupSize PROVE FALSE
        BY <1>0, <4>1 DEF w
      <4>3. numGroups * w >= numGroups * GroupSize
        BY <1>0, <1>1, <4>1, <4>2
      <4> QED BY <1>0, <1>1, <3>2, <4>1, <4>3
    <3> QED BY <3>2, <3>3, <3>4, <3>5
  <2>6. f \in Injection(groupUEs(g), T)
    <3>1. f \in [groupUEs(g) -> T]
      BY <1>0, <2>5
    <3>2. ASSUME NEW a \in groupUEs(g), NEW b \in groupUEs(g), f[a] = f[b]
          PROVE  a = b
      <4>1. a - 1 = b - 1
        BY <2>5, <3>2
      <4>2. a \in Int /\ b \in Int
        BY <1>0 DEF groupUEs, RbUEs
      <4> QED BY <4>1, <4>2
    <3> QED BY <3>1, <3>2 DEF Injection, IsInjective
  <2>7. IsFiniteSet(T) /\ Cardinality(T) = GroupSize
    BY <1>0, FS_Interval
  <2>8. IsFiniteSet(groupUEs(g)) /\ Cardinality(groupUEs(g)) <= GroupSize
    <3> HIDE DEF f, T
    <3> QED BY <2>6, <2>7, FS_Injection
  <2>9. Cardinality(groupUEs(g)) \in Nat /\ Cardinality(groupUEs(g)) # 0
    BY <2>4, <2>8, FS_CardinalityType, FS_EmptySet
  <2> QED BY <1>0, <2>4, <2>8, <2>9
<1>3. ASSUME NEW ue \in RbUEs PROVE groupRNTI(ue) \in Groups
  <2>1. PICK v \in Nat : v = ue - 1
    BY <1>0 DEF RbUEs
  <2>2. v % numGroups \in 0 .. numGroups - 1
    BY <1>1, <2>1
  <2> QED BY <1>1, <2>1, <2>2 DEF groupRNTI, Groups
<1> QED BY <1>2, <1>3

\* The worst channel and the greatest bitrate of a group.
LEMMA GroupRates ==
    ASSUME Scenario, NEW g \in Groups
    PROVE  /\ worstChannel(g) \in Nat /\ maxRequiredBitrate(g) \in Nat \ {0}
           /\ \A ue \in groupUEs(g) : /\ worstChannel(g) <= bitratePerRB[ue]
                                      /\ requiredBitrate[ue] <= maxRequiredBitrate(g)
           /\ \E ue \in RbUEs : worstChannel(g) = bitratePerRB[ue]
           /\ \E ue \in RbUEs : maxRequiredBitrate(g) = requiredBitrate[ue]
<1> DEFINE W == {bitratePerRB[ue] : ue \in groupUEs(g)}
           R == {requiredBitrate[ue] : ue \in groupUEs(g)}
<1>0. numUEs \in Nat \ {0} /\ groupUEs(g) \subseteq RbUEs /\ groupUEs(g) # {}
  BY ScenarioTypes, GroupFact DEF groupUEs
<1>1. W \subseteq Nat /\ W # {} /\ R \subseteq Nat \ {0} /\ R # {}
  BY <1>0, ScenarioTypes
<1>2. PICK b \in Nat : \A t \in R : t <= b
  <2>1. \A i \in 1 .. numUEs : requiredBitrate[i] \in Nat
    BY ScenarioTypes DEF RbUEs
  <2>2. PICK b \in Nat : \A i \in 1 .. numUEs : requiredBitrate[i] <= b
    BY <1>0, <2>1, Bounded
  <2> QED BY <1>0, <2>2 DEF RbUEs
<1>3. PICK w \in W : \A y \in W : w <= y
  <2> HIDE DEF W
  <2> QED BY <1>1, NatLeast
<1>4. PICK r \in R : \A y \in R : y <= r
  <2> HIDE DEF R
  <2>1. R \subseteq Nat
    BY <1>1
  <2> QED BY <1>1, <1>2, <2>1, NatGreatest
<1>5. worstChannel(g) \in W /\ \A y \in W : worstChannel(g) <= y
  <2>1. worstChannel(g) = CHOOSE x \in W : \A y \in W : x <= y
    BY DEF worstChannel, Min
  <2> HIDE DEF W
  <2> QED BY <1>3, <2>1
<1>6. maxRequiredBitrate(g) \in R /\ \A y \in R : maxRequiredBitrate(g) >= y
  <2>1. maxRequiredBitrate(g) = CHOOSE x \in R : \A y \in R : x >= y
    BY DEF maxRequiredBitrate, Max
  <2>2. \A y \in R : r >= y
    BY <1>1, <1>4
  <2> HIDE DEF R
  <2> QED BY <2>1, <2>2
<1>7. \A ue \in groupUEs(g) : bitratePerRB[ue] \in W /\ requiredBitrate[ue] \in R
  OBVIOUS
<1>8. /\ \E ue \in RbUEs : worstChannel(g) = bitratePerRB[ue]
      /\ \E ue \in RbUEs : maxRequiredBitrate(g) = requiredBitrate[ue]
  BY <1>0, <1>5, <1>6
<1> HIDE DEF W, R
<1>9. ASSUME NEW ue \in groupUEs(g)
      PROVE  worstChannel(g) <= bitratePerRB[ue] /\ requiredBitrate[ue] <= maxRequiredBitrate(g)
  BY <1>1, <1>5, <1>6, <1>7
<1> QED BY <1>1, <1>5, <1>6, <1>8, <1>9

-----------------------------------------------------------------------------
(***************************************************************************)
(* One turn of the loops.                                                  *)
(***************************************************************************)
Result ==
    [rbsUsed : Nat, servedUEs : Nat, totalBitrate : Nat, availableRBs : Nat,
     granted : UNION {[D -> Nat] : D \in SUBSET Nat}]

LEMMA EmptyFact ==
    /\ EmptyResult \in Result /\ DOMAIN EmptyResult.granted = {}
    /\ EmptyResult.rbsUsed = 0 /\ EmptyResult.servedUEs = 0
    /\ EmptyResult.availableRBs = NumResourceBlocks
<1>1. [w \in {} |-> 0] \in [{} -> Nat]
  OBVIOUS
<1> QED BY <1>1, RbAssumption DEF EmptyResult, Result

TryGrants(n, res, who, rbs, count) ==
    /\ n.rbsUsed = res.rbsUsed + rbs
    /\ n.servedUEs = res.servedUEs + count
    /\ n.availableRBs = res.availableRBs - rbs
    /\ DOMAIN n.granted = DOMAIN res.granted \cup {who}
    /\ n.granted[who] = rbs
    /\ \A w \in DOMAIN res.granted : w # who => n.granted[w] = res.granted[w]

LEMMA TryFact ==
    ASSUME NEW res \in Result, NEW who \in Nat, NEW rate \in Nat \ {0}, NEW perRB \in Nat,
           NEW count \in Nat
    PROVE  /\ Try(res, who, rate, perRB, count) \in Result
           /\ perRB # 0 /\ requiredRBs(rate, perRB) <= res.availableRBs =>
                 TryGrants(Try(res, who, rate, perRB, count), res, who,
                           requiredRBs(rate, perRB), count)
           /\ ~(perRB # 0 /\ requiredRBs(rate, perRB) <= res.availableRBs) =>
                 Try(res, who, rate, perRB, count) = res
<1> DEFINE n == Try(res, who, rate, perRB, count)
           rbs == requiredRBs(rate, perRB)
<1>1. CASE ~(perRB # 0 /\ rbs <= res.availableRBs)
  BY <1>1 DEF Try
<1>2. CASE perRB # 0 /\ rbs <= res.availableRBs
  <2> DEFINE used == res.rbsUsed + rbs
             served == res.servedUEs + count
             total == res.totalBitrate + rbs * perRB * count
             left == res.availableRBs - rbs
             D == DOMAIN res.granted \cup {who}
             gr == [w \in D |-> IF w = who THEN rbs ELSE res.granted[w]]
  <2>1. n = [res EXCEPT !.rbsUsed = used, !.servedUEs = served, !.totalBitrate = total,
                        !.availableRBs = left, !.granted = gr]
    BY <1>2 DEF Try, Serve
  <2>2. rbs \in Nat
    BY <1>2, RequiredFact
  <2> HIDE DEF rbs, n
  <2>3. /\ res.rbsUsed \in Nat /\ res.servedUEs \in Nat /\ res.totalBitrate \in Nat
        /\ res.availableRBs \in Nat
    BY DEF Result
  <2>4. used \in Nat /\ served \in Nat /\ left \in Nat
    BY <1>2, <2>2, <2>3
  <2>5. total \in Nat
    <3>1. rbs * perRB \in Nat
      BY <2>2
    <3>2. rbs * perRB * count \in Nat
      BY <3>1
    <3> QED BY <2>3, <3>2
  <2>6. PICK E \in SUBSET Nat : res.granted \in [E -> Nat]
    BY DEF Result
  <2>7. D \in SUBSET Nat /\ gr \in [D -> Nat]
    BY <2>2, <2>6
  <2>8. DOMAIN gr = D /\ gr[who] = rbs /\ \A w \in DOMAIN res.granted : w # who => gr[w] = res.granted[w]
    OBVIOUS
  <2> HIDE DEF used, served, total, left, gr, D
  <2>9. gr \in UNION {[C -> Nat] : C \in SUBSET Nat}
    BY <2>7
  <2>10. n \in Result
    BY <2>1, <2>4, <2>5, <2>9 DEF Result
  <2>11. n.rbsUsed = used /\ n.servedUEs = served /\ n.availableRBs = left /\ n.granted = gr
    BY <2>1 DEF Result
  <2> QED BY <1>2, <2>8, <2>10, <2>11 DEF n, rbs, used, served, left, D, TryGrants
<1> QED BY <1>1, <1>2

\* One resource block carries any UE's bitrate over any UE's channel.
Cheap == \A ue, other \in RbUEs : bitratePerRB[ue] >= requiredBitrate[other]

\* The RBs that k requests of one each get.
Most(k) == IF k < NumResourceBlocks THEN k ELSE NumResourceBlocks

\* What simulateUnicast has come to after `done' RbUEs, simulateMulticast after
\* `done' groups.
UnicastInv(res, done) ==
    /\ res \in Result /\ DOMAIN res.granted \subseteq 1 .. done
    /\ \A ue \in (1 .. done) \ DOMAIN res.granted :
          \/ bitratePerRB[ue] = 0
          \/ requiredRBs(requiredBitrate[ue], bitratePerRB[ue]) > res.availableRBs
    /\ \A ue \in DOMAIN res.granted :
          res.granted[ue] * bitratePerRB[ue] >= requiredBitrate[ue]
    /\ res.servedUEs = Cardinality(DOMAIN res.granted)
    /\ Cheap => /\ res.rbsUsed = Most(done) /\ res.servedUEs = Most(done)
                /\ res.availableRBs = NumResourceBlocks - Most(done)

ServedBy(res) == UNION {groupUEs(g) : g \in DOMAIN res.granted}

MulticastInv(res, done) ==
    /\ res \in Result /\ DOMAIN res.granted \subseteq 1 .. done
    /\ \A g \in (1 .. done) \ DOMAIN res.granted :
          \/ worstChannel(g) = 0
          \/ requiredRBs(maxRequiredBitrate(g), worstChannel(g)) > res.availableRBs
    /\ \A g \in DOMAIN res.granted : \A ue \in groupUEs(g) :
          res.granted[g] * bitratePerRB[ue] >= requiredBitrate[ue]
    /\ IsFiniteSet(ServedBy(res)) /\ res.servedUEs = Cardinality(ServedBy(res))
    /\ Cheap => /\ res.rbsUsed = Most(done) /\ res.servedUEs >= Most(done)
                /\ res.availableRBs = NumResourceBlocks - Most(done)
                /\ done <= NumResourceBlocks => DOMAIN res.granted = 1 .. done

LEMMA MostFact ==
    ASSUME NEW k \in Nat
    PROVE  /\ Most(k) \in Nat /\ Most(k) <= NumResourceBlocks /\ Most(k) <= k
           /\ k + 1 <= NumResourceBlocks => Most(k + 1) = Most(k) + 1
           /\ Most(k) < NumResourceBlocks => Most(k + 1) = Most(k) + 1
           /\ Most(k) = NumResourceBlocks => Most(k + 1) = Most(k)
           /\ k <= NumResourceBlocks => Most(k) = k
BY RbAssumption DEF Most

LEMMA UnicastStep ==
    ASSUME Scenario, NEW res, NEW k \in Nat, k + 1 \in RbUEs, UnicastInv(res, k)
    PROVE  UnicastInv(Try(res, k + 1, requiredBitrate[k + 1], bitratePerRB[k + 1], 1), k + 1)
<1> DEFINE rate == requiredBitrate[k + 1]
           perRB == bitratePerRB[k + 1]
           n == Try(res, k + 1, rate, perRB, 1)
           rbs == requiredRBs(rate, perRB)
           D == DOMAIN res.granted
<1>1. /\ res \in Result /\ D \subseteq 1 .. k /\ res.availableRBs \in Nat /\ res.servedUEs \in Nat
      /\ res.rbsUsed \in Nat
  BY DEF UnicastInv, Result
<1>2. rate \in Nat \ {0} /\ perRB \in Nat
  BY ScenarioTypes
<1>3. /\ n \in Result
      /\ perRB # 0 /\ rbs <= res.availableRBs =>
            TryGrants(n, res, k + 1, rbs, 1)
      /\ ~(perRB # 0 /\ rbs <= res.availableRBs) => n = res
  <2>1. k + 1 \in Nat /\ 1 \in Nat
    OBVIOUS
  <2>2. PICK w, r, p, c : w = k + 1 /\ r = rate /\ p = perRB /\ c = 1
    OBVIOUS
  <2>3. w \in Nat /\ r \in Nat \ {0} /\ p \in Nat /\ c \in Nat
    BY <1>2, <2>1, <2>2
  <2>4. /\ Try(res, w, r, p, c) \in Result
        /\ p # 0 /\ requiredRBs(r, p) <= res.availableRBs =>
                 TryGrants(Try(res, w, r, p, c), res, w, requiredRBs(r, p), c)
        /\ ~(p # 0 /\ requiredRBs(r, p) <= res.availableRBs) => Try(res, w, r, p, c) = res
    BY <1>1, <2>3, TryFact
  <2> QED BY <2>2, <2>4
<1>4. perRB # 0 => rbs \in Nat \ {0} /\ rbs * perRB >= rate
  BY <1>2, RequiredFact
<1>5. Cheap => perRB # 0 /\ rbs = 1
  <2>1. Cheap => perRB >= rate
    BY DEF Cheap
  <2>2. Cheap => perRB # 0 /\ rate <= perRB
    BY <1>2, <2>1
  <2> QED BY <1>2, <2>2, RequiredFact
<1>6. k + 1 \notin D /\ IsFiniteSet(D)
  <2>1. k + 1 \notin 1 .. k /\ k \in Int /\ 1 \in Int
    OBVIOUS
  <2>2. IsFiniteSet(1 .. k)
    BY <2>1, FS_Interval
  <2> HIDE DEF D
  <2> QED BY <1>1, <2>1, <2>2, FS_Subset
<1>7. NumResourceBlocks \in Nat /\ Most(k) \in Nat
  BY RbAssumption, MostFact
<1>8. \A ue \in RbUEs : bitratePerRB[ue] # 0 =>
         requiredRBs(requiredBitrate[ue], bitratePerRB[ue]) \in Nat
  BY ScenarioTypes, RequiredFact
<1>9. \A ue \in 1 .. k : ue \in RbUEs
  BY ScenarioTypes DEF RbUEs
<1>10. \A ue \in 1 .. k + 1 : ue \in 1 .. k \/ ue = k + 1
  OBVIOUS
<1> HIDE DEF n, rbs, D
<1>11. CASE perRB # 0 /\ rbs <= res.availableRBs
  <2>0. /\ n.rbsUsed = res.rbsUsed + rbs
        /\ n.servedUEs = res.servedUEs + 1
        /\ n.availableRBs = res.availableRBs - rbs
        /\ DOMAIN n.granted = D \cup {k + 1}
        /\ n.granted[k + 1] = rbs
        /\ \A w \in D : w # k + 1 => n.granted[w] = res.granted[w]
    BY <1>3, <1>11 DEF TryGrants, D
  <2>1. DOMAIN n.granted \subseteq 1 .. k + 1
    <3>1. (1 .. k) \cup {k + 1} \subseteq 1 .. k + 1
      OBVIOUS
    <3> QED BY <1>1, <2>0, <3>1
  <2>2. ASSUME NEW ue \in (1 .. k + 1) \ DOMAIN n.granted
        PROVE  \/ bitratePerRB[ue] = 0
               \/ requiredRBs(requiredBitrate[ue], bitratePerRB[ue]) > n.availableRBs
    <3>1. ue \in (1 .. k) \ D /\ ue \in RbUEs
      BY <1>9, <1>10, <2>0
    <3>2. \/ bitratePerRB[ue] = 0
          \/ requiredRBs(requiredBitrate[ue], bitratePerRB[ue]) > res.availableRBs
      BY <3>1 DEF UnicastInv, D
    <3>3. n.availableRBs = res.availableRBs - rbs
      BY <2>0
    <3> QED BY <1>1, <1>4, <1>8, <1>11, <3>1, <3>2, <3>3
  <2>3. ASSUME NEW ue \in DOMAIN n.granted
        PROVE  n.granted[ue] * bitratePerRB[ue] >= requiredBitrate[ue]
    <3>1. CASE ue = k + 1
      BY <1>4, <1>11, <2>0, <3>1
    <3>2. CASE ue # k + 1
      <4>1. ue \in D /\ n.granted[ue] = res.granted[ue]
        BY <2>0, <3>2
      <4> QED BY <4>1 DEF UnicastInv, D
    <3> QED BY <3>1, <3>2
  <2>4. n.servedUEs = Cardinality(DOMAIN n.granted)
    <3>1. Cardinality(D \cup {k + 1}) = Cardinality(D) + 1
      BY <1>6, FS_AddElement
    <3> QED BY <2>0, <3>1 DEF UnicastInv, D
  <2>5. ASSUME Cheap
        PROVE  /\ n.rbsUsed = Most(k + 1) /\ n.servedUEs = Most(k + 1)
               /\ n.availableRBs = NumResourceBlocks - Most(k + 1)
    <3>1. /\ res.rbsUsed = Most(k) /\ res.servedUEs = Most(k)
          /\ res.availableRBs = NumResourceBlocks - Most(k)
      BY <2>5 DEF UnicastInv
    <3>2. rbs = 1
      BY <1>5, <2>5
    <3>3. Most(k) < NumResourceBlocks
      BY <1>7, <1>11, <3>1, <3>2
    <3>4. Most(k + 1) = Most(k) + 1
      BY <3>3, MostFact
    <3> QED BY <1>7, <2>0, <3>1, <3>2, <3>4
  <2> QED BY <1>3, <2>1, <2>2, <2>3, <2>4, <2>5 DEF UnicastInv, n
<1>12. CASE ~(perRB # 0 /\ rbs <= res.availableRBs)
  <2>1. n = res
    BY <1>3, <1>12
  <2>2. DOMAIN n.granted \subseteq 1 .. k + 1
    BY <1>1, <2>1 DEF D
  <2>3. ASSUME NEW ue \in (1 .. k + 1) \ DOMAIN n.granted
        PROVE  \/ bitratePerRB[ue] = 0
               \/ requiredRBs(requiredBitrate[ue], bitratePerRB[ue]) > n.availableRBs
    <3>1. CASE ue = k + 1
      BY <1>1, <1>4, <1>12, <2>1, <3>1 DEF rbs
    <3>2. CASE ue # k + 1
      BY <1>10, <2>1, <3>2 DEF UnicastInv
    <3> QED BY <3>1, <3>2
  <2>4. ASSUME Cheap
        PROVE  Most(k + 1) = Most(k)
    <3>1. rbs = 1 /\ perRB # 0
      BY <1>5, <2>4
    <3>2. res.availableRBs = NumResourceBlocks - Most(k)
      BY <2>4 DEF UnicastInv
    <3>3. Most(k) = NumResourceBlocks
      <4>1. ~(1 <= res.availableRBs)
        BY <1>12, <3>1
      <4>2. Most(k) <= NumResourceBlocks
        BY MostFact
      <4> QED BY <1>7, <3>2, <4>1, <4>2
    <3> QED BY <3>3, MostFact
  <2> QED BY <2>1, <2>2, <2>3, <2>4 DEF UnicastInv, n
<1> QED BY <1>11, <1>12

LEMMA MulticastStep ==
    ASSUME Scenario, NEW res, NEW k \in Nat, k + 1 \in Groups, MulticastInv(res, k)
    PROVE  MulticastInv(Try(res, k + 1, maxRequiredBitrate(k + 1), worstChannel(k + 1),
                            Cardinality(groupUEs(k + 1))), k + 1)
<1> DEFINE rate == maxRequiredBitrate(k + 1)
           perRB == worstChannel(k + 1)
           count == Cardinality(groupUEs(k + 1))
           n == Try(res, k + 1, rate, perRB, count)
           rbs == requiredRBs(rate, perRB)
           D == DOMAIN res.granted
<1>1. /\ res \in Result /\ D \subseteq 1 .. k /\ res.availableRBs \in Nat /\ res.servedUEs \in Nat
      /\ res.rbsUsed \in Nat /\ \A g \in D : res.granted[g] \in Nat
  BY DEF MulticastInv, Result
<1>2. /\ rate \in Nat \ {0} /\ perRB \in Nat /\ count \in Nat \ {0}
      /\ IsFiniteSet(groupUEs(k + 1))
  <2>1. GroupSize \in Nat
    BY RbAssumption
  <2>2. count \in 1 .. GroupSize /\ IsFiniteSet(groupUEs(k + 1))
    BY GroupFact
  <2> QED BY <2>1, <2>2, GroupRates
<1>3. /\ n \in Result
      /\ perRB # 0 /\ rbs <= res.availableRBs => TryGrants(n, res, k + 1, rbs, count)
      /\ ~(perRB # 0 /\ rbs <= res.availableRBs) => n = res
  <2>1. PICK w, r, p, c : w = k + 1 /\ r = rate /\ p = perRB /\ c = count
    OBVIOUS
  <2>2. w \in Nat /\ r \in Nat \ {0} /\ p \in Nat /\ c \in Nat
    BY <1>2, <2>1
  <2>3. /\ Try(res, w, r, p, c) \in Result
        /\ p # 0 /\ requiredRBs(r, p) <= res.availableRBs =>
              TryGrants(Try(res, w, r, p, c), res, w, requiredRBs(r, p), c)
        /\ ~(p # 0 /\ requiredRBs(r, p) <= res.availableRBs) => Try(res, w, r, p, c) = res
    BY <1>1, <2>2, TryFact
  <2> QED BY <2>1, <2>3
<1>4. perRB # 0 => rbs \in Nat \ {0} /\ rbs * perRB >= rate
  BY <1>2, RequiredFact
<1>5. Cheap => perRB # 0 /\ rbs = 1
  <2>1. PICK ue \in RbUEs, other \in RbUEs : perRB = bitratePerRB[ue] /\ rate = requiredBitrate[other]
    BY GroupRates
  <2>2. Cheap => perRB >= rate
    BY <2>1 DEF Cheap
  <2>3. Cheap => perRB # 0 /\ rate <= perRB
    BY <1>2, <2>2
  <2> QED BY <1>2, <2>3, RequiredFact
<1>6. k + 1 \notin D
  <2>1. k + 1 \notin 1 .. k
    OBVIOUS
  <2> QED BY <1>1, <2>1
<1>7. NumResourceBlocks \in Nat /\ Most(k) \in Nat
  BY RbAssumption, MostFact
<1>8. numUEs \in Nat /\ numGroups \in Nat
  BY ScenarioTypes, NumGroups
<1>9. \A g \in 1 .. k : g \in Groups
  BY <1>8 DEF Groups
<1>10. \A g \in Groups : worstChannel(g) # 0 =>
         requiredRBs(maxRequiredBitrate(g), worstChannel(g)) \in Nat
  BY GroupRates, RequiredFact
<1>11. \A g \in 1 .. k + 1 : g \in 1 .. k \/ g = k + 1
  OBVIOUS
<1>12. (1 .. k) \cup {k + 1} = 1 .. k + 1
  OBVIOUS
<1> HIDE DEF n, rbs, D, perRB, rate, count
<1>13. CASE perRB # 0 /\ rbs <= res.availableRBs
  <2>0. /\ n.rbsUsed = res.rbsUsed + rbs
        /\ n.servedUEs = res.servedUEs + count
        /\ n.availableRBs = res.availableRBs - rbs
        /\ DOMAIN n.granted = D \cup {k + 1}
        /\ n.granted[k + 1] = rbs
        /\ \A w \in D : w # k + 1 => n.granted[w] = res.granted[w]
    BY <1>3, <1>13 DEF TryGrants, D
  <2>1. DOMAIN n.granted \subseteq 1 .. k + 1
    BY <1>1, <1>12, <2>0
  <2>2. ASSUME NEW g \in (1 .. k + 1) \ DOMAIN n.granted
        PROVE  \/ worstChannel(g) = 0
               \/ requiredRBs(maxRequiredBitrate(g), worstChannel(g)) > n.availableRBs
    <3>1. g \in (1 .. k) \ D /\ g \in Groups
      BY <1>9, <1>11, <2>0
    <3>2. \/ worstChannel(g) = 0
          \/ requiredRBs(maxRequiredBitrate(g), worstChannel(g)) > res.availableRBs
      BY <3>1 DEF MulticastInv, D
    <3> QED BY <1>1, <1>4, <1>10, <1>13, <2>0, <3>1, <3>2
  <2>3. ASSUME NEW g \in DOMAIN n.granted, NEW ue \in groupUEs(g)
        PROVE  n.granted[g] * bitratePerRB[ue] >= requiredBitrate[ue]
    <3>1. CASE g = k + 1
      <4>1. PICK b, r \in Nat : b = bitratePerRB[ue] /\ r = requiredBitrate[ue]
        BY ScenarioTypes DEF groupUEs
      <4>2. perRB <= b /\ r <= rate
        BY <3>1, <4>1, GroupRates DEF perRB, rate
      <4>3. rbs * perRB <= rbs * b
        BY <1>2, <1>4, <1>13, <4>1, <4>2
      <4>4. rbs * b \in Nat /\ rbs * perRB \in Nat
        BY <1>2, <1>4, <1>13, <4>1
      <4>5. rbs * b >= r
        BY <1>2, <1>4, <1>13, <4>1, <4>2, <4>3, <4>4
      <4> QED BY <2>0, <3>1, <4>1, <4>5
    <3>2. CASE g # k + 1
      <4>1. g \in D /\ n.granted[g] = res.granted[g]
        BY <2>0, <3>2
      <4> QED BY <4>1 DEF MulticastInv, D
    <3> QED BY <3>1, <3>2
  <2>4. IsFiniteSet(ServedBy(n)) /\ n.servedUEs = Cardinality(ServedBy(n))
    <3>1. ServedBy(n) = ServedBy(res) \cup groupUEs(k + 1)
      BY <2>0 DEF ServedBy, D
    <3>2. ServedBy(res) \cap groupUEs(k + 1) = {}
      BY <1>6 DEF ServedBy, groupUEs, D
    <3>3. IsFiniteSet(ServedBy(res)) /\ res.servedUEs = Cardinality(ServedBy(res))
      BY DEF MulticastInv
    <3>4. /\ IsFiniteSet(ServedBy(n))
          /\ Cardinality(ServedBy(n)) = res.servedUEs + count - Cardinality({})
      BY <1>2, <3>1, <3>2, <3>3, FS_Union DEF count
    <3> QED BY <1>1, <1>2, <2>0, <3>4, FS_EmptySet
  <2>5. ASSUME Cheap
        PROVE  /\ n.rbsUsed = Most(k + 1) /\ n.servedUEs >= Most(k + 1)
               /\ n.availableRBs = NumResourceBlocks - Most(k + 1)
               /\ k + 1 <= NumResourceBlocks => DOMAIN n.granted = 1 .. k + 1
    <3>1. /\ res.rbsUsed = Most(k) /\ res.servedUEs >= Most(k)
          /\ res.availableRBs = NumResourceBlocks - Most(k)
          /\ k <= NumResourceBlocks => D = 1 .. k
      BY <2>5 DEF MulticastInv, D
    <3>2. rbs = 1
      BY <1>5, <2>5
    <3>3. Most(k) < NumResourceBlocks
      BY <1>7, <1>13, <3>1, <3>2
    <3>4. Most(k + 1) = Most(k) + 1
      BY <3>3, MostFact
    <3>5. k + 1 <= NumResourceBlocks => D = 1 .. k
      BY <1>7, <3>1
    <3>6. n.servedUEs >= Most(k + 1)
      BY <1>1, <1>2, <1>7, <2>0, <3>1, <3>4
    <3> QED BY <1>7, <1>12, <2>0, <3>1, <3>2, <3>4, <3>5, <3>6
  <2> QED BY <1>3, <2>1, <2>2, <2>3, <2>4, <2>5 DEF MulticastInv, n, rate, perRB, count
<1>14. CASE ~(perRB # 0 /\ rbs <= res.availableRBs)
  <2>1. n = res
    BY <1>3, <1>14
  <2>2. DOMAIN n.granted \subseteq 1 .. k + 1
    BY <1>1, <1>12, <2>1 DEF D
  <2>3. ASSUME NEW g \in (1 .. k + 1) \ DOMAIN n.granted
        PROVE  \/ worstChannel(g) = 0
               \/ requiredRBs(maxRequiredBitrate(g), worstChannel(g)) > n.availableRBs
    <3>1. CASE g = k + 1
      BY <1>1, <1>4, <1>14, <2>1, <3>1 DEF rbs, rate, perRB
    <3>2. CASE g # k + 1
      BY <1>11, <2>1, <3>2 DEF MulticastInv
    <3> QED BY <3>1, <3>2
  <2>4. ASSUME Cheap
        PROVE  Most(k + 1) = Most(k) /\ ~(k + 1 <= NumResourceBlocks)
    <3>1. rbs = 1 /\ perRB # 0
      BY <1>5, <2>4
    <3>2. res.availableRBs = NumResourceBlocks - Most(k)
      BY <2>4 DEF MulticastInv
    <3>3. Most(k) = NumResourceBlocks
      <4>1. ~(1 <= res.availableRBs)
        BY <1>14, <3>1
      <4>2. Most(k) <= NumResourceBlocks
        BY MostFact
      <4> QED BY <1>7, <3>2, <4>1, <4>2
    <3>4. Most(k) <= k
      BY MostFact
    <3> QED BY <1>7, <3>3, <3>4, MostFact
  <2> QED BY <2>1, <2>2, <2>3, <2>4 DEF MulticastInv, n, rate, perRB, count
<1> QED BY <1>13, <1>14

-----------------------------------------------------------------------------
(***************************************************************************)
(* The invariant.                                                          *)
(***************************************************************************)
DoneUEs == IF phase = "unicast" THEN next - 1 ELSE numUEs
DoneGroups ==
    CASE phase = "unicast" -> 0
      [] phase = "multicast" -> next - 1
      [] phase = "scenario" -> numGroups

Inv ==
    /\ Scenario
    /\ \/ phase = "unicast" /\ next \in RbUEs
       \/ phase = "multicast" /\ next \in Groups
       \/ phase = "scenario" /\ next = 1
    /\ UnicastInv(unicast, DoneUEs)
    /\ MulticastInv(multicast, DoneGroups)

LEMMA StartInv ==
    UnicastInv(EmptyResult, 0) /\ MulticastInv(EmptyResult, 0)
<1>1. Most(0) = 0 /\ NumResourceBlocks \in Nat
  BY RbAssumption DEF Most
<1>2. ServedBy(EmptyResult) = {}
  BY EmptyFact DEF ServedBy
<1>3. 1 .. 0 = {}
  OBVIOUS
<1>4. Cardinality({}) = 0 /\ IsFiniteSet({})
  BY FS_EmptySet
<1> QED BY <1>1, <1>2, <1>3, <1>4, EmptyFact DEF UnicastInv, MulticastInv

LEMMA InitInv == RbInit => Inv
<1> SUFFICES ASSUME RbInit PROVE Inv
  OBVIOUS
<1>1. Scenario
  BY DEF RbInit, Scenario
<1>2. next \in RbUEs /\ DoneUEs = 0 /\ DoneGroups = 0
  BY <1>1, ScenarioTypes DEF RbInit, RbUEs, DoneUEs, DoneGroups
<1> QED BY <1>1, <1>2, StartInv DEF Inv, RbInit

\* The scenario stays the same while the simulations run.
LEMMA SameScenario ==
    ASSUME numUEs' = numUEs, bitratePerRB' = bitratePerRB, requiredBitrate' = requiredBitrate,
           NEW res, NEW done
    PROVE  /\ Scenario' = Scenario /\ RbUEs' = RbUEs /\ Groups' = Groups /\ numGroups' = numGroups
           /\ UnicastInv(res, done)' = UnicastInv(res, done)
           /\ MulticastInv(res, done)' = MulticastInv(res, done)
<1>1. RbUEs' = RbUEs /\ Groups' = Groups /\ numGroups' = numGroups
  BY DEF RbUEs, Groups, numGroups
<1>2. \A g : groupUEs(g)' = groupUEs(g)
  BY <1>1 DEF groupUEs, groupRNTI
<1>3. \A g : worstChannel(g)' = worstChannel(g) /\ maxRequiredBitrate(g)' = maxRequiredBitrate(g)
  BY <1>2 DEF worstChannel, maxRequiredBitrate
<1>4. Cheap' = Cheap /\ ServedBy(res)' = ServedBy(res)
  BY <1>1, <1>2 DEF Cheap, ServedBy
<1> QED BY <1>1, <1>2, <1>3, <1>4 DEF Scenario, UnicastInv, MulticastInv

LEMMA NextInv ==
    ASSUME Inv, [RbNext]_rbVars
    PROVE  Inv'
<1>0. numUEs \in Nat \ {0} /\ numGroups \in Nat \ {0} /\ numGroups <= numUEs
  BY ScenarioTypes, NumGroups DEF Inv
<1>1. CASE generateUEScenario
  <2>1. Scenario' /\ numUEs' \in Nat \ {0}
    BY <1>1, RbAssumption DEF generateUEScenario, Scenario
  <2>2. (next \in RbUEs)' /\ DoneUEs' = 0 /\ DoneGroups' = 0 /\ phase' = "unicast"
    BY <1>1, <2>1 DEF generateUEScenario, RbUEs, DoneUEs, DoneGroups
  <2>3. UnicastInv(EmptyResult, 0)' /\ MulticastInv(EmptyResult, 0)'
    BY StartInv, PTL
  <2>4. UnicastInv(unicast, DoneUEs)' /\ MulticastInv(multicast, DoneGroups)'
    BY <1>1, <2>2, <2>3 DEF generateUEScenario
  <2> QED BY <2>1, <2>2, <2>4 DEF Inv
<1>2. CASE simulateUnicast
  <2>1. /\ phase = "unicast" /\ next \in RbUEs /\ next \in Nat /\ next - 1 \in Nat
        /\ Scenario /\ UnicastInv(unicast, next - 1) /\ MulticastInv(multicast, 0)
    BY <1>0, <1>2 DEF simulateUnicast, Inv, DoneUEs, DoneGroups, RbUEs
  <2>2. PICK k \in Nat : k = next - 1 /\ k + 1 = next
    BY <2>1
  <2>3. PICK u : u = Try(unicast, next, requiredBitrate[next], bitratePerRB[next], 1)
    OBVIOUS
  <2>4. UnicastInv(u, k + 1)
    BY <2>1, <2>2, <2>3, UnicastStep
  <2>5. PICK m, d : m = multicast /\ d = next
    OBVIOUS
  <2>6. /\ numUEs' = numUEs /\ bitratePerRB' = bitratePerRB
        /\ requiredBitrate' = requiredBitrate /\ multicast' = m /\ unicast' = u
    BY <1>2, <2>3, <2>5 DEF simulateUnicast
  <2>7. Scenario' /\ RbUEs' = RbUEs /\ Groups' = Groups /\ UnicastInv(u, d)' /\ MulticastInv(m, 0)'
    BY <2>1, <2>2, <2>4, <2>5, <2>6, SameScenario
  <2>8. DoneUEs' = d /\ DoneGroups' = 0
        /\ \/ phase' = "unicast" /\ next' \in RbUEs
           \/ phase' = "multicast" /\ next' \in Groups
    <3>1. CASE next = numUEs
      BY <1>0, <1>2, <2>1, <2>5, <2>6, <3>1
      DEF simulateUnicast, DoneUEs, DoneGroups, RbUEs, Groups
    <3>2. CASE next # numUEs
      <4>1. next' = next + 1 /\ phase' = phase
        BY <1>2, <3>2 DEF simulateUnicast
      <4>2. next + 1 \in RbUEs /\ next + 1 - 1 = next
        BY <1>0, <2>1, <3>2 DEF RbUEs
      <4> QED BY <2>1, <2>5, <4>1, <4>2 DEF DoneUEs, DoneGroups
    <3> QED BY <3>1, <3>2
  <2>9. UnicastInv(unicast, DoneUEs)' /\ MulticastInv(multicast, DoneGroups)'
    BY <2>6, <2>7, <2>8
  <2> QED BY <2>7, <2>8, <2>9 DEF Inv
<1>3. CASE simulateMulticast
  <2>1. /\ phase = "multicast" /\ next \in Groups /\ next \in Nat /\ next - 1 \in Nat
        /\ Scenario /\ UnicastInv(unicast, numUEs) /\ MulticastInv(multicast, next - 1)
    BY <1>0, <1>3 DEF simulateMulticast, Inv, DoneUEs, DoneGroups, Groups
  <2>2. PICK k \in Nat : k = next - 1 /\ k + 1 = next
    BY <2>1
  <2>3. PICK m : m = Try(multicast, next, maxRequiredBitrate(next), worstChannel(next),
                         Cardinality(groupUEs(next)))
    OBVIOUS
  <2>4. MulticastInv(m, k + 1)
    BY <2>1, <2>2, <2>3, MulticastStep
  <2>5. PICK u, d : u = unicast /\ d = next
    OBVIOUS
  <2>6. /\ numUEs' = numUEs /\ bitratePerRB' = bitratePerRB
        /\ requiredBitrate' = requiredBitrate /\ multicast' = m /\ unicast' = u
    <3>1. groupUEs(next) # {}
      BY <2>1, GroupFact
    <3> QED BY <1>3, <2>3, <2>5, <3>1 DEF simulateMulticast
  <2>7. PICK ues : ues = numUEs
    OBVIOUS
  <2>8. /\ Scenario' /\ RbUEs' = RbUEs /\ Groups' = Groups /\ numGroups' = numGroups
        /\ UnicastInv(u, ues)' /\ MulticastInv(m, d)'
    BY <2>1, <2>2, <2>4, <2>5, <2>6, <2>7, SameScenario
  <2>9. DoneUEs' = ues /\ DoneGroups' = d
        /\ \/ phase' = "multicast" /\ next' \in Groups
           \/ phase' = "scenario" /\ next' = 1
    <3>1. CASE next = numGroups
      BY <1>0, <1>3, <2>1, <2>5, <2>6, <2>7, <2>8, <3>1
      DEF simulateMulticast, DoneUEs, DoneGroups, Groups
    <3>2. CASE next # numGroups
      <4>1. next' = next + 1 /\ phase' = phase
        BY <1>3, <3>2 DEF simulateMulticast
      <4>2. next + 1 \in Groups /\ next + 1 - 1 = next
        BY <1>0, <2>1, <3>2 DEF Groups
      <4> QED BY <2>1, <2>5, <2>6, <2>7, <4>1, <4>2 DEF DoneUEs, DoneGroups
    <3> QED BY <3>1, <3>2
  <2>10. UnicastInv(unicast, DoneUEs)' /\ MulticastInv(multicast, DoneGroups)'
    BY <2>6, <2>8, <2>9
  <2> QED BY <2>8, <2>9, <2>10 DEF Inv
<1>4. CASE UNCHANGED rbVars
  <2>1. PICK u, m, d, e : u = unicast /\ m = multicast /\ d = DoneUEs /\ e = DoneGroups
    OBVIOUS
  <2>2. /\ numUEs' = numUEs /\ bitratePerRB' = bitratePerRB /\ phase' = phase /\ next' = next
        /\ requiredBitrate' = requiredBitrate /\ multicast' = m /\ unicast' = u
    BY <1>4, <2>1 DEF rbVars
  <2>3. /\ Scenario' /\ RbUEs' = RbUEs /\ Groups' = Groups /\ numGroups' = numGroups
        /\ UnicastInv(u, d)' /\ MulticastInv(m, e)'
    BY <2>1, <2>2, SameScenario DEF Inv
  <2>4. DoneUEs' = d /\ DoneGroups' = e
    BY <2>1, <2>2, <2>3 DEF DoneUEs, DoneGroups
  <2>5. UnicastInv(unicast, DoneUEs)' /\ MulticastInv(multicast, DoneGroups)'
    BY <2>2, <2>3, <2>4
  <2> QED BY <2>2, <2>3, <2>5 DEF Inv
<1> QED BY <1>1, <1>2, <1>3, <1>4 DEF RbNext

LEMMA AlwaysInv == RbSpec => []Inv
BY InitInv, NextInv, PTL DEF RbSpec

\* A UE or group that simulateUnicast or simulateMulticast passed over could
\* not be served with what is left at the end either: RBs are only taken.
THEOREM NobodyIsLeftOut == RbSpec => []NobodyLeftOut
<1>1. ASSUME Inv PROVE NobodyLeftOut
  <2>0. numUEs \in Nat \ {0} /\ numGroups \in Nat
    BY <1>1, ScenarioTypes, NumGroups DEF Inv
  <2>1. ASSUME NEW ue \in RbUEs \ DOMAIN unicast.granted, phase # "unicast" \/ ue < next
        PROVE  \/ bitratePerRB[ue] = 0
               \/ requiredRBs(requiredBitrate[ue], bitratePerRB[ue]) > unicast.availableRBs
    <3>1. ue \in 1 .. DoneUEs
      BY <1>1, <2>0, <2>1 DEF Inv, DoneUEs, RbUEs
    <3> QED BY <1>1, <3>1 DEF Inv, UnicastInv
  <2>2. ASSUME NEW g \in Groups \ DOMAIN multicast.granted,
               phase = "scenario" \/ (phase = "multicast" /\ g < next)
        PROVE  \/ worstChannel(g) = 0
               \/ requiredRBs(maxRequiredBitrate(g), worstChannel(g)) > multicast.availableRBs
    <3>1. g \in 1 .. DoneGroups
      BY <1>1, <2>0, <2>2 DEF Inv, DoneGroups, Groups
    <3> QED BY <1>1, <3>1 DEF Inv, MulticastInv
  <2> QED BY <2>1, <2>2 DEF NobodyLeftOut
<1> QED BY <1>1, AlwaysInv, PTL

\* Whoever simulateUnicast or simulateMulticast counts as served is counted
\* once and gets its bitrate over its own channel, which in a group is no worse
\* than the worst; and the groups of generateUEScenario have 1 to GroupSize RbUEs.
THEOREM ServedGetWhatTheyRequire == RbSpec => []ServedGetTheirBitrate
<1>1. ASSUME Inv PROVE ServedGetTheirBitrate
  <2>1. multicast.servedUEs = Cardinality(Served)
    BY <1>1 DEF Inv, MulticastInv, Served, ServedBy
  <2>2. \A g \in Groups : Cardinality(groupUEs(g)) \in 1 .. GroupSize
    BY <1>1, GroupFact DEF Inv
  <2> QED BY <1>1, <2>1, <2>2 DEF Inv, UnicastInv, MulticastInv, ServedGetTheirBitrate
<1> QED BY <1>1, AlwaysInv, PTL

\* The script's conclusion: where one RB carries any UE's bitrate, multicast
\* serves no fewer RbUEs than unicast and takes no more RBs.
THEOREM MulticastTakesLess == RbSpec => []MulticastSaves
<1>1. ASSUME Inv PROVE MulticastSaves
  <2> SUFFICES ASSUME phase = "scenario", Cheap
               PROVE  /\ multicast.rbsUsed <= unicast.rbsUsed
                      /\ multicast.servedUEs >= unicast.servedUEs
    BY DEF MulticastSaves, Cheap
  <2>0. /\ numUEs \in Nat \ {0} /\ numGroups \in Nat \ {0} /\ numGroups <= numUEs
        /\ NumResourceBlocks \in Nat
    BY <1>1, ScenarioTypes, NumGroups, RbAssumption DEF Inv
  <2>1. DoneUEs = numUEs /\ DoneGroups = numGroups
    BY DEF DoneUEs, DoneGroups
  <2>2. /\ unicast.rbsUsed = Most(numUEs) /\ unicast.servedUEs = Most(numUEs)
        /\ multicast.rbsUsed = Most(numGroups) /\ multicast.servedUEs >= Most(numGroups)
        /\ numGroups <= NumResourceBlocks => DOMAIN multicast.granted = Groups
        /\ multicast.servedUEs = Cardinality(ServedBy(multicast))
    BY <1>1, <2>1 DEF Inv, UnicastInv, MulticastInv, Groups
  <2>3. Most(numGroups) <= Most(numUEs)
    BY <2>0 DEF Most
  <2>4. CASE numGroups <= NumResourceBlocks
    <3>1. ServedBy(multicast) = RbUEs
      <4>1. \A ue \in RbUEs : ue \in groupUEs(groupRNTI(ue)) /\ groupRNTI(ue) \in Groups
        BY <1>1, GroupFact DEF Inv, groupUEs
      <4>2. \A g : groupUEs(g) \subseteq RbUEs
        BY DEF groupUEs
      <4> QED BY <2>2, <2>4, <4>1, <4>2 DEF ServedBy
    <3>2. Cardinality(RbUEs) = numUEs
      <4>1. 1 \in Int /\ numUEs \in Int /\ ~(1 > numUEs) /\ numUEs - 1 + 1 = numUEs
        BY <2>0
      <4> QED BY <4>1, FS_Interval DEF RbUEs
    <3>3. Most(numUEs) <= numUEs
      BY <2>0, MostFact
    <3> QED BY <2>0, <2>2, <2>3, <3>1, <3>2, <3>3
  <2>5. CASE ~(numGroups <= NumResourceBlocks)
    <3>1. Most(numGroups) = NumResourceBlocks /\ Most(numUEs) <= NumResourceBlocks
      BY <2>0, <2>5, MostFact DEF Most
    <3>2. Most(numUEs) \in Nat
      BY <2>0, MostFact
    <3>3. multicast.servedUEs \in Nat
      BY <1>1 DEF Inv, MulticastInv, Result
    <3> QED BY <2>0, <2>2, <2>3, <3>1, <3>2, <3>3
  <2> QED BY <2>4, <2>5
<1> QED BY <1>1, AlwaysInv, PTL
=============================================================================
