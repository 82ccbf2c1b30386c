--------------------------- MODULE SatMbms_proofs ---------------------------
(***************************************************************************)
(* Proofs about SatMbms, for any number of users, selected users and runs. *)
(***************************************************************************)
EXTENDS SatMbms, FiniteSetTheorems, WellFoundedInduction, TLAPS

-----------------------------------------------------------------------------
(* Induction over the natural numbers, and what SumOfBytes computes. *)

LEMMA SmallestOf ==
    ASSUME NEW R, NEW T, IsWellFoundedOn(R, Nat), T \subseteq Nat, T # {},
           \A x, y \in Nat : x < y => <<x, y>> \in R
    PROVE  \E n \in T : \A m \in T : n <= m
  <1>1. \E x \in T : \A y \in T : ~(<<y, x>> \in R)
    BY ONLY WFMin, IsWellFoundedOn(R, Nat), T \subseteq Nat, T # {}
  <1>2. PICK x \in T : \A y \in T : ~(<<y, x>> \in R)
    BY <1>1
  <1>3. \A y \in T : ~(y < x)
    BY <1>2, Zenon
  <1> QED BY <1>3

LEMMA Induction ==
    ASSUME NEW S, 0 \in S, \A n \in Nat : n \in S => n + 1 \in S
    PROVE  Nat \subseteq S
  <1> DEFINE T == Nat \ S
  <1> SUFFICES ASSUME T # {} PROVE FALSE
    OBVIOUS
  <1>1. PICK n \in T : \A m \in T : n <= m
    <2>1. \A x, y \in Nat : x < y => <<x, y>> \in OpToRel(<, Nat)
      BY DEF OpToRel
    <2>2. T \subseteq Nat
      BY DEF T
    <2> HIDE DEF T
    <2> QED BY <2>1, <2>2, SmallestOf, NatLessThanWellFounded, Zenon
  <1>2. n # 0 /\ n - 1 \in Nat /\ n - 1 \notin T
    BY <1>1
  <1> QED BY <1>1, <1>2

\* s[n] is the sum over the first n of the N values of f.
Sums(s, f, N) ==
    /\ DOMAIN s = 0..N
    /\ s[0] = 0
    /\ \A n \in 1..N : s[n] = s[n - 1] + f[n]

LEMMA SumsExist ==
    ASSUME NEW N \in Nat, NEW f
    PROVE  \E s : s = [k \in 0..N |-> s[k]] /\ Sums(s, f, N)
  <1> DEFINE Has(s, n) == s = [k \in 0..n |-> s[k]] /\ Sums(s, f, n)
             S == {n \in Nat : \E s : Has(s, n)}
  <1>1. 0 \in S
    <2> DEFINE z == [k \in 0..0 |-> 0]
    <2>1. DOMAIN z = 0..0 /\ z[0] = 0
      OBVIOUS
    <2>2. z = [k \in 0..0 |-> z[k]]
      OBVIOUS
    <2> HIDE DEF z
    <2>3. Has(z, 0)
      BY <2>1, <2>2 DEF Sums
    <2> HIDE DEF Has
    <2> QED BY <2>3
  <1>2. ASSUME NEW n \in Nat, n \in S PROVE n + 1 \in S
    <2>1. PICK s : Has(s, n)
      BY <1>2
    <2> DEFINE t == [k \in 0..n + 1 |-> IF k = n + 1 THEN s[n] + f[n + 1] ELSE s[k]]
    <2>2. DOMAIN t = 0..n + 1 /\ t[0] = 0
      BY <2>1 DEF Sums
    <2>3. ASSUME NEW k \in 1..n + 1 PROVE t[k] = t[k - 1] + f[k]
      <3>1. CASE k = n + 1
        BY <3>1
      <3>2. CASE k # n + 1
        <4>1. k \in 1..n /\ k - 1 \in 0..n
          BY <3>2
        <4>2. t[k] = s[k] /\ t[k - 1] = s[k - 1]
          BY <4>1
        <4> QED BY <2>1, <4>1, <4>2 DEF Sums
      <3> QED BY <3>1, <3>2
    <2>4. t = [k \in 0..n + 1 |-> t[k]]
      OBVIOUS
    <2> HIDE DEF t
    <2>5. Has(t, n + 1)
      BY <2>2, <2>3, <2>4 DEF Sums
    <2> HIDE DEF Has
    <2> QED BY <2>5
  <1>3. N \in S
    <2> HIDE DEF S
    <2> QED BY <1>1, <1>2, Induction
  <1> QED BY <1>3

LEMMA SumOfBytesIs ==
    ASSUME NEW f
    PROVE  \E s : Sums(s, f, MBMS_BROADCAST_USERS)
                  /\ SumOfBytes(f) = s[MBMS_BROADCAST_USERS]
  <1> DEFINE N == MBMS_BROADCAST_USERS
             D(s) == [n \in 0..N |-> IF n = 0 THEN 0 ELSE s[n - 1] + f[n]]
             sum == CHOOSE s : s = D(s)
  <1>0. N \in Nat
    BY SatAssumption
  <1>1. SumOfBytes(f) = sum[N]
    BY DEF SumOfBytes
  <1> HIDE DEF N
  <1>2. PICK g : g = [k \in 0..N |-> g[k]] /\ Sums(g, f, N)
    BY <1>0, SumsExist
  <1>3. g = D(g)
    <2>1. ASSUME NEW n \in 0..N PROVE g[n] = D(g)[n]
      <3>1. D(g)[n] = IF n = 0 THEN 0 ELSE g[n - 1] + f[n]
        OBVIOUS
      <3>2. n # 0 => n \in 1..N
        BY <1>0
      <3>3. g[0] = 0 /\ \A k \in 1..N : g[k] = g[k - 1] + f[k]
        BY <1>2 DEF Sums
      <3> QED BY <3>1, <3>2, <3>3
    <2>2. D(g) = [n \in 0..N |-> D(g)[n]]
      OBVIOUS
    <2> HIDE DEF D
    <2> QED BY <1>2, <2>1, <2>2
  <1>4. sum = D(sum)
    <2> HIDE DEF D
    <2> QED BY <1>3
  <1> HIDE DEF sum
  <1>5. Sums(sum, f, N)
    <2>1. DOMAIN sum = 0..N
      BY <1>4
    <2>2. sum[0] = 0
      BY <1>0, <1>4
    <2>3. \A n \in 1..N : sum[n] = sum[n - 1] + f[n]
      BY <1>0, <1>4
    <2> QED BY <2>1, <2>2, <2>3 DEF Sums
  <1> QED BY <1>1, <1>5 DEF N

\* The selected UEs among the first n.
Among(S, n) == Cardinality(S \cap (1..n))

LEMMA AmongCounts ==
    ASSUME NEW S, NEW n \in Nat
    PROVE  /\ Among(S, n) \in Nat
           /\ Among(S, 0) = 0
           /\ Among(S, n + 1) = IF n + 1 \in S THEN Among(S, n) + 1 ELSE Among(S, n)
  <1>1. IsFiniteSet(S \cap (1..n))
    <2>1. IsFiniteSet(1..n)
      BY FS_Interval
    <2> QED BY <2>1, FS_Subset
  <1>2. Among(S, n) \in Nat
    BY <1>1, FS_CardinalityType DEF Among
  <1>3. S \cap (1..0) = {}
    OBVIOUS
  <1>4. Among(S, 0) = 0
    BY <1>3, FS_EmptySet DEF Among
  <1>5. CASE n + 1 \in S
    <2>1. S \cap (1..n + 1) = (S \cap (1..n)) \cup {n + 1}
      BY <1>5
    <2>2. n + 1 \notin S \cap (1..n)
      OBVIOUS
    <2> QED BY <1>1, <1>2, <1>4, <1>5, <2>1, <2>2, FS_AddElement DEF Among
  <1>6. CASE n + 1 \notin S
    <2>1. S \cap (1..n + 1) = S \cap (1..n)
      BY <1>6
    <2> QED BY <1>2, <1>4, <1>6, <2>1 DEF Among
  <1> QED BY <1>5, <1>6

\* The bytes of a run without losses, whoever was selected.
Best == PACKET_SIZE_BYTES * (MBMS_BROADCAST_USERS + Selected)

\* What a UE receives without losses.
Share(u, S) == PACKET_SIZE_BYTES * (IF u \in S THEN 2 ELSE 1)

LEMMA SumOfShares ==
    ASSUME NEW f \in [UEs -> Nat], NEW S \in SUBSET UEs, Cardinality(S) = Selected,
           \A u \in UEs : f[u] <= Share(u, S)
    PROVE  /\ SumOfBytes(f) \in Nat /\ SumOfBytes(f) <= Best
           /\ (\A u \in UEs : f[u] = Share(u, S)) => SumOfBytes(f) = Best
  <1> DEFINE N == MBMS_BROADCAST_USERS
             P == PACKET_SIZE_BYTES
             All == \A u \in UEs : f[u] = Share(u, S)
  <1>0. N \in Nat /\ P \in Nat /\ UEs = 1..N
    BY SatAssumption DEF UEs
  <1>1. PICK s : Sums(s, f, N) /\ SumOfBytes(f) = s[N]
    BY SumOfBytesIs
  <1>2. \A u \in 1..N : f[u] \in Nat /\ f[u] <= Share(u, S) /\ (All => f[u] = Share(u, S))
    BY <1>0
  <1>3. Best = P * (N + Selected)
    BY DEF Best
  <1>4. \A u : Share(u, S) = IF u \in S THEN P * 2 ELSE P * 1
    BY DEF Share
  <1> HIDE DEF N, P, All
  <1> DEFINE Right(n) == /\ s[n] \in Nat /\ s[n] <= P * (n + Among(S, n))
                         /\ All => s[n] = P * (n + Among(S, n))
             I == {n \in Nat : n <= N => Right(n)}
  <1>5. 0 \in I
    <2>1. s[0] = 0
      BY <1>1 DEF Sums
    <2>2. P * (0 + Among(S, 0)) = 0
      BY <1>0, AmongCounts
    <2> QED BY <2>1, <2>2
  <1>6. ASSUME NEW n \in Nat, n \in I PROVE n + 1 \in I
    <2> SUFFICES ASSUME n + 1 <= N PROVE Right(n + 1)
      OBVIOUS
    <2>1. n + 1 \in 1..N /\ n <= N
      BY <1>0
    <2>2. Right(n)
      BY <1>6, <2>1
    <2>3. s[n + 1] = s[n] + f[n + 1]
      <3>1. s[n + 1] = s[(n + 1) - 1] + f[n + 1]
        BY <1>1, <2>1 DEF Sums
      <3>2. (n + 1) - 1 = n
        OBVIOUS
      <3> QED BY <3>1, <3>2
    <2> DEFINE a == Among(S, n)
               b == Among(S, n + 1)
    <2>4. a \in Nat /\ b = IF n + 1 \in S THEN a + 1 ELSE a
      BY AmongCounts
    <2>5. f[n + 1] \in Nat /\ f[n + 1] <= Share(n + 1, S) /\ (All => f[n + 1] = Share(n + 1, S))
      BY <1>2, <2>1
    <2>6. s[n] \in Nat /\ s[n] <= P * (n + a) /\ (All => s[n] = P * (n + a))
      BY <2>2
    <2> HIDE DEF a, b
    <2> DEFINE x == P * (n + a)
               y == P * ((n + 1) + b)
               z == Share(n + 1, S)
    <2>7. x \in Nat /\ z \in Nat /\ y = x + z
      <3>1. CASE n + 1 \in S
        <4>1. b = a + 1 /\ z = P * 2
          BY <1>4, <2>4, <3>1
        <4>2. (n + 1) + (a + 1) = (n + a) + 2 /\ n + a \in Nat
          BY <2>4
        <4>3. \A m \in Nat : P * (m + 2) = P * m + P * 2 /\ P * m \in Nat /\ P * 2 \in Nat
          BY <1>0
        <4> QED BY <4>1, <4>2, <4>3
      <3>2. CASE n + 1 \notin S
        <4>1. b = a /\ z = P * 1
          BY <1>4, <2>4, <3>2
        <4>2. (n + 1) + a = (n + a) + 1 /\ n + a \in Nat
          BY <2>4
        <4>3. \A m \in Nat : P * (m + 1) = P * m + P * 1 /\ P * m \in Nat /\ P * 1 \in Nat
          BY <1>0
        <4> QED BY <4>1, <4>2, <4>3
      <3> QED BY <3>1, <3>2
    <2>8. s[n] <= x /\ (All => s[n] = x) /\ f[n + 1] <= z /\ (All => f[n + 1] = z)
      BY <2>5, <2>6
    <2>9. f[n + 1] \in Nat /\ s[n] \in Nat
      BY <2>5, <2>6
    <2> HIDE DEF x, y, z
    <2>10. s[n + 1] \in Nat /\ s[n + 1] <= y /\ (All => s[n + 1] = y)
      BY ONLY <2>3, <2>7, <2>8, <2>9
    <2> QED BY <2>10 DEF y, b
  <1>7. Right(N)
    <2>1. Nat \subseteq I
      <3> HIDE DEF I
      <3> QED BY <1>5, <1>6, Induction
    <2> QED BY <1>0, <2>1
  <1>8. Among(S, N) = Selected
    <2>1. S \cap (1..N) = S
      BY <1>0
    <2> QED BY <2>1 DEF Among
  <1> QED BY <1>1, <1>3, <1>7, <1>8 DEF All
-----------------------------------------------------------------------------
(***************************************************************************)
(* What the proofs need of the types, and that no multicast of the run is  *)
(* delivered before its loop: with ReceivedOnce this says how many packets *)
(* a UE can have where, none before the broadcast loop has come to it and  *)
(* at most one before the multicast loop has.                              *)
(***************************************************************************)
TypeInv ==
    /\ run \in 0..SIMULATION_RUNS
    /\ step \in Steps
    /\ i \in UEs
    /\ registered \subseteq UEs
    /\ mbms_sessions \subseteq 1..SIMULATION_RUNS
    /\ received_packets \in [UEs -> 0..2]
    /\ total_bytes \in [UEs -> Nat]
    /\ remaining \subseteq selected_ues
    /\ selected_ues \subseteq UEs
    /\ step # "start" => run # 0

PacketInv ==
    step \notin {"multicast", "start"} => \A u \in UEs : <<"multicast", u>> \notin delivered

IndInv == TypeInv /\ CoreAgreesWithUes /\ ReceivedOnce /\ PacketInv

(***************************************************************************)
(* Whatever comes out of the link, a UE counts it and its bytes once when  *)
(* it is the first of its service, and the others count nothing.           *)
(***************************************************************************)
Counted ==
    \A u \in UEs : /\ received_packets[u] = Count("broadcast", u) + Count("multicast", u)
                   /\ total_bytes[u] = PACKET_SIZE_BYTES * received_packets[u]

LEMMA ReceiveCounts ==
    ASSUME TypeInv, Counted, NEW u \in UEs, NEW msg, Receive(u, msg),
           step \in {"broadcast", "multicast"}, <<step, u>> \notin delivered
    PROVE  /\ received_packets' \in [UEs -> 0..2]
           /\ total_bytes' \in [UEs -> Nat]
           /\ Counted'
           /\ delivered' \subseteq delivered \cup {<<step, u>>}
  <1>1. CASE msg = Empty
    BY <1>1 DEF Receive, packetVars, TypeInv, Counted, Count
  <1>2. CASE msg # Empty
    <2>1. /\ received_packets' = [received_packets EXCEPT ![u] = @ + 1]
          /\ total_bytes' = [total_bytes EXCEPT ![u] = @ + PACKET_SIZE_BYTES]
          /\ delivered' = delivered \cup {<<step, u>>}
      BY <1>2 DEF Receive
    <2>2. received_packets[u] \in 0..1 /\ PACKET_SIZE_BYTES \in Nat
      <3>1. received_packets[u] = Count("broadcast", u) + Count("multicast", u)
        BY DEF Counted
      <3>2. /\ Count("broadcast", u) \in 0..1 /\ Count("multicast", u) \in 0..1
            /\ Count("broadcast", u) = 0 \/ Count("multicast", u) = 0
        BY DEF Count
      <3> QED BY <3>1, <3>2, SatAssumption
    <2>3. PACKET_SIZE_BYTES * (received_packets[u] + 1)
            = PACKET_SIZE_BYTES * received_packets[u] + PACKET_SIZE_BYTES
      BY <2>2
    <2>4. /\ received_packets' \in [UEs -> 0..2]
          /\ total_bytes' \in [UEs -> Nat]
      BY <2>1, <2>2 DEF TypeInv
    <2>5. ASSUME NEW v \in UEs
          PROVE  total_bytes'[v] = PACKET_SIZE_BYTES * received_packets'[v]
      BY <2>1, <2>3 DEF TypeInv, Counted
    <2>6. ASSUME NEW v \in UEs
          PROVE  received_packets'[v] = Count("broadcast", v)' + Count("multicast", v)'
      <3>1. CASE v = u
        <4>1. received_packets'[v] = Count("broadcast", v) + Count("multicast", v) + 1
          BY <2>1, <3>1 DEF TypeInv, Counted
        <4>2. CASE step = "broadcast"
          <5>1. Count("broadcast", v) = 0 /\ Count("broadcast", v)' = 1
            BY <2>1, <3>1, <4>2 DEF Count
          <5>2. Count("multicast", v)' = Count("multicast", v) /\ Count("multicast", v) \in 0..1
            BY <2>1, <3>1, <4>2 DEF Count
          <5> QED BY <4>1, <5>1, <5>2
        <4>3. CASE step = "multicast"
          <5>1. Count("multicast", v) = 0 /\ Count("multicast", v)' = 1
            BY <2>1, <3>1, <4>3 DEF Count
          <5>2. Count("broadcast", v)' = Count("broadcast", v) /\ Count("broadcast", v) \in 0..1
            BY <2>1, <3>1, <4>3 DEF Count
          <5> QED BY <4>1, <5>1, <5>2
        <4> QED BY <4>2, <4>3
      <3>2. CASE v # u
        <4>1. received_packets'[v] = received_packets[v]
          BY <2>1, <3>2 DEF TypeInv
        <4>2. \A t : <<t, v>> \in delivered' <=> <<t, v>> \in delivered
          BY <2>1, <3>2
        <4> QED BY <4>1, <4>2 DEF Counted, Count
      <3> QED BY <3>1, <3>2
    <2> QED BY <2>1, <2>4, <2>5, <2>6 DEF Counted
  <1> QED BY <1>1, <1>2

(***************************************************************************)
(* Every program starts in the invariant.                                  *)
(***************************************************************************)
LEMMA InitInv == Init => IndInv
  BY SatAssumption
  DEF Init, IndInv, TypeInv, Steps, UEs, CoreAgreesWithUes, ReceivedOnce, Count, PacketInv

(***************************************************************************)
(* Every step of the script keeps the invariant.                           *)
(***************************************************************************)
LEMMA NextInv == IndInv /\ [Next]_vars => IndInv'
  <1> SUFFICES ASSUME IndInv, [Next]_vars PROVE IndInv'
    OBVIOUS
  <1> USE SatAssumption
  <1>1. CASE StartRun
    <2>1. TypeInv'
      BY <1>1 DEF StartRun, IndInv, TypeInv, Steps, UEs
    <2>2. CoreAgreesWithUes' /\ ReceivedOnce' /\ PacketInv'
      BY <1>1 DEF StartRun, IndInv, TypeInv, CoreAgreesWithUes, ReceivedOnce, Count, PacketInv
    <2> QED BY <2>1, <2>2 DEF IndInv
  <1>2. CASE Register
    <2>1. i' \in UEs /\ step' \in {"register", "session"} /\ step = "register"
      BY <1>2 DEF Register, LoopTo, IndInv, TypeInv, UEs
    <2>2. registered' \in {registered, registered \cup {i}} /\ registered_ues' = registered'
      BY <1>2 DEF Register, IndInv, CoreAgreesWithUes
    <2>3. UNCHANGED <<run, selected_ues, remaining, session_active, mbms_sessions,
                      received_packets, total_bytes, delivered>>
      BY <1>2 DEF Register, packetVars
    <2>4. TypeInv' /\ CoreAgreesWithUes'
      BY <2>1, <2>2, <2>3 DEF IndInv, TypeInv, CoreAgreesWithUes, Steps
    <2>5. ReceivedOnce' /\ PacketInv'
      BY <2>1, <2>3 DEF IndInv, ReceivedOnce, Count, PacketInv
    <2> QED BY <2>4, <2>5 DEF IndInv
  <1>3. CASE SetupSession
    <2>1. /\ step = "session" /\ step' = "broadcast"
          /\ UNCHANGED <<run, i, selected_ues, remaining, registered, registered_ues,
                         received_packets, total_bytes, delivered>>
      BY <1>3 DEF SetupSession, packetVars
    <2>2. \/ UNCHANGED <<session_active, mbms_sessions>>
          \/ session_active' = UEs /\ mbms_sessions' = mbms_sessions \cup {run}
      BY <1>3 DEF SetupSession
    <2>3. TypeInv' /\ CoreAgreesWithUes'
      <3>1. run \in 1..SIMULATION_RUNS
        BY <2>1 DEF IndInv, TypeInv
      <3>2. TypeInv'
        BY <2>1, <2>2, <3>1 DEF IndInv, TypeInv, Steps
      <3>3. CoreAgreesWithUes'
        BY <2>1, <2>2 DEF IndInv, CoreAgreesWithUes
      <3> QED BY <3>2, <3>3
    <2>4. ReceivedOnce' /\ PacketInv'
      BY <2>1 DEF IndInv, ReceivedOnce, Count, PacketInv
    <2> QED BY <2>3, <2>4 DEF IndInv
  <1>4. CASE Broadcast
    <2>0. /\ step = "broadcast" /\ i \in UEs
          /\ UNCHANGED <<run, selected_ues, remaining, registered, session_active,
                         registered_ues, mbms_sessions>>
      BY <1>4 DEF Broadcast, linkVars, IndInv, TypeInv
    <2>1. PICK msg \in simulate_gateway_transmit("MBMS_DATA") : Receive(i, msg)
      BY <1>4 DEF Broadcast
    <2>2. Counted /\ <<step, i>> \notin delivered
      <3>1. Counted
        BY DEF IndInv, ReceivedOnce, Counted
      <3>2. <<"broadcast", i>> \in delivered => i < i
        BY <2>0 DEF IndInv, ReceivedOnce
      <3>3. ~(i < i)
        BY <2>0 DEF UEs
      <3> QED BY <2>0, <3>1, <3>2, <3>3
    <2>3. /\ received_packets' \in [UEs -> 0..2]
          /\ total_bytes' \in [UEs -> Nat]
          /\ Counted'
          /\ delivered' \subseteq delivered \cup {<<"broadcast", i>>}
      BY <2>0, <2>1, <2>2, ReceiveCounts DEF IndInv
    <2>4. /\ i' \in UEs
          /\ \/ step' = "select"
             \/ step' = "broadcast" /\ i' = i + 1
      BY <1>4 DEF Broadcast, LoopTo, IndInv, TypeInv, UEs
    <2>5. TypeInv' /\ CoreAgreesWithUes'
      BY <2>0, <2>3, <2>4 DEF IndInv, TypeInv, CoreAgreesWithUes, Steps
    <2>6. \A v \in UEs : <<"multicast", v>> \notin delivered'
      BY <2>0, <2>3 DEF IndInv, PacketInv
    <2>7. \A v \in UEs : <<"broadcast", v>> \in delivered' => v < i \/ v = i
      BY <2>0, <2>3 DEF IndInv, ReceivedOnce
    <2>8. ReceivedOnce'
      <3>1. \A v \in UEs : <<"broadcast", v>> \in delivered'
                           => (step' = "broadcast" => v < i')
        BY <2>0, <2>4, <2>7 DEF UEs
      <3> QED BY <2>3, <2>4, <2>6, <3>1 DEF ReceivedOnce, Counted
    <2> QED BY <2>5, <2>6, <2>8 DEF IndInv, PacketInv
  <1>5. CASE Select
    <2>1. /\ step = "select" /\ step' = "multicast"
          /\ selected_ues' \subseteq UEs /\ remaining' = selected_ues'
          /\ UNCHANGED <<run, i, registered, session_active, registered_ues,
                         mbms_sessions, received_packets, total_bytes, delivered>>
      BY <1>5 DEF Select, linkVars, packetVars
    <2>2. TypeInv' /\ CoreAgreesWithUes'
      BY <2>1 DEF IndInv, TypeInv, CoreAgreesWithUes, Steps
    <2>3. ReceivedOnce' /\ PacketInv'
      BY <2>1 DEF IndInv, ReceivedOnce, Count, PacketInv
    <2> QED BY <2>2, <2>3 DEF IndInv
  <1>6. CASE Multicast
    <2>0. /\ step = "multicast"
          /\ UNCHANGED <<run, step, i, selected_ues, registered, session_active,
                         registered_ues, mbms_sessions>>
      BY <1>6 DEF Multicast, linkVars
    <2>1. PICK u \in remaining, msg \in simulate_gateway_transmit("MBMS_DATA") :
              Receive(u, msg) /\ remaining' = remaining \ {u}
      BY <1>6 DEF Multicast
    <2>2. u \in UEs /\ u \in selected_ues /\ Counted /\ <<step, u>> \notin delivered
      BY <2>0, <2>1 DEF IndInv, TypeInv, ReceivedOnce, Counted
    <2>3. /\ received_packets' \in [UEs -> 0..2]
          /\ total_bytes' \in [UEs -> Nat]
          /\ Counted'
          /\ delivered' \subseteq delivered \cup {<<"multicast", u>>}
      BY <2>0, <2>1, <2>2, ReceiveCounts DEF IndInv
    <2>4. TypeInv' /\ CoreAgreesWithUes'
      BY <2>0, <2>1, <2>3 DEF IndInv, TypeInv, CoreAgreesWithUes
    <2>5. \A v \in UEs : <<"multicast", v>> \in delivered' => v \in selected_ues' \ remaining'
      BY <2>0, <2>1, <2>2, <2>3 DEF IndInv, ReceivedOnce
    <2>6. ReceivedOnce' /\ PacketInv'
      BY <2>0, <2>3, <2>5 DEF ReceivedOnce, Counted, PacketInv
    <2> QED BY <2>4, <2>6 DEF IndInv
  <1>7. CASE Metrics
    <2>1. /\ step = "multicast" /\ step' = "start"
          /\ UNCHANGED <<run, i, selected_ues, remaining, registered, session_active,
                         registered_ues, mbms_sessions, received_packets, total_bytes,
                         delivered>>
      BY <1>7 DEF Metrics, linkVars, packetVars
    <2> QED BY <2>1 DEF IndInv, TypeInv, CoreAgreesWithUes, ReceivedOnce, Count, PacketInv, Steps
  <1>8. CASE UNCHANGED vars
    <2>1. UNCHANGED <<run, step, i, selected_ues, remaining, registered, session_active,
                      registered_ues, mbms_sessions, received_packets, total_bytes,
                      delivered>>
      BY <1>8 DEF vars, controlVars, linkVars, packetVars
    <2> QED BY <2>1 DEF IndInv, TypeInv, CoreAgreesWithUes, ReceivedOnce, Count, PacketInv
  <1> QED BY <1>1, <1>2, <1>3, <1>4, <1>5, <1>6, <1>7, <1>8 DEF Next

-----------------------------------------------------------------------------
(***************************************************************************)
(* What the comparison of the runs needs: no run has delivered more than a *)
(* lossless one would, and in the last run, which is lossless, the loops   *)
(* leave nobody behind them without what was sent.                         *)
(***************************************************************************)
RunsBounded ==
    /\ throughputs \in [1..SIMULATION_RUNS -> Nat]
    /\ \A r \in 1..SIMULATION_RUNS : throughputs[r] <= Best
    /\ step = "multicast" => Cardinality(selected_ues) = Selected

LastLossless ==
    run = SIMULATION_RUNS =>
        /\ step = "register" => \A u \in UEs : u < i => u \in registered
        /\ step # "register" => registered = UEs
        /\ step = "session" => i = 1
        /\ step \notin {"register", "session"} => session_active = UEs
        /\ step = "broadcast" => \A u \in UEs : u < i => received_packets[u] = 1
        /\ step = "select" => \A u \in UEs : received_packets[u] = 1
        /\ step \in {"multicast", "start"} =>
              \A u \in UEs :
                  received_packets[u] = IF u \in selected_ues \ remaining THEN 2 ELSE 1
        /\ step = "start" => /\ remaining = {}
                             /\ throughputs[SIMULATION_RUNS] = Best

\* In the last run everything comes out of the link.
LEMMA LastTransmits ==
    ASSUME run = SIMULATION_RUNS
    PROVE  \A msg : \A out \in simulate_gateway_transmit(msg) : out = msg
  BY DEF simulate_gateway_transmit

LEMMA LastReceives ==
    ASSUME run = SIMULATION_RUNS, TypeInv, NEW u \in UEs,
           NEW msg \in simulate_gateway_transmit("MBMS_DATA"), Receive(u, msg)
    PROVE  received_packets' = [received_packets EXCEPT ![u] = @ + 1]
  <1>1. msg = "MBMS_DATA"
    BY LastTransmits
  <1>2. msg # Empty
    BY <1>1 DEF Empty
  <1> QED BY <1>2 DEF Receive

LEMMA InitRuns == Init => RunsBounded /\ LastLossless
  <1> SUFFICES ASSUME Init PROVE RunsBounded /\ LastLossless
    OBVIOUS
  <1>1. Best \in Nat
    BY SatAssumption DEF Best, Selected
  <1>2. RunsBounded
    BY <1>1 DEF Init, RunsBounded
  <1>3. LastLossless
    BY SatAssumption DEF Init, LastLossless
  <1> QED BY <1>2, <1>3

LEMMA NextRuns ==
    ASSUME IndInv, RunsBounded, LastLossless, [Next]_vars
    PROVE  RunsBounded' /\ LastLossless'
  <1> USE SatAssumption
  <1>0. /\ run \in 0..SIMULATION_RUNS /\ i \in UEs /\ (step # "start" => run # 0)
        /\ received_packets \in [UEs -> 0..2] /\ total_bytes \in [UEs -> Nat]
        /\ selected_ues \subseteq UEs /\ remaining \subseteq selected_ues
        /\ UEs = 1..MBMS_BROADCAST_USERS
    BY DEF IndInv, TypeInv, UEs
  <1>1. CASE StartRun
    <2>1. step' = "register" /\ i' = 1 /\ throughputs' = throughputs
      BY <1>1 DEF StartRun
    <2>2. RunsBounded'
      BY <2>1 DEF RunsBounded, Best, Selected
    <2>3. LastLossless'
      BY <2>1, <1>0 DEF LastLossless, UEs
    <2> QED BY <2>2, <2>3
  <1>2. CASE Register
    <2>1. step = "register" /\ throughputs' = throughputs /\ run' = run
      BY <1>2 DEF Register
    <2>2. \/ i = MBMS_BROADCAST_USERS /\ i' = 1 /\ step' = "session"
          \/ i # MBMS_BROADCAST_USERS /\ i' = i + 1 /\ step' = "register"
      BY <1>2, <2>1 DEF Register, LoopTo
    <2>3. RunsBounded'
      BY <2>1, <2>2 DEF RunsBounded, Best, Selected
    <2>4. ASSUME run = SIMULATION_RUNS PROVE registered' = registered \cup {i}
      <3>1. PICK response \in Response("REGISTRATION_REQUEST") :
              response # Empty => registered' = registered \cup {i}
        BY <1>2 DEF Register
      <3>2. response = "REGISTRATION_ACCEPT"
        BY <2>4, <3>1, LastTransmits DEF Response, simulate_core_processing
      <3> QED BY <3>1, <3>2 DEF Empty
    <2>5. ASSUME run = SIMULATION_RUNS, NEW u \in UEs, u < i PROVE u \in registered
      BY <2>1, <2>5 DEF LastLossless
    <2>6. registered \subseteq UEs
      BY DEF IndInv, TypeInv
    <2>7. ASSUME run = SIMULATION_RUNS, i = MBMS_BROADCAST_USERS PROVE registered' = UEs
      <3>1. \A u \in UEs : u < i \/ u = i
        BY <1>0, <2>7
      <3> QED BY <1>0, <2>4, <2>5, <2>6, <2>7, <3>1
    <2>8. ASSUME run = SIMULATION_RUNS, i' = i + 1, NEW u \in UEs, u < i'
          PROVE  u \in registered'
      <3>1. u < i \/ u = i
        BY <1>0, <2>8
      <3> QED BY <2>4, <2>5, <2>8, <3>1
    <2>9. LastLossless'
      BY <2>1, <2>2, <2>7, <2>8 DEF LastLossless, UEs
    <2> QED BY <2>3, <2>9
  <1>3. CASE SetupSession
    <2>1. /\ step = "session" /\ step' = "broadcast"
          /\ UNCHANGED <<run, i, registered, throughputs>>
      BY <1>3 DEF SetupSession
    <2>2. RunsBounded'
      BY <2>1 DEF RunsBounded, Best, Selected
    <2>3. ASSUME run = SIMULATION_RUNS PROVE session_active' = UEs
      <3>1. PICK response \in Response("SESSION_REQUEST") :
              response # Empty => session_active' = UEs
        BY <1>3 DEF SetupSession
      <3>2. response = "SESSION_ACCEPT"
        BY <2>3, <3>1, LastTransmits DEF Response, simulate_core_processing
      <3> QED BY <3>1, <3>2 DEF Empty
    <2>4. ASSUME run = SIMULATION_RUNS, NEW u \in UEs PROVE ~(u < i')
      <3>1. i = 1
        BY <2>1, <2>4 DEF LastLossless
      <3> QED BY <1>0, <2>1, <3>1
    <2>6. LastLossless'
      BY <2>1, <2>3, <2>4 DEF LastLossless, UEs
    <2> QED BY <2>2, <2>6
  <1>4. CASE Broadcast
    <2>1. /\ step = "broadcast" /\ throughputs' = throughputs /\ run' = run
          /\ registered' = registered /\ session_active' = session_active
      BY <1>4 DEF Broadcast, linkVars
    <2>2. \/ i = MBMS_BROADCAST_USERS /\ i' = 1 /\ step' = "select"
          \/ i # MBMS_BROADCAST_USERS /\ i' = i + 1 /\ step' = "broadcast"
      BY <1>4, <2>1 DEF Broadcast, LoopTo
    <2>3. RunsBounded'
      BY <2>1, <2>2 DEF RunsBounded, Best, Selected
    <2>4. PICK msg \in simulate_gateway_transmit("MBMS_DATA") : Receive(i, msg)
      BY <1>4 DEF Broadcast
    <2>5. received_packets[i] = 0
      <3>1. received_packets[i] = Count("broadcast", i) + Count("multicast", i)
        BY <1>0 DEF IndInv, ReceivedOnce
      <3>2. <<"broadcast", i>> \in delivered => i < i
        BY <1>0, <2>1 DEF IndInv, ReceivedOnce
      <3>3. <<"multicast", i>> \notin delivered
        BY <1>0, <2>1 DEF IndInv, PacketInv
      <3>4. ~(i < i)
        BY <1>0
      <3>5. Count("broadcast", i) = 0 /\ Count("multicast", i) = 0
        BY <3>2, <3>3, <3>4 DEF Count
      <3> QED BY <3>1, <3>5
    <2>6. ASSUME run = SIMULATION_RUNS
          PROVE  received_packets' = [received_packets EXCEPT ![i] = 1]
      BY <1>0, <2>4, <2>5, <2>6, LastReceives DEF IndInv
    <2>7. ASSUME run = SIMULATION_RUNS, NEW u \in UEs, u < i \/ u = i
          PROVE  received_packets'[u] = 1
      <3>1. CASE u = i
        BY <1>0, <2>6, <2>7, <3>1
      <3>2. CASE u # i
        <4>1. received_packets[u] = 1
          BY <2>1, <2>7, <3>2 DEF LastLossless
        <4> QED BY <1>0, <2>6, <2>7, <3>2, <4>1
      <3> QED BY <3>1, <3>2
    <2>8. ASSUME run = SIMULATION_RUNS, i = MBMS_BROADCAST_USERS, NEW u \in UEs
          PROVE  received_packets'[u] = 1
      BY <1>0, <2>7, <2>8
    <2>9. ASSUME run = SIMULATION_RUNS, i' = i + 1, NEW u \in UEs, u < i'
          PROVE  received_packets'[u] = 1
      BY <1>0, <2>7, <2>9
    <2>10. run = SIMULATION_RUNS => registered = UEs /\ session_active = UEs
      BY <2>1 DEF LastLossless
    <2>11. LastLossless'
      BY <2>1, <2>2, <2>8, <2>9, <2>10 DEF LastLossless, UEs
    <2> QED BY <2>3, <2>11
  <1>5. CASE Select
    <2>1. /\ step = "select" /\ step' = "multicast"
          /\ Cardinality(selected_ues') = Selected /\ remaining' = selected_ues'
          /\ UNCHANGED <<run, registered, session_active, received_packets, throughputs>>
      BY <1>5 DEF Select, linkVars, packetVars
    <2>2. RunsBounded'
      BY <2>1 DEF RunsBounded, Best, Selected
    <2>3. LastLossless'
      BY <2>1 DEF LastLossless, UEs
    <2> QED BY <2>2, <2>3
  <1>6. CASE Multicast
    <2>1. /\ step = "multicast" /\ step' = "multicast"
          /\ UNCHANGED <<run, selected_ues, registered, session_active, throughputs>>
      BY <1>6 DEF Multicast, linkVars
    <2>2. RunsBounded'
      BY <2>1 DEF RunsBounded, Best, Selected
    <2>3. PICK u \in remaining, msg \in simulate_gateway_transmit("MBMS_DATA") :
              Receive(u, msg) /\ remaining' = remaining \ {u}
      BY <1>6 DEF Multicast
    <2>4. u \in UEs /\ u \in selected_ues
      BY <1>0, <2>3
    <2>5. ASSUME run = SIMULATION_RUNS, NEW v \in UEs
          PROVE  received_packets'[v] = IF v \in selected_ues' \ remaining' THEN 2 ELSE 1
      <3>1. received_packets' = [received_packets EXCEPT ![u] = @ + 1]
        BY <2>3, <2>4, <2>5, LastReceives DEF IndInv
      <3>2. \A w \in UEs :
              received_packets[w] = IF w \in selected_ues \ remaining THEN 2 ELSE 1
        BY <2>1, <2>5 DEF LastLossless
      <3>3. CASE v = u
        BY <1>0, <2>1, <2>3, <2>4, <3>1, <3>2, <3>3
      <3>4. CASE v # u
        BY <1>0, <2>1, <2>3, <2>4, <3>1, <3>2, <3>4
      <3> QED BY <3>3, <3>4
    <2>6. LastLossless'
      BY <2>1, <2>5 DEF LastLossless, UEs
    <2> QED BY <2>2, <2>6
  <1>7. CASE Metrics
    <2>1. /\ step = "multicast" /\ step' = "start" /\ remaining = {}
          /\ throughputs' = [throughputs EXCEPT ![run] = SumOfBytes(total_bytes)]
          /\ UNCHANGED <<run, selected_ues, remaining, registered, session_active,
                         received_packets>>
      BY <1>7 DEF Metrics, linkVars, packetVars
    <2>2. Cardinality(selected_ues) = Selected /\ run \in 1..SIMULATION_RUNS
      BY <1>0, <2>1 DEF RunsBounded
    <2>3. ASSUME NEW u \in UEs
          PROVE  /\ received_packets[u] \in 0..2
                 /\ total_bytes[u] = PACKET_SIZE_BYTES * received_packets[u]
                 /\ received_packets[u] <= IF u \in selected_ues THEN 2 ELSE 1
      <3>1. /\ received_packets[u] = Count("broadcast", u) + Count("multicast", u)
            /\ total_bytes[u] = PACKET_SIZE_BYTES * received_packets[u]
            /\ <<"multicast", u>> \in delivered => u \in selected_ues
        BY DEF IndInv, ReceivedOnce
      <3>2. /\ Count("broadcast", u) \in 0..1 /\ Count("multicast", u) \in 0..1
            /\ u \notin selected_ues => Count("multicast", u) = 0
        BY <3>1 DEF Count
      <3> QED BY <1>0, <3>1, <3>2
    <2>4. ASSUME NEW u \in UEs PROVE total_bytes[u] <= Share(u, selected_ues)
      <3> DEFINE a == received_packets[u]
                 b == IF u \in selected_ues THEN 2 ELSE 1
      <3>1. a \in 0..2 /\ b \in 1..2 /\ a <= b
        BY <2>3
      <3>2. total_bytes[u] = PACKET_SIZE_BYTES * a /\ Share(u, selected_ues) = PACKET_SIZE_BYTES * b
        BY <2>3 DEF Share
      <3> HIDE DEF a, b
      <3>3. PACKET_SIZE_BYTES * a <= PACKET_SIZE_BYTES * b
        <4>1. a \in {0, 1, 2} /\ b \in {1, 2}
          BY <3>1
        <4> QED BY <3>1, <4>1
      <3> QED BY <3>2, <3>3
    <2>5. /\ SumOfBytes(total_bytes) \in Nat /\ SumOfBytes(total_bytes) <= Best
          /\ (\A u \in UEs : total_bytes[u] = Share(u, selected_ues))
               => SumOfBytes(total_bytes) = Best
      BY <1>0, <2>2, <2>4, SumOfShares
    <2>6. RunsBounded'
      BY <2>1, <2>2, <2>5 DEF RunsBounded, Best, Selected
    <2>7. ASSUME run = SIMULATION_RUNS PROVE throughputs'[SIMULATION_RUNS] = Best
      <3>1. \A u \in UEs : received_packets[u] = IF u \in selected_ues THEN 2 ELSE 1
        BY <2>1, <2>7 DEF LastLossless
      <3>2. \A u \in UEs : total_bytes[u] = Share(u, selected_ues)
        BY <2>3, <3>1 DEF Share
      <3> QED BY <2>1, <2>2, <2>5, <2>7, <3>2 DEF RunsBounded
    <2>8. LastLossless'
      BY <2>1, <2>7 DEF LastLossless, UEs, Best, Selected
    <2> QED BY <2>6, <2>8
  <1>8. CASE UNCHANGED vars
    <2>1. UNCHANGED <<run, step, i, selected_ues, remaining, registered, session_active,
                      received_packets, throughputs>>
      BY <1>8 DEF vars, controlVars, linkVars, packetVars
    <2> QED BY <2>1 DEF RunsBounded, LastLossless, UEs, Best, Selected
  <1> QED BY <1>1, <1>2, <1>3, <1>4, <1>5, <1>6, <1>7, <1>8 DEF Next

-----------------------------------------------------------------------------
(***************************************************************************)
(* The inductive invariant holds in every run of the script.               *)
(***************************************************************************)
THEOREM Invariance == Spec => []IndInv
  BY InitInv, NextInv, PTL DEF Spec

(***************************************************************************)
(* The core and the UEs agree on registration and session, whatever the    *)
(* link loses and in however many runs.                                    *)
(***************************************************************************)
THEOREM CoreAgreement == Spec => []CoreAgreesWithUes
  <1>1. IndInv => CoreAgreesWithUes
    BY DEF IndInv
  <1> QED BY <1>1, Invariance, PTL

(***************************************************************************)
(* A UE counts the broadcast and the multicast of a run once each if they  *)
(* came through to it, and the multicast only if it was selected.          *)
(***************************************************************************)
THEOREM ReceptionOnce == Spec => []ReceivedOnce
  <1>1. IndInv => ReceivedOnce
    BY DEF IndInv
  <1> QED BY <1>1, Invariance, PTL

(***************************************************************************)
(* The run with full compensation loses nothing and no run delivers more,  *)
(* although the runs select different UEs for the multicast.               *)
(***************************************************************************)
THEOREM CompensationBest == Spec => []FullCompensationBest
  <1>1. Init => RunsBounded /\ LastLossless
    BY InitRuns
  <1>2. IndInv /\ (RunsBounded /\ LastLossless) /\ [Next]_vars
          => (RunsBounded /\ LastLossless)'
    BY NextRuns
  <1>3. RunsBounded /\ LastLossless /\ IndInv => FullCompensationBest
    BY SatAssumption DEF RunsBounded, LastLossless, FullCompensationBest
  <1> QED BY <1>1, <1>2, <1>3, Invariance, PTL DEF Spec
=============================================================================
