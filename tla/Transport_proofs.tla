--------------------------- MODULE Transport_proofs ---------------------------
(***************************************************************************)
(* Proofs about Transport, for every RekeyLimit of either end, every       *)
(* amount of data, and every width of the counters that leaves them room.  *)
(*                                                                         *)
(*  - NonceOnce, from an invariant of one end: the numbers sealed under    *)
(*    its key are the last packetsOut ones.                                *)
(*  - NeverDisconnected, OnlyKexBetween and StreamIntact, from an          *)
(*    invariant of the connection: the packets on a wire lead, one fitting *)
(*    after the other, from the view its reader has of the stream to the   *)
(*    view its writer has.  With that every packet an end reads is one its *)
(*    handlers expect, under the key and number it expects.                *)
(***************************************************************************)
EXTENDS Transport, WellFoundedInduction, TLAPS

-----------------------------------------------------------------------------
(***************************************************************************)
(* Records.  An end has these fields, whatever is in them; Same(s, d, S)   *)
(* says that a step from s to d changes no field but those of S.           *)
(***************************************************************************)
Fields ==
    {"name", "offer", "phase", "err", "out", "rekeying", "outgoing",
     "after_authentication", "keyOut", "keyIn", "seqOut", "seqIn", "packetsOut",
     "packetsIn", "expired", "done", "initial", "init_sent", "strict", "my",
     "peer", "newOut", "newIn", "handlers", "sent", "got", "nonces", "reused",
     "data", "manual"}

Shape(s) == s = [f \in Fields |-> s[f]]

IsSeq(q) == \E S : q \in Seq(S)

Same(s, d, S) == Shape(d) /\ \A f \in Fields \ S : d[f] = s[f]

\* A new end has all its fields.
LEMMA FreshShape ==
    ASSUME NEW e, NEW offer
    PROVE  Shape(Fresh(e, offer))
  BY DEF Fresh, Shape, Fields

-----------------------------------------------------------------------------
(***************************************************************************)
(* Nonces, for every limit and every width of the counters.  While an end  *)
(* is alive, the numbers its key has sealed lie among the packetsOut ones  *)
(* before seqOut, and packetsOut < Wrap: so seqOut is not one of them.     *)
(***************************************************************************)
Since(s, n) == IF n < s.seqOut THEN s.seqOut - n ELSE s.seqOut + Wrap - n

Unused(s) ==
    \A n \in s.nonces : n \in 0 .. Wrap - 1 /\ Since(s, n) <= s.packetsOut

Safe(s) ==
    /\ Shape(s)
    /\ s.seqOut \in 0 .. Wrap - 1 /\ s.packetsOut \in 0 .. Wrap - 1
    /\ s.reused = FALSE
    /\ IsSeq(s.outgoing)
    /\ Alive(s) => Unused(s)

\* The fields Safe speaks of.
Core == {"seqOut", "packetsOut", "nonces", "reused", "outgoing", "err"}

\* A step that seals nothing keeps nonces safe.
LEMMA SafeUnsealed ==
    ASSUME NEW s, NEW d, Safe(s), Shape(d),
           d.seqOut = s.seqOut, d.packetsOut = s.packetsOut,
           d.nonces = s.nonces, d.reused = s.reused, IsSeq(d.outgoing),
           Alive(d) => Alive(s)
    PROVE  Safe(d)
  BY DEF Safe, Unused, Since

\* A step that leaves the fields of Core alone keeps nonces safe.
LEMMA SafeKept ==
    ASSUME NEW s, NEW d, Safe(s), Shape(d), \A f \in Core : d[f] = s[f]
    PROVE  Safe(d) /\ (Alive(d) <=> Alive(s))
  <1>1. /\ d.seqOut = s.seqOut /\ d.packetsOut = s.packetsOut /\ d.nonces = s.nonces
        /\ d.reused = s.reused /\ d.err = s.err /\ d.outgoing = s.outgoing
    BY DEF Core
  <1> QED BY <1>1, SafeUnsealed DEF Safe, Alive

\* Neither does an end that fails harm them.
LEMMA SafeFail ==
    ASSUME NEW s, Safe(s), NEW why
    PROVE  Safe(Fail(s, why)) \/ (~Alive(s) /\ why \notin Fatal)
  <1> DEFINE d == Fail(s, why)
  <1>1. /\ Shape(d) /\ d.seqOut = s.seqOut /\ d.packetsOut = s.packetsOut
        /\ d.nonces = s.nonces /\ d.reused = s.reused /\ d.err = why
        /\ IsSeq(d.outgoing)
    BY DEF Fail, Safe, Shape, Fields
  <1> HIDE DEF d
  <1>2. Alive(d) <=> why \notin Fatal
    BY <1>1 DEF Alive
  <1>3. CASE Alive(d) => Alive(s)
    BY <1>1, <1>3, SafeUnsealed DEF d
  <1> QED BY <1>2, <1>3

\* The counters stay below Wrap.
LEMMA NextNumber ==
    ASSUME NEW k \in 0 .. Wrap - 1
    PROVE  /\ (k + 1) % Wrap \in 0 .. Wrap - 1
           /\ (k + 1) % Wrap = IF k + 1 = Wrap THEN 0 ELSE k + 1
  <1> Wrap \in Nat \ {0}
    BY TransportAssumption
  <1>1. CASE k + 1 = Wrap
    BY <1>1
  <1>2. CASE k + 1 # Wrap
    BY <1>2
  <1> QED BY <1>1, <1>2

\* What sealing a packet does.
LEMMA SealFields ==
    ASSUME NEW s, NEW m, Shape(s)
    PROVE  LET d == Seal(s, m)
           IN  /\ Same(s, d, {"out", "nonces", "reused", "seqOut", "packetsOut"})
               /\ d.out = Append(s.out, [type |-> m.type, n |-> m.n,
                                         key |-> s.keyOut, seq |-> s.seqOut])
               /\ d.nonces = s.nonces \cup {s.seqOut}
               /\ d.reused = (s.reused \/ (s.keyOut # NoKey /\ s.seqOut \in s.nonces))
               /\ d.seqOut = (s.seqOut + 1) % Wrap
               /\ d.packetsOut = (s.packetsOut + 1) % Wrap
  BY ZenonT(40) DEF Seal, Shape, Same, Fields

\* A packet sealed under an unused number; only a counter that wrapped is left
\* to look at.
LEMMA SealSafe ==
    ASSUME NEW s, NEW m, Safe(s), Alive(s)
    PROVE  LET d == Seal(s, m)
           IN  /\ Shape(d) /\ d.err = s.err /\ d.outgoing = s.outgoing
               /\ d.seqOut \in 0 .. Wrap - 1 /\ d.packetsOut \in 0 .. Wrap - 1
               /\ d.reused = FALSE
               /\ d.packetsOut # 0 => Unused(d)
  <1> DEFINE d == Seal(s, m)
  <1>1. /\ Same(s, d, {"out", "nonces", "reused", "seqOut", "packetsOut"})
        /\ d.nonces = s.nonces \cup {s.seqOut}
        /\ d.reused = (s.reused \/ (s.keyOut # NoKey /\ s.seqOut \in s.nonces))
        /\ d.seqOut = (s.seqOut + 1) % Wrap
        /\ d.packetsOut = (s.packetsOut + 1) % Wrap
    BY SealFields DEF Safe
  <1> HIDE DEF d
  <1>2. Wrap \in Nat \ {0} /\ s.seqOut \in 0 .. Wrap - 1 /\ s.packetsOut \in 0 .. Wrap - 1
    BY TransportAssumption DEF Safe
  <1>3. /\ d.seqOut \in 0 .. Wrap - 1 /\ d.packetsOut \in 0 .. Wrap - 1
        /\ d.seqOut = IF s.seqOut + 1 = Wrap THEN 0 ELSE s.seqOut + 1
        /\ d.packetsOut # 0 => d.packetsOut = s.packetsOut + 1
    BY <1>1, <1>2, NextNumber
  <1>4. \A n \in s.nonces : n \in 0 .. Wrap - 1 /\ Since(s, n) <= s.packetsOut
    BY DEF Safe, Unused
  <1>5. s.seqOut \notin s.nonces
    BY <1>2, <1>4 DEF Since
  <1>6. ASSUME d.packetsOut # 0, NEW n \in d.nonces
        PROVE  n \in 0 .. Wrap - 1 /\ Since(d, n) <= d.packetsOut
    <2>1. CASE n = s.seqOut
      BY <1>2, <1>3, <1>6, <2>1 DEF Since
    <2>2. CASE n \in s.nonces
      BY <1>2, <1>3, <1>4, <1>5, <1>6, <2>2 DEF Since
    <2> QED BY <1>1, <1>6, <2>1, <2>2
  <1>7. d.reused = FALSE
    BY <1>1, <1>5 DEF Safe
  <1>8. Shape(d) /\ d.err = s.err /\ d.outgoing = s.outgoing
    BY <1>1 DEF Same, Fields
  <1> QED BY <1>3, <1>6, <1>7, <1>8 DEF Unused, d

\* ssh_packet_send2_wrapped fails when the counter has wrapped.
LEMMA WrappedSafe ==
    ASSUME NEW s, NEW m, Safe(s), Alive(s)
    PROVE  LET d == ssh_packet_send2_wrapped(s, m)
           IN  Safe(d) /\ d.outgoing = s.outgoing
  <1> DEFINE t == Seal(s, m)
             u == IF m.type = "newkeys" /\ t.strict THEN [t EXCEPT !.seqOut = 0] ELSE t
             Good(d) == Safe(d) /\ d.outgoing = s.outgoing
  <1>1. /\ Shape(t) /\ t.err = s.err /\ t.outgoing = s.outgoing /\ IsSeq(s.outgoing)
        /\ t.seqOut \in 0 .. Wrap - 1 /\ t.packetsOut \in 0 .. Wrap - 1
        /\ t.reused = FALSE
        /\ t.packetsOut # 0 => Unused(t)
    BY SealSafe DEF Safe
  <1> HIDE DEF t
  <1>2. ASSUME NEW why \in Fatal PROVE Good(Fail(t, why))
    <2> DEFINE d == Fail(t, why)
    <2>1. /\ Shape(d) /\ d.seqOut = t.seqOut /\ d.packetsOut = t.packetsOut
          /\ d.reused = t.reused /\ d.err = why /\ d.outgoing = t.outgoing
      BY <1>1 DEF Fail, Shape, Fields
    <2> QED BY <1>1, <1>2, <2>1 DEF Safe, Alive
  <1>3. 0 \in 0 .. Wrap - 1
    BY TransportAssumption
  <1>4. Shape(u) /\ u.reused = FALSE /\ u.seqOut \in 0 .. Wrap - 1
        /\ u.packetsOut = t.packetsOut /\ u.outgoing = s.outgoing
    BY <1>1, <1>3 DEF Shape, Fields
  <1> HIDE DEF u
  <1>5. Good(ssh_set_newkeys_out(u))
    <2>1. CASE u.newOut = NoKey
      <3> DEFINE d == Fail(u, "nokeys")
      <3>1. /\ Shape(d) /\ d.seqOut = u.seqOut /\ d.packetsOut = u.packetsOut
            /\ d.reused = u.reused /\ d.err = "nokeys" /\ d.outgoing = u.outgoing
        BY <1>4 DEF Fail, Shape, Fields
      <3>2. Good(d)
        BY <1>1, <1>4, <3>1 DEF Safe, Alive, Fatal
      <3> QED BY <2>1, <3>2 DEF ssh_set_newkeys_out
    <2>2. CASE u.newOut # NoKey
      <3> DEFINE d == ssh_set_newkeys_out(u)
      <3>1. /\ Shape(d) /\ d.seqOut = u.seqOut /\ d.packetsOut = 0
            /\ d.reused = u.reused /\ d.nonces = {} /\ d.outgoing = u.outgoing
        BY ZenonT(40), <1>4, <2>2 DEF ssh_set_newkeys_out, Shape, Fields
      <3> QED BY <1>1, <1>3, <1>4, <3>1 DEF Safe, Unused
    <2> QED BY <2>1, <2>2
  <1>6. t.packetsOut # 0 => Good(t)
    BY <1>1 DEF Safe
  <1>7. t.packetsOut # 0 => Good([t EXCEPT !.after_authentication = TRUE])
    <2> DEFINE d == [t EXCEPT !.after_authentication = TRUE]
    <2>1. /\ Shape(d) /\ \A f \in Core : d[f] = t[f]
          /\ d.outgoing = t.outgoing
      BY <1>1 DEF Shape, Fields, Core
    <2> HIDE DEF d
    <2>2. t.packetsOut # 0 => Good(d)
      BY <1>1, <1>6, <2>1, SafeKept
    <2> QED BY <2>2 DEF d
  <1> DEFINE d == ssh_packet_send2_wrapped(s, m)
  <1>8. d = IF t.seqOut = 0 /\ t.initial THEN Fail(t, "wrapped")
            ELSE IF t.packetsOut = 0 THEN Fail(t, "needrekey")
            ELSE CASE m.type = "newkeys" -> ssh_set_newkeys_out(u)
                   [] m.type = "success" -> [t EXCEPT !.after_authentication = TRUE]
                   [] OTHER -> t
    BY DEF ssh_packet_send2_wrapped, t, u
  <1>9. Good(Fail(t, "wrapped")) /\ Good(Fail(t, "needrekey"))
    BY <1>2 DEF Fatal
  <1> HIDE DEF d, Good
  <1>10. Good(d)
    BY <1>5, <1>6, <1>7, <1>8, <1>9
  <1> QED BY <1>10 DEF d, Good

\* kex_send_kexinit keeps nonces safe.
LEMMA KexinitSafe ==
    ASSUME NEW s, Safe(s), Alive(s)
    PROVE  Safe(kex_send_kexinit(s)) /\ kex_send_kexinit(s).outgoing = s.outgoing
  <1> DEFINE t == [s EXCEPT !.done = FALSE, !.my = @ + 1, !.rekeying = TRUE]
             m == [type |-> "kexinit", n |-> <<t.my, t.offer>>]
             u == ssh_packet_send2_wrapped(t, m)
             v == [u EXCEPT !.init_sent = TRUE]
  <1>1. Shape(t) /\ \A f \in Core : t[f] = s[f]
    BY DEF Safe, Shape, Fields, Core
  <1> HIDE DEF t
  <1>2. Safe(t) /\ Alive(t) /\ t.outgoing = s.outgoing
    BY <1>1, SafeKept DEF Core
  <1>3. Safe(u) /\ u.outgoing = s.outgoing
    BY <1>1, <1>2, WrappedSafe
  <1> HIDE DEF u
  <1>4. Shape(v) /\ \A f \in Core : v[f] = u[f]
    BY <1>3 DEF Safe, Shape, Fields, Core
  <1> HIDE DEF v
  <1>5. Safe(v) /\ v.outgoing = u.outgoing
    BY <1>3, <1>4, SafeKept DEF Core
  <1>6. kex_send_kexinit(s) = IF s.init_sent THEN s ELSE IF Alive(u) THEN v ELSE u
    BY DEF kex_send_kexinit, t, u, v
  <1> QED BY <1>3, <1>4, <1>5, <1>6

\* So does kex_start_rekex.
LEMMA RekexSafe ==
    ASSUME NEW s, Safe(s), Alive(s)
    PROVE  Safe(kex_start_rekex(s)) /\ kex_start_rekex(s).outgoing = s.outgoing
  <1> DEFINE t == [s EXCEPT !.done = FALSE]
  <1>1. Shape(t) /\ \A f \in Core : t[f] = s[f]
    BY DEF Safe, Shape, Fields, Core
  <1> HIDE DEF t
  <1>2. Safe(t) /\ Alive(t) /\ t.outgoing = s.outgoing
    BY <1>1, SafeKept DEF Core
  <1>3. Safe(kex_send_kexinit(t)) /\ kex_send_kexinit(t).outgoing = s.outgoing
    BY <1>2, KexinitSafe
  <1>4. Safe(Fail(s, "twice")) /\ Fail(s, "twice").outgoing = s.outgoing
    BY SafeFail DEF Fail, Safe, Shape, Fields
  <1>5. kex_start_rekex(s) = IF ~s.done THEN Fail(s, "twice") ELSE kex_send_kexinit(t)
    BY DEF kex_start_rekex, t
  <1> QED BY <1>3, <1>4, <1>5

\* Append and Tail of a sequence are sequences.
LEMMA SeqOps ==
    ASSUME NEW q, IsSeq(q)
    PROVE  /\ Len(q) \in Nat
           /\ \A m : IsSeq(Append(q, m))
           /\ Len(q) # 0 => IsSeq(Tail(q)) /\ Len(Tail(q)) = Len(q) - 1
  <1>1. PICK S : q \in Seq(S)
    BY DEF IsSeq
  <1>2. Len(q) # 0 => Tail(q) \in Seq(S) /\ Len(Tail(q)) = Len(q) - 1
    BY <1>1
  <1>3. ASSUME NEW m PROVE IsSeq(Append(q, m))
    <2>1. q \in Seq(S \cup {m})
      BY <1>1
    <2>2. Append(q, m) \in Seq(S \cup {m})
      BY <2>1
    <2> QED BY <2>2 DEF IsSeq
  <1> QED BY <1>1, <1>2, <1>3 DEF IsSeq

\* One turn of the loop that empties the queue keeps nonces safe.
LEMMA DequeueSafe ==
    ASSUME NEW s, NEW m, Safe(s), Len(s.outgoing) # 0
    PROVE  Safe(Dequeue(s, m)) /\ Len(Dequeue(s, m).outgoing) >= Len(s.outgoing) - 1
  <1> DEFINE t == [s EXCEPT !.outgoing = Tail(@)]
             d == Dequeue(s, m)
  <1>0. Len(s.outgoing) \in Nat /\ IsSeq(Tail(s.outgoing))
        /\ Len(Tail(s.outgoing)) = Len(s.outgoing) - 1
    BY SeqOps DEF Safe
  <1>1. CASE ~Alive(s) \/ s.rekeying
    BY <1>0, <1>1 DEF Dequeue
  <1>2. CASE Alive(s) /\ ~s.rekeying /\ ssh_packet_need_rekeying(s, 1)
    <2>1. d = kex_start_rekex(s)
      BY <1>2 DEF Dequeue
    <2> HIDE DEF d
    <2> QED BY <1>0, <1>2, <2>1, RekexSafe DEF d
  <1>3. CASE Alive(s) /\ ~s.rekeying /\ ~ssh_packet_need_rekeying(s, 1)
    <2>1. d = ssh_packet_send2_wrapped(t, m)
      BY <1>3 DEF Dequeue
    <2>2. /\ Shape(t) /\ t.seqOut = s.seqOut /\ t.packetsOut = s.packetsOut
          /\ t.nonces = s.nonces /\ t.reused = s.reused /\ t.err = s.err
          /\ t.outgoing = Tail(s.outgoing)
      BY DEF Safe, Shape, Fields
    <2> HIDE DEF t
    <2>3. Safe(t) /\ Alive(t)
      BY <1>0, <1>3, <2>2, SafeUnsealed DEF Alive
    <2>4. Safe(d) /\ d.outgoing = t.outgoing
      BY <2>1, <2>3, WrappedSafe
    <2> HIDE DEF d
    <2> QED BY <1>0, <2>2, <2>4 DEF d
  <1> QED BY <1>1, <1>2, <1>3

-----------------------------------------------------------------------------
(* Induction over the natural numbers, and the turns of the loop of Flush. *)

\* Every nonempty set of naturals has a least element.
LEMMA LeastOf ==
    ASSUME NEW R, NEW T, IsWellFoundedOn(R, Nat), T \subseteq Nat, T # {},
           \A x, y \in Nat : x < y => <<x, y>> \in R
    PROVE  \E n \in T : \A m \in T : n <= m
<1>1. \E x \in T : \A y \in T : ~(<<y, x>> \in R)
  BY ONLY WFMin, IsWellFoundedOn(R, Nat), T \subseteq Nat, T # {}
<1>2. PICK x \in T : \A y \in T : ~(<<y, x>> \in R)
  BY <1>1
<1>3. \A y \in T : ~(y < x)
  BY <1>2, Zenon
<1> QED BY <1>3

\* A set that holds 0 and with n also n + 1 holds every natural.
LEMMA NatInd ==
    ASSUME NEW S, 0 \in S, \A n \in Nat : n \in S => n + 1 \in S
    PROVE  Nat \subseteq S
<1> DEFINE T == Nat \ S
<1> SUFFICES ASSUME T # {} PROVE FALSE
  OBVIOUS
<1>1. PICK n \in T : \A m \in T : n <= m
  <2>1. \A x, y \in Nat : x < y => <<x, y>> \in OpToRel(<, Nat)
    BY DEF OpToRel
  <2>2. T \subseteq Nat
    BY DEF T
  <2> HIDE DEF T
  <2> QED BY <2>1, <2>2, LeastOf, NatLessThanWellFounded, Zenon
<1>2. n # 0 /\ n - 1 \in Nat /\ n - 1 \notin T
  BY <1>1
<1> QED BY <1>1, <1>2

\* g[i] is the state after i turns of the loop that sends the queue q of s.
Turns(g, s, q, n) ==
    /\ g = [i \in 0 .. n |-> g[i]]
    /\ g[0] = s
    /\ \A i \in 1 .. n : g[i] = Dequeue(g[i - 1], q[i])

\* The recursive function of Flush exists.
LEMMA TurnsExist ==
    ASSUME NEW s, NEW q, NEW len \in Nat
    PROVE  \E g : Turns(g, s, q, len)
  <1> DEFINE S == {n \in Nat : \E g : Turns(g, s, q, n)}
  <1>1. 0 \in S
    <2> DEFINE z == [i \in 0 .. 0 |-> s]
    <2>1. z = [i \in 0 .. 0 |-> z[i]] /\ z[0] = s
      OBVIOUS
    <2> HIDE DEF z
    <2>2. Turns(z, s, q, 0)
      BY <2>1 DEF Turns
    <2> QED BY <2>2
  <1>2. ASSUME NEW n \in Nat, n \in S PROVE n + 1 \in S
    <2>1. PICK g : Turns(g, s, q, n)
      BY <1>2
    <2> DEFINE h == [i \in 0 .. n + 1 |->
                       IF i = n + 1 THEN Dequeue(g[n], q[n + 1]) ELSE g[i]]
    <2>2. h = [i \in 0 .. n + 1 |-> h[i]] /\ h[0] = s
      BY <2>1 DEF Turns
    <2>3. ASSUME NEW i \in 1 .. n + 1 PROVE h[i] = Dequeue(h[i - 1], q[i])
      <3>1. CASE i = n + 1
        BY <3>1
      <3>2. CASE i # n + 1
        <4>1. i \in 1 .. n /\ i - 1 \in 0 .. n
          BY <3>2
        <4>2. h[i] = g[i] /\ h[i - 1] = g[i - 1]
          BY <4>1
        <4> QED BY <2>1, <4>1, <4>2 DEF Turns
      <3> QED BY <3>1, <3>2
    <2> HIDE DEF h
    <2>4. Turns(h, s, q, n + 1)
      BY <2>2, <2>3 DEF Turns
    <2> QED BY <2>4
  <1> HIDE DEF S
  <1>3. len \in S
    BY <1>1, <1>2, NatInd
  <1> QED BY <1>3 DEF S

\* Flush ends in the last of the turns.
LEMMA FlushTurns ==
    ASSUME NEW s, Len(s.outgoing) \in Nat
    PROVE  \E g : Turns(g, s, s.outgoing, Len(s.outgoing)) /\ Flush(s) = g[Len(s.outgoing)]
  <1> DEFINE q == s.outgoing
             n == Len(q)
             D(f) == [i \in 0 .. n |-> IF i = 0 THEN s ELSE Dequeue(f[i - 1], q[i])]
             turn == CHOOSE f : f = D(f)
  <1>1. Flush(s) = turn[n]
    BY DEF Flush
  <1>2. PICK g : Turns(g, s, q, n)
    BY TurnsExist
  <1> HIDE DEF n, q
  <1> n \in Nat
    BY DEF n, q
  <1>3. g = D(g)
    <2>1. g = [i \in 0 .. n |-> g[i]]
      BY <1>2 DEF Turns
    <2>2. ASSUME NEW i \in 0 .. n PROVE g[i] = IF i = 0 THEN s ELSE Dequeue(g[i - 1], q[i])
      <3>1. g[0] = s /\ \A j \in 1 .. n : g[j] = Dequeue(g[j - 1], q[j])
        BY <1>2 DEF Turns
      <3>2. i = 0 \/ i \in 1 .. n
        OBVIOUS
      <3> QED BY ONLY <3>1, <3>2, n \in Nat
    <2> QED BY <2>1, <2>2
  <1>4. turn = D(turn)
    <2> HIDE DEF D
    <2> QED BY <1>3
  <1>5. Turns(turn, s, q, n)
    <2> HIDE DEF turn
    <2>1. turn = [i \in 0 .. n |-> turn[i]] /\ turn[0] = s
      BY <1>4
    <2>2. \A i \in 1 .. n : turn[i] = Dequeue(turn[i - 1], q[i])
      BY <1>4
    <2> QED BY <2>1, <2>2 DEF Turns
  <1> QED BY <1>1, <1>5 DEF n, q

\* Emptying the whole queue keeps nonces safe.
LEMMA FlushSafe ==
    ASSUME NEW s, Safe(s)
    PROVE  Safe(Flush(s))
  <1> DEFINE q == s.outgoing
             n == Len(q)
  <1>1. n \in Nat
    BY SeqOps DEF Safe
  <1>2. PICK g : Turns(g, s, q, n) /\ Flush(s) = g[n]
    BY <1>1, FlushTurns
  <1> DEFINE S == {i \in Nat : i <= n => Safe(g[i]) /\ Len(g[i].outgoing) >= n - i}
  <1>3. 0 \in S
    BY <1>1, <1>2 DEF Turns
  <1>4. ASSUME NEW i \in Nat, i \in S PROVE i + 1 \in S
    <2> SUFFICES ASSUME i + 1 <= n
                 PROVE  Safe(g[i + 1]) /\ Len(g[i + 1].outgoing) >= n - (i + 1)
      BY <1>1
    <2>1. Safe(g[i]) /\ Len(g[i].outgoing) >= n - i
      BY <1>1, <1>4
    <2>2. g[i + 1] = Dequeue(g[i], q[i + 1])
      BY <1>1, <1>2 DEF Turns
    <2>3. Len(g[i].outgoing) \in Nat
      BY <2>1, SeqOps DEF Safe
    <2> HIDE DEF n, q
    <2>4. Len(g[i].outgoing) # 0
      BY <1>1, <2>1, <2>3
    <2>5. Safe(g[i + 1]) /\ Len(g[i + 1].outgoing) >= Len(g[i].outgoing) - 1
      BY <2>1, <2>2, <2>4, DequeueSafe
    <2>6. Len(g[i + 1].outgoing) \in Nat
      BY <2>5, SeqOps DEF Safe
    <2> QED BY <1>1, <2>1, <2>3, <2>5, <2>6
  <1>5. n \in S
    <2> HIDE DEF S
    <2> QED BY <1>1, <1>3, <1>4, NatInd
  <1> QED BY <1>1, <1>2, <1>5

\* ssh_packet_send2 keeps nonces safe.
LEMMA Send2Safe ==
    ASSUME NEW s, NEW m, Safe(s), Alive(s)
    PROVE  Safe(ssh_packet_send2(s, m))
  <1> DEFINE kexType == ssh_packet_type_is_kex(m.type)
             need == ~kexType /\ ssh_packet_need_rekeying(s, 1)
             queued == [s EXCEPT !.outgoing = Append(@, m)]
             t == ssh_packet_send2_wrapped(s, m)
             u == [t EXCEPT !.rekeying = FALSE, !.expired = FALSE]
             d == ssh_packet_send2(s, m)
  <1>1. d = CASE need -> kex_start_rekex(queued)
              [] ~need /\ s.rekeying /\ ~kexType -> queued
              [] OTHER -> IF m.type = "newkeys" /\ Alive(t) THEN Flush(u) ELSE t
    BY DEF ssh_packet_send2
  <1>2. /\ Shape(queued) /\ queued.seqOut = s.seqOut /\ queued.packetsOut = s.packetsOut
        /\ queued.nonces = s.nonces /\ queued.reused = s.reused /\ queued.err = s.err
        /\ queued.outgoing = Append(s.outgoing, m)
    BY DEF Safe, Shape, Fields
  <1>3. Safe(queued) /\ Alive(queued)
    <2>1. IsSeq(Append(s.outgoing, m))
      BY SeqOps DEF Safe
    <2> HIDE DEF queued
    <2> QED BY <1>2, <2>1, SafeUnsealed DEF Alive
  <1>4. Safe(kex_start_rekex(queued))
    BY <1>3, RekexSafe
  <1>5. Safe(t)
    BY WrappedSafe
  <1> HIDE DEF t
  <1>6. Shape(u) /\ \A f \in Core : u[f] = t[f]
    BY <1>5 DEF Safe, Shape, Fields, Core
  <1> HIDE DEF u
  <1>7. Safe(u)
    BY <1>5, <1>6, SafeKept
  <1>8. Safe(Flush(u))
    BY <1>7, FlushSafe
  <1> HIDE DEF need, kexType, queued, d
  <1>9. Safe(d)
    BY <1>1, <1>3, <1>4, <1>5, <1>8
  <1> QED BY <1>9 DEF d

\* So does ssh_packet_check_rekey,
LEMMA CheckRekeySafe ==
    ASSUME NEW s, Safe(s), Alive(s)
    PROVE  Safe(ssh_packet_check_rekey(s))
  BY RekexSafe DEF ssh_packet_check_rekey

\* a packet above the transport,
LEMMA SendNextSafe ==
    ASSUME NEW s, NEW type, Safe(s), Alive(s)
    PROVE  Safe(SendNext(s, type))
  <1> DEFINE t == [s EXCEPT !.sent = @ + 1]
  <1>1. Shape(t) /\ \A f \in Core : t[f] = s[f]
    BY DEF Safe, Shape, Fields, Core
  <1> HIDE DEF t
  <1>2. Safe(t) /\ Alive(t)
    BY <1>1, SafeKept
  <1> QED BY <1>2, Send2Safe DEF SendNext, t

\* a packet of the exchange,
LEMMA SendKexSafe ==
    ASSUME NEW s, NEW type, NEW n, Safe(s)
    PROVE  Safe(SendKex(s, type, n))
  BY Send2Safe DEF SendKex

\* kex_protocol_error,
LEMMA ProtocolErrorSafe ==
    ASSUME NEW s, Safe(s), Alive(s)
    PROVE  Safe(kex_protocol_error(s))
  <1>1. Safe(Fail(s, "strict")) /\ Safe(Fail(s, "unexpected"))
    BY SafeFail
  <1> QED BY <1>1, SendKexSafe DEF kex_protocol_error

\* kex_send_newkeys,
LEMMA SendNewkeysSafe ==
    ASSUME NEW s, Safe(s)
    PROVE  Safe(kex_send_newkeys(s))
  <1> DEFINE r == kex_reset_dispatch(s)
             t == SendKex(r, "newkeys", 0)
             u == [t EXCEPT !.handlers = @ \cup {"newkeys"}]
  <1>1. Shape(r) /\ \A f \in Core : r[f] = s[f]
    BY DEF kex_reset_dispatch, Safe, Shape, Fields, Core
  <1> HIDE DEF r
  <1>2. Safe(t)
    BY <1>1, SafeKept, SendKexSafe
  <1> HIDE DEF t
  <1>3. Shape(u) /\ \A f \in Core : u[f] = t[f]
    BY <1>2 DEF Safe, Shape, Fields, Core
  <1> HIDE DEF u
  <1>4. Safe(u)
    BY <1>2, <1>3, SafeKept
  <1>5. Safe(kex_maybe_send_ext_info(u))
    BY <1>4, SendNextSafe DEF kex_maybe_send_ext_info
  <1> QED BY <1>5 DEF kex_send_newkeys, r, t, u

\* kex_gen,
LEMMA GenSafe ==
    ASSUME NEW s, Safe(s)
    PROVE  Safe(kex_gen(s))
  <1> DEFINE t == SendKex(s, "init", 0)
             u == [t EXCEPT !.handlers = @ \cup {"reply"}]
             v == [s EXCEPT !.handlers = @ \cup {"init"}]
  <1>1. Safe(t)
    BY SendKexSafe
  <1> HIDE DEF t
  <1>2. Shape(u) /\ \A f \in Core : u[f] = t[f]
    BY <1>1 DEF Safe, Shape, Fields, Core
  <1>3. Shape(v) /\ \A f \in Core : v[f] = s[f]
    BY DEF Safe, Shape, Fields, Core
  <1> HIDE DEF u, v
  <1>4. Safe(u) /\ Safe(v)
    BY <1>1, <1>2, <1>3, SafeKept
  <1> QED BY <1>4 DEF kex_gen, t, u, v

\* kex_input_kexinit,
LEMMA InputKexinitSafe ==
    ASSUME NEW s, NEW m, Safe(s), Alive(s)
    PROVE  Safe(kex_input_kexinit(s, m))
  <1> DEFINE r == [s EXCEPT !.handlers = @ \ {"kexinit"}, !.peer = m.n[1]]
             t == kex_send_kexinit(r)
             v == [t EXCEPT !.strict = m.n[2]]
             u == IF s.initial THEN v ELSE t
  <1>1. Shape(r) /\ \A f \in Core : r[f] = s[f]
    BY DEF Safe, Shape, Fields, Core
  <1> HIDE DEF r
  <1>2. Safe(t)
    BY <1>1, SafeKept, KexinitSafe
  <1> HIDE DEF t
  <1>3. Shape(v) /\ \A f \in Core : v[f] = t[f]
    BY <1>2 DEF Safe, Shape, Fields, Core
  <1> HIDE DEF v
  <1>4. Safe(u)
    BY <1>2, <1>3, SafeKept
  <1> HIDE DEF u
  <1>5. Safe(Fail(u, "strict")) \/ ~Alive(u)
    BY <1>4, SafeFail
  <1>6. Safe(kex_gen(u))
    BY <1>4, GenSafe
  <1>7. kex_input_kexinit(s, m) = IF ~Alive(u) THEN u
            ELSE IF u.initial /\ u.strict /\ m.seq # 0 THEN Fail(u, "strict")
            ELSE kex_gen(u)
    BY DEF kex_input_kexinit, r, t, u, v
  <1> QED BY <1>4, <1>5, <1>6, <1>7

\* kex_derive_keys,
LEMMA DeriveKeysSafe ==
    ASSUME NEW s, Safe(s)
    PROVE  Safe(kex_derive_keys(s))
  <1> DEFINE d == kex_derive_keys(s)
  <1>1. Shape(d) /\ \A f \in Core : d[f] = s[f]
    BY DEF kex_derive_keys, Safe, Shape, Fields, Core
  <1> HIDE DEF d
  <1>2. Safe(d)
    BY <1>1, SafeKept
  <1> QED BY <1>2 DEF d

\* a change of the dispatch table,
LEMMA WithoutHandlerSafe ==
    ASSUME NEW s, NEW type, Safe(s)
    PROVE  LET d == [s EXCEPT !.handlers = @ \ {type}]
           IN  Safe(d) /\ (Alive(d) <=> Alive(s))
  <1> DEFINE d == [s EXCEPT !.handlers = @ \ {type}]
  <1>1. Shape(d) /\ \A f \in Core : d[f] = s[f]
    BY DEF Safe, Shape, Fields, Core
  <1> HIDE DEF d
  <1>2. Safe(d) /\ (Alive(d) <=> Alive(s))
    BY <1>1, SafeKept
  <1> QED BY <1>2 DEF d

\* input_kex_gen_init,
LEMMA GenInitSafe ==
    ASSUME NEW s, Safe(s), Alive(s)
    PROVE  Safe(input_kex_gen_init(s))
  <1> DEFINE r == [s EXCEPT !.handlers = @ \ {"init"}]
             t == SendKex(r, "reply", Hash(s))
  <1>1. Safe(r)
    BY WithoutHandlerSafe
  <1> HIDE DEF r
  <1>2. Safe(t)
    BY <1>1, SendKexSafe
  <1> HIDE DEF t
  <1>3. Safe(kex_send_newkeys(kex_derive_keys(t)))
    BY <1>2, DeriveKeysSafe, SendNewkeysSafe
  <1> QED BY <1>2, <1>3 DEF input_kex_gen_init, r, t

\* input_kex_gen_reply,
LEMMA GenReplySafe ==
    ASSUME NEW s, NEW m, Safe(s), Alive(s)
    PROVE  Safe(input_kex_gen_reply(s, m))
  <1> DEFINE r == [s EXCEPT !.handlers = @ \ {"reply"}]
  <1>1. Safe(r)
    BY WithoutHandlerSafe
  <1> HIDE DEF r
  <1>2. Safe(kex_send_newkeys(kex_derive_keys(r)))
    BY <1>1, DeriveKeysSafe, SendNewkeysSafe
  <1>3. Safe(Fail(s, "signature"))
    BY SafeFail
  <1> QED BY <1>2, <1>3 DEF input_kex_gen_reply, r

\* kex_input_newkeys,
LEMMA InputNewkeysSafe ==
    ASSUME NEW s, Safe(s), Alive(s)
    PROVE  Safe(kex_input_newkeys(s))
  <1> DEFINE r == [s EXCEPT !.packetsIn = 0, !.keyIn = s.newIn, !.newIn = NoKey]
             t == ssh_set_newkeys_in(s)
             ext == IF s.initial /\ s.name = "server" THEN {"extinfo"} ELSE {}
             d == [t EXCEPT !.handlers = (@ \ {"newkeys"}) \cup {"kexinit"} \cup ext,
                            !.done = TRUE, !.initial = FALSE, !.init_sent = FALSE]
  <1>1. Shape(r) /\ \A f \in Core : r[f] = s[f]
    BY DEF Safe, Shape, Fields, Core
  <1> HIDE DEF r
  <1>2. Safe(r) /\ Safe(Fail(s, "nokeys"))
    BY <1>1, SafeKept, SafeFail
  <1>3. Safe(t)
    BY <1>2 DEF ssh_set_newkeys_in, r
  <1> HIDE DEF t, ext
  <1>4. Shape(d) /\ \A f \in Core : d[f] = t[f]
    BY ZenonT(40), <1>3 DEF Safe, Shape, Fields, Core
  <1> HIDE DEF d
  <1>5. Safe(d)
    BY <1>3, <1>4, SafeKept
  <1>6. kex_input_newkeys(s) = IF ~Alive(t) THEN t ELSE d
    BY DEF kex_input_newkeys, t, d, ext
  <1> QED BY <1>3, <1>5, <1>6

\* ssh_packet_read_poll2,
LEMMA ReadPollSafe ==
    ASSUME NEW s, NEW m, Safe(s), Alive(s)
    PROVE  Safe(ssh_packet_read_poll2(s, m))
  <1> DEFINE t == [s EXCEPT !.seqIn = (@ + 1) % Wrap, !.packetsIn = (@ + 1) % Wrap]
             u == IF m.type = "success" THEN [t EXCEPT !.after_authentication = TRUE] ELSE t
             v == IF m.type = "newkeys" /\ u.strict THEN [u EXCEPT !.seqIn = 0] ELSE u
  <1>1. Shape(t) /\ \A f \in Core : t[f] = s[f]
    BY DEF Safe, Shape, Fields, Core
  <1> HIDE DEF t
  <1>2. Shape(u) /\ \A f \in Core : u[f] = s[f]
    BY <1>1 DEF Shape, Fields, Core
  <1> HIDE DEF u
  <1>3. Shape(v) /\ \A f \in Core : v[f] = s[f]
    BY <1>2 DEF Shape, Fields, Core
  <1> HIDE DEF v
  <1>4. Safe(t) /\ Safe(v) /\ Alive(t) /\ Alive(v)
    BY <1>1, <1>3, SafeKept
  <1>5. Safe(Fail(s, "mac")) /\ Safe(Fail(t, "wrapped")) /\ Safe(Fail(t, "needrekey"))
    BY <1>4, SafeFail
  <1>6. Safe(ssh_packet_check_rekey(v))
    BY <1>4, CheckRekeySafe
  <1> QED BY <1>5, <1>6 DEF ssh_packet_read_poll2, t, u, v

\* the handlers above the transport,
LEMMA DeliverSafe ==
    ASSUME NEW s, NEW m, Safe(s), Alive(s)
    PROVE  Safe(Deliver(s, m))
  <1> DEFINE t == [s EXCEPT !.got = Append(@, m.n)]
             e == [t EXCEPT !.handlers = @ \ {"extinfo"}]
             h == [t EXCEPT !.handlers = {}]
             n == SendNext(h, "success")
             r == [n EXCEPT !.phase = "authenticated"]
             c == [t EXCEPT !.phase = "authenticated", !.handlers = @ \ {"success"}]
             a == SendNext(t, "answer")
  <1>1. Shape(t) /\ \A f \in Core : t[f] = s[f]
    BY DEF Safe, Shape, Fields, Core
  <1> HIDE DEF t
  <1>2. Safe(t) /\ Alive(t)
    BY <1>1, SafeKept
  <1>3. /\ Shape(e) /\ \A f \in Core : e[f] = t[f]
        /\ Shape(h) /\ \A f \in Core : h[f] = t[f]
        /\ Shape(c) /\ \A f \in Core : c[f] = t[f]
    BY ZenonT(40), <1>1 DEF Shape, Fields, Core
  <1> HIDE DEF e, h, c
  <1>4. Safe(e) /\ Safe(h) /\ Alive(h) /\ Safe(c)
    BY <1>2, <1>3, SafeKept
  <1>5. Safe(n) /\ Safe(a)
    BY <1>2, <1>4, SendNextSafe
  <1> HIDE DEF n, a
  <1>6. Shape(r) /\ \A f \in Core : r[f] = n[f]
    BY <1>5 DEF Safe, Shape, Fields, Core
  <1> HIDE DEF r
  <1>7. Safe(r)
    BY <1>5, <1>6, SafeKept
  <1>8. Deliver(s, m) = CASE m.type = "extinfo" -> e
                          [] m.type = "request" -> r
                          [] m.type = "success" -> c
                          [] m.type = "data" -> a
                          [] OTHER -> t
    BY DEF Deliver, t, e, h, n, r, c, a
  <1> QED BY <1>2, <1>4, <1>5, <1>7, <1>8

\* and ssh_dispatch_run.
LEMMA DispatchSafe ==
    ASSUME NEW s, NEW m, Safe(s)
    PROVE  Safe(ssh_dispatch_run(s, m))
  <1>1. CASE ~Alive(s)
    BY <1>1 DEF ssh_dispatch_run
  <1>2. CASE Alive(s)
    <2>1. /\ Safe(kex_input_kexinit(s, m)) /\ Safe(input_kex_gen_init(s))
          /\ Safe(input_kex_gen_reply(s, m)) /\ Safe(kex_input_newkeys(s))
          /\ Safe(Deliver(s, m)) /\ Safe(Fail(s, "userauth"))
          /\ Safe(kex_protocol_error(s))
      BY <1>2, InputKexinitSafe, GenInitSafe, GenReplySafe, InputNewkeysSafe, DeliverSafe,
         SafeFail, ProtocolErrorSafe
    <2> QED BY <2>1 DEF ssh_dispatch_run
  <1> QED BY <1>1, <1>2

-----------------------------------------------------------------------------
(* Nonces over the whole system. *)

NonceInv == end = [e \in Ends |-> end[e]] /\ \A e \in Ends : Safe(end[e])

\* A new connection has sealed nothing.
LEMMA NonceInit == Init => NonceInv
  <1> SUFFICES ASSUME Init PROVE NonceInv
    OBVIOUS
  <1>1. PICK offer \in BOOLEAN : end = [e \in Ends |-> Fresh(e, offer)]
    BY DEF Init
  <1>2. ASSUME NEW e \in Ends PROVE Safe(Fresh(e, offer))
    <2> DEFINE s == Fresh(e, offer)
    <2>1. /\ s.seqOut = 0 /\ s.packetsOut = 0 /\ s.nonces = {} /\ s.reused = FALSE
          /\ s.outgoing = <<>>
      BY DEF Fresh
    <2>2. <<>> \in Seq({})
      OBVIOUS
    <2>3. Shape(s)
      BY FreshShape
    <2> HIDE DEF s
    <2>4. 0 \in 0 .. Wrap - 1
      BY TransportAssumption
    <2>5. Safe(s)
      BY <2>1, <2>2, <2>3, <2>4 DEF Safe, Unused, IsSeq
    <2> QED BY <2>5 DEF s
  <1> QED BY <1>1, <1>2 DEF NonceInv

\* The end that acts becomes the record d, without what it wrote.
LEMMA NonceStep ==
    ASSUME NonceInv, NEW e \in Ends, NEW d, Safe(d),
           end' = [end EXCEPT ![e] = [d EXCEPT !.out = <<>>]]
    PROVE  NonceInv'
  <1> DEFINE c == [d EXCEPT !.out = <<>>]
  <1>1. Shape(c) /\ \A f \in Core : c[f] = d[f]
    BY DEF Safe, Shape, Fields, Core
  <1> HIDE DEF c
  <1>2. Safe(c)
    BY <1>1, SafeKept
  <1>3. end' = [end EXCEPT ![e] = c]
    BY DEF c
  <1> QED BY <1>2, <1>3 DEF NonceInv

\* Every step of either end keeps the nonces of both safe.
LEMMA NonceNext == NonceInv /\ [Next]_vars => NonceInv'
  <1> SUFFICES ASSUME NonceInv, [Next]_vars PROVE NonceInv'
    OBVIOUS
  <1>0. \A e \in Ends : Safe(end[e]) /\ Shape(end[e])
    BY DEF NonceInv, Safe
  <1>1. ASSUME NEW e \in Ends, NEW r, Step(e, r), Safe(r) PROVE NonceInv'
    BY <1>1, NonceStep DEF Step
  <1>2. ASSUME NEW e \in Ends, NEW c, Shape(c), \A f \in Core : c[f] = end[e][f]
        PROVE  Safe(c) /\ (Alive(c) <=> Alive(end[e]))
    BY <1>0, <1>2, SafeKept
  <1>3. ASSUME NEW e \in Ends, kex_setup(e) PROVE NonceInv'
    <2> DEFINE s == end[e]
               c == [s EXCEPT !.phase = "kex", !.initial = TRUE, !.handlers = {"kexinit"}]
    <2> Shape(s)
      BY <1>0
    <2> HIDE DEF s
    <2>1. Shape(c) /\ \A f \in Core : c[f] = s[f]
      BY DEF Shape, Fields, Core
    <2> HIDE DEF c
    <2>2. Safe(kex_send_kexinit(c))
      BY <1>2, <1>3, <2>1, KexinitSafe DEF s, kex_setup
    <2> QED BY <1>1, <1>3, <2>2 DEF s, kex_setup, c
  <1>4. ASSUME NEW e \in Ends, Dispatch(e) PROVE NonceInv'
    <2> DEFINE m == Head(wire[Peer(e)])
               t == ssh_packet_read_poll2(end[e], m)
               d == ssh_dispatch_run(t, m)
    <2>1. Safe(t)
      BY <1>0, <1>4, ReadPollSafe DEF Dispatch, Reading
    <2> HIDE DEF t
    <2>2. Safe(d)
      BY <2>1, DispatchSafe
    <2>3. end' = [end EXCEPT ![e] = [d EXCEPT !.out = <<>>]]
      BY <1>4 DEF Dispatch, t
    <2> HIDE DEF d
    <2> QED BY <2>2, <2>3, NonceStep
  <1>5. ASSUME NEW e \in Ends, StartAuthentication(e) PROVE NonceInv'
    <2> DEFINE s == end[e]
               c == [s EXCEPT !.phase = "auth", !.handlers = {"extinfo", "success"}]
               d == [s EXCEPT !.phase = "auth", !.handlers = {"extinfo", "request"}]
    <2> Shape(s)
      BY <1>0
    <2> HIDE DEF s
    <2>1. Shape(c) /\ \A f \in Core : c[f] = s[f]
      BY DEF Shape, Fields, Core
    <2>2. Shape(d) /\ \A f \in Core : d[f] = s[f]
      BY DEF Shape, Fields, Core
    <2> HIDE DEF c, d
    <2>3. Safe(d) /\ Safe(SendNext(c, "request"))
      BY <1>2, <1>5, <2>1, <2>2, SendNextSafe DEF s, StartAuthentication
    <2> QED BY <1>1, <1>5, <2>3 DEF s, StartAuthentication, c, d
  <1>6. ASSUME NEW e \in Ends, StartSession(e) PROVE NonceInv'
    <2> DEFINE s == end[e]
               c == [s EXCEPT !.phase = "session",
                                   !.handlers = {"kexinit", "data", "answer"}]
    <2> Shape(s)
      BY <1>0
    <2> HIDE DEF s
    <2>1. Shape(c) /\ \A f \in Core : c[f] = s[f]
      BY DEF Shape, Fields, Core
    <2> HIDE DEF c
    <2> QED BY <1>1, <1>2, <1>6, <2>1 DEF s, StartSession, c
  <1>7. ASSUME NEW e \in Ends, OutputPoll(e) PROVE NonceInv'
    <2> DEFINE s == end[e]
               c == [s EXCEPT !.data = @ - 1]
    <2> Shape(s)
      BY <1>0
    <2> HIDE DEF s
    <2>1. Shape(c) /\ \A f \in Core : c[f] = s[f]
      BY DEF Shape, Fields, Core
    <2> HIDE DEF c
    <2>2. Safe(SendNext(c, "data"))
      BY <1>2, <1>7, <2>1, SendNextSafe DEF s, OutputPoll, InSession
    <2> QED BY <1>1, <1>7, <2>2 DEF s, OutputPoll, c
  <1>8. ASSUME NEW e \in Ends, Expire(e) PROVE NonceInv'
    <2> DEFINE s == end[e]
               c == [s EXCEPT !.expired = TRUE]
    <2> Shape(s)
      BY <1>0
    <2> HIDE DEF s
    <2>1. Shape(c) /\ \A f \in Core : c[f] = s[f]
      BY DEF Shape, Fields, Core
    <2> HIDE DEF c
    <2>2. Safe(ssh_packet_check_rekey(c))
      BY <1>2, <1>8, <2>1, CheckRekeySafe DEF s, Expire, InSession
    <2> QED BY <1>1, <1>8, <2>2 DEF s, Expire, c
  <1>9. CASE EscapeR
    <2> DEFINE s == end["client"]
               c == [s EXCEPT !.manual = TRUE]
    <2>0. "client" \in Ends
      BY DEF Ends
    <2> Shape(s)
      BY <1>0, <2>0
    <2> HIDE DEF s
    <2>1. Shape(c) /\ \A f \in Core : c[f] = s[f]
      BY DEF Shape, Fields, Core
    <2>2. end' = [end EXCEPT !["client"] = c]
      BY <1>9 DEF EscapeR, s
    <2> HIDE DEF c
    <2> QED BY <1>2, <2>0, <2>1, <2>2 DEF s, NonceInv
  <1>10. CASE ManualRekey
    <2> DEFINE s == end["client"]
               c == [s EXCEPT !.manual = FALSE]
    <2>0. "client" \in Ends
      BY DEF Ends
    <2> Shape(s)
      BY <1>0, <2>0
    <2> HIDE DEF s
    <2>1. Shape(c) /\ \A f \in Core : c[f] = s[f]
      BY DEF Shape, Fields, Core
    <2> HIDE DEF c
    <2>2. Safe(kex_start_rekex(c))
      BY <1>2, <1>10, <2>0, <2>1, RekexSafe DEF s, ManualRekey, InSession
    <2> QED BY <1>1, <1>10, <2>0, <2>2 DEF s, ManualRekey, c
  <1>11. CASE UNCHANGED vars
    BY <1>11 DEF vars, NonceInv
  <1> QED
    BY <1>3, <1>4, <1>5, <1>6, <1>7, <1>8, <1>9, <1>10, <1>11 DEF Next

\* No packet is ever sealed with a key and a sequence number that sealed one
\* before: whatever wraps, fails or arrives, ssh_packet_send2_wrapped gives up
\* before the packets under one key are as many as there are numbers.
THEOREM NoncesAreUsedOnce == Spec => []NonceOnce
  <1>1. NonceInv => NonceOnce
    BY DEF NonceInv, NonceOnce, Safe
  <1> QED BY <1>1, NonceInit, NonceNext, PTL DEF Spec

-----------------------------------------------------------------------------
(***************************************************************************)
(* One direction of the connection.  A view is what an end knows of the    *)
(* stream between it and its peer: the number of exchanges whose NEWKEYS   *)
(* has passed, how far the next exchange has come, how many packets above  *)
(* the transport have passed and how many of them were channel data, and   *)
(* the sequence number and packet count of the next packet.                *)
(***************************************************************************)
View == [round : Nat, step : 0 .. 2, pay : Nat, dat : 0 .. MaxData,
         seq : Nat, cnt : Nat]

\* The packets of one exchange, in the order in which e sends them.
Token(e, step) ==
    IF step = 0 THEN "kexinit"
    ELSE IF step = 2 THEN "newkeys"
    ELSE IF e = "client" THEN "init" ELSE "reply"

KexTokens == {"kexinit", "init", "reply", "newkeys"}

\* What the next packet above the transport may be.
PayloadType(e, pay, type) ==
    \/ pay = 0 /\ type = "extinfo"
    \/ pay = 1 /\ type = IF e = "client" THEN "request" ELSE "success"
    \/ pay >= 2 /\ type \in {"data", "answer"}

\* m may be the next packet of e after the view v; o: strict ordering is offered.
Fits(e, o, v, m) ==
    /\ m.key = <<v.round, v.round>> /\ m.seq = v.seq
    /\ v.cnt + 1 < Wrap
    /\ v.round = 0 => v.seq + 1 < Wrap
    /\ m.type = "data" => v.cnt = 0 \/ v.cnt + 1 <= Limit(e)
    /\ \/ /\ m.type = Token(e, v.step)
          /\ v.step = 0 => /\ m.n = <<v.round + 1, o>>
                           /\ v.round = 0 => v.seq = 0
                           /\ v.round # 0 => v.pay >= 2
          /\ m.type = "reply" => m.n = <<v.round + 1, v.round + 1>>
       \/ /\ v.step = 0 /\ v.round # 0
          /\ PayloadType(e, v.pay, m.type)
          /\ m.n = v.pay + 1

\* The view after m.
Advance(o, v, m) ==
    [round |-> IF m.type = "newkeys" THEN v.round + 1 ELSE v.round,
     step |-> IF m.type \notin KexTokens THEN v.step
              ELSE IF m.type = "newkeys" THEN 0 ELSE v.step + 1,
     pay |-> IF m.type \in KexTokens THEN v.pay ELSE v.pay + 1,
     dat |-> IF m.type = "data" THEN v.dat + 1 ELSE v.dat,
     seq |-> IF m.type = "newkeys" /\ o THEN 0 ELSE (v.seq + 1) % Wrap,
     cnt |-> IF m.type = "newkeys" THEN 0 ELSE v.cnt + 1]

\* F goes from the view x through the packets w, all of which fit, to y.
Passes(F, e, o, x, w, y) ==
    /\ F \in [0 .. Len(w) -> View]
    /\ F[0] = x /\ F[Len(w)] = y
    /\ \A i \in 1 .. Len(w) : /\ Fits(e, o, F[i - 1], w[i])
                              /\ F[i] = Advance(o, F[i - 1], w[i])

\* e is the sender of w, y its view and x the view of the receiver.
Between(e, o, x, w, y) == IsSeq(w) /\ \E F : Passes(F, e, o, x, w, y)

\* Nothing on the wire: reader and writer have the same view.
LEMMA BetweenEmpty ==
    ASSUME NEW e, NEW o, NEW x \in View
    PROVE  Between(e, o, x, <<>>, x)
  <1> DEFINE F == [i \in 0 .. 0 |-> x]
  <1>1. F \in [0 .. 0 -> View] /\ F[0] = x
    OBVIOUS
  <1> HIDE DEF F
  <1>2. Len(<<>>) = 0 /\ <<>> \in Seq({})
    OBVIOUS
  <1>3. Passes(F, e, o, x, <<>>, x)
    BY <1>1, <1>2 DEF Passes
  <1> QED BY <1>2, <1>3 DEF Between, IsSeq

\* The writer adds a packet that fits.
LEMMA BetweenAppend ==
    ASSUME NEW e, NEW o, NEW x, NEW w, NEW y, NEW m, NEW z,
           Between(e, o, x, w, y), Fits(e, o, y, m), z = Advance(o, y, m), z \in View
    PROVE  Between(e, o, x, Append(w, m), z)
  <1>1. PICK F : Passes(F, e, o, x, w, y)
    BY DEF Between
  <1> DEFINE n == Len(w)
             v == Append(w, m)
             G == [i \in 0 .. n + 1 |-> IF i = n + 1 THEN z ELSE F[i]]
  <1>2. IsSeq(w)
    BY DEF Between
  <1>3. n \in Nat /\ IsSeq(v)
    BY <1>2, SeqOps
  <1>4. Len(v) = n + 1 /\ v[n + 1] = m /\ \A i \in 1 .. n : v[i] = w[i]
    <2>1. PICK S : w \in Seq(S)
      BY <1>2 DEF IsSeq
    <2>2. w \in Seq(S \cup {m}) /\ m \in S \cup {m}
      BY <2>1
    <2> QED BY <2>2
  <1> HIDE DEF n, v
  <1>5. F \in [0 .. n -> View] /\ F[0] = x /\ F[n] = y
        /\ \A i \in 1 .. n : Fits(e, o, F[i - 1], w[i]) /\ F[i] = Advance(o, F[i - 1], w[i])
    BY <1>1 DEF Passes, n
  <1>6. G \in [0 .. n + 1 -> View] /\ G[0] = x /\ G[n + 1] = z /\ G[n] = y
    BY <1>3, <1>5
  <1>7. ASSUME NEW i \in 1 .. n + 1
        PROVE  Fits(e, o, G[i - 1], v[i]) /\ G[i] = Advance(o, G[i - 1], v[i])
    <2>1. CASE i = n + 1
      <3>1. G[i - 1] = y /\ G[i] = z /\ v[i] = m
        BY <1>3, <1>4, <1>6, <2>1
      <3> QED BY <3>1
    <2>2. CASE i # n + 1
      <3>1. i \in 1 .. n
        BY <1>3, <2>2
      <3>2. G[i - 1] = F[i - 1] /\ G[i] = F[i] /\ v[i] = w[i]
        BY <1>3, <1>4, <3>1
      <3> QED BY <1>5, <3>1, <3>2
    <2> QED BY <2>1, <2>2
  <1> HIDE DEF G
  <1>8. Passes(G, e, o, x, v, z)
    BY <1>4, <1>6, <1>7 DEF Passes
  <1> QED BY <1>3, <1>8 DEF Between, v

\* The reader takes the first packet, which fits its view.
LEMMA BetweenHead ==
    ASSUME NEW e, NEW o, NEW x, NEW w, NEW y, Between(e, o, x, w, y), w # <<>>
    PROVE  /\ Fits(e, o, x, Head(w)) /\ Advance(o, x, Head(w)) \in View
           /\ Between(e, o, Advance(o, x, Head(w)), Tail(w), y)
  <1>1. PICK F : Passes(F, e, o, x, w, y)
    BY DEF Between
  <1> DEFINE n == Len(w)
             v == Tail(w)
             G == [i \in 0 .. n - 1 |-> F[i + 1]]
  <1>2. PICK S : w \in Seq(S)
    BY DEF Between, IsSeq
  <1>3. n \in Nat /\ n # 0 /\ v \in Seq(S) /\ Len(v) = n - 1
        /\ Head(w) = w[1] /\ \A i \in 1 .. n - 1 : v[i] = w[i + 1]
    BY <1>2
  <1>4. F \in [0 .. n -> View] /\ F[0] = x /\ F[n] = y
        /\ \A i \in 1 .. n : Fits(e, o, F[i - 1], w[i]) /\ F[i] = Advance(o, F[i - 1], w[i])
    BY <1>1 DEF Passes
  <1> HIDE DEF n, v
  <1>5. Fits(e, o, x, w[1]) /\ F[1] = Advance(o, x, w[1]) /\ F[1] \in View
    <2>1. 1 \in 1 .. n /\ 1 - 1 = 0 /\ 1 \in 0 .. n
      BY <1>3
    <2> QED BY <1>4, <2>1
  <1>6. G \in [0 .. n - 1 -> View] /\ G[0] = F[1] /\ G[n - 1] = y
    <2>1. \A i \in 0 .. n - 1 : i + 1 \in 0 .. n
      BY <1>3
    <2>2. 0 \in 0 .. n - 1 /\ n - 1 \in 0 .. n - 1 /\ n - 1 + 1 = n
      BY <1>3
    <2> QED BY <1>4, <2>1, <2>2
  <1>7. ASSUME NEW i \in 1 .. n - 1
        PROVE  Fits(e, o, G[i - 1], v[i]) /\ G[i] = Advance(o, G[i - 1], v[i])
    <2>1. i + 1 \in 1 .. n /\ (i + 1) - 1 = i /\ (i - 1) + 1 = i
          /\ i \in 0 .. n - 1 /\ i - 1 \in 0 .. n - 1
      BY <1>3
    <2>2. G[i - 1] = F[i] /\ G[i] = F[i + 1] /\ v[i] = w[i + 1]
      BY <1>3, <2>1
    <2>3. Fits(e, o, F[i], w[i + 1]) /\ F[i + 1] = Advance(o, F[i], w[i + 1])
      BY <1>4, <2>1
    <2> QED BY <2>2, <2>3
  <1> HIDE DEF G
  <1>8. Passes(G, e, o, F[1], v, y)
    BY <1>3, <1>6, <1>7 DEF Passes
  <1>9. Between(e, o, F[1], v, y)
    BY <1>3, <1>8 DEF Between, IsSeq
  <1> QED BY <1>3, <1>5, <1>9 DEF v

\* The two ends of the wire are views.
LEMMA BetweenViews ==
    ASSUME NEW e, NEW o, NEW x, NEW w, NEW y, Between(e, o, x, w, y)
    PROVE  x \in View /\ y \in View /\ IsSeq(w)
  <1>1. PICK F : Passes(F, e, o, x, w, y)
    BY DEF Between
  <1>2. Len(w) \in Nat
    BY SeqOps DEF Between
  <1> QED BY <1>1, <1>2 DEF Passes, Between

-----------------------------------------------------------------------------
(***************************************************************************)
(* What one end says by itself.  With `init_sent' and `rekeying' an end is *)
(* in one of four stages of exchange number `my': idle; proposed (KEXINIT  *)
(* sent, the peer's not read); agreed (both KEXINITs known); switched      *)
(* (NEWKEYS sent, the peer's not read).                                    *)
(***************************************************************************)
Typed(s) ==
    /\ s.name \in Ends
    /\ s.my \in Nat /\ s.peer \in Nat /\ s.sent \in Nat /\ s.data \in Nat
    /\ s.seqIn \in Nat /\ s.seqOut \in Nat
    /\ s.packetsIn \in Nat /\ s.packetsOut \in Nat
    /\ s.outgoing \in Seq([type : {"data", "answer"}, n : Nat])
    /\ s.got \in Seq(Nat)

Stage(s) ==
    /\ s.err = "none" /\ s.newOut = NoKey
    /\ s.peer = 0 => ~s.strict
    /\ s.peer # 0 => s.strict = s.offer
    /\ s.initial <=> s.my = 1 /\ s.init_sent
    /\ s.done <=> ~s.init_sent /\ s.my # 0
    /\ s.rekeying => s.init_sent
    /\ s.init_sent => s.my # 0
    /\ s.my # s.peer => s.rekeying /\ s.my = s.peer + 1
    /\ ~s.rekeying => s.keyOut = <<s.my, s.my>>
    /\ s.rekeying => s.keyOut = <<s.my - 1, s.my - 1>>
    /\ ~s.init_sent => s.keyIn = <<s.my, s.my>>
    /\ s.init_sent => s.keyIn = <<s.my - 1, s.my - 1>>
    /\ s.init_sent /\ ~s.rekeying => s.newIn = <<s.my, s.my>>

\* Packets of channel data answered, and packets of channel data in the queue.
Answers(s) == IF s.phase = "session" THEN s.sent + s.data - 2 - MaxData ELSE 0
Held(s) == IF s.outgoing # <<>> /\ s.outgoing[1].type = "data" THEN 1 ELSE 0

\* The channel data that the peer sends under one key: the first packet of a key
\* is not held to RekeyLimit.
Top(s) == IF Limit(Peer(s.name)) = 0 THEN 1 ELSE Limit(Peer(s.name))

Phase(s) ==
    /\ s.phase \in {"start", "kex", "auth", "authenticated", "session"}
    /\ s.phase = "start" <=> s.my = 0
    /\ s.phase = "kex" => s.my = 1
    /\ s.init_sent => \/ s.my = 1 /\ s.phase = "kex"
                      \/ s.my # 1 /\ s.phase = "session"
                      \/ /\ s.my # 1 /\ s.phase \in {"auth", "authenticated"}
                         /\ s.name = "client" /\ s.my # s.peer
    /\ s.after_authentication => \/ s.phase \in {"authenticated", "session"}
                                 \/ s.phase = "auth" /\ s.name = "client"
    /\ s.phase \in {"authenticated", "session"} => s.after_authentication
    /\ s.phase = "start" => s.sent = 0
    /\ s.phase = "kex" => s.sent = IF s.rekeying THEN 0 ELSE 1
    /\ s.phase = "auth" => s.sent = IF s.name = "client" THEN 2 ELSE 1
    /\ s.phase = "authenticated" => s.sent = 2
    /\ s.phase \in {"start", "kex"} => Len(s.got) = 0
    /\ s.phase = "auth" => Len(s.got) < 2
    /\ s.phase = "authenticated" => Len(s.got) = 2
    /\ s.phase = "session" => Len(s.got) >= 2
    /\ s.data <= MaxData /\ (s.phase # "session" => s.data = MaxData)

Queue(s) ==
    /\ s.phase # "session" => s.outgoing = <<>>
    /\ \A i \in 1 .. Len(s.outgoing) :
          /\ s.outgoing[i].n = s.sent - Len(s.outgoing) + i
          /\ i # 1 => s.outgoing[i].type = "answer"
    /\ Len(s.outgoing) <= Answers(s) + Held(s)
    /\ Len(s.outgoing) <= Held(s) + s.packetsIn
    /\ Len(s.outgoing) <= Held(s) + Top(s)
    /\ Held(s) <= MaxData - s.data
    /\ 0 <= Answers(s) /\ Answers(s) <= MaxData

\* The client has sent INIT.
InitSent(s) == s.my = s.peer /\ s.name = "client"

Counters(s) ==
    /\ ~s.init_sent => s.packetsOut + 3 < Wrap
    /\ ~s.init_sent /\ s.phase # "session" => s.packetsOut <= s.sent
    /\ s.rekeying => s.packetsOut + (IF InitSent(s) THEN 1 ELSE 2) < Wrap
    /\ s.init_sent /\ ~s.rekeying => s.packetsOut <= Top(s) + 1
    /\ s.init_sent /\ ~s.rekeying /\ s.phase # "session" => s.packetsOut <= 1
    /\ s.phase = "start" => s.seqOut = 0
    /\ s.initial /\ s.rekeying => s.seqOut <= (IF InitSent(s) THEN 2 ELSE 1)

\* The message of the exchange an end waits for.
Awaited(s) ==
    IF ~s.init_sent \/ s.my # s.peer THEN "kexinit"
    ELSE IF ~s.rekeying THEN "newkeys"
    ELSE IF s.name = "client" THEN "reply" ELSE "init"

Handlers(s) ==
    /\ s.phase \in {"kex", "session"} => Awaited(s) \in s.handlers
    /\ s.phase = "session" => "data" \in s.handlers /\ "answer" \in s.handlers
    /\ s.phase = "auth" /\ s.name = "client" => "success" \in s.handlers
    /\ s.phase = "auth" /\ s.name = "server" => "request" \in s.handlers
    /\ s.phase = "auth" /\ Len(s.got) = 0 => "extinfo" \in s.handlers

\* The data just read may be answered: the answer finds room in the queue.
Room(s) == Len(s.outgoing) < Held(s) + s.packetsIn /\ s.packetsIn <= Top(s)

InOrder(s) == s.got = [i \in 1 .. Len(s.got) |-> i]

Local(s) ==
    Typed(s) /\ Stage(s) /\ Phase(s) /\ Queue(s) /\ Counters(s) /\ InOrder(s)

-----------------------------------------------------------------------------
(* The views of an end, and an end linked to the peer's view x by w. *)

InStep(s) == IF ~s.init_sent \/ s.my # s.peer THEN 0 ELSE IF s.rekeying THEN 1 ELSE 2
OutStep(s) == IF ~s.rekeying THEN 0 ELSE IF InitSent(s) THEN 2 ELSE 1

In(s) == [round |-> s.keyIn[1], step |-> InStep(s), pay |-> Len(s.got),
          dat |-> Answers(s), seq |-> s.seqIn, cnt |-> s.packetsIn]

Sender(s, step, pay, dat) ==
    [round |-> s.keyOut[1], step |-> step, pay |-> pay, dat |-> dat,
     seq |-> s.seqOut, cnt |-> s.packetsOut]

Linked(x, w, s, step, pay, dat) ==
    IsSeq(s.out) /\ Between(s.name, s.offer, x, w \o s.out, Sender(s, step, pay, dat))

Sent(s) == s.sent - Len(s.outgoing)
DataSent(s) == MaxData - s.data - Held(s)

Sound(x, w, s) ==
    Shape(s) /\ Local(s) /\ IsSeq(w) /\ Linked(x, w, s, OutStep(s), Sent(s), DataSent(s))

Consistent(x, w, s) ==
    /\ Shape(s) /\ Local(s) /\ Handlers(s) /\ IsSeq(w)
    /\ Linked(x, w, s, OutStep(s), Sent(s), DataSent(s))

\* Packets wait in the queue only while an exchange holds them back.
Good(x, w, s) == Consistent(x, w, s) /\ (~s.rekeying => s.outgoing = <<>>)

\* The data one key carries leaves room below the wrap of the counters.
LEMMA TopBound ==
    ASSUME NEW s, s.name \in Ends
    PROVE  Top(s) \in Nat /\ 1 <= Top(s) /\ Top(s) + 4 < Wrap
  BY TransportAssumption, CounterAssumption DEF Top, Limit, Peer, Ends

\* What Queue asks is true of an empty queue.
LEMMA EmptyQueue ==
    ASSUME NEW s, Typed(s), s.outgoing = <<>>, s.data <= MaxData, Answers(s) = 0
    PROVE  Queue(s)
  <1>1. Held(s) = 0 /\ Len(s.outgoing) = 0
    BY DEF Held
  <1>2. s.packetsIn \in Nat /\ s.data \in Nat /\ MaxData \in Nat /\ Top(s) \in Nat
    BY TransportAssumption, TopBound DEF Typed
  <1> QED BY <1>1, <1>2 DEF Queue

-----------------------------------------------------------------------------
(* Sealing packets that fit. *)

Unsealed == {"out", "nonces", "reused", "seqOut", "packetsOut"}

Packet(s, m) == [type |-> m.type, n |-> m.n, key |-> s.keyOut, seq |-> s.seqOut]

\* A packet that neither brings new keys nor meets a limit.
LEMMA WrappedPlain ==
    ASSUME NEW s, NEW m, Shape(s), s.packetsOut \in Nat, s.packetsOut + 1 < Wrap,
           ~s.initial \/ (s.seqOut + 1) % Wrap # 0,
           m.type \notin {"newkeys", "success"}
    PROVE  LET d == ssh_packet_send2_wrapped(s, m)
           IN  /\ Same(s, d, Unsealed)
               /\ d.out = Append(s.out, Packet(s, m))
               /\ d.seqOut = (s.seqOut + 1) % Wrap
               /\ d.packetsOut = s.packetsOut + 1
  <1> DEFINE t == Seal(s, m)
  <1>0. Wrap \in Nat \ {0} /\ (s.packetsOut + 1) % Wrap = s.packetsOut + 1
    BY TransportAssumption
  <1>1. /\ Same(s, t, Unsealed)
        /\ t.out = Append(s.out, Packet(s, m))
        /\ t.seqOut = (s.seqOut + 1) % Wrap
        /\ t.packetsOut = s.packetsOut + 1
    BY <1>0, SealFields DEF Unsealed, Packet
  <1>2. t.initial = s.initial /\ t.packetsOut # 0
    BY <1>1 DEF Same, Fields, Unsealed
  <1> HIDE DEF t
  <1>3. ssh_packet_send2_wrapped(s, m) = t
    BY <1>1, <1>2 DEF ssh_packet_send2_wrapped, t
  <1> QED BY <1>1, <1>3

\* SUCCESS, which marks the connection as authenticated.
LEMMA WrappedSuccess ==
    ASSUME NEW s, NEW m, Shape(s), s.packetsOut \in Nat, s.packetsOut + 1 < Wrap,
           ~s.initial, m.type = "success"
    PROVE  LET d == ssh_packet_send2_wrapped(s, m)
           IN  /\ Same(s, d, Unsealed \cup {"after_authentication"})
               /\ d.out = Append(s.out, Packet(s, m))
               /\ d.seqOut = (s.seqOut + 1) % Wrap
               /\ d.packetsOut = s.packetsOut + 1
               /\ d.after_authentication
  <1> DEFINE t == Seal(s, m)
             d == [t EXCEPT !.after_authentication = TRUE]
  <1>0. Wrap \in Nat \ {0} /\ (s.packetsOut + 1) % Wrap = s.packetsOut + 1
    BY TransportAssumption
  <1>1. /\ Same(s, t, Unsealed)
        /\ t.out = Append(s.out, Packet(s, m))
        /\ t.seqOut = (s.seqOut + 1) % Wrap
        /\ t.packetsOut = s.packetsOut + 1
    BY <1>0, SealFields DEF Unsealed, Packet
  <1>2. t.initial = s.initial /\ t.packetsOut # 0
    BY <1>1 DEF Same, Fields, Unsealed
  <1> HIDE DEF t
  <1>3. ssh_packet_send2_wrapped(s, m) = d
    BY <1>1, <1>2 DEF ssh_packet_send2_wrapped, t
  <1>4. Shape(d) /\ d.after_authentication
        /\ \A f \in Fields \ {"after_authentication"} : d[f] = t[f]
    BY <1>1 DEF Same, Shape, Fields
  <1> HIDE DEF d
  <1>5. d.out = t.out /\ d.seqOut = t.seqOut /\ d.packetsOut = t.packetsOut
    BY <1>4 DEF Fields
  <1>6. Same(s, d, Unsealed \cup {"after_authentication"})
    BY <1>1, <1>4 DEF Same
  <1> QED BY <1>1, <1>3, <1>4, <1>5, <1>6

\* NEWKEYS, after which the new keys seal.
LEMMA WrappedNewkeys ==
    ASSUME NEW s, NEW m, Shape(s), s.packetsOut \in Nat, s.packetsOut + 1 < Wrap,
           ~s.initial \/ (s.seqOut + 1) % Wrap # 0,
           s.newOut # NoKey, m.type = "newkeys"
    PROVE  LET d == ssh_packet_send2_wrapped(s, m)
           IN  /\ Same(s, d, Unsealed \cup {"keyOut", "newOut"})
               /\ d.out = Append(s.out, Packet(s, m))
               /\ d.seqOut = IF s.strict THEN 0 ELSE (s.seqOut + 1) % Wrap
               /\ d.packetsOut = 0 /\ d.keyOut = s.newOut /\ d.newOut = NoKey
  <1> DEFINE t == Seal(s, m)
             u == IF t.strict THEN [t EXCEPT !.seqOut = 0] ELSE t
             d == ssh_set_newkeys_out(u)
  <1>0. Wrap \in Nat \ {0} /\ (s.packetsOut + 1) % Wrap = s.packetsOut + 1
    BY TransportAssumption
  <1>1. /\ Same(s, t, Unsealed)
        /\ t.out = Append(s.out, Packet(s, m))
        /\ t.seqOut = (s.seqOut + 1) % Wrap
        /\ t.packetsOut = s.packetsOut + 1
    BY <1>0, SealFields DEF Unsealed, Packet
  <1>2. t.initial = s.initial /\ t.packetsOut # 0 /\ t.strict = s.strict /\ t.newOut = s.newOut
    BY <1>1 DEF Same, Fields, Unsealed
  <1> HIDE DEF t
  <1>3. ssh_packet_send2_wrapped(s, m) = d
    BY <1>1, <1>2 DEF ssh_packet_send2_wrapped, t
  <1>4. Shape(u) /\ \A f \in Fields \ {"seqOut"} : u[f] = t[f]
    BY <1>1 DEF Same, Shape, Fields
  <1>5. u.seqOut = IF s.strict THEN 0 ELSE t.seqOut
    BY <1>1, <1>2 DEF Same, Shape, Fields
  <1>6. u.newOut = s.newOut /\ u.out = t.out
    BY <1>2, <1>4 DEF Fields
  <1> HIDE DEF u
  <1>7. d = [u EXCEPT !.packetsOut = 0, !.keyOut = u.newOut, !.newOut = NoKey, !.nonces = {}]
    BY <1>6 DEF ssh_set_newkeys_out
  <1> HIDE DEF d
  <1>8. /\ Shape(d) /\ d.packetsOut = 0 /\ d.keyOut = u.newOut /\ d.newOut = NoKey
        /\ d.seqOut = u.seqOut /\ d.out = u.out
        /\ \A f \in Fields \ {"packetsOut", "keyOut", "newOut", "nonces"} : d[f] = u[f]
    BY <1>4, <1>7 DEF Shape, Fields
  <1>9. Same(s, d, Unsealed \cup {"keyOut", "newOut"})
    BY <1>1, <1>4, <1>8 DEF Same, Unsealed
  <1> QED BY <1>1, <1>3, <1>5, <1>6, <1>8, <1>9

\* What is written next goes on the wire behind what is written already.
LEMMA LinkedAppend ==
    ASSUME NEW x, NEW w, NEW s, NEW step, NEW pay, NEW dat, IsSeq(w),
           Linked(x, w, s, step, pay, dat),
           NEW d, NEW p, NEW step2, NEW pay2, NEW dat2,
           d.name = s.name, d.offer = s.offer, d.out = Append(s.out, p),
           Fits(s.name, s.offer, Sender(s, step, pay, dat), p),
           Sender(d, step2, pay2, dat2) = Advance(s.offer, Sender(s, step, pay, dat), p),
           Sender(d, step2, pay2, dat2) \in View
    PROVE  Linked(x, w, d, step2, pay2, dat2)
  <1> DEFINE y == Sender(s, step, pay, dat)
             z == Sender(d, step2, pay2, dat2)
  <1> HIDE DEF y, z
  <1>1. Between(s.name, s.offer, x, w \o s.out, y) /\ IsSeq(s.out)
    BY DEF Linked, y
  <1>2. Between(s.name, s.offer, x, Append(w \o s.out, p), z)
    BY <1>1, BetweenAppend DEF y, z
  <1>3. Append(w \o s.out, p) = w \o Append(s.out, p)
    <2>1. PICK S : w \in Seq(S)
      BY DEF IsSeq
    <2>2. PICK T : s.out \in Seq(T)
      BY <1>1 DEF IsSeq
    <2>3. /\ w \in Seq(S \cup T \cup {p}) /\ s.out \in Seq(S \cup T \cup {p})
          /\ p \in S \cup T \cup {p}
      BY <2>1, <2>2
    <2> QED BY ONLY <2>3
  <1>4. IsSeq(d.out)
    BY <1>1, SeqOps
  <1> QED BY <1>2, <1>3, <1>4 DEF Linked, z

\* The view of the sender is a view.
LEMMA SenderView ==
    ASSUME NEW x, NEW w, NEW s, NEW step, NEW pay, NEW dat, Linked(x, w, s, step, pay, dat)
    PROVE  /\ step \in 0 .. 2 /\ pay \in Nat /\ dat \in 0 .. MaxData
           /\ s.keyOut[1] \in Nat /\ s.seqOut \in Nat /\ s.packetsOut \in Nat
  <1>1. Sender(s, step, pay, dat) \in View
    BY BetweenViews DEF Linked
  <1> QED BY <1>1 DEF Sender, View

\* The next sequence number is a natural.
LEMMA NextSeq ==
    ASSUME NEW k \in Nat
    PROVE  (k + 1) % Wrap \in Nat
  BY TransportAssumption

\* KEXINIT, INIT or REPLY fits when it is its turn.
LEMMA SealedKex ==
    ASSUME NEW x, NEW w, NEW s, NEW step, NEW pay, NEW dat, IsSeq(w),
           Linked(x, w, s, step, pay, dat), NEW r \in Nat, s.keyOut = <<r, r>>,
           s.packetsOut + 1 < Wrap, r = 0 => s.seqOut + 1 < Wrap,
           NEW m, step \in {0, 1}, m.type = Token(s.name, step),
           step = 0 => /\ m.n = <<r + 1, s.offer>>
                       /\ r = 0 => s.seqOut = 0
                       /\ r # 0 => pay >= 2,
           m.type = "reply" => m.n = <<r + 1, r + 1>>,
           NEW d, d.name = s.name, d.offer = s.offer, d.keyOut = s.keyOut,
           d.out = Append(s.out, Packet(s, m)),
           d.seqOut = (s.seqOut + 1) % Wrap, d.packetsOut = s.packetsOut + 1
    PROVE  Linked(x, w, d, step + 1, pay, dat)
  <1> DEFINE y == Sender(s, step, pay, dat)
             z == Sender(d, step + 1, pay, dat)
             p == Packet(s, m)
  <1>1. /\ pay \in Nat /\ dat \in 0 .. MaxData /\ s.seqOut \in Nat /\ s.packetsOut \in Nat
    BY SenderView
  <1>2. /\ y.round = r /\ y.step = step /\ y.pay = pay /\ y.dat = dat /\ y.seq = s.seqOut
        /\ y.cnt = s.packetsOut
    BY DEF Sender
  <1>3. p.type = m.type /\ p.n = m.n /\ p.key = <<r, r>> /\ p.seq = s.seqOut
    BY DEF Packet
  <1>4. p.type \in {"kexinit", "init", "reply"}
    BY <1>3 DEF Token
  <1>5. z = [round |-> r, step |-> step + 1, pay |-> pay, dat |-> dat,
             seq |-> (s.seqOut + 1) % Wrap, cnt |-> s.packetsOut + 1]
    BY DEF Sender
  <1>6. z \in View
    <2>1. (s.seqOut + 1) % Wrap \in Nat
      BY <1>1, NextSeq
    <2>2. step + 1 \in 0 .. 2
      OBVIOUS
    <2> QED BY SMTT(30), <1>1, <1>5, <2>1, <2>2 DEF View
  <1> HIDE DEF y, z, p
  <1>7. Fits(s.name, s.offer, y, p)
    BY <1>2, <1>3, <1>4 DEF Fits
  <1>8. z = Advance(s.offer, y, p)
    BY <1>2, <1>4, <1>5 DEF Advance, KexTokens
  <1> QED BY <1>6, <1>7, <1>8, LinkedAppend DEF y, z, p

\* NEWKEYS fits when it is its turn.
LEMMA SealedNewkeys ==
    ASSUME NEW x, NEW w, NEW s, NEW pay, NEW dat, IsSeq(w),
           Linked(x, w, s, 2, pay, dat), NEW r \in Nat, s.keyOut = <<r, r>>,
           s.packetsOut + 1 < Wrap, r = 0 => s.seqOut + 1 < Wrap,
           NEW m, m.type = "newkeys",
           NEW d, d.name = s.name, d.offer = s.offer, d.keyOut = <<r + 1, r + 1>>,
           d.out = Append(s.out, Packet(s, m)),
           d.seqOut = IF s.offer THEN 0 ELSE (s.seqOut + 1) % Wrap, d.packetsOut = 0
    PROVE  Linked(x, w, d, 0, pay, dat)
  <1> DEFINE y == Sender(s, 2, pay, dat)
             z == Sender(d, 0, pay, dat)
             p == Packet(s, m)
  <1>1. /\ pay \in Nat /\ dat \in 0 .. MaxData /\ s.seqOut \in Nat /\ s.packetsOut \in Nat
    BY SenderView
  <1>2. /\ y.round = r /\ y.step = 2 /\ y.pay = pay /\ y.dat = dat /\ y.seq = s.seqOut
        /\ y.cnt = s.packetsOut
    BY DEF Sender
  <1>3. p.type = "newkeys" /\ p.n = m.n /\ p.key = <<r, r>> /\ p.seq = s.seqOut
    BY DEF Packet
  <1>5. z = [round |-> r + 1, step |-> 0, pay |-> pay, dat |-> dat,
             seq |-> IF s.offer THEN 0 ELSE (s.seqOut + 1) % Wrap, cnt |-> 0]
    BY DEF Sender
  <1>6. z \in View
    <2>1. (IF s.offer THEN 0 ELSE (s.seqOut + 1) % Wrap) \in Nat
      BY <1>1, NextSeq
    <2>2. 0 \in 0 .. 2 /\ 0 \in Nat /\ r + 1 \in Nat
      OBVIOUS
    <2> QED BY <1>1, <1>5, <2>1, <2>2 DEF View
  <1> HIDE DEF y, z, p
  <1>7. Fits(s.name, s.offer, y, p)
    BY <1>2, <1>3 DEF Fits, Token
  <1>8. z = Advance(s.offer, y, p)
    BY <1>2, <1>3, <1>5 DEF Advance, KexTokens
  <1> QED BY <1>6, <1>7, <1>8, LinkedAppend DEF y, z, p

\* A packet above the transport fits while no exchange runs.
LEMMA SealedPayload ==
    ASSUME NEW x, NEW w, NEW s, NEW pay, NEW dat, IsSeq(w),
           Linked(x, w, s, 0, pay, dat), NEW r \in Nat \ {0}, s.keyOut = <<r, r>>,
           s.packetsOut + 1 < Wrap,
           NEW m, PayloadType(s.name, pay, m.type), m.n = pay + 1,
           m.type = "data" => dat < MaxData,
           m.type = "data" => s.packetsOut = 0 \/ s.packetsOut + 1 <= Limit(s.name),
           NEW d, d.name = s.name, d.offer = s.offer, d.keyOut = s.keyOut,
           d.out = Append(s.out, Packet(s, m)),
           d.seqOut = (s.seqOut + 1) % Wrap, d.packetsOut = s.packetsOut + 1
    PROVE  Linked(x, w, d, 0, pay + 1, IF m.type = "data" THEN dat + 1 ELSE dat)
  <1> DEFINE dat2 == IF m.type = "data" THEN dat + 1 ELSE dat
             y == Sender(s, 0, pay, dat)
             z == Sender(d, 0, pay + 1, dat2)
             p == Packet(s, m)
  <1>1. /\ pay \in Nat /\ dat \in 0 .. MaxData /\ s.seqOut \in Nat /\ s.packetsOut \in Nat
    BY SenderView
  <1>2. /\ y.round = r /\ y.step = 0 /\ y.pay = pay /\ y.dat = dat /\ y.seq = s.seqOut
        /\ y.cnt = s.packetsOut
    BY DEF Sender
  <1>3. p.type = m.type /\ p.n = m.n /\ p.key = <<r, r>> /\ p.seq = s.seqOut
    BY DEF Packet
  <1>4. p.type \notin KexTokens
    BY <1>3 DEF PayloadType, KexTokens
  <1>5. z = [round |-> r, step |-> 0, pay |-> pay + 1, dat |-> dat2,
             seq |-> (s.seqOut + 1) % Wrap, cnt |-> s.packetsOut + 1]
    BY DEF Sender
  <1>6. z \in View
    <2>1. (s.seqOut + 1) % Wrap \in Nat
      BY <1>1, NextSeq
    <2>2. dat2 \in 0 .. MaxData
      BY <1>1, TransportAssumption
    <2>3. 0 \in 0 .. 2 /\ pay + 1 \in Nat /\ s.packetsOut + 1 \in Nat
      BY <1>1
    <2> HIDE DEF dat2
    <2> QED BY <1>5, <2>1, <2>2, <2>3 DEF View
  <1> HIDE DEF y, z, p
  <1>7. Fits(s.name, s.offer, y, p)
    BY <1>2, <1>3 DEF Fits
  <1>8. z = Advance(s.offer, y, p)
    BY <1>2, <1>3, <1>4, <1>5 DEF Advance, KexTokens
  <1> QED BY <1>6, <1>7, <1>8, LinkedAppend DEF y, z, p

-----------------------------------------------------------------------------
(* KEXINIT. *)

\* What kex_send_kexinit does to an end that has not proposed.
LEMMA KexinitEffect ==
    ASSUME NEW s, Shape(s), ~s.init_sent, s.err = "none",
           s.packetsOut \in Nat, s.packetsOut + 1 < Wrap,
           ~s.initial \/ (s.seqOut + 1) % Wrap # 0
    PROVE  LET d == kex_send_kexinit(s)
           IN  /\ Same(s, d, Unsealed \cup {"done", "my", "rekeying", "init_sent"})
               /\ ~d.done /\ d.my = s.my + 1 /\ d.rekeying /\ d.init_sent
               /\ d.out = Append(s.out, Packet(s, [type |-> "kexinit",
                                                   n |-> <<s.my + 1, s.offer>>]))
               /\ d.seqOut = (s.seqOut + 1) % Wrap
               /\ d.packetsOut = s.packetsOut + 1
  <1> DEFINE t == [s EXCEPT !.done = FALSE, !.my = @ + 1, !.rekeying = TRUE]
             m == [type |-> "kexinit", n |-> <<t.my, t.offer>>]
             u == ssh_packet_send2_wrapped(t, m)
             d == [u EXCEPT !.init_sent = TRUE]
  <1>1. /\ Same(s, t, {"done", "my", "rekeying"})
        /\ ~t.done /\ t.my = s.my + 1 /\ t.rekeying
    BY DEF Same, Shape, Fields
  <1> HIDE DEF t
  <1>2. /\ t.err = "none" /\ t.packetsOut = s.packetsOut /\ t.initial = s.initial
        /\ t.seqOut = s.seqOut /\ t.keyOut = s.keyOut /\ t.offer = s.offer /\ t.out = s.out
        /\ Shape(t)
    BY <1>1 DEF Same, Fields
  <1>3. m.type = "kexinit" /\ m.n = <<s.my + 1, s.offer>>
        /\ m = [type |-> "kexinit", n |-> <<s.my + 1, s.offer>>]
    BY <1>1, <1>2
  <1> HIDE DEF m
  <1>4. /\ Same(t, u, Unsealed)
        /\ u.out = Append(t.out, Packet(t, m))
        /\ u.seqOut = (t.seqOut + 1) % Wrap
        /\ u.packetsOut = t.packetsOut + 1
    BY <1>2, <1>3, WrappedPlain
  <1> HIDE DEF u
  <1>5. u.err = "none" /\ Alive(u)
    BY <1>2, <1>4 DEF Same, Fields, Unsealed, Alive, Fatal
  <1>6. kex_send_kexinit(s) = d
    BY <1>5 DEF kex_send_kexinit, t, m, u
  <1>7. Same(u, d, {"init_sent"}) /\ d.init_sent
    BY <1>4 DEF Same, Shape, Fields
  <1> HIDE DEF d
  <1>8. /\ d.out = u.out /\ d.seqOut = u.seqOut /\ d.packetsOut = u.packetsOut
        /\ ~d.done /\ d.my = s.my + 1 /\ d.rekeying
    BY <1>1, <1>4, <1>7 DEF Same, Fields, Unsealed
  <1>9. Packet(t, m) = Packet(s, m)
    BY <1>2 DEF Packet
  <1>10. Same(s, d, Unsealed \cup {"done", "my", "rekeying", "init_sent"})
    BY <1>1, <1>4, <1>7 DEF Same
  <1> QED BY <1>2, <1>3, <1>4, <1>6, <1>7, <1>8, <1>9, <1>10

\* An idle end that may start an exchange does: it has then proposed the next one.
LEMMA RekexGood ==
    ASSUME NEW x, NEW w, NEW s, Consistent(x, w, s), s.done, s.after_authentication,
           s.phase \in {"auth", "session"}
    PROVE  LET d == kex_start_rekex(s)
           IN  /\ Good(x, w, d) /\ In(d) = In(s)
               /\ Same(s, d, Unsealed \cup {"done", "my", "rekeying", "init_sent"})
               /\ d.rekeying /\ d.init_sent /\ d.my # d.peer
               /\ ~d.done /\ d.my = s.my + 1
               /\ d.out = Append(s.out, Packet(s, [type |-> "kexinit",
                                                   n |-> <<s.my + 1, s.offer>>]))
               /\ d.seqOut = (s.seqOut + 1) % Wrap
               /\ d.packetsOut = s.packetsOut + 1
  <1> USE DEF Consistent, Local
  <1> DEFINE t == [s EXCEPT !.done = FALSE]
             d == kex_send_kexinit(t)
             m == [type |-> "kexinit", n |-> <<s.my + 1, s.offer>>]
  <1>1. kex_start_rekex(s) = d
    BY DEF kex_start_rekex
  <1>2. Same(s, t, {"done"}) /\ ~t.done
    BY DEF Same, Shape, Fields
  <1> HIDE DEF t
  <1>3. /\ s.name \in Ends
        /\ s.my \in Nat /\ s.peer \in Nat /\ s.packetsOut \in Nat /\ s.seqOut \in Nat
        /\ s.sent \in Nat /\ s.data \in Nat /\ MaxData \in Nat /\ Wrap \in Nat
    BY TransportAssumption DEF Typed
  <1>4. /\ ~s.init_sent /\ s.my # 0 /\ s.my = s.peer /\ ~s.rekeying /\ ~s.initial
        /\ s.keyOut = <<s.my, s.my>> /\ s.keyIn = <<s.my, s.my>> /\ s.err = "none"
    BY DEF Stage, Typed
  <1>5. s.packetsOut + 3 < Wrap /\ Sent(s) >= 2
    <2>1. s.packetsOut + 3 < Wrap
      BY <1>4 DEF Counters
    <2>2. Len(s.outgoing) \in Nat
      BY DEF Typed
    <2>3. CASE s.phase = "session"
      <3>1. Answers(s) = s.sent + s.data - 2 - MaxData
        BY <2>3 DEF Answers
      <3>2. Held(s) \in {0, 1}
        BY DEF Held
      <3>3. Len(s.outgoing) <= Answers(s) + Held(s) /\ Held(s) <= MaxData - s.data
        BY DEF Queue
      <3> QED BY SMTT(30), <1>3, <2>1, <2>2, <3>1, <3>2, <3>3 DEF Sent
    <2>4. CASE s.phase = "auth"
      <3>1. s.name = "client" /\ s.sent = 2 /\ s.outgoing = <<>>
        BY <2>4 DEF Phase, Queue
      <3>2. Len(s.outgoing) = 0
        BY <3>1
      <3> QED BY <2>1, <3>1, <3>2 DEF Sent
    <2> QED BY <2>1, <2>3, <2>4
  <1>6. /\ t.err = "none" /\ ~t.init_sent /\ t.packetsOut = s.packetsOut /\ ~t.initial
        /\ t.seqOut = s.seqOut /\ t.my = s.my /\ t.offer = s.offer /\ t.keyOut = s.keyOut
        /\ t.out = s.out
    BY <1>2, <1>4 DEF Same, Fields
  <1>7. /\ Same(t, d, Unsealed \cup {"done", "my", "rekeying", "init_sent"})
        /\ ~d.done /\ d.my = s.my + 1 /\ d.rekeying /\ d.init_sent
        /\ d.out = Append(s.out, Packet(s, m))
        /\ d.seqOut = (s.seqOut + 1) % Wrap
        /\ d.packetsOut = s.packetsOut + 1
    <2>1. Shape(t) /\ t.packetsOut + 1 < Wrap
      BY <1>2, <1>3, <1>5, <1>6 DEF Same
    <2>2. Packet(t, m) = Packet(s, m)
      BY <1>6 DEF Packet
    <2> QED BY ZenonT(40), <1>3, <1>6, <2>1, <2>2, KexinitEffect
  <1>8. Same(s, d, Unsealed \cup {"done", "my", "rekeying", "init_sent"})
    BY <1>2, <1>7 DEF Same
  <1> HIDE DEF d
  <1>9. /\ Shape(d) /\ d.name = s.name /\ d.offer = s.offer /\ d.phase = s.phase
        /\ d.err = s.err /\ d.outgoing = s.outgoing
        /\ d.after_authentication = s.after_authentication /\ d.keyOut = s.keyOut
        /\ d.keyIn = s.keyIn /\ d.seqIn = s.seqIn /\ d.packetsIn = s.packetsIn
        /\ d.initial = s.initial /\ d.strict = s.strict /\ d.peer = s.peer
        /\ d.newOut = s.newOut /\ d.handlers = s.handlers /\ d.sent = s.sent
        /\ d.got = s.got /\ d.data = s.data
    BY <1>8 DEF Same, Fields, Unsealed
  <1>10. (s.seqOut + 1) % Wrap \in Nat
    BY <1>3, NextSeq
  <1>11. Typed(d)
    <2>1. d.seqOut \in Nat /\ d.my \in Nat /\ d.packetsOut \in Nat
      BY SMTT(30), <1>3, <1>7, <1>10
    <2>2. Typed(s)
      OBVIOUS
    <2> QED BY ONLY <1>9, <2>1, <2>2 DEF Typed
  <1>12. Stage(d)
    BY <1>3, <1>4, <1>7, <1>9 DEF Stage
  <1>13. Phase(d)
    BY <1>3, <1>4, <1>7, <1>9 DEF Phase
  <1>14. Queue(d)
    BY <1>9 DEF Queue, Answers, Held, Top
  <1>15. Counters(d)
    BY SMTT(30), <1>3, <1>4, <1>5, <1>7, <1>9 DEF Counters, InitSent, Phase
  <1>16. Handlers(d)
    BY <1>3, <1>4, <1>7, <1>9 DEF Handlers, Awaited
  <1>17. InOrder(d)
    BY <1>9 DEF InOrder
  <1>18. Linked(x, w, d, 1, Sent(s), DataSent(s))
    <2>1. Linked(x, w, s, 0, Sent(s), DataSent(s))
      BY <1>4 DEF OutStep
    <2>2. Sent(s) >= 2
      BY <1>5
    <2>3. m.type = Token(s.name, 0) /\ m.n = <<s.my + 1, s.offer>>
      BY DEF Token
    <2> HIDE DEF m
    <2>4. s.packetsOut + 1 < Wrap /\ 0 \in {0, 1} /\ m.type # "reply" /\ IsSeq(w)
      BY <1>3, <1>5, <2>3 DEF Token
    <2>5. /\ s.my \in Nat /\ s.keyOut = <<s.my, s.my>>
          /\ s.my = 0 => s.seqOut + 1 < Wrap
          /\ 0 = 0 => /\ m.n = <<s.my + 1, s.offer>>
                      /\ s.my = 0 => s.seqOut = 0
                      /\ s.my # 0 => Sent(s) >= 2
          /\ m.type = "reply" => m.n = <<s.my + 1, s.my + 1>>
          /\ d.name = s.name /\ d.offer = s.offer /\ d.keyOut = s.keyOut
      BY ONLY <1>3, <1>4, <1>9, <2>2, <2>3, <2>4
    <2>6. Linked(x, w, d, 0 + 1, Sent(s), DataSent(s))
      BY ONLY <1>7, <2>1, <2>3, <2>4, <2>5, SealedKex
    <2> QED BY <2>6
  <1>19. OutStep(d) = 1 /\ Sent(d) = Sent(s) /\ DataSent(d) = DataSent(s)
    BY <1>3, <1>4, <1>7, <1>9 DEF OutStep, InitSent, Sent, DataSent, Held
  <1>20. In(d) = In(s)
    BY SMTT(30), <1>3, <1>4, <1>7, <1>9 DEF In, InStep, Answers
  <1>21. d.my # d.peer
    BY <1>3, <1>4, <1>7, <1>9
  <1> QED BY <1>1, <1>7, <1>8, <1>9, <1>11, <1>12, <1>13, <1>14, <1>15, <1>16, <1>17,
             <1>18, <1>19, <1>20, <1>21 DEF Good

\* Fields that Good does not speak of, or only of their type.
LEMMA GoodSame ==
    ASSUME NEW x, NEW w, NEW s, Good(x, w, s), NEW d,
           Same(s, d, {"seqIn", "packetsIn", "expired", "manual", "nonces", "reused"}),
           d.seqIn \in Nat, d.packetsIn \in Nat, s.packetsIn <= d.packetsIn
    PROVE  Good(x, w, d)
  <1>1. /\ Shape(d) /\ d.name = s.name /\ d.offer = s.offer /\ d.phase = s.phase
        /\ d.err = s.err /\ d.outgoing = s.outgoing /\ d.out = s.out
        /\ d.after_authentication = s.after_authentication /\ d.keyOut = s.keyOut
        /\ d.keyIn = s.keyIn /\ d.seqOut = s.seqOut /\ d.packetsOut = s.packetsOut
        /\ d.initial = s.initial /\ d.strict = s.strict /\ d.peer = s.peer /\ d.my = s.my
        /\ d.newOut = s.newOut /\ d.newIn = s.newIn /\ d.handlers = s.handlers
        /\ d.sent = s.sent /\ d.got = s.got /\ d.data = s.data
        /\ d.rekeying = s.rekeying /\ d.done = s.done /\ d.init_sent = s.init_sent
    BY DEF Same, Fields
  <1>2. Typed(s) /\ Stage(s) /\ Phase(s) /\ Queue(s) /\ Counters(s) /\ Handlers(s) /\ InOrder(s)
    BY DEF Good, Consistent, Local
  <1>3. Typed(d)
    BY ONLY <1>1, <1>2, d.seqIn \in Nat, d.packetsIn \in Nat DEF Typed
  <1>4. Stage(d)
    BY ONLY <1>1, <1>2 DEF Stage
  <1>5. Phase(d)
    BY ONLY <1>1, <1>2 DEF Phase
  <1>6. Queue(d) /\ Held(d) = Held(s) /\ Answers(d) = Answers(s) /\ Top(d) = Top(s)
    <2>1. Held(d) = Held(s) /\ Answers(d) = Answers(s) /\ Top(d) = Top(s)
      BY ONLY <1>1 DEF Held, Answers, Top
    <2>2. Len(d.outgoing) <= Held(d) + d.packetsIn
      <3>1. Held(s) \in Nat
        BY DEF Held
      <3>2. Len(s.outgoing) \in Nat /\ s.packetsIn \in Nat
        BY <1>2 DEF Typed
      <3>3. Len(s.outgoing) <= Held(s) + s.packetsIn
        BY <1>2 DEF Queue
      <3> QED BY ONLY <1>1, <2>1, <3>1, <3>2, <3>3, d.packetsIn \in Nat,
                      s.packetsIn <= d.packetsIn
    <2> QED BY ONLY <1>1, <1>2, <2>1, <2>2 DEF Queue
  <1>7. Counters(d)
    BY ONLY <1>1, <1>2, <1>6 DEF Counters, InitSent
  <1>8. Handlers(d) /\ InOrder(d)
    BY ONLY <1>1, <1>2 DEF Handlers, Awaited, InOrder
  <1>9. OutStep(d) = OutStep(s) /\ Sent(d) = Sent(s) /\ DataSent(d) = DataSent(s)
    BY <1>1, <1>6 DEF OutStep, InitSent, Sent, DataSent
  <1>10. Linked(x, w, d, OutStep(s), Sent(s), DataSent(s))
    <2>1. Linked(x, w, s, OutStep(s), Sent(s), DataSent(s))
      BY DEF Good, Consistent
    <2> QED BY <1>1, <2>1 DEF Linked, Sender
  <1> QED BY <1>1, <1>3, <1>4, <1>5, <1>6, <1>7, <1>8, <1>9, <1>10
          DEF Good, Consistent, Local

\* ssh_packet_check_rekey starts an exchange or does nothing.
LEMMA CheckRekeyGood ==
    ASSUME NEW x, NEW w, NEW s, Good(x, w, s), s.phase \in {"kex", "auth", "session"}
    PROVE  LET d == ssh_packet_check_rekey(s)
           IN  /\ Good(x, w, d) /\ In(d) = In(s)
               /\ Same(s, d, Unsealed \cup {"done", "my", "rekeying", "init_sent"})
               /\ \/ d = s
                  \/ /\ s.done /\ s.after_authentication
                     /\ d.rekeying /\ d.init_sent /\ d.my # d.peer
  <1>1. CASE ssh_packet_need_rekeying(s, 0)
    <2>1. s.after_authentication /\ s.done
      BY <1>1 DEF ssh_packet_need_rekeying, ssh_packet_is_rekeying
    <2>2. s.phase \in {"auth", "session"} /\ Consistent(x, w, s)
      BY <2>1 DEF Good, Consistent, Local, Phase
    <2> QED BY <1>1, <2>1, <2>2, RekexGood DEF ssh_packet_check_rekey
  <1>2. CASE ~ssh_packet_need_rekeying(s, 0)
    <2>1. ssh_packet_check_rekey(s) = s
      BY <1>2 DEF ssh_packet_check_rekey
    <2>2. Same(s, s, Unsealed \cup {"done", "my", "rekeying", "init_sent"})
      BY DEF Good, Consistent, Same
    <2> QED BY <2>1, <2>2
  <1> QED BY <1>1, <1>2

\* What a packet of either type does to the number of answers.
LEMMA AnswersOf ==
    ASSUME NEW s, NEW q, NEW type, s.sent \in Nat, s.data \in Nat, q.data \in Nat,
           MaxData \in Nat,
           Answers(s) = s.sent + s.data - 2 - MaxData,
           Answers(q) = s.sent + 1 + q.data - 2 - MaxData,
           \/ type = "answer" /\ q.data = s.data
           \/ type = "data" /\ q.data = s.data - 1
    PROVE  /\ Answers(q) = IF type = "answer" THEN Answers(s) + 1 ELSE Answers(s)
           /\ Answers(q) >= Answers(s) /\ Answers(s) \in Int /\ Answers(q) \in Int
  <1>1. Answers(q) = IF type = "answer" THEN Answers(s) + 1 ELSE Answers(s)
    OBVIOUS
  <1>2. Answers(s) \in Int
    OBVIOUS
  <1> QED BY <1>1, <1>2

\* A packet put in the queue: nothing is written.
LEMMA QueuedConsistent ==
    ASSUME NEW x, NEW w, NEW s, Consistent(x, w, s), s.phase = "session",
           NEW type, NEW q, Same(s, q, {"sent", "data", "outgoing"}),
           q.sent = s.sent + 1,
           q.outgoing = Append(s.outgoing, [type |-> type, n |-> s.sent + 1]),
           \/ type = "answer" /\ q.data = s.data /\ Answers(s) < MaxData /\ Room(s)
           \/ type = "data" /\ q.data = s.data - 1 /\ s.data > 0 /\ s.outgoing = <<>>
    PROVE  /\ Consistent(x, w, q)
           /\ Answers(q) = IF type = "answer" THEN Answers(s) + 1 ELSE Answers(s)
  <1> DEFINE m == [type |-> type, n |-> s.sent + 1]
             len == Len(s.outgoing)
  <1>0. /\ q.sent = s.sent + 1
        /\ \/ type = "answer" /\ q.data = s.data /\ Answers(s) < MaxData
           \/ type = "data" /\ q.data = s.data - 1 /\ s.data > 0 /\ s.outgoing = <<>>
    OBVIOUS
  <1>1. /\ Shape(q) /\ q.name = s.name /\ q.offer = s.offer /\ q.phase = s.phase
        /\ q.err = s.err /\ q.out = s.out
        /\ q.after_authentication = s.after_authentication /\ q.keyOut = s.keyOut
        /\ q.keyIn = s.keyIn /\ q.seqOut = s.seqOut /\ q.packetsOut = s.packetsOut
        /\ q.seqIn = s.seqIn /\ q.packetsIn = s.packetsIn
        /\ q.initial = s.initial /\ q.strict = s.strict /\ q.peer = s.peer /\ q.my = s.my
        /\ q.newOut = s.newOut /\ q.newIn = s.newIn /\ q.handlers = s.handlers
        /\ q.got = s.got
        /\ q.rekeying = s.rekeying /\ q.done = s.done /\ q.init_sent = s.init_sent
    BY DEF Same, Fields
  <1>2. /\ Typed(s) /\ Stage(s) /\ Phase(s) /\ Queue(s) /\ Counters(s) /\ Handlers(s)
        /\ InOrder(s)
    BY DEF Consistent, Local
  <1>3. s.sent \in Nat /\ s.data \in Nat /\ q.data \in Nat /\ MaxData \in Nat /\ len \in Nat
    BY SMTT(30), <1>2, TransportAssumption DEF Typed
  <1>30. s.outgoing \in Seq([type : {"data", "answer"}, n : Nat])
    BY <1>2 DEF Typed
  <1>4. m \in [type : {"data", "answer"}, n : Nat] /\ m.type = type /\ m.n = s.sent + 1
    BY <1>3
  <1>5. q.outgoing = Append(s.outgoing, m)
    OBVIOUS
  <1> HIDE DEF m
  <1>6. /\ q.outgoing \in Seq([type : {"data", "answer"}, n : Nat])
        /\ Len(q.outgoing) = len + 1 /\ q.outgoing[len + 1] = m
        /\ \A i \in 1 .. len : q.outgoing[i] = s.outgoing[i]
    BY <1>3, <1>30, <1>4, <1>5
  <1> HIDE DEF len
  <1>60. Len(q.outgoing) = len + 1
    BY <1>6
  <1>7. Typed(q)
    BY ONLY SMTT(30), <1>1, <1>2, <1>3, <1>6, q.sent = s.sent + 1 DEF Typed
  <1>8. Stage(q)
    BY ONLY <1>1, <1>2 DEF Stage
  <1>9. Phase(q)
    BY <1>1, <1>2, <1>3 DEF Phase
  <1>10. /\ Answers(s) = s.sent + s.data - 2 - MaxData
         /\ Answers(q) = s.sent + 1 + q.data - 2 - MaxData
    BY <1>1 DEF Answers
  <1>110. /\ Answers(q) = IF type = "answer" THEN Answers(s) + 1 ELSE Answers(s)
          /\ Answers(q) >= Answers(s) /\ Answers(s) \in Int /\ Answers(q) \in Int
    BY ONLY <1>0, <1>3, <1>10, AnswersOf
  <1>11. Answers(q) = IF type = "answer" THEN Answers(s) + 1 ELSE Answers(s)
    BY <1>110
  <1>12. Held(s) \in {0, 1} /\ (s.outgoing = <<>> => Held(s) = 0)
    BY DEF Held
  <1>13. Held(q) = IF type = "data" THEN 1 ELSE Held(s)
    <2>1. q.outgoing # <<>>
      BY ONLY <1>3, <1>60
    <2>2. CASE s.outgoing = <<>>
      <3>1. len = 0
        BY <2>2 DEF len
      <3>2. q.outgoing[1] = m
        BY <1>6, <3>1
      <3> QED BY <1>4, <1>12, <2>1, <2>2, <3>2 DEF Held
    <2>3. CASE s.outgoing # <<>>
      <3>1. len # 0
        BY <1>3, <2>3 DEF len
      <3>2. 1 \in 1 .. len
        BY <1>3, <3>1
      <3>3. q.outgoing[1] = s.outgoing[1]
        BY <1>6, <3>2
      <3> QED BY <1>4, <2>1, <2>3, <3>3 DEF Held
    <2> QED BY <2>2, <2>3
  <1>14. Queue(q)
    <2>1. /\ \A i \in 1 .. len : /\ s.outgoing[i].n = s.sent - len + i
                                 /\ i # 1 => s.outgoing[i].type = "answer"
          /\ len <= Answers(s) + Held(s) /\ Held(s) <= MaxData - s.data
          /\ 0 <= Answers(s) /\ Answers(s) <= MaxData
      BY <1>2 DEF Queue, len
    <2>2. ASSUME NEW i \in 1 .. len + 1
          PROVE  /\ q.outgoing[i].n = q.sent - (len + 1) + i
                 /\ i # 1 => q.outgoing[i].type = "answer"
      <3>1. CASE i = len + 1
        <4>1. q.outgoing[i] = m
          BY <1>6, <3>1
        <4>2. i # 1 => type = "answer"
          <5>1. s.outgoing = <<>> => len = 0
            BY DEF len
          <5> QED BY <3>1, <5>1
        <4> QED BY ONLY <1>0, <1>3, <1>4, <3>1, <4>1, <4>2
      <3>2. CASE i # len + 1
        <4>1. i \in 1 .. len
          BY <1>3, <3>2
        <4>2. q.outgoing[i] = s.outgoing[i]
          BY <1>6, <4>1
        <4>3. s.outgoing[i].n = s.sent - len + i /\ (i # 1 => s.outgoing[i].type = "answer")
          BY <2>1, <4>1
        <4>4. s.sent - len + i = (s.sent + 1) - (len + 1) + i
          BY ONLY <1>3, i \in 1 .. len + 1
        <4>5. q.sent = s.sent + 1
          BY <1>0
        <4> QED BY ONLY <4>2, <4>3, <4>4, <4>5
      <3> QED BY <3>1, <3>2
    <2>3. Len(q.outgoing) <= Answers(q) + Held(q) /\ Held(q) <= MaxData - q.data
      <3>1. CASE type = "answer"
        BY ONLY SMTT(30), <1>0, <1>3, <1>60, <1>10, <1>11, <1>12, <1>13, <2>1, <3>1
      <3>2. CASE type = "data"
        <4>1. len = 0
          BY <3>2 DEF len
        <4> QED BY ONLY SMTT(30), <1>0, <1>3, <1>60, <1>10, <1>11, <1>12, <1>13, <2>1, <3>2, <4>1
      <3> QED BY <3>1, <3>2
    <2>4. 0 <= Answers(q) /\ Answers(q) <= MaxData
      BY SMTT(30), <1>3, <1>10, <1>11, <2>1
    <2>5. len + 1 <= Held(q) + q.packetsIn /\ len + 1 <= Held(q) + Top(q)
      <3>1. Top(q) = Top(s) /\ Top(s) \in Nat /\ q.packetsIn = s.packetsIn /\ s.packetsIn \in Nat
        BY <1>1, <1>2, TopBound DEF Top, Typed
      <3>2. CASE type = "answer"
        <4>1. len < Held(s) + s.packetsIn /\ s.packetsIn <= Top(s)
          BY <3>2 DEF Room, len
        <4> QED BY ONLY <1>3, <1>12, <1>13, <3>1, <3>2, <4>1
      <3>3. CASE type = "data"
        <4>1. len = 0
          BY <3>3 DEF len
        <4> QED BY ONLY <1>3, <1>13, <3>1, <3>3, <4>1
      <3> QED BY <3>2, <3>3
    <2> QED BY <1>1, <1>6, <2>2, <2>3, <2>4, <2>5 DEF Queue
  <1>15. Counters(q)
    <2>1. s.packetsOut \in Nat
      BY <1>2 DEF Typed
    <2>2. q.phase = "session"
      BY <1>1
    <2> QED BY ONLY <1>1, <1>2, <2>1, <2>2 DEF Counters, InitSent, Top
  <1>16. Handlers(q) /\ InOrder(q)
    BY ONLY <1>1, <1>2 DEF Handlers, Awaited, InOrder
  <1>17. OutStep(q) = OutStep(s)
    BY <1>1 DEF OutStep, InitSent
  <1>18. Sent(q) = Sent(s)
    BY ONLY SMTT(30), <1>0, <1>3, <1>60 DEF Sent, len
  <1>19. DataSent(q) = DataSent(s)
    BY ONLY <1>0, <1>3, <1>12, <1>13 DEF DataSent
  <1>20. Linked(x, w, q, OutStep(s), Sent(s), DataSent(s))
    <2>1. Linked(x, w, s, OutStep(s), Sent(s), DataSent(s))
      BY DEF Consistent
    <2> QED BY <1>1, <2>1 DEF Linked, Sender
  <1>21. IsSeq(w)
    BY DEF Consistent
  <1> QED BY <1>1, <1>7, <1>8, <1>9, <1>11, <1>14, <1>15, <1>16, <1>17, <1>18, <1>19, <1>20,
             <1>21 DEF Consistent, Local

\* In a session two packets have gone out before those of the queue.
LEMMA SentTwo ==
    ASSUME NEW s, Typed(s), Phase(s), Queue(s), s.phase = "session"
    PROVE  Sent(s) >= 2 /\ Sent(s) \in Nat
  <1>1. s.sent \in Nat /\ s.data \in Nat /\ MaxData \in Nat /\ Len(s.outgoing) \in Nat
    BY TransportAssumption DEF Typed
  <1>2. Answers(s) = s.sent + s.data - 2 - MaxData
    BY DEF Answers
  <1>3. Held(s) \in {0, 1}
    BY DEF Held
  <1>4. Len(s.outgoing) <= Answers(s) + Held(s) /\ Held(s) <= MaxData - s.data
    BY DEF Queue
  <1>5. Sent(s) = s.sent - Len(s.outgoing)
    BY DEF Sent
  <1> QED BY ONLY SMTT(30), <1>1, <1>2, <1>3, <1>4, <1>5

\* What is left of the queue without its first packet.
LEMMA QueueTail ==
    ASSUME NEW S, NEW q \in Seq(S), q # <<>>
    PROVE  /\ Len(q) # 0 /\ q[1] \in S /\ Tail(q) \in Seq(S) /\ Len(Tail(q)) = Len(q) - 1
           /\ \A i \in 1 .. Len(q) - 1 : Tail(q)[i] = q[i + 1]
  OBVIOUS

\* The first packet of the queue goes out.
LEMMA DequeueSound ==
    ASSUME NEW x, NEW w, NEW s, Sound(x, w, s), ~s.rekeying, s.outgoing # <<>>,
           ~s.init_sent => s.packetsOut + 4 < Wrap,
           s.init_sent => s.packetsOut + Len(s.outgoing) <= Top(s) + 1,
           s.outgoing[1].type = "data" => s.packetsOut = 0 \/ s.packetsOut + 1 <= Limit(s.name),
           NEW d, Same(s, d, Unsealed \cup {"outgoing"}),
           d.outgoing = Tail(s.outgoing),
           d.out = Append(s.out, Packet(s, s.outgoing[1])),
           d.seqOut = (s.seqOut + 1) % Wrap, d.packetsOut = s.packetsOut + 1
    PROVE  /\ Sound(x, w, d) /\ In(d) = In(s) /\ (Handlers(s) => Handlers(d))
           /\ d.init_sent => d.packetsOut + Len(d.outgoing) <= Top(d) + 1
           /\ Held(d) = 0
  <1> DEFINE m == s.outgoing[1]
             len == Len(s.outgoing)
  <1>0. /\ ~s.init_sent => s.packetsOut + 4 < Wrap
        /\ s.init_sent => s.packetsOut + len <= Top(s) + 1
        /\ m.type = "data" => s.packetsOut = 0 \/ s.packetsOut + 1 <= Limit(s.name)
        /\ d.packetsOut = s.packetsOut + 1
    OBVIOUS
  <1>1. /\ Shape(d) /\ d.name = s.name /\ d.offer = s.offer /\ d.phase = s.phase
        /\ d.err = s.err
        /\ d.after_authentication = s.after_authentication /\ d.keyOut = s.keyOut
        /\ d.keyIn = s.keyIn
        /\ d.seqIn = s.seqIn /\ d.packetsIn = s.packetsIn
        /\ d.initial = s.initial /\ d.strict = s.strict /\ d.peer = s.peer /\ d.my = s.my
        /\ d.newOut = s.newOut /\ d.newIn = s.newIn /\ d.handlers = s.handlers
        /\ d.got = s.got /\ d.sent = s.sent /\ d.data = s.data
        /\ d.rekeying = s.rekeying /\ d.done = s.done /\ d.init_sent = s.init_sent
    BY DEF Same, Fields, Unsealed
  <1>2. /\ Typed(s) /\ Stage(s) /\ Phase(s) /\ Queue(s) /\ Counters(s)
        /\ InOrder(s) /\ IsSeq(w)
    BY DEF Sound, Local
  <1>3. /\ s.sent \in Nat /\ s.data \in Nat /\ MaxData \in Nat /\ len \in Nat
        /\ s.packetsOut \in Nat /\ s.seqOut \in Nat /\ s.my \in Nat /\ Wrap \in Nat
    BY <1>2, TransportAssumption DEF Typed
  <1>4. s.outgoing \in Seq([type : {"data", "answer"}, n : Nat])
    BY <1>2 DEF Typed
  <1>5. s.phase = "session"
    BY <1>2 DEF Queue
  <1>6. /\ len # 0 /\ m \in [type : {"data", "answer"}, n : Nat]
        /\ d.outgoing \in Seq([type : {"data", "answer"}, n : Nat])
        /\ Len(d.outgoing) = len - 1
        /\ \A i \in 1 .. len - 1 : d.outgoing[i] = s.outgoing[i + 1]
    BY <1>4, QueueTail
  <1>7. Len(d.outgoing) = len - 1 /\ len # 0
    BY <1>6
  <1>8. /\ \A i \in 1 .. len : /\ s.outgoing[i].n = s.sent - len + i
                               /\ i # 1 => s.outgoing[i].type = "answer"
        /\ len <= Answers(s) + Held(s) /\ Held(s) <= MaxData - s.data
        /\ 0 <= Answers(s) /\ Answers(s) <= MaxData
    BY <1>2 DEF Queue
  <1>80. /\ len <= Answers(s) + Held(s) /\ Held(s) <= MaxData - s.data
         /\ 0 <= Answers(s) /\ Answers(s) <= MaxData
    BY <1>8
  <1>81. len <= Held(s) + s.packetsIn /\ len <= Held(s) + Top(s)
    BY <1>2 DEF Queue
  <1>82. /\ Top(d) = Top(s) /\ Top(s) \in Nat /\ 1 <= Top(s) /\ Top(s) + 4 < Wrap
         /\ s.packetsIn \in Nat
    BY <1>1, <1>2, TopBound DEF Top, Typed
  <1>9. Held(s) = IF m.type = "data" THEN 1 ELSE 0
    BY DEF Held
  <1>10. m.type \in {"data", "answer"} /\ m.n = s.sent - len + 1
    <2>1. 1 \in 1 .. len
      BY ONLY <1>3, <1>7
    <2>2. s.outgoing[1].n = s.sent - len + 1
      BY <1>8, <2>1
    <2> QED BY <1>6, <2>2
  <1> HIDE DEF m, len
  <1>11. Held(d) = 0
    <2>1. CASE d.outgoing = <<>>
      BY <2>1 DEF Held
    <2>2. CASE d.outgoing # <<>>
      <3>1. Len(d.outgoing) # 0
        BY SMTT(30), <1>6, <2>2
      <3>2. 1 \in 1 .. len - 1 /\ 1 + 1 \in 1 .. len /\ 1 + 1 # 1
        BY ONLY <1>3, <1>7, <3>1
      <3>3. d.outgoing[1].type = "answer"
        BY <1>6, <1>8, <3>2
      <3> QED BY <3>3 DEF Held
    <2> QED BY <2>1, <2>2
  <1>12. /\ Answers(s) = s.sent + s.data - 2 - MaxData
         /\ Answers(d) = Answers(s)
    BY <1>1, <1>5 DEF Answers
  <1>13. Answers(s) \in Int
    BY <1>3, <1>12
  <1>14. (s.seqOut + 1) % Wrap \in Nat
    BY <1>3, NextSeq
  <1>15. Typed(d)
    <2>1. d.seqOut \in Nat /\ d.packetsOut \in Nat
      BY SMTT(30), <1>3, <1>14
    <2> QED BY ONLY <1>1, <1>2, <1>6, <2>1 DEF Typed
  <1>16. Stage(d) /\ Phase(d)
    BY ONLY <1>1, <1>2 DEF Stage, Phase
  <1>17. Queue(d)
    <2>1. ASSUME NEW i \in 1 .. len - 1
          PROVE  /\ d.outgoing[i].n = d.sent - (len - 1) + i
                 /\ i # 1 => d.outgoing[i].type = "answer"
      <3>1. i + 1 \in 1 .. len /\ i + 1 # 1
        BY ONLY <1>3, i \in 1 .. len - 1
      <3>2. d.outgoing[i] = s.outgoing[i + 1]
        BY <1>6
      <3>3. s.outgoing[i + 1].n = s.sent - len + (i + 1) /\ s.outgoing[i + 1].type = "answer"
        BY <1>8, <3>1
      <3>4. d.outgoing[i].n = s.sent - len + (i + 1) /\ d.outgoing[i].type = "answer"
        BY <3>2, <3>3
      <3>5. s.sent - len + (i + 1) = s.sent - (len - 1) + i
        BY ONLY <1>3, i \in 1 .. len - 1
      <3> QED BY ONLY <1>1, <3>4, <3>5
    <2>2. len - 1 <= Answers(d) + Held(d) /\ Held(d) <= MaxData - d.data
          /\ 0 <= Answers(d) /\ Answers(d) <= MaxData
      <3>1. d.data <= MaxData
        BY <1>1, <1>2 DEF Phase
      <3> QED BY ONLY SMTT(30), <1>1, <1>3, <1>7, <1>9, <1>80, <1>11, <1>12, <1>13, <3>1
    <2>3. len - 1 <= Held(d) + d.packetsIn /\ len - 1 <= Held(d) + Top(d)
      BY ONLY <1>1, <1>3, <1>9, <1>11, <1>81, <1>82
    <2> QED BY <1>1, <1>5, <1>7, <2>1, <2>2, <2>3 DEF Queue
  <1>18. Counters(d)
    <2>1. s.init_sent => d.packetsOut <= Top(d) + 1
      BY ONLY <1>0, <1>3, <1>7, <1>82
    <2>2. ~s.init_sent => d.packetsOut + 3 < Wrap
      BY ONLY <1>0, <1>3
    <2> QED BY ONLY <1>1, <1>5, <2>1, <2>2, ~s.rekeying DEF Counters, InitSent
  <1>19. (Handlers(s) => Handlers(d)) /\ InOrder(d)
    BY ONLY <1>1, <1>2 DEF Handlers, Awaited, InOrder
  <1>20. s.packetsOut + 1 < Wrap
    <2>1. CASE s.init_sent
      BY ONLY <1>0, <1>3, <1>7, <1>82, <2>1
    <2>2. CASE ~s.init_sent
      BY ONLY <1>0, <1>3, <2>2
    <2> QED BY <2>1, <2>2
  <1>21. Linked(x, w, d, 0, Sent(s) + 1, IF m.type = "data" THEN DataSent(s) + 1 ELSE DataSent(s))
    <2>1. Linked(x, w, s, 0, Sent(s), DataSent(s))
      BY DEF Sound, OutStep
    <2>2. s.my \in Nat \ {0} /\ s.keyOut = <<s.my, s.my>>
      BY <1>2, <1>3, <1>5 DEF Stage, Phase
    <2>3. Sent(s) >= 2 /\ Sent(s) \in Nat
      BY <1>2, <1>5, SentTwo
    <2>4. PayloadType(s.name, Sent(s), m.type)
      BY <1>10, <2>3 DEF PayloadType
    <2>5. m.n = Sent(s) + 1
      BY <1>10 DEF Sent, len
    <2>6. m.type = "data" => DataSent(s) < MaxData
      <3>1. DataSent(s) = MaxData - s.data - Held(s)
        BY DEF DataSent
      <3> QED BY ONLY <1>3, <1>9, <3>1
    <2>7. /\ d.name = s.name /\ d.offer = s.offer /\ d.keyOut = s.keyOut
          /\ d.out = Append(s.out, Packet(s, m))
          /\ d.seqOut = (s.seqOut + 1) % Wrap /\ d.packetsOut = s.packetsOut + 1
      BY <1>1 DEF m
    <2>8. m.type = "data" => s.packetsOut = 0 \/ s.packetsOut + 1 <= Limit(s.name)
      BY <1>0
    <2> QED BY ONLY <1>2, <1>20, <2>1, <2>2, <2>4, <2>5, <2>6, <2>7, <2>8, SealedPayload
  <1>22. OutStep(d) = 0 /\ Sent(d) = Sent(s) + 1
         /\ DataSent(d) = IF m.type = "data" THEN DataSent(s) + 1 ELSE DataSent(s)
    <2>1. OutStep(d) = 0
      BY <1>1 DEF OutStep
    <2>2. Sent(s) = s.sent - len /\ Sent(d) = s.sent - Len(d.outgoing)
      BY <1>1 DEF Sent, len
    <2>3. DataSent(s) = MaxData - s.data - Held(s) /\ DataSent(d) = MaxData - s.data - Held(d)
      BY <1>1 DEF DataSent
    <2>4. Sent(d) = Sent(s) + 1
      BY ONLY <1>3, <1>7, <2>2
    <2>5. DataSent(d) = IF m.type = "data" THEN DataSent(s) + 1 ELSE DataSent(s)
      BY ONLY <1>3, <1>9, <1>11, <2>3
    <2> QED BY <2>1, <2>4, <2>5
  <1>23. In(d) = In(s)
    BY <1>1, <1>12 DEF In, InStep
  <1>24. d.init_sent => d.packetsOut + Len(d.outgoing) <= Top(d) + 1
    BY ONLY <1>0, <1>1, <1>3, <1>7, <1>82
  <1> QED BY <1>1, <1>2, <1>11, <1>15, <1>16, <1>17, <1>18, <1>19, <1>21, <1>22, <1>23, <1>24
          DEF Sound, Local

\* A packet of the session handed to the transport: it goes out, waits in the
\* queue, or waits and starts an exchange.
LEMMA SessionSend ==
    ASSUME NEW x, NEW w, NEW s, Good(x, w, s), s.phase = "session",
           NEW type, NEW t, Same(s, t, {"sent", "data"}), t.sent = s.sent + 1,
           \/ /\ type = "answer" /\ t.data = s.data /\ Answers(s) < MaxData
              /\ Room(s) /\ (s.init_sent => s.rekeying)
           \/ type = "data" /\ t.data = s.data - 1 /\ s.data > 0 /\ ~s.rekeying /\ s.done
    PROVE  LET d == ssh_packet_send2(t, [type |-> type, n |-> s.sent + 1])
           IN  /\ Good(x, w, d)
               /\ In(d) = [In(s) EXCEPT !.dat = IF type = "answer" THEN @ + 1 ELSE @]
               /\ d.phase = "session" /\ d.name = s.name /\ d.offer = s.offer
  <1> DEFINE m == [type |-> type, n |-> s.sent + 1]
             q == [t EXCEPT !.outgoing = Append(@, m)]
             d == ssh_packet_send2(t, m)
             Dat == IF type = "answer" THEN Answers(s) + 1 ELSE Answers(s)
             Result(c) == /\ Good(x, w, c) /\ c.phase = "session"
                          /\ c.name = s.name /\ c.offer = s.offer
                          /\ In(c) = [In(s) EXCEPT !.dat = Dat]
  <1>0. [In(s) EXCEPT !.dat = IF type = "answer" THEN @ + 1 ELSE @] = [In(s) EXCEPT !.dat = Dat]
    BY DEF In
  <1>1. m.type = type /\ m.n = s.sent + 1 /\ type \in {"data", "answer"}
    OBVIOUS
  <1> HIDE DEF m
  <1>2. Same(t, q, {"outgoing"}) /\ q.outgoing = Append(t.outgoing, m)
    BY DEF Same, Shape, Fields
  <1> HIDE DEF q
  <1>3. /\ Consistent(x, w, s) /\ (~s.rekeying => s.outgoing = <<>>)
        /\ Typed(s) /\ Stage(s) /\ Phase(s) /\ Queue(s) /\ Counters(s)
    BY DEF Good, Consistent, Local
  <1>4. /\ t.outgoing = s.outgoing /\ t.rekeying = s.rekeying /\ t.done = s.done
        /\ t.after_authentication = s.after_authentication
        /\ t.packetsOut = s.packetsOut /\ t.packetsIn = s.packetsIn /\ t.name = s.name
        /\ t.initial = s.initial /\ t.out = s.out /\ t.keyOut = s.keyOut
        /\ t.seqOut = s.seqOut /\ t.init_sent = s.init_sent /\ Shape(t)
    BY DEF Same, Fields
  <1>5. /\ Same(s, q, {"sent", "data", "outgoing"})
        /\ q.sent = s.sent + 1 /\ q.data = t.data
        /\ q.outgoing = Append(s.outgoing, [type |-> type, n |-> s.sent + 1])
    BY <1>2, <1>4 DEF Same, Fields, m
  <1>6. Consistent(x, w, q) /\ Answers(q) = Dat
    <2>1. \/ type = "answer" /\ q.data = s.data /\ Answers(s) < MaxData /\ Room(s)
          \/ type = "data" /\ q.data = s.data - 1 /\ s.data > 0 /\ s.outgoing = <<>>
      BY <1>3, <1>5
    <2>2. Consistent(x, w, s) /\ s.phase = "session"
      BY <1>3
    <2> QED BY ONLY <1>5, <2>1, <2>2, QueuedConsistent
  <1>7. /\ q.phase = "session" /\ q.name = s.name /\ q.offer = s.offer
        /\ q.done = s.done /\ q.rekeying = s.rekeying
        /\ q.after_authentication = s.after_authentication
        /\ q.keyIn = s.keyIn /\ q.init_sent = s.init_sent /\ q.my = s.my /\ q.peer = s.peer
        /\ q.got = s.got /\ q.seqIn = s.seqIn /\ q.packetsIn = s.packetsIn
        /\ q.packetsOut = s.packetsOut /\ q.out = s.out /\ q.keyOut = s.keyOut
        /\ q.seqOut = s.seqOut
    BY <1>5 DEF Same, Fields
  <1>8. In(q) = [In(s) EXCEPT !.dat = Dat]
    BY <1>6, <1>7 DEF In, InStep
  <1>9. ~ssh_packet_type_is_kex(m.type)
    BY <1>1 DEF ssh_packet_type_is_kex, TransportRange
  <1>10. s.after_authentication
    BY <1>3 DEF Phase
  <1> HIDE DEF Dat
  <1>11. CASE ssh_packet_need_rekeying(t, 1)
    <2>1. d = kex_start_rekex(q)
      BY <1>9, <1>11 DEF ssh_packet_send2, q
    <2>2. q.done /\ q.after_authentication /\ q.phase \in {"auth", "session"}
      BY <1>4, <1>7, <1>11 DEF ssh_packet_need_rekeying, ssh_packet_is_rekeying
    <2> HIDE DEF d
    <2>3. /\ Good(x, w, d) /\ In(d) = In(q)
          /\ Same(q, d, Unsealed \cup {"done", "my", "rekeying", "init_sent"})
      BY <1>6, <2>1, <2>2, RekexGood
    <2>4. d.phase = q.phase /\ d.name = q.name /\ d.offer = q.offer
      BY <2>3 DEF Same, Fields, Unsealed
    <2>5. Result(d)
      BY <1>7, <1>8, <2>3, <2>4
    <2> QED BY <1>0, <2>5 DEF d, m
  <1>12. CASE ~ssh_packet_need_rekeying(t, 1) /\ s.rekeying
    <2>1. d = q
      BY <1>4, <1>9, <1>12 DEF ssh_packet_send2, q
    <2>2. Good(x, w, q)
      BY <1>6, <1>7, <1>12 DEF Good
    <2>3. Result(d)
      BY <1>7, <1>8, <2>1, <2>2
    <2> QED BY <1>0, <2>3 DEF d, m
  <1>13. CASE ~ssh_packet_need_rekeying(t, 1) /\ ~s.rekeying
    <2>1. m.type \notin {"newkeys", "success"}
      BY <1>1
    <2>2. d = ssh_packet_send2_wrapped(t, m)
      BY <1>4, <1>9, <1>13, <2>1 DEF ssh_packet_send2
    <2>3. s.packetsOut \in Nat /\ s.seqOut \in Nat /\ MaxData \in Nat /\ Wrap \in Nat
          /\ s.packetsIn \in Nat
      BY <1>3, TransportAssumption DEF Typed
    <2>4. ~s.initial
      BY <1>3 DEF Stage, Phase
    <2>5. ~s.init_sent
      BY <1>3, <1>13 DEF Stage
    <2>6. s.packetsOut = 0 \/ s.packetsOut + 1 <= Limit(s.name)
      <3>1. s.done
        BY <1>3, <2>5 DEF Stage, Phase
      <3>2. \/ s.packetsOut = 0
            \/ ~(s.packetsOut + 1 > Limit(s.name))
        BY <1>4, <1>10, <1>13, <3>1 DEF ssh_packet_need_rekeying, ssh_packet_is_rekeying
      <3>3. Limit(s.name) \in Nat
        BY ONLY TransportAssumption DEF Limit
      <3> QED BY ONLY <2>3, <3>2, <3>3
    <2>7. s.packetsOut + 4 < Wrap
      <3>1. Limit(s.name) \in Nat /\ Limit(s.name) + 4 < Wrap /\ 5 < Wrap
        BY ONLY TransportAssumption, CounterAssumption DEF Limit
      <3> QED BY ONLY <2>3, <2>6, <3>1
    <2>8. t.packetsOut + 1 < Wrap /\ t.packetsOut \in Nat
      BY ONLY <1>4, <2>3, <2>7
    <2>9. /\ Same(t, d, Unsealed)
          /\ d.out = Append(t.out, Packet(t, m))
          /\ d.seqOut = (t.seqOut + 1) % Wrap
          /\ d.packetsOut = t.packetsOut + 1
      BY <1>4, <2>1, <2>2, <2>4, <2>8, WrappedPlain
    <2> HIDE DEF d
    <2>10. s.outgoing = <<>>
      BY <1>3, <1>13
    <2>11. q.outgoing = <<m>>
      BY <1>2, <1>4, <2>10
    <2>12. q.outgoing # <<>> /\ q.outgoing[1] = m /\ Tail(q.outgoing) = <<>>
           /\ Len(q.outgoing) = 1
      BY <2>11
    <2>13. Same(q, d, Unsealed \cup {"outgoing"})
      BY <1>2, <2>9 DEF Same
    <2>14. d.outgoing = <<>>
      BY <1>4, <2>9, <2>10 DEF Same, Fields, Unsealed
    <2>15. Packet(t, m) = Packet(q, q.outgoing[1])
      BY <1>4, <1>7, <2>12 DEF Packet
    <2>16. /\ d.out = Append(q.out, Packet(q, q.outgoing[1]))
           /\ d.seqOut = (q.seqOut + 1) % Wrap /\ d.packetsOut = q.packetsOut + 1
           /\ d.outgoing = Tail(q.outgoing)
      BY <1>4, <1>7, <2>9, <2>12, <2>14, <2>15
    <2>17. /\ q.init_sent => q.packetsOut + Len(q.outgoing) <= Top(q) + 1
           /\ q.outgoing[1].type = "data" =>
                 q.packetsOut = 0 \/ q.packetsOut + 1 <= Limit(q.name)
      BY <1>7, <2>5, <2>6
    <2>18. ~q.rekeying /\ q.outgoing # <<>> /\ (~q.init_sent => q.packetsOut + 4 < Wrap)
      BY <1>7, <1>13, <2>7, <2>12
    <2>19. Consistent(x, w, d) /\ In(d) = In(q)
      <3>1. Sound(x, w, q) /\ Handlers(q)
        BY <1>6 DEF Consistent, Sound
      <3>2. Sound(x, w, d) /\ In(d) = In(q) /\ (Handlers(q) => Handlers(d))
        BY ONLY <3>1, <2>13, <2>16, <2>17, <2>18, DequeueSound
      <3> QED BY <3>1, <3>2 DEF Consistent, Sound
    <2>20. Good(x, w, d)
      BY <2>14, <2>19 DEF Good
    <2>21. d.phase = q.phase /\ d.name = q.name /\ d.offer = q.offer
      BY <2>13 DEF Same, Fields, Unsealed
    <2>22. Result(d)
      BY <1>7, <1>8, <2>19, <2>20, <2>21
    <2> QED BY <1>0, <2>22 DEF d, m
  <1> QED BY <1>11, <1>12, <1>13

\* The queue after i turns.
Rest(q, c, i) ==
    /\ Len(c) = Len(q) - i
    /\ \A j \in 1 .. Len(q) - i : c[j] = q[i + j]

\* One turn of Flush, between NEWKEYS sent and NEWKEYS read.
LEMMA DequeueTurn ==
    ASSUME NEW x, NEW w, NEW s, Sound(x, w, s), ~s.rekeying, s.init_sent,
           s.outgoing # <<>>, s.packetsOut + Len(s.outgoing) <= Top(s) + 1,
           s.phase = "session", Held(s) = 0 \/ s.packetsOut = 0
    PROVE  LET d == Dequeue(s, s.outgoing[1])
           IN  /\ Sound(x, w, d) /\ In(d) = In(s)
               /\ Same(s, d, Unsealed \cup {"outgoing"})
               /\ d.outgoing = Tail(s.outgoing)
               /\ d.packetsOut + Len(d.outgoing) <= Top(d) + 1 /\ Held(d) = 0
  <1> DEFINE m == s.outgoing[1]
             t == [s EXCEPT !.outgoing = Tail(@)]
             d == Dequeue(s, m)
  <1>1. Typed(s) /\ Stage(s) /\ Phase(s) /\ Queue(s) /\ Shape(s)
    BY DEF Sound, Local
  <1>2. Alive(s) /\ ~ssh_packet_need_rekeying(s, 1)
    BY <1>1 DEF Stage, Alive, Fatal, ssh_packet_need_rekeying, ssh_packet_is_rekeying
  <1>3. d = ssh_packet_send2_wrapped(t, m)
    BY <1>2 DEF Dequeue
  <1>4. Same(s, t, {"outgoing"}) /\ t.outgoing = Tail(s.outgoing)
    BY <1>1 DEF Same, Shape, Fields
  <1> HIDE DEF t
  <1>5. s.outgoing \in Seq([type : {"data", "answer"}, n : Nat])
    BY <1>1 DEF Typed
  <1>6. m.type \in {"data", "answer"} /\ Len(s.outgoing) # 0
    <2>1. m \in [type : {"data", "answer"}, n : Nat] /\ Len(s.outgoing) # 0
      BY ONLY <1>5, s.outgoing # <<>>, QueueTail
    <2> HIDE DEF m
    <2> QED BY <2>1
  <1>7. m.type \notin {"newkeys", "success"} /\ Len(s.outgoing) \in Nat
    BY <1>5, <1>6
  <1> HIDE DEF m
  <1>8. s.packetsOut + 1 < Wrap /\ s.packetsOut \in Nat
    <2>1. s.packetsOut \in Nat /\ Wrap \in Nat /\ Top(s) \in Nat /\ Top(s) + 4 < Wrap
      BY <1>1, TransportAssumption, TopBound DEF Typed
    <2> QED BY ONLY <2>1, <1>6, <1>7, s.packetsOut + Len(s.outgoing) <= Top(s) + 1
  <1>9. /\ t.packetsOut = s.packetsOut /\ t.initial = s.initial /\ t.seqOut = s.seqOut
        /\ t.out = s.out /\ t.keyOut = s.keyOut /\ Shape(t)
    BY <1>4 DEF Same, Fields
  <1>10. ~s.initial
    BY <1>1 DEF Stage, Phase
  <1>11. /\ Same(t, d, Unsealed)
         /\ d.out = Append(t.out, Packet(t, m))
         /\ d.seqOut = (t.seqOut + 1) % Wrap
         /\ d.packetsOut = t.packetsOut + 1
    BY <1>3, <1>7, <1>8, <1>9, <1>10, WrappedPlain
  <1>12. Packet(t, m) = Packet(s, s.outgoing[1])
    BY <1>9 DEF Packet, m
  <1> HIDE DEF d
  <1>13. Same(s, d, Unsealed \cup {"outgoing"}) /\ d.outgoing = Tail(s.outgoing)
    BY <1>4, <1>11 DEF Same, Fields, Unsealed
  <1>14. /\ d.out = Append(s.out, Packet(s, s.outgoing[1]))
         /\ d.seqOut = (s.seqOut + 1) % Wrap /\ d.packetsOut = s.packetsOut + 1
         /\ ~s.init_sent => s.packetsOut + 4 < Wrap
         /\ s.init_sent => s.packetsOut + Len(s.outgoing) <= Top(s) + 1
         /\ s.outgoing[1].type = "data" =>
               s.packetsOut = 0 \/ s.packetsOut + 1 <= Limit(s.name)
    BY <1>9, <1>11, <1>12 DEF Held
  <1>15. /\ Sound(x, w, d) /\ In(d) = In(s)
         /\ d.init_sent => d.packetsOut + Len(d.outgoing) <= Top(d) + 1
         /\ Held(d) = 0
    <2>1. Sound(x, w, s) /\ ~s.rekeying /\ s.outgoing # <<>>
      OBVIOUS
    <2> QED BY ONLY <1>13, <1>14, <2>1, DequeueSound
  <1>16. d.init_sent
    BY <1>13 DEF Same, Fields, Unsealed
  <1> QED BY <1>13, <1>15, <1>16 DEF d, m

\* The rest of the queue after i turns.
LEMMA RestTail ==
    ASSUME NEW q, NEW c, NEW i \in Nat, Len(q) \in Nat, i + 1 <= Len(q), Rest(q, c, i), IsSeq(c)
    PROVE  c # <<>> /\ c[1] = q[i + 1] /\ Rest(q, Tail(c), i + 1)
  <1>1. PICK S : c \in Seq(S)
    BY DEF IsSeq
  <1>2. Len(c) = Len(q) - i /\ \A j \in 1 .. Len(q) - i : c[j] = q[i + j]
    BY DEF Rest
  <1>3. c # <<>>
    BY <1>2
  <1>4. /\ Len(Tail(c)) = Len(c) - 1
        /\ \A j \in 1 .. Len(c) - 1 : Tail(c)[j] = c[j + 1]
    BY <1>1, <1>3, QueueTail
  <1>5. 1 \in 1 .. Len(q) - i /\ c[1] = q[i + 1]
    BY <1>2
  <1>6. Len(Tail(c)) = Len(q) - (i + 1)
    BY ONLY <1>2, <1>4, i \in Nat, Len(q) \in Nat
  <1>7. ASSUME NEW j \in 1 .. Len(q) - (i + 1)
        PROVE  Tail(c)[j] = q[(i + 1) + j]
    <2>1. j \in 1 .. Len(c) - 1 /\ j + 1 \in 1 .. Len(q) - i /\ i + (j + 1) = (i + 1) + j
      BY ONLY <1>2, i \in Nat, Len(q) \in Nat, j \in 1 .. Len(q) - (i + 1)
    <2> QED BY <1>2, <1>4, <2>1
  <1> QED BY <1>3, <1>5, <1>6, <1>7 DEF Rest

\* The whole queue goes out under the new keys.
LEMMA FlushSound ==
    ASSUME NEW x, NEW w, NEW s, Sound(x, w, s), ~s.rekeying, s.init_sent,
           s.packetsOut + Len(s.outgoing) <= Top(s) + 1, s.phase = "session",
           s.packetsOut = 0
    PROVE  LET d == Flush(s)
           IN  /\ Sound(x, w, d) /\ In(d) = In(s)
               /\ Same(s, d, Unsealed \cup {"outgoing"}) /\ d.outgoing = <<>>
  <1> DEFINE q == s.outgoing
             len == Len(q)
  <1>1. Typed(s) /\ Shape(s)
    BY DEF Sound, Local
  <1>2. len \in Nat /\ IsSeq(q)
    BY <1>1 DEF Typed, IsSeq
  <1>3. PICK g : Turns(g, s, s.outgoing, Len(s.outgoing)) /\ Flush(s) = g[Len(s.outgoing)]
    BY <1>2, FlushTurns
  <1> DEFINE P(i) == /\ Sound(x, w, g[i]) /\ In(g[i]) = In(s)
                     /\ Same(s, g[i], Unsealed \cup {"outgoing"})
                     /\ Rest(q, g[i].outgoing, i)
                     /\ g[i].packetsOut + Len(g[i].outgoing) <= Top(g[i]) + 1
                     /\ Held(g[i]) = 0 \/ g[i].packetsOut = 0
             S == {i \in Nat : i <= len => P(i)}
  <1>4. g[0] = s /\ \A i \in 1 .. len : g[i] = Dequeue(g[i - 1], q[i])
    BY <1>3 DEF Turns
  <1>5. P(0)
    <2>1. Rest(q, q, 0)
      BY <1>2 DEF Rest
    <2>2. Same(s, s, Unsealed \cup {"outgoing"})
      BY <1>1 DEF Same
    <2> QED BY <1>4, <2>1, <2>2
  <1>6. ASSUME NEW i \in Nat, i \in S PROVE i + 1 \in S
    <2> SUFFICES ASSUME i + 1 <= len PROVE P(i + 1)
      OBVIOUS
    <2> DEFINE t == g[i]
               d == g[i + 1]
    <2>1. P(i)
      BY ONLY <1>2, <1>6, i + 1 <= len
    <2>2. ~t.rekeying /\ t.init_sent /\ t.phase = "session"
      BY <2>1 DEF Same, Fields, Unsealed
    <2>3. IsSeq(t.outgoing)
      BY <2>1 DEF Sound, Local, Typed, IsSeq
    <2>4. t.outgoing # <<>> /\ t.outgoing[1] = q[i + 1] /\ Rest(q, Tail(t.outgoing), i + 1)
      <3>1. Rest(q, t.outgoing, i)
        BY <2>1
      <3> QED BY ONLY <1>2, <2>3, <3>1, i \in Nat, i + 1 <= len, RestTail
    <2>5. d = Dequeue(t, t.outgoing[1])
      <3>1. i + 1 \in 1 .. len /\ (i + 1) - 1 = i
        BY ONLY <1>2, i \in Nat, i + 1 <= len
      <3> QED BY <1>4, <2>4, <3>1
    <2> HIDE DEF t, d
    <2>6. /\ Sound(x, w, d) /\ In(d) = In(t)
          /\ Same(t, d, Unsealed \cup {"outgoing"})
          /\ d.outgoing = Tail(t.outgoing)
          /\ d.packetsOut + Len(d.outgoing) <= Top(d) + 1 /\ Held(d) = 0
      <3>1. /\ Sound(x, w, t) /\ t.packetsOut + Len(t.outgoing) <= Top(t) + 1
            /\ Held(t) = 0 \/ t.packetsOut = 0
        BY <2>1 DEF t
      <3> QED BY ONLY <2>2, <2>4, <2>5, <3>1, DequeueTurn
    <2>7. Same(s, d, Unsealed \cup {"outgoing"}) /\ In(d) = In(s)
      BY <2>1, <2>6 DEF Same, t
    <2> QED BY <2>4, <2>6, <2>7 DEF d
  <1>7. 0 \in S
    BY <1>5
  <1>8. len \in S
    <2> HIDE DEF S, len
    <2> QED BY <1>2, <1>6, <1>7, NatInd
  <1>9. P(len)
    BY <1>2, <1>8
  <1>10. g[len].outgoing = <<>>
    <2>1. Len(g[len].outgoing) = 0
      BY <1>2, <1>9 DEF Rest
    <2>2. IsSeq(g[len].outgoing)
      BY <1>9 DEF Sound, Local, Typed, IsSeq
    <2> QED BY <2>1, <2>2 DEF IsSeq
  <1> QED BY <1>3, <1>9, <1>10

Agreed == {"handlers", "newOut", "newIn"}

\* s is the end b, which knows both KEXINITs, when it is about to send NEWKEYS.
Prepared(x, w, b, s) ==
    /\ Consistent(x, w, b) /\ b.rekeying /\ b.my = b.peer
    /\ Same(b, s, Unsealed \cup Agreed)
    /\ s.newOut = <<b.my, b.my>> /\ s.newIn = <<b.my, b.my>>
    /\ s.packetsOut \in Nat /\ s.packetsOut + 1 < Wrap
    /\ s.seqOut \in Nat /\ (b.initial => s.seqOut <= 2)
    /\ s.handlers \ TransportRange = b.handlers \ TransportRange
    /\ Linked(x, w, s, 2, Sent(b), DataSent(b))

\* f is the end b when it has sent NEWKEYS and nothing else.
Switched(x, w, b, f) ==
    /\ Same(b, f, Unsealed \cup Agreed \cup {"keyOut", "rekeying", "expired"})
    /\ ~f.rekeying /\ f.keyOut = <<b.my, b.my>> /\ f.newOut = NoKey
    /\ f.newIn = <<b.my, b.my>> /\ f.packetsOut = 0
    /\ f.seqOut \in Nat /\ (b.initial => f.seqOut <= 3)
    /\ f.handlers = b.handlers \ TransportRange
    /\ Linked(x, w, f, 0, Sent(b), DataSent(b))

\* What sealing NEWKEYS does to an end that has derived its keys.
LEMMA NewkeysEffect ==
    ASSUME NEW x, NEW w, NEW b, NEW s, Prepared(x, w, b, s)
    PROVE  \E f : /\ SendKex(kex_reset_dispatch(s), "newkeys", 0) = Flush(f)
                  /\ Switched(x, w, b, f)
  <1> DEFINE r == kex_reset_dispatch(s)
             m == [type |-> "newkeys", n |-> 0]
             t == ssh_packet_send2_wrapped(r, m)
             f == [t EXCEPT !.rekeying = FALSE, !.expired = FALSE]
  <1>0. /\ Consistent(x, w, b) /\ b.rekeying /\ b.my = b.peer
        /\ Same(b, s, Unsealed \cup Agreed) /\ Shape(s)
        /\ s.newOut = <<b.my, b.my>> /\ s.newIn = <<b.my, b.my>>
        /\ s.packetsOut \in Nat /\ s.packetsOut + 1 < Wrap
        /\ s.seqOut \in Nat /\ (b.initial => s.seqOut <= 2)
        /\ s.handlers \ TransportRange = b.handlers \ TransportRange
        /\ Linked(x, w, s, 2, Sent(b), DataSent(b))
    BY DEF Prepared, Same
  <1>1. Typed(b) /\ Stage(b) /\ Phase(b) /\ IsSeq(w)
    BY <1>0 DEF Consistent, Local
  <1>2. /\ b.my \in Nat /\ b.my # 0 /\ b.err = "none" /\ b.strict = b.offer
        /\ b.keyOut = <<b.my - 1, b.my - 1>> /\ (b.initial <=> b.my = 1)
    BY <1>0, <1>1 DEF Typed, Stage
  <1>3. /\ s.name = b.name /\ s.offer = b.offer /\ s.strict = b.strict
        /\ s.keyOut = b.keyOut /\ s.err = b.err /\ s.initial = b.initial
    BY <1>0 DEF Same, Fields, Unsealed, Agreed
  <1>4. Same(s, r, {"handlers"}) /\ r.handlers = s.handlers \ TransportRange
    BY <1>0 DEF kex_reset_dispatch, Same, Shape, Fields
  <1> HIDE DEF r
  <1>5. /\ r.name = s.name /\ r.offer = s.offer /\ r.strict = s.strict /\ r.out = s.out
        /\ r.keyOut = s.keyOut /\ r.err = s.err /\ r.initial = s.initial
        /\ r.newOut = s.newOut /\ r.newIn = s.newIn /\ r.packetsOut = s.packetsOut
        /\ r.seqOut = s.seqOut /\ Shape(r)
    BY <1>4 DEF Same, Fields
  <1>6. m.type = "newkeys" /\ m.n = 0
    OBVIOUS
  <1> HIDE DEF m
  <1>7. r.newOut # NoKey
    BY <1>0, <1>2, <1>5 DEF NoKey
  <1>8. Wrap \in Nat /\ 5 < Wrap
    BY TransportAssumption, CounterAssumption
  <1>9. b.initial => (s.seqOut + 1) % Wrap = s.seqOut + 1
    BY ONLY <1>0, <1>8
  <1>10. ~r.initial \/ (r.seqOut + 1) % Wrap # 0
    <2>1. b.initial => s.seqOut + 1 # 0
      BY <1>0
    <2> QED BY ONLY <1>3, <1>5, <1>9, <2>1
  <1>11. /\ Same(r, t, Unsealed \cup {"keyOut", "newOut"})
         /\ t.out = Append(r.out, Packet(r, m))
         /\ t.seqOut = IF r.strict THEN 0 ELSE (r.seqOut + 1) % Wrap
         /\ t.packetsOut = 0 /\ t.keyOut = r.newOut /\ t.newOut = NoKey
    BY ZenonT(40), <1>0, <1>5, <1>6, <1>7, <1>10, WrappedNewkeys
  <1> HIDE DEF t
  <1>12. Alive(t) /\ Alive(r) /\ Shape(t)
    BY <1>2, <1>3, <1>5, <1>11 DEF Same, Fields, Unsealed, Alive, Fatal
  <1>13. SendKex(r, "newkeys", 0) = Flush(f)
    <2>1. SendKex(r, "newkeys", 0) = ssh_packet_send2(r, m)
      BY <1>12 DEF SendKex, m
    <2>2. ssh_packet_type_is_kex(m.type)
      BY <1>6 DEF ssh_packet_type_is_kex, TransportRange
    <2>3. ssh_packet_send2(r, m) = Flush(f)
      BY <1>6, <1>12, <2>2 DEF ssh_packet_send2, t, f
    <2> QED BY <2>1, <2>3
  <1>14. Same(t, f, {"rekeying", "expired"}) /\ ~f.rekeying
    BY <1>12 DEF Same, Shape, Fields
  <1> HIDE DEF f
  <1>15. /\ f.name = b.name /\ f.offer = b.offer /\ f.keyOut = <<b.my, b.my>>
         /\ f.newOut = NoKey /\ f.newIn = <<b.my, b.my>> /\ f.packetsOut = 0
         /\ f.out = t.out /\ f.seqOut = t.seqOut
         /\ f.handlers = b.handlers \ TransportRange
    BY <1>0, <1>3, <1>4, <1>5, <1>11, <1>14 DEF Same, Fields, Unsealed
  <1>16. Same(b, f, Unsealed \cup Agreed \cup {"keyOut", "rekeying", "expired"})
    BY <1>0, <1>4, <1>11, <1>14 DEF Same, Agreed
  <1>17. f.seqOut = IF s.offer THEN 0 ELSE (s.seqOut + 1) % Wrap
    BY <1>2, <1>3, <1>5, <1>11, <1>15
  <1>18. f.seqOut \in Nat /\ (b.initial => f.seqOut <= 3)
    <2>1. (s.seqOut + 1) % Wrap \in Nat
      BY <1>0, NextSeq
    <2>2. s.seqOut \in Nat /\ (b.initial => s.seqOut <= 2)
      BY <1>0
    <2> QED BY ONLY <1>9, <1>17, <2>1, <2>2
  <1>19. Linked(x, w, f, 0, Sent(b), DataSent(b))
    <2>1. b.my - 1 \in Nat /\ s.keyOut = <<b.my - 1, b.my - 1>>
          /\ f.keyOut = <<(b.my - 1) + 1, (b.my - 1) + 1>>
      BY <1>2, <1>3, <1>15
    <2>2. b.my - 1 = 0 => s.seqOut + 1 < Wrap
      BY <1>0, <1>2, <1>8
    <2>3. f.out = Append(s.out, Packet(s, m)) /\ f.name = s.name /\ f.offer = s.offer
      BY <1>3, <1>5, <1>11, <1>15 DEF Packet
    <2>4. IsSeq(w) /\ Linked(x, w, s, 2, Sent(b), DataSent(b)) /\ s.packetsOut + 1 < Wrap
          /\ m.type = "newkeys" /\ f.packetsOut = 0
      BY <1>0, <1>1, <1>6, <1>15
    <2> QED BY ONLY <1>17, <2>1, <2>2, <2>3, <2>4, SealedNewkeys
  <1>20. Switched(x, w, b, f)
    BY <1>14, <1>15, <1>16, <1>18, <1>19 DEF Switched
  <1> QED BY <1>13, <1>20 DEF r

\* A re-exchange: NEWKEYS and then the queue.
LEMMA SessionNewkeys ==
    ASSUME NEW x, NEW w, NEW b, Consistent(x, w, b), b.rekeying, b.my = b.peer, ~b.initial,
           NEW f, Switched(x, w, b, f)
    PROVE  LET d == kex_maybe_send_ext_info([Flush(f) EXCEPT !.handlers = @ \cup {"newkeys"}])
           IN  /\ Good(x, w, d) /\ In(d) = [In(b) EXCEPT !.step = 2]
               /\ d.phase = b.phase /\ d.offer = b.offer /\ d.name = b.name
  <1> DEFINE u == Flush(f)
             d == [u EXCEPT !.handlers = @ \cup {"newkeys"}]
  <1>0. /\ Same(b, f, Unsealed \cup Agreed \cup {"keyOut", "rekeying", "expired"})
        /\ ~f.rekeying /\ f.keyOut = <<b.my, b.my>> /\ f.newOut = NoKey
        /\ f.newIn = <<b.my, b.my>> /\ f.packetsOut = 0
        /\ f.seqOut \in Nat
        /\ f.handlers = b.handlers \ TransportRange
        /\ Linked(x, w, f, 0, Sent(b), DataSent(b))
    BY DEF Switched
  <1>1. /\ Typed(b) /\ Stage(b) /\ Phase(b) /\ Queue(b) /\ Counters(b) /\ Handlers(b)
        /\ InOrder(b) /\ IsSeq(w)
    BY DEF Consistent, Local
  <1>2. /\ Shape(f) /\ f.name = b.name /\ f.offer = b.offer /\ f.phase = b.phase
        /\ f.err = b.err /\ f.outgoing = b.outgoing
        /\ f.after_authentication = b.after_authentication
        /\ f.keyIn = b.keyIn /\ f.seqIn = b.seqIn /\ f.packetsIn = b.packetsIn
        /\ f.initial = b.initial /\ f.strict = b.strict /\ f.peer = b.peer /\ f.my = b.my
        /\ f.sent = b.sent /\ f.got = b.got /\ f.data = b.data
        /\ f.done = b.done /\ f.init_sent = b.init_sent
    BY <1>0 DEF Same, Fields, Unsealed, Agreed
  <1>3. b.init_sent /\ b.phase = "session" /\ b.my \in Nat
    BY <1>1 DEF Stage, Phase, Typed
  <1>4. Typed(f)
    <2>1. f.packetsOut \in Nat
      BY <1>0
    <2> QED BY ONLY <1>0, <1>1, <1>2, <2>1 DEF Typed
  <1>5. Stage(f)
    BY <1>0, <1>1, <1>2, <1>3 DEF Stage
  <1>6. Phase(f)
    BY <1>0, <1>1, <1>2, <1>3 DEF Phase
  <1>7. Queue(f) /\ Answers(f) = Answers(b) /\ Held(f) = Held(b) /\ Top(f) = Top(b)
    BY <1>1, <1>2 DEF Queue, Answers, Held, Top
  <1>8. Top(f) \in Nat
    BY <1>4, TopBound DEF Typed
  <1>9. Counters(f)
    BY ONLY <1>0, <1>2, <1>3, <1>8 DEF Counters
  <1>10. InOrder(f)
    BY <1>1, <1>2 DEF InOrder
  <1>11. OutStep(f) = 0 /\ Sent(f) = Sent(b) /\ DataSent(f) = DataSent(b)
    BY <1>0, <1>2, <1>7 DEF OutStep, Sent, DataSent
  <1>12. Sound(x, w, f)
    BY <1>0, <1>1, <1>2, <1>4, <1>5, <1>6, <1>7, <1>9, <1>10, <1>11 DEF Sound, Local
  <1>13. f.packetsOut + Len(f.outgoing) <= Top(f) + 1 /\ f.packetsOut = 0
    <2>1. Len(f.outgoing) <= Held(f) + Top(f)
      BY <1>7 DEF Queue
    <2>2. Held(f) \in {0, 1}
      BY DEF Held
    <2>3. Len(f.outgoing) \in Nat
      BY <1>4 DEF Typed
    <2> QED BY ONLY <1>0, <1>8, <2>1, <2>2, <2>3
  <1>14. /\ Sound(x, w, u) /\ In(u) = In(f)
         /\ Same(f, u, Unsealed \cup {"outgoing"}) /\ u.outgoing = <<>>
    <2>1. ~f.rekeying /\ f.init_sent /\ f.phase = "session"
      BY <1>0, <1>2, <1>3
    <2> QED BY ONLY <1>12, <1>13, <2>1, FlushSound
  <1> HIDE DEF u
  <1>15. Same(u, d, {"handlers"}) /\ d.handlers = u.handlers \cup {"newkeys"}
    BY <1>14 DEF Same, Shape, Fields
  <1> HIDE DEF d
  <1>16. kex_maybe_send_ext_info(d) = d
    <2>1. ~d.initial
      BY <1>2, <1>14, <1>15 DEF Same, Fields, Unsealed
    <2> QED BY <2>1 DEF kex_maybe_send_ext_info
  <1>17. /\ Shape(d) /\ d.name = u.name /\ d.offer = u.offer /\ d.phase = u.phase
         /\ d.err = u.err /\ d.outgoing = u.outgoing /\ d.out = u.out
         /\ d.after_authentication = u.after_authentication /\ d.keyOut = u.keyOut
         /\ d.keyIn = u.keyIn /\ d.seqOut = u.seqOut /\ d.packetsOut = u.packetsOut
         /\ d.seqIn = u.seqIn /\ d.packetsIn = u.packetsIn
         /\ d.initial = u.initial /\ d.strict = u.strict /\ d.peer = u.peer /\ d.my = u.my
         /\ d.newOut = u.newOut /\ d.newIn = u.newIn
         /\ d.sent = u.sent /\ d.got = u.got /\ d.data = u.data
         /\ d.rekeying = u.rekeying /\ d.done = u.done /\ d.init_sent = u.init_sent
    BY <1>15 DEF Same, Fields
  <1>18. Sound(x, w, d) /\ In(d) = In(u)
    <2>1. Typed(u) /\ Stage(u) /\ Phase(u) /\ Queue(u) /\ Counters(u) /\ InOrder(u)
      BY <1>14 DEF Sound, Local
    <2>2. Typed(d) /\ Stage(d) /\ Phase(d) /\ InOrder(d)
      BY ONLY SMTT(30), <1>17, <2>1 DEF Typed, Stage, Phase, InOrder
    <2>3. Queue(d) /\ Held(d) = Held(u) /\ Answers(d) = Answers(u) /\ Top(d) = Top(u)
      BY ONLY <1>17, <2>1 DEF Queue, Held, Answers, Top
    <2>4. Counters(d)
      BY ONLY <1>17, <2>1, <2>3 DEF Counters, InitSent
    <2>5. OutStep(d) = OutStep(u) /\ Sent(d) = Sent(u) /\ DataSent(d) = DataSent(u)
      BY <1>17, <2>3 DEF OutStep, InitSent, Sent, DataSent
    <2>6. Linked(x, w, d, OutStep(u), Sent(u), DataSent(u))
      <3>1. Linked(x, w, u, OutStep(u), Sent(u), DataSent(u))
        BY <1>14 DEF Sound
      <3> QED BY <1>17, <3>1 DEF Linked, Sender
    <2>7. In(d) = In(u)
      BY <1>17, <2>3 DEF In, InStep
    <2> QED BY <1>1, <1>17, <2>2, <2>3, <2>4, <2>5, <2>6, <2>7 DEF Sound, Local
  <1>19. /\ u.phase = "session" /\ u.my = u.peer /\ u.init_sent /\ ~u.rekeying
         /\ u.handlers = b.handlers \ TransportRange /\ u.offer = b.offer /\ u.name = b.name
    BY ZenonT(40), <1>0, <1>2, <1>3, <1>14 DEF Same, Fields, Unsealed
  <1>20. Handlers(d)
    <2>1. "data" \in b.handlers /\ "answer" \in b.handlers
      BY <1>1, <1>3 DEF Handlers
    <2>2. Awaited(d) = "newkeys"
      BY <1>17, <1>19 DEF Awaited
    <2>3. "data" \in d.handlers /\ "answer" \in d.handlers /\ "newkeys" \in d.handlers
      BY <1>15, <1>19, <2>1 DEF TransportRange
    <2> QED BY <1>17, <1>19, <2>2, <2>3 DEF Handlers
  <1>21. Good(x, w, d)
    BY <1>14, <1>17, <1>18, <1>20 DEF Good, Consistent, Sound
  <1>22. In(f) = [In(b) EXCEPT !.step = 2]
    BY <1>0, <1>2, <1>3, <1>7 DEF In, InStep
  <1>23. d.phase = b.phase /\ d.offer = b.offer /\ d.name = b.name
    BY <1>3, <1>17, <1>19
  <1> QED BY <1>14, <1>16, <1>18, <1>21, <1>22, <1>23 DEF d, u

\* The initial exchange: NEWKEYS and then EXT_INFO, the first packet of the stream.
LEMMA InitialNewkeys ==
    ASSUME NEW x, NEW w, NEW b, Consistent(x, w, b), b.rekeying, b.my = b.peer, b.initial,
           NEW f, Switched(x, w, b, f)
    PROVE  LET d == kex_maybe_send_ext_info([Flush(f) EXCEPT !.handlers = @ \cup {"newkeys"}])
           IN  /\ Good(x, w, d) /\ In(d) = [In(b) EXCEPT !.step = 2]
               /\ d.phase = b.phase /\ d.offer = b.offer /\ d.name = b.name
  <1> DEFINE g == [f EXCEPT !.handlers = @ \cup {"newkeys"}]
             m == [type |-> "extinfo", n |-> g.sent + 1]
             t == [g EXCEPT !.sent = @ + 1]
             d == ssh_packet_send2_wrapped(t, m)
  <1>0. /\ Same(b, f, Unsealed \cup Agreed \cup {"keyOut", "rekeying", "expired"})
        /\ ~f.rekeying /\ f.keyOut = <<b.my, b.my>> /\ f.newOut = NoKey
        /\ f.newIn = <<b.my, b.my>> /\ f.packetsOut = 0
        /\ f.seqOut \in Nat /\ f.seqOut <= 3
        /\ Linked(x, w, f, 0, Sent(b), DataSent(b))
    BY DEF Switched
  <1>1. /\ Typed(b) /\ Stage(b) /\ Phase(b) /\ Queue(b) /\ Counters(b) /\ Handlers(b)
        /\ InOrder(b) /\ IsSeq(w)
    BY DEF Consistent, Local
  <1>2. /\ Shape(f) /\ f.name = b.name /\ f.offer = b.offer /\ f.phase = b.phase
        /\ f.err = b.err /\ f.outgoing = b.outgoing
        /\ f.after_authentication = b.after_authentication
        /\ f.keyIn = b.keyIn /\ f.seqIn = b.seqIn /\ f.packetsIn = b.packetsIn
        /\ f.initial = b.initial /\ f.strict = b.strict /\ f.peer = b.peer /\ f.my = b.my
        /\ f.sent = b.sent /\ f.got = b.got /\ f.data = b.data
        /\ f.done = b.done /\ f.init_sent = b.init_sent
    BY <1>0 DEF Same, Fields, Unsealed, Agreed
  <1>3. /\ b.init_sent /\ b.my = 1 /\ b.phase = "kex" /\ b.outgoing = <<>> /\ b.sent = 0
        /\ b.data = MaxData /\ ~b.done /\ b.err = "none" /\ Len(b.got) = 0
    BY <1>1 DEF Stage, Phase, Queue
  <1>4. MaxData \in Nat /\ Wrap \in Nat /\ 5 < Wrap
    BY TransportAssumption, CounterAssumption
  <1>5. Flush(f) = f
    <2>1. Len(f.outgoing) = 0
      BY <1>2, <1>3
    <2>2. PICK h : Turns(h, f, f.outgoing, Len(f.outgoing)) /\ Flush(f) = h[Len(f.outgoing)]
      BY <2>1, FlushTurns
    <2> QED BY <2>1, <2>2 DEF Turns
  <1>6. Same(f, g, {"handlers"}) /\ g.handlers = f.handlers \cup {"newkeys"}
    BY <1>2 DEF Same, Shape, Fields
  <1> HIDE DEF g
  <1>7. /\ g.err = "none" /\ g.initial /\ g.sent = 0 /\ ~g.done /\ ~g.rekeying
    BY ZenonT(40), <1>0, <1>2, <1>3, <1>6 DEF Same, Fields
  <1>8. Same(g, t, {"sent"}) /\ t.sent = 1
    BY <1>6, <1>7 DEF Same, Shape, Fields
  <1>9. m.type = "extinfo" /\ m.n = 1 /\ m.n = g.sent + 1
    BY <1>7
  <1>10. kex_maybe_send_ext_info(g) = d
    <2>1. Alive(g)
      BY <1>7 DEF Alive, Fatal
    <2>2. kex_maybe_send_ext_info(g) = ssh_packet_send2(t, m)
      BY <1>7, <2>1 DEF kex_maybe_send_ext_info, SendNext
    <2> HIDE DEF t, m
    <2>3. ~t.rekeying /\ ~t.done
      BY <1>7, <1>8 DEF Same, Fields
    <2>4. ~ssh_packet_need_rekeying(t, 1)
      BY <2>3 DEF ssh_packet_need_rekeying, ssh_packet_is_rekeying
    <2>5. ssh_packet_send2(t, m) = d
      BY <1>9, <2>3, <2>4 DEF ssh_packet_send2, d
    <2> QED BY <2>2, <2>5 DEF d, t, m
  <1> HIDE DEF t, m
  <1>11. /\ Shape(t) /\ t.packetsOut = f.packetsOut /\ t.seqOut = f.seqOut
         /\ t.initial = f.initial /\ t.out = f.out /\ t.keyOut = f.keyOut
    BY <1>6, <1>8 DEF Same, Fields
  <1>12. (t.seqOut + 1) % Wrap = f.seqOut + 1
    BY ONLY <1>0, <1>4, <1>11
  <1>13. /\ Same(t, d, Unsealed)
         /\ d.out = Append(t.out, Packet(t, m))
         /\ d.seqOut = (t.seqOut + 1) % Wrap
         /\ d.packetsOut = t.packetsOut + 1
    <2>1. t.packetsOut \in Nat /\ t.packetsOut + 1 < Wrap
      BY ONLY <1>0, <1>4, <1>11
    <2>2. (t.seqOut + 1) % Wrap # 0
      BY ONLY <1>0, <1>12
    <2>3. m.type \notin {"newkeys", "success"}
      BY <1>9
    <2> QED BY <1>11, <2>1, <2>2, <2>3, WrappedPlain
  <1> HIDE DEF d
  <1>14. Same(f, d, Unsealed \cup {"sent", "handlers"})
    BY <1>6, <1>8, <1>13 DEF Same
  <1>15. /\ d.sent = 1 /\ d.handlers = f.handlers \cup {"newkeys"}
         /\ d.packetsOut = 1 /\ d.seqOut = f.seqOut + 1
         /\ d.out = Append(f.out, Packet(f, m))
    <2>1. d.sent = 1 /\ d.handlers = f.handlers \cup {"newkeys"}
      BY <1>6, <1>8, <1>13 DEF Same, Fields, Unsealed
    <2>2. Packet(t, m) = Packet(f, m)
      BY <1>11 DEF Packet
    <2> QED BY <1>0, <1>11, <1>12, <1>13, <2>1, <2>2
  <1>16. /\ Shape(d) /\ d.name = b.name /\ d.offer = b.offer /\ d.phase = b.phase
         /\ d.err = b.err /\ d.outgoing = b.outgoing
         /\ d.after_authentication = b.after_authentication /\ d.keyOut = f.keyOut
         /\ d.keyIn = b.keyIn /\ d.seqIn = b.seqIn /\ d.packetsIn = b.packetsIn
         /\ d.initial = b.initial /\ d.strict = b.strict /\ d.peer = b.peer /\ d.my = b.my
         /\ d.newOut = f.newOut /\ d.newIn = f.newIn
         /\ d.got = b.got /\ d.data = b.data
         /\ d.rekeying = f.rekeying /\ d.done = b.done /\ d.init_sent = b.init_sent
    BY <1>2, <1>14 DEF Same, Fields, Unsealed
  <1>17. Typed(d)
    <2>1. d.seqOut \in Nat /\ d.packetsOut \in Nat /\ d.sent \in Nat
      BY <1>0, <1>15
    <2> QED BY ONLY <1>1, <1>16, <2>1 DEF Typed
  <1>18. Stage(d)
    BY ZenonT(40), <1>0, <1>1, <1>3, <1>16 DEF Stage
  <1>19. Phase(d)
    BY <1>0, <1>1, <1>3, <1>15, <1>16 DEF Phase
  <1>20. Answers(d) = 0 /\ Answers(b) = 0 /\ Held(d) = 0 /\ Held(b) = 0 /\ Len(d.outgoing) = 0
         /\ Len(b.outgoing) = 0
    BY <1>3, <1>16 DEF Answers, Held
  <1>21. Queue(d)
    BY <1>3, <1>4, <1>16, <1>17, <1>20, EmptyQueue
  <1>22. Counters(d)
    <2>1. Top(d) \in Nat
      BY <1>17, TopBound DEF Typed
    <2> QED BY <1>0, <1>3, <1>15, <1>16, <2>1 DEF Counters
  <1>23. Handlers(d)
    BY <1>0, <1>3, <1>15, <1>16 DEF Handlers, Awaited
  <1>24. InOrder(d)
    BY <1>1, <1>16 DEF InOrder
  <1>25. Sent(b) = 0 /\ DataSent(b) = 0 /\ OutStep(d) = 0 /\ Sent(d) = 1 /\ DataSent(d) = 0
    <2>1. OutStep(d) = 0
      BY <1>0, <1>16 DEF OutStep
    <2>2. Sent(b) = b.sent - 0 /\ Sent(d) = d.sent - 0
      BY <1>20 DEF Sent
    <2>3. DataSent(b) = MaxData - b.data - 0 /\ DataSent(d) = MaxData - d.data - 0
      BY <1>20 DEF DataSent
    <2>4. d.sent = 1 /\ b.sent = 0 /\ d.data = MaxData /\ b.data = MaxData
      BY <1>3, <1>15, <1>16
    <2> QED BY ONLY <1>4, <2>1, <2>2, <2>3, <2>4
  <1>26. Linked(x, w, d, 0, 1, 0)
    <2>1. Linked(x, w, f, 0, 0, 0) /\ IsSeq(w)
      BY <1>0, <1>1, <1>25
    <2>2. 1 \in Nat \ {0} /\ f.keyOut = <<1, 1>> /\ f.packetsOut + 1 < Wrap
      BY <1>0, <1>3, <1>4
    <2>3. PayloadType(f.name, 0, m.type) /\ m.n = 0 + 1 /\ m.type # "data"
      BY <1>9 DEF PayloadType
    <2>4. /\ d.name = f.name /\ d.offer = f.offer /\ d.keyOut = f.keyOut
          /\ d.out = Append(f.out, Packet(f, m))
          /\ d.seqOut = (f.seqOut + 1) % Wrap /\ d.packetsOut = f.packetsOut + 1
      BY <1>0, <1>2, <1>11, <1>12, <1>15, <1>16
    <2>5. Linked(x, w, d, 0, 0 + 1, IF m.type = "data" THEN 0 + 1 ELSE 0)
      BY ONLY <2>1, <2>2, <2>3, <2>4, SealedPayload
    <2> QED BY <1>9, <2>5
  <1>27. Good(x, w, d)
    BY <1>1, <1>3, <1>16, <1>17, <1>18, <1>19, <1>21, <1>22, <1>23, <1>24, <1>25, <1>26
       DEF Good, Consistent, Local
  <1>28. In(d) = [In(b) EXCEPT !.step = 2]
    <2>1. InStep(d) = 2
      BY <1>0, <1>3, <1>16 DEF InStep
    <2> QED BY <1>16, <1>20, <2>1 DEF In
  <1> QED BY <1>5, <1>10, <1>16, <1>27, <1>28 DEF g

\* kex_send_newkeys keeps an end good, in the initial exchange and later.
LEMMA SendNewkeysGood ==
    ASSUME NEW x, NEW w, NEW b, NEW s, Prepared(x, w, b, s)
    PROVE  LET d == kex_send_newkeys(s)
           IN  /\ Good(x, w, d) /\ In(d) = [In(b) EXCEPT !.step = 2]
               /\ d.phase = b.phase /\ d.offer = b.offer /\ d.name = b.name
  <1>1. PICK f : /\ SendKex(kex_reset_dispatch(s), "newkeys", 0) = Flush(f)
                 /\ Switched(x, w, b, f)
    BY NewkeysEffect
  <1>2. Consistent(x, w, b) /\ b.rekeying /\ b.my = b.peer
    BY DEF Prepared
  <1>3. kex_send_newkeys(s)
          = kex_maybe_send_ext_info([Flush(f) EXCEPT !.handlers = @ \cup {"newkeys"}])
    BY <1>1 DEF kex_send_newkeys
  <1>4. CASE b.initial
    BY <1>1, <1>2, <1>3, <1>4, InitialNewkeys
  <1>5. CASE ~b.initial
    BY <1>1, <1>2, <1>3, <1>5, SessionNewkeys
  <1> QED BY <1>4, <1>5

\* What sending INIT or REPLY does.
LEMMA SendKexPlain ==
    ASSUME NEW s, s.err = "none", NEW type \in {"init", "reply"}, NEW n
    PROVE  SendKex(s, type, n) = ssh_packet_send2_wrapped(s, [type |-> type, n |-> n])
  <1> DEFINE m == [type |-> type, n |-> n]
  <1>1. Alive(s)
    BY DEF Alive, Fatal
  <1>2. m.type = type
    OBVIOUS
  <1>3. SendKex(s, type, n) = ssh_packet_send2(s, m)
    BY <1>1 DEF SendKex
  <1> HIDE DEF m
  <1>4. ssh_packet_type_is_kex(m.type) /\ m.type # "newkeys"
    BY <1>2 DEF ssh_packet_type_is_kex, TransportRange
  <1>5. ssh_packet_send2(s, m) = ssh_packet_send2_wrapped(s, m)
    BY <1>4 DEF ssh_packet_send2
  <1> QED BY <1>3, <1>5 DEF m

\* INIT or the reply: the packet of an exchange both of whose KEXINITs are known.
LEMMA MiddleSent ==
    ASSUME NEW x, NEW w, NEW s, Shape(s), IsSeq(w), s.err = "none",
           s.my \in Nat \ {0}, s.keyOut = <<s.my - 1, s.my - 1>>, s.initial <=> s.my = 1,
           s.packetsOut \in Nat, s.packetsOut + 1 < Wrap,
           s.seqOut \in Nat, s.initial => s.seqOut <= 1,
           NEW pay, NEW dat, Linked(x, w, s, 1, pay, dat),
           NEW type, NEW n, type = Token(s.name, 1),
           type = "reply" => n = <<s.my, s.my>>
    PROVE  LET d == SendKex(s, type, n)
           IN  /\ Same(s, d, Unsealed) /\ Linked(x, w, d, 2, pay, dat)
               /\ d.packetsOut = s.packetsOut + 1
               /\ d.seqOut \in Nat /\ (s.initial => d.seqOut <= 2)
  <1> DEFINE m == [type |-> type, n |-> n]
             d == SendKex(s, type, n)
  <1>1. type \in {"init", "reply"}
    BY DEF Token
  <1>2. d = ssh_packet_send2_wrapped(s, m)
    BY <1>1, SendKexPlain
  <1>3. m.type = type /\ m.n = n
    OBVIOUS
  <1> HIDE DEF m
  <1>4. Wrap \in Nat /\ 5 < Wrap
    BY TransportAssumption, CounterAssumption
  <1>5. s.initial => (s.seqOut + 1) % Wrap = s.seqOut + 1
    BY ONLY <1>4, s.seqOut \in Nat, s.initial => s.seqOut <= 1
  <1>6. ~s.initial \/ (s.seqOut + 1) % Wrap # 0
    BY ONLY <1>5, s.seqOut \in Nat
  <1>7. /\ Same(s, d, Unsealed)
        /\ d.out = Append(s.out, Packet(s, m))
        /\ d.seqOut = (s.seqOut + 1) % Wrap
        /\ d.packetsOut = s.packetsOut + 1
    BY <1>1, <1>2, <1>3, <1>6, WrappedPlain
  <1> HIDE DEF d
  <1>8. (s.seqOut + 1) % Wrap \in Nat
    BY NextSeq
  <1>9. d.seqOut \in Nat /\ (s.initial => d.seqOut <= 2)
    BY ONLY <1>5, <1>7, <1>8, s.seqOut \in Nat, s.initial => s.seqOut <= 1
  <1>10. Linked(x, w, d, 1 + 1, pay, dat)
    <2> DEFINE r == s.my - 1
    <2>1. r \in Nat /\ s.keyOut = <<r, r>> /\ r + 1 = s.my /\ (r = 0 => s.initial)
      OBVIOUS
    <2> HIDE DEF r
    <2>2. r = 0 => s.seqOut + 1 < Wrap
      BY ONLY <1>4, <2>1, s.seqOut \in Nat, s.initial => s.seqOut <= 1
    <2>3. 1 \in {0, 1} /\ m.type = Token(s.name, 1)
          /\ (m.type = "reply" => m.n = <<r + 1, r + 1>>)
      BY <1>3, <2>1
    <2>4. 1 = 0 => /\ m.n = <<r + 1, s.offer>>
                   /\ r = 0 => s.seqOut = 0
                   /\ r # 0 => pay >= 2
      OBVIOUS
    <2>5. d.name = s.name /\ d.offer = s.offer /\ d.keyOut = s.keyOut
      BY <1>7 DEF Same, Fields, Unsealed
    <2>6. IsSeq(w) /\ Linked(x, w, s, 1, pay, dat) /\ s.packetsOut + 1 < Wrap
      OBVIOUS
    <2> QED BY ONLY <1>7, <2>1, <2>2, <2>3, <2>4, <2>5, <2>6, SealedKex
  <1>11. Linked(x, w, d, 2, pay, dat)
    BY <1>10
  <1> QED BY <1>7, <1>9, <1>11 DEF d

\* What an end whose exchange is agreed knows.
LEMMA AgreedFacts ==
    ASSUME NEW x, NEW w, NEW s, Good(x, w, s), s.rekeying
    PROVE  /\ s.my \in Nat \ {0} /\ s.keyOut = <<s.my - 1, s.my - 1>> /\ s.err = "none"
           /\ s.initial <=> s.my = 1
           /\ s.packetsOut \in Nat /\ s.seqOut \in Nat /\ s.init_sent /\ Shape(s) /\ IsSeq(w)
           /\ s.packetsOut + (IF InitSent(s) THEN 1 ELSE 2) < Wrap
           /\ s.initial => s.seqOut <= (IF InitSent(s) THEN 2 ELSE 1)
           /\ Linked(x, w, s, IF InitSent(s) THEN 2 ELSE 1, Sent(s), DataSent(s))
  <1>1. Typed(s) /\ Stage(s) /\ Counters(s) /\ Shape(s) /\ IsSeq(w)
        /\ Linked(x, w, s, OutStep(s), Sent(s), DataSent(s))
    BY DEF Good, Consistent, Local
  <1>2. OutStep(s) = IF InitSent(s) THEN 2 ELSE 1
    BY DEF OutStep
  <1>3. s.my \in Nat /\ s.packetsOut \in Nat /\ s.seqOut \in Nat
    BY <1>1 DEF Typed
  <1>4. /\ s.my # 0 /\ s.keyOut = <<s.my - 1, s.my - 1>> /\ s.err = "none"
        /\ (s.initial <=> s.my = 1) /\ s.init_sent
    BY <1>1 DEF Stage
  <1>5. /\ s.packetsOut + (IF InitSent(s) THEN 1 ELSE 2) < Wrap
        /\ s.initial => s.seqOut <= (IF InitSent(s) THEN 2 ELSE 1)
    BY <1>1 DEF Counters
  <1> QED BY <1>1, <1>2, <1>3, <1>4, <1>5

\* The server reads INIT: reply, NEWKEYS and the queue.
LEMMA GenInitGood ==
    ASSUME NEW x, NEW w, NEW s, Good(x, w, s), s.rekeying, s.my = s.peer, s.name = "server"
    PROVE  LET d == input_kex_gen_init(s)
           IN  /\ Good(x, w, d) /\ In(d) = [In(s) EXCEPT !.step = 2]
               /\ d.phase = s.phase /\ d.offer = s.offer /\ d.name = s.name
  <1> DEFINE r == [s EXCEPT !.handlers = @ \ {"init"}]
             t == SendKex(r, "reply", Hash(s))
             c == kex_derive_keys(t)
  <1>1. /\ s.my \in Nat \ {0} /\ s.keyOut = <<s.my - 1, s.my - 1>> /\ s.err = "none"
        /\ s.initial <=> s.my = 1
        /\ s.packetsOut \in Nat /\ s.seqOut \in Nat /\ s.init_sent /\ Shape(s) /\ IsSeq(w)
        /\ s.packetsOut + 2 < Wrap
        /\ s.initial => s.seqOut <= 1
        /\ Linked(x, w, s, 1, Sent(s), DataSent(s))
    <2>1. ~InitSent(s)
      BY DEF InitSent
    <2> QED BY <2>1, AgreedFacts
  <1>2. Hash(s) = <<s.my, s.my>>
    BY DEF Hash
  <1>3. Same(s, r, {"handlers"}) /\ r.handlers = s.handlers \ {"init"}
    BY <1>1 DEF Same, Shape, Fields
  <1> HIDE DEF r
  <1>4. /\ r.my = s.my /\ r.peer = s.peer /\ r.keyOut = s.keyOut /\ r.err = s.err
        /\ r.initial = s.initial
        /\ r.packetsOut = s.packetsOut /\ r.seqOut = s.seqOut /\ r.name = s.name
        /\ r.offer = s.offer /\ r.out = s.out /\ Shape(r)
    BY <1>3 DEF Same, Fields
  <1>5. Linked(x, w, r, 1, Sent(s), DataSent(s))
    BY <1>1, <1>4 DEF Linked, Sender
  <1>6. /\ Same(r, t, Unsealed) /\ Linked(x, w, t, 2, Sent(s), DataSent(s))
        /\ t.packetsOut = r.packetsOut + 1
        /\ t.seqOut \in Nat /\ (r.initial => t.seqOut <= 2)
    <2>1. "reply" = Token(r.name, 1) /\ ("reply" = "reply" => Hash(s) = <<r.my, r.my>>)
      BY <1>2, <1>4 DEF Token
    <2>2. r.packetsOut + 1 < Wrap /\ r.packetsOut \in Nat /\ r.seqOut \in Nat
          /\ (r.initial => r.seqOut <= 1)
      BY <1>1, <1>4, TransportAssumption
    <2>3. /\ Shape(r) /\ IsSeq(w) /\ r.err = "none"
          /\ r.my \in Nat \ {0} /\ r.keyOut = <<r.my - 1, r.my - 1>> /\ (r.initial <=> r.my = 1)
      BY <1>1, <1>4
    <2> QED BY ONLY <1>5, <2>1, <2>2, <2>3, MiddleSent
  <1> HIDE DEF t
  <1>7. /\ t.my = s.my /\ t.peer = s.peer /\ t.name = s.name /\ t.err = s.err
        /\ t.handlers = s.handlers \ {"init"} /\ Shape(t)
    BY <1>3, <1>4, <1>6 DEF Same, Fields, Unsealed
  <1>8. Alive(t) /\ Hash(t) = <<s.my, s.my>>
    BY <1>1, <1>7 DEF Alive, Fatal, Hash
  <1>9. input_kex_gen_init(s) = kex_send_newkeys(c)
    BY <1>8 DEF input_kex_gen_init, r, t
  <1>10. Same(t, c, {"newOut", "newIn"}) /\ c.newOut = <<s.my, s.my>> /\ c.newIn = <<s.my, s.my>>
    BY <1>7, <1>8 DEF kex_derive_keys, Same, Shape, Fields
  <1> HIDE DEF c
  <1>11. /\ c.packetsOut = t.packetsOut /\ c.seqOut = t.seqOut /\ c.handlers = t.handlers
         /\ c.name = t.name /\ c.offer = t.offer /\ c.out = t.out /\ c.keyOut = t.keyOut
    BY <1>10 DEF Same, Fields
  <1>12. Same(s, c, Unsealed \cup Agreed)
    BY <1>3, <1>6, <1>10 DEF Same, Agreed
  <1>13. Linked(x, w, c, 2, Sent(s), DataSent(s))
    BY <1>6, <1>11 DEF Linked, Sender
  <1>14. c.handlers \ TransportRange = s.handlers \ TransportRange
    BY <1>7, <1>11 DEF TransportRange
  <1>15. c.packetsOut \in Nat /\ c.packetsOut + 1 < Wrap /\ c.seqOut \in Nat
         /\ (s.initial => c.seqOut <= 2)
    BY <1>1, <1>4, <1>6, <1>11, TransportAssumption
  <1>16. Prepared(x, w, s, c)
    <2>1. Consistent(x, w, s)
      BY DEF Good
    <2> QED BY <1>10, <1>12, <1>13, <1>14, <1>15, <2>1 DEF Prepared
  <1> QED BY <1>9, <1>16, SendNewkeysGood

\* The client reads the reply: NEWKEYS and the queue.
LEMMA GenReplyGood ==
    ASSUME NEW x, NEW w, NEW s, Good(x, w, s), s.rekeying, s.my = s.peer, s.name = "client",
           NEW m, m.n = <<s.my, s.my>>
    PROVE  LET d == input_kex_gen_reply(s, m)
           IN  /\ Good(x, w, d) /\ In(d) = [In(s) EXCEPT !.step = 2]
               /\ d.phase = s.phase /\ d.offer = s.offer /\ d.name = s.name
  <1> DEFINE r == [s EXCEPT !.handlers = @ \ {"reply"}]
             c == kex_derive_keys(r)
  <1>1. /\ s.my \in Nat \ {0} /\ Shape(s)
        /\ s.packetsOut \in Nat /\ s.seqOut \in Nat
        /\ s.packetsOut + 1 < Wrap
        /\ s.initial => s.seqOut <= 2
        /\ Linked(x, w, s, 2, Sent(s), DataSent(s))
    <2>1. InitSent(s)
      BY DEF InitSent
    <2> QED BY <2>1, AgreedFacts
  <1>2. Hash(s) = <<s.my, s.my>>
    BY DEF Hash
  <1>3. input_kex_gen_reply(s, m) = kex_send_newkeys(c)
    BY <1>2 DEF input_kex_gen_reply
  <1>4. Same(s, r, {"handlers"}) /\ r.handlers = s.handlers \ {"reply"}
    BY <1>1 DEF Same, Shape, Fields
  <1> HIDE DEF r
  <1>5. r.name = s.name /\ r.my = s.my /\ r.peer = s.peer /\ Shape(r)
    BY <1>4 DEF Same, Fields
  <1>6. Hash(r) = <<s.my, s.my>>
    BY <1>5 DEF Hash
  <1>7. Same(r, c, {"newOut", "newIn"}) /\ c.newOut = <<s.my, s.my>> /\ c.newIn = <<s.my, s.my>>
    BY <1>5, <1>6 DEF kex_derive_keys, Same, Shape, Fields
  <1> HIDE DEF c
  <1>8. Same(s, c, Unsealed \cup Agreed)
    BY <1>4, <1>7 DEF Same, Agreed
  <1>9. /\ c.packetsOut = s.packetsOut /\ c.seqOut = s.seqOut
        /\ c.handlers = s.handlers \ {"reply"}
        /\ c.name = s.name /\ c.offer = s.offer /\ c.out = s.out /\ c.keyOut = s.keyOut
    BY <1>4, <1>7 DEF Same, Fields
  <1>10. Linked(x, w, c, 2, Sent(s), DataSent(s))
    BY <1>1, <1>9 DEF Linked, Sender
  <1>11. c.handlers \ TransportRange = s.handlers \ TransportRange
    BY <1>9 DEF TransportRange
  <1>12. Prepared(x, w, s, c)
    <2>1. Consistent(x, w, s)
      BY DEF Good
    <2> QED BY <1>1, <1>7, <1>8, <1>9, <1>10, <1>11, <2>1 DEF Prepared
  <1> QED BY <1>3, <1>12, SendNewkeysGood

Sending == {"rekeying", "init_sent", "done"}

\* Both KEXINITs are known: the client sends INIT, the server waits for it.
LEMMA GenGood ==
    ASSUME NEW x, NEW w, NEW p, Good(x, w, p), p.rekeying, p.my # p.peer,
           p.phase \in {"kex", "session"},
           NEW u, Same(p, u, Sending \cup {"handlers", "peer", "strict", "nonces", "reused"}),
           u.rekeying, u.init_sent, ~u.done, u.peer = p.my, u.strict = p.offer,
           u.handlers = p.handlers \ {"kexinit"}
    PROVE  LET d == kex_gen(u)
           IN  /\ Good(x, w, d) /\ In(d) = [In(p) EXCEPT !.step = 1]
               /\ d.phase = p.phase /\ d.offer = p.offer /\ d.name = p.name
  <1> DEFINE t == SendKex(u, "init", 0)
             c == IF u.name = "client" THEN t ELSE u
             token == IF u.name = "client" THEN "reply" ELSE "init"
             d == [c EXCEPT !.handlers = @ \cup {token}]
  <1>1. /\ p.my \in Nat \ {0} /\ p.keyOut = <<p.my - 1, p.my - 1>> /\ p.err = "none"
        /\ p.initial <=> p.my = 1
        /\ p.packetsOut \in Nat /\ p.seqOut \in Nat /\ p.init_sent /\ Shape(p) /\ IsSeq(w)
        /\ p.packetsOut + 2 < Wrap
        /\ p.initial => p.seqOut <= 1
        /\ Linked(x, w, p, 1, Sent(p), DataSent(p))
    <2>1. ~InitSent(p)
      BY DEF InitSent
    <2> QED BY <2>1, AgreedFacts
  <1>2. /\ u.my = p.my /\ u.keyOut = p.keyOut /\ u.err = p.err /\ u.initial = p.initial
        /\ u.packetsOut = p.packetsOut /\ u.seqOut = p.seqOut /\ u.name = p.name
        /\ u.offer = p.offer /\ u.out = p.out /\ Shape(u)
    BY DEF Same, Fields, Sending
  <1>3. Linked(x, w, u, 1, Sent(p), DataSent(p))
    BY <1>1, <1>2 DEF Linked, Sender
  <1>4. Wrap \in Nat
    BY TransportAssumption
  <1>5. u.name = "client" =>
          /\ Same(u, t, Unsealed) /\ Linked(x, w, t, 2, Sent(p), DataSent(p))
          /\ t.packetsOut = u.packetsOut + 1
          /\ t.seqOut \in Nat /\ (u.initial => t.seqOut <= 2)
    <2> SUFFICES ASSUME u.name = "client"
                 PROVE  /\ Same(u, t, Unsealed) /\ Linked(x, w, t, 2, Sent(p), DataSent(p))
                        /\ t.packetsOut = u.packetsOut + 1
                        /\ t.seqOut \in Nat /\ (u.initial => t.seqOut <= 2)
      OBVIOUS
    <2>1. "init" = Token(u.name, 1) /\ ("init" = "reply" => 0 = <<u.my, u.my>>)
      BY DEF Token
    <2>2. u.packetsOut + 1 < Wrap /\ u.packetsOut \in Nat /\ u.seqOut \in Nat
          /\ (u.initial => u.seqOut <= 1)
      BY <1>1, <1>2, <1>4
    <2>3. /\ Shape(u) /\ IsSeq(w) /\ u.err = "none"
          /\ u.my \in Nat \ {0} /\ u.keyOut = <<u.my - 1, u.my - 1>> /\ (u.initial <=> u.my = 1)
      BY <1>1, <1>2
    <2> QED BY ONLY <1>3, <2>1, <2>2, <2>3, MiddleSent
  <1>6. kex_gen(u) = d
    BY DEF kex_gen
  <1> HIDE DEF t
  <1>7. /\ Same(u, c, Unsealed)
        /\ Linked(x, w, c, IF u.name = "client" THEN 2 ELSE 1, Sent(p), DataSent(p))
        /\ c.packetsOut \in Nat
        /\ c.packetsOut + (IF u.name = "client" THEN 1 ELSE 2) < Wrap
        /\ c.seqOut \in Nat
        /\ p.initial => c.seqOut <= (IF u.name = "client" THEN 2 ELSE 1)
    <2>1. CASE u.name = "client"
      <3>1. c = t
        BY <2>1
      <3> HIDE DEF c
      <3>2. c.packetsOut \in Nat /\ c.packetsOut + 1 < Wrap
        BY <1>1, <1>2, <1>4, <1>5, <2>1, <3>1
      <3> QED BY <1>2, <1>5, <2>1, <3>1, <3>2
    <2>2. CASE u.name # "client"
      <3>1. c = u
        BY <2>2
      <3> HIDE DEF c
      <3>2. Same(u, u, Unsealed)
        BY <1>2 DEF Same
      <3> QED BY <1>1, <1>2, <1>3, <2>2, <3>1, <3>2
    <2> QED BY <2>1, <2>2
  <1> HIDE DEF c
  <1>8. Same(c, d, {"handlers"}) /\ d.handlers = c.handlers \cup {token}
    BY <1>7 DEF Same, Shape, Fields
  <1> HIDE DEF d
  <1>9. /\ Shape(d) /\ d.name = p.name /\ d.offer = p.offer /\ d.phase = p.phase
        /\ d.err = p.err /\ d.outgoing = p.outgoing
        /\ d.after_authentication = p.after_authentication /\ d.keyOut = p.keyOut
        /\ d.keyIn = p.keyIn /\ d.seqIn = p.seqIn /\ d.packetsIn = p.packetsIn
        /\ d.initial = p.initial /\ d.strict = p.offer /\ d.peer = p.my /\ d.my = p.my
        /\ d.newOut = p.newOut /\ d.newIn = p.newIn
        /\ d.sent = p.sent /\ d.got = p.got /\ d.data = p.data
        /\ d.rekeying /\ ~d.done /\ d.init_sent
    <2>1. Same(u, d, Unsealed \cup {"handlers"})
      BY <1>7, <1>8 DEF Same
    <2>2. Same(p, d, Unsealed \cup Sending \cup {"handlers", "peer", "strict"})
      BY <2>1 DEF Same, Unsealed
    <2>3. d.strict = u.strict /\ d.peer = u.peer /\ d.rekeying /\ ~d.done /\ d.init_sent
      BY <2>1 DEF Same, Fields, Unsealed
    <2> QED BY <2>2, <2>3 DEF Same, Fields, Unsealed, Sending
  <1>10. /\ d.out = c.out /\ d.seqOut = c.seqOut /\ d.packetsOut = c.packetsOut
         /\ d.handlers = (p.handlers \ {"kexinit"}) \cup {token}
         /\ c.name = p.name /\ c.offer = p.offer /\ c.keyOut = p.keyOut
    BY <1>2, <1>7, <1>8 DEF Same, Fields, Unsealed
  <1>11. /\ Typed(p) /\ Stage(p) /\ Phase(p) /\ Queue(p) /\ Counters(p) /\ Handlers(p)
         /\ InOrder(p)
    BY DEF Good, Consistent, Local
  <1>12. Typed(d)
    <2>1. d.seqOut \in Nat /\ d.packetsOut \in Nat /\ d.peer \in Nat
      BY <1>1, <1>7, <1>9, <1>10
    <2> QED BY ONLY <1>9, <1>11, <2>1 DEF Typed
  <1>13. Stage(d)
    BY <1>1, <1>9, <1>11 DEF Stage
  <1>14. Phase(d)
    BY <1>1, <1>9, <1>11 DEF Phase
  <1>15. Queue(d) /\ Answers(d) = Answers(p) /\ Held(d) = Held(p)
    BY <1>9, <1>11 DEF Queue, Answers, Held, Top
  <1>16. InitSent(d) <=> u.name = "client"
    BY <1>2, <1>9 DEF InitSent
  <1>17. Counters(d)
    <2>1. d.phase # "start"
      BY <1>9
    <2> QED BY ONLY <1>1, <1>7, <1>9, <1>10, <1>16, <2>1, p.rekeying DEF Counters
  <1>18. Handlers(d)
    <2>1. Awaited(d) = token
      BY <1>1, <1>2, <1>9 DEF Awaited
    <2>2. p.phase = "session" => "data" \in d.handlers /\ "answer" \in d.handlers
      BY <1>10, <1>11 DEF Handlers
    <2> QED BY <1>9, <1>10, <2>1, <2>2 DEF Handlers
  <1>19. InOrder(d)
    BY <1>9, <1>11 DEF InOrder
  <1>20. OutStep(d) = (IF u.name = "client" THEN 2 ELSE 1) /\ Sent(d) = Sent(p)
         /\ DataSent(d) = DataSent(p)
    BY <1>9, <1>15, <1>16 DEF OutStep, Sent, DataSent
  <1>21. Linked(x, w, d, OutStep(d), Sent(d), DataSent(d))
    BY <1>7, <1>9, <1>10, <1>20 DEF Linked, Sender
  <1>22. In(d) = [In(p) EXCEPT !.step = 1]
    <2>1. InStep(d) = 1
      BY <1>1, <1>9 DEF InStep
    <2> QED BY <1>9, <1>15, <2>1 DEF In
  <1>23. Good(x, w, d)
    BY <1>1, <1>9, <1>12, <1>13, <1>14, <1>15, <1>17, <1>18, <1>19, <1>21
       DEF Good, Consistent, Local
  <1> QED BY <1>6, <1>9, <1>22, <1>23

\* NEWKEYS read: the exchange is done.
LEMMA InputNewkeysGood ==
    ASSUME NEW x, NEW w, NEW s, Good(x, w, s), s.init_sent, ~s.rekeying
    PROVE  LET d == kex_input_newkeys(s)
           IN  /\ Good(x, w, d)
               /\ In(d) = [round |-> In(s).round + 1, step |-> 0, pay |-> In(s).pay,
                          dat |-> In(s).dat, seq |-> In(s).seq, cnt |-> 0]
               /\ d.phase = s.phase /\ d.offer = s.offer /\ d.name = s.name
               /\ s.phase # "auth"
  <1> DEFINE ext == IF s.initial /\ s.name = "server" THEN {"extinfo"} ELSE {}
             t == [s EXCEPT !.packetsIn = 0, !.keyIn = s.newIn, !.newIn = NoKey]
             d == [t EXCEPT !.handlers = (@ \ {"newkeys"}) \cup {"kexinit"} \cup ext,
                            !.done = TRUE, !.initial = FALSE, !.init_sent = FALSE]
  <1>1. /\ Typed(s) /\ Stage(s) /\ Phase(s) /\ Queue(s) /\ Counters(s) /\ Handlers(s)
        /\ InOrder(s) /\ Shape(s) /\ IsSeq(w)
        /\ Linked(x, w, s, OutStep(s), Sent(s), DataSent(s)) /\ s.outgoing = <<>>
    BY DEF Good, Consistent, Local
  <1>2. /\ s.my \in Nat /\ s.my # 0 /\ s.my = s.peer /\ s.newIn = <<s.my, s.my>> /\ s.err = "none"
        /\ s.keyIn = <<s.my - 1, s.my - 1>>
    BY <1>1 DEF Typed, Stage
  <1>3. s.newIn # NoKey
    BY <1>2 DEF NoKey
  <1>4. ssh_set_newkeys_in(s) = t
    BY <1>3 DEF ssh_set_newkeys_in
  <1>5. /\ Same(s, t, {"packetsIn", "keyIn", "newIn"})
        /\ t.packetsIn = 0 /\ t.keyIn = s.newIn
    BY <1>1 DEF Same, Shape, Fields
  <1> HIDE DEF t, ext
  <1>6. Alive(t) /\ Shape(t)
    BY <1>2, <1>5 DEF Same, Fields, Alive, Fatal
  <1>7. kex_input_newkeys(s) = d
    BY <1>4, <1>6 DEF kex_input_newkeys, ext
  <1>8. /\ Same(t, d, {"handlers", "done", "initial", "init_sent"})
        /\ d.handlers = (t.handlers \ {"newkeys"}) \cup {"kexinit"} \cup ext
        /\ d.done /\ ~d.initial /\ ~d.init_sent
    BY <1>6 DEF Same, Shape, Fields
  <1> HIDE DEF d
  <1>9. /\ Shape(d) /\ d.name = s.name /\ d.offer = s.offer /\ d.phase = s.phase
        /\ d.err = s.err /\ d.outgoing = s.outgoing /\ d.out = s.out
        /\ d.after_authentication = s.after_authentication /\ d.keyOut = s.keyOut
        /\ d.seqOut = s.seqOut /\ d.packetsOut = s.packetsOut
        /\ d.keyIn = <<s.my, s.my>> /\ d.seqIn = s.seqIn /\ d.packetsIn = 0
        /\ d.strict = s.strict /\ d.peer = s.peer /\ d.my = s.my
        /\ d.newOut = s.newOut
        /\ d.sent = s.sent /\ d.got = s.got /\ d.data = s.data
        /\ d.rekeying = s.rekeying
        /\ d.handlers = (s.handlers \ {"newkeys"}) \cup {"kexinit"} \cup ext
    BY <1>2, <1>5, <1>8 DEF Same, Fields
  <1>10. Typed(d)
    <2>1. 0 \in Nat
      OBVIOUS
    <2> QED BY ONLY <1>1, <1>9, <2>1 DEF Typed
  <1>11. Stage(d)
    BY <1>1, <1>2, <1>8, <1>9 DEF Stage
  <1>12. Phase(d)
    BY <1>1, <1>2, <1>8, <1>9 DEF Phase
  <1>13. Queue(d) /\ Answers(d) = Answers(s) /\ Held(d) = Held(s)
    <2>1. Answers(d) = Answers(s) /\ Held(d) = Held(s) /\ Top(d) = Top(s)
      BY <1>9 DEF Answers, Held, Top
    <2>2. Held(d) = 0 /\ Len(d.outgoing) = 0
      BY <1>1, <1>9 DEF Held
    <2> QED BY <1>1, <1>9, <2>1, <2>2 DEF Queue
  <1>14. s.phase \in {"kex", "session"}
    BY <1>1, <1>2 DEF Phase
  <1>15. Counters(d)
    <2>1. /\ s.packetsOut <= Top(s) + 1 /\ s.packetsOut \in Nat
          /\ s.phase # "session" => s.packetsOut <= 1
      BY <1>1 DEF Counters, Typed
    <2>2. Top(s) \in Nat /\ Top(s) + 4 < Wrap /\ Wrap \in Nat
      BY <1>1, TransportAssumption, TopBound DEF Typed
    <2>3. s.packetsOut + 3 < Wrap
      BY ONLY <2>1, <2>2
    <2>4. s.phase # "session" => s.packetsOut <= s.sent
      <3>1. s.phase # "session" => s.sent = 1
        BY <1>1, <1>14 DEF Phase
      <3> QED BY ONLY <2>1, <3>1
    <2> QED BY ONLY <1>8, <1>9, <1>14, <2>3, <2>4, ~s.rekeying DEF Counters
  <1>16. Handlers(d)
    <2>1. Awaited(d) = "kexinit"
      BY <1>8 DEF Awaited
    <2>2. s.phase = "session" => "data" \in d.handlers /\ "answer" \in d.handlers
      BY <1>1, <1>9 DEF Handlers
    <2> QED BY <1>9, <1>14, <2>1, <2>2 DEF Handlers
  <1>17. InOrder(d)
    BY <1>1, <1>9 DEF InOrder
  <1>18. OutStep(d) = OutStep(s) /\ Sent(d) = Sent(s) /\ DataSent(d) = DataSent(s)
    BY <1>9, <1>13 DEF OutStep, InitSent, Sent, DataSent
  <1>19. Linked(x, w, d, OutStep(s), Sent(s), DataSent(s))
    BY <1>1, <1>9 DEF Linked, Sender
  <1>20. In(d) = [round |-> In(s).round + 1, step |-> 0, pay |-> In(s).pay,
                          dat |-> In(s).dat, seq |-> In(s).seq, cnt |-> 0]
    <2>1. InStep(d) = 0
      BY <1>8 DEF InStep
    <2>2. d.keyIn[1] = s.keyIn[1] + 1
      BY <1>2, <1>9
    <2>3. In(s) = [round |-> s.keyIn[1], step |-> InStep(s), pay |-> Len(s.got),
                   dat |-> Answers(s), seq |-> s.seqIn, cnt |-> s.packetsIn]
      BY DEF In
    <2>4. In(d) = [round |-> s.keyIn[1] + 1, step |-> 0, pay |-> Len(s.got),
                   dat |-> Answers(s), seq |-> s.seqIn, cnt |-> 0]
      BY <1>9, <1>13, <2>1, <2>2 DEF In
    <2> QED BY ONLY <2>3, <2>4
  <1>21. Good(x, w, d)
    BY <1>1, <1>9, <1>10, <1>11, <1>12, <1>13, <1>15, <1>16, <1>17, <1>18, <1>19
       DEF Good, Consistent, Local
  <1>22. s.phase # "auth"
    BY <1>14
  <1> QED BY <1>7, <1>9, <1>20, <1>21, <1>22

\* KEXINIT read, by an end that has sent its own or sends it now.
LEMMA InputKexinitGood ==
    ASSUME NEW x, NEW w, NEW s, Good(x, w, s), s.phase \in {"kex", "session"},
           s.phase = "kex" => s.init_sent, ~s.init_sent \/ s.my # s.peer,
           NEW m, m.n = <<s.keyIn[1] + 1, s.offer>>, s.initial => m.seq = 0
    PROVE  LET d == kex_input_kexinit(s, m)
           IN  /\ Good(x, w, d) /\ In(d) = [In(s) EXCEPT !.step = 1]
               /\ d.phase = s.phase /\ d.offer = s.offer /\ d.name = s.name
  <1> DEFINE r == [s EXCEPT !.handlers = @ \ {"kexinit"}, !.peer = m.n[1]]
             t == kex_send_kexinit(r)
             u == IF s.initial THEN [t EXCEPT !.strict = m.n[2]] ELSE t
  <1>1. /\ Typed(s) /\ Stage(s) /\ Phase(s) /\ Counters(s) /\ Shape(s) /\ Consistent(x, w, s)
    BY DEF Good, Consistent, Local
  <1>2. s.my \in Nat /\ s.peer \in Nat /\ s.packetsOut \in Nat /\ s.seqOut \in Nat /\ s.err = "none"
        /\ Wrap \in Nat
    BY <1>1, TransportAssumption DEF Typed, Stage
  <1>3. m.n[1] = s.keyIn[1] + 1 /\ m.n[2] = s.offer
    OBVIOUS
  <1>4. /\ Same(s, r, {"handlers", "peer"}) /\ r.peer = s.keyIn[1] + 1
        /\ r.handlers = s.handlers \ {"kexinit"}
    BY <1>1, <1>3 DEF Same, Shape, Fields
  <1> HIDE DEF r
  <1>5. /\ Shape(r) /\ r.init_sent = s.init_sent /\ r.err = s.err /\ r.packetsOut = s.packetsOut
        /\ r.initial = s.initial /\ r.my = s.my /\ r.offer = s.offer /\ r.out = s.out
        /\ r.seqOut = s.seqOut /\ r.keyOut = s.keyOut
    BY <1>4 DEF Same, Fields
  <1>6. kex_input_kexinit(s, m) = IF ~Alive(u) THEN u
            ELSE IF u.initial /\ u.strict /\ m.seq # 0 THEN Fail(u, "strict")
            ELSE kex_gen(u)
    BY DEF kex_input_kexinit, r
  <1>7. PICK p : /\ Good(x, w, p) /\ In(p) = In(s) /\ p.rekeying /\ p.init_sent /\ ~p.done
                 /\ p.my # p.peer /\ p.phase = s.phase /\ p.offer = s.offer /\ p.name = s.name
                 /\ p.handlers = s.handlers /\ p.initial = s.initial
                 /\ p.my = s.keyIn[1] + 1 /\ p.strict = s.strict /\ p.err = s.err
                 /\ Same(p, t, Sending \cup {"handlers", "peer", "nonces", "reused"})
                 /\ t.rekeying /\ t.init_sent /\ ~t.done
                 /\ t.peer = s.keyIn[1] + 1 /\ t.handlers = s.handlers \ {"kexinit"}
    <2>1. CASE s.my # s.peer
      <3>1. s.rekeying /\ s.init_sent /\ ~s.done /\ s.keyIn = <<s.my - 1, s.my - 1>>
        BY <1>1, <2>1 DEF Stage
      <3>2. t = r
        BY <1>5, <3>1 DEF kex_send_kexinit
      <3>3. r.rekeying /\ r.init_sent /\ ~r.done
        BY <1>4, <3>1 DEF Same, Fields
      <3>4. s.my = s.keyIn[1] + 1
        BY <1>2, <3>1
      <3>5. Same(s, r, Sending \cup {"handlers", "peer", "nonces", "reused"})
        BY <1>4 DEF Same
      <3> HIDE DEF t
      <3> QED BY <1>4, <2>1, <3>1, <3>2, <3>3, <3>4, <3>5
    <2>2. CASE s.my = s.peer
      <3> DEFINE p == kex_start_rekex(s)
                 c == [type |-> "kexinit", n |-> <<s.my + 1, s.offer>>]
      <3>1. ~s.init_sent /\ s.phase = "session"
        BY <2>2
      <3>2. /\ s.done /\ s.after_authentication /\ s.keyIn = <<s.my, s.my>> /\ ~s.initial
        BY <1>1, <3>1 DEF Stage, Phase
      <3>3. /\ Good(x, w, p) /\ In(p) = In(s)
            /\ Same(s, p, Unsealed \cup {"done", "my", "rekeying", "init_sent"})
            /\ p.rekeying /\ p.init_sent /\ p.my # p.peer
            /\ ~p.done /\ p.my = s.my + 1
            /\ p.out = Append(s.out, Packet(s, c))
            /\ p.seqOut = (s.seqOut + 1) % Wrap
            /\ p.packetsOut = s.packetsOut + 1
        BY <1>1, <3>1, <3>2, RekexGood
      <3> HIDE DEF p
      <3>4. r.packetsOut + 1 < Wrap /\ r.packetsOut \in Nat
        <4>1. s.packetsOut + 3 < Wrap
          BY <1>1, <3>1 DEF Counters
        <4> QED BY ONLY <1>2, <1>5, <4>1
      <3>5. /\ Same(r, t, Unsealed \cup {"done", "my", "rekeying", "init_sent"})
            /\ ~t.done /\ t.my = r.my + 1 /\ t.rekeying /\ t.init_sent
            /\ t.out = Append(r.out, Packet(r, [type |-> "kexinit",
                                                n |-> <<r.my + 1, r.offer>>]))
            /\ t.seqOut = (r.seqOut + 1) % Wrap
            /\ t.packetsOut = r.packetsOut + 1
        BY <1>2, <1>5, <3>1, <3>2, <3>4, KexinitEffect
      <3>6. t.out = Append(s.out, Packet(s, c))
        <4>1. c = [type |-> "kexinit", n |-> <<r.my + 1, r.offer>>]
          BY <1>5
        <4> HIDE DEF c
        <4>2. Packet(r, c) = Packet(s, c)
          BY <1>5 DEF Packet
        <4> QED BY <1>5, <3>5, <4>1, <4>2
      <3> HIDE DEF t, c
      <3>7. Same(s, t, Unsealed \cup {"done", "my", "rekeying", "init_sent", "handlers", "peer"})
        BY <1>4, <3>5 DEF Same
      <3>8. t.my = p.my /\ t.out = p.out /\ t.seqOut = p.seqOut /\ t.packetsOut = p.packetsOut
            /\ t.peer = r.peer /\ t.handlers = r.handlers
        <4>1. t.peer = r.peer /\ t.handlers = r.handlers
          BY <3>5 DEF Same, Fields, Unsealed
        <4> QED BY <1>5, <3>3, <3>5, <3>6, <4>1
      <3>9. Same(p, t, Sending \cup {"handlers", "peer", "nonces", "reused"})
        BY <3>3, <3>7, <3>8 DEF Same, Unsealed, Sending
      <3>10. /\ p.phase = s.phase /\ p.offer = s.offer /\ p.name = s.name
             /\ p.handlers = s.handlers /\ p.initial = s.initial /\ p.strict = s.strict
             /\ p.err = s.err
        BY <3>3 DEF Same, Fields, Unsealed
      <3>11. s.my + 1 = s.keyIn[1] + 1
        BY <3>2
      <3> QED BY <1>4, <3>3, <3>5, <3>8, <3>9, <3>10, <3>11
    <2> QED BY <2>1, <2>2
  <1>8. Shape(t)
    BY <1>7 DEF Same
  <1> HIDE DEF t
  <1>9. Typed(p) /\ Stage(p)
    BY <1>7 DEF Good, Consistent, Local
  <1>10. ~p.initial => p.strict = p.offer
    <2>1. p.my \in Nat /\ p.peer \in Nat
      BY <1>9 DEF Typed
    <2>2. p.my = p.peer + 1 /\ (p.initial <=> p.my = 1) /\ (p.peer # 0 => p.strict = p.offer)
      BY <1>7, <1>9 DEF Stage
    <2> QED BY ONLY <2>1, <2>2
  <1>11. Same(t, u, {"strict"}) /\ u.strict = p.offer
    <2>1. CASE s.initial
      <3>1. u = [t EXCEPT !.strict = m.n[2]]
        BY <2>1
      <3> HIDE DEF u
      <3>2. Same(t, u, {"strict"}) /\ u.strict = m.n[2]
        BY <1>8, <3>1 DEF Same, Shape, Fields
      <3> QED BY <1>3, <1>7, <3>2
    <2>2. CASE ~s.initial
      <3>1. t.strict = p.strict
        BY <1>7 DEF Same, Fields, Sending
      <3>2. Same(t, t, {"strict"})
        BY <1>8 DEF Same
      <3> QED BY <1>7, <1>10, <2>2, <3>1, <3>2
    <2> QED BY <2>1, <2>2
  <1> HIDE DEF u
  <1>12. /\ u.rekeying /\ u.init_sent /\ ~u.done /\ u.peer = p.my
         /\ u.handlers = p.handlers \ {"kexinit"}
    BY <1>7, <1>11 DEF Same, Fields
  <1>13. Same(p, u, Sending \cup {"handlers", "peer", "strict", "nonces", "reused"})
    BY <1>7, <1>11 DEF Same
  <1>14. u.err = "none" /\ u.initial = s.initial
    BY <1>2, <1>7, <1>13 DEF Same, Fields, Sending
  <1>15. kex_input_kexinit(s, m) = kex_gen(u)
    BY <1>6, <1>14 DEF Alive, Fatal
  <1>16. Good(x, w, p) /\ p.rekeying /\ p.my # p.peer /\ p.phase \in {"kex", "session"}
    BY <1>7
  <1>17. LET d == kex_gen(u)
         IN  /\ Good(x, w, d) /\ In(d) = [In(p) EXCEPT !.step = 1]
             /\ d.phase = p.phase /\ d.offer = p.offer /\ d.name = p.name
    BY ONLY <1>11, <1>12, <1>13, <1>16, GenGood
  <1> QED BY <1>7, <1>15, <1>17

\* The next number keeps the deliveries in order.
LEMMA InOrderAppend ==
    ASSUME NEW q \in Seq(Nat), q = [i \in 1 .. Len(q) |-> i]
    PROVE  LET a == Append(q, Len(q) + 1)
           IN  /\ a \in Seq(Nat) /\ Len(a) = Len(q) + 1
               /\ a = [i \in 1 .. Len(a) |-> i]
  <1> DEFINE a == Append(q, Len(q) + 1)
  <1>1. Len(q) \in Nat
    OBVIOUS
  <1>2. a \in Seq(Nat) /\ Len(a) = Len(q) + 1
    OBVIOUS
  <1>3. ASSUME NEW i \in 1 .. Len(q) + 1 PROVE a[i] = i
    <2>1. CASE i = Len(q) + 1
      BY <2>1
    <2>2. CASE i # Len(q) + 1
      <3>1. i \in 1 .. Len(q)
        BY <1>1, <2>2
      <3>2. a[i] = q[i] /\ q[i] = i
        BY <3>1
      <3> QED BY <3>2
    <2> QED BY <2>1, <2>2
  <1>4. a = [i \in 1 .. Len(a) |-> a[i]]
    BY <1>2
  <1> HIDE DEF a
  <1>5. a = [i \in 1 .. Len(a) |-> i]
    BY <1>2, <1>3, <1>4
  <1> QED BY <1>2, <1>5 DEF a

\* A packet above the transport is delivered, and nothing is sent.
LEMMA GotGood ==
    ASSUME NEW x, NEW w, NEW s, Good(x, w, s),
           NEW d, Same(s, d, {"got", "phase", "handlers"}),
           d.got = Append(s.got, Len(s.got) + 1),
           d.phase = "session" <=> s.phase = "session", s.phase # "start",
           Len(d.got) = Len(s.got) + 1 => Phase(d) /\ Handlers(d)
    PROVE  Good(x, w, d) /\ In(d) = [In(s) EXCEPT !.pay = @ + 1]
  <1>1. /\ Shape(d) /\ d.name = s.name /\ d.offer = s.offer
        /\ d.err = s.err /\ d.outgoing = s.outgoing /\ d.out = s.out
        /\ d.after_authentication = s.after_authentication /\ d.keyOut = s.keyOut
        /\ d.keyIn = s.keyIn /\ d.seqOut = s.seqOut /\ d.packetsOut = s.packetsOut
        /\ d.seqIn = s.seqIn /\ d.packetsIn = s.packetsIn
        /\ d.initial = s.initial /\ d.strict = s.strict /\ d.peer = s.peer /\ d.my = s.my
        /\ d.newOut = s.newOut /\ d.newIn = s.newIn
        /\ d.sent = s.sent /\ d.data = s.data
        /\ d.rekeying = s.rekeying /\ d.done = s.done /\ d.init_sent = s.init_sent
    BY DEF Same, Fields
  <1>2. /\ Typed(s) /\ Stage(s) /\ Phase(s) /\ Queue(s) /\ Counters(s) /\ InOrder(s)
        /\ IsSeq(w) /\ Linked(x, w, s, OutStep(s), Sent(s), DataSent(s))
    BY DEF Good, Consistent, Local
  <1>3. s.got \in Seq(Nat) /\ s.got = [i \in 1 .. Len(s.got) |-> i]
    BY <1>2 DEF Typed, InOrder
  <1>4. d.got \in Seq(Nat) /\ Len(d.got) = Len(s.got) + 1
        /\ d.got = [i \in 1 .. Len(d.got) |-> i]
    BY <1>3, InOrderAppend
  <1>5. Phase(d) /\ Handlers(d) /\ InOrder(d)
    BY <1>4 DEF InOrder
  <1>6. Typed(d)
    BY ONLY <1>1, <1>2, <1>4 DEF Typed
  <1>7. Stage(d)
    BY ONLY <1>1, <1>2 DEF Stage
  <1>8. Queue(d) /\ Held(d) = Held(s) /\ Answers(d) = Answers(s) /\ Top(d) = Top(s)
    <2>1. Held(d) = Held(s) /\ Answers(d) = Answers(s) /\ Top(d) = Top(s)
      BY <1>1 DEF Held, Answers, Top
    <2> QED BY <1>1, <1>2, <2>1 DEF Queue
  <1>9. Counters(d)
    <2>1. d.phase # "start"
      <3>1. s.my # 0
        BY <1>2 DEF Phase
      <3> QED BY <1>1, <1>5, <3>1 DEF Phase
    <2> QED BY <1>1, <1>2, <1>8, <2>1 DEF Counters, InitSent
  <1>10. OutStep(d) = OutStep(s) /\ Sent(d) = Sent(s) /\ DataSent(d) = DataSent(s)
    BY <1>1, <1>8 DEF OutStep, InitSent, Sent, DataSent
  <1>11. Linked(x, w, d, OutStep(s), Sent(s), DataSent(s))
    BY <1>1, <1>2 DEF Linked, Sender
  <1>12. In(d) = [In(s) EXCEPT !.pay = @ + 1]
    <2>1. InStep(d) = InStep(s)
      BY <1>1 DEF InStep
    <2> QED BY <1>1, <1>4, <1>8, <2>1 DEF In
  <1>13. ~d.rekeying => d.outgoing = <<>>
    BY <1>1 DEF Good
  <1> QED BY <1>1, <1>2, <1>5, <1>6, <1>7, <1>8, <1>9, <1>10, <1>11, <1>12, <1>13
          DEF Good, Consistent, Local

\* The result of delivering m to s.
Delivered(x, w, s, m, d) ==
    /\ Good(x, w, d)
    /\ In(d) = [In(s) EXCEPT !.pay = @ + 1, !.dat = IF m.type = "data" THEN @ + 1 ELSE @]
    /\ d.offer = s.offer /\ d.name = s.name
    /\ d.phase = "auth" => Same(s, d, {"got", "handlers"})

\* EXT_INFO is delivered.
LEMMA DeliverExtinfo ==
    ASSUME NEW x, NEW w, NEW s, Good(x, w, s), s.phase = "auth", Len(s.got) = 0,
           NEW m, m.n = Len(s.got) + 1, m.type = "extinfo"
    PROVE  Delivered(x, w, s, m, Deliver(s, m))
  <1> DEFINE t == [s EXCEPT !.got = Append(@, m.n)]
             d == [t EXCEPT !.handlers = @ \ {"extinfo"}]
  <1>1. Deliver(s, m) = d
    BY DEF Deliver
  <1>2. Shape(s) /\ Phase(s) /\ Handlers(s)
    BY DEF Good, Consistent, Local
  <1>3. Same(s, t, {"got"}) /\ t.got = Append(s.got, Len(s.got) + 1)
    BY <1>2 DEF Same, Shape, Fields
  <1> HIDE DEF t
  <1>4. Same(t, d, {"handlers"}) /\ d.handlers = t.handlers \ {"extinfo"}
    BY <1>3 DEF Same, Shape, Fields
  <1> HIDE DEF d
  <1>5. /\ Same(s, d, {"got", "handlers"}) /\ Same(s, d, {"got", "phase", "handlers"})
        /\ d.got = Append(s.got, Len(s.got) + 1) /\ d.handlers = s.handlers \ {"extinfo"}
    BY <1>3, <1>4 DEF Same, Fields
  <1>6. /\ d.name = s.name /\ d.offer = s.offer /\ d.my = s.my /\ d.phase = s.phase
        /\ d.init_sent = s.init_sent /\ d.peer = s.peer /\ d.rekeying = s.rekeying
        /\ d.after_authentication = s.after_authentication /\ d.sent = s.sent
        /\ d.data = s.data
    BY <1>5 DEF Same, Fields
  <1>7. ASSUME Len(d.got) = Len(s.got) + 1 PROVE Phase(d) /\ Handlers(d)
    <2>1. Len(d.got) = 1
      BY <1>7
    <2>2. Phase(d)
      BY <1>2, <1>6, <2>1 DEF Phase
    <2>3. Handlers(d)
      BY <1>2, <1>5, <1>6, <2>1 DEF Handlers
    <2> QED BY <2>2, <2>3
  <1>8. Good(x, w, d) /\ In(d) = [In(s) EXCEPT !.pay = @ + 1]
    BY <1>5, <1>6, <1>7, GotGood
  <1>9. In(d) = [In(s) EXCEPT !.pay = @ + 1, !.dat = IF m.type = "data" THEN @ + 1 ELSE @]
    BY <1>8 DEF In
  <1> QED BY <1>1, <1>5, <1>6, <1>8, <1>9 DEF Delivered

\* SUCCESS is delivered to the client.
LEMMA DeliverSuccess ==
    ASSUME NEW x, NEW w, NEW s, Good(x, w, s), s.phase = "auth", s.name = "client",
           s.after_authentication, Len(s.got) = 1,
           NEW m, m.n = Len(s.got) + 1, m.type = "success"
    PROVE  Delivered(x, w, s, m, Deliver(s, m))
  <1> DEFINE t == [s EXCEPT !.got = Append(@, m.n)]
             d == [t EXCEPT !.phase = "authenticated", !.handlers = @ \ {"success"}]
  <1>1. Deliver(s, m) = d
    BY DEF Deliver
  <1>2. Shape(s) /\ Phase(s) /\ Handlers(s)
    BY DEF Good, Consistent, Local
  <1>3. Same(s, t, {"got"}) /\ t.got = Append(s.got, Len(s.got) + 1)
    BY <1>2 DEF Same, Shape, Fields
  <1> HIDE DEF t
  <1>4. Same(t, d, {"handlers", "phase"}) /\ d.phase = "authenticated"
    BY <1>3 DEF Same, Shape, Fields
  <1> HIDE DEF d
  <1>5. /\ Same(s, d, {"got", "phase", "handlers"})
        /\ d.got = Append(s.got, Len(s.got) + 1)
    BY <1>3, <1>4 DEF Same, Fields
  <1>6. /\ d.name = s.name /\ d.offer = s.offer /\ d.my = s.my
        /\ d.init_sent = s.init_sent /\ d.peer = s.peer /\ d.rekeying = s.rekeying
        /\ d.after_authentication = s.after_authentication /\ d.sent = s.sent
        /\ d.data = s.data
    BY <1>5 DEF Same, Fields
  <1>7. ASSUME Len(d.got) = Len(s.got) + 1 PROVE Phase(d) /\ Handlers(d)
    <2>1. Len(d.got) = 2
      BY <1>7
    <2>2. Phase(d)
      BY <1>2, <1>4, <1>6, <2>1 DEF Phase
    <2>3. Handlers(d)
      BY <1>4 DEF Handlers
    <2> QED BY <2>2, <2>3
  <1>70. (d.phase = "session" <=> s.phase = "session") /\ s.phase # "start"
    BY <1>4
  <1>8. Good(x, w, d) /\ In(d) = [In(s) EXCEPT !.pay = @ + 1]
    <2>1. Good(x, w, s)
      OBVIOUS
    <2> QED BY ONLY <1>5, <1>7, <1>70, <2>1, GotGood
  <1>9. In(d) = [In(s) EXCEPT !.pay = @ + 1, !.dat = IF m.type = "data" THEN @ + 1 ELSE @]
    BY <1>8 DEF In
  <1> QED BY <1>1, <1>4, <1>6, <1>8, <1>9 DEF Delivered

\* Data, which is answered, or an answer is delivered.
LEMMA DeliverSession ==
    ASSUME NEW x, NEW w, NEW s, Good(x, w, s), s.phase = "session",
           NEW m, m.n = Len(s.got) + 1, m.type \in {"data", "answer"},
           m.type = "data" => Answers(s) < MaxData /\ Room(s) /\ (s.init_sent => s.rekeying)
    PROVE  Delivered(x, w, s, m, Deliver(s, m))
  <1> DEFINE t == [s EXCEPT !.got = Append(@, m.n)]
             u == [t EXCEPT !.sent = @ + 1]
             d == Deliver(s, m)
  <1>1. d = IF m.type = "data" THEN SendNext(t, "answer") ELSE t
    BY DEF Deliver
  <1>2. Shape(s) /\ Phase(s) /\ Handlers(s) /\ Typed(s)
    BY DEF Good, Consistent, Local
  <1>3. Same(s, t, {"got"}) /\ t.got = Append(s.got, Len(s.got) + 1)
    BY <1>2 DEF Same, Shape, Fields
  <1> HIDE DEF t, d
  <1>4. Same(s, t, {"got", "phase", "handlers"})
    BY <1>3 DEF Same
  <1>5. /\ t.name = s.name /\ t.offer = s.offer /\ t.my = s.my /\ t.phase = s.phase
        /\ t.init_sent = s.init_sent /\ t.peer = s.peer /\ t.rekeying = s.rekeying
        /\ t.after_authentication = s.after_authentication /\ t.sent = s.sent
        /\ t.data = s.data /\ t.handlers = s.handlers
        /\ t.outgoing = s.outgoing /\ t.packetsIn = s.packetsIn
    BY <1>3 DEF Same, Fields
  <1>6. ASSUME Len(t.got) = Len(s.got) + 1 PROVE Phase(t) /\ Handlers(t)
    <2>1. Len(t.got) >= 2
      <3>1. Len(s.got) >= 2 /\ Len(s.got) \in Nat
        BY <1>2 DEF Phase, Typed
      <3> QED BY ONLY <1>6, <3>1
    <2>2. Phase(t)
      BY <1>2, <1>5, <2>1 DEF Phase
    <2>3. Handlers(t)
      BY <1>2, <1>5 DEF Handlers, Awaited
    <2> QED BY <2>2, <2>3
  <1>7. Good(x, w, t) /\ In(t) = [In(s) EXCEPT !.pay = @ + 1]
    BY <1>3, <1>4, <1>5, <1>6, GotGood
  <1>8. CASE m.type = "answer"
    <2>1. d = t
      BY <1>1, <1>8
    <2>2. In(d) = [In(s) EXCEPT !.pay = @ + 1, !.dat = IF m.type = "data" THEN @ + 1 ELSE @]
      BY <1>7, <1>8, <2>1 DEF In
    <2> QED BY <1>5, <1>7, <2>1, <2>2 DEF Delivered, d
  <1>9. CASE m.type = "data"
    <2>1. Same(t, u, {"sent"}) /\ u.sent = t.sent + 1
      BY <1>3 DEF Same, Shape, Fields
    <2>2. d = ssh_packet_send2(u, [type |-> "answer", n |-> t.sent + 1])
      BY <1>1, <1>9 DEF SendNext
    <2> HIDE DEF u
    <2>3. Same(t, u, {"sent", "data"}) /\ u.data = t.data /\ Answers(t) = Answers(s)
      BY <1>5, <2>1 DEF Same, Fields, Answers
    <2>4. /\ Good(x, w, t) /\ t.phase = "session" /\ Answers(t) < MaxData
          /\ Room(t) /\ (t.init_sent => t.rekeying)
      BY <1>5, <1>7, <1>9, <2>3 DEF Room, Held, Top
    <2>5. LET c == ssh_packet_send2(u, [type |-> "answer", n |-> t.sent + 1])
          IN  /\ Good(x, w, c)
              /\ In(c) = [In(t) EXCEPT !.dat = IF "answer" = "answer" THEN @ + 1 ELSE @]
              /\ c.phase = "session" /\ c.name = t.name /\ c.offer = t.offer
      BY <2>1, <2>3, <2>4, SessionSend
    <2>6. /\ Good(x, w, d) /\ In(d) = [In(t) EXCEPT !.dat = @ + 1] /\ d.phase = "session"
          /\ d.name = t.name /\ d.offer = t.offer
      BY <2>2, <2>5
    <2>7. In(d) = [In(s) EXCEPT !.pay = @ + 1, !.dat = IF m.type = "data" THEN @ + 1 ELSE @]
      BY <1>7, <1>9, <2>6 DEF In
    <2> QED BY <1>5, <2>6, <2>7 DEF Delivered, d
  <1> QED BY <1>8, <1>9

\* The server grants the client's request.
LEMMA DeliverRequest ==
    ASSUME NEW x, NEW w, NEW s, Good(x, w, s), s.phase = "auth", s.name = "server",
           Len(s.got) = 1, NEW m, m.n = Len(s.got) + 1, m.type = "request"
    PROVE  Delivered(x, w, s, m, Deliver(s, m))
  <1> DEFINE t == [s EXCEPT !.got = Append(@, m.n)]
             h == [t EXCEPT !.handlers = {}]
             g == [h EXCEPT !.sent = @ + 1]
             c == [type |-> "success", n |-> h.sent + 1]
             u == ssh_packet_send2_wrapped(g, c)
             d == [u EXCEPT !.phase = "authenticated"]
  <1>1. Deliver(s, m) = [ssh_packet_send2(g, c) EXCEPT !.phase = "authenticated"]
    BY DEF Deliver, SendNext
  <1>2. /\ Typed(s) /\ Stage(s) /\ Phase(s) /\ Queue(s) /\ Counters(s) /\ InOrder(s)
        /\ Shape(s) /\ IsSeq(w) /\ Linked(x, w, s, OutStep(s), Sent(s), DataSent(s))
    BY DEF Good, Consistent, Local
  <1>3. /\ ~s.init_sent /\ ~s.rekeying /\ ~s.after_authentication /\ s.sent = 1
        /\ s.my # 0 /\ ~s.initial /\ s.outgoing = <<>> /\ s.data = MaxData
    BY <1>2 DEF Stage, Phase, Queue
  <1>4. s.packetsOut \in Nat /\ s.seqOut \in Nat /\ s.packetsOut <= 1 /\ s.my \in Nat
        /\ MaxData \in Nat /\ Wrap \in Nat /\ 5 < Wrap
    <2>1. s.packetsOut <= s.sent
      BY <1>2, <1>3 DEF Counters
    <2> QED BY <1>2, <1>3, <2>1, TransportAssumption, CounterAssumption DEF Typed
  <1>5. Same(s, t, {"got"}) /\ t.got = Append(s.got, Len(s.got) + 1)
    BY <1>2 DEF Same, Shape, Fields
  <1> HIDE DEF t
  <1>6. Same(t, h, {"handlers"})
    BY <1>5 DEF Same, Shape, Fields
  <1> HIDE DEF h
  <1>7. Same(h, g, {"sent"}) /\ g.sent = h.sent + 1
    BY <1>6 DEF Same, Shape, Fields
  <1> HIDE DEF g
  <1>8. Same(s, g, {"got", "handlers", "sent"})
    BY <1>5, <1>6, <1>7 DEF Same
  <1>9. g.got = Append(s.got, Len(s.got) + 1) /\ h.sent = s.sent /\ g.sent = 2
    <2>1. g.got = t.got /\ h.sent = s.sent
      BY <1>5, <1>6, <1>7 DEF Same, Fields
    <2> QED BY <1>3, <1>5, <1>7, <2>1
  <1>10. /\ Shape(g) /\ ~g.rekeying /\ ~g.after_authentication /\ ~g.initial
         /\ g.packetsOut = s.packetsOut /\ g.out = s.out /\ g.seqOut = s.seqOut
         /\ g.keyOut = s.keyOut
    BY <1>3, <1>8 DEF Same, Fields
  <1>11. c.type = "success" /\ c.n = 2
    BY <1>3, <1>9
  <1> HIDE DEF c
  <1>12. ssh_packet_send2(g, c) = u
    <2>1. ~ssh_packet_need_rekeying(g, 1)
      BY <1>10 DEF ssh_packet_need_rekeying
    <2> QED BY <1>10, <1>11, <2>1 DEF ssh_packet_send2, u
  <1>13. /\ Same(g, u, Unsealed \cup {"after_authentication"})
         /\ u.out = Append(g.out, Packet(g, c))
         /\ u.seqOut = (g.seqOut + 1) % Wrap
         /\ u.packetsOut = g.packetsOut + 1
         /\ u.after_authentication
    <2>1. g.packetsOut \in Nat /\ g.packetsOut + 1 < Wrap
      BY <1>4, <1>10
    <2> QED BY <1>10, <1>11, <2>1, WrappedSuccess
  <1> HIDE DEF u
  <1>14. Same(u, d, {"phase"}) /\ d.phase = "authenticated"
    BY <1>13 DEF Same, Shape, Fields
  <1>15. Deliver(s, m) = d
    BY <1>1, <1>12
  <1> HIDE DEF d
  <1>16. /\ Same(s, d, Unsealed \cup {"got", "handlers", "sent", "phase", "after_authentication"})
    BY <1>8, <1>13, <1>14 DEF Same
  <1>17. /\ d.got = Append(s.got, Len(s.got) + 1) /\ d.sent = 2 /\ d.phase = "authenticated"
         /\ d.after_authentication
         /\ d.out = Append(s.out, Packet(s, c)) /\ d.seqOut = (s.seqOut + 1) % Wrap
         /\ d.packetsOut = s.packetsOut + 1
    <2>1. /\ d.got = g.got /\ d.sent = g.sent /\ d.out = u.out /\ d.seqOut = u.seqOut
          /\ d.packetsOut = u.packetsOut /\ d.after_authentication = u.after_authentication
      BY <1>13, <1>14 DEF Same, Fields, Unsealed
    <2>2. Packet(g, c) = Packet(s, c)
      BY <1>10 DEF Packet
    <2> QED BY <1>9, <1>10, <1>13, <1>14, <2>1, <2>2
  <1>18. /\ Shape(d) /\ d.name = s.name /\ d.offer = s.offer
         /\ d.err = s.err /\ d.outgoing = s.outgoing /\ d.keyOut = s.keyOut
         /\ d.keyIn = s.keyIn /\ d.seqIn = s.seqIn /\ d.packetsIn = s.packetsIn
         /\ d.initial = s.initial /\ d.strict = s.strict /\ d.peer = s.peer /\ d.my = s.my
         /\ d.newOut = s.newOut /\ d.newIn = s.newIn /\ d.data = s.data
         /\ d.rekeying = s.rekeying /\ d.done = s.done /\ d.init_sent = s.init_sent
    BY <1>16 DEF Same, Fields, Unsealed
  <1>19. d.got \in Seq(Nat) /\ Len(d.got) = Len(s.got) + 1
         /\ d.got = [i \in 1 .. Len(d.got) |-> i]
    <2>1. s.got \in Seq(Nat) /\ s.got = [i \in 1 .. Len(s.got) |-> i]
      BY <1>2 DEF Typed, InOrder
    <2> QED BY ZenonT(40), <1>17, <2>1, InOrderAppend
  <1>20. Typed(d)
    <2>1. (s.seqOut + 1) % Wrap \in Nat
      BY <1>4, NextSeq
    <2>2. d.seqOut \in Nat /\ d.packetsOut \in Nat /\ d.sent \in Nat
      BY <1>4, <1>17, <2>1
    <2> QED BY ONLY <1>2, <1>18, <1>19, <2>2 DEF Typed
  <1>21. Stage(d)
    BY ONLY <1>2, <1>18 DEF Stage
  <1>22. Len(d.got) = 2
    BY <1>19
  <1>23. Phase(d)
    BY <1>2, <1>3, <1>17, <1>18, <1>22 DEF Phase
  <1>24. Answers(d) = 0 /\ Answers(s) = 0 /\ Held(d) = 0 /\ Held(s) = 0 /\ Len(d.outgoing) = 0
         /\ Len(s.outgoing) = 0
    BY <1>3, <1>17, <1>18 DEF Answers, Held
  <1>25. Queue(d)
    BY <1>3, <1>4, <1>17, <1>18, <1>20, <1>24, EmptyQueue
  <1>26. Counters(d)
    <2>1. d.packetsOut + 3 < Wrap /\ d.packetsOut <= d.sent
      BY ONLY <1>4, <1>17
    <2> QED BY <1>3, <1>17, <1>18, <2>1 DEF Counters
  <1>27. Handlers(d) /\ InOrder(d)
    BY <1>17, <1>19 DEF Handlers, InOrder
  <1>28. OutStep(s) = 0 /\ Sent(s) = 1 /\ DataSent(s) = 0
         /\ OutStep(d) = 0 /\ Sent(d) = 2 /\ DataSent(d) = 0
    <2>1. OutStep(d) = 0 /\ OutStep(s) = 0
      BY <1>3, <1>18 DEF OutStep
    <2>2. Sent(s) = s.sent - 0 /\ Sent(d) = d.sent - 0
      BY <1>24 DEF Sent
    <2>3. DataSent(s) = MaxData - s.data - 0 /\ DataSent(d) = MaxData - d.data - 0
      BY <1>24 DEF DataSent
    <2>4. d.sent = 2 /\ s.sent = 1 /\ d.data = MaxData /\ s.data = MaxData
      BY <1>3, <1>17, <1>18
    <2> QED BY ONLY <1>4, <2>1, <2>2, <2>3, <2>4
  <1>29. Linked(x, w, d, 0, 2, 0)
    <2>1. Linked(x, w, s, 0, 1, 0) /\ IsSeq(w)
      BY <1>2, <1>28
    <2>2. s.my \in Nat \ {0} /\ s.keyOut = <<s.my, s.my>> /\ s.packetsOut + 1 < Wrap
      BY <1>2, <1>3, <1>4 DEF Stage
    <2>3. PayloadType(s.name, 1, c.type) /\ c.n = 1 + 1 /\ c.type # "data"
      BY <1>11 DEF PayloadType
    <2>4. /\ d.name = s.name /\ d.offer = s.offer /\ d.keyOut = s.keyOut
          /\ d.out = Append(s.out, Packet(s, c))
          /\ d.seqOut = (s.seqOut + 1) % Wrap /\ d.packetsOut = s.packetsOut + 1
      BY <1>17, <1>18
    <2>5. Linked(x, w, d, 0, 1 + 1, IF c.type = "data" THEN 0 + 1 ELSE 0)
      BY ONLY <2>1, <2>2, <2>3, <2>4, SealedPayload
    <2> QED BY <1>11, <2>5
  <1>30. Good(x, w, d)
    BY <1>2, <1>3, <1>18, <1>20, <1>21, <1>23, <1>25, <1>26, <1>27, <1>28, <1>29
       DEF Good, Consistent, Local
  <1>31. In(d) = [In(s) EXCEPT !.pay = @ + 1, !.dat = IF m.type = "data" THEN @ + 1 ELSE @]
    <2>1. InStep(d) = InStep(s)
      BY <1>18 DEF InStep
    <2>2. In(d) = [In(s) EXCEPT !.pay = @ + 1]
      BY <1>18, <1>19, <1>24, <2>1 DEF In
    <2> QED BY <2>2 DEF In
  <1> QED BY <1>15, <1>17, <1>18, <1>30, <1>31 DEF Delivered

\* The client has read the packet that says it is authenticated.
LEMMA GoodAuthenticated ==
    ASSUME NEW x, NEW w, NEW s, Good(x, w, s), s.phase = "auth", s.name = "client",
           NEW d, Same(s, d, {"after_authentication"}), d.after_authentication
    PROVE  Good(x, w, d) /\ In(d) = In(s)
  <1>1. /\ Shape(d) /\ d.name = s.name /\ d.offer = s.offer /\ d.phase = s.phase
        /\ d.err = s.err /\ d.outgoing = s.outgoing /\ d.out = s.out
        /\ d.keyOut = s.keyOut
        /\ d.keyIn = s.keyIn /\ d.seqOut = s.seqOut /\ d.packetsOut = s.packetsOut
        /\ d.seqIn = s.seqIn /\ d.packetsIn = s.packetsIn
        /\ d.initial = s.initial /\ d.strict = s.strict /\ d.peer = s.peer /\ d.my = s.my
        /\ d.newOut = s.newOut /\ d.newIn = s.newIn /\ d.handlers = s.handlers
        /\ d.sent = s.sent /\ d.got = s.got /\ d.data = s.data
        /\ d.rekeying = s.rekeying /\ d.done = s.done /\ d.init_sent = s.init_sent
    BY DEF Same, Fields
  <1>2. Typed(s) /\ Stage(s) /\ Phase(s) /\ Queue(s) /\ Counters(s) /\ Handlers(s) /\ InOrder(s)
    BY DEF Good, Consistent, Local
  <1>3. Typed(d)
    BY ONLY <1>1, <1>2 DEF Typed
  <1>4. Stage(d)
    BY ONLY <1>1, <1>2 DEF Stage
  <1>5. Phase(d)
    BY <1>1, <1>2 DEF Phase
  <1>6. Queue(d) /\ Held(d) = Held(s) /\ Answers(d) = Answers(s) /\ Top(d) = Top(s)
    BY ONLY <1>1, <1>2 DEF Queue, Held, Answers, Top
  <1>7. Counters(d)
    BY ONLY <1>1, <1>2, <1>6 DEF Counters, InitSent
  <1>8. Handlers(d) /\ InOrder(d)
    BY ONLY <1>1, <1>2 DEF Handlers, Awaited, InOrder
  <1>9. OutStep(d) = OutStep(s) /\ Sent(d) = Sent(s) /\ DataSent(d) = DataSent(s)
    BY <1>1, <1>6 DEF OutStep, InitSent, Sent, DataSent
  <1>10. Linked(x, w, d, OutStep(s), Sent(s), DataSent(s))
    <2>1. Linked(x, w, s, OutStep(s), Sent(s), DataSent(s))
      BY DEF Good, Consistent
    <2> QED BY <1>1, <2>1 DEF Linked, Sender
  <1>11. In(d) = In(s)
    BY <1>1, <1>6 DEF In, InStep
  <1> QED BY <1>1, <1>3, <1>4, <1>5, <1>6, <1>7, <1>8, <1>9, <1>10, <1>11
          DEF Good, Consistent, Local

\* Between two packets an end in its authentication has not started an exchange.
Settled(s) == s.phase = "auth" => ~s.init_sent /\ ~s.after_authentication

\* In(s), the number and the count of m apart.
Counted(s, m, v) ==
    v = [round |-> In(s).round, step |-> In(s).step, pay |-> In(s).pay, dat |-> In(s).dat,
         seq |-> IF m.type = "newkeys" /\ s.offer THEN 0 ELSE (In(s).seq + 1) % Wrap,
         cnt |-> In(s).cnt + 1]

\* The packet opens, no counter wraps, and an exchange may start.
LEMMA ReadPollGood ==
    ASSUME NEW x, NEW w, NEW s, Good(x, w, s), Reading(s), Settled(s),
           NEW m, Fits(Peer(s.name), s.offer, In(s), m)
    PROVE  LET t == ssh_packet_read_poll2(s, m)
           IN  /\ Good(x, w, t) /\ Counted(s, m, In(t))
               /\ t.phase = s.phase /\ t.name = s.name /\ t.offer = s.offer
               /\ s.phase = "kex" => t.init_sent
               /\ m.type = "success" => t.after_authentication
               /\ m.type # "success" => Settled(t)
               /\ m.type = "data" => Room(t) /\ (t.init_sent => t.rekeying)
  <1> DEFINE t == [s EXCEPT !.seqIn = (@ + 1) % Wrap, !.packetsIn = (@ + 1) % Wrap]
             u == IF m.type = "success" THEN [t EXCEPT !.after_authentication = TRUE] ELSE t
             v == IF m.type = "newkeys" /\ u.strict THEN [u EXCEPT !.seqIn = 0] ELSE u
             d == ssh_packet_check_rekey(v)
  <1>1. /\ Typed(s) /\ Stage(s) /\ Phase(s) /\ Shape(s)
    BY DEF Good, Consistent, Local
  <1>2. /\ s.seqIn \in Nat /\ s.packetsIn \in Nat /\ Wrap \in Nat \ {0} /\ s.my \in Nat
        /\ s.name \in Ends
    BY <1>1, TransportAssumption DEF Typed
  <1>3. /\ In(s).round = s.keyIn[1] /\ In(s).seq = s.seqIn /\ In(s).cnt = s.packetsIn
        /\ In(s).pay = Len(s.got) /\ In(s).step = InStep(s)
    BY DEF In
  <1>4. m.key = <<s.keyIn[1], s.keyIn[1]>> /\ m.seq = s.seqIn /\ s.packetsIn + 1 < Wrap
        /\ (s.keyIn[1] = 0 => s.seqIn + 1 < Wrap)
    BY <1>3 DEF Fits
  <1>5. Opens(s, m)
    <2>1. s.keyIn = <<s.keyIn[1], s.keyIn[1]>>
      BY <1>1 DEF Stage
    <2> QED BY <1>4, <2>1 DEF Opens
  <1>6. (s.packetsIn + 1) % Wrap = s.packetsIn + 1
    BY ONLY <1>2, <1>4
  <1>7. s.initial => (s.seqIn + 1) % Wrap # 0
    <2>1. s.initial => s.keyIn = <<s.my - 1, s.my - 1>> /\ s.my = 1
      BY <1>1 DEF Stage
    <2>2. s.initial => s.keyIn[1] = 0
      BY <2>1
    <2> QED BY ONLY <1>2, <1>4, <2>2
  <1>8. /\ Same(s, t, {"seqIn", "packetsIn"})
        /\ t.seqIn = (s.seqIn + 1) % Wrap /\ t.packetsIn = s.packetsIn + 1
    BY <1>1, <1>6 DEF Same, Shape, Fields
  <1> HIDE DEF t
  <1>9. t.packetsIn # 0
    BY <1>2, <1>8
  <1>10. ssh_packet_read_poll2(s, m) = d
    BY <1>5, <1>7, <1>8, <1>9 DEF ssh_packet_read_poll2, t
  <1>11. s.phase \in {"kex", "auth", "session"} /\ (s.phase = "kex" => ~s.done /\ s.init_sent)
    <2>1. s.phase \in {"kex", "auth", "session"} /\ (s.phase = "kex" => ~s.done)
      BY DEF Reading
    <2> QED BY <1>1, <2>1 DEF Stage, Phase
  <1>12. (s.seqIn + 1) % Wrap \in Nat /\ s.packetsIn + 1 \in Nat
    BY <1>2, NextSeq
  <1>13. Good(x, w, t)
    <2>1. Same(s, t, {"seqIn", "packetsIn", "expired", "manual", "nonces", "reused"})
      BY <1>8 DEF Same
    <2>2. t.seqIn \in Nat /\ t.packetsIn \in Nat /\ s.packetsIn <= t.packetsIn
      BY <1>2, <1>8, <1>12
    <2> QED BY <2>1, <2>2, GoodSame
  <1>14. /\ t.phase = s.phase /\ t.name = s.name /\ t.offer = s.offer /\ t.strict = s.strict
         /\ t.init_sent = s.init_sent /\ t.done = s.done
         /\ t.after_authentication = s.after_authentication
         /\ t.keyIn = s.keyIn /\ t.my = s.my /\ t.peer = s.peer /\ t.rekeying = s.rekeying
         /\ t.got = s.got /\ t.sent = s.sent /\ t.data = s.data
    BY <1>8 DEF Same, Fields
  <1>15. m.type = "success" => s.phase = "auth" /\ s.name = "client"
    <2> SUFFICES ASSUME m.type = "success" PROVE s.phase = "auth" /\ s.name = "client"
      OBVIOUS
    <2>1. PayloadType(Peer(s.name), In(s).pay, m.type)
      BY DEF Fits, Token
    <2>2. Len(s.got) = 1 /\ Peer(s.name) # "client"
      BY <1>3, <2>1 DEF PayloadType
    <2>3. s.name = "client"
      BY <1>2, <2>2 DEF Peer, Ends
    <2>4. s.phase = "auth"
      BY <1>1, <1>11, <2>2 DEF Phase
    <2> QED BY <2>3, <2>4
  <1>16. m.type = "newkeys" => s.strict = s.offer
    <2> SUFFICES ASSUME m.type = "newkeys" PROVE s.strict = s.offer
      OBVIOUS
    <2>1. In(s).step = 2
      BY DEF Fits, Token, PayloadType
    <2>2. s.init_sent /\ s.my = s.peer
      BY <1>3, <2>1 DEF InStep
    <2> QED BY <1>1, <2>2 DEF Stage
  <1>17. /\ Good(x, w, u) /\ In(u) = In(t) /\ Same(t, u, {"after_authentication"})
         /\ m.type = "success" => u.after_authentication
         /\ m.type # "success" => u = t
    <2>1. CASE m.type = "success"
      <3>1. u = [t EXCEPT !.after_authentication = TRUE]
        BY <2>1
      <3> HIDE DEF u
      <3>2. Same(t, u, {"after_authentication"}) /\ u.after_authentication
        BY <1>8, <3>1 DEF Same, Shape, Fields
      <3> QED BY <1>13, <1>14, <1>15, <2>1, <3>2, GoodAuthenticated
    <2>2. CASE m.type # "success"
      <3>1. Same(t, t, {"after_authentication"})
        BY <1>8 DEF Same
      <3> QED BY <1>13, <2>2, <3>1
    <2> QED BY <2>1, <2>2
  <1> HIDE DEF u
  <1>18. /\ u.strict = s.strict /\ u.phase = s.phase /\ u.name = s.name /\ u.offer = s.offer
         /\ u.init_sent = s.init_sent /\ u.done = s.done /\ u.packetsIn = t.packetsIn
         /\ u.seqIn = t.seqIn /\ Shape(u)
         /\ u.keyIn = s.keyIn /\ u.my = s.my /\ u.peer = s.peer /\ u.rekeying = s.rekeying
         /\ u.got = s.got /\ u.sent = s.sent /\ u.data = s.data
    BY <1>14, <1>17 DEF Same, Fields
  <1>19. /\ Same(u, v, {"seqIn"})
         /\ v.seqIn = IF m.type = "newkeys" /\ s.offer THEN 0 ELSE (s.seqIn + 1) % Wrap
    <2>1. CASE m.type = "newkeys" /\ u.strict
      <3>1. v = [u EXCEPT !.seqIn = 0]
        BY <2>1
      <3> HIDE DEF v
      <3>2. Same(u, v, {"seqIn"}) /\ v.seqIn = 0
        BY <1>18, <3>1 DEF Same, Shape, Fields
      <3> QED BY <1>16, <1>18, <2>1, <3>2
    <2>2. CASE ~(m.type = "newkeys" /\ u.strict)
      <3>1. v = u
        BY <2>2
      <3> HIDE DEF v
      <3>2. Same(u, u, {"seqIn"})
        BY <1>18 DEF Same
      <3> QED BY <1>8, <1>16, <1>18, <2>2, <3>1, <3>2
    <2> QED BY <2>1, <2>2
  <1> HIDE DEF v
  <1>20. /\ v.phase = s.phase /\ v.name = s.name /\ v.offer = s.offer
         /\ v.init_sent = s.init_sent /\ v.done = s.done /\ v.packetsIn = s.packetsIn + 1
         /\ v.after_authentication = u.after_authentication
         /\ v.keyIn = s.keyIn /\ v.my = s.my /\ v.peer = s.peer /\ v.rekeying = s.rekeying
         /\ v.got = s.got /\ v.sent = s.sent /\ v.data = s.data
    BY <1>8, <1>18, <1>19 DEF Same, Fields
  <1>21. Good(x, w, v)
    <2>1. Same(u, v, {"seqIn", "packetsIn", "expired", "manual", "nonces", "reused"})
      BY <1>19 DEF Same
    <2>2. v.seqIn \in Nat /\ v.packetsIn \in Nat /\ u.packetsIn <= v.packetsIn
      BY <1>2, <1>8, <1>12, <1>18, <1>19, <1>20
    <2> QED BY <1>17, <2>1, <2>2, GoodSame
  <1>22. Counted(s, m, In(v))
    <2>1. InStep(v) = InStep(s) /\ Answers(v) = Answers(s)
      BY <1>20 DEF InStep, Answers
    <2>2. In(s).dat = Answers(s)
      BY DEF In
    <2>3. In(v) = [round |-> v.keyIn[1], step |-> InStep(v), pay |-> Len(v.got),
                   dat |-> Answers(v), seq |-> v.seqIn, cnt |-> v.packetsIn]
      BY DEF In
    <2> QED BY <1>3, <1>19, <1>20, <2>1, <2>2, <2>3 DEF Counted
  <1>23. /\ Good(x, w, d) /\ In(d) = In(v)
         /\ Same(v, d, Unsealed \cup {"done", "my", "rekeying", "init_sent"})
         /\ \/ d = v
            \/ /\ v.done /\ v.after_authentication
               /\ d.rekeying /\ d.init_sent /\ d.my # d.peer
    BY <1>11, <1>20, <1>21, CheckRekeyGood
  <1> HIDE DEF d
  <1>24. d.phase = s.phase /\ d.name = s.name /\ d.offer = s.offer
         /\ d.after_authentication = v.after_authentication
    BY <1>20, <1>23 DEF Same, Fields, Unsealed
  <1>25. s.phase = "kex" => d.init_sent
    BY <1>11, <1>20, <1>23
  <1>26. m.type # "success" => Settled(d)
    BY <1>14, <1>17, <1>20, <1>23, <1>24 DEF Settled
  <1>27. m.type = "success" => d.after_authentication
    BY <1>17, <1>20, <1>24
  <1>28. ASSUME m.type = "data" PROVE Room(d) /\ (d.init_sent => d.rekeying)
    <2>1. s.packetsIn = 0 \/ s.packetsIn + 1 <= Limit(Peer(s.name))
      BY <1>3, <1>28 DEF Fits
    <2>2. d.outgoing = s.outgoing /\ d.packetsIn = s.packetsIn + 1 /\ d.name = s.name
      <3>1. v.outgoing = s.outgoing
        BY <1>8, <1>17, <1>19 DEF Same, Fields
      <3> QED BY <1>20, <1>23, <3>1 DEF Same, Fields, Unsealed
    <2>3. Room(d)
      <3>1. Held(d) = Held(s) /\ Held(s) \in Nat /\ Top(d) = Top(s)
        BY <2>2 DEF Held, Top
      <3>2. Len(s.outgoing) \in Nat /\ Len(s.outgoing) <= Held(s) + s.packetsIn
        BY <1>1 DEF Good, Consistent, Local, Queue, Typed
      <3>3. s.packetsIn + 1 <= Top(s)
        <4>1. Limit(Peer(s.name)) \in Nat
          BY TransportAssumption DEF Limit
        <4> QED BY ONLY <1>2, <2>1, <4>1 DEF Top
      <3> QED BY ONLY <1>2, <2>2, <3>1, <3>2, <3>3 DEF Room
    <2>4. s.init_sent => s.rekeying
      <3>1. InStep(s) = 0
        BY <1>3, <1>28 DEF Fits, Token
      <3> QED BY <1>1, <3>1 DEF InStep, Stage
    <2> QED BY <1>20, <1>23, <2>3, <2>4
  <1> QED BY <1>10, <1>22, <1>23, <1>24, <1>25, <1>26, <1>27, <1>28

\* What one packet that fits does to the end that reads it.
LEMMA DispatchGood ==
    ASSUME NEW x, NEW w, NEW s, Good(x, w, s), Reading(s), Settled(s),
           NEW m, Fits(Peer(s.name), s.offer, In(s), m),
           Advance(s.offer, In(s), m) \in View
    PROVE  LET d == ssh_dispatch_run(ssh_packet_read_poll2(s, m), m)
           IN  /\ Good(x, w, d) /\ In(d) = Advance(s.offer, In(s), m)
               /\ d.name = s.name /\ d.offer = s.offer /\ Settled(d)
  <1> DEFINE o == s.offer
             i == In(s)
             t == ssh_packet_read_poll2(s, m)
             d == ssh_dispatch_run(t, m)
             Result(c) == /\ Good(x, w, c) /\ In(c) = Advance(o, i, m)
                          /\ c.name = s.name /\ c.offer = s.offer /\ Settled(c)
  <1>1. /\ Good(x, w, t) /\ Counted(s, m, In(t))
        /\ t.phase = s.phase /\ t.name = s.name /\ t.offer = s.offer
        /\ s.phase = "kex" => t.init_sent
        /\ m.type = "success" => t.after_authentication
        /\ m.type # "success" => Settled(t)
        /\ m.type = "data" => Room(t) /\ (t.init_sent => t.rekeying)
    BY ReadPollGood
  <1> HIDE DEF t
  <1>2. /\ Typed(t) /\ Stage(t) /\ Phase(t) /\ Handlers(t) /\ Queue(t)
    BY <1>1 DEF Good, Consistent, Local
  <1>3. t.err = "none" /\ Alive(t) /\ t.name \in Ends /\ t.my \in Nat /\ Len(t.got) \in Nat
    BY <1>2 DEF Stage, Typed, Alive, Fatal
  <1>4. t.phase \in {"kex", "auth", "session"}
    BY <1>1 DEF Reading
  <1>5. /\ In(t) = [round |-> i.round, step |-> i.step, pay |-> i.pay, dat |-> i.dat,
                    seq |-> IF m.type = "newkeys" /\ o THEN 0 ELSE (i.seq + 1) % Wrap,
                    cnt |-> i.cnt + 1]
    BY <1>1 DEF Counted
  <1>6. /\ In(t).round = t.keyIn[1] /\ In(t).step = InStep(t) /\ In(t).pay = Len(t.got)
        /\ In(t).dat = Answers(t)
    BY DEF In
  <1> HIDE DEF i, o
  <1>7. i.round = t.keyIn[1] /\ i.step = InStep(t) /\ i.pay = Len(t.got) /\ i.dat = Answers(t)
    BY ONLY <1>5, <1>6
  <1>8. Fits(Peer(t.name), o, i, m) /\ Advance(o, i, m) \in View
    BY <1>1 DEF i, o
  <1>9. \/ /\ m.type = Token(Peer(t.name), i.step)
           /\ i.step = 0 => /\ m.n = <<i.round + 1, o>>
                            /\ i.round = 0 => m.seq = 0
                            /\ i.round # 0 => i.pay >= 2
           /\ m.type = "reply" => m.n = <<i.round + 1, i.round + 1>>
        \/ /\ i.step = 0 /\ i.round # 0
           /\ PayloadType(Peer(t.name), i.pay, m.type)
           /\ m.n = i.pay + 1
    BY <1>8 DEF Fits
  <1>10. InStep(t) \in {0, 1, 2}
    BY DEF InStep
  <1>11. t.keyIn[1] # 0 => t.phase # "kex"
    <2>1. t.phase = "kex" => t.init_sent /\ t.my = 1
      BY <1>1, <1>2 DEF Phase
    <2>2. t.phase = "kex" => t.keyIn = <<0, 0>>
      BY <1>2, <2>1 DEF Stage
    <2> QED BY <2>2
  <1>12. /\ Len(t.got) >= 2 => t.phase = "session"
         /\ Len(t.got) < 2 => t.phase # "session"
    BY <1>2, <1>3, <1>4 DEF Phase
  <1>13. CASE m.type = Token(Peer(t.name), i.step) /\ i.step = 0
    <2>1. m.type = "kexinit" /\ m.n = <<t.keyIn[1] + 1, t.offer>>
      BY <1>1, <1>7, <1>9, <1>13 DEF Token, PayloadType, o
    <2>2. /\ t.keyIn[1] = 0 => m.seq = 0
          /\ t.keyIn[1] # 0 => Len(t.got) >= 2
      BY <1>7, <1>9, <1>13, <2>1 DEF PayloadType
    <2>3. ~t.init_sent \/ t.my # t.peer
      BY <1>7, <1>13 DEF InStep
    <2>4. t.phase \in {"kex", "session"} /\ (t.phase = "kex" => t.init_sent)
      <3>1. t.keyIn[1] = 0 => t.phase = "kex"
        <4>1. CASE t.init_sent
          <5>1. t.keyIn = <<t.my - 1, t.my - 1>>
            BY <1>2, <4>1 DEF Stage
          <5>2. t.keyIn[1] = 0 => t.my = 1
            BY ONLY <1>3, <5>1
          <5> QED BY <1>2, <1>4, <4>1, <5>2 DEF Phase
        <4>2. CASE ~t.init_sent
          <5>1. t.keyIn = <<t.my, t.my>>
            BY <1>2, <4>2 DEF Stage
          <5>2. t.keyIn[1] = 0 => t.my = 0
            BY ONLY <5>1
          <5> QED BY <1>2, <1>4, <5>2 DEF Phase
        <4> QED BY <4>1, <4>2
      <3> QED BY <1>1, <1>12, <2>2, <3>1
    <2>5. t.initial => m.seq = 0
      <3>1. t.initial => t.keyIn = <<0, 0>>
        BY <1>2 DEF Stage
      <3> QED BY <2>2, <3>1
    <2>6. m.type \in t.handlers
      BY <1>2, <2>1, <2>3, <2>4 DEF Handlers, Awaited
    <2>7. d = kex_input_kexinit(t, m)
      BY <1>3, <2>1, <2>6 DEF ssh_dispatch_run, ssh_packet_type_is_kex, TransportRange
    <2> HIDE DEF d
    <2>8. /\ Good(x, w, d) /\ In(d) = [In(t) EXCEPT !.step = 1]
          /\ d.phase = t.phase /\ d.offer = t.offer /\ d.name = t.name
      <3>1. Good(x, w, t)
        BY <1>1
      <3> QED BY ONLY <2>1, <2>3, <2>4, <2>5, <2>7, <3>1, InputKexinitGood
    <2>9. Advance(o, i, m) = [round |-> i.round, step |-> 1, pay |-> i.pay, dat |-> i.dat,
                              seq |-> (i.seq + 1) % Wrap, cnt |-> i.cnt + 1]
      BY <1>13, <2>1 DEF Advance, KexTokens
    <2>10. In(d) = Advance(o, i, m)
      BY <1>5, <2>1, <2>8, <2>9
    <2>11. Settled(d)
      BY <2>4, <2>8 DEF Settled
    <2> QED BY <1>1, <2>8, <2>10, <2>11 DEF d, t, i, o
  <1>14. CASE m.type = Token(Peer(t.name), i.step) /\ i.step = 1
    <2>1. t.init_sent /\ t.my = t.peer /\ t.rekeying
      BY <1>7, <1>14 DEF InStep
    <2>2. t.phase \in {"kex", "session"} /\ t.keyIn = <<t.my - 1, t.my - 1>> /\ t.my # 0
      BY <1>2, <1>4, <2>1 DEF Phase, Stage
    <2>3. m.type = Awaited(t) /\ m.type = (IF t.name = "client" THEN "reply" ELSE "init")
      BY <1>3, <1>14, <2>1 DEF Awaited, Token, Peer, Ends
    <2>4. m.type \in t.handlers
      BY <1>2, <2>2, <2>3 DEF Handlers
    <2>5. /\ Good(x, w, d) /\ In(d) = [In(t) EXCEPT !.step = 2]
          /\ d.phase = t.phase /\ d.offer = t.offer /\ d.name = t.name
      <3>1. CASE t.name = "client"
        <4>1. m.type = "reply" /\ m.n = <<i.round + 1, i.round + 1>>
          BY <1>9, <1>14, <2>3, <3>1 DEF PayloadType
        <4>2. m.n = <<t.my, t.my>>
          BY <1>3, <1>7, <2>2, <4>1
        <4>3. d = input_kex_gen_reply(t, m)
          BY <1>3, <2>4, <4>1 DEF ssh_dispatch_run, ssh_packet_type_is_kex, TransportRange
        <4> HIDE DEF d
        <4> QED BY <1>1, <2>1, <3>1, <4>2, <4>3, GenReplyGood
      <3>2. CASE t.name = "server"
        <4>1. m.type = "init"
          BY <2>3, <3>2
        <4>2. d = input_kex_gen_init(t)
          BY <1>3, <2>4, <4>1 DEF ssh_dispatch_run, ssh_packet_type_is_kex, TransportRange
        <4> HIDE DEF d
        <4> QED BY <1>1, <2>1, <3>2, <4>2, GenInitGood
      <3> QED BY <1>3, <3>1, <3>2 DEF Ends
    <2> HIDE DEF d
    <2>6. Advance(o, i, m) = [round |-> i.round, step |-> 2, pay |-> i.pay, dat |-> i.dat,
                              seq |-> (i.seq + 1) % Wrap, cnt |-> i.cnt + 1]
      BY <1>14, <2>3 DEF Advance, KexTokens
    <2>7. In(d) = Advance(o, i, m)
      <3>1. m.type # "newkeys"
        BY <2>3
      <3> QED BY <1>5, <2>5, <2>6, <3>1
    <2>8. Settled(d)
      BY <2>2, <2>5 DEF Settled
    <2> QED BY <1>1, <2>5, <2>7, <2>8 DEF d, t, i, o
  <1>15. CASE m.type = Token(Peer(t.name), i.step) /\ i.step = 2
    <2>1. t.init_sent /\ t.my = t.peer /\ ~t.rekeying
      BY <1>7, <1>15 DEF InStep
    <2>2. t.phase \in {"kex", "session"}
      BY <1>2, <1>4, <2>1 DEF Phase, Stage
    <2>3. m.type = Awaited(t) /\ m.type = "newkeys"
      BY <1>3, <1>15, <2>1 DEF Awaited, Token
    <2>4. m.type \in t.handlers
      BY <1>2, <2>2, <2>3 DEF Handlers
    <2>5. d = kex_input_newkeys(t)
      BY <1>3, <2>3, <2>4 DEF ssh_dispatch_run, ssh_packet_type_is_kex, TransportRange
    <2> HIDE DEF d
    <2>6. /\ Good(x, w, d)
          /\ In(d) = [round |-> In(t).round + 1, step |-> 0, pay |-> In(t).pay,
                      dat |-> In(t).dat, seq |-> In(t).seq, cnt |-> 0]
          /\ d.phase = t.phase /\ d.offer = t.offer /\ d.name = t.name
          /\ t.phase # "auth"
      BY <1>1, <2>1, <2>5, InputNewkeysGood
    <2>7. Advance(o, i, m) = [round |-> i.round + 1, step |-> 0, pay |-> i.pay, dat |-> i.dat,
                              seq |-> IF o THEN 0 ELSE (i.seq + 1) % Wrap, cnt |-> 0]
      BY <2>3 DEF Advance, KexTokens
    <2>8. In(d) = Advance(o, i, m)
      BY <1>5, <2>3, <2>6, <2>7
    <2>9. Settled(d)
      BY <2>6 DEF Settled
    <2> QED BY <1>1, <2>6, <2>8, <2>9 DEF d, t, i, o
  <1>16. CASE /\ i.step = 0 /\ i.round # 0
              /\ PayloadType(Peer(t.name), i.pay, m.type)
              /\ m.n = i.pay + 1
    <2>1. m.n = Len(t.got) + 1 /\ t.phase # "kex"
      BY <1>7, <1>11, <1>16
    <2>2. /\ m.type \in t.handlers /\ m.type \in {"extinfo", "request", "success", "data", "answer"}
          /\ Delivered(x, w, t, m, Deliver(t, m))
      <3>1. CASE i.pay = 0
        <4>1. m.type = "extinfo" /\ Len(t.got) = 0 /\ t.phase = "auth"
          BY <1>4, <1>7, <1>12, <1>16, <2>1, <3>1 DEF PayloadType
        <4>2. m.type \in t.handlers
          BY <1>2, <4>1 DEF Handlers
        <4> QED BY <1>1, <2>1, <4>1, <4>2, DeliverExtinfo
      <3>2. CASE i.pay = 1
        <4>1. m.type = (IF Peer(t.name) = "client" THEN "request" ELSE "success")
              /\ Len(t.got) = 1 /\ t.phase = "auth"
          BY <1>4, <1>7, <1>12, <1>16, <2>1, <3>2 DEF PayloadType
        <4>2. CASE t.name = "client"
          <5>1. m.type = "success"
            BY <4>1, <4>2 DEF Peer
          <5>2. m.type \in t.handlers
            BY <1>2, <4>1, <4>2, <5>1 DEF Handlers
          <5> QED BY <1>1, <2>1, <4>1, <4>2, <5>1, <5>2, DeliverSuccess
        <4>3. CASE t.name = "server"
          <5>1. m.type = "request"
            BY <4>1, <4>3 DEF Peer
          <5>2. m.type \in t.handlers
            BY <1>2, <4>1, <4>3, <5>1 DEF Handlers
          <5> QED BY <1>1, <2>1, <4>1, <4>3, <5>1, <5>2, DeliverRequest
        <4> QED BY <1>3, <4>2, <4>3 DEF Ends
      <3>3. CASE i.pay >= 2
        <4>1. m.type \in {"data", "answer"} /\ Len(t.got) >= 2 /\ t.phase = "session"
          <5>1. i.pay # 0 /\ i.pay # 1
            <6>1. i.pay \in Nat
              BY <1>3, <1>7
            <6> QED BY ONLY <3>3, <6>1
          <5> QED BY <1>7, <1>12, <1>16, <3>3, <5>1 DEF PayloadType
        <4>2. m.type \in t.handlers
          BY <1>2, <4>1 DEF Handlers
        <4>3. m.type = "data" => Answers(t) < MaxData
          <5>1. m.type = "data" => Advance(o, i, m).dat = i.dat + 1
            BY DEF Advance
          <5>2. Advance(o, i, m).dat \in 0 .. MaxData
            BY <1>8 DEF View
          <5>3. MaxData \in Nat /\ t.sent \in Nat /\ t.data \in Nat
            BY <1>2, TransportAssumption DEF Typed
          <5>4. Answers(t) = t.sent + t.data - 2 - MaxData
            BY <4>1 DEF Answers
          <5>5. m.type = "data" => Answers(t) + 1 \in 0 .. MaxData
            BY <1>7, <5>1, <5>2
          <5> QED BY ONLY <5>3, <5>4, <5>5
        <4> QED BY <1>1, <2>1, <4>1, <4>2, <4>3, DeliverSession
      <3>4. i.pay \in Nat
        BY <1>3, <1>7
      <3> QED BY <3>1, <3>2, <3>3, <3>4
    <2>3. ~ssh_packet_type_is_kex(m.type)
      BY <2>2 DEF ssh_packet_type_is_kex, TransportRange
    <2>4. d = Deliver(t, m)
      BY <1>3, <2>2, <2>3 DEF ssh_dispatch_run
    <2> HIDE DEF d
    <2>5. /\ Good(x, w, d)
          /\ In(d) = [In(t) EXCEPT !.pay = @ + 1, !.dat = IF m.type = "data" THEN @ + 1 ELSE @]
          /\ d.offer = t.offer /\ d.name = t.name
          /\ d.phase = "auth" => Same(t, d, {"got", "handlers"})
      BY <2>2, <2>4 DEF Delivered
    <2>6. m.type \notin KexTokens /\ m.type # "newkeys"
      BY <2>2 DEF KexTokens
    <2>7. Advance(o, i, m) = [round |-> i.round, step |-> i.step, pay |-> i.pay + 1,
                              dat |-> IF m.type = "data" THEN i.dat + 1 ELSE i.dat,
                              seq |-> (i.seq + 1) % Wrap, cnt |-> i.cnt + 1]
      BY <2>6 DEF Advance
    <2>8. In(d) = Advance(o, i, m)
      <3>1. In(t) = [round |-> i.round, step |-> i.step, pay |-> i.pay, dat |-> i.dat,
                     seq |-> (i.seq + 1) % Wrap, cnt |-> i.cnt + 1]
        BY <1>5, <2>6
      <3>2. In(d) = [round |-> In(t).round, step |-> In(t).step, pay |-> In(t).pay + 1,
                     dat |-> IF m.type = "data" THEN In(t).dat + 1 ELSE In(t).dat,
                     seq |-> In(t).seq, cnt |-> In(t).cnt]
        BY ONLY <2>5, <3>1
      <3> QED BY ONLY <2>7, <3>1, <3>2
    <2>9. Settled(d)
      <3> SUFFICES ASSUME d.phase = "auth" PROVE ~d.init_sent /\ ~d.after_authentication
        BY DEF Settled
      <3>1. /\ d.init_sent = t.init_sent /\ d.after_authentication = t.after_authentication
            /\ d.phase = t.phase /\ d.got = d.got
        BY <2>5 DEF Same, Fields
      <3>2. m.type # "success"
        <4> SUFFICES ASSUME m.type = "success" PROVE FALSE
          OBVIOUS
        <4>1. In(d).pay = Len(d.got) /\ In(d).pay = i.pay + 1
          BY <2>7, <2>8 DEF In
        <4>2. i.pay = 1
          BY <1>16 DEF PayloadType
        <4>3. Len(d.got) < 2
          BY <2>5 DEF Good, Consistent, Local, Phase
        <4> QED BY <4>1, <4>2, <4>3
      <3> QED BY <1>1, <3>1, <3>2 DEF Settled
    <2> QED BY <1>1, <2>5, <2>8, <2>9 DEF d, t, i, o
  <1>17. i.step \in {0, 1, 2}
    BY <1>7, <1>10
  <1> QED BY <1>9, <1>13, <1>14, <1>15, <1>16, <1>17

-----------------------------------------------------------------------------
(* The other steps of an end. *)

\* What an end has written goes on the wire.
LEMMA GoodShip ==
    ASSUME NEW x, NEW w, NEW d, Good(x, w, d)
    PROVE  LET c == [d EXCEPT !.out = <<>>]
           IN  /\ Good(x, w \o d.out, c) /\ In(c) = In(d) /\ c.out = <<>>
               /\ c.name = d.name /\ c.offer = d.offer
               /\ Settled(d) => Settled(c)
  <1> DEFINE c == [d EXCEPT !.out = <<>>]
  <1>1. /\ Shape(d) /\ Local(d) /\ Handlers(d) /\ IsSeq(w)
        /\ Linked(x, w, d, OutStep(d), Sent(d), DataSent(d))
        /\ ~d.rekeying => d.outgoing = <<>>
    BY DEF Good, Consistent
  <1>2. Same(d, c, {"out"}) /\ c.out = <<>>
    BY <1>1 DEF Same, Shape, Fields
  <1> HIDE DEF c
  <1>3. /\ Shape(c) /\ c.name = d.name /\ c.offer = d.offer /\ c.phase = d.phase
        /\ c.err = d.err /\ c.outgoing = d.outgoing
        /\ c.after_authentication = d.after_authentication /\ c.keyOut = d.keyOut
        /\ c.keyIn = d.keyIn /\ c.seqOut = d.seqOut /\ c.packetsOut = d.packetsOut
        /\ c.seqIn = d.seqIn /\ c.packetsIn = d.packetsIn
        /\ c.initial = d.initial /\ c.strict = d.strict /\ c.peer = d.peer /\ c.my = d.my
        /\ c.newOut = d.newOut /\ c.newIn = d.newIn /\ c.handlers = d.handlers
        /\ c.sent = d.sent /\ c.got = d.got /\ c.data = d.data
        /\ c.rekeying = d.rekeying /\ c.done = d.done /\ c.init_sent = d.init_sent
    BY <1>2 DEF Same, Fields
  <1>4. Held(c) = Held(d) /\ Answers(c) = Answers(d) /\ InitSent(c) = InitSent(d)
        /\ Top(c) = Top(d)
    BY <1>3 DEF Held, Answers, InitSent, Top
  <1>5. Typed(c) /\ Stage(c) /\ Phase(c)
    BY SMTT(30), <1>1, <1>3 DEF Local, Typed, Stage, Phase
  <1>6. Queue(c) /\ Counters(c) /\ InOrder(c)
    BY <1>1, <1>3, <1>4 DEF Local, Queue, Counters, InOrder
  <1>7. Handlers(c)
    BY <1>1, <1>3 DEF Handlers, Awaited
  <1>8. OutStep(c) = OutStep(d) /\ Sent(c) = Sent(d) /\ DataSent(c) = DataSent(d)
    BY <1>3, <1>4 DEF OutStep, Sent, DataSent
  <1>9. IsSeq(d.out) /\ IsSeq(<<>>) /\ (w \o d.out) \o <<>> = w \o d.out /\ IsSeq(w \o d.out)
    <2>1. IsSeq(d.out)
      BY <1>1 DEF Linked
    <2>2. PICK S : w \in Seq(S)
      BY <1>1 DEF IsSeq
    <2>3. PICK T : d.out \in Seq(T)
      BY <2>1 DEF IsSeq
    <2>4. w \in Seq(S \cup T) /\ d.out \in Seq(S \cup T)
      BY <2>2, <2>3
    <2>5. w \o d.out \in Seq(S \cup T)
      BY <2>4
    <2> DEFINE v == w \o d.out
    <2> HIDE DEF v
    <2>6. v \in Seq(S \cup T)
      BY <2>5 DEF v
    <2>7. v \o <<>> = v
      BY <2>6
    <2>8. IsSeq(<<>>)
      <3>1. <<>> \in Seq({})
        OBVIOUS
      <3> QED BY <3>1 DEF IsSeq
    <2> QED BY <2>1, <2>6, <2>7, <2>8 DEF IsSeq, v
  <1>10. Linked(x, w \o d.out, c, OutStep(c), Sent(c), DataSent(c))
    <2>1. Between(d.name, d.offer, x, w \o d.out, Sender(d, OutStep(d), Sent(d), DataSent(d)))
      BY <1>1 DEF Linked
    <2>2. Sender(c, OutStep(c), Sent(c), DataSent(c)) = Sender(d, OutStep(d), Sent(d), DataSent(d))
      BY <1>3, <1>8 DEF Sender
    <2> QED BY <1>2, <1>3, <1>9, <2>1, <2>2 DEF Linked
  <1>11. In(c) = In(d)
    BY <1>3, <1>4 DEF In, InStep
  <1>12. Good(x, w \o d.out, c)
    BY <1>1, <1>3, <1>5, <1>6, <1>7, <1>9, <1>10 DEF Good, Consistent, Local
  <1>13. Settled(d) => Settled(c)
    BY <1>3 DEF Settled
  <1> QED BY <1>2, <1>3, <1>11, <1>12, <1>13 DEF c

\* The first KEXINIT of an end.
LEMMA SetupGood ==
    ASSUME NEW x, NEW w, NEW s, Good(x, w, s), s.phase = "start"
    PROVE  LET d == kex_send_kexinit([s EXCEPT !.phase = "kex", !.initial = TRUE,
                                               !.handlers = {"kexinit"}])
           IN  /\ Good(x, w, d) /\ In(d) = In(s) /\ d.name = s.name /\ d.offer = s.offer
               /\ Settled(d)
  <1> DEFINE t == [s EXCEPT !.phase = "kex", !.initial = TRUE, !.handlers = {"kexinit"}]
             d == kex_send_kexinit(t)
  <1>1. /\ Shape(s) /\ Typed(s) /\ Stage(s) /\ Phase(s) /\ Queue(s) /\ Counters(s) /\ InOrder(s)
        /\ IsSeq(w) /\ Linked(x, w, s, OutStep(s), Sent(s), DataSent(s))
    BY DEF Good, Consistent, Local
  <1>2. /\ Same(s, t, {"phase", "initial", "handlers"}) /\ t.phase = "kex" /\ t.initial
        /\ t.handlers = {"kexinit"}
    BY <1>1 DEF Same, Shape, Fields
  <1> HIDE DEF t
  <1>3. s.my = 0 /\ s.sent = 0 /\ s.data = MaxData /\ s.outgoing = <<>> /\ Len(s.got) = 0
        /\ ~s.after_authentication /\ s.seqOut = 0
    BY <1>1 DEF Phase, Queue, Counters
  <1>4. /\ ~s.init_sent /\ ~s.rekeying /\ s.peer = 0 /\ ~s.strict /\ s.keyOut = <<0, 0>>
        /\ s.keyIn = <<0, 0>> /\ s.err = "none" /\ s.newOut = NoKey
    BY <1>1, <1>3 DEF Stage, Typed
  <1>5. s.packetsOut = 0
    <2>1. s.packetsOut <= 0 /\ s.packetsOut \in Nat
      BY <1>1, <1>3, <1>4 DEF Counters, Typed
    <2> QED BY ONLY <2>1
  <1>6. /\ Shape(t) /\ ~t.init_sent /\ t.err = "none" /\ t.packetsOut = 0 /\ t.seqOut = 0
        /\ t.my = 0 /\ t.offer = s.offer /\ t.out = s.out /\ t.keyOut = s.keyOut
    BY <1>2, <1>3, <1>4, <1>5 DEF Same, Fields
  <1>7. Wrap \in Nat /\ 5 < Wrap
    BY TransportAssumption, CounterAssumption
  <1>8. t.packetsOut \in Nat /\ t.packetsOut + 1 < Wrap /\ (t.seqOut + 1) % Wrap # 0
        /\ (t.seqOut + 1) % Wrap = 1
    BY <1>6, <1>7
  <1> DEFINE m == [type |-> "kexinit", n |-> <<1, s.offer>>]
  <1>9. /\ Same(t, d, Unsealed \cup {"done", "my", "rekeying", "init_sent"})
        /\ ~d.done /\ d.my = 1 /\ d.rekeying /\ d.init_sent
        /\ d.out = Append(s.out, Packet(s, m)) /\ d.seqOut = 1 /\ d.packetsOut = 1
    <2>1. /\ Same(t, d, Unsealed \cup {"done", "my", "rekeying", "init_sent"})
          /\ ~d.done /\ d.my = t.my + 1 /\ d.rekeying /\ d.init_sent
          /\ d.out = Append(t.out, Packet(t, [type |-> "kexinit", n |-> <<t.my + 1, t.offer>>]))
          /\ d.seqOut = (t.seqOut + 1) % Wrap
          /\ d.packetsOut = t.packetsOut + 1
      BY <1>6, <1>8, KexinitEffect
    <2>2. Packet(t, [type |-> "kexinit", n |-> <<t.my + 1, t.offer>>]) = Packet(s, m)
      BY <1>3, <1>6 DEF Packet
    <2> QED BY <1>6, <1>8, <2>1, <2>2
  <1> HIDE DEF d
  <1>10. Same(s, d, Unsealed \cup {"phase", "initial", "handlers", "done", "my", "rekeying",
                                   "init_sent"})
    BY <1>2, <1>9 DEF Same, Unsealed
  <1>11. d.phase = "kex" /\ d.initial /\ d.handlers = {"kexinit"}
    BY <1>2, <1>9 DEF Same, Fields, Unsealed
  <1>12. /\ Shape(d) /\ d.name = s.name /\ d.offer = s.offer /\ d.peer = 0
         /\ d.err = "none" /\ d.outgoing = <<>> /\ ~d.after_authentication
         /\ d.keyOut = <<0, 0>> /\ d.keyIn = <<0, 0>> /\ d.newOut = NoKey /\ ~d.strict
         /\ d.seqIn = s.seqIn /\ d.packetsIn = s.packetsIn
         /\ d.sent = 0 /\ d.got = s.got /\ d.data = MaxData
    BY <1>3, <1>4, <1>10 DEF Same, Fields, Unsealed
  <1>13. MaxData \in Nat
    BY TransportAssumption
  <1>14. Typed(d)
    BY <1>1, <1>9, <1>12, <1>13 DEF Typed
  <1>15. Stage(d)
    BY <1>9, <1>11, <1>12 DEF Stage
  <1>16. Phase(d)
    BY <1>3, <1>9, <1>11, <1>12, <1>13 DEF Phase
  <1>17. Answers(d) = 0 /\ Answers(s) = 0 /\ Held(d) = 0 /\ Held(s) = 0 /\ ~InitSent(d)
    BY <1>3, <1>9, <1>11, <1>12 DEF Answers, Held, InitSent
  <1>18. Queue(d)
    BY <1>12, <1>13, <1>14, <1>17, EmptyQueue
  <1>19. Counters(d)
    BY <1>7, <1>9, <1>11, <1>17 DEF Counters
  <1>20. Handlers(d)
    BY <1>9, <1>11, <1>12 DEF Handlers, Awaited
  <1>21. OutStep(s) = 0 /\ Sent(s) = 0 /\ DataSent(s) = 0
         /\ OutStep(d) = 1 /\ Sent(d) = 0 /\ DataSent(d) = 0
    <2>1. OutStep(s) = 0 /\ OutStep(d) = 1
      BY <1>4, <1>9, <1>17 DEF OutStep
    <2>2. Sent(s) = 0 /\ Sent(d) = 0
      <3>1. 0 - Len(<<>>) = 0
        <4>1. ASSUME NEW k, k = 0 PROVE 0 - k = 0
          BY <4>1
        <4>2. Len(<<>>) = 0
          OBVIOUS
        <4> QED BY <4>1, <4>2
      <3>2. Sent(s) = 0 - Len(<<>>) /\ Sent(d) = 0 - Len(<<>>)
        BY <1>3, <1>12 DEF Sent
      <3> QED BY ONLY <3>1, <3>2
    <2>3. DataSent(s) = MaxData - MaxData - 0 /\ DataSent(d) = MaxData - MaxData - 0
      BY <1>3, <1>12, <1>17 DEF DataSent
    <2>4. MaxData - MaxData - 0 = 0
      BY ONLY <1>13
    <2> QED BY <2>1, <2>2, <2>3, <2>4
  <1>22. Linked(x, w, d, 1, 0, 0)
    <2>1. Linked(x, w, s, 0, 0, 0)
      BY <1>1, <1>21
    <2>2. s.packetsOut + 1 < Wrap /\ s.seqOut + 1 < Wrap /\ s.seqOut = 0 /\ 0 \in Nat
      BY <1>3, <1>5, <1>7
    <2>3. m.type = Token(s.name, 0) /\ m.n = <<0 + 1, s.offer>> /\ m.type # "reply"
      BY DEF Token
    <2>4. d.seqOut = (s.seqOut + 1) % Wrap /\ d.packetsOut = s.packetsOut + 1
      BY <1>3, <1>5, <1>7, <1>9
    <2>5. d.keyOut = s.keyOut /\ s.keyOut = <<0, 0>> /\ d.name = s.name /\ d.offer = s.offer
          /\ d.out = Append(s.out, Packet(s, m)) /\ IsSeq(w)
      BY <1>1, <1>4, <1>9, <1>12
    <2> HIDE DEF m
    <2>6. Linked(x, w, d, 0 + 1, 0, 0)
      BY ONLY <2>1, <2>2, <2>3, <2>4, <2>5, SealedKex
    <2> QED BY <2>6
  <1>23. Good(x, w, d)
    BY <1>1, <1>9, <1>12, <1>14, <1>15, <1>16, <1>18, <1>19, <1>20, <1>21, <1>22
       DEF Good, Consistent, Local, InOrder
  <1>24. In(d) = In(s)
    <2>1. InStep(d) = 0 /\ InStep(s) = 0
      BY <1>4, <1>9, <1>12 DEF InStep
    <2> QED BY <1>4, <1>12, <1>17, <2>1 DEF In
  <1>25. Settled(d)
    BY <1>11 DEF Settled
  <1> QED BY <1>12, <1>23, <1>24, <1>25 DEF d, t

\* An end goes on to its next phase, and sends nothing.
LEMMA PhaseGood ==
    ASSUME NEW x, NEW w, NEW s, Good(x, w, s), s.phase \in {"kex", "authenticated"},
           NEW d, Same(s, d, {"phase", "handlers"}), d.phase # "start",
           Phase(d), Handlers(d), Answers(d) = 0
    PROVE  Good(x, w, d) /\ In(d) = In(s) /\ d.name = s.name /\ d.offer = s.offer
  <1>1. /\ Shape(d) /\ d.name = s.name /\ d.offer = s.offer
        /\ d.err = s.err /\ d.outgoing = s.outgoing /\ d.out = s.out
        /\ d.after_authentication = s.after_authentication /\ d.keyOut = s.keyOut
        /\ d.keyIn = s.keyIn /\ d.seqOut = s.seqOut /\ d.packetsOut = s.packetsOut
        /\ d.seqIn = s.seqIn /\ d.packetsIn = s.packetsIn
        /\ d.initial = s.initial /\ d.strict = s.strict /\ d.peer = s.peer /\ d.my = s.my
        /\ d.newOut = s.newOut /\ d.newIn = s.newIn
        /\ d.sent = s.sent /\ d.data = s.data /\ d.got = s.got
        /\ d.rekeying = s.rekeying /\ d.done = s.done /\ d.init_sent = s.init_sent
    BY DEF Same, Fields
  <1>2. /\ Typed(s) /\ Stage(s) /\ Queue(s) /\ Counters(s) /\ InOrder(s)
        /\ IsSeq(w) /\ Linked(x, w, s, OutStep(s), Sent(s), DataSent(s))
        /\ ~s.rekeying => s.outgoing = <<>>
    BY DEF Good, Consistent, Local
  <1>3. Answers(s) = 0 /\ Held(d) = Held(s) /\ s.outgoing = <<>> /\ Top(d) = Top(s)
    BY <1>1, <1>2 DEF Answers, Held, Queue, Top
  <1>4. Typed(d)
    BY ONLY <1>1, <1>2 DEF Typed
  <1>5. Stage(d)
    BY ONLY <1>1, <1>2 DEF Stage
  <1>6. Queue(d)
    BY <1>1, <1>2, <1>3 DEF Queue
  <1>7. Counters(d) /\ InOrder(d)
    BY <1>1, <1>2, <1>3 DEF Counters, InitSent, InOrder
  <1>8. OutStep(d) = OutStep(s) /\ Sent(d) = Sent(s) /\ DataSent(d) = DataSent(s)
    BY <1>1, <1>3 DEF OutStep, InitSent, Sent, DataSent
  <1>9. Linked(x, w, d, OutStep(s), Sent(s), DataSent(s))
    BY <1>1, <1>2 DEF Linked, Sender
  <1>10. In(d) = In(s)
    BY <1>1, <1>3 DEF In, InStep
  <1> QED BY <1>1, <1>2, <1>4, <1>5, <1>6, <1>7, <1>8, <1>9, <1>10 DEF Good, Consistent, Local

\* The server waits for the request.
LEMMA AwaitRequestGood ==
    ASSUME NEW x, NEW w, NEW s, Good(x, w, s), s.phase = "kex", s.done, s.name = "server"
    PROVE  LET d == [s EXCEPT !.phase = "auth", !.handlers = {"extinfo", "request"}]
           IN  /\ Good(x, w, d) /\ In(d) = In(s) /\ d.name = s.name /\ d.offer = s.offer
               /\ Settled(d)
  <1> DEFINE d == [s EXCEPT !.phase = "auth", !.handlers = {"extinfo", "request"}]
  <1>1. Shape(s) /\ Phase(s) /\ Stage(s)
    BY DEF Good, Consistent, Local
  <1>2. /\ Same(s, d, {"phase", "handlers"}) /\ d.phase = "auth"
        /\ d.handlers = {"extinfo", "request"}
    BY <1>1 DEF Same, Shape, Fields
  <1> HIDE DEF d
  <1>3. /\ d.name = s.name /\ d.my = s.my /\ d.init_sent = s.init_sent
        /\ d.after_authentication = s.after_authentication /\ d.sent = s.sent
        /\ d.data = s.data /\ d.got = s.got
    BY <1>2 DEF Same, Fields
  <1>4. ~s.init_sent /\ ~s.rekeying /\ ~s.after_authentication /\ Len(s.got) = 0 /\ s.sent = 1
    BY <1>1 DEF Stage, Phase
  <1>5. Len(d.got) < 2
    BY <1>3, <1>4
  <1>6. Phase(d) /\ Handlers(d) /\ Answers(d) = 0
    BY <1>1, <1>2, <1>3, <1>4, <1>5 DEF Phase, Handlers, Answers
  <1>7. Settled(d)
    BY <1>3, <1>4 DEF Settled
  <1>8. Good(x, w, d) /\ In(d) = In(s) /\ d.name = s.name /\ d.offer = s.offer
    <2>1. Good(x, w, s) /\ s.phase \in {"kex", "authenticated"} /\ d.phase # "start"
      BY <1>2
    <2> QED BY ONLY <1>2, <1>6, <2>1, PhaseGood
  <1> QED BY <1>7, <1>8 DEF d

\* Authenticated, an end goes on to the session.
LEMMA StartSessionGood ==
    ASSUME NEW x, NEW w, NEW s, Good(x, w, s), s.phase = "authenticated"
    PROVE  LET d == [s EXCEPT !.phase = "session", !.handlers = {"kexinit", "data", "answer"}]
           IN  /\ Good(x, w, d) /\ In(d) = In(s) /\ d.name = s.name /\ d.offer = s.offer
               /\ Settled(d)
  <1> DEFINE d == [s EXCEPT !.phase = "session", !.handlers = {"kexinit", "data", "answer"}]
  <1>1. Shape(s) /\ Phase(s) /\ Stage(s) /\ MaxData \in Nat
    BY TransportAssumption DEF Good, Consistent, Local
  <1>2. /\ Same(s, d, {"phase", "handlers"}) /\ d.phase = "session"
        /\ d.handlers = {"kexinit", "data", "answer"}
    BY <1>1 DEF Same, Shape, Fields
  <1> HIDE DEF d
  <1>3. /\ d.name = s.name /\ d.my = s.my /\ d.init_sent = s.init_sent /\ d.peer = s.peer
        /\ d.after_authentication = s.after_authentication /\ d.sent = s.sent
        /\ d.data = s.data /\ d.got = s.got
    BY <1>2 DEF Same, Fields
  <1>4. s.after_authentication /\ Len(s.got) = 2 /\ s.sent = 2 /\ s.data = MaxData
    BY <1>1 DEF Phase
  <1>5. Len(d.got) >= 2
    BY <1>3, <1>4
  <1>6. Phase(d)
    BY <1>1, <1>2, <1>3, <1>4, <1>5 DEF Phase
  <1>7. Handlers(d)
    <2>1. s.init_sent => s.my # s.peer
      BY <1>1 DEF Phase
    <2> QED BY <1>2, <1>3, <2>1 DEF Handlers, Awaited
  <1>8. Answers(d) = 0
    <2>1. Answers(d) = 2 + MaxData - 2 - MaxData
      BY <1>2, <1>3, <1>4 DEF Answers
    <2> QED BY ONLY <1>1, <2>1
  <1>9. Settled(d)
    BY <1>2 DEF Settled
  <1>10. Good(x, w, d) /\ In(d) = In(s) /\ d.name = s.name /\ d.offer = s.offer
    <2>1. Good(x, w, s) /\ s.phase \in {"kex", "authenticated"} /\ d.phase # "start"
      BY <1>2
    <2> QED BY ONLY <1>2, <1>6, <1>7, <1>8, <2>1, PhaseGood
  <1> QED BY <1>9, <1>10 DEF d

\* The client sends its request.
LEMMA RequestGood ==
    ASSUME NEW x, NEW w, NEW s, Good(x, w, s), s.phase = "kex", s.done, s.name = "client"
    PROVE  LET d == SendNext([s EXCEPT !.phase = "auth", !.handlers = {"extinfo", "success"}],
                             "request")
           IN  /\ Good(x, w, d) /\ In(d) = In(s) /\ d.name = s.name /\ d.offer = s.offer
               /\ Settled(d)
  <1> DEFINE h == [s EXCEPT !.phase = "auth", !.handlers = {"extinfo", "success"}]
             g == [h EXCEPT !.sent = @ + 1]
             c == [type |-> "request", n |-> h.sent + 1]
             d == ssh_packet_send2_wrapped(g, c)
  <1>1. SendNext(h, "request") = ssh_packet_send2(g, c)
    BY DEF SendNext
  <1>2. /\ Typed(s) /\ Stage(s) /\ Phase(s) /\ Queue(s) /\ Counters(s) /\ InOrder(s)
        /\ Shape(s) /\ IsSeq(w) /\ Linked(x, w, s, OutStep(s), Sent(s), DataSent(s))
    BY DEF Good, Consistent, Local
  <1>3. /\ ~s.init_sent /\ ~s.rekeying /\ ~s.after_authentication /\ s.sent = 1
        /\ s.my = 1 /\ ~s.initial /\ s.outgoing = <<>> /\ s.data = MaxData
        /\ Len(s.got) = 0 /\ s.keyOut = <<1, 1>>
    BY <1>2 DEF Stage, Phase, Queue
  <1>4. s.packetsOut \in Nat /\ s.seqOut \in Nat /\ s.packetsOut <= 1
        /\ MaxData \in Nat /\ Wrap \in Nat /\ 5 < Wrap
    <2>1. s.packetsOut <= s.sent
      BY <1>2, <1>3 DEF Counters
    <2> QED BY <1>2, <1>3, <2>1, TransportAssumption, CounterAssumption DEF Typed
  <1>5. Same(s, h, {"phase", "handlers"}) /\ h.phase = "auth" /\ h.handlers = {"extinfo", "success"}
    BY <1>2 DEF Same, Shape, Fields
  <1> HIDE DEF h
  <1>6. Same(h, g, {"sent"}) /\ g.sent = h.sent + 1
    BY <1>5 DEF Same, Shape, Fields
  <1> HIDE DEF g
  <1>7. /\ Same(s, g, {"phase", "handlers", "sent"}) /\ h.sent = s.sent /\ g.phase = h.phase
        /\ g.handlers = h.handlers
    BY <1>5, <1>6 DEF Same, Fields
  <1>8. /\ Shape(g) /\ ~g.rekeying /\ ~g.after_authentication /\ ~g.initial
        /\ g.packetsOut = s.packetsOut /\ g.out = s.out /\ g.seqOut = s.seqOut
        /\ g.keyOut = s.keyOut
    BY <1>3, <1>7 DEF Same, Fields
  <1>9. c.type = "request" /\ c.n = 2 /\ g.sent = 2
    BY <1>3, <1>6, <1>7
  <1> HIDE DEF c
  <1>10. ssh_packet_send2(g, c) = d
    <2>1. ~ssh_packet_need_rekeying(g, 1)
      BY <1>8 DEF ssh_packet_need_rekeying
    <2> QED BY <1>8, <1>9, <2>1 DEF ssh_packet_send2, d
  <1>11. /\ Same(g, d, Unsealed)
         /\ d.out = Append(s.out, Packet(s, c))
         /\ d.seqOut = (s.seqOut + 1) % Wrap
         /\ d.packetsOut = s.packetsOut + 1
    <2>1. g.packetsOut \in Nat /\ g.packetsOut + 1 < Wrap
      BY <1>4, <1>8
    <2>2. /\ Same(g, d, Unsealed)
          /\ d.out = Append(g.out, Packet(g, c))
          /\ d.seqOut = (g.seqOut + 1) % Wrap
          /\ d.packetsOut = g.packetsOut + 1
      BY <1>8, <1>9, <2>1, WrappedPlain
    <2>3. Packet(g, c) = Packet(s, c)
      BY <1>8 DEF Packet
    <2> QED BY <1>8, <2>2, <2>3
  <1> HIDE DEF d
  <1>12. Same(s, d, Unsealed \cup {"phase", "handlers", "sent"})
    BY <1>7, <1>11 DEF Same
  <1>13. d.sent = 2 /\ d.phase = "auth" /\ d.handlers = {"extinfo", "success"}
    <2>1. d.sent = g.sent /\ d.phase = g.phase /\ d.handlers = g.handlers
      BY <1>11 DEF Same, Fields, Unsealed
    <2> QED BY <1>5, <1>7, <1>9, <2>1
  <1>14. /\ Shape(d) /\ d.name = s.name /\ d.offer = s.offer /\ d.got = s.got
         /\ d.err = s.err /\ d.outgoing = s.outgoing /\ d.keyOut = s.keyOut
         /\ d.keyIn = s.keyIn /\ d.seqIn = s.seqIn /\ d.packetsIn = s.packetsIn
         /\ d.initial = s.initial /\ d.strict = s.strict /\ d.peer = s.peer /\ d.my = s.my
         /\ d.newOut = s.newOut /\ d.newIn = s.newIn /\ d.data = s.data
         /\ d.rekeying = s.rekeying /\ d.done = s.done /\ d.init_sent = s.init_sent
         /\ d.after_authentication = s.after_authentication
    BY <1>12 DEF Same, Fields, Unsealed
  <1>15. Typed(d)
    <2>1. (s.seqOut + 1) % Wrap \in Nat
      BY <1>4, NextSeq
    <2>2. d.seqOut \in Nat /\ d.packetsOut \in Nat /\ d.sent \in Nat
      BY <1>4, <1>11, <1>13, <2>1
    <2> QED BY ONLY <1>2, <1>14, <2>2 DEF Typed
  <1>16. Stage(d)
    BY ONLY <1>2, <1>14 DEF Stage
  <1>17. Len(d.got) < 2
    BY <1>3, <1>14
  <1>18. Phase(d)
    BY <1>2, <1>3, <1>13, <1>14, <1>17 DEF Phase
  <1>19. Answers(d) = 0 /\ Answers(s) = 0 /\ Held(d) = 0 /\ Held(s) = 0 /\ Len(d.outgoing) = 0
         /\ Len(s.outgoing) = 0
    BY <1>3, <1>13, <1>14 DEF Answers, Held
  <1>20. Queue(d)
    BY <1>3, <1>4, <1>13, <1>14, <1>15, <1>19, EmptyQueue
  <1>21. Counters(d)
    <2>1. d.packetsOut + 3 < Wrap /\ d.packetsOut <= d.sent
      BY ONLY <1>4, <1>11, <1>13
    <2> QED BY <1>3, <1>13, <1>14, <2>1 DEF Counters
  <1>22. Handlers(d) /\ InOrder(d)
    BY <1>2, <1>13, <1>14 DEF Handlers, InOrder
  <1>23. OutStep(s) = 0 /\ Sent(s) = 1 /\ DataSent(s) = 0
         /\ OutStep(d) = 0 /\ Sent(d) = 2 /\ DataSent(d) = 0
    <2>1. OutStep(d) = 0 /\ OutStep(s) = 0
      BY <1>3, <1>14 DEF OutStep
    <2>2. Sent(s) = s.sent - 0 /\ Sent(d) = d.sent - 0
      BY <1>19 DEF Sent
    <2>3. DataSent(s) = MaxData - s.data - 0 /\ DataSent(d) = MaxData - d.data - 0
      BY <1>19 DEF DataSent
    <2>4. d.sent = 2 /\ s.sent = 1 /\ d.data = MaxData /\ s.data = MaxData
      BY <1>3, <1>13, <1>14
    <2> QED BY ONLY <1>4, <2>1, <2>2, <2>3, <2>4
  <1>24. Linked(x, w, d, 0, 2, 0)
    <2>1. Linked(x, w, s, 0, 1, 0) /\ IsSeq(w)
      BY <1>2, <1>23
    <2>2. 1 \in Nat \ {0} /\ s.keyOut = <<1, 1>> /\ s.packetsOut + 1 < Wrap
      BY <1>3, <1>4
    <2>3. PayloadType(s.name, 1, c.type) /\ c.n = 1 + 1 /\ c.type # "data"
      BY <1>9 DEF PayloadType
    <2>4. /\ d.name = s.name /\ d.offer = s.offer /\ d.keyOut = s.keyOut
          /\ d.out = Append(s.out, Packet(s, c))
          /\ d.seqOut = (s.seqOut + 1) % Wrap /\ d.packetsOut = s.packetsOut + 1
      BY <1>11, <1>14
    <2>5. Linked(x, w, d, 0, 1 + 1, IF c.type = "data" THEN 0 + 1 ELSE 0)
      BY ONLY <2>1, <2>2, <2>3, <2>4, SealedPayload
    <2> QED BY <1>9, <2>5
  <1>25. Good(x, w, d)
    BY <1>2, <1>3, <1>14, <1>15, <1>16, <1>18, <1>20, <1>21, <1>22, <1>23, <1>24
       DEF Good, Consistent, Local
  <1>26. In(d) = In(s)
    BY <1>14, <1>19 DEF In, InStep
  <1>27. Settled(d)
    BY <1>3, <1>14 DEF Settled
  <1> QED BY <1>1, <1>10, <1>14, <1>25, <1>26, <1>27 DEF h

\* The loop sends channel data while no exchange runs.
LEMMA OutputGood ==
    ASSUME NEW x, NEW w, NEW s, Good(x, w, s), s.phase = "session",
           ~ssh_packet_is_rekeying(s), s.data > 0
    PROVE  LET d == SendNext([s EXCEPT !.data = @ - 1], "data")
           IN  /\ Good(x, w, d) /\ In(d) = In(s) /\ d.name = s.name /\ d.offer = s.offer
               /\ Settled(d)
  <1> DEFINE h == [s EXCEPT !.data = @ - 1]
             t == [h EXCEPT !.sent = @ + 1]
             d == ssh_packet_send2(t, [type |-> "data", n |-> s.sent + 1])
  <1>1. Shape(s)
    BY DEF Good, Consistent, Local
  <1>2. Same(s, h, {"data"}) /\ h.data = s.data - 1
    BY <1>1 DEF Same, Shape, Fields
  <1>3. SendNext(h, "data") = ssh_packet_send2(t, [type |-> "data", n |-> h.sent + 1])
    BY DEF SendNext
  <1> HIDE DEF h
  <1>4. Same(h, t, {"sent"}) /\ t.sent = h.sent + 1
    BY <1>2 DEF Same, Shape, Fields
  <1> HIDE DEF t
  <1>5. h.sent = s.sent /\ t.data = h.data /\ Same(s, t, {"sent", "data"})
    BY <1>2, <1>4 DEF Same, Fields
  <1>6. t.sent = s.sent + 1 /\ t.data = s.data - 1 /\ ~s.rekeying /\ s.done
    BY <1>2, <1>4, <1>5 DEF ssh_packet_is_rekeying
  <1>7. /\ Good(x, w, d)
        /\ In(d) = [In(s) EXCEPT !.dat = IF "data" = "answer" THEN @ + 1 ELSE @]
        /\ d.phase = "session" /\ d.name = s.name /\ d.offer = s.offer
    BY <1>5, <1>6, SessionSend
  <1>8. In(d) = In(s)
    BY <1>7 DEF In
  <1>9. Settled(d)
    BY <1>7 DEF Settled
  <1> QED BY <1>3, <1>5, <1>7, <1>8, <1>9 DEF h

\* The user asks for new keys, and the loop starts the exchange.
LEMMA ManualGood ==
    ASSUME NEW x, NEW w, NEW s, Good(x, w, s), s.phase = "session"
    PROVE  /\ LET d == [s EXCEPT !.manual = TRUE]
              IN  /\ Good(x, w, d) /\ In(d) = In(s) /\ d.name = s.name /\ d.offer = s.offer
                  /\ Settled(d) /\ d.out = s.out
           /\ ~ssh_packet_is_rekeying(s) =>
              LET d == kex_start_rekex([s EXCEPT !.manual = FALSE])
              IN  /\ Good(x, w, d) /\ In(d) = In(s) /\ d.name = s.name /\ d.offer = s.offer
                  /\ Settled(d)
  <1>1. Shape(s) /\ Typed(s) /\ Phase(s)
    BY DEF Good, Consistent, Local
  <1>2. ASSUME NEW b, NEW t, t = [s EXCEPT !.manual = b]
        PROVE  /\ Good(x, w, t) /\ In(t) = In(s) /\ t.name = s.name /\ t.offer = s.offer
               /\ Settled(t) /\ t.out = s.out
               /\ t.phase = "session" /\ t.done = s.done /\ t.after_authentication
    <2>1. Same(s, t, {"manual"})
      BY <1>1, <1>2 DEF Same, Shape, Fields
    <2>2. /\ t.name = s.name /\ t.offer = s.offer /\ t.out = s.out /\ t.phase = s.phase
          /\ t.done = s.done /\ t.after_authentication = s.after_authentication
          /\ t.keyIn = s.keyIn /\ t.got = s.got /\ t.sent = s.sent /\ t.data = s.data
          /\ t.seqIn = s.seqIn /\ t.packetsIn = s.packetsIn
          /\ t.init_sent = s.init_sent /\ t.my = s.my /\ t.peer = s.peer /\ t.rekeying = s.rekeying
      BY <2>1 DEF Same, Fields
    <2>3. Same(s, t, {"seqIn", "packetsIn", "expired", "manual", "nonces", "reused"})
          /\ t.seqIn \in Nat /\ t.packetsIn \in Nat /\ s.packetsIn <= t.packetsIn
      BY <1>1, <2>1, <2>2 DEF Same, Typed
    <2>4. Good(x, w, t)
      BY <2>3, GoodSame
    <2>5. In(t) = In(s)
      BY <2>2 DEF In, InStep, Answers
    <2>6. Settled(t) /\ t.after_authentication
      BY <1>1, <2>2 DEF Settled, Phase
    <2> QED BY <2>2, <2>4, <2>5, <2>6
  <1>3. ASSUME ~ssh_packet_is_rekeying(s)
        PROVE  LET d == kex_start_rekex([s EXCEPT !.manual = FALSE])
               IN  /\ Good(x, w, d) /\ In(d) = In(s) /\ d.name = s.name /\ d.offer = s.offer
                   /\ Settled(d)
    <2> DEFINE t == [s EXCEPT !.manual = FALSE]
               d == kex_start_rekex(t)
    <2>1. /\ Good(x, w, t) /\ In(t) = In(s) /\ t.name = s.name /\ t.offer = s.offer
          /\ t.phase = "session" /\ t.done = s.done /\ t.after_authentication
      BY <1>2
    <2> HIDE DEF t
    <2>2. Consistent(x, w, t) /\ t.done
      BY <1>3, <2>1 DEF Good, ssh_packet_is_rekeying
    <2>3. /\ Good(x, w, d) /\ In(d) = In(t)
          /\ Same(t, d, Unsealed \cup {"done", "my", "rekeying", "init_sent"})
      BY <2>1, <2>2, RekexGood
    <2> HIDE DEF d
    <2>4. d.name = t.name /\ d.offer = t.offer /\ d.phase = t.phase
      BY <2>3 DEF Same, Fields, Unsealed
    <2>5. Settled(d)
      BY <2>1, <2>4 DEF Settled
    <2> QED BY <2>1, <2>3, <2>4, <2>5 DEF d, t
  <1> QED BY <1>2, <1>3

\* The interval runs out, and the loop looks whether keys are due.
LEMMA ExpireGood ==
    ASSUME NEW x, NEW w, NEW s, Good(x, w, s), s.phase = "session"
    PROVE  LET d == ssh_packet_check_rekey([s EXCEPT !.expired = TRUE])
           IN  /\ Good(x, w, d) /\ In(d) = In(s) /\ d.name = s.name /\ d.offer = s.offer
               /\ Settled(d)
  <1> DEFINE t == [s EXCEPT !.expired = TRUE]
             d == ssh_packet_check_rekey(t)
  <1>1. Shape(s) /\ Typed(s) /\ Phase(s)
    BY DEF Good, Consistent, Local
  <1>2. Same(s, t, {"expired"})
    BY <1>1 DEF Same, Shape, Fields
  <1> HIDE DEF t
  <1>3. /\ t.name = s.name /\ t.offer = s.offer /\ t.out = s.out /\ t.phase = s.phase
        /\ t.keyIn = s.keyIn /\ t.got = s.got /\ t.sent = s.sent /\ t.data = s.data
        /\ t.seqIn = s.seqIn /\ t.packetsIn = s.packetsIn
        /\ t.init_sent = s.init_sent /\ t.my = s.my /\ t.peer = s.peer /\ t.rekeying = s.rekeying
    BY <1>2 DEF Same, Fields
  <1>4. Same(s, t, {"seqIn", "packetsIn", "expired", "manual", "nonces", "reused"})
        /\ t.seqIn \in Nat /\ t.packetsIn \in Nat /\ s.packetsIn <= t.packetsIn
    BY <1>1, <1>2, <1>3 DEF Same, Typed
  <1>5. Good(x, w, t)
    BY <1>4, GoodSame
  <1>6. In(t) = In(s)
    BY <1>3 DEF In, InStep, Answers
  <1>7. /\ Good(x, w, d) /\ In(d) = In(t)
        /\ Same(t, d, Unsealed \cup {"done", "my", "rekeying", "init_sent"})
    BY <1>3, <1>5, CheckRekeyGood
  <1> HIDE DEF d
  <1>8. d.name = t.name /\ d.offer = t.offer /\ d.phase = t.phase
    BY <1>7 DEF Same, Fields, Unsealed
  <1>9. Settled(d)
    BY <1>3, <1>8 DEF Settled
  <1> QED BY <1>3, <1>6, <1>7, <1>8, <1>9 DEF d, t

-----------------------------------------------------------------------------
(***************************************************************************)
(* The connection: what each end has sent and the other has not read leads *)
(* from the reader's view to the writer's.                                 *)
(***************************************************************************)
JoinedBy(n, w, o, e) ==
    /\ Good(In(n[Peer(e)]), w[e], n[e]) /\ Settled(n[e])
    /\ n[e].name = e /\ n[e].offer = o /\ n[e].out = <<>>

Connected(n, w) ==
    /\ n = [e \in Ends |-> n[e]] /\ w = [e \in Ends |-> w[e]]
    /\ \E o : \A e \in Ends : JoinedBy(n, w, o, e)

TransportInv == Connected(end, wire)

\* There are two ends.
LEMMA PeerFacts ==
    ASSUME NEW e \in Ends
    PROVE  Peer(e) \in Ends /\ Peer(e) # e /\ Peer(Peer(e)) = e
           /\ \A f \in Ends : f # e => f = Peer(e)
  BY DEF Peer, Ends

\* Nothing more is written: the link is the wire.
LEMMA LinkedWire ==
    ASSUME NEW x, NEW w, NEW s, NEW step, NEW pay, NEW dat, IsSeq(w), s.out = <<>>
    PROVE  Linked(x, w, s, step, pay, dat)
             <=> Between(s.name, s.offer, x, w, Sender(s, step, pay, dat))
  <1>1. PICK S : w \in Seq(S)
    BY DEF IsSeq
  <1>2. w \o <<>> = w
    BY <1>1
  <1>3. <<>> \in Seq({})
    OBVIOUS
  <1> QED BY <1>2, <1>3 DEF Linked, IsSeq

\* The reader takes the first packet from the wire.
LEMMA GoodRead ==
    ASSUME NEW x, NEW w, NEW s, Good(x, w, s), s.out = <<>>, w # <<>>
    PROVE  /\ Fits(s.name, s.offer, x, Head(w)) /\ Advance(s.offer, x, Head(w)) \in View
           /\ Good(Advance(s.offer, x, Head(w)), Tail(w), s)
  <1> DEFINE y == Sender(s, OutStep(s), Sent(s), DataSent(s))
             z == Advance(s.offer, x, Head(w))
  <1>1. /\ Shape(s) /\ Local(s) /\ Handlers(s) /\ IsSeq(w)
        /\ Linked(x, w, s, OutStep(s), Sent(s), DataSent(s))
        /\ ~s.rekeying => s.outgoing = <<>>
    BY DEF Good, Consistent
  <1>2. Between(s.name, s.offer, x, w, y)
    BY <1>1, LinkedWire
  <1> HIDE DEF y
  <1>3. /\ Fits(s.name, s.offer, x, Head(w)) /\ z \in View
        /\ Between(s.name, s.offer, z, Tail(w), y)
    BY <1>2, BetweenHead
  <1>4. IsSeq(Tail(w))
    BY <1>3 DEF Between
  <1> HIDE DEF z
  <1>5. Linked(z, Tail(w), s, OutStep(s), Sent(s), DataSent(s))
    BY <1>3, <1>4, LinkedWire DEF y
  <1> QED BY <1>1, <1>3, <1>4, <1>5 DEF Good, Consistent, z

\* A new end is good, and has read nothing.
LEMMA FreshGood ==
    ASSUME NEW e \in Ends, NEW o, NEW s, s = Fresh(e, o)
    PROVE  /\ Good(In(s), <<>>, s) /\ Settled(s) /\ s.name = e /\ s.offer = o /\ s.out = <<>>
           /\ In(s) = [round |-> 0, step |-> 0, pay |-> 0, dat |-> 0, seq |-> 0, cnt |-> 0]
  <1>1. Shape(s)
    BY FreshShape
  <1>2. /\ s.name = e /\ s.offer = o /\ s.phase = "start" /\ s.err = "none" /\ s.out = <<>>
        /\ ~s.rekeying /\ s.outgoing = <<>> /\ ~s.after_authentication
        /\ s.keyOut = <<0, 0>> /\ s.keyIn = <<0, 0>> /\ s.seqOut = 0 /\ s.seqIn = 0
        /\ s.packetsOut = 0 /\ s.packetsIn = 0 /\ ~s.done /\ ~s.initial /\ ~s.init_sent
        /\ ~s.strict /\ s.my = 0 /\ s.peer = 0 /\ s.newOut = NoKey
        /\ s.sent = 0 /\ s.got = <<>> /\ s.data = MaxData
    BY DEF Fresh, NoKey
  <1>3. MaxData \in Nat /\ Wrap \in Nat /\ 5 < Wrap
    BY TransportAssumption, CounterAssumption
  <1>4. Len(s.got) = 0 /\ Len(s.outgoing) = 0 /\ s.got \in Seq(Nat)
        /\ s.outgoing \in Seq([type : {"data", "answer"}, n : Nat])
    BY <1>2
  <1>5. Typed(s)
    BY <1>2, <1>3, <1>4 DEF Typed
  <1>6. Stage(s)
    BY <1>2 DEF Stage
  <1>7. Phase(s)
    BY <1>2, <1>3, <1>4 DEF Phase
  <1>8. Answers(s) = 0 /\ Held(s) = 0
    BY <1>2 DEF Answers, Held
  <1>9. Queue(s)
    BY <1>2, <1>3, <1>5, <1>8, EmptyQueue
  <1>10. Counters(s)
    BY <1>2, <1>3, <1>8 DEF Counters
  <1>11. InOrder(s)
    <2>1. 1 .. 0 = {}
      OBVIOUS
    <2>2. <<>> = [i \in 1 .. 0 |-> i]
      BY <2>1
    <2> QED BY <1>2, <1>4, <2>2 DEF InOrder
  <1>12. Handlers(s) /\ Settled(s)
    BY <1>2 DEF Handlers, Settled
  <1>13. OutStep(s) = 0 /\ Sent(s) = 0 /\ DataSent(s) = 0
    <2>1. OutStep(s) = 0 /\ Sent(s) = 0 - 0 /\ DataSent(s) = MaxData - MaxData - 0
      BY <1>2, <1>4, <1>8 DEF OutStep, Sent, DataSent
    <2> QED BY ONLY <1>3, <2>1
  <1> DEFINE v == [round |-> 0, step |-> 0, pay |-> 0, dat |-> 0, seq |-> 0, cnt |-> 0]
  <1>14. In(s) = v
    BY <1>2, <1>4, <1>8 DEF In, InStep
  <1>15. Sender(s, 0, 0, 0) = v
    BY <1>2 DEF Sender
  <1>16. v \in View
    BY <1>3 DEF View
  <1> HIDE DEF v
  <1>17. Between(s.name, s.offer, v, <<>>, v) /\ IsSeq(<<>>)
    BY <1>16, BetweenEmpty DEF Between
  <1>18. Linked(v, <<>>, s, OutStep(s), Sent(s), DataSent(s))
    BY <1>2, <1>13, <1>15, <1>17, LinkedWire
  <1>19. Good(v, <<>>, s)
    BY <1>1, <1>2, <1>5, <1>6, <1>7, <1>9, <1>10, <1>11, <1>12, <1>17, <1>18
       DEF Good, Consistent, Local
  <1> QED BY <1>2, <1>12, <1>14, <1>19 DEF v

\* Two new ends are connected.
LEMMA ConnectedInit == Init => TransportInv
  <1> SUFFICES ASSUME Init PROVE TransportInv
    OBVIOUS
  <1>1. PICK o \in BOOLEAN : end = [e \in Ends |-> Fresh(e, o)]
    BY DEF Init
  <1>2. wire = [e \in Ends |-> <<>>]
    BY DEF Init
  <1>3. ASSUME NEW e \in Ends PROVE JoinedBy(end, wire, o, e)
    <2> DEFINE s == end[e]
               p == end[Peer(e)]
    <2>1. s = Fresh(e, o) /\ p = Fresh(Peer(e), o) /\ wire[e] = <<>> /\ Peer(e) \in Ends
      BY <1>1, <1>2, PeerFacts
    <2> HIDE DEF s, p
    <2>2. /\ Good(In(s), <<>>, s) /\ Settled(s) /\ s.name = e /\ s.offer = o /\ s.out = <<>>
          /\ In(s) = [round |-> 0, step |-> 0, pay |-> 0, dat |-> 0, seq |-> 0, cnt |-> 0]
      BY <2>1, FreshGood
    <2>3. In(p) = [round |-> 0, step |-> 0, pay |-> 0, dat |-> 0, seq |-> 0, cnt |-> 0]
      BY <2>1, FreshGood
    <2> QED BY <2>1, <2>2, <2>3 DEF JoinedBy, s, p
  <1> QED BY <1>1, <1>2, <1>3 DEF TransportInv, Connected

\* A step of e that reads nothing.
LEMMA StepConnected ==
    ASSUME NEW n, NEW w, Connected(n, w), NEW e \in Ends, NEW d,
           Good(In(n[Peer(e)]), w[e], d), In(d) = In(n[e]),
           d.name = n[e].name, d.offer = n[e].offer, Settled(d),
           NEW n2, n2 = [n EXCEPT ![e] = [d EXCEPT !.out = <<>>]],
           NEW w2, w2 = [w EXCEPT ![e] = @ \o d.out]
    PROVE  Connected(n2, w2)
  <1> DEFINE c == [d EXCEPT !.out = <<>>]
             p == Peer(e)
             v == w[e] \o d.out
  <1>1. PICK o : \A f \in Ends : JoinedBy(n, w, o, f)
    BY DEF Connected
  <1>2. p \in Ends /\ p # e /\ Peer(p) = e /\ \A f \in Ends : f # e => f = p
    BY PeerFacts
  <1>3. /\ Good(In(n[p]), v, c) /\ In(c) = In(d) /\ c.out = <<>>
        /\ c.name = d.name /\ c.offer = d.offer /\ Settled(c)
    BY GoodShip
  <1> HIDE DEF c, v
  <1>4. /\ n = [f \in Ends |-> n[f]] /\ w = [f \in Ends |-> w[f]]
    BY DEF Connected
  <1>5. /\ n2 = [f \in Ends |-> IF f = e THEN c ELSE n[f]]
        /\ w2 = [f \in Ends |-> IF f = e THEN v ELSE w[f]]
    BY <1>4 DEF c, v
  <1>6. /\ n2[e] = c /\ n2[p] = n[p] /\ w2[e] = v /\ w2[p] = w[p]
        /\ n2 = [f \in Ends |-> n2[f]] /\ w2 = [f \in Ends |-> w2[f]]
    BY <1>2, <1>5
  <1>7. JoinedBy(n, w, o, e) /\ JoinedBy(n, w, o, p)
    BY <1>1, <1>2
  <1>8. JoinedBy(n2, w2, o, e)
    <2>1. n[e].name = e /\ n[e].offer = o
      BY <1>7 DEF JoinedBy
    <2> QED BY <1>3, <1>6, <2>1 DEF JoinedBy
  <1>9. JoinedBy(n2, w2, o, p)
    BY <1>2, <1>3, <1>6, <1>7 DEF JoinedBy
  <1>10. \A f \in Ends : JoinedBy(n2, w2, o, f)
    BY <1>2, <1>8, <1>9
  <1> QED BY <1>6, <1>10 DEF Connected

\* A step of e that reads the first packet of its peer.
LEMMA ReadConnected ==
    ASSUME NEW n, NEW w, Connected(n, w), NEW e \in Ends, Reading(n[e]), w[Peer(e)] # <<>>,
           NEW m, m = Head(w[Peer(e)]),
           NEW d, d = ssh_dispatch_run(ssh_packet_read_poll2(n[e], m), m),
           NEW n2, n2 = [n EXCEPT ![e] = [d EXCEPT !.out = <<>>]],
           NEW w2, w2 = [w EXCEPT ![e] = @ \o d.out, ![Peer(e)] = Tail(@)]
    PROVE  Connected(n2, w2)
  <1> DEFINE c == [d EXCEPT !.out = <<>>]
             p == Peer(e)
             v == w[e] \o d.out
             r == Tail(w[p])
  <1>1. PICK o : \A f \in Ends : JoinedBy(n, w, o, f)
    BY DEF Connected
  <1>2. p \in Ends /\ p # e /\ Peer(p) = e /\ \A f \in Ends : f # e => f = p
    BY PeerFacts
  <1>3. JoinedBy(n, w, o, e) /\ JoinedBy(n, w, o, p)
    BY <1>1, <1>2
  <1>4. /\ Good(In(n[e]), w[p], n[p]) /\ n[p].out = <<>> /\ n[p].name = p /\ n[p].offer = o
        /\ Settled(n[p])
    BY <1>2, <1>3 DEF JoinedBy
  <1>5. /\ Good(In(n[p]), w[e], n[e]) /\ n[e].name = e /\ n[e].offer = o /\ Settled(n[e])
    BY <1>3 DEF JoinedBy
  <1>6. /\ Fits(p, o, In(n[e]), m) /\ Advance(o, In(n[e]), m) \in View
        /\ Good(Advance(o, In(n[e]), m), r, n[p])
    BY <1>4, GoodRead
  <1>7. /\ Good(In(n[p]), w[e], d) /\ In(d) = Advance(o, In(n[e]), m)
        /\ d.name = e /\ d.offer = o /\ Settled(d)
    <2> DEFINE s == n[e]
    <2>1. /\ Good(In(n[p]), w[e], s) /\ Reading(s) /\ Settled(s)
          /\ Fits(Peer(s.name), s.offer, In(s), m) /\ Advance(s.offer, In(s), m) \in View
      BY <1>5, <1>6
    <2>2. d = ssh_dispatch_run(ssh_packet_read_poll2(s, m), m)
      OBVIOUS
    <2> HIDE DEF s
    <2>3. /\ Good(In(n[p]), w[e], d) /\ In(d) = Advance(s.offer, In(s), m)
          /\ d.name = s.name /\ d.offer = s.offer /\ Settled(d)
      BY ONLY <2>1, <2>2, DispatchGood
    <2> QED BY <1>5, <2>3 DEF s
  <1>8. /\ Good(In(n[p]), v, c) /\ In(c) = In(d) /\ c.out = <<>>
        /\ c.name = d.name /\ c.offer = d.offer /\ Settled(c)
    BY <1>7, GoodShip
  <1> HIDE DEF c, v, r
  <1>9. /\ n = [f \in Ends |-> n[f]] /\ w = [f \in Ends |-> w[f]]
    BY DEF Connected
  <1>10. /\ n2 = [f \in Ends |-> IF f = e THEN c ELSE n[f]]
         /\ w2 = [f \in Ends |-> IF f = e THEN v ELSE r]
    <2>1. n2 = [f \in Ends |-> IF f = e THEN c ELSE n[f]]
      BY <1>9 DEF c
    <2>2. w2 = [f \in Ends |-> IF f = p THEN r ELSE IF f = e THEN v ELSE w[f]]
      BY <1>2, <1>9 DEF v, r
    <2> QED BY <1>2, <2>1, <2>2
  <1>11. /\ n2[e] = c /\ n2[p] = n[p] /\ w2[e] = v /\ w2[p] = r
         /\ n2 = [f \in Ends |-> n2[f]] /\ w2 = [f \in Ends |-> w2[f]]
    BY <1>2, <1>10
  <1>12. JoinedBy(n2, w2, o, e)
    BY <1>7, <1>8, <1>11 DEF JoinedBy
  <1>13. JoinedBy(n2, w2, o, p)
    <2>1. In(n2[Peer(p)]) = Advance(o, In(n[e]), m)
      BY <1>2, <1>7, <1>8, <1>11
    <2>2. Good(In(n2[Peer(p)]), w2[p], n2[p])
      BY <1>6, <1>11, <2>1
    <2> QED BY <1>4, <1>11, <2>2 DEF JoinedBy
  <1>14. \A f \in Ends : JoinedBy(n2, w2, o, f)
    BY <1>2, <1>12, <1>13
  <1> QED BY <1>11, <1>14 DEF Connected

\* Every step keeps the two ends connected.
LEMMA ConnectedNext == TransportInv /\ [Next]_vars => TransportInv'
  <1> SUFFICES ASSUME TransportInv, [Next]_vars PROVE Connected(end', wire')
    BY DEF TransportInv
  <1>0. Connected(end, wire)
    BY DEF TransportInv
  <1>1. ASSUME NEW e \in Ends
        PROVE  LET s == end[e]
               IN  Good(In(end[Peer(e)]), wire[e], s) /\ Settled(s) /\ s.name = e /\ s.out = <<>>
    BY <1>0 DEF Connected, JoinedBy
  <1>2. ASSUME NEW e \in Ends, NEW d,
               Good(In(end[Peer(e)]), wire[e], d), In(d) = In(end[e]),
               d.name = end[e].name, d.offer = end[e].offer, Settled(d), Step(e, d)
        PROVE  Connected(end', wire')
    <2>1. /\ end' = [end EXCEPT ![e] = [d EXCEPT !.out = <<>>]]
          /\ wire' = [wire EXCEPT ![e] = @ \o d.out]
      BY <1>2 DEF Step
    <2> QED BY ONLY <1>0, <1>2, <2>1, StepConnected
  <1>3. ASSUME NEW e \in Ends, kex_setup(e) PROVE Connected(end', wire')
    <2> DEFINE s == end[e]
               x == In(end[Peer(e)])
               w == wire[e]
               d == kex_send_kexinit([s EXCEPT !.phase = "kex", !.initial = TRUE,
                                               !.handlers = {"kexinit"}])
    <2>1. s.phase = "start" /\ Step(e, d)
      BY <1>3 DEF kex_setup
    <2>2. Good(x, w, s)
      BY <1>1
    <2> HIDE DEF s, x, w
    <2>3. /\ Good(x, w, d) /\ In(d) = In(s) /\ d.name = s.name /\ d.offer = s.offer /\ Settled(d)
      BY <2>1, <2>2, SetupGood
    <2> HIDE DEF d
    <2> QED BY <1>2, <2>1, <2>3 DEF s, x, w
  <1>4. ASSUME NEW e \in Ends, Dispatch(e) PROVE Connected(end', wire')
    <2> DEFINE m == Head(wire[Peer(e)])
               d == ssh_dispatch_run(ssh_packet_read_poll2(end[e], m), m)
    <2>1. /\ Reading(end[e]) /\ wire[Peer(e)] # <<>>
          /\ end' = [end EXCEPT ![e] = [d EXCEPT !.out = <<>>]]
          /\ wire' = [wire EXCEPT ![e] = @ \o d.out, ![Peer(e)] = Tail(@)]
      BY <1>4 DEF Dispatch
    <2> QED BY <1>0, <2>1, ReadConnected
  <1>5. ASSUME NEW e \in Ends, StartAuthentication(e) PROVE Connected(end', wire')
    <2> DEFINE s == end[e]
               x == In(end[Peer(e)])
               w == wire[e]
               c == SendNext([s EXCEPT !.phase = "auth", !.handlers = {"extinfo", "success"}],
                             "request")
               r == [s EXCEPT !.phase = "auth", !.handlers = {"extinfo", "request"}]
    <2>1. /\ s.phase = "kex" /\ s.done
          /\ e = "client" => Step(e, c)
          /\ e # "client" => Step(e, r)
      BY <1>5 DEF StartAuthentication
    <2>2. Good(x, w, s) /\ s.name = e
      BY <1>1
    <2> HIDE DEF s, x, w
    <2>3. CASE e = "client"
      <3>1. /\ Good(x, w, c) /\ In(c) = In(s) /\ c.name = s.name /\ c.offer = s.offer
            /\ Settled(c)
        BY <2>1, <2>2, <2>3, RequestGood
      <3>2. Step(e, c)
        BY <2>1, <2>3
      <3> HIDE DEF c
      <3> QED BY <1>2, <3>1, <3>2 DEF s, x, w
    <2>4. CASE e = "server"
      <3>1. /\ Good(x, w, r) /\ In(r) = In(s) /\ r.name = s.name /\ r.offer = s.offer
            /\ Settled(r)
        BY <2>1, <2>2, <2>4, AwaitRequestGood
      <3>2. Step(e, r)
        BY <2>1, <2>4
      <3> HIDE DEF r
      <3> QED BY <1>2, <3>1, <3>2 DEF s, x, w
    <2> QED BY <2>3, <2>4 DEF Ends
  <1>6. ASSUME NEW e \in Ends, StartSession(e) PROVE Connected(end', wire')
    <2> DEFINE s == end[e]
               x == In(end[Peer(e)])
               w == wire[e]
               d == [s EXCEPT !.phase = "session", !.handlers = {"kexinit", "data", "answer"}]
    <2>1. s.phase = "authenticated" /\ Step(e, d)
      BY <1>6 DEF StartSession
    <2>2. Good(x, w, s)
      BY <1>1
    <2> HIDE DEF s, x, w
    <2>3. /\ Good(x, w, d) /\ In(d) = In(s) /\ d.name = s.name /\ d.offer = s.offer /\ Settled(d)
      BY <2>1, <2>2, StartSessionGood
    <2> HIDE DEF d
    <2> QED BY <1>2, <2>1, <2>3 DEF s, x, w
  <1>7. ASSUME NEW e \in Ends, OutputPoll(e) PROVE Connected(end', wire')
    <2> DEFINE s == end[e]
               x == In(end[Peer(e)])
               w == wire[e]
               d == SendNext([s EXCEPT !.data = @ - 1], "data")
    <2>1. s.phase = "session" /\ ~ssh_packet_is_rekeying(s) /\ s.data > 0 /\ Step(e, d)
      BY <1>7 DEF OutputPoll, InSession
    <2>2. Good(x, w, s)
      BY <1>1
    <2> HIDE DEF s, x, w
    <2>3. /\ Good(x, w, d) /\ In(d) = In(s) /\ d.name = s.name /\ d.offer = s.offer /\ Settled(d)
      BY <2>1, <2>2, OutputGood
    <2> HIDE DEF d
    <2> QED BY <1>2, <2>1, <2>3 DEF s, x, w
  <1>8. ASSUME NEW e \in Ends, Expire(e) PROVE Connected(end', wire')
    <2> DEFINE s == end[e]
               x == In(end[Peer(e)])
               w == wire[e]
               d == ssh_packet_check_rekey([s EXCEPT !.expired = TRUE])
    <2>1. s.phase = "session" /\ Step(e, d)
      BY <1>8 DEF Expire, InSession
    <2>2. Good(x, w, s)
      BY <1>1
    <2> HIDE DEF s, x, w
    <2>3. /\ Good(x, w, d) /\ In(d) = In(s) /\ d.name = s.name /\ d.offer = s.offer /\ Settled(d)
      BY <2>1, <2>2, ExpireGood
    <2> HIDE DEF d
    <2> QED BY <1>2, <2>1, <2>3 DEF s, x, w
  <1>9. ASSUME EscapeR PROVE Connected(end', wire')
    <2> DEFINE e == "client"
               s == end[e]
               x == In(end[Peer(e)])
               d == [s EXCEPT !.manual = TRUE]
    <2>1. /\ s.phase = "session" /\ wire' = wire /\ e \in Ends
          /\ end' = [end EXCEPT !["client"].manual = TRUE]
      BY <1>9 DEF EscapeR, InSession, Ends
    <2>2. Good(x, wire[e], s) /\ s.out = <<>>
      BY <1>1, <2>1
    <2>5. end' = [end EXCEPT ![e] = d]
      BY <2>1
    <2> HIDE DEF s, x
    <2>3. /\ Good(x, wire[e], d) /\ In(d) = In(s)
          /\ d.name = s.name /\ d.offer = s.offer /\ Settled(d) /\ d.out = <<>>
      <3> DEFINE w == wire[e]
      <3>1. Good(x, w, s)
        BY <2>2
      <3> HIDE DEF w, e
      <3>2. LET c == [s EXCEPT !.manual = TRUE]
            IN  /\ Good(x, w, c) /\ In(c) = In(s) /\ c.name = s.name /\ c.offer = s.offer
                /\ Settled(c) /\ c.out = s.out
        BY <2>1, <3>1, ManualGood
      <3> QED BY <2>2, <3>2 DEF w
    <2>4. /\ end = [f \in Ends |-> end[f]] /\ wire = [f \in Ends |-> wire[f]]
      BY <1>0 DEF Connected
    <2>6. Shape(d) /\ IsSeq(wire[e])
      BY <2>3 DEF Good, Consistent
    <2> HIDE DEF d
    <2>7. [d EXCEPT !.out = <<>>] = d
      BY <2>3, <2>6 DEF Shape, Fields
    <2>8. wire[e] \o d.out = wire[e]
      <3>1. PICK S : wire[e] \in Seq(S)
        BY <2>6 DEF IsSeq
      <3>2. wire[e] \o <<>> = wire[e]
        BY <3>1
      <3> QED BY <2>3, <3>2
    <2>9. wire' = [wire EXCEPT ![e] = @ \o d.out]
      BY <2>1, <2>4, <2>8
    <2>10. Step(e, d)
      BY <2>5, <2>7, <2>9 DEF Step
    <2> HIDE DEF e
    <2> QED BY <1>2, <2>1, <2>3, <2>10 DEF s, x
  <1>10. ASSUME ManualRekey PROVE Connected(end', wire')
    <2> DEFINE e == "client"
               s == end[e]
               d == kex_start_rekex([s EXCEPT !.manual = FALSE])
    <2>1. s.phase = "session" /\ ~ssh_packet_is_rekeying(s) /\ Step(e, d) /\ e \in Ends
      BY <1>10 DEF ManualRekey, InSession, Ends
    <2>2. Good(In(end[Peer(e)]), wire[e], s)
      BY <1>1, <2>1
    <2>3. /\ Good(In(end[Peer(e)]), wire[e], d) /\ In(d) = In(s)
          /\ d.name = s.name /\ d.offer = s.offer /\ Settled(d)
      BY <2>1, <2>2, ManualGood
    <2> HIDE DEF d, e
    <2> QED BY <1>2, <2>1, <2>3
  <1>11. CASE UNCHANGED vars
    BY <1>0, <1>11 DEF vars
  <1> QED BY <1>3, <1>4, <1>5, <1>6, <1>7, <1>8, <1>9, <1>10, <1>11 DEF Next

\* The inductive invariant.
LEMMA AlwaysConnected == Spec => []TransportInv
  BY ConnectedInit, ConnectedNext, PTL DEF Spec

\* Whoever starts a key exchange and whenever, no end of ssh_dispatch_run,
\* ssh_packet_read_poll2 or kex_start_rekex meets an error.
THEOREM TransportNeverDisconnects == Spec => []NeverDisconnected
  <1>1. TransportInv => NeverDisconnected
    BY DEF TransportInv, Connected, JoinedBy, Good, Consistent, Local, Stage, NeverDisconnected
  <1> QED BY <1>1, AlwaysConnected, PTL

-----------------------------------------------------------------------------
(* What the views along the wire say of the packets on it. *)

\* Kinds of packets, and the numbers of those above the transport.
LEMMA PassTypes ==
    ASSUME NEW e, NEW o, NEW v \in View, NEW m, Fits(e, o, v, m)
    PROVE  /\ ssh_packet_type_is_kex(m.type) <=> m.type \in KexTokens
           /\ ~ssh_packet_type_is_kex(m.type) => v.step = 0 /\ m.n = v.pay + 1
  <1>1. Token(e, v.step) \in KexTokens
    BY DEF Token, KexTokens
  <1>2. ASSUME PayloadType(e, v.pay, m.type) PROVE m.type \notin KexTokens
    BY <1>2 DEF PayloadType, KexTokens
  <1>3. /\ m.type \in KexTokens => ssh_packet_type_is_kex(m.type)
        /\ PayloadType(e, v.pay, m.type) => ~ssh_packet_type_is_kex(m.type)
    BY DEF PayloadType, KexTokens, ssh_packet_type_is_kex, TransportRange
  <1> QED BY <1>1, <1>2, <1>3 DEF Fits

\* No packet above the transport fits between KEXINIT and NEWKEYS.
LEMMA ExchangeAlone ==
    ASSUME NEW e, NEW o, NEW x, NEW w, NEW y, Between(e, o, x, w, y),
           NEW i \in 1 .. Len(w), NEW j \in 1 .. Len(w), i < j,
           w[i].type = "kexinit", ~ssh_packet_type_is_kex(w[j].type)
    PROVE  \E k \in i .. j : w[k].type = "newkeys"
  <1> SUFFICES ASSUME \A k \in i .. j : w[k].type # "newkeys" PROVE FALSE
    OBVIOUS
  <1>1. PICK F : Passes(F, e, o, x, w, y)
    BY DEF Between
  <1> DEFINE len == Len(w)
  <1>2. len \in Nat
    BY SeqOps DEF Between
  <1>3. /\ F \in [0 .. len -> View]
        /\ \A k \in 1 .. len : Fits(e, o, F[k - 1], w[k]) /\ F[k] = Advance(o, F[k - 1], w[k])
    BY <1>1 DEF Passes
  <1> HIDE DEF len
  <1>4. i \in 1 .. len /\ j \in 1 .. len
    BY DEF len
  <1>5. ASSUME NEW k \in 0 .. len PROVE F[k].step \in 0 .. 2
    BY <1>3 DEF View
  <1> DEFINE S == {k \in Nat : i + k < j => F[i + k].step # 0}
  <1>6. 0 \in S
    <2>1. F[i] = Advance(o, F[i - 1], w[i]) /\ i - 1 \in 0 .. len
      BY <1>2, <1>3, <1>4
    <2>2. F[i].step = F[i - 1].step + 1
      BY <2>1 DEF Advance, KexTokens
    <2>3. F[i].step # 0
      BY <1>5, <2>1, <2>2
    <2>4. i + 0 = i
      BY <1>4
    <2> QED BY <2>3, <2>4
  <1>7. ASSUME NEW k \in Nat, k \in S PROVE k + 1 \in S
    <2> SUFFICES ASSUME i + (k + 1) < j PROVE F[i + (k + 1)].step # 0
      OBVIOUS
    <2> DEFINE h == i + k
               l == i + (k + 1)
    <2>1. h < j /\ l \in 1 .. len /\ l - 1 = h /\ l \in i .. j /\ h \in 0 .. len
      BY <1>2, <1>4
    <2>2. F[h].step # 0
      BY <1>7, <2>1
    <2> HIDE DEF h, l
    <2>3. F[l] = Advance(o, F[h], w[l]) /\ w[l].type # "newkeys"
      BY <1>3, <2>1
    <2>4. F[l].step = F[h].step \/ F[l].step = F[h].step + 1
      BY <2>3 DEF Advance
    <2>5. F[h].step \in 0 .. 2
      BY <1>5, <2>1
    <2>6. F[l].step # 0
      BY ONLY <2>2, <2>4, <2>5
    <2> QED BY <2>6 DEF l
  <1> HIDE DEF S
  <1>8. Nat \subseteq S
    BY <1>6, <1>7, NatInd
  <1>9. j - 1 - i \in Nat /\ i + (j - 1 - i) = j - 1 /\ j - 1 < j
    BY <1>2, <1>4
  <1>10. F[j - 1].step # 0
    <2> DEFINE k == j - 1 - i
    <2>1. k \in S /\ i + k = j - 1
      BY <1>8, <1>9
    <2> HIDE DEF k
    <2> QED BY <1>9, <2>1 DEF S
  <1>11. Fits(e, o, F[j - 1], w[j]) /\ F[j - 1] \in View
    BY <1>2, <1>3, <1>4
  <1> QED BY <1>10, <1>11, PassTypes

\* A count G that goes up by one at the places in A and nowhere else.
Counts(G, A, n) ==
    /\ G \in [0 .. n -> Nat] /\ A \subseteq 1 .. n
    /\ \A i \in 1 .. n : G[i] = IF i \in A THEN G[i - 1] + 1 ELSE G[i - 1]

\* Such a count never falls,
LEMMA CountGrows ==
    ASSUME NEW n \in Nat, NEW G, NEW A, Counts(G, A, n)
    PROVE  \A i, j \in 0 .. n : i <= j => G[i] <= G[j]
  <1>1. TAKE i \in 0 .. n
  <1> DEFINE S == {k \in Nat : i + k <= n => G[i] <= G[i + k]}
  <1>2. 0 \in S
    <2>1. G[i] \in Nat /\ i + 0 = i
      BY DEF Counts
    <2> QED BY <2>1
  <1>3. ASSUME NEW k \in Nat, k \in S PROVE k + 1 \in S
    <2> SUFFICES ASSUME i + (k + 1) <= n PROVE G[i] <= G[i + (k + 1)]
      OBVIOUS
    <2> DEFINE h == i + k
               l == i + (k + 1)
    <2>1. h <= n /\ l \in 1 .. n /\ l - 1 = h /\ h \in 0 .. n
      OBVIOUS
    <2>2. G[i] <= G[h]
      BY <1>3, <2>1
    <2> HIDE DEF h, l
    <2>3. G[l] = G[h] \/ G[l] = G[h] + 1
      BY <2>1 DEF Counts
    <2>4. G[i] \in Nat /\ G[h] \in Nat
      BY <2>1 DEF Counts
    <2>5. G[i] <= G[l]
      BY ONLY <2>2, <2>3, <2>4
    <2> QED BY <2>5 DEF l
  <1> HIDE DEF S
  <1>4. Nat \subseteq S
    BY <1>2, <1>3, NatInd
  <1>5. TAKE j \in 0 .. n
  <1>6. HAVE i <= j
  <1> DEFINE k == j - i
  <1>7. k \in S /\ i + k = j /\ i + k <= n
    BY <1>4, <1>6
  <1> HIDE DEF k
  <1> QED BY <1>7 DEF S

\* takes every value from its first to its last, and each at one place of A.
LEMMA CountsAll ==
    ASSUME NEW n \in Nat, NEW G, NEW A, Counts(G, A, n)
    PROVE  /\ G[0] <= G[n]
           /\ {G[i] : i \in A} = G[0] + 1 .. G[n]
           /\ \A i, j \in A : i < j => G[i] < G[j]
  <1>1. \A i, j \in 0 .. n : i <= j => G[i] <= G[j]
    BY CountGrows
  <1>2. ASSUME NEW i \in A
        PROVE  /\ i \in 1 .. n /\ i - 1 \in 0 .. n /\ i \in 0 .. n
               /\ G[i] = G[i - 1] + 1 /\ G[i - 1] \in Nat
    <2>1. i \in 1 .. n
      BY DEF Counts
    <2>2. i - 1 \in 0 .. n /\ i \in 0 .. n
      BY <2>1
    <2> QED BY <2>1, <2>2 DEF Counts
  <1>3. 0 \in 0 .. n /\ n \in 0 .. n /\ G[0] \in Nat /\ G[n] \in Nat
    BY DEF Counts
  <1>4. ASSUME NEW i \in A PROVE G[i] \in G[0] + 1 .. G[n]
    <2>1. G[0] <= G[i - 1] /\ G[i] <= G[n]
      BY <1>1, <1>2, <1>3
    <2> QED BY <1>2, <1>3, <2>1
  <1>5. ASSUME NEW i \in A, NEW j \in A, i < j PROVE G[i] < G[j]
    <2>1. i <= j - 1
      BY <1>2, <1>5
    <2>2. G[i] <= G[j - 1]
      BY <1>1, <1>2, <2>1
    <2>3. G[i] \in Nat
      BY <1>2
    <2> QED BY <1>2, <2>2, <2>3
  <1> DEFINE S == {k \in Nat : k <= n => G[0] + 1 .. G[k] \subseteq {G[i] : i \in A}}
  <1>6. 0 \in S
    <2>1. G[0] + 1 .. G[0] = {}
      BY <1>3
    <2> QED BY <2>1
  <1>7. ASSUME NEW k \in Nat, k \in S PROVE k + 1 \in S
    <2> SUFFICES ASSUME k + 1 <= n, NEW v \in G[0] + 1 .. G[k + 1]
                 PROVE  v \in {G[i] : i \in A}
      OBVIOUS
    <2> DEFINE l == k + 1
    <2>1. k <= n /\ l \in 1 .. n /\ l - 1 = k /\ k \in 0 .. n
      OBVIOUS
    <2>2. G[0] + 1 .. G[k] \subseteq {G[i] : i \in A}
      BY <1>7, <2>1
    <2>3. v \in G[0] + 1 .. G[l]
      OBVIOUS
    <2> HIDE DEF l
    <2>4. G[l] = (IF l \in A THEN G[k] + 1 ELSE G[k]) /\ G[k] \in Nat
      BY <2>1 DEF Counts
    <2>5. CASE v \in G[0] + 1 .. G[k]
      BY <2>2, <2>5
    <2>6. CASE v \notin G[0] + 1 .. G[k]
      <3>1. CASE l \in A
        <4>1. G[l] = G[k] + 1
          BY <2>4, <3>1
        <4>2. v = G[l]
          BY ONLY <1>3, <2>3, <2>4, <2>6, <4>1
        <4> QED BY <3>1, <4>2
      <3>2. CASE l \notin A
        BY <2>3, <2>4, <2>6, <3>2
      <3> QED BY <3>1, <3>2
    <2> QED BY <2>5, <2>6
  <1> HIDE DEF S
  <1>8. n \in S
    BY <1>6, <1>7, NatInd
  <1>9. G[0] + 1 .. G[n] \subseteq {G[i] : i \in A}
    BY <1>8 DEF S
  <1>10. G[0] <= G[n]
    BY <1>1, <1>3
  <1> QED BY <1>4, <1>5, <1>9, <1>10

\* The wire and the queue behind it, numbered on from what has arrived.
LEMMA StreamOf ==
    ASSUME NEW x, NEW w, NEW s, Good(x, w, s), s.out = <<>>
    PROVE  LET ms == w \o s.outgoing
               above == {i \in DOMAIN ms : ~ssh_packet_type_is_kex(ms[i].type)}
           IN  /\ x.pay <= s.sent
               /\ {ms[i].n : i \in above} = x.pay + 1 .. s.sent
               /\ \A i, j \in above : i < j => ms[i].n < ms[j].n
  <1> DEFINE q == s.outgoing
             ms == w \o q
             above == {i \in DOMAIN ms : ~ssh_packet_type_is_kex(ms[i].type)}
             a == Len(w)
             b == Len(q)
             y == Sender(s, OutStep(s), Sent(s), DataSent(s))
  <1>1. /\ Typed(s) /\ Queue(s) /\ IsSeq(w) /\ Between(s.name, s.offer, x, w, y)
    BY LinkedWire DEF Good, Consistent, Local
  <1>2. q \in Seq([type : {"data", "answer"}, n : Nat]) /\ s.sent \in Nat
    BY <1>1 DEF Typed
  <1>3. y.pay = s.sent - b
    BY DEF Sender, Sent
  <1>4. /\ a \in Nat /\ b \in Nat /\ Len(ms) = a + b /\ DOMAIN ms = 1 .. a + b
        /\ \A i \in 1 .. a : ms[i] = w[i]
        /\ \A i \in 1 .. b : ms[a + i] = q[i]
    <2>1. PICK S : w \in Seq(S)
      BY <1>1 DEF IsSeq
    <2> DEFINE R == [type : {"data", "answer"}, n : Nat]
               T == S \cup R
    <2>2. q \in Seq(R)
      BY <1>2
    <2> HIDE DEF R, q
    <2>3. w \in Seq(T) /\ q \in Seq(T)
      BY <2>1, <2>2
    <2> HIDE DEF T
    <2> QED BY <2>3
  <1>5. ASSUME NEW i \in 1 .. b
        PROVE  q[i].n = s.sent - b + i /\ ~ssh_packet_type_is_kex(q[i].type)
    <2>1. q[i].type \in {"data", "answer"}
      <3> DEFINE R == [type : {"data", "answer"}, n : Nat]
      <3>1. q \in Seq(R)
        BY <1>2
      <3> HIDE DEF q, R
      <3>2. q[i] \in R
        BY <1>5, <3>1
      <3> QED BY <3>2 DEF R
    <2>2. q[i].n = s.sent - b + i
      BY <1>1 DEF Queue
    <2> QED BY <2>1, <2>2 DEF ssh_packet_type_is_kex, TransportRange
  <1> HIDE DEF q, ms, a, b, y
  <1>6. PICK F : Passes(F, s.name, s.offer, x, w, y)
    BY <1>1 DEF Between
  <1>7. /\ F \in [0 .. a -> View] /\ F[0] = x /\ F[a] = y
        /\ \A i \in 1 .. a : /\ Fits(s.name, s.offer, F[i - 1], w[i])
                             /\ F[i] = Advance(s.offer, F[i - 1], w[i])
    BY <1>6 DEF Passes, a
  <1> DEFINE G == [i \in 0 .. a + b |-> IF i <= a THEN F[i].pay ELSE s.sent - b + (i - a)]
  <1>8. s.sent - b \in Nat /\ F[a].pay = s.sent - b
    <2>1. y \in View
      BY <1>4, <1>7
    <2> QED BY <1>3, <1>7, <2>1 DEF View
  <1>9. G \in [0 .. a + b -> Nat]
    <2> SUFFICES ASSUME NEW i \in 0 .. a + b
                 PROVE  (IF i <= a THEN F[i].pay ELSE s.sent - b + (i - a)) \in Nat
      BY DEF G
    <2>1. CASE i <= a
      <3>1. F[i] \in View
        BY <1>4, <1>7, <2>1
      <3> QED BY <2>1, <3>1 DEF View
    <2>2. CASE ~(i <= a)
      BY <1>4, <1>8, <2>2
    <2> QED BY <2>1, <2>2
  <1>10. above \subseteq 1 .. a + b
    BY <1>4
  <1>11. ASSUME NEW i \in 1 .. a + b
         PROVE  /\ G[i] = IF i \in above THEN G[i - 1] + 1 ELSE G[i - 1]
                /\ i \in above => ms[i].n = G[i]
    <2>0. i \in 0 .. a + b /\ i - 1 \in 0 .. a + b
      BY <1>4
    <2>1. CASE i <= a
      <3>1. i \in 1 .. a /\ i - 1 <= a /\ i - 1 \in 0 .. a
        BY <1>4, <2>1
      <3>2. G[i] = F[i].pay /\ G[i - 1] = F[i - 1].pay
        BY <2>0, <2>1, <3>1
      <3> HIDE DEF G
      <3>3. /\ Fits(s.name, s.offer, F[i - 1], w[i]) /\ F[i - 1] \in View
            /\ F[i] = Advance(s.offer, F[i - 1], w[i]) /\ ms[i] = w[i]
        BY <1>4, <1>7, <3>1
      <3>4. /\ ssh_packet_type_is_kex(w[i].type) <=> w[i].type \in KexTokens
            /\ ~ssh_packet_type_is_kex(w[i].type) => w[i].n = F[i - 1].pay + 1
        BY <3>3, PassTypes
      <3>5. i \in above <=> ~ssh_packet_type_is_kex(w[i].type)
        BY <1>4, <3>3
      <3>6. F[i].pay = IF w[i].type \in KexTokens THEN F[i - 1].pay ELSE F[i - 1].pay + 1
        BY <3>3 DEF Advance
      <3> QED BY <3>2, <3>3, <3>4, <3>5, <3>6
    <2>2. CASE ~(i <= a)
      <3> DEFINE k == i - a
      <3>1. k \in 1 .. b /\ a + k = i
        BY <1>4, <2>2
      <3>2. G[i] = s.sent - b + k
        BY <2>0, <2>2
      <3>3. G[i - 1] = s.sent - b + (k - 1)
        <4>1. CASE i - 1 <= a
          <5>1. i - 1 = a /\ k = 1
            BY <1>4, <2>2, <4>1
          <5>2. G[i - 1] = F[a].pay
            BY <2>0, <4>1, <5>1
          <5> QED BY <1>8, <5>1, <5>2
        <4>2. CASE ~(i - 1 <= a)
          <5>1. G[i - 1] = s.sent - b + ((i - 1) - a) /\ (i - 1) - a = k - 1
            BY <1>4, <2>0, <4>2
          <5> QED BY <5>1
        <4> QED BY <4>1, <4>2
      <3> HIDE DEF G, k
      <3>4. ms[i] = q[k]
        BY <1>4, <3>1
      <3>5. ms[i].n = s.sent - b + k /\ i \in above
        BY <1>4, <1>5, <3>1, <3>4
      <3>6. G[i] = G[i - 1] + 1
        BY ONLY <1>8, <3>1, <3>2, <3>3, <1>4
      <3> QED BY <3>2, <3>5, <3>6
    <2> QED BY <2>1, <2>2
  <1>12. G[0] = x.pay /\ G[a + b] = s.sent
    <2>1. 0 \in 0 .. a + b /\ 0 <= a /\ a + b \in 0 .. a + b
      BY <1>4
    <2>2. G[0] = x.pay
      BY <1>7, <2>1
    <2>3. CASE b = 0
      <3>1. G[a + b] = F[a].pay
        BY <1>4, <2>1, <2>3
      <3> QED BY <1>2, <1>8, <2>2, <2>3, <3>1
    <2>4. CASE b # 0
      <3>1. G[a + b] = s.sent - b + (a + b - a)
        BY <1>4, <2>1, <2>4
      <3> QED BY <1>2, <1>4, <2>2, <3>1
    <2> QED BY <2>3, <2>4
  <1> HIDE DEF G, above
  <1> DEFINE n == a + b
  <1>13. n \in Nat /\ Counts(G, above, n)
    BY <1>4, <1>9, <1>10, <1>11 DEF Counts
  <1>14. /\ G[0] <= G[n]
         /\ {G[i] : i \in above} = G[0] + 1 .. G[n]
         /\ \A i, j \in above : i < j => G[i] < G[j]
    <2> HIDE DEF n
    <2> QED BY <1>13, CountsAll
  <1>15. \A i \in above : ms[i].n = G[i]
    BY <1>10, <1>11
  <1>16. {ms[i].n : i \in above} = {G[i] : i \in above}
    BY <1>15
  <1>17. /\ x.pay <= s.sent
         /\ {ms[i].n : i \in above} = x.pay + 1 .. s.sent
         /\ \A i, j \in above : i < j => ms[i].n < ms[j].n
    BY <1>12, <1>14, <1>15, <1>16
  <1> QED BY <1>17 DEF above, ms, q

\* Between its KEXINIT and its NEWKEYS an end of ssh_packet_send2 sends nothing
\* but the messages of the exchange: what comes up meanwhile waits in the queue.
THEOREM ExchangesAreUndisturbed == Spec => []OnlyKexBetween
  <1>1. TransportInv => OnlyKexBetween
    <2> SUFFICES ASSUME TransportInv, NEW e \in Ends, NEW i \in DOMAIN wire[e],
                        NEW j \in DOMAIN wire[e], i < j, wire[e][i].type = "kexinit",
                        ~ssh_packet_type_is_kex(wire[e][j].type)
                 PROVE  \E k \in i .. j : wire[e][k].type = "newkeys"
      BY DEF OnlyKexBetween
    <2> DEFINE s == end[e]
               x == In(end[Peer(e)])
               w == wire[e]
    <2>1. Good(x, w, s) /\ s.out = <<>>
      BY DEF TransportInv, Connected, JoinedBy
    <2>2. /\ i \in DOMAIN w /\ j \in DOMAIN w /\ w[i].type = "kexinit"
          /\ ~ssh_packet_type_is_kex(w[j].type)
      OBVIOUS
    <2> HIDE DEF s, x, w
    <2>3. IsSeq(w) /\ Between(s.name, s.offer, x, w, Sender(s, OutStep(s), Sent(s), DataSent(s)))
      BY <2>1, LinkedWire DEF Good, Consistent
    <2>4. DOMAIN w = 1 .. Len(w)
      BY <2>3 DEF IsSeq
    <2>5. \E k \in i .. j : w[k].type = "newkeys"
      BY <2>2, <2>3, <2>4, ExchangeAlone
    <2> QED BY <2>5 DEF w
  <1> QED BY <1>1, AlwaysConnected, PTL

\* What an end hands to its transport arrives once and in order, however many
\* exchanges of keys hold it back in `outgoing' on the way.
THEOREM StreamsStayIntact == Spec => []StreamIntact
  <1>1. TransportInv => StreamIntact
    <2> SUFFICES ASSUME TransportInv, NEW e \in Ends
                 PROVE  LET got == end[Peer(e)].got
                            ms == wire[e] \o end[e].outgoing
                            above == {i \in DOMAIN ms : ~ssh_packet_type_is_kex(ms[i].type)}
                        IN  /\ got = [i \in 1 .. Len(got) |-> i]
                            /\ Len(got) <= end[e].sent
                            /\ {ms[i].n : i \in above} = Len(got) + 1 .. end[e].sent
                            /\ \A i, j \in above : i < j => ms[i].n < ms[j].n
      BY DEF StreamIntact
    <2> DEFINE s == end[e]
               p == end[Peer(e)]
               w == wire[e]
    <2>1. Good(In(p), w, s) /\ s.out = <<>>
      BY DEF TransportInv, Connected, JoinedBy
    <2>2. InOrder(p)
      BY PeerFacts DEF TransportInv, Connected, JoinedBy, Good, Consistent, Local
    <2> HIDE DEF s, p, w
    <2>3. In(p).pay = Len(p.got)
      BY DEF In
    <2> DEFINE x == In(p)
    <2> HIDE DEF x
    <2>4. LET ms == w \o s.outgoing
              above == {i \in DOMAIN ms : ~ssh_packet_type_is_kex(ms[i].type)}
          IN  /\ x.pay <= s.sent
              /\ {ms[i].n : i \in above} = x.pay + 1 .. s.sent
              /\ \A i, j \in above : i < j => ms[i].n < ms[j].n
      <3>1. Good(x, w, s) /\ s.out = <<>>
        BY <2>1 DEF x
      <3> QED BY ONLY <3>1, StreamOf
    <2>5. x.pay = Len(p.got)
      BY <2>3 DEF x
    <2> QED BY <2>2, <2>4, <2>5 DEF InOrder, s, p, w
  <1> QED BY <1>1, AlwaysConnected, PTL
===============================================================================
