-------------------------- MODULE Channels_proofs ---------------------------
(***************************************************************************)
(* Proofs about Channels, for any windows, packet sizes, numbers of bytes  *)
(* and faults: two ends never make each other disconnect, windows are      *)
(* accounted for, the packets keep their order, the exit status goes out   *)
(* before CLOSE, and both directions implement ByteStream.                 *)
(***************************************************************************)
EXTENDS Channels, WellFoundedInduction, TLAPS

-----------------------------------------------------------------------------
(* Types. *)

Message ==
    [type : {"open", "confirm", "failure", "data", "ext", "adjust", "eof",
             "close", "eow", "shell", "exit"},
     n : Nat]

Channel ==
    [type : {"none", "opening", "larval", "connecting", "open", "abandoned",
             "zombie", "freed"},
     istate : {"open", "drain", "closed"},
     ostate : {"open", "drain", "closed"},
     flags : SUBSET {"EOF_SENT", "EOF_RCVD", "CLOSE_SENT", "CLOSE_RCVD"},
     input : Nat, output : Nat, extended : Nat, efd : BOOLEAN,
     remote_window : Nat, local_window : Nat, local_window_max : Nat,
     local_consumed : Nat, detach : {"none", "user", "close"},
     sent : Seq(Message), read : Nat, errread : Nat, written : Nat,
     end : {"no", "eof", "cut"}, forced : BOOLEAN]

-----------------------------------------------------------------------------
(***************************************************************************)
(* The invariant.  It is stated of any two records and queues, so that it  *)
(* can be followed through the handlers that make up one action: e is the  *)
(* end that acts, c its record, o the record of the other end, w the       *)
(* packets sent by e and u those on their way to e; k is `child'.          *)
(***************************************************************************)
Live(c) == c.type \in {"open", "abandoned"}

\* A channel that has not been opened, or never was.
Fresh(c) ==
    /\ c.istate = "open" /\ c.ostate = "open" /\ c.flags = {}
    /\ c.input = 0 /\ c.output = 0 /\ c.extended = 0 /\ c.local_consumed = 0
    /\ c.read = 0 /\ c.written = 0 /\ c.end = "no" /\ c.forced = FALSE

\* What the record of one end says by itself.
Machines(c) ==
    /\ "EOF_SENT" \in c.flags => c.istate = "closed"
    /\ "CLOSE_SENT" \in c.flags =>
         c.istate = "closed" /\ c.ostate = "closed" /\ c.detach # "user"
    /\ c.end = "no" <=> c.ostate # "closed"
    /\ c.ostate = "drain" \/ c.end = "eof" =>
         "EOF_RCVD" \in c.flags \/ "CLOSE_RCVD" \in c.flags

Stages(e, c) ==
    /\ ~Live(c) => Fresh(c) \/ /\ c.type = "freed"
                               /\ {"CLOSE_SENT", "CLOSE_RCVD"} \subseteq c.flags
    /\ c.type = "abandoned" => /\ c.istate = "closed" /\ c.ostate = "closed"
                               /\ c.detach = "none" /\ c.forced
    /\ c.forced => Live(c) \/ c.type = "freed"
    /\ c.type \in {"none", "opening"} => c.remote_window = 0
    /\ c.type = "larval" => c.local_window = 0
    /\ e = "client" => c.type \notin {"larval", "connecting"}
    /\ e = "server" => c.type # "opening"

Command(e, c, k) ==
    e = "server" =>
        /\ c.detach = "close" => k = "reaped"
        /\ k = "running" => c.detach = "user" \/ c.forced
        /\ c.type = "larval" => c.detach = "user" /\ k # "running"
        /\ ~Live(c) /\ c.type # "larval" => c.detach = "none"

Room(e, c) ==
    c.local_window + c.local_consumed + c.output
        + (IF ExtWrite(e) THEN c.extended ELSE 0) <= WindowMax

Local(e, c, k) == Machines(c) /\ Stages(e, c) /\ Command(e, c, k) /\ Room(e, c)

\* One direction, from s to c with the packets w between them.
Ordered(w) ==
    \A i, j \in 1 .. Len(w) :
        i < j => /\ w[i].type # "close"
                 /\ w[i].type = "eof" => w[j].type \notin {"data", "ext", "eof"}

Flags(s, c, w) ==
    /\ "EOF_RCVD" \in c.flags =>
         /\ "EOF_SENT" \in s.flags
         /\ \A i \in 1 .. Len(w) : w[i].type \notin {"data", "ext", "eof"}
    /\ "CLOSE_RCVD" \in c.flags => "CLOSE_SENT" \in s.flags /\ w = <<>>
    /\ \A i \in 1 .. Len(w) :
         /\ w[i].type = "eof" => "EOF_SENT" \in s.flags
         /\ w[i].type = "close" => "CLOSE_SENT" \in s.flags
         /\ w[i].type = "eow" => s.ostate = "closed"

Stream(s, c, w) ==
    LET under_way == c.written + c.output + Total(w, {"data"}) + s.input
    IN  /\ under_way <= s.read
        /\ c.ostate # "closed" /\ ~s.forced =>
             under_way = s.read /\ (s.istate = "closed" => s.input = 0)

\* End of file is only ever seen behind the last byte.
Complete(s, c) == c.end = "eof" => s.forced \/ c.written = s.read

Window(s, c, w, v) ==
    c.type \in {"larval", "open", "opening", "connecting"} =>
        s.remote_window + Total(w, {"data", "ext"})
            + Total(v, {"adjust", "confirm", "open"}) <= c.local_window

Bytes(s, c, w, v) == Stream(s, c, w) /\ Complete(s, c) /\ Window(s, c, w, v)

Direction(s, c, w, v) == Ordered(w) /\ Flags(s, c, w) /\ Bytes(s, c, w, v)

\* How far the two ends have come in opening the channel: the client's
\* record cl, the server's sv, the packets to the server and to the client.
Setup == {"open", "confirm", "failure"}

Refused(c) == c.type = "zombie" \/ (c.type = "freed" /\ c.flags = {})

Opening(cl, sv, to_sv, to_cl) ==
    /\ to_sv = <<>>
    /\ \/ sv.type = "connecting" /\ kind = "forward" /\ to_cl = <<>>
       \/ sv.type = "larval" /\ kind = "session" /\ to_cl = <<Confirm(0)>>
       \/ Refused(sv) /\ to_cl = <<Failure>>
       \/ /\ Live(sv) /\ kind = "forward" /\ to_cl # <<>>
          /\ to_cl[1].type = "confirm"
          /\ \A i \in 2 .. Len(to_cl) : to_cl[i].type \notin Setup

Opened(cl, sv, to_sv, to_cl) ==
    /\ \A i \in 1 .. Len(to_sv) : to_sv[i].type \notin Setup
    /\ \A i \in 1 .. Len(to_cl) : to_cl[i].type \notin Setup
    /\ sv.type # "connecting"
    /\ sv.type = "larval" =>
         kind = "session" /\ to_sv # <<>> /\ to_sv[1].type = "shell"
    /\ Refused(sv) \/ Refused(cl) =>
         Refused(sv) /\ Refused(cl) /\ to_sv = <<>> /\ to_cl = <<>>

Handshake(cl, sv, to_sv, to_cl) ==
    \/ cl.type = "none" /\ sv.type = "none" /\ to_sv = <<>> /\ to_cl = <<>>
    \/ /\ cl.type = "opening" /\ sv.type = "none"
       /\ to_sv = <<Open(WindowMax)>> /\ to_cl = <<>>
    \/ /\ cl.type = "opening" /\ sv.type # "none"
       /\ Opening(cl, sv, to_sv, to_cl)
    \/ /\ cl.type \notin {"none", "opening"} /\ sv.type # "none"
       /\ Opened(cl, sv, to_sv, to_cl)

Shake(e, c, o, w, u) ==
    IF e = "client" THEN Handshake(c, o, w, u) ELSE Handshake(o, c, u, w)

System(e, c, o, w, u, k) ==
    /\ Local(e, c, k) /\ Local(Peer(e), o, k)
    /\ Direction(c, o, w, u) /\ Direction(o, c, u, w)
    /\ Shake(e, c, o, w, u)

TypeOK ==
    /\ kind \in {"session", "forward"}
    /\ ch \in [Ends -> Channel]
    /\ wire \in [Ends -> Seq(Message)]
    /\ child \in {"none", "running", "reaped"}
    /\ \A e \in Ends : ch[e].sent = <<>>

Inv ==
    /\ TypeOK
    /\ ~broken
    /\ \A e \in Ends : ch[e].type = "open" => ~ch[e].forced
    /\ System("client", ch["client"], ch["server"],
              wire["server"], wire["client"], child)

-----------------------------------------------------------------------------
(* Induction over the natural numbers, and what Total computes. *)

LEMMA LeastOf ==
    ASSUME NEW R, NEW T, IsWellFoundedOn(R, Nat), T \subseteq Nat, T # {},
           \A x, y \in Nat : x < y => <<x, y>> \in R
    PROVE  \E n \in T : \A m \in T : n <= m
<1>1. \E x \in T : \A y \in T : ~(<<y, x>> \in R)
  BY ONLY WFMin, IsWellFoundedOn(R, Nat), T \subseteq Nat, T # {}
<1>2. PICK x \in T : \A y \in T : ~(<<y, x>> \in R)
  BY <1>1
<1>3. \A y \in T : ~(y < x)
  BY <1>2, Zenon
<1> QED BY <1>3

LEMMA NatInd ==
    ASSUME NEW S, 0 \in S, \A n \in Nat : n \in S => n + 1 \in S
    PROVE  Nat \subseteq S
<1> DEFINE T == Nat \ S
<1> SUFFICES ASSUME T # {} PROVE FALSE
  OBVIOUS
<1>1. PICK n \in T : \A m \in T : n <= m
  <2>1. \A x, y \in Nat : x < y => <<x, y>> \in OpToRel(<, Nat)
    BY DEF OpToRel
  <2>2. T \subseteq Nat
    BY DEF T
  <2> HIDE DEF T
  <2> QED BY <2>1, <2>2, LeastOf, NatLessThanWellFounded, Zenon
<1>2. n # 0 /\ n - 1 \in Nat /\ n - 1 \notin T
  BY <1>1
<1> QED BY <1>1, <1>2

Weight(m, types) == IF m.type \in types THEN m.n ELSE 0

\* f[i] is the sum over the first i packets of w.
Counts(f, w, types) ==
    /\ f \in [0 .. Len(w) -> Nat]
    /\ f[0] = 0
    /\ \A i \in 1 .. Len(w) : f[i] = f[i - 1] + Weight(w[i], types)

LEMMA WeightType ==
    ASSUME NEW m \in Message, NEW types
    PROVE  Weight(m, types) \in Nat
BY DEF Weight, Message

LEMMA CountsExist ==
    ASSUME NEW w \in Seq(Message), NEW types
    PROVE  \E f : Counts(f, w, types)
<1> DEFINE Part(g, n) == /\ g \in [0 .. n -> Nat]
                         /\ g[0] = 0
                         /\ \A i \in 1 .. n : g[i] = g[i - 1] + Weight(w[i], types)
           S == {n \in Nat : n <= Len(w) => \E g : Part(g, n)}
<1> Len(w) \in Nat
  OBVIOUS
<1>1. 0 \in S
  <2> DEFINE z == [i \in 0 .. 0 |-> 0]
  <2>1. z \in [0 .. 0 -> Nat] /\ z[0] = 0
    <3>1. 0 \in Nat /\ 0 \in 0 .. 0
      OBVIOUS
    <3> QED BY <3>1, Zenon
  <2>2. Part(z, 0)
    <3> HIDE DEF z
    <3> QED BY <2>1
  <2> HIDE DEF z, Part
  <2> QED BY <2>2
<1>2. ASSUME NEW n \in Nat, n \in S PROVE n + 1 \in S
  <2> HIDE DEF Part
  <2> SUFFICES ASSUME n + 1 <= Len(w) PROVE \E g : Part(g, n + 1)
    OBVIOUS
  <2>1. PICK g : Part(g, n)
    BY <1>2
  <2> USE DEF Part
  <2>2. Weight(w[n + 1], types) \in Nat
    BY WeightType
  <2> DEFINE h == [i \in 0 .. n + 1 |->
                     IF i = n + 1 THEN g[n] + Weight(w[n + 1], types) ELSE g[i]]
  <2>3. h \in [0 .. n + 1 -> Nat] /\ h[0] = 0
    BY <2>1, <2>2
  <2>4. ASSUME NEW i \in 1 .. n + 1 PROVE h[i] = h[i - 1] + Weight(w[i], types)
    <3>1. CASE i = n + 1
      BY <3>1
    <3>2. CASE i # n + 1
      <4>1. i \in 1 .. n /\ i - 1 \in 0 .. n
        BY <3>2
      <4>2. h[i] = g[i] /\ h[i - 1] = g[i - 1]
        BY <4>1
      <4> QED BY <2>1, <4>1, <4>2
    <3> QED BY <3>1, <3>2
  <2>5. Part(h, n + 1)
    BY <2>3, <2>4
  <2> HIDE DEF h, Part
  <2> QED BY <2>5
<1>3. Len(w) \in S
  <2> HIDE DEF S
  <2> QED BY <1>1, <1>2, NatInd
<1> QED BY <1>3 DEF Counts

LEMMA TotalCounts ==
    ASSUME NEW w \in Seq(Message), NEW types
    PROVE  \E f : Counts(f, w, types) /\ Total(w, types) = f[Len(w)]
<1> DEFINE D(f) == [i \in 0 .. Len(w) |->
                      IF i = 0 THEN 0
                      ELSE f[i - 1] + (IF w[i].type \in types THEN w[i].n ELSE 0)]
           sum == CHOOSE f : f = D(f)
<1> Len(w) \in Nat
  OBVIOUS
<1>1. Total(w, types) = sum[Len(w)]
  BY DEF Total
<1>2. PICK g : Counts(g, w, types)
  BY CountsExist
<1>3. g = D(g)
  <2>1. g = [i \in 0 .. Len(w) |-> g[i]]
    BY <1>2 DEF Counts
  <2>2. ASSUME NEW i \in 0 .. Len(w)
        PROVE  g[i] = D(g)[i]
    BY <1>2 DEF Counts, Weight
  <2>3. D(g) = [i \in 0 .. Len(w) |-> D(g)[i]]
    OBVIOUS
  <2> HIDE DEF D
  <2> QED BY <2>1, <2>2, <2>3
<1>4. sum = D(sum)
  <2> HIDE DEF D
  <2> QED BY <1>3
<1> HIDE DEF sum
<1>5. sum[0] = 0
  BY <1>4
<1>6. \A i \in 1 .. Len(w) : sum[i] = sum[i - 1] + Weight(w[i], types)
  BY <1>4 DEF Weight
<1> DEFINE S == {n \in Nat : n <= Len(w) => sum[n] \in Nat}
<1>7. 0 \in S
  BY <1>5
<1>8. ASSUME NEW n \in Nat, n \in S PROVE n + 1 \in S
  <2> SUFFICES ASSUME n + 1 <= Len(w) PROVE sum[n + 1] \in Nat
    OBVIOUS
  <2>1. sum[n] \in Nat /\ Weight(w[n + 1], types) \in Nat
    BY <1>8, WeightType
  <2>2. sum[n + 1] = sum[n] + Weight(w[n + 1], types)
    BY <1>6
  <2> QED BY <2>1, <2>2
<1>9. Nat \subseteq S
  <2> HIDE DEF S
  <2> QED BY <1>7, <1>8, NatInd
<1>10. sum \in [0 .. Len(w) -> Nat]
  <2>1. \A i \in 0 .. Len(w) : sum[i] \in Nat
    BY <1>9
  <2>2. sum = [i \in 0 .. Len(w) |-> sum[i]]
    <3>1. D(sum) = [i \in 0 .. Len(w) |-> D(sum)[i]]
      OBVIOUS
    <3> HIDE DEF D
    <3> QED BY <1>4, <3>1
  <2> QED BY <2>1, <2>2
<1> QED BY <1>1, <1>5, <1>6, <1>10 DEF Counts

\* Two ways of counting that agree about the packets they have in common,
\* the second after `before' others, differ by what precedes.
Agree(f, w, g, v, before) ==
    \A n \in Nat :
        /\ n <= Len(w) /\ before + n <= Len(v)
        /\ \A i \in 1 .. n : w[i] = v[before + i]
        => g[before + n] = g[before] + f[n]

LEMMA CountsAgree ==
    ASSUME NEW w \in Seq(Message), NEW v \in Seq(Message), NEW types,
           NEW before \in Nat, NEW f, NEW g,
           Counts(f, w, types), Counts(g, v, types)
    PROVE  Agree(f, w, g, v, before)
<1> SUFFICES ASSUME NEW n \in Nat, n <= Len(w), before + n <= Len(v),
                    \A i \in 1 .. n : w[i] = v[before + i]
             PROVE  g[before + n] = g[before] + f[n]
  BY DEF Agree
<1> DEFINE S == {k \in Nat : k <= n => g[before + k] = g[before] + f[k]}
<1> Len(w) \in Nat /\ Len(v) \in Nat
  OBVIOUS
<1>0. /\ f \in [0 .. Len(w) -> Nat] /\ g \in [0 .. Len(v) -> Nat] /\ f[0] = 0
      /\ \A i \in 1 .. Len(w) : f[i] = f[i - 1] + Weight(w[i], types)
      /\ \A i \in 1 .. Len(v) : g[i] = g[i - 1] + Weight(v[i], types)
  BY DEF Counts
<1>1. 0 \in S
  <2>1. before + 0 = before /\ before \in 0 .. Len(v)
    OBVIOUS
  <2>2. g[before] \in Nat
    BY <1>0, <2>1
  <2> QED BY <1>0, <2>1, <2>2
<1>2. ASSUME NEW k \in Nat, k \in S PROVE k + 1 \in S
  <2> SUFFICES ASSUME k + 1 <= n
               PROVE  g[before + (k + 1)] = g[before] + f[k + 1]
    OBVIOUS
  <2>1. g[before + k] = g[before] + f[k]
    BY <1>2
  <2>2. k + 1 \in 1 .. Len(w) /\ before + (k + 1) \in 1 .. Len(v)
        /\ k + 1 \in 1 .. n
    OBVIOUS
  <2>3. f[k + 1] = f[(k + 1) - 1] + Weight(w[k + 1], types)
    BY <1>0, <2>2
  <2>4. g[before + (k + 1)] = g[(before + (k + 1)) - 1] + Weight(v[before + (k + 1)], types)
    BY <1>0, <2>2
  <2>5. (k + 1) - 1 = k /\ (before + (k + 1)) - 1 = before + k
    OBVIOUS
  <2>6. w[k + 1] = v[before + (k + 1)] /\ w[k + 1] \in Message
    BY <2>2
  <2>7. Weight(w[k + 1], types) \in Nat
    BY <2>6, WeightType
  <2>8. f[k] \in Nat /\ g[before] \in Nat
    <3>1. k \in 0 .. Len(w) /\ before \in 0 .. Len(v)
      OBVIOUS
    <3> QED BY <1>0, <3>1
  <2> QED BY <2>1, <2>3, <2>4, <2>5, <2>6, <2>7, <2>8
<1>3. Nat \subseteq S
  <2> HIDE DEF S
  <2> QED BY <1>1, <1>2, NatInd
<1> QED BY <1>3

LEMMA TotalType ==
    ASSUME NEW w \in Seq(Message), NEW types
    PROVE  Total(w, types) \in Nat
<1>1. PICK f : Counts(f, w, types) /\ Total(w, types) = f[Len(w)]
  BY TotalCounts
<1> Len(w) \in Nat
  OBVIOUS
<1> QED BY <1>1 DEF Counts

LEMMA TotalEmpty ==
    ASSUME NEW types
    PROVE  Total(<<>>, types) = 0
<1>1. <<>> \in Seq(Message) /\ Len(<<>>) = 0
  OBVIOUS
<1>2. PICK f : Counts(f, <<>>, types) /\ Total(<<>>, types) = f[Len(<<>>)]
  BY <1>1, TotalCounts
<1> QED BY <1>1, <1>2 DEF Counts

LEMMA TotalAppend ==
    ASSUME NEW w \in Seq(Message), NEW m \in Message, NEW types
    PROVE  Total(Append(w, m), types) = Total(w, types) + Weight(m, types)
<1> SUFFICES ASSUME NEW v, v = Append(w, m)
             PROVE  Total(v, types) = Total(w, types) + Weight(m, types)
  OBVIOUS
<1>1. v \in Seq(Message) /\ Len(v) = Len(w) + 1 /\ Len(w) \in Nat
      /\ v[Len(w) + 1] = m /\ \A i \in 1 .. Len(w) : w[i] = v[i]
  OBVIOUS
<1>2. PICK f : Counts(f, w, types) /\ Total(w, types) = f[Len(w)]
  BY TotalCounts
<1>3. PICK g : Counts(g, v, types) /\ Total(v, types) = g[Len(v)]
  BY <1>1, TotalCounts
<1>4. g[0 + Len(w)] = g[0] + f[Len(w)]
  <2>1. \A i \in 1 .. Len(w) : w[i] = v[0 + i]
    BY <1>1
  <2>2. Len(w) <= Len(w) /\ 0 + Len(w) <= Len(v) /\ 0 \in Nat
    BY <1>1
  <2>3. Agree(f, w, g, v, 0)
    <3>1. w \in Seq(Message) /\ v \in Seq(Message) /\ 0 \in Nat
      BY <1>1
    <3>2. Counts(f, w, types) /\ Counts(g, v, types)
      BY <1>2, <1>3
    <3> QED BY <3>1, <3>2, CountsAgree
  <2> QED BY <1>1, <2>1, <2>2, <2>3 DEF Agree
<1>5. g[Len(w) + 1] = g[Len(w)] + Weight(m, types) /\ g[0] = 0
  <2>1. Len(w) + 1 \in 1 .. Len(v) /\ (Len(w) + 1) - 1 = Len(w)
    BY <1>1
  <2> QED BY <1>1, <1>3, <2>1 DEF Counts
<1>6. f[Len(w)] \in Nat
  BY <1>1, <1>2 DEF Counts
<1>7. Weight(m, types) \in Nat
  BY WeightType
<1>8. 0 + Len(w) = Len(w)
  BY <1>1
<1> QED BY <1>1, <1>2, <1>3, <1>4, <1>5, <1>6, <1>7, <1>8

LEMMA TotalTail ==
    ASSUME NEW v \in Seq(Message), v # <<>>, NEW types
    PROVE  Total(v, types) = Weight(Head(v), types) + Total(Tail(v), types)
<1> SUFFICES ASSUME NEW w, w = Tail(v)
             PROVE  Total(v, types) = Weight(Head(v), types) + Total(w, types)
  OBVIOUS
<1>1. w \in Seq(Message) /\ Len(v) = 1 + Len(w) /\ Len(w) \in Nat
      /\ v[1] = Head(v) /\ v[1] \in Message /\ \A i \in 1 .. Len(w) : w[i] = v[1 + i]
  OBVIOUS
<1>2. PICK f : Counts(f, w, types) /\ Total(w, types) = f[Len(w)]
  BY <1>1, TotalCounts
<1>3. PICK g : Counts(g, v, types) /\ Total(v, types) = g[Len(v)]
  BY TotalCounts
<1>4. g[1 + Len(w)] = g[1] + f[Len(w)]
  <2>1. Len(w) <= Len(w) /\ 1 + Len(w) <= Len(v) /\ 1 \in Nat
    BY <1>1
  <2>3. Agree(f, w, g, v, 1)
    <3>1. w \in Seq(Message) /\ v \in Seq(Message) /\ 1 \in Nat
      BY <1>1
    <3>2. Counts(f, w, types) /\ Counts(g, v, types)
      BY <1>2, <1>3
    <3> QED BY <3>1, <3>2, CountsAgree
  <2> QED BY <1>1, <2>1, <2>3 DEF Agree
<1>5. g[1] = g[0] + Weight(Head(v), types) /\ g[0] = 0
  <2>1. 1 \in 1 .. Len(v) /\ 1 - 1 = 0
    BY <1>1
  <2> QED BY <1>1, <1>3, <2>1 DEF Counts
<1>6. Weight(Head(v), types) \in Nat
  BY <1>1, WeightType
<1> QED BY <1>1, <1>2, <1>3, <1>4, <1>5, <1>6

\* Nothing is counted where no packet is of the types counted.
LEMMA TotalNone ==
    ASSUME NEW w \in Seq(Message), NEW types,
           \A i \in 1 .. Len(w) : w[i].type \notin types
    PROVE  Total(w, types) = 0
<1>1. PICK f : Counts(f, w, types) /\ Total(w, types) = f[Len(w)]
  BY TotalCounts
<1> DEFINE S == {n \in Nat : n <= Len(w) => f[n] = 0}
<1> Len(w) \in Nat
  OBVIOUS
<1>2. 0 \in S
  BY <1>1 DEF Counts
<1>3. ASSUME NEW n \in Nat, n \in S PROVE n + 1 \in S
  <2> SUFFICES ASSUME n + 1 <= Len(w) PROVE f[n + 1] = 0
    OBVIOUS
  <2>1. n + 1 \in 1 .. Len(w) /\ (n + 1) - 1 = n
    OBVIOUS
  <2>2. f[n + 1] = f[n] + Weight(w[n + 1], types)
    BY <1>1, <2>1 DEF Counts
  <2> QED BY <1>3, <2>1, <2>2 DEF Weight
<1>4. Nat \subseteq S
  <2> HIDE DEF S
  <2> QED BY <1>2, <1>3, NatInd
<1> QED BY <1>1, <1>4

-----------------------------------------------------------------------------
(***************************************************************************)
(* One handler at a time.  In the middle of an action the packets in       *)
(* c.sent are as good as sent.                                             *)
(***************************************************************************)
Typed(e, c, o, w, u, k) ==
    /\ e \in Ends /\ kind \in {"session", "forward"}
    /\ c \in Channel /\ o \in Channel
    /\ w \in Seq(Message) /\ u \in Seq(Message)
    /\ k \in {"none", "running", "reaped"}

Good(e, c, o, w, u, k) ==
    Typed(e, c, o, w, u, k) /\ System(e, c, o, w \o c.sent, u, k)

\* What a handler has to show for itself, at the end e.
Part(e, d, o, w, u, k) ==
    /\ Local(e, d, k)
    /\ Bytes(d, o, w, u) /\ Bytes(o, d, u, w)

\* A handler that sends nothing.
LEMMA Quiet ==
    ASSUME NEW e, NEW c, NEW o, NEW w, NEW u, NEW k, Good(e, c, o, w, u, k),
           NEW d \in Channel, Live(c), Live(d), d.sent = c.sent,
           d.flags = c.flags, c.ostate = "closed" => d.ostate = "closed",
           Part(e, d, o, w \o c.sent, u, k)
    PROVE  Good(e, d, o, w, u, k)
<1> DEFINE q == w \o c.sent
<1>1. Typed(e, c, o, w, u, k) /\ System(e, c, o, q, u, k)
  BY DEF Good
<1>2. Part(e, d, o, q, u, k)
  OBVIOUS
<1> HIDE DEF q
<1>3. Flags(d, o, q) /\ Flags(o, d, u)
  BY <1>1 DEF System, Direction, Flags
<1>4. Shake(e, d, o, q, u)
  BY <1>1 DEF System, Shake, Handshake, Opening, Opened, Live, Refused
<1>5. System(e, d, o, q, u, k)
  BY <1>1, <1>2, <1>3, <1>4 DEF System, Direction, Part
<1>6. Typed(e, d, o, w, u, k)
  BY <1>1 DEF Typed
<1> QED BY <1>5, <1>6 DEF Good, q

Marks(m) ==
    CASE m.type = "eof" -> {"EOF_SENT"}
      [] m.type = "close" -> {"CLOSE_SENT"}
      [] OTHER -> {}

LEMMA ConcatAppend ==
    ASSUME NEW w \in Seq(Message), NEW s \in Seq(Message), NEW m \in Message
    PROVE  w \o Append(s, m) = Append(w \o s, m) /\ w \o s \in Seq(Message)
<1> DEFINE a == w \o Append(s, m)
           b == Append(w \o s, m)
<1>1. a \in Seq(Message) /\ b \in Seq(Message) /\ Len(a) = Len(b)
  OBVIOUS
<1>2. ASSUME NEW i \in 1 .. Len(a) PROVE a[i] = b[i]
  <2>1. i \in Nat /\ Len(w) \in Nat /\ Len(s) \in Nat
        /\ Len(a) = Len(w) + Len(s) + 1 /\ Len(w \o s) = Len(w) + Len(s)
    OBVIOUS
  <2>2. CASE i <= Len(w)
    BY <2>1, <2>2
  <2>3. CASE i > Len(w) /\ i <= Len(w) + Len(s)
    BY <2>1, <2>3
  <2>4. CASE i = Len(w) + Len(s) + 1
    BY <2>1, <2>4
  <2> QED BY <2>1, <2>2, <2>3, <2>4
<1> QED BY <1>1, <1>2

LEMMA Longer ==
    ASSUME NEW w \in Seq(Message), NEW m \in Message, NEW v, v = Append(w, m)
    PROVE  /\ v \in Seq(Message) /\ Len(v) = Len(w) + 1 /\ Len(w) \in Nat
           /\ v # <<>> /\ v[Len(v)] = m
           /\ \A i \in 1 .. Len(w) : v[i] = w[i]
           /\ \A i \in 1 .. Len(v) : i \in 1 .. Len(w) \/ i = Len(v)
OBVIOUS

\* A handler that sends m.
LEMMA Sending ==
    ASSUME NEW e, NEW c, NEW o, NEW w, NEW u, NEW k, Good(e, c, o, w, u, k),
           NEW m \in Message, m.type \notin Setup,
           NEW d \in Channel, Live(c), Live(d), d.sent = Append(c.sent, m),
           d.flags = c.flags \cup Marks(m), "CLOSE_SENT" \notin c.flags,
           m.type \in {"data", "ext", "eof"} => "EOF_SENT" \notin c.flags,
           m.type = "eow" \/ c.ostate = "closed" => d.ostate = "closed",
           Part(e, d, o, Append(w \o c.sent, m), u, k)
    PROVE  Good(e, d, o, w, u, k)
<1>0. Typed(e, c, o, w, u, k) /\ System(e, c, o, w \o c.sent, u, k)
  BY DEF Good
<1> DEFINE q == w \o c.sent
           v == Append(q, m)
<1>1. q \in Seq(Message) /\ w \o d.sent = v
  <2>1. w \in Seq(Message) /\ c.sent \in Seq(Message)
    BY <1>0 DEF Typed, Channel
  <2> QED BY <2>1, ConcatAppend
<1>2. Part(e, d, o, v, u, k) /\ System(e, c, o, q, u, k)
  BY <1>0
<1> HIDE DEF q
<1>3. /\ v \in Seq(Message) /\ Len(v) = Len(q) + 1 /\ Len(q) \in Nat
      /\ v # <<>> /\ v[Len(v)] = m
      /\ \A i \in 1 .. Len(q) : v[i] = q[i]
      /\ \A i \in 1 .. Len(v) : i \in 1 .. Len(q) \/ i = Len(v)
  BY <1>1, Longer
<1> HIDE DEF v
<1>4. /\ Ordered(q) /\ Flags(c, o, q)
      /\ \A i \in 1 .. Len(q) : q[i].type # "close"
      /\ "EOF_SENT" \notin c.flags => \A i \in 1 .. Len(q) : q[i].type # "eof"
  BY <1>2 DEF System, Direction, Flags
<1>5. Ordered(v)
  <2> SUFFICES ASSUME NEW i \in 1 .. Len(v), NEW j \in 1 .. Len(v), i < j
               PROVE  /\ v[i].type # "close"
                      /\ v[i].type = "eof" => v[j].type \notin {"data", "ext", "eof"}
    BY DEF Ordered
  <2>1. i \in 1 .. Len(q) /\ v[i] = q[i]
    BY <1>3
  <2>2. CASE j \in 1 .. Len(q)
    BY <1>3, <1>4, <2>1, <2>2 DEF Ordered
  <2>3. CASE j = Len(v)
    BY <1>3, <1>4, <2>1, <2>3
  <2> QED BY <1>3, <2>2, <2>3
<1>6. Flags(d, o, v)
  <2>1. /\ c.flags \subseteq d.flags
        /\ m.type = "eof" => "EOF_SENT" \in d.flags
    BY DEF Marks
  <2>2. m.type = "close" => "CLOSE_SENT" \in d.flags
    BY DEF Marks
  <2>3. "CLOSE_RCVD" \notin o.flags
    BY <1>4 DEF Flags
  <2>4. "EOF_RCVD" \in o.flags => m.type \notin {"data", "ext", "eof"}
    BY <1>4 DEF Flags
  <2>5. ASSUME NEW i \in 1 .. Len(v)
        PROVE  /\ v[i].type = "eof" => "EOF_SENT" \in d.flags
               /\ v[i].type = "close" => "CLOSE_SENT" \in d.flags
               /\ v[i].type = "eow" => d.ostate = "closed"
    <3>1. CASE i \in 1 .. Len(q)
      BY <1>3, <1>4, <2>1, <3>1 DEF Flags
    <3>2. CASE i = Len(v)
      BY <1>3, <2>1, <2>2, <3>2
    <3> QED BY <1>3, <3>1, <3>2
  <2>6. "EOF_RCVD" \in o.flags =>
          /\ "EOF_SENT" \in d.flags
          /\ \A i \in 1 .. Len(v) : v[i].type \notin {"data", "ext", "eof"}
    BY <1>3, <1>4, <2>1, <2>4 DEF Flags
  <2> QED BY <2>3, <2>5, <2>6 DEF Flags
<1>7. Flags(o, d, u)
  <2>1. \A f \in {"EOF_RCVD", "CLOSE_RCVD"} : f \in d.flags => f \in c.flags
    BY DEF Marks
  <2> QED BY <1>2, <2>1 DEF System, Direction, Flags
<1>8. Shake(e, d, o, v, u)
  <2>1. \A i \in 1 .. Len(q) : i \in 1 .. Len(v) /\ v[i] = q[i]
    BY <1>3
  <2>2. /\ (\A i \in 1 .. Len(q) : q[i].type \notin Setup)
           => (\A i \in 1 .. Len(v) : v[i].type \notin Setup)
        /\ (\A i \in 2 .. Len(q) : q[i].type \notin Setup)
           => (\A i \in 2 .. Len(v) : v[i].type \notin Setup)
        /\ q # <<>> => v[1] = q[1]
    BY <1>1, <1>3
  <2>3. ~Refused(c) /\ ~Refused(d)
    BY DEF Live, Refused
  <2>4. CASE e = "client"
    <3>1. Handshake(c, o, q, u)
      BY <1>2, <2>4 DEF System, Shake
    <3>2. o.type # "none" /\ Opened(c, o, q, u)
      BY <3>1 DEF Handshake, Live
    <3>3. Opened(d, o, v, u)
      BY <1>3, <2>2, <2>3, <3>2 DEF Opened
    <3> QED BY <2>4, <3>2, <3>3 DEF Shake, Handshake, Live
  <2>5. CASE e # "client"
    <3>1. Handshake(o, c, u, q)
      BY <1>2, <2>5 DEF System, Shake
    <3>2. CASE o.type = "opening"
      <4>1. Opening(o, c, u, q)
        BY <3>1, <3>2 DEF Handshake, Live
      <4>2. Opening(o, d, u, v)
        BY <1>3, <2>2, <2>3, <4>1 DEF Opening, Live
      <4> QED BY <2>5, <3>2, <4>2 DEF Shake, Handshake, Live
    <3>3. CASE o.type # "opening"
      <4>1. Opened(o, c, u, q) /\ o.type # "none"
        BY <3>1, <3>3 DEF Handshake, Live
      <4>2. Opened(o, d, u, v)
        BY <1>3, <2>2, <2>3, <4>1 DEF Opened, Live
      <4> QED BY <2>5, <3>3, <4>1, <4>2 DEF Shake, Handshake, Live
    <3> QED BY <3>2, <3>3
  <2> QED BY <2>4, <2>5
<1>9. System(e, d, o, v, u, k)
  BY <1>2, <1>5, <1>6, <1>7, <1>8 DEF System, Direction, Part
<1>10. Typed(e, d, o, w, u, k)
  BY <1>0 DEF Typed
<1> QED BY <1>1, <1>9, <1>10 DEF Good

-----------------------------------------------------------------------------
(* The handlers of nchan.c. *)

SameMachine(c, d) ==
    /\ d.type = c.type /\ d.istate = c.istate /\ d.ostate = c.ostate
    /\ d.flags = c.flags /\ d.detach = c.detach

SameBuffers(c, d) ==
    d.input = c.input /\ d.output = c.output /\ d.extended = c.extended

SameWindows(c, d) ==
    /\ d.remote_window = c.remote_window /\ d.local_window = c.local_window
    /\ d.local_consumed = c.local_consumed

\* What the local program has seen.
Seen(c, d) ==
    /\ d.read = c.read /\ d.written = c.written
    /\ d.end = c.end /\ d.forced = c.forced

LEMMA Numbers ==
    ASSUME NEW c \in Channel
    PROVE  /\ c.input \in Nat /\ c.output \in Nat /\ c.extended \in Nat
           /\ c.remote_window \in Nat /\ c.local_window \in Nat
           /\ c.local_consumed \in Nat /\ c.read \in Nat /\ c.written \in Nat
BY DEF Channel

LEMMA GoodFacts ==
    ASSUME NEW e, NEW c, NEW o, NEW w, NEW u, NEW k, Good(e, c, o, w, u, k)
    PROVE  /\ e \in Ends /\ c \in Channel /\ o \in Channel
           /\ w \in Seq(Message) /\ u \in Seq(Message) /\ w \o c.sent \in Seq(Message)
           /\ Local(e, c, k) /\ Local(Peer(e), o, k)
           /\ Bytes(c, o, w \o c.sent, u) /\ Bytes(o, c, u, w \o c.sent)
           /\ Flags(c, o, w \o c.sent) /\ Flags(o, c, u)
<1>1. c.sent \in Seq(Message) /\ w \in Seq(Message)
  BY DEF Good, Typed, Channel
<1>2. w \o c.sent \in Seq(Message)
  BY <1>1
<1> QED BY <1>2 DEF Good, Typed, System, Direction

LEMMA Totals ==
    ASSUME NEW w \in Seq(Message)
    PROVE  /\ Total(w, {"data"}) \in Nat
           /\ Total(w, {"data", "ext"}) \in Nat
           /\ Total(w, {"adjust", "confirm", "open"}) \in Nat
BY TotalType

LEMMA TotalsAppend ==
    ASSUME NEW w \in Seq(Message), NEW m \in Message, NEW v, v = Append(w, m)
    PROVE  /\ Total(v, {"data"}) =
                Total(w, {"data"}) + (IF m.type = "data" THEN m.n ELSE 0)
           /\ Total(v, {"data", "ext"}) =
                Total(w, {"data", "ext"})
                  + (IF m.type \in {"data", "ext"} THEN m.n ELSE 0)
           /\ Total(v, {"adjust", "confirm", "open"}) =
                Total(w, {"adjust", "confirm", "open"})
                  + (IF m.type \in {"adjust", "confirm", "open"} THEN m.n ELSE 0)
BY TotalAppend DEF Weight

\* The messages that carry neither bytes nor window.
LEMMA TotalsControl ==
    ASSUME NEW w \in Seq(Message), NEW m \in Message, NEW v, v = Append(w, m),
           m.type \in {"eof", "close", "eow", "shell", "exit", "failure"}
    PROVE  /\ Total(v, {"data"}) = Total(w, {"data"})
           /\ Total(v, {"data", "ext"}) = Total(w, {"data", "ext"})
           /\ Total(v, {"adjust", "confirm", "open"}) =
                Total(w, {"adjust", "confirm", "open"})
<1>1. /\ Total(v, {"data"}) = Total(w, {"data"}) + 0
      /\ Total(v, {"data", "ext"}) = Total(w, {"data", "ext"}) + 0
      /\ Total(v, {"adjust", "confirm", "open"}) =
           Total(w, {"adjust", "confirm", "open"}) + 0
  BY TotalsAppend
<1> QED BY <1>1, Totals

LEMMA ReadFailed ==
    ASSUME NEW e, NEW c, NEW o, NEW w, NEW u, NEW k, Good(e, c, o, w, u, k),
           Live(c), NEW d, d = chan_read_failed(c)
    PROVE  /\ Good(e, d, o, w, u, k) /\ Seen(c, d)
           /\ d.type = c.type /\ d.ostate = c.ostate /\ d.flags = c.flags
           /\ d.detach = c.detach
           /\ d.istate = IF c.istate = "open" THEN "drain" ELSE c.istate
<1>0. c \in Channel /\ Local(e, c, k)
  BY GoodFacts
<1>1. CASE c.istate # "open"
  BY <1>0, <1>1 DEF chan_read_failed, Seen
<1>2. CASE c.istate = "open"
  <2>1. d = [c EXCEPT !.istate = "drain"]
    BY <1>2 DEF chan_read_failed
  <2>2. /\ d \in Channel /\ d.istate = "drain" /\ d.sent = c.sent /\ d.type = c.type
        /\ d.ostate = c.ostate /\ d.flags = c.flags /\ d.detach = c.detach
        /\ SameBuffers(c, d) /\ SameWindows(c, d) /\ Seen(c, d)
    BY <1>0, <2>1 DEF Channel, SameBuffers, SameWindows, Seen
  <2>3. Local(e, d, k)
    BY <1>0, <1>2, <2>2 DEF Local, Machines, Stages, Command, Room, Live, Fresh,
       SameBuffers, SameWindows, Seen
  <2>4. Bytes(d, o, w \o c.sent, u) /\ Bytes(o, d, u, w \o c.sent)
    BY <1>2, <2>2, GoodFacts DEF Bytes, Stream, Complete, Window, SameBuffers, SameWindows, Seen
  <2> QED BY <1>2, <2>2, <2>3, <2>4, Quiet DEF Part, Live
<1> QED BY <1>1, <1>2

LEMMA IbufEmpty ==
    ASSUME NEW e, NEW c, NEW o, NEW w, NEW u, NEW k, Good(e, c, o, w, u, k),
           Live(c), NEW d, d = chan_ibuf_empty(c)
    PROVE  /\ Good(e, d, o, w, u, k) /\ Seen(c, d)
           /\ d.type = c.type /\ d.ostate = c.ostate /\ d.detach = c.detach
           /\ d.istate = IF c.input = 0 /\ c.istate = "drain" THEN "closed" ELSE c.istate
<1>0. c \in Channel /\ Local(e, c, k)
  BY GoodFacts
<1>1. CASE ~(c.input = 0 /\ c.istate = "drain")
  BY <1>0, <1>1 DEF chan_ibuf_empty, Seen
<1>2. CASE c.input = 0 /\ c.istate = "drain"
  <2>0. "CLOSE_SENT" \notin c.flags /\ "EOF_SENT" \notin c.flags
    BY <1>0, <1>2 DEF Local, Machines
  <2>1. d = [c EXCEPT !.sent = Append(@, Eof), !.flags = @ \cup {"EOF_SENT"},
                      !.istate = "closed"]
    BY <1>0, <1>2, <2>0 DEF chan_ibuf_empty, chan_send_eof2, Send, Channel
  <2>2. Eof \in Message /\ Eof.type = "eof" /\ Marks(Eof) = {"EOF_SENT"}
    BY DEF Eof, Message, Marks
  <2>3. /\ d \in Channel /\ d.istate = "closed" /\ d.sent = Append(c.sent, Eof)
        /\ d.type = c.type /\ d.ostate = c.ostate /\ d.flags = c.flags \cup {"EOF_SENT"}
        /\ d.detach = c.detach
        /\ SameBuffers(c, d) /\ SameWindows(c, d) /\ Seen(c, d)
    <3>1. Append(c.sent, Eof) \in Seq(Message)
      BY <1>0, <2>2 DEF Channel
    <3>2. c.flags \cup {"EOF_SENT"}
            \in SUBSET {"EOF_SENT", "EOF_RCVD", "CLOSE_SENT", "CLOSE_RCVD"}
      BY <1>0 DEF Channel
    <3>3. d \in Channel
      <4>1. c \in Channel
        BY <1>0
      <4>2. d = [c EXCEPT !.sent = Append(c.sent, Eof),
                          !.flags = c.flags \cup {"EOF_SENT"}, !.istate = "closed"]
        BY <2>1
      <4> QED BY ONLY <3>1, <3>2, <4>1, <4>2 DEF Channel
    <3> QED BY <1>0, <2>1, <3>3 DEF Channel, SameBuffers, SameWindows, Seen
  <2>4. Local(e, d, k)
    BY <1>0, <1>2, <2>0, <2>3 DEF Local, Machines, Stages, Command, Room, Live, Fresh,
       SameBuffers, SameWindows, Seen
  <2> DEFINE v == Append(w \o c.sent, Eof)
  <2>5. Bytes(d, o, v, u) /\ Bytes(o, d, u, v)
    <3>2. /\ Total(v, {"data"}) = Total(w \o c.sent, {"data"})
          /\ Total(v, {"data", "ext"}) = Total(w \o c.sent, {"data", "ext"})
          /\ Total(v, {"adjust", "confirm", "open"}) =
               Total(w \o c.sent, {"adjust", "confirm", "open"})
      BY <2>2, TotalsControl, GoodFacts
    <3> HIDE DEF v
    <3> QED BY <1>2, <2>3, <3>2, GoodFacts
          DEF Bytes, Stream, Complete, Window, SameBuffers, SameWindows, Seen
  <2> QED BY <1>2, <2>0, <2>2, <2>3, <2>4, <2>5, Sending DEF Part, Live, Setup
<1> QED BY <1>1, <1>2

LEMMA ObufEmpty ==
    ASSUME NEW e, NEW c, NEW o, NEW w, NEW u, NEW k, Good(e, c, o, w, u, k),
           Live(c), c.output = 0, c.ostate = "drain",
           NEW d, d = chan_obuf_empty(c)
    PROVE  /\ Good(e, d, o, w, u, k)
           /\ d.read = c.read /\ d.written = c.written /\ d.forced = c.forced
           /\ c.end = "no" /\ d.end = "eof"
           /\ d.type = c.type /\ d.istate = c.istate /\ d.detach = c.detach
<1>0. c \in Channel /\ o \in Channel /\ Local(e, c, k) /\ Local(Peer(e), o, k)
      /\ u \in Seq(Message) /\ Flags(o, c, u) /\ Bytes(o, c, u, w \o c.sent)
  BY GoodFacts
<1>1. d = [c EXCEPT !.output = 0, !.ostate = "closed", !.end = "eof"]
  BY <1>0 DEF chan_obuf_empty, chan_shutdown_write, Channel
<1>2. /\ d \in Channel /\ d.sent = c.sent /\ d.output = 0 /\ d.ostate = "closed"
      /\ d.end = "eof" /\ d.type = c.type /\ d.istate = c.istate /\ d.flags = c.flags
      /\ d.detach = c.detach /\ SameWindows(c, d)
      /\ d.input = c.input /\ d.extended = c.extended
      /\ d.read = c.read /\ d.written = c.written /\ d.forced = c.forced
  <2>1. c \in Channel
    BY <1>0
  <2>2. d \in Channel
    BY ONLY <1>1, <2>1 DEF Channel
  <2> QED BY ONLY <1>1, <2>1, <2>2 DEF Channel, SameWindows
<1>3. c.end = "no" /\ ("EOF_RCVD" \in c.flags \/ "CLOSE_RCVD" \in c.flags)
  BY <1>0 DEF Local, Machines
<1>4. Local(e, d, k)
  BY <1>0, <1>2, <1>3 DEF Local, Machines, Stages, Command, Room, Live, Fresh, SameWindows
<1>5. Total(u, {"data"}) = 0 /\ o.istate = "closed"
  <2>1. \A i \in 1 .. Len(u) : u[i].type \notin {"data"}
    BY <1>0, <1>3 DEF Flags
  <2>2. o.istate = "closed"
    BY <1>0, <1>3 DEF Flags, Local, Machines
  <2> QED BY <1>0, <2>1, <2>2, TotalNone
<1>6. o.forced \/ c.written = o.read
  BY <1>0, <1>5 DEF Bytes, Stream, Channel
<1>7. Bytes(d, o, w \o c.sent, u) /\ Bytes(o, d, u, w \o c.sent)
  BY <1>2, <1>3, <1>6, GoodFacts DEF Bytes, Stream, Complete, Window, SameWindows
<1> QED BY <1>2, <1>3, <1>4, <1>7, Quiet DEF Part, Live

LEMMA SendClose ==
    ASSUME NEW e, NEW c, NEW o, NEW w, NEW u, NEW k, Good(e, c, o, w, u, k),
           Live(c), c.detach # "user", NEW d, d = chan_send_close2(c)
    PROVE  /\ Good(e, d, o, w, u, k) /\ Seen(c, d)
           /\ d.type = c.type /\ d.istate = c.istate /\ d.ostate = c.ostate
           /\ d.detach = c.detach
<1>0. c \in Channel /\ Local(e, c, k)
  BY GoodFacts
<1>1. CASE ~(c.istate = "closed" /\ c.ostate = "closed" /\ "CLOSE_SENT" \notin c.flags)
  BY <1>0, <1>1 DEF chan_send_close2, Seen
<1>2. CASE c.istate = "closed" /\ c.ostate = "closed" /\ "CLOSE_SENT" \notin c.flags
  <2>1. d = [c EXCEPT !.sent = Append(@, Close), !.flags = @ \cup {"CLOSE_SENT"}]
    BY <1>0, <1>2 DEF chan_send_close2, Send, Channel
  <2>2. Close \in Message /\ Close.type = "close" /\ Marks(Close) = {"CLOSE_SENT"}
    BY DEF Close, Message, Marks
  <2>3. /\ d \in Channel /\ d.sent = Append(c.sent, Close)
        /\ d.flags = c.flags \cup {"CLOSE_SENT"}
        /\ d.type = c.type /\ d.istate = c.istate /\ d.ostate = c.ostate
        /\ d.detach = c.detach
        /\ SameBuffers(c, d) /\ SameWindows(c, d) /\ Seen(c, d)
    <3>1. Append(c.sent, Close) \in Seq(Message)
      BY <1>0, <2>2 DEF Channel
    <3>2. c.flags \cup {"CLOSE_SENT"}
            \in SUBSET {"EOF_SENT", "EOF_RCVD", "CLOSE_SENT", "CLOSE_RCVD"}
      BY <1>0 DEF Channel
    <3>3. d \in Channel
      BY <1>0, <2>1, <3>1, <3>2 DEF Channel
    <3> QED BY <1>0, <2>1, <3>3 DEF Channel, SameBuffers, SameWindows, Seen
  <2>4. Local(e, d, k)
    BY <1>0, <1>2, <2>3 DEF Local, Machines, Stages, Command, Room, Live, Fresh,
       SameBuffers, SameWindows, Seen
  <2> DEFINE v == Append(w \o c.sent, Close)
  <2>5. Bytes(d, o, v, u) /\ Bytes(o, d, u, v)
    <3>1. /\ Total(v, {"data"}) = Total(w \o c.sent, {"data"})
          /\ Total(v, {"data", "ext"}) = Total(w \o c.sent, {"data", "ext"})
          /\ Total(v, {"adjust", "confirm", "open"}) =
               Total(w \o c.sent, {"adjust", "confirm", "open"})
      BY <2>2, TotalsControl, GoodFacts
    <3> HIDE DEF v
    <3> QED BY <1>2, <2>3, <3>1, GoodFacts
          DEF Bytes, Stream, Complete, Window, SameBuffers, SameWindows, Seen
  <2> QED BY <1>2, <2>2, <2>3, <2>4, <2>5, Sending DEF Part, Live, Setup
<1> QED BY <1>1, <1>2

LEMMA WriteFailed ==
    ASSUME NEW e, NEW c, NEW o, NEW w, NEW u, NEW k, Good(e, c, o, w, u, k),
           Live(c), NEW d, d = chan_write_failed(c)
    PROVE  /\ Good(e, d, o, w, u, k)
           /\ d.read = c.read /\ d.written = c.written /\ d.forced = c.forced
           /\ d.end = IF c.ostate = "closed" THEN c.end ELSE "cut"
           /\ c.ostate # "closed" => c.end = "no"
           /\ d.type = c.type /\ d.istate = c.istate /\ d.ostate = "closed"
           /\ d.detach = c.detach /\ d.extended = c.extended
<1>0. c \in Channel /\ Local(e, c, k)
  BY GoodFacts
<1>1. CASE c.ostate = "closed"
  BY <1>0, <1>1 DEF chan_write_failed
<1>2. CASE c.ostate # "closed"
  <2>0. "CLOSE_SENT" \notin c.flags /\ c.end = "no"
    BY <1>0, <1>2 DEF Local, Machines
  <2>1. d = IF kind = "session"
            THEN [c EXCEPT !.output = 0, !.sent = Append(@, Eow),
                           !.ostate = "closed", !.end = "cut"]
            ELSE [c EXCEPT !.output = 0, !.ostate = "closed", !.end = "cut"]
    BY <1>0, <1>2 DEF chan_write_failed, chan_shutdown_write, chan_send_eow2, Send, Channel
  <2>2. Eow \in Message /\ Eow.type = "eow" /\ Marks(Eow) = {}
    BY DEF Eow, Message, Marks
  <2>3. /\ d \in Channel
        /\ d.sent = IF kind = "session" THEN Append(c.sent, Eow) ELSE c.sent
        /\ d.output = 0 /\ d.ostate = "closed" /\ d.end = "cut"
        /\ d.type = c.type /\ d.istate = c.istate /\ d.flags = c.flags
        /\ d.detach = c.detach
        /\ d.input = c.input /\ d.extended = c.extended /\ SameWindows(c, d)
        /\ d.read = c.read /\ d.written = c.written /\ d.forced = c.forced
    <3>1. Append(c.sent, Eow) \in Seq(Message)
      BY <1>0, <2>2 DEF Channel
    <3>2. CASE kind = "session"
      <4>0. d = [c EXCEPT !.output = 0, !.sent = Append(c.sent, Eow),
                          !.ostate = "closed", !.end = "cut"]
        BY <2>1, <3>2
      <4>1. d \in Channel
        <5>1. c \in Channel
          BY <1>0
        <5> QED BY ONLY <3>1, <4>0, <5>1 DEF Channel
      <4>2. c \in Channel
        BY <1>0
      <4>3. /\ d.sent = Append(c.sent, Eow)
            /\ d.output = 0 /\ d.ostate = "closed" /\ d.end = "cut"
            /\ d.type = c.type /\ d.istate = c.istate /\ d.flags = c.flags
            /\ d.detach = c.detach
            /\ d.input = c.input /\ d.extended = c.extended /\ SameWindows(c, d)
            /\ d.read = c.read /\ d.written = c.written /\ d.forced = c.forced
        BY ONLY <4>0, <4>1, <4>2 DEF Channel, SameWindows
      <4> QED BY <3>2, <4>1, <4>3
    <3>3. CASE kind # "session"
      <4>0. d = [c EXCEPT !.output = 0, !.ostate = "closed", !.end = "cut"]
        BY <2>1, <3>3
      <4>1. d \in Channel
        <5>1. c \in Channel
          BY <1>0
        <5> QED BY ONLY <4>0, <5>1 DEF Channel
      <4> QED BY <1>0, <3>3, <4>0, <4>1 DEF Channel, SameWindows
    <3> QED BY <3>2, <3>3
  <2>4. Local(e, d, k)
    <3>1. Room(e, d)
      <4> DEFINE ext == IF ExtWrite(e) THEN c.extended ELSE 0
      <4>1. ext \in Nat
        BY <1>0, Numbers
      <4>2. c.local_window + c.local_consumed + c.output + ext <= WindowMax
        BY <1>0 DEF Local, Room
      <4>3. ext = IF ExtWrite(e) THEN d.extended ELSE 0
        BY <2>3
      <4> HIDE DEF ext
      <4>4. d.local_window + d.local_consumed + d.output + ext <= WindowMax
        BY <1>0, <2>3, <4>1, <4>2, Numbers, ChannelAssumption DEF SameWindows, ChannelAssumption
      <4> QED BY <4>3, <4>4 DEF Room
    <3> QED BY <1>0, <1>2, <2>0, <2>3, <3>1
          DEF Local, Machines, Stages, Command, Live, Fresh, SameWindows
  <2>5. ASSUME NEW v,
               Total(v, {"data"}) = Total(w \o c.sent, {"data"}),
               Total(v, {"data", "ext"}) = Total(w \o c.sent, {"data", "ext"}),
               Total(v, {"adjust", "confirm", "open"}) =
                 Total(w \o c.sent, {"adjust", "confirm", "open"})
        PROVE  Part(e, d, o, v, u, k)
    <3>1. Total(u, {"data"}) \in Nat
      BY Totals, GoodFacts
    <3>2. Bytes(d, o, v, u)
      BY <2>3, <2>5, GoodFacts DEF Bytes, Stream, Complete, Window, SameWindows
    <3>3. Bytes(o, d, u, v)
      <4>1. o \in Channel /\ Bytes(o, c, u, w \o c.sent)
        BY GoodFacts
      <4>2. Stream(o, d, u)
        BY <1>0, <2>3, <3>1, <4>1, Numbers DEF Bytes, Stream
      <4> QED BY <2>3, <2>5, <4>1, <4>2 DEF Bytes, Complete, Window, SameWindows
    <3> QED BY <2>4, <3>2, <3>3 DEF Part
  <2>6. CASE kind = "session"
    <3>1. Part(e, d, o, Append(w \o c.sent, Eow), u, k)
      BY <2>2, <2>5, TotalsControl, GoodFacts
    <3> QED BY <1>2, <2>0, <2>2, <2>3, <2>6, <3>1, Sending DEF Live, Setup
  <2>7. CASE kind # "session"
    <3>1. Part(e, d, o, w \o c.sent, u, k)
      BY <2>5
    <3> QED BY <1>2, <2>0, <2>3, <2>7, <3>1, Quiet DEF Live
  <2> QED BY <2>6, <2>7
<1> QED BY <1>1, <1>2

LEMMA Rfd ==
    ASSUME NEW e, NEW c, NEW o, NEW w, NEW u, NEW k, Good(e, c, o, w, u, k),
           Live(c), NEW r \in Nat \cup {Failed}, r \in Nat \ {0} => c.istate = "open",
           NEW d, d = channel_handle_rfd(c, r)
    PROVE  /\ Good(e, d, o, w, u, k)
           /\ d.read = IF r = Failed THEN c.read ELSE c.read + r
           /\ d.written = c.written /\ d.forced = c.forced /\ d.end = c.end
           /\ d.type = c.type /\ d.ostate = c.ostate /\ d.flags = c.flags
           /\ d.detach = c.detach /\ d.output = c.output /\ d.extended = c.extended
<1>0. c \in Channel /\ o \in Channel /\ Local(e, c, k) /\ Local(Peer(e), o, k)
      /\ Flags(c, o, w \o c.sent)
  BY GoodFacts
<1>1. CASE r = Failed
  <2>1. d = chan_read_failed(c)
    BY <1>1 DEF channel_handle_rfd
  <2>2. d.output = c.output /\ d.extended = c.extended
    BY <1>0, <2>1 DEF chan_read_failed, Channel
  <2> QED BY <1>1, <2>1, <2>2, ReadFailed DEF Seen
<1>2. CASE r # Failed
  <2>0. r \in Nat
    BY <1>2
  <2>1. d = [c EXCEPT !.input = c.input + r, !.read = c.read + r]
    BY <1>2 DEF channel_handle_rfd
  <2>2. /\ d \in Channel /\ d.sent = c.sent /\ SameMachine(c, d) /\ SameWindows(c, d)
        /\ d.input = c.input + r /\ d.read = c.read + r
        /\ d.output = c.output /\ d.extended = c.extended
        /\ d.written = c.written /\ d.forced = c.forced /\ d.end = c.end
    <3>1. c.input + r \in Nat /\ c.read + r \in Nat
      BY <1>0, <2>0, Numbers
    <3>2. d \in Channel
      <4>1. c \in Channel
        BY <1>0
      <4> QED BY ONLY <2>1, <3>1, <4>1 DEF Channel
    <3> QED BY <1>0, <2>1, <3>2 DEF Channel, SameMachine, SameWindows
  <2>3. Local(e, d, k)
    <3>1. Machines(d) /\ Command(e, d, k) /\ Room(e, d)
      BY <1>0, <2>2 DEF Local, Machines, Command, Room, SameMachine, SameWindows, Live
    <3>2. Stages(e, d)
      BY <1>0, <2>2 DEF Local, Stages, SameMachine, SameWindows, Live
    <3> QED BY <3>1, <3>2 DEF Local
  <2>4. o.end = "eof" => r = 0
    BY <1>0, <2>0 DEF Local, Machines, Flags
  <2>5. Bytes(d, o, w \o c.sent, u)
    <3>1. Total(w \o c.sent, {"data"}) \in Nat
      BY Totals, GoodFacts
    <3>2. Complete(d, o)
      <4>1. Complete(c, o)
        BY GoodFacts DEF Bytes
      <4> QED BY <1>0, <2>2, <2>4, <4>1, Numbers DEF Complete
    <3>3. Window(d, o, w \o c.sent, u)
      BY <2>2, GoodFacts DEF Bytes, Window, SameWindows
    <3>4. Stream(d, o, w \o c.sent)
      <4>1. Stream(c, o, w \o c.sent)
        BY GoodFacts DEF Bytes
      <4>2. c.istate = "closed" => r = 0
        BY <2>0
      <4>3. d.istate = c.istate
        BY <2>2 DEF SameMachine
      <4> QED BY <1>0, <2>0, <2>2, <3>1, <4>1, <4>2, <4>3, Numbers DEF Stream
    <3> QED BY <3>2, <3>3, <3>4 DEF Bytes
  <2>6. Bytes(o, d, u, w \o c.sent)
    BY <2>2, GoodFacts DEF Bytes, Stream, Complete, Window, SameMachine, SameWindows
  <2> QED BY <1>2, <2>2, <2>3, <2>5, <2>6, Quiet DEF Part, Live, SameMachine
<1> QED BY <1>1, <1>2

LEMMA Wfd ==
    ASSUME NEW e, NEW c, NEW o, NEW w, NEW u, NEW k, Good(e, c, o, w, u, k),
           Live(c), NEW n, n = Failed \/ n \in 0 .. c.output,
           n \in Nat \ {0} => c.ostate # "closed",
           NEW d, d = channel_handle_wfd(c, n)
    PROVE  /\ Good(e, d, o, w, u, k)
           /\ d.read = c.read /\ d.forced = c.forced
           /\ d.written = IF n = Failed THEN c.written ELSE c.written + n
           /\ d.end = IF n = Failed /\ c.ostate # "closed" THEN "cut" ELSE c.end
           /\ c.ostate # "closed" => c.end = "no"
           /\ d.type = c.type /\ d.detach = c.detach /\ d.extended = c.extended
<1>0. c \in Channel /\ o \in Channel /\ Local(e, c, k)
  BY GoodFacts
<1>1. CASE n = Failed
  <2>1. d = chan_write_failed(c)
    BY <1>1 DEF channel_handle_wfd
  <2> QED BY <1>1, <2>1, WriteFailed
<1>2. CASE n # Failed
  <2>0. n \in Nat /\ n <= c.output /\ c.output - n \in Nat
    BY <1>0, <1>2, Numbers
  <2>1. d = [c EXCEPT !.output = c.output - n, !.written = c.written + n,
                      !.local_consumed = c.local_consumed + n]
    BY <1>2 DEF channel_handle_wfd
  <2>2. /\ d \in Channel /\ d.sent = c.sent /\ SameMachine(c, d)
        /\ d.input = c.input /\ d.extended = c.extended
        /\ d.output = c.output - n /\ d.written = c.written + n
        /\ d.local_consumed = c.local_consumed + n
        /\ d.remote_window = c.remote_window /\ d.local_window = c.local_window
        /\ d.read = c.read /\ d.forced = c.forced /\ d.end = c.end
    <3>1. c.written + n \in Nat /\ c.local_consumed + n \in Nat
      BY <1>0, <2>0, Numbers
    <3>2. c \in Channel /\ c.output - n \in Nat
      BY <1>0, <2>0
    <3>3. d \in Channel
      BY ONLY <2>1, <3>1, <3>2 DEF Channel
    <3> QED BY ONLY <2>1, <3>2, <3>3 DEF Channel, SameMachine
  <2>3. Local(e, d, k)
    <3>1. Machines(d) /\ Command(e, d, k)
      BY <1>0, <2>2 DEF Local, Machines, Command, SameMachine, Live
    <3>2. Stages(e, d)
      BY <1>0, <2>2 DEF Local, Stages, SameMachine, Live
    <3>3. Room(e, d)
      <4> DEFINE ext == IF ExtWrite(e) THEN c.extended ELSE 0
      <4>1. ext \in Nat
        BY <1>0, Numbers
      <4>2. c.local_window + c.local_consumed + c.output + ext <= WindowMax
        BY <1>0 DEF Local, Room
      <4>3. ext = IF ExtWrite(e) THEN d.extended ELSE 0
        BY <2>2
      <4> HIDE DEF ext
      <4>4. d.local_window + d.local_consumed + d.output + ext <= WindowMax
        BY <1>0, <2>0, <2>2, <4>1, <4>2, Numbers, ChannelAssumption DEF ChannelAssumption
      <4> QED BY <4>3, <4>4 DEF Room
    <3> QED BY <3>1, <3>2, <3>3 DEF Local
  <2>4. Bytes(d, o, w \o c.sent, u)
    BY <2>2, GoodFacts DEF Bytes, Stream, Complete, Window, SameMachine
  <2>5. Bytes(o, d, u, w \o c.sent)
    <3>1. Total(u, {"data"}) \in Nat
      BY Totals, GoodFacts
    <3>2. Stream(o, c, u) /\ Complete(o, c) /\ Window(o, c, u, w \o c.sent)
      BY GoodFacts DEF Bytes
    <3>3. Stream(o, d, u)
      <4>1. d.ostate = c.ostate
        BY <2>2 DEF SameMachine
      <4> QED BY <1>0, <2>0, <2>2, <3>1, <3>2, <4>1, Numbers DEF Stream
    <3>4. Complete(o, d)
      <4>1. c.end = "eof" => n = 0
        BY <1>0, <2>0 DEF Local, Machines
      <4> QED BY <1>0, <2>2, <3>2, <4>1, Numbers DEF Complete
    <3>5. Window(o, d, u, w \o c.sent)
      BY <2>2, <3>2 DEF Window, SameMachine
    <3> QED BY <3>3, <3>4, <3>5 DEF Bytes
  <2>6. c.ostate # "closed" => c.end = "no"
    BY <1>0 DEF Local, Machines
  <2> QED BY <1>2, <2>2, <2>3, <2>4, <2>5, <2>6, Quiet DEF Part, Live, SameMachine
<1> QED BY <1>1, <1>2

LEMMA Efd ==
    ASSUME NEW e, NEW c, NEW o, NEW w, NEW u, NEW k, Good(e, c, o, w, u, k),
           Live(c), NEW x \in Nat \cup {Failed}, ExtWrite(e) => x <= c.extended,
           NEW d, d = channel_handle_efd(e, c, x)
    PROVE  /\ Good(e, d, o, w, u, k) /\ Seen(c, d)
           /\ d.type = c.type /\ d.detach = c.detach
<1>0. c \in Channel /\ o \in Channel /\ Local(e, c, k)
  BY GoodFacts
<1>1. SUFFICES
        /\ d \in Channel /\ d.sent = c.sent /\ SameMachine(c, d) /\ Seen(c, d)
        /\ d.input = c.input /\ d.output = c.output
        /\ d.remote_window = c.remote_window /\ d.local_window = c.local_window
        /\ d.extended \in Nat /\ d.local_consumed \in Nat
        /\ ExtWrite(e) => d.local_consumed + d.extended = c.local_consumed + c.extended
        /\ ~ExtWrite(e) => d.local_consumed = c.local_consumed
  <2>1. Machines(d) /\ Command(e, d, k)
    BY <1>0, <1>1 DEF Local, Machines, Command, SameMachine, Seen, Live
  <2>2. Stages(e, d)
    BY <1>0, <1>1 DEF Local, Stages, SameMachine, Seen, Live
  <2>3. Room(e, d)
    BY <1>0, <1>1, Numbers, ChannelAssumption DEF Local, Room, ChannelAssumption
  <2>4. Bytes(d, o, w \o c.sent, u) /\ Bytes(o, d, u, w \o c.sent)
    BY <1>1, GoodFacts DEF Bytes, Stream, Complete, Window, SameMachine, Seen
  <2> QED BY <1>1, <2>1, <2>2, <2>3, <2>4, Quiet DEF Part, Local, Live, SameMachine
<1>2. CASE x = Failed
  <2>1. d = [c EXCEPT !.efd = FALSE] /\ c \in Channel
    BY <1>0, <1>2 DEF channel_handle_efd
  <2>2. d \in Channel
    BY ONLY <2>1 DEF Channel
  <2>3. /\ d.sent = c.sent /\ SameMachine(c, d) /\ Seen(c, d) /\ SameBuffers(c, d)
        /\ SameWindows(c, d)
    BY ONLY <2>1, <2>2 DEF Channel, SameMachine, Seen, SameBuffers, SameWindows
  <2> QED BY <1>0, <2>2, <2>3, Numbers DEF SameBuffers, SameWindows
<1>3. CASE x # Failed /\ ExtWrite(e)
  <2>1. d = [c EXCEPT !.extended = c.extended - x,
                      !.local_consumed = c.local_consumed + x] /\ c \in Channel
    BY <1>0, <1>3 DEF channel_handle_efd
  <2>2. c.extended - x \in Nat /\ c.local_consumed + x \in Nat /\ x \in Nat
    BY <1>0, <1>3, Numbers
  <2>3. d \in Channel
    BY ONLY <2>1, <2>2 DEF Channel
  <2>4. /\ d.sent = c.sent /\ SameMachine(c, d) /\ Seen(c, d)
        /\ d.input = c.input /\ d.output = c.output
        /\ d.extended = c.extended - x /\ d.local_consumed = c.local_consumed + x
        /\ d.remote_window = c.remote_window /\ d.local_window = c.local_window
    BY ONLY <2>1, <2>3 DEF Channel, SameMachine, Seen
  <2> QED BY <1>0, <1>3, <2>2, <2>3, <2>4, Numbers
<1>4. CASE x # Failed /\ ~ExtWrite(e)
  <2>1. d = [c EXCEPT !.extended = c.extended + x, !.errread = c.errread + x]
        /\ c \in Channel
    BY <1>0, <1>4 DEF channel_handle_efd
  <2>2. c.extended + x \in Nat /\ c.errread + x \in Nat
    <3>1. c.errread \in Nat
      BY <1>0 DEF Channel
    <3> QED BY <1>0, <1>4, <3>1, Numbers
  <2>3. d \in Channel
    BY ONLY <2>1, <2>2 DEF Channel
  <2>4. /\ d.sent = c.sent /\ SameMachine(c, d) /\ Seen(c, d)
        /\ d.input = c.input /\ d.output = c.output
        /\ d.extended = c.extended + x /\ d.local_consumed = c.local_consumed
        /\ d.remote_window = c.remote_window /\ d.local_window = c.local_window
    BY ONLY <2>1, <2>3 DEF Channel, SameMachine, Seen
  <2> QED BY <1>0, <1>4, <2>2, <2>3, <2>4, Numbers
<1> QED BY <1>2, <1>3, <1>4

LEMMA CheckWindow ==
    ASSUME NEW e, NEW c, NEW o, NEW w, NEW u, NEW k, Good(e, c, o, w, u, k),
           Live(c), NEW d, d = channel_check_window(c)
    PROVE  /\ Good(e, d, o, w, u, k) /\ Seen(c, d)
           /\ d.type = c.type /\ d.detach = c.detach
<1>0. c \in Channel /\ o \in Channel /\ Local(e, c, k)
  BY GoodFacts
<1> DEFINE g == /\ c.type = "open"
                /\ c.flags \cap {"CLOSE_SENT", "CLOSE_RCVD"} = {}
                /\ \/ c.local_window_max > c.local_window + MaxPacket * 3
                   \/ c.local_window < c.local_window_max \div 2
                /\ c.local_consumed > 0
           m == Adjust(c.local_consumed)
<1>1. CASE ~g
  BY <1>0, <1>1 DEF channel_check_window, Seen
<1>2. CASE g
  <2>1. d = [c EXCEPT !.sent = Append(c.sent, m),
                      !.local_window = c.local_window + c.local_consumed,
                      !.local_consumed = 0]
    BY <1>0, <1>2 DEF channel_check_window, Send, Channel
  <2>2. m \in Message /\ m.type = "adjust" /\ m.n = c.local_consumed /\ Marks(m) = {}
    BY <1>0, Numbers DEF Adjust, Message, Marks
  <2>3. "CLOSE_SENT" \notin c.flags /\ c.type = "open"
    BY <1>2
  <2> HIDE DEF m, g
  <2>4. /\ d \in Channel /\ d.sent = Append(c.sent, m) /\ SameMachine(c, d)
        /\ SameBuffers(c, d) /\ Seen(c, d)
        /\ d.local_window = c.local_window + c.local_consumed /\ d.local_consumed = 0
        /\ d.remote_window = c.remote_window
    <3>1. Append(c.sent, m) \in Seq(Message)
      BY <1>0, <2>2 DEF Channel
    <3>2. c \in Channel /\ c.local_window + c.local_consumed \in Nat
      BY <1>0, Numbers
    <3>3. d \in Channel
      BY ONLY <2>1, <3>1, <3>2 DEF Channel
    <3>4. d.sent = Append(c.sent, m) /\ d.local_window = c.local_window + c.local_consumed
      BY ONLY <2>1, <3>1, <3>2 DEF Channel
    <3> QED BY ONLY <2>1, <3>2, <3>3, <3>4 DEF Channel, SameMachine, SameBuffers, Seen
  <2>5. Local(e, d, k)
    <3>1. Machines(d) /\ Command(e, d, k)
      BY <1>0, <2>4 DEF Local, Machines, Command, SameMachine, Seen, Live
    <3>2. Stages(e, d)
      BY <1>0, <2>4 DEF Local, Stages, SameMachine, Seen, Live
    <3>3. Room(e, d)
      BY <1>0, <2>4, Numbers, ChannelAssumption DEF Local, Room, SameBuffers, ChannelAssumption
    <3> QED BY <3>1, <3>2, <3>3 DEF Local
  <2> DEFINE q == w \o c.sent
             v == Append(q, m)
  <2>6. /\ Total(v, {"data"}) = Total(q, {"data"}) + 0
        /\ Total(v, {"data", "ext"}) = Total(q, {"data", "ext"}) + 0
        /\ Total(v, {"adjust", "confirm", "open"}) =
             Total(q, {"adjust", "confirm", "open"}) + c.local_consumed
    BY <2>2, TotalsAppend, GoodFacts
  <2>7. /\ Total(q, {"data"}) \in Nat /\ Total(q, {"data", "ext"}) \in Nat
        /\ Total(q, {"adjust", "confirm", "open"}) \in Nat /\ Total(u, {"data", "ext"}) \in Nat
    BY Totals, GoodFacts
  <2>8. Bytes(c, o, q, u) /\ Bytes(o, c, u, q)
    BY GoodFacts
  <2> HIDE DEF v, q
  <2>9. Bytes(d, o, v, u)
    BY <2>4, <2>6, <2>7, <2>8
       DEF Bytes, Stream, Complete, Window, SameMachine, SameBuffers, Seen
  <2>10. Bytes(o, d, u, v)
    <3>1. Window(o, d, u, v)
      <4>1. o.remote_window + Total(u, {"data", "ext"})
              + Total(q, {"adjust", "confirm", "open"}) <= c.local_window
        BY <2>3, <2>8 DEF Bytes, Window
      <4>2. o.remote_window \in Nat /\ c.local_window \in Nat /\ c.local_consumed \in Nat
        BY <1>0, Numbers
      <4>3. o.remote_window + Total(u, {"data", "ext"})
              + Total(v, {"adjust", "confirm", "open"}) <= d.local_window
        BY <2>4, <2>6, <2>7, <4>1, <4>2
      <4> QED BY <4>3 DEF Window
    <3> QED BY <2>4, <2>8, <3>1
         DEF Bytes, Stream, Complete, SameMachine, SameBuffers, Seen
  <2>11. Part(e, d, o, v, u, k)
    BY <2>5, <2>9, <2>10 DEF Part
  <2> QED BY <2>2, <2>3, <2>4, <2>11, Sending DEF Live, Setup, SameMachine, v, q
<1> QED BY <1>1, <1>2

-----------------------------------------------------------------------------
(* channel_garbage_collect and the poll. *)

LEMMA Detach ==
    ASSUME NEW e, NEW c, NEW o, NEW w, NEW u, NEW k, Good(e, c, o, w, u, k),
           Live(c), e = "client" \/ k # "running",
           NEW d, d = [c EXCEPT !.detach = "none"]
    PROVE  /\ Good(e, d, o, w, u, k) /\ Seen(c, d) /\ d.type = c.type
           /\ d.detach = "none"
<1>0. c \in Channel /\ Local(e, c, k)
  BY GoodFacts
<1>1. c \in Channel
  BY <1>0
<1>2. d \in Channel
  BY ONLY <1>1, d = [c EXCEPT !.detach = "none"] DEF Channel
<1>3. /\ d.sent = c.sent /\ d.type = c.type /\ d.istate = c.istate /\ d.ostate = c.ostate
      /\ d.flags = c.flags /\ d.detach = "none"
      /\ SameBuffers(c, d) /\ SameWindows(c, d) /\ Seen(c, d)
  BY ONLY <1>1, <1>2, d = [c EXCEPT !.detach = "none"]
     DEF Channel, SameBuffers, SameWindows, Seen
<1>4. Local(e, d, k)
  <2>1. Machines(d) /\ Room(e, d)
    BY <1>0, <1>3 DEF Local, Machines, Room, SameBuffers, SameWindows, Seen
  <2>2. Stages(e, d)
    BY <1>0, <1>3 DEF Local, Stages, SameWindows, Seen, Live
  <2>3. Command(e, d, k)
    BY <1>0, <1>3 DEF Local, Command, Seen, Live
  <2> QED BY <2>1, <2>2, <2>3 DEF Local
<1>5. Bytes(d, o, w \o c.sent, u) /\ Bytes(o, d, u, w \o c.sent)
  BY <1>3, GoodFacts DEF Bytes, Stream, Complete, Window, SameBuffers, SameWindows, Seen
<1> QED BY <1>2, <1>3, <1>4, <1>5, Quiet DEF Part, Live

\* A channel that is dead is freed.
LEMMA Free ==
    ASSUME NEW e, NEW c, NEW o, NEW w, NEW u, NEW k, Good(e, c, o, w, u, k),
           Live(c) \/ c.type = "zombie", c.detach = "none",
           chan_is_dead(c, TRUE), NEW d, d = [c EXCEPT !.type = "freed"]
    PROVE  Good(e, d, o, w, u, k) /\ Seen(c, d) /\ d.type = "freed"
<1>0. /\ c \in Channel /\ Local(e, c, k) /\ Local(Peer(e), o, k) /\ Flags(o, c, u)
      /\ Typed(e, c, o, w, u, k) /\ System(e, c, o, w \o c.sent, u, k)
  BY GoodFacts DEF Good
<1>1. c \in Channel
  BY <1>0
<1>2. d \in Channel
  BY ONLY <1>1, d = [c EXCEPT !.type = "freed"] DEF Channel
<1>3. /\ d.sent = c.sent /\ d.type = "freed" /\ d.istate = c.istate /\ d.ostate = c.ostate
      /\ d.flags = c.flags /\ d.detach = c.detach
      /\ SameBuffers(c, d) /\ SameWindows(c, d) /\ Seen(c, d)
  BY ONLY <1>1, <1>2, d = [c EXCEPT !.type = "freed"]
     DEF Channel, SameBuffers, SameWindows, Seen
<1>4. \/ c.type = "zombie" /\ Fresh(c)
      \/ Live(c) /\ {"CLOSE_SENT", "CLOSE_RCVD"} \subseteq c.flags
  <2>1. CASE c.type = "zombie"
    BY <1>0, <2>1 DEF Local, Stages, Live
  <2>2. CASE c.type # "zombie"
    BY <2>2 DEF chan_is_dead
  <2> QED BY <2>1, <2>2
<1>5. Local(e, d, k)
  <2>1. Machines(d) /\ Room(e, d)
    BY <1>0, <1>3 DEF Local, Machines, Room, SameBuffers, SameWindows, Seen
  <2>2. Stages(e, d)
    BY <1>0, <1>3, <1>4 DEF Local, Stages, SameWindows, SameBuffers, Seen, Live, Fresh
  <2>3. Command(e, d, k)
    BY <1>0, <1>3 DEF Local, Command, Seen, Live
  <2> QED BY <2>1, <2>2, <2>3 DEF Local
<1> DEFINE q == w \o c.sent
<1>6. Bytes(c, o, q, u) /\ Bytes(o, c, u, q) /\ Ordered(q) /\ Ordered(u)
      /\ Flags(c, o, q) /\ Flags(o, c, u) /\ Shake(e, c, o, q, u)
  BY <1>0 DEF System, Direction
<1> HIDE DEF q
<1>7. Direction(d, o, q, u)
  BY <1>3, <1>6
     DEF Direction, Flags, Bytes, Stream, Complete, Window, SameBuffers, SameWindows, Seen
<1>8. Direction(o, d, u, q)
  BY <1>3, <1>6
     DEF Direction, Flags, Bytes, Stream, Complete, Window, SameBuffers, SameWindows, Seen
<1>9. Shake(e, d, o, q, u)
  <2>1. CASE c.type = "zombie" /\ Fresh(c)
    <3>1. Refused(c) /\ Refused(d)
      BY <1>3, <2>1 DEF Refused, Fresh
    <3>2. CASE e = "client"
      BY <1>3, <1>6, <2>1, <3>1, <3>2 DEF Shake, Handshake, Opened
    <3>3. CASE e # "client"
      BY <1>3, <1>6, <2>1, <3>1, <3>3 DEF Shake, Handshake, Opened, Opening, Live
    <3> QED BY <3>2, <3>3
  <2>2. CASE Live(c) /\ {"CLOSE_SENT", "CLOSE_RCVD"} \subseteq c.flags
    <3>1. ~Refused(c) /\ ~Refused(d)
      BY <1>3, <2>2 DEF Refused, Live
    <3>2. o.type \notin {"opening", "none"}
      BY <1>0, <2>2 DEF Flags, Local, Stages, Fresh, Live
    <3>3. CASE e = "client"
      BY <1>3, <1>6, <2>2, <3>1, <3>3 DEF Shake, Handshake, Opened, Live
    <3>4. CASE e # "client"
      BY <1>3, <1>6, <2>2, <3>1, <3>2, <3>4 DEF Shake, Handshake, Opened, Live
    <3> QED BY <3>3, <3>4
  <2> QED BY <1>4, <2>1, <2>2
<1>10. System(e, d, o, q, u, k)
  BY <1>0, <1>5, <1>7, <1>8, <1>9 DEF System
<1>11. Typed(e, d, o, w, u, k)
  BY <1>0, <1>2 DEF Typed
<1> QED BY <1>3, <1>10, <1>11 DEF Good, q

\* The user of a channel that was refused lets it go.
LEMMA DetachZombie ==
    ASSUME NEW e, NEW c, NEW o, NEW w, NEW u, NEW k, Good(e, c, o, w, u, k),
           c.type = "zombie", NEW d, d = [c EXCEPT !.detach = "none"]
    PROVE  /\ Good(e, d, o, w, u, k) /\ Seen(c, d) /\ d.type = c.type
           /\ d.detach = "none"
<1>0. /\ c \in Channel /\ Local(e, c, k)
      /\ Typed(e, c, o, w, u, k) /\ System(e, c, o, w \o c.sent, u, k)
  BY GoodFacts DEF Good
<1>1. c \in Channel
  BY <1>0
<1>2. d \in Channel
  BY ONLY <1>1, d = [c EXCEPT !.detach = "none"] DEF Channel
<1>3. /\ d.sent = c.sent /\ d.type = c.type /\ d.istate = c.istate /\ d.ostate = c.ostate
      /\ d.flags = c.flags /\ d.detach = "none"
      /\ SameBuffers(c, d) /\ SameWindows(c, d) /\ Seen(c, d)
  BY ONLY <1>1, <1>2, d = [c EXCEPT !.detach = "none"]
     DEF Channel, SameBuffers, SameWindows, Seen
<1>4. Local(e, d, k)
  <2>1. Machines(d) /\ Room(e, d)
    BY <1>0, <1>3 DEF Local, Machines, Room, SameBuffers, SameWindows, Seen
  <2>2. Stages(e, d)
    BY <1>0, <1>3 DEF Local, Stages, Fresh, SameBuffers, SameWindows, Seen, Live
  <2>3. Command(e, d, k)
    BY <1>0, <1>3 DEF Local, Command, Seen, Live
  <2> QED BY <2>1, <2>2, <2>3 DEF Local
<1> DEFINE q == w \o c.sent
<1>5. Bytes(c, o, q, u) /\ Bytes(o, c, u, q) /\ Ordered(q) /\ Ordered(u)
      /\ Flags(c, o, q) /\ Flags(o, c, u) /\ Shake(e, c, o, q, u)
  BY <1>0 DEF System, Direction
<1> HIDE DEF q
<1>6. Direction(d, o, q, u) /\ Direction(o, d, u, q)
  BY <1>3, <1>5
     DEF Direction, Flags, Bytes, Stream, Complete, Window, SameBuffers, SameWindows, Seen
<1>7. Shake(e, d, o, q, u)
  BY <1>3, <1>5 DEF Shake, Handshake, Opened, Opening, Refused, Live
<1>8. System(e, d, o, q, u, k)
  BY <1>0, <1>4, <1>6, <1>7 DEF System
<1>9. Typed(e, d, o, w, u, k)
  BY <1>0, <1>2 DEF Typed
<1> QED BY <1>3, <1>8, <1>9 DEF Good, q

Existing == {"opening", "larval", "connecting", "open", "abandoned", "zombie"}

\* What the garbage collector makes of a channel nobody is attached to.
Collect(b) ==
    IF chan_is_dead(IsDeadSend(b, TRUE), TRUE)
    THEN [IsDeadSend(b, TRUE) EXCEPT !.type = "freed"]
    ELSE IsDeadSend(b, TRUE)

LEMMA Frees ==
    ASSUME NEW e, NEW c, NEW o, NEW w, NEW u, NEW k, Good(e, c, o, w, u, k),
           c.type \in Existing, c.detach = "none", NEW d, d = Collect(c)
    PROVE  /\ Good(e, d, o, w, u, k) /\ Seen(c, d)
           /\ d.type \in {c.type, "freed"}
<1>0. c \in Channel /\ Local(e, c, k)
  BY GoodFacts
<1>a. PICK a : a = IsDeadSend(c, TRUE)
  OBVIOUS
<1>b. d = IF chan_is_dead(a, TRUE) THEN [a EXCEPT !.type = "freed"] ELSE a
  BY <1>a DEF Collect
<1>1. Good(e, a, o, w, u, k) /\ Seen(c, a) /\ a.type = c.type /\ a.detach = "none"
      /\ (~Live(c) => a = c)
  <2>1. CASE Live(c)
    <3>1. a = chan_send_close2(c)
      BY <1>a, <2>1 DEF IsDeadSend, Live
    <3>2. c.detach # "user"
      OBVIOUS
    <3>3. Good(e, a, o, w, u, k) /\ Seen(c, a) /\ a.type = c.type /\ a.detach = c.detach
      BY ONLY Good(e, c, o, w, u, k), <2>1, <3>1, <3>2, SendClose
    <3> QED BY <2>1, <3>3
  <2>2. CASE c.type = "zombie"
    BY <1>a, <2>2 DEF IsDeadSend, Seen
  <2>3. CASE ~Live(c) /\ c.type # "zombie"
    <3>1. c.istate = "open"
      BY <1>0, <2>3 DEF Local, Stages, Fresh, Existing
    <3> QED BY <1>a, <2>3, <3>1 DEF IsDeadSend, chan_send_close2, Seen
  <2> QED BY <2>1, <2>2, <2>3
<1>2. CASE ~chan_is_dead(a, TRUE)
  BY <1>b, <1>1, <1>2
<1>3. CASE chan_is_dead(a, TRUE)
  <2>1. Live(a) \/ a.type = "zombie"
    <3>1. a \in Channel /\ Local(e, a, k)
      BY <1>1, GoodFacts
    <3> QED BY <1>1, <1>3, <3>1 DEF chan_is_dead, Local, Stages, Fresh, Existing
  <2>2. Good(e, d, o, w, u, k) /\ Seen(a, d) /\ d.type = "freed"
    <3>1. d = [a EXCEPT !.type = "freed"]
      BY <1>b, <1>3
    <3>2. Good(e, a, o, w, u, k) /\ a.detach = "none"
      BY <1>1
    <3> QED BY ONLY <1>3, <2>1, <3>1, <3>2, Free
  <2> QED BY <1>1, <2>2 DEF Seen
<1> QED BY <1>2, <1>3

LEMMA Collected ==
    ASSUME NEW e, NEW c, NEW o, NEW w, NEW u, Good(e, c, o, w, u, child),
           c.type \in Existing, NEW d, d = channel_garbage_collect(e, c)
    PROVE  /\ Good(e, d, o, w, u, child) /\ Seen(c, d)
           /\ d.type \in {c.type, "freed"}
<1>0. c \in Channel /\ Local(e, c, child)
  BY GoodFacts
<1> DEFINE asked == IsDeadSend(c, c.detach = "close")
           detached == [asked EXCEPT !.detach = "none"]
<1>1. d = IF c.detach = "none" THEN Collect(c)
          ELSE IF chan_is_dead(asked, c.detach = "close") /\ UserDetaches(e)
          THEN Collect(detached) ELSE asked
  BY DEF channel_garbage_collect, Collect
<1>2. CASE c.detach = "none"
  BY <1>1, <1>2, Frees
<1>3. CASE c.detach # "none"
  <2>1. Good(e, asked, o, w, u, child) /\ Seen(c, asked) /\ asked.type = c.type
        /\ asked.detach = c.detach /\ (~Live(c) => asked = c)
    <3>1. CASE Live(c) /\ c.detach = "close"
      <4>1. asked = chan_send_close2(c)
        BY <3>1 DEF IsDeadSend, Live
      <4> HIDE DEF asked
      <4> QED BY <3>1, <4>1, SendClose
    <3>2. CASE c.detach # "close"
      <4>1. asked = c
        BY <3>2 DEF IsDeadSend
      <4> QED BY <4>1 DEF Seen
    <3>3. CASE ~Live(c)
      <4>1. c.type = "zombie" \/ c.istate = "open"
        BY <1>0, <3>3 DEF Local, Stages, Fresh, Existing
      <4>2. asked = c
        BY <4>1 DEF IsDeadSend, chan_send_close2
      <4> QED BY <4>2 DEF Seen
    <3> QED BY <3>1, <3>2, <3>3
  <2>2. CASE ~(chan_is_dead(asked, c.detach = "close") /\ UserDetaches(e))
    BY <1>1, <1>3, <2>1, <2>2
  <2>3. CASE chan_is_dead(asked, c.detach = "close") /\ UserDetaches(e)
    <3>1. e = "client" \/ child # "running"
      BY <2>3 DEF UserDetaches
    <3>2. d = Collect(detached)
      BY <1>1, <1>3, <2>3
    <3>3. Good(e, detached, o, w, u, child) /\ Seen(asked, detached)
          /\ detached.type = c.type /\ detached.detach = "none"
      <4> HIDE DEF asked
      <4>1. CASE Live(c)
        <5>1. Live(asked)
          BY <2>1, <4>1 DEF Live
        <5> QED BY <2>1, <3>1, <5>1, Detach
      <4>2. CASE ~Live(c)
        <5>1. asked = c /\ c.type = "zombie"
          <6>1. asked = c
            BY <2>1, <4>2
          <6>2. c.type # "zombie" => c.istate = "open"
            BY <1>0, <4>2 DEF Local, Stages, Fresh, Existing
          <6> QED BY <2>3, <6>1, <6>2 DEF chan_is_dead
        <5>2. PICK z : z = [c EXCEPT !.detach = "none"]
          OBVIOUS
        <5>3. detached = z
          BY <5>1, <5>2
        <5> HIDE DEF detached
        <5>4. Good(e, z, o, w, u, child) /\ Seen(c, z) /\ z.type = c.type /\ z.detach = "none"
          BY <3>1, <5>1, <5>2, DetachZombie
        <5> QED BY <5>1, <5>3, <5>4
      <4> QED BY <4>1, <4>2
    <3> HIDE DEF detached
    <3>4. detached.type \in Existing
      BY <3>3
    <3>5. Good(e, d, o, w, u, child) /\ Seen(detached, d) /\ d.type \in {detached.type, "freed"}
      BY <3>2, <3>3, <3>4, Frees
    <3> QED BY <2>1, <3>3, <3>5 DEF Seen
  <2> QED BY <2>2, <2>3
<1> QED BY <1>2, <1>3

\* What the program at an end can notice of one action of its end, when o is
\* the other end.
Acts(c, d, o) ==
    /\ \/ d.read = c.read /\ d.forced = c.forced
       \/ d.read > c.read /\ d.forced = c.forced /\ ~c.forced /\ o.end # "eof"
       \/ d.read = c.read /\ d.forced
    /\ \/ d.written = c.written /\ d.end = c.end
       \/ d.written > c.written /\ c.end = "no" /\ d.end = "no"
       \/ d.written = c.written /\ c.end = "no" /\ d.end \in {"eof", "cut"}

LEMMA PreOpen ==
    ASSUME NEW e, NEW c, NEW o, NEW w, NEW u, NEW k, Good(e, c, o, w, u, k),
           Live(c), NEW d, d = channel_pre_open(e, c)
    PROVE  /\ Good(e, d, o, w, u, k) /\ d.type = c.type
           /\ d.read = c.read /\ d.written = c.written /\ d.forced = c.forced
           /\ d.end = c.end \/ (c.end = "no" /\ d.end = "eof")
<1>1. CASE c.ostate = "drain" /\ c.output = 0 /\ ~CHANNEL_EFD_OUTPUT_ACTIVE(e, c)
  <2>1. d = chan_obuf_empty(c)
    BY <1>1 DEF channel_pre_open
  <2> QED BY <1>1, <2>1, ObufEmpty
<1>2. CASE ~(c.ostate = "drain" /\ c.output = 0 /\ ~CHANNEL_EFD_OUTPUT_ACTIVE(e, c))
  BY <1>2 DEF channel_pre_open
<1> QED BY <1>1, <1>2

LEMMA PreparedGood ==
    ASSUME NEW e, NEW c, NEW o, NEW w, NEW u, Good(e, c, o, w, u, child),
           c.type \in Existing,
           NEW d, d = channel_garbage_collect(e,
                        IF c.type = "open" THEN channel_pre_open(e, c) ELSE c)
    PROVE  /\ Good(e, d, o, w, u, child) /\ d.type \in {c.type, "freed"}
           /\ d.read = c.read /\ d.written = c.written /\ d.forced = c.forced
           /\ d.end = c.end \/ (c.end = "no" /\ d.end = "eof")
<1>1. PICK a : a = IF c.type = "open" THEN channel_pre_open(e, c) ELSE c
  OBVIOUS
<1>2. /\ Good(e, a, o, w, u, child) /\ a.type = c.type
      /\ a.read = c.read /\ a.written = c.written /\ a.forced = c.forced
      /\ a.end = c.end \/ (c.end = "no" /\ a.end = "eof")
  BY <1>1, PreOpen DEF Live
<1>3. /\ Good(e, d, o, w, u, child) /\ Seen(a, d)
      /\ d.type \in {a.type, "freed"}
  BY <1>1, <1>2, Collected
<1> QED BY <1>2, <1>3 DEF Seen

LEMMA PostOpen ==
    ASSUME NEW e, NEW c, NEW o, NEW w, NEW u, NEW k, Good(e, c, o, w, u, k),
           c.type = "open", NEW r \in ReadOutcomes(e, c),
           NEW n \in WriteOutcomes(c), NEW x \in ExtOutcomes(e, c, n),
           NEW d, d = channel_post_open(e, c, r, n, x)
    PROVE  /\ Good(e, d, o, w, u, k) /\ d.type = "open" /\ d.forced = c.forced
           /\ d.read = c.read \/ (d.read > c.read /\ o.end # "eof")
           /\ \/ d.written = c.written /\ d.end = c.end
              \/ d.written > c.written /\ c.end = "no" /\ d.end = "no"
              \/ d.written = c.written /\ c.end = "no" /\ d.end = "cut"
<1>0. /\ c \in Channel /\ o \in Channel /\ Local(e, c, k) /\ Local(Peer(e), o, k)
      /\ Flags(c, o, w \o c.sent)
  BY GoodFacts
<1>1. r \in Nat \cup {Failed} /\ (r \in Nat \ {0} => c.istate = "open")
  <2>1. CASE ~WantRead(c)
    BY <2>1 DEF ReadOutcomes
  <2>2. CASE WantRead(c)
    <3>1. PICK most : r \in (0 .. most) \cup {Failed}
      BY <2>2 DEF ReadOutcomes
    <3> QED BY <2>2, <3>1 DEF WantRead
  <2> QED BY <2>1, <2>2
<1>2. /\ n = Failed \/ n \in 0 .. c.output
      /\ n \in Nat \ {0} => c.ostate # "closed"
      /\ n = Failed => c.ostate # "closed"
  <2>1. CASE ~WantWrite(c)
    <3>1. n = 0
      BY <2>1 DEF WriteOutcomes
    <3> QED BY <1>0, <3>1, Numbers DEF Failed
  <2>2. CASE WantWrite(c)
    BY <2>2 DEF WriteOutcomes, WantWrite
  <2> QED BY <2>1, <2>2
<1>3. x \in Nat \cup {Failed} /\ (ExtWrite(e) => x <= c.extended)
  <2>1. CASE WantExtWrite(e, c)
    BY <1>0, <2>1, Numbers DEF ExtOutcomes, Failed
  <2>2. CASE ~WantExtWrite(e, c) /\ WantExtRead(e, c)
    <3>1. ~ExtWrite(e)
      BY <2>2 DEF WantExtRead, ExtRead, ExtWrite
    <3>2. PICK left : x \in (0 .. left) \cup {Failed}
      BY <2>2 DEF ExtOutcomes
    <3> QED BY <3>1, <3>2
  <2>3. CASE ~WantExtWrite(e, c) /\ ~WantExtRead(e, c)
    <3>1. x = 0
      BY <2>3 DEF ExtOutcomes
    <3> QED BY <1>0, <3>1, Numbers
  <2> QED BY <2>1, <2>2, <2>3
<1>4. o.end = "eof" => c.istate = "closed"
  BY <1>0 DEF Local, Machines, Flags
<1>5. PICK c1 : c1 = channel_handle_rfd(c, r)
  OBVIOUS
<1>6. PICK c2 : c2 = channel_handle_wfd(c1, n)
  OBVIOUS
<1>7. PICK c3 : c3 = channel_handle_efd(e, c2, x)
  OBVIOUS
<1>8. d = channel_check_window(c3)
  BY <1>5, <1>6, <1>7 DEF channel_post_open
<1>9. Live(c)
  BY DEF Live
<1>10. /\ Good(e, c1, o, w, u, k)
       /\ c1.read = IF r = Failed THEN c.read ELSE c.read + r
       /\ c1.written = c.written /\ c1.forced = c.forced /\ c1.end = c.end
       /\ c1.type = "open" /\ c1.ostate = c.ostate
       /\ c1.output = c.output /\ c1.extended = c.extended
  BY ONLY Good(e, c, o, w, u, k), c.type = "open", <1>1, <1>5, <1>9, Rfd
<1>11. Live(c1)
  BY <1>10 DEF Live
<1>12. /\ Good(e, c2, o, w, u, k)
       /\ c2.read = c1.read /\ c2.forced = c1.forced
       /\ c2.written = IF n = Failed THEN c1.written ELSE c1.written + n
       /\ c2.end = IF n = Failed /\ c1.ostate # "closed" THEN "cut" ELSE c1.end
       /\ c1.ostate # "closed" => c1.end = "no"
       /\ c2.type = "open" /\ c2.extended = c.extended
  <2>1. n = Failed \/ n \in 0 .. c1.output
    BY <1>2, <1>10
  <2>2. n \in Nat \ {0} => c1.ostate # "closed"
    BY <1>2, <1>10
  <2> QED BY ONLY <1>6, <1>10, <1>11, <2>1, <2>2, Wfd
<1>13. Live(c2) /\ (ExtWrite(e) => x <= c2.extended)
  BY <1>3, <1>12 DEF Live
<1>14. Good(e, c3, o, w, u, k) /\ Seen(c2, c3) /\ c3.type = "open"
  BY ONLY <1>3, <1>7, <1>12, <1>13, Efd
<1>15. Live(c3)
  BY <1>14 DEF Live
<1>16. Good(e, d, o, w, u, k) /\ Seen(c3, d) /\ d.type = "open"
  BY ONLY <1>8, <1>14, <1>15, CheckWindow
<1>17. d.read = c.read \/ (d.read > c.read /\ o.end # "eof")
  BY <1>0, <1>1, <1>4, <1>10, <1>12, <1>14, <1>16, Numbers DEF Seen
<1>18. /\ d.written = c2.written /\ d.end = c2.end /\ d.forced = c.forced
  BY <1>10, <1>12, <1>14, <1>16 DEF Seen
<1>19. \/ d.written = c.written /\ d.end = c.end
       \/ d.written > c.written /\ c.end = "no" /\ d.end = "no"
       \/ d.written = c.written /\ c.end = "no" /\ d.end = "cut"
  <2>1. CASE n = Failed
    BY <1>2, <1>10, <1>12, <1>18, <2>1
  <2>2. CASE n # Failed /\ n = 0
    BY <1>0, <1>10, <1>12, <1>18, <2>2, Numbers
  <2>3. CASE n # Failed /\ n # 0
    BY <1>0, <1>2, <1>10, <1>12, <1>18, <2>3, Numbers
  <2> QED BY <2>1, <2>2, <2>3
<1> QED BY <1>16, <1>17, <1>18, <1>19

-----------------------------------------------------------------------------
(* channel_output_poll and channel_force_close. *)

\* Data or standard error goes out: n bytes of it, within the window.
LEMMA SendsBytes ==
    ASSUME NEW e, NEW c, NEW o, NEW w, NEW u, NEW k, Good(e, c, o, w, u, k),
           c.type = "open", NEW m \in Message, m.type \in {"data", "ext"},
           m.n <= c.remote_window, m.type = "data" => m.n <= c.input,
           "CLOSE_SENT" \notin c.flags, "EOF_SENT" \notin c.flags,
           NEW d \in Channel, d.sent = Append(c.sent, m), SameMachine(c, d), Seen(c, d),
           d.input = IF m.type = "data" THEN c.input - m.n ELSE c.input,
           d.output = c.output, ExtWrite(e) => d.extended = c.extended,
           d.remote_window = c.remote_window - m.n,
           d.local_window = c.local_window, d.local_consumed = c.local_consumed
    PROVE  Good(e, d, o, w, u, k)
<1>0. c \in Channel /\ o \in Channel /\ Local(e, c, k)
  BY GoodFacts
<1>1. Local(e, d, k)
  <2>1. Machines(d) /\ Command(e, d, k)
    BY <1>0 DEF Local, Machines, Command, SameMachine, Seen, Live
  <2>2. Stages(e, d)
    BY <1>0 DEF Local, Stages, SameMachine, Seen, Live
  <2>3. Room(e, d)
    BY <1>0 DEF Local, Room
  <2> QED BY <2>1, <2>2, <2>3 DEF Local
<1> DEFINE q == w \o c.sent
           v == Append(q, m)
<1>2. /\ Total(v, {"data"}) =
           Total(q, {"data"}) + (IF m.type = "data" THEN m.n ELSE 0)
      /\ Total(v, {"data", "ext"}) = Total(q, {"data", "ext"}) + m.n
      /\ Total(v, {"adjust", "confirm", "open"}) =
           Total(q, {"adjust", "confirm", "open"}) + 0
  BY TotalsAppend, GoodFacts
<1>3. /\ Total(q, {"data"}) \in Nat /\ Total(q, {"data", "ext"}) \in Nat
      /\ Total(q, {"adjust", "confirm", "open"}) \in Nat
      /\ Total(u, {"adjust", "confirm", "open"}) \in Nat
  BY Totals, GoodFacts
<1>4. Bytes(c, o, q, u) /\ Bytes(o, c, u, q) /\ m.n \in Nat
  BY GoodFacts DEF Message
<1> HIDE DEF q, v
<1>5. Bytes(d, o, v, u)
  <2>1. Stream(d, o, v)
    <3>1. Stream(c, o, q) /\ d.istate = c.istate /\ d.read = c.read /\ d.forced = c.forced
      BY <1>4 DEF Bytes, SameMachine, Seen
    <3>2. c.istate = "closed" /\ c.input = 0 => d.input = 0
      BY <1>0, <1>4, Numbers
    <3>3. /\ c.input \in Nat /\ d.input \in Nat /\ o.written \in Nat /\ o.output \in Nat
      BY <1>0, Numbers
    <3>4. o.written + o.output + Total(v, {"data"}) + d.input =
            o.written + o.output + Total(q, {"data"}) + c.input
      <4>1. CASE m.type = "data"
        <5>1. Total(v, {"data"}) = Total(q, {"data"}) + m.n /\ d.input = c.input - m.n
          BY <1>2, <4>1
        <5>2. m.n \in Nat /\ Total(q, {"data"}) \in Nat
          BY <1>3, <1>4
        <5> QED BY ONLY <3>3, <5>1, <5>2
      <4>2. CASE m.type # "data"
        <5>1. Total(v, {"data"}) = Total(q, {"data"}) + 0 /\ d.input = c.input
          BY <1>2, <4>2
        <5> QED BY <1>3, <3>3, <5>1
      <4> QED BY <4>1, <4>2
    <3> QED BY <3>1, <3>2, <3>4 DEF Stream
  <2>2. Complete(d, o)
    BY <1>4 DEF Bytes, Complete, Seen
  <2>3. Window(d, o, v, u)
    <3>1. d.remote_window + Total(v, {"data", "ext"}) =
            c.remote_window + Total(q, {"data", "ext"})
      <4>1. c.remote_window \in Nat /\ d.remote_window = c.remote_window - m.n
        BY <1>0, Numbers
      <4>2. m.n \in Nat
        BY <1>4
      <4> QED BY ONLY <1>2, <1>3, <4>1, <4>2
    <3> QED BY <1>4, <3>1 DEF Bytes, Window
  <2> QED BY <2>1, <2>2, <2>3 DEF Bytes
<1>6. Bytes(o, d, u, v)
  BY <1>2, <1>3, <1>4 DEF Bytes, Stream, Complete, Window, SameMachine, Seen
<1>7. Part(e, d, o, v, u, k)
  BY <1>1, <1>5, <1>6 DEF Part
<1>8. Marks(m) = {} /\ m.type \notin Setup /\ m.type # "eow"
  BY DEF Marks, Setup
<1> QED BY <1>7, <1>8, Sending DEF Live, SameMachine, v, q

LEMMA PollInput ==
    ASSUME NEW e, NEW c, NEW o, NEW w, NEW u, NEW k, Good(e, c, o, w, u, k),
           c.type = "open", "CLOSE_SENT" \notin c.flags,
           c.istate \in {"open", "drain"},
           NEW d, d = channel_output_poll_input_open(e, c)
    PROVE  /\ Good(e, d, o, w, u, k) /\ Seen(c, d) /\ d.type = "open"
           /\ "CLOSE_SENT" \notin d.flags
<1>0. c \in Channel /\ Local(e, c, k)
  BY GoodFacts
<1> DEFINE len == Smaller(c.input, Smaller(c.remote_window, MaxPacket))
           m == Data(len)
<1>1. CASE c.input = 0 /\ c.istate = "drain" /\ ~CHANNEL_EFD_INPUT_ACTIVE(e, c)
  <2>1. d = chan_ibuf_empty(c)
    BY <1>1 DEF channel_output_poll_input_open
  <2>2. "CLOSE_SENT" \notin d.flags
    <3>1. d = [c EXCEPT !.sent = Append(@, Eof), !.flags = @ \cup {"EOF_SENT"},
                        !.istate = "closed"]
      BY <1>0, <1>1, <2>1 DEF chan_ibuf_empty, chan_send_eof2, Send, Channel
    <3>2. d.flags = c.flags \cup {"EOF_SENT"}
      BY <1>0, <3>1 DEF Channel
    <3> QED BY <3>2
  <2>3. Live(c)
    BY DEF Live
  <2> QED BY <2>1, <2>2, <2>3, IbufEmpty
<1>2. CASE c.input = 0 /\ ~(c.istate = "drain" /\ ~CHANNEL_EFD_INPUT_ACTIVE(e, c))
  BY <1>2 DEF channel_output_poll_input_open, Seen
<1>3. CASE c.input # 0 /\ len = 0
  BY <1>3 DEF channel_output_poll_input_open, Seen
<1>4. CASE c.input # 0 /\ len # 0
  <2>1. d = [c EXCEPT !.sent = Append(c.sent, m), !.input = c.input - len,
                      !.remote_window = c.remote_window - len]
    BY <1>0, <1>4 DEF channel_output_poll_input_open, Send, Channel
  <2>2. len \in Nat /\ len <= c.input /\ len <= c.remote_window
        /\ c.input - len \in Nat /\ c.remote_window - len \in Nat
    BY <1>0, Numbers, ChannelAssumption DEF Smaller, ChannelAssumption
  <2> HIDE DEF len
  <2>3. m \in Message /\ m.type = "data" /\ m.n = len
    BY <2>2 DEF Data, Message
  <2> HIDE DEF m
  <2>4. "EOF_SENT" \notin c.flags
    BY <1>0 DEF Local, Machines
  <2>5. c \in Channel /\ Append(c.sent, m) \in Seq(Message)
    BY <1>0, <2>3 DEF Channel
  <2>6. d \in Channel
    BY ONLY <2>1, <2>2, <2>5 DEF Channel
  <2>7. d.sent = Append(c.sent, m) /\ d.input = c.input - len
        /\ d.remote_window = c.remote_window - len
    BY ONLY <2>1, <2>2, <2>5 DEF Channel
  <2>8. /\ SameMachine(c, d) /\ Seen(c, d) /\ d.output = c.output
        /\ d.extended = c.extended /\ d.local_window = c.local_window
        /\ d.local_consumed = c.local_consumed
    BY ONLY <2>1, <2>5, <2>6 DEF Channel, SameMachine, Seen
  <2>9. Good(e, d, o, w, u, k)
    BY <2>2, <2>3, <2>4, <2>6, <2>7, <2>8, SendsBytes
  <2> QED BY <2>8, <2>9 DEF SameMachine
<1> QED BY <1>1, <1>2, <1>3, <1>4

LEMMA PollExtended ==
    ASSUME NEW e, NEW c, NEW o, NEW w, NEW u, NEW k, Good(e, c, o, w, u, k),
           c.type = "open", "CLOSE_SENT" \notin c.flags, "EOF_SENT" \notin c.flags,
           ~ExtWrite(e), NEW d, d = channel_output_poll_extended_read(c)
    PROVE  Good(e, d, o, w, u, k) /\ Seen(c, d) /\ d.type = "open"
<1>0. c \in Channel /\ Local(e, c, k)
  BY GoodFacts
<1> DEFINE len == Smaller(c.extended, Smaller(c.remote_window, MaxPacket))
           m == Ext(len)
<1>1. CASE len = 0
  BY <1>1 DEF channel_output_poll_extended_read, Seen
<1>2. CASE len # 0
  <2>1. d = [c EXCEPT !.sent = Append(c.sent, m), !.extended = c.extended - len,
                      !.remote_window = c.remote_window - len]
    BY <1>0, <1>2 DEF channel_output_poll_extended_read, Send, Channel
  <2>2. len \in Nat /\ len <= c.remote_window
        /\ c.extended - len \in Nat /\ c.remote_window - len \in Nat
    BY <1>0, Numbers, ChannelAssumption DEF Smaller, ChannelAssumption
  <2> HIDE DEF len
  <2>3. m \in Message /\ m.type = "ext" /\ m.n = len
    BY <2>2 DEF Ext, Message
  <2> HIDE DEF m
  <2>4. c \in Channel /\ Append(c.sent, m) \in Seq(Message)
    BY <1>0, <2>3 DEF Channel
  <2>5. d \in Channel
    BY ONLY <2>1, <2>2, <2>4 DEF Channel
  <2>6. d.sent = Append(c.sent, m) /\ d.extended = c.extended - len
        /\ d.remote_window = c.remote_window - len
    BY ONLY <2>1, <2>2, <2>4 DEF Channel
  <2>7. /\ SameMachine(c, d) /\ Seen(c, d) /\ d.output = c.output
        /\ d.input = c.input /\ d.local_window = c.local_window
        /\ d.local_consumed = c.local_consumed
    BY ONLY <2>1, <2>4, <2>5 DEF Channel, SameMachine, Seen
  <2>8. Good(e, d, o, w, u, k)
    BY <2>2, <2>3, <2>5, <2>6, <2>7, SendsBytes
  <2> QED BY <2>7, <2>8 DEF SameMachine
<1> QED BY <1>1, <1>2

LEMMA PollGood ==
    ASSUME NEW e, NEW c, NEW o, NEW w, NEW u, NEW k, Good(e, c, o, w, u, k),
           NEW d, d = channel_output_poll(e, c), d # c
    PROVE  Good(e, d, o, w, u, k) /\ Seen(c, d) /\ d.type = "open" /\ c.type = "open"
<1>1. PICK a : a = IF c.istate \in {"open", "drain"}
                   THEN channel_output_poll_input_open(e, c) ELSE c
  OBVIOUS
<1>2. c.type = "open" /\ c.flags \cap {"CLOSE_SENT", "CLOSE_RCVD"} = {}
  BY DEF channel_output_poll
<1>3. d = IF ExtRead(e) /\ "EOF_SENT" \notin a.flags
          THEN channel_output_poll_extended_read(a) ELSE a
  BY <1>1, <1>2 DEF channel_output_poll
<1>4. /\ Good(e, a, o, w, u, k) /\ Seen(c, a) /\ a.type = "open"
      /\ "CLOSE_SENT" \notin a.flags
  <2>1. CASE c.istate \in {"open", "drain"}
    BY <1>1, <1>2, <2>1, PollInput
  <2>2. CASE c.istate \notin {"open", "drain"}
    BY <1>1, <1>2, <2>2 DEF Seen
  <2> QED BY <2>1, <2>2
<1>5. CASE ExtRead(e) /\ "EOF_SENT" \notin a.flags
  <2>1. ~ExtWrite(e)
    BY <1>5 DEF ExtRead, ExtWrite
  <2>2. Good(e, d, o, w, u, k) /\ Seen(a, d) /\ d.type = "open"
    BY <1>3, <1>4, <1>5, <2>1, PollExtended
  <2> QED BY <1>2, <1>4, <2>2 DEF Seen
<1>6. CASE ~(ExtRead(e) /\ "EOF_SENT" \notin a.flags)
  BY <1>2, <1>3, <1>4, <1>6
<1> QED BY <1>5, <1>6

LEMMA ForceClose ==
    ASSUME NEW e, NEW c, NEW o, NEW w, NEW u, NEW k, Good(e, c, o, w, u, k),
           c.type = "open", NEW d, d = channel_force_close(e, c)
    PROVE  /\ Good(e, d, o, w, u, k) /\ d.type = "abandoned"
           /\ d.read = c.read /\ d.forced /\ d.written = c.written
           /\ d.end = c.end \/ (c.end = "no" /\ d.end = "cut")
<1>0. c \in Channel /\ o \in Channel /\ Local(e, c, k)
  BY GoodFacts
<1>1. PICK a : a = [c EXCEPT !.forced = TRUE]
  OBVIOUS
<1>2. PICK a1 : a1 = chan_read_failed(a)
  OBVIOUS
<1>3. PICK a2 : a2 = [a1 EXCEPT !.input = IF a1.istate = "drain" THEN 0 ELSE a1.input]
  OBVIOUS
<1>4. PICK a3 : a3 = chan_ibuf_empty(a2)
  OBVIOUS
<1>5. PICK a4 : a4 = chan_write_failed(a3)
  OBVIOUS
<1>6. d = [a4 EXCEPT !.detach = "none", !.efd = FALSE, !.type = "abandoned"]
  BY <1>1, <1>2, <1>3, <1>4, <1>5 DEF channel_force_close
<1>7. /\ Good(e, a, o, w, u, k) /\ a.type = "open" /\ a.forced = TRUE
      /\ a.read = c.read /\ a.written = c.written /\ a.end = c.end
  <2>1. c \in Channel
    BY <1>0
  <2>2. a \in Channel
    BY ONLY <1>1, <2>1 DEF Channel
  <2>3. /\ a.sent = c.sent /\ SameMachine(c, a) /\ SameBuffers(c, a) /\ SameWindows(c, a)
        /\ a.forced = TRUE /\ a.read = c.read /\ a.written = c.written /\ a.end = c.end
    BY ONLY <1>1, <2>1, <2>2 DEF Channel, SameMachine, SameBuffers, SameWindows
  <2>4. Machines(a) /\ Command(e, a, k) /\ Room(e, a)
    BY <1>0, <2>3
       DEF Local, Machines, Command, Room, SameMachine, SameBuffers, SameWindows, Live
  <2>5. Stages(e, a)
    BY <1>0, <2>3 DEF Local, Stages, SameMachine, SameWindows, Live
  <2>6. Bytes(a, o, w \o c.sent, u) /\ Bytes(o, a, u, w \o c.sent)
    BY <2>3, GoodFacts
       DEF Bytes, Stream, Complete, Window, SameMachine, SameBuffers, SameWindows
  <2> QED BY <2>2, <2>3, <2>4, <2>5, <2>6, Quiet DEF Part, Local, Live, SameMachine
<1>8. Good(e, a1, o, w, u, k) /\ Seen(a, a1) /\ a1.type = "open" /\ a1.istate # "open"
      /\ a1 \in Channel /\ Local(e, a1, k)
  <2>1. Good(e, a1, o, w, u, k) /\ Seen(a, a1) /\ a1.type = "open"
        /\ a1.istate = IF a.istate = "open" THEN "drain" ELSE a.istate
    BY <1>2, <1>7, ReadFailed DEF Live
  <2> QED BY <2>1, GoodFacts
<1>9. /\ Good(e, a2, o, w, u, k) /\ Seen(a1, a2) /\ a2.type = "open"
      /\ a2.istate = a1.istate /\ (a2.istate = "drain" => a2.input = 0)
  <2> DEFINE n == IF a1.istate = "drain" THEN 0 ELSE a1.input
  <2>1. a1 \in Channel /\ n \in Nat /\ n <= a1.input /\ (a1.istate = "drain" => n = 0)
    BY <1>8, Numbers
  <2>2. a2 = [a1 EXCEPT !.input = n]
    BY <1>3
  <2> HIDE DEF n
  <2>3. a2 \in Channel
    BY ONLY <2>1, <2>2 DEF Channel
  <2>4. /\ a2.sent = a1.sent /\ SameMachine(a1, a2) /\ SameWindows(a1, a2)
        /\ a2.input = n /\ a2.output = a1.output /\ a2.extended = a1.extended
        /\ Seen(a1, a2)
    BY ONLY <2>1, <2>2, <2>3 DEF Channel, SameMachine, SameWindows, Seen
  <2>5. Machines(a2) /\ Command(e, a2, k) /\ Room(e, a2)
    BY <1>8, <2>4 DEF Local, Machines, Command, Room, SameMachine, SameWindows, Seen, Live
  <2>6. Stages(e, a2)
    BY <1>8, <2>4 DEF Local, Stages, SameMachine, SameWindows, Seen, Live
  <2>7. Bytes(a1, o, w \o a1.sent, u) /\ Bytes(o, a1, u, w \o a1.sent)
        /\ w \o a1.sent \in Seq(Message)
    BY <1>8, GoodFacts
  <2>8. Bytes(a2, o, w \o a1.sent, u)
    <3>1. a2.forced
      BY <1>7, <1>8, <2>4 DEF Seen
    <3>2. Stream(a2, o, w \o a1.sent)
      <4>1. Total(w \o a1.sent, {"data"}) \in Nat
        BY <2>7, Totals
      <4>2. o.written + o.output + Total(w \o a1.sent, {"data"}) + a1.input <= a1.read
        BY <2>7 DEF Bytes, Stream
      <4>3. a1.input \in Nat /\ a1.read \in Nat /\ o.written \in Nat /\ o.output \in Nat
        BY <1>0, <1>8, Numbers
      <4>4. o.written + o.output + Total(w \o a1.sent, {"data"}) + a2.input <= a2.read
        BY <2>1, <2>4, <4>1, <4>2, <4>3 DEF Seen
      <4> QED BY <3>1, <4>4 DEF Stream
    <3> QED BY <2>4, <2>7, <3>2 DEF Bytes, Complete, Window, SameWindows, Seen
  <2>9. Bytes(o, a2, u, w \o a1.sent)
    BY <2>4, <2>7 DEF Bytes, Stream, Complete, Window, SameMachine, SameWindows, Seen
  <2>10. Good(e, a2, o, w, u, k)
    BY <1>8, <2>3, <2>4, <2>5, <2>6, <2>8, <2>9, Quiet DEF Part, Local, Live, SameMachine
  <2> QED BY <1>8, <2>1, <2>4, <2>10 DEF SameMachine
<1>10. Good(e, a3, o, w, u, k) /\ Seen(a2, a3) /\ a3.type = "open" /\ a3.istate = "closed"
  <2>1. Good(e, a3, o, w, u, k) /\ Seen(a2, a3) /\ a3.type = "open"
        /\ a3.istate = IF a2.input = 0 /\ a2.istate = "drain" THEN "closed" ELSE a2.istate
    BY <1>4, <1>9, IbufEmpty DEF Live
  <2>2. a1.istate \in {"drain", "closed"}
    BY <1>8 DEF Channel
  <2> QED BY <1>9, <2>1, <2>2
<1>11. /\ Good(e, a4, o, w, u, k)
       /\ a4.read = a3.read /\ a4.written = a3.written /\ a4.forced = a3.forced
       /\ a4.end = a3.end \/ (a3.end = "no" /\ a4.end = "cut")
       /\ a4.type = "open" /\ a4.istate = "closed" /\ a4.ostate = "closed"
  BY <1>5, <1>10, WriteFailed DEF Live
<1>12. Good(e, d, o, w, u, k) /\ Seen(a4, d) /\ d.type = "abandoned"
  <2>1. a4 \in Channel /\ Local(e, a4, k) /\ a4.forced
    BY <1>7, <1>8, <1>9, <1>10, <1>11, GoodFacts DEF Seen
  <2>2. a4 \in Channel
    BY <2>1
  <2>3. d \in Channel
    BY ONLY <1>6, <2>2 DEF Channel
  <2>4. /\ d.sent = a4.sent /\ SameBuffers(a4, d) /\ SameWindows(a4, d) /\ Seen(a4, d)
        /\ d.type = "abandoned" /\ d.istate = a4.istate /\ d.ostate = a4.ostate
        /\ d.flags = a4.flags /\ d.detach = "none"
    BY ONLY <1>6, <2>2, <2>3 DEF Channel, SameBuffers, SameWindows, Seen
  <2>5. Machines(d) /\ Room(e, d)
    BY <2>1, <2>4 DEF Local, Machines, Room, SameBuffers, SameWindows, Seen
  <2>6. Stages(e, d) /\ Command(e, d, k)
    BY <1>11, <2>1, <2>4 DEF Local, Stages, Command, SameWindows, Seen, Live
  <2>7. Bytes(d, o, w \o a4.sent, u) /\ Bytes(o, d, u, w \o a4.sent)
    BY <1>11, <2>4, GoodFacts
       DEF Bytes, Stream, Complete, Window, SameBuffers, SameWindows, Seen
  <2> QED BY <1>11, <2>3, <2>4, <2>5, <2>6, <2>7, Quiet DEF Part, Local, Live
<1> QED BY <1>7, <1>8, <1>9, <1>10, <1>11, <1>12 DEF Seen

-----------------------------------------------------------------------------
(* Packets received by an open channel. *)

LEMMA Shorter ==
    ASSUME NEW u \in Seq(Message), u # <<>>, NEW t, t = Tail(u)
    PROVE  /\ t \in Seq(Message) /\ Len(u) = Len(t) + 1 /\ Len(t) \in Nat
           /\ u[1] = Head(u) /\ Head(u) \in Message /\ 1 \in 1 .. Len(u)
           /\ \A i \in 1 .. Len(t) : i + 1 \in 1 .. Len(u) /\ t[i] = u[i + 1]
OBVIOUS

LEMMA TotalsTail ==
    ASSUME NEW u \in Seq(Message), u # <<>>, NEW t, t = Tail(u)
    PROVE  /\ Total(u, {"data"}) =
                (IF Head(u).type = "data" THEN Head(u).n ELSE 0) + Total(t, {"data"})
           /\ Total(u, {"data", "ext"}) =
                (IF Head(u).type \in {"data", "ext"} THEN Head(u).n ELSE 0)
                  + Total(t, {"data", "ext"})
           /\ Total(u, {"adjust", "confirm", "open"}) =
                (IF Head(u).type \in {"adjust", "confirm", "open"} THEN Head(u).n ELSE 0)
                  + Total(t, {"adjust", "confirm", "open"})
BY TotalTail DEF Weight

RcvdMarks(m) ==
    CASE m.type = "eof" -> {"EOF_RCVD"}
      [] m.type = "close" -> {"CLOSE_RCVD"}
      [] OTHER -> {}

\* What the head of the queue says about the sender.
LEMMA HeadFacts ==
    ASSUME NEW e, NEW c, NEW o, NEW w, NEW u, NEW k, Good(e, c, o, w, u, k),
           u # <<>>
    PROVE  /\ Head(u) \in Message /\ "CLOSE_RCVD" \notin c.flags
           /\ Head(u).type = "eof" => "EOF_SENT" \in o.flags
           /\ Head(u).type = "close" =>
                "CLOSE_SENT" \in o.flags /\ o.istate = "closed" /\ o.ostate = "closed"
           /\ Head(u).type = "eow" => o.ostate = "closed"
           /\ Head(u).type \in {"data", "ext", "eof"} => "EOF_RCVD" \notin c.flags
<1>1. u \in Seq(Message) /\ Flags(o, c, u) /\ Local(Peer(e), o, k)
  BY GoodFacts
<1>2. u[1] = Head(u) /\ 1 \in 1 .. Len(u) /\ Head(u) \in Message
  BY <1>1
<1>3. "CLOSE_RCVD" \notin c.flags
  BY <1>1 DEF Flags
<1>4. /\ Head(u).type = "eof" => "EOF_SENT" \in o.flags
      /\ Head(u).type = "close" => "CLOSE_SENT" \in o.flags
      /\ Head(u).type = "eow" => o.ostate = "closed"
      /\ Head(u).type \in {"data", "ext", "eof"} => "EOF_RCVD" \notin c.flags
  BY <1>1, <1>2 DEF Flags
<1> QED BY <1>1, <1>2, <1>3, <1>4 DEF Local, Machines

LEMMA Received ==
    ASSUME NEW e, NEW c, NEW o, NEW w, NEW u, NEW k, Good(e, c, o, w, u, k),
           u # <<>>, Live(c), NEW d \in Channel, Live(d), d.sent = c.sent,
           c.flags \subseteq d.flags, d.flags \subseteq c.flags \cup RcvdMarks(Head(u)),
           c.ostate = "closed" => d.ostate = "closed",
           Part(e, d, o, w \o c.sent, Tail(u), k)
    PROVE  Good(e, d, o, w, Tail(u), k)
<1>0. Typed(e, c, o, w, u, k) /\ System(e, c, o, w \o c.sent, u, k)
  BY DEF Good
<1> DEFINE q == w \o c.sent
           t == Tail(u)
<1>1. /\ t \in Seq(Message) /\ Len(u) = Len(t) + 1 /\ Len(t) \in Nat
      /\ u[1] = Head(u) /\ Head(u) \in Message /\ 1 \in 1 .. Len(u)
      /\ \A i \in 1 .. Len(t) : i + 1 \in 1 .. Len(u) /\ t[i] = u[i + 1]
  BY <1>0, Shorter DEF Typed
<1>2. /\ Part(e, d, o, q, t, k) /\ System(e, c, o, q, u, k)
  BY <1>0
<1> HIDE DEF q, t
<1>3. /\ Ordered(q) /\ Ordered(u) /\ Flags(c, o, q) /\ Flags(o, c, u)
  BY <1>2 DEF System, Direction
<1>4. Ordered(t)
  <2> SUFFICES ASSUME NEW i \in 1 .. Len(t), NEW j \in 1 .. Len(t), i < j
               PROVE  /\ t[i].type # "close"
                      /\ t[i].type = "eof" => t[j].type \notin {"data", "ext", "eof"}
    BY DEF Ordered
  <2>1. i + 1 \in 1 .. Len(u) /\ j + 1 \in 1 .. Len(u) /\ i + 1 < j + 1
        /\ t[i] = u[i + 1] /\ t[j] = u[j + 1]
    BY <1>1
  <2> QED BY <1>3, <2>1 DEF Ordered
<1>5. \A i \in 1 .. Len(t) : u[1].type # "close"
        /\ (u[1].type = "eof" => t[i].type \notin {"data", "ext", "eof"})
  <2> SUFFICES ASSUME NEW i \in 1 .. Len(t)
               PROVE  /\ u[1].type # "close"
                      /\ u[1].type = "eof" => t[i].type \notin {"data", "ext", "eof"}
    OBVIOUS
  <2>1. i + 1 \in 1 .. Len(u) /\ 1 \in 1 .. Len(u) /\ 1 < i + 1 /\ t[i] = u[i + 1]
    BY <1>1
  <2> QED BY <1>3, <2>1 DEF Ordered
<1>6. Flags(o, d, t)
  <2>1. "EOF_RCVD" \in d.flags => "EOF_RCVD" \in c.flags \/ u[1].type = "eof"
    BY <1>1 DEF RcvdMarks
  <2>2. "CLOSE_RCVD" \in d.flags => "CLOSE_RCVD" \in c.flags \/ u[1].type = "close"
    BY <1>1 DEF RcvdMarks
  <2>3. "CLOSE_RCVD" \notin c.flags
    BY <1>1, <1>3 DEF Flags
  <2>4. "CLOSE_RCVD" \in d.flags => "CLOSE_SENT" \in o.flags /\ t = <<>>
    <3> SUFFICES ASSUME "CLOSE_RCVD" \in d.flags
                 PROVE  "CLOSE_SENT" \in o.flags /\ t = <<>>
      OBVIOUS
    <3>1. u[1].type = "close"
      BY <2>2, <2>3
    <3>2. "CLOSE_SENT" \in o.flags
      BY <1>1, <1>3, <3>1 DEF Flags
    <3>3. Len(t) = 0
      <4>1. Len(t) # 0 => 1 \in 1 .. Len(t)
        BY <1>1
      <4> QED BY <1>5, <3>1, <4>1
    <3> QED BY <1>1, <3>2, <3>3
  <2>5. "EOF_RCVD" \in d.flags =>
          /\ "EOF_SENT" \in o.flags
          /\ \A i \in 1 .. Len(t) : t[i].type \notin {"data", "ext", "eof"}
    <3>1. CASE "EOF_RCVD" \in c.flags
      BY <1>1, <1>3, <3>1 DEF Flags
    <3>2. CASE u[1].type = "eof"
      BY <1>1, <1>3, <1>5, <3>2 DEF Flags
    <3> QED BY <2>1, <3>1, <3>2
  <2>6. \A i \in 1 .. Len(t) :
          /\ t[i].type = "eof" => "EOF_SENT" \in o.flags
          /\ t[i].type = "close" => "CLOSE_SENT" \in o.flags
          /\ t[i].type = "eow" => o.ostate = "closed"
    BY <1>1, <1>3 DEF Flags
  <2> QED BY <2>4, <2>5, <2>6 DEF Flags
<1>7. Flags(d, o, q)
  BY <1>3 DEF Flags
<1>8. Shake(e, d, o, q, t)
  <2>1. (\A i \in 1 .. Len(u) : u[i].type \notin Setup)
        => (\A i \in 1 .. Len(t) : t[i].type \notin Setup)
    BY <1>1
  <2>2. ~Refused(c) /\ ~Refused(d) /\ u # <<>>
    BY DEF Live, Refused
  <2>3. CASE e = "client"
    <3>1. o.type # "none" /\ Opened(c, o, q, u)
      BY <1>2, <2>3 DEF System, Shake, Handshake, Live
    <3>2. Opened(d, o, q, t)
      BY <2>1, <2>2, <3>1 DEF Opened
    <3> QED BY <2>3, <3>1, <3>2 DEF Shake, Handshake, Live
  <2>4. CASE e # "client"
    <3>1. o.type \notin {"none", "opening"} /\ Opened(o, c, u, q)
      BY <1>2, <2>2, <2>4 DEF System, Shake, Handshake, Opening, Live
    <3>2. Opened(o, d, t, q)
      BY <2>1, <2>2, <3>1 DEF Opened, Live
    <3> QED BY <2>4, <3>1, <3>2 DEF Shake, Handshake, Live
  <2> QED BY <2>3, <2>4
<1>9. System(e, d, o, q, t, k)
  BY <1>2, <1>3, <1>4, <1>6, <1>7, <1>8 DEF System, Direction, Part
<1>10. Typed(e, d, o, w, t, k)
  BY <1>0, <1>1 DEF Typed
<1> QED BY <1>9, <1>10 DEF Good, q, t

\* What a packet leaves when it is only taken off the queue.
LEMMA Taken ==
    ASSUME NEW e, NEW c, NEW o, NEW w, NEW u, NEW k, Good(e, c, o, w, u, k),
           u # <<>>, NEW t, t = Tail(u)
    PROVE  /\ Window(c, o, w \o c.sent, t) /\ Window(o, c, t, w \o c.sent)
           /\ Head(u).type # "data" \/ c.ostate = "closed" => Stream(o, c, t)
<1>0. c \in Channel /\ o \in Channel /\ u \in Seq(Message)
      /\ Bytes(c, o, w \o c.sent, u) /\ Bytes(o, c, u, w \o c.sent)
      /\ w \o c.sent \in Seq(Message)
  BY GoodFacts
<1> DEFINE q == w \o c.sent
<1>1. q \in Seq(Message) /\ Bytes(c, o, q, u) /\ Bytes(o, c, u, q)
      /\ Window(c, o, q, u) /\ Window(o, c, u, q) /\ Stream(o, c, u)
  BY <1>0 DEF Bytes
<1>2. t \in Seq(Message) /\ Head(u) \in Message /\ Head(u).n \in Nat
  BY <1>0, Shorter DEF Message
<1> HIDE DEF q
<1>3. /\ Total(t, {"data"}) \in Nat /\ Total(t, {"data", "ext"}) \in Nat
      /\ Total(t, {"adjust", "confirm", "open"}) \in Nat
      /\ Total(u, {"data"}) \in Nat /\ Total(u, {"data", "ext"}) \in Nat
      /\ Total(u, {"adjust", "confirm", "open"}) \in Nat
      /\ Total(q, {"data", "ext"}) \in Nat
      /\ Total(q, {"adjust", "confirm", "open"}) \in Nat
  BY <1>0, <1>1, <1>2, Totals
<1>4. /\ Total(u, {"data"}) =
           (IF Head(u).type = "data" THEN Head(u).n ELSE 0) + Total(t, {"data"})
      /\ Total(u, {"data", "ext"}) =
           (IF Head(u).type \in {"data", "ext"} THEN Head(u).n ELSE 0)
             + Total(t, {"data", "ext"})
      /\ Total(u, {"adjust", "confirm", "open"}) =
           (IF Head(u).type \in {"adjust", "confirm", "open"} THEN Head(u).n ELSE 0)
             + Total(t, {"adjust", "confirm", "open"})
  BY <1>0, TotalsTail
<1>6. /\ c.remote_window \in Nat /\ o.remote_window \in Nat /\ c.local_window \in Nat
      /\ o.local_window \in Nat /\ c.written \in Nat /\ c.output \in Nat
      /\ o.input \in Nat /\ o.read \in Nat
  BY <1>0, Numbers
<1> DEFINE td == Total(t, {"data"})
           te == Total(t, {"data", "ext"})
           ta == Total(t, {"adjust", "confirm", "open"})
           ud == Total(u, {"data"})
           ue == Total(u, {"data", "ext"})
           ua == Total(u, {"adjust", "confirm", "open"})
           qe == Total(q, {"data", "ext"})
           qa == Total(q, {"adjust", "confirm", "open"})
<1>7. /\ td \in Nat /\ te \in Nat /\ ta \in Nat /\ ud \in Nat /\ ue \in Nat
      /\ ua \in Nat /\ qe \in Nat /\ qa \in Nat
      /\ td <= ud /\ te <= ue /\ ta <= ua
      /\ Head(u).type # "data" => td = ud
  <2>1. PICK h : h = Head(u).n
    OBVIOUS
  <2>2. h \in Nat /\ 0 \in Nat
    BY <1>2, <2>1
  <2>3. \E x, y, z \in {0, h} :
          /\ ud = x + td /\ ue = y + te /\ ua = z + ta
          /\ Head(u).type # "data" => x = 0
    BY <1>4, <2>1
  <2>4. /\ td \in Nat /\ te \in Nat /\ ta \in Nat /\ ud \in Nat /\ ue \in Nat
        /\ ua \in Nat /\ qe \in Nat /\ qa \in Nat
    BY <1>3
  <2> HIDE DEF td, te, ta, ud, ue, ua, qe, qa
  <2> QED BY ONLY <2>2, <2>3, <2>4
<1> HIDE DEF td, te, ta, ud, ue, ua, qe, qa
<1>8. Window(c, o, q, t)
  <2>1. c.remote_window + qe + ua <= o.local_window
        => c.remote_window + qe + ta <= o.local_window
    BY ONLY <1>6, <1>7
  <2> QED BY <1>1, <2>1 DEF Window, qe, ua, ta
<1>9. Window(o, c, t, q)
  <2>1. o.remote_window + ue + qa <= c.local_window
        => o.remote_window + te + qa <= c.local_window
    BY ONLY <1>6, <1>7
  <2> QED BY <1>1, <2>1 DEF Window, qa, ue, te
<1>10. Head(u).type # "data" \/ c.ostate = "closed" => Stream(o, c, t)
  <2>1. c.written + c.output + ud + o.input <= o.read
        => c.written + c.output + td + o.input <= o.read
    BY ONLY <1>6, <1>7
  <2> QED BY <1>1, <1>7, <2>1 DEF Stream, td, ud
<1> QED BY <1>8, <1>9, <1>10 DEF q

\* A packet that only moves the two state machines.
LEMMA RcvdControl ==
    ASSUME NEW e, NEW c, NEW o, NEW w, NEW u, NEW k, Good(e, c, o, w, u, k),
           u # <<>>, Live(c), Head(u).type # "data" \/ c.ostate = "closed",
           NEW d \in Channel, d.sent = c.sent, d.type = c.type,
           SameBuffers(c, d), SameWindows(c, d), Seen(c, d),
           c.flags \subseteq d.flags, d.flags \subseteq c.flags \cup RcvdMarks(Head(u)),
           c.ostate = "closed" <=> d.ostate = "closed",
           d.istate = "closed" => c.istate = "closed" \/ o.ostate = "closed",
           Local(e, d, k)
    PROVE  Good(e, d, o, w, Tail(u), k)
<1> DEFINE q == w \o c.sent
           t == Tail(u)
<1>1. Bytes(c, o, q, u) /\ Bytes(o, c, u, q)
  BY GoodFacts
<1>2. Window(c, o, q, t) /\ Window(o, c, t, q) /\ Stream(o, c, t)
  BY Taken
<1>3. Live(d)
  BY DEF Live
<1> HIDE DEF q, t
<1>4. Bytes(d, o, q, t)
  BY <1>1, <1>2 DEF Bytes, Stream, Complete, Window, SameBuffers, SameWindows, Seen
<1>5. Bytes(o, d, t, q)
  BY <1>1, <1>2 DEF Bytes, Stream, Complete, Window, SameBuffers, SameWindows, Seen
<1>6. Part(e, d, o, q, t, k)
  BY <1>4, <1>5 DEF Part
<1> QED BY <1>3, <1>6, Received DEF q, t

LEMMA RcvdIgnored ==
    ASSUME NEW e, NEW c, NEW o, NEW w, NEW u, NEW k, Good(e, c, o, w, u, k),
           u # <<>>, Live(c), Head(u).type # "data" \/ c.ostate = "closed"
    PROVE  Good(e, c, o, w, Tail(u), k)
<1>1. c \in Channel /\ Local(e, c, k)
  BY GoodFacts
<1>2. SameBuffers(c, c) /\ SameWindows(c, c) /\ Seen(c, c)
  BY DEF SameBuffers, SameWindows, Seen
<1> QED BY <1>1, <1>2, RcvdControl

\* Data and standard error stay within the window.
LEMMA WithinWindow ==
    ASSUME NEW e, NEW c, NEW o, NEW w, NEW u, NEW k, Good(e, c, o, w, u, k),
           u # <<>>, c.type = "open", Head(u).type \in {"data", "ext"},
           NEW n, n = Head(u).n, NEW q, q = w \o c.sent, NEW t, t = Tail(u)
    PROVE  /\ n \in Nat /\ n <= c.local_window
           /\ o.remote_window + Total(t, {"data", "ext"})
                + Total(q, {"adjust", "confirm", "open"}) <= c.local_window - n
<1>1. c \in Channel /\ o \in Channel /\ u \in Seq(Message) /\ q \in Seq(Message)
      /\ Bytes(o, c, u, q)
  BY GoodFacts
<1>2. t \in Seq(Message) /\ n \in Nat
  BY <1>1, Shorter DEF Message
<1> DEFINE te == Total(t, {"data", "ext"})
           ue == Total(u, {"data", "ext"})
           qa == Total(q, {"adjust", "confirm", "open"})
<1>3. te \in Nat /\ ue \in Nat /\ qa \in Nat /\ ue = n + te
  BY <1>1, <1>2, Totals, TotalsTail
<1>4. o.remote_window + ue + qa <= c.local_window
  BY <1>1 DEF Bytes, Window
<1>5. o.remote_window \in Nat /\ c.local_window \in Nat
  BY <1>1, Numbers
<1> HIDE DEF te, ue, qa
<1>6. n <= c.local_window /\ o.remote_window + te + qa <= c.local_window - n
  BY ONLY <1>2, <1>3, <1>4, <1>5
<1> QED BY <1>2, <1>6 DEF te, qa

LEMMA RcvdData ==
    ASSUME NEW e, NEW c, NEW o, NEW w, NEW u, NEW k, Good(e, c, o, w, u, k),
           u # <<>>, Live(c), Head(u).type = "data",
           NEW d, d = channel_input_data(c, Head(u).n)
    PROVE  /\ Good(e, d, o, w, Tail(u), k) /\ Seen(c, d) /\ d.type = c.type
<1>0. c \in Channel /\ o \in Channel /\ Local(e, c, k) /\ u \in Seq(Message)
      /\ Bytes(c, o, w \o c.sent, u) /\ Bytes(o, c, u, w \o c.sent)
      /\ w \o c.sent \in Seq(Message)
  BY GoodFacts
<1>1. CASE c.type # "open"
  <2>1. d = c /\ c.ostate = "closed"
    BY <1>0, <1>1 DEF channel_input_data, Live, Local, Stages
  <2> QED BY <2>1, RcvdIgnored DEF Seen
<1>2. CASE c.type = "open"
  <2>1. c.ostate \in {"open", "closed"}
    <3>1. "EOF_RCVD" \notin c.flags /\ "CLOSE_RCVD" \notin c.flags
      BY HeadFacts
    <3> QED BY <1>0, <3>1 DEF Local, Machines, Channel
  <2> DEFINE n == Head(u).n
             t == Tail(u)
             q == w \o c.sent
             out == IF c.ostate = "open" THEN n ELSE 0
             con == IF c.ostate = "open" THEN 0 ELSE n
  <2>2. /\ n \in Nat /\ n <= c.local_window
        /\ o.remote_window + Total(t, {"data", "ext"})
             + Total(q, {"adjust", "confirm", "open"}) <= c.local_window - n
    BY <1>2, WithinWindow
  <2>3. out \in Nat /\ con \in Nat /\ n = out + con /\ (c.ostate = "open" => out = n)
    BY <2>2
  <2>4. d = IF c.ostate = "open"
            THEN [c EXCEPT !.local_window = c.local_window - n, !.output = c.output + n]
            ELSE [c EXCEPT !.local_window = c.local_window - n,
                           !.local_consumed = c.local_consumed + n]
    BY <1>2 DEF channel_input_data
  <2>5. t \in Seq(Message)
    BY <1>0, Shorter
  <2>6. Window(c, o, q, t)
    BY Taken
  <2>7. c.ostate = "open" => Total(u, {"data"}) = out + Total(t, {"data"})
    BY <1>0, <2>3, TotalsTail
  <2>8. Total(u, {"data"}) \in Nat /\ Total(t, {"data"}) \in Nat
        /\ Total(u, {"data"}) = n + Total(t, {"data"})
    BY <1>0, <2>5, Totals, TotalsTail
  <2>9. c \in Channel /\ Bytes(c, o, q, u) /\ Bytes(o, c, u, q)
    BY <1>0
  <2>10. /\ c.local_window - n \in Nat /\ c.output + out \in Nat
         /\ c.local_consumed + con \in Nat
    BY <1>0, <2>2, <2>3, Numbers
  <2>a. q = w \o c.sent /\ t = Tail(u)
    OBVIOUS
  <2> HIDE DEF n, t, q, out, con
  <2>11. /\ d \in Channel /\ d.sent = c.sent /\ SameMachine(c, d) /\ Seen(c, d)
         /\ d.input = c.input /\ d.extended = c.extended
         /\ d.remote_window = c.remote_window /\ d.local_window = c.local_window - n
         /\ d.output = IF c.ostate = "open" THEN c.output + n ELSE c.output
         /\ d.local_consumed =
              IF c.ostate = "open" THEN c.local_consumed ELSE c.local_consumed + n
    <3>0. c.output + n \in Nat /\ c.local_consumed + n \in Nat
      BY <1>0, <2>2, Numbers
    <3>1. CASE c.ostate = "open"
      <4>1. d = [c EXCEPT !.local_window = c.local_window - n, !.output = c.output + n]
        BY <2>4, <3>1
      <4>2. d \in Channel
        BY ONLY <2>9, <2>10, <3>0, <4>1 DEF Channel
      <4> QED BY ONLY <2>9, <3>1, <4>1, <4>2 DEF Channel, SameMachine, Seen
    <3>2. CASE c.ostate # "open"
      <4>1. d = [c EXCEPT !.local_window = c.local_window - n,
                          !.local_consumed = c.local_consumed + n]
        BY <2>4, <3>2
      <4>2. d \in Channel
        BY ONLY <2>9, <2>10, <3>0, <4>1 DEF Channel
      <4> QED BY ONLY <2>9, <3>2, <4>1, <4>2 DEF Channel, SameMachine, Seen
    <3> QED BY <3>1, <3>2
  <2>12. /\ d.sent = c.sent /\ SameMachine(c, d) /\ Seen(c, d)
         /\ d.input = c.input /\ d.extended = c.extended
         /\ d.remote_window = c.remote_window
         /\ d.local_window = c.local_window - n /\ d.output = c.output + out
         /\ d.local_consumed = c.local_consumed + con
    <3>1. c.output + 0 = c.output /\ c.local_consumed + 0 = c.local_consumed
      BY <1>0, Numbers
    <3> QED BY <2>11, <3>1 DEF out, con
  <2>13. Local(e, d, k)
    <3>1. Machines(d) /\ Stages(e, d) /\ Command(e, d, k)
      BY <1>0, <1>2, <2>12 DEF Local, Machines, Stages, Command, SameMachine, Seen, Live
    <3>2. Room(e, d)
      <4> DEFINE ext == IF ExtWrite(e) THEN c.extended ELSE 0
      <4>1. ext \in Nat /\ c.local_window \in Nat /\ c.local_consumed \in Nat
            /\ c.output \in Nat
        BY <1>0, Numbers
      <4>2. c.local_window + c.local_consumed + c.output + ext <= WindowMax
        BY <1>0 DEF Local, Room
      <4>3. ext = IF ExtWrite(e) THEN d.extended ELSE 0
        BY <2>12
      <4> HIDE DEF ext
      <4>4. d.local_window + d.local_consumed + d.output + ext
              = c.local_window + c.local_consumed + c.output + ext
        BY ONLY <2>2, <2>3, <2>12, <4>1
      <4> QED BY <4>2, <4>3, <4>4 DEF Room
    <3> QED BY <3>1, <3>2 DEF Local
  <2>14. Bytes(d, o, q, t)
    BY <2>6, <2>9, <2>12 DEF Bytes, Stream, Complete, Window, Seen, SameMachine
  <2>15. Stream(o, d, t)
    <3> DEFINE ud == Total(u, {"data"})
               td == Total(t, {"data"})
    <3>1. ud \in Nat /\ td \in Nat /\ ud = n + td /\ (c.ostate = "open" => ud = out + td)
      BY <2>7, <2>8
    <3>2. Stream(o, c, u)
      BY <2>9 DEF Bytes
    <3>3. c.written \in Nat /\ c.output \in Nat /\ o.input \in Nat /\ o.read \in Nat
      BY <1>0, Numbers
    <3>4. /\ c.written + c.output + ud + o.input <= o.read
          /\ c.ostate # "closed" /\ ~o.forced =>
               /\ c.written + c.output + ud + o.input = o.read
               /\ o.istate = "closed" => o.input = 0
      BY <3>2 DEF Stream
    <3> HIDE DEF ud, td
    <3>5. c.written + (c.output + out) + td + o.input <= o.read
      <4>1. out <= n
        BY <2>3
      <4>2. out \in Nat /\ n \in Nat
        BY <2>2, <2>3
      <4> QED BY ONLY <3>1, <3>3, <3>4, <4>1, <4>2
    <3>6. c.ostate = "open" => c.written + (c.output + out) + td + o.input
                                 = c.written + c.output + ud + o.input
      BY <2>3, <3>1, <3>3
    <3>7. d.ostate = c.ostate /\ d.written = c.written
      BY <2>12 DEF SameMachine, Seen
    <3> QED BY <2>1, <2>12, <3>4, <3>5, <3>6, <3>7 DEF Stream, td
  <2>16. Window(o, d, t, q) /\ Complete(o, d)
    BY <2>2, <2>9, <2>12 DEF Bytes, Window, Complete, Seen
  <2>17. Part(e, d, o, q, t, k)
    BY <2>13, <2>14, <2>15, <2>16 DEF Part, Bytes
  <2>18. Good(e, d, o, w, t, k)
    <3>1. Live(d) /\ d.flags = c.flags /\ d.ostate = c.ostate
      BY <1>2, <2>12 DEF SameMachine, Live
    <3> QED BY <2>11, <2>12, <2>17, <2>a, <3>1, Received
  <2> QED BY <2>12, <2>18, <2>a DEF SameMachine
<1> QED BY <1>1, <1>2

LEMMA RcvdExtended ==
    ASSUME NEW e, NEW c, NEW o, NEW w, NEW u, NEW k, Good(e, c, o, w, u, k),
           u # <<>>, Live(c), Head(u).type = "ext",
           NEW d, d = channel_input_extended_data(e, c, Head(u).n)
    PROVE  /\ Good(e, d, o, w, Tail(u), k) /\ Seen(c, d) /\ d.type = c.type
<1>0. c \in Channel /\ o \in Channel /\ Local(e, c, k)
      /\ Bytes(c, o, w \o c.sent, u) /\ Bytes(o, c, u, w \o c.sent)
  BY GoodFacts
<1>1. CASE d = c
  BY <1>1, RcvdIgnored DEF Seen
<1>2. CASE d # c
  <2> DEFINE n == Head(u).n
             t == Tail(u)
             q == w \o c.sent
  <2>1. /\ c.type = "open" /\ ExtWrite(e)
        /\ d = [c EXCEPT !.extended = c.extended + n, !.local_window = c.local_window - n]
    BY <1>2 DEF channel_input_extended_data
  <2>2. /\ n \in Nat /\ n <= c.local_window
        /\ o.remote_window + Total(t, {"data", "ext"})
             + Total(q, {"adjust", "confirm", "open"}) <= c.local_window - n
    BY <2>1, WithinWindow
  <2>3. Window(c, o, q, t) /\ Stream(o, c, t)
    BY Taken
  <2>4. c \in Channel /\ Bytes(c, o, q, u) /\ Bytes(o, c, u, q)
    BY <1>0
  <2>5. c.local_window - n \in Nat /\ c.extended + n \in Nat
    BY <1>0, <2>2, Numbers
  <2>a. q = w \o c.sent /\ t = Tail(u)
    OBVIOUS
  <2> HIDE DEF n, t, q
  <2>6. d \in Channel
    BY ONLY <2>1, <2>4, <2>5 DEF Channel
  <2>7. /\ d.sent = c.sent /\ SameMachine(c, d) /\ Seen(c, d)
        /\ d.input = c.input /\ d.output = c.output
        /\ d.remote_window = c.remote_window /\ d.local_consumed = c.local_consumed
        /\ d.local_window = c.local_window - n /\ d.extended = c.extended + n
    BY ONLY <2>1, <2>4, <2>6 DEF Channel, SameMachine, Seen
  <2>8. Local(e, d, k)
    <3>1. Machines(d) /\ Stages(e, d) /\ Command(e, d, k)
      BY <1>0, <2>1, <2>7 DEF Local, Machines, Stages, Command, SameMachine, Seen, Live
    <3>2. Room(e, d)
      <4>1. c.extended \in Nat /\ c.local_window \in Nat /\ c.local_consumed \in Nat
            /\ c.output \in Nat
        BY <1>0, Numbers
      <4>2. c.local_window + c.local_consumed + c.output + c.extended <= WindowMax
        BY <1>0, <2>1 DEF Local, Room
      <4>3. d.local_window + d.local_consumed + d.output + d.extended
              = c.local_window + c.local_consumed + c.output + c.extended
        BY ONLY <2>2, <2>7, <4>1
      <4> QED BY <2>1, <4>2, <4>3 DEF Room
    <3> QED BY <3>1, <3>2 DEF Local
  <2>9. Bytes(d, o, q, t)
    BY <2>3, <2>4, <2>7 DEF Bytes, Stream, Complete, Window, Seen, SameMachine
  <2>10. Stream(o, d, t) /\ Complete(o, d)
    BY <2>3, <2>4, <2>7 DEF Bytes, Stream, Complete, Seen, SameMachine
  <2>11. Window(o, d, t, q)
    BY <2>2, <2>7 DEF Window
  <2>12. Part(e, d, o, q, t, k)
    BY <2>8, <2>9, <2>10, <2>11 DEF Part, Bytes
  <2>13. Good(e, d, o, w, t, k)
    <3>1. Live(d) /\ d.flags = c.flags /\ d.ostate = c.ostate
      BY <2>1, <2>7 DEF SameMachine, Live
    <3> QED BY <2>6, <2>7, <2>12, <2>a, <3>1, Received
  <2> QED BY <2>7, <2>13, <2>a DEF SameMachine
<1> QED BY <1>1, <1>2

LEMMA RcvdAdjust ==
    ASSUME NEW e, NEW c, NEW o, NEW w, NEW u, NEW k, Good(e, c, o, w, u, k),
           u # <<>>, Live(c), Head(u).type = "adjust",
           NEW d, d = channel_input_window_adjust(c, Head(u).n)
    PROVE  /\ Good(e, d, o, w, Tail(u), k) /\ Seen(c, d) /\ d.type = c.type
<1>0. c \in Channel /\ o \in Channel /\ Local(e, c, k) /\ u \in Seq(Message)
      /\ Bytes(c, o, w \o c.sent, u) /\ Bytes(o, c, u, w \o c.sent)
      /\ w \o c.sent \in Seq(Message)
  BY GoodFacts
<1> DEFINE n == Head(u).n
           t == Tail(u)
           q == w \o c.sent
           ta == Total(t, {"adjust", "confirm", "open"})
           ua == Total(u, {"adjust", "confirm", "open"})
           qe == Total(q, {"data", "ext"})
<1>1. t \in Seq(Message) /\ n \in Nat
  BY <1>0, Shorter DEF Message
<1>2. ta \in Nat /\ ua \in Nat /\ qe \in Nat /\ ua = n + ta
  BY <1>0, <1>1, Totals, TotalsTail
<1>3. d = [c EXCEPT !.remote_window = c.remote_window + n]
  BY DEF channel_input_window_adjust
<1>4. Window(o, c, t, q) /\ Stream(o, c, t)
  BY Taken
<1>5. c \in Channel /\ Bytes(c, o, q, u) /\ Bytes(o, c, u, q)
  BY <1>0
<1>6. c.remote_window + n \in Nat /\ c.remote_window \in Nat /\ o.local_window \in Nat
  BY <1>0, <1>1, Numbers
<1>a. q = w \o c.sent /\ t = Tail(u)
  OBVIOUS
<1> HIDE DEF n, t, q
<1>7. d \in Channel
  BY ONLY <1>3, <1>5, <1>6 DEF Channel
<1>8. /\ d.sent = c.sent /\ SameMachine(c, d) /\ SameBuffers(c, d) /\ Seen(c, d)
      /\ d.local_window = c.local_window /\ d.local_consumed = c.local_consumed
      /\ d.remote_window = c.remote_window + n
  BY ONLY <1>3, <1>5, <1>7 DEF Channel, SameMachine, SameBuffers, Seen
<1>9. Local(e, d, k)
  BY <1>0, <1>8
     DEF Local, Machines, Stages, Command, Room, SameMachine, SameBuffers, Seen, Live
<1>10. Window(d, o, q, t)
  <2>1. Window(c, o, q, u)
    BY <1>5 DEF Bytes
  <2>2. o.type \in {"larval", "open", "opening", "connecting"} =>
          c.remote_window + qe + ua <= o.local_window
    BY <2>1 DEF Window
  <2> HIDE DEF ta, ua, qe
  <2>3. (c.remote_window + n) + qe + ta = c.remote_window + qe + ua
    BY <1>1, <1>2, <1>6
  <2>4. o.type \in {"larval", "open", "opening", "connecting"} =>
          d.remote_window + qe + ta <= o.local_window
    BY <1>8, <2>2, <2>3
  <2> QED BY <2>4 DEF Window, qe, ta
<1> HIDE DEF ta, ua, qe
<1>11. Bytes(d, o, q, t)
  BY <1>5, <1>8, <1>10 DEF Bytes, Stream, Complete, Seen, SameMachine, SameBuffers
<1>12. Bytes(o, d, t, q)
  BY <1>4, <1>5, <1>8
     DEF Bytes, Stream, Complete, Window, Seen, SameMachine, SameBuffers
<1>13. Part(e, d, o, q, t, k)
  BY <1>9, <1>11, <1>12 DEF Part
<1>14. Live(d) /\ d.flags = c.flags /\ d.ostate = c.ostate
  BY <1>8 DEF SameMachine, Live
<1>15. Good(e, d, o, w, t, k)
  BY <1>7, <1>8, <1>13, <1>14, <1>a, Received
<1> QED BY <1>8, <1>15, <1>a DEF SameMachine

LEMMA RcvdEow ==
    ASSUME NEW e, NEW c, NEW o, NEW w, NEW u, NEW k, Good(e, c, o, w, u, k),
           u # <<>>, Live(c), Head(u).type = "eow", NEW d, d = chan_rcvd_eow(c)
    PROVE  /\ Good(e, d, o, w, Tail(u), k) /\ Seen(c, d) /\ d.type = c.type
<1>0. c \in Channel /\ Local(e, c, k) /\ o.ostate = "closed"
  BY GoodFacts, HeadFacts
<1>1. CASE d = c
  BY <1>1, RcvdIgnored DEF Seen
<1>2. CASE d # c
  <2>1. d = [c EXCEPT !.istate = "closed"] /\ c.istate = "open"
    BY <1>2 DEF chan_rcvd_eow
  <2>2. c \in Channel
    BY <1>0
  <2>3. d \in Channel
    BY ONLY <2>1, <2>2 DEF Channel
  <2>4. /\ d.sent = c.sent /\ d.type = c.type /\ d.ostate = c.ostate /\ d.flags = c.flags
        /\ d.detach = c.detach /\ d.istate = "closed"
        /\ SameBuffers(c, d) /\ SameWindows(c, d) /\ Seen(c, d)
    BY ONLY <2>1, <2>2, <2>3 DEF Channel, SameBuffers, SameWindows, Seen
  <2>5. Local(e, d, k)
    BY <1>0, <2>1, <2>4
       DEF Local, Machines, Stages, Command, Room, SameBuffers, SameWindows, Seen, Live
  <2> QED BY <1>0, <2>3, <2>4, <2>5, RcvdControl
<1> QED BY <1>1, <1>2

LEMMA RcvdIeof ==
    ASSUME NEW e, NEW c, NEW o, NEW w, NEW u, NEW k, Good(e, c, o, w, u, k),
           u # <<>>, Live(c), Head(u).type = "eof", NEW d, d = chan_rcvd_ieof(e, c)
    PROVE  /\ Good(e, d, o, w, Tail(u), k) /\ d.type = c.type
           /\ d.read = c.read /\ d.written = c.written /\ d.forced = c.forced
           /\ d.end = c.end \/ (c.end = "no" /\ d.end = "eof")
<1>0. c \in Channel /\ Local(e, c, k)
  BY GoodFacts
<1> DEFINE fl == c.flags \cup {"EOF_RCVD"}
           os == IF c.ostate = "open" THEN "drain" ELSE c.ostate
<1>1. PICK a : a = [c EXCEPT !.flags = fl, !.ostate = os]
  OBVIOUS
<1>2. d = IF a.ostate = "drain" /\ a.output = 0 /\ ~CHANNEL_EFD_OUTPUT_ACTIVE(e, a)
          THEN chan_obuf_empty(a) ELSE a
  BY <1>1 DEF chan_rcvd_ieof
<1>3. c \in Channel /\ os \in {"drain", "closed"} /\ (os = "closed" <=> c.ostate = "closed")
      /\ fl \in SUBSET {"EOF_SENT", "EOF_RCVD", "CLOSE_SENT", "CLOSE_RCVD"}
      /\ fl = c.flags \cup RcvdMarks(Head(u)) /\ fl = c.flags \cup {"EOF_RCVD"}
  <2>1. c.ostate \in {"open", "drain", "closed"}
        /\ c.flags \in SUBSET {"EOF_SENT", "EOF_RCVD", "CLOSE_SENT", "CLOSE_RCVD"}
    BY <1>0 DEF Channel
  <2>2. RcvdMarks(Head(u)) = {"EOF_RCVD"}
    BY DEF RcvdMarks
  <2> QED BY <1>0, <2>1, <2>2
<1> HIDE DEF fl, os
<1>4. a \in Channel
  BY ONLY <1>1, <1>3 DEF Channel
<1>5. /\ a.sent = c.sent /\ a.type = c.type /\ a.istate = c.istate /\ a.ostate = os
      /\ a.flags = fl /\ a.detach = c.detach
      /\ SameBuffers(c, a) /\ SameWindows(c, a) /\ Seen(c, a)
  BY ONLY <1>1, <1>3, <1>4 DEF Channel, SameBuffers, SameWindows, Seen
<1>6. Local(e, a, k)
  <2>1. Machines(a)
    BY <1>0, <1>3, <1>5 DEF Local, Machines, Seen
  <2>2. Stages(e, a)
    BY <1>0, <1>3, <1>5 DEF Local, Stages, SameWindows, Seen, Live
  <2>3. Command(e, a, k) /\ Room(e, a)
    BY <1>0, <1>5 DEF Local, Command, Room, SameBuffers, SameWindows, Seen, Live
  <2> QED BY <2>1, <2>2, <2>3 DEF Local
<1>7. Good(e, a, o, w, Tail(u), k)
  <2>1. c.flags \subseteq a.flags /\ a.flags \subseteq c.flags \cup RcvdMarks(Head(u))
    BY <1>3, <1>5
  <2> QED BY <1>3, <1>4, <1>5, <1>6, <2>1, RcvdControl
<1>8. CASE d = a
  BY <1>5, <1>7, <1>8 DEF Seen
<1>9. CASE d # a
  <2>1. Live(a) /\ a.output = 0 /\ a.ostate = "drain" /\ d = chan_obuf_empty(a)
    BY <1>2, <1>5, <1>9 DEF Live
  <2>2. /\ Good(e, d, o, w, Tail(u), k)
        /\ d.read = a.read /\ d.written = a.written /\ d.forced = a.forced
        /\ a.end = "no" /\ d.end = "eof" /\ d.type = a.type
    BY <1>7, <2>1, ObufEmpty
  <2> QED BY <1>5, <2>2 DEF Seen
<1> QED BY <1>8, <1>9

\* Input that was drained ends before the peer's CLOSE is acted upon.
EndInput(c) == [chan_send_eof2(c) EXCEPT !.istate = "closed"]

LEMMA RcvdOcloseEof ==
    ASSUME NEW e, NEW c, NEW o, NEW w, NEW u, NEW k, Good(e, c, o, w, u, k),
           Live(c), c.istate = "drain", o.ostate = "closed",
           NEW d, d = EndInput(c)
    PROVE  /\ Good(e, d, o, w, u, k) /\ Seen(c, d) /\ d.type = c.type
<1>0. c \in Channel /\ Local(e, c, k) /\ Bytes(c, o, w \o c.sent, u)
      /\ Bytes(o, c, u, w \o c.sent) /\ w \o c.sent \in Seq(Message)
  BY GoodFacts
<1>1. "CLOSE_SENT" \notin c.flags /\ "EOF_SENT" \notin c.flags
  BY <1>0 DEF Local, Machines
<1> DEFINE fl == c.flags \cup {"EOF_SENT"}
           se == Append(c.sent, Eof)
<1>2. d = [c EXCEPT !.sent = se, !.flags = fl, !.istate = "closed"]
  BY <1>0 DEF EndInput, chan_send_eof2, Send, Channel
<1>3. Eof \in Message /\ Eof.type = "eof" /\ Marks(Eof) = {"EOF_SENT"}
  BY DEF Eof, Message, Marks
<1>4. /\ c \in Channel /\ se \in Seq(Message)
      /\ fl \in SUBSET {"EOF_SENT", "EOF_RCVD", "CLOSE_SENT", "CLOSE_RCVD"}
  BY <1>0, <1>3 DEF Channel
<1>5. fl = c.flags \cup {"EOF_SENT"} /\ se = Append(c.sent, Eof)
  OBVIOUS
<1> HIDE DEF fl, se
<1>6. d \in Channel
  BY ONLY <1>2, <1>4 DEF Channel
<1>7. /\ d.sent = se /\ d.type = c.type /\ d.istate = "closed" /\ d.ostate = c.ostate
      /\ d.flags = fl /\ d.detach = c.detach
      /\ SameBuffers(c, d) /\ SameWindows(c, d) /\ Seen(c, d)
  BY ONLY <1>2, <1>4, <1>6 DEF Channel, SameBuffers, SameWindows, Seen
<1>8. Local(e, d, k)
  BY <1>0, <1>1, <1>5, <1>7 DEF Local, Machines, Stages, Command, Room, Live,
     SameBuffers, SameWindows, Seen
<1> DEFINE v == Append(w \o c.sent, Eof)
<1>9. Bytes(d, o, v, u) /\ Bytes(o, d, u, v)
  <2>1. /\ Total(v, {"data"}) = Total(w \o c.sent, {"data"})
        /\ Total(v, {"data", "ext"}) = Total(w \o c.sent, {"data", "ext"})
        /\ Total(v, {"adjust", "confirm", "open"}) =
             Total(w \o c.sent, {"adjust", "confirm", "open"})
    BY <1>0, <1>3, TotalsControl
  <2> HIDE DEF v
  <2> QED BY <1>0, <1>7, <2>1
        DEF Bytes, Stream, Complete, Window, SameBuffers, SameWindows, Seen
<1>10. Part(e, d, o, v, u, k)
  BY <1>8, <1>9 DEF Part
<1>11. Live(d)
  BY <1>7 DEF Live
<1>12. Good(e, d, o, w, u, k)
  BY <1>1, <1>3, <1>5, <1>6, <1>7, <1>10, <1>11, Sending DEF Setup
<1> QED BY <1>7, <1>12

LEMMA RcvdOclose ==
    ASSUME NEW e, NEW c, NEW o, NEW w, NEW u, NEW k, Good(e, c, o, w, u, k),
           u # <<>>, Live(c), Head(u).type = "close", NEW d, d = chan_rcvd_oclose(e, c)
    PROVE  Good(e, d, o, w, Tail(u), k) /\ Seen(c, d) /\ d.type = c.type
<1>0. c \in Channel /\ o.ostate = "closed"
  BY GoodFacts, HeadFacts
<1>1. PICK a : a = IF c.istate = "drain" THEN EndInput(c) ELSE c
  OBVIOUS
<1>2. Good(e, a, o, w, u, k) /\ Seen(c, a) /\ a.type = c.type /\ a \in Channel
      /\ Local(e, a, k)
  <2>1. CASE c.istate = "drain"
    <3>0. a = EndInput(c) /\ o.ostate = "closed"
      BY <1>0, <1>1, <2>1
    <3>1. Good(e, a, o, w, u, k) /\ Seen(c, a) /\ a.type = c.type
      BY ONLY Good(e, c, o, w, u, k), Live(c), <2>1, <3>0, RcvdOcloseEof
    <3> QED BY <3>1, GoodFacts
  <2>2. CASE c.istate # "drain"
    BY <1>1, <2>2, GoodFacts DEF Seen
  <2> QED BY <2>1, <2>2
<1>3. /\ d \in Channel /\ d.sent = a.sent /\ d.type = a.type /\ d.istate = "closed"
      /\ d.ostate = (IF a.ostate = "open" THEN "drain" ELSE a.ostate)
      /\ d.flags = a.flags \cup {"CLOSE_RCVD"} /\ d.detach = a.detach
      /\ SameBuffers(a, d) /\ SameWindows(a, d) /\ Seen(a, d)
  <2> DEFINE os == IF c.ostate = "open" THEN "drain" ELSE c.ostate
             ef == IF c.istate # "closed" /\ ExtRead(e) THEN FALSE ELSE c.efd
             se == Append(c.sent, Eof)
             fl == c.flags \cup {"CLOSE_RCVD"}
             ff == c.flags \cup {"EOF_SENT"}
             fb == ff \cup {"CLOSE_RCVD"}
  <2>1. c.type # "larval" /\ c \in Channel
    BY <1>0 DEF Live
  <2>2. /\ os \in {"drain", "closed"} /\ ef \in BOOLEAN /\ se \in Seq(Message)
        /\ fl \in SUBSET {"EOF_SENT", "EOF_RCVD", "CLOSE_SENT", "CLOSE_RCVD"}
        /\ ff \in SUBSET {"EOF_SENT", "EOF_RCVD", "CLOSE_SENT", "CLOSE_RCVD"}
        /\ fb \in SUBSET {"EOF_SENT", "EOF_RCVD", "CLOSE_SENT", "CLOSE_RCVD"}
    <3>1. c.ostate \in {"open", "drain", "closed"} /\ c.efd \in BOOLEAN
          /\ c.flags \in SUBSET {"EOF_SENT", "EOF_RCVD", "CLOSE_SENT", "CLOSE_RCVD"}
          /\ c.sent \in Seq(Message)
      BY <2>1 DEF Channel
    <3>2. ef \in BOOLEAN
      BY <3>1
    <3>3. se \in Seq(Message)
      <4>1. Eof \in Message
        BY DEF Eof, Message
      <4> QED BY <3>1, <4>1
    <3>4. /\ fl \in SUBSET {"EOF_SENT", "EOF_RCVD", "CLOSE_SENT", "CLOSE_RCVD"}
          /\ ff \in SUBSET {"EOF_SENT", "EOF_RCVD", "CLOSE_SENT", "CLOSE_RCVD"}
          /\ fb \in SUBSET {"EOF_SENT", "EOF_RCVD", "CLOSE_SENT", "CLOSE_RCVD"}
      BY <3>1
    <3>5. os \in {"drain", "closed"}
      BY <3>1
    <3> QED BY <3>2, <3>3, <3>4, <3>5
  <2>3. os = (IF c.ostate = "open" THEN "drain" ELSE c.ostate)
    OBVIOUS
  <2>4. CASE c.istate = "drain"
    <3>1. a = [c EXCEPT !.sent = se, !.flags = ff, !.istate = "closed"]
      BY <1>1, <2>1, <2>4 DEF EndInput, chan_send_eof2, Send, Channel
    <3>2. d = [c EXCEPT !.flags = fl \cup {"EOF_SENT"}, !.sent = se, !.ostate = os,
                        !.istate = "closed", !.efd = ef]
      BY <2>1, <2>4 DEF chan_rcvd_oclose, chan_send_eof2, Send, Channel
    <3>3. fl \cup {"EOF_SENT"} = fb
      OBVIOUS
    <3>4. d = [c EXCEPT !.flags = fb, !.sent = se, !.ostate = os,
                        !.istate = "closed", !.efd = ef]
      BY <3>2, <3>3
    <3>5. fb = ff \cup {"CLOSE_RCVD"}
      OBVIOUS
    <3> HIDE DEF os, ef, se, fl, ff, fb
    <3>6. d \in Channel /\ a \in Channel
      BY ONLY <2>1, <2>2, <3>1, <3>4 DEF Channel
    <3>7. /\ a.sent = se /\ a.type = c.type /\ a.ostate = c.ostate /\ a.flags = ff
          /\ a.detach = c.detach /\ SameBuffers(c, a) /\ SameWindows(c, a) /\ Seen(c, a)
      BY ONLY <2>1, <3>1, <3>6 DEF Channel, SameBuffers, SameWindows, Seen
    <3>8. /\ d.sent = se /\ d.type = c.type /\ d.ostate = os /\ d.flags = fb
          /\ d.istate = "closed"
          /\ d.detach = c.detach /\ SameBuffers(c, d) /\ SameWindows(c, d) /\ Seen(c, d)
      BY ONLY <2>1, <3>4, <3>6 DEF Channel, SameBuffers, SameWindows, Seen
    <3> QED BY ONLY <2>3, <3>5, <3>6, <3>7, <3>8 DEF SameBuffers, SameWindows, Seen
  <2>5. CASE c.istate # "drain"
    <3>1. a = c
      BY <1>1, <2>5
    <3>2. d = [c EXCEPT !.flags = fl, !.ostate = os, !.istate = "closed", !.efd = ef]
      BY <2>1, <2>5 DEF chan_rcvd_oclose, Channel
    <3>3. fl = c.flags \cup {"CLOSE_RCVD"}
      OBVIOUS
    <3> HIDE DEF os, ef, se, fl, ff, fb
    <3>4. d \in Channel
      BY ONLY <2>1, <2>2, <3>2 DEF Channel
    <3>5. /\ d.sent = c.sent /\ d.type = c.type /\ d.ostate = os /\ d.flags = fl
          /\ d.istate = "closed"
          /\ d.detach = c.detach /\ SameBuffers(c, d) /\ SameWindows(c, d) /\ Seen(c, d)
      BY ONLY <2>1, <3>2, <3>4 DEF Channel, SameBuffers, SameWindows, Seen
    <3> QED BY ONLY <2>3, <3>1, <3>3, <3>4, <3>5
  <2> QED BY <2>4, <2>5
<1>4. /\ d.ostate \in {"drain", "closed"} /\ (d.ostate = "closed" <=> a.ostate = "closed")
      /\ d.flags = a.flags \cup RcvdMarks(Head(u))
  <2>1. a.ostate \in {"open", "drain", "closed"}
    BY <1>2 DEF Channel
  <2>2. RcvdMarks(Head(u)) = {"CLOSE_RCVD"}
    BY DEF RcvdMarks
  <2> QED BY <1>3, <2>1, <2>2
<1>5. d \in Channel
  BY <1>3
<1>6. /\ d.sent = a.sent /\ d.type = a.type /\ d.istate = "closed"
      /\ d.flags = a.flags \cup {"CLOSE_RCVD"} /\ d.detach = a.detach
      /\ SameBuffers(a, d) /\ SameWindows(a, d) /\ Seen(a, d)
  BY <1>3
<1>7. Local(e, d, k)
  <2>1. Machines(d)
    BY <1>2, <1>4, <1>6 DEF Local, Machines, Seen
  <2>2. Stages(e, d)
    BY <1>2, <1>4, <1>6 DEF Local, Stages, SameWindows, Seen, Live
  <2>3. Command(e, d, k) /\ Room(e, d)
    BY <1>2, <1>6 DEF Local, Command, Room, SameBuffers, SameWindows, Seen, Live
  <2> QED BY <2>1, <2>2, <2>3 DEF Local
<1>8. Good(e, d, o, w, Tail(u), k)
  <2>1. a.flags \subseteq d.flags /\ d.flags \subseteq a.flags \cup RcvdMarks(Head(u))
    BY <1>4, <1>6
  <2>2. Live(a)
    BY <1>2 DEF Live
  <2> QED BY <1>0, <1>2, <1>4, <1>5, <1>6, <1>7, <2>1, <2>2, RcvdControl
<1> QED BY <1>2, <1>6, <1>8 DEF Seen

\* A packet received by an open channel never breaks the connection.
LEMMA ReceivedLive ==
    ASSUME NEW e, NEW c, NEW o, NEW w, NEW u, NEW k, Good(e, c, o, w, u, k),
           u # <<>>, Live(c), NEW m, m = Head(u), NEW d, d = Receive(e, c, m)
    PROVE  /\ ~Fatal(e, c, m) /\ m.type # "open"
           /\ Good(e, d, o, w, Tail(u), k) /\ d.type = c.type
           /\ d.read = c.read /\ d.written = c.written /\ d.forced = c.forced
           /\ d.end = c.end \/ (c.end = "no" /\ d.end = "eof")
<1>0. c \in Channel /\ m \in Message /\ c.type \notin {"none", "freed", "larval"}
  BY GoodFacts, HeadFacts DEF Live
<1>1. m.type \notin Setup
  <2>1. u[1] = m /\ 1 \in 1 .. Len(u) /\ Shake(e, c, o, w \o c.sent, u)
    BY GoodFacts, Shorter DEF Good, System
  <2>2. CASE e = "client"
    BY <2>1, <2>2 DEF Shake, Handshake, Opened, Live
  <2>3. CASE e # "client"
    BY <2>1, <2>3 DEF Shake, Handshake, Opening, Opened, Live
  <2> QED BY <2>2, <2>3
<1>2. ~Fatal(e, c, m)
  <2>1. m.type = "ext" => "EOF_RCVD" \notin c.flags
    BY HeadFacts
  <2>2. m.type = "data" /\ c.type = "open" => ~(m.n > c.local_window)
    <3> SUFFICES ASSUME m.type = "data", c.type = "open"
                 PROVE  ~(m.n > c.local_window)
      OBVIOUS
    <3>1. m.n \in Nat /\ m.n <= c.local_window
      BY WithinWindow
    <3>2. c.local_window \in Nat
      BY <1>0, Numbers
    <3> QED BY <3>1, <3>2
  <2> QED BY <1>0, <1>1, <2>1, <2>2 DEF Fatal, Setup
<1>3. CASE m.type = "data"
  <2>1. d = channel_input_data(c, m.n)
    BY <1>0, <1>3 DEF Receive
  <2> QED BY <1>1, <1>2, <1>3, <2>1, RcvdData DEF Seen, Setup
<1>4. CASE m.type = "ext"
  <2>1. d = channel_input_extended_data(e, c, m.n)
    BY <1>0, <1>4 DEF Receive
  <2> QED BY <1>1, <1>2, <1>4, <2>1, RcvdExtended DEF Seen, Setup
<1>5. CASE m.type = "adjust"
  <2>1. d = channel_input_window_adjust(c, m.n)
    BY <1>0, <1>5 DEF Receive
  <2> QED BY <1>1, <1>2, <1>5, <2>1, RcvdAdjust DEF Seen, Setup
<1>6. CASE m.type = "eof"
  <2>1. d = chan_rcvd_ieof(e, c)
    BY <1>0, <1>6 DEF Receive
  <2>2. Head(u).type = "eof" /\ m.type # "open"
    BY <1>6
  <2>3. /\ Good(e, d, o, w, Tail(u), k) /\ d.type = c.type
        /\ d.read = c.read /\ d.written = c.written /\ d.forced = c.forced
        /\ d.end = c.end \/ (c.end = "no" /\ d.end = "eof")
    BY ONLY Good(e, c, o, w, u, k), u # <<>>, Live(c), <2>1, <2>2, RcvdIeof
  <2> QED BY <1>2, <2>2, <2>3
<1>7. CASE m.type = "close"
  <2>1. d = chan_rcvd_oclose(e, c)
    BY <1>0, <1>7 DEF Receive
  <2> QED BY <1>1, <1>2, <1>7, <2>1, RcvdOclose DEF Seen, Setup
<1>8. CASE m.type = "eow"
  <2>1. d = chan_rcvd_eow(c)
    BY <1>0, <1>8 DEF Receive
  <2>2. Head(u).type = "eow" /\ m.type # "open"
    BY <1>8
  <2>3. Good(e, d, o, w, Tail(u), k) /\ Seen(c, d) /\ d.type = c.type
    BY ONLY Good(e, c, o, w, u, k), u # <<>>, Live(c), <2>1, <2>2, RcvdEow
  <2> QED BY <1>2, <2>2, <2>3 DEF Seen
<1>9. CASE m.type \in {"exit", "shell"}
  <2>1. d = c
    BY <1>0, <1>9 DEF Receive
  <2> QED BY <1>1, <1>2, <1>9, <2>1, RcvdIgnored DEF Setup
<1> QED BY <1>0, <1>1, <1>3, <1>4, <1>5, <1>6, <1>7, <1>8, <1>9 DEF Message, Setup

-----------------------------------------------------------------------------
(* From the handlers to the actions. *)

LEMMA Symmetric ==
    ASSUME NEW c, NEW o, NEW w, NEW u, NEW k
    PROVE  System("server", o, c, u, w, k) <=> System("client", c, o, w, u, k)
BY DEF System, Shake, Peer

LEMMA Peers == \A e \in Ends : Peer(e) \in Ends /\ Peer(Peer(e)) = e /\ Peer(e) # e
BY DEF Peer, Ends

\* The invariant as the end e sees it.
LEMMA InvGood ==
    ASSUME Inv, NEW e \in Ends
    PROVE  /\ Good(e, ch[e], ch[Peer(e)], wire[Peer(e)], wire[e], child)
           /\ System(e, ch[e], ch[Peer(e)], wire[Peer(e)], wire[e], child)
           /\ ch[e].sent = <<>> /\ ch[e] \in Channel /\ ch[Peer(e)] \in Channel
           /\ wire[e] \in Seq(Message) /\ wire[Peer(e)] \in Seq(Message)
           /\ ch[e].type = "open" => ~ch[e].forced
<1>1. /\ e \in Ends /\ Peer(e) \in Ends /\ ch[e] \in Channel /\ ch[Peer(e)] \in Channel
      /\ wire[e] \in Seq(Message) /\ wire[Peer(e)] \in Seq(Message)
      /\ ch[e].sent = <<>> /\ kind \in {"session", "forward"}
      /\ child \in {"none", "running", "reaped"}
      /\ ch[e].type = "open" => ~ch[e].forced
  BY Peers DEF Inv, TypeOK
<1>2. System(e, ch[e], ch[Peer(e)], wire[Peer(e)], wire[e], child)
  <2>1. CASE e = "client"
    BY <2>1 DEF Inv, Peer
  <2>2. CASE e = "server"
    <3>1. System("client", ch["client"], ch["server"], wire["server"], wire["client"], child)
      BY DEF Inv
    <3>2. System("server", ch["server"], ch["client"], wire["client"], wire["server"], child)
      BY <3>1, Symmetric
    <3> QED BY <2>2, <3>2 DEF Peer
  <2> QED BY <2>1, <2>2 DEF Ends
<1>3. wire[Peer(e)] \o ch[e].sent = wire[Peer(e)]
  BY <1>1
<1> QED BY <1>1, <1>2, <1>3 DEF Good, Typed

\* What the two byte streams see of a step.
StreamStep ==
    [ToServer!Next]_<<ch["client"].read, ch["server"].written,
                      ch["client"].forced, ch["server"].end>>
    /\ [ToClient!Next]_<<ch["server"].read, ch["client"].written,
                         ch["server"].forced, ch["client"].end>>

LEMMA ActsStream ==
    ASSUME Inv, Inv', NEW e \in Ends, Acts(ch[e], ch'[e], ch[Peer(e)]),
           ch'[Peer(e)] = ch[Peer(e)]
    PROVE  StreamStep
<1> DEFINE c == ch[e]
           d == ch'[e]
           o == ch[Peer(e)]
<1>1. /\ c \in Channel /\ d \in Channel /\ o \in Channel /\ Acts(c, d, o)
      /\ Bytes(o, d, wire'[e], wire'[Peer(e)])
  <2>1. c \in Channel /\ o \in Channel
    BY InvGood
  <2>2. d \in Channel
    BY DEF Inv, TypeOK
  <2>3. e \in Ends /\ Peer(e) \in Ends
    BY Peers
  <2>4. /\ Bytes(ch["client"], ch["server"], wire["server"], wire["client"])'
        /\ Bytes(ch["server"], ch["client"], wire["client"], wire["server"])'
    BY DEF Inv, System, Direction
  <2>5. Bytes(ch'[Peer(e)], d, wire'[e], wire'[Peer(e)])
    <3>1. CASE e = "client"
      BY <2>4, <3>1 DEF Peer
    <3>2. CASE e = "server"
      BY <2>4, <3>2 DEF Peer
    <3> QED BY <3>1, <3>2 DEF Ends
  <2> QED BY <2>1, <2>2, <2>5
<1>2. d.written <= o.read /\ (d.end = "eof" => o.forced \/ d.written = o.read)
  <2>1. wire'[e] \in Seq(Message)
    BY DEF Inv, TypeOK
  <2>2. Total(wire'[e], {"data"}) \in Nat
    BY <2>1, Totals
  <2>3. d.written + d.output + Total(wire'[e], {"data"}) + o.input <= o.read
        /\ (d.end = "eof" => o.forced \/ d.written = o.read)
    BY <1>1 DEF Bytes, Stream, Complete
  <2>4. d.written \in Nat /\ d.output \in Nat /\ o.input \in Nat /\ o.read \in Nat
    BY <1>1, Numbers
  <2> HIDE DEF d, o
  <2> QED BY ONLY <2>2, <2>3, <2>4
<1>3. ch'[Peer(e)] = o
  OBVIOUS
<1>4. CASE e = "client"
  <2>1. c = ch["client"] /\ d = ch'["client"] /\ o = ch["server"] /\ ch'["server"] = o
    BY <1>3, <1>4 DEF Peer
  <2> HIDE DEF c, d, o
  <2>2. [ToServer!Next]_<<ch["client"].read, ch["server"].written,
                          ch["client"].forced, ch["server"].end>>
    BY <1>1, <2>1 DEF Acts, ToServer!Next, ToServer!Take, ToServer!Force
  <2>3. [ToClient!Next]_<<ch["server"].read, ch["client"].written,
                          ch["server"].forced, ch["client"].end>>
    BY <1>1, <1>2, <2>1 DEF Acts, ToClient!Next, ToClient!Deliver, ToClient!Eof, ToClient!Cut
  <2> QED BY <2>2, <2>3 DEF StreamStep
<1>5. CASE e = "server"
  <2>1. c = ch["server"] /\ d = ch'["server"] /\ o = ch["client"] /\ ch'["client"] = o
    BY <1>3, <1>5 DEF Peer
  <2> HIDE DEF c, d, o
  <2>2. [ToClient!Next]_<<ch["server"].read, ch["client"].written,
                          ch["server"].forced, ch["client"].end>>
    BY <1>1, <2>1 DEF Acts, ToClient!Next, ToClient!Take, ToClient!Force
  <2>3. [ToServer!Next]_<<ch["client"].read, ch["server"].written,
                          ch["client"].forced, ch["server"].end>>
    BY <1>1, <1>2, <2>1 DEF Acts, ToServer!Next, ToServer!Deliver, ToServer!Eof, ToServer!Cut
  <2> QED BY <2>2, <2>3 DEF StreamStep
<1> QED BY <1>4, <1>5 DEF Ends

\* One end has acted: its record is now d, without what it sent.
LEMMA Stepped ==
    ASSUME Inv, NEW e \in Ends, NEW d \in Channel, d.sent = <<>>,
           NEW v \in Seq(Message), NEW t \in Seq(Message),
           System(e, d, ch[Peer(e)], v, t, child'),
           child' \in {"none", "running", "reaped"}, kind' = kind, ~broken',
           ch' = [ch EXCEPT ![e] = d],
           wire' = [wire EXCEPT ![e] = t, ![Peer(e)] = v],
           Acts(ch[e], d, ch[Peer(e)]), d.type = "open" => ~d.forced
    PROVE  Inv' /\ StreamStep
<1>1. /\ ch \in [Ends -> Channel] /\ wire \in [Ends -> Seq(Message)]
      /\ kind \in {"session", "forward"} /\ Peer(e) \in Ends /\ Peer(e) # e
      /\ \A x \in Ends : ch[x].sent = <<>>
      /\ \A x \in Ends : ch[x].type = "open" => ~ch[x].forced
  BY Peers DEF Inv, TypeOK
<1>2. /\ ch'[e] = d /\ ch'[Peer(e)] = ch[Peer(e)]
      /\ wire'[e] = t /\ wire'[Peer(e)] = v
      /\ \A x \in Ends : x = e \/ x = Peer(e)
  BY <1>1 DEF Ends, Peer
<1>3. TypeOK'
  <2>1. ch' \in [Ends -> Channel]
    BY <1>1
  <2>2. wire' \in [Ends -> Seq(Message)]
    BY <1>1
  <2>3. \A x \in Ends : ch'[x].sent = <<>>
    BY <1>1, <1>2
  <2> QED BY <1>1, <2>1, <2>2, <2>3 DEF TypeOK
<1>4. \A x \in Ends : ch'[x].type = "open" => ~ch'[x].forced
  BY <1>1, <1>2
<1>5. System("client", ch["client"], ch["server"], wire["server"], wire["client"], child)'
  <2>1. System(e, ch'[e], ch'[Peer(e)], wire'[Peer(e)], wire'[e], child')
    BY <1>2
  <2>2. System("client", ch'["client"], ch'["server"], wire'["server"], wire'["client"], child')
    <3>1. CASE e = "client"
      BY <2>1, <3>1 DEF Peer
    <3>2. CASE e = "server"
      BY <2>1, <3>2, Symmetric DEF Peer
    <3> QED BY <3>1, <3>2 DEF Ends
  <2> QED BY ONLY <2>2, kind' = kind
        DEF System, Local, Room, ExtWrite, Shake, Handshake, Opening, Opened
<1>6. Inv'
  BY <1>3, <1>4, <1>5 DEF Inv
<1>7. Acts(ch[e], ch'[e], ch[Peer(e)])
  BY <1>2
<1>8. StreamStep
  BY ONLY Inv, <1>2, <1>6, <1>7, e \in Ends, ActsStream
<1> QED BY <1>6, <1>8

LEMMA Cleared ==
    ASSUME NEW e, NEW d, NEW o, NEW w, NEW u, NEW k, Good(e, d, o, w, u, k),
           NEW b, b = [d EXCEPT !.sent = <<>>]
    PROVE  /\ b \in Channel /\ b.sent = <<>> /\ Seen(d, b) /\ b.type = d.type
           /\ w \o d.sent \in Seq(Message) /\ u \in Seq(Message)
           /\ System(e, b, o, w \o d.sent, u, k)
           /\ k \in {"none", "running", "reaped"}
<1>1. d \in Channel /\ w \o d.sent \in Seq(Message) /\ u \in Seq(Message)
      /\ k \in {"none", "running", "reaped"}
  BY GoodFacts DEF Good, Typed
<1>2. d \in Channel /\ <<>> \in Seq(Message)
  BY <1>1
<1>3. b \in Channel
  BY ONLY <1>2, b = [d EXCEPT !.sent = <<>>] DEF Channel
<1>4. /\ b.sent = <<>> /\ SameMachine(d, b) /\ SameBuffers(d, b) /\ SameWindows(d, b)
      /\ Seen(d, b)
  BY ONLY <1>2, <1>3, b = [d EXCEPT !.sent = <<>>]
     DEF Channel, SameMachine, SameBuffers, SameWindows, Seen
<1> DEFINE q == w \o d.sent
<1>5. System(e, d, o, q, u, k)
  BY DEF Good
<1> HIDE DEF q
<1>6. Local(e, b, k) /\ Local(Peer(e), o, k)
  <2>1. Local(e, d, k) /\ Local(Peer(e), o, k)
    BY <1>5 DEF System
  <2>2. Machines(b) /\ Room(e, b)
    BY <1>4, <2>1 DEF Local, Machines, Room, SameMachine, SameBuffers, SameWindows, Seen
  <2>3. Stages(e, b)
    BY <1>4, <2>1
       DEF Local, Stages, Live, Fresh, SameMachine, SameBuffers, SameWindows, Seen
  <2>4. Command(e, b, k)
    BY <1>4, <2>1 DEF Local, Command, Live, SameMachine, Seen
  <2> QED BY <2>1, <2>2, <2>3, <2>4 DEF Local
<1>7. Direction(b, o, q, u) /\ Direction(o, b, u, q)
  <2>1. /\ Ordered(q) /\ Ordered(u) /\ Flags(d, o, q) /\ Flags(o, d, u)
        /\ Bytes(d, o, q, u) /\ Bytes(o, d, u, q)
    BY <1>5 DEF System, Direction
  <2>2. Flags(b, o, q) /\ Flags(o, b, u)
    BY <1>4, <2>1 DEF Flags, SameMachine
  <2>3. Bytes(b, o, q, u) /\ Bytes(o, b, u, q)
    BY <1>4, <2>1
       DEF Bytes, Stream, Complete, Window, SameMachine, SameBuffers, SameWindows, Seen
  <2> QED BY <2>1, <2>2, <2>3 DEF Direction
<1>8. Shake(e, b, o, q, u)
  <2>1. Shake(e, d, o, q, u)
    BY <1>5 DEF System
  <2>2. b.type = d.type /\ b.flags = d.flags
    BY <1>4 DEF SameMachine
  <2> QED BY <2>1, <2>2 DEF Shake, Handshake, Opening, Opened, Refused, Live
<1>9. System(e, b, o, q, u, k)
  BY <1>6, <1>7, <1>8 DEF System
<1> QED BY <1>1, <1>3, <1>4, <1>9 DEF q, SameMachine

LEMMA Acted ==
    ASSUME Inv, NEW e \in Ends, NEW d, NEW t,
           Good(e, d, ch[Peer(e)], wire[Peer(e)], t, child'), kind' = kind, ~broken',
           ch' = [ch EXCEPT ![e] = [d EXCEPT !.sent = <<>>]],
           wire' = [wire EXCEPT ![e] = t, ![Peer(e)] = wire[Peer(e)] \o d.sent],
           Acts(ch[e], d, ch[Peer(e)]), d.type = "open" => ~d.forced
    PROVE  Inv' /\ StreamStep
<1>1. PICK b : b = [d EXCEPT !.sent = <<>>]
  OBVIOUS
<1>2. PICK v : v = wire[Peer(e)] \o d.sent
  OBVIOUS
<1>3. /\ b \in Channel /\ b.sent = <<>> /\ Seen(d, b) /\ b.type = d.type
      /\ v \in Seq(Message) /\ t \in Seq(Message)
      /\ System(e, b, ch[Peer(e)], v, t, child')
      /\ child' \in {"none", "running", "reaped"}
  BY <1>1, <1>2, Cleared
<1>4. Acts(ch[e], b, ch[Peer(e)]) /\ (b.type = "open" => ~b.forced)
  BY <1>3 DEF Acts, Seen
<1>5. ch' = [ch EXCEPT ![e] = b] /\ wire' = [wire EXCEPT ![e] = t, ![Peer(e)] = v]
  BY <1>1, <1>2
<1> QED BY <1>3, <1>4, <1>5, Stepped

LEMMA Updated ==
    ASSUME Inv, NEW e \in Ends, NEW d,
           Good(e, d, ch[Peer(e)], wire[Peer(e)], wire[e], child'),
           kind' = kind, broken' = broken, Update(e, d),
           Acts(ch[e], d, ch[Peer(e)]), d.type = "open" => ~d.forced
    PROVE  Inv' /\ StreamStep
<1>1. wire' = [wire EXCEPT ![Peer(e)] = wire[Peer(e)] \o d.sent]
      /\ ch' = [ch EXCEPT ![e] = [d EXCEPT !.sent = <<>>]]
  BY DEF Update
<1>2. wire \in [Ends -> Seq(Message)] /\ Peer(e) \in Ends /\ Peer(e) # e /\ ~broken
  BY Peers DEF Inv, TypeOK
<1>3. PICK v : v = wire[Peer(e)] \o d.sent
  OBVIOUS
<1>4. wire' = [wire EXCEPT ![e] = wire[e], ![Peer(e)] = v]
  <2>1. wire' = [wire EXCEPT ![Peer(e)] = v]
    BY <1>1, <1>3
  <2> QED BY ONLY <1>2, <2>1, e \in Ends
<1> QED BY <1>1, <1>2, <1>3, <1>4, Acted

\* What an end that has not been opened may find in its queue.
LEMMA NotLive ==
    ASSUME NEW e, NEW c, NEW o, NEW w, NEW u, NEW k, System(e, c, o, w, u, k),
           e \in Ends, c \in Channel, u \in Seq(Message), u # <<>>, ~Live(c)
    PROVE  \/ /\ e = "server" /\ c.type = "none" /\ o.type = "opening"
              /\ u = <<Open(WindowMax)>> /\ w = <<>>
           \/ /\ e = "client" /\ c.type = "opening" /\ Head(u).type = "confirm"
              /\ w = <<>> /\ Opening(c, o, w, u)
           \/ /\ e = "client" /\ c.type = "opening" /\ u = <<Failure>>
              /\ w = <<>> /\ Refused(o)
           \/ /\ e = "server" /\ c.type = "larval" /\ Head(u).type = "shell"
              /\ kind = "session" /\ o.type \notin {"none", "opening"}
              /\ Opened(o, c, u, w)
<1>1. /\ Stages(e, c) /\ Flags(o, c, u) /\ Shake(e, c, o, w, u) /\ u[1] = Head(u)
  BY DEF System, Local, Direction
<1>2. c.type = "freed" => Refused(c)
  BY <1>1 DEF Stages, Flags, Fresh, Refused
<1>3. c.type \in {"none", "opening", "larval", "connecting", "zombie", "freed"}
  BY DEF Live, Channel
<1>4. CASE e = "client"
  <2>1. Handshake(c, o, w, u)
    BY <1>1, <1>4 DEF Shake
  <2>2. c.type \notin {"larval", "connecting"}
    BY <1>1, <1>4 DEF Stages
  <2>3. c.type = "opening" /\ Opening(c, o, w, u)
    <3>1. c.type \in {"zombie", "freed"} => FALSE
      <4>1. c.type \in {"zombie", "freed"} => Refused(c)
        BY <1>2 DEF Refused
      <4> QED BY <2>1, <4>1 DEF Handshake, Opened
    <3> QED BY <1>3, <2>1, <2>2, <3>1 DEF Handshake
  <2>4. Confirm(0).type = "confirm"
    BY DEF Confirm
  <2>5. \/ o.type = "larval" /\ u = <<Confirm(0)>>
        \/ Refused(o) /\ u = <<Failure>>
        \/ u[1].type = "confirm"
    BY <2>3 DEF Opening
  <2>6. u = <<Confirm(0)>> => u[1] = Confirm(0)
    OBVIOUS
  <2>7. w = <<>>
    BY <2>3 DEF Opening
  <2> QED BY <1>1, <1>4, <2>3, <2>4, <2>5, <2>6, <2>7
<1>5. CASE e = "server"
  <2>1. Handshake(o, c, u, w)
    BY <1>1, <1>5 DEF Shake
  <2>2. c.type # "opening"
    BY <1>1, <1>5 DEF Stages
  <2>3. CASE o.type \notin {"none", "opening"}
    <3>1. Opened(o, c, u, w)
      BY <2>1, <2>3 DEF Handshake
    <3>2. ~Refused(c) /\ c.type # "none" /\ c.type # "connecting"
      BY <2>1, <2>3, <3>1 DEF Handshake, Opened
    <3>3. c.type = "larval"
      BY <1>2, <1>3, <2>2, <3>2 DEF Refused
    <3> QED BY <1>1, <1>5, <2>3, <3>1, <3>3 DEF Opened
  <2>4. CASE o.type \in {"none", "opening"}
    BY <1>5, <2>1, <2>4 DEF Handshake, Opening
  <2> QED BY <2>3, <2>4
<1> QED BY <1>4, <1>5 DEF Ends

-----------------------------------------------------------------------------
(* Opening the channel. *)

LEMMA TotalsOne ==
    ASSUME NEW m \in Message, NEW v, v = <<m>>
    PROVE  /\ v \in Seq(Message) /\ Len(v) = 1 /\ v[1] = m /\ v # <<>>
           /\ Total(v, {"data", "ext"}) = IF m.type \in {"data", "ext"} THEN m.n ELSE 0
           /\ Total(v, {"adjust", "confirm", "open"}) =
                IF m.type \in {"adjust", "confirm", "open"} THEN m.n ELSE 0
<1>1. <<>> \in Seq(Message) /\ v = Append(<<>>, m) /\ m.n \in Nat
  BY DEF Message
<1>2. /\ Total(<<>>, {"data", "ext"}) = 0
      /\ Total(<<>>, {"adjust", "confirm", "open"}) = 0
  BY TotalEmpty
<1>3. /\ Total(v, {"data", "ext"}) = 0 + (IF m.type \in {"data", "ext"} THEN m.n ELSE 0)
      /\ Total(v, {"adjust", "confirm", "open"}) =
           0 + (IF m.type \in {"adjust", "confirm", "open"} THEN m.n ELSE 0)
  <2>1. m \in Message
    OBVIOUS
  <2> QED BY ONLY <1>1, <1>2, <2>1, TotalsAppend
<1>4. v \in Seq(Message) /\ Len(v) = 1 /\ v[1] = m /\ v # <<>>
  OBVIOUS
<1> QED BY <1>1, <1>3, <1>4

LEMMA TotalsNone ==
    /\ Total(<<>>, {"data", "ext"}) = 0
    /\ Total(<<>>, {"adjust", "confirm", "open"}) = 0
    /\ Total(<<>>, {"data"}) = 0
    /\ <<>> \in Seq(Message)
    /\ Len(<<>>) = 0
BY TotalEmpty

LEMMA FreshIf ==
    ASSUME NEW e, NEW c, Stages(e, c), ~Live(c), c.type # "freed" \/ c.flags = {}
    PROVE  Fresh(c)
BY DEF Stages

Quieted(w) ==
    \A i \in 1 .. Len(w) : w[i].type \notin {"data", "ext", "eof", "close", "eow"}

LEMMA QuietOne ==
    ASSUME NEW m \in Message, m.type \notin {"data", "ext", "eof", "close", "eow"}
    PROVE  Quieted(<<m>>)
<1>1. Len(<<m>>) = 1 /\ <<m>>[1] = m
  OBVIOUS
<1>2. \A i \in 1 .. 1 : i = 1
  OBVIOUS
<1> QED BY <1>1, <1>2 DEF Quieted

\* Before data is exchanged only the windows and the opening matter.
LEMMA BothFresh ==
    ASSUME NEW e \in Ends, NEW c \in Channel, NEW o \in Channel, Fresh(c), Fresh(o),
           NEW w \in Seq(Message), NEW u \in Seq(Message), Quieted(w), Quieted(u), NEW k,
           Stages(e, c), Command(e, c, k), Room(e, c), Local(Peer(e), o, k),
           Window(c, o, w, u), Window(o, c, u, w), Shake(e, c, o, w, u)
    PROVE  System(e, c, o, w, u, k)
<1>1. Machines(c)
  BY DEF Machines, Fresh
<1>2. Ordered(w) /\ Ordered(u)
  BY DEF Ordered, Quieted
<1>3. Flags(c, o, w) /\ Flags(o, c, u)
  BY DEF Flags, Fresh, Quieted
<1>4. Total(w, {"data"}) = 0 /\ Total(u, {"data"}) = 0
  <2>1. /\ \A i \in 1 .. Len(w) : w[i].type \notin {"data"}
        /\ \A i \in 1 .. Len(u) : u[i].type \notin {"data"}
    BY DEF Quieted
  <2> QED BY <2>1, TotalNone
<1>5. Stream(c, o, w) /\ Stream(o, c, u)
  BY <1>4 DEF Stream, Fresh
<1>6. Complete(c, o) /\ Complete(o, c)
  BY DEF Complete, Fresh
<1> QED BY <1>1, <1>2, <1>3, <1>5, <1>6 DEF System, Local, Direction, Bytes

LEMMA NewChannel ==
    ASSUME NEW type \in {"none", "opening", "larval", "connecting"}, NEW window \in Nat,
           NEW detach \in {"none", "user"}, NEW c, c = channel_new(type, window, detach)
    PROVE  /\ c \in Channel /\ c.type = type /\ Fresh(c) /\ c.sent = <<>>
           /\ c.local_window = window /\ c.detach = detach /\ c.remote_window = 0
<1>1. <<>> \in Seq(Message) /\ 0 \in Nat
  OBVIOUS
<1>2. c \in Channel
  BY <1>1 DEF channel_new, Channel
<1> QED BY <1>2 DEF channel_new, Fresh

LEMMA OpenSystem ==
    ASSUME NEW c \in Channel, NEW o \in Channel, NEW k, Fresh(c), c.type = "opening",
           c.remote_window = 0, c.local_window = WindowMax, o.type = "none",
           Local("server", o, k)
    PROVE  System("client", c, o, <<Open(WindowMax)>>, <<>>, k)
<1>0. WindowMax \in Nat
  BY ChannelAssumption DEF ChannelAssumption
<1>1. Open(WindowMax) \in Message /\ Open(WindowMax).type = "open"
      /\ Open(WindowMax).n = WindowMax
  BY <1>0 DEF Open, Message
<1> DEFINE w == <<Open(WindowMax)>>
<1>2. w \in Seq(Message) /\ Quieted(w) /\ Total(w, {"data", "ext"}) = 0
      /\ Total(w, {"adjust", "confirm", "open"}) = WindowMax
  BY <1>1, TotalsOne, QuietOne
<1>3. Quieted(<<>>)
  BY DEF Quieted
<1>4. Fresh(o) /\ o.remote_window = 0
  BY FreshIf DEF Local, Stages, Live
<1>5. Shake("client", c, o, w, <<>>)
  BY DEF Shake, Handshake
<1> HIDE DEF w
<1>6. Window(c, o, w, <<>>)
  BY DEF Window
<1>7. Window(o, c, <<>>, w)
  BY <1>0, <1>2, <1>4, TotalsNone DEF Window
<1>8. Stages("client", c) /\ Command("client", c, k)
  BY DEF Stages, Command, Live, Fresh
<1>9. Room("client", c)
  BY <1>0 DEF Room, Fresh
<1>10. Local(Peer("client"), o, k) /\ "client" \in Ends
  BY DEF Peer, Ends
<1> QED BY <1>2, <1>3, <1>4, <1>5, <1>6, <1>7, <1>8, <1>9, <1>10, BothFresh, TotalsNone DEF w

\* server_input_channel_open, the three outcomes.
LEMMA AcceptSystem ==
    ASSUME NEW c \in Channel, NEW o \in Channel, NEW k,
           NEW b \in Channel, b.type = "none",
           System("server", b, o, <<>>, <<Open(WindowMax)>>, k), Fresh(c),
           NEW w,
           \/ /\ kind = "session" /\ c.type = "larval" /\ c.local_window = 0
              /\ c.detach = "user" /\ c.remote_window = WindowMax /\ w = <<Confirm(0)>>
           \/ /\ kind = "forward" /\ c.type = "connecting" /\ c.local_window = WindowMax
              /\ c.detach = "none" /\ c.remote_window = WindowMax /\ w = <<>>
           \/ /\ c.type = "freed" /\ c.detach = "none" /\ c.remote_window = 0
              /\ c.local_window = b.local_window /\ w = <<Failure>>
    PROVE  System("server", c, o, w, <<>>, k)
<1>0. WindowMax \in Nat
  BY ChannelAssumption DEF ChannelAssumption
<1>1. Open(WindowMax) \in Message /\ Open(WindowMax).type = "open"
      /\ Open(WindowMax).n = WindowMax
  BY <1>0 DEF Open, Message
<1>2. Confirm(0) \in Message /\ Confirm(0).type = "confirm" /\ Confirm(0).n = 0
  BY DEF Confirm, Message
<1>3. Failure \in Message /\ Failure.type = "failure" /\ Failure.n = 0
  BY DEF Failure, Message
<1>4. w \in Seq(Message) /\ Quieted(w) /\ Total(w, {"data", "ext"}) = 0
      /\ Total(w, {"adjust", "confirm", "open"}) = 0
  <2>1. CASE w = <<>>
    BY <2>1, TotalsNone DEF Quieted
  <2>2. CASE w = <<Confirm(0)>>
    BY <1>2, <2>2, TotalsOne, QuietOne
  <2>3. CASE w = <<Failure>>
    BY <1>3, <2>3, TotalsOne, QuietOne
  <2> QED BY <2>1, <2>2, <2>3
<1>5. Local("server", b, k) /\ Local("client", o, k) /\ Handshake(o, b, <<Open(WindowMax)>>, <<>>)
      /\ Bytes(b, o, <<>>, <<Open(WindowMax)>>)
  BY DEF System, Shake, Peer, Direction
<1>6. o.type = "opening"
  <2>1. <<Open(WindowMax)>> # <<>>
    OBVIOUS
  <2> QED BY <1>5, <2>1 DEF Handshake
<1>7. Fresh(o) /\ o.remote_window = 0
  BY <1>5, <1>6, FreshIf DEF Local, Stages, Live
<1>8. WindowMax <= o.local_window
  <2>1. /\ Total(<<Open(WindowMax)>>, {"adjust", "confirm", "open"}) = WindowMax
    BY <1>1, TotalsOne
  <2>2. b.remote_window = 0
    BY <1>5 DEF Local, Stages
  <2>3. 0 + 0 + WindowMax <= o.local_window
    BY <1>5, <1>6, <2>1, <2>2, TotalsNone DEF Bytes, Window
  <2> QED BY <1>0, <2>3
<1>9. Window(c, o, w, <<>>)
  <2>1. o.local_window \in Nat /\ 0 <= o.local_window
    BY Numbers
  <2>2. c.remote_window \in {0, WindowMax}
    OBVIOUS
  <2>3. c.remote_window + 0 + 0 <= o.local_window
    BY <1>0, <1>8, <2>1, <2>2
  <2> QED BY <1>4, <2>3, TotalsNone DEF Window
<1>10. Window(o, c, <<>>, w)
  <2>1. c.local_window \in Nat
    BY Numbers
  <2>2. 0 + 0 + 0 <= c.local_window
    BY <2>1
  <2> QED BY <1>4, <1>7, <2>2, TotalsNone DEF Window
<1>11. Room("server", c)
  <2>1. b.local_window \in Nat /\ b.local_window <= WindowMax
    <3>1. b.local_window \in Nat /\ b.local_consumed \in Nat /\ b.output \in Nat
      BY Numbers
    <3>2. b.local_window + b.local_consumed + b.output + 0 <= WindowMax
      BY <1>5 DEF Local, Room, ExtWrite
    <3> QED BY <1>0, <3>1, <3>2
  <2>2. c.local_window \in Nat /\ c.local_window <= WindowMax
    BY <1>0, <2>1
  <2>3. c.local_consumed = 0 /\ c.output = 0
    BY DEF Fresh
  <2> QED BY <1>0, <2>2, <2>3 DEF Room, ExtWrite
<1>12. Stages("server", c) /\ Command("server", c, k)
  <2>1. k # "running"
    BY <1>5 DEF Local, Command, Stages, Live
  <2> QED BY <2>1 DEF Stages, Command, Live, Fresh
<1>13. Shake("server", c, o, w, <<>>)
  BY <1>6 DEF Shake, Handshake, Opening, Refused, Fresh
<1>14. Local(Peer("server"), o, k) /\ "server" \in Ends
  BY <1>5 DEF Peer, Ends
<1>15. Quieted(<<>>)
  BY DEF Quieted
<1> QED BY <1>4, <1>7, <1>9, <1>10, <1>11, <1>12, <1>13, <1>14, <1>15, BothFresh, TotalsNone

LEMMA ConnectSystem ==
    ASSUME NEW b \in Channel, NEW o \in Channel, NEW k, NEW w, NEW u,
           System("server", b, o, w, u, k), b.type = "connecting",
           NEW c \in Channel, Fresh(c), SameWindows(b, c), c.detach = b.detach, NEW v,
           \/ c.type = "open" /\ v = <<Confirm(b.local_window)>>
           \/ c.type = "zombie" /\ v = <<Failure>>
    PROVE  w = <<>> /\ v \in Seq(Message) /\ System("server", c, o, v, u, k)
<1>1. Local("server", b, k) /\ Local("client", o, k) /\ Handshake(o, b, u, w)
      /\ Bytes(b, o, w, u)
  BY DEF System, Shake, Peer, Direction
<1>2. o.type = "opening" /\ kind = "forward" /\ w = <<>> /\ u = <<>>
  BY <1>1 DEF Handshake, Opening, Opened, Refused, Live
<1>3. Fresh(b) /\ Fresh(o) /\ o.remote_window = 0
  BY <1>1, <1>2, FreshIf DEF Local, Stages, Live
<1> DEFINE lw == b.local_window
<1>4. lw \in Nat /\ b.remote_window \in Nat /\ o.local_window \in Nat /\ c.local_window = lw
  BY Numbers DEF SameWindows
<1>5. Confirm(lw) \in Message /\ Confirm(lw).type = "confirm" /\ Confirm(lw).n = lw
  BY <1>4 DEF Confirm, Message
<1>6. Failure \in Message /\ Failure.type = "failure"
  BY DEF Failure, Message
<1>7. v \in Seq(Message) /\ Quieted(v) /\ Total(v, {"data", "ext"}) = 0
      /\ (c.type = "open" => Total(v, {"adjust", "confirm", "open"}) = lw)
      /\ Len(v) = 1 /\ v # <<>> /\ v[1].type \in Setup
      /\ (c.type = "open" => v[1].type = "confirm")
  <2>1. CASE v = <<Confirm(lw)>>
    BY <1>5, <2>1, TotalsOne, QuietOne DEF Setup
  <2>2. CASE v = <<Failure>> /\ c.type = "zombie"
    BY <1>6, <2>2, TotalsOne, QuietOne DEF Setup
  <2> QED BY <2>1, <2>2
<1>8. Window(c, o, v, <<>>)
  <2>1. b.remote_window + 0 + 0 <= o.local_window
    BY <1>1, <1>2, TotalsNone DEF Bytes, Window
  <2> QED BY <1>7, <2>1, TotalsNone DEF Window, SameWindows
<1>9. Window(o, c, <<>>, v)
  <2>1. c.type = "open" =>
          o.remote_window + 0 + Total(v, {"adjust", "confirm", "open"}) <= c.local_window
    BY <1>3, <1>4, <1>7
  <2> QED BY <2>1, TotalsNone DEF Window
<1>10. Room("server", c)
  BY <1>1, <1>3 DEF Local, Room, SameWindows, Fresh, ExtWrite
<1>11. Stages("server", c) /\ Command("server", c, k)
  BY <1>1, <1>2 DEF Local, Stages, Command, Live, Fresh
<1>12. Opening(o, c, <<>>, v)
  <2>1. \A i \in 2 .. Len(v) : v[i].type \notin Setup
    BY <1>7
  <2> QED BY <1>2, <1>7, <2>1 DEF Opening, Refused, Live
<1>13. Shake("server", c, o, v, <<>>)
  BY <1>2, <1>12 DEF Shake, Handshake
<1>14. Local(Peer("server"), o, k) /\ "server" \in Ends /\ Quieted(<<>>)
  BY <1>1 DEF Peer, Ends, Quieted
<1> QED BY <1>2, <1>3, <1>7, <1>8, <1>9, <1>10, <1>11, <1>13, <1>14, BothFresh, TotalsNone

\* The client learns that it was refused.
LEMMA RefusedSystem ==
    ASSUME NEW b \in Channel, NEW o \in Channel, NEW k,
           System("client", b, o, <<>>, <<Failure>>, k), b.type = "opening", Refused(o),
           NEW c \in Channel, Fresh(c), SameWindows(b, c), c.type = "zombie"
    PROVE  System("client", c, o, <<>>, <<>>, k)
<1>1. Local("client", b, k) /\ Local("server", o, k)
  BY DEF System, Peer
<1>2. Fresh(b) /\ Fresh(o) /\ o.type # "none"
  BY <1>1, FreshIf DEF Local, Stages, Live, Refused
<1>3. Window(c, o, <<>>, <<>>) /\ Window(o, c, <<>>, <<>>)
  BY DEF Window, Refused
<1>4. Room("client", c)
  BY <1>1, <1>2 DEF Local, Room, SameWindows, Fresh
<1>5. Stages("client", c) /\ Command("client", c, k)
  BY DEF Stages, Command, Live, Fresh
<1>6. Opened(c, o, <<>>, <<>>)
  BY DEF Opened, Refused
<1>7. Shake("client", c, o, <<>>, <<>>)
  BY <1>2, <1>6 DEF Shake, Handshake
<1>8. Local(Peer("client"), o, k) /\ "client" \in Ends /\ Quieted(<<>>)
  BY <1>1 DEF Peer, Ends, Quieted
<1> QED BY <1>2, <1>3, <1>4, <1>5, <1>7, <1>8, BothFresh, TotalsNone

LEMMA Dropped ==
    ASSUME NEW o, NEW c, NEW u \in Seq(Message), u # <<>>, NEW t, t = Tail(u),
           Ordered(u), Flags(o, c, u)
    PROVE  Ordered(t) /\ Flags(o, c, t) /\ t \in Seq(Message)
<1>1. /\ t \in Seq(Message) /\ Len(u) = Len(t) + 1 /\ Len(t) \in Nat
      /\ \A i \in 1 .. Len(t) : i + 1 \in 1 .. Len(u) /\ t[i] = u[i + 1]
  BY Shorter
<1>2. Ordered(t)
  <2> SUFFICES ASSUME NEW i \in 1 .. Len(t), NEW j \in 1 .. Len(t), i < j
               PROVE  /\ t[i].type # "close"
                      /\ t[i].type = "eof" => t[j].type \notin {"data", "ext", "eof"}
    BY DEF Ordered
  <2>1. i + 1 \in 1 .. Len(u) /\ j + 1 \in 1 .. Len(u) /\ i + 1 < j + 1
        /\ t[i] = u[i + 1] /\ t[j] = u[j + 1]
    BY <1>1
  <2> QED BY <2>1 DEF Ordered
<1>3. Flags(o, c, t)
  BY <1>1 DEF Flags
<1> QED BY <1>1, <1>2, <1>3

\* The client learns that the channel is open, and a session asks for its
\* shell.
LEMMA ConfirmGood ==
    ASSUME NEW c, NEW o, NEW u, NEW k, Good("client", c, o, <<>>, u, k),
           c.type = "opening", c.sent = <<>>, u # <<>>, Head(u).type = "confirm",
           Opening(c, o, <<>>, u),
           NEW d, d = channel_input_open_confirmation(c, Head(u).n)
    PROVE  Good("client", d, o, <<>>, Tail(u), k) /\ Seen(c, d) /\ d.type = "open"
<1> DEFINE n == Head(u).n
           t == Tail(u)
<1>0. <<>> \o c.sent = <<>>
  OBVIOUS
<1>1. /\ c \in Channel /\ o \in Channel /\ u \in Seq(Message)
      /\ Local("client", c, k) /\ Local("server", o, k) /\ kind \in {"session", "forward"}
      /\ k \in {"none", "running", "reaped"} /\ Shake("client", c, o, <<>>, u)
      /\ Direction(c, o, <<>>, u) /\ Direction(o, c, u, <<>>)
  BY <1>0 DEF Good, Typed, System, Peer
<1>2. Window(o, c, t, <<>>) /\ Stream(o, c, t)
  BY <1>0, Taken
<1>3. t \in Seq(Message) /\ n \in Nat /\ Len(u) = Len(t) + 1 /\ Len(t) \in Nat
      /\ u[1] = Head(u)
      /\ \A i \in 1 .. Len(t) : i + 1 \in 1 .. Len(u) /\ t[i] = u[i + 1]
  BY <1>1, Shorter DEF Message
<1>4. Ordered(t) /\ Flags(o, c, t)
  BY <1>1, Dropped DEF Direction
<1>5. Total(u, {"adjust", "confirm", "open"})
        = n + Total(t, {"adjust", "confirm", "open"})
      /\ Total(t, {"adjust", "confirm", "open"}) \in Nat
  BY <1>1, <1>3, TotalsTail, Totals
<1>6. Fresh(c) /\ c.remote_window = 0
  BY <1>1, FreshIf DEF Local, Stages, Live
<1>7. Shell \in Message /\ Shell.type = "shell"
  BY DEF Shell, Message
<1>8. PICK v : v = IF kind = "session" THEN <<Shell>> ELSE <<>>
  OBVIOUS
<1>9. v \in Seq(Message) /\ Quieted(v) /\ Total(v, {"data", "ext"}) = 0
      /\ Total(v, {"adjust", "confirm", "open"}) = 0 /\ Total(v, {"data"}) = 0
      /\ (\A i \in 1 .. Len(v) : v[i].type = "shell")
      /\ (kind = "session" => v # <<>> /\ v[1].type = "shell")
  <2>1. CASE kind = "session"
    <3>1. v = <<Shell>>
      BY <1>8, <2>1
    <3>2. Quieted(v)
      BY <1>7, <3>1, QuietOne
    <3>3. Total(v, {"data"}) = 0
      <4>1. \A i \in 1 .. Len(v) : v[i].type \notin {"data"}
        BY <3>2 DEF Quieted
      <4> QED BY <1>7, <3>1, <4>1, TotalsOne, TotalNone
    <3>4. \A i \in 1 .. Len(v) : v[i].type = "shell"
      <4>1. \A i \in 1 .. Len(v) : i = 1
        BY <1>7, <3>1, TotalsOne
      <4> QED BY <1>7, <3>1, <4>1, TotalsOne
    <3> QED BY <1>7, <3>1, <3>2, <3>3, <3>4, TotalsOne
  <2>2. CASE kind # "session"
    <3>1. v = <<>>
      BY <1>8, <2>2
    <3> QED BY <2>2, <3>1, TotalsNone DEF Quieted
  <2> QED BY <2>1, <2>2
<1>10. /\ d \in Channel /\ d.sent = v /\ d.type = "open" /\ d.istate = c.istate
       /\ d.ostate = c.ostate /\ d.flags = c.flags /\ d.detach = c.detach
       /\ SameBuffers(c, d) /\ Seen(c, d) /\ d.remote_window = n
       /\ d.local_window = c.local_window /\ d.local_consumed = c.local_consumed
  <2>1. d = [c EXCEPT !.remote_window = n, !.type = "open", !.sent = v]
    <3>1. CASE kind = "session"
      <4>1. Append(<<>>, Shell) = v
        BY <1>8, <3>1
      <4> QED BY <1>1, <3>1, <4>1 DEF channel_input_open_confirmation, Send, Channel
    <3>2. CASE kind # "session"
      <4>1. c.sent = v
        BY <1>8, <3>2
      <4> QED BY <1>1, <3>2, <4>1 DEF channel_input_open_confirmation, Channel
    <3> QED BY <3>1, <3>2
  <2>2. c \in Channel /\ n \in Nat /\ v \in Seq(Message)
    BY <1>1, <1>3, <1>9
  <2> HIDE DEF n
  <2>3. d \in Channel
    BY ONLY <2>1, <2>2 DEF Channel
  <2> QED BY ONLY <2>1, <2>2, <2>3 DEF Channel, SameBuffers, Seen
<1> HIDE DEF n, t
<1>11. Local("client", d, k)
  BY <1>1, <1>6, <1>10 DEF Local, Machines, Stages, Command, Room, Live, Fresh,
     SameBuffers, Seen
<1>12. Ordered(v) /\ Flags(d, o, v) /\ Flags(o, d, t)
  <2>1. Ordered(v)
    BY <1>9 DEF Ordered
  <2>2. Flags(d, o, v)
    <3>1. "EOF_RCVD" \notin o.flags /\ "CLOSE_RCVD" \notin o.flags
      BY <1>1, <1>6 DEF Direction, Flags, Fresh
    <3> QED BY <1>9, <3>1 DEF Flags
  <2>3. Flags(o, d, t)
    BY <1>4, <1>10 DEF Flags
  <2> QED BY <2>1, <2>2, <2>3
<1>13. Bytes(d, o, v, t)
  <2>1. Stream(d, o, v)
    BY <1>1, <1>9, <1>10, TotalsNone DEF Direction, Bytes, Stream, SameBuffers, Seen
  <2>2. Complete(d, o)
    BY <1>1, <1>10 DEF Direction, Bytes, Complete, Seen
  <2>3. Window(d, o, v, t)
    <3> DEFINE ta == Total(t, {"adjust", "confirm", "open"})
               ua == Total(u, {"adjust", "confirm", "open"})
    <3>1. ta \in Nat /\ ua = n + ta
      BY <1>5 DEF n, t
    <3>2. o.type \in {"larval", "open", "opening", "connecting"} => 0 + 0 + ua <= o.local_window
      BY <1>1, <1>6, TotalsNone DEF Direction, Bytes, Window
    <3> HIDE DEF ta, ua
    <3>3. 0 + 0 + ua = n + 0 + ta
      BY <1>3, <3>1 DEF n
    <3>4. o.type \in {"larval", "open", "opening", "connecting"} =>
            d.remote_window + Total(v, {"data", "ext"}) + ta <= o.local_window
      BY <1>9, <1>10, <3>2, <3>3
    <3> QED BY <3>4 DEF Window, ta
  <2> QED BY <2>1, <2>2, <2>3 DEF Bytes
<1>14. Bytes(o, d, t, v)
  BY <1>1, <1>2, <1>9, <1>10, TotalsNone
     DEF Direction, Bytes, Stream, Complete, Window, SameBuffers, Seen
<1>15. Shake("client", d, o, v, t)
  <2>1. Head(u).type = "confirm" /\ Failure.type = "failure"
    BY DEF Failure
  <2>2. \/ o.type = "larval" /\ kind = "session" /\ u = <<Confirm(0)>>
        \/ Live(o) /\ kind = "forward" /\ \A i \in 2 .. Len(u) : u[i].type \notin Setup
    <3>1. u # <<Failure>>
      BY <2>1
    <3> QED BY <3>1 DEF Opening
  <2>3. \A i \in 1 .. Len(t) : t[i].type \notin Setup
    <3>1. CASE u = <<Confirm(0)>>
      <4>1. Len(t) = 0
        BY <3>1 DEF t
      <4> QED BY <4>1
    <3>2. CASE \A i \in 2 .. Len(u) : u[i].type \notin Setup
      <4>1. \A i \in 1 .. Len(t) : i + 1 \in 2 .. Len(u) /\ t[i] = u[i + 1]
        BY <1>3 DEF t
      <4> QED BY <3>2, <4>1
    <3> QED BY <2>2, <3>1, <3>2
  <2>4. \A i \in 1 .. Len(v) : v[i].type \notin Setup
    BY <1>9 DEF Setup
  <2>5. o.type \notin {"none", "connecting"} /\ ~Refused(o) /\ ~Refused(d)
    BY <1>10, <2>2 DEF Live, Refused
  <2>6. Opened(d, o, v, t)
    BY <1>9, <2>2, <2>3, <2>4, <2>5 DEF Opened, Live
  <2> QED BY <1>10, <2>5, <2>6 DEF Shake, Handshake
<1>16. System("client", d, o, v, t, k)
  BY <1>1, <1>4, <1>11, <1>12, <1>13, <1>14, <1>15 DEF System, Direction, Peer
<1>17. <<>> \o d.sent = v /\ t \in Seq(Message) /\ <<>> \in Seq(Message)
  BY <1>3, <1>9, <1>10 DEF t
<1>18. Typed("client", d, o, <<>>, t, k)
  BY <1>1, <1>10, <1>17 DEF Typed, Ends
<1>19. Good("client", d, o, <<>>, t, k)
  BY <1>16, <1>17, <1>18 DEF Good
<1> QED BY <1>10, <1>19 DEF t

\* The server starts the command of a session: the channel opens, without
\* window at first, and then opens its window.
Started(c) == [c EXCEPT !.type = "open", !.efd = TRUE]

LEMMA StartedGood ==
    ASSUME NEW c, NEW o, NEW w, NEW u, NEW k, Good("server", c, o, w, u, k),
           c.type = "larval", u # <<>>, o.type \notin {"none", "opening"},
           Opened(o, c, u, w \o c.sent), NEW d, d = Started(c)
    PROVE  /\ Good("server", d, o, w, Tail(u), "running")
           /\ d.sent = c.sent /\ SameBuffers(c, d) /\ SameWindows(c, d) /\ Seen(c, d)
           /\ d.type = "open" /\ d.flags = {} /\ d.ostate = "open" /\ Fresh(c)
<1> DEFINE q == w \o c.sent
           t == Tail(u)
<1>1. /\ c \in Channel /\ o \in Channel /\ u \in Seq(Message) /\ w \in Seq(Message)
      /\ Local("server", c, k) /\ Local("client", o, k) /\ kind \in {"session", "forward"}
      /\ Direction(c, o, q, u) /\ Direction(o, c, u, q)
  BY DEF Good, Typed, System, Peer
<1>2. Window(c, o, q, t) /\ Window(o, c, t, q)
      /\ (Head(u).type # "data" \/ c.ostate = "closed" => Stream(o, c, t))
  BY Taken
<1>3. t \in Seq(Message) /\ Len(u) = Len(t) + 1 /\ Len(t) \in Nat /\ u[1] = Head(u)
      /\ \A i \in 1 .. Len(t) : i + 1 \in 1 .. Len(u) /\ t[i] = u[i + 1]
  BY <1>1, Shorter
<1>4. Ordered(t) /\ Flags(o, c, t)
  BY <1>1, Dropped DEF Direction
<1>5. Fresh(c)
  BY <1>1, FreshIf DEF Local, Live
<1>6. c \in Channel
  BY <1>1
<1>7. d \in Channel
  BY ONLY <1>6, d = Started(c) DEF Started, Channel
<1>8. /\ d.sent = c.sent /\ d.type = "open" /\ d.istate = c.istate /\ d.ostate = c.ostate
      /\ d.flags = c.flags /\ d.detach = c.detach
      /\ SameBuffers(c, d) /\ SameWindows(c, d) /\ Seen(c, d)
  BY ONLY <1>6, <1>7, d = Started(c) DEF Started, Channel, SameBuffers, SameWindows, Seen
<1> HIDE DEF q, t
<1>9. Stream(o, c, t)
  <2>1. Head(u).type # "data"
    BY <1>3 DEF Opened
  <2> QED BY <1>2, <2>1
<1>10. Local("server", d, "running")
  <2>1. Machines(d) /\ Room("server", d)
    BY <1>1, <1>5, <1>8 DEF Local, Machines, Room, Fresh, SameBuffers, SameWindows, Seen
  <2>2. Stages("server", d)
    BY <1>1, <1>5, <1>8 DEF Local, Stages, Live, Fresh, SameWindows, Seen
  <2>3. Command("server", d, "running")
    BY <1>1, <1>8 DEF Local, Command, Live
  <2> QED BY <2>1, <2>2, <2>3 DEF Local
<1>11. Local("client", o, "running")
  BY <1>1 DEF Local, Command
<1>12. Direction(d, o, q, t)
  BY <1>1, <1>2, <1>8 DEF Direction, Flags, Bytes, Stream, Complete, Window,
     SameBuffers, SameWindows, Seen
<1>13. Direction(o, d, t, q)
  BY <1>1, <1>2, <1>4, <1>8, <1>9 DEF Direction, Flags, Bytes, Stream, Complete, Window,
     SameBuffers, SameWindows, Seen
<1>14. Shake("server", d, o, q, t)
  <2>1. \A i \in 1 .. Len(t) : t[i].type \notin Setup
    BY <1>3 DEF Opened, t
  <2>2. Opened(o, c, u, q)
    BY DEF q
  <2>3. Refused(o) => t = <<>>
    BY <2>2 DEF Opened
  <2>4. Opened(o, d, t, q)
    BY <1>8, <2>1, <2>2, <2>3 DEF Opened, Refused
  <2> QED BY <1>8, <2>4 DEF Shake, Handshake
<1>15. System("server", d, o, q, t, "running")
  BY <1>10, <1>11, <1>12, <1>13, <1>14 DEF System, Peer
<1>16. Typed("server", d, o, w, t, "running")
  BY <1>1, <1>3, <1>7 DEF Typed, Ends, t
<1>17. Good("server", d, o, w, t, "running")
  BY <1>8, <1>15, <1>16 DEF Good, q
<1> QED BY <1>5, <1>8, <1>17 DEF t, Fresh

LEMMA ShellGood ==
    ASSUME NEW c, NEW o, NEW w, NEW u, NEW k, Good("server", c, o, w, u, k),
           c.type = "larval", u # <<>>, o.type \notin {"none", "opening"},
           Opened(o, c, u, w \o c.sent), NEW d, d = channel_set_fds(c)
    PROVE  /\ Good("server", d, o, w, Tail(u), "running") /\ Seen(c, d)
           /\ d.type = "open"
<1> DEFINE t == Tail(u)
<1>1. PICK a : a = Started(c)
  OBVIOUS
<1>2. /\ Good("server", a, o, w, t, "running")
      /\ a.sent = c.sent /\ SameBuffers(c, a) /\ SameWindows(c, a) /\ Seen(c, a)
      /\ a.type = "open" /\ a.flags = {} /\ a.ostate = "open" /\ Fresh(c)
  BY <1>1, StartedGood
<1> HIDE DEF t
<1> DEFINE q == w \o a.sent
           m == Adjust(WindowMax)
           se == Append(a.sent, m)
<1>3. /\ a \in Channel /\ o \in Channel /\ t \in Seq(Message)
      /\ Local("server", a, "running") /\ q \in Seq(Message)
      /\ Bytes(a, o, q, t) /\ Bytes(o, a, t, q)
  BY <1>2, GoodFacts
<1>4. WindowMax \in Nat
  BY ChannelAssumption DEF ChannelAssumption
<1>5. m \in Message /\ m.type = "adjust" /\ m.n = WindowMax
  BY <1>4 DEF Adjust, Message
<1>6. c \in Channel /\ Local("server", c, k)
  BY GoodFacts
<1>7. a.local_window = 0 /\ a.output = 0 /\ a.local_consumed = 0
  BY <1>2, <1>6 DEF Local, Stages, SameWindows, SameBuffers, Fresh
<1>8. d = [a EXCEPT !.local_window = WindowMax, !.local_window_max = WindowMax, !.sent = se]
  BY <1>1, <1>2, <1>6 DEF Started, channel_set_fds, Send, Channel
<1>9. a \in Channel /\ se \in Seq(Message)
  BY <1>3, <1>5 DEF Channel
<1>10. se = Append(a.sent, m)
  OBVIOUS
<1> HIDE DEF q, m, se
<1>11. d \in Channel
  BY ONLY <1>4, <1>8, <1>9 DEF Channel
<1>12. /\ d.sent = se /\ SameMachine(a, d) /\ SameBuffers(a, d) /\ Seen(a, d)
       /\ d.local_window = WindowMax /\ d.remote_window = a.remote_window
       /\ d.local_consumed = a.local_consumed
  BY ONLY <1>4, <1>8, <1>9, <1>11 DEF Channel, SameMachine, SameBuffers, Seen
<1>13. Local("server", d, "running")
  <2>1. Machines(d) /\ Stages("server", d) /\ Command("server", d, "running")
    BY <1>2, <1>3, <1>12 DEF Local, Machines, Stages, Command, Live, SameMachine, Seen
  <2>2. Room("server", d)
    BY <1>4, <1>7, <1>12 DEF Room, ExtWrite, SameBuffers
  <2> QED BY <2>1, <2>2 DEF Local
<1>14. PICK v : v = Append(q, m)
  OBVIOUS
<1>15. /\ Total(v, {"data"}) = Total(q, {"data"})
       /\ Total(v, {"data", "ext"}) = Total(q, {"data", "ext"})
       /\ Total(v, {"adjust", "confirm", "open"}) =
            Total(q, {"adjust", "confirm", "open"}) + WindowMax
  <2>1. /\ Total(v, {"data"}) = Total(q, {"data"}) + 0
        /\ Total(v, {"data", "ext"}) = Total(q, {"data", "ext"}) + 0
        /\ Total(v, {"adjust", "confirm", "open"}) =
             Total(q, {"adjust", "confirm", "open"}) + WindowMax
    BY <1>3, <1>5, <1>14, TotalsAppend
  <2> QED BY <1>3, <2>1, Totals
<1>16. Bytes(d, o, v, t)
  BY <1>3, <1>12, <1>15 DEF Bytes, Stream, Complete, Window, SameMachine, SameBuffers, Seen
<1>17. Window(o, d, t, v)
  <2> DEFINE te == Total(t, {"data", "ext"})
             qa == Total(q, {"adjust", "confirm", "open"})
  <2>1. te \in Nat /\ qa \in Nat /\ o.remote_window \in Nat
    BY <1>3, Totals, Numbers
  <2>2. o.remote_window + te + qa <= 0
    BY <1>2, <1>3, <1>7 DEF Bytes, Window
  <2> HIDE DEF te, qa
  <2>3. o.remote_window + te + (qa + WindowMax) <= WindowMax
    BY <1>4, <2>1, <2>2
  <2> QED BY <1>12, <1>15, <2>3 DEF Window, te, qa
<1>18. Stream(o, d, t) /\ Complete(o, d)
  BY <1>3, <1>12 DEF Bytes, Stream, Complete, SameMachine, SameBuffers, Seen
<1>19. Part("server", d, o, v, t, "running")
  BY <1>13, <1>16, <1>17, <1>18 DEF Part, Bytes
<1>20. Live(a) /\ Live(d) /\ m.type \notin Setup /\ d.flags = a.flags \cup Marks(m)
       /\ "CLOSE_SENT" \notin a.flags /\ d.ostate = a.ostate
       /\ m.type \notin {"data", "ext", "eof", "eow"}
  BY <1>2, <1>5, <1>12 DEF Live, Setup, Marks, SameMachine
<1>21. d.sent = Append(a.sent, m) /\ Part("server", d, o, Append(w \o a.sent, m), t, "running")
  BY <1>10, <1>12, <1>14, <1>19 DEF q
<1>22. Good("server", d, o, w, t, "running")
  BY ONLY <1>2, <1>5, <1>11, <1>20, <1>21, Sending
<1> QED BY <1>2, <1>12, <1>22 DEF t, Seen, SameMachine

LEMMA Reaped ==
    ASSUME NEW e, NEW c, NEW o, NEW w, NEW u, Good(e, c, o, w, u, "running")
    PROVE  Good(e, c, o, w, u, "reaped")
<1> DEFINE q == w \o c.sent
<1>1. System(e, c, o, q, u, "running") /\ Typed(e, c, o, w, u, "running")
  BY DEF Good
<1> HIDE DEF q
<1>2. System(e, c, o, q, u, "reaped")
  BY <1>1 DEF System, Local, Command
<1>3. Typed(e, c, o, w, u, "reaped")
  BY <1>1 DEF Typed
<1> QED BY <1>2, <1>3 DEF Good, q

\* The exit status goes out while the channel is still attached.
Attached(c) == [Send(c, ExitStatus) EXCEPT !.detach = "close"]

LEMMA AttachedGood ==
    ASSUME NEW c, NEW o, NEW w, NEW u, Good("server", c, o, w, u, "running"),
           c.detach # "none", NEW d, d = Attached(c)
    PROVE  Good("server", d, o, w, u, "reaped") /\ Seen(c, d) /\ d.type = "open"
           /\ c.type = "open"
<1>0. Good("server", c, o, w, u, "reaped")
  BY Reaped
<1>1. c \in Channel /\ Local("server", c, "running") /\ Local("server", c, "reaped")
      /\ w \o c.sent \in Seq(Message)
      /\ Bytes(c, o, w \o c.sent, u) /\ Bytes(o, c, u, w \o c.sent)
  BY <1>0, GoodFacts
<1>2. c.detach = "user" /\ c.type = "open" /\ "CLOSE_SENT" \notin c.flags
  <2>1. c.detach = "user"
    BY <1>1 DEF Local, Command, Channel
  <2>2. Live(c)
    BY <1>1, <2>1 DEF Local, Command
  <2>3. c.type # "abandoned"
    BY <1>1, <2>1 DEF Local, Stages
  <2> QED BY <1>1, <2>1, <2>2, <2>3 DEF Local, Machines, Live
<1> DEFINE m == ExitStatus
           se == Append(c.sent, m)
<1>3. m \in Message /\ m.type = "exit"
  BY DEF ExitStatus, Message
<1>4. c \in Channel /\ se \in Seq(Message)
  BY <1>1, <1>3 DEF Channel
<1>5. d = [c EXCEPT !.sent = se, !.detach = "close"]
  BY <1>1 DEF Attached, Send, Channel
<1>6. se = Append(c.sent, m)
  OBVIOUS
<1> HIDE DEF m, se
<1>7. d \in Channel
  BY ONLY <1>4, <1>5 DEF Channel
<1>8. /\ d.sent = se /\ d.type = c.type /\ d.istate = c.istate /\ d.ostate = c.ostate
      /\ d.flags = c.flags /\ d.detach = "close"
      /\ SameBuffers(c, d) /\ SameWindows(c, d) /\ Seen(c, d)
  BY ONLY <1>4, <1>5, <1>7 DEF Channel, SameBuffers, SameWindows, Seen
<1>9. Local("server", d, "reaped")
  <2>1. Machines(d) /\ Room("server", d)
    BY <1>1, <1>8 DEF Local, Machines, Room, SameBuffers, SameWindows, Seen
  <2>2. Stages("server", d) /\ Command("server", d, "reaped")
    BY <1>1, <1>2, <1>8 DEF Local, Stages, Command, Live, SameWindows, Seen
  <2> QED BY <2>1, <2>2 DEF Local
<1>10. PICK q : q = w \o c.sent
  OBVIOUS
<1>11. PICK v : v = Append(q, m)
  OBVIOUS
<1>12. /\ Total(v, {"data"}) = Total(q, {"data"})
       /\ Total(v, {"data", "ext"}) = Total(q, {"data", "ext"})
       /\ Total(v, {"adjust", "confirm", "open"}) =
            Total(q, {"adjust", "confirm", "open"})
  BY <1>1, <1>3, <1>10, <1>11, TotalsControl
<1>13. Bytes(c, o, q, u) /\ Bytes(o, c, u, q)
  BY <1>1, <1>10
<1>14. Bytes(d, o, v, u) /\ Bytes(o, d, u, v)
  BY <1>8, <1>12, <1>13
     DEF Bytes, Stream, Complete, Window, SameBuffers, SameWindows, Seen
<1>15. Part("server", d, o, v, u, "reaped")
  BY <1>9, <1>14 DEF Part
<1>16. Live(c) /\ Live(d) /\ m.type \notin Setup /\ d.flags = c.flags \cup Marks(m)
       /\ m.type \notin {"data", "ext", "eof", "eow"} /\ d.ostate = c.ostate
       /\ "CLOSE_SENT" \notin c.flags
  BY <1>2, <1>3, <1>8 DEF Live, Setup, Marks
<1>17. d.sent = Append(c.sent, m) /\ Part("server", d, o, Append(w \o c.sent, m), u, "reaped")
  BY <1>6, <1>8, <1>10, <1>11, <1>15
<1>18. Good("server", d, o, w, u, "reaped")
  BY ONLY <1>0, <1>3, <1>7, <1>16, <1>17, Sending
<1> QED BY <1>2, <1>8, <1>18

-----------------------------------------------------------------------------
(* The actions. *)

LEMMA ClientServer == "client" \in Ends /\ "server" \in Ends
                      /\ Peer("client") = "server" /\ Peer("server") = "client"
BY DEF Ends, Peer

LEMMA OpenChannelStep ==
    ASSUME Inv, OpenChannel
    PROVE  Inv' /\ StreamStep
<1> DEFINE det == IF kind = "session" THEN "user" ELSE "none"
           o == ch["server"]
<1>0. WindowMax \in Nat
  BY ChannelAssumption DEF ChannelAssumption
<1>1. PICK a : a = channel_new("opening", WindowMax, det)
  OBVIOUS
<1>2. PICK b : b = [a EXCEPT !.efd = (kind = "session")]
  OBVIOUS
<1>3. PICK d : d = Send(b, Open(WindowMax))
  OBVIOUS
<1>4. /\ Update("client", d) /\ ch["client"].type = "none" /\ kind' = kind
      /\ child' = child /\ broken' = broken
  BY <1>1, <1>2, <1>3 DEF OpenChannel
<1>5. /\ a \in Channel /\ a.type = "opening" /\ Fresh(a) /\ a.sent = <<>>
      /\ a.local_window = WindowMax /\ a.remote_window = 0
  BY <1>0, <1>1, NewChannel
<1>6. b \in Channel /\ b.type = "opening" /\ Fresh(b) /\ b.sent = <<>>
      /\ b.local_window = WindowMax /\ b.remote_window = 0
  <2>1. a \in Channel /\ (kind = "session") \in BOOLEAN
    BY <1>5
  <2>2. b \in Channel
    BY ONLY <1>2, <2>1 DEF Channel
  <2>3. b.type = a.type /\ b.sent = a.sent /\ SameWindows(a, b)
    BY ONLY <1>2, <2>1, <2>2 DEF Channel, SameWindows
  <2>4. Fresh(b)
    BY ONLY <1>2, <1>5, <2>1, <2>2 DEF Channel, Fresh
  <2> QED BY <1>5, <2>2, <2>3, <2>4 DEF SameWindows
<1> DEFINE se == <<Open(WindowMax)>>
<1>7. Open(WindowMax) \in Message /\ se \in Seq(Message) /\ Append(<<>>, Open(WindowMax)) = se
  BY <1>0 DEF Open, Message
<1>8. d = [b EXCEPT !.sent = se]
  BY <1>3, <1>6, <1>7 DEF Send
<1>9. d \in Channel /\ d.type = "opening" /\ Fresh(d) /\ d.sent = se
      /\ d.local_window = WindowMax /\ d.remote_window = 0
  <2>1. b \in Channel /\ se \in Seq(Message)
    BY <1>6, <1>7
  <2> HIDE DEF se
  <2>2. d \in Channel
    BY ONLY <1>8, <2>1 DEF Channel
  <2> QED BY <1>6, <1>8, <2>1, <2>2 DEF Channel, Fresh
<1>10. /\ System("client", ch["client"], o, wire["server"], wire["client"], child)
       /\ o \in Channel /\ ch["client"] \in Channel
  BY InvGood, ClientServer
<1>11. o.type = "none" /\ wire["server"] = <<>> /\ wire["client"] = <<>>
       /\ Local("server", o, child) /\ Local("client", ch["client"], child)
  BY <1>4, <1>10 DEF System, Shake, Handshake, Peer
<1>12. System("client", d, o, se, <<>>, child)
  BY <1>9, <1>10, <1>11, OpenSystem
<1>13. <<>> \o d.sent = se /\ <<>> \in Seq(Message)
  BY <1>7, <1>9
<1>14. Good("client", d, o, <<>>, <<>>, child)
  <2>1. Typed("client", d, o, <<>>, <<>>, child)
    BY <1>9, <1>10, <1>13, ClientServer DEF Typed, Inv, TypeOK
  <2> QED BY <1>12, <1>13, <2>1 DEF Good
<1>15. Acts(ch["client"], d, o)
  <2>1. Fresh(ch["client"])
    BY <1>4, <1>11, FreshIf DEF Local, Live
  <2> QED BY <1>9, <2>1 DEF Acts, Fresh
<1> QED BY <1>4, <1>9, <1>11, <1>14, <1>15, Updated, ClientServer

LEMMA ConnectingStep ==
    ASSUME Inv, channel_post_connecting
    PROVE  Inv' /\ StreamStep
<1> DEFINE c == ch["server"]
           o == ch["client"]
           w == wire["client"]
           u == wire["server"]
<1>1. /\ c \in Channel /\ o \in Channel /\ System("server", c, o, w, u, child)
      /\ c.sent = <<>> /\ w \in Seq(Message) /\ u \in Seq(Message)
  BY InvGood, ClientServer
<1>2. /\ c.type = "connecting" /\ kind' = kind /\ child' = child /\ broken' = broken
  BY DEF channel_post_connecting
<1>3. Fresh(c) /\ Local("server", c, child)
  BY <1>1, <1>2, FreshIf DEF System, Local, Live
<1>4. ASSUME NEW d \in Channel, NEW m \in Message, Update("server", d), d.sent = <<m>>,
             Fresh(d), SameWindows(c, d), d.detach = c.detach,
             \/ d.type = "open" /\ m = Confirm(c.local_window)
             \/ d.type = "zombie" /\ m = Failure
      PROVE  Inv' /\ StreamStep
  <2>1. w = <<>> /\ d.sent \in Seq(Message) /\ System("server", d, o, d.sent, u, child)
    BY <1>1, <1>2, <1>4, ConnectSystem
  <2>2. w \o d.sent = d.sent
    BY <2>1
  <2>3. Good("server", d, o, w, u, child)
    <3>1. Typed("server", d, o, w, u, child)
      BY <1>1, <1>4, ClientServer DEF Typed, Inv, TypeOK
    <3> QED BY <2>1, <2>2, <3>1 DEF Good
  <2>4. Acts(c, d, o) /\ ~d.forced
    BY <1>3, <1>4 DEF Acts, Fresh
  <2> QED BY <1>2, <1>4, <2>3, <2>4, Updated, ClientServer
<1>5. CASE Update("server", Send([c EXCEPT !.type = "open"], Confirm(c.local_window)))
  <2> DEFINE m == Confirm(c.local_window)
             se == <<m>>
  <2>1. PICK d : d = Send([c EXCEPT !.type = "open"], Confirm(c.local_window))
    OBVIOUS
  <2>2. m \in Message /\ se \in Seq(Message) /\ Append(<<>>, m) = se
    BY <1>1, Numbers DEF Confirm, Message
  <2>3. d = [c EXCEPT !.type = "open", !.sent = se]
    BY <1>1, <2>1, <2>2 DEF Send, Channel
  <2>4. c \in Channel /\ se \in Seq(Message) /\ se = <<m>> /\ m = Confirm(c.local_window)
    BY <1>1, <2>2
  <2>5. Update("server", d)
    BY <1>5, <2>1
  <2> HIDE DEF m, se, c
  <2>6. d \in Channel
    BY ONLY <2>3, <2>4 DEF Channel
  <2>7. d.sent = se /\ d.type = "open" /\ SameWindows(c, d) /\ d.detach = c.detach
    BY ONLY <2>3, <2>4, <2>6 DEF Channel, SameWindows
  <2>8. Fresh(d)
    BY ONLY <1>3, <2>3, <2>4, <2>6 DEF Channel, Fresh
  <2> QED BY <1>4, <2>2, <2>4, <2>5, <2>6, <2>7, <2>8
<1>6. CASE Update("server", chan_mark_dead(Send(c, Failure)))
  <2> DEFINE m == Failure
             se == <<m>>
  <2>1. PICK d : d = chan_mark_dead(Send(c, Failure))
    OBVIOUS
  <2>2. m \in Message /\ se \in Seq(Message) /\ Append(<<>>, m) = se
    BY DEF Failure, Message
  <2>3. d = [c EXCEPT !.type = "zombie", !.sent = se]
    BY <1>1, <2>1, <2>2 DEF Send, Channel, chan_mark_dead
  <2>4. c \in Channel /\ se \in Seq(Message) /\ se = <<m>> /\ m = Failure
    BY <1>1, <2>2
  <2>5. Update("server", d)
    BY <1>6, <2>1
  <2> HIDE DEF m, se, c
  <2>6. d \in Channel
    BY ONLY <2>3, <2>4 DEF Channel
  <2>7. d.sent = se /\ d.type = "zombie" /\ SameWindows(c, d) /\ d.detach = c.detach
    BY ONLY <2>3, <2>4, <2>6 DEF Channel, SameWindows
  <2>8. Fresh(d)
    BY ONLY <1>3, <2>3, <2>4, <2>6 DEF Channel, Fresh
  <2> QED BY <1>4, <2>2, <2>4, <2>5, <2>6, <2>7, <2>8
<1> QED BY <1>5, <1>6 DEF channel_post_connecting

LEMMA ExitStep ==
    ASSUME Inv, session_exit_message
    PROVE  Inv' /\ StreamStep
<1> DEFINE c == ch["server"]
           o == ch["client"]
           w == wire["client"]
           u == wire["server"]
<1>1. /\ Good("server", c, o, w, u, child) /\ c.sent = <<>> /\ c \in Channel
      /\ w \in Seq(Message) /\ (c.type = "open" => ~c.forced)
  BY InvGood, ClientServer
<1>2. child = "running" /\ child' = "reaped" /\ kind' = kind /\ broken' = broken
  BY DEF session_exit_message
<1>3. Good("server", c, o, w, u, "running")
  BY <1>1, <1>2
<1>4. CASE c.detach = "none"
  <2>1. ch' = ch /\ wire' = wire
    BY <1>4 DEF session_exit_message
  <2>2. Good("server", c, o, w, u, child')
    BY <1>2, <1>3, Reaped
  <2>3. Acts(c, c, o)
    BY DEF Acts
  <2>4. Update("server", c)
    <3>1. c = [c EXCEPT !.sent = <<>>]
      BY <1>1 DEF Channel
    <3>2. w \o c.sent = w
      BY <1>1
    <3>3. ch' = [ch EXCEPT !["server"] = c] /\ wire' = [wire EXCEPT !["client"] = w]
      BY <2>1 DEF Inv, TypeOK
    <3> QED BY <3>1, <3>2, <3>3, ClientServer DEF Update
  <2> QED BY <1>1, <1>2, <2>2, <2>3, <2>4, Updated, ClientServer
<1>5. CASE c.detach # "none"
  <2>1. PICK a : a = Attached(c)
    OBVIOUS
  <2>2. PICK d : d = chan_write_failed(a)
    OBVIOUS
  <2>3. Update("server", d)
    BY <1>5, <2>1, <2>2 DEF session_exit_message, Attached
  <2>4. Good("server", a, o, w, u, "reaped") /\ Seen(c, a) /\ a.type = "open" /\ c.type = "open"
    BY <1>3, <1>5, <2>1, AttachedGood
  <2>5. Live(a)
    BY <2>4 DEF Live
  <2>6. /\ Good("server", d, o, w, u, "reaped")
        /\ d.read = a.read /\ d.written = a.written /\ d.forced = a.forced
        /\ d.end = IF a.ostate = "closed" THEN a.end ELSE "cut"
        /\ a.ostate # "closed" => a.end = "no"
        /\ d.type = "open"
    BY ONLY <2>2, <2>4, <2>5, WriteFailed
  <2>7. Acts(c, d, o)
    BY <2>4, <2>6 DEF Acts, Seen
  <2>8. ~d.forced
    BY <1>1, <2>4, <2>6 DEF Seen
  <2> QED BY <1>2, <2>3, <2>6, <2>7, <2>8, Updated, ClientServer
<1> QED BY <1>4, <1>5

LEMMA OutputPollStep ==
    ASSUME Inv, NEW e \in Ends, OutputPoll(e)
    PROVE  Inv' /\ StreamStep
<1>1. PICK d : d = channel_output_poll(e, ch[e]) /\ d # ch[e] /\ Update(e, d)
  BY DEF OutputPoll
<1>2. kind' = kind /\ child' = child /\ broken' = broken
  BY DEF OutputPoll
<1>3. Good(e, ch[e], ch[Peer(e)], wire[Peer(e)], wire[e], child)
      /\ (ch[e].type = "open" => ~ch[e].forced)
  BY InvGood
<1>4. Good(e, d, ch[Peer(e)], wire[Peer(e)], wire[e], child) /\ Seen(ch[e], d)
      /\ ch[e].type = "open"
  BY <1>1, <1>3, PollGood
<1>5. Acts(ch[e], d, ch[Peer(e)]) /\ ~d.forced
  BY <1>3, <1>4 DEF Acts, Seen
<1> QED BY <1>1, <1>2, <1>4, <1>5, Updated

LEMMA TimeoutStep ==
    ASSUME Inv, NEW e \in Ends, InactivityTimeout(e)
    PROVE  Inv' /\ StreamStep
<1> DEFINE c == ch[e]
           o == ch[Peer(e)]
<1>1. PICK a : a = channel_force_close(e, c)
  OBVIOUS
<1>2. PICK d : d = channel_garbage_collect(e, a)
  OBVIOUS
<1>3. /\ Update(e, d) /\ c.type = "open" /\ kind' = kind /\ child' = child
      /\ broken' = broken
  BY <1>1, <1>2 DEF InactivityTimeout
<1>4. Good(e, c, o, wire[Peer(e)], wire[e], child)
  BY InvGood
<1>5. /\ Good(e, a, o, wire[Peer(e)], wire[e], child) /\ a.type = "abandoned"
      /\ a.read = c.read /\ a.forced /\ a.written = c.written
      /\ a.end = c.end \/ (c.end = "no" /\ a.end = "cut")
  BY <1>1, <1>3, <1>4, ForceClose
<1>6. a.type \in Existing
  BY <1>5 DEF Existing
<1>7. Good(e, d, o, wire[Peer(e)], wire[e], child) /\ Seen(a, d) /\ d.type # "open"
  BY <1>2, <1>5, <1>6, Collected
<1>8. Acts(c, d, o)
  BY <1>5, <1>7 DEF Acts, Seen
<1> QED BY <1>3, <1>7, <1>8, Updated

LEMMA PollStep ==
    ASSUME Inv, NEW e \in Ends, PollIO(e)
    PROVE  Inv' /\ StreamStep
<1> DEFINE c == ch[e]
           o == ch[Peer(e)]
           w == wire[Peer(e)]
           u == wire[e]
<1>1. PICK a : a = Prepared(e)
        /\ \E r \in ReadOutcomes(e, a) : \E n \in WriteOutcomes(a) :
             \E x \in ExtOutcomes(e, a, n) : Poll(e, a, r, n, x)
  BY DEF PollIO
<1>2. PICK r \in ReadOutcomes(e, a), n \in WriteOutcomes(a) :
        \E x \in ExtOutcomes(e, a, n) : Poll(e, a, r, n, x)
  BY <1>1
<1>3. PICK x \in ExtOutcomes(e, a, n) : Poll(e, a, r, n, x)
  BY <1>2
<1>4. PICK d : /\ d = CASE a.type = "freed" -> a
                       [] a.type = "open"  -> channel_garbage_collect(e,
                                                channel_post_open(e, a, r, n, x))
                       [] OTHER            -> channel_garbage_collect(e, a)
               /\ Update(e, d) /\ c.type \notin {"none", "freed"}
               /\ kind' = kind /\ child' = child /\ broken' = broken
  BY <1>3 DEF Poll
<1>5. /\ Good(e, c, o, w, u, child) /\ c \in Channel /\ (c.type = "open" => ~c.forced)
  BY InvGood
<1>6. c.type \in Existing
  BY <1>4, <1>5 DEF Channel, Existing
<1>7. a = channel_garbage_collect(e, IF c.type = "open" THEN channel_pre_open(e, c) ELSE c)
  BY <1>1 DEF Prepared
<1> HIDE DEF c, o, w, u
<1>8. /\ Good(e, a, o, w, u, child) /\ a.type \in {c.type, "freed"}
      /\ a.read = c.read /\ a.written = c.written /\ a.forced = c.forced
      /\ a.end = c.end \/ (c.end = "no" /\ a.end = "eof")
  BY ONLY <1>5, <1>6, <1>7, PreparedGood
<1>9. /\ Good(e, d, o, w, u, child) /\ Acts(c, d, o) /\ (d.type = "open" => ~d.forced)
  <2>1. CASE a.type = "freed"
    <3>1. d = a
      BY <1>4, <2>1
    <3> QED BY <1>8, <2>1, <3>1 DEF Acts
  <2>2. CASE a.type = "open"
    <3>0. c.type = "open" /\ ~c.forced
      BY <1>5, <1>8, <2>2
    <3>1. PICK b : b = channel_post_open(e, a, r, n, x)
      OBVIOUS
    <3>2. d = channel_garbage_collect(e, b)
      BY <1>4, <2>2, <3>1
    <3>3. /\ Good(e, b, o, w, u, child) /\ b.type = "open" /\ b.forced = a.forced
          /\ b.read = a.read \/ (b.read > a.read /\ o.end # "eof")
          /\ \/ b.written = a.written /\ b.end = a.end
             \/ b.written > a.written /\ a.end = "no" /\ b.end = "no"
             \/ b.written = a.written /\ a.end = "no" /\ b.end = "cut"
      BY <1>8, <2>2, <3>1, PostOpen
    <3>4. b.type \in Existing
      BY <3>3 DEF Existing
    <3>5. Good(e, d, o, w, u, child) /\ Seen(b, d)
      BY ONLY <3>2, <3>3, <3>4, Collected
    <3>6. d.forced = c.forced
      BY <1>8, <3>3, <3>5 DEF Seen
    <3>7. d.read = c.read \/ (d.read > c.read /\ o.end # "eof")
      BY <1>8, <3>3, <3>5 DEF Seen
    <3>8. \/ d.written = c.written /\ d.end = c.end
          \/ d.written > c.written /\ c.end = "no" /\ d.end = "no"
          \/ d.written = c.written /\ c.end = "no" /\ d.end \in {"eof", "cut"}
      BY <1>8, <3>3, <3>5 DEF Seen
    <3> QED BY <3>0, <3>5, <3>6, <3>7, <3>8 DEF Acts
  <2>3. CASE a.type \notin {"freed", "open"}
    <3>1. d = channel_garbage_collect(e, a) /\ a.type \in Existing /\ a.type = c.type
      BY <1>4, <1>6, <1>8, <2>3
    <3>2. Good(e, d, o, w, u, child) /\ Seen(a, d) /\ d.type \in {a.type, "freed"}
      BY ONLY <1>8, <3>1, Collected
    <3>3. d.type # "open"
      BY <2>3, <3>2
    <3>4. Acts(c, d, o)
      BY <1>8, <3>2 DEF Acts, Seen
    <3> QED BY <3>2, <3>3, <3>4
  <2> QED BY <2>1, <2>2, <2>3
<1> QED BY <1>4, <1>9, Updated DEF c, o, w, u

\* server_input_channel_open.
LEMMA AcceptStep ==
    ASSUME Inv, ch["server"].type = "none", wire["server"] = <<Open(WindowMax)>>,
           wire["client"] = <<>>, NEW m, m = Open(WindowMax),
           server_input_channel_open(m),
           kind' = kind, child' = child, ~broken'
    PROVE  Inv' /\ StreamStep
<1> DEFINE b == ch["server"]
           o == ch["client"]
           new(type, window, detach) ==
               [channel_new(type, window, detach) EXCEPT !.remote_window = m.n]
<1>0. WindowMax \in Nat /\ m.n = WindowMax
  BY ChannelAssumption DEF ChannelAssumption, Open
<1>1. /\ b \in Channel /\ o \in Channel /\ b.sent = <<>>
      /\ System("server", b, o, <<>>, <<Open(WindowMax)>>, child)
      /\ child \in {"none", "running", "reaped"} /\ wire \in [Ends -> Seq(Message)]
  BY InvGood, ClientServer DEF Inv, TypeOK
<1>2. Fresh(b) /\ Local("server", b, child) /\ b.remote_window = 0 /\ b.detach = "none"
  <2>1. Local("server", b, child)
    BY <1>1 DEF System
  <2>2. Fresh(b)
    BY <2>1, FreshIf DEF Local, Live
  <2> QED BY <2>1, <2>2 DEF Local, Stages, Command, Live
<1>3. Tail(wire["server"]) = <<>>
  OBVIOUS
<1>4. ASSUME NEW c \in Channel, c.sent = <<>>, Fresh(c), NEW v \in Seq(Message),
             System("server", c, o, v, <<>>, child),
             ch' = [ch EXCEPT !["server"] = c], c.type # "open",
             wire' = [wire EXCEPT !["server"] = <<>>, !["client"] = v]
      PROVE  Inv' /\ StreamStep
  <2>1. Acts(b, c, o)
    BY <1>2, <1>4 DEF Acts, Fresh
  <2>2. System("server", c, o, v, <<>>, child') /\ child' \in {"none", "running", "reaped"}
    BY <1>1, <1>4
  <2> QED BY <1>4, <2>1, <2>2, Stepped, ClientServer, TotalsNone
<1>5. ASSUME NEW type \in {"larval", "connecting"}, NEW window \in Nat,
             NEW detach \in {"none", "user"}, NEW c, c = new(type, window, detach)
      PROVE  /\ c \in Channel /\ c.type = type /\ Fresh(c) /\ c.sent = <<>>
             /\ c.local_window = window /\ c.detach = detach
             /\ c.remote_window = WindowMax
  <2>1. PICK a : a = channel_new(type, window, detach)
    OBVIOUS
  <2>2. /\ a \in Channel /\ a.type = type /\ Fresh(a) /\ a.sent = <<>>
        /\ a.local_window = window /\ a.detach = detach
    BY <2>1, NewChannel
  <2>3. c = [a EXCEPT !.remote_window = WindowMax]
    BY <1>0, <1>5, <2>1
  <2>4. c \in Channel
    BY ONLY <1>0, <2>2, <2>3 DEF Channel
  <2>5. /\ c.type = a.type /\ c.sent = a.sent /\ c.local_window = a.local_window
        /\ c.detach = a.detach /\ c.remote_window = WindowMax
    BY ONLY <1>0, <2>2, <2>3, <2>4 DEF Channel
  <2>6. Fresh(c)
    BY ONLY <2>2, <2>3, <2>4 DEF Channel, Fresh
  <2> QED BY <2>2, <2>4, <2>5, <2>6
<1> HIDE DEF new
<1>6. CASE /\ kind = "session"
           /\ ch' = [ch EXCEPT !["server"] = new("larval", 0, "user")]
           /\ wire' = [wire EXCEPT !["server"] = Tail(@),
                                   !["client"] = Append(@, Confirm(0))]
  <2>1. PICK c : c = new("larval", 0, "user")
    OBVIOUS
  <2>2. PICK v : v = <<Confirm(0)>>
    OBVIOUS
  <2>3. /\ c \in Channel /\ c.type = "larval" /\ Fresh(c) /\ c.sent = <<>>
        /\ c.local_window = 0 /\ c.detach = "user" /\ c.remote_window = WindowMax
    BY <1>5, <2>1
  <2>4. ch' = [ch EXCEPT !["server"] = c]
    BY <1>6, <2>1
  <2>5. wire' = [wire EXCEPT !["server"] = <<>>, !["client"] = v]
    <3>1. Append(<<>>, Confirm(0)) = v
      BY <2>2
    <3> QED BY <1>3, <1>6, <3>1
  <2>6. System("server", c, o, v, <<>>, child)
    BY <1>1, <1>6, <2>2, <2>3, AcceptSystem
  <2>7. v \in Seq(Message)
    BY <2>2 DEF Confirm, Message
  <2> QED BY <1>4, <2>3, <2>4, <2>5, <2>6, <2>7
<1>7. CASE /\ kind = "forward"
           /\ ch' = [ch EXCEPT !["server"] = new("connecting", WindowMax, "none")]
           /\ wire' = [wire EXCEPT !["server"] = Tail(@)]
  <2>1. PICK c : c = new("connecting", WindowMax, "none")
    OBVIOUS
  <2>3. /\ c \in Channel /\ c.type = "connecting" /\ Fresh(c) /\ c.sent = <<>>
        /\ c.local_window = WindowMax /\ c.detach = "none" /\ c.remote_window = WindowMax
    BY <1>0, <1>5, <2>1
  <2>4. ch' = [ch EXCEPT !["server"] = c]
    BY <1>7, <2>1
  <2>5. wire' = [wire EXCEPT !["server"] = <<>>, !["client"] = <<>>]
    <3>1. wire' = [wire EXCEPT !["server"] = <<>>]
      BY <1>3, <1>7
    <3>2. wire["client"] = <<>> /\ wire \in [Ends -> Seq(Message)]
      BY <1>1
    <3> QED BY ONLY <3>1, <3>2, ClientServer
  <2>6. System("server", c, o, <<>>, <<>>, child)
    BY <1>1, <1>7, <2>3, AcceptSystem
  <2> QED BY <1>4, <2>3, <2>4, <2>5, <2>6, TotalsNone
<1>8. CASE /\ ch' = [ch EXCEPT !["server"] = [@ EXCEPT !.type = "freed"]]
           /\ wire' = [wire EXCEPT !["server"] = Tail(@),
                                   !["client"] = Append(@, Failure)]
  <2>1. PICK c : c = [b EXCEPT !.type = "freed"]
    OBVIOUS
  <2>2. PICK v : v = <<Failure>>
    OBVIOUS
  <2>3. c \in Channel
    BY ONLY <1>1, <2>1 DEF Channel
  <2>4. /\ c.type = "freed" /\ c.sent = b.sent /\ c.local_window = b.local_window
        /\ c.detach = b.detach /\ c.remote_window = b.remote_window
    BY ONLY <1>1, <2>1, <2>3 DEF Channel
  <2>5. Fresh(c)
    BY ONLY <1>1, <1>2, <2>1, <2>3 DEF Channel, Fresh
  <2>6. ch' = [ch EXCEPT !["server"] = c]
    BY <1>8, <2>1
  <2>7. wire' = [wire EXCEPT !["server"] = <<>>, !["client"] = v]
    <3>1. Append(<<>>, Failure) = v
      BY <2>2
    <3> QED BY <1>3, <1>8, <3>1
  <2>8. System("server", c, o, v, <<>>, child)
    BY <1>1, <1>2, <2>2, <2>3, <2>4, <2>5, AcceptSystem
  <2>9. v \in Seq(Message)
    BY <2>2 DEF Failure, Message
  <2> QED BY <1>1, <1>4, <2>3, <2>4, <2>5, <2>6, <2>7, <2>8, <2>9
<1> QED BY <1>6, <1>7, <1>8 DEF server_input_channel_open, new

LEMMA DispatchStep ==
    ASSUME Inv, NEW e \in Ends, Dispatch(e)
    PROVE  Inv' /\ StreamStep
<1> DEFINE c == ch[e]
           o == ch[Peer(e)]
           w == wire[Peer(e)]
           u == wire[e]
           t == Tail(u)
<1>1. PICK m, d : /\ m = Head(u) /\ d = Receive(e, c, m)
        /\ IF Fatal(e, c, m)
           THEN broken' = TRUE /\ UNCHANGED <<ch, wire, child>>
           ELSE /\ broken' = FALSE
                /\ child' = IF m.type = "shell" /\ c.type = "larval"
                            THEN "running" ELSE child
                /\ IF m.type = "open"
                   THEN server_input_channel_open(m)
                   ELSE /\ ch' = [ch EXCEPT ![e] = [d EXCEPT !.sent = <<>>]]
                        /\ wire' = [wire EXCEPT ![e] = Tail(@),
                                                ![Peer(e)] = @ \o d.sent]
  BY DEF Dispatch
<1>2. u # <<>> /\ kind' = kind
  BY DEF Dispatch
<1>3. /\ Good(e, c, o, w, u, child) /\ System(e, c, o, w, u, child)
      /\ c.sent = <<>> /\ c \in Channel /\ o \in Channel
      /\ u \in Seq(Message) /\ w \in Seq(Message) /\ (c.type = "open" => ~c.forced)
  BY InvGood
<1>4. wire \in [Ends -> Seq(Message)] /\ Peer(e) \in Ends /\ Peer(e) # e
      /\ child \in {"none", "running", "reaped"} /\ kind \in {"session", "forward"}
  BY Peers DEF Inv, TypeOK
<1>5. ASSUME ~Fatal(e, c, m), m.type # "open", Good(e, d, o, w, t, child'),
             Acts(c, d, o), d.type = "open" => ~d.forced
      PROVE  Inv' /\ StreamStep
  <2>1. ch' = [ch EXCEPT ![e] = [d EXCEPT !.sent = <<>>]] /\ ~broken'
    BY <1>1, <1>5
  <2>2. PICK v : v = w \o d.sent
    OBVIOUS
  <2>3. wire' = [wire EXCEPT ![e] = t, ![Peer(e)] = v]
    <3>1. wire' = [wire EXCEPT ![e] = Tail(@), ![Peer(e)] = @ \o d.sent]
      BY <1>1, <1>5
    <3> QED BY <1>4, <2>2, <3>1
  <2> QED BY <1>2, <1>5, <2>1, <2>2, <2>3, Acted
<1>6. CASE Live(c)
  <2>1. /\ ~Fatal(e, c, m) /\ m.type # "open"
        /\ Good(e, d, o, w, t, child) /\ d.type = c.type
        /\ d.read = c.read /\ d.written = c.written /\ d.forced = c.forced
        /\ d.end = c.end \/ (c.end = "no" /\ d.end = "eof")
    BY <1>1, <1>2, <1>3, <1>6, ReceivedLive
  <2>2. child' = child
    BY <1>1, <1>6, <2>1 DEF Live
  <2>3. Acts(c, d, o)
    BY <2>1 DEF Acts
  <2> QED BY <1>3, <1>5, <2>1, <2>2, <2>3
<1>7. CASE /\ e = "server" /\ c.type = "none" /\ o.type = "opening"
           /\ u = <<Open(WindowMax)>> /\ w = <<>>
  <2>1. m = Open(WindowMax) /\ m.type = "open"
    BY <1>1, <1>7 DEF Open
  <2>2. ~Fatal(e, c, m)
    BY <1>7, <2>1 DEF Fatal
  <2>3. server_input_channel_open(m) /\ child' = child /\ ~broken'
    BY <1>1, <2>1, <2>2
  <2>4. /\ ch["server"].type = "none" /\ wire["server"] = <<Open(WindowMax)>>
        /\ wire["client"] = <<>>
    BY <1>7, ClientServer
  <2> QED BY <1>2, <2>1, <2>3, <2>4, AcceptStep
<1>8. CASE /\ e = "client" /\ c.type = "opening" /\ Head(u).type = "confirm"
           /\ w = <<>> /\ Opening(c, o, w, u)
  <2>1. d = channel_input_open_confirmation(c, Head(u).n)
    BY <1>1, <1>8 DEF Receive
  <2>2. ~Fatal(e, c, m) /\ m.type # "open" /\ child' = child
    BY <1>1, <1>8 DEF Fatal
  <2>3. Good("client", c, o, <<>>, u, child) /\ Opening(c, o, <<>>, u)
    BY <1>3, <1>8
  <2>4. Good("client", d, o, <<>>, t, child) /\ Seen(c, d)
    BY <1>2, <1>3, <1>8, <2>1, <2>3, ConfirmGood
  <2>5. Good(e, d, o, w, t, child')
    BY <1>8, <2>2, <2>4
  <2>6. Acts(c, d, o)
    BY <2>4 DEF Acts, Seen
  <2>7. ~d.forced
    <3>1. Fresh(c)
      BY <1>3, <1>8, FreshIf DEF System, Local, Live
    <3> QED BY <2>4, <3>1 DEF Fresh, Seen
  <2> QED BY <1>5, <2>2, <2>5, <2>6, <2>7
<1>9. CASE /\ e = "client" /\ c.type = "opening" /\ u = <<Failure>>
           /\ w = <<>> /\ Refused(o)
  <2>1. m = Failure /\ m.type = "failure" /\ t = <<>>
    BY <1>1, <1>9 DEF Failure
  <2>2. d = [c EXCEPT !.type = "zombie"]
    BY <1>1, <1>9, <2>1 DEF Receive, chan_mark_dead
  <2>3. ~Fatal(e, c, m) /\ m.type # "open" /\ child' = child
    <3>1. ~Fatal(e, c, m)
      BY <1>9, <2>1 DEF Fatal
    <3> QED BY <1>1, <2>1, <3>1
  <2>4. System("client", c, o, <<>>, <<Failure>>, child)
    BY <1>3, <1>9
  <2>5. Fresh(c)
    BY <1>3, <1>9, FreshIf DEF System, Local, Live
  <2>6. c \in Channel /\ c.sent = <<>>
    BY <1>3
  <2> HIDE DEF c
  <2>7. d \in Channel
    BY ONLY <2>2, <2>6 DEF Channel
  <2>8. d.type = "zombie" /\ d.sent = <<>> /\ SameWindows(c, d)
    BY ONLY <2>2, <2>6, <2>7 DEF Channel, SameWindows
  <2>9. Fresh(d)
    BY ONLY <2>2, <2>5, <2>6, <2>7 DEF Channel, Fresh
  <2>10. System("client", d, o, <<>>, <<>>, child)
    BY <1>3, <1>9, <2>4, <2>6, <2>7, <2>8, <2>9, RefusedSystem
  <2>11. Good(e, d, o, w, t, child')
    <3>1. <<>> \o d.sent = <<>> /\ <<>> \in Seq(Message)
      BY <2>8
    <3>2. Typed("client", d, o, <<>>, <<>>, child)
      BY <1>3, <1>4, <2>7, <3>1, ClientServer DEF Typed
    <3>3. Good("client", d, o, <<>>, <<>>, child)
      BY <2>10, <3>1, <3>2 DEF Good
    <3> QED BY <1>9, <2>1, <2>3, <3>3
  <2>12. Acts(c, d, o)
    BY <2>5, <2>9 DEF Acts, Fresh
  <2> QED BY <1>5, <2>3, <2>8, <2>11, <2>12
<1>10. CASE /\ e = "server" /\ c.type = "larval" /\ Head(u).type = "shell"
            /\ kind = "session" /\ o.type \notin {"none", "opening"}
            /\ Opened(o, c, u, w)
  <2>1. d = channel_set_fds(c)
    BY <1>1, <1>10 DEF Receive
  <2>2. ~Fatal(e, c, m) /\ m.type # "open" /\ child' = "running"
    <3>1. ~Fatal(e, c, m)
      BY <1>1, <1>10 DEF Fatal
    <3> QED BY <1>1, <1>10, <3>1
  <2>3. w \o c.sent = w
    BY <1>3
  <2>4. Good("server", c, o, w, u, child) /\ Opened(o, c, u, w \o c.sent)
    BY <1>3, <1>10, <2>3
  <2>5. Good("server", d, o, w, t, "running") /\ Seen(c, d)
    BY <1>2, <1>10, <2>1, <2>4, ShellGood
  <2>6. Good(e, d, o, w, t, child')
    BY <1>10, <2>2, <2>5
  <2>7. Acts(c, d, o)
    BY <2>5 DEF Acts, Seen
  <2>8. ~d.forced
    <3>1. Fresh(c)
      BY <1>3, <1>10, FreshIf DEF System, Local, Live
    <3> QED BY <2>5, <3>1 DEF Fresh, Seen
  <2> QED BY <1>5, <2>2, <2>6, <2>7, <2>8
<1>11. CASE ~Live(c)
  <2> HIDE DEF c, o, w, u
  <2>1. \/ /\ e = "server" /\ c.type = "none" /\ o.type = "opening"
           /\ u = <<Open(WindowMax)>> /\ w = <<>>
        \/ /\ e = "client" /\ c.type = "opening" /\ Head(u).type = "confirm"
           /\ w = <<>> /\ Opening(c, o, w, u)
        \/ /\ e = "client" /\ c.type = "opening" /\ u = <<Failure>>
           /\ w = <<>> /\ Refused(o)
        \/ /\ e = "server" /\ c.type = "larval" /\ Head(u).type = "shell"
           /\ kind = "session" /\ o.type \notin {"none", "opening"}
           /\ Opened(o, c, u, w)
    BY ONLY <1>2, <1>3, <1>11, e \in Ends, NotLive
  <2> QED BY ONLY <2>1, <1>7, <1>8, <1>9, <1>10
<1> QED BY <1>6, <1>11

LEMMA TotalMonotone ==
    ASSUME NEW w \in Seq(Message), NEW small, NEW large, small \subseteq large
    PROVE  Total(w, small) <= Total(w, large)
<1>1. PICK f : Counts(f, w, small) /\ Total(w, small) = f[Len(w)]
  BY TotalCounts
<1>2. PICK g : Counts(g, w, large) /\ Total(w, large) = g[Len(w)]
  BY TotalCounts
<1> DEFINE S == {n \in Nat : n <= Len(w) => f[n] <= g[n]}
<1> Len(w) \in Nat
  OBVIOUS
<1>3. 0 \in S
  BY <1>1, <1>2 DEF Counts
<1>4. ASSUME NEW n \in Nat, n \in S PROVE n + 1 \in S
  <2> SUFFICES ASSUME n + 1 <= Len(w) PROVE f[n + 1] <= g[n + 1]
    OBVIOUS
  <2>1. n + 1 \in 1 .. Len(w) /\ (n + 1) - 1 = n /\ n \in 0 .. Len(w)
    OBVIOUS
  <2>2. /\ f[n + 1] = f[n] + Weight(w[n + 1], small) /\ f[n] \in Nat
        /\ g[n + 1] = g[n] + Weight(w[n + 1], large) /\ g[n] \in Nat
    BY <1>1, <1>2, <2>1 DEF Counts
  <2>3. /\ Weight(w[n + 1], small) \in Nat /\ Weight(w[n + 1], large) \in Nat
        /\ Weight(w[n + 1], small) <= Weight(w[n + 1], large)
    <3>1. w[n + 1] \in Message
      BY <2>1
    <3>2. w[n + 1].n \in Nat
      BY <3>1 DEF Message
    <3> QED BY <3>2 DEF Weight
  <2>4. f[n] <= g[n]
    BY <1>4
  <2> HIDE DEF S
  <2> QED BY <2>2, <2>3, <2>4
<1>5. Nat \subseteq S
  <2> HIDE DEF S
  <2> QED BY <1>3, <1>4, NatInd
<1> QED BY <1>1, <1>2, <1>5

LEMMA InitInv == Init => Inv
<1> SUFFICES ASSUME Init PROVE Inv
  OBVIOUS
<1> DEFINE c == ch["client"]
           o == ch["server"]
<1>1. PICK n : n = channel_new("none", 0, "none")
  OBVIOUS
<1>2. /\ n \in Channel /\ n.type = "none" /\ Fresh(n) /\ n.sent = <<>>
      /\ n.local_window = 0 /\ n.detach = "none" /\ n.remote_window = 0
  BY <1>1, NewChannel
<1>3. /\ ch = [e \in Ends |-> n] /\ wire = [e \in Ends |-> <<>>] /\ child = "none"
      /\ kind \in {"session", "forward"} /\ ~broken
  BY <1>1, ChannelAssumption DEF Init, ChannelAssumption
<1>4. TypeOK
  BY <1>2, <1>3, TotalsNone DEF TypeOK
<1>5. System("client", n, n, <<>>, <<>>, "none")
  <2>1. WindowMax \in Nat
    BY ChannelAssumption DEF ChannelAssumption
  <2>2. \A e \in Ends : Stages(e, n) /\ Command(e, n, "none") /\ Room(e, n)
    BY <1>2, <2>1 DEF Stages, Command, Room, Live, Fresh
  <2>3. Machines(n) /\ Window(n, n, <<>>, <<>>)
    BY <1>2 DEF Machines, Window, Fresh
  <2>4. Shake("client", n, n, <<>>, <<>>) /\ Quieted(<<>>)
    BY <1>2 DEF Shake, Handshake, Quieted
  <2>5. Local(Peer("client"), n, "none")
    BY <2>2, <2>3, ClientServer DEF Local
  <2> QED BY <1>2, <2>2, <2>3, <2>4, <2>5, BothFresh, ClientServer, TotalsNone
<1> QED BY <1>2, <1>3, <1>4, <1>5, ClientServer DEF Inv

LEMMA NextInv ==
    ASSUME Inv, [Next]_vars
    PROVE  Inv' /\ StreamStep
<1>1. CASE OpenChannel
  BY <1>1, OpenChannelStep
<1>2. CASE channel_post_connecting
  BY <1>2, ConnectingStep
<1>3. CASE session_exit_message
  BY <1>3, ExitStep
<1>4. CASE \E e \in Ends : Dispatch(e)
  BY <1>4, DispatchStep
<1>5. CASE \E e \in Ends : OutputPoll(e)
  BY <1>5, OutputPollStep
<1>6. CASE \E e \in Ends : PollIO(e)
  BY <1>6, PollStep
<1>7. CASE \E e \in Ends : InactivityTimeout(e)
  BY <1>7, TimeoutStep
<1>8. CASE UNCHANGED vars
  <2>1. ch' = ch /\ wire' = wire /\ child' = child /\ kind' = kind /\ broken' = broken
    BY <1>8 DEF vars
  <2>2. StreamStep
    BY <2>1 DEF StreamStep
  <2>3. TypeOK' /\ (\A e \in Ends : ch'[e].type = "open" => ~ch'[e].forced) /\ ~broken'
    BY <2>1 DEF Inv, TypeOK
  <2>4. System("client", ch["client"], ch["server"], wire["server"], wire["client"], child)
    BY DEF Inv
  <2>5. System("client", ch["client"], ch["server"], wire["server"], wire["client"], child)'
    BY ONLY <2>1, <2>4
       DEF System, Local, Room, ExtWrite, Shake, Handshake, Opening, Opened
  <2> QED BY <2>2, <2>3, <2>5 DEF Inv
<1> QED BY <1>1, <1>2, <1>3, <1>4, <1>5, <1>6, <1>7, <1>8 DEF Next

-----------------------------------------------------------------------------
(* The theorems. *)

\* The invariant holds throughout: the two ends agree on the state of the
\* channel whatever the order in which their event loops run.
THEOREM Invariance == Spec => []Inv
<1>1. Init => Inv
  BY InitInv
<1>2. Inv /\ [Next]_vars => Inv'
  BY NextInv
<1> QED BY <1>1, <1>2, PTL DEF Spec

\* No end ever gives up the connection because of what the other sends: the
\* calls of ssh_packet_disconnect in channels.c are not reached.
THEOREM StaysConnected == Spec => []NeverDisconnected
<1>1. Inv => NeverDisconnected
  BY DEF Inv, NeverDisconnected
<1> QED BY <1>1, Invariance, PTL

\* Neither end ever sends more than the other has room for: what may still
\* be sent, and what is on its way, is within the window the receiver keeps.
THEOREM WindowsAgree == Spec => []WindowAccounted
<1>1. Inv => WindowAccounted
  <2> SUFFICES ASSUME Inv, NEW x \in Ends
               PROVE  LET y == Peer(x)
                          c == ch[y]
                      IN  /\ ch[x].remote_window >= 0 /\ c.local_window >= 0
                          /\ c.type \in {"larval", "open"} =>
                               ch[x].remote_window + InFlight(y, {"data", "ext"})
                                 + InFlight(x, {"adjust", "confirm"}) <= c.local_window
                          /\ c.local_window + c.local_consumed + c.output
                               + (IF ExtWrite(y) THEN c.extended ELSE 0) <= WindowMax
    BY DEF WindowAccounted
  <2> DEFINE s == ch[x]
             c == ch[Peer(x)]
             w == wire[Peer(x)]
             u == wire[x]
  <2>1. /\ s \in Channel /\ c \in Channel /\ w \in Seq(Message) /\ u \in Seq(Message)
        /\ Local(Peer(x), c, child) /\ Window(s, c, w, u)
    BY InvGood DEF System, Direction, Bytes
  <2>2. s.remote_window \in Nat /\ c.local_window \in Nat
    BY <2>1, Numbers
  <2> DEFINE we == Total(w, {"data", "ext"})
             ua == Total(u, {"adjust", "confirm", "open"})
             uc == Total(u, {"adjust", "confirm"})
  <2>3. we \in Nat /\ ua \in Nat /\ uc \in Nat /\ uc <= ua
    <3>1. {"adjust", "confirm"} \subseteq {"adjust", "confirm", "open"}
      OBVIOUS
    <3> QED BY <2>1, <3>1, Totals, TotalType, TotalMonotone
  <2>4. c.type \in {"larval", "open"} => s.remote_window + we + ua <= c.local_window
    BY <2>1 DEF Window
  <2>5. c.type \in {"larval", "open"} => s.remote_window + we + uc <= c.local_window
    <3> HIDE DEF we, ua, uc, s, c
    <3> QED BY <2>2, <2>3, <2>4
  <2>6. c.local_window + c.local_consumed + c.output
          + (IF ExtWrite(Peer(x)) THEN c.extended ELSE 0) <= WindowMax
    BY <2>1 DEF Local, Room
  <2>7. s.remote_window >= 0 /\ c.local_window >= 0
    BY <2>2
  <2> QED BY <2>5, <2>6, <2>7 DEF InFlight
<1> QED BY <1>1, Invariance, PTL

\* On either wire nothing follows CLOSE, and no bytes and no second EOF
\* follow EOF.
THEOREM PacketsInOrder == Spec => []NothingAfterClose
<1>1. Inv => NothingAfterClose
  <2> SUFFICES ASSUME Inv, NEW e \in Ends, NEW i \in 1 .. Len(wire[e]),
                      NEW j \in 1 .. Len(wire[e]), i < j
               PROVE  /\ wire[e][i] # Close
                      /\ wire[e][i] = Eof =>
                           wire[e][j].type \notin {"data", "ext", "eof"}
    BY DEF NothingAfterClose
  <2>1. Ordered(wire[e])
    BY InvGood DEF System, Direction
  <2>2. Close.type = "close" /\ Eof.type = "eof"
    BY DEF Close, Eof
  <2> QED BY <2>1, <2>2 DEF Ordered
<1> QED BY <1>1, Invariance, PTL

\* The server sends no CLOSE under a running command, unless an inactivity
\* timeout closed the channel by force.
THEOREM StatusFirst == Spec => []ExitStatusBeforeClose
<1>1. Inv => ExitStatusBeforeClose
  <2> SUFFICES ASSUME Inv, child = "running", "CLOSE_SENT" \in ch["server"].flags
               PROVE  ch["server"].forced
    BY DEF ExitStatusBeforeClose
  <2>1. Local("server", ch["server"], child)
    BY InvGood, ClientServer DEF System
  <2> QED BY <2>1 DEF Local, Machines, Command
<1> QED BY <1>1, Invariance, PTL

\* Both directions of the channel implement the byte stream: what a program
\* reads is what the other wrote, in order, and it never sees an end of file
\* before the last byte, unless the channel was closed by force.
THEOREM ByteStreams == Spec => StreamsImplemented
<1>1. Init => ToServer!Init /\ ToClient!Init
  <2> SUFFICES ASSUME Init PROVE ToServer!Init /\ ToClient!Init
    OBVIOUS
  <2>1. ch["client"] = channel_new("none", 0, "none")
        /\ ch["server"] = channel_new("none", 0, "none")
    BY ClientServer DEF Init
  <2> QED BY <2>1 DEF channel_new, ToServer!Init, ToClient!Init
<1>2. Inv /\ [Next]_vars => [ToServer!Next]_(ToServer!vars) /\ [ToClient!Next]_(ToClient!vars)
  BY NextInv DEF StreamStep, ToServer!vars, ToClient!vars
<1> QED BY <1>1, <1>2, Invariance, PTL DEF Spec, StreamsImplemented, ToServer!Spec, ToClient!Spec
=============================================================================
