------------------------- MODULE SftpClient_proofs -------------------------
(***************************************************************************)
(* Proofs about SftpClient, for files of any length, buffers of any size,  *)
(* any number of requests under way, of attempts and of faults, and any    *)
(* order of the replies.                                                   *)
(***************************************************************************)
EXTENDS SftpClient, FiniteSetTheorems, SequenceTheorems, TLAPS

-----------------------------------------------------------------------------
(* Types. *)

Request == [id : Nat, type : {"read", "write"}, len : Nat \ {0},
            offset : Nat, data : Seq(Int)]

Response == [id : Nat, status : {"ok", "data", "eof", "failure"},
             data : Seq(Int)]

Transfer ==
    [pc : {"idle", "loop", "recv", "drained", "truncate", "close"},
     mode : {"plain", "inplace", "resume"}, size : Nat, offset : Nat,
     highwater : Nat, maxack : Nat, buflen : Nat \ {0},
     max_req : 0 .. NumRequests, num_upload_req : Nat, reqs : SUBSET Request,
     read_error : BOOLEAN, write_error : BOOLEAN, reordered : BOOLEAN,
     status : {"ok", "data", "eof", "failure"}, id : Nat, startid : Nat, ackid : Nat,
     everything : BOOLEAN, uncut : BOOLEAN,
     ret : {"none", "unopened", "killed", "ok", "failure"},
     err : {"none"}]

Source(s) == s \in Seq(Int) /\ \A i \in 1 .. Len(s) : s[i] = i

TypeOK ==
    /\ op \in {"get", "put", "cross"} /\ reorders \in BOOLEAN
    /\ Source(src) /\ Len(src) <= MaxLen
    /\ dst \in Seq(Int)
    /\ x \in Transfer /\ IsFiniteSet(x.reqs)
    /\ inq \in [Servers -> Seq(Request)]
    /\ replies \in [Servers -> Seq(Response)]
    /\ interrupted \in BOOLEAN /\ torn \in BOOLEAN /\ refused \in BOOLEAN
    /\ attempts \in Nat /\ faults \in Nat

-----------------------------------------------------------------------------
(* Requests, and replies. *)

\* Every request under way is either on its way to the server, whole, or has
\* been answered once.
Matched(q, r, R) ==
    /\ \A i \in DOMAIN q : q[i] \in R
    /\ \A j \in DOMAIN r : \E a \in R : a.id = r[j].id
    /\ \A i, k \in DOMAIN q : q[i].id = q[k].id => i = k
    /\ \A j, k \in DOMAIN r : r[j].id = r[k].id => j = k
    /\ \A i \in DOMAIN q : \A j \in DOMAIN r : q[i].id # r[j].id
    /\ \A a, b \in R : a.id = b.id => a = b
    /\ \A a \in R : \/ \E i \in DOMAIN q : q[i].id = a.id
                    \/ \E j \in DOMAIN r : r[j].id = a.id

\* The bytes of src from position off + 1 on.
Piece(d, off) ==
    /\ d \in Seq(Int) /\ off + Len(d) <= Len(src)
    /\ \A i \in 1 .. Len(d) : d[i] = off + i

\* A reply to a READ holds the bytes asked for or the first of them.
Answers(r, a) ==
    /\ r.status \in {"data", "eof", "failure"}
    /\ r.status = "data" => Len(r.data) \in 1 .. a.len /\ Piece(r.data, a.offset)
    /\ r.status = "eof" => a.offset >= Len(src)

Server == IF op = "put" THEN "to" ELSE "from"

Queues ==
    /\ Matched(inq[Server], replies[Server], x.reqs)
    /\ op = "get" => inq["to"] = <<>> /\ replies["to"] = <<>>
    /\ op = "put" => inq["from"] = <<>> /\ replies["from"] = <<>>
    /\ op = "cross" => Len(inq["to"]) + Len(replies["to"]) = x.num_upload_req
    /\ op # "cross" => x.num_upload_req = 0
    /\ x.pc \notin {"loop", "recv"} => x.reqs = {}
    /\ x.pc \in {"idle", "truncate", "close"} => x.num_upload_req = 0
    /\ op = "cross" => x.mode = "plain"
    /\ x.pc # "idle" /\ interrupted => op # "cross" /\ x.mode # "inplace"

Limits ==
    /\ op # "put" => /\ num_req <= NumRequests
                     /\ \A a \in x.reqs : a.id < x.id
    /\ op = "put" /\ x.pc # "idle" =>
          /\ num_req = x.id - x.ackid + 1
          /\ num_req <= IF x.pc = "loop" THEN NumRequests ELSE NumRequests + 1
          /\ \A a \in x.reqs : a.id <= x.id

Reading ==
    op # "put" =>
       /\ \A a \in x.reqs : a.offset + a.len <= x.offset
       /\ \A j \in DOMAIN replies["from"] : \A a \in x.reqs :
             a.id = replies["from"][j].id => Answers(replies["from"][j], a)

-----------------------------------------------------------------------------
(* The files. *)

\* The first n bytes of the file f are those of src.
Right(f, n) == n <= Len(f) /\ \A p \in 1 .. n : f[p] = p

In(p, a) == a.offset < p /\ p <= a.offset + a.len

\* Every byte that was asked for is in dst and acknowledged, or is still
\* awaited, unless there was an error.
Downloaded ==
    \A p \in 1 .. Len(src) : p <= x.offset =>
        \/ x.read_error \/ x.write_error
        \/ \E a \in x.reqs : In(p, a)
        \/ p <= Len(dst) /\ dst[p] = p /\ p <= x.maxack

ErrorInReplies == \E j \in DOMAIN replies["to"] : replies["to"][j].status # "ok"

Forwarded ==
    \A p \in 1 .. Len(src) : p <= x.offset =>
        \/ x.read_error \/ x.write_error \/ ErrorInReplies
        \/ \E a \in x.reqs : In(p, a)
        \/ \E i \in DOMAIN inq["to"] : In(p, inq["to"][i])
        \/ p <= Len(dst) /\ dst[p] = p

\* Sending of READs ends at the end of the file, or with an error.
SentAll ==
    /\ x.pc \in {"loop", "recv", "drained"} /\ x.max_req = 0 =>
          x.offset >= Len(src) \/ x.read_error \/ x.write_error \/ interrupted
    /\ x.pc = "drained" => x.max_req = 0 \/ interrupted

Get ==
    op = "get" /\ x.pc # "idle" /\ ~torn =>
       /\ x.highwater <= Len(src)
       /\ x.status = "ok"
       /\ x.mode # "inplace" => Len(dst) <= Len(src)
       /\ x.mode # "inplace" /\ ~x.reordered /\ ~x.write_error =>
             Len(dst) = x.highwater
       /\ x.pc # "close" => Right(dst, x.highwater)
       /\ x.pc \in {"loop", "recv", "drained"} =>
             /\ x.highwater <= x.maxack /\ x.maxack <= Len(src)
             /\ ~x.reordered => x.maxack = x.highwater
             /\ Downloaded /\ SentAll
       /\ x.pc = "truncate" /\ ~Failed /\ ~interrupted => x.highwater = Len(src)
       /\ x.pc = "truncate" /\ x.everything => x.highwater = Len(src)
       /\ x.pc = "close" /\ x.uncut => Right(dst, x.highwater)
       /\ x.pc = "close" /\ ~x.uncut => IsPrefix(dst, src)
       /\ x.pc = "close" /\ ~x.uncut /\ ~Failed /\ ~interrupted => dst = src

Cross ==
    op = "cross" /\ x.pc # "idle" =>
       /\ Len(dst) <= Len(src) /\ x.status = "ok"
       /\ \A i \in DOMAIN inq["to"] :
             /\ Piece(inq["to"][i].data, inq["to"][i].offset)
             /\ Len(inq["to"][i].data) = inq["to"][i].len
       /\ x.pc \in {"loop", "recv", "drained"} => Forwarded /\ SentAll
       /\ x.pc = "truncate" => Failed \/ dst = src
       /\ x.pc = "close" /\ ~x.uncut => dst = <<>> \/ dst = src
       /\ x.pc = "close" /\ ~Failed => dst = src

\* What the server has worked on.
Written == IF inq["to"] = <<>> THEN x.offset ELSE inq["to"][1].offset

End(a) == a.offset + a.len

Put ==
    op = "put" /\ x.pc # "idle" /\ ~torn /\ ~refused =>
       /\ ~Failed
       /\ \A j \in DOMAIN replies["to"] : replies["to"][j].status = "ok"
       /\ x.pc # "close" =>
             /\ x.offset <= Len(src)
             /\ \A i \in DOMAIN inq["to"] :
                   /\ Piece(inq["to"][i].data, inq["to"][i].offset)
                   /\ Len(inq["to"][i].data) = inq["to"][i].len
                   /\ End(inq["to"][i]) = IF i = Len(inq["to"]) THEN x.offset
                                          ELSE inq["to"][i + 1].offset
             /\ Right(dst, Written)
             /\ x.mode # "inplace" => Len(dst) = Written
             /\ x.highwater <= x.maxack /\ x.maxack <= Written
             /\ \A j \in DOMAIN replies["to"] : \A a \in x.reqs :
                   a.id = replies["to"][j].id => End(a) <= Written
             /\ x.offset = Len(src) =>
                   x.maxack = Len(src) \/ \E a \in x.reqs : End(a) = Len(src)
             /\ x.pc \in {"drained", "truncate"} => interrupted \/ x.offset = Len(src)
       /\ x.pc = "truncate" => x.everything \/ interrupted
       /\ x.pc = "truncate" /\ x.everything =>
             x.offset = Len(src) /\ x.highwater = Len(src)
       /\ x.pc = "close" /\ (x.uncut => x.mode # "inplace") => IsPrefix(dst, src)
       /\ x.pc = "close" /\ ~x.uncut /\ x.everything => dst = src

\* Between attempts: what the last one left, and that what it left can be
\* resumed, or is an older file and longer.
Left ==
    x.pc = "idle" =>
       /\ op # "cross" /\ ~torn /\ ~x.uncut /\ (op = "put" => ~refused) =>
             IsPrefix(dst, src) \/ Len(dst) > Len(src)
       /\ SuccessMeansCopied /\ FailureLeavesPrefix

Inv == TypeOK /\ Queues /\ Limits /\ Reading /\ Get /\ Cross /\ Put /\ Left

-----------------------------------------------------------------------------
(* Sequences. *)

LEMMA RemoveAtFact ==
    ASSUME NEW S, NEW s \in Seq(S), NEW i \in 1 .. Len(s)
    PROVE  /\ RemoveAt(s, i) \in Seq(S)
           /\ Len(RemoveAt(s, i)) = Len(s) - 1
           /\ DOMAIN RemoveAt(s, i) = 1 .. Len(s) - 1
           /\ \A j \in 1 .. Len(s) - 1 :
                 RemoveAt(s, i)[j] = IF j < i THEN s[j] ELSE s[j + 1]
<1> DEFINE a == SubSeq(s, 1, i - 1)
           b == SubSeq(s, i + 1, Len(s))
<1>1. RemoveAt(s, i) = a \o b
  BY DEF RemoveAt
<1>2. /\ a \in Seq(S) /\ Len(a) = i - 1
      /\ \A j \in 1 .. i - 1 : a[j] = s[j]
  OBVIOUS
<1>3. /\ b \in Seq(S) /\ Len(b) = Len(s) - i
      /\ \A j \in 1 .. Len(s) - i : b[j] = s[j + i]
  OBVIOUS
<1> HIDE DEF a, b
<1>4. /\ a \o b \in Seq(S) /\ Len(a \o b) = Len(s) - 1
      /\ DOMAIN (a \o b) = 1 .. Len(s) - 1
  <2>1. a \o b \in Seq(S) /\ Len(a \o b) = Len(a) + Len(b)
    BY ONLY <1>2, <1>3, ConcatProperties
  <2> QED BY <2>1, <1>2, <1>3
<1>5. ASSUME NEW j \in 1 .. Len(s) - 1
      PROVE  (a \o b)[j] = IF j < i THEN s[j] ELSE s[j + 1]
  <2>1. CASE j < i
    BY <2>1, <1>2, <1>3
  <2>2. CASE ~(j < i)
    <3>1. (a \o b)[j] = b[j - (i - 1)]
      BY <2>2, <1>2, <1>3
    <3>2. j - (i - 1) \in 1 .. Len(s) - i /\ j - (i - 1) + i = j + 1
      BY <2>2
    <3> QED BY <2>2, <3>1, <3>2, <1>3
  <2> QED BY <2>1, <2>2
<1> QED BY <1>1, <1>4, <1>5

-----------------------------------------------------------------------------
(* Matched, when requests are sent, worked on, and their replies read. *)

LEMMA MatchedSend ==
    ASSUME NEW q \in Seq(Request), NEW r \in Seq(Response), NEW R \in SUBSET Request,
           Matched(q, r, R), NEW n \in Seq(Request), NEW b \in Nat,
           \A a \in R : a.id < b, \A i \in DOMAIN n : n[i].id >= b,
           \A i, k \in DOMAIN n : n[i].id = n[k].id => i = k
    PROVE  Matched(q \o n, r, R \cup Range(n))
<1> DEFINE p == q \o n
           P == R \cup Range(n)
<1>1. /\ p \in Seq(Request) /\ DOMAIN p = 1 .. Len(q) + Len(n)
      /\ \A i \in 1 .. Len(q) : p[i] = q[i]
      /\ \A i \in Len(q) + 1 .. Len(q) + Len(n) : p[i] = n[i - Len(q)]
  OBVIOUS
<1>2. Range(n) = {n[i] : i \in DOMAIN n} /\ DOMAIN n = 1 .. Len(n) /\ DOMAIN q = 1 .. Len(q)
  BY DEF Range
<1>3. \A i \in DOMAIN n : n[i].id \in Nat /\ n[i] \in Range(n)
  <2>1. \A i \in DOMAIN n : n[i] \in Request
    BY <1>2
  <2> QED BY <1>2, <2>1 DEF Request
<1>4. \A a \in R : a.id \in Nat
  BY DEF Request
<1>5. \A j \in DOMAIN r : r[j].id \in Nat /\ r[j].id < b
  BY <1>4 DEF Matched, Response
<1>6. \A i \in DOMAIN q : q[i] \in R
  BY DEF Matched
<1> HIDE DEF p
<1>11. \A i \in DOMAIN p : p[i] \in P
  <2> SUFFICES ASSUME NEW i \in DOMAIN p PROVE p[i] \in P
    OBVIOUS
  <2>1. CASE i <= Len(q)
    BY <2>1, <1>1, <1>2, <1>6
  <2>2. CASE i > Len(q)
    <3>1. i - Len(q) \in DOMAIN n /\ p[i] = n[i - Len(q)]
      BY <2>2, <1>1, <1>2
    <3> QED BY <3>1, <1>3
  <2> QED BY <2>1, <2>2, <1>1
<1>12. \A j \in DOMAIN r : \E a \in P : a.id = r[j].id
  BY DEF Matched
<1>13. \A i, k \in DOMAIN p : p[i].id = p[k].id => i = k
  <2> SUFFICES ASSUME NEW i \in DOMAIN p, NEW k \in DOMAIN p, p[i].id = p[k].id PROVE i = k
    OBVIOUS
  <2>1. CASE i <= Len(q) /\ k <= Len(q)
    <3>1. i \in DOMAIN q /\ k \in DOMAIN q /\ q[i].id = q[k].id
      BY <1>1, <1>2, <2>1
    <3> QED BY <3>1 DEF Matched
  <2>2. CASE i > Len(q) /\ k > Len(q)
    <3>1. i - Len(q) \in DOMAIN n /\ k - Len(q) \in DOMAIN n
      BY <1>1, <1>2, <2>2
    <3>2. i \in Len(q) + 1 .. Len(q) + Len(n) /\ k \in Len(q) + 1 .. Len(q) + Len(n)
      BY <1>1, <2>2
    <3>3. p[i] = n[i - Len(q)] /\ p[k] = n[k - Len(q)]
      BY <1>1, <3>2
    <3>4. i - Len(q) = k - Len(q)
      BY <3>1, <3>3
    <3> QED BY <3>4, <1>1
  <2>3. CASE i <= Len(q) /\ k > Len(q)
    <3>1. i \in DOMAIN q /\ p[i] \in R /\ k - Len(q) \in DOMAIN n
      BY <1>1, <1>2, <1>6, <2>3
    <3>2. p[i].id < b /\ n[k - Len(q)].id >= b
      BY <3>1
    <3>3. k \in Len(q) + 1 .. Len(q) + Len(n)
      BY <1>1, <2>3
    <3>4. p[k] = n[k - Len(q)]
      BY <1>1, <3>3
    <3> QED BY <3>1, <3>2, <3>4, <1>3, <1>4
  <2>4. CASE i > Len(q) /\ k <= Len(q)
    <3>1. k \in DOMAIN q /\ p[k] \in R /\ i - Len(q) \in DOMAIN n
      BY <1>1, <1>2, <1>6, <2>4
    <3>2. p[k].id < b /\ n[i - Len(q)].id >= b
      BY <3>1
    <3>3. i \in Len(q) + 1 .. Len(q) + Len(n)
      BY <1>1, <2>4
    <3>4. p[i] = n[i - Len(q)]
      BY <1>1, <3>3
    <3> QED BY <3>1, <3>2, <3>4, <1>3, <1>4
  <2> QED BY <2>1, <2>2, <2>3, <2>4, <1>1
<1>14. \A j, k \in DOMAIN r : r[j].id = r[k].id => j = k
  BY DEF Matched
<1>15. \A i \in DOMAIN p : \A j \in DOMAIN r : p[i].id # r[j].id
  <2> SUFFICES ASSUME NEW i \in DOMAIN p, NEW j \in DOMAIN r PROVE p[i].id # r[j].id
    OBVIOUS
  <2>1. CASE i <= Len(q)
    <3>1. i \in DOMAIN q /\ p[i] = q[i]
      BY <1>1, <1>2, <2>1
    <3> QED BY <3>1 DEF Matched
  <2>2. CASE i > Len(q)
    <3>1. i - Len(q) \in DOMAIN n /\ p[i] = n[i - Len(q)]
      BY <1>1, <1>2, <2>2
    <3> QED BY <3>1, <1>3, <1>5
  <2> QED BY <2>1, <2>2, <1>1
<1>16. \A c, d \in P : c.id = d.id => c = d
  <2> SUFFICES ASSUME NEW c \in P, NEW d \in P, c.id = d.id PROVE c = d
    OBVIOUS
  <2>1. CASE c \in R /\ d \in R
    BY <2>1 DEF Matched
  <2>2. CASE c \in Range(n) /\ d \in Range(n)
    BY <2>2, <1>2
  <2>3. CASE c \in R /\ d \in Range(n)
    BY <2>3, <1>2, <1>3, <1>4
  <2>4. CASE d \in R /\ c \in Range(n)
    BY <2>4, <1>2, <1>3, <1>4
  <2> QED BY <2>1, <2>2, <2>3, <2>4
<1>17. ASSUME NEW c \in P
       PROVE  \/ \E i \in DOMAIN p : p[i].id = c.id
              \/ \E j \in DOMAIN r : r[j].id = c.id
  <2>1. CASE c \in R
    <3>1. CASE \E i \in DOMAIN q : q[i].id = c.id
      BY <3>1, <1>1, <1>2
    <3> QED BY <2>1, <3>1 DEF Matched
  <2>2. CASE c \in Range(n)
    <3>1. PICK i \in DOMAIN n : c = n[i]
      BY <2>2, <1>2
    <3>2. Len(q) + i \in DOMAIN p /\ p[Len(q) + i] = n[i]
      BY <1>1, <1>2
    <3> QED BY <3>1, <3>2
  <2> QED BY <2>1, <2>2
<1> QED BY <1>11, <1>12, <1>13, <1>14, <1>15, <1>16, <1>17 DEF Matched, p

LEMMA MatchedServe ==
    ASSUME NEW q \in Seq(Request), NEW r \in Seq(Response), NEW R \in SUBSET Request,
           Matched(q, r, R), q # <<>>, NEW a \in Response, a.id = Head(q).id
    PROVE  Matched(Tail(q), Append(r, a), R)
<1> DEFINE t == Tail(q)
           s == Append(r, a)
<1>1. /\ Head(q) = q[1] /\ DOMAIN q = 1 .. Len(q) /\ Len(q) > 0
      /\ DOMAIN t = 1 .. Len(q) - 1 /\ \A i \in DOMAIN t : t[i] = q[i + 1]
  OBVIOUS
<1>2. /\ DOMAIN r = 1 .. Len(r) /\ DOMAIN s = 1 .. Len(r) + 1
      /\ \A j \in DOMAIN r : s[j] = r[j]
      /\ s[Len(r) + 1] = a
  OBVIOUS
<1>3. /\ 1 \in DOMAIN q
      /\ \A i \in DOMAIN t : i + 1 \in DOMAIN q /\ i + 1 # 1
      /\ \A j \in DOMAIN s : j \in DOMAIN r \/ j = Len(r) + 1
      /\ Len(r) + 1 \in DOMAIN s /\ \A j \in DOMAIN r : j \in DOMAIN s
  BY <1>1, <1>2
<1>4. \A i \in DOMAIN q : i = 1 \/ (i - 1 \in DOMAIN t /\ t[i - 1] = q[i])
  BY <1>1
<1> HIDE DEF t, s
<1>11. \A i \in DOMAIN t : t[i] \in R
  BY <1>1, <1>3 DEF Matched
<1>12. \A j \in DOMAIN s : \E c \in R : c.id = s[j].id
  BY <1>1, <1>2, <1>3 DEF Matched
<1>13. \A i, k \in DOMAIN t : t[i].id = t[k].id => i = k
  <2> SUFFICES ASSUME NEW i \in DOMAIN t, NEW k \in DOMAIN t, t[i].id = t[k].id PROVE i = k
    OBVIOUS
  <2>1. i + 1 = k + 1
    BY <1>1, <1>3 DEF Matched
  <2> QED BY <2>1, <1>1
<1>14. \A j, k \in DOMAIN s : s[j].id = s[k].id => j = k
  BY <1>1, <1>2, <1>3 DEF Matched
<1>15. \A i \in DOMAIN t : \A j \in DOMAIN s : t[i].id # s[j].id
  BY <1>1, <1>2, <1>3 DEF Matched
<1>16. \A c, d \in R : c.id = d.id => c = d
  BY DEF Matched
<1>17. ASSUME NEW c \in R
       PROVE  \/ \E i \in DOMAIN t : t[i].id = c.id
              \/ \E j \in DOMAIN s : s[j].id = c.id
  <2>1. CASE \E i \in DOMAIN q : q[i].id = c.id
    <3>1. PICK i \in DOMAIN q : q[i].id = c.id
      BY <2>1
    <3>2. CASE i = 1
      BY <3>1, <3>2, <1>1, <1>2, <1>3
    <3>3. CASE i # 1
      BY <3>1, <3>3, <1>4
    <3> QED BY <3>2, <3>3
  <2>2. CASE \E j \in DOMAIN r : r[j].id = c.id
    BY <2>2, <1>2, <1>3
  <2> QED BY <2>1, <2>2 DEF Matched
<1> QED BY <1>11, <1>12, <1>13, <1>14, <1>15, <1>16, <1>17 DEF Matched, t, s

LEMMA MatchedReceive ==
    ASSUME NEW q \in Seq(Request), NEW r \in Seq(Response), NEW R \in SUBSET Request,
           Matched(q, r, R), NEW i \in DOMAIN r, NEW a \in R, a.id = r[i].id
    PROVE  Matched(q, RemoveAt(r, i), R \ {a})
<1> DEFINE s == RemoveAt(r, i)
           up(j) == IF j < i THEN j ELSE j + 1
           down(j) == IF j < i THEN j ELSE j - 1
<1>1. /\ DOMAIN r = 1 .. Len(r) /\ DOMAIN s = 1 .. Len(r) - 1
      /\ \A j \in DOMAIN s : s[j] = r[up(j)]
  <2>1. DOMAIN r = 1 .. Len(r)
    OBVIOUS
  <2>2. /\ DOMAIN s = 1 .. Len(r) - 1
        /\ \A j \in 1 .. Len(r) - 1 : s[j] = IF j < i THEN r[j] ELSE r[j + 1]
    BY <2>1, RemoveAtFact
  <2> HIDE DEF s
  <2> QED BY <2>1, <2>2
<1>2. /\ \A j \in DOMAIN s : up(j) \in DOMAIN r /\ up(j) # i
      /\ \A j, k \in DOMAIN s : up(j) = up(k) => j = k
      /\ \A j \in DOMAIN r : j # i => down(j) \in DOMAIN s /\ up(down(j)) = j
  BY <1>1
<1> HIDE DEF s, up, down
<1>11. \A k \in DOMAIN q : q[k] \in R \ {a}
  BY DEF Matched
<1>12. \A j \in DOMAIN s : \E c \in R \ {a} : c.id = s[j].id
  BY <1>1, <1>2 DEF Matched
<1>14. \A j, k \in DOMAIN s : s[j].id = s[k].id => j = k
  BY <1>1, <1>2 DEF Matched
<1>15. \A k \in DOMAIN q : \A j \in DOMAIN s : q[k].id # s[j].id
  BY <1>1, <1>2 DEF Matched
<1>17. ASSUME NEW c \in R \ {a}
       PROVE  \/ \E k \in DOMAIN q : q[k].id = c.id
              \/ \E j \in DOMAIN s : s[j].id = c.id
  <2>1. CASE \E k \in DOMAIN q : q[k].id = c.id
    BY <2>1
  <2>2. CASE \E j \in DOMAIN r : r[j].id = c.id
    <3>1. PICK j \in DOMAIN r : r[j].id = c.id
      BY <2>2
    <3>2. j # i
      BY <3>1 DEF Matched
    <3>3. s[down(j)] = r[j] /\ down(j) \in DOMAIN s
      BY <1>1, <1>2, <3>2
    <3> QED BY <3>1, <3>3
  <2> QED BY <2>1, <2>2 DEF Matched
<1>18. /\ \A k, m \in DOMAIN q : q[k].id = q[m].id => k = m
       /\ \A c, d \in R \ {a} : c.id = d.id => c = d
  BY DEF Matched
<1> QED BY <1>11, <1>12, <1>14, <1>15, <1>17, <1>18 DEF Matched, s

LEMMA MatchedEmpty ==
    ASSUME NEW q \in Seq(Request), NEW r \in Seq(Response), Matched(q, r, {})
    PROVE  q = <<>> /\ r = <<>>
<1>1. DOMAIN q = {} /\ DOMAIN r = {}
  BY DEF Matched
<1> QED BY <1>1

LEMMA MatchedNothing == Matched(<<>>, <<>>, {})
BY DEF Matched

-----------------------------------------------------------------------------
(* Files. *)

LEMMA MakeSeq ==
    ASSUME NEW S, NEW n \in Nat, NEW f \in [1 .. n -> S]
    PROVE  f \in Seq(S) /\ Len(f) = n
OBVIOUS

LEMMA WriteAtFact ==
    ASSUME NEW f \in Seq(Int), NEW off \in Nat, NEW d \in Seq(Int)
    PROVE  /\ WriteAt(f, off, d) \in Seq(Int)
           /\ Len(WriteAt(f, off, d)) =
                 IF Len(d) = 0 THEN Len(f) ELSE Larger(Len(f), off + Len(d))
           /\ \A p \in 1 .. Len(WriteAt(f, off, d)) : WriteAt(f, off, d)[p] =
                 IF off < p /\ p <= off + Len(d) THEN d[p - off]
                 ELSE IF p <= Len(f) THEN f[p] ELSE Hole
<1>1. CASE d = <<>>
  <2>1. WriteAt(f, off, d) = f /\ Len(d) = 0
    BY <1>1 DEF WriteAt
  <2> QED BY <2>1
<1>2. CASE d # <<>>
  <2> DEFINE n == Larger(Len(f), off + Len(d))
             v(i) == IF i - off \in DOMAIN d THEN d[i - off]
                     ELSE IF i <= Len(f) THEN f[i] ELSE Hole
             w == [i \in 1 .. n |-> v(i)]
  <2>1. WriteAt(f, off, d) = w
    BY <1>2 DEF WriteAt
  <2>2. Len(d) \in Nat \ {0} /\ DOMAIN d = 1 .. Len(d) /\ n \in Nat /\ Len(f) \in Nat
    BY <1>2 DEF Larger
  <2>3. ASSUME NEW i \in 1 .. n
        PROVE  /\ v(i) \in Int
               /\ v(i) = IF off < i /\ i <= off + Len(d) THEN d[i - off]
                         ELSE IF i <= Len(f) THEN f[i] ELSE Hole
    <3>1. i \in Nat \ {0} /\ (i - off \in DOMAIN d <=> off < i /\ i <= off + Len(d))
      BY <2>2
    <3>2. CASE i - off \in DOMAIN d
      BY <3>1, <3>2, <2>2
    <3>3. CASE i - off \notin DOMAIN d
      BY <3>1, <3>3, <2>2 DEF Hole
    <3> QED BY <3>2, <3>3
  <2> HIDE DEF n, v
  <2>4. w \in [1 .. n -> Int]
    BY <2>3
  <2>5. w \in Seq(Int) /\ Len(w) = n
    BY <2>2, <2>4, MakeSeq
  <2>6. \A i \in 1 .. n : w[i] = v(i)
    OBVIOUS
  <2> HIDE DEF w
  <2> QED BY <2>1, <2>2, <2>3, <2>5, <2>6 DEF n
<1> QED BY <1>1, <1>2

\* g is f after a piece of src, n bytes long, has been written in its place.
Extended(f, g, off, n) ==
    /\ g \in Seq(Int)
    /\ Len(g) = IF n = 0 THEN Len(f) ELSE Larger(Len(f), off + n)
    /\ \A p \in 1 .. Len(f) : f[p] = p => p <= Len(g) /\ g[p] = p
    /\ \A p \in Nat : off < p /\ p <= off + n => p <= Len(g) /\ g[p] = p

LEMMA WritePiece ==
    ASSUME Source(src), NEW f \in Seq(Int), NEW off \in Nat, NEW d, Piece(d, off)
    PROVE  Extended(f, WriteAt(f, off, d), off, Len(d))
<1> DEFINE w == WriteAt(f, off, d)
<1>1. d \in Seq(Int) /\ Len(d) \in Nat /\ Len(f) \in Nat
  BY DEF Piece
<1>2. /\ w \in Seq(Int)
      /\ Len(w) = IF Len(d) = 0 THEN Len(f) ELSE Larger(Len(f), off + Len(d))
      /\ \A p \in 1 .. Len(w) : w[p] =
            IF off < p /\ p <= off + Len(d) THEN d[p - off]
            ELSE IF p <= Len(f) THEN f[p] ELSE Hole
  BY <1>1, WriteAtFact
<1>3. \A i \in 1 .. Len(d) : d[i] = off + i
  BY DEF Piece
<1> HIDE DEF w
<1>4. \A p \in Nat : off < p /\ p <= off + Len(d) => p <= Len(w) /\ w[p] = p
  <2> SUFFICES ASSUME NEW p \in Nat, off < p, p <= off + Len(d)
               PROVE  p <= Len(w) /\ w[p] = p
    OBVIOUS
  <2>0. Len(d) # 0
    BY <1>1
  <2>1. p \in 1 .. Len(w) /\ p - off \in 1 .. Len(d)
    BY <1>1, <1>2, <2>0 DEF Larger
  <2> QED BY <2>1, <1>2, <1>3
<1>5. \A p \in 1 .. Len(f) : f[p] = p => p <= Len(w) /\ w[p] = p
  <2> SUFFICES ASSUME NEW p \in 1 .. Len(f), f[p] = p
               PROVE  p <= Len(w) /\ w[p] = p
    OBVIOUS
  <2>1. p \in 1 .. Len(w) /\ p \in Nat
    BY <1>1, <1>2 DEF Larger
  <2>2. CASE off < p /\ p <= off + Len(d)
    BY <2>1, <2>2, <1>4
  <2>3. CASE ~(off < p /\ p <= off + Len(d))
    BY <2>1, <2>3, <1>2
  <2> QED BY <2>2, <2>3
<1>6. Extended(f, w, off, Len(d))
  BY <1>2, <1>4, <1>5 DEF Extended
<1> QED BY <1>6 DEF w

LEMMA WriteRight ==
    ASSUME Source(src), NEW f \in Seq(Int), NEW off \in Nat, NEW d, Piece(d, off),
           NEW n \in Nat, Right(f, n)
    PROVE  /\ Right(WriteAt(f, off, d), n)
           /\ off <= n => Right(WriteAt(f, off, d), Larger(n, off + Len(d)))
<1> DEFINE w == WriteAt(f, off, d)
<1>1. Len(d) \in Nat /\ Len(f) \in Nat /\ n <= Len(f) /\ \A p \in 1 .. n : f[p] = p
  BY DEF Piece, Right
<1>2. /\ w \in Seq(Int)
      /\ Len(w) = IF Len(d) = 0 THEN Len(f) ELSE Larger(Len(f), off + Len(d))
      /\ \A p \in 1 .. Len(f) : f[p] = p => p <= Len(w) /\ w[p] = p
      /\ \A p \in Nat : off < p /\ p <= off + Len(d) => p <= Len(w) /\ w[p] = p
  BY WritePiece DEF Extended
<1> HIDE DEF w
<1>3. \A p \in 1 .. n : w[p] = p
  BY <1>1, <1>2
<1>4. n <= Len(w)
  BY <1>1, <1>2 DEF Larger
<1>5. ASSUME off <= n PROVE Right(w, Larger(n, off + Len(d)))
  <2>1. Larger(n, off + Len(d)) <= Len(w)
    BY <1>1, <1>2, <1>4, <1>5 DEF Larger
  <2>2. ASSUME NEW p \in 1 .. Larger(n, off + Len(d)) PROVE w[p] = p
    <3>1. p \in Nat /\ (p \in 1 .. n \/ (off < p /\ p <= off + Len(d)))
      BY <1>1, <1>5 DEF Larger
    <3> QED BY <3>1, <1>2, <1>3
  <2> QED BY <2>1, <2>2 DEF Right
<1> QED BY <1>3, <1>4, <1>5 DEF Right, w

LEMMA PiecePrefix ==
    ASSUME Source(src), NEW d, NEW off \in Nat, Piece(d, off), NEW n \in 0 .. Len(d)
    PROVE  Piece(SubSeq(d, 1, n), off) /\ Len(SubSeq(d, 1, n)) = n
<1>1. d \in Seq(Int) /\ Len(d) \in Nat /\ Len(src) \in Nat
  BY DEF Piece, Source
<1>2. /\ SubSeq(d, 1, n) \in Seq(Int) /\ Len(SubSeq(d, 1, n)) = n
      /\ \A i \in 1 .. n : SubSeq(d, 1, n)[i] = d[i]
  BY <1>1
<1> QED BY <1>1, <1>2 DEF Piece

LEMMA SourcePiece ==
    ASSUME Source(src), NEW off \in Nat, NEW n \in Nat, off + n <= Len(src)
    PROVE  /\ Piece(SubSeq(src, off + 1, off + n), off)
           /\ Len(SubSeq(src, off + 1, off + n)) = n
<1> DEFINE d == SubSeq(src, off + 1, off + n)
<1>1. src \in Seq(Int) /\ Len(src) \in Nat /\ \A i \in 1 .. Len(src) : src[i] = i
  BY DEF Source
<1>2. d \in Seq(Int) /\ Len(d) = n
  BY <1>1
<1>3. \A i \in 1 .. n : d[i] = src[off + i]
  BY <1>1
<1> HIDE DEF d
<1>4. ASSUME NEW i \in 1 .. n PROVE d[i] = off + i
  <2>1. off + i \in 1 .. Len(src)
    BY <1>1
  <2>2. src[off + i] = off + i
    BY <1>1, <2>1
  <2> QED BY <1>3, <2>2
<1> QED BY <1>2, <1>4, <1>1 DEF Piece, d

LEMMA TruncateFact ==
    ASSUME NEW f \in Seq(Int), NEW n \in Nat
    PROVE  /\ Truncate(f, n) \in Seq(Int) /\ Len(Truncate(f, n)) = n
           /\ Right(f, n) => Right(Truncate(f, n), n)
<1> DEFINE v(i) == IF i <= Len(f) THEN f[i] ELSE Hole
           w == [i \in 1 .. n |-> v(i)]
<1>1. w = Truncate(f, n)
  BY DEF Truncate
<1>2. w \in [1 .. n -> Int]
  <2>1. \A i \in 1 .. n : v(i) \in Int
    BY DEF Hole
  <2> HIDE DEF v
  <2> QED BY <2>1
<1>3. w \in Seq(Int) /\ Len(w) = n
  <2> HIDE DEF w
  <2> QED BY <1>2, MakeSeq
<1>4. Right(f, n) => \A i \in 1 .. n : w[i] = i
  BY DEF Right
<1> HIDE DEF w
<1> QED BY <1>1, <1>3, <1>4 DEF Right

LEMMA RightPrefix ==
    ASSUME Source(src), NEW f \in Seq(Int), Len(f) <= Len(src), Right(f, Len(f))
    PROVE  IsPrefix(f, src) /\ (Len(f) = Len(src) => f = src)
<1>1. /\ src \in Seq(Int) /\ Len(src) \in Nat /\ Len(f) \in Nat
      /\ \A i \in 1 .. Len(src) : src[i] = i
      /\ \A i \in 1 .. Len(f) : f[i] = i
  BY DEF Source, Right
<1> DEFINE a == SubSeq(f, 1, Len(f))
           b == SubSeq(src, 1, Len(f))
<1>2. a \in Seq(Int) /\ b \in Seq(Int) /\ Len(a) = Len(f) /\ Len(b) = Len(f)
  BY <1>1
<1>3. \A i \in 1 .. Len(f) : a[i] = i /\ b[i] = i
  BY <1>1
<1> HIDE DEF a, b
<1>4. a = b
  BY <1>2, <1>3, SeqEqual
<1>5. ASSUME Len(f) = Len(src) PROVE f = src
  <2>1. \A i \in 1 .. Len(f) : f[i] = src[i]
    BY <1>1, <1>5
  <2>2. f \in Seq(Int) /\ src \in Seq(Int)
    BY <1>1
  <2> QED BY ONLY <1>5, <2>1, <2>2, SeqEqual
<1> QED BY <1>4, <1>5 DEF IsPrefix, a, b

LEMMA PrefixRight ==
    ASSUME Source(src), NEW f \in Seq(Int), IsPrefix(f, src)
    PROVE  Len(f) <= Len(src) /\ Right(f, Len(f))
<1>1. /\ src \in Seq(Int) /\ Len(src) \in Nat /\ Len(f) \in Nat
      /\ \A i \in 1 .. Len(src) : src[i] = i
      /\ Len(f) <= Len(src)
      /\ SubSeq(f, 1, Len(f)) = SubSeq(src, 1, Len(f))
  BY DEF Source, IsPrefix
<1>2. ASSUME NEW i \in 1 .. Len(f) PROVE f[i] = i
  <2>1. SubSeq(f, 1, Len(f))[i] = f[i]
    BY <1>1
  <2>2. SubSeq(src, 1, Len(f))[i] = src[i]
    BY <1>1
  <2>3. SubSeq(f, 1, Len(f)) = SubSeq(src, 1, Len(f))
    BY <1>1
  <2>4. f[i] = src[i]
    BY ONLY <2>1, <2>2, <2>3, Zenon
  <2>5. i \in 1 .. Len(src)
    BY <1>1
  <2>6. src[i] = i
    BY <1>1, <2>5
  <2> QED BY ONLY <2>4, <2>6
<1> QED BY <1>1, <1>2 DEF Right

-----------------------------------------------------------------------------
(* Starting a transfer. *)

LEMMA FreshFact ==
    ASSUME op \in {"get", "put", "cross"}
    PROVE  /\ buflen \in Nat \ {0}
           /\ Fresh \in Transfer /\ Fresh.pc = "idle" /\ Fresh.mode = "plain"
           /\ Fresh.reqs = {} /\ Fresh.num_upload_req = 0 /\ Fresh.id = 0
           /\ Fresh.ret = "none" /\ Fresh.offset = 0 /\ Fresh.highwater = 0
           /\ Fresh.maxack = 0 /\ Fresh.status = "ok" /\ ~Fresh.read_error
           /\ ~Fresh.write_error /\ ~Fresh.reordered /\ ~Fresh.everything
           /\ ~Fresh.uncut
<1>1. buflen \in Nat \ {0}
  BY SftpAssumption DEF buflen, Lesser
<1>2. {} \in SUBSET Request /\ 0 \in 0 .. NumRequests
  BY SftpAssumption
<1> HIDE DEF buflen
<1>3. Fresh \in Transfer
  BY <1>1, <1>2 DEF Fresh, Transfer
<1> QED BY <1>1, <1>3 DEF Fresh

LEMMA InitInv == Init => Inv
<1> SUFFICES ASSUME Init PROVE Inv
  OBVIOUS
<1>1. op \in {"get", "put", "cross"} /\ x = Fresh
  BY SftpAssumption DEF Init
<1>2. PICK n \in 0 .. MaxLen : src = File(n)
  BY DEF Init
<1>3. Source(src) /\ Len(src) <= MaxLen /\ Len(src) \in Nat
  <2>0. MaxLen \in Nat
    BY SftpAssumption
  <2>1. src \in [1 .. n -> Int] /\ \A i \in 1 .. n : src[i] = i
    BY <1>2, <2>0 DEF File
  <2>2. src \in Seq(Int) /\ Len(src) = n
    BY <2>1, <2>0, MakeSeq
  <2> QED BY <2>0, <2>1, <2>2 DEF Source
<1>4. dst \in Seq(Int) /\ (IsPrefix(dst, src) \/ Len(dst) > Len(src))
  <2>1. CASE dst = <<>>
    <3>1. dst \in Seq(Int) /\ Len(dst) = 0 /\ Right(dst, Len(dst))
      BY <2>1 DEF Right
    <3>2. Len(dst) <= Len(src)
      BY <3>1, <1>3
    <3> QED BY <3>1, <3>2, <1>3, RightPrefix
  <2>2. CASE dst # <<>>
    <3>1. dst = [i \in 1 .. MaxLen + 1 |-> Stale] /\ MaxLen + 1 \in Nat
      BY <2>2, SftpAssumption DEF Init
    <3>2. dst \in [1 .. MaxLen + 1 -> Int]
      BY <3>1 DEF Stale
    <3>3. dst \in Seq(Int) /\ Len(dst) = MaxLen + 1
      BY <3>1, <3>2, MakeSeq
    <3> QED BY <3>3, <1>3, SftpAssumption
  <2> QED BY <2>1, <2>2
<1>5. /\ x \in Transfer /\ x.pc = "idle" /\ x.mode = "plain" /\ x.reqs = {}
      /\ x.num_upload_req = 0 /\ x.ret = "none"
  BY <1>1, FreshFact
<1>6. /\ inq["from"] = <<>> /\ inq["to"] = <<>>
      /\ replies["from"] = <<>> /\ replies["to"] = <<>>
      /\ inq \in [Servers -> Seq(Request)] /\ replies \in [Servers -> Seq(Response)]
  BY DEF Init, Servers
<1>7. TypeOK
  BY <1>1, <1>3, <1>4, <1>5, <1>6, FS_EmptySet, SftpAssumption DEF TypeOK, Init
<1>8. num_req = 0
  BY <1>5, FS_EmptySet DEF num_req
<1>9. Queues
  BY <1>1, <1>5, <1>6, MatchedNothing DEF Queues, Server
<1>10. Limits /\ Reading
  BY <1>1, <1>5, <1>6, <1>8, SftpAssumption DEF Limits, Reading
<1>11. Get /\ Put /\ Cross
  BY <1>5 DEF Get, Put, Cross
<1>12. Left
  BY <1>4, <1>5 DEF Left, SuccessMeansCopied, FailureLeavesPrefix
<1> QED BY <1>7, <1>9, <1>10, <1>11, <1>12 DEF Inv

LEMMA Typed ==
    ASSUME TypeOK
    PROVE  /\ x \in Transfer /\ x.reqs \in SUBSET Request /\ IsFiniteSet(x.reqs)
           /\ x.offset \in Nat /\ x.maxack \in Nat /\ x.highwater \in Nat
           /\ inq \in [Servers -> Seq(Request)] /\ replies \in [Servers -> Seq(Response)]
           /\ inq["from"] \in Seq(Request) /\ inq["to"] \in Seq(Request)
           /\ replies["from"] \in Seq(Response) /\ replies["to"] \in Seq(Response)
           /\ Source(src) /\ src \in Seq(Int) /\ Len(src) \in Nat
           /\ dst \in Seq(Int) /\ Len(dst) \in Nat /\ faults \in Nat
<1>1. x \in Transfer /\ IsFiniteSet(x.reqs)
  BY DEF TypeOK
<1>2. /\ x.reqs \in SUBSET Request /\ x.offset \in Nat /\ x.maxack \in Nat
      /\ x.highwater \in Nat
  BY <1>1 DEF Transfer
<1>3. inq \in [Servers -> Seq(Request)] /\ replies \in [Servers -> Seq(Response)]
  BY DEF TypeOK
<1>4. /\ inq["from"] \in Seq(Request) /\ inq["to"] \in Seq(Request)
      /\ replies["from"] \in Seq(Response) /\ replies["to"] \in Seq(Response)
  BY <1>3 DEF Servers
<1>5. Source(src) /\ dst \in Seq(Int) /\ faults \in Nat
  BY DEF TypeOK
<1>6. src \in Seq(Int) /\ Len(src) \in Nat /\ Len(dst) \in Nat
  BY <1>5 DEF Source
<1> QED BY <1>1, <1>2, <1>3, <1>4, <1>5, <1>6

LEMMA AtRest ==
    ASSUME TypeOK, Queues, x.reqs = {}, x.num_upload_req = 0
    PROVE  /\ inq["from"] = <<>> /\ inq["to"] = <<>>
           /\ replies["from"] = <<>> /\ replies["to"] = <<>>
<1>1. /\ inq["from"] \in Seq(Request) /\ inq["to"] \in Seq(Request)
      /\ replies["from"] \in Seq(Response) /\ replies["to"] \in Seq(Response)
      /\ op \in {"get", "put", "cross"}
  BY DEF TypeOK, Servers
<1>2. Matched(inq[Server], replies[Server], {})
  BY DEF Queues
<1>3. CASE op = "put"
  <2>1. Matched(inq["to"], replies["to"], {})
    BY <1>2, <1>3 DEF Server
  <2> QED BY <2>1, <1>1, <1>3, MatchedEmpty DEF Queues
<1>4. CASE op # "put"
  <2>1. Matched(inq["from"], replies["from"], {})
    BY <1>2, <1>4 DEF Server
  <2>2. inq["from"] = <<>> /\ replies["from"] = <<>>
    BY <2>1, <1>1, MatchedEmpty
  <2>3. CASE op = "get"
    BY <2>2, <2>3 DEF Queues
  <2>4. CASE op = "cross"
    <3>1. Len(inq["to"]) + Len(replies["to"]) = 0
      BY <2>4 DEF Queues
    <3>2. \A q \in Seq(Request), r \in Seq(Response) :
             Len(q) + Len(r) = 0 => q = <<>> /\ r = <<>>
      OBVIOUS
    <3>3. inq["to"] = <<>> /\ replies["to"] = <<>>
      BY <3>1, <3>2, <1>1
    <3> QED BY <3>3, <2>2, <1>1
  <2> QED BY <1>1, <1>4, <2>3, <2>4
<1> QED BY <1>3, <1>4

\* What the three ways of starting a transfer have in common.
LEMMA Opening ==
    ASSUME Inv, x.pc = "idle", x' \in Transfer, x'.pc = "loop", x'.reqs = {},
           x'.num_upload_req = 0, op = "cross" => x'.mode = "plain",
           op = "put" => x'.id = 0 /\ x'.ackid = 1, dst' \in Seq(Int),
           torn' \in BOOLEAN, refused' \in BOOLEAN, Begin,
           UNCHANGED <<inq, replies, faults>>
    PROVE  TypeOK' /\ Queues' /\ Limits' /\ Reading' /\ Left'
<1>1. TypeOK /\ Queues
  BY DEF Inv
<1>2. x.reqs = {} /\ x.num_upload_req = 0
  BY <1>1 DEF Queues
<1>3. /\ inq'["from"] = <<>> /\ inq'["to"] = <<>>
      /\ replies'["from"] = <<>> /\ replies'["to"] = <<>>
  BY <1>1, <1>2, AtRest
<1>4. op' = op /\ src' = src /\ interrupted' = FALSE /\ reorders' = reorders
  BY DEF Begin
<1>5. TypeOK'
  <2>0. attempts \in Nat /\ attempts' = attempts + 1
    BY <1>1 DEF TypeOK, Begin
  <2>1. attempts' \in Nat /\ interrupted' \in BOOLEAN
    <3>1. attempts' \in Nat
      BY ONLY <2>0
    <3>2. interrupted' \in BOOLEAN
      BY <1>4
    <3> QED BY <3>1, <3>2
  <2>2. Source(src)' /\ (Len(src) <= MaxLen)'
    BY <1>1, <1>4 DEF TypeOK, Source
  <2>3. IsFiniteSet(x.reqs)'
    BY FS_EmptySet
  <2>4. /\ op' \in {"get", "put", "cross"} /\ reorders' \in BOOLEAN
        /\ inq' \in [Servers -> Seq(Request)] /\ faults' \in Nat
        /\ replies' \in [Servers -> Seq(Response)]
    BY <1>1, <1>4 DEF TypeOK
  <2> QED BY <2>1, <2>2, <2>3, <2>4 DEF TypeOK
<1>6. Queues'
  <2>1. Matched(inq[Server], replies[Server], x.reqs)'
    <3>1. Server' = "to" \/ Server' = "from"
      BY DEF Server
    <3>2. inq'[Server'] = <<>> /\ replies'[Server'] = <<>> /\ x'.reqs = {}
      BY <1>3, <3>1
    <3> QED BY <3>2, MatchedNothing
  <2> QED BY <2>1, <1>3, <1>4 DEF Queues
<1>7. num_req' = 0
  BY FS_EmptySet DEF num_req
<1>8. Limits' /\ Reading'
  BY <1>3, <1>4, <1>7, SftpAssumption DEF Limits, Reading
<1>9. Left'
  BY DEF Left
<1> QED BY <1>5, <1>6, <1>8, <1>9

LEMMA DownloadOpenInv ==
    ASSUME Inv, NEW m \in Modes, NEW size \in {0, Len(src)}, sftp_download_open(m, size)
    PROVE  Inv'
<1> DEFINE base == IF m = "resume" THEN Len(dst) ELSE 0
<1>1. TypeOK /\ Queues /\ Left /\ op = "get" /\ x.pc = "idle" /\ Begin /\ Opened(m)
  BY DEF Inv, sftp_download_open, Begin
<1>2. /\ src \in Seq(Int) /\ Len(src) \in Nat /\ dst \in Seq(Int) /\ Len(dst) \in Nat
      /\ size \in Nat /\ size <= Len(src) /\ Source(src)
  BY <1>1 DEF TypeOK, Source
<1>3. m \in {"plain", "inplace", "resume"} /\ base \in Nat
  BY <1>2 DEF Modes
<1>4. x' = [Fresh EXCEPT !.pc = "loop", !.mode = m, !.size = size,
                         !.offset = base, !.highwater = base,
                         !.maxack = base, !.max_req = 1]
  BY DEF sftp_download_open
<1> HIDE DEF base
<1>5. /\ x' \in Transfer /\ x'.pc = "loop" /\ x'.mode = m /\ x'.reqs = {}
      /\ x'.num_upload_req = 0 /\ x'.offset = base /\ x'.highwater = base
      /\ x'.maxack = base /\ x'.max_req = 1 /\ x'.status = "ok" /\ ~x'.reordered
      /\ ~x'.everything
  <2>1. 1 \in 0 .. NumRequests
    BY SftpAssumption
  <2> QED BY <1>1, <1>2, <1>3, <1>4, <2>1, FreshFact DEF Transfer
<1>6. dst' \in Seq(Int) /\ torn' \in BOOLEAN /\ refused' \in BOOLEAN
      /\ UNCHANGED <<inq, replies, faults>> /\ op' = op /\ src' = src
  BY <1>1, <1>2 DEF Opened, TypeOK, Begin
<1>7. TypeOK' /\ Queues' /\ Limits' /\ Reading' /\ Left'
  BY <1>1, <1>5, <1>6, Opening
<1>8. Put' /\ Cross'
  BY <1>1, <1>6 DEF Put, Cross
<1>9. ASSUME ~torn'
      PROVE  base <= Len(src) /\ Right(dst', base) /\ (m # "inplace" => Len(dst') = base)
  <2>1. CASE m = "resume"
    <3>1. base = Len(dst) /\ dst' = dst /\ ~torn /\ ~x.uncut /\ Len(dst) <= size
      BY <1>1, <1>9, <2>1 DEF base, Opened, sftp_download_open
    <3>2. IsPrefix(dst, src)
      BY <3>1, <1>1, <1>2 DEF Left
    <3> QED BY <3>1, <3>2, <1>2, PrefixRight
  <2>2. CASE m = "plain"
    <3>1. base = 0 /\ dst' = <<>>
      BY <1>1, <2>2 DEF base, Opened
    <3> QED BY <3>1, <1>2, <2>2 DEF Right
  <2>3. CASE m = "inplace"
    <3>1. base = 0 /\ dst' = dst
      BY <1>1, <2>3 DEF base, Opened
    <3> QED BY <3>1, <1>2, <2>3 DEF Right
  <2> QED BY <1>3, <2>1, <2>2, <2>3
<1>10. Get'
  <2> SUFFICES ASSUME ~torn' PROVE Get'
    BY DEF Get
  <2>0. base <= Len(src) /\ Right(dst', base) /\ (m # "inplace" => Len(dst') = base)
    BY <1>9
  <2>1. Downloaded'
    <3> SUFFICES ASSUME NEW p \in 1 .. Len(src'), p <= base
                 PROVE  p <= Len(dst') /\ dst'[p] = p
      BY <1>5 DEF Downloaded
    <3> QED BY <2>0, <1>2, <1>3, <1>6 DEF Right
  <2>2. SentAll'
    BY <1>5 DEF SentAll
  <2>3. Right(dst, x.highwater)'
    BY <2>0, <1>5 DEF Right
  <2> QED BY <2>0, <2>1, <2>2, <2>3, <1>2, <1>3, <1>5, <1>6 DEF Get
<1> QED BY <1>7, <1>8, <1>10 DEF Inv

LEMMA UploadOpenInv ==
    ASSUME Inv, NEW m \in Modes, sftp_upload_open(m)
    PROVE  Inv'
<1> DEFINE base == IF m = "resume" THEN Len(dst) ELSE 0
<1>1. TypeOK /\ Queues /\ Left /\ op = "put" /\ x.pc = "idle" /\ Begin /\ Opened(m)
  BY DEF Inv, sftp_upload_open, Begin
<1>2. /\ src \in Seq(Int) /\ Len(src) \in Nat /\ dst \in Seq(Int) /\ Len(dst) \in Nat
      /\ Source(src)
  BY <1>1 DEF TypeOK, Source
<1>3. m \in {"plain", "inplace", "resume"} /\ base \in Nat
  BY <1>2 DEF Modes
<1>4. x' = [Fresh EXCEPT !.pc = "loop", !.mode = m, !.startid = 1,
                         !.ackid = 1, !.offset = base]
  BY DEF sftp_upload_open
<1> HIDE DEF base
<1>5. /\ x' \in Transfer /\ x'.pc = "loop" /\ x'.mode = m /\ x'.reqs = {}
      /\ x'.num_upload_req = 0 /\ x'.offset = base /\ x'.highwater = 0
      /\ x'.maxack = 0 /\ x'.status = "ok" /\ x'.id = 0 /\ x'.ackid = 1
      /\ ~x'.read_error /\ ~x'.write_error
  BY <1>1, <1>2, <1>3, <1>4, FreshFact DEF Transfer
<1>6. dst' \in Seq(Int) /\ torn' \in BOOLEAN /\ refused' \in BOOLEAN
      /\ UNCHANGED <<inq, replies, faults>> /\ op' = op /\ src' = src
  BY <1>1, <1>2 DEF Opened, TypeOK, Begin
<1>7. TypeOK' /\ Queues' /\ Limits' /\ Reading' /\ Left'
  BY <1>1, <1>5, <1>6, Opening
<1>8. Get' /\ Cross'
  BY <1>1, <1>6 DEF Get, Cross
<1>9. ASSUME ~torn', ~refused'
      PROVE  /\ base <= Len(src) /\ Right(dst', base)
             /\ m # "inplace" => Len(dst') = base
             /\ base = Len(src) => Len(src) = 0
  <2>1. CASE m = "resume"
    <3>1. /\ base = Len(dst) /\ dst' = dst /\ ~torn /\ ~x.uncut /\ ~refused
          /\ Len(dst) < Len(src)
      BY <1>1, <1>9, <2>1 DEF base, Opened, sftp_upload_open
    <3>2. IsPrefix(dst, src)
      BY <3>1, <1>1, <1>2 DEF Left
    <3> QED BY <3>1, <3>2, <1>2, PrefixRight
  <2>2. CASE m = "plain"
    <3>1. base = 0 /\ dst' = <<>>
      BY <1>1, <2>2 DEF base, Opened
    <3> QED BY <3>1, <1>2, <2>2 DEF Right
  <2>3. CASE m = "inplace"
    <3>1. base = 0 /\ dst' = dst
      BY <1>1, <2>3 DEF base, Opened
    <3> QED BY <3>1, <1>2, <2>3 DEF Right
  <2> QED BY <1>3, <2>1, <2>2, <2>3
<1>10. Put'
  <2> SUFFICES ASSUME ~torn', ~refused' PROVE Put'
    BY DEF Put
  <2>0. /\ base <= Len(src) /\ Right(dst', base)
        /\ m # "inplace" => Len(dst') = base
        /\ base = Len(src) => Len(src) = 0
    BY <1>9
  <2>1. x.reqs = {} /\ x.num_upload_req = 0
    BY <1>1 DEF Queues
  <2>2. inq'["to"] = <<>> /\ replies'["to"] = <<>>
    BY <1>1, <1>6, <2>1, AtRest
  <2>3. Written' = base
    BY <2>2, <1>5 DEF Written
  <2>4. ~Failed'
    BY <1>5 DEF Failed
  <2>5. Right(dst, Written)'
    BY <2>0, <2>3 DEF Right
  <2>6. DOMAIN inq'["to"] = {} /\ DOMAIN replies'["to"] = {}
    BY <2>2
  <2> HIDE DEF Failed, Written
  <2> QED BY <2>0, <2>3, <2>4, <2>5, <2>6, <1>2, <1>3, <1>5, <1>6 DEF Put
<1> QED BY <1>7, <1>8, <1>10 DEF Inv

LEMMA CrossloadOpenInv ==
    ASSUME Inv, NEW size \in {0, Len(src)}, sftp_crossload_open(size)
    PROVE  Inv'
<1>1. TypeOK /\ Queues /\ op = "cross" /\ x.pc = "idle" /\ Begin /\ Opened("plain")
  BY DEF Inv, sftp_crossload_open, Begin
<1>2. src \in Seq(Int) /\ Len(src) \in Nat /\ size \in Nat
  BY <1>1 DEF TypeOK, Source
<1>4. x' = [Fresh EXCEPT !.pc = "loop", !.size = size, !.max_req = 1]
  BY DEF sftp_crossload_open
<1>5. /\ x' \in Transfer /\ x'.pc = "loop" /\ x'.mode = "plain" /\ x'.reqs = {}
      /\ x'.num_upload_req = 0 /\ x'.offset = 0 /\ x'.max_req = 1 /\ x'.status = "ok"
  <2>1. 1 \in 0 .. NumRequests
    BY SftpAssumption
  <2> QED BY <1>1, <1>2, <1>4, <2>1, FreshFact DEF Transfer
<1>6. dst' = <<>> /\ torn' \in BOOLEAN /\ refused' \in BOOLEAN
      /\ UNCHANGED <<inq, replies, faults>> /\ op' = op /\ src' = src
  BY <1>1 DEF Opened, TypeOK, Begin
<1>7. TypeOK' /\ Queues' /\ Limits' /\ Reading' /\ Left'
  BY <1>1, <1>5, <1>6, Opening
<1>8. Get' /\ Put'
  BY <1>1, <1>6 DEF Get, Put
<1>9. Cross'
  <2>1. x.reqs = {} /\ x.num_upload_req = 0
    BY <1>1 DEF Queues
  <2>2. inq'["to"] = <<>>
    BY <1>1, <1>6, <2>1, AtRest
  <2>3. DOMAIN inq'["to"] = {} /\ Len(dst') = 0
    BY <2>2, <1>6
  <2>4. Forwarded'
    BY <1>5 DEF Forwarded
  <2>5. SentAll'
    BY <1>5 DEF SentAll
  <2> QED BY <2>3, <2>4, <2>5, <1>2, <1>5, <1>6 DEF Cross
<1> QED BY <1>7, <1>8, <1>9 DEF Inv

LEMMA OpenFailsInv == ASSUME Inv, send_open_fails PROVE Inv'
<1>1. TypeOK /\ Queues /\ Left /\ x.pc = "idle" /\ Begin
  BY DEF Inv, send_open_fails, Begin
<1>2. /\ x' = [Fresh EXCEPT !.ret = "unopened"] /\ op' = op /\ src' = src
      /\ reorders' = reorders /\ dst' = dst /\ inq' = inq /\ replies' = replies
      /\ torn' = (torn \/ x.uncut) /\ refused' = refused /\ interrupted' = FALSE
  BY DEF send_open_fails, Begin
<1>3. x.reqs = {} /\ x.num_upload_req = 0
  BY <1>1 DEF Queues
<1>4. /\ inq'["from"] = <<>> /\ inq'["to"] = <<>>
      /\ replies'["from"] = <<>> /\ replies'["to"] = <<>>
  BY <1>1, <1>2, <1>3, AtRest
<1>5. /\ x' \in Transfer /\ x'.pc = "idle" /\ x'.mode = "plain" /\ x'.reqs = {}
      /\ x'.num_upload_req = 0 /\ x'.ret = "unopened" /\ ~x'.uncut
  <2>1. op \in {"get", "put", "cross"}
    BY <1>1 DEF TypeOK
  <2> QED BY <2>1, <1>2, FreshFact DEF Transfer
<1>6. TypeOK'
  <2>0. attempts \in Nat /\ faults \in Nat /\ attempts' = attempts + 1
        /\ (faults' = faults \/ (faults > 0 /\ faults' = faults - 1))
    BY <1>1 DEF TypeOK, Begin, send_open_fails
  <2>1. attempts' \in Nat /\ faults' \in Nat
    BY <2>0
  <2>2. Source(src)' /\ (Len(src) <= MaxLen)'
    BY <1>1, <1>2 DEF TypeOK, Source
  <2>3. IsFiniteSet(x.reqs)'
    BY <1>5, FS_EmptySet
  <2>4. interrupted' \in BOOLEAN
    BY <1>2
  <2> QED BY <1>1, <1>2, <1>5, <2>1, <2>2, <2>3, <2>4 DEF TypeOK
<1>7. Queues'
  <2>1. Matched(inq[Server], replies[Server], x.reqs)'
    <3>1. Server' = "to" \/ Server' = "from"
      BY DEF Server
    <3>2. inq'[Server'] = <<>> /\ replies'[Server'] = <<>> /\ x'.reqs = {}
      BY <1>4, <1>5, <3>1
    <3> QED BY <3>2, MatchedNothing
  <2> QED BY <2>1, <1>4, <1>5 DEF Queues
<1>8. num_req' = 0
  BY <1>5, FS_EmptySet DEF num_req
<1>9. Limits' /\ Reading'
  BY <1>4, <1>5, <1>8, SftpAssumption DEF Limits, Reading
<1>10. Get' /\ Put' /\ Cross'
  BY <1>5 DEF Get, Put, Cross
<1>11. Left'
  BY <1>1, <1>2, <1>5 DEF Left, SuccessMeansCopied, FailureLeavesPrefix
<1> QED BY <1>6, <1>7, <1>9, <1>10, <1>11 DEF Inv

-----------------------------------------------------------------------------
(* Requests for the next blocks. *)

LEMMA BlockOf ==
    ASSUME NEW b \in Nat \ {0}, NEW n \in Nat, NEW k \in Nat \ {0}, k <= n * b
    PROVE  \E i \in 1 .. n : (i - 1) * b < k /\ k <= (i - 1) * b + b
<1> DEFINE q == (k - 1) \div b
<1>1. q \in Nat /\ q * b <= k - 1 /\ k - 1 < q * b + b
  OBVIOUS
<1> HIDE DEF q
<1>2. q < n
  <2> SUFFICES ASSUME q >= n PROVE FALSE
    BY <1>1
  <2>1. q * b >= n * b
    BY <1>1
  <2> QED BY <1>1, <2>1
<1>3. PICK i \in 1 .. n : i - 1 = q
  BY <1>1, <1>2
<1>4. (i - 1) * b < k /\ k <= (i - 1) * b + b
  BY <1>1, <1>3
<1> QED BY <1>4

LEMMA ReadsFact ==
    ASSUME TypeOK, NEW n \in Nat
    PROVE  /\ Reads(n) \in Seq(Request) /\ Len(Reads(n)) = n /\ DOMAIN Reads(n) = 1 .. n
           /\ \A i \in 1 .. n : Reads(n)[i].id = x.id + i - 1
           /\ IsFiniteSet(Range(Reads(n))) /\ Cardinality(Range(Reads(n))) <= n
           /\ \A a \in Range(Reads(n)) :
                 /\ a \in Request /\ a.id >= x.id /\ a.id < x.id + n
                 /\ a.offset + a.len <= x.offset + n * x.buflen
           /\ \A p \in Nat : x.offset < p /\ p <= x.offset + n * x.buflen =>
                 \E a \in Range(Reads(n)) : In(p, a)
<1>1. PICK o \in Nat, b \in Nat \ {0}, d \in Nat : o = x.offset /\ b = x.buflen /\ d = x.id
  BY DEF TypeOK, Transfer
<1> DEFINE v(i) == [id |-> d + i - 1, type |-> "read", len |-> b,
                    offset |-> o + (i - 1) * b, data |-> <<>>]
           w == [i \in 1 .. n |-> v(i)]
<1>2. Reads(n) = w
  BY <1>1 DEF Reads
<1>3. ASSUME NEW i \in 1 .. n
      PROVE  /\ v(i) \in Request /\ v(i).id = d + i - 1 /\ v(i).len = b
             /\ v(i).offset = o + (i - 1) * b /\ o + (i - 1) * b + b <= o + n * b
             /\ d + i - 1 \in Nat
  <2>1. (i - 1) * b \in Nat /\ d + i - 1 \in Nat /\ o + (i - 1) * b \in Nat
    OBVIOUS
  <2>2. i * b <= n * b /\ (i - 1) * b + b = i * b
    OBVIOUS
  <2>3. n * b \in Nat /\ i * b \in Nat
    OBVIOUS
  <2>4. o + (i - 1) * b + b <= o + n * b
    BY <2>1, <2>2, <2>3
  <2>5. <<>> \in Seq(Int)
    OBVIOUS
  <2>6. v(i) \in Request
    BY <2>1, <2>5 DEF Request
  <2> QED BY <2>1, <2>4, <2>6
<1> HIDE DEF v
<1>4. w \in [1 .. n -> Request] /\ \A i \in 1 .. n : w[i] = v(i)
  BY <1>3
<1> HIDE DEF w
<1>5. w \in Seq(Request) /\ Len(w) = n /\ DOMAIN w = 1 .. n
  BY <1>4, MakeSeq
<1>6. Range(w) = {w[i] : i \in 1 .. n}
  BY <1>5 DEF Range
<1>7. IsFiniteSet(Range(w)) /\ Cardinality(Range(w)) <= n
  <2>1. IsFiniteSet(1 .. n) /\ Cardinality(1 .. n) = n
    BY FS_Interval
  <2>2. w \in Surjection(1 .. n, Range(w))
    BY <1>5, <1>6, <1>4 DEF Surjection
  <2> QED BY <2>1, <2>2, FS_Surjection
<1>8. \A a \in Range(w) : /\ a \in Request /\ a.id >= d /\ a.id < d + n
                          /\ a.offset + a.len <= o + n * b
  <2> SUFFICES ASSUME NEW a \in Range(w)
               PROVE  /\ a \in Request /\ a.id >= d /\ a.id < d + n
                      /\ a.offset + a.len <= o + n * b
    OBVIOUS
  <2>1. PICK i \in 1 .. n : a = v(i)
    BY <1>4, <1>6
  <2> QED BY <2>1, <1>3
<1>9. ASSUME NEW p \in Nat, o < p, p <= o + n * b
      PROVE  \E a \in Range(w) : In(p, a)
  <2>1. p - o \in Nat \ {0} /\ p - o <= n * b /\ n * b \in Nat
    BY <1>9
  <2>2. PICK i \in 1 .. n : (i - 1) * b < p - o /\ p - o <= (i - 1) * b + b
    BY <2>1, BlockOf
  <2>3. (i - 1) * b \in Nat
    OBVIOUS
  <2>4. o + (i - 1) * b < p /\ p <= o + (i - 1) * b + b
    BY <2>2, <2>3
  <2>5. In(p, v(i)) /\ v(i) \in Range(w)
    BY <2>4, <1>3, <1>4, <1>6 DEF In
  <2> QED BY <2>5
<1> QED BY <1>1, <1>2, <1>3, <1>4, <1>5, <1>7, <1>8, <1>9

LEMMA SumOfSets ==
    ASSUME NEW S, NEW T, IsFiniteSet(S), IsFiniteSet(T)
    PROVE  /\ IsFiniteSet(S \cup T)
           /\ Cardinality(S \cup T) <= Cardinality(S) + Cardinality(T)
           /\ Cardinality(S) \in Nat /\ Cardinality(T) \in Nat
<1>1. IsFiniteSet(S \cup T) /\ Cardinality(S \cup T) =
         Cardinality(S) + Cardinality(T) - Cardinality(S \cap T)
  BY FS_Union
<1>2. IsFiniteSet(S \cap T)
  BY FS_Subset
<1>3. Cardinality(S) \in Nat /\ Cardinality(T) \in Nat /\ Cardinality(S \cap T) \in Nat
  BY <1>2, FS_CardinalityType
<1> QED BY <1>1, <1>3

LEMMA SendReadsInv == ASSUME Inv, SendReads PROVE Inv'
<1> DEFINE max == IF interrupted THEN 0 ELSE x.max_req
           n == Larger(0, max - num_req)
           done == num_req = 0 /\ (x.max_req = 0 \/ interrupted)
<1>1. /\ TypeOK /\ Queues /\ Limits /\ Reading /\ Get /\ Cross
      /\ x.pc = "loop" /\ op # "put"
  BY DEF Inv, SendReads
<1>2. /\ UNCHANGED <<op, reorders, src, dst, replies, interrupted, attempts, faults,
                     torn, refused>>
      /\ op \in {"get", "put", "cross"}
  BY <1>1 DEF SendReads, TypeOK
<1>3. x \in Transfer /\ x.reqs \in SUBSET Request /\ IsFiniteSet(x.reqs) /\ num_req \in Nat
  BY <1>1, FS_CardinalityType DEF TypeOK, Transfer, num_req
<1>4. max \in 0 .. NumRequests /\ n \in Nat /\ (num_req + n <= NumRequests)
  BY <1>1, <1>3, SftpAssumption DEF Limits, Transfer, Larger
<1>5. Matched(inq["from"], replies["from"], x.reqs)
  BY <1>1 DEF Queues, Server
<1>6. inq \in [Servers -> Seq(Request)] /\ replies \in [Servers -> Seq(Response)]
      /\ inq["from"] \in Seq(Request) /\ replies["from"] \in Seq(Response)
  BY <1>1 DEF TypeOK, Servers
<1>7. CASE done
  <2>1. x' = [x EXCEPT !.pc = "drained"] /\ inq' = inq
    BY <1>7 DEF SendReads
  <2>2. x.reqs = {}
    BY <1>3, <1>7, FS_EmptySet DEF num_req
  <2>3. /\ x' \in Transfer /\ x'.pc = "drained" /\ x'.mode = x.mode /\ x'.reqs = x.reqs
        /\ x'.offset = x.offset /\ x'.highwater = x.highwater /\ x'.maxack = x.maxack
        /\ x'.max_req = x.max_req /\ x'.num_upload_req = x.num_upload_req
        /\ x'.read_error = x.read_error /\ x'.write_error = x.write_error
        /\ x'.reordered = x.reordered /\ x'.status = x.status /\ x'.id = x.id
    BY <1>3, <2>1 DEF Transfer
  <2>4. num_req' = num_req /\ Server' = Server
    BY <1>2, <2>3 DEF num_req, Server
  <2>5. TypeOK'
    BY <1>1, <1>2, <2>1, <2>3 DEF TypeOK, Source
  <2>6. Queues'
    BY <1>1, <1>2, <2>1, <2>2, <2>3, <2>4, <1>5 DEF Queues, Server
  <2>7. Limits' /\ Reading'
    BY <1>1, <1>2, <2>1, <2>2, <2>3, <2>4 DEF Limits, Reading
  <2>8. Put' /\ Left'
    BY <1>1, <1>2, <2>3 DEF Put, Left
  <2>9. (Downloaded => Downloaded') /\ (Forwarded => Forwarded')
    BY <1>2, <2>1, <2>3 DEF Downloaded, Forwarded, ErrorInReplies
  <2>10. SentAll => SentAll'
    BY <1>1, <1>2, <1>7, <2>3 DEF SentAll
  <2>11. Get'
    BY <1>1, <1>2, <2>1, <2>3, <2>9, <2>10 DEF Get, Right
  <2>12. Cross'
    BY <1>1, <1>2, <2>1, <2>3, <2>9, <2>10 DEF Cross, Piece
  <2> QED BY <2>5, <2>6, <2>7, <2>8, <2>11, <2>12 DEF Inv
<1>8. CASE ~done
  <2> DEFINE new == Range(Reads(n))
             R == x.reqs \cup new
             o == x.offset + n * x.buflen
  <2>0. /\ x' = [x EXCEPT !.pc = "recv", !.max_req = max, !.id = @ + n,
                          !.offset = @ + n * x.buflen,
                          !.reqs = @ \cup Range(Reads(n))]
        /\ inq' = [inq EXCEPT !["from"] = @ \o Reads(n)]
    BY <1>8 DEF SendReads
  <2> HIDE DEF max, n, done
  <2>1. /\ Reads(n) \in Seq(Request) /\ Len(Reads(n)) = n /\ DOMAIN Reads(n) = 1 .. n
        /\ \A i \in 1 .. n : Reads(n)[i].id = x.id + i - 1
        /\ IsFiniteSet(new) /\ Cardinality(new) <= n
        /\ \A a \in new :
              /\ a \in Request /\ a.id >= x.id /\ a.id < x.id + n
              /\ a.offset + a.len <= o
        /\ \A p \in Nat : x.offset < p /\ p <= o => \E a \in new : In(p, a)
    BY <1>1, <1>4, ReadsFact
  <2> DEFINE q == inq["from"] \o Reads(n)
  <2>2. x' = [x EXCEPT !.pc = "recv", !.max_req = max, !.id = x.id + n,
                       !.offset = o, !.reqs = R]
        /\ inq' = [inq EXCEPT !["from"] = q]
    BY <2>0, <1>3, <1>6 DEF Transfer, Servers
  <2>3. o \in Nat /\ o >= x.offset /\ x.id + n \in Nat /\ R \in SUBSET Request
        /\ x.id \in Nat /\ x.offset \in Nat /\ q \in Seq(Request)
    <3>1. x.offset \in Nat /\ x.buflen \in Nat /\ x.id \in Nat
      BY <1>3 DEF Transfer
    <3>2. n * x.buflen \in Nat
      BY <1>4, <3>1
    <3>3. R \in SUBSET Request /\ q \in Seq(Request)
      BY <1>3, <1>6, <2>1
    <3>4. o \in Nat /\ o >= x.offset /\ x.id + n \in Nat
      BY <1>4, <3>1, <3>2
    <3> QED BY <3>1, <3>3, <3>4
  <2>4. \A a \in x.reqs : a.id < x.id /\ a.offset + a.len <= x.offset
    BY <1>1 DEF Limits, Reading
  <2>5. Matched(q, replies["from"], R)
    <3>1. \A i \in DOMAIN Reads(n) : Reads(n)[i].id >= x.id
      BY <2>1, <2>3
    <3>2. \A i, k \in DOMAIN Reads(n) : Reads(n)[i].id = Reads(n)[k].id => i = k
      BY <2>1, <2>3
    <3> QED BY <1>3, <1>5, <1>6, <2>1, <2>3, <2>4, <3>1, <3>2, MatchedSend
  <2>6. IsFiniteSet(R) /\ Cardinality(R) <= NumRequests
    <3>1. /\ IsFiniteSet(R) /\ Cardinality(R) <= num_req + Cardinality(new)
          /\ Cardinality(new) \in Nat
      BY <1>3, <2>1, SumOfSets DEF num_req
    <3>2. Cardinality(R) \in Nat
      BY <3>1, FS_CardinalityType
    <3> QED BY <1>3, <1>4, <2>1, <3>1, <3>2, SftpAssumption
  <2>7. \A a \in R : a \in Request /\ a.id \in Nat /\ a.offset \in Nat /\ a.len \in Nat
    BY <2>3 DEF Request
  <2>8. \A a \in R : a.id < x.id + n /\ a.offset + a.len <= o
    BY <1>4, <2>1, <2>3, <2>4, <2>7
  <2> HIDE DEF R, q, o, new
  <2>9. /\ x' \in Transfer /\ x'.pc = "recv" /\ x'.mode = x.mode /\ x'.reqs = R
        /\ x'.offset = o /\ x'.highwater = x.highwater /\ x'.maxack = x.maxack
        /\ x'.max_req = max /\ x'.num_upload_req = x.num_upload_req
        /\ x'.read_error = x.read_error /\ x'.write_error = x.write_error
        /\ x'.reordered = x.reordered /\ x'.status = x.status /\ x'.id = x.id + n
    BY <1>3, <1>4, <2>2, <2>3 DEF Transfer
  <2>10. inq' \in [Servers -> Seq(Request)] /\ inq'["from"] = q /\ inq'["to"] = inq["to"]
    BY <1>6, <2>2, <2>3 DEF Servers
  <2>11. TypeOK'
    BY <1>1, <1>2, <2>6, <2>9, <2>10 DEF TypeOK, Source
  <2>12. Queues'
    BY <1>1, <1>2, <2>5, <2>9, <2>10 DEF Queues, Server
  <2>13. Limits'
    BY <1>1, <1>2, <2>6, <2>8, <2>9 DEF Limits, num_req
  <2>14. Reading'
    <3>1. ASSUME NEW j \in DOMAIN replies["from"], NEW a \in R, a.id = replies["from"][j].id
          PROVE  Answers(replies["from"][j], a)
      <4>1. PICK b \in x.reqs : b.id = replies["from"][j].id
        BY <1>5 DEF Matched
      <4>2. b \in R /\ a = b
        BY <4>1, <3>1, <2>5 DEF Matched, R
      <4> QED BY <4>1, <4>2, <1>1 DEF Reading
    <3>2. \A r, a : Answers(r, a) => Answers(r, a)'
      BY <1>2 DEF Answers, Piece
    <3> QED BY <1>2, <2>8, <2>9, <3>1, <3>2 DEF Reading
  <2>15. Put' /\ Left'
    BY <1>1, <1>2, <2>9 DEF Put, Left
  <2>16. (Downloaded => Downloaded') /\ (Forwarded => Forwarded')
    <3>1. ASSUME NEW p \in 1 .. Len(src), p <= o
          PROVE  p <= x.offset \/ \E a \in R : In(p, a)
      <4>1. p \in Nat
        BY <1>1 DEF TypeOK, Source
      <4>2. CASE p <= x.offset
        BY <4>2
      <4>3. CASE ~(p <= x.offset)
        <5>1. x.offset < p
          BY <4>1, <4>3, <2>3
        <5>2. \A k \in Nat : x.offset < k /\ k <= o => \E a \in new : In(k, a)
          BY <2>1
        <5>3. \E a \in new : In(p, a)
          BY <4>1, <5>1, <5>2, <3>1
        <5>4. new \subseteq R
          BY DEF R
        <5> QED BY <5>3, <5>4
      <4> QED BY <4>2, <4>3
    <3>2. \A p : (\E a \in x.reqs : In(p, a)) => \E a \in R : In(p, a)
      BY DEF R
    <3> QED BY <1>2, <2>9, <2>10, <3>1, <3>2 DEF Downloaded, Forwarded, ErrorInReplies
  <2>17. SentAll => SentAll'
    BY <1>1, <1>2, <2>3, <2>9 DEF SentAll, max, TypeOK, Source
  <2>18. Get'
    BY <1>1, <1>2, <2>9, <2>16, <2>17 DEF Get, Right
  <2>19. Cross'
    BY <1>1, <1>2, <2>9, <2>10, <2>16, <2>17 DEF Cross, Piece
  <2> QED BY <2>11, <2>12, <2>13, <2>14, <2>15, <2>18, <2>19 DEF Inv
<1> QED BY <1>7, <1>8

-----------------------------------------------------------------------------
(* A reply to a READ. *)

\* What is asked for again, and the requests then under way.
Rest(req, len) ==
    IF len = req.len THEN {}
    ELSE {[req EXCEPT !.id = x.id, !.len = @ - len, !.offset = @ + len]}

Remaining(req, len) == (x.reqs \ {req}) \cup Rest(req, len)

NextId(req, len) == IF len = req.len THEN x.id ELSE x.id + 1

LEMMA MatchedSendOne ==
    ASSUME NEW q \in Seq(Request), NEW r \in Seq(Response), NEW R \in SUBSET Request,
           Matched(q, r, R), NEW c \in Request, NEW b \in Nat,
           \A a \in R : a.id < b, c.id >= b
    PROVE  Matched(Append(q, c), r, R \cup {c})
<1> DEFINE n == <<c>>
<1>1. n \in Seq(Request) /\ DOMAIN n = {1} /\ n[1] = c
  OBVIOUS
<1>2. Append(q, c) = q \o n
  BY AppendIsConcat
<1>3. Range(n) = {c}
  BY <1>1 DEF Range
<1> HIDE DEF n
<1>4. /\ \A i \in DOMAIN n : n[i].id >= b
      /\ \A i, k \in DOMAIN n : n[i].id = n[k].id => i = k
  BY <1>1
<1>5. Matched(q \o n, r, R \cup Range(n))
  BY <1>1, <1>4, MatchedSend
<1> QED BY <1>2, <1>3, <1>5

\* c asks again for what is missing of req, after len bytes.
IsRest(c, req, len, q) ==
    /\ Rest(req, len) = {c} /\ c.id = x.id
    /\ c.len = req.len - len /\ c.offset = req.offset + len
    /\ Rerequest(q, req, len) = Append(q, c)

LEMMA RestFact ==
    ASSUME TypeOK, NEW req \in Request, NEW len \in 1 .. req.len, len # req.len,
           NEW q
    PROVE  \E c \in Request : IsRest(c, req, len, q)
<1> DEFINE c == [req EXCEPT !.id = x.id, !.len = req.len - len,
                            !.offset = req.offset + len]
<1>1. x.id \in Nat /\ req.len \in Nat \ {0} /\ req.offset \in Nat
  BY DEF TypeOK, Transfer, Request
<1>2. req.len - len \in Nat \ {0} /\ req.offset + len \in Nat
  BY <1>1
<1>3. c \in Request /\ c.id = x.id /\ c.len = req.len - len /\ c.offset = req.offset + len
  BY <1>1, <1>2 DEF Request
<1>4. Rest(req, len) = {c} /\ Rerequest(q, req, len) = Append(q, c)
  BY DEF Rest, Rerequest, Request
<1> HIDE DEF c
<1>5. IsRest(c, req, len, q)
  BY <1>3, <1>4 DEF IsRest
<1> QED BY <1>3, <1>5

LEMMA Continue ==
    ASSUME TypeOK, Queues, Limits, Reading, op # "put",
           NEW i \in DOMAIN replies["from"], NEW req \in x.reqs,
           req.id = replies["from"][i].id, NEW len \in 1 .. req.len
    PROVE  /\ Remaining(req, len) \in SUBSET Request
           /\ IsFiniteSet(Remaining(req, len))
           /\ Cardinality(Remaining(req, len)) <= NumRequests
           /\ RemoveAt(replies["from"], i) \in Seq(Response)
           /\ Rerequest(inq["from"], req, len) \in Seq(Request)
           /\ Matched(Rerequest(inq["from"], req, len), RemoveAt(replies["from"], i),
                      Remaining(req, len))
           /\ \A a \in Remaining(req, len) :
                 a.id < NextId(req, len) /\ a.offset + a.len <= x.offset
           /\ \A j \in DOMAIN RemoveAt(replies["from"], i) : \A a \in Remaining(req, len) :
                 a.id = RemoveAt(replies["from"], i)[j].id =>
                    Answers(RemoveAt(replies["from"], i)[j], a)
           /\ \A p \in Nat : \A a \in x.reqs : In(p, a) =>
                 \/ \E b \in Remaining(req, len) : In(p, b)
                 \/ req.offset < p /\ p <= req.offset + len
           /\ NextId(req, len) \in Nat
<1> DEFINE q == inq["from"]
           r == replies["from"]
           s == RemoveAt(replies["from"], i)
           S == x.reqs \ {req}
<1>1. /\ q \in Seq(Request) /\ r \in Seq(Response) /\ x.reqs \in SUBSET Request
      /\ IsFiniteSet(x.reqs) /\ x.id \in Nat /\ x.offset \in Nat
  BY DEF TypeOK, Servers, Transfer
<1>2. Matched(q, r, x.reqs)
  BY DEF Queues, Server
<1>3. /\ \A a \in x.reqs : a.id < x.id /\ a.offset + a.len <= x.offset
      /\ Cardinality(x.reqs) <= NumRequests
  BY DEF Limits, Reading, num_req
<1>4. /\ s \in Seq(Response) /\ DOMAIN s = 1 .. Len(r) - 1
      /\ \A j \in DOMAIN s : \E k \in DOMAIN r : s[j] = r[k]
  <2>1. i \in 1 .. Len(r) /\ DOMAIN r = 1 .. Len(r)
    BY <1>1
  <2>2. /\ s \in Seq(Response) /\ DOMAIN s = 1 .. Len(r) - 1
        /\ \A j \in 1 .. Len(r) - 1 : s[j] = IF j < i THEN r[j] ELSE r[j + 1]
    BY <1>1, <2>1, RemoveAtFact
  <2> HIDE DEF s, r
  <2>3. ASSUME NEW j \in DOMAIN s PROVE \E k \in DOMAIN r : s[j] = r[k]
    <3>1. j \in DOMAIN r /\ j + 1 \in DOMAIN r
      BY <2>1, <2>2
    <3> QED BY <2>2, <3>1
  <2> QED BY <2>2, <2>3
<1>5. Matched(q, s, S)
  BY <1>1, <1>2, MatchedReceive
<1>6. /\ IsFiniteSet(S) /\ Cardinality(S) = Cardinality(x.reqs) - 1
      /\ Cardinality(x.reqs) \in Nat
  BY <1>1, FS_RemoveElement, FS_CardinalityType
<1>7. \A j \in DOMAIN s : \A a \in S : a.id = s[j].id => Answers(s[j], a)
  BY <1>4 DEF Reading
<1>8. \A a \in x.reqs : a.id \in Nat /\ a.offset \in Nat /\ a.len \in Nat
  BY <1>1 DEF Request
<1> HIDE DEF q, r, s, S
<1>9. CASE len = req.len
  <2>1. /\ Remaining(req, len) = S /\ NextId(req, len) = x.id
        /\ Rerequest(q, req, len) = q
    BY <1>9 DEF Remaining, Rest, NextId, Rerequest, S
  <2>2. S \in SUBSET Request /\ \A a \in S : a \in x.reqs
    BY <1>1 DEF S
  <2>3. Cardinality(S) <= NumRequests
    BY <1>3, <1>6, SftpAssumption
  <2>4. ASSUME NEW p \in Nat, NEW a \in x.reqs, In(p, a)
        PROVE  (\E b \in S : In(p, b)) \/ (req.offset < p /\ p <= req.offset + len)
    BY <2>4, <1>9 DEF S, In
  <2> QED BY <1>1, <1>3, <1>4, <1>5, <1>6, <1>7, <2>1, <2>2, <2>3, <2>4 DEF q, r, s
<1>10. CASE len # req.len
  <2>1. req \in Request
    BY <1>1
  <2>1b. PICK c \in Request : IsRest(c, req, len, q)
    BY <2>1, <1>10, RestFact
  <2>2. /\ Rest(req, len) = {c} /\ c.id = x.id
        /\ c.len = req.len - len /\ c.offset = req.offset + len
        /\ Rerequest(q, req, len) = Append(q, c)
    BY <2>1b DEF IsRest
  <2>3. /\ Remaining(req, len) = S \cup {c} /\ NextId(req, len) = x.id + 1
        /\ Rerequest(q, req, len) = Append(q, c)
    BY <1>10, <2>2 DEF Remaining, NextId, S
  <2>4. S \in SUBSET Request /\ \A a \in S : a \in x.reqs /\ a.id < x.id
    BY <1>1, <1>3 DEF S
  <2>5. Matched(Append(q, c), s, S \cup {c})
    <3>1. /\ q \in Seq(Request) /\ x.id \in Nat /\ c.id >= x.id
          /\ \A a \in S : a.id < x.id
      BY <1>1, <2>2, <2>4 DEF q
    <3> QED BY <1>4, <1>5, <2>4, <3>1, MatchedSendOne
  <2>6. c \notin S
    BY <2>2, <2>4, <1>1
  <2>7. IsFiniteSet(S \cup {c}) /\ Cardinality(S \cup {c}) = Cardinality(S) + 1
    BY <1>6, <2>6, FS_AddElement
  <2>8. Cardinality(S \cup {c}) <= NumRequests
    BY <1>3, <1>6, <2>7, SftpAssumption
  <2>9. Append(q, c) \in Seq(Request)
    BY <1>1 DEF q
  <2>10. \A a \in S \cup {c} : a.id < x.id + 1 /\ a.offset + a.len <= x.offset
    <3>1. c.id < x.id + 1 /\ c.offset + c.len <= x.offset
      BY <1>1, <1>3, <1>8, <2>2
    <3>2. \A a \in S : a.id < x.id + 1 /\ a.offset + a.len <= x.offset
      BY <1>1, <1>3, <1>8, <2>4
    <3> QED BY <3>1, <3>2
  <2>11. \A j \in DOMAIN s : \A a \in S \cup {c} : a.id = s[j].id => Answers(s[j], a)
    <3>1. ASSUME NEW j \in DOMAIN s PROVE c.id # s[j].id
      <4>1. PICK b \in S : b.id = s[j].id
        BY <1>5 DEF Matched
      <4>2. b.id < x.id /\ b.id \in Nat
        BY <2>4, <1>8
      <4> QED BY <4>1, <4>2, <2>2, <1>1
    <3> QED BY <3>1, <1>7
  <2>12. ASSUME NEW p \in Nat, NEW a \in x.reqs, In(p, a)
         PROVE  (\E b \in S \cup {c} : In(p, b)) \/ (req.offset < p /\ p <= req.offset + len)
    <3>1. CASE a # req
      BY <2>12, <3>1 DEF S
    <3>2. CASE a = req
      <4>1. req.offset < p /\ p <= req.offset + req.len
        BY <2>12, <3>2 DEF In
      <4>2. CASE p <= req.offset + len
        BY <4>1, <4>2
      <4>3. CASE p > req.offset + len
        <5>1. In(p, c)
          BY <4>1, <4>3, <2>2, <1>8 DEF In
        <5> QED BY <5>1
      <4>4. p <= req.offset + len \/ p > req.offset + len
        BY <1>8
      <4> QED BY <4>2, <4>3, <4>4
    <3> QED BY <3>1, <3>2
  <2>13. S \cup {c} \in SUBSET Request /\ x.id + 1 \in Nat
    BY <2>4, <1>1
  <2> QED BY <1>4, <2>3, <2>5, <2>7, <2>8, <2>9, <2>10, <2>11, <2>12, <2>13 DEF q, r, s
<1> QED BY <1>9, <1>10

\* y and z differ in what a reply to a READ does not touch.
SameOutcome(y, z) ==
    /\ z.mode = y.mode /\ z.offset = y.offset /\ z.highwater = y.highwater
    /\ z.maxack = y.maxack /\ z.num_upload_req = y.num_upload_req
    /\ z.read_error = y.read_error /\ z.write_error = y.write_error
    /\ z.reordered = y.reordered /\ z.status = y.status

LEMMA AdvanceFact ==
    ASSUME TypeOK, NEW y \in Transfer, y.reqs = x.reqs, y.id = x.id,
           NEW req \in Request, NEW len \in 1 .. req.len,
           Remaining(req, len) \in SUBSET Request
    PROVE  /\ Advance(y, req, len) \in Transfer
           /\ Advance(y, req, len).pc = "loop"
           /\ Advance(y, req, len).reqs = Remaining(req, len)
           /\ Advance(y, req, len).id = NextId(req, len)
           /\ Advance(y, req, len).max_req = 0 => y.max_req = 0
           /\ SameOutcome(y, Advance(y, req, len))
<1> DEFINE z == IF len = req.len THEN [y EXCEPT !.reqs = @ \ {req}]
                ELSE Shortened(y, req, len)
           v == IF z.max_req = 0 THEN 0
                ELSE IF z.size > 0 /\ z.offset > z.size THEN 1
                ELSE IF z.max_req < NumRequests THEN z.max_req + 1 ELSE z.max_req
<1>1. /\ z \in Transfer /\ z.reqs = Remaining(req, len) /\ z.id = NextId(req, len)
      /\ z.max_req = y.max_req /\ SameOutcome(y, z)
  <2>1. CASE len = req.len
    <3>1. z = [y EXCEPT !.reqs = Remaining(req, len)] /\ NextId(req, len) = x.id
      BY <2>1 DEF Remaining, Rest, NextId, Transfer
    <3> QED BY <3>1 DEF Transfer, SameOutcome
  <2>2. CASE len # req.len
    <3> DEFINE b == IF len < y.buflen THEN Larger(MIN_READ_SIZE, len) ELSE y.buflen
    <3>1. z = [y EXCEPT !.reqs = Remaining(req, len), !.id = NextId(req, len),
                        !.buflen = b]
      BY <2>2 DEF Remaining, Rest, NextId, Transfer, Shortened
    <3>2. b \in Nat \ {0}
      <4>1. y.buflen \in Nat \ {0} /\ req.len \in Nat
        BY DEF Transfer, Request
      <4> QED BY <4>1, SftpAssumption DEF Larger
    <3>3. NextId(req, len) \in Nat
      <4>1. x.id \in Nat
        BY DEF TypeOK, Transfer
      <4> QED BY <4>1 DEF NextId
    <3> HIDE DEF b, z
    <3> QED BY <3>1, <3>2, <3>3 DEF Transfer, SameOutcome
  <2> QED BY <2>1, <2>2
<1>2. Advance(y, req, len) = [z EXCEPT !.pc = "loop", !.max_req = v]
  <2>1. Advance(y, req, len) =
           [z EXCEPT !.pc = "loop",
                     !.max_req = IF @ = 0 THEN 0
                                 ELSE IF z.size > 0 /\ z.offset > z.size THEN 1
                                 ELSE IF @ < NumRequests THEN @ + 1 ELSE @]
    BY DEF Advance
  <2> HIDE DEF z
  <2> QED BY <1>1, <2>1 DEF Transfer
<1> HIDE DEF z
<1>3. v \in 0 .. NumRequests /\ (v = 0 => z.max_req = 0)
  <2>1. z.max_req \in 0 .. NumRequests
    BY <1>1 DEF Transfer
  <2> QED BY <2>1, SftpAssumption
<1> HIDE DEF v
<1>4. PICK w : w = [z EXCEPT !.pc = "loop", !.max_req = v]
  OBVIOUS
<1>5. w \in Transfer /\ w.pc = "loop" /\ w.max_req = v
  BY <1>1, <1>3, <1>4 DEF Transfer
<1>6. w.reqs = z.reqs /\ w.id = z.id
  BY <1>1, <1>4 DEF Transfer
<1>7. SameOutcome(z, w)
  BY <1>1, <1>4 DEF Transfer, SameOutcome
<1>8. SameOutcome(y, w)
  BY <1>1, <1>7 DEF SameOutcome
<1> QED BY <1>1, <1>2, <1>3, <1>4, <1>5, <1>6, <1>8

\* What an acknowledgement makes of y.
Acked(y, z, off, len) ==
    /\ z.maxack = Larger(y.maxack, off + len)
    /\ z.highwater = IF ~y.reordered /\ off <= y.highwater
                     THEN z.maxack ELSE y.highwater
    /\ z.reordered = (y.reordered \/ off > y.highwater)
    /\ z.reqs = y.reqs /\ z.id = y.id /\ z.max_req = y.max_req
    /\ z.mode = y.mode /\ z.offset = y.offset
    /\ z.num_upload_req = y.num_upload_req /\ z.read_error = y.read_error
    /\ z.write_error = y.write_error /\ z.status = y.status
    /\ z.pc = y.pc /\ z.ackid = y.ackid

LEMMA AcknowledgedFact ==
    ASSUME NEW y \in Transfer, NEW req \in Request, NEW len \in Nat
    PROVE  /\ Acknowledged(y, req, len) \in Transfer
           /\ Acked(y, Acknowledged(y, req, len), req.offset, len)
<1> DEFINE top == Larger(y.maxack, req.offset + len)
           h == IF ~y.reordered /\ req.offset <= y.highwater THEN top ELSE y.highwater
           g == y.reordered \/ req.offset > y.highwater
           z == [y EXCEPT !.maxack = top, !.highwater = h, !.reordered = g]
<1>1. z = Acknowledged(y, req, len)
  BY DEF Acknowledged, Transfer
<1>2. top \in Nat
  <2>1. y.maxack \in Nat /\ req.offset \in Nat
    BY DEF Transfer, Request
  <2> QED BY <2>1 DEF Larger
<1>3. h \in Nat
  <2>1. y.highwater \in Nat
    BY DEF Transfer
  <2> HIDE DEF top
  <2> QED BY <1>2, <2>1
<1>4. g \in BOOLEAN
  OBVIOUS
<1> HIDE DEF top, h, g
<1>5. z \in Transfer
  BY <1>2, <1>3, <1>4 DEF Transfer
<1>6. /\ z.maxack = top /\ z.highwater = h /\ z.reordered = g
      /\ z.reqs = y.reqs /\ z.id = y.id /\ z.max_req = y.max_req
      /\ z.mode = y.mode /\ z.offset = y.offset
      /\ z.num_upload_req = y.num_upload_req /\ z.read_error = y.read_error
      /\ z.write_error = y.write_error /\ z.status = y.status
      /\ z.pc = y.pc /\ z.ackid = y.ackid
  BY DEF Transfer
<1> HIDE DEF z
<1>7. h = IF ~y.reordered /\ req.offset <= y.highwater THEN top ELSE y.highwater
  BY DEF h
<1>8. Acked(y, z, req.offset, len)
  BY <1>6, <1>7 DEF Acked, top, g
<1> QED BY <1>1, <1>5, <1>8

\* What a reply to a READ does to the requests, whatever comes of its data.
LEMMA ReplyRead ==
    ASSUME Inv, op # "put", x.pc = "recv",
           NEW i \in DOMAIN replies["from"], NEW req \in x.reqs,
           req.id = replies["from"][i].id, NEW len \in 1 .. req.len,
           x' \in Transfer, x'.pc = "loop", x'.reqs = Remaining(req, len),
           x'.id = NextId(req, len), x'.offset = x.offset, x'.mode = x.mode,
           inq'["from"] = Rerequest(inq["from"], req, len),
           inq' \in [Servers -> Seq(Request)],
           op = "cross" => Len(inq'["to"]) + Len(replies["to"]) = x'.num_upload_req,
           op = "get" => inq'["to"] = <<>> /\ x'.num_upload_req = 0,
           replies' = [replies EXCEPT !["from"] = RemoveAt(@, i)],
           dst' \in Seq(Int), torn' \in BOOLEAN, faults' \in Nat,
           UNCHANGED <<op, reorders, src, interrupted, attempts, refused>>
    PROVE  TypeOK' /\ Queues' /\ Limits' /\ Reading' /\ Put' /\ Left'
<1> DEFINE R == Remaining(req, len)
           s == RemoveAt(replies["from"], i)
<1>1. TypeOK /\ Queues /\ Limits /\ Reading
  BY DEF Inv
<1>2. /\ R \in SUBSET Request /\ IsFiniteSet(R) /\ Cardinality(R) <= NumRequests
      /\ s \in Seq(Response)
      /\ Matched(inq'["from"], s, R)
      /\ \A a \in R : a.id < x'.id /\ a.offset + a.len <= x'.offset
      /\ \A j \in DOMAIN s : \A a \in R : a.id = s[j].id => Answers(s[j], a)
  BY <1>1, Continue
<1>3. op \in {"get", "put", "cross"} /\ op' = op /\ src' = src
  BY <1>1 DEF TypeOK
<1>4. replies \in [Servers -> Seq(Response)]
  BY <1>1 DEF TypeOK
<1> HIDE DEF R, s
<1>5. /\ replies'["from"] = s /\ replies'["to"] = replies["to"]
      /\ replies' \in [Servers -> Seq(Response)]
  BY <1>2, <1>4 DEF Servers, s
<1>6. x'.reqs = R
  BY DEF R
<1>7. TypeOK'
  <2>1. Source(src)' /\ (Len(src) <= MaxLen)'
    BY <1>1 DEF TypeOK, Source
  <2>2. IsFiniteSet(x.reqs)'
    BY <1>2, <1>6
  <2> QED BY <1>1, <1>5, <2>1, <2>2 DEF TypeOK
<1>8. Queues'
  <2>1. Matched(inq[Server], replies[Server], x.reqs)'
    BY <1>2, <1>3, <1>5, <1>6 DEF Server
  <2> QED BY <2>1, <1>1, <1>3, <1>5 DEF Queues
<1>9. Limits'
  BY <1>2, <1>3, <1>6 DEF Limits, num_req
<1>10. Reading'
  <2>1. \A r, a : Answers(r, a) => Answers(r, a)'
    BY DEF Answers, Piece
  <2> QED BY <1>2, <1>5, <1>6, <2>1 DEF Reading
<1>11. Put' /\ Left'
  BY <1>3 DEF Put, Left
<1> QED BY <1>7, <1>8, <1>9, <1>10, <1>11

LEMMA ReadStatusInv ==
    ASSUME Inv, op # "put", x.pc = "recv",
           NEW i \in DOMAIN replies["from"], NEW req \in x.reqs,
           req.id = replies["from"][i].id,
           Answers(replies["from"][i], req), replies["from"][i].status # "data",
           ReadStatus(req, replies["from"][i].status),
           replies' = [replies EXCEPT !["from"] = RemoveAt(@, i)],
           UNCHANGED <<op, reorders, src, interrupted, attempts, refused>>
    PROVE  Inv'
<1> DEFINE status == replies["from"][i].status
           e == x.read_error \/ status # "eof"
           S == x.reqs \ {req}
<1>1. TypeOK /\ Queues /\ Limits /\ Reading /\ Get /\ Cross
  BY DEF Inv
<1>2. x \in Transfer /\ x.reqs \in SUBSET Request /\ req \in Request /\ req.len \in Nat \ {0}
  BY <1>1 DEF TypeOK, Transfer, Request
<1>3. /\ x' = [x EXCEPT !.pc = "loop", !.max_req = 0, !.reqs = S, !.read_error = e]
      /\ dst' = dst /\ inq' = inq /\ faults' = faults /\ torn' = torn
  BY <1>2 DEF ReadStatus, Transfer
<1>4. Remaining(req, req.len) = S /\ NextId(req, req.len) = x.id
      /\ Rerequest(inq["from"], req, req.len) = inq["from"]
  BY DEF Remaining, Rest, NextId, Rerequest
<1>5. S \in SUBSET Request /\ e \in BOOLEAN /\ 0 \in 0 .. NumRequests
  BY <1>2, SftpAssumption
<1>6. status = "eof" => req.offset >= Len(src)
  BY DEF Answers
<1> HIDE DEF S, e, status
<1>7. /\ x' \in Transfer /\ x'.pc = "loop" /\ x'.reqs = S /\ x'.id = x.id
      /\ x'.offset = x.offset /\ x'.mode = x.mode /\ x'.highwater = x.highwater
      /\ x'.maxack = x.maxack /\ x'.num_upload_req = x.num_upload_req
      /\ x'.read_error = e /\ x'.write_error = x.write_error /\ x'.max_req = 0
      /\ x'.reordered = x.reordered /\ x'.status = x.status
  BY <1>2, <1>3, <1>5 DEF Transfer
<1>8. /\ dst \in Seq(Int) /\ torn \in BOOLEAN /\ faults \in Nat
      /\ inq \in [Servers -> Seq(Request)] /\ req.len \in 1 .. req.len
      /\ x.offset \in Nat /\ Len(src) \in Nat /\ req.offset \in Nat
      /\ op \in {"get", "cross"}
  <2>1. op \in {"get", "cross"}
    BY <1>1 DEF TypeOK
  <2>2. x.offset \in Nat /\ req.offset \in Nat /\ req.len \in 1 .. req.len
    BY <1>2 DEF Transfer, Request
  <2> QED BY <1>1, <2>1, <2>2 DEF TypeOK, Source
<1>9. TypeOK' /\ Queues' /\ Limits' /\ Reading' /\ Put' /\ Left'
  <2>1. /\ op = "cross" => Len(inq'["to"]) + Len(replies["to"]) = x'.num_upload_req
        /\ op = "get" => inq'["to"] = <<>> /\ x'.num_upload_req = 0
    BY <1>1, <1>3, <1>7 DEF Queues
  <2>2. /\ x' \in Transfer /\ x'.pc = "loop" /\ x'.reqs = Remaining(req, req.len)
        /\ x'.id = NextId(req, req.len) /\ x'.offset = x.offset /\ x'.mode = x.mode
        /\ inq'["from"] = Rerequest(inq["from"], req, req.len)
        /\ inq' \in [Servers -> Seq(Request)] /\ dst' \in Seq(Int)
        /\ torn' \in BOOLEAN /\ faults' \in Nat /\ req.len \in 1 .. req.len
    BY <1>3, <1>4, <1>7, <1>8
  <2> QED BY <2>1, <2>2, ReplyRead
<1>10. req.offset + req.len <= x.offset
  BY <1>1 DEF Reading
<1>11. ASSUME NEW p \in 1 .. Len(src), NEW a \in x.reqs, In(p, a), ~e
       PROVE  \E b \in S : In(p, b)
  <2>1. status = "eof" /\ req.offset >= Len(src)
    BY <1>6, <1>11 DEF e
  <2>2. a # req
    BY <2>1, <1>8, <1>11 DEF In
  <2> QED BY <2>2, <1>11 DEF S
<1>12. x.read_error => e
  BY DEF e
<1>13. replies'["to"] = replies["to"]
  BY <1>1 DEF TypeOK, Servers
<1>14. (Downloaded => Downloaded') /\ (Forwarded => Forwarded')
  BY <1>3, <1>7, <1>11, <1>12, <1>13 DEF Downloaded, Forwarded, ErrorInReplies
<1>15. SentAll'
  <2>1. ~e => x.offset >= Len(src)
    BY <1>2, <1>6, <1>8, <1>10 DEF e
  <2> QED BY <1>7, <2>1 DEF SentAll
<1>16. Get'
  BY <1>1, <1>3, <1>7, <1>14, <1>15 DEF Get, Right
<1>17. Cross'
  BY <1>1, <1>3, <1>7, <1>14, <1>15 DEF Cross, Piece
<1> QED BY <1>9, <1>16, <1>17 DEF Inv

LEMMA WriteLocalInv ==
    ASSUME Inv, op = "get", x.pc = "recv",
           NEW i \in DOMAIN replies["from"], NEW req \in x.reqs,
           req.id = replies["from"][i].id, NEW data,
           Len(data) \in 1 .. req.len, Piece(data, req.offset),
           WriteLocal(req, data),
           replies' = [replies EXCEPT !["from"] = RemoveAt(@, i)],
           UNCHANGED <<op, reorders, src, interrupted, attempts, refused>>
    PROVE  Inv'
<1> DEFINE len == Len(data)
           off == req.offset
<1>1. TypeOK /\ Queues /\ Limits /\ Reading /\ Get
  BY DEF Inv
<1>2. /\ x \in Transfer /\ x.reqs \in SUBSET Request /\ req \in Request
      /\ req.len \in Nat \ {0} /\ off \in Nat /\ len \in Nat /\ len > 0
      /\ dst \in Seq(Int) /\ Source(src) /\ Len(src) \in Nat /\ faults \in Nat
      /\ off + len <= Len(src) /\ torn \in BOOLEAN
      /\ inq \in [Servers -> Seq(Request)] /\ Len(dst) \in Nat
      /\ x.maxack \in Nat /\ x.highwater \in Nat /\ x.offset \in Nat
      /\ x.write_error \in BOOLEAN
  <2>1. /\ x \in Transfer /\ dst \in Seq(Int) /\ Source(src) /\ faults \in Nat
        /\ torn \in BOOLEAN /\ inq \in [Servers -> Seq(Request)]
    BY <1>1 DEF TypeOK
  <2>2. /\ x.reqs \in SUBSET Request /\ x.maxack \in Nat /\ x.highwater \in Nat
        /\ x.offset \in Nat /\ x.write_error \in BOOLEAN
    BY <2>1 DEF Transfer
  <2>3. req \in Request
    BY <2>2
  <2>4. req.len \in Nat \ {0} /\ off \in Nat
    BY <2>3 DEF Request
  <2>5. len \in Nat /\ len > 0
    BY <2>4
  <2>6. off + len <= Len(src)
    BY DEF Piece
  <2>7. Len(src) \in Nat /\ Len(dst) \in Nat
    BY <2>1 DEF Source
  <2> HIDE DEF len, off
  <2> QED BY <2>1, <2>2, <2>3, <2>4, <2>5, <2>6, <2>7
<1> DEFINE v(n) == IF n < len /\ ~x.write_error
                   THEN [x EXCEPT !.write_error = TRUE, !.max_req = 0]
                   ELSE Acknowledged(x, req, len)
<1>0. PICK n \in 0 .. len : \E y \in {v(n)} :
         /\ n < len => faults > 0
         /\ faults' = IF n < len THEN faults - 1 ELSE faults
         /\ dst' = WriteAt(dst, off, SubSeq(data, 1, n))
         /\ x' = Advance(y, req, len)
         /\ torn' = (torn \/ (n < len /\ x.write_error))
         /\ inq' = [inq EXCEPT !["from"] = Rerequest(@, req, len)]
  BY DEF WriteLocal
<1>3. PICK y \in {v(n)} :
         /\ n < len => faults > 0
         /\ faults' = IF n < len THEN faults - 1 ELSE faults
         /\ dst' = WriteAt(dst, off, SubSeq(data, 1, n))
         /\ x' = Advance(y, req, len)
         /\ torn' = (torn \/ (n < len /\ x.write_error))
         /\ inq' = [inq EXCEPT !["from"] = Rerequest(@, req, len)]
  BY <1>0
<1>4. /\ Remaining(req, len) \in SUBSET Request
      /\ Rerequest(inq["from"], req, len) \in Seq(Request)
      /\ \A p \in Nat : \A a \in x.reqs : In(p, a) =>
            \/ \E b \in Remaining(req, len) : In(p, b)
            \/ off < p /\ p <= off + len
  BY <1>1, Continue
<1> DEFINE d == SubSeq(data, 1, n)
<1>5. Piece(d, off) /\ Len(d) = n
  BY <1>2, PiecePrefix
<1> HIDE DEF d, len, off
<1>6. /\ dst' \in Seq(Int)
      /\ Len(dst') = IF n = 0 THEN Len(dst) ELSE Larger(Len(dst), off + n)
      /\ \A p \in 1 .. Len(dst) : dst[p] = p => p <= Len(dst') /\ dst'[p] = p
      /\ \A p \in Nat : off < p /\ p <= off + n => p <= Len(dst') /\ dst'[p] = p
  <2>1. dst' = WriteAt(dst, off, d)
    BY <1>3 DEF d
  <2>2. Extended(dst, WriteAt(dst, off, d), off, Len(d))
    BY <1>2, <1>5, WritePiece
  <2>3. Extended(dst, dst', off, n)
    BY ONLY <1>5, <2>1, <2>2
  <2> QED BY ONLY <2>3 DEF Extended
<1>7. \A h \in Nat : Right(dst, h) =>
         Right(dst', h) /\ (off <= h => Right(dst', Larger(h, off + n)))
  BY <1>2, <1>3, <1>5, WriteRight DEF d
<1>8. /\ inq' \in [Servers -> Seq(Request)]
      /\ inq'["from"] = Rerequest(inq["from"], req, len) /\ inq'["to"] = inq["to"]
  BY <1>2, <1>3, <1>4 DEF Servers
<1>9. torn' \in BOOLEAN /\ faults' \in Nat
  <2>1. faults' \in Nat
    BY <1>2, <1>3
  <2>2. torn' \in BOOLEAN
    BY <1>3
  <2> QED BY <2>1, <2>2
<1>10. len \in 1 .. req.len
  BY DEF len
<1>11. CASE n < len /\ ~x.write_error
  <2>1. y = [x EXCEPT !.write_error = TRUE, !.max_req = 0]
    BY <1>3, <1>11
  <2>2. /\ y \in Transfer /\ y.reqs = x.reqs /\ y.id = x.id /\ y.mode = x.mode
        /\ y.offset = x.offset /\ y.highwater = x.highwater /\ y.maxack = x.maxack
        /\ y.num_upload_req = x.num_upload_req /\ y.read_error = x.read_error
        /\ y.write_error = TRUE /\ y.reordered = x.reordered /\ y.status = x.status
    <3>1. 0 \in 0 .. NumRequests /\ TRUE \in BOOLEAN
      BY SftpAssumption
    <3> QED BY <1>2, <2>1, <3>1 DEF Transfer
  <2>3. /\ x' \in Transfer /\ x'.pc = "loop" /\ x'.reqs = Remaining(req, len)
        /\ x'.id = NextId(req, len) /\ SameOutcome(y, x')
    BY <1>1, <1>2, <1>3, <1>4, <1>10, <2>2, AdvanceFact
  <2>4. /\ x'.mode = x.mode /\ x'.offset = x.offset /\ x'.highwater = x.highwater
        /\ x'.maxack = x.maxack /\ x'.num_upload_req = x.num_upload_req
        /\ x'.write_error = TRUE /\ x'.reordered = x.reordered /\ x'.status = x.status
    BY <2>2, <2>3 DEF SameOutcome
  <2>5. TypeOK' /\ Queues' /\ Limits' /\ Reading' /\ Put' /\ Left'
    <3>1. inq'["to"] = <<>> /\ x'.num_upload_req = 0
      BY <1>1, <1>8, <2>4 DEF Queues
    <3> QED BY <1>6, <1>8, <1>9, <1>10, <2>3, <2>4, <3>1, ReplyRead
  <2>6. Cross'
    BY DEF Cross
  <2>7. Get'
    <3> SUFFICES ASSUME ~torn' PROVE Get'
      BY DEF Get
    <3>1. ~torn
      BY <1>3
    <3>2. Downloaded' /\ SentAll'
      BY <2>3, <2>4 DEF Downloaded, SentAll
    <3>3. x.mode # "inplace" => Len(dst') <= Len(src)
      BY <1>1, <1>2, <1>6, <1>11, <3>1 DEF Get, Larger
    <3>4. Right(dst', x.highwater)
      BY <1>1, <1>2, <1>7, <3>1 DEF Get
    <3>5. Right(dst, x.highwater)'
      BY <3>4, <2>4 DEF Right
    <3> QED BY <1>1, <2>3, <2>4, <3>1, <3>2, <3>3, <3>5 DEF Get
  <2> QED BY <2>5, <2>6, <2>7 DEF Inv
<1>12. CASE ~(n < len /\ ~x.write_error)
  <2>0. y = Acknowledged(x, req, len)
    BY <1>3, <1>12
  <2>1. /\ y \in Transfer
        /\ y.maxack = Larger(x.maxack, off + len)
        /\ y.highwater = IF ~x.reordered /\ off <= x.highwater
                         THEN y.maxack ELSE x.highwater
        /\ y.reordered = (x.reordered \/ off > x.highwater)
        /\ y.reqs = x.reqs /\ y.id = x.id /\ y.max_req = x.max_req
        /\ y.mode = x.mode /\ y.offset = x.offset
        /\ y.num_upload_req = x.num_upload_req /\ y.read_error = x.read_error
        /\ y.write_error = x.write_error /\ y.status = x.status
    <3>1. req.offset = off
      BY DEF off
    <3>2. y \in Transfer /\ Acked(x, y, req.offset, len)
      BY <1>2, <2>0, AcknowledgedFact
    <3> QED BY <3>1, <3>2 DEF Acked
  <2>2. /\ x' \in Transfer /\ x'.pc = "loop" /\ x'.reqs = Remaining(req, len)
        /\ x'.id = NextId(req, len) /\ SameOutcome(y, x')
        /\ x'.max_req = 0 => y.max_req = 0
    BY <1>1, <1>2, <1>3, <1>4, <1>10, <2>1, AdvanceFact
  <2>3. /\ x'.mode = x.mode /\ x'.offset = x.offset
        /\ x'.num_upload_req = x.num_upload_req
        /\ x'.maxack = Larger(x.maxack, off + len)
        /\ x'.highwater = IF ~x.reordered /\ off <= x.highwater
                          THEN x'.maxack ELSE x.highwater
        /\ x'.reordered = (x.reordered \/ off > x.highwater)
        /\ x'.read_error = x.read_error
        /\ x'.write_error = x.write_error /\ x'.status = x.status
        /\ x'.max_req = 0 => x.max_req = 0
    BY <2>1, <2>2 DEF SameOutcome
  <2>4. TypeOK' /\ Queues' /\ Limits' /\ Reading' /\ Put' /\ Left'
    <3>1. inq'["to"] = <<>> /\ x'.num_upload_req = 0
      BY <1>1, <1>8, <2>3 DEF Queues
    <3> QED BY <1>6, <1>8, <1>9, <1>10, <2>2, <2>3, <3>1, ReplyRead
  <2>5. Cross'
    BY DEF Cross
  <2>6. Get'
    <3> SUFFICES ASSUME ~torn' PROVE Get'
      BY DEF Get
    <3>1. ~torn /\ n = len
      BY <1>2, <1>3, <1>12
    <3>2. /\ x.highwater <= Len(src) /\ x.status = "ok"
          /\ x.mode # "inplace" => Len(dst) <= Len(src)
          /\ x.mode # "inplace" /\ ~x.reordered /\ ~x.write_error =>
                Len(dst) = x.highwater
          /\ Right(dst, x.highwater)
          /\ x.highwater <= x.maxack /\ x.maxack <= Len(src)
          /\ ~x.reordered => x.maxack = x.highwater
          /\ Downloaded /\ SentAll
      BY <1>1, <3>1 DEF Get
    <3>3. x'.maxack \in Nat /\ x'.maxack >= x.maxack /\ x'.maxack >= off + len
          /\ x'.maxack <= Len(src)
      BY <1>2, <2>3, <3>2 DEF Larger
    <3>4. /\ x'.highwater <= x'.maxack
          /\ ~x'.reordered => x'.maxack = x'.highwater
      <4>1. CASE ~x.reordered /\ off <= x.highwater
        BY <4>1, <2>3, <3>3
      <4>2. CASE x.reordered
        <5>1. x'.highwater = x.highwater /\ x'.reordered
          BY <4>2, <2>3
        <5> QED BY <5>1, <1>2, <3>2, <3>3
      <4>3. CASE ~(off <= x.highwater)
        <5>1. x'.highwater = x.highwater /\ off > x.highwater
          BY <4>3, <2>3, <1>2
        <5>2. x'.reordered
          BY <5>1, <2>3
        <5> QED BY <5>1, <5>2, <1>2, <3>2, <3>3
      <4> QED BY <4>1, <4>2, <4>3
    <3>5. Right(dst', x'.highwater)
      <4>1. CASE ~x.reordered /\ off <= x.highwater
        <5>1. x'.highwater = Larger(x.highwater, off + n)
          BY <4>1, <2>3, <3>1, <3>2
        <5> QED BY <4>1, <5>1, <1>2, <1>7, <3>2
      <4>2. CASE ~(~x.reordered /\ off <= x.highwater)
        BY <4>2, <1>2, <1>7, <2>3, <3>2
      <4> QED BY <4>1, <4>2
    <3>6. Right(dst, x.highwater)'
      BY <3>5 DEF Right
    <3>7. x.mode # "inplace" => Len(dst') <= Len(src)
      BY <1>2, <1>6, <3>1, <3>2 DEF Larger
    <3>8. x.mode # "inplace" /\ ~x'.reordered /\ ~x.write_error => Len(dst') = x'.highwater
      <4> SUFFICES ASSUME x.mode # "inplace", ~x'.reordered, ~x.write_error
                   PROVE  Len(dst') = x'.highwater
        OBVIOUS
      <4>1. ~x.reordered
        BY <2>3
      <4>2. Len(dst) = x.highwater /\ x.maxack = x.highwater
        BY <4>1, <3>2
      <4>3. x'.highwater = Larger(x.highwater, off + len)
        BY <4>2, <3>4, <2>3
      <4> QED BY <4>2, <4>3, <1>2, <1>6, <3>1
    <3>9. Downloaded'
      <4> SUFFICES ASSUME NEW p \in 1 .. Len(src), p <= x.offset,
                          ~x.read_error, ~x.write_error
                   PROVE  \/ \E a \in x'.reqs : In(p, a)
                          \/ p <= Len(dst') /\ dst'[p] = p /\ p <= x'.maxack
        BY <2>3 DEF Downloaded
      <4>0. p \in Nat /\ p >= 1
        BY <1>2
      <4>1. CASE \E a \in x.reqs : In(p, a)
        <5>1. \/ \E b \in Remaining(req, len) : In(p, b)
              \/ off < p /\ p <= off + len
          BY <1>4, <4>0, <4>1
        <5>2. CASE off < p /\ p <= off + len
          BY <5>2, <1>2, <1>6, <3>1, <3>3, <4>0
        <5> QED BY <5>1, <5>2, <2>2
      <4>2. CASE p <= Len(dst) /\ dst[p] = p /\ p <= x.maxack
        <5>1. p \in 1 .. Len(dst)
          BY <4>0, <4>2, <1>2
        <5>2. x.maxack \in Nat /\ x'.maxack \in Nat /\ x.maxack <= x'.maxack
          BY <1>2, <3>3
        <5>3. p <= x'.maxack
          BY ONLY <4>0, <4>2, <5>2
        <5> QED BY <5>1, <5>3, <4>2, <1>6
      <4> QED BY <3>2, <4>1, <4>2 DEF Downloaded
    <3>10. SentAll'
      BY <1>2, <2>2, <2>3, <3>2 DEF SentAll
    <3>11. x'.highwater <= Len(src)
      BY <1>2, <2>3, <3>2, <3>3
    <3> QED BY <2>2, <2>3, <3>2, <3>3, <3>4, <3>6, <3>7, <3>8, <3>9, <3>10, <3>11 DEF Get
  <2> QED BY <2>4, <2>5, <2>6 DEF Inv
<1> QED BY <1>11, <1>12

LEMMA WriteRemoteInv ==
    ASSUME Inv, op = "cross", x.pc = "recv",
           NEW i \in DOMAIN replies["from"], NEW req \in x.reqs,
           req.id = replies["from"][i].id, NEW data,
           Len(data) \in 1 .. req.len, Piece(data, req.offset),
           WriteRemote(req, data),
           replies' = [replies EXCEPT !["from"] = RemoveAt(@, i)],
           UNCHANGED <<op, reorders, src, interrupted, attempts, refused>>
    PROVE  Inv'
<1> DEFINE len == Len(data)
           off == req.offset
           w == [id |-> 0, type |-> "write", len |-> len, data |-> data, offset |-> off]
           y == [x EXCEPT !.num_upload_req = x.num_upload_req + 1]
           t == inq["to"]
<1>1. TypeOK /\ Queues /\ Limits /\ Reading /\ Cross
  BY DEF Inv
<1>2. /\ x \in Transfer /\ x.reqs \in SUBSET Request /\ req \in Request
      /\ req.len \in Nat \ {0} /\ off \in Nat /\ len \in Nat \ {0}
      /\ dst \in Seq(Int) /\ Source(src) /\ Len(src) \in Nat /\ faults \in Nat
      /\ torn \in BOOLEAN /\ data \in Seq(Int)
      /\ inq \in [Servers -> Seq(Request)] /\ x.num_upload_req \in Nat
      /\ t \in Seq(Request) /\ x.offset \in Nat
  <2>1. /\ x \in Transfer /\ dst \in Seq(Int) /\ Source(src) /\ faults \in Nat
        /\ torn \in BOOLEAN /\ inq \in [Servers -> Seq(Request)]
    BY <1>1 DEF TypeOK
  <2>2. x.reqs \in SUBSET Request /\ x.num_upload_req \in Nat /\ x.offset \in Nat
    BY <2>1 DEF Transfer
  <2>3. req \in Request
    BY <2>2
  <2>4. req.len \in Nat \ {0} /\ off \in Nat
    BY <2>3 DEF Request
  <2>5. len \in Nat \ {0} /\ data \in Seq(Int)
    BY <2>4 DEF Piece
  <2>6. Len(src) \in Nat /\ t \in Seq(Request)
    BY <2>1 DEF Source, Servers
  <2> HIDE DEF len, off, t
  <2> QED BY <2>1, <2>2, <2>3, <2>4, <2>5, <2>6
<1>3. /\ x' = Advance(y, req, len)
      /\ inq' = [inq EXCEPT !["from"] = Rerequest(@, req, len), !["to"] = Append(@, w)]
      /\ dst' = dst /\ faults' = faults /\ torn' = torn
  BY <1>2 DEF WriteRemote, Transfer
<1>4. /\ Remaining(req, len) \in SUBSET Request
      /\ Rerequest(inq["from"], req, len) \in Seq(Request)
      /\ \A p \in Nat : \A a \in x.reqs : In(p, a) =>
            \/ \E b \in Remaining(req, len) : In(p, b)
            \/ off < p /\ p <= off + len
  BY <1>1, Continue
<1>5. w \in Request /\ w.len = len /\ w.data = data /\ w.offset = off
  BY <1>2 DEF Request
<1>6. y \in Transfer /\ y.reqs = x.reqs /\ y.id = x.id /\ y.max_req = x.max_req
      /\ y.num_upload_req = x.num_upload_req + 1 /\ y.mode = x.mode
      /\ y.offset = x.offset /\ y.read_error = x.read_error
      /\ y.write_error = x.write_error /\ y.status = x.status
  <2>1. x.num_upload_req + 1 \in Nat /\ x \in Transfer
    BY <1>2
  <2> QED BY <2>1 DEF Transfer
<1>7. len \in 1 .. req.len /\ Piece(data, off)
  OBVIOUS
<1> HIDE DEF len, off, w, y
<1>8. /\ x' \in Transfer /\ x'.pc = "loop" /\ x'.reqs = Remaining(req, len)
      /\ x'.id = NextId(req, len) /\ SameOutcome(y, x')
      /\ x'.max_req = 0 => y.max_req = 0
  BY <1>1, <1>2, <1>3, <1>4, <1>6, <1>7, AdvanceFact
<1>9. /\ x'.mode = x.mode /\ x'.offset = x.offset
      /\ x'.num_upload_req = x.num_upload_req + 1
      /\ x'.read_error = x.read_error
      /\ x'.write_error = x.write_error /\ x'.status = x.status
      /\ x'.max_req = 0 => x.max_req = 0
  BY <1>6, <1>8 DEF SameOutcome
<1>10. /\ inq' \in [Servers -> Seq(Request)]
       /\ inq'["from"] = Rerequest(inq["from"], req, len)
       /\ inq'["to"] = Append(t, w)
  <2>1. Append(t, w) \in Seq(Request)
    BY <1>2, <1>5
  <2> QED BY <1>2, <1>3, <1>4, <2>1 DEF Servers
<1> HIDE DEF t
<1>11. /\ Len(inq'["to"]) = Len(t) + 1 /\ DOMAIN inq'["to"] = 1 .. Len(t) + 1
       /\ DOMAIN t = 1 .. Len(t) /\ Len(t) \in Nat
       /\ \A k \in 1 .. Len(t) : inq'["to"][k] = t[k]
       /\ inq'["to"][Len(t) + 1] = w
  BY <1>2, <1>5, <1>10
<1>12. TypeOK' /\ Queues' /\ Limits' /\ Reading' /\ Put' /\ Left'
  <2>1. Len(inq'["to"]) + Len(replies["to"]) = x'.num_upload_req
    <3>1. Len(t) + Len(replies["to"]) = x.num_upload_req
      BY <1>1 DEF Queues, t
    <3>2. Len(replies["to"]) \in Nat
      BY <1>1 DEF TypeOK, Servers
    <3>3. PICK k, l \in Nat : k = Len(t) /\ l = Len(replies["to"])
      BY <3>2, <1>11
    <3>4. k + l = x.num_upload_req
      BY <3>1, <3>3
    <3>5. (k + 1) + l = x.num_upload_req + 1
      BY <3>4, <1>2
    <3> QED BY <3>3, <3>5, <1>9, <1>11
  <2> QED BY <1>2, <1>3, <1>7, <1>8, <1>9, <1>10, <2>1, ReplyRead
<1>13. Get'
  BY DEF Get
<1>14. Cross'
  <2>1. /\ Len(dst) <= Len(src) /\ x.status = "ok" /\ Forwarded /\ SentAll
        /\ \A k \in DOMAIN t : Piece(t[k].data, t[k].offset) /\ Len(t[k].data) = t[k].len
    BY <1>1 DEF Cross, t
  <2>2. ASSUME NEW k \in DOMAIN inq'["to"]
        PROVE  /\ Piece(inq["to"][k].data, inq["to"][k].offset)'
               /\ Len(inq'["to"][k].data) = inq'["to"][k].len
    <3>0. \A e, o : Piece(e, o) => Piece(e, o)'
      BY DEF Piece
    <3>1. CASE k \in DOMAIN t
      <4>1. inq'["to"][k] = t[k]
        BY <3>1, <1>11
      <4>2. Piece(t[k].data, t[k].offset) /\ Len(t[k].data) = t[k].len
        BY <2>1, <3>1
      <4>3. Piece(inq'["to"][k].data, inq'["to"][k].offset)
        BY <4>1, <4>2
      <4>4. Piece(inq["to"][k].data, inq["to"][k].offset)'
        BY <4>3 DEF Piece
      <4> QED BY <4>1, <4>2, <4>4
    <3>2. CASE k = Len(t) + 1
      <4>1. inq'["to"][k] = w
        BY <3>2, <1>11
      <4>2. Piece(inq'["to"][k].data, inq'["to"][k].offset)
        BY <4>1, <1>5, <1>7
      <4>3. Piece(inq["to"][k].data, inq["to"][k].offset)'
        BY <4>2 DEF Piece
      <4> QED BY <4>1, <4>3, <1>5 DEF len
    <3> QED BY <3>1, <3>2, <1>11
  <2>3. Forwarded'
    <3> SUFFICES ASSUME NEW p \in 1 .. Len(src), p <= x.offset,
                        ~x.read_error, ~x.write_error, ~ErrorInReplies
                 PROVE  \/ \E a \in x'.reqs : In(p, a)
                        \/ \E k \in DOMAIN inq'["to"] : In(p, inq'["to"][k])
                        \/ p <= Len(dst) /\ dst[p] = p
      <4>1. replies'["to"] = replies["to"]
        BY <1>1 DEF TypeOK, Servers
      <4> QED BY <1>3, <1>9, <4>1 DEF Forwarded, ErrorInReplies
    <3>0. p \in Nat
      BY <1>2
    <3>1. CASE \E a \in x.reqs : In(p, a)
      <4>1. \/ \E b \in Remaining(req, len) : In(p, b)
            \/ off < p /\ p <= off + len
        BY <1>4, <3>0, <3>1
      <4>2. CASE off < p /\ p <= off + len
        <5>1. In(p, w)
          BY <4>2, <1>5 DEF In
        <5>2. Len(t) + 1 \in DOMAIN inq'["to"] /\ In(p, inq'["to"][Len(t) + 1])
          BY <5>1, <1>11
        <5> QED BY <5>2
      <4> QED BY <4>1, <4>2, <1>8
    <3>2. CASE \E k \in DOMAIN t : In(p, t[k])
      <4>1. PICK k \in DOMAIN t : In(p, t[k])
        BY <3>2
      <4>2. k \in DOMAIN inq'["to"] /\ inq'["to"][k] = t[k]
        BY <1>11
      <4> QED BY <4>1, <4>2
    <3> QED BY <2>1, <3>1, <3>2 DEF Forwarded, t
  <2>4. SentAll'
    BY <1>8, <1>9, <2>1 DEF SentAll
  <2> QED BY <1>3, <1>8, <1>9, <2>1, <2>2, <2>3, <2>4 DEF Cross
<1> QED BY <1>12, <1>13, <1>14 DEF Inv

LEMMA ReceiveReadInv == ASSUME Inv, ReceiveRead PROVE Inv'
<1>1. TypeOK /\ Queues /\ Reading /\ x.pc = "recv" /\ op # "put"
  BY DEF Inv, ReceiveRead
<1>2. PICK i \in NextReplies("from") :
        \E r \in {replies["from"][i]} :
          /\ replies' = [replies EXCEPT !["from"] = RemoveAt(@, i)]
          /\ \/ /\ request_find(x.reqs, r.id) = {}
                /\ Fatal("Unexpected reply")
                /\ UNCHANGED <<dst, inq, faults, torn>>
             \/ \E req \in request_find(x.reqs, r.id) :
                  IF r.status # "data" THEN ReadStatus(req, r.status)
                  ELSE IF op = "get" THEN WriteLocal(req, r.data)
                  ELSE WriteRemote(req, r.data)
  BY DEF ReceiveRead
<1>3. UNCHANGED <<op, reorders, src, interrupted, attempts, refused>>
  BY DEF ReceiveRead
<1>4. i \in DOMAIN replies["from"]
  <2>1. replies["from"] \in Seq(Response)
    BY <1>1 DEF TypeOK, Servers
  <2>2. CASE reorders
    BY <2>2 DEF NextReplies
  <2>3. CASE ~reorders
    <3>1. i \in 1 .. Lesser(1, Len(replies["from"]))
      BY <2>3 DEF NextReplies
    <3> QED BY <2>1, <3>1 DEF Lesser
  <2> QED BY <2>2, <2>3
<1>5. request_find(x.reqs, replies["from"][i].id) # {}
  <2>1. Matched(inq["from"], replies["from"], x.reqs)
    BY <1>1 DEF Queues, Server
  <2> QED BY <2>1, <1>4 DEF Matched, request_find
<1>6. PICK req \in request_find(x.reqs, replies["from"][i].id) :
         IF replies["from"][i].status # "data"
         THEN ReadStatus(req, replies["from"][i].status)
         ELSE IF op = "get" THEN WriteLocal(req, replies["from"][i].data)
         ELSE WriteRemote(req, replies["from"][i].data)
  BY <1>2, <1>5
<1>7. req \in x.reqs /\ req.id = replies["from"][i].id
  BY DEF request_find
<1>8. Answers(replies["from"][i], req)
  BY <1>1, <1>4, <1>7 DEF Reading
<1>9. replies' = [replies EXCEPT !["from"] = RemoveAt(@, i)]
  BY <1>2
<1>10. CASE replies["from"][i].status # "data"
  BY <1>1, <1>3, <1>4, <1>6, <1>7, <1>8, <1>9, <1>10, ReadStatusInv
<1>11. CASE replies["from"][i].status = "data"
  <2>1. /\ Len(replies["from"][i].data) \in 1 .. req.len
        /\ Piece(replies["from"][i].data, req.offset)
    BY <1>8, <1>11 DEF Answers
  <2>2. CASE op = "get"
    <3>1. WriteLocal(req, replies["from"][i].data)
      BY <1>6, <1>11, <2>2
    <3> QED BY <1>1, <1>3, <1>4, <1>7, <1>9, <2>1, <2>2, <3>1, WriteLocalInv
  <2>3. CASE op = "cross"
    <3>1. WriteRemote(req, replies["from"][i].data)
      BY <1>6, <1>11, <2>3
    <3> QED BY <1>1, <1>3, <1>4, <1>7, <1>9, <2>1, <2>3, <3>1, WriteRemoteInv
  <2> QED BY <1>1, <2>2, <2>3 DEF TypeOK
<1> QED BY <1>10, <1>11

-----------------------------------------------------------------------------
(* Replies of the destination of a crossload. *)

LEMMA NextReply ==
    ASSUME TypeOK, NEW s \in Servers, NEW i \in NextReplies(s)
    PROVE  i \in DOMAIN replies[s] /\ i \in 1 .. Len(replies[s])
<1>1. replies[s] \in Seq(Response) /\ DOMAIN replies[s] = 1 .. Len(replies[s])
  BY DEF TypeOK
<1>2. CASE reorders
  BY <1>1, <1>2 DEF NextReplies
<1>3. CASE ~reorders
  <2>1. i \in 1 .. Lesser(1, Len(replies[s]))
    BY <1>3 DEF NextReplies
  <2> QED BY <1>1, <2>1 DEF Lesser
<1> QED BY <1>2, <1>3

LEMMA DestRepliesInv == ASSUME Inv, handle_dest_replies PROVE Inv'
<1>1. /\ TypeOK /\ Queues /\ Limits /\ Reading /\ Cross
      /\ op = "cross" /\ x.pc \in {"recv", "drained"} /\ x.num_upload_req > 0
  BY DEF Inv, handle_dest_replies
<1>2. PICK i \in NextReplies("to") :
         /\ x' = [x EXCEPT !.num_upload_req = @ - 1,
                           !.write_error = @ \/ replies["to"][i].status # "ok"]
         /\ replies' = [replies EXCEPT !["to"] = RemoveAt(@, i)]
  BY DEF handle_dest_replies
<1>3. UNCHANGED <<op, reorders, src, dst, inq, interrupted, attempts, faults, torn, refused>>
  BY DEF handle_dest_replies
<1> DEFINE r == replies["to"]
           e == x.write_error \/ r[i].status # "ok"
           n == x.num_upload_req - 1
           s == RemoveAt(r, i)
<1>4. /\ x \in Transfer /\ x.num_upload_req \in Nat /\ r \in Seq(Response)
      /\ replies \in [Servers -> Seq(Response)] /\ IsFiniteSet(x.reqs)
  BY <1>1 DEF TypeOK, Transfer, Servers
<1>5. i \in 1 .. Len(r) /\ Len(r) \in Nat /\ DOMAIN r = 1 .. Len(r)
  <2>1. "to" \in Servers
    BY DEF Servers
  <2> QED BY <1>1, <1>4, <2>1, NextReply
<1>6. /\ s \in Seq(Response) /\ Len(s) = Len(r) - 1 /\ DOMAIN s = 1 .. Len(r) - 1
      /\ \A j \in 1 .. Len(r) - 1 : s[j] = IF j < i THEN r[j] ELSE r[j + 1]
  BY <1>4, <1>5, RemoveAtFact
<1>7. n \in Nat /\ e \in BOOLEAN
  BY <1>1, <1>4
<1>8. x' = [x EXCEPT !.num_upload_req = n, !.write_error = e]
  BY <1>2, <1>4 DEF Transfer
<1>8b. n = x.num_upload_req - 1 /\ (e <=> x.write_error \/ r[i].status # "ok")
  OBVIOUS
<1> HIDE DEF e, n, s, r
<1>9. /\ x' \in Transfer /\ x'.num_upload_req = n /\ x'.write_error = e
      /\ x'.pc = x.pc /\ x'.mode = x.mode /\ x'.reqs = x.reqs /\ x'.id = x.id
      /\ x'.offset = x.offset /\ x'.max_req = x.max_req
      /\ x'.read_error = x.read_error /\ x'.status = x.status
  BY <1>4, <1>7, <1>8 DEF Transfer
<1>10. /\ replies'["to"] = s /\ replies'["from"] = replies["from"]
       /\ replies' \in [Servers -> Seq(Response)]
  BY <1>2, <1>4, <1>6 DEF Servers, s, r
<1>11. TypeOK'
  BY <1>1, <1>3, <1>9, <1>10 DEF TypeOK, Source
<1>12. Queues'
  <2>1. Len(inq'["to"]) + Len(replies'["to"]) = x'.num_upload_req
    <3>1. Len(inq["to"]) + Len(r) = x.num_upload_req
      BY <1>1 DEF Queues, r
    <3>2. inq["to"] \in Seq(Request)
      BY <1>1 DEF TypeOK, Servers
    <3>2b. Len(inq["to"]) \in Nat
      BY <3>2
    <3>3. PICK k, l \in Nat : k = Len(inq["to"]) /\ l = Len(r)
      BY <3>2b, <1>5
    <3>4. k + (l - 1) = n
      BY <3>1, <3>3, <1>4, <1>8b
    <3> QED BY <3>3, <3>4, <1>3, <1>6, <1>9, <1>10
  <2>2. Matched(inq[Server], replies[Server], x.reqs)'
    BY <1>1, <1>3, <1>9, <1>10 DEF Queues, Server
  <2> QED BY <2>1, <2>2, <1>1, <1>3, <1>9 DEF Queues
<1>13. Limits'
  BY <1>1, <1>3, <1>9 DEF Limits, num_req
<1>14. Reading'
  <2>1. \A t, a : Answers(t, a) => Answers(t, a)'
    BY <1>3 DEF Answers, Piece
  <2> QED BY <1>1, <1>3, <1>9, <1>10, <2>1 DEF Reading
<1>15. Get' /\ Put' /\ Left'
  BY <1>1, <1>3, <1>9 DEF Get, Put, Left
<1>16. ErrorInReplies => e \/ ErrorInReplies'
  <2> SUFFICES ASSUME ErrorInReplies PROVE e \/ ErrorInReplies'
    OBVIOUS
  <2>1. PICK k \in DOMAIN r : r[k].status # "ok"
    BY DEF ErrorInReplies, r
  <2>2. CASE k = i
    BY <2>1, <2>2, <1>8b
  <2>3. CASE k < i
    <3>1. k \in DOMAIN s /\ s[k] = r[k]
      BY <2>3, <1>5, <1>6
    <3> QED BY <3>1, <2>1, <1>10 DEF ErrorInReplies
  <2>4. CASE k > i
    <3>1. k - 1 \in 1 .. Len(r) - 1 /\ ~(k - 1 < i) /\ (k - 1) + 1 = k
      BY <2>4, <1>5
    <3>2. k - 1 \in DOMAIN s /\ s[k - 1] = r[k]
      BY <3>1, <1>6
    <3> QED BY <3>2, <2>1, <1>10 DEF ErrorInReplies
  <2> QED BY <2>2, <2>3, <2>4, <1>5
<1>17. Forwarded => Forwarded'
  BY <1>3, <1>8b, <1>9, <1>16 DEF Forwarded
<1>18. SentAll => SentAll'
  BY <1>3, <1>8b, <1>9 DEF SentAll
<1>19. Cross'
  BY <1>1, <1>3, <1>9, <1>17, <1>18 DEF Cross, Piece
<1> QED BY <1>11, <1>12, <1>13, <1>14, <1>15, <1>19 DEF Inv

-----------------------------------------------------------------------------
(* The servers. *)

LEMMA ServeFromInv == ASSUME Inv, Serve("from") PROVE Inv'
<1> DEFINE t == inq["from"]
           q == Head(t)
<1>1. /\ TypeOK /\ Queues /\ Limits /\ Reading /\ Get /\ Cross /\ Put /\ Left
      /\ t # <<>> /\ inq' = [inq EXCEPT !["from"] = Tail(@)]
      /\ process_read(q) /\ UNCHANGED <<dst, refused>>
      /\ UNCHANGED <<op, reorders, src, x, interrupted, attempts, torn>>
  BY DEF Inv, Serve
<1>2. op # "put"
  BY <1>1 DEF Queues
<1>3. /\ x \in Transfer /\ x.reqs \in SUBSET Request /\ t \in Seq(Request)
      /\ inq \in [Servers -> Seq(Request)] /\ replies \in [Servers -> Seq(Response)]
      /\ replies["from"] \in Seq(Response) /\ Source(src) /\ faults \in Nat
      /\ Len(src) \in Nat
  BY <1>1, Typed
<1>4. /\ q \in Request /\ q.id \in Nat /\ q.len \in Nat \ {0} /\ q.offset \in Nat
      /\ Tail(t) \in Seq(Request) /\ q = t[1] /\ 1 \in DOMAIN t
  <2>1. q \in Request /\ Tail(t) \in Seq(Request) /\ q = t[1] /\ 1 \in DOMAIN t
    BY <1>1, <1>3
  <2> QED BY <2>1 DEF Request
<1>5. Matched(t, replies["from"], x.reqs)
  BY <1>1, <1>2 DEF Queues, Server
<1> HIDE DEF q, t
<1>6. PICK a \in Response : /\ a.id = q.id /\ Answers(a, q)
                            /\ replies' = [replies EXCEPT !["from"] = Append(@, a)]
                            /\ faults' \in Nat
  <2>1. CASE \E n \in 1 .. Lesser(q.len, Len(src) - q.offset) :
                /\ Reply("from", [id |-> q.id, status |-> "data",
                                  data |-> SubSeq(src, q.offset + 1, q.offset + n)])
                /\ UNCHANGED faults
    <3>1. PICK n \in 1 .. Lesser(q.len, Len(src) - q.offset) :
             Reply("from", [id |-> q.id, status |-> "data",
                            data |-> SubSeq(src, q.offset + 1, q.offset + n)])
      BY <2>1
    <3>2. n \in Nat /\ n \in 1 .. q.len /\ q.offset + n <= Len(src)
      BY <1>3, <1>4 DEF Lesser
    <3> DEFINE d == SubSeq(src, q.offset + 1, q.offset + n)
               a == [id |-> q.id, status |-> "data", data |-> d]
    <3>3. Piece(d, q.offset) /\ Len(d) = n
      BY <1>3, <1>4, <3>2, SourcePiece
    <3>4. d \in Seq(Int)
      BY <3>3 DEF Piece
    <3> HIDE DEF d
    <3>5. a \in Response /\ a.id = q.id /\ a.status = "data" /\ a.data = d
      BY <1>4, <3>4 DEF Response
    <3>6. replies' = [replies EXCEPT !["from"] = Append(@, a)]
      BY <3>1 DEF Reply, d
    <3> HIDE DEF a
    <3>7. Answers(a, q)
      BY <3>2, <3>3, <3>5 DEF Answers
    <3>8. faults' \in Nat
      BY <2>1, <1>3
    <3> QED BY <3>5, <3>6, <3>7, <3>8
  <2>2. CASE /\ q.offset >= Len(src)
             /\ Reply("from", [id |-> q.id, status |-> "eof", data |-> <<>>])
             /\ UNCHANGED faults
    <3> DEFINE a == [id |-> q.id, status |-> "eof", data |-> <<>>]
    <3>1. <<>> \in Seq(Int)
      OBVIOUS
    <3>2. a \in Response /\ a.id = q.id /\ a.status = "eof"
      BY <1>4, <3>1 DEF Response
    <3>3. replies' = [replies EXCEPT !["from"] = Append(@, a)] /\ faults' \in Nat
      BY <2>2, <1>3 DEF Reply
    <3> HIDE DEF a
    <3> QED BY <2>2, <3>2, <3>3 DEF Answers
  <2>3. CASE /\ faults > 0 /\ faults' = faults - 1
             /\ Reply("from", [id |-> q.id, status |-> "failure", data |-> <<>>])
    <3> DEFINE a == [id |-> q.id, status |-> "failure", data |-> <<>>]
    <3>1. <<>> \in Seq(Int)
      OBVIOUS
    <3>2. a \in Response /\ a.id = q.id /\ a.status = "failure"
      BY <1>4, <3>1 DEF Response
    <3>3. replies' = [replies EXCEPT !["from"] = Append(@, a)] /\ faults' \in Nat
      BY <2>3, <1>3 DEF Reply
    <3> HIDE DEF a
    <3> QED BY <3>2, <3>3 DEF Answers
  <2> QED BY <1>1, <2>1, <2>2, <2>3 DEF process_read
<1> DEFINE r == replies["from"]
           s == Append(r, a)
<1>7. /\ inq'["from"] = Tail(t) /\ inq'["to"] = inq["to"]
      /\ inq' \in [Servers -> Seq(Request)]
  BY <1>1, <1>3, <1>4 DEF Servers, t
<1>8. /\ s \in Seq(Response) /\ DOMAIN s = 1 .. Len(r) + 1 /\ DOMAIN r = 1 .. Len(r)
      /\ Len(r) \in Nat
      /\ \A j \in 1 .. Len(r) : s[j] = r[j]
      /\ s[Len(r) + 1] = a
  BY <1>3
<1>9. /\ replies'["from"] = s /\ replies'["to"] = replies["to"]
      /\ replies' \in [Servers -> Seq(Response)]
  BY <1>3, <1>6, <1>8 DEF Servers
<1> HIDE DEF r, s
<1>10. Matched(Tail(t), s, x.reqs)
  BY <1>1, <1>3, <1>5, <1>6, MatchedServe DEF q, s, r, t
<1>11. TypeOK'
  BY <1>1, <1>6, <1>7, <1>9 DEF TypeOK, Source
<1>12. Queues'
  BY <1>1, <1>2, <1>7, <1>9, <1>10 DEF Queues, Server
<1>13. Limits'
  BY <1>1 DEF Limits, num_req
<1>14. Reading'
  <2>1. \A u, b : Answers(u, b) => Answers(u, b)'
    BY <1>1 DEF Answers, Piece
  <2>2. ASSUME NEW j \in DOMAIN s, NEW b \in x.reqs, b.id = s[j].id
        PROVE  Answers(s[j], b)
    <3>1. CASE j \in DOMAIN r
      BY <3>1, <2>2, <1>1, <1>2, <1>8 DEF Reading, r
    <3>2. CASE j = Len(r) + 1
      <4>1. s[j] = a /\ q \in x.reqs
        BY <3>2, <1>4, <1>5, <1>8 DEF Matched
      <4>2. b = q
        BY <4>1, <2>2, <1>5, <1>6 DEF Matched
      <4> QED BY <4>1, <4>2, <1>6
    <3> QED BY <3>1, <3>2, <1>8
  <2> QED BY <1>1, <1>9, <2>1, <2>2 DEF Reading
<1>15. Put' /\ Left'
  BY <1>1, <1>2 DEF Put, Left, SuccessMeansCopied, FailureLeavesPrefix
<1>16. (Downloaded => Downloaded') /\ (Forwarded => Forwarded') /\ (SentAll => SentAll')
  BY <1>1, <1>7, <1>9 DEF Downloaded, Forwarded, ErrorInReplies, SentAll
<1>17. Get'
  BY <1>1, <1>16 DEF Get, Right, Failed
<1>18. Cross'
  <2>1. \A d, off : Piece(d, off) => Piece(d, off)'
    BY <1>1 DEF Piece
  <2>2. Failed' = Failed
    BY <1>1 DEF Failed
  <2> QED BY <1>1, <1>7, <1>16, <2>1, <2>2 DEF Cross
<1> QED BY <1>11, <1>12, <1>13, <1>14, <1>15, <1>17, <1>18 DEF Inv

\* The server has worked on a WRITE: d went to the file and a to the client.
Worked(a, d) ==
    LET q == Head(inq["to"])
        off == IF op = "put" /\ x.mode = "resume" THEN Len(dst) ELSE q.offset
    IN  /\ a.id = q.id
        /\ replies' = [replies EXCEPT !["to"] = Append(@, a)]
        /\ dst' = WriteAt(dst, off, d)
        /\ faults' \in Nat
        /\ \/ a.status = "ok" /\ d = q.data /\ refused' = refused
           \/ /\ a.status = "failure" /\ refused' = TRUE
              /\ \E n \in 0 .. Len(q.data) - 1 : d = SubSeq(q.data, 1, n)

LEMMA WorkedFact ==
    ASSUME TypeOK, Serve("to")
    PROVE  \E a \in Response, d \in Seq(Int) : Worked(a, d)
<1> DEFINE q == Head(inq["to"])
           off == IF op = "put" /\ x.mode = "resume" THEN Len(dst) ELSE q.offset
<1>1. process_write(q) /\ inq["to"] # <<>> /\ inq["to"] \in Seq(Request)
  BY DEF Serve, TypeOK, Servers
<1>2. q \in Request
  BY <1>1
<1>3. q.id \in Nat /\ q.data \in Seq(Int) /\ faults \in Nat /\ <<>> \in Seq(Int)
  BY <1>2 DEF Request, TypeOK
<1>4. CASE /\ dst' = WriteAt(dst, off, q.data)
           /\ Reply("to", [id |-> q.id, status |-> "ok", data |-> <<>>])
           /\ UNCHANGED <<faults, refused>>
  <2> DEFINE a == [id |-> q.id, status |-> "ok", data |-> <<>>]
  <2>1. a \in Response /\ a.id = q.id /\ a.status = "ok"
    BY <1>3 DEF Response
  <2>2. replies' = [replies EXCEPT !["to"] = Append(@, a)]
    BY <1>4 DEF Reply
  <2> HIDE DEF a
  <2>3. Worked(a, q.data)
    BY <1>3, <1>4, <2>1, <2>2 DEF Worked
  <2> QED BY <1>3, <2>1, <2>3
<1>5. CASE /\ faults > 0 /\ faults' = faults - 1
           /\ \E n \in 0 .. Len(q.data) - 1 : dst' = WriteAt(dst, off, SubSeq(q.data, 1, n))
           /\ Reply("to", [id |-> q.id, status |-> "failure", data |-> <<>>])
           /\ refused' = TRUE
  <2> DEFINE a == [id |-> q.id, status |-> "failure", data |-> <<>>]
  <2>1. a \in Response /\ a.id = q.id /\ a.status = "failure"
    BY <1>3 DEF Response
  <2>2. replies' = [replies EXCEPT !["to"] = Append(@, a)] /\ faults' \in Nat
    BY <1>3, <1>5 DEF Reply
  <2> HIDE DEF a
  <2>3. PICK n \in 0 .. Len(q.data) - 1 : dst' = WriteAt(dst, off, SubSeq(q.data, 1, n))
    BY <1>5
  <2> DEFINE d == SubSeq(q.data, 1, n)
  <2>4. d \in Seq(Int)
    BY <1>3, <2>3
  <2>5. Worked(a, d)
    BY <1>5, <2>1, <2>2, <2>3 DEF Worked
  <2> QED BY <2>1, <2>4, <2>5
<1> QED BY <1>1, <1>4, <1>5 DEF process_write

LEMMA ServeToInv == ASSUME Inv, Serve("to") PROVE Inv'
<1> DEFINE t == inq["to"]
           q == Head(t)
           r == replies["to"]
<1>1. /\ TypeOK /\ Queues /\ Limits /\ Reading /\ Get /\ Cross /\ Put /\ Left
      /\ t # <<>> /\ inq' = [inq EXCEPT !["to"] = Tail(@)]
      /\ UNCHANGED <<op, reorders, src, x, interrupted, attempts, torn>>
  BY DEF Inv, Serve
<1>2. op \in {"put", "cross"}
  BY <1>1 DEF Queues, TypeOK
<1>3. /\ x \in Transfer /\ x.reqs \in SUBSET Request /\ t \in Seq(Request)
      /\ inq \in [Servers -> Seq(Request)] /\ replies \in [Servers -> Seq(Response)]
      /\ r \in Seq(Response) /\ Source(src) /\ dst \in Seq(Int)
      /\ Len(src) \in Nat /\ Len(dst) \in Nat
  BY <1>1, Typed
<1>4. /\ q \in Request /\ q = t[1] /\ 1 \in DOMAIN t
      /\ Tail(t) \in Seq(Request) /\ Len(Tail(t)) = Len(t) - 1
      /\ DOMAIN Tail(t) = 1 .. Len(t) - 1 /\ DOMAIN t = 1 .. Len(t)
      /\ \A j \in 1 .. Len(t) - 1 : Tail(t)[j] = t[j + 1]
      /\ Len(t) \in Nat \ {0}
  BY <1>1, <1>3
<1>4b. q.id \in Nat /\ q.len \in Nat \ {0} /\ q.offset \in Nat /\ q.data \in Seq(Int)
  BY <1>4 DEF Request
<1>5. PICK a \in Response, d \in Seq(Int) : Worked(a, d)
  BY <1>1, WorkedFact
<1> DEFINE off == IF op = "put" /\ x.mode = "resume" THEN Len(dst) ELSE q.offset
           s == Append(r, a)
<1>6. /\ a.id = q.id /\ replies' = [replies EXCEPT !["to"] = Append(@, a)]
      /\ dst' = WriteAt(dst, off, d) /\ faults' \in Nat
      /\ \/ a.status = "ok" /\ d = q.data /\ refused' = refused
         \/ /\ a.status = "failure" /\ refused' = TRUE
            /\ \E n \in 0 .. Len(q.data) - 1 : d = SubSeq(q.data, 1, n)
  BY <1>5 DEF Worked
<1>7. /\ inq'["to"] = Tail(t) /\ inq'["from"] = inq["from"]
      /\ inq' \in [Servers -> Seq(Request)]
  BY <1>1, <1>3, <1>4 DEF Servers
<1>8. /\ s \in Seq(Response) /\ DOMAIN s = 1 .. Len(r) + 1 /\ DOMAIN r = 1 .. Len(r)
      /\ Len(r) \in Nat /\ Len(s) = Len(r) + 1
      /\ \A j \in 1 .. Len(r) : s[j] = r[j]
      /\ s[Len(r) + 1] = a
  BY <1>3
<1>9. /\ replies'["to"] = s /\ replies'["from"] = replies["from"]
      /\ replies' \in [Servers -> Seq(Response)]
  BY <1>3, <1>6, <1>8 DEF Servers
<1> HIDE DEF s, t, q, r
<1>10. x.pc # "idle"
  BY <1>1, AtRest DEF Queues, t
<1>11. off \in Nat /\ dst' \in Seq(Int)
  <2>1. off \in Nat
    BY <1>3, <1>4b
  <2> HIDE DEF off
  <2> QED BY <1>3, <1>6, <2>1, WriteAtFact
<1> HIDE DEF off
<1>12. TypeOK'
  <2>1. refused' \in BOOLEAN
    BY <1>1, <1>6 DEF TypeOK
  <2> QED BY <1>1, <1>6, <1>7, <1>9, <1>11, <2>1 DEF TypeOK, Source
<1>13. Limits'
  BY <1>1 DEF Limits, num_req
<1>14. Reading'
  <2>1. \A u, b : Answers(u, b) => Answers(u, b)'
    BY <1>1 DEF Answers, Piece
  <2> QED BY <1>1, <1>9, <2>1 DEF Reading
<1>15. Left'
  BY <1>1, <1>10 DEF Left
<1>16. Get'
  BY <1>1, <1>2 DEF Get
<1>17. CASE op = "put"
  <2>1. Matched(t, r, x.reqs)
    BY <1>1, <1>17 DEF Queues, Server, t, r
  <2>2. Matched(Tail(t), s, x.reqs)
    BY ONLY <1>1, <1>3, <2>1, <1>5, <1>6, MatchedServe DEF s, q
  <2>3. q \in x.reqs
    BY <2>1, <1>4 DEF Matched
  <2>4. Queues'
    BY <1>1, <1>7, <1>9, <1>17, <2>2 DEF Queues, Server
  <2>5. Cross'
    BY <1>1, <1>17 DEF Cross
  <2>6. Put'
    <3> SUFFICES ASSUME ~torn, ~refused' PROVE Put'
      BY <1>1 DEF Put
    <3>1. ~refused /\ a.status = "ok" /\ d = q.data
      BY <1>6
    <3>2. x.pc \notin {"close", "drained", "truncate"}
      BY <1>1, <2>3 DEF Queues
    <3>3. /\ ~Failed
          /\ \A j \in DOMAIN r : r[j].status = "ok"
          /\ x.offset <= Len(src)
          /\ \A i \in DOMAIN t :
                   /\ Piece(t[i].data, t[i].offset)
                   /\ Len(t[i].data) = t[i].len
                   /\ End(t[i]) = IF i = Len(t) THEN x.offset ELSE t[i + 1].offset
          /\ Right(dst, Written)
          /\ x.mode # "inplace" => Len(dst) = Written
          /\ x.highwater <= x.maxack /\ x.maxack <= Written
          /\ \A j \in DOMAIN r : \A b \in x.reqs :
                   b.id = r[j].id => End(b) <= Written
          /\ x.offset = Len(src) =>
                   x.maxack = Len(src) \/ \E b \in x.reqs : End(b) = Len(src)
      BY <1>1, <1>10, <1>17, <3>1, <3>2 DEF Put, t, r
    <3>4. Written = q.offset
      BY <1>1, <1>4 DEF Written, t
    <3>5. off = q.offset
      BY <3>3, <3>4 DEF off
    <3>6. Piece(q.data, q.offset) /\ Len(q.data) = q.len
      BY <1>4, <3>3
    <3>7. Written' = End(q)
      <4>1. End(q) = IF 1 = Len(t) THEN x.offset ELSE t[2].offset
        BY <1>4, <3>3
      <4>2. CASE Len(t) = 1
        <5>1. Len(Tail(t)) = 0 /\ Tail(t) \in Seq(Request)
          BY <1>4, <4>2
        <5>2. Tail(t) = <<>>
          BY ONLY <5>1, EmptySeq
        <5> QED BY <4>1, <4>2, <5>2, <1>1, <1>7 DEF Written
      <4>3. CASE Len(t) # 1
        <5>1. 1 \in 1 .. Len(t) - 1 /\ 1 + 1 = 2
          BY <1>4, <4>3
        <5>2. Tail(t)[1] = t[2]
          BY <1>4, <5>1
        <5>3. Tail(t) # <<>>
          <6>1. Len(Tail(t)) # 0 /\ Tail(t) \in Seq(Request)
            BY <1>4, <4>3
          <6> QED BY ONLY <6>1, EmptySeq
        <5> QED BY <4>1, <4>3, <5>2, <5>3, <1>7 DEF Written
      <4> QED BY <4>2, <4>3
    <3>8. End(q) = q.offset + q.len /\ End(q) \in Nat /\ End(q) >= q.offset
      BY <1>4b DEF End
    <3>9. Right(dst', End(q))
      <4>1. Right(dst', Larger(q.offset, q.offset + Len(q.data)))
        <5>1. Right(dst, q.offset)
          BY <3>3, <3>4
        <5> QED BY <1>3, <1>4b, <1>6, <3>1, <3>5, <3>6, <5>1, WriteRight
      <4>2. Larger(q.offset, q.offset + Len(q.data)) = End(q)
        BY <1>4b, <3>6, <3>8 DEF Larger
      <4> QED BY <4>1, <4>2
    <3>10. x.mode # "inplace" => Len(dst') = End(q)
      <4>1. Len(dst') = IF Len(q.data) = 0 THEN Len(dst)
                        ELSE Larger(Len(dst), q.offset + Len(q.data))
        BY <1>3, <1>4b, <1>6, <3>1, <3>5, WriteAtFact
      <4> QED BY <4>1, <1>3, <1>4b, <3>3, <3>4, <3>6, <3>8 DEF Larger
    <3>11. \A i \in DOMAIN Tail(t) :
                   /\ Piece(Tail(t)[i].data, Tail(t)[i].offset)
                   /\ Len(Tail(t)[i].data) = Tail(t)[i].len
                   /\ End(Tail(t)[i]) = IF i = Len(Tail(t)) THEN x.offset
                                        ELSE Tail(t)[i + 1].offset
      <4> TAKE i \in DOMAIN Tail(t)
      <4>1. i \in 1 .. Len(t) - 1 /\ i + 1 \in DOMAIN t /\ Tail(t)[i] = t[i + 1]
        BY <1>4
      <4>2. End(t[i + 1]) = IF i + 1 = Len(t) THEN x.offset ELSE t[(i + 1) + 1].offset
        BY <4>1, <3>3
      <4>3. i + 1 = Len(t) <=> i = Len(Tail(t))
        BY <4>1, <1>4
      <4>4. i + 1 # Len(t) => Tail(t)[i + 1] = t[(i + 1) + 1]
        BY <4>1, <1>4
      <4> QED BY <4>1, <4>2, <4>3, <4>4, <3>3
    <3>12. x.maxack <= End(q)
      <4>1. x.maxack \in Nat /\ x.maxack <= q.offset
        BY <1>1, <3>3, <3>4, Typed
      <4> QED BY <4>1, <1>4b, <3>8
    <3>13. \A j \in DOMAIN s : s[j].status = "ok"
      <4> TAKE j \in DOMAIN s
      <4>1. CASE j \in DOMAIN r
        BY <4>1, <1>8, <3>3
      <4>2. CASE j = Len(r) + 1
        BY <4>2, <1>8, <3>1
      <4> QED BY <4>1, <4>2, <1>8
    <3>14. ASSUME NEW j \in DOMAIN s, NEW b \in x.reqs, b.id = s[j].id
           PROVE  End(b) <= End(q)
      <4>1. CASE j \in DOMAIN r
        <5>1. End(b) <= q.offset
          BY <4>1, <3>14, <3>3, <3>4, <1>8
        <5>2. b.offset \in Nat /\ b.len \in Nat
          BY <1>3 DEF Request
        <5>3. End(b) \in Nat
          BY <5>2 DEF End
        <5> QED BY <5>1, <5>3, <3>8, <1>4b
      <4>2. CASE j = Len(r) + 1
        <5>1. b.id = q.id
          BY <4>2, <3>14, <1>6, <1>8
        <5>2. b = q
          BY <5>1, <2>1, <2>3 DEF Matched
        <5> QED BY <5>2, <3>8
      <4> QED BY <4>1, <4>2, <1>8
    <3>15. \A e, p : Piece(e, p)' <=> Piece(e, p)
      BY <1>1 DEF Piece
    <3>16. Right(dst, Written)'
      BY <3>7, <3>9 DEF Right
    <3>17. Failed' <=> Failed
      BY <1>1 DEF Failed
    <3>18. \A i \in DOMAIN inq'["to"] :
                   /\ Piece(inq["to"][i].data, inq["to"][i].offset)'
                   /\ Len(inq'["to"][i].data) = inq'["to"][i].len
                   /\ End(inq'["to"][i]) = IF i = Len(inq'["to"]) THEN x'.offset
                                           ELSE inq'["to"][i + 1].offset
      BY <1>1, <1>7, <3>11, <3>15
    <3>19. \A j \in DOMAIN replies'["to"] : \A b \in x'.reqs :
                   b.id = replies'["to"][j].id => End(b) <= Written'
      BY <1>1, <1>9, <3>7, <3>14
    <3>20. x'.offset = Len(src') =>
              x'.maxack = Len(src') \/ \E b \in x'.reqs : End(b) = Len(src')
      BY <1>1, <3>3
    <3>21. /\ x'.mode # "inplace" => Len(dst') = Written'
           /\ x'.highwater <= x'.maxack /\ x'.maxack <= Written'
           /\ x'.offset <= Len(src')
           /\ \A j \in DOMAIN replies'["to"] : replies'["to"][j].status = "ok"
           /\ x'.pc \notin {"close", "drained", "truncate"}
      BY <1>1, <1>9, <3>2, <3>3, <3>7, <3>10, <3>12, <3>13
    <3> HIDE DEF Failed, Written, End, Right, Piece
    <3> QED
      BY <3>3, <3>16, <3>17, <3>18, <3>19, <3>20, <3>21 DEF Put
  <2> QED BY <2>4, <2>5, <2>6, <1>12, <1>13, <1>14, <1>15, <1>16 DEF Inv
<1>18. CASE op = "cross"
  <2>1. Len(t) + Len(r) = x.num_upload_req /\ x.num_upload_req \in Nat
    BY <1>1, <1>3, <1>18 DEF Queues, Transfer, t, r
  <2>2. Len(inq'["to"]) + Len(replies'["to"]) = x'.num_upload_req
    <3>1. PICK k, l \in Nat : k = Len(t) /\ l = Len(r)
      BY <1>4, <1>8
    <3>2. (k - 1) + (l + 1) = x.num_upload_req
      BY <2>1, <3>1
    <3> QED BY <3>1, <3>2, <1>1, <1>4, <1>7, <1>8, <1>9
  <2>3. x.num_upload_req # 0
    BY <2>1, <1>4, <1>8
  <2>4. x.pc \in {"loop", "recv", "drained"}
    BY <1>1, <1>3, <2>3 DEF Queues, Transfer
  <2>5. Queues'
    BY <1>1, <1>7, <1>9, <1>18, <2>2 DEF Queues, Server
  <2>6. Put'
    BY <1>1, <1>18 DEF Put
  <2>7. /\ Len(dst) <= Len(src) /\ x.status = "ok"
        /\ \A i \in DOMAIN t : Piece(t[i].data, t[i].offset) /\ Len(t[i].data) = t[i].len
        /\ Forwarded /\ SentAll
    BY <1>1, <1>18, <2>4 DEF Cross, t
  <2>8. Piece(q.data, q.offset) /\ Len(q.data) = q.len /\ off = q.offset
    BY <2>7, <1>4, <1>18 DEF off
  <2>9. Piece(d, q.offset)
    <3>1. ASSUME NEW n \in 0 .. Len(q.data) - 1 PROVE Piece(SubSeq(q.data, 1, n), q.offset)
      <4>1. n \in 0 .. Len(q.data)
        BY <1>4b
      <4> QED BY <4>1, <2>8, <1>3, <1>4b, PiecePrefix
    <3> QED BY <3>1, <2>8, <1>6
  <2>10. /\ Len(dst') = IF Len(d) = 0 THEN Len(dst) ELSE Larger(Len(dst), q.offset + Len(d))
         /\ \A p \in 1 .. Len(dst) : dst[p] = p => p <= Len(dst') /\ dst'[p] = p
         /\ \A p \in Nat : q.offset < p /\ p <= q.offset + Len(d) =>
               p <= Len(dst') /\ dst'[p] = p
    <3>1. Extended(dst, WriteAt(dst, q.offset, d), q.offset, Len(d))
      BY <1>3, <1>4b, <2>9, WritePiece
    <3>2. dst' = WriteAt(dst, q.offset, d)
      BY <1>6, <2>8
    <3>3. Extended(dst, dst', q.offset, Len(d))
      BY ONLY <3>1, <3>2
    <3> QED BY ONLY <3>3 DEF Extended
  <2>11. Len(dst') <= Len(src)
    BY <2>7, <2>9, <2>10, <1>3, <1>4b DEF Larger, Piece
  <2>12. \A i \in DOMAIN Tail(t) : /\ Piece(Tail(t)[i].data, Tail(t)[i].offset)
                                   /\ Len(Tail(t)[i].data) = Tail(t)[i].len
    <3> TAKE i \in DOMAIN Tail(t)
    <3>1. i + 1 \in DOMAIN t /\ Tail(t)[i] = t[i + 1]
      BY <1>4
    <3> QED BY <3>1, <2>7
  <2>13. Forwarded'
    <3>1. CASE a.status # "ok"
      <4>1. Len(r) + 1 \in DOMAIN s
        BY <1>8
      <4>2. ErrorInReplies'
        BY <3>1, <4>1, <1>8, <1>9 DEF ErrorInReplies
      <4> QED BY <4>2 DEF Forwarded
    <3>2. CASE a.status = "ok"
      <4>1. d = q.data
        BY <3>2, <1>6
      <4> SUFFICES ASSUME NEW p \in 1 .. Len(src), p <= x.offset
                   PROVE  \/ x.read_error \/ x.write_error \/ ErrorInReplies'
                          \/ \E b \in x.reqs : In(p, b)
                          \/ \E i \in DOMAIN Tail(t) : In(p, Tail(t)[i])
                          \/ p <= Len(dst') /\ dst'[p] = p
        BY <1>1, <1>7 DEF Forwarded, In
      <4>2. CASE ErrorInReplies
        <5>1. PICK k \in DOMAIN r : r[k].status # "ok"
          BY <4>2 DEF ErrorInReplies, r
        <5>2. k \in DOMAIN s /\ s[k] = r[k]
          BY <1>8
        <5> QED BY <5>1, <5>2, <1>9 DEF ErrorInReplies
      <4>3. CASE \E i \in DOMAIN t : In(p, t[i])
        <5>1. PICK i \in DOMAIN t : In(p, t[i])
          BY <4>3
        <5>2. CASE i = 1
          <6>1. q.offset < p /\ p <= q.offset + Len(d) /\ p \in Nat
            BY <5>1, <5>2, <4>1, <2>8, <1>4 DEF In
          <6> QED BY <6>1, <2>10
        <5>3. CASE i # 1
          <6>1. i - 1 \in 1 .. Len(t) - 1 /\ (i - 1) + 1 = i
            BY <5>3, <1>4
          <6>2. i - 1 \in DOMAIN Tail(t) /\ Tail(t)[i - 1] = t[i]
            BY <6>1, <1>4
          <6> QED BY <5>1, <6>2
        <5> QED BY <5>2, <5>3
      <4>4. CASE p <= Len(dst) /\ dst[p] = p
        <5>1. p \in 1 .. Len(dst)
          BY <4>4, <1>3
        <5> QED BY <4>4, <5>1, <2>10
      <4> QED BY <4>2, <4>3, <4>4, <2>7 DEF Forwarded, t
    <3> QED BY <3>1, <3>2
  <2>14. SentAll'
    BY <1>1, <2>7 DEF SentAll
  <2>15. Cross'
    <3>1. \A e, p : Piece(e, p)' <=> Piece(e, p)
      BY <1>1 DEF Piece
    <3> QED BY <1>1, <1>7, <2>4, <2>7, <2>11, <2>12, <2>13, <2>14, <3>1 DEF Cross
  <2> QED BY <2>5, <2>6, <2>15, <1>12, <1>13, <1>14, <1>15, <1>16 DEF Inv
<1> QED BY <1>2, <1>17, <1>18

-----------------------------------------------------------------------------
(* The loop of an upload. *)

\* What Put says of the loop: Up, for short.
Up ==
    /\ ~Failed
    /\ \A j \in DOMAIN replies["to"] : replies["to"][j].status = "ok"
    /\ x.offset <= Len(src)
    /\ \A i \in DOMAIN inq["to"] :
          /\ Piece(inq["to"][i].data, inq["to"][i].offset)
          /\ Len(inq["to"][i].data) = inq["to"][i].len
          /\ End(inq["to"][i]) = IF i = Len(inq["to"]) THEN x.offset
                                 ELSE inq["to"][i + 1].offset
    /\ Right(dst, Written)
    /\ x.mode # "inplace" => Len(dst) = Written
    /\ x.highwater <= x.maxack /\ x.maxack <= Written
    /\ \A j \in DOMAIN replies["to"] : \A a \in x.reqs :
          a.id = replies["to"][j].id => End(a) <= Written
    /\ x.offset = Len(src) =>
          x.maxack = Len(src) \/ \E a \in x.reqs : End(a) = Len(src)

LEMMA PutLoop ==
    ASSUME op = "put", x.pc \in {"loop", "recv"}
    PROVE  Put <=> (~torn /\ ~refused => Up)
BY DEF Put, Up

LEMMA SendWriteInv == ASSUME Inv, SendWrite PROVE Inv'
<1> DEFINE t == inq["to"]
           r == replies["to"]
           len == IF interrupted \/ x.status # "ok" THEN 0
                  ELSE Larger(0, Lesser(UploadBuflen, Len(src) - x.offset))
           id == x.id + 1
           d == SubSeq(src, x.offset + 1, x.offset + len)
           req == [id |-> id, type |-> "write", len |-> len, offset |-> x.offset,
                   data |-> d]
<1>1. /\ TypeOK /\ Queues /\ Limits /\ Put /\ op = "put" /\ x.pc = "loop"
      /\ UNCHANGED <<op, reorders, src, dst, replies, interrupted, attempts,
                     faults, torn, refused>>
  BY DEF Inv, SendWrite
<1>2. /\ x \in Transfer /\ x.reqs \in SUBSET Request /\ IsFiniteSet(x.reqs)
      /\ x.offset \in Nat /\ x.id \in Nat /\ x.ackid \in Nat
      /\ t \in Seq(Request) /\ r \in Seq(Response)
      /\ inq \in [Servers -> Seq(Request)]
      /\ Source(src) /\ Len(src) \in Nat
  <2>1. x.id \in Nat /\ x.ackid \in Nat
    BY <1>1 DEF TypeOK, Transfer
  <2> QED BY <1>1, <2>1, Typed
<1>3. UploadBuflen \in Nat \ {0} /\ NumRequests \in Nat
  BY SftpAssumption
<1>4. /\ num_req = x.id - x.ackid + 1 /\ num_req <= NumRequests /\ num_req \in Nat
      /\ \A a \in x.reqs : a.id <= x.id
  <2>1. num_req \in Nat
    BY <1>2, FS_CardinalityType DEF num_req
  <2> QED BY <1>1, <2>1 DEF Limits
<1>5. Matched(t, r, x.reqs)
  BY <1>1 DEF Queues, Server
<1>6. Get' /\ Cross' /\ Reading'
  BY <1>1 DEF Get, Cross, Reading
<1>8. CASE len = 0
  <2> DEFINE pc == IF x.reqs = {} THEN "drained" ELSE "recv"
  <2>1. x' = [x EXCEPT !.pc = pc] /\ inq' = inq
    BY <1>8 DEF SendWrite
  <2>2. /\ x' \in Transfer /\ x'.pc = pc /\ x'.reqs = x.reqs /\ x'.id = x.id
        /\ x'.ackid = x.ackid /\ x'.offset = x.offset /\ x'.mode = x.mode
        /\ x'.highwater = x.highwater /\ x'.maxack = x.maxack
        /\ x'.num_upload_req = x.num_upload_req /\ x'.status = x.status
        /\ x'.read_error = x.read_error /\ x'.write_error = x.write_error
    BY <1>2, <2>1 DEF Transfer
  <2>3. TypeOK' /\ Left'
    BY <1>1, <2>1, <2>2 DEF TypeOK, Source, Left
  <2>4. Queues'
    BY <1>1, <2>1, <2>2 DEF Queues, Server
  <2>5. Limits'
    <3>1. num_req' = num_req
      BY <2>2 DEF num_req
    <3>2. NumRequests <= NumRequests + 1 /\ num_req <= NumRequests + 1
      BY <1>3, <1>4
    <3> QED BY <1>1, <1>4, <2>2, <3>1, <3>2 DEF Limits
  <2>6. Put'
    <3> SUFFICES ASSUME ~torn, ~refused PROVE Put'
      BY <1>1 DEF Put
    <3>1. Up
      BY <1>1, PutLoop
    <3>2. interrupted \/ x.offset = Len(src)
      <4>1. CASE x.status # "ok"
        BY <3>1, <4>1 DEF Up, Failed
      <4>2. CASE x.status = "ok" /\ ~interrupted
        <5>1. x.offset <= Len(src)
          BY <3>1 DEF Up
        <5> QED BY <1>2, <1>3, <1>8, <4>2, <5>1 DEF Larger, Lesser
      <4> QED BY <4>1, <4>2
    <3>3. Up'
      BY <1>1, <2>1, <2>2, <3>1 DEF Up, Failed, Piece, Right, Written
    <3> QED BY <1>1, <2>2, <3>2, <3>3 DEF Put, Up
  <2> QED BY <1>6, <2>3, <2>4, <2>5, <2>6 DEF Inv
<1>9. CASE len # 0
  <2> DEFINE pc == IF Waits(id) THEN "recv" ELSE "loop"
             R == x.reqs \cup {req}
             o == x.offset + len
             s == Append(t, req)
  <2>1. x' = [x EXCEPT !.id = id, !.offset = o, !.reqs = R, !.pc = pc]
        /\ inq' = [inq EXCEPT !["to"] = Append(@, req)]
    BY <1>9, <1>2 DEF SendWrite, Transfer
  <2>2. /\ ~interrupted /\ x.status = "ok" /\ len \in Nat \ {0}
        /\ x.offset + len <= Len(src)
    BY <1>2, <1>3, <1>9 DEF Larger, Lesser
  <2> HIDE DEF len
  <2>3. Piece(d, x.offset) /\ Len(d) = len /\ d \in Seq(Int)
    <3>1. Piece(d, x.offset) /\ Len(d) = len
      BY <1>2, <2>2, SourcePiece
    <3> QED BY <3>1 DEF Piece
  <2> HIDE DEF d
  <2>4. /\ req \in Request /\ req.id = id /\ req.len = len /\ req.offset = x.offset
        /\ req.data = d /\ id \in Nat /\ o \in Nat
    BY <1>2, <2>2, <2>3 DEF Request
  <2>4b. id = x.id + 1 /\ o = x.offset + len
    OBVIOUS
  <2> HIDE DEF req, pc, id, o
  <2>5. R \in SUBSET Request /\ pc \in {"loop", "recv"}
    BY <1>2, <2>4 DEF pc
  <2>6. IsFiniteSet(R) /\ Cardinality(R) = num_req + 1
    <3>1. req \notin x.reqs
      BY <1>2, <1>4, <2>4, <2>4b
    <3> QED BY <1>2, <3>1, FS_AddElement DEF num_req
  <2> HIDE DEF R
  <2>7. /\ x' \in Transfer /\ x'.pc = pc /\ x'.reqs = R /\ x'.id = id
        /\ x'.ackid = x.ackid /\ x'.offset = o /\ x'.mode = x.mode
        /\ x'.highwater = x.highwater /\ x'.maxack = x.maxack
        /\ x'.num_upload_req = x.num_upload_req /\ x'.status = x.status
        /\ x'.read_error = x.read_error /\ x'.write_error = x.write_error
    BY <1>2, <2>1, <2>4, <2>5 DEF Transfer
  <2>8. /\ s \in Seq(Request) /\ Len(s) = Len(t) + 1 /\ Len(t) \in Nat
        /\ DOMAIN s = 1 .. Len(t) + 1 /\ DOMAIN t = 1 .. Len(t)
        /\ \A i \in 1 .. Len(t) : s[i] = t[i]
        /\ s[Len(t) + 1] = req
    BY <1>2, <2>4
  <2>9. /\ inq'["to"] = s /\ inq'["from"] = inq["from"]
        /\ inq' \in [Servers -> Seq(Request)]
    BY <1>2, <2>1, <2>8 DEF Servers
  <2>10. Matched(s, r, R)
    <3>1. (\A a \in x.reqs : a.id < id) /\ req.id >= id
      <4> SUFFICES ASSUME NEW a \in x.reqs PROVE a.id < id
        BY <2>4
      <4>1. a.id \in Nat /\ a.id <= x.id
        BY <1>2, <1>4 DEF Request
      <4> QED BY <4>1, <1>2, <2>4b
    <3> QED BY ONLY <3>1, <1>2, <1>5, <2>4, MatchedSendOne DEF s, R
  <2> HIDE DEF s, t, r
  <2>11. TypeOK' /\ Left'
    BY <1>1, <2>5, <2>6, <2>7, <2>9 DEF TypeOK, Source, Left
  <2>12. Queues'
    BY <1>1, <2>5, <2>7, <2>9, <2>10 DEF Queues, Server, t, r
  <2>13. Limits'
    <3>1. num_req' = num_req + 1
      BY <2>6, <2>7 DEF num_req
    <3>2. num_req + 1 = id - x.ackid + 1
      <4>1. num_req = x.id - x.ackid + 1 /\ x.id \in Nat /\ x.ackid \in Nat
        BY <1>2, <1>4
      <4> QED BY ONLY <4>1, <2>4b
    <3>3. num_req + 1 <= IF pc = "loop" THEN NumRequests ELSE NumRequests + 1
      <4>1. CASE pc = "loop"
        <5>1. ~(id - x.ackid >= NumRequests)
          BY <4>1 DEF pc, Waits
        <5> QED BY <4>1, <5>1, <3>2, <1>2, <1>3, <2>4
      <4>2. CASE pc # "loop"
        BY <4>2, <1>3, <1>4
      <4> QED BY <4>1, <4>2
    <3>4. \A a \in R : a.id <= id
      <4> TAKE a \in R
      <4>1. CASE a = req
        BY <4>1, <2>4
      <4>2. CASE a \in x.reqs
        <5>1. a.id \in Nat /\ a.id <= x.id
          BY <4>2, <1>2, <1>4 DEF Request
        <5> QED BY <5>1, <1>2, <2>4b
      <4> QED BY <4>1, <4>2 DEF R
    <3> QED BY <1>1, <2>7, <3>1, <3>2, <3>3, <3>4 DEF Limits
  <2>14. Put'
    <3> SUFFICES ASSUME ~torn, ~refused PROVE Put'
      BY <1>1 DEF Put
    <3>1. Up
      BY <1>1, PutLoop
    <3>2. Written' = Written
      <4>1. CASE Len(t) = 0
        <5>1. t = <<>>
          BY <4>1, <1>2, EmptySeq DEF t
        <5>2. s # <<>> /\ s[1] = req
          <6>1. Len(s) # 0
            BY <2>8
          <6>2. s # <<>>
            BY <6>1, <2>8, EmptySeq
          <6>3. Len(t) + 1 = 1
            BY <4>1
          <6> QED BY <6>2, <6>3, <2>8
        <5> QED BY <5>1, <5>2, <2>4, <2>9 DEF Written, t
      <4>2. CASE Len(t) # 0
        <5>1. t # <<>>
          BY <4>2, <1>2, EmptySeq
        <5>2. s # <<>>
          <6>1. Len(s) # 0
            BY <2>8
          <6> QED BY <6>1, <2>8, EmptySeq
        <5>3. 1 \in 1 .. Len(t) /\ s[1] = t[1]
          BY <4>2, <2>8
        <5> QED BY <5>1, <5>2, <5>3, <2>9 DEF Written, t
      <4> QED BY <4>1, <4>2
    <3>3. \A i \in DOMAIN s :
             /\ Piece(s[i].data, s[i].offset)
             /\ Len(s[i].data) = s[i].len
             /\ End(s[i]) = IF i = Len(s) THEN o ELSE s[i + 1].offset
      <4> TAKE i \in DOMAIN s
      <4>1. CASE i \in 1 .. Len(t)
        <5>1. /\ Piece(t[i].data, t[i].offset) /\ Len(t[i].data) = t[i].len
              /\ End(t[i]) = IF i = Len(t) THEN x.offset ELSE t[i + 1].offset
          BY <4>1, <3>1, <2>8 DEF Up, t
        <5>2. s[i] = t[i] /\ i # Len(s)
          BY <4>1, <2>8
        <5>3. s[i + 1].offset = IF i = Len(t) THEN x.offset ELSE t[i + 1].offset
          <6>1. CASE i = Len(t)
            BY <6>1, <2>4, <2>8
          <6>2. CASE i # Len(t)
            <7>1. i + 1 \in 1 .. Len(t)
              BY <4>1, <6>2, <2>8
            <7> QED BY <7>1, <6>2, <2>8
          <6> QED BY <6>1, <6>2
        <5> QED BY <5>1, <5>2, <5>3
      <4>2. CASE i = Len(t) + 1
        <5>1. s[i] = req /\ i = Len(s)
          BY <4>2, <2>8
        <5>2. End(req) = o
          BY <2>4, <2>4b DEF End
        <5> QED BY <5>1, <5>2, <2>3, <2>4
      <4> QED BY <4>1, <4>2, <2>8
    <3>4. ASSUME NEW j \in DOMAIN r, NEW a \in R, a.id = r[j].id
          PROVE  End(a) <= Written
      <4>1. PICK b \in x.reqs : b.id = r[j].id
        BY <1>5 DEF Matched
      <4>2. b.id \in Nat /\ b.id <= x.id
        BY <1>2, <1>4 DEF Request
      <4>3. a # req
        BY <3>4, <4>1, <4>2, <1>2, <2>4, <2>4b
      <4> QED BY <3>4, <4>3, <3>1 DEF Up, R, r
    <3>5. o = Len(src) => \E a \in R : End(a) = Len(src)
      BY <2>4, <2>4b DEF End, R
    <3>6. Up'
      <4>1. Failed' <=> Failed
        BY <2>7 DEF Failed
      <4>2. \A e, p : Piece(e, p)' <=> Piece(e, p)
        BY <1>1 DEF Piece
      <4>3. Right(dst, Written)'
        BY <1>1, <3>1, <3>2 DEF Up, Right
      <4>4. \A i \in DOMAIN inq'["to"] :
             /\ Piece(inq["to"][i].data, inq["to"][i].offset)'
             /\ Len(inq'["to"][i].data) = inq'["to"][i].len
             /\ End(inq'["to"][i]) = IF i = Len(inq'["to"]) THEN x'.offset
                                    ELSE inq'["to"][i + 1].offset
        BY <2>7, <2>9, <3>3, <4>2
      <4>5. \A j \in DOMAIN replies'["to"] : \A a \in x'.reqs :
                a.id = replies'["to"][j].id => End(a) <= Written'
        BY <1>1, <2>7, <3>2, <3>4 DEF r
      <4>6. /\ x'.mode # "inplace" => Len(dst') = Written'
            /\ x'.highwater <= x'.maxack /\ x'.maxack <= Written'
            /\ \A j \in DOMAIN replies'["to"] : replies'["to"][j].status = "ok"
        BY <1>1, <2>7, <3>1, <3>2 DEF Up
      <4>7. x'.offset <= Len(src') /\ (x'.offset = Len(src') =>
              x'.maxack = Len(src') \/ \E a \in x'.reqs : End(a) = Len(src'))
        BY <1>1, <2>2, <2>4b, <2>7, <3>5
      <4> HIDE DEF Failed, Written, End, Right, Piece
      <4> QED BY <3>1, <4>1, <4>3, <4>4, <4>5, <4>6, <4>7 DEF Up
    <3> QED BY <1>1, <3>6, <2>5, <2>7 DEF Put, Up
  <2> QED BY <1>6, <2>11, <2>12, <2>13, <2>14 DEF Inv
<1> QED BY <1>8, <1>9

LEMMA ReceiveAckInv == ASSUME Inv, ReceiveAck PROVE Inv'
<1> DEFINE t == inq["to"]
           r == replies["to"]
<1>1. /\ TypeOK /\ Queues /\ Limits /\ Put /\ op = "put" /\ x.pc = "recv"
      /\ UNCHANGED <<op, reorders, src, dst, inq, interrupted, attempts, faults,
                     torn, refused>>
  BY DEF Inv, ReceiveAck
<1>2. /\ x \in Transfer /\ x.reqs \in SUBSET Request /\ IsFiniteSet(x.reqs)
      /\ x.offset \in Nat /\ x.id \in Nat /\ x.ackid \in Nat
      /\ x.maxack \in Nat /\ x.highwater \in Nat
      /\ t \in Seq(Request) /\ r \in Seq(Response)
      /\ replies \in [Servers -> Seq(Response)]
      /\ Source(src) /\ Len(src) \in Nat
  BY <1>1 DEF TypeOK, Transfer, Servers, Source
<1>3. Matched(t, r, x.reqs)
  BY <1>1 DEF Queues, Server
<1>4. PICK i \in NextReplies("to") :
         /\ replies' = [replies EXCEPT !["to"] = RemoveAt(@, i)]
         /\ \/ request_find(x.reqs, replies["to"][i].id) = {}
            \/ \E req \in request_find(x.reqs, replies["to"][i].id) :
                  x' = [Acknowledged(x, req, req.len) EXCEPT
                          !.pc = "loop", !.status = replies["to"][i].status,
                          !.reqs = @ \ {req}, !.ackid = @ + 1]
  BY DEF ReceiveAck
<1>5. i \in DOMAIN r /\ i \in 1 .. Len(r)
  <2>1. "to" \in Servers
    BY DEF Servers
  <2> QED BY <1>1, <2>1, NextReply
<1>6. request_find(x.reqs, r[i].id) # {}
  BY <1>3, <1>5 DEF Matched, request_find
<1>7. PICK req \in request_find(x.reqs, r[i].id) :
         x' = [Acknowledged(x, req, req.len) EXCEPT
                 !.pc = "loop", !.status = r[i].status,
                 !.reqs = @ \ {req}, !.ackid = @ + 1]
  BY <1>4, <1>6
<1>8. req \in x.reqs /\ req.id = r[i].id
  BY DEF request_find
<1>9. req \in Request /\ req.len \in Nat /\ req.offset \in Nat /\ r[i] \in Response
  BY <1>2, <1>5, <1>8 DEF Request
<1> DEFINE y == Acknowledged(x, req, req.len)
           R == x.reqs \ {req}
           s == RemoveAt(r, i)
           e == r[i].status
           k == x.ackid + 1
<1>10. y \in Transfer /\ Acked(x, y, req.offset, req.len)
  BY <1>2, <1>9, AcknowledgedFact
<1> HIDE DEF y
<1>11. x' = [y EXCEPT !.pc = "loop", !.status = e, !.reqs = R, !.ackid = k]
  <2>1. y.reqs = x.reqs /\ y.ackid = x.ackid
    BY <1>10 DEF Acked
  <2> QED BY <1>7, <1>10, <2>1 DEF Transfer, y
<1>12. e \in {"ok", "data", "eof", "failure"}
  BY <1>9 DEF Response
<1>13. R \in SUBSET Request /\ k \in Nat /\ k = x.ackid + 1
  BY <1>2
<1>14. IsFiniteSet(R) /\ Cardinality(R) = num_req - 1 /\ num_req \in Nat \ {0}
  <2>1. num_req \in Nat
    BY <1>2, FS_CardinalityType DEF num_req
  <2>2. IsFiniteSet(R) /\ Cardinality(R) = num_req - 1
    BY <1>2, <1>8, FS_RemoveElement DEF num_req
  <2>3. Cardinality(R) \in Nat
    BY <2>2, FS_CardinalityType
  <2> QED BY <2>1, <2>2, <2>3
<1> HIDE DEF R, k, e
<1>15. /\ x' \in Transfer /\ x'.pc = "loop" /\ x'.reqs = R /\ x'.ackid = k
       /\ x'.status = e /\ x'.id = y.id /\ x'.offset = y.offset /\ x'.mode = y.mode
       /\ x'.highwater = y.highwater /\ x'.maxack = y.maxack
       /\ x'.num_upload_req = y.num_upload_req
       /\ x'.read_error = y.read_error /\ x'.write_error = y.write_error
  BY <1>10, <1>11, <1>12, <1>13 DEF Transfer
<1>16. /\ x'.id = x.id /\ x'.offset = x.offset /\ x'.mode = x.mode
       /\ x'.num_upload_req = x.num_upload_req
       /\ x'.read_error = x.read_error /\ x'.write_error = x.write_error
       /\ x'.maxack = Larger(x.maxack, req.offset + req.len)
       /\ x'.highwater = x'.maxack \/ x'.highwater = x.highwater
  BY <1>10, <1>15 DEF Acked
<1>17. /\ s \in Seq(Response) /\ DOMAIN s = 1 .. Len(r) - 1 /\ DOMAIN r = 1 .. Len(r)
       /\ Len(r) \in Nat
       /\ \A j \in 1 .. Len(r) - 1 : s[j] = IF j < i THEN r[j] ELSE r[j + 1]
  <2>1. DOMAIN r = 1 .. Len(r) /\ Len(r) \in Nat
    BY <1>2
  <2>2. /\ s \in Seq(Response) /\ DOMAIN s = 1 .. Len(r) - 1
        /\ \A j \in 1 .. Len(r) - 1 : s[j] = IF j < i THEN r[j] ELSE r[j + 1]
    <3>1. r \in Seq(Response) /\ i \in 1 .. Len(r)
      BY <1>2, <1>5
    <3> HIDE DEF r
    <3> QED BY ONLY <3>1, RemoveAtFact DEF s
  <2> QED BY <2>1, <2>2
<1>18. Matched(t, s, R)
  BY ONLY <1>2, <1>3, <1>5, <1>8, MatchedReceive DEF s, R
<1>19. /\ replies'["to"] = s /\ replies'["from"] = replies["from"]
       /\ replies' \in [Servers -> Seq(Response)]
  BY <1>2, <1>4, <1>17 DEF Servers
<1>20. \A j \in DOMAIN s : \E l \in DOMAIN r : s[j] = r[l]
  <2> TAKE j \in DOMAIN s
  <2>1. j \in DOMAIN r /\ j + 1 \in DOMAIN r
    BY <1>17
  <2>2. s[j] = r[j] \/ s[j] = r[j + 1]
    BY <1>17
  <2> QED BY <2>1, <2>2
<1> HIDE DEF s, t, r
<1>21. TypeOK' /\ Left'
  BY <1>1, <1>14, <1>15, <1>19 DEF TypeOK, Source, Left
<1>22. Queues'
  BY <1>1, <1>15, <1>16, <1>18, <1>19 DEF Queues, Server, t, r
<1>23. Limits'
  <2>1. /\ num_req = x.id - x.ackid + 1 /\ num_req <= NumRequests + 1
        /\ \A a \in x.reqs : a.id <= x.id
    BY <1>1 DEF Limits
  <2>2. num_req' = num_req - 1
    BY <1>14, <1>15 DEF num_req
  <2>3. num_req - 1 = x.id - k + 1 /\ num_req - 1 <= NumRequests
    <3>1. num_req \in Nat /\ NumRequests \in Nat /\ x.id \in Nat /\ x.ackid \in Nat
      BY <1>2, <1>14, SftpAssumption
    <3> HIDE DEF num_req
    <3> QED BY ONLY <2>1, <3>1, <1>13
  <2> QED BY <1>1, <1>15, <1>16, <2>1, <2>2, <2>3 DEF Limits, R
<1>24. Get' /\ Cross' /\ Reading'
  BY <1>1 DEF Get, Cross, Reading
<1>25. Put'
  <2> SUFFICES ASSUME ~torn, ~refused PROVE Put'
    BY <1>1 DEF Put
  <2>1. Up
    BY <1>1, PutLoop
  <2>2. e = "ok"
    BY <1>5, <2>1 DEF Up, e, r
  <2>3. Written' = Written
    BY <1>1, <1>16 DEF Written
  <2>4. Written \in Nat /\ Written <= Len(src)
    <3>1. CASE t = <<>>
      BY <3>1, <1>2, <2>1 DEF Up, Written, t
    <3>2. CASE t # <<>>
      <4>1. 1 \in DOMAIN t /\ t[1] \in Request
        BY <3>2, <1>2
      <4>2. t[1].offset \in Nat /\ t[1].data \in Seq(Int)
        BY <4>1 DEF Request
      <4>3. Piece(t[1].data, t[1].offset)
        BY <4>1, <2>1 DEF Up, t
      <4>4. t[1].offset <= Len(src)
        BY <4>2, <4>3, <1>2 DEF Piece
      <4> QED BY <3>2, <4>2, <4>4 DEF Written, t
    <3> QED BY <3>1, <3>2
  <2>5. End(req) <= Written /\ End(req) \in Nat /\ End(req) = req.offset + req.len
    BY <1>5, <1>8, <1>9, <2>1 DEF Up, r, End
  <2>6. /\ x'.maxack = Larger(x.maxack, End(req)) /\ x'.maxack \in Nat
        /\ x'.maxack <= Written /\ x.maxack <= x'.maxack /\ End(req) <= x'.maxack
    <3>1. x'.maxack = Larger(x.maxack, End(req))
      BY <1>16, <2>5
    <3>2. x.maxack <= Written
      BY <2>1 DEF Up
    <3> QED BY <3>1, <3>2, <1>2, <2>4, <2>5 DEF Larger
  <2>7. x'.highwater <= x'.maxack
    <3>1. x.highwater <= x.maxack
      BY <2>1 DEF Up
    <3> QED BY <3>1, <1>2, <1>16, <2>6
  <2>8. x.offset = Len(src) => x'.maxack = Len(src) \/ \E a \in R : End(a) = Len(src)
    <3> SUFFICES ASSUME x.offset = Len(src)
                 PROVE  x'.maxack = Len(src) \/ \E a \in R : End(a) = Len(src)
      OBVIOUS
    <3>1. CASE x.maxack = Len(src) \/ End(req) = Len(src)
      BY <3>1, <1>2, <2>4, <2>5, <2>6
    <3>2. CASE \E a \in x.reqs : End(a) = Len(src) /\ a # req
      BY <3>2 DEF R
    <3> QED BY <3>1, <3>2, <2>1 DEF Up
  <2>9. Up'
    <3>1. ~Failed'
      BY <1>15, <1>16, <2>1, <2>2 DEF Up, Failed
    <3>2. \A j \in DOMAIN s : s[j].status = "ok"
      BY <1>20, <2>1 DEF Up, r
    <3>3. \A j \in DOMAIN s : \A a \in R : a.id = s[j].id => End(a) <= Written
      BY <1>20, <2>1 DEF Up, r, R
    <3>4. Right(dst, Written)'
      BY <1>1, <2>1, <2>3 DEF Up, Right
    <3>5. \A c, p : Piece(c, p)' <=> Piece(c, p)
      BY <1>1 DEF Piece
    <3>6. \A j \in DOMAIN inq'["to"] :
             /\ Piece(inq["to"][j].data, inq["to"][j].offset)'
             /\ Len(inq'["to"][j].data) = inq'["to"][j].len
             /\ End(inq'["to"][j]) = IF j = Len(inq'["to"]) THEN x'.offset
                                    ELSE inq'["to"][j + 1].offset
      BY <1>1, <1>16, <2>1, <3>5 DEF Up
    <3>7. /\ x'.mode # "inplace" => Len(dst') = Written'
          /\ x'.maxack <= Written' /\ x'.offset <= Len(src')
          /\ (x'.offset = Len(src') =>
                x'.maxack = Len(src') \/ \E a \in x'.reqs : End(a) = Len(src'))
      BY <1>1, <1>15, <1>16, <2>1, <2>3, <2>6, <2>8 DEF Up
    <3>8. \A j \in DOMAIN replies'["to"] :
             /\ replies'["to"][j].status = "ok"
             /\ \A a \in x'.reqs : a.id = replies'["to"][j].id => End(a) <= Written'
      BY <1>15, <1>19, <2>3, <3>2, <3>3
    <3> HIDE DEF Failed, Written, End, Right, Piece
    <3> QED BY <2>7, <3>1, <3>4, <3>6, <3>7, <3>8 DEF Up
  <2> QED BY <1>1, <1>15, <2>9 DEF Put, Up
<1> QED BY <1>21, <1>22, <1>23, <1>24, <1>25 DEF Inv

-----------------------------------------------------------------------------
(* The end of a transfer. *)

LEMMA EmptyOrWhole == ASSUME Source(src) PROVE IsPrefix(<<>>, src) /\ IsPrefix(src, src)
<1>1. <<>> \in Seq(Int) /\ Len(<<>>) = 0 /\ src \in Seq(Int) /\ Len(src) \in Nat
  BY DEF Source
<1>2. Right(<<>>, Len(<<>>)) /\ Right(src, Len(src))
  BY <1>1 DEF Right, Source
<1>3. Len(<<>>) <= Len(src) /\ Len(src) <= Len(src)
  BY <1>1
<1> QED BY <1>1, <1>2, <1>3, RightPrefix

\* With every byte of src in dst, all of them are right.
LEMMA AllBytes ==
    ASSUME Source(src), NEW f \in Seq(Int),
           \A p \in 1 .. Len(src) : p <= Len(f) /\ f[p] = p
    PROVE  Right(f, Len(src))
<1>1. Len(src) \in Nat /\ Len(f) \in Nat
  BY DEF Source
<1>2. CASE Len(src) = 0
  BY <1>1, <1>2 DEF Right
<1>3. CASE Len(src) # 0
  <2>1. Len(src) \in 1 .. Len(src)
    BY <1>1, <1>3
  <2> QED BY <2>1 DEF Right
<1> QED BY <1>2, <1>3

LEMMA DrainedInv == ASSUME Inv, Drained PROVE Inv'
<1>1. /\ TypeOK /\ Queues /\ Limits /\ Reading /\ Get /\ Cross /\ Put
      /\ x.pc = "drained" /\ x.num_upload_req = 0
      /\ UNCHANGED <<op, reorders, src, dst, inq, replies, interrupted,
                     attempts, faults, torn, refused>>
  BY DEF Inv, Drained
<1>2. x.reqs = {}
  BY <1>1 DEF Queues
<1>3. /\ x \in Transfer /\ x.offset \in Nat /\ x.maxack \in Nat /\ x.highwater \in Nat
      /\ Source(src) /\ Len(src) \in Nat /\ dst \in Seq(Int) /\ Len(dst) \in Nat
  BY <1>1 DEF TypeOK, Transfer, Source
<1>4. /\ inq["from"] = <<>> /\ inq["to"] = <<>>
      /\ replies["from"] = <<>> /\ replies["to"] = <<>>
  BY <1>1, <1>2, AtRest
<1> DEFINE g == ~Failed /\ ~interrupted
           h == IF g THEN x.maxack ELSE x.highwater
<1>5. x' = [x EXCEPT !.pc = "truncate", !.everything = g, !.highwater = h]
  BY <1>2, <1>3 DEF Drained, Transfer
<1>6. g \in BOOLEAN /\ h \in Nat /\ (g <=> ~Failed /\ ~interrupted)
      /\ (g => h = x.maxack) /\ (~g => h = x.highwater)
  BY <1>3
<1> HIDE DEF g, h
<1>7. /\ x' \in Transfer /\ x'.pc = "truncate" /\ x'.everything = g /\ x'.highwater = h
      /\ x'.reqs = x.reqs /\ x'.id = x.id /\ x'.ackid = x.ackid /\ x'.offset = x.offset
      /\ x'.mode = x.mode /\ x'.maxack = x.maxack /\ x'.reordered = x.reordered
      /\ x'.num_upload_req = x.num_upload_req /\ x'.status = x.status
      /\ x'.read_error = x.read_error /\ x'.write_error = x.write_error
  BY <1>3, <1>5, <1>6 DEF Transfer
<1>8. TypeOK' /\ Left' /\ Reading'
  BY <1>1, <1>2, <1>7 DEF TypeOK, Source, Left, Reading
<1>9. Queues'
  BY <1>1, <1>2, <1>7 DEF Queues, Server
<1>10. Limits'
  BY <1>1, <1>7 DEF Limits, num_req
<1>11. Failed' <=> Failed
  BY <1>7 DEF Failed
<1>12. Get'
  <2> SUFFICES ASSUME op = "get", ~torn PROVE Get'
    BY <1>1 DEF Get
  <2>1. /\ x.highwater <= Len(src) /\ x.status = "ok"
        /\ x.mode # "inplace" => Len(dst) <= Len(src)
        /\ x.mode # "inplace" /\ ~x.reordered /\ ~x.write_error => Len(dst) = x.highwater
        /\ Right(dst, x.highwater)
        /\ x.highwater <= x.maxack /\ x.maxack <= Len(src)
        /\ ~x.reordered => x.maxack = x.highwater
        /\ Downloaded /\ SentAll
    BY <1>1 DEF Get
  <2>2. g => x.maxack = Len(src) /\ Right(dst, Len(src))
    <3> SUFFICES ASSUME g PROVE x.maxack = Len(src) /\ Right(dst, Len(src))
      OBVIOUS
    <3>1. ~x.read_error /\ ~x.write_error /\ ~interrupted
      BY <1>6 DEF Failed
    <3>2. x.offset >= Len(src)
      BY <1>1, <2>1, <3>1 DEF SentAll
    <3>3. ASSUME NEW p \in 1 .. Len(src)
          PROVE  p <= Len(dst) /\ dst[p] = p /\ p <= x.maxack
      <4>1. p <= x.offset
        BY <1>3, <3>2
      <4> QED BY <1>2, <2>1, <3>1, <4>1 DEF Downloaded
    <3>4. Right(dst, Len(src))
      BY <1>3, <3>3, AllBytes
    <3>5. x.maxack >= Len(src)
      <4>1. CASE Len(src) = 0
        BY <4>1, <1>3
      <4>2. CASE Len(src) # 0
        <5>1. Len(src) \in 1 .. Len(src)
          BY <4>2, <1>3
        <5> QED BY <5>1, <3>3, <1>3
      <4> QED BY <4>1, <4>2
    <3> QED BY <3>4, <3>5, <2>1, <1>3
  <2>3. /\ h <= Len(src) /\ Right(dst, h)
        /\ x.mode # "inplace" /\ ~x.reordered /\ ~x.write_error => Len(dst) = h
        /\ g => h = Len(src)
    <3>1. CASE g
      BY <3>1, <2>1, <2>2, <1>3, <1>6
    <3>2. CASE ~g
      BY <3>2, <2>1, <1>6
    <3> QED BY <3>1, <3>2
  <2>4. Right(dst, x.highwater)'
    BY <1>1, <1>7, <2>3 DEF Right
  <2> QED BY <1>1, <1>6, <1>7, <1>11, <2>1, <2>3, <2>4 DEF Get
<1>13. Cross'
  <2> SUFFICES ASSUME op = "cross" PROVE Cross'
    BY <1>1 DEF Cross
  <2>1. Len(dst) <= Len(src) /\ x.status = "ok" /\ Forwarded /\ SentAll /\ ~interrupted
    BY <1>1 DEF Cross, Queues
  <2>2. ~Failed => dst = src
    <3> SUFFICES ASSUME ~Failed PROVE dst = src
      OBVIOUS
    <3>1. ~x.read_error /\ ~x.write_error
      BY DEF Failed
    <3>2. x.offset >= Len(src)
      BY <1>1, <2>1, <3>1 DEF SentAll
    <3>3. ASSUME NEW p \in 1 .. Len(src) PROVE p <= Len(dst) /\ dst[p] = p
      <4>1. p <= x.offset
        BY <1>3, <3>2
      <4>2. ~ErrorInReplies /\ DOMAIN inq["to"] = {}
        BY <1>4 DEF ErrorInReplies
      <4> QED BY <1>2, <2>1, <3>1, <4>1, <4>2 DEF Forwarded
    <3>4. Right(dst, Len(src))
      BY <1>3, <3>3, AllBytes
    <3>5. Len(dst) = Len(src)
      BY <3>4, <2>1, <1>3 DEF Right
    <3> QED BY <3>4, <3>5, <2>1, <1>3, RightPrefix
  <2> QED BY <1>1, <1>4, <1>7, <1>11, <2>1, <2>2 DEF Cross
<1>14. Put'
  <2> SUFFICES ASSUME op = "put", ~torn, ~refused PROVE Put'
    BY <1>1 DEF Put
  <2>1. /\ Up /\ (interrupted \/ x.offset = Len(src))
    BY <1>1 DEF Put, Up
  <2>2. Written = x.offset /\ Written' = x.offset
    BY <1>1, <1>4, <1>7 DEF Written
  <2>3. g => x.offset = Len(src) /\ x.maxack = Len(src)
    BY <1>2, <1>6, <2>1 DEF Up
  <2>4. h <= x.maxack /\ (g => h = Len(src)) /\ (g \/ interrupted)
    <3>1. x.highwater <= x.maxack /\ ~Failed
      BY <2>1 DEF Up
    <3>2. CASE g
      BY <3>2, <2>3, <1>3, <1>6
    <3>3. CASE ~g
      BY <3>1, <3>3, <1>6
    <3> QED BY <3>2, <3>3
  <2>5. Right(dst, Written)'
    BY <1>1, <2>1, <2>2 DEF Up, Right
  <2>6. Up'
    <3>1. DOMAIN inq'["to"] = {} /\ DOMAIN replies'["to"] = {}
      BY <1>1, <1>4
    <3> HIDE DEF Written, Failed, Right
    <3> QED BY <1>1, <1>7, <1>11, <2>1, <2>2, <2>4, <2>5, <3>1 DEF Up
  <2> QED BY <1>1, <1>7, <2>1, <2>3, <2>4, <2>6 DEF Put, Up
<1> QED BY <1>8, <1>9, <1>10, <1>12, <1>13, <1>14 DEF Inv

LEMMA TruncateInv == ASSUME Inv, TruncateDst PROVE Inv'
<1>1. /\ TypeOK /\ Queues /\ Limits /\ Reading /\ Get /\ Cross /\ Put
      /\ x.pc = "truncate"
      /\ UNCHANGED <<op, reorders, src, inq, replies, interrupted, attempts,
                     torn, refused>>
  BY DEF Inv, TruncateDst
<1>2. x.reqs = {} /\ x.num_upload_req = 0
  BY <1>1 DEF Queues
<1>3. /\ x \in Transfer /\ x.offset \in Nat /\ x.maxack \in Nat /\ x.highwater \in Nat
      /\ Source(src) /\ Len(src) \in Nat /\ dst \in Seq(Int) /\ Len(dst) \in Nat
      /\ op \in {"get", "put", "cross"}
  BY <1>1 DEF TypeOK, Transfer, Source
<1>4. /\ inq["from"] = <<>> /\ inq["to"] = <<>>
      /\ replies["from"] = <<>> /\ replies["to"] = <<>>
  BY <1>1, <1>2, AtRest
<1> DEFINE h == x.highwater
           c == Truncate(dst, h)
<1>5. PICK failed \in BOOLEAN :
         /\ failed => ToTruncate /\ faults > 0
         /\ faults' = IF failed THEN faults - 1 ELSE faults
         /\ x' = [x EXCEPT !.pc = "close", !.uncut = failed]
         /\ dst' = IF failed \/ ~ToTruncate THEN dst
                   ELSE IF op = "cross" THEN <<>> ELSE c
  BY <1>4 DEF TruncateDst, Synchronous
<1>f. faults' \in Nat
  <2>1. faults \in Nat
    BY <1>1 DEF TypeOK
  <2> QED BY <2>1, <1>5
<1>6. /\ x' \in Transfer /\ x'.pc = "close" /\ x'.everything = x.everything
      /\ x'.highwater = x.highwater
      /\ x'.reqs = x.reqs /\ x'.id = x.id /\ x'.ackid = x.ackid /\ x'.offset = x.offset
      /\ x'.mode = x.mode /\ x'.maxack = x.maxack /\ x'.reordered = x.reordered
      /\ x'.num_upload_req = x.num_upload_req /\ x'.status = x.status
      /\ x'.read_error = x.read_error /\ x'.write_error = x.write_error
      /\ x'.uncut = failed
  BY <1>3, <1>5 DEF Transfer
<1>7. c \in Seq(Int) /\ Len(c) = h /\ (Right(dst, h) => Right(c, h))
  BY <1>3, TruncateFact
<1> HIDE DEF c, h
<1>8. dst' \in Seq(Int)
  <2>1. <<>> \in Seq(Int)
    OBVIOUS
  <2> QED BY <2>1, <1>3, <1>5, <1>7
<1>9. TypeOK' /\ Left' /\ Reading'
  BY <1>1, <1>2, <1>6, <1>8, <1>f DEF TypeOK, Source, Left, Reading
<1>10. Queues'
  BY <1>1, <1>2, <1>6 DEF Queues, Server
<1>11. Limits'
  BY <1>1, <1>6 DEF Limits, num_req
<1>12. Failed' <=> Failed
  BY <1>6 DEF Failed
<1>13. ASSUME Right(dst, h), h <= Len(src)
       PROVE  IsPrefix(c, src) /\ (h = Len(src) => c = src)
  <2>1. Len(c) <= Len(src) /\ Right(c, Len(c))
    BY <1>7, <1>13
  <2> QED BY <1>3, <1>7, <2>1, RightPrefix
<1>14. \A f : IsPrefix(f, src)' <=> IsPrefix(f, src')
  OBVIOUS
<1>15. CASE op = "get"
  <2>1. Put' /\ Cross'
    BY <1>1, <1>15 DEF Put, Cross
  <2>2. Get'
    <3> SUFFICES ASSUME ~torn PROVE Get'
      BY <1>1 DEF Get
    <3>1. /\ h <= Len(src) /\ x.status = "ok"
          /\ x.mode # "inplace" => Len(dst) <= Len(src)
          /\ x.mode # "inplace" /\ ~x.reordered /\ ~x.write_error => Len(dst) = h
          /\ Right(dst, h)
          /\ ~Failed /\ ~interrupted => h = Len(src)
      BY <1>1, <1>15 DEF Get, h
    <3>2. /\ x.mode # "inplace" => Len(dst') <= Len(src)
          /\ x.mode # "inplace" /\ ~x.reordered /\ ~x.write_error => Len(dst') = h
          /\ failed => Right(dst', h)
          /\ ~failed => IsPrefix(dst', src)
          /\ ~failed /\ ~Failed /\ ~interrupted => dst' = src
      <4>0. CASE failed
        <5>1. dst' = dst
          BY <1>5, <4>0
        <5> QED BY <5>1, <4>0, <3>1
      <4>1. CASE ToTruncate /\ ~failed
        <5>1. dst' = c
          BY <1>5, <1>15, <4>1
        <5> QED BY <5>1, <3>1, <1>7, <1>13, <4>1
      <4>2. CASE ~ToTruncate
        <5>1. dst' = dst /\ x.mode # "inplace" /\ ~Failed /\ ~interrupted
          BY <1>5, <1>15, <4>2 DEF ToTruncate
        <5>2. Len(dst) = Len(src) /\ Right(dst, Len(dst))
          BY <5>1, <3>1, <1>3 DEF Right
        <5>3. IsPrefix(dst, src) /\ dst = src
          <6>1. Len(dst) <= Len(src)
            BY <5>2, <1>3
          <6> QED BY <6>1, <5>2, <1>3, RightPrefix
        <5>4. ~failed
          BY <1>5, <4>2
        <5> QED BY <5>1, <5>2, <5>3, <5>4, <3>1, <1>3
      <4> QED BY <4>0, <4>1, <4>2
    <3>3. x'.uncut => Right(dst', x'.highwater)
      BY <1>6, <3>2 DEF h
    <3>4. (\A f : Right(f, x.highwater)' <=> Right(f, x'.highwater)) /\ Failed' = Failed
      BY <1>12 DEF Failed
    <3>5. Right(dst, x.highwater)' <=> Right(dst', x'.highwater)
      BY DEF Right
    <3> HIDE DEF Right, Failed
    <3> QED BY <1>1, <1>6, <1>12, <3>1, <3>2, <3>3, <3>5 DEF Get, h
  <2> QED BY <1>9, <1>10, <1>11, <2>1, <2>2 DEF Inv
<1>16. CASE op = "cross"
  <2>1. Put' /\ Get'
    BY <1>1, <1>16 DEF Put, Get
  <2>2. (Failed \/ dst = src) /\ ~interrupted /\ x.status = "ok" /\ Len(dst) <= Len(src)
    BY <1>1, <1>16 DEF Cross, Queues
  <2>3. /\ dst' \in {dst, <<>>} /\ (~Failed => dst' = src)
        /\ ~failed => dst' = <<>> \/ dst' = src
    BY <1>5, <1>16, <2>2 DEF ToTruncate
  <2>4. Len(dst') <= Len(src)
    <3>1. Len(<<>>) = 0
      OBVIOUS
    <3> QED BY <2>2, <2>3, <3>1, <1>3
  <2>5. Cross'
    BY <1>1, <1>4, <1>6, <1>12, <2>2, <2>3, <2>4 DEF Cross
  <2> QED BY <1>9, <1>10, <1>11, <2>1, <2>5 DEF Inv
<1>17. CASE op = "put"
  <2>1. Get' /\ Cross'
    BY <1>1, <1>17 DEF Get, Cross
  <2>2. Put'
    <3> SUFFICES ASSUME ~torn, ~refused PROVE Put'
      BY <1>1 DEF Put
    <3>1. /\ Up /\ (x.everything \/ interrupted)
          /\ x.everything => x.offset = Len(src) /\ h = Len(src)
      BY <1>1, <1>17 DEF Put, Up, h
    <3>2. Written = x.offset
      BY <1>4 DEF Written
    <3>3. /\ ~Failed /\ x.offset <= Len(src) /\ Right(dst, x.offset)
          /\ x.mode # "inplace" => Len(dst) = x.offset
          /\ h <= x.maxack /\ x.maxack <= x.offset
      BY <3>1, <3>2 DEF Up, h
    <3>4. h <= x.offset /\ h <= Len(src) /\ Right(dst, h)
      <4>1. h \in Nat
        BY <1>3 DEF h
      <4>2. h <= x.offset /\ h <= Len(src)
        BY <4>1, <1>3, <3>3
      <4> QED BY <4>1, <4>2, <1>3, <3>3 DEF Right
    <3>5. /\ (failed => x.mode # "inplace") => IsPrefix(dst', src)
          /\ ~failed /\ x.everything => dst' = src
      <4>0. CASE failed
        <5>1. dst' = dst
          BY <1>5, <4>0
        <5>2. ASSUME x.mode # "inplace" PROVE IsPrefix(dst, src)
          <6>1. Len(dst) <= Len(src) /\ Right(dst, Len(dst))
            BY <5>2, <3>3
          <6> QED BY <6>1, <1>3, RightPrefix
        <5> QED BY <4>0, <5>1, <5>2
      <4>1. CASE ToTruncate /\ ~failed
        <5>1. dst' = c
          BY <1>5, <1>17, <4>1
        <5> QED BY <5>1, <3>1, <3>4, <1>13
      <4>2. CASE ~ToTruncate
        <5>1. dst' = dst /\ x.mode # "inplace"
          BY <1>5, <1>17, <4>2 DEF ToTruncate
        <5>2. Len(dst) <= Len(src) /\ Right(dst, Len(dst))
          BY <5>1, <3>3
        <5>3. IsPrefix(dst, src) /\ (Len(dst) = Len(src) => dst = src)
          BY <5>2, <1>3, RightPrefix
        <5> QED BY <5>1, <5>3, <3>1, <3>3
      <4> QED BY <4>0, <4>1, <4>2
    <3>6. DOMAIN replies'["to"] = {}
      BY <1>1, <1>4
    <3> QED BY <1>1, <1>6, <1>12, <3>3, <3>5, <3>6 DEF Put
  <2> QED BY <1>9, <1>10, <1>11, <2>1, <2>2 DEF Inv
<1> QED BY <1>3, <1>15, <1>16, <1>17

\* What Close and Kill have in common: nothing is under way any more.
LEMMA Ending ==
    ASSUME TypeOK, Queues, x' \in Transfer, x'.pc = "idle", x'.reqs = {},
           x'.num_upload_req = 0, x'.mode = x.mode, faults' \in Nat, torn' \in BOOLEAN,
           inq' \in [Servers -> Seq(Request)], replies' \in [Servers -> Seq(Response)],
           inq'["from"] = <<>>, inq'["to"] = <<>>,
           replies'["from"] = <<>>, replies'["to"] = <<>>,
           UNCHANGED <<op, reorders, src, dst, interrupted, attempts, refused>>
    PROVE  TypeOK' /\ Queues' /\ Limits' /\ Reading' /\ Get' /\ Cross' /\ Put'
<1>1. TypeOK'
  <2>1. IsFiniteSet(x.reqs)'
    BY FS_EmptySet
  <2> QED BY <2>1 DEF TypeOK, Source
<1>2. Queues'
  <2>1. Matched(inq[Server], replies[Server], x.reqs)'
    <3>1. Server' = "to" \/ Server' = "from"
      BY DEF Server
    <3>2. inq'[Server'] = <<>> /\ replies'[Server'] = <<>> /\ x'.reqs = {}
      BY <3>1
    <3> QED BY <3>2, MatchedNothing
  <2>2. Len(inq'["to"]) + Len(replies'["to"]) = 0
    OBVIOUS
  <2>3. op = "cross" => x.mode = "plain"
    BY DEF Queues
  <2> QED BY <2>1, <2>2, <2>3 DEF Queues
<1>3. num_req' = 0
  BY FS_EmptySet DEF num_req
<1>4. Limits' /\ Reading'
  BY <1>3, SftpAssumption DEF Limits, Reading
<1> QED BY <1>1, <1>2, <1>4 DEF Get, Put, Cross

LEMMA CloseInv == ASSUME Inv, Close PROVE Inv'
<1>1. /\ TypeOK /\ Queues /\ Get /\ Cross /\ Put /\ x.pc = "close"
      /\ UNCHANGED <<op, reorders, src, dst, inq, replies, interrupted,
                     attempts, torn, refused>>
  BY DEF Inv, Close
<1>2. x.reqs = {} /\ x.num_upload_req = 0
  BY <1>1 DEF Queues
<1>3. /\ x \in Transfer /\ Source(src) /\ dst \in Seq(Int) /\ faults \in Nat
      /\ op \in {"get", "put", "cross"}
      /\ inq \in [Servers -> Seq(Request)] /\ replies \in [Servers -> Seq(Response)]
      /\ torn \in BOOLEAN
  BY <1>1 DEF TypeOK
<1>4. /\ inq["from"] = <<>> /\ inq["to"] = <<>>
      /\ replies["from"] = <<>> /\ replies["to"] = <<>>
  BY <1>1, <1>2, AtRest
<1>5. PICK failed \in BOOLEAN :
         /\ failed => faults > 0
         /\ faults' = IF failed THEN faults - 1 ELSE faults
         /\ x' = [Fresh EXCEPT
                    !.mode = x.mode, !.everything = x.everything,
                    !.uncut = x.uncut,
                    !.ret = IF Failed \/ failed \/ (op # "put" /\ interrupted)
                            THEN "failure" ELSE "ok"]
  BY <1>4 DEF Close, Synchronous
<1> DEFINE v == IF Failed \/ failed \/ (op # "put" /\ interrupted)
                THEN "failure" ELSE "ok"
<1>6. /\ v \in {"ok", "failure"}
      /\ v = "ok" => ~Failed /\ (op # "put" => ~interrupted)
  OBVIOUS
<1>7. x' = [Fresh EXCEPT !.mode = x.mode, !.everything = x.everything,
                         !.uncut = x.uncut, !.ret = v]
  BY <1>5
<1> HIDE DEF v
<1>8. /\ x' \in Transfer /\ x'.pc = "idle" /\ x'.reqs = {} /\ x'.num_upload_req = 0
      /\ x'.mode = x.mode /\ x'.everything = x.everything /\ x'.ret = v
      /\ x'.uncut = x.uncut
  BY <1>3, <1>6, <1>7, FreshFact DEF Transfer
<1>9. faults' \in Nat
  BY <1>3, <1>5
<1>10. TypeOK' /\ Queues' /\ Limits' /\ Reading' /\ Get' /\ Cross' /\ Put'
  BY <1>1, <1>3, <1>4, <1>8, <1>9, Ending
<1>11. op = "get" /\ ~torn /\ ~x.uncut =>
          IsPrefix(dst, src) /\ (~Failed /\ ~interrupted => dst = src)
  BY <1>1 DEF Get
<1>12. op = "put" /\ ~torn /\ ~refused /\ ~x.uncut =>
          IsPrefix(dst, src) /\ (x.everything => dst = src)
  BY <1>1 DEF Put
<1>13. op = "cross" /\ ~x.uncut =>
          /\ IsPrefix(dst, src) /\ (dst = <<>> \/ dst = src)
          /\ ~Failed => dst = src
  BY <1>1, <1>3, EmptyOrWhole DEF Cross
<1>14. SuccessMeansCopied'
  BY <1>1, <1>3, <1>6, <1>8, <1>11, <1>12, <1>13 DEF SuccessMeansCopied
<1>15. FailureLeavesPrefix'
  BY <1>1, <1>3, <1>8, <1>11, <1>12, <1>13 DEF FailureLeavesPrefix
<1>16. Left'
  BY <1>1, <1>3, <1>8, <1>11, <1>12, <1>14, <1>15 DEF Left
<1> QED BY <1>10, <1>16 DEF Inv

LEMMA KillInv == ASSUME Inv, Kill PROVE Inv'
<1>1. /\ TypeOK /\ Queues
      /\ x' = [Fresh EXCEPT !.mode = x.mode, !.ret = "killed"]
      /\ inq' = [s \in Servers |-> <<>>] /\ replies' = [s \in Servers |-> <<>>]
      /\ torn' = (torn \/ ~IsPrefix(dst, src))
      /\ UNCHANGED <<op, reorders, src, dst, interrupted, attempts, faults, refused>>
  BY DEF Inv, Kill
<1>2. x \in Transfer /\ op \in {"get", "put", "cross"} /\ faults \in Nat
  BY <1>1 DEF TypeOK
<1>3. /\ x' \in Transfer /\ x'.pc = "idle" /\ x'.reqs = {} /\ x'.num_upload_req = 0
      /\ x'.mode = x.mode /\ x'.ret = "killed"
  BY <1>1, <1>2, FreshFact DEF Transfer
<1>4. /\ inq' \in [Servers -> Seq(Request)] /\ replies' \in [Servers -> Seq(Response)]
      /\ inq'["from"] = <<>> /\ inq'["to"] = <<>>
      /\ replies'["from"] = <<>> /\ replies'["to"] = <<>>
  BY <1>1 DEF Servers
<1>5. torn' \in BOOLEAN
  BY <1>1
<1>6. TypeOK' /\ Queues' /\ Limits' /\ Reading' /\ Get' /\ Cross' /\ Put'
  BY <1>1, <1>2, <1>3, <1>4, <1>5, Ending
<1>7. Left'
  BY <1>1, <1>3 DEF Left, SuccessMeansCopied, FailureLeavesPrefix
<1> QED BY <1>6, <1>7 DEF Inv

LEMMA InterruptInv == ASSUME Inv, Interrupt PROVE Inv'
<1>1. /\ TypeOK /\ Queues /\ Limits /\ Reading /\ Get /\ Cross /\ Put
      /\ x.pc # "idle" /\ interrupted' = TRUE /\ op # "cross" /\ x.mode # "inplace"
      /\ UNCHANGED <<op, reorders, src, dst, x, inq, replies, attempts, faults,
                     torn, refused>>
  BY DEF Inv, Interrupt
<1>2. TypeOK' /\ Left'
  BY <1>1 DEF TypeOK, Source, Left
<1>3. Queues'
  BY <1>1 DEF Queues, Server
<1>4. Limits'
  BY <1>1 DEF Limits, num_req
<1>5. Reading'
  <2>1. \A t, a : Answers(t, a) => Answers(t, a)'
    BY <1>1 DEF Answers, Piece
  <2> QED BY <1>1, <2>1 DEF Reading
<1>6. (Downloaded => Downloaded') /\ (SentAll => SentAll') /\ (Failed' <=> Failed)
  BY <1>1 DEF Downloaded, SentAll, Failed
<1>7. Get'
  BY <1>1, <1>6 DEF Get, Right
<1>8. Cross'
  BY <1>1 DEF Cross
<1>9. Put'
  <2>1. Written' = Written
    BY <1>1 DEF Written
  <2> QED BY <1>1, <1>6, <2>1 DEF Put, Right, Piece
<1> QED BY <1>2, <1>3, <1>4, <1>5, <1>7, <1>8, <1>9 DEF Inv

-----------------------------------------------------------------------------
(* The invariant, and what it gives. *)

LEMMA NextInv == ASSUME Inv, [Next]_vars PROVE Inv'
<1>1. CASE UNCHANGED vars
  <2>1. /\ TypeOK' /\ Queues' /\ Limits'
    BY <1>1 DEF Inv, TypeOK, Source, Queues, Server, Limits, num_req, vars
  <2>2. Reading'
    BY <1>1 DEF Inv, Reading, Answers, Piece, vars
  <2>3. Get'
    BY <1>1 DEF Inv, Get, Right, Downloaded, SentAll, Failed, vars
  <2>4. Cross'
    BY <1>1 DEF Inv, Cross, Forwarded, ErrorInReplies, SentAll, Piece, Failed, vars
  <2>5. Put'
    BY <1>1 DEF Inv, Put, Right, Written, Piece, Failed, vars
  <2>6. Left'
    BY <1>1 DEF Inv, Left, SuccessMeansCopied, FailureLeavesPrefix, vars
  <2> QED BY <2>1, <2>2, <2>3, <2>4, <2>5, <2>6 DEF Inv
<1>2. CASE \E m \in Modes, n \in {0, Len(src)} : sftp_download_open(m, n)
  BY <1>2, DownloadOpenInv
<1>3. CASE \E m \in Modes : sftp_upload_open(m)
  BY <1>3, UploadOpenInv
<1>4. CASE \E n \in {0, Len(src)} : sftp_crossload_open(n)
  BY <1>4, CrossloadOpenInv
<1>5. CASE send_open_fails
  BY <1>5, OpenFailsInv
<1>6. CASE Client
  BY <1>6, SendReadsInv, ReceiveReadInv, DestRepliesInv, SendWriteInv, ReceiveAckInv,
     DrainedInv, TruncateInv, CloseInv DEF Client
<1>7. CASE \E s \in Servers : Serve(s)
  BY <1>7, ServeFromInv, ServeToInv DEF Servers
<1>8. CASE Interrupt
  BY <1>8, InterruptInv
<1>9. CASE Kill
  BY <1>9, KillInv
<1> QED BY <1>1, <1>2, <1>3, <1>4, <1>5, <1>6, <1>7, <1>8, <1>9 DEF Next

\* The bookkeeping of the client, of what is under way and of what has been
\* written is kept by every step of the client, the servers and the user.
THEOREM Invariance == Spec => []Inv
<1>1. Init => Inv
  BY InitInv
<1>2. Inv /\ [Next]_vars => Inv'
  BY NextInv
<1> QED BY <1>1, <1>2, PTL DEF Spec

\* sftp_download, sftp_upload and sftp_crossload never call fatal(): no reply
\* is unexpected, however replies overtake each other, and none is left over
\* when a request waits for its own; and -R bounds the reads under way.
THEOREM TransfersStayInStep == Spec => []RequestsInStep
<1>1. Inv => RequestsInStep
  <2> SUFFICES ASSUME Inv PROVE RequestsInStep
    OBVIOUS
  <2>1. TypeOK /\ Limits
    BY DEF Inv
  <2>2. x.err = "none"
    BY <2>1 DEF TypeOK, Transfer
  <2>3. op # "put" => num_req <= NumRequests
    BY <2>1 DEF Limits
  <2> QED BY <2>2, <2>3 DEF RequestsInStep
<1> QED BY <1>1, Invariance, PTL

\* A transfer that returns 0 has made dst a copy of src, unless a write of an
\* upload was refused, the upload was interrupted, an in-place file could not
\* be cut, or the file was resumed torn.
THEOREM SuccessIsACopy == Spec => []SuccessMeansCopied
<1>1. Inv => SuccessMeansCopied
  BY DEF Inv, Left, SuccessMeansCopied
<1> QED BY <1>1, Invariance, PTL

\* A transfer that fails, or an upload that is interrupted, leaves the first
\* part of src, without a hole, unless a write of an upload was refused, the
\* file could not be cut, or it is torn.
THEOREM FailureIsAPrefix == Spec => []FailureLeavesPrefix
<1>1. Inv => FailureLeavesPrefix
  BY DEF Inv, Left, FailureLeavesPrefix
<1> QED BY <1>1, Invariance, PTL

\* Killed at any point, a download that has seen no reply out of order and no
\* local write fail, or has been cut at the high-water mark where it was to
\* be, and an upload none of whose writes was refused can be resumed, unless
\* the file was torn before.
THEOREM KilledIsResumable == Spec => []ResumableIfKilled
<1>1. Inv => ResumableIfKilled
  <2> SUFFICES ASSUME Inv, x.pc # "idle", x.mode # "inplace", ~torn
               PROVE  /\ op = "get" /\ ~x.reordered /\ ~x.write_error =>
                            IsPrefix(dst, src) /\ Len(dst) = x.highwater
                      /\ op = "get" /\ x.pc = "close" /\ ~x.uncut => IsPrefix(dst, src)
                      /\ op = "put" /\ ~refused => IsPrefix(dst, src)
    BY DEF ResumableIfKilled
  <2>1. TypeOK /\ Get /\ Put
    BY DEF Inv
  <2>2. Source(src) /\ dst \in Seq(Int) /\ Len(src) \in Nat /\ Len(dst) \in Nat
    BY <2>1 DEF TypeOK, Source
  <2>3. CASE op = "get"
    <3>1. CASE x.pc = "close" /\ ~x.uncut
      BY <2>1, <2>3, <3>1 DEF Get
    <3>2. CASE (x.pc # "close" \/ x.uncut) /\ ~x.reordered /\ ~x.write_error
      <4>1. Len(dst) = x.highwater /\ Len(dst) <= Len(src) /\ Right(dst, x.highwater)
        BY <2>1, <2>3, <3>2 DEF Get
      <4>2. Right(dst, Len(dst))
        BY <4>1
      <4>3. IsPrefix(dst, src)
        BY <4>1, <4>2, <2>2, RightPrefix
      <4> QED BY <2>3, <3>2, <4>1, <4>3
    <3> QED BY <2>3, <3>1, <3>2
  <2>4. CASE op = "put" /\ ~refused
    <3>1. CASE x.pc = "close"
      BY <2>1, <2>4, <3>1 DEF Put
    <3>2. CASE x.pc # "close"
      <4>1. Len(dst) = Written /\ Right(dst, Written) /\ x.offset <= Len(src)
        BY <2>1, <2>4, <3>2 DEF Put
      <4>2. Written <= Len(src)
        <5>1. CASE inq["to"] = <<>>
          BY <5>1, <4>1 DEF Written
        <5>2. CASE inq["to"] # <<>>
          <6>1. inq["to"] \in Seq(Request)
            BY <2>1 DEF TypeOK, Servers
          <6>2. 1 \in DOMAIN inq["to"] /\ inq["to"][1] \in Request
            BY <5>2, <6>1
          <6>3. inq["to"][1].offset \in Nat /\ inq["to"][1].data \in Seq(Int)
            BY <6>2 DEF Request
          <6>4. Piece(inq["to"][1].data, inq["to"][1].offset)
            BY <2>1, <2>4, <3>2, <6>2 DEF Put
          <6>5. inq["to"][1].offset <= Len(src)
            BY <2>2, <6>3, <6>4 DEF Piece
          <6> QED BY <5>2, <6>5 DEF Written
        <5> QED BY <5>1, <5>2
      <4>3. Right(dst, Len(dst)) /\ Len(dst) <= Len(src)
        BY <4>1, <4>2
      <4> QED BY <2>2, <2>4, <4>3, RightPrefix
    <3> QED BY <3>1, <3>2
  <2> QED BY <2>1, <2>3, <2>4 DEF TypeOK
<1> QED BY <1>1, Invariance, PTL
=============================================================================
