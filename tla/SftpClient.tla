----------------------------- MODULE SftpClient -----------------------------
(***************************************************************************)
(* File transfers of OpenSSH's sftp and scp (sftp-client.c) against an     *)
(* SFTP server (sftp-server.c): sftp_download, sftp_upload and             *)
(* sftp_crossload, which keep several requests under way at once.          *)
(*                                                                         *)
(* The server works on requests in their order; its replies come in that   *)
(* order or, when `reorders', in any.  A read may be short, any request,   *)
(* local write or truncation may fail, the user may interrupt sftp, and    *)
(* the client may be killed, after which the user tries again, from the    *)
(* start or resuming.  The byte at position i of the source is the number  *)
(* i, so that a byte out of place shows; Hole is a byte nobody wrote,      *)
(* Stale one of an older file.                                             *)
(***************************************************************************)
EXTENDS Integers, Sequences, FiniteSets, SequencesExt

CONSTANTS
    Ops,            \* transfers examined: "get", "put", "cross"
    MaxLen,         \* longest source file
    DownloadBuflen, \* conn->download_buflen
    UploadBuflen,   \* conn->upload_buflen
    MIN_READ_SIZE,
    NumRequests,    \* conn->num_requests
    MaxAttempts,    \* times the user starts the transfer
    MaxFaults       \* requests, local writes and truncations that fail

ASSUME SftpAssumption ==
    /\ Ops \subseteq {"get", "put", "cross"}
    /\ MaxLen \in Nat /\ MaxAttempts \in Nat /\ MaxFaults \in Nat
    /\ NumRequests \in Nat \ {0}
    /\ {MIN_READ_SIZE, DownloadBuflen, UploadBuflen} \subseteq Nat \ {0}

VARIABLES
    op, reorders,   \* the transfer, and whether replies overtake each other
    src, dst,       \* the two files
    x,              \* the transfer's local variables and where it is
    inq, replies,   \* per server, requests not worked on and replies not read
    interrupted,    \* the flag of sftp's SIGINT handler
    attempts, faults,
    torn,           \* dst may have a hole: the client was killed with one
                    \* there, a second write to the local file failed, or
                    \* an earlier attempt could not cut it
    refused         \* a WRITE of an upload failed since dst was last begun

vars == <<op, reorders, src, dst, x, inq, replies, interrupted, attempts,
          faults, torn, refused>>

Servers == {"from", "to"}
Hole == 0
Stale == -1

-----------------------------------------------------------------------------
(* Files. *)

Lesser(a, b) == IF a < b THEN a ELSE b
Larger(a, b) == IF a > b THEN a ELSE b

File(n) == [i \in 1 .. n |-> i]

\* lseek and write: a gap before the data reads as zeros.
WriteAt(f, off, data) ==
    IF data = <<>> THEN f
    ELSE [i \in 1 .. Larger(Len(f), off + Len(data)) |->
            IF i - off \in DOMAIN data THEN data[i - off]
            ELSE IF i <= Len(f) THEN f[i] ELSE Hole]

Truncate(f, n) == [i \in 1 .. n |-> IF i <= Len(f) THEN f[i] ELSE Hole]

-----------------------------------------------------------------------------
(* The client's queue of requests. *)

request_find(reqs, id) == {r \in reqs : r.id = id}

\* n requests of buflen bytes each from offset on.
Reads(n) ==
    [i \in 1 .. n |-> [id |-> x.id + i - 1, type |-> "read", len |-> x.buflen,
                       offset |-> x.offset + (i - 1) * x.buflen, data |-> <<>>]]

buflen ==
    CASE op = "get" -> DownloadBuflen
      [] op = "put" -> UploadBuflen
      [] op = "cross" -> Lesser(DownloadBuflen, UploadBuflen)

Fresh ==
    [pc |-> "idle", mode |-> "plain", size |-> 0, offset |-> 0,
     highwater |-> 0, maxack |-> 0, buflen |-> buflen, max_req |-> 0,
     num_upload_req |-> 0, reqs |-> {}, read_error |-> FALSE,
     write_error |-> FALSE, reordered |-> FALSE, status |-> "ok", id |-> 0,
     startid |-> 0, ackid |-> 0, everything |-> FALSE, uncut |-> FALSE,
     ret |-> "none", err |-> "none"]

num_req == Cardinality(x.reqs)

Fatal(e) == x' = [x EXCEPT !.pc = "fatal", !.err = e]

\* A request that is answered before the next is sent (OPEN, FSETSTAT, CLOSE)
\* is fatal when another reply comes first ("ID mismatch").
Synchronous(s) == inq[s] = <<>> /\ replies[s] = <<>>

\* Plausible slips: a gap is taken for contiguous; reordering goes unnoticed.
AcknowledgedGap(y, req, len) ==
    LET top == Larger(y.maxack, req.offset + len)
    IN  [y EXCEPT !.maxack = top, !.highwater = top,
                  !.reordered = @ \/ req.offset > y.highwater]

AcknowledgedUnnoticed(y, req, len) ==
    LET top == Larger(y.maxack, req.offset + len)
    IN  [y EXCEPT !.maxack = top,
                  !.highwater = IF req.offset <= @ THEN top ELSE @]

\* The high-water marks, after the range of `req' up to len is acknowledged.
Acknowledged(y, req, len) ==
    LET top == Larger(y.maxack, req.offset + len)
    IN  [y EXCEPT
           !.maxack = top,
           !.highwater = IF ~y.reordered /\ req.offset <= @ THEN top ELSE @,
           !.reordered = @ \/ req.offset > y.highwater]

-----------------------------------------------------------------------------
(* The servers: process_read and process_write of sftp-server.c. *)

Reply(s, r) == replies' = [replies EXCEPT ![s] = Append(@, r)]

\* As much as there is, or less; nothing left is EOF.
process_read(q) ==
    \/ \E n \in 1 .. Lesser(q.len, Len(src) - q.offset) :
          /\ Reply("from", [id |-> q.id, status |-> "data",
                            data |-> SubSeq(src, q.offset + 1, q.offset + n)])
          /\ UNCHANGED faults
    \/ /\ q.offset >= Len(src)
       /\ Reply("from", [id |-> q.id, status |-> "eof", data |-> <<>>])
       /\ UNCHANGED faults
    \/ /\ faults > 0 /\ faults' = faults - 1
       /\ Reply("from", [id |-> q.id, status |-> "failure", data |-> <<>>])

\* A file opened with APPEND takes no notice of the offset.
process_write(q) ==
    LET off == IF op = "put" /\ x.mode = "resume" THEN Len(dst) ELSE q.offset
    IN  \/ /\ dst' = WriteAt(dst, off, q.data)
           /\ Reply("to", [id |-> q.id, status |-> "ok", data |-> <<>>])
           /\ UNCHANGED <<faults, refused>>
        \/ /\ faults > 0 /\ faults' = faults - 1
           /\ \E n \in 0 .. Len(q.data) - 1 :
                 dst' = WriteAt(dst, off, SubSeq(q.data, 1, n))
           /\ Reply("to", [id |-> q.id, status |-> "failure", data |-> <<>>])
           /\ refused' = TRUE

Serve(s) ==
    /\ inq[s] # <<>>
    /\ inq' = [inq EXCEPT ![s] = Tail(@)]
    /\ IF s = "from"
       THEN process_read(Head(inq[s])) /\ UNCHANGED <<dst, refused>>
       ELSE process_write(Head(inq[s]))
    /\ UNCHANGED <<op, reorders, src, x, interrupted, attempts, torn>>

-----------------------------------------------------------------------------
(* Starting a transfer. *)

Begin ==
    /\ x.pc = "idle" /\ attempts < MaxAttempts
    /\ attempts' = attempts + 1
    /\ interrupted' = FALSE
    /\ UNCHANGED <<op, reorders, src>>

\* dst is opened, truncated unless the transfer resumes or is in place.
Opened(m) ==
    /\ dst' = IF m = "plain" THEN <<>> ELSE dst
    /\ torn' = ((torn \/ x.uncut) /\ m = "resume")
    /\ refused' = (refused /\ m = "resume")
    /\ UNCHANGED <<inq, replies, faults>>

\* The user resumes what an earlier attempt has left.
Modes == {"plain", "inplace"} \cup IF attempts > 0 THEN {"resume"} ELSE {}

\* size: 0 when the server does not tell the size of its file.
sftp_download_open(m, size) ==
    LET base == IF m = "resume" THEN Len(dst) ELSE 0
    IN  /\ op = "get" /\ Begin
        /\ m = "resume" => Len(dst) <= size
        /\ Opened(m)
        /\ x' = [Fresh EXCEPT !.pc = "loop", !.mode = m, !.size = size,
                              !.offset = base, !.highwater = base,
                              !.maxack = base, !.max_req = 1]

sftp_upload_open(m) ==
    /\ op = "put" /\ Begin
    /\ m = "resume" => Len(dst) < Len(src)
    /\ Opened(m)
    /\ x' = [Fresh EXCEPT !.pc = "loop", !.mode = m, !.startid = 1,
                          !.ackid = 1,
                          !.offset = IF m = "resume" THEN Len(dst) ELSE 0]

sftp_crossload_open(size) ==
    /\ op = "cross" /\ Begin
    /\ Opened("plain")
    /\ x' = [Fresh EXCEPT !.pc = "loop", !.size = size, !.max_req = 1]

\* The stat or the open fails, or there is nothing to resume.
send_open_fails ==
    /\ Begin
    /\ \/ faults > 0 /\ faults' = faults - 1
       \/ /\ attempts > 0 /\ UNCHANGED faults
          /\ \/ op = "get" /\ Len(dst) > 0
             \/ op = "put" /\ Len(dst) >= Len(src)
    /\ x' = [Fresh EXCEPT !.ret = "unopened"]
    /\ torn' = (torn \/ x.uncut)
    /\ UNCHANGED <<dst, inq, replies, refused>>

-----------------------------------------------------------------------------
(* Reading: the loop that sftp_download and sftp_crossload share. *)

\* A plausible slip: an interrupt ends the loop with replies outstanding.
SendReadsAbandon ==
    LET n == Larger(0, x.max_req - num_req)
        done == interrupted \/ (num_req = 0 /\ x.max_req = 0)
    IN  /\ x.pc = "loop" /\ op # "put"
        /\ x' = IF done THEN [x EXCEPT !.pc = "drained"]
                ELSE [x EXCEPT !.pc = "recv", !.id = @ + n,
                               !.offset = @ + n * x.buflen,
                               !.reqs = @ \cup Range(Reads(n))]
        /\ inq' = IF done THEN inq
                  ELSE [inq EXCEPT !["from"] = @ \o Reads(n)]
        /\ UNCHANGED <<op, reorders, src, dst, replies, interrupted, attempts,
                       faults, torn, refused>>

\* The loop's condition, the interrupt, and requests up to max_req.
SendReads ==
    LET max == IF interrupted THEN 0 ELSE x.max_req
        n == Larger(0, max - num_req)
        done == num_req = 0 /\ (x.max_req = 0 \/ interrupted)
    IN  /\ x.pc = "loop" /\ op # "put"
        /\ x' = IF done THEN [x EXCEPT !.pc = "drained"]
                ELSE [x EXCEPT !.pc = "recv", !.max_req = max, !.id = @ + n,
                               !.offset = @ + n * x.buflen,
                               !.reqs = @ \cup Range(Reads(n))]
        /\ inq' = IF done THEN inq
                  ELSE [inq EXCEPT !["from"] = @ \o Reads(n)]
        /\ UNCHANGED <<op, reorders, src, dst, replies, interrupted, attempts,
                       faults, torn, refused>>

\* A short block: the rest is asked for again, under a new id.
Shortened(y, req, len) ==
    LET rest == [req EXCEPT !.id = y.id, !.len = @ - len, !.offset = @ + len]
    IN  [y EXCEPT !.reqs = (@ \ {req}) \cup {rest}, !.id = @ + 1,
                  !.buflen = IF len < @ THEN Larger(MIN_READ_SIZE, len) ELSE @]

\* The request is done, or its rest asked for; max_req then grows up to
\* num_requests, and is 1 past the expected end.
Advance(y, req, len) ==
    LET z == IF len = req.len THEN [y EXCEPT !.reqs = @ \ {req}]
             ELSE Shortened(y, req, len)
    IN  [z EXCEPT !.pc = "loop",
                  !.max_req = IF @ = 0 THEN 0
                              ELSE IF z.size > 0 /\ z.offset > z.size THEN 1
                              ELSE IF @ < NumRequests THEN @ + 1 ELSE @]

Rerequest(q, req, len) ==
    IF len = req.len THEN q
    ELSE Append(q, [req EXCEPT !.id = x.id, !.len = @ - len,
                               !.offset = @ + len])

\* A plausible slip: an error is taken for the end of the file.
ReadStatusEof(req, status) ==
    /\ x' = [x EXCEPT !.pc = "loop", !.max_req = 0, !.reqs = @ \ {req}]
    /\ UNCHANGED <<dst, inq, faults, torn>>

\* SSH2_FXP_STATUS: EOF or an error ends the sending of requests.
ReadStatus(req, status) ==
    /\ x' = [x EXCEPT !.pc = "loop", !.max_req = 0, !.reqs = @ \ {req},
                      !.read_error = @ \/ status # "eof"]
    /\ UNCHANGED <<dst, inq, faults, torn>>

\* The block goes to the local file, all of it or n bytes before an error.
\* Only the first error is treated as one: at the next, the range counts as
\* acknowledged.
WriteLocal(req, data) ==
    \E n \in 0 .. Len(data) :
        /\ n < Len(data) => faults > 0
        /\ faults' = IF n < Len(data) THEN faults - 1 ELSE faults
        /\ dst' = WriteAt(dst, req.offset, SubSeq(data, 1, n))
        /\ \E y \in {IF n < Len(data) /\ ~x.write_error
                     THEN [x EXCEPT !.write_error = TRUE, !.max_req = 0]
                     ELSE Acknowledged(x, req, Len(data))} :
               x' = Advance(y, req, Len(data))
        /\ torn' = (torn \/ (n < Len(data) /\ x.write_error))
        /\ inq' = [inq EXCEPT !["from"] = Rerequest(@, req, Len(data))]

\* The block goes on to the other server, under an id of that connection.
WriteRemote(req, data) ==
    /\ x' = Advance([x EXCEPT !.num_upload_req = @ + 1], req, Len(data))
    /\ inq' = [inq EXCEPT
                 !["from"] = Rerequest(@, req, Len(data)),
                 !["to"] = Append(@, [id |-> 0, type |-> "write",
                                      len |-> Len(data), data |-> data,
                                      offset |-> req.offset])]
    /\ UNCHANGED <<dst, faults, torn>>

\* The replies a client may read next.
NextReplies(s) ==
    IF reorders THEN DOMAIN replies[s] ELSE 1 .. Lesser(1, Len(replies[s]))

ReceiveRead ==
    /\ x.pc = "recv" /\ op # "put"
    /\ \E i \in NextReplies("from") :
        \E r \in {replies["from"][i]} :
          /\ replies' = [replies EXCEPT !["from"] = RemoveAt(@, i)]
          /\ \/ /\ request_find(x.reqs, r.id) = {}
                /\ Fatal("Unexpected reply")
                /\ UNCHANGED <<dst, inq, faults, torn>>
             \/ \E req \in request_find(x.reqs, r.id) :
                  IF r.status # "data" THEN ReadStatus(req, r.status)
                  ELSE IF op = "get" THEN WriteLocal(req, r.data)
                  ELSE WriteRemote(req, r.data)
    /\ UNCHANGED <<op, reorders, src, interrupted, attempts, refused>>

\* A plausible slip: an error of the destination is not counted as a reply.
DestRepliesUncounted ==
    /\ op = "cross" /\ x.pc \in {"recv", "drained"} /\ x.num_upload_req > 0
    /\ \E i \in NextReplies("to") :
          /\ x' = IF replies["to"][i].status = "ok"
                  THEN [x EXCEPT !.num_upload_req = @ - 1]
                  ELSE [x EXCEPT !.write_error = TRUE]
          /\ replies' = [replies EXCEPT !["to"] = RemoveAt(@, i)]
    /\ UNCHANGED <<op, reorders, src, dst, inq, interrupted, attempts, faults,
                   torn, refused>>

\* sftp_crossload counts the destination's replies, whichever they answer,
\* as they come and, after its loop, to the last.
handle_dest_replies ==
    /\ op = "cross" /\ x.pc \in {"recv", "drained"} /\ x.num_upload_req > 0
    /\ \E i \in NextReplies("to") :
          /\ x' = [x EXCEPT !.num_upload_req = @ - 1,
                            !.write_error =
                                @ \/ replies["to"][i].status # "ok"]
          /\ replies' = [replies EXCEPT !["to"] = RemoveAt(@, i)]
    /\ UNCHANGED <<op, reorders, src, dst, inq, interrupted, attempts, faults,
                   torn, refused>>

-----------------------------------------------------------------------------
(* Writing: the loop of sftp_upload. *)

\* The reply is waited for after the first block and, from then on, with more
\* than num_requests blocks under way.
Waits(id) == id = x.startid \/ id - x.ackid >= NumRequests

\* The next block, unless interrupted or the last reply was an error; then
\* the replies still under way are read.
SendWrite ==
    LET len == IF interrupted \/ x.status # "ok" THEN 0
               ELSE Larger(0, Lesser(UploadBuflen, Len(src) - x.offset))
        id == x.id + 1
        req == [id |-> id, type |-> "write", len |-> len, offset |-> x.offset,
                data |-> SubSeq(src, x.offset + 1, x.offset + len)]
    IN  /\ x.pc = "loop" /\ op = "put"
        /\ IF len # 0
           THEN /\ x' = [x EXCEPT !.id = id, !.offset = @ + len,
                                  !.reqs = @ \cup {req},
                                  !.pc = IF Waits(id) THEN "recv" ELSE "loop"]
                /\ inq' = [inq EXCEPT !["to"] = Append(@, req)]
           ELSE /\ x' = [x EXCEPT !.pc = IF x.reqs = {} THEN "drained"
                                         ELSE "recv"]
                /\ UNCHANGED inq
        /\ UNCHANGED <<op, reorders, src, dst, replies, interrupted, attempts,
                       faults, torn, refused>>

ReceiveAck ==
    /\ x.pc = "recv" /\ op = "put"
    /\ \E i \in NextReplies("to") :
        \E r \in {replies["to"][i]} :
          /\ replies' = [replies EXCEPT !["to"] = RemoveAt(@, i)]
          /\ \/ request_find(x.reqs, r.id) = {} /\ Fatal("Can't find request")
             \/ \E req \in request_find(x.reqs, r.id) :
                  x' = [Acknowledged(x, req, req.len) EXCEPT
                          !.pc = "loop", !.status = r.status,
                          !.reqs = @ \ {req}, !.ackid = @ + 1]
    /\ UNCHANGED <<op, reorders, src, dst, inq, interrupted, attempts, faults,
                   torn, refused>>

-----------------------------------------------------------------------------
(* Ending a transfer. *)

Failed == x.read_error \/ x.write_error \/ x.status # "ok"

\* "we got everything"
Drained ==
    /\ x.pc = "drained"
    /\ x.num_upload_req = 0
    /\ IF x.reqs # {} THEN Fatal("requests still in queue")
       ELSE x' = [x EXCEPT !.pc = "truncate",
                           !.everything = ~Failed /\ ~interrupted,
                           !.highwater = IF ~Failed /\ ~interrupted
                                         THEN x.maxack ELSE @]
    /\ UNCHANGED <<op, reorders, src, dst, inq, replies, interrupted,
                   attempts, faults, torn, refused>>

\* A download is cut at the high-water mark when it failed or is in place, an
\* upload when in place or a failed resumption, a crossload to nothing when
\* it failed.
ToTruncate ==
    CASE op = "get" -> x.mode = "inplace" \/ Failed \/ interrupted
      [] op = "put" -> \/ x.mode = "inplace"
                       \/ x.mode = "resume" /\ (Failed \/ interrupted)
      [] op = "cross" -> Failed \/ interrupted

\* ftruncate, FSETSTAT and the opening with TRUNC may fail: the transfer goes
\* on as if they had not (uncut).
TruncateDst ==
    /\ x.pc = "truncate"
    /\ \E failed \in {FALSE} \cup IF ToTruncate /\ faults > 0 THEN {TRUE} ELSE {} :
        /\ faults' = IF failed THEN faults - 1 ELSE faults
        /\ IF op # "get" /\ ToTruncate /\ ~Synchronous("to")
           THEN Fatal("ID mismatch") /\ UNCHANGED dst
           ELSE /\ dst' = IF failed \/ ~ToTruncate THEN dst
                          ELSE IF op = "cross" THEN <<>>
                          ELSE Truncate(dst, x.highwater)
                /\ x' = [x EXCEPT !.pc = "close", !.uncut = failed]
    /\ UNCHANGED <<op, reorders, src, inq, replies, interrupted, attempts,
                   torn, refused>>

\* sftp_close, which may fail, and the result.  An upload does not look at
\* `interrupted' any more, and a crossload not at the destination's close.
Close ==
    /\ x.pc = "close"
    /\ \E failed \in BOOLEAN :
        /\ failed => faults > 0
        /\ faults' = IF failed THEN faults - 1 ELSE faults
        /\ IF ~(Synchronous("from") /\ Synchronous("to"))
           THEN Fatal("ID mismatch")
           ELSE x' = [Fresh EXCEPT
                        !.mode = x.mode, !.everything = x.everything,
                        !.uncut = x.uncut,
                        !.ret = IF Failed \/ failed \/ (op # "put" /\ interrupted)
                                THEN "failure" ELSE "ok"]
    /\ UNCHANGED <<op, reorders, src, dst, inq, replies, interrupted,
                   attempts, torn, refused>>

-----------------------------------------------------------------------------
(* The environment. *)

\* SIGINT: the handler of sftp sets the flag.  scp, which transfers in place
\* and between servers, has no such handler.
Interrupt ==
    /\ x.pc \notin {"idle", "fatal"} /\ ~interrupted
    /\ op # "cross" /\ x.mode # "inplace"
    /\ interrupted' = TRUE
    /\ UNCHANGED <<op, reorders, src, dst, x, inq, replies, attempts, faults,
                   torn, refused>>

\* The client is killed, and its connections with it.  What a server has not
\* worked on yet is lost: the user's next attempt does not overlap with an
\* sftp-server that still empties its input queue.
Kill ==
    /\ x.pc \notin {"idle", "fatal"}
    /\ x' = [Fresh EXCEPT !.mode = x.mode, !.ret = "killed"]
    /\ inq' = [s \in Servers |-> <<>>]
    /\ replies' = [s \in Servers |-> <<>>]
    /\ torn' = (torn \/ ~IsPrefix(dst, src))
    /\ UNCHANGED <<op, reorders, src, dst, interrupted, attempts, faults,
                   refused>>

Init ==
    /\ op \in Ops /\ reorders \in BOOLEAN
    /\ \E n \in 0 .. MaxLen : src = File(n)
    /\ dst \in {<<>>, [i \in 1 .. MaxLen + 1 |-> Stale]}
    /\ x = Fresh
    /\ inq = [s \in Servers |-> <<>>] /\ replies = [s \in Servers |-> <<>>]
    /\ interrupted = FALSE /\ attempts = 0 /\ faults = MaxFaults
    /\ torn = FALSE /\ refused = FALSE

Client ==
    \/ SendReads \/ ReceiveRead \/ handle_dest_replies
    \/ SendWrite \/ ReceiveAck
    \/ Drained \/ TruncateDst \/ Close

Next ==
    \/ \E m \in Modes, n \in {0, Len(src)} : sftp_download_open(m, n)
    \/ \E m \in Modes : sftp_upload_open(m)
    \/ \E n \in {0, Len(src)} : sftp_crossload_open(n)
    \/ send_open_fails
    \/ Client
    \/ \E s \in Servers : Serve(s)
    \/ Interrupt \/ Kill

Spec == Init /\ [][Next]_vars

\* The client runs its loop, and the servers work on what they are sent.
FairSpec == Spec /\ WF_vars(Client) /\ \A s \in Servers : WF_vars(Serve(s))

-----------------------------------------------------------------------------
(* Properties. *)

\* However replies are reordered, none is unexpected, and all are in before
\* the next request that waits for an answer of its own.  In a download or a
\* crossload at most num_requests reads are under way, as the manual says of
\* -R.  It is not so for an upload, which compares after it has sent and has
\* one write more under way, nor for a crossload's writes, which nothing counts.
RequestsInStep ==
    /\ x.err = "none"
    /\ op # "put" => num_req <= NumRequests

\* A transfer that returns 0 has made dst a copy of src, also when earlier
\* attempts failed or were killed and this one resumes; but for an upload a
\* write of which was refused (GotEverything) or that was interrupted, for a
\* file resumed that an earlier attempt left torn, and for one written in
\* place that could not be cut.
SuccessMeansCopied ==
    /\ x.pc = "idle" /\ x.ret = "ok" /\ ~torn /\ ~x.uncut
    /\ op = "put" => x.everything /\ ~refused
    => dst = src

\* A transfer that failed, or an upload that was interrupted and returns 0,
\* leaves the first part of src, without a hole, so that it can be resumed; a
\* failed crossload nothing, or all when only closing failed.  But for an
\* upload a write of which was refused, a file that could not be cut, and one
\* torn: resumed with a hole, or two local writes failed (NoHoleAfterCut).
FailureLeavesPrefix ==
    /\ x.pc = "idle" /\ ~torn /\ ~x.uncut
    /\ x.ret = "failure" \/ (op = "put" /\ x.ret = "ok" /\ ~x.everything)
    /\ op = "put" => ~refused
    => IsPrefix(dst, src) /\ (op = "cross" => dst = <<>> \/ dst = src)

\* As long as the client has seen no reply out of order and could write what
\* it received, the file is all of src up to the high-water mark: killed now,
\* a download can be resumed.  So it can before it closes, unless it was to
\* be cut at that mark and could not, and an upload always, unless a write
\* was refused; nothing is said of a file that was torn before.
ResumableIfKilled ==
    /\ x.pc \notin {"idle", "fatal"} /\ x.mode # "inplace" /\ ~torn
    => /\ op = "get" /\ ~x.reordered /\ ~x.write_error =>
             IsPrefix(dst, src) /\ Len(dst) = x.highwater
       /\ op = "get" /\ x.pc = "close" /\ ~x.uncut => IsPrefix(dst, src)
       /\ op = "put" /\ ~refused => IsPrefix(dst, src)

\* "we got everything" (sftp_upload): with the last reply OK and no
\* interrupt, all of the file is at the server.
GotEverything ==
    op = "put" /\ x.pc = "close" /\ x.everything /\ ~torn => dst = src

\* "Truncate at highest contiguous point to avoid holes on interrupt"
\* (sftp_download): once cut, a file that was begun anew has no hole.
NoHoleAfterCut ==
    op = "get" /\ x.mode = "plain" /\ x.pc = "close" /\ ~x.uncut
    => Hole \notin Range(dst)

\* A transfer that has begun comes to an end.
TransferEnds == x.pc # "idle" ~> x.pc = "idle"
=============================================================================
