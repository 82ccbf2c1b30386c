------------------------------ MODULE Channels ------------------------------
(***************************************************************************)
(* One channel of an OpenSSH connection (channels.c, nchan.c), both ends   *)
(* of it, from the OPEN message until both ends have freed it: the client  *)
(* that opens it and the server that accepts it.  kind is "session" (a     *)
(* command run by the server: stdin, stdout, stderr and an exit status) or *)
(* "forward" (a forwarded TCP or Unix socket).                             *)
(*                                                                         *)
(* The two processes only meet in the transport, a reliable FIFO per       *)
(* direction.  Each runs an event loop (server_loop2, client_loop):        *)
(* dispatch the packets received (Dispatch), turn buffered input into      *)
(* packets (OutputPoll), poll and do the channel's I/O (Poll).  An action  *)
(* is one of these calls.  A handler of the C code is an operator on the   *)
(* channel record of the same name; c.sent collects what it sends.  Bytes  *)
(* are counted, in units of which MaxPacket make a full packet.            *)
(***************************************************************************)
EXTENDS Integers, Sequences

CONSTANTS
    Kinds,      \* subset of {"session", "forward"}
    WindowMax,  \* CHAN_SES_WINDOW_DEFAULT, CHAN_TCP_WINDOW_DEFAULT
    MaxPacket,  \* CHAN_SES_PACKET_DEFAULT, CHAN_TCP_PACKET_DEFAULT
    MaxBytes,   \* bound: bytes the programs write in all
    MaxFaults   \* bound: failed writes and inactivity timeouts

ASSUME ChannelAssumption ==
    /\ Kinds \subseteq {"session", "forward"}
    /\ {WindowMax, MaxPacket} \subseteq Nat \ {0}
    /\ WindowMax >= 2 * MaxPacket
    /\ {MaxBytes, MaxFaults} \subseteq Nat

VARIABLES
    kind,      \* the channel's type name
    ch,        \* the Channel structure of each end
    wire,      \* wire[e]: the packets on their way to e
    child,     \* the session's process: "none", "running", "reaped"
    source,    \* source[e]: bytes the program at e will write in all
    errsource, \* bytes the session's process writes to standard error
    failures,  \* writes to a program that failed
    timeouts,  \* channels closed for inactivity
    broken     \* ssh_packet_disconnect or fatal was called

vars == <<kind, ch, wire, child, source, errsource, failures, timeouts, broken>>

Ends == {"client", "server"}

Peer(e) == IF e = "client" THEN "server" ELSE "client"

Smaller(a, b) == IF a < b THEN a ELSE b

\* extended_usage: the server reads the command's standard error, the
\* client writes it.
ExtRead(e) == kind = "session" /\ e = "server"
ExtWrite(e) == kind = "session" /\ e = "client"

(***************************************************************************)
(* Messages.                                                               *)
(***************************************************************************)
Open(n)    == [type |-> "open", n |-> n]
Confirm(n) == [type |-> "confirm", n |-> n]
Failure    == [type |-> "failure", n |-> 0]
Data(n)    == [type |-> "data", n |-> n]
Ext(n)     == [type |-> "ext", n |-> n]
Adjust(n)  == [type |-> "adjust", n |-> n]
Eof        == [type |-> "eof", n |-> 0]
Close      == [type |-> "close", n |-> 0]
Eow        == [type |-> "eow", n |-> 0]
Shell      == [type |-> "shell", n |-> 0]
ExitStatus == [type |-> "exit", n |-> 0]

Send(c, m) == [c EXCEPT !.sent = Append(@, m)]

(***************************************************************************)
(* channels.c: a new channel.  read, written, end and forced record what   *)
(* happened at the local program: bytes read from it, bytes written to it, *)
(* how its input ended, whether the channel was closed by force.           *)
(***************************************************************************)
channel_new(type, window, detach) ==
    [type |-> type, istate |-> "open", ostate |-> "open", flags |-> {},
     input |-> 0, output |-> 0, extended |-> 0, efd |-> FALSE,
     remote_window |-> 0, local_window |-> window,
     local_window_max |-> window, local_consumed |-> 0, detach |-> detach,
     sent |-> <<>>, read |-> 0, errread |-> 0, written |-> 0,
     end |-> "no", forced |-> FALSE]

CHANNEL_EFD_INPUT_ACTIVE(e, c) == ExtRead(e) /\ (c.efd \/ c.extended > 0)

CHANNEL_EFD_OUTPUT_ACTIVE(e, c) ==
    /\ ExtWrite(e)
    /\ c.efd
    /\ c.flags \cap {"EOF_RCVD", "CLOSE_RCVD"} = {} \/ c.extended > 0

(***************************************************************************)
(* nchan.c: the input and output state machines.                           *)
(***************************************************************************)
chan_shutdown_write(c) == [c EXCEPT !.output = 0]

chan_send_eof2(c) ==
    [Send(c, Eof) EXCEPT !.flags = @ \cup {"EOF_SENT"}]

chan_read_failed(c) ==
    IF c.istate = "open" THEN [c EXCEPT !.istate = "drain"] ELSE c

chan_ibuf_empty(c) ==
    IF c.input = 0 /\ c.istate = "drain"
    THEN [IF "CLOSE_SENT" \in c.flags THEN c ELSE chan_send_eof2(c)
            EXCEPT !.istate = "closed"]
    ELSE c

chan_obuf_empty(c) ==
    IF c.output = 0 /\ c.ostate = "drain"
    THEN [chan_shutdown_write(c) EXCEPT !.ostate = "closed", !.end = "eof"]
    ELSE c

chan_rcvd_eow(c) ==
    IF c.istate = "open" THEN [c EXCEPT !.istate = "closed"] ELSE c

chan_send_eow2(c) == IF c.ostate = "closed" THEN c ELSE Send(c, Eow)

chan_send_close2(c) ==
    IF /\ c.istate = "closed"
       /\ c.ostate = "closed"
       /\ "CLOSE_SENT" \notin c.flags
    THEN [Send(c, Close) EXCEPT !.flags = @ \cup {"CLOSE_SENT"}]
    ELSE c

\* A plausible slip: EOF closes the output at once.
RcvdIeofAtOnce(e, c) ==
    [c EXCEPT !.flags = @ \cup {"EOF_RCVD"}, !.output = 0,
              !.ostate = "closed", !.end = "eof"]

chan_rcvd_ieof(e, c) ==
    LET c1 == [c EXCEPT !.flags = @ \cup {"EOF_RCVD"},
                        !.ostate = IF @ = "open" THEN "drain" ELSE @]
    IN  IF /\ c1.ostate = "drain"
           /\ c1.output = 0
           /\ ~CHANNEL_EFD_OUTPUT_ACTIVE(e, c1)
        THEN chan_obuf_empty(c1)
        ELSE c1

\* chan_shutdown_extended_read closes the descriptor in read mode only.
chan_rcvd_oclose(e, c) ==
    LET c1 == [c EXCEPT !.flags = @ \cup {"CLOSE_RCVD"}]
        c2 == IF c1.istate = "drain" THEN chan_send_eof2(c1) ELSE c1
    IN  IF c.type = "larval"
        THEN [c1 EXCEPT !.istate = "closed", !.ostate = "closed"]
        ELSE [c2 EXCEPT
                !.ostate = IF @ = "open" THEN "drain" ELSE @,
                !.istate = "closed",
                !.efd = IF c.istate # "closed" /\ ExtRead(e) THEN FALSE ELSE @]

chan_write_failed(c) ==
    LET c1 == chan_shutdown_write(c)
    IN  IF c.ostate = "closed"
        THEN c
        ELSE [IF kind = "session" THEN chan_send_eow2(c1) ELSE c1
                EXCEPT !.ostate = "closed", !.end = "cut"]

chan_mark_dead(c) == [c EXCEPT !.type = "zombie"]

\* chan_is_dead may send CLOSE, and then says whether the channel is dead:
\* the first is the channel after the call, the second the answer.
IsDeadSend(c, do_send) ==
    IF c.type # "zombie" /\ do_send THEN chan_send_close2(c) ELSE c

\* A plausible slip: dead without waiting for the peer's CLOSE.
IsDeadEarly(c, do_send) ==
    \/ c.type = "zombie"
    \/ /\ c.istate = "closed"
       /\ c.ostate = "closed"
       /\ "CLOSE_SENT" \in c.flags \/ ~do_send

chan_is_dead(c, do_send) ==
    \/ c.type = "zombie"
    \/ /\ c.istate = "closed"
       /\ c.ostate = "closed"
       /\ "CLOSE_RCVD" \in c.flags
       /\ "CLOSE_SENT" \in c.flags \/ ~do_send

(***************************************************************************)
(* channel_garbage_collect.  The user of a session's channel (session.c    *)
(* on the server, client_channel_closed on the client) keeps it until it   *)
(* has detached; the server's does so once its process was reaped.         *)
(***************************************************************************)
\* A plausible slip: the session lets its channel go under a running command.
UserDetachesAlways(e) == TRUE

UserDetaches(e) == e = "client" \/ child # "running"

channel_garbage_collect(e, c) ==
    LET asked    == IsDeadSend(c, c.detach = "close")
        detached == [asked EXCEPT !.detach = "none"]
        free(d)  == LET d1 == IsDeadSend(d, TRUE)
                    IN  IF chan_is_dead(d1, TRUE)
                        THEN [d1 EXCEPT !.type = "freed"]
                        ELSE d1
    IN  IF c.detach = "none" THEN free(c)
        ELSE IF chan_is_dead(asked, c.detach = "close") /\ UserDetaches(e)
        THEN free(detached)
        ELSE asked

(***************************************************************************)
(* channels.c: poll.  io_want of channel_pre_open, then the I/O that poll  *)
(* found possible.  An outcome is a number of bytes, 0 for "not ready" or  *)
(* EAGAIN, or Failed (end of file or an error).                            *)
(***************************************************************************)
Failed == -1

channel_pre_open(e, c) ==
    IF /\ c.ostate = "drain"
       /\ c.output = 0
       /\ ~CHANNEL_EFD_OUTPUT_ACTIVE(e, c)
    THEN chan_obuf_empty(c)
    ELSE c

WantRead(c) ==
    /\ c.type = "open"
    /\ c.istate = "open"
    /\ c.remote_window > 0
    /\ c.input < c.remote_window

WantWrite(c) ==
    /\ c.type = "open"
    /\ c.ostate \in {"open", "drain"}
    /\ c.output > 0

WantExt(c) ==
    /\ c.type = "open"
    /\ c.efd
    /\ ~(c.istate = "closed" /\ c.ostate = "closed")

WantExtWrite(e, c) == WantExt(c) /\ ExtWrite(e) /\ c.extended > 0

WantExtRead(e, c) ==
    /\ WantExt(c)
    /\ ExtRead(e)
    /\ "EOF_SENT" \notin c.flags
    /\ c.extended < c.remote_window

\* sshbuf_read: at most CHANNEL_MAX_READ bytes, and no more than the window
\* takes.
ReadOutcomes(e, c) ==
    IF ~WantRead(c) THEN {0}
    ELSE LET left == source[e] - c.read
             most == Smaller(left, Smaller(MaxPacket,
                                           c.remote_window - c.input))
         IN  (0 .. most) \cup (IF left = 0 THEN {Failed} ELSE {})

MayFail(n) == failures + timeouts + n < MaxFaults

WriteOutcomes(c) ==
    IF ~WantWrite(c) THEN {0}
    ELSE (0 .. c.output) \cup (IF MayFail(0) THEN {Failed} ELSE {})

ExtOutcomes(e, c, w) ==
    IF WantExtWrite(e, c)
    THEN (0 .. c.extended) \cup
         (IF MayFail(IF w = Failed THEN 1 ELSE 0) THEN {Failed} ELSE {})
    ELSE IF WantExtRead(e, c)
    THEN (0 .. errsource - c.errread)
         \cup (IF c.errread = errsource THEN {Failed} ELSE {})
    ELSE {0}

channel_handle_rfd(c, r) ==
    IF r = Failed THEN chan_read_failed(c)
    ELSE [c EXCEPT !.input = @ + r, !.read = @ + r]

channel_handle_wfd(c, w) ==
    IF w = Failed THEN chan_write_failed(c)
    ELSE [c EXCEPT !.output = @ - w, !.written = @ + w,
                   !.local_consumed = @ + w]

channel_handle_efd(e, c, x) ==
    IF x = Failed THEN [c EXCEPT !.efd = FALSE]
    ELSE IF ExtWrite(e)
    THEN [c EXCEPT !.extended = @ - x, !.local_consumed = @ + x]
    ELSE [c EXCEPT !.extended = @ + x, !.errread = @ + x]

\* Plausible slips: the consumed bytes stay counted; ADJUST after CLOSE.
CheckWindowAgain(c) ==
    IF /\ c.type = "open"
       /\ c.flags \cap {"CLOSE_SENT", "CLOSE_RCVD"} = {}
       /\ c.local_consumed > 0
    THEN [Send(c, Adjust(c.local_consumed)) EXCEPT
            !.local_window = @ + c.local_consumed]
    ELSE c

CheckWindowClosed(c) ==
    IF c.type = "open" /\ c.local_consumed > 0
    THEN [Send(c, Adjust(c.local_consumed)) EXCEPT
            !.local_window = @ + c.local_consumed, !.local_consumed = 0]
    ELSE c

channel_check_window(c) ==
    IF /\ c.type = "open"
       /\ c.flags \cap {"CLOSE_SENT", "CLOSE_RCVD"} = {}
       /\ \/ c.local_window_max > c.local_window + MaxPacket * 3
          \/ c.local_window < c.local_window_max \div 2
       /\ c.local_consumed > 0
    THEN [Send(c, Adjust(c.local_consumed)) EXCEPT
            !.local_window = @ + c.local_consumed, !.local_consumed = 0]
    ELSE c

channel_post_open(e, c, r, w, x) ==
    channel_check_window(
        channel_handle_efd(e,
            channel_handle_wfd(channel_handle_rfd(c, r), w), x))

channel_force_close(e, c) ==
    LET c1 == chan_read_failed([c EXCEPT !.forced = TRUE])
        c2 == chan_ibuf_empty([c1 EXCEPT !.input =
                  IF c1.istate = "drain" THEN 0 ELSE @])
    IN  [chan_write_failed(c2) EXCEPT !.detach = "none", !.efd = FALSE,
            !.type = "abandoned"]

(***************************************************************************)
(* channels.c: input of packets.                                           *)
(***************************************************************************)
channel_input_data(c, n) ==
    IF c.type # "open" THEN c
    ELSE IF c.ostate # "open"
    THEN [c EXCEPT !.local_window = @ - n, !.local_consumed = @ + n]
    ELSE [c EXCEPT !.local_window = @ - n, !.output = @ + n]

channel_input_extended_data(e, c, n) ==
    IF c.type # "open" \/ ~c.efd \/ ~ExtWrite(e) \/ n > c.local_window THEN c
    ELSE [c EXCEPT !.extended = @ + n, !.local_window = @ - n]

\* The session's setup callback asks for the shell as soon as the channel
\* is confirmed.
channel_input_open_confirmation(c, n) ==
    LET c1 == [c EXCEPT !.remote_window = n, !.type = "open"]
    IN  IF kind = "session" THEN Send(c1, Shell) ELSE c1

channel_input_window_adjust(c, n) == [c EXCEPT !.remote_window = @ + n]

channel_set_fds(c) ==
    Send([c EXCEPT !.type = "open", !.efd = TRUE,
                   !.local_window = WindowMax,
                   !.local_window_max = WindowMax], Adjust(WindowMax))

\* What makes the receiver give up the connection: a packet for a channel
\* it does not have (an ADJUST, and a request to the client, are let pass),
\* a second confirmation, standard error after EOF, more data than the
\* window allows (the tenth of the window it may be exceeded by is less than
\* a unit).  Left out are zombie channels, the reads forced on a terminal whose
\* process has ended, and CHAN_EXTENDED_IGNORE.
Fatal(e, c, m) ==
    \/ /\ c.type \in {"none", "freed"}
       /\ m.type \notin {"open", "adjust"}
       /\ ~(e = "client" /\ m.type \in {"eow", "exit"})
    \/ m.type \in {"confirm", "failure"} /\ c.type # "opening"
    \/ /\ m.type = "data"
       /\ c.type = "open"
       /\ c.ostate = "open"
       /\ m.n > c.local_window
    \/ /\ m.type = "ext"
       /\ c.type = "open"
       /\ "EOF_RCVD" \in c.flags

Receive(e, c, m) ==
    CASE c.type \in {"none", "freed"}  -> c
      [] m.type = "confirm" -> channel_input_open_confirmation(c, m.n)
      [] m.type = "failure" -> chan_mark_dead(c)
      [] m.type = "data"    -> channel_input_data(c, m.n)
      [] m.type = "ext"     -> channel_input_extended_data(e, c, m.n)
      [] m.type = "adjust"  -> channel_input_window_adjust(c, m.n)
      [] m.type = "eof"     -> chan_rcvd_ieof(e, c)
      [] m.type = "close"   -> chan_rcvd_oclose(e, c)
      [] m.type = "eow"     -> chan_rcvd_eow(c)
      [] m.type = "exit"    -> c
      [] m.type = "shell"   -> IF c.type = "larval"
                               THEN channel_set_fds(c) ELSE c

(***************************************************************************)
(* channel_output_poll: buffered input becomes packets, as far as the      *)
(* remote window allows; EOF when the input has ended and is empty.        *)
(***************************************************************************)
channel_output_poll_input_open(e, c) ==
    LET len == Smaller(c.input, Smaller(c.remote_window, MaxPacket))
    IN  IF c.input = 0
        THEN IF c.istate = "drain" /\ ~CHANNEL_EFD_INPUT_ACTIVE(e, c)
             THEN chan_ibuf_empty(c) ELSE c
        ELSE IF len = 0 THEN c
        ELSE [Send(c, Data(len)) EXCEPT !.input = @ - len,
                                        !.remote_window = @ - len]

channel_output_poll_extended_read(c) ==
    LET len == Smaller(c.extended, Smaller(c.remote_window, MaxPacket))
    IN  IF len = 0 THEN c
        ELSE [Send(c, Ext(len)) EXCEPT !.extended = @ - len,
                                       !.remote_window = @ - len]

channel_output_poll(e, c) ==
    LET c1 == IF c.istate \in {"open", "drain"}
              THEN channel_output_poll_input_open(e, c) ELSE c
    IN  IF \/ c.type # "open"
           \/ c.flags \cap {"CLOSE_SENT", "CLOSE_RCVD"} # {}
        THEN c
        ELSE IF ExtRead(e) /\ "EOF_SENT" \notin c1.flags
        THEN channel_output_poll_extended_read(c1)
        ELSE c1

-----------------------------------------------------------------------------
(***************************************************************************)
(* The actions.  Update(e, c) leaves c at end e and puts what it sent on   *)
(* the wire to the peer.                                                   *)
(***************************************************************************)
Update(e, result) ==
    \E c \in {result} :
        /\ ch' = [ch EXCEPT ![e] = [c EXCEPT !.sent = <<>>]]
        /\ wire' = [wire EXCEPT ![Peer(e)] = @ \o c.sent]

\* The client opens the channel: for a session at once, for a forwarding
\* when its listener accepts a connection.
OpenChannel ==
    /\ ch["client"].type = "none"
    /\ Update("client",
              Send([channel_new("opening", WindowMax,
                        IF kind = "session" THEN "user" ELSE "none")
                      EXCEPT !.efd = (kind = "session")], Open(WindowMax)))
    /\ UNCHANGED <<kind, child, source, errsource, failures, timeouts, broken>>

\* server_input_channel_open: a session's channel is larval, without window,
\* and confirmed at once; a forwarding connects first, or is refused.
server_input_channel_open(m) ==
    LET new(type, window, detach) ==
            [channel_new(type, window, detach)
               EXCEPT !.remote_window = m.n]
    IN  \/ /\ kind = "session"
           /\ ch' = [ch EXCEPT !["server"] = new("larval", 0, "user")]
           /\ wire' = [wire EXCEPT !["server"] = Tail(@),
                                   !["client"] = Append(@, Confirm(0))]
        \/ /\ kind = "forward"
           /\ ch' = [ch EXCEPT !["server"] = new("connecting", WindowMax, "none")]
           /\ wire' = [wire EXCEPT !["server"] = Tail(@)]
        \/ /\ ch' = [ch EXCEPT !["server"] = [@ EXCEPT !.type = "freed"]]
           /\ wire' = [wire EXCEPT !["server"] = Tail(@),
                                   !["client"] = Append(@, Failure)]

\* channel_post_connecting: the connection is made or has failed.
channel_post_connecting ==
    LET c == ch["server"]
    IN  /\ c.type = "connecting"
        /\ \/ Update("server", Send([c EXCEPT !.type = "open"],
                                    Confirm(c.local_window)))
           \/ Update("server", chan_mark_dead(Send(c, Failure)))
        /\ UNCHANGED <<kind, child, source, errsource, failures, timeouts, broken>>

\* process_buffered_input_packets: one packet received by e.
Dispatch(e) ==
    /\ wire[e] # <<>>
    /\ UNCHANGED <<kind, source, errsource, failures, timeouts>>
    /\ \E m \in {Head(wire[e])} : \E c \in {Receive(e, ch[e], m)} :
           IF Fatal(e, ch[e], m)
           THEN broken' = TRUE /\ UNCHANGED <<ch, wire, child>>
           ELSE /\ broken' = FALSE
                /\ child' = IF m.type = "shell" /\ ch[e].type = "larval"
                            THEN "running" ELSE child
                /\ IF m.type = "open"
                   THEN server_input_channel_open(m)
                   ELSE /\ ch' = [ch EXCEPT ![e] = [c EXCEPT !.sent = <<>>]]
                        /\ wire' = [wire EXCEPT ![e] = Tail(@),
                                                ![Peer(e)] = @ \o c.sent]

OutputPoll(e) ==
    /\ \E c \in {channel_output_poll(e, ch[e])} : c # ch[e] /\ Update(e, c)
    /\ UNCHANGED <<kind, child, source, errsource, failures, timeouts, broken>>

\* channel_prepare_poll and channel_after_poll: the pre handler, the poll,
\* the post handler, each followed by the garbage collection.
Prepared(e) ==
    channel_garbage_collect(e,
        IF ch[e].type = "open" THEN channel_pre_open(e, ch[e]) ELSE ch[e])

Poll(e, c, r, w, x) ==
    /\ ch[e].type \notin {"none", "freed"}
    /\ Update(e, CASE c.type = "freed" -> c
                   [] c.type = "open"  -> channel_garbage_collect(e,
                                            channel_post_open(e, c, r, w, x))
                   [] OTHER            -> channel_garbage_collect(e, c))
    /\ failures' = failures + (IF w = Failed THEN 1 ELSE 0)
                      + (IF x = Failed /\ ExtWrite(e) THEN 1 ELSE 0)
    /\ UNCHANGED <<kind, child, source, errsource, timeouts, broken>>

PollIO(e) ==
    \E c \in {Prepared(e)} :
        \E r \in ReadOutcomes(e, c) : \E w \in WriteOutcomes(c) :
            \E x \in ExtOutcomes(e, c, w) : Poll(e, c, r, w, x)

\* channel_handler closes a channel after a time of inactivity.
InactivityTimeout(e) ==
    /\ ch[e].type = "open"
    /\ MayFail(0)
    /\ timeouts' = timeouts + 1
    /\ Update(e, channel_garbage_collect(e, channel_force_close(e, ch[e])))
    /\ UNCHANGED <<kind, child, source, errsource, failures, broken>>

\* A plausible slip: the channel's user does not ask for the close.
ExitMessageAttached ==
    /\ child = "running"
    /\ child' = "reaped"
    /\ IF ch["server"].detach = "none"
       THEN UNCHANGED <<ch, wire>>
       ELSE Update("server", chan_write_failed(Send(ch["server"], ExitStatus)))
    /\ UNCHANGED <<kind, source, errsource, failures, timeouts, broken>>

\* collect_children, session_close_by_pid, session_exit_message.
session_exit_message ==
    LET c == ch["server"]
    IN  /\ child = "running"
        /\ child' = "reaped"
        /\ IF c.detach = "none"
           THEN UNCHANGED <<ch, wire>>
           ELSE Update("server", chan_write_failed(
                    [Send(c, ExitStatus) EXCEPT !.detach = "close"]))
        /\ UNCHANGED <<kind, source, errsource, failures, timeouts, broken>>

Init ==
    /\ kind \in Kinds
    /\ ch = [e \in Ends |-> channel_new("none", 0, "none")]
    /\ wire = [e \in Ends |-> <<>>]
    /\ child = "none"
    /\ errsource \in IF kind = "session" THEN 0 .. MaxBytes ELSE {0}
    /\ source \in [Ends -> 0 .. MaxBytes]
    /\ source["client"] + source["server"] + errsource <= MaxBytes
    /\ failures = 0
    /\ timeouts = 0
    /\ broken = FALSE

Next ==
    /\ ~broken
    /\ \/ OpenChannel
       \/ channel_post_connecting
       \/ session_exit_message
       \/ \E e \in Ends : Dispatch(e)
       \/ \E e \in Ends : OutputPoll(e)
       \/ \E e \in Ends : PollIO(e)
       \/ \E e \in Ends : InactivityTimeout(e)

Spec == Init /\ [][Next]_vars

(***************************************************************************)
(* Fairness.  Both event loops keep running and the programs end, so as    *)
(* long as there is something to do something is done.  Every step uses    *)
(* something up (bytes to read, packets, states of the two machines), so   *)
(* this one condition is all that is needed.  No timeout need happen.      *)
(***************************************************************************)
Work ==
    /\ ~broken
    /\ \/ \E e \in Ends : Dispatch(e)
       \/ OpenChannel
       \/ channel_post_connecting
       \/ session_exit_message
       \/ \E e \in Ends : OutputPoll(e)
       \/ \E e \in Ends : PollIO(e)

FairSpec == Spec /\ WF_vars(Work)

-----------------------------------------------------------------------------
\* Two OpenSSH ends never make each other give up the connection: no packet
\* for a channel already freed, none beyond the window, no standard error
\* after EOF, no second confirmation.
NeverDisconnected == ~broken

\* The sum over the packets of some types; a recursive function of the
\* number of packets counted.
Total(w, types) ==
    LET sum[i \in 0 .. Len(w)] ==
            IF i = 0 THEN 0
            ELSE sum[i - 1] + (IF w[i].type \in types THEN w[i].n ELSE 0)
    IN  sum[Len(w)]

InFlight(e, types) == Total(wire[e], types)

\* What a sender may still send, with what is on its way in either
\* direction, is within the window its receiver has open; and what a
\* receiver has open, will reopen and still has to write is within the
\* maximum.  Credit can be lost (see FreedDespiteFailures), never invented,
\* and no window, unsigned in the code, goes below zero.
WindowAccounted ==
    \A x \in Ends :
        LET y == Peer(x)
            c == ch[y]
        IN  /\ ch[x].remote_window >= 0 /\ c.local_window >= 0
            /\ c.type \in {"larval", "open"} =>
                 ch[x].remote_window + InFlight(y, {"data", "ext"})
                     + InFlight(x, {"adjust", "confirm"}) <= c.local_window
            /\ c.local_window + c.local_consumed + c.output
                   + (IF ExtWrite(y) THEN c.extended ELSE 0) <= WindowMax

\* A packet stream is in order: after EOF neither data nor standard error,
\* after CLOSE nothing at all.
NothingAfterClose ==
    \A e \in Ends : \A i, j \in 1 .. Len(wire[e]) :
        i < j =>
            /\ wire[e][i] # Close
            /\ wire[e][i] = Eof => wire[e][j].type \notin {"data", "ext", "eof"}

\* The server does not close a session under a running command, unless it
\* does so by force: the exit status goes out before CLOSE.
ExitStatusBeforeClose ==
    /\ child = "running"
    /\ "CLOSE_SENT" \in ch["server"].flags
    => ch["server"].forced

\* Each direction implements the byte stream.
ToServer ==
    INSTANCE ByteStream WITH
        taken <- ch["client"].read,
        delivered <- ch["server"].written,
        forced <- ch["client"].forced,
        end <- ch["server"].end

ToClient ==
    INSTANCE ByteStream WITH
        taken <- ch["server"].read,
        delivered <- ch["client"].written,
        forced <- ch["server"].forced,
        end <- ch["client"].end

StreamsImplemented == ToServer!Spec /\ ToClient!Spec

\* Once the programs have ended, both ends free the channel, as long as no
\* write to a program has failed.
Freed == \A e \in Ends : ch[e].type = "freed"

BothFreed == <>(Freed \/ failures > 0)

\* channel_input_data fakes the consumption of data it throws away, since
\* "otherwise the connection might deadlock".  So the channel is freed even
\* when writes fail.
FreedDespiteFailures == <>Freed
=============================================================================
