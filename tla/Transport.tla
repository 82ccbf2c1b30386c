------------------------------ MODULE Transport ------------------------------
(***************************************************************************)
(* The SSH transport of OpenSSH's packet.c, kex.c, kexgen.c and dispatch.c *)
(* between a client and a server: the initial key exchange, authentication *)
(* (one request and its success), and the session, in which either end may *)
(* start a re-exchange of keys at any time, both at once included.         *)
(*                                                                         *)
(* An end is a record, the C functions are operators on it with the same   *)
(* names.  A message is sealed with the sender's key and sequence number   *)
(* and opens only under the receiver's equal ones, which is what the MAC   *)
(* and the cipher make sure of.  A key is the pair of the cookies of the   *)
(* two KEXINITs, which the exchange hash covers; <<0, 0>> is the plaintext *)
(* of a new connection.  Every packet is one cipher block.                 *)
(***************************************************************************)
EXTENDS Integers, Sequences

CONSTANTS
    MaxData,        \* packets of channel data each end has to send
    MaxTimers,      \* how often each end's RekeyLimit interval runs out
    MaxEscapes,     \* how often the user types ~R at the client
    ClientLimit,    \* the client's RekeyLimit, in blocks
    ServerLimit,    \* the server's
    Wrap          \* 2^32: sequence numbers and packet counters wrap here

ASSUME TransportAssumption ==
    /\ MaxData \in Nat /\ MaxTimers \in Nat /\ MaxEscapes \in Nat
    /\ ClientLimit \in Nat /\ ServerLimit \in Nat
    /\ Wrap \in Nat \ {0}

\* What 2^32 leaves room for: RekeyLimit is well below it (ssh_packet_need_rekeying
\* asks for keys after MAX_PACKETS = 2^31 at the latest).
ASSUME CounterAssumption ==
    /\ ClientLimit + 4 < Wrap /\ ServerLimit + 4 < Wrap
    /\ 5 < Wrap

VARIABLES
    end,        \* the two ends
    wire,       \* wire[e]: the bytes e has written and the other has not read
    timers,     \* timers[e]: expiries left
    escapes     \* ~R left

vars == <<end, wire, timers, escapes>>

Ends == {"client", "server"}
Peer(e) == IF e = "client" THEN "server" ELSE "client"
Limit(e) == IF e = "client" THEN ClientLimit ELSE ServerLimit

NoKey == <<0, 0>>

\* The numbers SSH2_MSG_TRANSPORT_MIN to MAX; EXT_INFO is one of them, and
\* is not a message of the key exchange.
TransportRange == {"kexinit", "init", "reply", "newkeys", "unimplemented", "extinfo"}

ssh_packet_type_is_kex(type) ==
    type \in TransportRange \ {"extinfo"}

\* Failures that end the process; "unexpected" only logs and goes on.
Fatal == {"mac", "twice", "nokeys", "signature", "strict", "wrapped",
          "needrekey", "userauth"}
Alive(s) == s.err \notin Fatal
Fail(s, why) == [s EXCEPT !.err = why]

\* kex_new and ssh_packet_set_connection; offer: this version of OpenSSH offers
\* strict ordering, an older one does not.
Fresh(e, offer) ==
    [name |-> e, offer |-> offer, phase |-> "start", err |-> "none", out |-> <<>>,
     rekeying |-> FALSE, outgoing |-> <<>>, after_authentication |-> FALSE,
     keyOut |-> NoKey, keyIn |-> NoKey, seqOut |-> 0, seqIn |-> 0,
     packetsOut |-> 0, packetsIn |-> 0, expired |-> FALSE,
     done |-> FALSE, initial |-> FALSE, init_sent |-> FALSE, strict |-> FALSE,
     my |-> 0, peer |-> 0, newOut |-> NoKey, newIn |-> NoKey, handlers |-> {},
     sent |-> 0, got |-> <<>>, nonces |-> {}, reused |-> FALSE,
     data |-> MaxData, manual |-> FALSE]

-----------------------------------------------------------------------------
(* Sending. *)

ssh_packet_is_rekeying(s) == s.rekeying \/ ~s.done

\* A plausible slip: no look whether an exchange already runs.
NeedRekeyingAgain(s, len) ==
    /\ s.after_authentication
    /\ s.packetsOut # 0 \/ s.packetsIn # 0
    /\ s.expired \/ s.packetsOut + len > Limit(s.name)

\* len is the blocks of the packet about to be sent: one, where the code rounds
\* its length up to blocks.  The test against MAX_PACKETS is left out: with one
\* block a packet, a limit of blocks below it comes first.
ssh_packet_need_rekeying(s, len) ==
    /\ s.after_authentication
    /\ ~ssh_packet_is_rekeying(s)
    /\ s.packetsOut # 0 \/ s.packetsIn # 0
    /\ \/ s.expired
       \/ s.packetsOut + len > Limit(s.name)
       \/ s.packetsIn > Limit(s.name)

ssh_set_newkeys_out(s) ==
    IF s.newOut = NoKey THEN Fail(s, "nokeys")
    ELSE [s EXCEPT !.packetsOut = 0, !.keyOut = s.newOut, !.newOut = NoKey,
                   !.nonces = {}]

ssh_set_newkeys_in(s) ==
    IF s.newIn = NoKey THEN Fail(s, "nokeys")
    ELSE [s EXCEPT !.packetsIn = 0, !.keyIn = s.newIn, !.newIn = NoKey]

\* nonces and reused record which sequence numbers the key has sealed.
Seal(s, m) ==
    [s EXCEPT !.out = Append(@, [type |-> m.type, n |-> m.n,
                                 key |-> s.keyOut, seq |-> s.seqOut]),
              !.nonces = @ \cup {s.seqOut},
              !.reused = @ \/ (s.keyOut # NoKey /\ s.seqOut \in s.nonces),
              !.seqOut = (@ + 1) % Wrap,
              !.packetsOut = (@ + 1) % Wrap]

ssh_packet_send2_wrapped(s, m) ==
    LET t == Seal(s, m)
        u == IF m.type = "newkeys" /\ t.strict THEN [t EXCEPT !.seqOut = 0]
             ELSE t
    IN  IF t.seqOut = 0 /\ t.initial THEN Fail(t, "wrapped")
        ELSE IF t.packetsOut = 0 THEN Fail(t, "needrekey")
        ELSE CASE m.type = "newkeys" -> ssh_set_newkeys_out(u)
               [] m.type = "success" -> [t EXCEPT !.after_authentication = TRUE]
               [] OTHER -> t

\* Plausible slips: other packets not held back, and the sequence number of
\* strict mode restarted with the exchange and not with its keys.
KexinitUnheld(s) ==
    IF s.init_sent THEN s
    ELSE LET t == [s EXCEPT !.done = FALSE, !.my = @ + 1, !.init_sent = TRUE]
         IN  ssh_packet_send2_wrapped(t, [type |-> "kexinit",
                                          n |-> <<t.my, t.offer>>])

KexinitRestarts(s) ==
    IF s.init_sent THEN s
    ELSE LET t == [s EXCEPT !.done = FALSE, !.my = @ + 1, !.rekeying = TRUE,
                            !.seqOut = IF s.strict THEN 0 ELSE @,
                            !.init_sent = TRUE]
         IN  ssh_packet_send2_wrapped(t, [type |-> "kexinit",
                                          n |-> <<t.my, t.offer>>])

kex_send_kexinit(s) ==
    IF s.init_sent THEN s
    ELSE LET t == [s EXCEPT !.done = FALSE, !.my = @ + 1, !.rekeying = TRUE]
             u == ssh_packet_send2_wrapped(t, [type |-> "kexinit",
                                                n |-> <<t.my, t.offer>>])
         IN  IF Alive(u) THEN [u EXCEPT !.init_sent = TRUE] ELSE u

kex_start_rekex(s) ==
    IF ~s.done THEN Fail(s, "twice")
    ELSE kex_send_kexinit([s EXCEPT !.done = FALSE])

\* A plausible slip: a packet is sent and stays in the queue.
DequeueAgain(s, m) ==
    IF ~Alive(s) \/ s.rekeying THEN s ELSE ssh_packet_send2_wrapped(s, m)

\* One turn of the loop that empties the queue after NEWKEYS; a packet that
\* needs new keys first leaves itself and the rest in the queue.  With done
\* still FALSE at this point that never happens: the whole queue goes out
\* under the new keys, beyond RekeyLimit if it is long.
Dequeue(s, m) ==
    IF ~Alive(s) \/ s.rekeying THEN s
    ELSE IF ssh_packet_need_rekeying(s, 1) THEN kex_start_rekex(s)
    ELSE ssh_packet_send2_wrapped([s EXCEPT !.outgoing = Tail(@)], m)

Flush(s) ==
    LET turn[i \in 0 .. Len(s.outgoing)] ==
          IF i = 0 THEN s ELSE Dequeue(turn[i - 1], s.outgoing[i])
    IN  turn[Len(s.outgoing)]

ssh_packet_send2(s, m) ==
    LET kexType == ssh_packet_type_is_kex(m.type)
        need == ~kexType /\ ssh_packet_need_rekeying(s, 1)
        queued == [s EXCEPT !.outgoing = Append(@, m)]
    IN  CASE need -> kex_start_rekex(queued)
          [] ~need /\ s.rekeying /\ ~kexType -> queued
          [] OTHER ->
               LET t == ssh_packet_send2_wrapped(s, m)
               IN  IF m.type = "newkeys" /\ Alive(t)
                   THEN Flush([t EXCEPT !.rekeying = FALSE, !.expired = FALSE])
                   ELSE t

ssh_packet_check_rekey(s) ==
    IF ssh_packet_need_rekeying(s, 0) THEN kex_start_rekex(s) ELSE s

\* A packet above the transport: its place in the stream is sent + 1.
SendNext(s, type) ==
    ssh_packet_send2([s EXCEPT !.sent = @ + 1], [type |-> type, n |-> s.sent + 1])

SendKex(s, type, n) ==
    IF Alive(s) THEN ssh_packet_send2(s, [type |-> type, n |-> n]) ELSE s

-----------------------------------------------------------------------------
(* The key exchange. *)

\* An unexpected packet: in strict mode the initial exchange is given up.
kex_protocol_error(s) ==
    IF s.initial /\ s.strict THEN Fail(s, "strict")
    ELSE SendKex(Fail(s, "unexpected"), "unimplemented", 0)

\* Both peers offer ext-info, so EXT_INFO follows the first NEWKEYS.  The second
\* EXT_INFO, of kex_server_update_ext_info in the authentication, is left out.
kex_maybe_send_ext_info(s) ==
    IF Alive(s) /\ s.initial THEN SendNext(s, "extinfo") ELSE s

kex_reset_dispatch(s) == [s EXCEPT !.handlers = @ \ TransportRange]

kex_send_newkeys(s) ==
    LET t == SendKex(kex_reset_dispatch(s), "newkeys", 0)
    IN  kex_maybe_send_ext_info([t EXCEPT !.handlers = @ \cup {"newkeys"}])

\* Both keys come from the exchange hash, which covers both cookies.
Hash(s) == IF s.name = "client" THEN <<s.my, s.peer>> ELSE <<s.peer, s.my>>
kex_derive_keys(s) == [s EXCEPT !.newOut = Hash(s), !.newIn = Hash(s)]

\* The client's KEX method starts at once, the server's waits for INIT.
kex_gen(s) ==
    IF s.name = "client"
    THEN LET t == SendKex(s, "init", 0)
         IN  [t EXCEPT !.handlers = @ \cup {"reply"}]
    ELSE [s EXCEPT !.handlers = @ \cup {"init"}]

\* m.n: the cookie, and whether the peer offers strict ordering.
kex_input_kexinit(s, m) ==
    LET t == kex_send_kexinit([s EXCEPT !.handlers = @ \ {"kexinit"},
                                        !.peer = m.n[1]])
        u == IF s.initial THEN [t EXCEPT !.strict = m.n[2]] ELSE t
    IN  IF ~Alive(u) THEN u
        ELSE IF u.initial /\ u.strict /\ m.seq # 0 THEN Fail(u, "strict")
        ELSE kex_gen(u)

\* The reply carries the hash the server signed.
input_kex_gen_init(s) ==
    LET t == SendKex([s EXCEPT !.handlers = @ \ {"init"}], "reply", Hash(s))
    IN  IF Alive(t) THEN kex_send_newkeys(kex_derive_keys(t)) ELSE t

input_kex_gen_reply(s, m) ==
    IF m.n # Hash(s) THEN Fail(s, "signature")
    ELSE kex_send_newkeys(kex_derive_keys([s EXCEPT !.handlers = @ \ {"reply"}]))

\* A plausible slip: only the first exchange is marked as done.
NewkeysUndone(s) ==
    LET t == ssh_set_newkeys_in(s)
    IN  IF ~Alive(t) THEN t
        ELSE [t EXCEPT !.handlers = (@ \ {"newkeys"}) \cup {"kexinit", "extinfo"},
                       !.done = s.initial, !.initial = FALSE,
                       !.init_sent = FALSE]

kex_input_newkeys(s) ==
    LET ext == IF s.initial /\ s.name = "server" THEN {"extinfo"} ELSE {}
        t == ssh_set_newkeys_in(s)
    IN  IF ~Alive(t) THEN t
        ELSE [t EXCEPT !.handlers = (@ \ {"newkeys"}) \cup {"kexinit"} \cup ext,
                       !.done = TRUE, !.initial = FALSE, !.init_sent = FALSE]

-----------------------------------------------------------------------------
(* Receiving. *)

\* The packet opens under the key and number it was sealed with; a MAC error
\* ends the connection.
Opens(s, m) == m.key = s.keyIn /\ m.seq = s.seqIn

ssh_packet_read_poll2(s, m) ==
    LET t == [s EXCEPT !.seqIn = (@ + 1) % Wrap,
                       !.packetsIn = (@ + 1) % Wrap]
        u == IF m.type = "success"
             THEN [t EXCEPT !.after_authentication = TRUE] ELSE t
        v == IF m.type = "newkeys" /\ u.strict THEN [u EXCEPT !.seqIn = 0]
             ELSE u
    IN  IF ~Opens(s, m) THEN Fail(s, "mac")
        ELSE IF t.seqIn = 0 /\ s.initial THEN Fail(t, "wrapped")
        ELSE IF t.packetsIn = 0 THEN Fail(t, "needrekey")
        ELSE ssh_packet_check_rekey(v)

\* The handler of a packet above the transport.
Deliver(s, m) ==
    LET t == [s EXCEPT !.got = Append(@, m.n)]
    IN  CASE m.type = "extinfo" -> [t EXCEPT !.handlers = @ \ {"extinfo"}]
          [] m.type = "request" ->
               [SendNext([t EXCEPT !.handlers = {}], "success")
                    EXCEPT !.phase = "authenticated"]
          [] m.type = "success" -> [t EXCEPT !.phase = "authenticated",
                                             !.handlers = @ \ {"success"}]
          [] m.type = "data" -> SendNext(t, "answer")
          [] OTHER -> t

\* ssh_dispatch_run hands the packet to the handler of its type.  What no
\* handler expects is an error: fatal while the client authenticates.
ssh_dispatch_run(s, m) ==
    IF ~Alive(s) THEN s
    ELSE CASE m.type = "unimplemented" /\ ~(s.initial /\ s.strict) -> s
           [] m.type = "kexinit" /\ m.type \in s.handlers -> kex_input_kexinit(s, m)
           [] m.type = "init" /\ m.type \in s.handlers -> input_kex_gen_init(s)
           [] m.type = "reply" /\ m.type \in s.handlers ->
                input_kex_gen_reply(s, m)
           [] m.type = "newkeys" /\ m.type \in s.handlers -> kex_input_newkeys(s)
           [] ~ssh_packet_type_is_kex(m.type) /\ m.type \in s.handlers ->
                Deliver(s, m)
           [] s.phase = "auth" /\ s.name = "client"
                /\ m.type \notin s.handlers \cup {"unimplemented"} ->
                Fail(s, "userauth")
           [] OTHER -> kex_protocol_error(s)

-----------------------------------------------------------------------------
(* The two programs. *)

\* The result of a step of e: what it wrote goes on the wire.
Step(e, result) ==
    \E s \in {result} :
        /\ end' = [end EXCEPT ![e] = [s EXCEPT !.out = <<>>]]
        /\ wire' = [wire EXCEPT ![e] = @ \o s.out]

\* kex_setup: both ends send KEXINIT without waiting for the other's.
kex_setup(e) ==
    /\ Alive(end[e]) /\ end[e].phase = "start"
    /\ Step(e, kex_send_kexinit([end[e] EXCEPT !.phase = "kex",
                                               !.initial = TRUE,
                                               !.handlers = {"kexinit"}]))
    /\ UNCHANGED <<timers, escapes>>

\* The loop around the dispatcher leaves a phase when its exchange is done.
Reading(s) ==
    /\ Alive(s)
    /\ \/ s.phase = "kex" /\ ~s.done
       \/ s.phase \in {"auth", "session"}

Dispatch(e) ==
    /\ Reading(end[e])
    /\ wire[Peer(e)] # <<>>
    /\ \E m \in {Head(wire[Peer(e)])} :
       \E t \in {ssh_packet_read_poll2(end[e], m)} :
       \E s \in {ssh_dispatch_run(t, m)} :
         /\ end' = [end EXCEPT ![e] = [s EXCEPT !.out = <<>>]]
         /\ wire' = [wire EXCEPT ![e] = @ \o s.out, ![Peer(e)] = Tail(@)]
    /\ UNCHANGED <<timers, escapes>>

\* do_authentication2 and ssh_userauth2 replace the whole dispatch table;
\* the client asks for the service and for authentication.
StartAuthentication(e) ==
    LET s == end[e]
    IN  /\ Alive(s) /\ s.phase = "kex" /\ s.done
        /\ Step(e, IF e = "client"
                   THEN SendNext([s EXCEPT !.phase = "auth",
                                           !.handlers = {"extinfo", "success"}],
                                 "request")
                   ELSE [s EXCEPT !.phase = "auth",
                                  !.handlers = {"extinfo", "request"}])
        /\ UNCHANGED <<timers, escapes>>

\* client_init_dispatch and server_init_dispatch, at the head of the loops.
StartSession(e) ==
    /\ Alive(end[e]) /\ end[e].phase = "authenticated"
    /\ Step(e, [end[e] EXCEPT !.phase = "session",
                              !.handlers = {"kexinit", "data", "answer"}])
    /\ UNCHANGED <<timers, escapes>>

InSession(e) == Alive(end[e]) /\ end[e].phase = "session"

\* The loops make packets from channel data only while no exchange runs.
OutputPoll(e) ==
    LET s == end[e]
    IN  /\ InSession(e)
        /\ ~ssh_packet_is_rekeying(s)
        /\ ~s.manual
        /\ s.data > 0
        /\ Step(e, SendNext([s EXCEPT !.data = @ - 1], "data"))
        /\ UNCHANGED <<timers, escapes>>

\* The escape ~R, and the loop that acts on it when no exchange runs.
EscapeR ==
    /\ InSession("client")
    /\ escapes > 0
    /\ escapes' = escapes - 1
    /\ end' = [end EXCEPT !["client"].manual = TRUE]
    /\ UNCHANGED <<wire, timers>>

ManualRekey ==
    LET s == end["client"]
    IN  /\ InSession("client")
        /\ s.manual /\ ~ssh_packet_is_rekeying(s)
        /\ Step("client", kex_start_rekex([s EXCEPT !.manual = FALSE]))
        /\ UNCHANGED <<timers, escapes>>

\* The interval of RekeyLimit has run out since the last NEWKEYS, and the
\* loop, whose poll timed out, looks whether keys are due.
Expire(e) ==
    /\ InSession(e)
    /\ timers[e] > 0
    /\ timers' = [timers EXCEPT ![e] = @ - 1]
    /\ Step(e, ssh_packet_check_rekey([end[e] EXCEPT !.expired = TRUE]))
    /\ UNCHANGED escapes

Init ==
    /\ \E offer \in BOOLEAN : end = [e \in Ends |-> Fresh(e, offer)]
    /\ wire = [e \in Ends |-> <<>>]
    /\ timers = [e \in Ends |-> MaxTimers]
    /\ escapes = MaxEscapes

Next ==
    \/ \E e \in Ends :
         \/ kex_setup(e) \/ Dispatch(e) \/ StartAuthentication(e)
         \/ StartSession(e) \/ OutputPoll(e) \/ Expire(e)
    \/ EscapeR
    \/ ManualRekey

Spec == Init /\ [][Next]_vars

\* What an end does of itself; the user and the clock need not act.
Loop(e) ==
    \/ kex_setup(e) \/ Dispatch(e) \/ StartAuthentication(e)
    \/ StartSession(e) \/ OutputPoll(e)
    \/ e = "client" /\ ManualRekey

\* Loop(e) is enabled: the guards of its actions, each of which changes the
\* state whenever its guard holds.
Ready(e) ==
    LET s == end[e]
    IN  \/ Alive(s) /\ s.phase = "start"
        \/ Reading(s) /\ wire[Peer(e)] # <<>>
        \/ Alive(s) /\ s.phase = "kex" /\ s.done
        \/ Alive(s) /\ s.phase = "authenticated"
        \/ InSession(e) /\ ~ssh_packet_is_rekeying(s) /\ (s.data > 0 \/ s.manual)

\* Weak fairness of each end's loop, with Ready(e) for its ENABLED.
FairSpec == Spec /\ \A e \in Ends : []<>~Ready(e) \/ []<><<Loop(e)>>_vars

-----------------------------------------------------------------------------
(* Properties *)

\* Whoever starts a key exchange and whenever, both ends at once included, no
\* end meets a packet it does not expect, a MAC error, an exchange "requested
\* twice", keys it does not have or a counter that wrapped.
NeverDisconnected == \A e \in Ends : end[e].err = "none"

\* From its KEXINIT to its NEWKEYS an end sends nothing but key exchange: on
\* the wire no other packet stands between the two (RFC 4253, section 7.1).
OnlyKexBetween ==
    \A e \in Ends : \A i, j \in DOMAIN wire[e] :
        /\ i < j
        /\ wire[e][i].type = "kexinit"
        /\ ~ssh_packet_type_is_kex(wire[e][j].type)
        => \E k \in i .. j : wire[e][k].type = "newkeys"

\* No two packets are sealed with the same key and sequence number, although
\* sequence numbers wrap and, in strict mode, restart at NEWKEYS.
NonceOnce == \A e \in Ends : ~end[e].reused

\* Every packet an end has handed to its transport is at the peer, on the
\* wire or in the queue, once and in the order of sending: a re-exchange
\* neither loses, repeats nor overtakes what it delayed.
StreamIntact ==
    \A e \in Ends :
        LET got == end[Peer(e)].got
            ms == wire[e] \o end[e].outgoing
            above == {i \in DOMAIN ms : ~ssh_packet_type_is_kex(ms[i].type)}
        IN  /\ got = [i \in 1 .. Len(got) |-> i]
            /\ Len(got) <= end[e].sent
            /\ {ms[i].n : i \in above} = Len(got) + 1 .. end[e].sent
            /\ \A i, j \in above : i < j => ms[i].n < ms[j].n

\* With everything to send sent, the connection comes to rest: every packet
\* delivered and answered, every exchange finished, and both ends on the keys
\* of the same exchange.
AtRest ==
    \A e \in Ends :
        /\ end[e].phase = "session" /\ end[e].data = 0
        /\ ~ssh_packet_is_rekeying(end[e])
        /\ Len(end[Peer(e)].got) = end[e].sent
        /\ end[e].keyOut = end[Peer(e)].keyIn
        /\ end[e].keyOut = end[e].keyIn

ComesToRest == <>[]AtRest
=============================================================================
