# A TLA+ model of grpKeySec

The repository collects programs around group communication and key management
in 5G networks, and, beside the key management core, the source of OpenSSH
9.6p1, which is by far the largest part of it. This directory holds TLA+ modules
that model them, TLC configurations that check the modules on small instances,
and TLAPS proofs of the most important properties for every value of the
constants. `PROJECT.json` lists runs, mutants, findings, hazards and theorems in
machine-readable form and gives the source lines of every definition that models
code.

Paths below are relative to `src/5g/`; those of OpenSSH to
`src/5g/group_key_mgmt/openssh-9.6p1/`.

## 1. The system

| Component | Source | State | Operations | Module |
|---|---|---|---|---|
| gNB | `group_key_mgmt/gnb/gnb.py` | `ue_contexts`, one `k_gnb` | `/registration`, `/security_complete`, `/ue_context_setup` | `Gnb` |
| AMF | `group_key_mgmt/amf/amf.py` | `ue_contexts`, one `k_amf` | `/registration`, `/security_complete` | `Amf` |
| AUSF | `group_key_mgmt/ausf/ausf.py` | `authentication_vectors` | `/authenticate` | `Ausf` |
| UDM | `group_key_mgmt/udm/udm.py` | the constant `SUBSCRIBER_DB` | `/auth_data` | `Udm` |
| SMF | `group_key_mgmt/smf/smf.py` | `sessions` | `/session_establishment` | `Smf` |
| UPF | `group_key_mgmt/upf/upf.py` | the kernel's `gtp0` and NAT table | `/configure` | `Upf` |
| key derivations | in the programs above | - | `derive_key`, `derive_k_amf`, `derive_k_ausf` | `KeyDerivation` |
| containers, HTTP | `group_key_mgmt/docker-compose.yml`, Flask, requests | who listens, threads, blocked calls | start, accept, call, crash | `HttpFrames` |
| UE and its test | `group_key_mgmt/ue/ue.py`, `test_registration.sh` | `registered` | `/register`, the script | the UE as clients of `HttpFrames`; the script is not modelled |
| UDP emulation | `5g-emulation/*` | six scripts, sockets, `gtp0`, NAT | one action per function | `UdpEmulation` |
| multicast gNB | `5g-physical-multicast/gnb-multicast.py` | RRC, MAC and PHY objects | the public methods | `MulticastGnb` |
| MBMS over LEO satellite | `5g-sat-sim/mbms_leo_simulation.m` | core, gateway, UEs | the four steps of a run | `SatMbms` |
| resource blocks | `physicalLayerModeling.m` | scenario and two results | scenario, unicast, multicast | `RbAllocation` |
| DASH over satellite | `5g-sat-sim/mbms_leo_simulation_v1.m`, `dash_server.m` | as above, segments | streaming, playback check | planned |
| UniMulBro | `UniMulBro/unimulbro.{py,m}` | result arrays | one loop | planned |
| SSH channels | `channels.c`, `nchan.c`, `session.c`, `serverloop.c`, `clientloop.c` | two state machines, buffers and windows per channel and end | one action per call of the event loop | `Channels`, abstractly `ByteStream` |
| SSH transport | `packet.c`, `kex.c`, `kexgen.c`, `dispatch.c` | keys, sequence numbers, counters, queue and dispatch table of each end | send, dispatch, re-key | `Transport` |
| sshd authentication | `monitor.c`, `monitor_wrap.c`, `auth2*.c`, `auth.c` | the `Authctxt` of child and monitor, the monitor's permissions | one action per request and per answer | `Privsep` |
| SFTP transfers | `sftp-client.c`, `sftp-server.c` | the queue of requests, high-water marks, the two files | one action per request, reply and end | `SftpClient` |
| the rest of OpenSSH | agent, key tools, configuration, listener, multiplexing, cryptography, portability | - | - | not modelled (section 5) |

### The group key management core

A UE posts `/registration` to the gNB, which calls the AMF, which calls the
AUSF, which calls the UDM; the AMF stores the answer, derives `k_amf` and calls
back into the gNB (`/security_command`, a route the gNB does not have). The UE
then posts `/security_complete`; the gNB calls the AMF, which derives `k_gnb`
from `k_amf`, posts the UE's context to the gNB and its session to the SMF,
which configures the UPF. All calls are `requests.post` without a timeout; all
servers are Flask development servers with one thread per connection.

What is hard: handler threads of different UEs interleave over attributes that
exist once per process (`k_amf`, `k_gnb`, `gtp0`); handlers store first and fail
later; callers ignore answers; the gNB and the AMF call each other; containers
come up in any order and may die with threads waiting on them.

What makes it correct: a key held for a subscriber is that subscriber's; nothing
is stored downstream, and no registration is answered, without an
authentication; unknown UEs stay out; the UPF is configured once; every request
is answered.

### The other programs

* **UDP emulation.** Single unacknowledged datagrams between scripts that bind
  when they need to. Hard: start order, loss, a race between bind and answer.
* **Multicast gNB.** Sequential; any sequence of calls. Hard: partial
  configuration, repeated setup, resource blocks that must be given back.
* **Satellite.** Sequential with losses. Hard: what a lost answer leaves behind,
  state carried from run to run, the lossless boundary case.
* **Resource blocks.** A pure greedy algorithm, rounding and moduli. Hard: the
  pool running out, empty or oversized groups, members served at the wrong rate.

### OpenSSH

The parts modelled are those where two processes or two ends of a connection
each keep a view of one thing, and code in both must keep the views together.

* **Channels.** Each end of a channel has an input and an output state machine
  (`nchan.c`), buffers, and two windows. Hard: EOF, CLOSE, exit status, window
  updates and data of both directions cross on the wire; a descriptor fails or
  a channel times out in the middle. Correct when no end ever sends what makes
  the other disconnect, windows stay accounted for, a program sees end of file
  only after all bytes, and both ends free the channel in the end.
* **Transport.** Keys are exchanged anew after a volume, after a time or when the
  user asks, by either end. Hard: both start at once, packets are queued by a
  function that re-enters itself, counters are reset. Correct when nobody meets an
  unexpected packet or a bad MAC, no key is used twice with a number, and the
  stream of packets stays intact and goes on.
* **Authentication.** An unprivileged child talks to the client; a monitor
  repeats its bookkeeping and decides for itself. Hard: the child may do
  anything; the two count and name things by slightly different rules. Correct
  when the monitor grants only what it has seen completed, and never fails a
  child that follows its code.
* **SFTP transfers.** Many requests are under way at once. Hard: replies in any
  order, short reads, one of several failing, interrupts, kills, resumption.
  Correct when success means an equal file and failure leaves a prefix.

The channels run over the transport, which `Channels` takes for a reliable FIFO:
`StreamIntact` and `NeverDisconnected` of `Transport` are what it takes for
granted. `Transport` has authentication as one request and one answer, which
`Privsep` models in full.

## 2. Modules and the code

`KeyDerivation` and `HttpFrames` are the base; `Udm` extends both, `Amf` and
`Ausf` extend `Udm`, `Gnb` and `Smf` extend `Amf`, `Upf` extends `HttpFrames`,
and `GroupKeyMgmt` composes them. `MC*` modules only give values to constants.

**Keys.** A derivation formats the first ten characters of the parent key behind
`"<name>_derived_from_"`, which is itself longer than ten characters. A key is
the pair of its head (first ten characters) and its rest; the head of a derived
key identifies its name. So the model keeps what the slice does: every
derivation forgets all but the head of its parent.

**Threads.** `pc[c][h]` is the label of the handler of route `h` in the chain of
calls that client `c` started; no chain enters a route twice. A handler is split
at every blocking call and between assignments to shared attributes. `Post`
blocks the caller, `Goto` ends or advances a handler. An uncaught exception is
the label `err` (an error page); a container that dies turns its threads `dead`,
and a caller of a dead thread gets a ConnectionError. Data of a request is the
UE it names; the local `k_gnb` of `handle_security_complete` is `k_gnb[c]`.

**History.** `authenticated` (AMF), `group` (multicast gNB), `delivered` (satellite)
and `granted` (resource blocks) record what the programs do not, for properties
about the past; no guard reads them.

**Environment.** Clients post to the two routes the protocol gives a UE,
`/registration` and `/security_complete` of the gNB. The Docker host also publishes
`/ue_context_setup` of the gNB and the other network functions; nothing but the
network functions themselves is assumed to call those. `NothingBeforeAuthentication`
in particular needs that: a context posted to the gNB from outside is stored.
`UdmAssumption` says that every subscriber in the UDM's database has a key.

**UDP.** `Bound(p)` is the time between `bind` and the end of `recvfrom`. A
datagram in `net` is delivered to a bound socket or dropped, in any order.
`Routed` says whether the Docker host forwards between the `access` network (UE,
gNB) and the `core` network (all but the UE); without it the AMF cannot reach
the UE at all.

**Satellite.** The packet error rate is positive in all runs but the last, where
the compensation is 1 and the rate 0; a loss is a nondeterministic choice
wherever it is positive. A throughput is the number of bytes, since the latency
is the same constant in every run.

**Resource blocks.** A UE's channel is the bitrate one resource block carries, 0
below the SINR threshold; it grows with the SINR, so the minimum over a group
stands for the worst SINR. With the link budget of the script one block carries
any demand, and the loss of a group with one bad member, or blocks running out,
happen only with other parameters; the functions take the parameters as
arguments and the model covers them all. In general multicast may take more
blocks than unicast (two UEs with demands 1 and 3 and channels 1 and 3: two
blocks against three); `MulticastSaves` states when it does not.

**Channels.** A handler of the C code is an operator of the same name on the
channel record; `sent` collects the packets it makes. The actions are the calls
of the event loops: `Dispatch` (one packet received), `OutputPoll`
(`channel_output_poll`), `PollIO` (pre handlers, the poll with any possible
outcome, post handlers, garbage collection), `InactivityTimeout`,
`session_exit_message` (the command is reaped). Bytes are counted in units of a
full packet. `read`, `written`, `end` and `forced` record what the programs at the
ends saw. `ByteStream` states what a direction promises to them, and
`StreamsImplemented` that both directions of `Channels` implement it, with the
records of the two ends as refinement mapping.

**Transport.** An end is a record, the C functions are operators on it. A packet
is sealed with a key and a sequence number and opens only under the same two; a
key is the pair of the cookies that went into the exchange hash. `Wrap` stands
for 2^32. A run chooses at its start whether both ends offer strict ordering.

**Privsep.** `child` and `mon` are the two processes, `reqs` and `answers` the
socket between them. The child blocks on each answer, as `monitor_wrap.c` does;
the monitor answers a request in `monitor_read` and judges it in a second step, so
the child can run ahead. With `honest = FALSE` the child sends any requests at
all. Clients offer keys that are authorised and keys that are not, and an
unauthenticated `none` succeeds where empty passwords are permitted. The child's
limit of 1024 attempts is the constant `AttemptLimit`. The methods not carried out
(host-based, GSSAPI, keyboard-interactive) appear in lists and in
`auth_root_allowed` only; with them the host keys of `mm_answer_keyallowed` and
`server_caused_failure` are left out, and `PermitRootLogin forced-commands-only`,
which depends on options of a key.

**SftpClient.** The byte at position i of the source is the number i, so that a
lost, doubled or misplaced byte shows. `sftp_download` and `sftp_crossload` share
the loop that reads; `x` holds the local variables of the function running. A
server that answers out of order is one whose replies are read in any order. The
cut at the end (`TruncateDst`) may fail like any request; as in the code this is
not looked at, and the transfer goes on with the file as it is (`x.uncut`). `torn`
is a file that may have a hole after the attempt is over: the client was killed
with one, a second local write failed, or it could not be cut. `Kill` also drops
what the server has not worked on yet; a server that goes on with its input queue
beside the next attempt is left out.

**Left out of Channels and Transport, beside section 5.** Zombie channels, reads
forced on a terminal whose process has ended (`channels.c:2081`, `2279`) and
`CHAN_EXTENDED_IGNORE`; the test against `MAX_PACKETS` (`packet.c:992`), since every
packet counts one block here and a limit of blocks comes first; the second EXT_INFO
that `kex_server_update_ext_info` sends in the authentication (`kex.c:620`).

## 3. Runs

| Run | Question | Bounds |
|---|---|---|
| `registration` | keys and NAT under concurrent sessions | 3 clients, 2 subscribers, 1 unknown UE, symmetric clients and subscribers |
| `restarts` | what is set up, stored and answered presupposes authentication, by a restarted AMF too, and every request is answered | 2 clients, 1 subscriber, 1 unknown UE, 1 crash of any container, fairness |
| `emulations` | `MulticastGnb`: membership, slots and who is served in any sequence of calls | 3 UEs, ten lists of one to three of them, 6 packets |
| | `UdpEmulation`: registration over lossy, unordered datagrams | the six processes, any start order, fairness |
| `simulations` | `SatMbms`: agreement, counting, the lossless run | 3 UEs, 2 selected, 3 runs |
| | `RbAllocation`: the allocation is maximal and sufficient, and what multicast saves | up to 4 UEs, groups of 2, 4 blocks, channels 0, 1, 3, bitrates 1, 3 |
| `channels` | a channel's life: no disconnection, windows, order, byte streams, both ends free it | 3 bytes in all, window 2, packet 1, one fault, fairness |
| `channels_failures` | finding: a failed write can hang a session | 2 bytes, 2 faults, fairness |
| `transport` | re-keying from both ends around queued packets | 3 packets each way, limits of 1 and 3 blocks, one expiry each, one `~R`, counters wrap at 8, fairness |
| `privsep` | what the monitor grants, and that it agrees with its child | 6 configurations, 3 users, 2 keys and one that is not authorised, 3 tries, 6 attempts, 7 requests, fairness |
| `privsep_empty` | finding: the monitor dies where it should not happen | empty passwords, without and with a list, 1 user, 1 key, 3 tries |
| `sftp` | copies, prefixes, resumption, ends | files of 0 to 4 blocks, read size 2, write size 1, 2 requests, 2 attempts, 2 faults, fairness |
| `sftp_upload` | finding: success with a refused write | 4 blocks, 1 attempt, 1 fault |
| `sftp_holes` | finding: a hole after two failed local writes | a download |

Why the bounds are enough. The shared attributes of the core are cells, and a
race over one of them needs a thread that reads and one that writes: two
clients, and a third for the UPF, where two threads may race while a later one
finds what they left. Two subscribers tell a subscriber's own key from
another's. Crashes happen in `restarts`, one of any container at any
moment with or without a restart; for the safety properties of `registration` and
`restarts` any number of them is covered by the proofs. The UDP scripts run once and have no size. The multicast gNB treats
UEs alike; three give a member, a failing one and one behind it. In the
satellite run three UEs give one selected twice-receiver, one not selected and
one lost; three runs give two lossy ones and the lossless one. Four UEs in
groups of two with four blocks make the pool run out in both loops, for large
and small demands after it. In a channel the windows are two packets, so three
bytes in all fill a window, make the sender wait and need the window reopened,
with bytes left for standard error or the other direction; one fault at every
point is enough to break each handler off, two show what the second failure of a
pair leaves. In the transport, one block makes the client re-key at nearly every
packet while the server does so now and then, so exchanges follow and cross each
other; the counters wrap at 8 only if an exchange does not reset them. Three
tries and seven requests of a child that does anything reach every order in
which the monitor's permissions can be used; for an honest child they exhaust
the tries and complete both lists. Four blocks with two requests under way give
a reply in order, one ahead of it, one behind, and a short one.

`registration` uses symmetry on the clients and on the subscribers, which the
specification never tells apart; it checks no liveness property.

`emulations` and `simulations` each check two programs that share nothing. To
interleave them would show nothing, so `MCEmulations` and `MCSimulations` let a
behaviour run one of them while the other is where it starts.

Deadlock is not checked where programs end by themselves (all clients answered,
scripts done, packets bounded).

**Fairness.** `FairSpec` of `GroupKeyMgmt` assumes weak fairness, for every
request, of the threads that work on it and of the acceptance of its calls: the
operating system runs runnable threads and the servers' accept loops. Clients need
not post, and a container that is down need not come back: `docker-compose.yml` has
no restart policy. In `UdpEmulation` the scripts of the UE, gNB and AMF and the
serve loops run on and datagrams in flight are delivered or dropped; no server
need ever start. In `Channels` both event loops run on, the programs end, and
what can be read or written is at some time; no fault need happen. In
`Transport` each end's loop runs on; the user and the clock need not act. The
condition is written with the guards of the loop's actions (`Ready`) for their
ENABLED. In `Privsep` both processes are scheduled; the client need not ask. In
`SftpClient` the client and the servers work on; nobody need interrupt or retry.

**Mutants.** Every property of a passing run comes with a plausible slip in one
mapped definition ("A plausible slip: ..." in the modules) that breaks it.

### What the failing runs show

1. `channels_failures`: when a write to a local program fails, `nchan.c:377`
   empties the output buffer, and the bytes in it, or standard error buffered for
   a closed descriptor, never count as consumed. Their window is lost, the sender
   may wait for it for ever, and the session never ends, which the comment at
   `channels.c:3394` sets out to prevent for data that arrives later.
2. `sftp_upload`: every reply overwrites `status` (`sftp-client.c:2174`), so the
   refusal of a write is forgotten when the reply to a later one is good. Reading
   goes on behind the gap and the upload reports success.
3. `sftp_holes`: a second failed local write takes the branch of a good one
   (`sftp-client.c:1752`), and the file is then "truncated" beyond its end, to the
   hole that the comment at 1828 wants to avoid.
4. `privsep_empty`: with `PermitEmptyPasswords yes` and `AuthenticationMethods`,
   the monitor names the first empty password "none" (`monitor.c:908`) and ends with
   "method not in AuthenticationMethods" while the child, for which the method was
   "password", goes on to its answer; `auth2.c:728` says that this should not
   happen. The same property fails without `AuthenticationMethods`, by a longer
   way: a client's first "none" fails as an empty password in the monitor, which
   counts it, while the child does not (`auth2.c:445`), and the monitor ends in the
   fatal error that `monitor.c:346` says should not happen, at the failure for
   which the child would have disconnected.

### Observations

Met while modelling, visible in the code, and not stated as properties because the
program promises nothing about them or because they need no model to see.

* `gnb.py:45` subscripts an int: every `/ue_context_setup` stores its context and
  then answers 500; the RRC Security Mode Command is never sent.
* `smf.py:39` ignores the UPF's answer: from the second session on the UPF fails
  (`gtp0` exists) and the session is answered as established.
* `gnb-multicast.py:51`: a configuration that fails half way leaves members
  behind, and packets go to them without a configured group, and beside the group
  configured later. A second `setup_multicast_group` connects its UEs and silently
  makes no members.
* `5g-emulation/amf/amf.py:15`: nothing depends on what the AUSF, the UDM and the
  UPF answer; the UE gets its address with all three of them down.
* `5g-emulation/ue/ue.py:13`: the UE binds after it has sent, and may wait for its
  address for ever, even when all others listen; `ServedWhenListening` has the
  UE's socket bound in time as a condition.
* `test_registration.sh:7` and `:23` wait for lines nobody prints.
* A satellite registration whose answer is lost is never repeated
  (`mbms_leo_simulation.m:77`). In the DASH version, `struct()` with an empty cell
  gives an empty array, so counters stay empty (`mbms_leo_simulation_v1.m:64`).
* `sftp-client.c:1838`, `2226`, `2660`: a failed cut is logged or ignored. A file
  written in place then keeps the tail of the older one and the transfer returns 0;
  a failed download keeps its hole, a failed crossload its part. An interrupted
  upload returns 0. A refused write advances the high-water mark of an upload, too. A
  crossload has no limit of writes under way, and does not look at the close of its
  destination.
* An upload compares `id - ackid` with `num_requests` after it has sent request
  `id` (`sftp-client.c:2160`), and so has one more write outstanding than
  `sftp.1:299` says of `-R`. `RequestsInStep` claims the bound for reads only.
* `highwater` starts at 0 in an upload that is resumed further on
  (`sftp-client.c:2044`; the download sets it, 1676), so every acknowledgement looks
  out of order, and interrupting the upload cuts the remote file to nothing. What is
  left is still a prefix of the file, which is what `FailureLeavesPrefix` asks.
* With `AuthenticationMethods` and `PermitRootLogin no`, the monitor takes a method
  that succeeded for root off its lists before it looks whether root may log in, the
  child does not. Together with the first half of finding 4 this is `Disputed` in `Privsep`: the
  configurations, and for the second the user, that `HonestChildServed`,
  `ProcessesAgree` and `SuccessMeansSession` say nothing about.
* A client that asks for another service than ssh-connection with a right
  password makes the child end in an internal error, since the monitor has
  accepted it.
* `packet.c:1311`: the branch for a queued packet that triggers another exchange
  is never taken, since the exchange is not marked done at that point; a long
  queue goes out under the new keys, beyond `RekeyLimit`.

`KeyAgreement` deserves a remark. It holds although `k_amf` is shared by all UEs,
and only because the ten-character slice makes the keys of all subscribers equal
from K_AMF on. Its mutant, a derivation from the whole parent key, at once gives
one subscriber the session key of another.

## 4. Proofs

Eight modules hold the theorems: `X_proofs` for the module `X`, and
`Emulations_proofs` for the two small ones, `MulticastGnb` and `UdpEmulation`
(whose `UdpSpec` has its prefix for that reason, and `RbSpec` for the run it shares with `SatMbms`). Together they cover every safety invariant and action
property that a passing run checks.

Assumptions, each in the module that declares the constants and evaluated by TLC
in the runs: `KAssumption` (permanent keys are pairs), `UdmAssumption` (every subscriber has one), `HttpAssumption` (None is
no request, the crash bound is a natural number), `MulticastAssumption` and
`SatAssumption` (sizes are natural numbers), `RoutedAssumption` (a Boolean),
`RbAssumption` (blocks and channels are natural numbers, groups and demands
positive), `PrivsepAssumption` (accounts are users, every configuration is a
record of lists over the methods of `auth2.c`, at least one try),
`SftpAssumption` (buffers are not empty and one request may be under way, as
`sftp_init` sees to), `ChannelAssumption` (a window holds two packets; in
`channels.h` it holds 64), `TransportAssumption` (natural numbers) and
`CounterAssumption` (either end's RekeyLimit leaves the 32-bit counters room for
the few packets of an exchange: `packet.c` asks for new keys after `MAX_PACKETS` =
2^31 packets at the latest, so a limit is far below 2^32). Nothing is assumed
about the number of clients, UEs, crashes, requests, bytes, packets, attempts or
faults; a connection may send more data than its counters can count.

**`GroupKeyMgmt_proofs`.** None of the properties is inductive: each speaks of
stored state, and what may be stored next depends on how far every thread has
come. `IndInv` is the conjunction of

* `HttpInv`: types of the substrate, and a thread belongs to a posted request;
* `AuthInv`: a chain whose AUSF frame has answered is a subscriber's, and one
  whose AMF frame is past the store has an authenticated UE;
* `KeyInv`: every key held anywhere is the single key of its kind (the lemma
  `Collapse` shows that derivation leaves only one), none exists before an
  authentication, and chains that have reached the gNB's or the SMF's handler
  carry one;
* `UpfInv`: at most one thread is between `ip link add` and the NAT rule, and the
  state of `gtp0` is read off its label.

`AuthenticationFirst` needs `LifeInv` besides: since its last start the AMF holds a
subscriber's context whenever `k_amf` is set, and while a thread of it is past the
derivation of a key. A crash clears all three at once.

There is one lemma per network function (`AmfKeeps`, `GnbKeeps`, ...), with one
step per action and under it the parts of the invariant the action can disturb;
`AuthFrame`, `KeyFrame` and `UpfFrame` dispose of the others. From `Invariance`
follow `TypeCorrect`, `KeysAgree`, `AuthenticationFirst`, `SubscribersOnly`,
`AnswersTruthful` and `NatOnce`.

**`Emulations_proofs`, the multicast gNB.** The strengthening is that all resource
blocks are free between calls, from which every packet finds its 20 blocks, and that
the UEs of the configured group have the G-RNTI. Proved: types, `MembersConnected`,
`OneSlotPerPacket` and the action property `GroupServed`.

**`SatMbms_proofs`.** `ReceivedOnce` is nearly inductive: `PacketInv` adds that no
multicast is delivered before its loop, so that a UE has no packet before the
broadcast loop reaches it and at most one before the multicast loop does. Proved: `CoreAgreesWithUes` and `ReceivedOnce`. For
`FullCompensationBest` two more parts: `RunsBounded`, no run has delivered more
than `Best`, what a lossless run delivers; `LastLossless`, how far the loops of the
last run have come and that nobody behind them lacks anything. The runs select
different UEs, so their bytes cannot be compared UE by UE; `SumOfShares` shows by
induction over the UEs that the sum only depends on how many were selected.

**`Emulations_proofs`, the UDP emulation.** `AddressAfterRegistration` speaks of processes that never
exchange a datagram. `UdpInv` follows what an unread datagram, in the network or in
a socket, shows of its sender (`ForwardedFirst`, `AddressLast`), and that the one
request to the UPF is in the network, in its socket, or a rule (`AllocatedOnce`).

**`RbAllocation_proofs`.** `UnicastInv(res, k)` and `MulticastInv(res, k)` say what a
result is worth after the first k UEs or groups: who was granted what, that
whoever was passed over needed more than is left, and, where one block carries
any demand, that exactly min(k, blocks) are used. A step adds one UE or group.
From them `NobodyLeftOut`, `ServedGetTheirBitrate` and `MulticastSaves`.

**`Privsep_proofs`.** Two arguments. Against a child that does anything, `MonitorInv`:
what is left of a list in the monitor is the list without a part that is
embedded, in order, in the log of the methods it has seen succeed (`ListsDone`);
a key counts once (`KeysOnce`); a "yes" waiting to be judged is for an account
(`ValidOnly`); hence a grant is for a completed list (`Completed`), which is
`GrantedOnlyIfCompleted`. For a child that runs sshd's code, `HonestInv`: for each
place the child can be at, which request or answer is under way and how the
monitor, once it has judged what it has answered (`Settled`), relates to the
child, its tries and its lists (`Served`). The monitor runs behind the child by
one judgement, so a relation between the states as they are would not be
inductive. From it `HonestChildServed` and `ProcessesAgree`.

**`SftpClient_proofs`.** `Inv` has one part per question: `Queues`, every request the
client waits for is at the server once, as a request or as a reply; `Limits`, the
count of requests under way and the identifiers; `Reading`, a reply answers a
request for bytes already asked for; `Get` and `Cross`, every byte below the
offset is at the destination, or in a request, or there was an error; `Put`, the
writes under way continue the file without a gap, and the high-water mark is
behind what was written; `Left`, what an attempt leaves to the next. Proved:
`RequestsInStep`, `SuccessMeansCopied`, `FailureLeavesPrefix` and
`ResumableIfKilled`. The last was first stated for every point of a download; the
proof did not go through, and larger bounds showed why: after a failed local
write the file may have a hole until it is cut at the high-water mark. The
property now says so. What the theorems leave out is named in them: uploads with a
refused write (finding 2), interrupted uploads as far as a whole copy goes, files
that could not be cut (`uncut`) and files torn before.

**`Channels_proofs`.** `System` relates two channel records and the packets between
them. Of each end, `Local`: which states of the two machines go with which flags
(`Machines`), what a channel can hold at which stage of its life (`Stages`), when
the session lets go of it (`Command`), and that open window, consumed and
buffered bytes fit the maximum (`Room`). Of each direction, `Direction`: the order
of the packets (`Ordered`), what flags and packets show of the sender (`Flags`),
that written, buffered, travelling and unsent bytes are the bytes read (`Stream`),
that end of file comes behind the last byte (`Complete`), and the window (`Window`).
Of both, `Handshake`: how far opening has come. An event loop calls several
handlers before its packets go out, so `System` is stated of any two records and
queues, with what a handler has made so far (`sent`) behind the wire, and followed
handler by handler: `Good` is kept by each of them, by the lemma of its name, and
the lemmas `Quiet`, `Sending` and `Received` say what is to be shown of one that
sends nothing, one that sends and one that takes a packet. Proved: `NeverDisconnected`,
`WindowAccounted`, `NothingAfterClose`, `ExitStatusBeforeClose`, and `ByteStreams`, the
refinement: every step of `Channels` is, in either direction, a step of
`ByteStream` or leaves its variables alone.

**`Transport_proofs`.** Two arguments.

`NonceOnce` needs one end only, and no `CounterAssumption`: whatever arrives and
whatever fails, the numbers an end has sealed under its key are among the last
`packetsOut` ones (`Unused`), and the end gives up before `packetsOut` wraps.

The other three need both ends. A *view* is what an end knows of one direction:
how many exchanges are complete, how far the next one has come, how many packets
above the transport have passed, the next sequence number and the packet count.
`Fits` says which packet may follow a view, under which key and number, and
`Advance` what the view is after it. The reader's view (`In`) and the writer's
(`Sender`) are read off the two records, and the invariant `TransportInv` is that
the packets on each wire lead from the one to the other, every packet fitting
(`Between`), and that each end by itself is `Good`: which stage of an exchange goes
with which flags and keys (`Stage`), with which phase (`Phase`), what waits in the
queue (`Queue`), how far the counters have come (`Counters`) and which message the
dispatch table expects (`Handlers`). That no counter wraps, however much is sent,
takes a bound on the queue, all of which goes out under the new keys, beyond
RekeyLimit: it holds an answer for each packet of data read under the current key at
most, and of these there are no more than the peer's limit (`Top`), since data only
fits a view whose count is below it. So an exchange is never compared with the
peer's exchange, which may be one behind or one ahead: each end is compared with
the stream. `Settled` says that a client in authentication has not begun another
exchange; within `ssh_packet_read_poll2`, between the count of SUCCESS and its
handler, it may, so it is a part of the invariant of states and not of `Good`. Every
C function has its lemma: `RekexGood`, `SessionSend`, `FlushSound` (the loop over the
queue, a recursive function, by induction over its turns), `InputKexinitGood`,
`GenInitGood`, `GenReplyGood`, `SendNewkeysGood`, `InputNewkeysGood`,
`ReadPollGood`, and `DispatchGood` for a packet that fits. Then
`NeverDisconnected` is a part of `Stage`; `OnlyKexBetween` follows by induction
along the wire, since no packet above the transport fits while an exchange is
under way; and for `StreamIntact` the views count the packets above the transport
(`Counts`), so their numbers go up by one from what the reader has got to what the
writer has sent.

**Sums and loops.** The provers cannot use the library's induction theorems, whose
parameter is an operator. The sums over UEs and packets, and the loop of `Flush`, are recursive functions of a
number, and induction over them is stated with a set (`NatInd`, `Induction`: a set
that has 0 and with n also n + 1 contains Nat), which follows from the
well-foundedness of `<`. That the recursive function exists is the first thing
proved of it.

**Only model-checked.** Liveness (`EveryRequestAnswered`, `ServedWhenListening`, `BothFreed`, `ComesToRest`, `SuccessMeansSession`,
`TransferEnds`): fairness is out of the prover's reach. The seven findings.

## 5. Not modelled

* Of OpenSSH: cryptography and byte buffers (arithmetic); key formats, key tools
  and configuration (parsers and one-shot programs); the agent (one request at a
  time over a list); portability code and the regression tests. The listener
  (`MaxStartups`), login sessions, the multiplexing socket and the old scp protocol
  are planned. Of the modelled parts: listeners and permissions of forwardings,
  X11 and agent channels, SOCKS; compression and algorithm negotiation;
  keyboard-interactive, host-based, GSSAPI and PAM authentication; directories,
  globbing and attributes in SFTP. Time is left out but for timeouts, which may
  happen at any moment.
* `test_registration.sh`: a loop over log files that never ends.
* Floating-point statistics, latency formulas, plots, reports and recorded
  results (`Matlab_5G_Simulation_Results`, `*.png`, `full_trace.log`).
* `UE.configure_network`: it has no caller. The random `ue_ip` of the SMF: no
  program reads it. `rand`, `autn`, `opc`, `sqn`: constants nobody reads.
* Message authentication codes: the AMF's is sent to a route that does not
  exist, the gNB's is never computed.

## 6. Plan

1. Done: all modules of section 2, and the proofs of section 4.
2. Model further: the listener of sshd and `MaxStartups`; connection sharing
   (`mux.c`); remote forwardings and their permissions; the DASH version of the
   satellite script and the block accounting of UniMulBro.
