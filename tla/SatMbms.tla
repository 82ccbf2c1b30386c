------------------------------ MODULE SatMbms ------------------------------
(***************************************************************************)
(* MBMS over a LEO satellite (5g-sat-sim/mbms_leo_simulation.m): in every  *)
(* run a fresh core, gateway and set of UEs go through registration,       *)
(* session setup, broadcast and multicast over a link that loses messages  *)
(* unless the Doppler shift is fully compensated.                          *)
(***************************************************************************)
EXTENDS Integers, FiniteSets

CONSTANTS
    MBMS_BROADCAST_USERS,
    MBMS_MULTICAST_USERS,
    SIMULATION_RUNS,
    PACKET_SIZE_BYTES

ASSUME SatAssumption ==
    /\ MBMS_BROADCAST_USERS \in Nat \ {0}
    /\ MBMS_MULTICAST_USERS \in Nat
    /\ SIMULATION_RUNS \in Nat \ {0}
    /\ PACKET_SIZE_BYTES \in Nat \ {0}

UEs == 1..MBMS_BROADCAST_USERS

VARIABLES
    run,               \* the run, 0 before the first
    step,              \* the step of the run, "start" between runs
    i,                 \* the loop variable of the registration and broadcast loops
    registered,        \* the UEs i with gateway.ues(i).registered
    session_active,    \* the UEs i with gateway.ues(i).session_active
    received_packets,  \* gateway.ues(i).received_packets
    total_bytes,       \* gateway.ues(i).total_bytes
    delivered,         \* history: <<"broadcast", u>> and <<"multicast", u>> that came through
    registered_ues,    \* core.registered_ues
    mbms_sessions,     \* core.mbms_sessions, by the number of the run
    selected_ues,      \* the UEs of the multicast
    remaining,         \* those of selected_ues the loop has not come to
    throughputs        \* per run: the bytes received (the latency is constant)

linkVars    == <<registered, session_active, registered_ues, mbms_sessions>>
packetVars  == <<received_packets, total_bytes, delivered>>
controlVars == <<run, step, i, selected_ues, remaining>>
vars        == <<controlVars, linkVars, packetVars, throughputs>>

Steps == {"start", "register", "session", "broadcast", "select", "multicast"}

Init ==
    /\ run = 0
    /\ step = "start"
    /\ i = 1
    /\ registered = {} /\ session_active = {}
    /\ received_packets = [u \in UEs |-> 0]
    /\ total_bytes = [u \in UEs |-> 0]
    /\ delivered = {}
    /\ registered_ues = {} /\ mbms_sessions = {}
    /\ selected_ues = {} /\ remaining = {}
    /\ throughputs = [r \in 1..SIMULATION_RUNS |-> 0]
-----------------------------------------------------------------------------
Empty == "[]"

simulate_core_processing(type) ==
    CASE type = "REGISTRATION_REQUEST" -> "REGISTRATION_ACCEPT"
      [] type = "SESSION_REQUEST"      -> "SESSION_ACCEPT"
      [] OTHER                         -> Empty

\* A plausible slip: the packet error rate forgets the compensation.
TransmitUncompensated(msg) == {msg, Empty}

\* What may come out of the link: the compensation grows from 0 in the first
\* run to 1 in the last, where the packet error rate is 0 and rand() > 0.
\* With a single run linspace(0, 1, 1) is 1 too.
simulate_gateway_transmit(msg) ==
    IF run = SIMULATION_RUNS THEN {msg} ELSE {msg, Empty}

\* What comes back for a request: the answer of the core, or nothing.
Response(type) == simulate_gateway_transmit(simulate_core_processing(type))

\* A plausible slip: the core is set up once, before the first run.
StartRunKeepCore ==
    /\ step = "start" /\ run < SIMULATION_RUNS
    /\ run' = run + 1
    /\ step' = "register"
    /\ i' = 1
    /\ registered' = {} /\ session_active' = {}
    /\ received_packets' = [u \in UEs |-> 0]
    /\ total_bytes' = [u \in UEs |-> 0]
    /\ delivered' = {}
    /\ selected_ues' = {} /\ remaining' = {}
    /\ UNCHANGED <<registered_ues, mbms_sessions, throughputs>>

\* The head of the loop: a fresh core and fresh UEs.
StartRun ==
    /\ step = "start" /\ run < SIMULATION_RUNS
    /\ run' = run + 1
    /\ step' = "register"
    /\ i' = 1
    /\ registered' = {} /\ session_active' = {}
    /\ received_packets' = [u \in UEs |-> 0]
    /\ total_bytes' = [u \in UEs |-> 0]
    /\ delivered' = {}
    /\ registered_ues' = {} /\ mbms_sessions' = {}
    /\ selected_ues' = {} /\ remaining' = {}
    /\ UNCHANGED throughputs

\* for i = 1:MBMS_BROADCAST_USERS, then the step that follows the loop
LoopTo(next) ==
    IF i = MBMS_BROADCAST_USERS
    THEN i' = 1     /\ step' = next
    ELSE i' = i + 1 /\ UNCHANGED step

\* Step 1 for UE i; a lost answer is not asked for again.
Register ==
    /\ step = "register"
    /\ \E response \in Response("REGISTRATION_REQUEST") :
          IF response # Empty
          THEN /\ registered' = registered \cup {i}
               /\ registered_ues' = registered_ues \cup {i}
          ELSE UNCHANGED <<registered, registered_ues>>
    /\ LoopTo("session")
    /\ UNCHANGED <<run, selected_ues, remaining, session_active, mbms_sessions,
                   packetVars, throughputs>>

\* Step 2: the first UE asks, and the session is active for all or for none.
SetupSession ==
    /\ step = "session"
    /\ \E response \in Response("SESSION_REQUEST") :
          IF response # Empty
          THEN /\ session_active' = UEs
               /\ mbms_sessions' = mbms_sessions \cup {run}
          ELSE UNCHANGED <<session_active, mbms_sessions>>
    /\ step' = "broadcast"
    /\ UNCHANGED <<run, i, selected_ues, remaining, registered, registered_ues,
                   packetVars, throughputs>>

\* What UE u does with what came out of the link in Step 3 or Step 4.
Receive(u, transmitted) ==
    IF transmitted # Empty
    THEN /\ received_packets' = [received_packets EXCEPT ![u] = @ + 1]
         /\ total_bytes' = [total_bytes EXCEPT ![u] = @ + PACKET_SIZE_BYTES]
         /\ delivered' = delivered \cup {<<step, u>>}
    ELSE UNCHANGED packetVars

\* Step 3 for UE i, registered or not.
Broadcast ==
    /\ step = "broadcast"
    /\ \E transmitted \in simulate_gateway_transmit("MBMS_DATA") : Receive(i, transmitted)
    /\ LoopTo("select")
    /\ UNCHANGED <<run, selected_ues, remaining, linkVars, throughputs>>

\* min(MBMS_MULTICAST_USERS, MBMS_BROADCAST_USERS)
Selected == IF MBMS_MULTICAST_USERS < MBMS_BROADCAST_USERS
            THEN MBMS_MULTICAST_USERS ELSE MBMS_BROADCAST_USERS

\* randsample without replacement
Select ==
    /\ step = "select"
    /\ \E S \in SUBSET UEs :
          /\ Cardinality(S) = Selected
          /\ selected_ues' = S
          /\ remaining' = S
    /\ step' = "multicast"
    /\ UNCHANGED <<run, i, linkVars, packetVars, throughputs>>

\* A plausible slip: the selected UEs are drawn with replacement, so that the
\* loop may come to one of them again.
MulticastWithReplacement ==
    /\ step = "multicast"
    /\ \E u \in remaining :
          /\ \E transmitted \in simulate_gateway_transmit("MBMS_DATA") : Receive(u, transmitted)
          /\ remaining' \in {remaining, remaining \ {u}}
    /\ UNCHANGED <<run, step, i, selected_ues, linkVars, throughputs>>

\* Step 4 for one selected UE; the order of selected_ues is random.
Multicast ==
    /\ step = "multicast"
    /\ \E u \in remaining :
          /\ \E transmitted \in simulate_gateway_transmit("MBMS_DATA") : Receive(u, transmitted)
          /\ remaining' = remaining \ {u}
    /\ UNCHANGED <<run, step, i, selected_ues, linkVars, throughputs>>

\* sum(arrayfun(@(x) x.total_bytes, gateway.ues(1:MBMS_BROADCAST_USERS)))
SumOfBytes(bytes) ==
    LET sum[n \in 0..MBMS_BROADCAST_USERS] == IF n = 0 THEN 0 ELSE sum[n - 1] + bytes[n]
    IN  sum[MBMS_BROADCAST_USERS]

\* The metrics at the end of the run.
Metrics ==
    /\ step = "multicast" /\ remaining = {}
    /\ throughputs' = [throughputs EXCEPT ![run] = SumOfBytes(total_bytes)]
    /\ step' = "start"
    /\ UNCHANGED <<run, i, selected_ues, remaining, linkVars, packetVars>>

Next == StartRun \/ Register \/ SetupSession \/ Broadcast \/ Select \/ Multicast \/ Metrics

Spec == Init /\ [][Next]_vars
-----------------------------------------------------------------------------
(***************************************************************************)
(* The core and the UEs agree on who is registered and whether there is a  *)
(* session, and nothing of an earlier run is left in either.               *)
(***************************************************************************)
CoreAgreesWithUes ==
    /\ registered_ues = registered
    /\ session_active = IF run \in mbms_sessions THEN UEs ELSE {}
    /\ mbms_sessions \subseteq {run}

(***************************************************************************)
(* A UE counts the broadcast of the run once if it came through and never  *)
(* otherwise, the multicast likewise and only if the UE was selected, and  *)
(* its bytes are those of its packets.                                     *)
(***************************************************************************)
Count(service, u) == IF <<service, u>> \in delivered THEN 1 ELSE 0

ReceivedOnce ==
    \A u \in UEs :
        /\ received_packets[u] = Count("broadcast", u) + Count("multicast", u)
        /\ total_bytes[u] = PACKET_SIZE_BYTES * received_packets[u]
        /\ <<"multicast", u>> \in delivered => u \in selected_ues \ remaining
        /\ <<"broadcast", u>> \in delivered => /\ step \notin {"register", "session"}
                                               /\ step = "broadcast" => u < i

(***************************************************************************)
(* The run with full Doppler compensation loses nothing: every UE is       *)
(* registered and has every packet it was sent, and no run has a higher    *)
(* throughput ("demonstrating how Doppler compensation improves            *)
(* performance", 5g-sat-sim/README.md:4).                                  *)
(***************************************************************************)
FullCompensationBest ==
    (run = SIMULATION_RUNS /\ step = "start") =>
        /\ registered = UEs
        /\ session_active = UEs
        /\ \A u \in UEs : received_packets[u] = IF u \in selected_ues THEN 2 ELSE 1
        /\ \A r \in 1..SIMULATION_RUNS : throughputs[r] <= throughputs[SIMULATION_RUNS]
=============================================================================
