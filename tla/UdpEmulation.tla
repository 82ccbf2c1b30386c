---------------------------- MODULE UdpEmulation ----------------------------
(***************************************************************************)
(* The UDP emulation (5g-emulation): six containers that exchange single   *)
(* datagrams.  ue.py, gnb.py and amf.py are straight-line scripts that run *)
(* once; ausf.py, udm.py and upf.py serve for ever.                        *)
(*                                                                         *)
(* UDP keeps no promise here: datagrams overtake each other, and one that  *)
(* arrives where no socket is bound is dropped.  Every script makes its    *)
(* socket when it needs it, and the AMF drops the sockets of its requests  *)
(* as soon as they are sent, so no answer to the AMF is ever read.         *)
(*                                                                         *)
(* UdpInit, UdpNext and UdpSpec carry their prefix so that one module can  *)
(* extend this one and another.                                            *)
(***************************************************************************)
EXTENDS Naturals

CONSTANT Routed   \* does the Docker host forward between its bridge networks?

ASSUME RoutedAssumption == Routed \in BOOLEAN

Servers == {"ausf", "udm", "upf"}
Procs   == {"ue", "gnb", "amf"} \cup Servers

\* Where datagrams can go: a process, or a socket the AMF has closed again.
Closed == "amf, closed socket"
Messages == {"UE_REG_REQUEST", "AUTH_REQ", "GET_PROFILE", "ALLOC_IP", "10.0.0.5",
             "AUTH_OK", "USER_PROFILE_OK", "IP_ALLOC_OK"}
Datagrams == [to : Procs \cup {Closed}, data : Messages]

VARIABLES
    pc,      \* pc[p]: how far the script of p has come
    inbox,   \* inbox[p]: what waits in the bound socket of p
    net,     \* the datagrams in flight
    gtp0,    \* the gNB's interface: "absent", "link", "addr" or "up"
    nat      \* number of MASQUERADE rules at the UPF

UdpVars == <<pc, inbox, net, gtp0, nat>>

\* The networks of docker-compose.yml.
Networks(p) == IF p = "ue" THEN {"access"}
               ELSE IF p = "gnb" THEN {"access", "core"} ELSE {"core"}
Reachable(p, q) == Routed \/ Networks(p) \cap Networks(q) # {}

\* The socket of p is bound from its bind to the end of its recvfrom (for
\* ever in a server).
Bound(p) == pc[p] = "recv"

Labels == {"start", "sent", "recv", "forward", "gtp", "auth", "profile", "alloc", "address",
           "configure", "done"}

UdpInit ==
    /\ pc = [p \in Procs |-> "start"]
    /\ inbox = [p \in Procs |-> {}]
    /\ net = {}
    /\ gtp0 = "absent"
    /\ nat = 0

Goto(p, label) == pc' = [pc EXCEPT ![p] = label]

\* sendto never fails; a datagram that cannot be routed is gone.
Send(p, q, data) ==
    net' = IF q \in Procs /\ ~Reachable(p, q) THEN net ELSE net \cup {[to |-> q, data |-> data]}

\* s.recvfrom(1024)
Receive(p, m) == m \in inbox[p] /\ inbox' = [inbox EXCEPT ![p] = @ \ {m}]

\* The kernel delivers a datagram to a bound socket and drops it otherwise.
Deliver(d) ==
    /\ net' = net \ {d}
    /\ inbox' = IF d.to \in Procs /\ Bound(d.to)
                THEN [inbox EXCEPT ![d.to] = @ \cup {d.data}] ELSE inbox
    /\ UNCHANGED <<pc, gtp0, nat>>

(***************************************************************************)
(* ue.py: the registration is sent before the socket for the answer exists.*)
(***************************************************************************)
send_registration ==
    /\ pc["ue"] = "start"
    /\ Send("ue", "gnb", "UE_REG_REQUEST")
    /\ Goto("ue", "sent")
    /\ UNCHANGED <<inbox, gtp0, nat>>

wait_for_ip_bind ==
    /\ pc["ue"] = "sent"
    /\ Goto("ue", "recv")
    /\ UNCHANGED <<inbox, net, gtp0, nat>>

wait_for_ip_receive ==
    /\ pc["ue"] = "recv"
    /\ \E m \in Messages : Receive("ue", m)
    /\ Goto("ue", "configure")
    /\ UNCHANGED <<net, gtp0, nat>>

\* The address, the route and the ping; nobody looks at their results.
test_connectivity ==
    /\ pc["ue"] = "configure"
    /\ Goto("ue", "done")
    /\ UNCHANGED <<inbox, net, gtp0, nat>>

\* Every other script begins by binding its socket.
Bind(p) ==
    /\ p # "ue" /\ pc[p] = "start"
    /\ Goto(p, "recv")
    /\ UNCHANGED <<inbox, net, gtp0, nat>>

(***************************************************************************)
(* gnb.py                                                                  *)
(***************************************************************************)
receive_from_ue ==
    /\ pc["gnb"] = "recv"
    /\ \E m \in Messages : Receive("gnb", m)
    /\ Goto("gnb", "forward")
    /\ UNCHANGED <<net, gtp0, nat>>

send_to_amf ==
    /\ pc["gnb"] = "forward"
    /\ Send("gnb", "amf", "UE_REG_REQUEST")
    /\ Goto("gnb", "gtp")
    /\ UNCHANGED <<inbox, gtp0, nat>>

\* setup_gtp: the first command that fails ends it, nothing is undone.
setup_gtp ==
    /\ pc["gnb"] = "gtp"
    /\ gtp0' \in {"absent", "link", "addr", "up"}
    /\ Goto("gnb", "done")
    /\ UNCHANGED <<inbox, net, nat>>

(***************************************************************************)
(* amf.py: four requests in a row, none of them waits for its answer.      *)
(***************************************************************************)
\* A plausible slip: NAS taken as received as soon as the script starts.
ListenGnbNonBlocking ==
    /\ pc["amf"] = "recv"
    /\ Goto("amf", "auth")
    /\ UNCHANGED <<inbox, net, gtp0, nat>>

listen_gnb ==
    /\ pc["amf"] = "recv"
    /\ \E m \in Messages : Receive("amf", m)
    /\ Goto("amf", "auth")
    /\ UNCHANGED <<net, gtp0, nat>>

auth_with_ausf ==
    /\ pc["amf"] = "auth"
    /\ Send("amf", "ausf", "AUTH_REQ")
    /\ Goto("amf", "profile")
    /\ UNCHANGED <<inbox, gtp0, nat>>

get_profile_from_udm ==
    /\ pc["amf"] = "profile"
    /\ Send("amf", "udm", "GET_PROFILE")
    /\ Goto("amf", "alloc")
    /\ UNCHANGED <<inbox, gtp0, nat>>

request_ip_from_upf ==
    /\ pc["amf"] = "alloc"
    /\ Send("amf", "upf", "ALLOC_IP")
    /\ Goto("amf", "address")
    /\ UNCHANGED <<inbox, gtp0, nat>>

\* A plausible slip: the address goes to the gNB, for it to forward.
SendIpToGnb ==
    /\ pc["amf"] = "address"
    /\ Send("amf", "gnb", "10.0.0.5")
    /\ Goto("amf", "done")
    /\ UNCHANGED <<inbox, gtp0, nat>>

send_ip_to_ue ==
    /\ pc["amf"] = "address"
    /\ Send("amf", "ue", "10.0.0.5")
    /\ Goto("amf", "done")
    /\ UNCHANGED <<inbox, gtp0, nat>>

(***************************************************************************)
(* serve of ausf.py, udm.py and upf.py: answer every request; the UPF      *)
(* answers only "ALLOC_IP", after it has appended its NAT rule.            *)
(***************************************************************************)
Answer == [ausf |-> "AUTH_OK", udm |-> "USER_PROFILE_OK", upf |-> "IP_ALLOC_OK"]

serve(p) ==
    /\ pc[p] = "recv"
    /\ \E m \in Messages :
          /\ Receive(p, m)
          /\ IF p = "upf" /\ m # "ALLOC_IP"
             THEN UNCHANGED <<net, nat>>
             ELSE /\ Send(p, Closed, Answer[p])
                  /\ nat' = IF p = "upf" THEN nat + 1 ELSE nat
    /\ UNCHANGED <<pc, gtp0>>

Ue  == send_registration \/ wait_for_ip_bind \/ wait_for_ip_receive \/ test_connectivity
Gnb == Bind("gnb") \/ receive_from_ue \/ send_to_amf \/ setup_gtp
Amf == \/ Bind("amf") \/ listen_gnb \/ auth_with_ausf \/ get_profile_from_udm
       \/ request_ip_from_upf \/ send_ip_to_ue

UdpNext ==
    \/ Ue \/ Gnb \/ Amf
    \/ \E p \in Servers : Bind(p) \/ serve(p)
    \/ \E d \in net : Deliver(d)

UdpSpec == UdpInit /\ [][UdpNext]_UdpVars

(***************************************************************************)
(* The scripts run on and datagrams arrive or are dropped in the end; no   *)
(* AUSF, UDM or UPF need ever come up.                                     *)
(***************************************************************************)
Fairness ==
    /\ WF_UdpVars(Ue) /\ WF_UdpVars(Gnb) /\ WF_UdpVars(Amf)
    /\ \A p \in Servers : WF_UdpVars(serve(p))
    /\ \A d \in Datagrams : WF_UdpVars(d \in net /\ Deliver(d))

FairSpec == UdpSpec /\ Fairness
-----------------------------------------------------------------------------
(***************************************************************************)
(* The UE configures an address only when the gNB and the AMF have been    *)
(* through the registration it sent: the gNB has forwarded it and the AMF  *)
(* has made all its requests.  And one registration appends at most one    *)
(* NAT rule at the UPF, although the rule is appended without a look at    *)
(* the ones already there.                                                 *)
(***************************************************************************)
AddressAfterRegistration ==
    /\ pc["ue"] \in {"configure", "done"} => pc["gnb"] \in {"gtp", "done"} /\ pc["amf"] = "done"
    /\ nat <= 1
    /\ nat = 1 => pc["amf"] \in {"address", "done"}

(***************************************************************************)
(* If the host routes between the UE's and the AMF's network, the gNB and  *)
(* the AMF listen, and the UE listens before its registration has reached  *)
(* the gNB, then the UE gets its address: GTP setup may fail and any of    *)
(* the core's servers may be down.                                         *)
(***************************************************************************)
ServedWhenListening ==
    (/\ Routed
     /\ pc["ue"] = "recv" /\ pc["gnb"] = "recv" /\ pc["amf"] = "recv"
     /\ [to |-> "gnb", data |-> "UE_REG_REQUEST"] \in net)
        ~> pc["ue"] = "done"

=============================================================================
