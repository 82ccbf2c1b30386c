------------------------ MODULE Emulations_proofs --------------------------
(***************************************************************************)
(* Proofs about the two small emulations: MulticastGnb, for any set of     *)
(* UEs, any lists of them and any number of packets, and UdpEmulation,     *)
(* whether or not the Docker host routes between the networks.             *)
(***************************************************************************)
EXTENDS MulticastGnb, UdpEmulation, TLAPS

-----------------------------------------------------------------------------
(* The multicast gNB simulator. *)

(***************************************************************************)
(* The inductive invariant: at the end of every call all resource blocks   *)
(* are free, which is what gives every packet its slot, and the UEs of the *)
(* configured group have its G-RNTI.                                       *)
(***************************************************************************)
GroupHasRnti == \A u \in group : g_rnti[u] = group_g_rnti

Inv == /\ TypeOK /\ MembersConnected /\ OneSlotPerPacket
       /\ resource_blocks = RBsPerSlot /\ GroupHasRnti

(***************************************************************************)
(* configure_multicast_group gives the G-RNTI to connected UEs only, all   *)
(* of them from the list it was called with.                               *)
(***************************************************************************)
LEMMA JoinedConnected ==
    ASSUME NEW ue_ids \in Groups, NEW st
    PROVE  /\ \A u \in JoinedIn(ue_ids, st) : st[u] = "CONNECTED"
           /\ IdsIn(ue_ids) \subseteq Ids
           /\ AllConnected(ue_ids, st) => JoinedIn(ue_ids, st) = IdsIn(ue_ids)
  <1>1. ue_ids \in Seq(Ids)
    BY MulticastAssumption
  <1>2. \A i \in DOMAIN ue_ids : ue_ids[i] \in Ids /\ i \in 1..i
    BY <1>1
  <1>3. \A i \in DOMAIN ue_ids : \A k \in 1..i : k \in DOMAIN ue_ids
    BY <1>1
  <1> QED BY <1>2, <1>3 DEF JoinedIn, IdsIn, AllConnected

(***************************************************************************)
(* Configure keeps members connected when the RRC states become st.        *)
(***************************************************************************)
LEMMA ConfigureKeeps ==
    ASSUME Inv, NEW ue_ids \in Groups, rrc_state' \in [Ids -> {"ABSENT", "CONNECTED"}],
           \A u \in Ids : rrc_state[u] = "CONNECTED" => rrc_state'[u] = "CONNECTED",
           Configure(ue_ids, rrc_state')
    PROVE  /\ g_rnti' \in [Ids -> {0, group_g_rnti}]
           /\ multicast_configured' \in BOOLEAN
           /\ \A u \in Ids : /\ g_rnti'[u] = group_g_rnti => rrc_state'[u] = "CONNECTED"
                             /\ g_rnti[u] = group_g_rnti => g_rnti'[u] = group_g_rnti
           /\ group' \subseteq Ids /\ GroupHasRnti'
  <1>1. CASE multicast_configured
    BY <1>1 DEF Configure, Inv, TypeOK, MembersConnected, GroupHasRnti
  <1>2. CASE ~multicast_configured
    <2>1. g_rnti' = [u \in Ids |-> IF u \in JoinedIn(ue_ids, rrc_state') THEN group_g_rnti
                                                                        ELSE g_rnti[u]]
      BY <1>2 DEF Configure, WithGroupRnti
    <2>2. \A u \in JoinedIn(ue_ids, rrc_state') : rrc_state'[u] = "CONNECTED"
      BY JoinedConnected
    <2>3. multicast_configured' \in BOOLEAN
      BY <1>2 DEF Configure, AllConnected
    <2>4. group' \subseteq Ids /\ GroupHasRnti'
      <3>1. CASE AllConnected(ue_ids, rrc_state')
        <4>1. group' = IdsIn(ue_ids) /\ JoinedIn(ue_ids, rrc_state') = IdsIn(ue_ids)
          BY <1>2, <3>1, JoinedConnected DEF Configure, GroupAfter
        <4>2. IdsIn(ue_ids) \subseteq Ids
          BY JoinedConnected
        <4> QED BY <2>1, <4>1, <4>2 DEF GroupHasRnti
      <3>2. CASE ~AllConnected(ue_ids, rrc_state')
        <4>1. group' = group
          BY <1>2, <3>2 DEF Configure, GroupAfter
        <4> QED BY <2>1, <4>1 DEF GroupHasRnti, Inv, TypeOK
      <3> QED BY <3>1, <3>2
    <2> QED BY <1>2, <2>1, <2>2, <2>3, <2>4 DEF Inv, TypeOK, MembersConnected
  <1> QED BY <1>1, <1>2 DEF Inv, TypeOK

(***************************************************************************)
(* A new GNBSimulator satisfies the invariant.                             *)
(***************************************************************************)
LEMMA InitInv == Init => Inv
  <1> SUFFICES ASSUME Init PROVE Inv
    OBVIOUS
  <1>0. /\ rrc_state = [u \in Ids |-> "ABSENT"] /\ g_rnti = [u \in Ids |-> 0]
        /\ last_ack = {} /\ results = {} /\ group = {}
        /\ slot_number = 0 /\ packet_counter = 0 /\ resource_blocks = RBsPerSlot
        /\ packet = [packet_id |-> 0, slot |-> 0]
        /\ multicast_configured \in BOOLEAN
    BY Zenon DEF Init
  <1>1. TypeOK
    BY <1>0, MulticastAssumption DEF TypeOK, RBsPerSlot
  <1>2. MembersConnected
    <2>0. \A u \in Ids : g_rnti[u] = 0
      BY <1>0, Zenon
    <2>1. 0 # group_g_rnti
      BY DEF group_g_rnti
    <2> QED BY <1>0, <2>0, <2>1, Zenon DEF MembersConnected
  <1>3. OneSlotPerPacket /\ resource_blocks = RBsPerSlot
    BY DEF Init, OneSlotPerPacket
  <1>4. GroupHasRnti
    BY <1>0 DEF GroupHasRnti
  <1> QED BY <1>1, <1>2, <1>3, <1>4 DEF Inv

(***************************************************************************)
(* Every call keeps the invariant, and a packet reaches the whole group.   *)
(***************************************************************************)
LEMMA NextInv ==
    Inv /\ [Next]_vars => Inv' /\ (packet_counter' # packet_counter => group \subseteq results')
  <1> SUFFICES ASSUME Inv, [Next]_vars
               PROVE  Inv' /\ (packet_counter' # packet_counter => group \subseteq results')
    OBVIOUS
  <1>1. ASSUME NEW u \in Ids, connect_ue(u)
        PROVE  Inv' /\ packet_counter' = packet_counter
    BY <1>1 DEF connect_ue, Connected, macVars, Inv, TypeOK, MembersConnected, OneSlotPerPacket,
                GroupHasRnti
  <1>2. ASSUME NEW ue_ids \in Groups, configure_multicast_group(ue_ids)
        PROVE  Inv' /\ packet_counter' = packet_counter
    <2>1. rrc_state' = rrc_state /\ Configure(ue_ids, rrc_state')
      BY <1>2 DEF configure_multicast_group
    <2>2. /\ g_rnti' \in [Ids -> {0, group_g_rnti}]
          /\ multicast_configured' \in BOOLEAN
          /\ \A u \in Ids : /\ g_rnti'[u] = group_g_rnti => rrc_state'[u] = "CONNECTED"
                            /\ g_rnti[u] = group_g_rnti => g_rnti'[u] = group_g_rnti
          /\ group' \subseteq Ids /\ GroupHasRnti'
      BY <2>1, ConfigureKeeps DEF Inv, TypeOK
    <2> QED BY <1>2, <2>1, <2>2 DEF configure_multicast_group, macVars, Inv, TypeOK,
                                    MembersConnected, OneSlotPerPacket
  <1>3. ASSUME NEW ue_ids \in Groups, setup_multicast_group(ue_ids)
        PROVE  Inv' /\ packet_counter' = packet_counter
    <2>1. /\ rrc_state' \in [Ids -> {"ABSENT", "CONNECTED"}]
          /\ \A u \in Ids : rrc_state[u] = "CONNECTED" => rrc_state'[u] = "CONNECTED"
          /\ Configure(ue_ids, rrc_state')
      BY <1>3 DEF setup_multicast_group, Connected, Inv, TypeOK
    <2>2. /\ g_rnti' \in [Ids -> {0, group_g_rnti}]
          /\ multicast_configured' \in BOOLEAN
          /\ \A u \in Ids : /\ g_rnti'[u] = group_g_rnti => rrc_state'[u] = "CONNECTED"
                            /\ g_rnti[u] = group_g_rnti => g_rnti'[u] = group_g_rnti
          /\ group' \subseteq Ids /\ GroupHasRnti'
      BY <2>1, ConfigureKeeps
    <2> QED BY <1>3, <2>1, <2>2 DEF setup_multicast_group, macVars, Inv, TypeOK,
                                    MembersConnected, OneSlotPerPacket
  <1>4. ASSUME send_multicast_packet
        PROVE  Inv' /\ group \subseteq results'
    <2>1. Schedule /\ transmit_multicast(multicast_ues)
      BY <1>4 DEF send_multicast_packet, Inv, RBsPerSlot, RBsOfMulticast
    <2>2. PICK acks \in SUBSET multicast_ues :
             last_ack' = (last_ack \ multicast_ues) \cup acks /\ results' = multicast_ues
      BY <2>1 DEF transmit_multicast
    <2>3. UNCHANGED rrcVars /\ packet_counter' = packet_counter + 1
          /\ packet_counter < MaxPackets
      BY <1>4 DEF send_multicast_packet
    <2>4. /\ last_ack' \subseteq Ids
          /\ results' \subseteq Ids
          /\ \A u \in last_ack' : g_rnti[u] = group_g_rnti
      BY <2>2 DEF multicast_ues, Inv, TypeOK, MembersConnected
    <2>5. /\ packet' \in [packet_id : 0..MaxPackets, slot : Nat]
          /\ OneSlotPerPacket' /\ resource_blocks' = RBsPerSlot
          /\ slot_number' \in Nat /\ packet_counter' \in 0..MaxPackets
      BY <2>1, <2>3, MulticastAssumption DEF Schedule, Inv, TypeOK, OneSlotPerPacket
    <2>6. group \subseteq results'
      BY <2>2 DEF multicast_ues, Inv, TypeOK, GroupHasRnti
    <2> QED BY <2>3, <2>4, <2>5, <2>6 DEF rrcVars, Inv, TypeOK, MembersConnected, RBsPerSlot,
                                          GroupHasRnti
  <1>5. CASE UNCHANGED vars
    BY <1>5 DEF vars, rrcVars, macVars, Inv, TypeOK, MembersConnected, OneSlotPerPacket,
                GroupHasRnti
  <1> QED BY <1>1, <1>2, <1>3, <1>4, <1>5 DEF Next

(***************************************************************************)
(* The inductive invariant holds in every reachable state.                 *)
(***************************************************************************)
THEOREM Invariance == Spec => []Inv
  BY InitInv, NextInv, PTL DEF Spec

(***************************************************************************)
(* Type correctness of the three layers.                                   *)
(***************************************************************************)
THEOREM TypeCorrect == Spec => []TypeOK
  BY Invariance, PTL DEF Inv

(***************************************************************************)
(* Only connected UEs are members, whatever list broke off half way.       *)
(***************************************************************************)
THEOREM MembersAreConnected == Spec => []MembersConnected
  BY Invariance, PTL DEF Inv

(***************************************************************************)
(* Every packet has a slot of its own, for any number of packets.          *)
(***************************************************************************)
THEOREM SlotPerPacket == Spec => []OneSlotPerPacket
  BY Invariance, PTL DEF Inv

(***************************************************************************)
(* Every packet sent after a group was configured goes to all of it, for   *)
(* any lists of UEs and any number of packets.                             *)
(***************************************************************************)
THEOREM GroupIsServed == Spec => GroupServed
  BY InitInv, NextInv, PTL DEF Spec, GroupServed

-----------------------------------------------------------------------------
(* The UDP emulation. *)

UdpTypeOK ==
    /\ pc \in [Procs -> Labels]
    /\ inbox \in [Procs -> SUBSET Messages]
    /\ net \in SUBSET Datagrams
    /\ gtp0 \in {"absent", "link", "addr", "up"}
    /\ nat \in Nat

-----------------------------------------------------------------------------
(***************************************************************************)
(* The inductive invariant follows what each datagram shows of its sender. *)
(* A datagram is counted in the network and in the socket it waits in.     *)
(***************************************************************************)

\* A datagram for p, with this data, has been sent and not been read.
Unread(p, data) == [to |-> p, data |-> data] \in net \/ data \in inbox[p]

ForwardedFirst ==
    /\ \A m \in Messages : Unread("amf", m) => pc["gnb"] \in {"gtp", "done"}
    /\ pc["amf"] \notin {"start", "recv"} => pc["gnb"] \in {"gtp", "done"}

AddressLast ==
    /\ \A m \in Messages : Unread("ue", m) => pc["amf"] = "done"
    /\ pc["ue"] \in {"configure", "done"} => pc["amf"] = "done"

\* The UPF is asked once: the request is in the network, in its socket, or
\* has become a rule.
AllocatedOnce ==
    /\ Unread("upf", "ALLOC_IP") => nat = 0 /\ pc["amf"] \in {"address", "done"}
    /\ ~([to |-> "upf", data |-> "ALLOC_IP"] \in net /\ "ALLOC_IP" \in inbox["upf"])
    /\ nat <= 1
    /\ nat = 1 => pc["amf"] \in {"address", "done"}

UdpInv == ForwardedFirst /\ AddressLast /\ AllocatedOnce

LEMMA UdpInitOK == UdpInit => UdpTypeOK /\ UdpInv
<1> SUFFICES ASSUME UdpInit PROVE UdpTypeOK /\ UdpInv
  OBVIOUS
<1>1. UdpTypeOK
  BY DEF UdpInit, UdpTypeOK, Labels
<1>2. UdpInv
  BY DEF UdpInit, UdpInv, ForwardedFirst, AddressLast, AllocatedOnce, Unread, Procs,
         Servers
<1> QED BY <1>1, <1>2

LEMMA UdpNextTypeOK == UdpTypeOK /\ [UdpNext]_UdpVars => UdpTypeOK'
<1> SUFFICES ASSUME UdpTypeOK, [UdpNext]_UdpVars PROVE UdpTypeOK'
  OBVIOUS
<1> USE DEF UdpTypeOK
<1>1. ASSUME NEW p, NEW q \in Procs \cup {Closed}, NEW data \in Messages,
             Send(p, q, data)
      PROVE  net' \in SUBSET Datagrams
  BY <1>1 DEF Send, Datagrams
<1>2. ASSUME NEW p \in Procs, NEW label \in Labels, Goto(p, label)
      PROVE  pc' \in [Procs -> Labels]
  BY <1>2 DEF Goto
<1>3. ASSUME NEW p \in Procs, NEW m, Receive(p, m)
      PROVE  inbox' \in [Procs -> SUBSET Messages]
  BY <1>3 DEF Receive
<1>4. CASE Ue
  BY <1>1, <1>2, <1>3, <1>4
  DEF Ue, send_registration, wait_for_ip_bind, wait_for_ip_receive,
      test_connectivity, Procs, Labels, Messages
<1>5. CASE Gnb
  BY <1>1, <1>2, <1>3, <1>5
  DEF Gnb, Bind, receive_from_ue, send_to_amf, setup_gtp, Procs,
      Labels, Messages
<1>6. CASE Amf
  BY <1>1, <1>2, <1>3, <1>6
  DEF Amf, Bind, listen_gnb, auth_with_ausf, get_profile_from_udm,
      request_ip_from_upf, send_ip_to_ue, Procs, Servers, Labels, Messages
<1>7. ASSUME NEW p \in Servers, Bind(p) PROVE UdpTypeOK'
  BY <1>2, <1>7 DEF Bind, Procs, Labels
<1>8. ASSUME NEW p \in Servers, serve(p) PROVE UdpTypeOK'
  <2>1. /\ Answer[p] \in Messages /\ p \in Procs
        /\ Closed \in Procs \cup {Closed}
    BY DEF Answer, Messages, Servers, Procs
  <2> QED BY <1>1, <1>3, <1>8, <2>1 DEF serve
<1>9. ASSUME NEW d \in net, Deliver(d) PROVE UdpTypeOK'
  <2>1. d.data \in Messages
    BY DEF Datagrams
  <2>2. inbox' \in [Procs -> SUBSET Messages]
    BY <1>9, <2>1 DEF Deliver
  <2> QED BY <1>9, <2>2 DEF Deliver
<1> QED
  BY <1>4, <1>5, <1>6, <1>7, <1>8, <1>9 DEF UdpNext, UdpVars

LEMMA UdpNextInv == UdpTypeOK /\ UdpInv /\ [UdpNext]_UdpVars => UdpInv'
<1> SUFFICES ASSUME UdpTypeOK, UdpInv, [UdpNext]_UdpVars PROVE UdpInv'
  OBVIOUS
<1> USE DEF UdpTypeOK
<1>1. ASSUME NEW p, NEW q, NEW data, Send(p, q, data)
      PROVE  \A d : d \in net' => d \in net \/ d = [to |-> q, data |-> data]
  BY <1>1 DEF Send
<1>2. ASSUME NEW p \in Procs, NEW m, Receive(p, m)
      PROVE  /\ \A r \in Procs : inbox'[r] \subseteq inbox[r]
             /\ m \in inbox[p] /\ inbox'[p] = inbox[p] \ {m}
  BY <1>2 DEF Receive
<1>3. ASSUME NEW p \in Procs, NEW label, Goto(p, label)
      PROVE  pc'[p] = label /\ \A r \in Procs \ {p} : pc'[r] = pc[r]
  BY <1>3 DEF Goto
<1>4. {"ue", "gnb", "amf", "ausf", "udm", "upf"} = Procs
  BY DEF Procs, Servers
<1>5. \A p, q, a, b : [to |-> p, data |-> a] = [to |-> q, data |-> b] => p = q /\ a = b
  OBVIOUS
<1>6. {"UE_REG_REQUEST", "ALLOC_IP", "AUTH_REQ", "GET_PROFILE", "10.0.0.5"} \subseteq Messages
  BY DEF Messages
<1> USE DEF UdpInv, ForwardedFirst, AddressLast, AllocatedOnce, Unread
\* A step that sends nothing new to the AMF, the UE or the UPF, and takes
\* nobody back.
<1>7. ASSUME \A p \in {"amf", "ue", "upf"}, m \in Messages : Unread(p, m)' => Unread(p, m),
             ~([to |-> "upf", data |-> "ALLOC_IP"] \in net' /\ "ALLOC_IP" \in inbox'["upf"]),
             nat' = nat,
             pc["gnb"] \in {"gtp", "done"} => pc'["gnb"] \in {"gtp", "done"},
             pc["amf"] = "done" => pc'["amf"] = "done",
             pc["amf"] = "address" => pc'["amf"] \in {"address", "done"},
             pc'["amf"] \notin {"start", "recv"} => pc'["gnb"] \in {"gtp", "done"},
             pc'["ue"] \in {"configure", "done"} => pc'["amf"] = "done"
      PROVE  UdpInv'
  BY <1>6, <1>7
<1>8. CASE Ue
  <2>1. CASE send_registration
    BY <1>1, <1>3, <1>4, <1>5, <1>7, <2>1 DEF send_registration
  <2>2. CASE wait_for_ip_bind \/ test_connectivity
    BY <1>3, <1>4, <1>7, <2>2 DEF wait_for_ip_bind, test_connectivity
  <2>3. CASE wait_for_ip_receive
    <3>1. PICK m \in Messages : Receive("ue", m)
      BY <2>3 DEF wait_for_ip_receive
    <3>2. pc["amf"] = "done"
      BY <1>2, <1>4, <3>1
    <3> QED BY <1>2, <1>3, <1>4, <1>7, <2>3, <3>1, <3>2 DEF wait_for_ip_receive
  <2> QED BY <1>8, <2>1, <2>2, <2>3 DEF Ue
<1>9. CASE Bind("gnb") \/ receive_from_ue \/ setup_gtp
  BY <1>1, <1>2, <1>3, <1>4, <1>5, <1>7, <1>9
  DEF Bind, receive_from_ue, setup_gtp
<1>10. CASE send_to_amf
  BY <1>1, <1>3, <1>4, <1>5, <1>10 DEF send_to_amf
<1>11. CASE Bind("amf") \/ listen_gnb \/ auth_with_ausf \/ get_profile_from_udm
  <2>1. CASE Bind("amf")
    BY <1>3, <1>4, <1>7, <2>1 DEF Bind
  <2>2. CASE listen_gnb
    <3>1. PICK m \in Messages : Receive("amf", m)
      BY <2>2 DEF listen_gnb
    <3>2. pc["gnb"] \in {"gtp", "done"}
      BY <1>2, <1>4, <3>1
    <3> QED BY <1>2, <1>3, <1>4, <1>7, <2>2, <3>1, <3>2 DEF listen_gnb
  <2>3. CASE auth_with_ausf
    BY <1>1, <1>3, <1>4, <1>5, <1>7, <2>3 DEF auth_with_ausf
  <2>4. CASE get_profile_from_udm
    BY <1>1, <1>3, <1>4, <1>5, <1>7, <2>4 DEF get_profile_from_udm
  <2> QED BY <1>11, <2>1, <2>2, <2>3, <2>4
<1>12. CASE request_ip_from_upf
  BY <1>1, <1>3, <1>4, <1>5, <1>6, <1>12 DEF request_ip_from_upf
<1>13. CASE send_ip_to_ue
  BY <1>1, <1>3, <1>4, <1>5, <1>6, <1>13 DEF send_ip_to_ue
<1>14. ASSUME NEW p \in Servers, Bind(p) PROVE UdpInv'
  BY <1>3, <1>4, <1>7, <1>14 DEF Bind, Servers
<1>15. ASSUME NEW p \in Servers, serve(p) PROVE UdpInv'
  <2>1. PICK m \in Messages : /\ Receive(p, m)
                              /\ \/ UNCHANGED <<net, nat>>
                                 \/ Send(p, Closed, Answer[p])
                              /\ nat' = nat \/ (p = "upf" /\ m = "ALLOC_IP" /\ nat' = nat + 1)
    BY <1>15 DEF serve
  <2>2. pc' = pc /\ Closed \notin Procs
    BY <1>4, <1>15 DEF serve, Closed
  <2>3. \A r \in Procs : \A k :
           [to |-> r, data |-> k] \in net' => [to |-> r, data |-> k] \in net
    BY <1>1, <1>5, <2>1, <2>2
  <2>4. CASE nat' = nat
    BY <1>2, <1>4, <1>7, <2>1, <2>2, <2>3, <2>4 DEF Servers
  <2>5. CASE p = "upf" /\ m = "ALLOC_IP" /\ nat' = nat + 1
    BY <1>2, <1>4, <2>1, <2>2, <2>3, <2>5
  <2> QED BY <2>1, <2>4, <2>5
<1>16. ASSUME NEW d \in net, Deliver(d) PROVE UdpInv'
  <2>1. /\ d = [to |-> d.to, data |-> d.data] /\ d.data \in Messages
        /\ d.to \in Procs \cup {Closed}
    BY DEF Datagrams
  <2>2. \A p \in Procs, k \in Messages :
          k \in inbox'[p] => k \in inbox[p] \/ d = [to |-> p, data |-> k]
    BY <1>16, <2>1 DEF Deliver
  <2>3. net' = net \ {d} /\ UNCHANGED <<pc, gtp0, nat>>
    BY <1>16 DEF Deliver
  <2> QED BY <1>4, <1>5, <1>6, <1>7, <2>1, <2>2, <2>3
<1>17. CASE UNCHANGED UdpVars
  BY <1>17 DEF UdpVars
<1> QED
  BY <1>8, <1>9, <1>10, <1>11, <1>12, <1>13, <1>14, <1>15, <1>16, <1>17
  DEF UdpNext, Gnb, Amf

\* Whatever overtakes what and whoever is up, the UE has an address only after
\* the gNB and the AMF have been through its registration, and the UPF appends
\* one NAT rule at most.
THEOREM RegisteredBeforeAddress == UdpSpec => []AddressAfterRegistration
<1>1. UdpSpec => [](UdpTypeOK /\ UdpInv)
  BY UdpInitOK, UdpNextTypeOK, UdpNextInv, PTL DEF UdpSpec
<1>2. UdpTypeOK /\ UdpInv => AddressAfterRegistration
  <2> SUFFICES ASSUME UdpTypeOK, UdpInv PROVE AddressAfterRegistration
    OBVIOUS
  <2> QED
    BY DEF UdpTypeOK, UdpInv, ForwardedFirst, AddressLast, AllocatedOnce,
           AddressAfterRegistration
<1> QED BY <1>1, <1>2, PTL
=============================================================================
