---------------------------- MODULE MulticastGnb ----------------------------
(***************************************************************************)
(* The multicast gNB simulator (5g-physical-multicast/gnb-multicast.py):   *)
(* the RRC, MAC and PHY layers behind the public methods of GNBSimulator   *)
(* and RRCLayer.  The program is single-threaded: one action is one call.  *)
(***************************************************************************)
EXTENDS Naturals, Sequences

CONSTANTS
    Ids,         \* UE ids
    Groups,      \* the lists ue_ids a caller may pass
    MaxPackets   \* bound on the number of packets sent

ASSUME MulticastAssumption == Groups \subseteq Seq(Ids) /\ MaxPackets \in Nat

VARIABLES
    rrc_state,             \* per UE: "ABSENT" (not in RRCLayer.ues) or "CONNECTED"
    g_rnti,                \* per UE: 0 or the G-RNTI of the group
    last_ack,              \* the UEs whose last_ack is True
    multicast_configured,  \* RRCLayer.multicast_configured
    group,                 \* history: the UEs of the list that was configured with success
    slot_number,           \* MACLayer.slot_number
    resource_blocks,       \* MACLayer.resource_blocks
    packet_counter,        \* GNBSimulator.packet_counter
    packet,                \* the last MulticastPacket: its packet_id and its slot
    results                \* the UEs in the results of the last transmission

rrcVars == <<rrc_state, g_rnti, multicast_configured, group>>
macVars == <<slot_number, resource_blocks>>
vars    == <<rrcVars, macVars, last_ack, packet_counter, packet, results>>

group_g_rnti   == 1000
RBsPerSlot     == 100
RBsOfMulticast == 20

TypeOK ==
    /\ rrc_state \in [Ids -> {"ABSENT", "CONNECTED"}]
    /\ g_rnti \in [Ids -> {0, group_g_rnti}]
    /\ last_ack \subseteq Ids
    /\ multicast_configured \in BOOLEAN
    /\ group \subseteq Ids
    /\ slot_number \in Nat
    /\ resource_blocks \in 0..RBsPerSlot
    /\ packet_counter \in 0..MaxPackets
    /\ packet \in [packet_id : 0..MaxPackets, slot : Nat]
    /\ results \subseteq Ids

Init ==
    /\ rrc_state = [u \in Ids |-> "ABSENT"]
    /\ g_rnti = [u \in Ids |-> 0]
    /\ last_ack = {}
    /\ multicast_configured = FALSE
    /\ group = {}
    /\ slot_number = 0
    /\ resource_blocks = RBsPerSlot
    /\ packet_counter = 0
    /\ packet = [packet_id |-> 0, slot |-> 0]
    /\ results = {}

IdsIn(ue_ids) == {ue_ids[i] : i \in DOMAIN ue_ids}

\* RRCLayer.connect_ue for each of S: a UE is created "IDLE" and connected
\* in the same call, and a connected one stays as it is.
Connected(S) == [u \in Ids |-> IF u \in S THEN "CONNECTED" ELSE rrc_state[u]]

connect_ue(u) ==
    /\ rrc_state' = Connected({u})
    /\ UNCHANGED <<g_rnti, multicast_configured, group, macVars, last_ack,
                   packet_counter, packet, results>>

(***************************************************************************)
(* The loop of configure_multicast_group, with the RRC states st: it gives *)
(* the G-RNTI to one UE after the other and returns at the first that is   *)
(* not connected, leaving the G-RNTI with those before it.                 *)
(***************************************************************************)
JoinedIn(ue_ids, st) ==
    {ue_ids[i] : i \in {j \in DOMAIN ue_ids : \A k \in 1..j : st[ue_ids[k]] = "CONNECTED"}}

WithGroupRnti(S) == [u \in Ids |-> IF u \in S THEN group_g_rnti ELSE g_rnti[u]]

\* Whether the loop gets to its end, and the group it has then configured.
AllConnected(ue_ids, st) == \A u \in IdsIn(ue_ids) : st[u] = "CONNECTED"

GroupAfter(ue_ids, st) == IF AllConnected(ue_ids, st) THEN IdsIn(ue_ids) ELSE group

\* A plausible slip: every configuration begins by taking the G-RNTI back,
\* before it looks whether a group is configured.
ConfigureAfresh(ue_ids, st) ==
    IF multicast_configured
    THEN /\ g_rnti' = [u \in Ids |-> IF u \in IdsIn(ue_ids) THEN 0 ELSE g_rnti[u]]
         /\ UNCHANGED <<multicast_configured, group>>
    ELSE /\ g_rnti' = WithGroupRnti(JoinedIn(ue_ids, st))
         /\ multicast_configured' = AllConnected(ue_ids, st)
         /\ group' = GroupAfter(ue_ids, st)

\* A plausible slip: the RRC state is not looked at.
ConfigureUnchecked(ue_ids, st) ==
    IF multicast_configured
    THEN UNCHANGED <<g_rnti, multicast_configured, group>>
    ELSE /\ g_rnti' = WithGroupRnti(IdsIn(ue_ids))
         /\ multicast_configured' = TRUE
         /\ group' = IdsIn(ue_ids)

\* configure_multicast_group when the RRC states are st
Configure(ue_ids, st) ==
    IF multicast_configured
    THEN UNCHANGED <<g_rnti, multicast_configured, group>>
    ELSE /\ g_rnti' = WithGroupRnti(JoinedIn(ue_ids, st))
         /\ multicast_configured' = AllConnected(ue_ids, st)
         /\ group' = GroupAfter(ue_ids, st)

configure_multicast_group(ue_ids) ==
    /\ Configure(ue_ids, rrc_state)
    /\ UNCHANGED <<rrc_state, macVars, last_ack, packet_counter, packet, results>>

\* GNBSimulator.setup_multicast_group: connect every UE, then configure.
setup_multicast_group(ue_ids) ==
    /\ rrc_state' = Connected(IdsIn(ue_ids))
    /\ Configure(ue_ids, Connected(IdsIn(ue_ids)))
    /\ UNCHANGED <<macVars, last_ack, packet_counter, packet, results>>

(***************************************************************************)
(* MACLayer.schedule_multicast when there are 20 RBs: they are taken and   *)
(* the packet gets the slot, then the next slot begins with all its RBs.   *)
(***************************************************************************)
\* A plausible slip: the RBs are not reset for the next slot.
ScheduleNoReset ==
    /\ packet' = [packet_id |-> packet_counter + 1, slot |-> slot_number]
    /\ slot_number' = slot_number + 1
    /\ resource_blocks' = resource_blocks - RBsOfMulticast

\* A plausible slip: the 20 RBs are given back without having been taken.
ScheduleGiveBack ==
    /\ packet' = [packet_id |-> packet_counter + 1, slot |-> slot_number]
    /\ slot_number' = slot_number + 1
    /\ resource_blocks' = resource_blocks + RBsOfMulticast

Schedule ==
    /\ packet' = [packet_id |-> packet_counter + 1, slot |-> slot_number]
    /\ slot_number' = slot_number + 1
    /\ resource_blocks' = RBsPerSlot

\* The UEs a packet is transmitted to.
multicast_ues == {u \in Ids : g_rnti[u] = group_g_rnti}

\* PHYLayer.transmit_multicast: each UE acknowledges or not.
transmit_multicast(S) ==
    \E acks \in SUBSET S :
        /\ last_ack' = (last_ack \ S) \cup acks
        /\ results' = S

\* GNBSimulator.send_multicast_packet; a packet that cannot be scheduled has
\* its number and no transmission.
send_multicast_packet ==
    /\ packet_counter < MaxPackets
    /\ packet_counter' = packet_counter + 1
    /\ IF resource_blocks >= RBsOfMulticast
       THEN Schedule /\ transmit_multicast(multicast_ues)
       ELSE /\ packet' = [packet_id |-> packet_counter + 1, slot |-> 0]
            /\ results' = {}
            /\ UNCHANGED <<macVars, last_ack>>
    /\ UNCHANGED rrcVars

Next ==
    \/ \E u \in Ids : connect_ue(u)
    \/ \E ue_ids \in Groups : \/ configure_multicast_group(ue_ids)
                              \/ setup_multicast_group(ue_ids)
    \/ send_multicast_packet

Spec == Init /\ [][Next]_vars
-----------------------------------------------------------------------------
(***************************************************************************)
(* Only connected UEs carry the G-RNTI of the group, even when the         *)
(* configuration of the group broke off half way, and only UEs that carry  *)
(* it have ever acknowledged a packet.                                     *)
(***************************************************************************)
MembersConnected ==
    \A u \in Ids :
        /\ g_rnti[u] = group_g_rnti => rrc_state[u] = "CONNECTED"
        /\ u \in last_ack => g_rnti[u] = group_g_rnti

(***************************************************************************)
(* Every packet gets a slot, and a slot of its own: packets are numbered   *)
(* from 1 and slots from 0, and the MAC never runs out of resource blocks. *)
(***************************************************************************)
OneSlotPerPacket ==
    /\ slot_number = packet_counter
    /\ packet_counter > 0 => /\ packet.packet_id = packet_counter
                             /\ packet.slot = packet_counter - 1

(***************************************************************************)
(* "Send a multicast packet to the group" (gnb-multicast.py:112): from the *)
(* call that configured the group on, every packet is transmitted to every *)
(* UE of the list it was called with, whatever groups were set up or       *)
(* failed to be before or after it and however many packets went before.   *)
(***************************************************************************)
GroupServed == [][packet_counter' # packet_counter => group \subseteq results']_vars

=============================================================================
