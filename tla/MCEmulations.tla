---------------------------- MODULE MCEmulations ----------------------------
(***************************************************************************)
(* The two Python emulations on small instances: the multicast gNB with    *)
(* three UEs, every list of one or two different UEs and one of three, and *)
(* the registration over UDP.  They are separate programs that share       *)
(* nothing, so to interleave them would show nothing: a behaviour runs one *)
(* of them while the other has not been started.                           *)
(***************************************************************************)
EXTENDS MulticastGnb, UdpEmulation

MCIds == 1..3
MCGroups ==
    {<<u>> : u \in MCIds} \cup {s \in MCIds \X MCIds : s[1] # s[2]} \cup {<<1, 2, 3>>}

MCInit == Init /\ UdpInit

MCNext ==
    \/ Next /\ UdpInit /\ UNCHANGED UdpVars
    \/ UdpNext /\ Init /\ UNCHANGED vars

\* The fairness is that of the UDP emulation; liveness is claimed of nothing else.
MCSpec == MCInit /\ [][MCNext]_<<vars, UdpVars>> /\ Fairness
=============================================================================
