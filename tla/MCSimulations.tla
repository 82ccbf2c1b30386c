--------------------------- MODULE MCSimulations ---------------------------
(***************************************************************************)
(* The two MATLAB simulations, of MBMS over a satellite and of resource    *)
(* block allocation.  They are separate scripts that share nothing, so a   *)
(* behaviour runs one of them while the other has not been started.        *)
(***************************************************************************)
EXTENDS SatMbms, RbAllocation

MCInit == Init /\ RbInit

\* One first scenario is enough for the behaviours that run the other script.
NotStarted == RbInit /\ numUEs = 1 /\ bitratePerRB = <<0>> /\ requiredBitrate = <<1>>

MCNext ==
    \/ Next /\ NotStarted /\ UNCHANGED rbVars
    \/ RbNext /\ Init /\ UNCHANGED vars

MCSpec == MCInit /\ [][MCNext]_<<vars, rbVars>>
=============================================================================
