---------------------------- MODULE RbAllocation ----------------------------
(***************************************************************************)
(* The resource block allocation of physicalLayerModeling.m: in every      *)
(* iteration a scenario is drawn and the same UEs are served by            *)
(* simulateUnicast, one after the other, and by simulateMulticast, group   *)
(* by group.  A UE's channel is its bitrate per resource block: 0 when its *)
(* SINR is below the threshold, and growing with the SINR above it.        *)
(***************************************************************************)
EXTENDS Naturals, FiniteSets, FiniteSetsExt

CONSTANTS
    NumResourceBlocks,
    GroupSize,
    NumUERange,      \* the numbers of UEs simulated
    BitratesPerRB,   \* the bitrates a channel gives one RB
    Bitrates         \* the bitrates a UE may require

ASSUME RbAssumption ==
    /\ NumResourceBlocks \in Nat
    /\ GroupSize \in Nat \ {0}
    /\ NumUERange \subseteq Nat \ {0}
    /\ BitratesPerRB \subseteq Nat
    /\ Bitrates \subseteq Nat \ {0}

VARIABLES
    phase,            \* the simulation that runs, "scenario" between iterations
    numUEs,           \* ueData.numUEs
    bitratePerRB,     \* per UE: calculateSINR and calculateSpectralEfficiency
    requiredBitrate,  \* ueData.requiredBitrate
    next,             \* the UE or the group the loop has come to
    unicast,          \* the result of simulateUnicast with its availableRBs and,
                      \* as history, the RBs granted to each UE it served
    multicast         \* the same of simulateMulticast, by group

rbVars == <<phase, numUEs, bitratePerRB, requiredBitrate, next, unicast, multicast>>

CeilDiv(a, b) == (a + b - 1) \div b

RbUEs     == 1..numUEs
numGroups == IF CeilDiv(numUEs, GroupSize) > 1 THEN CeilDiv(numUEs, GroupSize) ELSE 1
Groups    == 1..numGroups

groupRNTI(ue)   == ((ue - 1) % numGroups) + 1
groupUEs(group) == {ue \in RbUEs : groupRNTI(ue) = group}

EmptyResult ==
    [rbsUsed |-> 0, servedUEs |-> 0, totalBitrate |-> 0,
     availableRBs |-> NumResourceBlocks, granted |-> [w \in {} |-> 0]]

\* The first scenario
RbInit ==
    /\ numUEs \in NumUERange
    /\ bitratePerRB \in [RbUEs -> BitratesPerRB]
    /\ requiredBitrate \in [RbUEs -> Bitrates]
    /\ phase = "unicast"
    /\ next = 1
    /\ unicast = EmptyResult
    /\ multicast = EmptyResult

\* The next one; both simulations start from scratch.
generateUEScenario ==
    /\ phase = "scenario"
    /\ numUEs' \in NumUERange
    /\ bitratePerRB' \in [RbUEs' -> BitratesPerRB]
    /\ requiredBitrate' \in [RbUEs' -> Bitrates]
    /\ phase' = "unicast"
    /\ next' = 1
    /\ unicast' = EmptyResult
    /\ multicast' = EmptyResult
-----------------------------------------------------------------------------
\* requiredRBs of a bitrate over a channel; the channel is above the threshold.
requiredRBs(rate, perRB) == IF CeilDiv(rate, perRB) > 1 THEN CeilDiv(rate, perRB) ELSE 1

\* The RBs rbs are granted to who, count UEs with perRB bits each.
Serve(res, who, rbs, perRB, count) ==
    [res EXCEPT !.rbsUsed = @ + rbs,
                !.servedUEs = @ + count,
                !.totalBitrate = @ + rbs * perRB * count,
                !.availableRBs = @ - rbs,
                !.granted = [w \in DOMAIN @ \cup {who} |-> IF w = who THEN rbs ELSE @[w]]]

\* A plausible slip: the last RBs are never granted.
TryStrict(res, who, rate, perRB, count) ==
    IF perRB # 0 /\ requiredRBs(rate, perRB) < res.availableRBs
    THEN Serve(res, who, requiredRBs(rate, perRB), perRB, count)
    ELSE res

\* The body of both loops: below the threshold, or with too few RBs left,
\* nothing is granted.
Try(res, who, rate, perRB, count) ==
    IF perRB # 0 /\ requiredRBs(rate, perRB) <= res.availableRBs
    THEN Serve(res, who, requiredRBs(rate, perRB), perRB, count)
    ELSE res

simulateUnicast ==
    /\ phase = "unicast"
    /\ unicast' = Try(unicast, next, requiredBitrate[next], bitratePerRB[next], 1)
    /\ IF next = numUEs THEN next' = 1        /\ phase' = "multicast"
                        ELSE next' = next + 1 /\ UNCHANGED phase
    /\ UNCHANGED <<numUEs, bitratePerRB, requiredBitrate, multicast>>

\* A plausible slip: the group is served at the rate of its best channel.
BestChannel(group) == Max({bitratePerRB[ue] : ue \in groupUEs(group)})

\* A plausible slip: every group is served at the most robust rate.
RobustChannel(group) ==
    IF \E ue \in groupUEs(group) : bitratePerRB[ue] = 0 THEN 0 ELSE Min(BitratesPerRB \ {0})

\* The limiting factor of a group is its worst SINR.
worstChannel(group)       == Min({bitratePerRB[ue] : ue \in groupUEs(group)})
maxRequiredBitrate(group) == Max({requiredBitrate[ue] : ue \in groupUEs(group)})

simulateMulticast ==
    /\ phase = "multicast"
    /\ multicast' = IF groupUEs(next) = {} THEN multicast
                    ELSE Try(multicast, next, maxRequiredBitrate(next), worstChannel(next),
                             Cardinality(groupUEs(next)))
    /\ IF next = numGroups THEN next' = 1        /\ phase' = "scenario"
                           ELSE next' = next + 1 /\ UNCHANGED phase
    /\ UNCHANGED <<numUEs, bitratePerRB, requiredBitrate, unicast>>

RbNext == generateUEScenario \/ simulateUnicast \/ simulateMulticast

RbSpec == RbInit /\ [][RbNext]_rbVars
-----------------------------------------------------------------------------
Served == UNION {groupUEs(g) : g \in DOMAIN multicast.granted}

(***************************************************************************)
(* The allocation leaves nobody out who could still be served: a UE or     *)
(* group the loop passed over is below the threshold or needs more than    *)
(* all that is left now.                                                   *)
(***************************************************************************)
NobodyLeftOut ==
    /\ \A ue \in RbUEs \ DOMAIN unicast.granted :
          (phase # "unicast" \/ ue < next) =>
             \/ bitratePerRB[ue] = 0
             \/ requiredRBs(requiredBitrate[ue], bitratePerRB[ue]) > unicast.availableRBs
    /\ \A g \in Groups \ DOMAIN multicast.granted :
          (phase = "scenario" \/ (phase = "multicast" /\ g < next)) =>
             \/ worstChannel(g) = 0
             \/ requiredRBs(maxRequiredBitrate(g), worstChannel(g)) > multicast.availableRBs

(***************************************************************************)
(* Every UE that is counted as served gets its bitrate over its own        *)
(* channel, in a group too, where the group's RBs carry it; it is counted  *)
(* once, and a group has between 1 and GroupSize UEs.                      *)
(***************************************************************************)
ServedGetTheirBitrate ==
    /\ \A ue \in DOMAIN unicast.granted :
          unicast.granted[ue] * bitratePerRB[ue] >= requiredBitrate[ue]
    /\ \A g \in DOMAIN multicast.granted : \A ue \in groupUEs(g) :
          multicast.granted[g] * bitratePerRB[ue] >= requiredBitrate[ue]
    /\ unicast.servedUEs = Cardinality(DOMAIN unicast.granted)
    /\ multicast.servedUEs = Cardinality(Served)
    /\ \A g \in Groups : Cardinality(groupUEs(g)) \in 1..GroupSize

(***************************************************************************)
(* "Lower resource utilization reduces network congestion",                *)
(* physicalLayerModeling.m:535: when one resource block carries any UE's   *)
(* bitrate over any UE's channel, which the link budget of the script      *)
(* guarantees, multicast serves at least as many UEs as unicast with at    *)
(* most as many resource blocks.                                           *)
(***************************************************************************)
MulticastSaves ==
    (phase = "scenario" /\ \A ue, other \in RbUEs : bitratePerRB[ue] >= requiredBitrate[other])
        => multicast.rbsUsed <= unicast.rbsUsed /\ multicast.servedUEs >= unicast.servedUEs
=============================================================================
