--------------------------------- MODULE Upf ---------------------------------
(***************************************************************************)
(* The UPF: POST /configure.  create_gtp_interface runs four commands, in  *)
(* this order, and stops at the first that fails; nothing is undone.  The  *)
(* interface gtp0 and the NAT table belong to the container's network      *)
(* namespace, which all handler threads share.                             *)
(***************************************************************************)
EXTENDS HttpFrames

VARIABLES
    gtp0,   \* how far the interface has come: "absent", "link", "addr" or "up"
    nat     \* number of MASQUERADE rules in POSTROUTING

upfVars == <<gtp0, nat>>

\* subprocess.run([...], check=True) failed: CalledProcessError is caught,
\* create_gtp_interface returns False and configure answers 500.
CommandFailed(c) ==
    /\ Goto(c, "upf/configure", "err")
    /\ UNCHANGED upfVars

UpfModprobe(c) ==
    /\ pc[c]["upf/configure"] = "start"
    /\ \/ Goto(c, "upf/configure", "link") /\ UNCHANGED upfVars
       \/ CommandFailed(c)
    /\ UNCHANGED <<up, req, crashes>>

\* A plausible slip: an existing gtp0 taken over instead of refused.
UpfLinkAddReuse(c) ==
    /\ pc[c]["upf/configure"] = "link"
    /\ \/ /\ gtp0' = "link"
          /\ Goto(c, "upf/configure", "addr")
          /\ UNCHANGED nat
       \/ CommandFailed(c)
    /\ UNCHANGED <<up, req, crashes>>

\* ip link add gtp0: fails when gtp0 exists.
UpfLinkAdd(c) ==
    /\ pc[c]["upf/configure"] = "link"
    /\ \/ /\ gtp0 = "absent"
          /\ gtp0' = "link"
          /\ Goto(c, "upf/configure", "addr")
          /\ UNCHANGED nat
       \/ CommandFailed(c)
    /\ UNCHANGED <<up, req, crashes>>

\* ip addr add 10.10.0.1/24 dev gtp0
UpfAddrAdd(c) ==
    /\ pc[c]["upf/configure"] = "addr"
    /\ \/ /\ gtp0' = "addr"
          /\ Goto(c, "upf/configure", "set_up")
          /\ UNCHANGED nat
       \/ CommandFailed(c)
    /\ UNCHANGED <<up, req, crashes>>

\* ip link set gtp0 up
UpfLinkSetUp(c) ==
    /\ pc[c]["upf/configure"] = "set_up"
    /\ \/ /\ gtp0' = "up"
          /\ Goto(c, "upf/configure", "nat")
          /\ UNCHANGED nat
       \/ CommandFailed(c)
    /\ UNCHANGED <<up, req, crashes>>

\* iptables -A POSTROUTING ... MASQUERADE, without check=True: the rule is
\* appended or not, the answer is "UPF configured".
UpfNat(c) ==
    /\ pc[c]["upf/configure"] = "nat"
    /\ nat' \in {nat, nat + 1}
    /\ Goto(c, "upf/configure", "ok")
    /\ UNCHANGED <<up, req, crashes, gtp0>>

UpfStep(c) ==
    \/ UpfModprobe(c) \/ UpfLinkAdd(c) \/ UpfAddrAdd(c)
    \/ UpfLinkSetUp(c) \/ UpfNat(c)

UpfInit  == gtp0 = "absent" /\ nat = 0

\* The network namespace of a dead container is gone.
UpfReset == gtp0' = "absent" /\ nat' = 0
=============================================================================
