---------------------------- MODULE GroupKeyMgmt ----------------------------
(***************************************************************************)
(* The group_key_mgmt core: gNB, AMF, AUSF, UDM, SMF and UPF together.     *)
(* Clients are UEs: they post registrations and security-mode-completes to *)
(* the gNB, and the other routes are called by network functions only      *)
(* (HttpFrames).  The handler threads of all network functions interleave; *)
(* containers start listening in any order, may die and may be started     *)
(* again.                                                                  *)
(***************************************************************************)
EXTENDS Gnb, Ausf, Smf, Upf

nfVars == <<ausfVars, amfVars, gnbVars, smfVars, upfVars>>
vars   == <<httpVars, nfVars>>

Init ==
    /\ HttpInit /\ AusfInit /\ AmfInit /\ GnbInit /\ SmfInit /\ UpfInit

\* A step of a handler thread of one network function in chain c.
Udm(c)  == UdmAuthData(c) /\ UNCHANGED nfVars
Ausf(c) == (AusfQueryUdm(c) \/ AusfAnswer(c)) /\ UNCHANGED <<amfVars, gnbVars, smfVars, upfVars>>
Amf(c)  == AmfStep(c) /\ UNCHANGED <<ausfVars, gnbVars, smfVars, upfVars>>
Gnb(c)  == GnbStep(c) /\ UNCHANGED <<ausfVars, amfVars, smfVars, upfVars>>
Smf(c)  == SmfStep(c) /\ UNCHANGED <<ausfVars, amfVars, gnbVars, upfVars>>
Upf(c)  == UpfStep(c) /\ UNCHANGED <<ausfVars, amfVars, gnbVars, smfVars>>

\* A step that changes only the HTTP substrate.
Http(c) ==
    /\ \/ ClientPost(c)
       \/ \E n \in NFs : Accept(c, n)
    /\ UNCHANGED nfVars

\* A container dies and its in-memory state with it.
Crash(n) ==
    /\ Die(n)
    /\ IF n = "ausf" THEN AusfReset ELSE UNCHANGED ausfVars
    /\ IF n = "amf"  THEN AmfReset  ELSE UNCHANGED amfVars
    /\ IF n = "gnb"  THEN GnbReset  ELSE UNCHANGED gnbVars
    /\ IF n = "smf"  THEN SmfReset  ELSE UNCHANGED smfVars
    /\ IF n = "upf"  THEN UpfReset  ELSE UNCHANGED upfVars

Boot(n) == Listen(n) /\ UNCHANGED nfVars

Thread(c) == Udm(c) \/ Ausf(c) \/ Amf(c) \/ Gnb(c) \/ Smf(c) \/ Upf(c)

Next ==
    \/ \E c \in Clients : Http(c) \/ Thread(c)
    \/ \E n \in NFs : Boot(n) \/ Crash(n)

Spec == Init /\ [][Next]_vars

(***************************************************************************)
(* The operating system schedules every runnable thread and the servers    *)
(* accept every connection, so while a chain can go on, one of its threads *)
(* does.  Clients need not post, and nothing restarts a container:         *)
(* docker-compose.yml sets no restart policy.                              *)
(***************************************************************************)
Served(c) ==
    \/ Thread(c)
    \/ (\E n \in NFs : Accept(c, n)) /\ UNCHANGED nfVars

Fairness == \A c \in Clients : WF_vars(Served(c))

FairSpec == Spec /\ Fairness
-----------------------------------------------------------------------------
Labels == {"idle", "queued", "start", "ok", "err", "dead", "udm", "ausf",
           "stored", "keyed", "command", "context", "session", "amf", "upf",
           "link", "addr", "set_up", "nat"}

(***************************************************************************)
(* Types: which keys each network function's attributes may hold.          *)
(***************************************************************************)
TypeOK ==
    /\ up \in [NFs -> BOOLEAN]
    /\ pc \in [Clients -> [Routes -> Labels]]
    /\ req \in [Clients -> {None} \cup Request]
    /\ crashes \in 0..MaxCrashes
    /\ authentication_vectors \in
           [UEs -> {None} \cup [k_ausf : {None} \cup {KAusfOf(u) : u \in Subscribers}]]
    /\ amf_ue_contexts \in [UEs -> {None} \cup {KAusfOf(u) : u \in Subscribers}]
    /\ k_amf \in {None} \cup {KAmfOf(u) : u \in Subscribers}
    /\ k_gnb \in [Clients -> {None} \cup {KgnbOf(u) : u \in Subscribers}]
    /\ authenticated \subseteq UEs
    /\ gnb_ue_contexts \in [UEs -> {None} \cup {KgnbOf(u) : u \in Subscribers}]
    /\ gnb_k_gnb \in {None} \cup {KgnbOf(u) : u \in Subscribers}
    /\ sessions \in [UEs -> {None} \cup {KupOf(u) : u \in Subscribers}]
    /\ gtp0 \in {"absent", "link", "addr", "up"}
    /\ nat \in Nat

(***************************************************************************)
(* Whatever a network function holds for a subscriber is what that         *)
(* subscriber's own permanent key leads to, although the AMF and the gNB   *)
(* keep one k_amf and one k_gnb for all UEs and any thread may overwrite   *)
(* k_amf between another UE's registration and its security complete.      *)
(***************************************************************************)
KeyAgreement ==
    \A u \in Subscribers \cap UEs :
        /\ authentication_vectors[u] # None => authentication_vectors[u].k_ausf = KAusfOf(u)
        /\ amf_ue_contexts[u] # None => amf_ue_contexts[u] = KAusfOf(u)
        /\ gnb_ue_contexts[u] # None => gnb_ue_contexts[u] = KgnbOf(u)
        /\ sessions[u] # None => sessions[u] = KupOf(u)

(***************************************************************************)
(* An AMF carries out a security complete only while it holds the          *)
(* authentication context of some subscriber: one that comes before any    *)
(* registration, or to a restarted AMF before the first registration after *)
(* the restart, finds k_amf None and fails before it has any effect.  And  *)
(* no UE context reaches the gNB and no session the SMF before some AMF    *)
(* has authenticated a subscriber.                                         *)
(***************************************************************************)
NothingBeforeAuthentication ==
    /\ \A c \in Clients :
          pc[c]["amf/security_complete"] \in {"context", "session"}
              => \E u \in Subscribers \cap UEs : amf_ue_contexts[u] # None
    /\ (\E u \in UEs : gnb_ue_contexts[u] # None \/ sessions[u] # None)
          => authenticated \cap Subscribers # {}

(***************************************************************************)
(* A UE the UDM does not know never has an authentication context in the   *)
(* AMF: the UDM's ordinary "ue_not_found" answer turns into an error of    *)
(* the AUSF (KeyError) and of the AMF (no JSON) before anything is stored. *)
(***************************************************************************)
OnlySubscribersAuthenticated ==
    /\ authenticated \subseteq Subscribers
    /\ \A u \in UEs : amf_ue_contexts[u] # None => u \in authenticated

(***************************************************************************)
(* A client whose registration was answered with JSON was authenticated,   *)
(* whatever died on the way.                                               *)
(***************************************************************************)
RegistrationAnswerTruthful ==
    \A c \in Clients :
        pc[c]["gnb/registration"] = "ok" => ueOf(c) \in authenticated

(***************************************************************************)
(* However many sessions are established, and however their handler        *)
(* threads interleave at the UPF, at most one MASQUERADE rule is appended  *)
(* in the life of the container, and only behind an interface that is up.  *)
(***************************************************************************)
NatOnceBehindGtp == nat <= 1 /\ (nat = 1 => gtp0 = "up")

(***************************************************************************)
(* Every request posted to the gNB is answered (or its connection reset):  *)
(* no cycle of calls gNB -> AMF -> gNB blocks, and a caller of a dead      *)
(* container is woken.                                                     *)
(***************************************************************************)
EveryRequestAnswered ==
    \A c \in Clients : req[c] # None ~> \E h \in ClientRoutes : Returned(c, h)
=============================================================================
