------------------------ MODULE GroupKeyMgmt_proofs ------------------------
(***************************************************************************)
(* Proofs about GroupKeyMgmt, for any number of clients, UEs, subscribers  *)
(* and crashes.                                                            *)
(*                                                                         *)
(* The inductive invariant IndInv has four parts, each closed under Next   *)
(* with the help of the ones before it: HttpInv (types of the substrate,   *)
(* and a frame belongs to a request), AuthInv (who can have been           *)
(* authenticated when a frame has come how far), KeyInv (every key held    *)
(* anywhere is the one key of its kind, and exists only after an           *)
(* authentication) and UpfInv (at most one thread owns gtp0, and how far   *)
(* the interface has come is read off that thread's label).                *)
(***************************************************************************)
EXTENDS GroupKeyMgmt, TLAPS

(***************************************************************************)
(* What derivation collapses to: the head of a derived key is its name.    *)
(***************************************************************************)
KAMF == <<"K_AMF", "K_AUSF">>
KGNB == <<"K_gNB", "K_AMF">>
KUP  == <<"UP_ENC", "K_gNB">>

HttpInv ==
    /\ up \in [NFs -> BOOLEAN]
    /\ pc \in [Clients -> [Routes -> Labels]]
    /\ req \in [Clients -> {None} \cup Request]
    /\ crashes \in 0..MaxCrashes
    /\ \A c \in Clients, h \in Routes : pc[c][h] # "idle" => req[c] \in Request

AuthInv ==
    /\ authenticated \subseteq Subscribers \cap UEs
    /\ amf_ue_contexts \in [UEs -> {None} \cup {KAusfOf(u) : u \in Subscribers}]
    /\ \A u \in UEs : amf_ue_contexts[u] # None
                          => u \in authenticated /\ amf_ue_contexts[u] = KAusfOf(u)
    /\ authentication_vectors \in
           [UEs -> {None} \cup [k_ausf : {None} \cup {KAusfOf(u) : u \in Subscribers}]]
    /\ \A u \in UEs : authentication_vectors[u] # None
                          => authentication_vectors[u] = [k_ausf |-> get_auth_data(u)]
    /\ \A c \in Clients :
          /\ pc[c]["ausf/authenticate"] = "ok" => ueOf(c) \in Subscribers
          /\ pc[c]["amf/registration"] \in {"stored", "keyed", "command", "ok"}
                 => ueOf(c) \in authenticated
          /\ pc[c]["gnb/registration"] = "ok" => ueOf(c) \in authenticated

\* v is either no key or the key k, and then somebody was authenticated.
NoneOr(v, k) == v = None \/ (v = k /\ authenticated # {})

\* Chain c has come to where its k_gnb is posted, stored or derived from.
CarriesKgnb(c) ==
    \/ pc[c]["amf/security_complete"] \in {"context", "session"}
    \/ pc[c]["gnb/ue_context_setup"] # "idle"
    \/ pc[c]["smf/session_establishment"] # "idle"

KeyInv ==
    /\ NoneOr(k_amf, KAMF)
    /\ k_gnb \in [Clients -> {None, KGNB}]
    /\ \A c \in Clients : NoneOr(k_gnb[c], KGNB)
    /\ NoneOr(gnb_k_gnb, KGNB)
    /\ gnb_ue_contexts \in [UEs -> {None, KGNB}]
    /\ \A u \in UEs : NoneOr(gnb_ue_contexts[u], KGNB)
    /\ sessions \in [UEs -> {None, KUP}]
    /\ \A u \in UEs : NoneOr(sessions[u], KUP)
    /\ \A c \in Clients : CarriesKgnb(c) => k_gnb[c] = KGNB /\ authenticated # {}

\* The labels at which a thread of the UPF owns gtp0.
Owning == {"addr", "set_up", "nat"}

UpfInv ==
    /\ gtp0 \in {"absent", "link", "addr", "up"}
    /\ nat \in {0, 1}
    /\ nat = 1 => gtp0 = "up"
    /\ \A c \in Clients :
          /\ pc[c]["upf/configure"] = "addr"   => gtp0 = "link" /\ nat = 0
          /\ pc[c]["upf/configure"] = "set_up" => gtp0 = "addr" /\ nat = 0
          /\ pc[c]["upf/configure"] = "nat"    => gtp0 = "up" /\ nat = 0
    /\ \A c, d \in Clients :
          pc[c]["upf/configure"] \in Owning /\ pc[d]["upf/configure"] \in Owning => c = d

IndInv == HttpInv /\ AuthInv /\ KeyInv /\ UpfInv
-----------------------------------------------------------------------------
(***************************************************************************)
(* Every route is one of ten names, and every network function serves      *)
(* routes.                                                                 *)
(***************************************************************************)
LEMMA RouteNames ==
    /\ Routes = {"gnb/registration", "gnb/security_complete", "gnb/ue_context_setup",
                 "gnb/security_command", "amf/registration", "amf/security_complete",
                 "ausf/authenticate", "udm/auth_data", "smf/session_establishment",
                 "upf/configure"}
    /\ ClientRoutes \subseteq Routes
    /\ \A n \in NFs : RoutesOf(n) \subseteq Routes
  BY DEF Routes, GnbRoutes, AmfRoutes, AusfRoutes, UdmRoutes, SmfRoutes, UpfRoutes,
         ClientRoutes, NFs, RoutesOf

(***************************************************************************)
(* The first ten characters of a derived key are its name, so what every   *)
(* derivation returns does not depend on the subscriber any more.          *)
(***************************************************************************)
LEMMA Collapse ==
    /\ \A u \in Subscribers :
          KAmfOf(u) = KAMF /\ KgnbOf(u) = KGNB /\ KupOf(u) = KUP
    /\ \A u \in Subscribers : derive_k_amf(get_auth_data(u)) = KAMF
    /\ derive_key(KAMF, "K_gNB") = KGNB
    /\ derive_key(KGNB, "UP_ENC") = KUP
  BY DEF KAMF, KGNB, KUP, KAmfOf, KgnbOf, KupOf, KAusfOf, get_auth_data,
         derive_k_amf, derive_k_ausf, derive_key, Prefix10

(***************************************************************************)
(* The effect of Goto on every frame.                                      *)
(***************************************************************************)
LEMMA GotoEffect ==
    ASSUME pc \in [Clients -> [Routes -> Labels]],
           NEW c \in Clients, NEW h \in Routes, NEW label \in Labels, Goto(c, h, label)
    PROVE  /\ pc' \in [Clients -> [Routes -> Labels]]
           /\ \A d \in Clients, g \in Routes :
                 pc'[d][g] = IF d = c /\ g = h THEN label ELSE pc[d][g]
  BY DEF Goto

(***************************************************************************)
(* The effect of Post on every frame.                                      *)
(***************************************************************************)
LEMMA PostEffect ==
    ASSUME pc \in [Clients -> [Routes -> Labels]],
           NEW c \in Clients, NEW h \in Routes, NEW label \in Labels,
           NEW n \in NFs, NEW g \in Routes, h # g, Post(c, h, label, n, g)
    PROVE  /\ pc' \in [Clients -> [Routes -> Labels]]
           /\ \A d \in Clients, f \in Routes :
                 pc'[d][f] = IF d = c /\ f = h THEN (IF up[n] THEN label ELSE "err")
                             ELSE IF d = c /\ f = g /\ up[n] THEN "queued"
                             ELSE pc[d][f]
  <1>1. "queued" \in Labels /\ "err" \in Labels
    BY DEF Labels
  <1>2. CASE up[n]
    BY <1>1, <1>2 DEF Post
  <1>3. CASE ~up[n]
    BY <1>1, <1>3, GotoEffect DEF Post
  <1> QED BY <1>2, <1>3

(***************************************************************************)
(* HttpInv survives any move of a frame in a chain that has a request.     *)
(***************************************************************************)
LEMMA MoveKeepsHttp ==
    ASSUME HttpInv, NEW c \in Clients, req[c] \in Request, UNCHANGED <<up, req, crashes>>,
           \/ \E h \in Routes, label \in Labels : Goto(c, h, label)
           \/ \E h, g \in Routes, label \in Labels, n \in NFs :
                  h # g /\ Post(c, h, label, n, g)
    PROVE  HttpInv'
  <1>1. CASE \E h \in Routes, label \in Labels : Goto(c, h, label)
    <2>1. PICK h \in Routes, label \in Labels : Goto(c, h, label)
      BY <1>1
    <2> QED BY <2>1, GotoEffect DEF HttpInv
  <1>2. CASE \E h, g \in Routes, label \in Labels, n \in NFs :
                h # g /\ Post(c, h, label, n, g)
    <2>1. PICK h \in Routes, g \in Routes, label \in Labels, n \in NFs :
             h # g /\ Post(c, h, label, n, g)
      BY <1>2
    <2>2. /\ pc' \in [Clients -> [Routes -> Labels]]
          /\ \A d \in Clients, f \in Routes : d # c => pc'[d][f] = pc[d][f]
      BY <2>1, PostEffect DEF HttpInv
    <2> QED BY <2>2 DEF HttpInv
  <1> QED BY <1>1, <1>2

(***************************************************************************)
(* Every handler step is such a move.                                      *)
(***************************************************************************)
LEMMA ThreadKeepsHttp ==
    ASSUME HttpInv, NEW c \in Clients, Thread(c)
    PROVE  HttpInv'
  <1> USE RouteNames DEF NFs, Labels
  <1>1. CASE Udm(c)
    BY <1>1, MoveKeepsHttp DEF Udm, UdmAuthData, HttpInv
  <1>2. CASE Ausf(c)
    BY <1>2, MoveKeepsHttp DEF Ausf, AusfQueryUdm, AusfAnswer, HttpInv, Returned, Ended
  <1>3. CASE Amf(c)
    <2>1. CASE AmfAuthenticate(c)
      BY <2>1, MoveKeepsHttp DEF AmfAuthenticate, HttpInv
    <2>2. CASE AmfStoreContext(c)
      BY <2>2, MoveKeepsHttp DEF AmfStoreContext, HttpInv
    <2>3. CASE AmfDeriveKamf(c)
      BY <2>3, MoveKeepsHttp DEF AmfDeriveKamf, HttpInv
    <2>4. CASE AmfSendSecurityCommand(c)
      BY <2>4, MoveKeepsHttp DEF AmfSendSecurityCommand, HttpInv
    <2>5. CASE AmfRegistrationReturn(c)
      BY <2>5, MoveKeepsHttp DEF AmfRegistrationReturn, HttpInv
    <2>6. CASE AmfSetupContext(c)
      BY <2>6, MoveKeepsHttp DEF AmfSetupContext, HttpInv
    <2>7. CASE AmfNotifySmf(c)
      BY <2>7, MoveKeepsHttp DEF AmfNotifySmf, HttpInv
    <2>8. CASE AmfSecurityCompleteReturn(c)
      BY <2>8, MoveKeepsHttp DEF AmfSecurityCompleteReturn, HttpInv
    <2> QED BY <1>3, <2>1, <2>2, <2>3, <2>4, <2>5, <2>6, <2>7, <2>8 DEF Amf, AmfStep
  <1>4. CASE Gnb(c)
    <2>1. CASE GnbForward(c)
      BY <2>1, MoveKeepsHttp DEF GnbForward, HttpInv
    <2>2. CASE GnbRegistrationReturn(c)
      BY <2>2, MoveKeepsHttp DEF GnbRegistrationReturn, HttpInv
    <2>3. CASE GnbSecurityCompleteReturn(c)
      BY <2>3, MoveKeepsHttp DEF GnbSecurityCompleteReturn, HttpInv
    <2>4. CASE GnbStoreContext(c)
      BY <2>4, MoveKeepsHttp DEF GnbStoreContext, HttpInv
    <2>5. CASE GnbStoreKey(c)
      BY <2>5, MoveKeepsHttp DEF GnbStoreKey, HttpInv
    <2>6. CASE GnbCalculateMac(c)
      BY <2>6, MoveKeepsHttp DEF GnbCalculateMac, HttpInv
    <2>7. CASE GnbNotFound(c)
      BY <2>7, MoveKeepsHttp DEF GnbNotFound, HttpInv
    <2> QED BY <1>4, <2>1, <2>2, <2>3, <2>4, <2>5, <2>6, <2>7 DEF Gnb, GnbStep
  <1>5. CASE Smf(c)
    BY <1>5, MoveKeepsHttp DEF Smf, SmfStep, SmfStoreSession, SmfConfigureUpf, SmfReturn, HttpInv
  <1>6. CASE Upf(c)
    BY <1>6, MoveKeepsHttp DEF Upf, UpfStep, UpfModprobe, UpfLinkAdd, UpfAddrAdd,
                               UpfLinkSetUp, UpfNat, CommandFailed, HttpInv
  <1> QED BY <1>1, <1>2, <1>3, <1>4, <1>5, <1>6 DEF Thread

(***************************************************************************)
(* The steps of the substrate keep HttpInv.                                *)
(***************************************************************************)
LEMMA SubstrateKeepsHttp ==
    ASSUME HttpInv,
           \/ \E c \in Clients : Http(c)
           \/ \E n \in NFs : Boot(n) \/ Crash(n)
    PROVE  HttpInv'
  <1>1. ASSUME NEW c \in Clients, ClientPost(c)
        PROVE  HttpInv'
    <2>1. PICK h \in ClientRoutes, u \in UEs :
             /\ req' = [req EXCEPT ![c] = [route |-> h, ue |-> u]]
             /\ Goto(c, h, "queued")
      BY <1>1 DEF ClientPost
    <2>a. h \in Routes /\ "queued" \in Labels
      BY RouteNames DEF Labels
    <2>2. /\ pc' \in [Clients -> [Routes -> Labels]]
          /\ \A d \in Clients, f \in Routes : d # c => pc'[d][f] = pc[d][f]
      BY <2>1, <2>a, GotoEffect DEF HttpInv
    <2>3. [route |-> h, ue |-> u] \in Request
      BY DEF Request
    <2> QED BY <1>1, <2>1, <2>2, <2>3 DEF ClientPost, HttpInv
  <1>2. ASSUME NEW c \in Clients, NEW n \in NFs, Accept(c, n)
        PROVE  HttpInv'
    <2>1. PICK h \in RoutesOf(n) : pc[c][h] = "queued" /\ Goto(c, h, "start")
      BY <1>2 DEF Accept
    <2>2. h \in Routes /\ "start" \in Labels
      BY RouteNames DEF Labels
    <2>3. req[c] \in Request
      BY <2>1, <2>2 DEF HttpInv
    <2> QED BY <1>2, <2>1, <2>2, <2>3, MoveKeepsHttp DEF Accept
  <1>3. ASSUME NEW n \in NFs, Boot(n)
        PROVE  HttpInv'
    BY <1>3 DEF Boot, Listen, HttpInv
  <1>4. ASSUME NEW n \in NFs, Crash(n)
        PROVE  HttpInv'
    <2>1. "dead" \in Labels
      BY DEF Labels
    <2>2. pc' \in [Clients -> [Routes -> Labels]]
      BY <1>4, <2>1 DEF Crash, Die, HttpInv
    <2>3. \A d \in Clients, f \in Routes : pc'[d][f] # "idle" => pc[d][f] # "idle"
      BY <1>4 DEF Crash, Die, Running
    <2>4. crashes' \in 0..MaxCrashes /\ up' \in [NFs -> BOOLEAN] /\ req' = req
      BY <1>4, HttpAssumption DEF Crash, Die, HttpInv
    <2> QED BY <2>2, <2>3, <2>4 DEF HttpInv
  <1> QED BY <1>1, <1>2, <1>3, <1>4 DEF Http
-----------------------------------------------------------------------------
(***************************************************************************)
(* AuthInv survives a step that leaves the contexts alone and takes no     *)
(* frame to where its UE must have been authenticated.                     *)
(***************************************************************************)
LEMMA AuthFrame ==
    ASSUME AuthInv, UNCHANGED <<amf_ue_contexts, authentication_vectors, authenticated>>,
           \A c \in Clients :
              /\ \/ req'[c] = req[c]
                 \/ /\ pc'[c]["ausf/authenticate"] = "idle"
                    /\ pc'[c]["amf/registration"] = "idle"
                    /\ pc'[c]["gnb/registration"] \in {"idle", "queued"}
              /\ pc'[c]["ausf/authenticate"] = "ok" => pc[c]["ausf/authenticate"] = "ok"
              /\ pc'[c]["amf/registration"] \in {"stored", "keyed", "command", "ok"}
                    => pc[c]["amf/registration"] \in {"stored", "keyed", "command", "ok"}
              /\ pc'[c]["gnb/registration"] = "ok"
                    => \/ pc[c]["gnb/registration"] = "ok"
                       \/ pc[c]["amf/registration"] = "ok"
    PROVE  AuthInv'
  BY DEF AuthInv, ueOf

(***************************************************************************)
(* KeyInv survives a step that leaves the keys alone, forgets no           *)
(* authentication and takes no chain to where it carries a key.            *)
(***************************************************************************)
LEMMA KeyFrame ==
    ASSUME KeyInv, UNCHANGED <<k_amf, k_gnb, gnbVars, smfVars>>,
           authenticated \subseteq authenticated',
           \A c \in Clients : CarriesKgnb(c)' => CarriesKgnb(c)
    PROVE  KeyInv'
  <1>1. authenticated # {} => authenticated' # {}
    OBVIOUS
  <1> QED BY <1>1 DEF KeyInv, NoneOr, gnbVars, smfVars

(***************************************************************************)
(* UpfInv survives a step that leaves gtp0 and the NAT table alone and     *)
(* takes no thread of the UPF to where it owns gtp0.                       *)
(***************************************************************************)
LEMMA UpfFrame ==
    ASSUME UpfInv, UNCHANGED upfVars,
           \A c \in Clients : \/ pc'[c]["upf/configure"] = pc[c]["upf/configure"]
                              \/ pc'[c]["upf/configure"] \notin Owning
    PROVE  UpfInv'
  BY DEF UpfInv, upfVars, Owning

Rest == AuthInv /\ KeyInv /\ UpfInv

(***************************************************************************)
(* In chain c, only frame h (to one of the labels S) and, when it is       *)
(* called, frame g move.                                                   *)
(***************************************************************************)
Moves(c, h, S, g) ==
    \A d \in Clients, f \in Routes :
        \/ pc'[d][f] = pc[d][f]
        \/ d = c /\ f = h /\ pc'[d][f] \in S
        \/ d = c /\ f = g /\ pc'[d][f] = "queued"

\* In chain c, only frame h moves, to one of the labels S.
Goes(c, h, S) ==
    \A d \in Clients, f \in Routes :
        pc'[d][f] = pc[d][f] \/ (d = c /\ f = h /\ pc'[d][f] \in S)

(***************************************************************************)
(* A step that moves one frame moves no other.                             *)
(***************************************************************************)
LEMMA GotoGoes ==
    ASSUME HttpInv, NEW c \in Clients, NEW h \in Routes, NEW S \in SUBSET Labels,
           \E label \in S : Goto(c, h, label)
    PROVE  Goes(c, h, S)
  <1>1. PICK label \in S : Goto(c, h, label)
    OBVIOUS
  <1> QED BY <1>1, GotoEffect DEF HttpInv, Goes

(***************************************************************************)
(* The frame that moves is at the label it moved to.                       *)
(***************************************************************************)
LEMMA GotoLands ==
    ASSUME HttpInv, NEW c \in Clients, NEW h \in Routes, NEW label \in Labels, Goto(c, h, label)
    PROVE  pc'[c][h] = label
  BY GotoEffect DEF HttpInv

(***************************************************************************)
(* A call moves the caller's frame and the frame it calls, and no other.   *)
(***************************************************************************)
LEMMA PostMoves ==
    ASSUME HttpInv, NEW c \in Clients, NEW h \in Routes, NEW label \in Labels,
           NEW n \in NFs, NEW g \in Routes, h # g, Post(c, h, label, n, g)
    PROVE  Moves(c, h, {label, "err"}, g)
  BY PostEffect DEF HttpInv, Moves

(***************************************************************************)
(* Every step of an AUSF thread (authenticate) keeps the invariant.        *)
(***************************************************************************)
LEMMA AusfKeeps ==
    ASSUME HttpInv, Rest, NEW c \in Clients, Ausf(c)
    PROVE  Rest'
  <1> USE RouteNames DEF Ausf, nfVars, amfVars, gnbVars, smfVars, Rest
  <1>1. CASE AusfQueryUdm(c)
    <2>1. Moves(c, "ausf/authenticate", {"udm", "err"}, "udm/auth_data")
      BY <1>1, PostMoves DEF AusfQueryUdm, NFs, Labels
    <2>2. AuthInv'
      BY <1>1, <2>1, AuthFrame DEF AusfQueryUdm, Moves
    <2>3. KeyInv'
      BY <1>1, <2>1, KeyFrame DEF AusfQueryUdm, Moves, CarriesKgnb
    <2>4. UpfInv'
      BY <1>1, <2>1, UpfFrame DEF AusfQueryUdm, Moves
    <2> QED BY <2>2, <2>3, <2>4
  <1>2. CASE AusfAnswer(c)
    <2>1. Goes(c, "ausf/authenticate", {"ok", "err"})
      BY <1>2, GotoGoes DEF AusfAnswer, Labels
    <2>2. AuthInv'
      <3>1. req[c] \in Request
        BY <1>2 DEF AusfAnswer, HttpInv
      <3>2. get_auth_data(ueOf(c)) \in {None} \cup {KAusfOf(u) : u \in Subscribers}
        BY DEF get_auth_data, KAusfOf
      <3>3. ASSUME get_auth_data(ueOf(c)) = None
            PROVE  pc'[c]["ausf/authenticate"] # "ok"
        <4>1. Goto(c, "ausf/authenticate", "err")
          BY <1>2, <3>3 DEF AusfAnswer
        <4> QED BY <4>1, GotoLands DEF HttpInv, Labels
      <3> QED BY <1>2, <2>1, <3>1, <3>2, <3>3 DEF AusfAnswer, Goes, AuthInv, ueOf, Request, get_auth_data
    <2>3. KeyInv'
      BY <1>2, <2>1, KeyFrame DEF AusfAnswer, Goes, CarriesKgnb
    <2>4. UpfInv'
      BY <1>2, <2>1, UpfFrame DEF AusfAnswer, Goes
    <2> QED BY <2>2, <2>3, <2>4
  <1> QED BY <1>1, <1>2

(***************************************************************************)
(* Every step of an AMF thread (registration, security_complete) keeps the *)
(* invariant: k_amf is only ever derived from a stored authentication      *)
(* context.                                                                *)
(***************************************************************************)
LEMMA AmfKeeps ==
    ASSUME HttpInv, Rest, NEW c \in Clients, Amf(c)
    PROVE  Rest'
  <1> USE RouteNames DEF Amf, amfVars, gnbVars, smfVars, Rest
  <1>1. CASE AmfAuthenticate(c)
    <2>1. Moves(c, "amf/registration", {"ausf", "err"}, "ausf/authenticate")
      BY <1>1, PostMoves DEF AmfAuthenticate, NFs, Labels
    <2>2. AuthInv'
      BY <1>1, <2>1, AuthFrame DEF AmfAuthenticate, ausfVars, Moves
    <2>3. KeyInv'
      BY <1>1, <2>1, KeyFrame DEF AmfAuthenticate, Moves, CarriesKgnb
    <2>4. UpfInv'
      BY <1>1, <2>1, UpfFrame DEF AmfAuthenticate, Moves
    <2> QED BY <2>2, <2>3, <2>4
  <1>2. CASE AmfStoreContext(c)
    <2>1. Goes(c, "amf/registration", {"stored", "err"})
      BY <1>2, GotoGoes DEF AmfStoreContext, Labels
    <2>2. AuthInv'
      <3>1. CASE pc[c]["ausf/authenticate"] = "ok"
        <4>1. req[c] \in Request /\ ueOf(c) \in UEs /\ ueOf(c) \in Subscribers
          BY <1>2, <3>1 DEF AmfStoreContext, HttpInv, AuthInv, ueOf, Request
        <4>2. get_auth_data(ueOf(c)) = KAusfOf(ueOf(c))
          BY <4>1 DEF get_auth_data, KAusfOf
        <4>3. /\ amf_ue_contexts' = [amf_ue_contexts EXCEPT ![ueOf(c)] = KAusfOf(ueOf(c))]
              /\ authenticated' = authenticated \cup {ueOf(c)}
              /\ authentication_vectors' = authentication_vectors
              /\ req' = req
          BY <1>2, <3>1, <4>2 DEF AmfStoreContext, ausfVars
        <4>4. amf_ue_contexts' \in [UEs -> {None} \cup {KAusfOf(u) : u \in Subscribers}]
          BY <4>1, <4>3 DEF AuthInv
        <4>5. \A d \in Clients :
                 /\ pc'[d]["ausf/authenticate"] = pc[d]["ausf/authenticate"]
                 /\ pc'[d]["gnb/registration"] = pc[d]["gnb/registration"]
                 /\ d # c => pc'[d]["amf/registration"] = pc[d]["amf/registration"]
          BY <2>1 DEF Goes
        <4> QED BY <4>1, <4>3, <4>4, <4>5 DEF AuthInv, ueOf
      <3>2. CASE pc[c]["ausf/authenticate"] \in {"err", "dead"}
        <4>1. Goto(c, "amf/registration", "err")
              /\ UNCHANGED <<amf_ue_contexts, authenticated, req, authentication_vectors>>
          BY <1>2, <3>2 DEF AmfStoreContext, ausfVars
        <4>2. Goes(c, "amf/registration", {"err"})
          BY <4>1, GotoGoes DEF Labels
        <4> QED BY <4>1, <4>2, AuthFrame DEF Goes
      <3> QED BY <1>2, <3>1, <3>2 DEF AmfStoreContext
    <2>3. KeyInv'
      BY <1>2, <2>1, KeyFrame DEF AmfStoreContext, Goes, CarriesKgnb
    <2>4. UpfInv'
      BY <1>2, <2>1, UpfFrame DEF AmfStoreContext, Goes
    <2> QED BY <2>2, <2>3, <2>4
  <1>3. CASE AmfDeriveKamf(c)
    <2>1. Goes(c, "amf/registration", {"keyed"})
      BY <1>3, GotoGoes DEF AmfDeriveKamf, Labels
    <2>2. AuthInv'
      BY <1>3, <2>1, AuthFrame DEF AmfDeriveKamf, ausfVars, Goes
    <2>3. KeyInv'
      <3>1. ueOf(c) \in authenticated /\ ueOf(c) \in Subscribers
        BY <1>3 DEF AmfDeriveKamf, AuthInv
      <3>2. k_amf' = KAMF /\ authenticated' # {}
        BY <1>3, <3>1, Collapse DEF AmfDeriveKamf
      <3>3. \A d \in Clients : CarriesKgnb(d)' => CarriesKgnb(d)
        BY <2>1 DEF Goes, CarriesKgnb
      <3> QED BY <1>3, <3>2, <3>3 DEF AmfDeriveKamf, KeyInv, NoneOr
    <2>4. UpfInv'
      BY <1>3, <2>1, UpfFrame DEF AmfDeriveKamf, Goes
    <2> QED BY <2>2, <2>3, <2>4
  <1>4. CASE AmfSendSecurityCommand(c)
    <2>1. Moves(c, "amf/registration", {"command", "err"}, "gnb/security_command")
      BY <1>4, PostMoves DEF AmfSendSecurityCommand, NFs, Labels
    <2>2. AuthInv'
      BY <1>4, <2>1, AuthFrame DEF AmfSendSecurityCommand, ausfVars, Moves
    <2>3. KeyInv'
      BY <1>4, <2>1, KeyFrame DEF AmfSendSecurityCommand, Moves, CarriesKgnb
    <2>4. UpfInv'
      BY <1>4, <2>1, UpfFrame DEF AmfSendSecurityCommand, Moves
    <2> QED BY <2>2, <2>3, <2>4
  <1>5. CASE AmfRegistrationReturn(c)
    <2>1. Goes(c, "amf/registration", {"ok", "err"})
      BY <1>5, GotoGoes DEF AmfRegistrationReturn, Labels
    <2>2. AuthInv'
      BY <1>5, <2>1, AuthFrame DEF AmfRegistrationReturn, ausfVars, Goes
    <2>3. KeyInv'
      BY <1>5, <2>1, KeyFrame DEF AmfRegistrationReturn, Goes, CarriesKgnb
    <2>4. UpfInv'
      BY <1>5, <2>1, UpfFrame DEF AmfRegistrationReturn, Goes
    <2> QED BY <2>2, <2>3, <2>4
  <1>6. CASE AmfSetupContext(c)
    <2>1. CASE k_amf = None
      <3>1. Goes(c, "amf/security_complete", {"err"})
        BY <1>6, <2>1, GotoGoes DEF AmfSetupContext, Labels
      <3>2. AuthInv'
        BY <1>6, <3>1, AuthFrame DEF AmfSetupContext, ausfVars, Goes
      <3>3. KeyInv'
        BY <1>6, <2>1, <3>1, KeyFrame DEF AmfSetupContext, Goes, CarriesKgnb
      <3>4. UpfInv'
        BY <1>6, <3>1, UpfFrame DEF AmfSetupContext, Goes
      <3> QED BY <3>2, <3>3, <3>4
    <2>2. CASE k_amf # None
      <3>1. Moves(c, "amf/security_complete", {"context", "err"}, "gnb/ue_context_setup")
        BY <1>6, <2>2, PostMoves DEF AmfSetupContext, NFs, Labels
      <3>2. AuthInv'
        BY <1>6, <3>1, AuthFrame DEF AmfSetupContext, ausfVars, Moves
      <3>3. KeyInv'
        <4>1. k_amf = KAMF /\ authenticated # {}
          BY <2>2 DEF KeyInv, NoneOr
        <4>2. k_gnb' = [k_gnb EXCEPT ![c] = KGNB]
          BY <1>6, <2>2, <4>1, Collapse DEF AmfSetupContext
        <4>3. \A d \in Clients : d # c => (CarriesKgnb(d)' => CarriesKgnb(d))
          BY <3>1 DEF Moves, CarriesKgnb
        <4>4. UNCHANGED <<k_amf, gnbVars, smfVars, authenticated>>
          BY <1>6 DEF AmfSetupContext
        <4>5. /\ k_gnb' \in [Clients -> {None, KGNB}]
              /\ k_gnb'[c] = KGNB
              /\ \A d \in Clients : d # c => k_gnb'[d] = k_gnb[d]
          BY <4>2 DEF KeyInv
        <4> QED BY <4>1, <4>3, <4>4, <4>5 DEF KeyInv, NoneOr
      <3>4. UpfInv'
        BY <1>6, <3>1, UpfFrame DEF AmfSetupContext, Moves
      <3> QED BY <3>2, <3>3, <3>4
    <2> QED BY <2>1, <2>2
  <1>7. CASE AmfNotifySmf(c)
    <2>1. \/ Goes(c, "amf/security_complete", {"err"})
          \/ Moves(c, "amf/security_complete", {"session", "err"}, "smf/session_establishment")
      BY <1>7, GotoGoes, PostMoves, ZenonT(60) DEF AmfNotifySmf, NFs, Labels
    <2>2. AuthInv'
      BY <1>7, <2>1, AuthFrame DEF AmfNotifySmf, ausfVars, Moves, Goes
    <2>3. KeyInv'
      BY <1>7, <2>1, KeyFrame DEF AmfNotifySmf, Moves, Goes, CarriesKgnb
    <2>4. UpfInv'
      BY <1>7, <2>1, UpfFrame DEF AmfNotifySmf, Moves, Goes
    <2> QED BY <2>2, <2>3, <2>4
  <1>8. CASE AmfSecurityCompleteReturn(c)
    <2>1. Goes(c, "amf/security_complete", {"ok", "err"})
      BY <1>8, GotoGoes DEF AmfSecurityCompleteReturn, Labels
    <2>2. AuthInv'
      BY <1>8, <2>1, AuthFrame DEF AmfSecurityCompleteReturn, ausfVars, Goes
    <2>3. KeyInv'
      BY <1>8, <2>1, KeyFrame DEF AmfSecurityCompleteReturn, Goes, CarriesKgnb
    <2>4. UpfInv'
      BY <1>8, <2>1, UpfFrame DEF AmfSecurityCompleteReturn, Goes
    <2> QED BY <2>2, <2>3, <2>4
  <1> QED BY <1>1, <1>2, <1>3, <1>4, <1>5, <1>6, <1>7, <1>8 DEF AmfStep

(***************************************************************************)
(* Every step of a UDM thread (auth_data) keeps the invariant.             *)
(***************************************************************************)
LEMMA UdmKeeps ==
    ASSUME HttpInv, Rest, NEW c \in Clients, Udm(c)
    PROVE  Rest'
  <1> USE RouteNames DEF Udm, nfVars, ausfVars, amfVars, gnbVars, smfVars, Rest
  <1>1. Goes(c, "udm/auth_data", {"ok"})
    BY GotoGoes DEF UdmAuthData, Labels
  <1>2. AuthInv'
    BY <1>1, AuthFrame DEF UdmAuthData, Goes
  <1>3. KeyInv'
    BY <1>1, KeyFrame DEF UdmAuthData, Goes, CarriesKgnb
  <1>4. UpfInv'
    BY <1>1, UpfFrame DEF UdmAuthData, Goes
  <1> QED BY <1>2, <1>3, <1>4

(***************************************************************************)
(* Every step of a gNB thread keeps the invariant: it answers a            *)
(* registration with JSON only after the AMF has.                          *)
(***************************************************************************)
LEMMA GnbKeeps ==
    ASSUME HttpInv, Rest, NEW c \in Clients, Gnb(c)
    PROVE  Rest'
  <1> USE RouteNames DEF Gnb, ausfVars, amfVars, gnbVars, smfVars, Rest
  <1>1. CASE GnbForward(c)
    <2>1. \/ Moves(c, "gnb/registration", {"amf", "err"}, "amf/registration")
          \/ Moves(c, "gnb/security_complete", {"amf", "err"}, "amf/security_complete")
      BY <1>1, PostMoves, ZenonT(60) DEF GnbForward, NFs, Labels
    <2>2. AuthInv'
      BY <1>1, <2>1, AuthFrame DEF GnbForward, Moves
    <2>3. KeyInv'
      BY <1>1, <2>1, KeyFrame DEF GnbForward, Moves, CarriesKgnb
    <2>4. UpfInv'
      BY <1>1, <2>1, UpfFrame DEF GnbForward, Moves
    <2> QED BY <2>2, <2>3, <2>4
  <1>2. CASE GnbRegistrationReturn(c)
    <2>1. Goes(c, "gnb/registration", {"ok", "err"})
      BY <1>2, GotoGoes DEF GnbRegistrationReturn, Labels
    <2>2. AuthInv'
      <3>1. pc'[c]["gnb/registration"] = "ok" => pc[c]["amf/registration"] = "ok"
        <4>1. CASE pc[c]["amf/registration"] # "ok"
          <5>1. Goto(c, "gnb/registration", "err")
            BY <1>2, <4>1 DEF GnbRegistrationReturn
          <5> QED BY <5>1, GotoLands DEF HttpInv, Labels
        <4> QED BY <4>1
      <3> QED BY <1>2, <2>1, <3>1, AuthFrame DEF GnbRegistrationReturn, Goes
    <2>3. KeyInv'
      BY <1>2, <2>1, KeyFrame DEF GnbRegistrationReturn, Goes, CarriesKgnb
    <2>4. UpfInv'
      BY <1>2, <2>1, UpfFrame DEF GnbRegistrationReturn, Goes
    <2> QED BY <2>2, <2>3, <2>4
  <1>3. CASE GnbSecurityCompleteReturn(c)
    <2>1. Goes(c, "gnb/security_complete", {"ok", "err"})
      BY <1>3, GotoGoes DEF GnbSecurityCompleteReturn, Labels
    <2>2. AuthInv'
      BY <1>3, <2>1, AuthFrame DEF GnbSecurityCompleteReturn, Goes
    <2>3. KeyInv'
      BY <1>3, <2>1, KeyFrame DEF GnbSecurityCompleteReturn, Goes, CarriesKgnb
    <2>4. UpfInv'
      BY <1>3, <2>1, UpfFrame DEF GnbSecurityCompleteReturn, Goes
    <2> QED BY <2>2, <2>3, <2>4
  <1>4. CASE GnbStoreContext(c)
    <2>1. Goes(c, "gnb/ue_context_setup", {"stored"})
      BY <1>4, GotoGoes DEF GnbStoreContext, Labels
    <2>2. AuthInv'
      BY <1>4, <2>1, AuthFrame DEF GnbStoreContext, Goes
    <2>3. KeyInv'
      <3>1. k_gnb[c] = KGNB /\ authenticated # {}
        BY <1>4 DEF GnbStoreContext, KeyInv, CarriesKgnb
      <3>2. ueOf(c) \in UEs
        BY <1>4 DEF GnbStoreContext, HttpInv, Request, ueOf
      <3>3. /\ gnb_ue_contexts' \in [UEs -> {None, KGNB}]
            /\ \A u \in UEs : NoneOr(gnb_ue_contexts[u], KGNB)'
        BY <1>4, <3>1, <3>2 DEF GnbStoreContext, KeyInv, NoneOr
      <3>4. \A d \in Clients : CarriesKgnb(d)' => CarriesKgnb(d)
        BY <1>4, <2>1 DEF GnbStoreContext, Goes, CarriesKgnb
      <3> QED BY <1>4, <3>3, <3>4 DEF GnbStoreContext, KeyInv, NoneOr
    <2>4. UpfInv'
      BY <1>4, <2>1, UpfFrame DEF GnbStoreContext, Goes
    <2> QED BY <2>2, <2>3, <2>4
  <1>5. CASE GnbStoreKey(c)
    <2>1. Goes(c, "gnb/ue_context_setup", {"keyed"})
      BY <1>5, GotoGoes DEF GnbStoreKey, Labels
    <2>2. AuthInv'
      BY <1>5, <2>1, AuthFrame DEF GnbStoreKey, Goes
    <2>3. KeyInv'
      <3>1. k_gnb[c] = KGNB /\ authenticated # {}
        BY <1>5 DEF GnbStoreKey, KeyInv, CarriesKgnb
      <3>2. \A d \in Clients : CarriesKgnb(d)' => CarriesKgnb(d)
        BY <1>5, <2>1 DEF GnbStoreKey, Goes, CarriesKgnb
      <3> QED BY <1>5, <3>1, <3>2 DEF GnbStoreKey, KeyInv, NoneOr
    <2>4. UpfInv'
      BY <1>5, <2>1, UpfFrame DEF GnbStoreKey, Goes
    <2> QED BY <2>2, <2>3, <2>4
  <1>6. CASE GnbCalculateMac(c)
    <2>1. Goes(c, "gnb/ue_context_setup", {"err"})
      BY <1>6, GotoGoes DEF GnbCalculateMac, Labels
    <2>2. AuthInv'
      BY <1>6, <2>1, AuthFrame DEF GnbCalculateMac, Goes
    <2>3. KeyInv'
      BY <1>6, <2>1, KeyFrame DEF GnbCalculateMac, Goes, CarriesKgnb
    <2>4. UpfInv'
      BY <1>6, <2>1, UpfFrame DEF GnbCalculateMac, Goes
    <2> QED BY <2>2, <2>3, <2>4
  <1>7. CASE GnbNotFound(c)
    <2>1. Goes(c, "gnb/security_command", {"err"})
      BY <1>7, GotoGoes DEF GnbNotFound, Labels
    <2>2. AuthInv'
      BY <1>7, <2>1, AuthFrame DEF GnbNotFound, Goes
    <2>3. KeyInv'
      BY <1>7, <2>1, KeyFrame DEF GnbNotFound, Goes, CarriesKgnb
    <2>4. UpfInv'
      BY <1>7, <2>1, UpfFrame DEF GnbNotFound, Goes
    <2> QED BY <2>2, <2>3, <2>4
  <1> QED BY <1>1, <1>2, <1>3, <1>4, <1>5, <1>6, <1>7 DEF GnbStep

(***************************************************************************)
(* Every step of an SMF thread (session_establishment) keeps the           *)
(* invariant.                                                              *)
(***************************************************************************)
LEMMA SmfKeeps ==
    ASSUME HttpInv, Rest, NEW c \in Clients, Smf(c)
    PROVE  Rest'
  <1> USE RouteNames DEF Smf, ausfVars, amfVars, gnbVars, smfVars, Rest
  <1>1. CASE SmfStoreSession(c)
    <2>1. Goes(c, "smf/session_establishment", {"stored"})
      BY <1>1, GotoGoes DEF SmfStoreSession, Labels
    <2>2. AuthInv'
      BY <1>1, <2>1, AuthFrame DEF SmfStoreSession, Goes
    <2>3. KeyInv'
      <3>1. derive_key(k_gnb[c], "UP_ENC") = KUP /\ authenticated # {}
        BY <1>1, Collapse DEF SmfStoreSession, KeyInv, CarriesKgnb
      <3>2. ueOf(c) \in UEs
        BY <1>1 DEF SmfStoreSession, HttpInv, Request, ueOf
      <3>3. /\ sessions' \in [UEs -> {None, KUP}]
            /\ \A u \in UEs : NoneOr(sessions[u], KUP)'
        BY <1>1, <3>1, <3>2 DEF SmfStoreSession, KeyInv, NoneOr
      <3>4. \A d \in Clients : CarriesKgnb(d)' => CarriesKgnb(d)
        BY <1>1, <2>1 DEF SmfStoreSession, Goes, CarriesKgnb
      <3> QED BY <1>1, <3>3, <3>4 DEF SmfStoreSession, KeyInv, NoneOr
    <2>4. UpfInv'
      BY <1>1, <2>1, UpfFrame DEF SmfStoreSession, Goes
    <2> QED BY <2>2, <2>3, <2>4
  <1>2. CASE SmfConfigureUpf(c)
    <2>1. Moves(c, "smf/session_establishment", {"upf", "err"}, "upf/configure")
      BY <1>2, PostMoves DEF SmfConfigureUpf, NFs, Labels
    <2>2. AuthInv'
      BY <1>2, <2>1, AuthFrame DEF SmfConfigureUpf, Moves
    <2>3. KeyInv'
      BY <1>2, <2>1, KeyFrame DEF SmfConfigureUpf, Moves, CarriesKgnb
    <2>4. UpfInv'
      BY <1>2, <2>1, UpfFrame DEF SmfConfigureUpf, Moves, Owning
    <2> QED BY <2>2, <2>3, <2>4
  <1>3. CASE SmfReturn(c)
    <2>1. Goes(c, "smf/session_establishment", {"ok", "err"})
      BY <1>3, GotoGoes DEF SmfReturn, Labels
    <2>2. AuthInv'
      BY <1>3, <2>1, AuthFrame DEF SmfReturn, Goes
    <2>3. KeyInv'
      BY <1>3, <2>1, KeyFrame DEF SmfReturn, Goes, CarriesKgnb
    <2>4. UpfInv'
      BY <1>3, <2>1, UpfFrame DEF SmfReturn, Goes
    <2> QED BY <2>2, <2>3, <2>4
  <1> QED BY <1>1, <1>2, <1>3 DEF SmfStep

(***************************************************************************)
(* A command of create_gtp_interface that fails gives up the interface.    *)
(***************************************************************************)
LEMMA FailureKeepsUpf ==
    ASSUME HttpInv, UpfInv, NEW c \in Clients, CommandFailed(c)
    PROVE  UpfInv'
  <1>1. Goes(c, "upf/configure", {"err"})
    BY GotoGoes, RouteNames DEF CommandFailed, Labels
  <1> QED BY <1>1, UpfFrame, RouteNames DEF CommandFailed, Goes, Owning

(***************************************************************************)
(* Every step of a UPF thread (configure) keeps the invariant: only the    *)
(* thread whose ip link add succeeded goes on to the NAT rule.             *)
(***************************************************************************)
LEMMA UpfKeeps ==
    ASSUME HttpInv, Rest, NEW c \in Clients, Upf(c)
    PROVE  Rest'
  <1> USE RouteNames DEF Upf, ausfVars, amfVars, gnbVars, smfVars, Rest
  <1>1. \E S \in SUBSET Labels : Goes(c, "upf/configure", S)
    BY GotoGoes DEF UpfStep, UpfModprobe, UpfLinkAdd, UpfAddrAdd, UpfLinkSetUp, UpfNat,
                    CommandFailed, Labels
  <1>2. req' = req
    BY DEF UpfStep, UpfModprobe, UpfLinkAdd, UpfAddrAdd, UpfLinkSetUp, UpfNat
  <1>3. AuthInv'
    BY <1>1, <1>2, AuthFrame DEF Goes
  <1>4. KeyInv'
    BY <1>1, KeyFrame DEF Goes, CarriesKgnb
  <1>5. UpfInv'
    <2>1. CASE UpfModprobe(c)
      <3>1. (Goes(c, "upf/configure", {"link"}) /\ UNCHANGED upfVars) \/ CommandFailed(c)
        BY <2>1, GotoGoes DEF UpfModprobe, Labels
      <3> QED BY <3>1, FailureKeepsUpf, UpfFrame DEF Goes, Owning
    <2>2. CASE UpfLinkAdd(c)
      <3>1. CASE CommandFailed(c)
        BY <3>1, FailureKeepsUpf
      <3>2. CASE ~CommandFailed(c)
        <4>1. gtp0 = "absent" /\ gtp0' = "link" /\ nat' = nat
          BY <2>2, <3>2 DEF UpfLinkAdd
        <4>2. Goes(c, "upf/configure", {"addr"})
          BY <2>2, <3>2, GotoGoes DEF UpfLinkAdd, Labels
        <4>3. \A d \in Clients : pc[d]["upf/configure"] \notin Owning
          BY <4>1 DEF UpfInv, Owning
        <4> QED BY <4>1, <4>2, <4>3 DEF UpfInv, Goes, Owning
      <3> QED BY <3>1, <3>2
    <2>3. CASE UpfAddrAdd(c)
      <3>1. CASE CommandFailed(c)
        BY <3>1, FailureKeepsUpf
      <3>2. CASE ~CommandFailed(c)
        <4>1. gtp0' = "addr" /\ nat' = nat /\ pc[c]["upf/configure"] = "addr"
          BY <2>3, <3>2 DEF UpfAddrAdd
        <4>2. Goto(c, "upf/configure", "set_up")
          BY <2>3, <3>2 DEF UpfAddrAdd
        <4>3. Goes(c, "upf/configure", {"set_up"}) /\ pc'[c]["upf/configure"] = "set_up"
          BY <4>2, GotoGoes, GotoLands DEF Labels
        <4>4. \A d \in Clients : d # c => pc'[d]["upf/configure"] \notin Owning
          BY <4>1, <4>3 DEF UpfInv, Owning, Goes
        <4> QED BY <4>1, <4>3, <4>4 DEF UpfInv, Owning
      <3> QED BY <3>1, <3>2
    <2>4. CASE UpfLinkSetUp(c)
      <3>1. CASE CommandFailed(c)
        BY <3>1, FailureKeepsUpf
      <3>2. CASE ~CommandFailed(c)
        <4>1. gtp0' = "up" /\ nat' = nat /\ pc[c]["upf/configure"] = "set_up"
          BY <2>4, <3>2 DEF UpfLinkSetUp
        <4>2. Goto(c, "upf/configure", "nat")
          BY <2>4, <3>2 DEF UpfLinkSetUp
        <4>3. Goes(c, "upf/configure", {"nat"}) /\ pc'[c]["upf/configure"] = "nat"
          BY <4>2, GotoGoes, GotoLands DEF Labels
        <4>4. \A d \in Clients : d # c => pc'[d]["upf/configure"] \notin Owning
          BY <4>1, <4>3 DEF UpfInv, Owning, Goes
        <4> QED BY <4>1, <4>3, <4>4 DEF UpfInv, Owning
      <3> QED BY <3>1, <3>2
    <2>5. CASE UpfNat(c)
      <3>1. gtp0' = gtp0 /\ nat' \in {nat, nat + 1} /\ pc[c]["upf/configure"] = "nat"
        BY <2>5 DEF UpfNat
      <3>2. Goto(c, "upf/configure", "ok")
        BY <2>5 DEF UpfNat
      <3>3. Goes(c, "upf/configure", {"ok"})
        BY <3>2, GotoGoes DEF Labels
      <3>4. pc'[c]["upf/configure"] = "ok"
        BY <3>2, GotoLands DEF Labels
      <3>5. \A d \in Clients : pc'[d]["upf/configure"] \notin Owning
        BY <3>1, <3>3, <3>4 DEF UpfInv, Owning, Goes
      <3>6. gtp0 = "up" /\ nat = 0
        BY <3>1 DEF UpfInv
      <3> QED BY <3>1, <3>5, <3>6 DEF UpfInv, Owning
    <2> QED BY <2>1, <2>2, <2>3, <2>4, <2>5 DEF UpfStep
  <1> QED BY <1>3, <1>4, <1>5

(***************************************************************************)
(* A new request and an accepted connection keep the invariant.            *)
(***************************************************************************)
LEMMA HttpKeeps ==
    ASSUME HttpInv, Rest, NEW c \in Clients, Http(c)
    PROVE  Rest'
  <1> USE DEF Http, nfVars, ausfVars, amfVars, gnbVars, smfVars, Rest
  <1>1. CASE ClientPost(c)
    <2>1. PICK h \in ClientRoutes, u \in UEs :
             /\ req' = [req EXCEPT ![c] = [route |-> h, ue |-> u]]
             /\ Goto(c, h, "queued")
      BY <1>1 DEF ClientPost
    <2>2. Goes(c, h, {"queued"})
      BY <2>1, GotoGoes, RouteNames DEF Labels
    <2>3. \A d \in Clients : d # c => req'[d] = req[d]
      BY <2>1 DEF HttpInv
    <2>4. h \in {"gnb/registration", "gnb/security_complete"}
      BY DEF ClientRoutes
    <2>5. CASE req[c] \in Request
      BY <1>1, <2>5, HttpAssumption DEF ClientPost
    <2>6. CASE req[c] \notin Request
      <3>1. \A f \in Routes : pc[c][f] = "idle"
        BY <2>6 DEF HttpInv
      <3>2. AuthInv'
        BY <1>1, <2>2, <2>3, <2>4, <3>1, AuthFrame, RouteNames DEF Goes
      <3>3. KeyInv'
        BY <1>1, <2>2, <2>4, KeyFrame, RouteNames DEF Goes, CarriesKgnb
      <3>4. UpfInv'
        BY <1>1, <2>2, <2>4, UpfFrame, RouteNames DEF Goes
      <3> QED BY <3>2, <3>3, <3>4
    <2> QED BY <2>5, <2>6
  <1>2. CASE \E n \in NFs : Accept(c, n)
    <2>1. PICK n \in NFs : Accept(c, n)
      BY <1>2
    <2>2. PICK h \in RoutesOf(n) : pc[c][h] = "queued" /\ Goto(c, h, "start")
      BY <2>1 DEF Accept
    <2>3. h \in Routes
      BY RouteNames
    <2>4. Goes(c, h, {"start"})
      BY <2>2, <2>3, GotoGoes DEF Labels
    <2>5. \A d \in Clients, f \in Routes :
             \/ pc'[d][f] = pc[d][f]
             \/ pc'[d][f] = "start" /\ pc[d][f] = "queued"
      BY <2>2, <2>4 DEF Goes
    <2>6. AuthInv'
      BY <2>1, <2>5, AuthFrame, RouteNames DEF Accept
    <2>7. KeyInv'
      BY <2>1, <2>5, KeyFrame, RouteNames DEF Accept, CarriesKgnb
    <2>8. UpfInv'
      BY <2>1, <2>5, UpfFrame, RouteNames DEF Accept, Owning
    <2> QED BY <2>6, <2>7, <2>8
  <1> QED BY <1>1, <1>2

(***************************************************************************)
(* A container that starts or dies keeps the invariant: what it forgets is *)
(* back to what Init gives it.                                             *)
(***************************************************************************)
LEMMA BootKeeps ==
    ASSUME Rest, NEW n \in NFs, Boot(n)
    PROVE  Rest'
  <1> USE DEF Boot, Listen, nfVars, ausfVars, amfVars, gnbVars, smfVars, Rest
  <1>1. AuthInv'
    BY AuthFrame
  <1>2. KeyInv'
    BY KeyFrame DEF CarriesKgnb
  <1>3. UpfInv'
    BY UpfFrame
  <1> QED BY <1>1, <1>2, <1>3

(***************************************************************************)
(* A crash empties one network function and ends its frames; the frames of *)
(* the others, and the keys they carry, stay.                              *)
(***************************************************************************)
LEMMA CrashKeeps ==
    ASSUME HttpInv, Rest, NEW n \in NFs, Crash(n)
    PROVE  Rest'
  <1> USE DEF Rest
  <1>1. \A d \in Clients, f \in Routes :
           \/ pc'[d][f] = pc[d][f]
           \/ pc'[d][f] = "dead" /\ pc[d][f] # "idle"
    BY DEF Crash, Die, Running
  <1>2. req' = req /\ authenticated' = authenticated /\ k_gnb' = k_gnb
    BY DEF Crash, Die, AmfReset, amfVars
  <1>3. AuthInv'
    <2>1. \/ amf_ue_contexts' = amf_ue_contexts
          \/ amf_ue_contexts' = [u \in UEs |-> None]
      BY DEF Crash, AmfReset, amfVars
    <2>2. \/ authentication_vectors' = authentication_vectors
          \/ authentication_vectors' = [u \in UEs |-> None]
      BY DEF Crash, AusfReset, ausfVars
    <2> QED BY <1>1, <1>2, <2>1, <2>2, RouteNames DEF AuthInv, ueOf
  <1>4. KeyInv'
    <2>1. k_amf' = k_amf \/ k_amf' = None
      BY DEF Crash, AmfReset, amfVars
    <2>2. /\ gnb_k_gnb' = gnb_k_gnb \/ gnb_k_gnb' = None
          /\ gnb_ue_contexts' = gnb_ue_contexts \/ gnb_ue_contexts' = [u \in UEs |-> None]
      BY DEF Crash, GnbReset, gnbVars
    <2>3. sessions' = sessions \/ sessions' = [u \in UEs |-> None]
      BY DEF Crash, SmfReset, smfVars
    <2>4. \A d \in Clients : CarriesKgnb(d)' => CarriesKgnb(d)
      BY <1>1, RouteNames DEF CarriesKgnb
    <2> QED BY <1>2, <2>1, <2>2, <2>3, <2>4 DEF KeyInv, NoneOr
  <1>5. UpfInv'
    <2>1. CASE n = "upf"
      <3>1. \A d \in Clients : pc'[d]["upf/configure"] \notin Owning
        BY <2>1, RouteNames DEF Crash, Die, Running, Ended, RoutesOf, UpfRoutes, Owning
      <3>2. gtp0' = "absent" /\ nat' = 0
        BY <2>1 DEF Crash, UpfReset
      <3> QED BY <3>1, <3>2 DEF UpfInv, Owning
    <2>2. CASE n # "upf"
      BY <1>1, <2>2, UpfFrame, RouteNames DEF Crash, Owning
    <2> QED BY <2>1, <2>2
  <1> QED BY <1>3, <1>4, <1>5
-----------------------------------------------------------------------------
(***************************************************************************)
(* IndInv is inductive.                                                    *)
(***************************************************************************)
LEMMA InitIndInv == Init => IndInv
  <1> SUFFICES ASSUME Init PROVE IndInv
    OBVIOUS
  <1> USE RouteNames DEF Init
  <1>1. HttpInv
    BY HttpAssumption DEF HttpInit, HttpInv, Labels
  <1>2. AuthInv
    BY DEF HttpInit, AusfInit, AmfInit, AuthInv
  <1>3. KeyInv
    BY DEF HttpInit, AmfInit, GnbInit, SmfInit, KeyInv, NoneOr, CarriesKgnb
  <1>4. UpfInv
    BY DEF HttpInit, UpfInit, UpfInv, Owning
  <1> QED BY <1>1, <1>2, <1>3, <1>4 DEF IndInv

(***************************************************************************)
(* Every step of the system keeps the invariant.                           *)
(***************************************************************************)
LEMMA NextIndInv == IndInv /\ [Next]_vars => IndInv'
  <1> SUFFICES ASSUME IndInv, [Next]_vars PROVE IndInv'
    OBVIOUS
  <1> USE DEF IndInv, Rest
  <1>1. ASSUME NEW c \in Clients, Http(c) PROVE IndInv'
    BY <1>1, SubstrateKeepsHttp, HttpKeeps
  <1>2. ASSUME NEW c \in Clients, Thread(c) PROVE IndInv'
    <2>1. HttpInv'
      BY <1>2, ThreadKeepsHttp
    <2>2. Rest'
      BY <1>2, UdmKeeps, AusfKeeps, AmfKeeps, GnbKeeps, SmfKeeps, UpfKeeps DEF Thread
    <2> QED BY <2>1, <2>2
  <1>3. ASSUME NEW n \in NFs, Boot(n) PROVE IndInv'
    BY <1>3, SubstrateKeepsHttp, BootKeeps
  <1>4. ASSUME NEW n \in NFs, Crash(n) PROVE IndInv'
    BY <1>4, SubstrateKeepsHttp, CrashKeeps
  <1>5. CASE UNCHANGED vars
    BY <1>5 DEF vars, nfVars, httpVars, ausfVars, amfVars, gnbVars, smfVars, upfVars,
                HttpInv, AuthInv, KeyInv, UpfInv, NoneOr, CarriesKgnb, ueOf
  <1> QED BY <1>1, <1>2, <1>3, <1>4, <1>5 DEF Next

(***************************************************************************)
(* IndInv holds in every reachable state.                                  *)
(***************************************************************************)
THEOREM Invariance == Spec => []IndInv
  BY InitIndInv, NextIndInv, PTL DEF Spec

(***************************************************************************)
(* Type correctness: the shared attributes only ever hold None or a key    *)
(* derived for some subscriber.                                            *)
(***************************************************************************)
THEOREM TypeCorrect == Spec => []TypeOK
  <1>1. IndInv => TypeOK
    <2> SUFFICES ASSUME IndInv PROVE TypeOK
      OBVIOUS
    <2>1. \A v : /\ NoneOr(v, KAMF) => v \in {None} \cup {KAmfOf(u) : u \in Subscribers}
                 /\ NoneOr(v, KGNB) => v \in {None} \cup {KgnbOf(u) : u \in Subscribers}
                 /\ NoneOr(v, KUP)  => v \in {None} \cup {KupOf(u) : u \in Subscribers}
      BY Collapse DEF IndInv, AuthInv, NoneOr
    <2>2. /\ k_amf \in {None} \cup {KAmfOf(u) : u \in Subscribers}
          /\ gnb_k_gnb \in {None} \cup {KgnbOf(u) : u \in Subscribers}
      BY <2>1 DEF IndInv, KeyInv
    <2>3. k_gnb \in [Clients -> {None} \cup {KgnbOf(u) : u \in Subscribers}]
      BY <2>1 DEF IndInv, KeyInv
    <2>4. gnb_ue_contexts \in [UEs -> {None} \cup {KgnbOf(u) : u \in Subscribers}]
      BY <2>1 DEF IndInv, KeyInv
    <2>5. sessions \in [UEs -> {None} \cup {KupOf(u) : u \in Subscribers}]
      BY <2>1 DEF IndInv, KeyInv
    <2> QED BY <2>2, <2>3, <2>4, <2>5 DEF TypeOK, IndInv, HttpInv, AuthInv, UpfInv, Request
  <1> QED BY <1>1, Invariance, PTL

(***************************************************************************)
(* What any network function holds for a subscriber is what that           *)
(* subscriber's own key leads to, for any interleaving of any number of    *)
(* registrations that share the AMF's one k_amf.                           *)
(***************************************************************************)
THEOREM KeysAgree == Spec => []KeyAgreement
  <1>1. IndInv => KeyAgreement
    BY Collapse DEF IndInv, AuthInv, KeyInv, NoneOr, KeyAgreement, get_auth_data, KAusfOf
  <1> QED BY <1>1, Invariance, PTL

-----------------------------------------------------------------------------
(***************************************************************************)
(* The AMF of the moment: it holds a context of a subscriber, and has held *)
(* it since it started, whenever it has a k_amf or is at work on a         *)
(* security complete.                                                      *)
(***************************************************************************)
HoldsContext == \E u \in Subscribers \cap UEs : amf_ue_contexts[u] # None

LifeInv ==
    /\ k_amf # None => HoldsContext
    /\ \A c \in Clients :
          /\ pc[c]["amf/registration"] = "stored" => HoldsContext
          /\ pc[c]["amf/security_complete"] \in {"context", "session"} => HoldsContext

\* In no chain does a frame of the AMF go on.
AmfRests ==
    \A d \in Clients :
        /\ \/ pc'[d]["amf/registration"] = pc[d]["amf/registration"]
           \/ pc'[d]["amf/registration"] \in {"queued", "start", "dead"}
        /\ \/ pc'[d]["amf/security_complete"] = pc[d]["amf/security_complete"]
           \/ pc'[d]["amf/security_complete"] \in {"queued", "start", "dead"}

(***************************************************************************)
(* LifeInv survives a step in which the AMF rests.                         *)
(***************************************************************************)
LEMMA LifeFrame ==
    ASSUME LifeInv, UNCHANGED <<amf_ue_contexts, k_amf>>, AmfRests
    PROVE  LifeInv'
  BY DEF LifeInv, HoldsContext, AmfRests

(***************************************************************************)
(* The AMF rests while a thread of another network function takes a step.  *)
(***************************************************************************)
LEMMA OthersRest ==
    ASSUME HttpInv, NEW c \in Clients, Udm(c) \/ Ausf(c) \/ Gnb(c) \/ Smf(c) \/ Upf(c)
    PROVE  UNCHANGED amfVars /\ AmfRests
  <1>1. UNCHANGED amfVars
    BY DEF Udm, Ausf, Gnb, Smf, Upf, nfVars
  <1>2. ASSUME NEW h \in Routes, h \notin AmfRoutes, NEW label \in Labels, Goto(c, h, label)
        PROVE  AmfRests
    <2>1. Goes(c, h, Labels)
      BY <1>2, GotoGoes
    <2> QED BY <1>2, <2>1, RouteNames DEF Goes, AmfRests, AmfRoutes
  <1>3. ASSUME NEW h \in Routes, h \notin AmfRoutes, NEW g \in Routes, h # g,
               NEW label \in Labels, NEW n \in NFs, Post(c, h, label, n, g)
        PROVE  AmfRests
    <2>1. Moves(c, h, {label, "err"}, g)
      BY <1>3, PostMoves
    <2> QED BY <1>3, <2>1, RouteNames DEF Moves, AmfRests, AmfRoutes
  <1>4. /\ "udm/auth_data" \in Routes /\ "udm/auth_data" \notin AmfRoutes
        /\ "ausf/authenticate" \in Routes /\ "ausf/authenticate" \notin AmfRoutes
        /\ "gnb/registration" \in Routes /\ "gnb/registration" \notin AmfRoutes
        /\ "gnb/security_complete" \in Routes /\ "gnb/security_complete" \notin AmfRoutes
        /\ "gnb/ue_context_setup" \in Routes /\ "gnb/ue_context_setup" \notin AmfRoutes
        /\ "gnb/security_command" \in Routes /\ "gnb/security_command" \notin AmfRoutes
        /\ "smf/session_establishment" \in Routes /\ "smf/session_establishment" \notin AmfRoutes
        /\ "upf/configure" \in Routes /\ "upf/configure" \notin AmfRoutes
        /\ "amf/registration" \in Routes /\ "amf/security_complete" \in Routes
    BY RouteNames DEF AmfRoutes
  <1>5. /\ "ok" \in Labels /\ "err" \in Labels /\ "udm" \in Labels /\ "amf" \in Labels
        /\ "stored" \in Labels /\ "keyed" \in Labels /\ "upf" \in Labels /\ "link" \in Labels
        /\ "addr" \in Labels /\ "set_up" \in Labels /\ "nat" \in Labels
    BY DEF Labels
  <1>6. CASE Udm(c)
    BY <1>1, <1>2, <1>4, <1>5, <1>6 DEF Udm, UdmAuthData
  <1>7. CASE Ausf(c)
    BY <1>2, <1>3, <1>4, <1>5, <1>7 DEF Ausf, AusfQueryUdm, AusfAnswer, NFs
  <1>8. CASE Gnb(c)
    <2>1. CASE GnbForward(c)
      BY <1>1, <1>3, <1>4, <1>5, <2>1 DEF GnbForward, NFs
    <2>2. CASE GnbRegistrationReturn(c) \/ GnbSecurityCompleteReturn(c)
      BY <1>1, <1>2, <1>4, <1>5, <2>2 DEF GnbRegistrationReturn, GnbSecurityCompleteReturn
    <2>3. CASE GnbStoreContext(c) \/ GnbStoreKey(c) \/ GnbCalculateMac(c) \/ GnbNotFound(c)
      BY <1>1, <1>2, <1>4, <1>5, <2>3 DEF GnbStoreContext, GnbStoreKey, GnbCalculateMac, GnbNotFound
    <2> QED BY <1>8, <2>1, <2>2, <2>3 DEF Gnb, GnbStep
  <1>9. CASE Smf(c)
    BY <1>2, <1>3, <1>4, <1>5, <1>9
    DEF Smf, SmfStep, SmfStoreSession, SmfConfigureUpf, SmfReturn, NFs
  <1>10. CASE Upf(c)
    BY <1>2, <1>4, <1>5, <1>10
    DEF Upf, UpfStep, UpfModprobe, UpfLinkAdd, UpfAddrAdd, UpfLinkSetUp, UpfNat, CommandFailed
  <1> QED BY <1>1, <1>6, <1>7, <1>8, <1>9, <1>10

(***************************************************************************)
(* The AMF derives k_amf after it has stored a context, and goes on with a *)
(* security complete only with a k_amf.                                    *)
(***************************************************************************)
LEMMA AmfKeepsLife ==
    ASSUME IndInv, LifeInv, NEW c \in Clients, Amf(c)
    PROVE  LifeInv'
  <1> USE RouteNames DEF Amf, IndInv
  <1>1. CASE AmfAuthenticate(c)
    <2>1. Moves(c, "amf/registration", {"ausf", "err"}, "ausf/authenticate")
      BY <1>1, PostMoves DEF AmfAuthenticate, NFs, Labels
    <2> QED BY <1>1, <2>1 DEF AmfAuthenticate, Moves, LifeInv, HoldsContext, amfVars
  <1>2. CASE AmfStoreContext(c)
    <2>1. CASE pc[c]["ausf/authenticate"] \in {"err", "dead"}
      <3>1. Goes(c, "amf/registration", {"err"}) /\ UNCHANGED <<amf_ue_contexts, k_amf>>
        BY <1>2, <2>1, GotoGoes DEF AmfStoreContext, Labels
      <3> QED BY <3>1 DEF Goes, LifeInv, HoldsContext
    <2>2. CASE pc[c]["ausf/authenticate"] = "ok"
      <3>1. ueOf(c) \in UEs /\ ueOf(c) \in Subscribers
        BY <1>2, <2>2 DEF AmfStoreContext, HttpInv, AuthInv, ueOf, Request
      <3>2. amf_ue_contexts' = [amf_ue_contexts EXCEPT ![ueOf(c)] = get_auth_data(ueOf(c))]
        BY <1>2, <2>2 DEF AmfStoreContext
      <3>3. amf_ue_contexts'[ueOf(c)] # None
        BY <3>1, <3>2, UdmAssumption DEF AuthInv
      <3>4. HoldsContext'
        BY <3>1, <3>3 DEF HoldsContext
      <3> QED BY <3>4 DEF LifeInv
    <2> QED BY <1>2, <2>1, <2>2 DEF AmfStoreContext
  <1>3. CASE AmfDeriveKamf(c)
    <2>1. Goes(c, "amf/registration", {"keyed"})
      BY <1>3, GotoGoes DEF AmfDeriveKamf, Labels
    <2> QED BY <1>3, <2>1 DEF AmfDeriveKamf, Goes, LifeInv, HoldsContext
  <1>4. CASE AmfSendSecurityCommand(c)
    <2>1. Moves(c, "amf/registration", {"command", "err"}, "gnb/security_command")
      BY <1>4, PostMoves DEF AmfSendSecurityCommand, NFs, Labels
    <2> QED BY <1>4, <2>1 DEF AmfSendSecurityCommand, Moves, LifeInv, HoldsContext, amfVars
  <1>5. CASE AmfRegistrationReturn(c)
    <2>1. Goes(c, "amf/registration", {"ok", "err"})
      BY <1>5, GotoGoes DEF AmfRegistrationReturn, Labels
    <2> QED BY <1>5, <2>1 DEF AmfRegistrationReturn, Goes, LifeInv, HoldsContext, amfVars
  <1>6. CASE AmfSetupContext(c)
    <2>1. CASE k_amf = None
      <3>1. Goes(c, "amf/security_complete", {"err"})
        BY <1>6, <2>1, GotoGoes DEF AmfSetupContext, Labels
      <3> QED BY <1>6, <3>1 DEF AmfSetupContext, Goes, LifeInv, HoldsContext
    <2>2. CASE k_amf # None
      <3>1. HoldsContext' /\ UNCHANGED k_amf
        BY <1>6, <2>2 DEF AmfSetupContext, LifeInv, HoldsContext
      <3> QED BY <3>1 DEF LifeInv
    <2> QED BY <2>1, <2>2
  <1>7. CASE AmfNotifySmf(c)
    <2>1. HoldsContext' /\ UNCHANGED k_amf
      BY <1>7 DEF AmfNotifySmf, LifeInv, HoldsContext, amfVars
    <2> QED BY <2>1 DEF LifeInv
  <1>8. CASE AmfSecurityCompleteReturn(c)
    <2>1. Goes(c, "amf/security_complete", {"ok", "err"})
      BY <1>8, GotoGoes DEF AmfSecurityCompleteReturn, Labels
    <2> QED BY <1>8, <2>1 DEF AmfSecurityCompleteReturn, Goes, LifeInv, HoldsContext, amfVars
  <1> QED BY <1>1, <1>2, <1>3, <1>4, <1>5, <1>6, <1>7, <1>8 DEF AmfStep

(***************************************************************************)
(* Every step keeps LifeInv; a crash of the AMF ends its frames with its   *)
(* contexts and its k_amf.                                                 *)
(***************************************************************************)
LEMMA NextLifeInv == IndInv /\ LifeInv /\ [Next]_vars => LifeInv'
  <1> SUFFICES ASSUME IndInv, LifeInv, [Next]_vars PROVE LifeInv'
    OBVIOUS
  <1>0. HttpInv
    BY DEF IndInv
  <1>1. ASSUME NEW c \in Clients, Http(c) PROVE LifeInv'
    <2>1. UNCHANGED amfVars
      BY <1>1 DEF Http, nfVars
    <2>2. CASE ClientPost(c)
      <3>1. PICK h \in ClientRoutes : Goto(c, h, "queued")
        BY <2>2 DEF ClientPost
      <3>2. Goes(c, h, {"queued"})
        BY <1>0, <3>1, GotoGoes, RouteNames DEF Labels
      <3>3. AmfRests
        BY <3>2, RouteNames DEF Goes, AmfRests
      <3> QED BY <2>1, <3>3, LifeFrame DEF amfVars
    <2>3. ASSUME NEW n \in NFs, Accept(c, n) PROVE LifeInv'
      <3>1. PICK h \in RoutesOf(n) : Goto(c, h, "start")
        BY <2>3 DEF Accept
      <3>2. Goes(c, h, {"start"})
        BY <1>0, <3>1, GotoGoes, RouteNames DEF Labels
      <3>3. AmfRests
        BY <3>2, RouteNames DEF Goes, AmfRests
      <3> QED BY <2>1, <3>3, LifeFrame DEF amfVars
    <2> QED BY <1>1, <2>2, <2>3 DEF Http
  <1>2. ASSUME NEW c \in Clients, Thread(c) PROVE LifeInv'
    <2>1. CASE Amf(c)
      BY <2>1, AmfKeepsLife
    <2>2. CASE ~Amf(c)
      BY <1>0, <1>2, <2>2, OthersRest, LifeFrame DEF Thread, amfVars
    <2> QED BY <2>1, <2>2
  <1>3. ASSUME NEW n \in NFs, Boot(n) PROVE LifeInv'
    BY <1>3, LifeFrame DEF Boot, Listen, nfVars, amfVars, AmfRests
  <1>4. ASSUME NEW n \in NFs, Crash(n) PROVE LifeInv'
    <2>1. \A d \in Clients, f \in Routes :
             pc'[d][f] = IF f \in RoutesOf(n) /\ Running(pc[d][f]) THEN "dead" ELSE pc[d][f]
      BY <1>4 DEF Crash, Die
    <2>2. CASE n = "amf"
      <3>1. k_amf' = None
        BY <1>4, <2>2 DEF Crash, AmfReset
      <3>2. \A d \in Clients :
               /\ pc'[d]["amf/registration"] # "stored"
               /\ pc'[d]["amf/security_complete"] \notin {"context", "session"}
        BY <2>1, <2>2, RouteNames DEF RoutesOf, AmfRoutes, Running, Ended
      <3> QED BY <3>1, <3>2 DEF LifeInv
    <2>3. CASE n # "amf"
      <3>1. AmfRests
        BY <2>1, RouteNames DEF AmfRests
      <3> QED BY <1>4, <2>3, <3>1, LifeFrame DEF Crash, amfVars
    <2> QED BY <2>2, <2>3
  <1>5. CASE UNCHANGED vars
    BY <1>5, LifeFrame DEF vars, nfVars, amfVars, httpVars, AmfRests
  <1> QED BY <1>1, <1>2, <1>3, <1>4, <1>5 DEF Next

(***************************************************************************)
(* An AMF carries out a security complete only while it holds the context  *)
(* of a subscriber it has authenticated since it started, and no UE        *)
(* context and no session exists before an authentication: for any number  *)
(* of clients and crashes.                                                 *)
(***************************************************************************)
THEOREM AuthenticationFirst == Spec => []NothingBeforeAuthentication
  <1>1. Init => LifeInv
    BY RouteNames DEF Init, HttpInit, AmfInit, LifeInv
  <1>2. IndInv /\ LifeInv => NothingBeforeAuthentication
    BY DEF IndInv, AuthInv, KeyInv, NoneOr, LifeInv, HoldsContext, NothingBeforeAuthentication
  <1> QED BY <1>1, <1>2, NextLifeInv, Invariance, PTL DEF Spec

(***************************************************************************)
(* Only subscribers get an authentication context in the AMF.              *)
(***************************************************************************)
THEOREM SubscribersOnly == Spec => []OnlySubscribersAuthenticated
  <1>1. IndInv => OnlySubscribersAuthenticated
    BY DEF IndInv, AuthInv, OnlySubscribersAuthenticated
  <1> QED BY <1>1, Invariance, PTL

(***************************************************************************)
(* A registration answered with JSON was authenticated.                    *)
(***************************************************************************)
THEOREM AnswersTruthful == Spec => []RegistrationAnswerTruthful
  <1>1. IndInv => RegistrationAnswerTruthful
    BY DEF IndInv, AuthInv, RegistrationAnswerTruthful
  <1> QED BY <1>1, Invariance, PTL

(***************************************************************************)
(* At most one MASQUERADE rule, behind an interface that is up, for any    *)
(* number of concurrent /configure requests.                               *)
(***************************************************************************)
THEOREM NatOnce == Spec => []NatOnceBehindGtp
  <1>1. IndInv => NatOnceBehindGtp
    BY DEF IndInv, UpfInv, NatOnceBehindGtp
  <1> QED BY <1>1, Invariance, PTL
=============================================================================
