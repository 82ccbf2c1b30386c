--------------------------------- MODULE Gnb ---------------------------------
(***************************************************************************)
(* The gNB: POST /registration, POST /security_complete (both from the UE) *)
(* and POST /ue_context_setup (from the AMF).  Any other path is a 404.    *)
(***************************************************************************)
EXTENDS Amf

VARIABLES
    gnb_ue_contexts,  \* GNB.ue_contexts: per UE the k_gnb of its context, or None
    gnb_k_gnb         \* GNB.k_gnb, one for all UEs

gnbVars == <<gnb_ue_contexts, gnb_k_gnb>>

\* handle_registration and security_complete forward the request to the AMF.
GnbForward(c) ==
    /\ \/ /\ pc[c]["gnb/registration"] = "start"
          /\ Post(c, "gnb/registration", "amf", "amf", "amf/registration")
       \/ /\ pc[c]["gnb/security_complete"] = "start"
          /\ Post(c, "gnb/security_complete", "amf", "amf", "amf/security_complete")
    /\ UNCHANGED <<up, req, crashes, gnbVars>>

\* A plausible slip: the AMF's answer not parsed, so an error page is no error.
GnbRegistrationReturnUnparsed(c) ==
    /\ pc[c]["gnb/registration"] = "amf"
    /\ Returned(c, "amf/registration")
    /\ Goto(c, "gnb/registration", IF pc[c]["amf/registration"] = "dead" THEN "err" ELSE "ok")
    /\ UNCHANGED <<up, req, crashes, gnbVars>>

\* return response.json(): raises on the AMF's error page.
GnbRegistrationReturn(c) ==
    /\ pc[c]["gnb/registration"] = "amf"
    /\ Returned(c, "amf/registration")
    /\ Goto(c, "gnb/registration", IF pc[c]["amf/registration"] = "ok" THEN "ok" ELSE "err")
    /\ UNCHANGED <<up, req, crashes, gnbVars>>

\* security_complete does not look at the answer.
GnbSecurityCompleteReturn(c) ==
    /\ pc[c]["gnb/security_complete"] = "amf"
    /\ Returned(c, "amf/security_complete")
    /\ Goto(c, "gnb/security_complete",
            IF pc[c]["amf/security_complete"] = "dead" THEN "err" ELSE "ok")
    /\ UNCHANGED <<up, req, crashes, gnbVars>>

(***************************************************************************)
(* handle_ue_context_setup: two assignments, then the RRC keys, then       *)
(* calculate_mac, whose hash(...)[:8] subscripts an int: TypeError.  The   *)
(* request to the UE after it is never made and the answer is a 500.       *)
(***************************************************************************)
GnbStoreContext(c) ==
    /\ pc[c]["gnb/ue_context_setup"] = "start"
    /\ gnb_ue_contexts' = [gnb_ue_contexts EXCEPT ![ueOf(c)] = k_gnb[c]]
    /\ Goto(c, "gnb/ue_context_setup", "stored")
    /\ UNCHANGED <<up, req, crashes, gnb_k_gnb>>

GnbStoreKey(c) ==
    /\ pc[c]["gnb/ue_context_setup"] = "stored"
    /\ gnb_k_gnb' = k_gnb[c]
    /\ Goto(c, "gnb/ue_context_setup", "keyed")
    /\ UNCHANGED <<up, req, crashes, gnb_ue_contexts>>

GnbCalculateMac(c) ==
    /\ pc[c]["gnb/ue_context_setup"] = "keyed"
    /\ Goto(c, "gnb/ue_context_setup", "err")
    /\ UNCHANGED <<up, req, crashes, gnbVars>>

\* No @app.route('/security_command'): Flask answers 404.
GnbNotFound(c) ==
    /\ pc[c]["gnb/security_command"] = "start"
    /\ Goto(c, "gnb/security_command", "err")
    /\ UNCHANGED <<up, req, crashes, gnbVars>>

GnbStep(c) ==
    \/ GnbForward(c) \/ GnbRegistrationReturn(c) \/ GnbSecurityCompleteReturn(c)
    \/ GnbStoreContext(c) \/ GnbStoreKey(c) \/ GnbCalculateMac(c) \/ GnbNotFound(c)

GnbInit ==
    /\ gnb_ue_contexts = [u \in UEs |-> None]
    /\ gnb_k_gnb = None

\* GNB.__init__ again
GnbReset ==
    /\ gnb_ue_contexts' = [u \in UEs |-> None]
    /\ gnb_k_gnb' = None
=============================================================================
