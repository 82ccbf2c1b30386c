--------------------------------- MODULE Amf ---------------------------------
(***************************************************************************)
(* The AMF: POST /registration and POST /security_complete.  The AMF       *)
(* object is one per process and its k_amf is one for all UEs: every       *)
(* handler thread reads and writes the same attribute.                     *)
(***************************************************************************)
EXTENDS Udm

VARIABLES
    amf_ue_contexts,  \* AMF.ue_contexts: per UE the k_ausf of the stored answer, or None
    k_amf,            \* AMF.k_amf, shared by all UEs
    k_gnb,            \* k_gnb[c]: the local k_gnb of handle_security_complete in chain c,
                      \* which is also the "k_gnb" of the requests it posts
    authenticated     \* history: the UEs whose authentication context was ever stored

amfVars == <<amf_ue_contexts, k_amf, k_gnb, authenticated>>

(***************************************************************************)
(* handle_registration.  It blocks in two calls, and its thread can be     *)
(* preempted between its assignments.                                      *)
(***************************************************************************)
AmfAuthenticate(c) ==
    /\ pc[c]["amf/registration"] = "start"
    /\ Post(c, "amf/registration", "ausf", "ausf", "ausf/authenticate")
    /\ UNCHANGED <<up, req, crashes, amfVars>>

\* self.ue_contexts[ue_id] = response.json(); an error page is no JSON, so
\* response.json() raises before the assignment.
AmfStoreContext(c) ==
    /\ pc[c]["amf/registration"] = "ausf"
    /\ \/ /\ pc[c]["ausf/authenticate"] \in {"err", "dead"}
          /\ Goto(c, "amf/registration", "err")
          /\ UNCHANGED <<amf_ue_contexts, authenticated>>
       \/ /\ pc[c]["ausf/authenticate"] = "ok"
          /\ amf_ue_contexts' = [amf_ue_contexts EXCEPT ![ueOf(c)] = get_auth_data(ueOf(c))]
          /\ authenticated' = authenticated \cup {ueOf(c)}
          /\ Goto(c, "amf/registration", "stored")
    /\ UNCHANGED <<up, req, crashes, k_amf, k_gnb>>

\* self.k_amf = self.derive_k_amf(response.json()['k_ausf'])
AmfDeriveKamf(c) ==
    /\ pc[c]["amf/registration"] = "stored"
    /\ k_amf' = derive_k_amf(get_auth_data(ueOf(c)))
    /\ Goto(c, "amf/registration", "keyed")
    /\ UNCHANGED <<up, req, crashes, amf_ue_contexts, k_gnb, authenticated>>

\* The NAS keys are derived and the NAS Security Mode Command is posted to
\* the gNB, which has no such route.
AmfSendSecurityCommand(c) ==
    /\ pc[c]["amf/registration"] = "keyed"
    /\ Post(c, "amf/registration", "command", "gnb", "gnb/security_command")
    /\ UNCHANGED <<up, req, crashes, amfVars>>

\* The answer to the command is not looked at.
AmfRegistrationReturn(c) ==
    /\ pc[c]["amf/registration"] = "command"
    /\ Returned(c, "gnb/security_command")
    /\ Goto(c, "amf/registration", IF pc[c]["gnb/security_command"] = "dead" THEN "err" ELSE "ok")
    /\ UNCHANGED <<up, req, crashes, amfVars>>

(***************************************************************************)
(* handle_security_complete                                                *)
(***************************************************************************)
\* k_gnb is derived from the k_amf of the moment; None[:10] raises
\* TypeError.  Then the context goes to the gNB.
AmfSetupContext(c) ==
    /\ pc[c]["amf/security_complete"] = "start"
    /\ \/ /\ k_amf = None
          /\ Goto(c, "amf/security_complete", "err")
          /\ UNCHANGED k_gnb
       \/ /\ k_amf # None
          /\ k_gnb' = [k_gnb EXCEPT ![c] = derive_key(k_amf, "K_gNB")]
          /\ Post(c, "amf/security_complete", "context", "gnb", "gnb/ue_context_setup")
    /\ UNCHANGED <<up, req, crashes, amf_ue_contexts, k_amf, authenticated>>

\* Whatever the gNB answered, the SMF is notified.
AmfNotifySmf(c) ==
    /\ pc[c]["amf/security_complete"] = "context"
    /\ \/ /\ pc[c]["gnb/ue_context_setup"] = "dead"
          /\ Goto(c, "amf/security_complete", "err")
       \/ /\ pc[c]["gnb/ue_context_setup"] \in {"ok", "err"}
          /\ Post(c, "amf/security_complete", "session", "smf", "smf/session_establishment")
    /\ UNCHANGED <<up, req, crashes, amfVars>>

\* Whatever the SMF answered, the registration is complete.
AmfSecurityCompleteReturn(c) ==
    /\ pc[c]["amf/security_complete"] = "session"
    /\ Returned(c, "smf/session_establishment")
    /\ Goto(c, "amf/security_complete",
            IF pc[c]["smf/session_establishment"] = "dead" THEN "err" ELSE "ok")
    /\ UNCHANGED <<up, req, crashes, amfVars>>

AmfStep(c) ==
    \/ AmfAuthenticate(c) \/ AmfStoreContext(c) \/ AmfDeriveKamf(c)
    \/ AmfSendSecurityCommand(c) \/ AmfRegistrationReturn(c)
    \/ AmfSetupContext(c) \/ AmfNotifySmf(c) \/ AmfSecurityCompleteReturn(c)

AmfInit ==
    /\ amf_ue_contexts = [u \in UEs |-> None]
    /\ k_amf = None
    /\ k_gnb = [c \in Clients |-> None]
    /\ authenticated = {}

\* A plausible slip: k_amf kept over a restart, and the contexts lost.
AmfResetKeyKept ==
    /\ amf_ue_contexts' = [u \in UEs |-> None]
    /\ UNCHANGED <<k_amf, k_gnb, authenticated>>

\* What a restarted AMF process has forgotten: AMF.__init__ again.
AmfReset ==
    /\ amf_ue_contexts' = [u \in UEs |-> None]
    /\ k_amf' = None
    /\ UNCHANGED <<k_gnb, authenticated>>
=============================================================================
