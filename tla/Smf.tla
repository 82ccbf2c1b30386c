--------------------------------- MODULE Smf ---------------------------------
(***************************************************************************)
(* The SMF: POST /session_establishment.  Its three os.system calls act on *)
(* its own container, their results are ignored and nothing reads what     *)
(* they set up; the "ue_ip" it answers is read by nobody.                  *)
(***************************************************************************)
EXTENDS Amf

VARIABLE sessions   \* SMF.sessions: per UE the k_up_enc of its active session, or None

smfVars == <<sessions>>

\* A plausible slip: the session keeps K_gNB itself, nothing is derived.
SmfStoreSessionUnderived(c) ==
    /\ pc[c]["smf/session_establishment"] = "start"
    /\ sessions' = [sessions EXCEPT ![ueOf(c)] = k_gnb[c]]
    /\ Goto(c, "smf/session_establishment", "stored")
    /\ UNCHANGED <<up, req, crashes>>

\* The session is stored as "active" before the UPF is asked.
SmfStoreSession(c) ==
    /\ pc[c]["smf/session_establishment"] = "start"
    /\ sessions' = [sessions EXCEPT ![ueOf(c)] = derive_key(k_gnb[c], "UP_ENC")]
    /\ Goto(c, "smf/session_establishment", "stored")
    /\ UNCHANGED <<up, req, crashes>>

SmfConfigureUpf(c) ==
    /\ pc[c]["smf/session_establishment"] = "stored"
    /\ Post(c, "smf/session_establishment", "upf", "upf", "upf/configure")
    /\ UNCHANGED <<up, req, crashes, sessions>>

\* Whatever the UPF answered, the session is established.
SmfReturn(c) ==
    /\ pc[c]["smf/session_establishment"] = "upf"
    /\ Returned(c, "upf/configure")
    /\ Goto(c, "smf/session_establishment", IF pc[c]["upf/configure"] = "dead" THEN "err" ELSE "ok")
    /\ UNCHANGED <<up, req, crashes, sessions>>

SmfStep(c) == SmfStoreSession(c) \/ SmfConfigureUpf(c) \/ SmfReturn(c)

SmfInit  == sessions = [u \in UEs |-> None]
SmfReset == sessions' = [u \in UEs |-> None]
=============================================================================
