-------------------------------- MODULE Ausf --------------------------------
(***************************************************************************)
(* The AUSF: POST /authenticate.                                           *)
(***************************************************************************)
EXTENDS Udm

VARIABLE authentication_vectors  \* per UE: None, or the UDM's answer as [k_ausf |-> ...]

ausfVars == <<authentication_vectors>>

\* authenticate, up to requests.post("udm/auth_data")
AusfQueryUdm(c) ==
    /\ pc[c]["ausf/authenticate"] = "start"
    /\ Post(c, "ausf/authenticate", "udm", "udm", "udm/auth_data")
    /\ UNCHANGED <<up, req, crashes, authentication_vectors>>

\* A plausible slip: auth_vector.get('k_ausf'), which does not raise.
AusfAnswerLenient(c) ==
    /\ pc[c]["ausf/authenticate"] = "udm"
    /\ Returned(c, "udm/auth_data")
    /\ \/ /\ pc[c]["udm/auth_data"] = "dead"
          /\ Goto(c, "ausf/authenticate", "err")
          /\ UNCHANGED authentication_vectors
       \/ /\ pc[c]["udm/auth_data"] # "dead"
          /\ authentication_vectors' = [authentication_vectors EXCEPT ![ueOf(c)] = [k_ausf |-> get_auth_data(ueOf(c))]]
          /\ Goto(c, "ausf/authenticate", "ok")
    /\ UNCHANGED <<up, req, crashes>>

\* The rest of authenticate.  The vector is stored before its 'k_ausf' is
\* looked up: for an unknown UE the lookup raises KeyError after the store.
AusfAnswer(c) ==
    /\ pc[c]["ausf/authenticate"] = "udm"
    /\ Returned(c, "udm/auth_data")
    /\ \/ /\ pc[c]["udm/auth_data"] = "dead"
          /\ Goto(c, "ausf/authenticate", "err")
          /\ UNCHANGED authentication_vectors
       \/ /\ pc[c]["udm/auth_data"] # "dead"
          /\ authentication_vectors' = [authentication_vectors EXCEPT ![ueOf(c)] = [k_ausf |-> get_auth_data(ueOf(c))]]
          /\ Goto(c, "ausf/authenticate", IF get_auth_data(ueOf(c)) = None THEN "err" ELSE "ok")
    /\ UNCHANGED <<up, req, crashes>>

AusfInit  == authentication_vectors = [u \in UEs |-> None]
AusfReset == authentication_vectors' = [u \in UEs |-> None]
=============================================================================
