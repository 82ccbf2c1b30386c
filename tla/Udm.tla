--------------------------------- MODULE Udm ---------------------------------
(***************************************************************************)
(* The UDM: the subscriber database and POST /auth_data.  The handler      *)
(* keeps no state ("sqn" is never advanced); an unknown UE gets an         *)
(* ordinary JSON answer without a "k_ausf" field.                          *)
(***************************************************************************)
EXTENDS HttpFrames, KeyDerivation

\* The answer of UDM.get_auth_data: the "k_ausf" field, or None when there is none.
get_auth_data(u) == IF u \in Subscribers THEN derive_k_ausf(K[u]) ELSE None

\* A key is a string, and None is none.
ASSUME UdmAssumption == \A u \in Subscribers : get_auth_data(u) # None

UdmAuthData(c) ==
    /\ pc[c]["udm/auth_data"] = "start"
    /\ Goto(c, "udm/auth_data", "ok")
    /\ UNCHANGED <<up, req, crashes>>
=============================================================================
