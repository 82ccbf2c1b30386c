---------------------------- MODULE KeyDerivation ----------------------------
(***************************************************************************)
(* The key hierarchy of the group_key_mgmt network functions.              *)
(*                                                                         *)
(* Every key is a Python string, and every derivation formats the first    *)
(* ten characters of its parent into a new string:                         *)
(*     f"{key_name}_derived_from_{parent_key[:10]}"                        *)
(* A key is therefore the pair <<head, rest>>: head is its first ten       *)
(* characters and rest is what follows.  "<name>_derived_from_" is longer  *)
(* than ten characters for every name in the code, and the ten-character   *)
(* heads of those names differ, so the name itself stands for the head of  *)
(* a derived key and rest is the head of its parent.                       *)
(***************************************************************************)
CONSTANTS
    Subscribers,  \* the keys of SUBSCRIBER_DB: the UEs the UDM knows
    K             \* K[u] = <<head, rest>>, the permanent key "k" of subscriber u

ASSUME KAssumption ==
    /\ DOMAIN K = Subscribers
    /\ \A u \in Subscribers : K[u] = <<K[u][1], K[u][2]>>

\* A plausible slip: the slice [:10] forgotten, all of the parent kept.
Prefix10Whole(key) == key

\* parent_key[:10]
Prefix10(key) == key[1]

\* AMF.derive_key; GNB.derive_key and SMF.derive_key are the same function.
derive_key(parent_key, key_name) == <<key_name, Prefix10(parent_key)>>

\* UDM.derive_k_ausf
derive_k_ausf(k) == <<"K_AUSF", Prefix10(k)>>

\* AMF.derive_k_amf
derive_k_amf(k_ausf) == <<"K_AMF", Prefix10(k_ausf)>>

(***************************************************************************)
(* The keys that subscriber u's own permanent key leads to: what each      *)
(* network function should hold for u.                                     *)
(***************************************************************************)
KAusfOf(u) == derive_k_ausf(K[u])
KAmfOf(u)  == derive_k_amf(KAusfOf(u))
KgnbOf(u)  == derive_key(KAmfOf(u), "K_gNB")
KupOf(u)   == derive_key(KgnbOf(u), "UP_ENC")
=============================================================================
