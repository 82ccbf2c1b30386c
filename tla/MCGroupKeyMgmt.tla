--------------------------- MODULE MCGroupKeyMgmt ---------------------------
(* A small instance: two subscribers whose permanent keys differ in their  *)
(* first ten characters, and a UE the UDM does not know.                   *)
EXTENDS GroupKeyMgmt, TLC

CONSTANTS u1, u2, u3

MCSubscribers == {u1, u2}
MCUEs == {u1, u2, u3}
MCTwoUEs == {u1, u3}
MCK == [u \in MCSubscribers |-> <<u, "rest">>]
MCSymmetry == Permutations(Clients) \cup Permutations(MCSubscribers)
=============================================================================
