----------------------------- MODULE ByteStream -----------------------------
(***************************************************************************)
(* What one direction of an OpenSSH channel promises to the two programs   *)
(* it joins: the bytes taken from the one are handed to the other in       *)
(* order, the other is never told "end of file" while bytes are missing,   *)
(* and nothing follows the end.  Bytes are counted: "the first n bytes".   *)
(***************************************************************************)
EXTENDS Naturals

VARIABLES
    taken,      \* bytes read from the writing program
    delivered,  \* bytes written to the reading program
    forced,     \* the writing side's channel was closed by force
    end         \* "no", "eof" (the reader sees end of file), "cut"

vars == <<taken, delivered, forced, end>>

Init ==
    /\ taken = 0
    /\ delivered = 0
    /\ forced = FALSE
    /\ end = "no"

Take ==
    /\ ~forced
    /\ end # "eof"
    /\ taken' > taken
    /\ UNCHANGED <<delivered, forced, end>>

Deliver ==
    /\ end = "no"
    /\ delivered' > delivered
    /\ delivered' <= taken
    /\ UNCHANGED <<taken, forced, end>>

Force ==
    /\ forced' = TRUE
    /\ UNCHANGED <<taken, delivered, end>>

Eof ==
    /\ end = "no"
    /\ forced \/ delivered = taken
    /\ end' = "eof"
    /\ UNCHANGED <<taken, delivered, forced>>

Cut ==
    /\ end = "no"
    /\ end' = "cut"
    /\ UNCHANGED <<taken, delivered, forced>>

Next == Take \/ Deliver \/ Force \/ Eof \/ Cut

Spec == Init /\ [][Next]_vars
=============================================================================
