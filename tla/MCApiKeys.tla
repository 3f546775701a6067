----------------------------- MODULE MCApiKeys -----------------------------
(***************************************************************************)
(* An instance of ApiKeys for TLC: two onboardings of one email and one of *)
(* another; a key of each of two merchants with one prefix, and the key a  *)
(* resent issue adds.                                                      *)
(***************************************************************************)
EXTENDS ApiKeys

CONSTANTS ann, bob, prefix1, prefix2

Ann == [email |-> ann, n |-> 1]
AnnAgain == [email |-> ann, n |-> 2]
Bob == [email |-> bob, n |-> 1]

Merchants == {Ann, AnnAgain, Bob}

Keys == {[merchant |-> Ann, prefix |-> prefix1],
         [merchant |-> Ann, prefix |-> prefix2],
         [merchant |-> Bob, prefix |-> prefix1]}
=============================================================================
