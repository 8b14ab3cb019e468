--------------------------- MODULE MCFlagListing ---------------------------
(***************************************************************************)
(* A small instance of FlagListing: a flag, and two more that may share    *)
(* its date or each other's, or be stored in another order than they are   *)
(* dated; pages of one and of two.                                         *)
(***************************************************************************)
EXTENDS FlagListing, TLC

CONSTANTS f1, f2, f3

MCInitDates == [f \in Flags |-> IF f = f1 THEN 1 ELSE 0]
MCSearches == {Flags, Flags \ {f1}}

(* What happens to the flags after a walk is nothing to it: those states   *)
(* are checked and not left.                                               *)
WalkToCome == walk = None \/ walk.at \notin {"done", "not_found"}

Alike == Permutations({f2, f3})
=============================================================================
