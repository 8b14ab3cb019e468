-------------------------- MODULE MCEventPipeline --------------------------
(***************************************************************************)
(* Small instances of EventPipeline for TLC.  Each .cfg picks the batches, *)
(* the zones and the clock that make its own question interesting.         *)
(***************************************************************************)
EXTENDS EventPipeline, TLC

CONSTANTS p1, p2, b1, b2, b3, acme, globex, checkout, banner, true, blue, long

ev(k, v, s) == [key |-> k, variation |-> v, ts |-> s]
at(t) == [t |-> t, off |-> 0]

(* One project, one flag from the start, one that may be created later. *)
OneProject == [b \in Batches |-> acme]
OneFlag == {[project |-> acme, name |-> checkout]}

(* b1 counts twice in one row and once for a flag that may not exist yet;  *)
(* b2 starts in the row b1 writes last; b3 cannot be stored as a whole.    *)
SingleEvents ==
    b1 :> <<ev(checkout, true, at(0)), ev(checkout, true, at(1)), ev(banner, true, at(0))>>
 @@ b2 :> <<ev(banner, true, at(0)), ev(checkout, true, at(0))>>
 @@ b3 :> <<ev(checkout, true, at(0)), ev(checkout, long, at(0))>>

(* Two batches that need the same two rows in opposite orders. *)
PairEvents ==
    b1 :> <<ev(checkout, true, at(0)), ev(checkout, blue, at(0))>>
 @@ b2 :> <<ev(checkout, blue, at(0)), ev(checkout, true, at(0))>>
 @@ b3 :> <<ev(checkout, true, at(1))>>

(* Two projects that both have a flag named checkout. *)
TwoProjects == b1 :> acme @@ b2 :> globex @@ b3 :> acme
BothFlags == {[project |-> acme, name |-> checkout], [project |-> globex, name |-> checkout]}

(* Events without a timestamp, and in a zone with a half-hour offset. *)
ClockEvents ==
    b1 :> <<ev(checkout, true, None), ev(checkout, true, at(3))>>
 @@ b2 :> <<ev(checkout, true, None)>>
 @@ b3 :> <<ev(checkout, true, [t |-> 2, off |-> 1])>>

Workers == Permutations(Procs)
=============================================================================
