-------------------------- MODULE MCAnalyticsQuery --------------------------
(***************************************************************************)
(* A small instance of AnalyticsQuery: three hours, two of them in a day,  *)
(* three variations, two projects with a flag of one name.                 *)
(***************************************************************************)
EXTENDS AnalyticsQuery, TLC

CONSTANTS b1, b2, b3, acme, globex, checkout, true, blue, red

ev(v, t) == [key |-> checkout, variation |-> v, ts |-> [t |-> t, off |-> 0]]

MCEvents ==
    b1 :> <<ev(true, 1), ev(true, 0), ev(red, 1)>>
 @@ b2 :> <<ev(true, 2), ev(blue, 4), ev(blue, 5)>>
 @@ b3 :> <<ev(true, 5)>>

MCProject == [b \in Batches |-> IF b = b3 THEN globex ELSE acme]
MCOwner == [p \in Projects |-> IF p = acme THEN "ann" ELSE "bob"]
MCFlags == {[project |-> acme, name |-> checkout]}

(* The queries read the table: the clock does not matter, for every event   *)
(* has a timestamp, nor what clients and the log were told.                 *)
TableOnly == now = 0 /\ \A b \in Batches : outcome[b] \notin {"refused", "unreported"}
=============================================================================
