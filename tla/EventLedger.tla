---------------------------- MODULE EventLedger ----------------------------
(***************************************************************************)
(* What the analytics ingestion promises its clients, without processes,   *)
(* queues or transactions: a batch that was accepted is later either       *)
(* dropped as a whole, or counted as a whole in one step, each event of it *)
(* in exactly one row it may land in.                                      *)
(***************************************************************************)
EXTENDS Naturals, FiniteSets

CONSTANTS
    Batches,   \* the batches clients send
    Rows,      \* the hourly aggregation rows
    Ways       \* Ways[b]: the ways to assign b's events to rows

VARIABLES
    stage,     \* what became of each batch
    counts     \* the count of each row

ledgerVars == <<stage, counts>>

Init ==
    /\ stage = [b \in Batches |-> "offered"]
    /\ counts = [r \in Rows |-> 0]

Accept(b) ==
    /\ stage[b] = "offered"
    /\ stage' = [stage EXCEPT ![b] = "accepted"]
    /\ UNCHANGED counts

Count(b) ==
    /\ stage[b] = "accepted"
    /\ stage' = [stage EXCEPT ![b] = "counted"]
    /\ \E way \in Ways[b] :
          counts' = [r \in Rows |->
                       counts[r] + Cardinality({i \in DOMAIN way : way[i] = r})]

(* A failed batch is dropped alone, a crash drops all that a process held. *)
Drop ==
    \E gone \in SUBSET {b \in Batches : stage[b] = "accepted"} :
       /\ stage' = [b \in Batches |-> IF b \in gone THEN "dropped" ELSE stage[b]]
       /\ UNCHANGED counts

Next == Drop \/ \E b \in Batches : Accept(b) \/ Count(b)

Spec == Init /\ [][Next]_ledgerVars
=============================================================================
