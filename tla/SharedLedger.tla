---------------------------- MODULE SharedLedger ----------------------------
(***************************************************************************)
(* What is left of EventLedger's promise when several processes share the  *)
(* table.  A batch is still accepted, then dropped or counted as a whole   *)
(* in one step; but a row it is counted in may lose what others were told  *)
(* was counted there: it holds the batch's own events for sure, and at     *)
(* most all that were ever counted.  Other rows are left alone.            *)
(***************************************************************************)
EXTENDS EventLedger

VARIABLE
    credited   \* the events of each row in batches that were counted

sharedVars == <<stage, counts, credited>>

Hits(way, r) == Cardinality({i \in DOMAIN way : way[i] = r})

SharedInit == Init /\ credited = [r \in Rows |-> 0]

CountInShared(b) ==
    /\ stage[b] = "accepted"
    /\ stage' = [stage EXCEPT ![b] = "counted"]
    /\ \E way \in Ways[b] :
          /\ credited' = [r \in Rows |-> credited[r] + Hits(way, r)]
          /\ \A r \in Rows :
                IF Hits(way, r) = 0 THEN counts'[r] = counts[r]
                                    ELSE counts'[r] \in Hits(way, r) .. credited'[r]
    /\ counts' \in [Rows -> Nat]

SharedNext ==
    \/ (Drop \/ \E b \in Batches : Accept(b)) /\ UNCHANGED credited
    \/ \E b \in Batches : CountInShared(b)

SharedSpec == SharedInit /\ [][SharedNext]_sharedVars
=============================================================================
