------------------------ MODULE EventPipelineProofs ------------------------
(***************************************************************************)
(* Proofs about EventPipeline, for every number of processes, batches,     *)
(* projects and every bound.                                               *)
(***************************************************************************)
EXTENDS EventPipeline, FiniteSetTheorems, SequenceTheorems, TLAPS

(***************************************************************************)
(* The data the worker handles.                                            *)
(***************************************************************************)

(* Truncating a timestamp to its hour stays within the modelled hours. *)
LEMMA TruncHour == ASSUME NEW s \in Stamp PROVE Trunc(s) \in Hours
  BY ParametersTyped DEF ParametersTyped, Trunc, Hours, Stamp

(* What holds of one worker between its steps: outside a transaction it    *)
(* holds nothing; inside, it has a batch and is at one of its events.      *)
WorkerShape(p) ==
    /\ life[p] \in {"stopped", "down"} => pc[p] = "exited"
    /\ pc[p] \in {"get", "exited"} =>
          /\ cur[p] = None
          /\ landed[p] = <<>>
          /\ pending[p] = None
          /\ written[p] = NoWrites
    /\ pc[p] \in {"resolve", "select"} =>
          /\ cur[p] \in Batches
          /\ Len(landed[p]) <= Len(Events[cur[p]])
    /\ pc[p] = "select" =>
          /\ pending[p] = None
          /\ Len(landed[p]) < Len(Events[cur[p]])

(* The inductive form of TypeOK: the row a worker computes is a row only   *)
(* because the worker is at an event of a batch.                           *)
TypeInv == TypeOK /\ \A p \in Procs : WorkerShape(p)

(* The row a worker is about to count in is a row of the table. *)
LEMMA RowTyped ==
  ASSUME TypeInv, NEW p \in Procs, pc[p] \in {"resolve", "select"}, ~Exhausted(p)
  PROVE  /\ Current(p) \in Event
         /\ FlagOf(p) \in Flag
         /\ RowOf(p) \in Row
  <1>1. cur[p] \in Batches /\ Len(landed[p]) <= Len(Events[cur[p]])
    BY DEF TypeInv, WorkerShape
  <1>2. Len(landed[p]) \in Nat
    BY LenProperties DEF TypeInv, TypeOK
  <1>3. Len(landed[p]) + 1 \in DOMAIN Events[cur[p]]
    BY <1>1, <1>2, ParametersTyped DEF ParametersTyped, Exhausted
  <1>4. Current(p) \in Event
    BY <1>1, <1>3, ParametersTyped DEF ParametersTyped, Current
  <1>5. FlagOf(p) \in Flag
    BY <1>1, <1>4, ParametersTyped DEF ParametersTyped, FlagOf, Flag, Event
  <1>6. HourOf(Current(p)) \in Hours
    <2>1. CASE Current(p).ts = None
      <3>1. [t |-> now, off |-> 0] \in Stamp
        BY DEF TypeInv, TypeOK, Stamp
      <3> QED BY <2>1, <3>1, TruncHour DEF HourOf
    <2>2. CASE Current(p).ts # None
      BY <1>4, <2>2, TruncHour DEF HourOf, Event
    <2> QED BY <2>1, <2>2
  <1> QED BY <1>4, <1>5, <1>6 DEF RowOf, Row, Event

(* How often a value occurs in a sequence. *)
LEMMA OccurrencesType ==
  ASSUME NEW S, NEW s \in Seq(S), NEW r
  PROVE  /\ IsFiniteSet({i \in DOMAIN s : s[i] = r})
         /\ Occurrences(s, r) \in Nat
  <1> DEFINE hits == {i \in DOMAIN s : s[i] = r}
  <1>1. Len(s) \in Nat /\ DOMAIN s = 1 .. Len(s)
    BY LenProperties
  <1>2. IsFiniteSet(1 .. Len(s))
    BY <1>1, FS_Interval
  <1>3. hits \in SUBSET (1 .. Len(s))
    BY <1>1
  <1>4. IsFiniteSet(hits)
    BY <1>2, <1>3, FS_Subset
  <1> QED BY <1>4, FS_CardinalityType DEF Occurrences

(* Appending a value adds one occurrence of it and none of any other. *)
LEMMA OccurrencesAppend ==
  ASSUME NEW S, NEW s \in Seq(S), NEW x \in S, NEW r
  PROVE  Occurrences(Append(s, x), r) = Occurrences(s, r) + (IF x = r THEN 1 ELSE 0)
  <1> DEFINE hits == {i \in DOMAIN s : s[i] = r}
             hits2 == {i \in DOMAIN Append(s, x) : Append(s, x)[i] = r}
  <1>1. /\ Len(s) \in Nat /\ DOMAIN s = 1 .. Len(s)
        /\ DOMAIN Append(s, x) = 1 .. (Len(s) + 1)
    BY LenProperties, AppendProperties
  <1>2. IsFiniteSet(hits) /\ Cardinality(hits) \in Nat
    BY OccurrencesType DEF Occurrences
  <1>3. ASSUME x = r PROVE Cardinality(hits2) = Cardinality(hits) + 1
    <2>1. hits2 = hits \cup {Len(s) + 1}
      BY <1>1, <1>3, AppendProperties
    <2>2. Len(s) + 1 \notin hits
      BY <1>1
    <2> QED BY <1>2, <2>1, <2>2, FS_AddElement
  <1>4. ASSUME x # r PROVE hits2 = hits
    BY <1>1, <1>4, AppendProperties
  <1>5. Occurrences(s, r) = Cardinality(hits) /\ Occurrences(Append(s, x), r) = Cardinality(hits2)
    BY DEF Occurrences
  <1> HIDE DEF hits, hits2
  <1> QED BY <1>2, <1>3, <1>4, <1>5

(* Nothing occurs in the empty sequence. *)
LEMMA OccurrencesEmpty == ASSUME NEW r PROVE Occurrences(<<>>, r) = 0
  <1>1. {i \in DOMAIN <<>> : <<>>[i] = r} = {}
    OBVIOUS
  <1> QED BY <1>1, FS_EmptySet DEF Occurrences

(***************************************************************************)
(* Type correctness.                                                       *)
(***************************************************************************)
LEMMA TypeInit == ASSUME Init PROVE TypeInv
  <1>1. NoWrites \in [Row -> Nat]
    BY DEF NoWrites
  <1>2. TypeOK
    BY <1>1, ParametersTyped, EmptySeq
    DEF Init, TypeOK, ParametersTyped, Alive, Settled, Dropped
  <1>3. \A p \in Procs : WorkerShape(p)
    BY DEF Init, WorkerShape
  <1> QED BY <1>2, <1>3 DEF TypeInv

(* Rolling a worker's transaction back, for whatever reason. *)
LEMMA TypeRollback ==
  ASSUME TypeInv, NEW p \in Procs, NEW why \in Dropped,
         pc[p] \in {"resolve", "select"}, Rollback(p, why)
  PROVE  TypeInv'
  <1>1. NoWrites \in [Row -> Nat]
    BY DEF NoWrites
  <1>2. TypeOK'
    BY <1>1, EmptySeq DEF TypeInv, TypeOK, Rollback, shared, Settled
  <1>3. \A q \in Procs : WorkerShape(q)'
    BY DEF TypeInv, TypeOK, WorkerShape, Rollback, shared
  <1> QED BY <1>2, <1>3 DEF TypeInv

LEMMA TypeNext == ASSUME TypeInv, [Next]_vars PROVE TypeInv'
  <1> USE DEF TypeInv
  <1>0. NoWrites \in [Row -> Nat]
    BY DEF NoWrites
  <1>1. ASSUME NEW p \in Procs, NEW b \in Batches, Receive(p, b)
        PROVE  TypeInv'
    BY <1>1 DEF Receive, TypeOK, WorkerShape, worker, shared, Settled, Dropped
  <1>a. ASSUME NEW p \in Procs, NEW b \in Batches, Reject(p, b)
        PROVE  TypeInv'
    BY <1>a DEF Reject, TypeOK, WorkerShape, worker, shared, Settled, Dropped
  <1>2. ASSUME NEW p \in Procs, NEW b \in Batches, Enqueue(p, b)
        PROVE  TypeInv'
    <2>1. Append(queue[p], b) \in Seq(Batches \cup {None})
      BY AppendProperties DEF TypeOK
    <2> QED BY <1>2, <2>1
        DEF Enqueue, Put, TypeOK, WorkerShape, worker, shared, Settled, Dropped
  <1>3. ASSUME NEW p \in Procs, Get(p)
        PROVE  TypeInv'
    <2>1. /\ Head(queue[p]) \in Batches
          /\ Tail(queue[p]) \in Seq(Batches \cup {None})
      BY <1>3, HeadTailProperties DEF Get, TypeOK
    <2>2. Len(Events[Head(queue[p])]) \in Nat
      BY <2>1, ParametersTyped DEF ParametersTyped
    <2>3. TypeOK'
      BY <1>3, <2>1 DEF Get, TypeOK, shared
    <2>4. \A q \in Procs : WorkerShape(q)'
      BY <1>3, <2>1, <2>2 DEF Get, TypeOK, WorkerShape, shared
    <2> QED BY <2>3, <2>4
  <1>4. ASSUME NEW p \in Procs, GetSentinel(p)
        PROVE  TypeInv'
    <2>1. Tail(queue[p]) \in Seq(Batches \cup {None})
      BY <1>4, HeadTailProperties DEF GetSentinel, TypeOK
    <2> QED BY <1>4, <2>1 DEF GetSentinel, TypeOK, WorkerShape, worker, shared
  <1>5. ASSUME NEW p \in Procs, ResolveFlag(p)
        PROVE  TypeInv'
    <2>1. /\ Len(landed[p]) \in Nat
          /\ cur[p] \in Batches
          /\ Len(Events[cur[p]]) \in Nat
          /\ Len(landed[p]) < Len(Events[cur[p]])
      BY <1>5, LenProperties, ParametersTyped
      DEF ResolveFlag, TypeOK, WorkerShape, Exhausted, ParametersTyped
    <2>2. CASE FlagOf(p) \in flags
      BY <1>5, <2>1, <2>2 DEF ResolveFlag, TypeOK, WorkerShape, shared
    <2>3. CASE FlagOf(p) \notin flags
      <3>1. /\ Append(landed[p], None) \in Seq(Row \cup {None})
            /\ Len(Append(landed[p], None)) = Len(landed[p]) + 1
        BY AppendProperties DEF TypeOK
      <3>2. TypeOK'
        BY <1>5, <2>3, <3>1 DEF ResolveFlag, TypeOK, shared
      <3>3. \A q \in Procs : WorkerShape(q)'
        BY <1>5, <2>1, <2>3, <3>1 DEF ResolveFlag, TypeOK, WorkerShape, shared
      <3> QED BY <3>2, <3>3
    <2> QED BY <2>2, <2>3
  <1>6. ASSUME NEW p \in Procs, SelectRow(p)
        PROVE  TypeInv'
    <2> DEFINE row == RowOf(p)
               seen == Visible(p, row)
    <2>1. /\ Len(landed[p]) \in Nat
          /\ cur[p] \in Batches
          /\ Len(Events[cur[p]]) \in Nat
          /\ Len(landed[p]) < Len(Events[cur[p]])
      BY <1>6, LenProperties, ParametersTyped
      DEF SelectRow, SelectAndCount, TypeOK, WorkerShape, ParametersTyped
    <2>2. row \in Row
      BY <1>6, <2>1, RowTyped DEF SelectRow, SelectAndCount, Exhausted
    <2>3. seen \in Nat
      BY <2>2 DEF TypeOK, Visible
    <2>4. [row |-> row, count |-> seen + 1, insert |-> seen = 0] \in Write
      BY <2>2, <2>3 DEF Write
    <2>5. /\ Append(landed[p], row) \in Seq(Row \cup {None})
          /\ Len(Append(landed[p], row)) = Len(landed[p]) + 1
      BY <2>2, AppendProperties DEF TypeOK
    <2> HIDE DEF row, seen
    <2>6. /\ pc[p] = "select"
          /\ pending' = [pending EXCEPT ![p] =
                            [row |-> row, count |-> seen + 1, insert |-> seen = 0]]
          /\ landed' = [landed EXCEPT ![p] = Append(@, row)]
          /\ pc' = [pc EXCEPT ![p] = "resolve"]
          /\ UNCHANGED <<life, inflight, queue, cur, written, outcome, shared>>
      BY <1>6 DEF SelectRow, SelectAndCount, row, seen
    <2>7. TypeOK'
      BY <2>4, <2>5, <2>6 DEF TypeOK, shared
    <2>8. \A q \in Procs : WorkerShape(q)'
      BY <2>1, <2>5, <2>6 DEF TypeOK, WorkerShape, shared
    <2> QED BY <2>7, <2>8
  <1>7. ASSUME NEW p \in Procs, Flush(p)
        PROVE  TypeInv'
    <2>1. ASSUME NEW why \in Dropped, Rollback(p, why) PROVE TypeInv'
      BY <1>7, <2>1, TypeRollback DEF Flush
    <2>2. CASE FlushWrites(p)
      <3>1. pending[p].row \in Row /\ pending[p].count \in Nat
        BY <1>7 DEF Flush, TypeOK, Write
      <3>2. TypeOK'
        BY <2>2, <3>1 DEF FlushWrites, TypeOK, shared
      <3>3. \A q \in Procs : WorkerShape(q)'
        BY <1>7, <2>2 DEF Flush, FlushWrites, TypeOK, WorkerShape, shared
      <3> QED BY <3>2, <3>3
    <2> QED BY <1>7, <2>1, <2>2 DEF Flush, Dropped
  <1>8. ASSUME NEW p \in Procs, DeadlockAbort(p)
        PROVE  TypeInv'
    <2>1. pc[p] \in {"resolve", "select"}
      BY <1>8 DEF DeadlockAbort, WaitsFor, TypeOK, WorkerShape
    <2> QED BY <1>8, <2>1, TypeRollback DEF DeadlockAbort, Dropped
  <1>9. ASSUME NEW p \in Procs, Commit(p)
        PROVE  TypeInv'
    <2>1. \A r \in Row : Visible(p, r) \in Nat /\ Landings(p, r) \in Nat
      <3> TAKE r \in Row
      <3>1. Visible(p, r) \in Nat
        BY DEF TypeOK, Visible
      <3>2. landed[p] \in Seq(Row \cup {None})
        BY DEF TypeOK
      <3>3. Landings(p, r) \in Nat
        BY <3>2, OccurrencesType DEF Landings
      <3> QED BY <3>1, <3>3
    <2>2. agg' \in [Row -> Nat] /\ credited' \in [Row -> Nat]
      BY <1>9, <2>1 DEF Commit, TypeOK
    <2>3. TypeOK'
      BY <1>0, <1>9, <2>2, EmptySeq DEF Commit, TypeOK, Settled
    <2>4. \A q \in Procs : WorkerShape(q)'
      BY <1>9 DEF Commit, TypeOK, WorkerShape
    <2> QED BY <2>3, <2>4
  <1>10. ASSUME NEW p \in Procs, DatabaseError(p)
         PROVE  TypeInv'
    BY <1>10, TypeRollback DEF DatabaseError, Dropped
  <1>11. ASSUME NEW p \in Procs,
                BeginShutdown(p) \/ FinishShutdown(p)
         PROVE  TypeInv'
    BY <1>11 DEF BeginShutdown, FinishShutdown, TypeOK, WorkerShape, worker, shared, Alive
  <1>12. ASSUME NEW p \in Procs, SendSentinel(p)
         PROVE  TypeInv'
    <2>1. Append(queue[p], None) \in Seq(Batches \cup {None})
      BY AppendProperties DEF TypeOK
    <2> QED BY <1>12, <2>1
        DEF SendSentinel, Put, TypeOK, WorkerShape, worker, shared, Alive
  <1>13. ASSUME NEW p \in Procs, Crash(p)
         PROVE  TypeInv'
    <2>1. crashes' \in 0 .. MaxCrashes
      BY <1>13, ParametersTyped DEF Crash, TypeOK, ParametersTyped
    <2>2. outcome' \in [Batches -> Settled \cup {"new", "sent", "accepted", "refused"}]
      BY <1>13 DEF Crash, TypeOK, Settled, Dropped
    <2>3. TypeOK'
      BY <1>0, <1>13, <2>1, <2>2, EmptySeq DEF Crash, TypeOK
    <2>4. \A q \in Procs : WorkerShape(q)'
      BY <1>13 DEF Crash, TypeOK, WorkerShape
    <2> QED BY <2>3, <2>4
  <1>14. ASSUME NEW p \in Procs, Restart(p)
         PROVE  TypeInv'
    <2>1. TypeOK'
      BY <1>14 DEF Restart, TypeOK, worker, shared, Alive
    <2>2. \A q \in Procs : WorkerShape(q)'
      BY <1>14 DEF Restart, TypeOK, WorkerShape, worker, shared
    <2> QED BY <2>1, <2>2
  <1>15. ASSUME NEW f \in Flag, CreateFlag(f)
         PROVE  TypeInv'
    BY <1>15 DEF CreateFlag, TypeOK, WorkerShape, worker
  <1>16. CASE Tick
    BY <1>16, ParametersTyped DEF Tick, TypeOK, WorkerShape, worker, ParametersTyped
  <1>17. CASE UNCHANGED vars
    BY <1>17 DEF vars, TypeOK, WorkerShape
  <1> QED
    BY <1>1, <1>a, <1>2, <1>3, <1>4, <1>5, <1>6, <1>7, <1>8, <1>9, <1>10, <1>11, <1>12,
       <1>13, <1>14, <1>15, <1>16, <1>17
    DEF Next, ProcStep, WorkerStep

(* Every reachable state is well typed. *)
THEOREM TypeCorrect == Spec => [](TypeOK /\ TypeInv)
  <1>1. Init => TypeInv
    BY TypeInit
  <1>2. TypeInv /\ [Next]_vars => TypeInv'
    BY TypeNext
  <1>3. TypeInv => TypeOK
    BY DEF TypeInv
  <1> QED BY <1>1, <1>2, <1>3, PTL DEF Spec

(***************************************************************************)
(* What a step can do to the counts and to the transactions that will      *)
(* change them.  Most steps touch neither.                                 *)
(***************************************************************************)
Quiet == UNCHANGED <<agg, credited, landed, pending, written>>

(* Worker p's transaction is rolled back. *)
Forget(p) ==
    /\ UNCHANGED <<agg, credited>>
    /\ landed' = [landed EXCEPT ![p] = <<>>]
    /\ pending' = [pending EXCEPT ![p] = None]
    /\ written' = [written EXCEPT ![p] = NoWrites]

(* Worker p skips an event of an unknown flag. *)
SkipEvent(p) ==
    /\ UNCHANGED <<agg, credited, pending, written>>
    /\ landed' = [landed EXCEPT ![p] = Append(@, None)]

(* Worker p counts an event in row r of its session. *)
CountEvent(p, r) ==
    /\ pending[p] = None
    /\ UNCHANGED <<agg, credited, written>>
    /\ landed' = [landed EXCEPT ![p] = Append(@, r)]
    /\ pending' = [pending EXCEPT ![p] =
                     [row |-> r, count |-> Visible(p, r) + 1, insert |-> Visible(p, r) = 0]]

(* Worker p flushes the count it holds. *)
WriteCount(p) ==
    /\ pending[p] # None
    /\ UNCHANGED <<agg, credited, landed>>
    /\ written' = [written EXCEPT ![p][pending[p].row] = pending[p].count]
    /\ pending' = [pending EXCEPT ![p] = None]

(* Worker p commits. *)
CommitCounts(p) ==
    /\ pending[p] = None
    /\ agg' = [r \in Row |-> Visible(p, r)]
    /\ credited' = [r \in Row |-> credited[r] + Landings(p, r)]
    /\ landed' = [landed EXCEPT ![p] = <<>>]
    /\ written' = [written EXCEPT ![p] = NoWrites]
    /\ UNCHANGED pending

CountStep(p) ==
    \/ Forget(p)
    \/ SkipEvent(p)
    \/ \E r \in Row : CountEvent(p, r)
    \/ WriteCount(p)
    \/ CommitCounts(p)

(* Every step of the pipeline is one of these. *)
LEMMA StepKinds ==
  ASSUME TypeInv, [Next]_vars
  PROVE  Quiet \/ \E p \in Procs : CountStep(p)
  <1>1. ASSUME NEW p \in Procs, NEW b \in Batches, Receive(p, b) \/ Enqueue(p, b) \/ Reject(p, b)
        PROVE  Quiet
    BY <1>1 DEF Receive, Enqueue, Reject, Quiet, worker, shared
  <1>2. ASSUME NEW p \in Procs,
               Get(p) \/ GetSentinel(p) \/ BeginShutdown(p) \/ SendSentinel(p)
                 \/ FinishShutdown(p) \/ Restart(p)
        PROVE  Quiet
    BY <1>2 DEF Get, GetSentinel, BeginShutdown, SendSentinel, FinishShutdown, Restart,
                Quiet, worker, shared, TypeInv, TypeOK
  <1>3. ASSUME NEW p \in Procs, ResolveFlag(p)
        PROVE  Quiet \/ SkipEvent(p)
    BY <1>3 DEF ResolveFlag, Quiet, SkipEvent, shared
  <1>4. ASSUME NEW p \in Procs, SelectRow(p)
        PROVE  \E r \in Row : CountEvent(p, r)
    <2>1. Len(landed[p]) < Len(Events[cur[p]]) /\ pending[p] = None
      BY <1>4 DEF SelectRow, SelectAndCount, TypeInv, WorkerShape
    <2>2. RowOf(p) \in Row
      BY <1>4, <2>1, RowTyped DEF SelectRow, SelectAndCount, Exhausted
    <2>3. CountEvent(p, RowOf(p))
      BY <1>4, <2>1 DEF SelectRow, SelectAndCount, CountEvent, shared
    <2> QED BY <2>2, <2>3
  <1>5. ASSUME NEW p \in Procs, NEW why, Rollback(p, why)
        PROVE  Forget(p)
    BY <1>5 DEF Rollback, Forget, shared
  <1>6. ASSUME NEW p \in Procs, Flush(p)
        PROVE  Forget(p) \/ WriteCount(p)
    BY <1>5, <1>6 DEF Flush, FlushWrites, WriteCount, shared
  <1>7. ASSUME NEW p \in Procs, DeadlockAbort(p) \/ DatabaseError(p)
        PROVE  Forget(p)
    BY <1>5, <1>7 DEF DeadlockAbort, DatabaseError
  <1>8. ASSUME NEW p \in Procs, Commit(p)
        PROVE  CommitCounts(p)
    BY <1>8 DEF Commit, CommitCounts
  <1>9. ASSUME NEW p \in Procs, Crash(p)
        PROVE  Forget(p)
    BY <1>9 DEF Crash, Forget
  <1>10. ASSUME (\E f \in Flag : CreateFlag(f)) \/ Tick
         PROVE  Quiet
    BY <1>10 DEF CreateFlag, Tick, Quiet, worker
  <1>11. CASE UNCHANGED vars
    BY <1>11 DEF vars, Quiet
  <1> QED
    BY <1>1, <1>2, <1>3, <1>4, <1>6, <1>7, <1>8, <1>9, <1>10, <1>11
    DEF Next, ProcStep, WorkerStep, CountStep

(* How a step changes the number of events a batch has landed in a row. *)
LEMMA LandingsType ==
  ASSUME TypeOK, NEW p \in Procs, NEW r PROVE Landings(p, r) \in Nat
  <1>1. landed[p] \in Seq(Row \cup {None})
    BY DEF TypeOK
  <1> QED BY <1>1, OccurrencesType DEF Landings

LEMMA LandingsAfterAppend ==
  ASSUME TypeOK, NEW p \in Procs, NEW x \in Row \cup {None},
         landed' = [landed EXCEPT ![p] = Append(@, x)]
  PROVE  \A q \in Procs, r \in Row :
            Landings(q, r)' = Landings(q, r) + (IF q = p /\ r = x THEN 1 ELSE 0)
  <1> SUFFICES ASSUME NEW q \in Procs, NEW r \in Row
               PROVE  Landings(q, r)' = Landings(q, r) + (IF q = p /\ r = x THEN 1 ELSE 0)
    OBVIOUS
  <1>1. CASE q = p
    <2>1. landed[p] \in Seq(Row \cup {None}) /\ landed'[p] = Append(landed[p], x)
      BY DEF TypeOK
    <2>2. Landings(p, r)' = Landings(p, r) + (IF x = r THEN 1 ELSE 0)
      BY <2>1, OccurrencesAppend DEF Landings
    <2> QED BY <1>1, <2>2
  <1>2. CASE q # p
    <2>1. landed'[q] = landed[q]
      BY <1>2 DEF TypeOK
    <2>2. Landings(q, r)' = Landings(q, r)
      BY <2>1 DEF Landings
    <2> QED BY <1>2, <2>2, LandingsType
  <1> QED BY <1>1, <1>2

LEMMA LandingsAfterReset ==
  ASSUME TypeOK, NEW p \in Procs, landed' = [landed EXCEPT ![p] = <<>>]
  PROVE  \A q \in Procs, r \in Row :
            Landings(q, r)' = IF q = p THEN 0 ELSE Landings(q, r)
  <1> SUFFICES ASSUME NEW q \in Procs, NEW r \in Row
               PROVE  Landings(q, r)' = IF q = p THEN 0 ELSE Landings(q, r)
    OBVIOUS
  <1>1. CASE q = p
    <2>1. landed'[p] = <<>>
      BY DEF TypeOK
    <2> QED BY <1>1, <2>1, OccurrencesEmpty DEF Landings
  <1>2. CASE q # p
    <2>1. landed'[q] = landed[q]
      BY <1>2 DEF TypeOK
    <2> QED BY <1>2, <2>1 DEF Landings
  <1> QED BY <1>1, <1>2

(***************************************************************************)
(* NoOvercount and RowPresent, for any number of processes.                *)
(***************************************************************************)

(* What a transaction has written or is about to write was read from a     *)
(* committed count that only grew in credit since, plus one for each of    *)
(* its own events: it is bounded by the credit the commit will bring.      *)
Bounded(r) ==
    /\ agg[r] <= credited[r]
    /\ \A p \in Procs :
          /\ written[p][r] <= credited[r] + Landings(p, r)
          /\ pending[p] # None /\ pending[p].row = r =>
                pending[p].count <= credited[r] + Landings(p, r)

(* An event that landed has its row in the transaction or in the session. *)
Present(r) ==
    /\ credited[r] # 0 => agg[r] # 0
    /\ \A p \in Procs : Landings(p, r) # 0 =>
          written[p][r] # 0 \/ (pending[p] # None /\ pending[p].row = r)

CountInv == \A r \in Row : Bounded(r) /\ Present(r)

LEMMA CountInit == ASSUME Init PROVE CountInv
  <1> SUFFICES ASSUME NEW r \in Row PROVE Bounded(r) /\ Present(r)
    BY DEF CountInv
  <1>1. \A p \in Procs : Landings(p, r) = 0
    BY OccurrencesEmpty DEF Init, Landings
  <1> QED BY <1>1 DEF Init, Bounded, Present, NoWrites

LEMMA CountNext == ASSUME TypeInv, CountInv, [Next]_vars PROVE CountInv'
  <1>0. SUFFICES ASSUME NEW r \in Row PROVE Bounded(r)' /\ Present(r)'
    BY DEF CountInv
  <1>1. Bounded(r) /\ Present(r)
    BY DEF CountInv
  <1>2. /\ agg[r] \in Nat /\ credited[r] \in Nat
        /\ \A q \in Procs : Landings(q, r) \in Nat /\ written[q][r] \in Nat
    BY LandingsType DEF TypeInv, TypeOK
  <1>3. \A q \in Procs : pending[q] # None => pending[q].count \in Nat \ {0} /\ pending[q].row \in Row
    BY DEF TypeInv, TypeOK, Write
  <1>4. CASE Quiet
    <2>1. \A q \in Procs : Landings(q, r)' = Landings(q, r)
      BY <1>4 DEF Quiet, Landings
    <2> QED BY <1>1, <1>4, <2>1 DEF Quiet, Bounded, Present
  <1>5. ASSUME NEW p \in Procs, Forget(p) PROVE Bounded(r)' /\ Present(r)'
    <2>1. \A q \in Procs : Landings(q, r)' = IF q = p THEN 0 ELSE Landings(q, r)
      BY <1>5, LandingsAfterReset DEF Forget, TypeInv
    <2>2. \A q \in Procs : /\ written'[q][r] = IF q = p THEN 0 ELSE written[q][r]
                           /\ pending'[q] = IF q = p THEN None ELSE pending[q]
      BY <1>5 DEF Forget, TypeInv, TypeOK, NoWrites
    <2> QED BY <1>1, <1>2, <1>5, <2>1, <2>2 DEF Forget, Bounded, Present
  <1>6. ASSUME NEW p \in Procs, SkipEvent(p) PROVE Bounded(r)' /\ Present(r)'
    <2>1. r # None
      BY NoneIsFresh DEF NoneIsFresh
    <2>2. \A q \in Procs :
             Landings(q, r)' = Landings(q, r) + (IF q = p /\ r = None THEN 1 ELSE 0)
      <3>1. /\ TypeOK
            /\ None \in Row \cup {None}
            /\ landed' = [landed EXCEPT ![p] = Append(@, None)]
        BY <1>6 DEF SkipEvent, TypeInv
      <3>2. \A q \in Procs, t \in Row :
               Landings(q, t)' = Landings(q, t) + (IF q = p /\ t = None THEN 1 ELSE 0)
        BY <3>1, LandingsAfterAppend
      <3> QED BY <3>2
    <2>3. \A q \in Procs : Landings(q, r)' = Landings(q, r)
      BY <1>2, <2>1, <2>2
    <2> QED BY <1>1, <1>6, <2>3 DEF SkipEvent, Bounded, Present
  <1>7. ASSUME NEW p \in Procs, NEW s \in Row, CountEvent(p, s)
        PROVE  Bounded(r)' /\ Present(r)'
    <2>1. \A q \in Procs :
             Landings(q, r)' = Landings(q, r) + (IF q = p /\ r = s THEN 1 ELSE 0)
      <3>1. /\ TypeOK
            /\ s \in Row \cup {None}
            /\ landed' = [landed EXCEPT ![p] = Append(@, s)]
        BY <1>7 DEF CountEvent, TypeInv
      <3>2. \A q \in Procs, t \in Row :
               Landings(q, t)' = Landings(q, t) + (IF q = p /\ t = s THEN 1 ELSE 0)
        BY <3>1, LandingsAfterAppend
      <3> QED BY <3>2
    <2> DEFINE w == [row |-> s, count |-> Visible(p, s) + 1, insert |-> Visible(p, s) = 0]
    <2>2. Visible(p, s) \in Nat
      BY DEF Visible, TypeInv, TypeOK
    <2>3. w \in Write /\ w.row = s /\ w.count = Visible(p, s) + 1
      BY <2>2 DEF Write
    <2>4. /\ pending[p] = None
          /\ pending' = [pending EXCEPT ![p] = w]
          /\ agg' = agg /\ credited' = credited /\ written' = written
      BY <1>7 DEF CountEvent
    <2> HIDE DEF w
    <2>5. /\ w # None
          /\ \A q \in Procs : pending'[q] = IF q = p THEN w ELSE pending[q]
          /\ r = s => Visible(p, s) <= credited[r] + Landings(p, r)
      BY <1>1, <1>2, <2>3, <2>4, NoneIsFresh DEF NoneIsFresh, TypeInv, TypeOK, Visible, Bounded
    <2>6. Bounded(r)'
      BY <1>1, <1>2, <1>3, <2>1, <2>2, <2>3, <2>4, <2>5 DEF Bounded
    <2>7. Present(r)'
      BY <1>1, <1>2, <2>1, <2>3, <2>4, <2>5 DEF Present
    <2> QED BY <2>6, <2>7
  <1>8. ASSUME NEW p \in Procs, WriteCount(p) PROVE Bounded(r)' /\ Present(r)'
    <2>1. \A q \in Procs : Landings(q, r)' = Landings(q, r)
      BY <1>8 DEF WriteCount, Landings
    <2>2. \A q \in Procs :
             /\ pending'[q] = IF q = p THEN None ELSE pending[q]
             /\ written'[q][r] = IF q = p /\ pending[p].row = r THEN pending[p].count
                                                               ELSE written[q][r]
      BY <1>3, <1>8 DEF WriteCount, TypeInv, TypeOK
    <2> QED BY <1>1, <1>2, <1>3, <1>8, <2>1, <2>2 DEF WriteCount, Bounded, Present
  <1>9. ASSUME NEW p \in Procs, CommitCounts(p) PROVE Bounded(r)' /\ Present(r)'
    <2>1. \A q \in Procs : Landings(q, r)' = IF q = p THEN 0 ELSE Landings(q, r)
      BY <1>9, LandingsAfterReset DEF CommitCounts, TypeInv
    <2>2. \A q \in Procs : written'[q][r] = IF q = p THEN 0 ELSE written[q][r]
      BY <1>9 DEF CommitCounts, TypeInv, TypeOK, NoWrites
    <2>3. /\ agg'[r] = IF written[p][r] # 0 THEN written[p][r] ELSE agg[r]
          /\ credited'[r] = credited[r] + Landings(p, r)
          /\ pending[p] = None /\ pending' = pending
      BY <1>9 DEF CommitCounts, Visible
    <2> QED BY <1>1, <1>2, <1>3, <2>1, <2>2, <2>3 DEF Bounded, Present
  <1> QED BY <1>4, <1>5, <1>6, <1>7, <1>8, <1>9, StepKinds DEF CountStep

(* However many processes race on the rows, and whatever fails or crashes: *)
(* no row ever counts more than the events of committed batches.           *)
THEOREM NeverOvercounts == Spec => []NoOvercount
  <1>1. Init => TypeInv /\ CountInv
    BY TypeInit, CountInit
  <1>2. TypeInv /\ CountInv /\ [Next]_vars => TypeInv' /\ CountInv'
    BY TypeNext, CountNext
  <1>3. CountInv => NoOvercount
    BY DEF CountInv, Bounded, NoOvercount
  <1> QED BY <1>1, <1>2, <1>3, PTL DEF Spec

(* Racing processes never lose a row: one that was committed stays.        *)
THEOREM NeverLosesARow == Spec => []RowPresent
  <1>1. Init => TypeInv /\ CountInv
    BY TypeInit, CountInit
  <1>2. TypeInv /\ CountInv /\ [Next]_vars => TypeInv' /\ CountInv'
    BY TypeNext, CountNext
  <1>3. CountInv => RowPresent
    BY DEF CountInv, Present, RowPresent
  <1> QED BY <1>1, <1>2, <1>3, PTL DEF Spec

(***************************************************************************)
(* CountsExact and NoWriteConflict, when there is a single process.        *)
(***************************************************************************)
OneProcess == \A p, q \in Procs : p = q

(* The count of r as the worker's session sees it. *)
View(p, r) == IF pending[p] # None /\ pending[p].row = r THEN pending[p].count
                                                        ELSE Visible(p, r)

(* With no other writer, what the session sees is exact at every step, and *)
(* an INSERT is only ever pending for a row that is not in the table.      *)
ExactInv ==
    /\ \A r \in Row : agg[r] = credited[r]
    /\ \A p \in Procs, r \in Row : View(p, r) = credited[r] + Landings(p, r)
    /\ \A p \in Procs : pending[p] # None =>
          (pending[p].insert => agg[pending[p].row] = 0)

LEMMA ExactInit == ASSUME Init PROVE ExactInv
  <1>1. \A p \in Procs, r \in Row : Landings(p, r) = 0
    BY OccurrencesEmpty DEF Init, Landings
  <1> QED BY <1>1 DEF Init, ExactInv, View, Visible, NoWrites

LEMMA ExactNext ==
  ASSUME OneProcess, TypeInv, ExactInv, [Next]_vars PROVE ExactInv'
  <1>1. \A q \in Procs, r \in Row :
           /\ agg[r] \in Nat /\ credited[r] \in Nat
           /\ Landings(q, r) \in Nat /\ written[q][r] \in Nat
    BY LandingsType DEF TypeInv, TypeOK
  <1>2. \A q \in Procs : pending[q] # None =>
           pending[q].count \in Nat \ {0} /\ pending[q].row \in Row
    BY DEF TypeInv, TypeOK, Write
  <1>3. CASE Quiet
    <2>1. \A q \in Procs, r \in Row : Landings(q, r)' = Landings(q, r)
      BY <1>3 DEF Quiet, Landings
    <2> QED BY <1>3, <2>1 DEF Quiet, ExactInv, View, Visible
  <1>4. ASSUME NEW p \in Procs, Forget(p) PROVE ExactInv'
    <2>1. \A r \in Row : Landings(p, r)' = 0
      BY <1>4, LandingsAfterReset DEF Forget, TypeInv
    <2>2. /\ pending'[p] = None
          /\ \A r \in Row : written'[p][r] = 0
      BY <1>4 DEF Forget, TypeInv, TypeOK, NoWrites
    <2>3. agg' = agg /\ credited' = credited
      BY <1>4 DEF Forget
    <2>4. \A r \in Row : View(p, r)' = credited'[r] + Landings(p, r)'
      BY <1>1, <2>1, <2>2, <2>3 DEF ExactInv, View, Visible
    <2> QED BY <2>2, <2>3, <2>4 DEF ExactInv, OneProcess
  <1>5. ASSUME NEW p \in Procs, SkipEvent(p) PROVE ExactInv'
    <2>1. None \notin Row
      BY NoneIsFresh DEF NoneIsFresh
    <2>2. /\ TypeOK
          /\ None \in Row \cup {None}
          /\ landed' = [landed EXCEPT ![p] = Append(@, None)]
      BY <1>5 DEF SkipEvent, TypeInv
    <2>3. \A q \in Procs, r \in Row :
             Landings(q, r)' = Landings(q, r) + (IF q = p /\ r = None THEN 1 ELSE 0)
      BY <2>2, LandingsAfterAppend
    <2>4. \A q \in Procs, r \in Row : Landings(q, r)' = Landings(q, r)
      BY <1>1, <2>1, <2>3
    <2> QED BY <1>5, <2>4 DEF SkipEvent, ExactInv, View, Visible
  <1>6. ASSUME NEW p \in Procs, NEW s \in Row, CountEvent(p, s) PROVE ExactInv'
    <2>1. /\ TypeOK
          /\ s \in Row \cup {None}
          /\ landed' = [landed EXCEPT ![p] = Append(@, s)]
      BY <1>6 DEF CountEvent, TypeInv
    <2>2. \A q \in Procs, r \in Row :
             Landings(q, r)' = Landings(q, r) + (IF q = p /\ r = s THEN 1 ELSE 0)
      BY <2>1, LandingsAfterAppend
    <2> DEFINE w == [row |-> s, count |-> Visible(p, s) + 1, insert |-> Visible(p, s) = 0]
    <2>3. Visible(p, s) \in Nat
      BY DEF Visible, TypeInv, TypeOK
    <2>4. /\ w \in Write /\ w.row = s /\ w.count = Visible(p, s) + 1
          /\ w.insert = (Visible(p, s) = 0)
      <3>1. w \in Write /\ w.row = s /\ w.count = Visible(p, s) + 1
        BY <2>3 DEF Write
      <3>2. w.insert = (Visible(p, s) = 0)
        BY Zenon
      <3> QED BY <3>1, <3>2
    <2>5. /\ pending[p] = None
          /\ pending' = [pending EXCEPT ![p] = w]
          /\ agg' = agg /\ credited' = credited /\ written' = written
      BY <1>6 DEF CountEvent
    <2> HIDE DEF w
    <2>6. w # None /\ pending'[p] = w
      BY <2>4, <2>5, NoneIsFresh DEF NoneIsFresh, TypeInv, TypeOK
    <2>7. \A r \in Row : Visible(p, r)' = Visible(p, r) /\ Visible(p, r) = credited[r] + Landings(p, r)
      BY <2>5 DEF Visible, ExactInv, View
    <2>8. \A r \in Row : View(p, r)' = credited'[r] + Landings(p, r)'
      BY <1>1, <2>2, <2>4, <2>5, <2>6, <2>7 DEF View
    <2>9. w.insert => agg[s] = 0
      BY <2>4 DEF Visible
    <2> QED BY <2>4, <2>5, <2>6, <2>8, <2>9 DEF ExactInv, OneProcess
  <1>7. ASSUME NEW p \in Procs, WriteCount(p) PROVE ExactInv'
    <2>1. \A r \in Row : Landings(p, r)' = Landings(p, r)
      BY <1>7 DEF WriteCount, Landings
    <2>2. /\ pending[p] # None /\ pending'[p] = None
          /\ agg' = agg /\ credited' = credited
          /\ \A r \in Row : written'[p][r] = IF pending[p].row = r THEN pending[p].count
                                                                 ELSE written[p][r]
      BY <1>2, <1>7 DEF WriteCount, TypeInv, TypeOK
    <2>3. \A r \in Row : View(p, r)' = View(p, r)
      BY <1>2, <2>2 DEF View, Visible
    <2> QED BY <2>1, <2>2, <2>3 DEF ExactInv, OneProcess
  <1>8. ASSUME NEW p \in Procs, CommitCounts(p) PROVE ExactInv'
    <2>1. \A r \in Row : Landings(p, r)' = 0
      BY <1>8, LandingsAfterReset DEF CommitCounts, TypeInv
    <2>2. \A r \in Row :
             /\ written'[p][r] = 0
             /\ agg'[r] = Visible(p, r)
             /\ credited'[r] = credited[r] + Landings(p, r)
      BY <1>8 DEF CommitCounts, TypeInv, TypeOK, NoWrites
    <2>3. pending[p] = None /\ pending'[p] = None
      BY <1>8 DEF CommitCounts
    <2>4. \A r \in Row : agg'[r] = credited'[r]
      BY <2>2, <2>3 DEF ExactInv, View
    <2>5. \A r \in Row : credited'[r] \in Nat
      BY <1>1, <2>2
    <2>6. \A r \in Row : View(p, r)' = credited'[r] + Landings(p, r)'
      BY <2>1, <2>2, <2>3, <2>4, <2>5 DEF View, Visible
    <2> QED BY <2>3, <2>4, <2>6 DEF ExactInv, OneProcess
  <1> QED BY <1>3, <1>4, <1>5, <1>6, <1>7, <1>8, StepKinds DEF CountStep

(* With one uvicorn process, the read-modify-write of ingest_batch is      *)
(* exact: every event of a committed batch is in the table, once.          *)
THEOREM SingleProcessExact == ASSUME OneProcess PROVE Spec => []CountsExact
  <1>1. Init => TypeInv /\ ExactInv
    BY TypeInit, ExactInit
  <1>2. TypeInv /\ ExactInv /\ [Next]_vars => TypeInv' /\ ExactInv'
    BY TypeNext, ExactNext
  <1>3. ExactInv => CountsExact
    BY DEF ExactInv, CountsExact
  <1> QED BY <1>1, <1>2, <1>3, PTL DEF Spec

LEMMA ConflictFree ==
  ASSUME OneProcess, TypeInv, ExactInv, NoWriteConflict, [Next]_vars
  PROVE  NoWriteConflict'
  <1> USE DEF NoWriteConflict, TypeInv, TypeOK
  <1>1. ASSUME NEW p \in Procs, NEW why \in {"failed", "lost"}, Rollback(p, why)
        PROVE  NoWriteConflict'
    BY <1>1 DEF Rollback
  <1>2. ASSUME NEW p \in Procs, NEW b \in Batches, Receive(p, b) \/ Enqueue(p, b) \/ Reject(p, b)
        PROVE  NoWriteConflict'
    BY <1>2 DEF Receive, Enqueue, Reject
  <1>3. ASSUME NEW p \in Procs, Flush(p)
        PROVE  NoWriteConflict'
    <2>1. ~(pending[p].insert /\ agg[pending[p].row] # 0)
      BY <1>3 DEF Flush, ExactInv
    <2> QED BY <1>1, <1>3, <2>1 DEF Flush, FlushWrites
  <1>4. ASSUME NEW p \in Procs, DeadlockAbort(p)
        PROVE  FALSE
    BY <1>4 DEF DeadlockAbort, WaitsFor, OneProcess
  <1>5. ASSUME NEW p \in Procs, Commit(p)
        PROVE  NoWriteConflict'
    BY <1>5 DEF Commit, Counted
  <1>6. ASSUME NEW p \in Procs, DatabaseError(p)
        PROVE  NoWriteConflict'
    BY <1>1, <1>6 DEF DatabaseError
  <1>7. ASSUME NEW p \in Procs, Crash(p)
        PROVE  NoWriteConflict'
    BY <1>7 DEF Crash
  <1>8. ASSUME NEW p \in Procs,
               Get(p) \/ GetSentinel(p) \/ ResolveFlag(p) \/ SelectRow(p)
                 \/ BeginShutdown(p) \/ SendSentinel(p) \/ FinishShutdown(p) \/ Restart(p)
        PROVE  NoWriteConflict'
    BY <1>8 DEF Get, GetSentinel, ResolveFlag, SelectRow, SelectAndCount, BeginShutdown,
                SendSentinel, FinishShutdown, Restart
  <1>9. ASSUME (\E f \in Flag : CreateFlag(f)) \/ Tick \/ UNCHANGED vars
        PROVE  NoWriteConflict'
    BY <1>9 DEF CreateFlag, Tick, vars
  <1> QED
    BY <1>2, <1>3, <1>4, <1>5, <1>6, <1>7, <1>8, <1>9 DEF Next, ProcStep, WorkerStep

(* "One writer means no concurrent UPSERT conflicts" (event_queue.py:49):  *)
(* true when the process is the only one.                                  *)
THEOREM SingleProcessNoConflict == ASSUME OneProcess PROVE Spec => []NoWriteConflict
  <1>1. Init => TypeInv /\ ExactInv /\ NoWriteConflict
    BY TypeInit, ExactInit DEF Init, NoWriteConflict
  <1>2. TypeInv /\ ExactInv /\ NoWriteConflict /\ [Next]_vars
          => TypeInv' /\ ExactInv' /\ NoWriteConflict'
    BY TypeNext, ExactNext, ConflictFree
  <1> QED BY <1>1, <1>2, PTL DEF Spec

(***************************************************************************)
(* AcceptedIsHeld, for any number of processes.                            *)
(***************************************************************************)

(* The sentinel goes on the queue after the last request has, so nothing   *)
(* is ever behind it; once the worker took it the queue stays empty.       *)
SentinelLast(p) ==
    /\ life[p] \in {"serving", "closing"} =>
          pc[p] # "exited" /\ \A i \in DOMAIN queue[p] : queue[p][i] # None
    /\ life[p] = "draining" =>
          /\ inflight[p] = {}
          /\ pc[p] = "exited" => queue[p] = <<>>
          /\ \A i \in DOMAIN queue[p] : queue[p][i] = None => i = Len(queue[p])
    /\ life[p] \in {"stopped", "down"} =>
          inflight[p] = {} /\ queue[p] = <<>>

HeldInv == AcceptedIsHeld /\ \A p \in Procs : SentinelLast(p)

LEMMA HeldInit == ASSUME Init PROVE HeldInv
  BY DEF Init, HeldInv, AcceptedIsHeld, SentinelLast

(* A queue after put() and after get(). *)
LEMMA QueuePut ==
  ASSUME TypeOK, NEW p \in Procs, NEW x \in Batches \cup {None}, Put(p, x)
  PROVE  /\ Len(queue[p]) \in Nat
         /\ DOMAIN queue[p] = 1 .. Len(queue[p])
         /\ DOMAIN queue'[p] = 1 .. (Len(queue[p]) + 1)
         /\ Len(queue'[p]) = Len(queue[p]) + 1
         /\ queue'[p][Len(queue[p]) + 1] = x
         /\ \A i \in 1 .. Len(queue[p]) : queue'[p][i] = queue[p][i]
         /\ \A q \in Procs : q # p => queue'[q] = queue[q]
  <1>1. queue[p] \in Seq(Batches \cup {None}) /\ queue'[p] = Append(queue[p], x)
    BY DEF TypeOK, Put
  <1>2. \A q \in Procs : q # p => queue'[q] = queue[q]
    BY DEF TypeOK, Put
  <1>3. Append(queue[p], x) \in Seq(Batches \cup {None})
    BY <1>1, AppendProperties
  <1> QED BY <1>1, <1>2, <1>3, AppendProperties, LenProperties

LEMMA TailOf ==
  ASSUME NEW S, NEW s \in Seq(S), s # <<>>
  PROVE  /\ Len(s) \in Nat \ {0} /\ DOMAIN s = 1 .. Len(s)
         /\ s[1] = Head(s)
         /\ Tail(s) \in Seq(S) /\ Len(Tail(s)) = Len(s) - 1
         /\ DOMAIN Tail(s) = 1 .. (Len(s) - 1)
         /\ \A i \in 1 .. (Len(s) - 1) : Tail(s)[i] = s[i + 1]
  <1>1. /\ Head(s) = s[1] /\ Tail(s) \in Seq(S) /\ Len(Tail(s)) = Len(s) - 1
        /\ \A i \in 1 .. Len(Tail(s)) : Tail(s)[i] = s[i + 1]
    BY HeadTailProperties
  <1>2. Len(s) \in Nat /\ DOMAIN s = 1 .. Len(s)
    BY LenProperties
  <1>3. DOMAIN Tail(s) = 1 .. Len(Tail(s))
    BY <1>1, LenProperties
  <1>4. Len(s) # 0
    BY EmptySeq
  <1>5. Len(s) \in Nat \ {0}
    BY <1>2, <1>4
  <1> QED BY <1>1, <1>2, <1>3, <1>5

LEMMA QueueGet ==
  ASSUME TypeOK, NEW p \in Procs, queue[p] # <<>>,
         queue' = [queue EXCEPT ![p] = Tail(@)]
  PROVE  /\ Len(queue[p]) \in Nat \ {0} /\ DOMAIN queue[p] = 1 .. Len(queue[p])
         /\ queue[p][1] = Head(queue[p])
         /\ queue'[p] \in Seq(Batches \cup {None})
         /\ Len(queue'[p]) = Len(queue[p]) - 1
         /\ DOMAIN queue'[p] = 1 .. (Len(queue[p]) - 1)
         /\ \A i \in 1 .. (Len(queue[p]) - 1) : queue'[p][i] = queue[p][i + 1]
         /\ \A q \in Procs : q # p => queue'[q] = queue[q]
  <1>1. queue[p] \in Seq(Batches \cup {None}) /\ queue'[p] = Tail(queue[p])
    BY DEF TypeOK
  <1>2. \A q \in Procs : q # p => queue'[q] = queue[q]
    BY DEF TypeOK
  <1> DEFINE old == queue[p]
  <1>3. /\ Len(old) \in Nat \ {0} /\ DOMAIN old = 1 .. Len(old)
        /\ old[1] = Head(old)
        /\ Tail(old) \in Seq(Batches \cup {None}) /\ Len(Tail(old)) = Len(old) - 1
        /\ DOMAIN Tail(old) = 1 .. (Len(old) - 1)
        /\ \A i \in 1 .. (Len(old) - 1) : Tail(old)[i] = old[i + 1]
    <2>1. old \in Seq(Batches \cup {None}) /\ old # <<>>
      BY <1>1
    <2> HIDE DEF old
    <2> QED BY <2>1, TailOf
  <1> QED BY <1>1, <1>2, <1>3

(* A process that a step does not touch keeps what it held. *)
LEMMA HoldsUntouched ==
  ASSUME NEW q, NEW b, Holds(q, b),
         life'[q] = life[q], pc'[q] = pc[q], cur'[q] = cur[q], queue'[q] = queue[q]
  PROVE  Holds(q, b)'
  BY DEF Holds

LEMMA HeldNext == ASSUME TypeInv, HeldInv, [Next]_vars PROVE HeldInv'
  <1> USE DEF HeldInv
  <1>0. TypeOK /\ \A q \in Procs : WorkerShape(q)
    BY DEF TypeInv
  <1>1. ASSUME NEW p \in Procs, NEW b \in Batches, Receive(p, b)
        PROVE  HeldInv'
    BY <1>0, <1>1 DEF Receive, AcceptedIsHeld, SentinelLast, Holds, worker, TypeOK
  <1>a. ASSUME NEW p \in Procs, NEW b \in Batches, Reject(p, b)
        PROVE  HeldInv'
    BY <1>0, <1>a DEF Reject, AcceptedIsHeld, SentinelLast, Holds, worker, TypeOK
  <1>2. ASSUME NEW p \in Procs, NEW b \in Batches, Enqueue(p, b)
        PROVE  HeldInv'
    <2>1. Put(p, b) /\ b # None
      BY <1>2, NoneIsFresh DEF Enqueue, NoneIsFresh
    <2>2. life[p] \in {"serving", "closing"}
      BY <1>0, <1>2 DEF Enqueue, SentinelLast, TypeOK, Alive
    <2>3. /\ life' = life /\ pc' = pc /\ cur' = cur
          /\ \A q \in Procs : inflight'[q] \subseteq inflight[q]
          /\ outcome' = [outcome EXCEPT ![b] = "accepted"]
      BY <1>0, <1>2 DEF Enqueue, worker, TypeOK
    <2>4. Holds(p, b)'
      BY <1>0, <2>1, <2>2, <2>3, QueuePut DEF Holds, SentinelLast, Alive
    <2>5. ASSUME NEW c \in Batches, c # b, outcome'[c] = "accepted"
          PROVE  \E q \in Procs : Holds(q, c)'
      <3>1. PICK q \in Procs : Holds(q, c)
        BY <1>0, <2>3, <2>5 DEF AcceptedIsHeld, TypeOK
      <3>2. CASE q = p
        BY <1>0, <2>1, <2>3, <3>1, <3>2, QueuePut DEF Holds
      <3>3. CASE q # p
        BY <1>0, <2>1, <2>3, <3>1, <3>3, QueuePut DEF Holds
      <3> QED BY <3>2, <3>3
    <2>6. \A q \in Procs : SentinelLast(q)'
      BY <1>0, <2>1, <2>2, <2>3, QueuePut DEF SentinelLast
    <2> QED BY <2>4, <2>5, <2>6 DEF AcceptedIsHeld
  <1>3. ASSUME NEW p \in Procs, Get(p)
        PROVE  HeldInv'
    <2>1. /\ queue[p] # <<>> /\ queue' = [queue EXCEPT ![p] = Tail(@)]
          /\ life' = life /\ inflight' = inflight /\ outcome' = outcome
          /\ cur'[p] = Head(queue[p]) /\ pc[p] = "get" /\ pc'[p] = "resolve"
          /\ \A q \in Procs : q # p => pc'[q] = pc[q] /\ cur'[q] = cur[q]
      BY <1>0, <1>3 DEF Get, TypeOK
    <2>a. /\ Len(queue[p]) \in Nat \ {0} /\ DOMAIN queue[p] = 1 .. Len(queue[p])
          /\ queue[p][1] = Head(queue[p])
          /\ Len(queue'[p]) = Len(queue[p]) - 1
          /\ DOMAIN queue'[p] = 1 .. (Len(queue[p]) - 1)
          /\ \A i \in 1 .. (Len(queue[p]) - 1) : queue'[p][i] = queue[p][i + 1]
          /\ \A q \in Procs : q # p => queue'[q] = queue[q]
      BY <1>0, <2>1, QueueGet
    <2>2. ASSUME NEW c \in Batches, outcome'[c] = "accepted"
          PROVE  \E q \in Procs : Holds(q, c)'
      <3>1. PICK q \in Procs : Holds(q, c)
        BY <2>1, <2>2 DEF AcceptedIsHeld
      <3>2. CASE q # p
        BY <2>1, <2>a, <3>1, <3>2, HoldsUntouched
      <3>3. CASE q = p
        <4>1. cur[p] # c
          BY <1>0, <2>1, NoneIsFresh DEF WorkerShape, NoneIsFresh
        <4>2. PICK i \in DOMAIN queue[p] :
                 queue[p][i] = c /\ \A j \in 1 .. i : queue[p][j] # None
          BY <3>1, <3>3, <4>1 DEF Holds
        <4>3. CASE i = 1
          BY <2>1, <2>a, <3>1, <3>3, <4>2, <4>3 DEF Holds
        <4>4. CASE i # 1
          <5>1. /\ i - 1 \in DOMAIN queue'[p]
                /\ queue'[p][i - 1] = c
                /\ \A j \in 1 .. (i - 1) : queue'[p][j] # None
            <6>1. i \in 1 .. Len(queue[p]) /\ i - 1 \in 1 .. (Len(queue[p]) - 1)
              BY <2>a, <4>2, <4>4
            <6>2. i - 1 \in DOMAIN queue'[p] /\ queue'[p][i - 1] = c
              BY <2>a, <4>2, <6>1
            <6>3. ASSUME NEW j \in 1 .. (i - 1) PROVE queue'[p][j] # None
              <7>1. j \in 1 .. (Len(queue[p]) - 1) /\ j + 1 \in 1 .. i
                BY <2>a, <6>1
              <7> QED BY <2>a, <4>2, <7>1
            <6> QED BY <6>2, <6>3
          <5> QED BY <2>1, <3>1, <3>3, <5>1 DEF Holds
        <4> QED BY <4>3, <4>4
      <3> QED BY <3>2, <3>3
    <2>3. SentinelLast(p)'
      <3>1. ASSUME NEW i \in DOMAIN queue'[p]
            PROVE  i + 1 \in DOMAIN queue[p] /\ queue'[p][i] = queue[p][i + 1]
        BY <2>a
      <3>2. life[p] \in {"serving", "closing"} =>
               pc'[p] # "exited" /\ \A i \in DOMAIN queue'[p] : queue'[p][i] # None
        BY <2>1, <3>1 DEF SentinelLast
      <3>3. ASSUME life[p] = "draining", NEW i \in DOMAIN queue'[p], queue'[p][i] = None
            PROVE  i = Len(queue'[p])
        <4>1. i + 1 = Len(queue[p])
          BY <3>1, <3>3 DEF SentinelLast
        <4>2. i \in Int
          BY <2>a
        <4> QED BY <2>a, <4>1, <4>2
      <3>4. life[p] = "draining" => inflight'[p] = {} /\ pc'[p] # "exited"
        BY <2>1 DEF SentinelLast
      <3>5. life[p] \notin {"stopped", "down"}
        BY <2>1 DEF SentinelLast
      <3> QED BY <2>1, <3>2, <3>3, <3>4, <3>5 DEF SentinelLast
    <2>4. \A q \in Procs : q # p => SentinelLast(q)'
      BY <2>1, <2>a DEF SentinelLast
    <2> QED BY <2>2, <2>3, <2>4 DEF AcceptedIsHeld
  <1>4. ASSUME NEW p \in Procs, GetSentinel(p)
        PROVE  HeldInv'
    <2>1. /\ queue[p] # <<>> /\ queue' = [queue EXCEPT ![p] = Tail(@)]
          /\ Head(queue[p]) = None
          /\ life' = life /\ inflight' = inflight /\ outcome' = outcome /\ cur' = cur
          /\ pc[p] = "get" /\ pc'[p] = "exited"
          /\ \A q \in Procs : q # p => pc'[q] = pc[q]
      BY <1>0, <1>4 DEF GetSentinel, TypeOK, worker
    <2>a. /\ Len(queue[p]) \in Nat \ {0} /\ DOMAIN queue[p] = 1 .. Len(queue[p])
          /\ queue[p][1] = Head(queue[p])
          /\ Len(queue'[p]) = Len(queue[p]) - 1
          /\ queue'[p] \in Seq(Batches \cup {None})
          /\ \A q \in Procs : q # p => queue'[q] = queue[q]
      BY <1>0, <2>1, QueueGet
    <2>2. ASSUME NEW c \in Batches PROVE ~Holds(p, c)
      <3>1. cur[p] # c
        BY <1>0, <2>1, NoneIsFresh DEF WorkerShape, NoneIsFresh
      <3>2. queue[p][1] = None
        BY <2>1, <2>a
      <3>3. \A i \in DOMAIN queue[p] : 1 \in 1 .. i
        BY <2>a
      <3> QED BY <3>1, <3>2, <3>3 DEF Holds
    <2>3. ASSUME NEW c \in Batches, outcome'[c] = "accepted"
          PROVE  \E q \in Procs : Holds(q, c)'
      <3>1. PICK q \in Procs : Holds(q, c)
        BY <2>1, <2>3 DEF AcceptedIsHeld
      <3>2. q # p
        BY <2>2, <3>1
      <3> QED BY <2>1, <2>a, <3>1, <3>2, HoldsUntouched
    <2>4. life[p] = "draining" /\ queue'[p] = <<>>
      <3>a. 1 \in DOMAIN queue[p] /\ queue[p][1] = None
        BY <2>1, <2>a
      <3>b. life[p] \in {"serving", "closing", "draining", "stopped", "down"}
        BY <1>0 DEF TypeOK, Alive
      <3>1. life[p] = "draining"
        BY <2>1, <3>a, <3>b DEF SentinelLast
      <3>2. 1 = Len(queue[p])
        BY <3>a, <3>1 DEF SentinelLast
      <3>3. Len(queue'[p]) = 0
        BY <2>a, <3>2
      <3> QED BY <2>a, <3>1, <3>3, EmptySeq
    <2>5. \A q \in Procs : q # p => SentinelLast(q)'
      BY <2>1, <2>a DEF SentinelLast
    <2>6. SentinelLast(p)'
      BY <2>1, <2>4 DEF SentinelLast
    <2> QED BY <2>3, <2>5, <2>6 DEF AcceptedIsHeld
  <1>5. ASSUME NEW p \in Procs, NEW why,
               /\ pc[p] \in {"resolve", "select"}
               /\ outcome' = [outcome EXCEPT ![cur[p]] = why]
               /\ why # "accepted"
               /\ pc' = [pc EXCEPT ![p] = "get"]
               /\ cur' = [cur EXCEPT ![p] = None]
               /\ UNCHANGED <<life, inflight, queue>>
        PROVE  HeldInv'
    <2>1. ASSUME NEW c \in Batches, outcome'[c] = "accepted"
          PROVE  \E q \in Procs : Holds(q, c)'
      <3>1. c # cur[p] /\ outcome[c] = "accepted"
        BY <1>0, <1>5, <2>1 DEF TypeOK
      <3>2. PICK q \in Procs : Holds(q, c)
        BY <3>1 DEF AcceptedIsHeld
      <3> QED BY <1>0, <1>5, <3>1, <3>2 DEF Holds, TypeOK
    <2>2. \A q \in Procs : SentinelLast(q)'
      BY <1>0, <1>5 DEF SentinelLast, TypeOK
    <2> QED BY <2>1, <2>2 DEF AcceptedIsHeld
  <1>6. ASSUME NEW p \in Procs, NEW why \in Dropped,
               pc[p] \in {"resolve", "select"}, Rollback(p, why)
        PROVE  HeldInv'
    BY <1>5, <1>6 DEF Rollback, Dropped
  <1>7. ASSUME NEW p \in Procs, Flush(p)
        PROVE  HeldInv'
    <2>1. CASE FlushWrites(p)
      BY <2>1 DEF FlushWrites, AcceptedIsHeld, Holds, SentinelLast
    <2> QED BY <1>6, <1>7, <2>1 DEF Flush, Dropped
  <1>8. ASSUME NEW p \in Procs, DeadlockAbort(p)
        PROVE  HeldInv'
    <2>1. pc[p] \in {"resolve", "select"}
      BY <1>0, <1>8 DEF DeadlockAbort, WaitsFor, TypeOK, WorkerShape
    <2> QED BY <1>6, <1>8, <2>1 DEF DeadlockAbort, Dropped
  <1>9. ASSUME NEW p \in Procs, Commit(p)
        PROVE  HeldInv'
    BY <1>5, <1>9 DEF Commit, Counted
  <1>10. ASSUME NEW p \in Procs, DatabaseError(p)
         PROVE  HeldInv'
    BY <1>6, <1>10 DEF DatabaseError, Dropped
  <1>11. ASSUME NEW p \in Procs, ResolveFlag(p) \/ SelectRow(p)
         PROVE  HeldInv'
    <2>1. /\ UNCHANGED <<life, inflight, queue, cur, outcome>>
          /\ pc[p] # "exited"
          /\ pc'[p] # "exited"
          /\ \A q \in Procs : q # p => pc'[q] = pc[q]
      BY <1>0, <1>11 DEF ResolveFlag, SelectRow, SelectAndCount, TypeOK
    <2> QED BY <2>1 DEF AcceptedIsHeld, Holds, SentinelLast
  <1>12. ASSUME NEW p \in Procs, BeginShutdown(p)
         PROVE  HeldInv'
    <2>1. /\ life[p] = "serving" /\ life'[p] = "closing"
          /\ \A q \in Procs : q # p => life'[q] = life[q]
          /\ UNCHANGED <<inflight, queue, pc, cur, outcome>>
      BY <1>0, <1>12 DEF BeginShutdown, worker, TypeOK
    <2>2. \A q \in Procs : life[q] \in Alive => life'[q] \in Alive
      BY <2>1 DEF Alive
    <2>3. AcceptedIsHeld'
      BY <2>1, <2>2 DEF AcceptedIsHeld, Holds
    <2>4. \A q \in Procs : SentinelLast(q)'
      BY <2>1 DEF SentinelLast
    <2> QED BY <2>3, <2>4
  <1>13. ASSUME NEW p \in Procs, SendSentinel(p)
         PROVE  HeldInv'
    <2>1. /\ Put(p, None) /\ life[p] = "closing" /\ inflight[p] = {}
          /\ life'[p] = "draining"
          /\ \A q \in Procs : q # p => life'[q] = life[q]
          /\ UNCHANGED <<inflight, pc, cur, outcome>>
      BY <1>0, <1>13 DEF SendSentinel, worker, TypeOK
    <2>2. ASSUME NEW c \in Batches, outcome'[c] = "accepted"
          PROVE  \E q \in Procs : Holds(q, c)'
      <3>1. PICK q \in Procs : Holds(q, c)
        BY <2>1, <2>2 DEF AcceptedIsHeld
      <3>2. CASE q = p
        BY <1>0, <2>1, <3>1, <3>2, QueuePut DEF Holds, Alive
      <3>3. CASE q # p
        BY <1>0, <2>1, <3>1, <3>3, QueuePut, HoldsUntouched
      <3> QED BY <3>2, <3>3
    <2>3. \A q \in Procs : SentinelLast(q)'
      BY <1>0, <2>1, QueuePut DEF SentinelLast
    <2> QED BY <2>2, <2>3 DEF AcceptedIsHeld
  <1>14. ASSUME NEW p \in Procs, FinishShutdown(p)
         PROVE  HeldInv'
    <2>1. /\ life[p] = "draining" /\ life'[p] = "stopped" /\ pc[p] = "exited"
          /\ \A q \in Procs : q # p => life'[q] = life[q]
          /\ UNCHANGED <<inflight, queue, pc, cur, outcome>>
      BY <1>0, <1>14 DEF FinishShutdown, worker, TypeOK
    <2>2. \A b \in Batches : ~Holds(p, b)
      BY <2>1 DEF Holds
    <2>3. AcceptedIsHeld'
      <3>1. ASSUME NEW c \in Batches, outcome'[c] = "accepted"
            PROVE  \E q \in Procs : Holds(q, c)'
        <4>1. PICK q \in Procs : Holds(q, c)
          BY <2>1, <3>1 DEF AcceptedIsHeld
        <4>2. q # p
          BY <2>2, <4>1
        <4> QED BY <2>1, <4>1, <4>2, HoldsUntouched
      <3> QED BY <3>1 DEF AcceptedIsHeld
    <2>4. SentinelLast(p)'
      BY <2>1 DEF SentinelLast
    <2>5. \A q \in Procs : q # p => SentinelLast(q)'
      BY <2>1 DEF SentinelLast
    <2> QED BY <2>3, <2>4, <2>5
  <1>15. ASSUME NEW p \in Procs, Crash(p)
         PROVE  HeldInv'
    <2>1. /\ \A q \in Procs : q # p =>
                life'[q] = life[q] /\ pc'[q] = pc[q] /\ cur'[q] = cur[q] /\ queue'[q] = queue[q]
                  /\ inflight'[q] = inflight[q]
          /\ life'[p] = "down" /\ inflight'[p] = {} /\ queue'[p] = <<>>
      BY <1>0, <1>15 DEF Crash, TypeOK
    <2>2. ASSUME NEW c \in Batches, outcome'[c] = "accepted"
          PROVE  \E q \in Procs : Holds(q, c)'
      <3>1. /\ outcome[c] = "accepted" /\ c # cur[p]
            /\ \A i \in DOMAIN queue[p] : queue[p][i] # c
        BY <1>15, <2>2 DEF Crash
      <3>2. PICK q \in Procs : Holds(q, c)
        BY <3>1 DEF AcceptedIsHeld
      <3>3. q # p
        BY <3>1, <3>2 DEF Holds
      <3> QED BY <2>1, <3>2, <3>3, HoldsUntouched
    <2>3. \A q \in Procs : SentinelLast(q)'
      BY <2>1 DEF SentinelLast
    <2> QED BY <2>2, <2>3 DEF AcceptedIsHeld
  <1>16. ASSUME NEW p \in Procs, Restart(p)
         PROVE  HeldInv'
    <2>1. /\ life[p] = "down" /\ life'[p] = "serving" /\ pc'[p] = "get"
          /\ \A q \in Procs : q # p => life'[q] = life[q] /\ pc'[q] = pc[q]
          /\ UNCHANGED <<inflight, queue, cur, outcome>>
      BY <1>0, <1>16 DEF Restart, worker, TypeOK
    <2> QED BY <1>0, <2>1 DEF AcceptedIsHeld, Holds, SentinelLast, Alive
  <1>17. ASSUME (\E f \in Flag : CreateFlag(f)) \/ Tick \/ UNCHANGED vars
         PROVE  HeldInv'
    BY <1>17 DEF CreateFlag, Tick, vars, worker, AcceptedIsHeld, Holds, SentinelLast
  <1> QED
    BY <1>1, <1>a, <1>2, <1>3, <1>4, <1>7, <1>8, <1>9, <1>10, <1>11, <1>12, <1>13, <1>14,
       <1>15, <1>16, <1>17
    DEF Next, ProcStep, WorkerStep

(* A batch that was answered 202 is never stranded by a shutdown, whatever *)
(* the other processes, their crashes and restarts do.                     *)
THEOREM ShutdownStrandsNothing == Spec => []AcceptedIsHeld
  <1>1. Init => TypeInv /\ HeldInv
    BY TypeInit, HeldInit
  <1>2. TypeInv /\ HeldInv /\ [Next]_vars => TypeInv' /\ HeldInv'
    BY TypeNext, HeldNext
  <1>3. HeldInv => AcceptedIsHeld
    BY DEF HeldInv
  <1> QED BY <1>1, <1>2, <1>3, PTL DEF Spec
=============================================================================
