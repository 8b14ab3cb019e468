--------------------------- MODULE EventPipeline ---------------------------
(***************************************************************************)
(* The analytics ingestion pipeline: POST /api/v1/analytics/events, the    *)
(* in-memory queue, the worker that drains it and the transaction of       *)
(* EventRepository.ingest_batch, in every uvicorn process that             *)
(* entrypoint.sh starts (--workers 2), over the one event_aggregations     *)
(* table.                                                                  *)
(*                                                                         *)
(* One step is what the code does between two awaits: a SELECT, the flush  *)
(* of a pending write (autoflush runs it before the next SELECT), the      *)
(* COMMIT, one queue operation.  The database is Postgres at READ          *)
(* COMMITTED, external to src/: a row that a transaction wrote is locked   *)
(* until it ends, and a flush that needs such a row waits.                 *)
(*                                                                         *)
(* Time is counted in half hours, so that a time zone whose offset is not  *)
(* a whole number of hours can be told from one whose offset is.           *)
(***************************************************************************)
EXTENDS Integers, Sequences, FiniteSets

CONSTANTS
    Procs,        \* uvicorn worker processes, each with its own queue
    Projects,     \* project ids
    Names,        \* flag keys
    Variations,   \* values of an event's "variation"
    Oversize,     \* the variations longer than the column's String(50)
    InitFlags,    \* the rows of the flags table at the start
    Batches,      \* the POSTs that clients will send
    Project,      \* the project of the API key a batch is sent with
    Events,       \* the events of a batch
    MaxTime,      \* bound: the clock stops here
    MaxCrashes,   \* bound: kills of a process
    None          \* Python's None: shutdown sentinel, absent timestamp...

Flag  == [project : Projects, name : Names]
Hours == -1 .. MaxTime
Row   == [flag : Flag, hour : Hours, variation : Variations]
Stamp == [t : 0 .. MaxTime, off : {0, 1}]
Event == [key : Names, variation : Variations, ts : Stamp \cup {None}]
Write == [row : Row, count : Nat \ {0}, insert : BOOLEAN]

ASSUME ParametersTyped ==
    /\ InitFlags \subseteq Flag
    /\ Oversize \subseteq Variations
    /\ Project \in [Batches -> Projects]
    /\ \A b \in Batches :
          /\ Len(Events[b]) \in Nat \ {0}
          /\ DOMAIN Events[b] = 1 .. Len(Events[b])
          /\ \A i \in DOMAIN Events[b] : Events[b][i] \in Event
    /\ MaxTime \in Nat
    /\ MaxCrashes \in Nat

ASSUME NoneIsFresh ==
    None \notin Batches /\ None \notin Row /\ None \notin Write /\ None \notin Stamp

VARIABLES
    flags,      \* the flags table, archived rows included
    agg,        \* committed event_aggregations: the row's count, 0 for no row
    now,        \* datetime.now(timezone.utc)
    life,       \* where each process is in its life
    inflight,   \* requests of a process that are still in their handler
    queue,      \* _event_queue
    pc,         \* where event_worker is
    cur,        \* the batch event_worker is processing
    landed,     \* for each event processed so far: its row, None if skipped
    pending,    \* the write the session holds but has not flushed
    written,    \* count flushed by the open transaction, 0 where it wrote none
    crashes,    \* how many kills there were
    outcome,    \* history: what became of each batch
    credited    \* history: events that committed batches counted as processed,
                \*   whether or not the worker came to know of the commit

vars == <<flags, agg, now, life, inflight, queue, pc, cur, landed, pending,
          written, crashes, outcome, credited>>
worker == <<cur, landed, pending, written>>
shared == <<flags, agg, now, credited, crashes>>
-----------------------------------------------------------------------------
Alive == {"serving", "closing", "draining"}
Dropped == {"conflict", "failed", "lost"}
Counted == {"committed", "unreported"}   \* unreported: logged as failed, though in the table
Settled == Dropped \cup Counted

NoWrites == [r \in Row |-> 0]

(* ts.replace(minute=0, second=0, microsecond=0) in the timestamp's zone,  *)
(* as an instant: with a half-hour offset the result is at half past.      *)
Trunc(s) == s.t - ((s.t + s.off) % 2)
HourOf(e) == Trunc(IF e.ts = None THEN [t |-> now, off |-> 0] ELSE e.ts)

Current(p) == Events[cur[p]][Len(landed[p]) + 1]
Exhausted(p) == Len(landed[p]) = Len(Events[cur[p]])
(* Faulty: the flag is looked up by its key in every project. *)
FlagOfAnyProject(p) ==
    IF \E f \in flags : f.name = Current(p).key
       THEN CHOOSE f \in flags : f.name = Current(p).key
       ELSE [project |-> Project[cur[p]], name |-> Current(p).key]

FlagOf(p) == [project |-> Project[cur[p]], name |-> Current(p).key]
RowOf(p) == [flag |-> FlagOf(p), hour |-> HourOf(Current(p)),
             variation |-> Current(p).variation]

(* What `processed` counts for row r in the batch p works on. *)
Occurrences(s, r) == Cardinality({i \in DOMAIN s : s[i] = r})
Landings(p, r) == Occurrences(landed[p], r)

(* p's next flush needs a row that q's open transaction has written. *)
WaitsFor(p, q) ==
    /\ p # q
    /\ pending[p] # None
    /\ written[q][pending[p].row] # 0
Blocked(p) == \E q \in Procs : WaitsFor(p, q)
-----------------------------------------------------------------------------
Init ==
    /\ flags = InitFlags
    /\ agg = NoWrites
    /\ now = 0
    /\ life = [p \in Procs |-> "serving"]
    /\ inflight = [p \in Procs |-> {}]
    /\ queue = [p \in Procs |-> <<>>]
    /\ pc = [p \in Procs |-> "get"]
    /\ cur = [p \in Procs |-> None]
    /\ landed = [p \in Procs |-> <<>>]
    /\ pending = [p \in Procs |-> None]
    /\ written = [p \in Procs |-> NoWrites]
    /\ crashes = 0
    /\ outcome = [b \in Batches |-> "new"]
    /\ credited = NoWrites

(***************************************************************************)
(* The route.                                                              *)
(***************************************************************************)

(* The queue is unbounded: put() never waits. *)
Put(p, item) == queue' = [queue EXCEPT ![p] = Append(@, item)]

(* The request enters its dependencies, which await the database. *)
Receive(p, b) ==
    /\ life[p] = "serving"
    /\ outcome[b] = "new"
    /\ inflight' = [inflight EXCEPT ![p] = @ \cup {b}]
    /\ outcome' = [outcome EXCEPT ![b] = "sent"]
    /\ UNCHANGED <<life, queue, pc, worker, shared>>

(* ingest_events puts the batch on the queue and answers 202. *)
Enqueue(p, b) ==
    /\ b \in inflight[p]
    /\ inflight' = [inflight EXCEPT ![p] = @ \ {b}]
    /\ Put(p, b)
    /\ outcome' = [outcome EXCEPT ![b] = "accepted"]
    /\ UNCHANGED <<life, pc, worker, shared>>

(* The API key is unknown or revoked (401), or its lookup fails (500). *)
Reject(p, b) ==
    /\ b \in inflight[p]
    /\ inflight' = [inflight EXCEPT ![p] = @ \ {b}]
    /\ outcome' = [outcome EXCEPT ![b] = "refused"]
    /\ UNCHANGED <<life, queue, pc, worker, shared>>

(***************************************************************************)
(* event_worker and ingest_batch.                                          *)
(***************************************************************************)
Get(p) ==
    /\ pc[p] = "get"
    /\ queue[p] # <<>>
    /\ Head(queue[p]) # None
    /\ queue' = [queue EXCEPT ![p] = Tail(@)]
    /\ cur' = [cur EXCEPT ![p] = Head(queue[p])]
    /\ pc' = [pc EXCEPT ![p] = "resolve"]
    /\ UNCHANGED <<life, inflight, landed, pending, written, outcome, shared>>

(* Faulty: the sentinel is taken but the loop goes on. *)
GetSentinelNoBreak(p) ==
    /\ pc[p] = "get"
    /\ queue[p] # <<>>
    /\ Head(queue[p]) = None
    /\ queue' = [queue EXCEPT ![p] = Tail(@)]
    /\ UNCHANGED <<life, inflight, pc, worker, outcome, shared>>

GetSentinel(p) ==
    /\ pc[p] = "get"
    /\ queue[p] # <<>>
    /\ Head(queue[p]) = None
    /\ queue' = [queue EXCEPT ![p] = Tail(@)]
    /\ pc' = [pc EXCEPT ![p] = "exited"]
    /\ UNCHANGED <<life, inflight, worker, outcome, shared>>

(* The first SELECT of the loop body.  (project_id, name) is unique and a  *)
(* row of flags is never deleted, so the flag found is FlagOf(p) from here *)
(* on.  is_archived is not in the WHERE clause.                            *)
ResolveFlag(p) ==
    /\ pc[p] = "resolve"
    /\ pending[p] = None
    /\ ~Exhausted(p)
    /\ IF FlagOf(p) \in flags
          THEN /\ pc' = [pc EXCEPT ![p] = "select"]
               /\ UNCHANGED landed
          ELSE /\ landed' = [landed EXCEPT ![p] = Append(@, None)]
               /\ UNCHANGED pc
    /\ UNCHANGED <<life, inflight, queue, cur, pending, written, outcome, shared>>

(* The rest of the loop body, from a row count as the SELECT returns it. *)
SelectAndCount(p, found, count) ==
    /\ pc[p] = "select"
    /\ pending' = [pending EXCEPT ![p] =
                     [row |-> RowOf(p), count |-> count, insert |-> found = 0]]
    /\ landed' = [landed EXCEPT ![p] = Append(@, RowOf(p))]
    /\ pc' = [pc EXCEPT ![p] = "resolve"]
    /\ UNCHANGED <<life, inflight, queue, cur, written, outcome, shared>>

(* A transaction sees its own flushed write, else the committed row. *)
Visible(p, r) == IF written[p][r] # 0 THEN written[p][r] ELSE agg[r]

(* Faulty: the count is not incremented. *)
SelectRowNoIncrement(p) == SelectAndCount(p, Visible(p, RowOf(p)), Visible(p, RowOf(p)))
(* Faulty: autoflush is off, the SELECT misses the batch's own writes. *)
SelectRowNoAutoflush(p) == SelectAndCount(p, agg[RowOf(p)], agg[RowOf(p)] + 1)
(* Faulty: every event is inserted as a row of its own. *)
SelectRowBlindInsert(p) == SelectAndCount(p, 0, 1)

SelectRow(p) == SelectAndCount(p, Visible(p, RowOf(p)), Visible(p, RowOf(p)) + 1)

(* Faulty: a failed batch's writes stay in a session that is used again. *)
RollbackKeepsWrites(p, why) ==
    /\ outcome' = [outcome EXCEPT ![cur[p]] = why]
    /\ pc' = [pc EXCEPT ![p] = "get"]
    /\ cur' = [cur EXCEPT ![p] = None]
    /\ landed' = [landed EXCEPT ![p] = <<>>]
    /\ pending' = [pending EXCEPT ![p] = None]
    /\ UNCHANGED <<life, inflight, queue, written, shared>>

(* Faulty: the exception is re-raised and ends the worker's task. *)
RollbackReraises(p, why) ==
    /\ outcome' = [outcome EXCEPT ![cur[p]] = why]
    /\ pc' = [pc EXCEPT ![p] = "exited"]
    /\ cur' = [cur EXCEPT ![p] = None]
    /\ landed' = [landed EXCEPT ![p] = <<>>]
    /\ pending' = [pending EXCEPT ![p] = None]
    /\ written' = [written EXCEPT ![p] = NoWrites]
    /\ UNCHANGED <<life, inflight, queue, shared>>

(* `except Exception`: leaving the session rolls back, the batch is logged *)
(* and forgotten, the worker goes on with the next item.                   *)
Rollback(p, why) ==
    /\ outcome' = [outcome EXCEPT ![cur[p]] = why]
    /\ pc' = [pc EXCEPT ![p] = "get"]
    /\ cur' = [cur EXCEPT ![p] = None]
    /\ landed' = [landed EXCEPT ![p] = <<>>]
    /\ pending' = [pending EXCEPT ![p] = None]
    /\ written' = [written EXCEPT ![p] = NoWrites]
    /\ UNCHANGED <<life, inflight, queue, shared>>

(* Faulty: each write is committed on its own. *)
FlushAutocommits(p) ==
    /\ agg' = [agg EXCEPT ![pending[p].row] = pending[p].count]
    /\ pending' = [pending EXCEPT ![p] = None]
    /\ UNCHANGED <<flags, now, life, inflight, queue, pc, cur, landed, written,
                   crashes, outcome, credited>>

(* UPDATE ... SET count = <the number Python computed>, or the INSERT. *)
FlushWrites(p) ==
    /\ written' = [written EXCEPT ![p][pending[p].row] = pending[p].count]
    /\ pending' = [pending EXCEPT ![p] = None]
    /\ UNCHANGED <<life, inflight, queue, pc, cur, landed, outcome, shared>>

Flush(p) ==
    /\ pc[p] = "resolve"
    /\ pending[p] # None
    /\ ~Blocked(p)
    /\ IF pending[p].insert /\ pending[p].row.variation \in Oversize
          THEN Rollback(p, "failed")
          ELSE IF pending[p].insert /\ agg[pending[p].row] # 0
                  THEN Rollback(p, "conflict")
                  ELSE FlushWrites(p)

(* Postgres ends one of the transactions that wait for each other. *)
DeadlockAbort(p) ==
    /\ \E ring \in SUBSET Procs :
          /\ p \in ring
          /\ \A q \in ring : \E s \in ring : WaitsFor(q, s)
          /\ \A q \in ring : \E s \in ring : WaitsFor(s, q)
    /\ Rollback(p, "conflict")

(* Faulty: the commit does not flush the last event's write. *)
CommitUnflushed(p) ==
    /\ pc[p] = "resolve"
    /\ Exhausted(p)
    /\ agg' = [r \in Row |-> Visible(p, r)]
    /\ credited' = [r \in Row |-> credited[r] + Landings(p, r)]
    /\ outcome' = [outcome EXCEPT ![cur[p]] = "committed"]
    /\ pc' = [pc EXCEPT ![p] = "get"]
    /\ cur' = [cur EXCEPT ![p] = None]
    /\ landed' = [landed EXCEPT ![p] = <<>>]
    /\ pending' = [pending EXCEPT ![p] = None]
    /\ written' = [written EXCEPT ![p] = NoWrites]
    /\ UNCHANGED <<flags, now, life, inflight, queue, crashes>>

(* db.commit() once every event is through the loop; `processed` is the    *)
(* number of events that were not skipped.  When the COMMIT is carried out *)
(* but its reply is lost, the worker logs the batch as failed.             *)
Commit(p) ==
    /\ pc[p] = "resolve"
    /\ pending[p] = None
    /\ Exhausted(p)
    /\ agg' = [r \in Row |-> Visible(p, r)]
    /\ credited' = [r \in Row |-> credited[r] + Landings(p, r)]
    /\ \E fate \in Counted : outcome' = [outcome EXCEPT ![cur[p]] = fate]
    /\ pc' = [pc EXCEPT ![p] = "get"]
    /\ cur' = [cur EXCEPT ![p] = None]
    /\ landed' = [landed EXCEPT ![p] = <<>>]
    /\ written' = [written EXCEPT ![p] = NoWrites]
    /\ UNCHANGED <<flags, now, life, inflight, queue, pending, crashes>>

(* Any other exception in the try block: no connection, a timeout... *)
DatabaseError(p) ==
    /\ pc[p] \in {"resolve", "select"}
    /\ Rollback(p, "failed")

(***************************************************************************)
(* The life of a process.                                                  *)
(***************************************************************************)

(* SIGTERM: uvicorn closes its sockets and waits for open requests. *)
BeginShutdown(p) ==
    /\ life[p] = "serving"
    /\ life' = [life EXCEPT ![p] = "closing"]
    /\ UNCHANGED <<inflight, queue, pc, worker, outcome, shared>>

(* Faulty: the sentinel does not wait for open requests. *)
SendSentinelEarly(p) ==
    /\ life[p] = "closing"
    /\ Put(p, None)
    /\ life' = [life EXCEPT ![p] = "draining"]
    /\ UNCHANGED <<inflight, pc, worker, outcome, shared>>

(* lifespan after its yield. *)
SendSentinel(p) ==
    /\ life[p] = "closing"
    /\ inflight[p] = {}
    /\ Put(p, None)
    /\ life' = [life EXCEPT ![p] = "draining"]
    /\ UNCHANGED <<inflight, pc, worker, outcome, shared>>

(* `await worker_task` returns. *)
FinishShutdown(p) ==
    /\ life[p] = "draining"
    /\ pc[p] = "exited"
    /\ life' = [life EXCEPT ![p] = "stopped"]
    /\ UNCHANGED <<inflight, queue, pc, worker, outcome, shared>>

(* SIGKILL, out of memory, power: the queue was only in memory, Postgres   *)
(* rolls the open transaction back, open requests are never answered.      *)
Crash(p) ==
    /\ life[p] \in Alive
    /\ crashes < MaxCrashes
    /\ crashes' = crashes + 1
    /\ life' = [life EXCEPT ![p] = "down"]
    /\ outcome' = [b \in Batches |->
          IF b \in inflight[p] THEN "refused"
          ELSE IF b = cur[p] \/ \E i \in DOMAIN queue[p] : queue[p][i] = b THEN "lost"
          ELSE outcome[b]]
    /\ inflight' = [inflight EXCEPT ![p] = {}]
    /\ queue' = [queue EXCEPT ![p] = <<>>]
    /\ pc' = [pc EXCEPT ![p] = "exited"]
    /\ cur' = [cur EXCEPT ![p] = None]
    /\ landed' = [landed EXCEPT ![p] = <<>>]
    /\ pending' = [pending EXCEPT ![p] = None]
    /\ written' = [written EXCEPT ![p] = NoWrites]
    /\ UNCHANGED <<flags, agg, now, credited>>

(* uvicorn's supervisor starts a process in its place; lifespan begins. *)
Restart(p) ==
    /\ life[p] = "down"
    /\ life' = [life EXCEPT ![p] = "serving"]
    /\ pc' = [pc EXCEPT ![p] = "get"]
    /\ UNCHANGED <<inflight, queue, worker, outcome, shared>>

(***************************************************************************)
(* The environment.                                                        *)
(***************************************************************************)
CreateFlag(f) ==
    /\ f \notin flags
    /\ flags' = flags \cup {f}
    /\ UNCHANGED <<agg, now, life, inflight, queue, pc, worker, crashes, outcome,
                   credited>>

Tick ==
    /\ now < MaxTime
    /\ now' = now + 1
    /\ UNCHANGED <<flags, agg, life, inflight, queue, pc, worker, crashes, outcome,
                   credited>>
-----------------------------------------------------------------------------
WorkerStep(p) ==
    \/ Get(p) \/ GetSentinel(p)
    \/ ResolveFlag(p) \/ SelectRow(p) \/ Flush(p) \/ DeadlockAbort(p) \/ Commit(p)

ProcStep(p) ==
    \/ \E b \in Batches : Receive(p, b) \/ Enqueue(p, b) \/ Reject(p, b)
    \/ WorkerStep(p)
    \/ DatabaseError(p)
    \/ BeginShutdown(p) \/ SendSentinel(p) \/ FinishShutdown(p)
    \/ Crash(p) \/ Restart(p)

Next ==
    \/ \E p \in Procs : ProcStep(p)
    \/ \E f \in Flag : CreateFlag(f)
    \/ Tick

Spec == Init /\ [][Next]_vars

(* An event loop that is not blocked runs every ready task; Postgres grants *)
(* a released lock and detects deadlocks.  Nothing is assumed of clients,   *)
(* signals, errors, refusals, crashes, restarts or the clock.               *)
Fairness ==
    \A p \in Procs :
       /\ WF_vars(WorkerStep(p))
       /\ \A b \in Batches : WF_vars(Enqueue(p, b))
       /\ WF_vars(SendSentinel(p))
       /\ WF_vars(FinishShutdown(p))

FairSpec == Spec /\ Fairness
-----------------------------------------------------------------------------
(***************************************************************************)
(* What the pipeline promises.                                             *)
(***************************************************************************)

(* The state keeps its shape; a row or a write with count 0 never exists.  *)
TypeOK ==
    /\ flags \subseteq Flag
    /\ agg \in [Row -> Nat]
    /\ now \in 0 .. MaxTime
    /\ life \in [Procs -> Alive \cup {"stopped", "down"}]
    /\ inflight \in [Procs -> SUBSET Batches]
    /\ queue \in [Procs -> Seq(Batches \cup {None})]
    /\ pc \in [Procs -> {"get", "resolve", "select", "exited"}]
    /\ cur \in [Procs -> Batches \cup {None}]
    /\ landed \in [Procs -> Seq(Row \cup {None})]
    /\ pending \in [Procs -> Write \cup {None}]
    /\ written \in [Procs -> [Row -> Nat]]
    /\ crashes \in 0 .. MaxCrashes
    /\ outcome \in [Batches -> Settled \cup {"new", "sent", "accepted", "refused"}]
    /\ credited \in [Row -> Nat]

(* No row of event_aggregations ever holds more than the events of the     *)
(* batches whose COMMIT was carried out: failed, rolled back and crashed   *)
(* batches leave nothing behind, nothing is counted twice, whatever number *)
(* of processes interleave their read-modify-writes.                       *)
NoOvercount == \A r \in Row : agg[r] <= credited[r]

(* A row for which a batch with an event was committed exists: racing      *)
(* workers may lose counts (see CountsExact), never the whole row.         *)
RowPresent == \A r \in Row : credited[r] # 0 => agg[r] # 0

(* Every event of a committed batch is in the table, exactly once:         *)
(* "increment if exists, insert if not" (event_repo.py:76).                *)
CountsExact == \A r \in Row : agg[r] = credited[r]

(* No batch is rolled back because of another writer: "One writer means no *)
(* concurrent UPSERT conflicts" (event_queue.py:49).                       *)
NoWriteConflict == \A b \in Batches : outcome[b] # "conflict"

(* Event i of batch b belongs in row r: the project is that of the API key *)
(* the batch came with, the hour that of the event.                        *)
Fits(b, i, r) ==
    LET e == Events[b][i] IN
    /\ r.flag = [project |-> Project[b], name |-> e.key]
    /\ r.variation = e.variation
    /\ IF e.ts = None THEN r.hour \in {Trunc([t |-> c, off |-> 0]) : c \in 0 .. now}
                      ELSE r.hour = Trunc(e.ts)

CommittedEvents(r) ==
    UNION {{<<b, i>> : i \in {j \in DOMAIN Events[b] : Fits(b, j, r)}} :
           b \in {c \in Batches : outcome[c] \in Counted}}

(* What a row counts is explained by committed batches of its own project, *)
(* with its own flag key and variation, in its own hour: no key of one     *)
(* project ever feeds the analytics of another.                            *)
Explained == \A r \in Row : agg[r] <= Cardinality(CommittedEvents(r))

(* A batch that was answered 202 and is not settled is where a running     *)
(* worker will come to it: in its hands, or in its queue before the        *)
(* shutdown sentinel.  Shutdown strands nothing.                           *)
Holds(p, b) ==
    /\ life[p] \in Alive
    /\ pc[p] # "exited"
    /\ \/ cur[p] = b
       \/ \E i \in DOMAIN queue[p] :
             queue[p][i] = b /\ \A j \in 1 .. i : queue[p][j] # None

AcceptedIsHeld ==
    \A b \in Batches : outcome[b] = "accepted" => \E p \in Procs : Holds(p, b)

(* Every accepted batch is eventually counted, dropped with a log line, or *)
(* lost with its process: one failing batch does not stop the worker.      *)
AcceptedSettles ==
    \A b \in Batches : outcome[b] = "accepted" ~> outcome[b] \in Settled

(* A process that is told to stop does stop, however much is queued.       *)
ShutdownCompletes ==
    \A p \in Procs : life[p] = "closing" ~> life[p] \in {"stopped", "down"}

(* The rows event i of batch b may be counted in; None, not counted at     *)
(* all, only for a flag that did not exist from the start.                 *)
MayLand(b, i) ==
    {r \in Row : /\ r.flag = [project |-> Project[b], name |-> Events[b][i].key]
                 /\ r.variation = Events[b][i].variation
                 /\ IF Events[b][i].ts = None THEN r.hour % 2 = 0
                                              ELSE r.hour = Trunc(Events[b][i].ts)}
    \cup (IF [project |-> Project[b], name |-> Events[b][i].key] \in InitFlags
             THEN {} ELSE {None})

Ways == [b \in Batches |-> {s \in [DOMAIN Events[b] -> Row \cup {None}] :
                               \A i \in DOMAIN s : s[i] \in MayLand(b, i)}]

Stages == [b \in Batches |->
             CASE outcome[b] \in Dropped -> "dropped"
               [] outcome[b] \in Counted -> "counted"
               [] outcome[b] = "accepted" -> "accepted"
               [] OTHER -> "offered"]

Ledger == INSTANCE EventLedger WITH Rows <- Row, counts <- agg, stage <- Stages
Shared == INSTANCE SharedLedger WITH
    Rows <- Row, counts <- agg, stage <- Stages, credited <- credited

(* With one process the whole pipeline is, to its clients, a ledger that   *)
(* counts each accepted batch in one indivisible step or not at all.       *)
ImplementsLedger == Ledger!Spec

(* With any number of processes it is a ledger whose rows may lose counts  *)
(* to the batch that is counted next, but only in the rows of that batch,  *)
(* and never the events of the batch itself.                               *)
ImplementsSharedLedger == Shared!SharedSpec
=============================================================================
