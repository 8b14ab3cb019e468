------------------------- MODULE EventLedgerProofs -------------------------
(***************************************************************************)
(* What becomes of a batch, for every number of batches, projects and      *)
(* every bound: no batch is ever in two places, the table is explained by  *)
(* the committed batches, the pipeline implements SharedLedger (all for    *)
(* any number of processes) and EventLedger (one process).                 *)
(***************************************************************************)
EXTENDS EventPipelineProofs

(***************************************************************************)
(* Where the batches are.  Slot 0 of a process is its worker's hands, slot *)
(* k > 0 the k-th place of its queue.                                      *)
(***************************************************************************)
Item(p, k) == IF k = 0 THEN cur[p] ELSE queue[p][k]
Slots(p) == 0 .. Len(queue[p])

(* An open request holds a batch that was sent and no other request holds; *)
(* a slot holds a batch that was accepted and is not settled, and no other *)
(* slot of any process holds it.                                           *)
OwnInv ==
    /\ \A p \in Procs : \A b \in inflight[p] : outcome[b] = "sent"
    /\ \A p, q \in Procs : \A b \in inflight[p] : b \in inflight[q] => p = q
    /\ \A p \in Procs : \A k \in Slots(p) :
          Item(p, k) # None => outcome[Item(p, k)] = "accepted"
    /\ \A p, q \in Procs : \A k \in Slots(p), l \in Slots(q) :
          Item(p, k) = Item(q, l) /\ Item(p, k) # None => p = q /\ k = l

(***************************************************************************)
(* What a step can do to the places, the outcomes and the table.           *)
(***************************************************************************)
Uncounted == UNCHANGED <<agg, credited>>

Idle == UNCHANGED <<inflight, queue, cur, outcome, agg, credited>>

Received(p, b) ==
    /\ outcome[b] = "new"
    /\ inflight' = [inflight EXCEPT ![p] = @ \cup {b}]
    /\ outcome' = [outcome EXCEPT ![b] = "sent"]
    /\ UNCHANGED <<queue, cur>>
    /\ Uncounted

Enqueued(p, b) ==
    /\ b \in inflight[p]
    /\ inflight' = [inflight EXCEPT ![p] = @ \ {b}]
    /\ Put(p, b)
    /\ outcome' = [outcome EXCEPT ![b] = "accepted"]
    /\ UNCHANGED cur
    /\ Uncounted

Rejected(p, b) ==
    /\ b \in inflight[p]
    /\ inflight' = [inflight EXCEPT ![p] = @ \ {b}]
    /\ outcome' = [outcome EXCEPT ![b] = "refused"]
    /\ UNCHANGED <<queue, cur>>
    /\ Uncounted

(* The sentinel is put on the queue. *)
Marked(p) ==
    /\ Put(p, None)
    /\ UNCHANGED <<inflight, cur, outcome>>
    /\ Uncounted

(* The head of the queue is taken: a batch, or the sentinel. *)
Taken(p) ==
    /\ queue[p] # <<>>
    /\ queue' = [queue EXCEPT ![p] = Tail(@)]
    /\ cur[p] = None
    /\ cur' = [cur EXCEPT ![p] = Head(queue[p])]
    /\ UNCHANGED <<inflight, outcome>>
    /\ Uncounted

(* The worker is done with its batch. *)
Ended(p, why) ==
    /\ cur[p] \in Batches
    /\ outcome' = [outcome EXCEPT ![cur[p]] = why]
    /\ cur' = [cur EXCEPT ![p] = None]
    /\ UNCHANGED <<inflight, queue>>

(* The process is gone with all it held. *)
Killed(p) ==
    /\ outcome' = [b \in Batches |->
          IF b \in inflight[p] THEN "refused"
          ELSE IF b = cur[p] \/ \E i \in DOMAIN queue[p] : queue[p][i] = b THEN "lost"
          ELSE outcome[b]]
    /\ inflight' = [inflight EXCEPT ![p] = {}]
    /\ queue' = [queue EXCEPT ![p] = <<>>]
    /\ cur' = [cur EXCEPT ![p] = None]
    /\ Uncounted

PlaceStep(p) ==
    \/ \E b \in Batches : Received(p, b) \/ Enqueued(p, b) \/ Rejected(p, b)
    \/ Marked(p)
    \/ Taken(p)
    \/ \E why \in Dropped : Ended(p, why) /\ Uncounted
    \/ \E fate \in Counted : Ended(p, fate) /\ Commit(p)
    \/ Killed(p)

(* Every step of the pipeline is one of these. *)
LEMMA PlaceKinds ==
  ASSUME TypeInv, [Next]_vars
  PROVE  Idle \/ \E p \in Procs : PlaceStep(p)
  <1>1. ASSUME NEW p \in Procs, NEW b \in Batches, Receive(p, b) \/ Enqueue(p, b) \/ Reject(p, b)
        PROVE  Received(p, b) \/ Enqueued(p, b) \/ Rejected(p, b)
    BY <1>1 DEF Receive, Enqueue, Reject, Received, Enqueued, Rejected, Uncounted, worker, shared
  <1>2. ASSUME NEW p \in Procs, Get(p)
        PROVE  Taken(p)
    BY <1>2 DEF Get, Taken, Uncounted, shared, TypeInv, WorkerShape
  <1>3. ASSUME NEW p \in Procs, GetSentinel(p)
        PROVE  Taken(p)
    <2>1. cur[p] = None /\ cur' = cur /\ Head(queue[p]) = None
      BY <1>3 DEF GetSentinel, worker, TypeInv, WorkerShape
    <2>2. cur' = [cur EXCEPT ![p] = Head(queue[p])]
      BY <2>1 DEF TypeInv, TypeOK
    <2> QED BY <1>3, <2>1, <2>2 DEF GetSentinel, Taken, Uncounted, shared
  <1>4. ASSUME NEW p \in Procs,
               \/ ResolveFlag(p) \/ SelectRow(p)
               \/ BeginShutdown(p) \/ FinishShutdown(p) \/ Restart(p)
        PROVE  Idle
    BY <1>4 DEF ResolveFlag, SelectRow, SelectAndCount, BeginShutdown, FinishShutdown,
                Restart, Idle, worker, shared
  <1>5. ASSUME NEW p \in Procs, SendSentinel(p)
        PROVE  Marked(p)
    BY <1>5 DEF SendSentinel, Marked, Uncounted, worker, shared
  <1>6. ASSUME NEW p \in Procs, pc[p] \in {"resolve", "select"}
        PROVE  cur[p] \in Batches
    BY <1>6 DEF TypeInv, WorkerShape
  <1>7. ASSUME NEW p \in Procs, NEW why, pc[p] \in {"resolve", "select"}, Rollback(p, why)
        PROVE  Ended(p, why) /\ Uncounted
    BY <1>6, <1>7 DEF Rollback, Ended, Uncounted, shared
  <1>8. ASSUME NEW p \in Procs, Flush(p)
        PROVE  Idle \/ \E why \in Dropped : Ended(p, why) /\ Uncounted
    <2>1. CASE FlushWrites(p)
      BY <2>1 DEF FlushWrites, Idle, shared
    <2> QED BY <1>7, <1>8, <2>1 DEF Flush, Dropped
  <1>9. ASSUME NEW p \in Procs, DeadlockAbort(p) \/ DatabaseError(p)
        PROVE  \E why \in Dropped : Ended(p, why) /\ Uncounted
    <2>1. pc[p] \in {"resolve", "select"}
      BY <1>9 DEF DeadlockAbort, DatabaseError, WaitsFor, TypeInv, TypeOK, WorkerShape
    <2> QED BY <1>7, <1>9, <2>1 DEF DeadlockAbort, DatabaseError, Dropped
  <1>10. ASSUME NEW p \in Procs, Commit(p)
         PROVE  \E fate \in Counted : Ended(p, fate)
    BY <1>6, <1>10 DEF Commit, Ended
  <1>11. ASSUME NEW p \in Procs, Crash(p)
         PROVE  Killed(p)
    BY <1>11 DEF Crash, Killed, Uncounted
  <1>12. ASSUME (\E f \in Flag : CreateFlag(f)) \/ Tick \/ UNCHANGED vars
         PROVE  Idle
    BY <1>12 DEF CreateFlag, Tick, vars, Idle, worker
  <1> QED
    BY <1>1, <1>2, <1>3, <1>4, <1>5, <1>8, <1>9, <1>10, <1>11, <1>12
    DEF Next, ProcStep, WorkerStep, PlaceStep

(***************************************************************************)
(* No batch is ever in two places.                                         *)
(***************************************************************************)
LEMMA SlotsType ==
  ASSUME TypeInv, NEW p \in Procs
  PROVE  /\ Len(queue[p]) \in Nat
         /\ DOMAIN queue[p] = 1 .. Len(queue[p])
         /\ 0 \in Slots(p) /\ Slots(p) \subseteq Nat
         /\ \A k \in Slots(p) : Item(p, k) \in Batches \cup {None}
  <1>1. queue[p] \in Seq(Batches \cup {None}) /\ cur[p] \in Batches \cup {None}
    BY DEF TypeInv, TypeOK
  <1>2. /\ Len(queue[p]) \in Nat /\ DOMAIN queue[p] = 1 .. Len(queue[p])
        /\ \A k \in 1 .. Len(queue[p]) : queue[p][k] \in Batches \cup {None}
    BY <1>1, LenProperties, ElementOfSeq
  <1> QED BY <1>1, <1>2 DEF Slots, Item

(* What each kind of step does to the slots. *)
LEMMA SlotsPut ==
  ASSUME TypeInv, NEW p \in Procs, NEW x \in Batches \cup {None}, Put(p, x), cur' = cur,
         NEW new, new = Len(queue[p]) + 1
  PROVE  /\ \A q \in Procs : \A k \in Slots(q) : Item(q, k)' = Item(q, k)
         /\ \A q \in Procs : q # p => Slots(q)' = Slots(q)
         /\ Slots(p)' = Slots(p) \cup {new}
         /\ Item(p, new)' = x
  <1>1. /\ Len(queue[p]) \in Nat
        /\ Len(queue'[p]) = Len(queue[p]) + 1
        /\ queue'[p][Len(queue[p]) + 1] = x
        /\ \A i \in 1 .. Len(queue[p]) : queue'[p][i] = queue[p][i]
        /\ \A q \in Procs : q # p => queue'[q] = queue[q]
    BY QueuePut DEF TypeInv
  <1>2. \A q \in Procs : q # p => Slots(q)' = Slots(q) /\ \A k : Item(q, k)' = Item(q, k)
    BY <1>1 DEF Slots, Item
  <1>3. \A k \in Slots(p) : Item(p, k)' = Item(p, k)
    BY <1>1 DEF Slots, Item
  <1>4. Slots(p)' = Slots(p) \cup {new}
    BY <1>1 DEF Slots
  <1>5. Item(p, new)' = x
    BY <1>1 DEF Item
  <1> QED BY <1>2, <1>3, <1>4, <1>5

LEMMA SlotsTaken ==
  ASSUME TypeInv, NEW p \in Procs, Taken(p)
  PROVE  /\ \A q \in Procs : q # p =>
               Slots(q)' = Slots(q) /\ \A k \in Slots(q) : Item(q, k)' = Item(q, k)
         /\ \A k \in Slots(p)' : k + 1 \in Slots(p) /\ Item(p, k)' = Item(p, k + 1)
  <1>1. /\ Len(queue[p]) \in Nat \ {0}
        /\ queue[p][1] = Head(queue[p])
        /\ Len(queue'[p]) = Len(queue[p]) - 1
        /\ \A i \in 1 .. (Len(queue[p]) - 1) : queue'[p][i] = queue[p][i + 1]
        /\ \A q \in Procs : q # p => queue'[q] = queue[q]
    BY QueueGet DEF TypeInv, Taken
  <1>2. cur'[p] = Head(queue[p]) /\ \A q \in Procs : q # p => cur'[q] = cur[q]
    BY DEF Taken, TypeInv, TypeOK
  <1>3. ASSUME NEW k \in Slots(p)'
        PROVE  k + 1 \in Slots(p) /\ Item(p, k)' = Item(p, k + 1)
    <2>1. k \in 0 .. (Len(queue[p]) - 1)
      BY <1>1 DEF Slots
    <2>2. CASE k = 0
      BY <1>1, <1>2, <2>1, <2>2 DEF Slots, Item
    <2>3. CASE k # 0
      BY <1>1, <2>1, <2>3 DEF Slots, Item
    <2> QED BY <2>2, <2>3
  <1>4. \A q \in Procs : q # p =>
           Slots(q)' = Slots(q) /\ \A k \in Slots(q) : Item(q, k)' = Item(q, k)
    BY <1>1, <1>2 DEF Slots, Item
  <1> QED BY <1>3, <1>4

(* Emptying the worker's hands, the queue being kept. *)
LEMMA SlotsEnded ==
  ASSUME TypeInv, NEW p \in Procs, cur' = [cur EXCEPT ![p] = None], queue' = queue
  PROVE  \A q \in Procs :
            /\ Slots(q)' = Slots(q)
            /\ \A k \in Slots(q) :
                  Item(q, k)' = IF q = p /\ k = 0 THEN None ELSE Item(q, k)
  <1>1. \A q \in Procs : Slots(q)' = Slots(q)
    BY DEF Slots
  <1>2. \A q \in Procs : cur'[q] = IF q = p THEN None ELSE cur[q]
    BY DEF TypeInv, TypeOK
  <1> QED BY <1>1, <1>2 DEF Item

LEMMA SlotsKilled ==
  ASSUME TypeInv, NEW p \in Procs, Killed(p)
  PROVE  /\ \A q \in Procs : q # p =>
               Slots(q)' = Slots(q) /\ \A k \in Slots(q) : Item(q, k)' = Item(q, k)
         /\ Slots(p)' = {0} /\ Item(p, 0)' = None
         /\ \A b \in Batches :
               (\A k \in Slots(p) : Item(p, k) # b) /\ b \notin inflight[p]
                  => outcome'[b] = outcome[b]
  <1>1. /\ cur'[p] = None /\ queue'[p] = <<>>
        /\ \A q \in Procs : q # p => cur'[q] = cur[q] /\ queue'[q] = queue[q]
    BY DEF Killed, TypeInv, TypeOK
  <1>2. Slots(p)' = {0} /\ Item(p, 0)' = None
    <2>1. Len(queue'[p]) = 0
      BY <1>1
    <2> QED BY <1>1, <2>1 DEF Slots, Item
  <1>3. \A q \in Procs : q # p =>
           Slots(q)' = Slots(q) /\ \A k \in Slots(q) : Item(q, k)' = Item(q, k)
    BY <1>1 DEF Slots, Item
  <1>4. ASSUME NEW b \in Batches, \A k \in Slots(p) : Item(p, k) # b, b \notin inflight[p]
        PROVE  outcome'[b] = outcome[b]
    <2>1. b # cur[p]
      BY <1>4, SlotsType DEF Item
    <2>2. \A i \in DOMAIN queue[p] : i \in Slots(p) /\ Item(p, i) = queue[p][i]
      BY SlotsType DEF Slots, Item
    <2> QED BY <1>4, <2>1, <2>2 DEF Killed
  <1> QED BY <1>2, <1>3, <1>4

LEMMA OwnInit == ASSUME Init PROVE OwnInv
  <1>1. \A p \in Procs : Slots(p) = {0} /\ Item(p, 0) = None
    BY DEF Init, Slots, Item
  <1>2. \A p \in Procs : inflight[p] = {}
    BY DEF Init
  <1> QED BY <1>1, <1>2 DEF OwnInv

LEMMA OwnNext == ASSUME TypeInv, OwnInv, [Next]_vars PROVE OwnInv'
  <1>0. /\ outcome \in [Batches -> Settled \cup {"new", "sent", "accepted", "refused"}]
        /\ inflight \in [Procs -> SUBSET Batches]
        /\ None \notin Batches
    BY NoneIsFresh DEF TypeInv, TypeOK, NoneIsFresh
  <1>1. \A q \in Procs : \A k \in Slots(q) : Item(q, k) \in Batches \cup {None}
    BY SlotsType
  <1>2. CASE Idle
    BY <1>2 DEF Idle, OwnInv, Slots, Item
  <1>3. ASSUME NEW p \in Procs, NEW b \in Batches, Received(p, b)
        PROVE  OwnInv'
    <2>1. \A q \in Procs : Slots(q)' = Slots(q) /\ \A k : Item(q, k)' = Item(q, k)
      BY <1>3 DEF Received, Slots, Item
    <2>2. /\ outcome[b] = "new" /\ outcome'[b] = "sent"
          /\ \A c \in Batches : c # b => outcome'[c] = outcome[c]
          /\ \A q \in Procs : inflight'[q] = IF q = p THEN inflight[q] \cup {b} ELSE inflight[q]
      BY <1>0, <1>3 DEF Received
    <2>3. \A q \in Procs : b \notin inflight[q]
      BY <2>2 DEF OwnInv
    <2>4. ASSUME NEW q \in Procs, NEW k \in Slots(q), Item(q, k) # None
          PROVE  outcome'[Item(q, k)] = "accepted"
      <3>1. outcome[Item(q, k)] = "accepted" /\ Item(q, k) \in Batches
        BY <1>1, <2>4 DEF OwnInv
      <3> QED BY <2>2, <3>1
    <2>a. ASSUME NEW q \in Procs, NEW c \in inflight'[q], c # b
          PROVE  c \in inflight[q] /\ c \in Batches /\ outcome[c] = "sent"
      <3>1. c \in inflight[q]
        BY <2>2, <2>a
      <3> QED BY <1>0, <3>1 DEF OwnInv
    <2>b. ASSUME NEW q \in Procs, b \in inflight'[q]
          PROVE  q = p
      BY <2>2, <2>3, <2>b
    <2>5. \A q \in Procs : \A c \in inflight'[q] : outcome'[c] = "sent"
      BY <2>2, <2>a
    <2>6. ASSUME NEW q \in Procs, NEW s \in Procs,
                 NEW c \in inflight'[q], c \in inflight'[s]
          PROVE  q = s
      BY <2>6, <2>a, <2>b DEF OwnInv
    <2>7. \A q, s \in Procs : \A k \in Slots(q)', l \in Slots(s)' :
             Item(q, k)' = Item(s, l)' /\ Item(q, k)' # None => q = s /\ k = l
      BY <2>1 DEF OwnInv
    <2>8. \A q \in Procs : \A k \in Slots(q)' :
             Item(q, k)' # None => outcome'[Item(q, k)'] = "accepted"
      BY <2>1, <2>4
    <2> QED BY <2>5, <2>6, <2>7, <2>8 DEF OwnInv
  <1>4. ASSUME NEW p \in Procs, NEW b \in Batches, Enqueued(p, b)
        PROVE  OwnInv'
    <2>1. /\ outcome[b] = "sent" /\ outcome'[b] = "accepted"
          /\ \A c \in Batches : c # b => outcome'[c] = outcome[c]
          /\ \A q \in Procs : inflight'[q] = inflight[q] \ {b}
      <3>1. /\ b \in inflight[p] /\ inflight' = [inflight EXCEPT ![p] = @ \ {b}]
            /\ outcome' = [outcome EXCEPT ![b] = "accepted"]
        BY <1>4 DEF Enqueued
      <3>2. \A q \in Procs : q # p => b \notin inflight[q]
        BY <3>1 DEF OwnInv
      <3>3. outcome[b] = "sent"
        BY <3>1 DEF OwnInv
      <3> QED BY <1>0, <3>1, <3>2, <3>3
    <2>a. PICK new : new = Len(queue[p]) + 1
      OBVIOUS
    <2>2. /\ \A q \in Procs : \A k \in Slots(q) : Item(q, k)' = Item(q, k)
          /\ \A q \in Procs : q # p => Slots(q)' = Slots(q)
          /\ Slots(p)' = Slots(p) \cup {new}
          /\ Item(p, new)' = b
      BY <1>4, <2>a, SlotsPut DEF Enqueued
    <2>3. \A q \in Procs : \A k \in Slots(q) : Item(q, k) # b
      BY <1>0, <2>1 DEF OwnInv
    <2>4. ASSUME NEW q \in Procs, NEW k \in Slots(q)', Item(q, k)' # None
          PROVE  outcome'[Item(q, k)'] = "accepted"
      BY <1>1, <2>1, <2>2, <2>4 DEF OwnInv
    <2>5. ASSUME NEW q \in Procs, NEW s \in Procs, NEW k \in Slots(q)', NEW l \in Slots(s)',
                 Item(q, k)' = Item(s, l)', Item(q, k)' # None
          PROVE  q = s /\ k = l
      BY <2>2, <2>3, <2>5 DEF OwnInv
    <2> QED BY <1>0, <2>1, <2>4, <2>5 DEF OwnInv
  <1>a. ASSUME NEW p \in Procs, NEW b \in Batches, Rejected(p, b)
        PROVE  OwnInv'
    <2>1. \A q \in Procs : Slots(q)' = Slots(q) /\ \A k : Item(q, k)' = Item(q, k)
      BY <1>a DEF Rejected, Slots, Item
    <2>2. /\ outcome[b] = "sent"
          /\ \A c \in Batches : c # b => outcome'[c] = outcome[c]
          /\ \A q \in Procs : inflight'[q] \subseteq inflight[q] /\ b \notin inflight'[q]
      <3>1. /\ b \in inflight[p] /\ inflight' = [inflight EXCEPT ![p] = @ \ {b}]
            /\ outcome' = [outcome EXCEPT ![b] = "refused"]
        BY <1>a DEF Rejected
      <3>2. \A q \in Procs : q # p => b \notin inflight[q]
        BY <3>1 DEF OwnInv
      <3>3. outcome[b] = "sent"
        BY <3>1 DEF OwnInv
      <3> QED BY <1>0, <3>1, <3>2, <3>3
    <2>3. \A q \in Procs : \A k \in Slots(q) : Item(q, k) # b
      BY <1>0, <2>2 DEF OwnInv
    <2>4. ASSUME NEW q \in Procs, NEW k \in Slots(q), Item(q, k) # None
          PROVE  outcome'[Item(q, k)] = "accepted"
      BY <1>1, <2>2, <2>3, <2>4 DEF OwnInv
    <2>5. ASSUME NEW q \in Procs, NEW c \in inflight'[q]
          PROVE  c \in inflight[q] /\ outcome'[c] = "sent"
      BY <1>0, <2>2, <2>5 DEF OwnInv
    <2>6. \A q, s \in Procs : \A c \in inflight'[q] : c \in inflight'[s] => q = s
      BY <2>2 DEF OwnInv
    <2>7. \A q, s \in Procs : \A k \in Slots(q)', l \in Slots(s)' :
             Item(q, k)' = Item(s, l)' /\ Item(q, k)' # None => q = s /\ k = l
      BY <2>1 DEF OwnInv
    <2>8. \A q \in Procs : \A k \in Slots(q)' :
             Item(q, k)' # None => outcome'[Item(q, k)'] = "accepted"
      BY <2>1, <2>4
    <2> QED BY <2>5, <2>6, <2>7, <2>8 DEF OwnInv
  <1>5. ASSUME NEW p \in Procs, Marked(p)
        PROVE  OwnInv'
    <2>a. PICK new : new = Len(queue[p]) + 1
      OBVIOUS
    <2>1. /\ \A q \in Procs : \A k \in Slots(q) : Item(q, k)' = Item(q, k)
          /\ \A q \in Procs : q # p => Slots(q)' = Slots(q)
          /\ Slots(p)' = Slots(p) \cup {new}
          /\ Item(p, new)' = None
      BY <1>5, <2>a, SlotsPut DEF Marked
    <2>2. inflight' = inflight /\ outcome' = outcome
      BY <1>5 DEF Marked
    <2> QED BY <2>1, <2>2 DEF OwnInv
  <1>6. ASSUME NEW p \in Procs, Taken(p)
        PROVE  OwnInv'
    <2>1. /\ \A q \in Procs : q # p =>
               Slots(q)' = Slots(q) /\ \A k \in Slots(q) : Item(q, k)' = Item(q, k)
          /\ \A k \in Slots(p)' : k + 1 \in Slots(p) /\ Item(p, k)' = Item(p, k + 1)
      BY <1>6, SlotsTaken
    <2>2. inflight' = inflight /\ outcome' = outcome
      BY <1>6 DEF Taken
    <2>3. Slots(p)' \subseteq Int
      BY DEF Slots
    <2>4. ASSUME NEW q \in Procs, NEW s \in Procs, NEW k \in Slots(q)', NEW l \in Slots(s)',
                 Item(q, k)' = Item(s, l)', Item(q, k)' # None
          PROVE  q = s /\ k = l
      <3>1. CASE q = p /\ s = p
        <4>1. k + 1 = l + 1 /\ k \in Int /\ l \in Int
          BY <2>1, <2>3, <2>4, <3>1 DEF OwnInv
        <4> QED BY <3>1, <4>1
      <3>2. CASE q # p /\ s = p
        BY <2>1, <2>4, <3>2 DEF OwnInv
      <3>3. CASE q = p /\ s # p
        BY <2>1, <2>4, <3>3 DEF OwnInv
      <3>4. CASE q # p /\ s # p
        BY <2>1, <2>4, <3>4 DEF OwnInv
      <3> QED BY <3>1, <3>2, <3>3, <3>4
    <2>5. ASSUME NEW q \in Procs, NEW k \in Slots(q)', Item(q, k)' # None
          PROVE  outcome'[Item(q, k)'] = "accepted"
      BY <2>1, <2>2, <2>5 DEF OwnInv
    <2> QED BY <2>2, <2>4, <2>5 DEF OwnInv
  <1>7. ASSUME NEW p \in Procs, NEW why, Ended(p, why)
        PROVE  OwnInv'
    <2>1. \A q \in Procs :
             /\ Slots(q)' = Slots(q)
             /\ \A k \in Slots(q) :
                   Item(q, k)' = IF q = p /\ k = 0 THEN None ELSE Item(q, k)
      BY <1>7, SlotsEnded DEF Ended
    <2>2. /\ 0 \in Slots(p) /\ Item(p, 0) = cur[p] /\ cur[p] \in Batches
          /\ outcome[cur[p]] = "accepted"
      BY <1>0, <1>7, SlotsType DEF Ended, Item, OwnInv
    <2>3. /\ inflight' = inflight
          /\ \A c \in Batches : c # cur[p] => outcome'[c] = outcome[c]
      BY <1>0, <1>7 DEF Ended
    <2>4. \A q \in Procs : cur[p] \notin inflight[q]
      BY <2>2 DEF OwnInv
    <2>5. ASSUME NEW q \in Procs, NEW k \in Slots(q), Item(q, k)' # None
          PROVE  Item(q, k)' = Item(q, k) /\ Item(q, k) # cur[p]
      BY <1>0, <2>1, <2>2, <2>5 DEF OwnInv
    <2> QED BY <1>0, <1>1, <2>1, <2>3, <2>4, <2>5 DEF OwnInv
  <1>8. ASSUME NEW p \in Procs, Killed(p)
        PROVE  OwnInv'
    <2>1. /\ \A q \in Procs : q # p =>
               Slots(q)' = Slots(q) /\ \A k \in Slots(q) : Item(q, k)' = Item(q, k)
          /\ Slots(p)' = {0} /\ Item(p, 0)' = None
          /\ \A b \in Batches :
               (\A k \in Slots(p) : Item(p, k) # b) /\ b \notin inflight[p]
                  => outcome'[b] = outcome[b]
      BY <1>8, SlotsKilled
    <2>2. \A q \in Procs : inflight'[q] = IF q = p THEN {} ELSE inflight[q]
      BY <1>0, <1>8 DEF Killed
    <2>3. ASSUME NEW q \in Procs, q # p, NEW b \in inflight[q]
          PROVE  outcome'[b] = "sent"
      <3>1. outcome[b] = "sent" /\ b \in Batches /\ b \notin inflight[p]
        BY <1>0, <2>3 DEF OwnInv
      <3>2. \A k \in Slots(p) : Item(p, k) # b
        BY <1>0, <3>1 DEF OwnInv
      <3> QED BY <2>1, <3>1, <3>2
    <2>4. ASSUME NEW q \in Procs, q # p, NEW k \in Slots(q), Item(q, k) # None
          PROVE  outcome'[Item(q, k)] = "accepted"
      <3>1. outcome[Item(q, k)] = "accepted" /\ Item(q, k) \in Batches
        BY <1>1, <2>4 DEF OwnInv
      <3>2. Item(q, k) \notin inflight[p] /\ \A l \in Slots(p) : Item(p, l) # Item(q, k)
        BY <2>4, <3>1 DEF OwnInv
      <3> QED BY <2>1, <3>1, <3>2
    <2> QED BY <2>1, <2>2, <2>3, <2>4 DEF OwnInv
  <1> QED
    BY <1>2, <1>3, <1>a, <1>4, <1>5, <1>6, <1>7, <1>8, PlaceKinds DEF PlaceStep

(* A batch is in the hands of one request, one place of one queue or one   *)
(* worker at a time, and is not settled while it is: no batch is processed *)
(* twice, whatever crashes and restarts.                                   *)
THEOREM NoBatchInTwoPlaces == Spec => []OwnInv
  <1>1. Init => TypeInv /\ OwnInv
    BY TypeInit, OwnInit
  <1>2. TypeInv /\ OwnInv /\ [Next]_vars => TypeInv' /\ OwnInv'
    BY TypeNext, OwnNext
  <1> QED BY <1>1, <1>2, PTL DEF Spec

(***************************************************************************)
(* Where the events of a batch land.                                       *)
(***************************************************************************)

(* An event that went through the loop body landed in a row of its own     *)
(* flag, hour and variation, or was skipped for a flag that did not exist  *)
(* from the start (no flag is ever deleted).                               *)
LandInv ==
    /\ InitFlags \subseteq flags
    /\ \A p \in Procs : \A i \in DOMAIN landed[p] :
          /\ landed[p][i] \in MayLand(cur[p], i)
          /\ landed[p][i] # None => Fits(cur[p], i, landed[p][i])

(* The hour of a clock reading is a whole hour. *)
LEMMA WholeHour ==
  ASSUME NEW t \in Nat PROVE Trunc([t |-> t, off |-> 0]) % 2 = 0
  BY DEF Trunc

LEMMA OnlyForward ==
  ASSUME TypeInv, [Next]_vars
  PROVE  flags \subseteq flags' /\ now \in Nat /\ now' \in Nat /\ now <= now'
  <1>1. TypeInv'
    BY TypeNext
  <1>2. now \in Nat /\ now' \in Nat
    BY <1>1 DEF TypeInv, TypeOK
  <1>3. ASSUME NEW p \in Procs, ProcStep(p) PROVE flags' = flags /\ now' = now
    BY <1>3 DEF ProcStep, WorkerStep, Receive, Enqueue, Reject, Get, GetSentinel, ResolveFlag,
                SelectRow, SelectAndCount, Flush, FlushWrites, Rollback, DeadlockAbort,
                Commit, DatabaseError, BeginShutdown, SendSentinel, FinishShutdown,
                Crash, Restart, shared
  <1>4. CASE (\E f \in Flag : CreateFlag(f)) \/ Tick \/ UNCHANGED vars
    BY <1>2, <1>4 DEF CreateFlag, Tick, vars
  <1> QED BY <1>2, <1>3, <1>4 DEF Next

(* An event fits its row at any later time. *)
LEMMA FitsLater ==
  ASSUME TypeInv, [Next]_vars, NEW b, NEW i, NEW r, Fits(b, i, r)
  PROVE  Fits(b, i, r)'
  <1>1. now \in Nat /\ now' \in Nat /\ now <= now'
    BY OnlyForward
  <1>2. 0 .. now \subseteq 0 .. now'
    BY <1>1
  <1> QED BY <1>2 DEF Fits

(* What a step can do to the landed events. *)
Kept ==
    /\ landed' = landed
    /\ \A q \in Procs : cur'[q] = cur[q] \/ landed[q] = <<>>

Reset(p) ==
    /\ landed' = [landed EXCEPT ![p] = <<>>]
    /\ \A q \in Procs : q # p => cur'[q] = cur[q]

Landed(p, x) ==
    /\ pc[p] \in {"resolve", "select"}
    /\ ~Exhausted(p)
    /\ landed' = [landed EXCEPT ![p] = Append(@, x)]
    /\ UNCHANGED <<cur, now>>
    /\ x = RowOf(p) \/ (x = None /\ FlagOf(p) \notin flags)

LEMMA LandKinds ==
  ASSUME TypeInv, [Next]_vars
  PROVE  \/ Kept
         \/ \E p \in Procs : Reset(p)
         \/ \E p \in Procs : Landed(p, None) \/ Landed(p, RowOf(p))
  <1>1. ASSUME NEW p \in Procs,
               \/ \E b \in Batches : Receive(p, b) \/ Enqueue(p, b) \/ Reject(p, b)
               \/ BeginShutdown(p) \/ SendSentinel(p) \/ FinishShutdown(p) \/ Restart(p)
               \/ FlushWrites(p)
        PROVE  Kept
    BY <1>1 DEF Receive, Enqueue, Reject, BeginShutdown, SendSentinel, FinishShutdown, Restart,
                FlushWrites, Kept, worker, shared
  <1>2. ASSUME NEW p \in Procs, Get(p) \/ GetSentinel(p)
        PROVE  Kept
    BY <1>2 DEF Get, GetSentinel, Kept, worker, shared, TypeInv, TypeOK, WorkerShape
  <1>3. ASSUME NEW p \in Procs, ResolveFlag(p)
        PROVE  Kept \/ Landed(p, None)
    BY <1>3 DEF ResolveFlag, Kept, Landed, shared
  <1>4. ASSUME NEW p \in Procs, SelectRow(p)
        PROVE  Landed(p, RowOf(p))
    BY <1>4 DEF SelectRow, SelectAndCount, Landed, Exhausted, shared, TypeInv, WorkerShape
  <1>5. ASSUME NEW p \in Procs, NEW why, Rollback(p, why)
        PROVE  Reset(p)
    BY <1>5 DEF Rollback, Reset, TypeInv, TypeOK
  <1>6. ASSUME NEW p \in Procs, Flush(p) \/ DeadlockAbort(p) \/ DatabaseError(p)
        PROVE  Kept \/ Reset(p)
    BY <1>1, <1>5, <1>6 DEF Flush, DeadlockAbort, DatabaseError
  <1>7. ASSUME NEW p \in Procs, Commit(p) \/ Crash(p)
        PROVE  Reset(p)
    BY <1>7 DEF Commit, Crash, Reset, TypeInv, TypeOK
  <1>8. ASSUME (\E f \in Flag : CreateFlag(f)) \/ Tick \/ UNCHANGED vars
        PROVE  Kept
    BY <1>8 DEF CreateFlag, Tick, vars, worker, Kept
  <1> QED
    BY <1>1, <1>2, <1>3, <1>4, <1>6, <1>7, <1>8 DEF Next, ProcStep, WorkerStep

(* The row a worker computes is one the event may land in, and fits. *)
LEMMA RowFits ==
  ASSUME TypeInv, NEW p \in Procs, pc[p] \in {"resolve", "select"}, ~Exhausted(p)
  PROVE  /\ RowOf(p) \in MayLand(cur[p], Len(landed[p]) + 1)
         /\ Fits(cur[p], Len(landed[p]) + 1, RowOf(p))
  <1> DEFINE e == Current(p)
  <1>1. e \in Event /\ RowOf(p) \in Row
    BY RowTyped
  <1>2. e = Events[cur[p]][Len(landed[p]) + 1]
    BY DEF Current
  <1>3. /\ RowOf(p).flag = [project |-> Project[cur[p]], name |-> e.key]
        /\ RowOf(p).variation = e.variation
        /\ RowOf(p).hour = HourOf(e)
    BY DEF RowOf, FlagOf
  <1>4. now \in Nat
    BY DEF TypeInv, TypeOK
  <1>5. e.ts = None => /\ HourOf(e) % 2 = 0
                       /\ HourOf(e) \in {Trunc([t |-> c, off |-> 0]) : c \in 0 .. now}
    BY <1>4, WholeHour DEF HourOf
  <1>6. e.ts # None => HourOf(e) = Trunc(e.ts)
    BY DEF HourOf
  <1> HIDE DEF e
  <1> QED BY <1>1, <1>2, <1>3, <1>5, <1>6 DEF MayLand, Fits

LEMMA LandInit == ASSUME Init PROVE LandInv
  BY DEF Init, LandInv

LEMMA LandNext == ASSUME TypeInv, LandInv, [Next]_vars PROVE LandInv'
  <1>1. InitFlags \subseteq flags'
    BY OnlyForward DEF LandInv
  <1>2. \A b, i, r : Fits(b, i, r) => Fits(b, i, r)'
    BY FitsLater
  <1>3. CASE Kept
    <2> SUFFICES ASSUME NEW p \in Procs, NEW i \in DOMAIN landed[p]
                 PROVE  /\ landed[p][i] \in MayLand(cur'[p], i)
                        /\ landed[p][i] # None => Fits(cur[p], i, landed[p][i])'
      BY <1>1, <1>3 DEF LandInv, Kept
    <2>1. cur'[p] = cur[p] /\ landed' = landed
      BY <1>3 DEF Kept
    <2> QED BY <1>2, <2>1 DEF LandInv, Fits
  <1>4. ASSUME NEW p \in Procs, Reset(p) PROVE LandInv'
    <2> SUFFICES ASSUME NEW q \in Procs, NEW i \in DOMAIN landed'[q]
                 PROVE  /\ landed'[q][i] \in MayLand(cur'[q], i)
                        /\ landed'[q][i] # None => Fits(cur[q], i, landed[q][i])'
      BY <1>1 DEF LandInv
    <2>1. q # p /\ landed'[q] = landed[q] /\ cur'[q] = cur[q]
      BY <1>4 DEF Reset, TypeInv, TypeOK
    <2> QED BY <1>2, <2>1 DEF LandInv, Fits
  <1>5. ASSUME NEW p \in Procs, NEW x, Landed(p, x) PROVE LandInv'
    <2>1. landed[p] \in Seq(Row \cup {None}) /\ Len(landed[p]) \in Nat
      BY LenProperties DEF TypeInv, TypeOK
    <2> DEFINE n == Len(landed[p]) + 1
    <2>2. RowOf(p) \in MayLand(cur[p], n) /\ Fits(cur[p], n, RowOf(p)) /\ RowOf(p) \in Row
      BY <1>5, RowFits, RowTyped DEF Landed
    <2>3. x \in Row \cup {None}
      BY <1>5, <2>2 DEF Landed
    <2>4. x \in MayLand(cur[p], n) /\ (x # None => Fits(cur[p], n, x))
      <3>1. CASE x = RowOf(p)
        BY <2>2, <3>1
      <3>2. CASE x = None /\ FlagOf(p) \notin flags
        <4>1. FlagOf(p) = [project |-> Project[cur[p]], name |-> Events[cur[p]][n].key]
          BY DEF FlagOf, Current
        <4>2. FlagOf(p) \notin InitFlags
          BY <3>2 DEF LandInv
        <4> HIDE DEF n
        <4> QED BY <3>2, <4>1, <4>2 DEF MayLand
      <3> QED BY <1>5, <3>1, <3>2 DEF Landed
    <2>5. /\ landed'[p] = Append(landed[p], x)
          /\ DOMAIN landed'[p] = DOMAIN landed[p] \cup {n}
          /\ landed'[p][n] = x
          /\ \A i \in DOMAIN landed[p] : landed'[p][i] = landed[p][i]
          /\ \A q \in Procs : q # p => landed'[q] = landed[q]
      <3>1. landed'[p] = Append(landed[p], x) /\ \A q \in Procs : q # p => landed'[q] = landed[q]
        BY <1>5 DEF Landed, TypeInv, TypeOK
      <3>2. DOMAIN landed[p] = 1 .. Len(landed[p])
        BY <2>1, LenProperties
      <3> QED BY <2>1, <2>3, <3>1, <3>2, AppendProperties
    <2>6. cur' = cur
      BY <1>5 DEF Landed
    <2> HIDE DEF n
    <2> SUFFICES ASSUME NEW q \in Procs, NEW i \in DOMAIN landed'[q]
                 PROVE  /\ landed'[q][i] \in MayLand(cur'[q], i)
                        /\ landed'[q][i] # None => Fits(cur[q], i, landed[q][i])'
      BY <1>1 DEF LandInv
    <2>7. landed'[q][i] \in MayLand(cur[q], i) /\ (landed'[q][i] # None => Fits(cur[q], i, landed'[q][i]))
      BY <2>4, <2>5 DEF LandInv
    <2> QED BY <1>2, <2>6, <2>7 DEF Fits
  <1> QED BY <1>3, <1>4, <1>5, LandKinds

(***************************************************************************)
(* The refinement: one process implements the ledger.                      *)
(***************************************************************************)

LEMMA StagesAre ==
  ASSUME NEW b \in Batches
  PROVE  /\ outcome[b] \in Dropped => Stages[b] = "dropped"
         /\ outcome[b] \in Counted => Stages[b] = "counted"
         /\ outcome[b] = "accepted" => Stages[b] = "accepted"
         /\ outcome[b] \in {"new", "sent", "refused"} => Stages[b] = "offered"
  BY DEF Stages, Dropped, Counted

(* A step that at most drops accepted batches is the ledger's Drop. *)
LEMMA DropOrStutter ==
  ASSUME agg' = agg,
         \A b \in Batches : \/ Stages'[b] = Stages[b]
                            \/ Stages[b] = "accepted" /\ Stages'[b] = "dropped"
  PROVE  Ledger!Drop
  <1> DEFINE gone == {b \in Batches : Stages[b] = "accepted" /\ Stages'[b] = "dropped"}
  <1>1. gone \in SUBSET {b \in Batches : Stages[b] = "accepted"}
    OBVIOUS
  <1>2. Stages' = [b \in Batches |-> IF b \in gone THEN "dropped" ELSE Stages[b]]
    <2>1. \A b \in Batches : Stages'[b] = IF b \in gone THEN "dropped" ELSE Stages[b]
      OBVIOUS
    <2>2. Stages' = [b \in Batches |-> Stages'[b]]
      BY DEF Stages
    <2> HIDE DEF gone
    <2> QED BY <2>1, <2>2
  <1> HIDE DEF gone
  <1> QED BY <1>1, <1>2 DEF Ledger!Drop

LEMMA LedgerInit == ASSUME Init PROVE Ledger!Init
  <1>1. \A b \in Batches : outcome[b] = "new"
    BY DEF Init
  <1>2. \A b \in Batches : Stages[b] = "offered"
    BY <1>1, StagesAre
  <1>3. Stages = [b \in Batches |-> "offered"]
    <2>1. Stages = [b \in Batches |-> Stages[b]]
      BY DEF Stages
    <2> QED BY <1>2, <2>1
  <1>4. agg = [r \in Row |-> 0]
    BY DEF Init, NoWrites
  <1> QED BY <1>3, <1>4 DEF Ledger!Init

(* The batch that is put on the queue is accepted. *)
LEMMA EnqueueAccepts ==
  ASSUME TypeInv, OwnInv, NEW p \in Procs, NEW b \in Batches, Enqueued(p, b)
  PROVE  Ledger!Accept(b)
  <1>1. outcome[b] = "sent" /\ outcome' = [outcome EXCEPT ![b] = "accepted"] /\ agg' = agg
    BY DEF Enqueued, Uncounted, OwnInv
  <1>2. Stages[b] = "offered"
    BY <1>1, StagesAre
  <1>3. Stages' = [Stages EXCEPT ![b] = "accepted"]
    BY <1>1 DEF Stages, Dropped, Counted, TypeInv, TypeOK
  <1> QED BY <1>1, <1>2, <1>3 DEF Ledger!Accept

(* EventLedger has its own copy of the module FiniteSets. *)
LEMMA LedgerCardinality == \A S : Ledger!Cardinality(S) = Cardinality(S)
  BY DEF Cardinality, Ledger!Cardinality

(* A commit settles the whole batch, each event in the row it landed in. *)
LEMMA CommitWay ==
  ASSUME TypeInv, OwnInv, LandInv, NEW p \in Procs, NEW b \in Batches, cur[p] = b, Commit(p)
  PROVE  /\ Stages[b] = "accepted"
         /\ Stages' = [Stages EXCEPT ![b] = "counted"]
         /\ landed[p] \in Ways[b]
  <1> DEFINE way == landed[p]
  <1>1. outcome[b] = "accepted"
    <2>1. 0 \in Slots(p) /\ Item(p, 0) = b
      BY SlotsType DEF Item
    <2> QED BY <2>1, NoneIsFresh DEF OwnInv, NoneIsFresh
  <1>2. Stages[b] = "accepted"
    BY <1>1, StagesAre
  <1>3. Stages' = [Stages EXCEPT ![b] = "counted"]
    BY DEF Commit, Stages, Dropped, Counted, TypeInv, TypeOK
  <1>4. way \in [DOMAIN Events[b] -> Row \cup {None}]
    <2>1. way \in Seq(Row \cup {None}) /\ Len(way) = Len(Events[b])
      BY DEF TypeInv, TypeOK, Commit, Exhausted
    <2>2. DOMAIN Events[b] = 1 .. Len(Events[b])
      BY ParametersTyped DEF ParametersTyped
    <2> QED BY <2>1, <2>2, LenProperties, ElementOfSeq
  <1>5. \A i \in DOMAIN way : way[i] \in MayLand(b, i)
    BY DEF LandInv
  <1> QED BY <1>2, <1>3, <1>4, <1>5 DEF Ways

LEMMA LandingsAre ==
  ASSUME NEW p, NEW r
  PROVE  Landings(p, r) = Cardinality({i \in DOMAIN landed[p] : landed[p][i] = r})
  BY DEF Landings, Occurrences

LEMMA CommitCountsBatch ==
  ASSUME TypeInv, ExactInv, OwnInv, LandInv,
         NEW p \in Procs, NEW b \in Batches, cur[p] = b, Commit(p)
  PROVE  Ledger!Count(b)
  <1> DEFINE way == landed[p]
  <1>1. agg' = [r \in Row |-> agg[r] + Cardinality({i \in DOMAIN way : way[i] = r})]
    <2>1. \A r \in Row : Visible(p, r) = agg[r] + Landings(p, r)
      BY DEF Commit, ExactInv, View
    <2>2. \A r : Landings(p, r) = Cardinality({i \in DOMAIN way : way[i] = r})
      BY LandingsAre
    <2>3. agg' = [r \in Row |-> Visible(p, r)]
      BY DEF Commit
    <2> HIDE DEF way
    <2> QED BY <2>1, <2>2, <2>3
  <1>2. way \in Ways[b]
    BY CommitWay
  <1>3. \E w \in Ways[b] :
           agg' = [r \in Row |-> agg[r] + Cardinality({i \in DOMAIN w : w[i] = r})]
    <2> HIDE DEF way
    <2> QED BY <1>1, <1>2
  <1> QED BY <1>3, CommitWay, LedgerCardinality DEF Ledger!Count

(* Every step but a commit is the ledger's Accept or Drop, or nothing to it. *)
LEMMA LedgerKinds ==
  ASSUME TypeInv, OwnInv, [Next]_vars
  PROVE  \/ /\ Uncounted
            /\ Ledger!Drop \/ \E b \in Batches : Ledger!Accept(b)
         \/ \E p \in Procs : cur[p] \in Batches /\ Commit(p)
  <1>1. ASSUME agg' = agg, outcome' = outcome PROVE Ledger!Drop
    BY <1>1, DropOrStutter DEF Stages
  <1>2. CASE Idle
    BY <1>1, <1>2 DEF Idle, Uncounted
  <1>3. ASSUME NEW p \in Procs, NEW b \in Batches, Received(p, b)
        PROVE  Ledger!Drop /\ Uncounted
    <2>1. \A c \in Batches : Stages'[c] = Stages[c]
      BY <1>3 DEF Received, Stages, Dropped, Counted, TypeInv, TypeOK
    <2>2. agg' = agg
      BY <1>3 DEF Received, Uncounted
    <2>3. \A c \in Batches : \/ Stages'[c] = Stages[c]
                             \/ Stages[c] = "accepted" /\ Stages'[c] = "dropped"
      BY <2>1
    <2> QED BY <1>3, <2>2, <2>3, DropOrStutter DEF Received
  <1>a. ASSUME NEW p \in Procs, NEW b \in Batches, Rejected(p, b)
        PROVE  Ledger!Drop /\ Uncounted
    <2>1. outcome[b] = "sent" /\ outcome' = [outcome EXCEPT ![b] = "refused"]
      BY <1>a DEF Rejected, OwnInv
    <2>2. \A c \in Batches : Stages'[c] = Stages[c]
      BY <2>1 DEF Stages, Dropped, Counted, TypeInv, TypeOK
    <2>3. agg' = agg
      BY <1>a DEF Rejected, Uncounted
    <2>4. \A c \in Batches : \/ Stages'[c] = Stages[c]
                             \/ Stages[c] = "accepted" /\ Stages'[c] = "dropped"
      BY <2>2
    <2> QED BY <1>a, <2>3, <2>4, DropOrStutter DEF Rejected
  <1>4. ASSUME NEW p \in Procs, NEW b \in Batches, Enqueued(p, b)
        PROVE  Ledger!Accept(b) /\ Uncounted
    BY <1>4, EnqueueAccepts DEF Enqueued
  <1>5. ASSUME NEW p \in Procs, Marked(p) \/ Taken(p)
        PROVE  Ledger!Drop /\ Uncounted
    BY <1>1, <1>5 DEF Marked, Taken, Uncounted
  <1>6. ASSUME NEW p \in Procs, NEW why \in Dropped, Ended(p, why), Uncounted
        PROVE  Ledger!Drop
    <2>1. cur[p] \in Batches /\ outcome[cur[p]] = "accepted"
      BY <1>6, SlotsType, NoneIsFresh DEF Ended, Item, OwnInv, NoneIsFresh
    <2>2. \A c \in Batches : outcome'[c] = IF c = cur[p] THEN why ELSE outcome[c]
      BY <1>6 DEF Ended, TypeInv, TypeOK
    <2>3. \A c \in Batches : Stages'[c] = IF c = cur[p] THEN "dropped" ELSE Stages[c]
      <3> SUFFICES ASSUME NEW c \in Batches
                   PROVE  Stages'[c] = IF c = cur[p] THEN "dropped" ELSE Stages[c]
        OBVIOUS
      <3>1. CASE c = cur[p]
        <4>1. outcome'[c] \in Dropped
          BY <1>6, <2>2, <3>1
        <4> QED BY <3>1, <4>1 DEF Stages, Dropped, Counted
      <3>2. CASE c # cur[p]
        <4>1. outcome'[c] = outcome[c]
          BY <2>2, <3>2
        <4> QED BY <3>2, <4>1 DEF Stages
      <3> QED BY <3>1, <3>2
    <2>4. Stages[cur[p]] = "accepted"
      BY <2>1, StagesAre
    <2> QED BY <1>6, <2>3, <2>4, DropOrStutter DEF Uncounted
  <1>7. ASSUME NEW p \in Procs, NEW fate \in Counted, Ended(p, fate), Commit(p)
        PROVE  cur[p] \in Batches /\ Commit(p)
    BY <1>7 DEF Ended
  <1>8. ASSUME NEW p \in Procs, Killed(p)
        PROVE  Ledger!Drop /\ Uncounted
    <2>1. ASSUME NEW c \in Batches
          PROVE  \/ Stages'[c] = Stages[c]
                 \/ Stages[c] = "accepted" /\ Stages'[c] = "dropped"
      <3>1. CASE c \in inflight[p]
        <4>1. outcome[c] = "sent" /\ outcome'[c] = "refused"
          BY <1>8, <3>1 DEF Killed, OwnInv
        <4> QED BY <4>1 DEF Stages, Dropped, Counted
      <3>2. CASE c \notin inflight[p] /\ \A k \in Slots(p) : Item(p, k) # c
        <4>1. outcome'[c] = outcome[c]
          BY <1>8, <3>2, SlotsKilled
        <4> QED BY <4>1 DEF Stages
      <3>3. CASE c \notin inflight[p] /\ \E k \in Slots(p) : Item(p, k) = c
        <4>1. PICK k \in Slots(p) : Item(p, k) = c
          BY <3>3
        <4>2. outcome[c] = "accepted"
          BY <4>1, NoneIsFresh DEF OwnInv, NoneIsFresh
        <4>3. c = cur[p] \/ \E i \in DOMAIN queue[p] : queue[p][i] = c
          BY <4>1, SlotsType DEF Item, Slots
        <4>4. outcome'[c] = "lost"
          BY <1>8, <3>3, <4>3 DEF Killed
        <4> QED BY <4>2, <4>4 DEF Stages, Dropped, Counted
      <3> QED BY <3>1, <3>2, <3>3
    <2> QED BY <1>8, <2>1, DropOrStutter DEF Killed, Uncounted
  <1> QED
    BY <1>2, <1>3, <1>a, <1>4, <1>5, <1>6, <1>7, <1>8, PlaceKinds DEF PlaceStep

(* While the counts are exact a commit is the ledger's Count. *)
LEMMA LedgerNext ==
  ASSUME TypeInv, ExactInv, OwnInv, LandInv, [Next]_vars
  PROVE  Ledger!Next
  <1>1. ASSUME NEW p \in Procs, cur[p] \in Batches, Commit(p)
        PROVE  \E b \in Batches : Ledger!Count(b)
    <2>1. PICK b \in Batches : cur[p] = b
      BY <1>1
    <2> QED BY <1>1, <2>1, CommitCountsBatch
  <1> QED BY <1>1, LedgerKinds DEF Ledger!Next

(* With one uvicorn process the pipeline is a ledger to its clients: each  *)
(* accepted batch is counted as a whole in one step, each event in one row *)
(* it may land in, or dropped as a whole.                                  *)
THEOREM SingleProcessImplementsLedger == ASSUME OneProcess PROVE Spec => ImplementsLedger
  <1> DEFINE Inv == TypeInv /\ ExactInv /\ OwnInv /\ LandInv
  <1>1. Init => Inv /\ Ledger!Init
    BY TypeInit, ExactInit, OwnInit, LandInit, LedgerInit
  <1>2. Inv /\ [Next]_vars => Inv'
    BY TypeNext, ExactNext, OwnNext, LandNext
  <1>3. Inv /\ [Next]_vars => [Ledger!Next]_(Ledger!ledgerVars)
    BY LedgerNext
  <1> QED BY <1>1, <1>2, <1>3, PTL DEF Spec, ImplementsLedger, Ledger!Spec

(***************************************************************************)
(* The refinement: any number of processes implement the shared ledger.    *)
(***************************************************************************)

(* A transaction writes only rows its batch has landed in, and what it     *)
(* writes there counts the batch's own events.                             *)
Own(p, r) ==
    /\ written[p][r] # 0 => Landings(p, r) # 0
    /\ IF pending[p] # None /\ pending[p].row = r
          THEN pending[p].count >= Landings(p, r) /\ Landings(p, r) # 0
          ELSE written[p][r] >= Landings(p, r)

ShareInv == \A p \in Procs, r \in Row : Own(p, r)

LEMMA ShareInit == ASSUME Init PROVE ShareInv
  <1>1. \A p \in Procs, r \in Row : Landings(p, r) = 0
    BY OccurrencesEmpty DEF Init, Landings
  <1> QED BY <1>1 DEF Init, ShareInv, Own, NoWrites

LEMMA ShareNext == ASSUME TypeInv, ShareInv, [Next]_vars PROVE ShareInv'
  <1>0. SUFFICES ASSUME NEW q \in Procs, NEW r \in Row PROVE Own(q, r)'
    BY DEF ShareInv
  <1>1. \A p \in Procs : Own(p, r)
    BY DEF ShareInv
  <1>2. \A p \in Procs : Landings(p, r) \in Nat /\ written[p][r] \in Nat
    BY LandingsType DEF TypeInv, TypeOK
  <1>3. \A p \in Procs : pending[p] # None => pending[p].count \in Nat \ {0} /\ pending[p].row \in Row
    BY DEF TypeInv, TypeOK, Write
  <1>4. CASE Quiet
    <2>1. Landings(q, r)' = Landings(q, r)
      BY <1>4 DEF Quiet, Landings
    <2> QED BY <1>1, <1>4, <2>1 DEF Quiet, Own
  <1>5. ASSUME NEW p \in Procs, landed' = [landed EXCEPT ![p] = <<>>],
               pending' = [pending EXCEPT ![p] = None],
               written' = [written EXCEPT ![p] = NoWrites]
        PROVE  Own(q, r)'
    <2>1. Landings(q, r)' = IF q = p THEN 0 ELSE Landings(q, r)
      BY <1>5, LandingsAfterReset DEF TypeInv
    <2>2. /\ written'[q][r] = IF q = p THEN 0 ELSE written[q][r]
          /\ pending'[q] = IF q = p THEN None ELSE pending[q]
      BY <1>5 DEF TypeInv, TypeOK, NoWrites
    <2> QED BY <1>1, <2>1, <2>2 DEF Own
  <1>6. ASSUME NEW p \in Procs, SkipEvent(p) PROVE Own(q, r)'
    <2>1. /\ TypeOK
          /\ None \in Row \cup {None}
          /\ landed' = [landed EXCEPT ![p] = Append(@, None)]
      BY <1>6 DEF SkipEvent, TypeInv
    <2>2. \A u \in Procs, t \in Row :
             Landings(u, t)' = Landings(u, t) + (IF u = p /\ t = None THEN 1 ELSE 0)
      BY <2>1, LandingsAfterAppend
    <2>3. r # None
      BY NoneIsFresh DEF NoneIsFresh
    <2>4. Landings(q, r)' = Landings(q, r)
      BY <1>2, <2>2, <2>3
    <2> QED BY <1>1, <1>6, <2>4 DEF SkipEvent, Own
  <1>7. ASSUME NEW p \in Procs, NEW s \in Row, CountEvent(p, s) PROVE Own(q, r)'
    <2>1. /\ TypeOK
          /\ s \in Row \cup {None}
          /\ landed' = [landed EXCEPT ![p] = Append(@, s)]
      BY <1>7 DEF CountEvent, TypeInv
    <2>2. \A u \in Procs, t \in Row :
             Landings(u, t)' = Landings(u, t) + (IF u = p /\ t = s THEN 1 ELSE 0)
      BY <2>1, LandingsAfterAppend
    <2> DEFINE w == [row |-> s, count |-> Visible(p, s) + 1, insert |-> Visible(p, s) = 0]
    <2>3. Visible(p, s) \in Nat
      BY DEF Visible, TypeInv, TypeOK
    <2>4. w \in Write /\ w.row = s /\ w.count = Visible(p, s) + 1
      BY <2>3 DEF Write
    <2>5. /\ pending[p] = None
          /\ pending' = [pending EXCEPT ![p] = w]
          /\ written' = written
      BY <1>7 DEF CountEvent
    <2> HIDE DEF w
    <2>6. w # None /\ pending'[q] = IF q = p THEN w ELSE pending[q]
      BY <2>4, <2>5, NoneIsFresh DEF NoneIsFresh, TypeInv, TypeOK
    <2>7. r = s => Visible(p, s) >= Landings(p, r)
      <3>1. Own(p, r)
        BY <1>1
      <3>2. written[p][r] >= Landings(p, r)
        BY <2>5, <3>1 DEF Own
      <3> QED BY <1>2, <2>3, <3>2 DEF Visible
    <2>8. CASE q = p /\ r = s
      BY <1>2, <2>2, <2>3, <2>4, <2>5, <2>6, <2>7, <2>8 DEF Own
    <2>9. CASE q = p /\ r # s
      BY <1>1, <1>2, <2>2, <2>4, <2>5, <2>6, <2>9 DEF Own
    <2>10. CASE q # p
      BY <1>1, <1>2, <2>2, <2>5, <2>6, <2>10 DEF Own
    <2> QED BY <2>8, <2>9, <2>10
  <1>8. ASSUME NEW p \in Procs, WriteCount(p) PROVE Own(q, r)'
    <2>1. Landings(q, r)' = Landings(q, r)
      BY <1>8 DEF WriteCount, Landings
    <2>2. /\ pending'[q] = IF q = p THEN None ELSE pending[q]
          /\ written'[q][r] = IF q = p /\ pending[p].row = r THEN pending[p].count
                                                            ELSE written[q][r]
      BY <1>3, <1>8 DEF WriteCount, TypeInv, TypeOK
    <2> QED BY <1>1, <1>2, <1>3, <1>8, <2>1, <2>2 DEF WriteCount, Own
  <1>9. ASSUME NEW p \in Procs, Forget(p) \/ CommitCounts(p) PROVE Own(q, r)'
    <2>1. pending' = [pending EXCEPT ![p] = None]
      BY <1>9 DEF Forget, CommitCounts, TypeInv, TypeOK
    <2> QED BY <1>5, <1>9, <2>1 DEF Forget, CommitCounts
  <1> QED BY <1>4, <1>6, <1>7, <1>8, <1>9, StepKinds DEF CountStep

(* What a commit does to a row. *)
LEMMA CommitShare ==
  ASSUME TypeInv, CountInv, ShareInv, NEW p \in Procs, Commit(p), NEW r \in Row
  PROVE  IF Landings(p, r) = 0 THEN agg'[r] = agg[r]
                               ELSE agg'[r] \in Landings(p, r) .. credited'[r]
  <1>1. pending[p] = None /\ agg'[r] = Visible(p, r) /\ credited'[r] = credited[r] + Landings(p, r)
    BY DEF Commit
  <1>2. Own(p, r) /\ Bounded(r)
    BY DEF ShareInv, CountInv
  <1>3. /\ Landings(p, r) \in Nat /\ written[p][r] \in Nat
        /\ agg[r] \in Nat /\ credited[r] \in Nat
    BY LandingsType DEF TypeInv, TypeOK
  <1>4. /\ written[p][r] # 0 => Landings(p, r) # 0
        /\ written[p][r] >= Landings(p, r)
        /\ written[p][r] <= credited[r] + Landings(p, r)
    BY <1>1, <1>2 DEF Own, Bounded
  <1> QED BY <1>1, <1>3, <1>4 DEF Visible

LEMMA SharedCardinality == \A S : Shared!Cardinality(S) = Cardinality(S)
  BY DEF Cardinality, Shared!Cardinality

LEMMA SharedCommit ==
  ASSUME TypeInv, CountInv, ShareInv, OwnInv, LandInv,
         NEW p \in Procs, NEW b \in Batches, cur[p] = b, Commit(p)
  PROVE  Shared!CountInShared(b)
  <1> DEFINE way == landed[p]
  <1>1. \A r : Shared!Hits(way, r) = Landings(p, r)
    BY LandingsAre, SharedCardinality DEF Shared!Hits
  <1>2. Stages[b] = "accepted" /\ Stages' = [Stages EXCEPT ![b] = "counted"] /\ way \in Ways[b]
    BY CommitWay
  <1>3. credited' = [r \in Row |-> credited[r] + Shared!Hits(way, r)]
    BY <1>1 DEF Commit
  <1>4. \A r \in Row :
           IF Shared!Hits(way, r) = 0 THEN agg'[r] = agg[r]
                                      ELSE agg'[r] \in Shared!Hits(way, r) .. credited'[r]
    BY <1>1, CommitShare
  <1>5. agg' \in [Row -> Nat]
    <2>1. \A r \in Row : Visible(p, r) \in Nat
      BY DEF Visible, TypeInv, TypeOK
    <2> QED BY <2>1 DEF Commit
  <1> HIDE DEF way
  <1> QED BY <1>2, <1>3, <1>4, <1>5 DEF Shared!CountInShared

LEMMA SharedNextStep ==
  ASSUME TypeInv, CountInv, ShareInv, OwnInv, LandInv, [Next]_vars
  PROVE  Shared!SharedNext
  <1>1. ASSUME NEW p \in Procs, cur[p] \in Batches, Commit(p)
        PROVE  \E b \in Batches : Shared!CountInShared(b)
    <2>1. PICK b \in Batches : cur[p] = b
      BY <1>1
    <2> QED BY <1>1, <2>1, SharedCommit
  <1>2. ASSUME Uncounted, Ledger!Drop
        PROVE  Shared!Drop /\ credited' = credited
    BY <1>2 DEF Uncounted, Ledger!Drop, Shared!Drop
  <1>3. ASSUME Uncounted, NEW b \in Batches, Ledger!Accept(b)
        PROVE  Shared!Accept(b) /\ credited' = credited
    BY <1>3 DEF Uncounted, Ledger!Accept, Shared!Accept
  <1> QED BY <1>1, <1>2, <1>3, LedgerKinds DEF Shared!SharedNext

(* However many uvicorn processes share the table, and whatever fails or   *)
(* crashes: a batch is counted once or dropped, as a whole, in one step    *)
(* that leaves the rows of other batches alone, keeps its own events, and  *)
(* at worst takes back events of others in its rows.                       *)
THEOREM AllProcessesImplementSharedLedger == Spec => ImplementsSharedLedger
  <1> DEFINE Inv == TypeInv /\ CountInv /\ ShareInv /\ OwnInv /\ LandInv
  <1>1. Init => Inv
    BY TypeInit, CountInit, ShareInit, OwnInit, LandInit
  <1>2. Init => Shared!SharedInit
    <2> SUFFICES ASSUME Init PROVE Shared!SharedInit
      OBVIOUS
    <2>1. Ledger!Init
      BY LedgerInit
    <2> QED BY <2>1 DEF Ledger!Init, Shared!Init, Shared!SharedInit, Init, NoWrites
  <1>3. Inv /\ [Next]_vars => Inv'
    BY TypeNext, CountNext, ShareNext, OwnNext, LandNext
  <1>4. Inv /\ [Next]_vars => [Shared!SharedNext]_(Shared!sharedVars)
    BY SharedNextStep
  <1> QED BY <1>1, <1>2, <1>3, <1>4, PTL DEF Spec, ImplementsSharedLedger, Shared!SharedSpec

(***************************************************************************)
(* Explained, for any number of processes.                                 *)
(***************************************************************************)

(* Pairing each element of a finite set with b keeps the count. *)
LEMMA Paired ==
  ASSUME NEW S, IsFiniteSet(S), NEW b
  PROVE  /\ IsFiniteSet({<<b, i>> : i \in S})
         /\ Cardinality({<<b, i>> : i \in S}) = Cardinality(S)
  <1> DEFINE T == {<<b, i>> : i \in S}
             f == [i \in S |-> <<b, i>>]
  <1>1. f \in Bijection(S, T)
    <2>1. \A i, j \in S : f[i] = f[j] => i = j
      OBVIOUS
    <2>2. f \in [S -> T] /\ \A t \in T : \E i \in S : f[i] = t
      OBVIOUS
    <2> HIDE DEF f, T
    <2> QED BY <2>1, <2>2 DEF Bijection, Injection, Surjection, IsInjective
  <1>2. ExistsBijection(S, T)
    BY <1>1 DEF ExistsBijection
  <1> HIDE DEF f, T
  <1>3. IsFiniteSet(T) /\ Cardinality(T) = Cardinality(S)
    BY <1>2, FS_Bijection
  <1> QED BY <1>3 DEF T

(* Every event of every committed batch: what CommittedEvents(r) selects   *)
(* from.                                                                   *)
Committed == {c \in Batches : outcome[c] \in Counted}
AllCommitted == UNION {{<<b, i>> : i \in DOMAIN Events[b]} : b \in Committed}

(* The credit of a row is covered by the committed events that fit it. *)
CoverInv ==
    /\ IsFiniteSet(AllCommitted)
    /\ \A r \in Row : credited[r] <= Cardinality(CommittedEvents(r))

LEMMA CoverInit == ASSUME Init PROVE CoverInv
  <1>1. Committed = {}
    BY DEF Init, Committed, Counted
  <1>2. AllCommitted = {} /\ \A r \in Row : CommittedEvents(r) = {}
    BY <1>1 DEF AllCommitted, CommittedEvents, Committed
  <1>3. \A r \in Row : credited[r] = 0
    BY DEF Init, NoWrites
  <1> QED BY <1>2, <1>3, FS_EmptySet DEF CoverInv

(* The committed batches after a step. *)
LEMMA CommittedNext ==
  ASSUME TypeInv, OwnInv, [Next]_vars
  PROVE  \/ Committed' = Committed /\ credited' = credited
         \/ \E p \in Procs :
               /\ Commit(p)
               /\ cur[p] \in Batches \ Committed
               /\ Committed' = Committed \cup {cur[p]}
  <1> USE DEF Committed, Counted
  <1>0. outcome \in [Batches -> Settled \cup {"new", "sent", "accepted", "refused"}]
    BY DEF TypeInv, TypeOK
  <1>1. CASE Idle
    BY <1>1 DEF Idle
  <1>2. ASSUME NEW p \in Procs, NEW b \in Batches,
               Received(p, b) \/ Enqueued(p, b) \/ Rejected(p, b)
        PROVE  Committed' = Committed /\ credited' = credited
    BY <1>0, <1>2 DEF Received, Enqueued, Rejected, Uncounted, OwnInv
  <1>3. ASSUME NEW p \in Procs, Marked(p) \/ Taken(p)
        PROVE  Committed' = Committed /\ credited' = credited
    BY <1>3 DEF Marked, Taken, Uncounted
  <1>4. ASSUME NEW p \in Procs, NEW why, Ended(p, why)
        PROVE  /\ cur[p] \in Batches /\ outcome[cur[p]] = "accepted"
               /\ \A c \in Batches : outcome'[c] = IF c = cur[p] THEN why ELSE outcome[c]
    BY <1>0, <1>4, SlotsType, NoneIsFresh DEF Ended, Item, OwnInv, NoneIsFresh
  <1>5. ASSUME NEW p \in Procs, NEW why \in Dropped, Ended(p, why), Uncounted
        PROVE  Committed' = Committed /\ credited' = credited
    BY <1>4, <1>5 DEF Uncounted, Dropped
  <1>6. ASSUME NEW p \in Procs, NEW fate \in Counted, Ended(p, fate), Commit(p)
        PROVE  /\ cur[p] \in Batches \ Committed
               /\ Committed' = Committed \cup {cur[p]}
    BY <1>4, <1>6
  <1>7. ASSUME NEW p \in Procs, Killed(p)
        PROVE  Committed' = Committed /\ credited' = credited
    <2>1. ASSUME NEW c \in Batches
          PROVE  outcome'[c] \in Counted <=> outcome[c] \in Counted
      <3>1. CASE c \in inflight[p]
        BY <1>7, <3>1 DEF Killed, OwnInv
      <3>2. CASE c \notin inflight[p] /\ \A k \in Slots(p) : Item(p, k) # c
        BY <1>7, <3>2, SlotsKilled
      <3>3. CASE c \notin inflight[p] /\ \E k \in Slots(p) : Item(p, k) = c
        <4>1. PICK k \in Slots(p) : Item(p, k) = c
          BY <3>3
        <4>2. outcome[c] = "accepted"
          BY <4>1, NoneIsFresh DEF OwnInv, NoneIsFresh
        <4>3. outcome'[c] \in {"lost", outcome[c]}
          BY <1>7, <3>3 DEF Killed
        <4> QED BY <4>2, <4>3
      <3> QED BY <3>1, <3>2, <3>3
    <2> QED BY <1>7, <2>1 DEF Killed, Uncounted
  <1> QED
    BY <1>1, <1>2, <1>3, <1>5, <1>6, <1>7, PlaceKinds DEF PlaceStep

LEMMA CoverNext ==
  ASSUME TypeInv, OwnInv, LandInv, CoverInv, [Next]_vars
  PROVE  CoverInv'
  <1>1. ASSUME NEW r, Committed \subseteq Committed'
        PROVE  CommittedEvents(r) \subseteq CommittedEvents(r)'
    <2>1. \A b, i : Fits(b, i, r) => Fits(b, i, r)'
      BY FitsLater
    <2> QED BY <1>1, <2>1 DEF CommittedEvents, Committed
  <1>2. ASSUME NEW r
        PROVE  CommittedEvents(r)' \subseteq AllCommitted'
    BY DEF CommittedEvents, AllCommitted, Committed
  <1>3. CASE Committed' = Committed /\ credited' = credited
    <2>1. IsFiniteSet(AllCommitted')
      BY <1>3 DEF AllCommitted, CoverInv
    <2>2. ASSUME NEW r \in Row
          PROVE  credited'[r] <= Cardinality(CommittedEvents(r)')
      <3>1. IsFiniteSet(CommittedEvents(r)')
        BY <1>2, <2>1, FS_Subset
      <3>2. /\ IsFiniteSet(CommittedEvents(r))
            /\ Cardinality(CommittedEvents(r)) <= Cardinality(CommittedEvents(r)')
        BY <1>1, <1>3, <3>1, FS_Subset
      <3>3. /\ Cardinality(CommittedEvents(r)) \in Nat
            /\ Cardinality(CommittedEvents(r)') \in Nat
        BY <3>1, <3>2, FS_CardinalityType
      <3>4. credited'[r] = credited[r] /\ credited[r] \in Nat
        BY <1>3 DEF TypeInv, TypeOK
      <3>5. credited[r] <= Cardinality(CommittedEvents(r))
        BY DEF CoverInv
      <3> QED BY <3>2, <3>3, <3>4, <3>5
    <2> QED BY <2>1, <2>2 DEF CoverInv
  <1>4. ASSUME NEW p \in Procs, NEW b \in Batches \ Committed, cur[p] = b,
               Commit(p), Committed' = Committed \cup {b}
        PROVE  CoverInv'
    <2>1. IsFiniteSet(DOMAIN Events[b]) /\ DOMAIN Events[b] = 1 .. Len(Events[b])
      BY ParametersTyped, FS_Interval DEF ParametersTyped
    <2>2. AllCommitted' = AllCommitted \cup {<<b, i>> : i \in DOMAIN Events[b]}
      BY <1>4 DEF AllCommitted
    <2>3. IsFiniteSet(AllCommitted')
      BY <2>1, <2>2, Paired, FS_Union DEF CoverInv
    <2>4. ASSUME NEW r \in Row
          PROVE  credited'[r] <= Cardinality(CommittedEvents(r)')
      <3> DEFINE hits == {i \in DOMAIN landed[p] : landed[p][i] = r}
                 added == {<<b, i>> : i \in hits}
                 old == CommittedEvents(r)
                 new == CommittedEvents(r)'
      <3>1. /\ IsFiniteSet(hits)
            /\ Landings(p, r) = Cardinality(hits)
            /\ credited'[r] = credited[r] + Cardinality(hits)
        <4>1. landed[p] \in Seq(Row \cup {None})
          BY DEF TypeInv, TypeOK
        <4>2. IsFiniteSet(hits)
          BY <4>1, OccurrencesType
        <4>3. Landings(p, r) = Cardinality(hits)
          BY DEF Landings, Occurrences
        <4> HIDE DEF hits
        <4> QED BY <1>4, <4>2, <4>3 DEF Commit
      <3>2. IsFiniteSet(added) /\ Cardinality(added) = Cardinality(hits)
        BY <3>1, Paired
      <3>3. old \subseteq new
        BY <1>1, <1>4
      <3>4. added \subseteq new
        <4>1. ASSUME NEW i \in hits PROVE i \in DOMAIN Events[b] /\ Fits(b, i, r)'
          <5>1. r # None
            BY NoneIsFresh DEF NoneIsFresh
          <5>2. Fits(b, i, r)
            BY <1>4, <4>1, <5>1 DEF LandInv
          <5>3. landed[p] \in Seq(Row \cup {None}) /\ Len(landed[p]) = Len(Events[b])
            BY <1>4 DEF Commit, Exhausted, TypeInv, TypeOK
          <5>4. DOMAIN landed[p] = DOMAIN Events[b]
            BY <2>1, <5>3, LenProperties
          <5> QED BY <4>1, <5>2, <5>4, FitsLater
        <4>2. b \in Batches /\ outcome'[b] \in Counted
          BY <1>4 DEF Committed
        <4> HIDE DEF hits
        <4> QED BY <4>1, <4>2 DEF CommittedEvents
      <3>5. old \cap added = {}
        <4> HIDE DEF hits
        <4> QED BY <1>4 DEF CommittedEvents, Committed
      <3>6. IsFiniteSet(new)
        BY <1>2, <2>3, FS_Subset
      <3> HIDE DEF hits, added, old, new
      <3>7. IsFiniteSet(old)
        BY <3>3, <3>6, FS_Subset
      <3>8. Cardinality(old \cup added) = Cardinality(old) + Cardinality(hits)
        <4>1. Cardinality(old \cup added)
                = Cardinality(old) + Cardinality(added) - Cardinality(old \cap added)
          BY <3>2, <3>7, FS_Union
        <4>2. Cardinality(old \cap added) = 0
          BY <3>5, FS_EmptySet
        <4> QED BY <3>1, <3>2, <3>7, <4>1, <4>2, FS_CardinalityType
      <3>9. Cardinality(old \cup added) <= Cardinality(new)
        BY <3>3, <3>4, <3>6, FS_Subset
      <3>10. credited[r] <= Cardinality(old) /\ credited[r] \in Nat
        BY DEF CoverInv, TypeInv, TypeOK, old
      <3>11. Cardinality(old) \in Nat /\ Cardinality(hits) \in Nat /\ Cardinality(new) \in Nat
        BY <3>1, <3>6, <3>7, FS_CardinalityType
      <3>12. credited'[r] <= Cardinality(new)
        BY <3>1, <3>8, <3>9, <3>10, <3>11
      <3> QED BY <3>12 DEF new
    <2> QED BY <2>3, <2>4 DEF CoverInv
  <1>5. ASSUME NEW p \in Procs, Commit(p), cur[p] \in Batches \ Committed,
               Committed' = Committed \cup {cur[p]}
        PROVE  CoverInv'
    <2>1. PICK b \in Batches \ Committed : cur[p] = b
      BY <1>5
    <2> QED BY <1>4, <1>5, <2>1
  <1> QED BY <1>3, <1>5, CommittedNext

(* Whatever the processes, errors, crashes and clock do, what a row counts *)
(* is explained by committed batches of its own project, with its own flag *)
(* key and variation, in its own hour.                                     *)
THEOREM EveryCountIsExplained == Spec => []Explained
  <1> DEFINE Inv == TypeInv /\ CountInv /\ OwnInv /\ LandInv /\ CoverInv
  <1>1. Init => Inv
    BY TypeInit, CountInit, OwnInit, LandInit, CoverInit
  <1>2. Inv /\ [Next]_vars => Inv'
    BY TypeNext, CountNext, OwnNext, LandNext, CoverNext
  <1>3. Inv => Explained
    <2> SUFFICES ASSUME Inv, NEW r \in Row
                 PROVE  agg[r] <= Cardinality(CommittedEvents(r))
      BY DEF Explained
    <2>1. agg[r] \in Nat /\ credited[r] \in Nat
      BY DEF TypeInv, TypeOK
    <2>2. agg[r] <= credited[r] /\ credited[r] <= Cardinality(CommittedEvents(r))
      BY DEF CountInv, Bounded, CoverInv
    <2>3. CommittedEvents(r) \subseteq AllCommitted
      BY DEF CommittedEvents, AllCommitted, Committed
    <2>4. Cardinality(CommittedEvents(r)) \in Nat
      BY <2>3, FS_Subset, FS_CardinalityType DEF CoverInv
    <2> QED BY <2>1, <2>2, <2>4
  <1> QED BY <1>1, <1>2, <1>3, PTL DEF Spec
=============================================================================
