--------------------------- MODULE SessionReporter ---------------------------
(***************************************************************************)
(* The session reporter of an egress node (pkg/info/io.go): it records a   *)
(* new egress with the IO service and delivers the status updates of every *)
(* egress to it, in order, through a fixed pool of workers.                *)
(*                                                                         *)
(* An egress hashes to one worker (getWorker).  The worker's maps          *)
(* creating, pending and createFailed are keyed by egress, so here each is *)
(* one function or set over Egress; w.mu makes every action below atomic.  *)
(* A pending entry with no update never survives a critical section, so    *)
(* pending[e] = << >> stands for "no entry".                               *)
(*                                                                         *)
(* Abstracted: the length of a backoff (a timer is armed or not), the age  *)
(* of a create-failure mark (it may be past createFailedTTL at any sweep)  *)
(* and the update's payload (its status and its rank of arrival are kept). *)
(***************************************************************************)
EXTENDS Naturals, Sequences, FiniteSets

CONSTANTS
    Egress,        \* egress ids
    Worker,        \* the workers of the pool (conf.IOWorkers of them)
    Status,        \* the EgressStatus values updates carry
    WorkerOf,      \* getWorker: the worker an egress id hashes to
    QueueCap,      \* capacity of a worker's queue channel (500 in the code)
    MaxPending,    \* maxPendingUpdates (100 in the code)
    HasDeadline,   \* updateRetryDeadline > 0
    MaxUpdates,    \* bound: UpdateEgress calls of each egress
    MaxCreates,    \* bound: CreateEgress calls per egress
    NoEgress       \* a worker that sends nothing

ASSUME ConstantsAssumption ==
    /\ WorkerOf \in [Egress -> Worker]
    /\ QueueCap \in Nat \ {0}
    /\ MaxPending \in Nat \ {0, 1}
    /\ HasDeadline \in BOOLEAN
    /\ MaxUpdates \in [Egress -> Nat]
    /\ MaxCreates \in Nat
    /\ NoEgress \notin Egress

VARIABLES
    creating,      \* egresses whose CreateEgress call is in flight
    buffered,      \* updates that arrived while it was, oldest first
    pending,       \* the unsent updates of an egress, oldest first
    createFailed,  \* egresses marked by markCreateFailedLocked
    queue,         \* the queue channel of each worker
    sending,       \* the egress whose oldest update a worker is sending
    timers,        \* egresses waiting out a retry backoff (time.AfterFunc)
    late,          \* rank up to which the updates of an egress are past their deadline
    draining,      \* Drain was called
    exited,        \* workers that left runWorker
    done,          \* the fuse Drain waits on
    issued,        \* history: UpdateEgress calls per egress
    delivered,     \* history: ranks the IO service accepted, in order
    undelivered,   \* ioUpdateFailures less its "retried" outcome, per egress
    creates,       \* history: CreateEgress calls per egress
    refused,       \* history: egresses whose last create was reported failed
    disowned       \* history: ranks of the updates such an egress issued

createVars == <<creating, buffered, createFailed, creates, refused>>
sendVars == <<pending, queue, sending, timers, late>>
drainVars == <<draining, exited, done>>
historyVars == <<issued, delivered, undelivered, disowned>>
vars == <<createVars, sendVars, drainVars, historyVars>>

\* n is the rank of the UpdateEgress call that made the update.
Update == [n : Nat, status : Status]

(***************************************************************************)
(* egressUpdates.add: at the cap, an update with the status of the last    *)
(* unsent one replaces it.                                                 *)
(***************************************************************************)
Coalesces(box, u) == Len(box) >= MaxPending /\ box[Len(box)].status = u.status

Add(box, u) == IF Coalesces(box, u)
               THEN [box EXCEPT ![Len(box)] = u]
               ELSE Append(box, u)

\* enqueueLocked of several updates adds each in turn; AddEach(box, us)[i] is
\* the entry after the first i of them.
AddEach(box, us) ==
    LET acc[i \in 0..Len(us)] == IF i = 0 THEN box ELSE Add(acc[i-1], us[i])
    IN  acc

AddAll(box, us) == AddEach(box, us)[Len(us)]

Mine(w) == {e \in Egress : WorkerOf[e] = w}

Idle(w) == \A e \in Mine(w) : pending[e] = << >>

Init ==
    /\ creating = {} /\ createFailed = {} /\ timers = {}
    /\ late = [e \in Egress |-> 0]
    /\ buffered = [e \in Egress |-> << >>]
    /\ pending = [e \in Egress |-> << >>]
    /\ queue = [w \in Worker |-> << >>]
    /\ sending = [w \in Worker |-> NoEgress]
    /\ draining = FALSE /\ done = FALSE /\ exited = {}
    /\ issued = [e \in Egress |-> 0]
    /\ delivered = [e \in Egress |-> << >>]
    /\ undelivered = [e \in Egress |-> 0]
    /\ creates = [e \in Egress |-> 0]
    /\ refused = {}
    /\ disowned = [e \in Egress |-> {}]

(***************************************************************************)
(* scheduleLocked: queue an egress whose entry holds box; a full queue     *)
(* drops the entry and counts its updates, plus the extra ones its caller  *)
(* already gave up, as undelivered.                                        *)
(***************************************************************************)
QueueFull(e) == Len(queue[WorkerOf[e]]) >= QueueCap

\* Mutant of Schedule: a full queue counts the updates but keeps the entry.
BugSchedule(e, box, extra) ==
    /\ pending' = [pending EXCEPT ![e] = box]
    /\ IF QueueFull(e)
       THEN /\ undelivered' = [undelivered EXCEPT ![e] = @ + extra + Len(box)]
            /\ UNCHANGED queue
       ELSE /\ undelivered' = [undelivered EXCEPT ![e] = @ + extra]
            /\ queue' = [queue EXCEPT ![WorkerOf[e]] = Append(@, e)]

Schedule(e, box, extra) ==
    IF QueueFull(e)
    THEN /\ pending' = [pending EXCEPT ![e] = << >>]
         /\ undelivered' = [undelivered EXCEPT ![e] = @ + extra + Len(box)]
         /\ UNCHANGED queue
    ELSE /\ pending' = [pending EXCEPT ![e] = box]
         /\ undelivered' = [undelivered EXCEPT ![e] = @ + extra]
         /\ queue' = [queue EXCEPT ![WorkerOf[e]] = Append(@, e)]

\* Mutant of Enqueue: a replaced update is not counted.
BugEnqueue(e, us) ==
    IF pending[e] # << >>
    THEN /\ pending' = [pending EXCEPT ![e] = AddAll(@, us)]
         /\ UNCHANGED <<queue, undelivered>>
    ELSE Schedule(e, us, 0)

\* enqueueLocked: join the pending entry, or make one and schedule it.
Enqueue(e, us) ==
    IF pending[e] # << >>
    THEN LET box == AddAll(pending[e], us)
         IN  /\ pending' = [pending EXCEPT ![e] = box]
             /\ undelivered' = [undelivered EXCEPT ![e] =
                                  @ + (Len(pending[e]) + Len(us) - Len(box))]
             /\ UNCHANGED queue
    ELSE Schedule(e, us, 0)

(***************************************************************************)
(* CreateEgress, first half: open the buffer, clear the mark of this       *)
(* egress and sweep the worker's marks older than createFailedTTL.  The    *)
(* service never creates an egress again before the first create returned  *)
(* (StartEgress waits for it).                                             *)
(***************************************************************************)
CreateEgress(e) ==
    /\ ~draining
    /\ e \notin creating
    /\ creates[e] < MaxCreates
    /\ creates' = [creates EXCEPT ![e] = @ + 1]
    /\ creating' = creating \cup {e}
    /\ buffered' = [buffered EXCEPT ![e] = << >>]
    /\ \E expired \in SUBSET (createFailed \cap Mine(WorkerOf[e])) :
          /\ createFailed' = createFailed \ (expired \cup {e})
          /\ refused' = refused \ (expired \cup {e})
    /\ UNCHANGED <<sendVars, drainVars, historyVars>>

(***************************************************************************)
(* CreateEgress, second half: the IO service answered.  On success the     *)
(* buffered updates are enqueued, and if the queue is full the create is   *)
(* reported as failed all the same.                                        *)
(***************************************************************************)
Refuses(e, ok) == ~ok \/ (buffered[e] # << >> /\ pending[e] = << >> /\ QueueFull(e))

Ranks(box) == {box[i].n : i \in DOMAIN box}

CreateReturns(e, ok) ==
    /\ e \in creating
    /\ creating' = creating \ {e}
    /\ buffered' = [buffered EXCEPT ![e] = << >>]
    /\ IF ok /\ buffered[e] # << >>
       THEN Enqueue(e, buffered[e])
       ELSE /\ undelivered' = [undelivered EXCEPT ![e] = @ + Len(buffered[e])]
            /\ UNCHANGED <<pending, queue>>
    /\ createFailed' = IF Refuses(e, ok) THEN createFailed \cup {e} ELSE createFailed
    /\ IF Refuses(e, ok)
       THEN /\ refused' = refused \cup {e}
            /\ disowned' = [disowned EXCEPT ![e] = @ \cup Ranks(buffered[e])]
       ELSE UNCHANGED <<refused, disowned>>
    /\ UNCHANGED <<creates, sending, timers, late, drainVars, issued, delivered>>

(***************************************************************************)
(* UpdateEgress: dropped when the create failed, buffered while it is in   *)
(* flight, enqueued otherwise.  Server.Drain drains the reporter only once *)
(* no request is active, so no update is issued after it.                  *)
(***************************************************************************)
UpdateEgress(e, s) ==
    LET u == [n |-> issued[e] + 1, status |-> s]
    IN  /\ ~draining
        /\ issued[e] < MaxUpdates[e]
        /\ issued' = [issued EXCEPT ![e] = @ + 1]
        /\ \/ /\ e \in createFailed
              /\ undelivered' = [undelivered EXCEPT ![e] = @ + 1]
              /\ UNCHANGED <<buffered, pending, queue>>
           \/ /\ e \notin createFailed
              /\ e \in creating
              /\ buffered' = [buffered EXCEPT ![e] = Add(@, u)]
              /\ undelivered' = IF Coalesces(buffered[e], u)
                                THEN [undelivered EXCEPT ![e] = @ + 1]
                                ELSE undelivered
              /\ UNCHANGED <<pending, queue>>
           \/ /\ e \notin createFailed
              /\ e \notin creating
              /\ Enqueue(e, <<u>>)
              /\ UNCHANGED buffered
        /\ disowned' = IF e \in refused
                       THEN [disowned EXCEPT ![e] = @ \cup {u.n}] ELSE disowned
        /\ UNCHANGED <<creating, createFailed, creates, refused, sending, timers,
                       late, drainVars, delivered>>

\* handleUpdate up to the RPC: take an egress from the queue, send its oldest.
TakeUpdate(w) ==
    /\ w \notin exited
    /\ sending[w] = NoEgress
    /\ queue[w] # << >>
    /\ queue' = [queue EXCEPT ![w] = Tail(@)]
    /\ sending' = IF pending[Head(queue[w])] # << >>
                  THEN [sending EXCEPT ![w] = Head(queue[w])]
                  ELSE sending
    /\ UNCHANGED <<pending, timers, late, createVars, drainVars, historyVars>>

\* Mutant of Advance: a delivered last update is taken off the failure count.
BugAdvance(e, given) ==
    IF Len(pending[e]) = 1
    THEN /\ pending' = [pending EXCEPT ![e] = << >>]
         /\ undelivered' = [undelivered EXCEPT ![e] = @ + given - 1]
         /\ UNCHANGED queue
    ELSE Schedule(e, Tail(pending[e]), given)

(***************************************************************************)
(* advance: remove the oldest update, then drop the entry if it was the    *)
(* last or queue the egress again.  given is 1 when the removed update was *)
(* counted as undelivered.                                                 *)
(***************************************************************************)
Advance(e, given) ==
    IF Len(pending[e]) = 1
    THEN /\ pending' = [pending EXCEPT ![e] = << >>]
         /\ undelivered' = [undelivered EXCEPT ![e] = @ + given]
         /\ UNCHANGED queue
    ELSE Schedule(e, Tail(pending[e]), given)

\* handleUpdate after the RPC: the IO service accepted the update.
SendSucceeds(w) ==
    LET e == sending[w]
    IN  /\ e # NoEgress
        /\ sending' = [sending EXCEPT ![w] = NoEgress]
        /\ delivered' = [delivered EXCEPT ![e] = Append(@, Head(pending[e]).n)]
        /\ Advance(e, 0)
        /\ UNCHANGED <<timers, late, createVars, drainVars, issued, disowned>>

\* An error psrpc does not retry: the update is counted as failed.
SendFails(w) ==
    LET e == sending[w]
    IN  /\ e # NoEgress
        /\ sending' = [sending EXCEPT ![w] = NoEgress]
        /\ Advance(e, 1)
        /\ UNCHANGED <<timers, late, createVars, drainVars, issued, delivered, disowned>>

\* Mutant of SendRetries: the update is retried after the ones behind it.
BugRetryLast(w) ==
    LET e == sending[w]
    IN  /\ e # NoEgress
        /\ sending' = [sending EXCEPT ![w] = NoEgress]
        /\ timers' = timers \cup {e}
        /\ pending' = [pending EXCEPT ![e] = Append(Tail(@), Head(@))]
        /\ UNCHANGED <<queue, undelivered, late, createVars, drainVars, issued,
                       delivered, disowned>>

(***************************************************************************)
(* A retryable error: retryLater arms a timer, or gives the update up when *)
(* the next attempt would come after its deadline.                         *)
(***************************************************************************)
SendRetries(w) ==
    LET e == sending[w]
    IN  /\ e # NoEgress
        /\ sending' = [sending EXCEPT ![w] = NoEgress]
        /\ IF Head(pending[e]).n <= late[e]
           THEN Advance(e, 1) /\ UNCHANGED timers
           ELSE /\ timers' = timers \cup {e}
                /\ UNCHANGED <<pending, queue, undelivered>>
        /\ UNCHANGED <<late, createVars, drainVars, issued, delivered, disowned>>

\* Mutant of Requeue: the timer fires and schedules nothing.
BugRequeue(e) ==
    /\ e \in timers
    /\ timers' = timers \ {e}
    /\ UNCHANGED <<pending, queue, undelivered, sending, late, createVars, drainVars,
                   issued, delivered, disowned>>

\* requeue: the backoff timer fires.
Requeue(e) ==
    /\ e \in timers
    /\ timers' = timers \ {e}
    /\ IF pending[e] # << >>
       THEN Schedule(e, pending[e], 0)
       ELSE UNCHANGED <<pending, queue, undelivered>>
    /\ UNCHANGED <<sending, late, createVars, drainVars, issued, delivered, disowned>>

\* The clock passes the retry deadline of the oldest unsent update.
DeadlinePasses(e) ==
    /\ HasDeadline
    /\ pending[e] # << >>
    /\ late[e] < Head(pending[e]).n
    /\ late' = [late EXCEPT ![e] = Head(pending[e]).n]
    /\ UNCHANGED <<pending, queue, sending, timers, createVars, drainVars, historyVars>>

(***************************************************************************)
(* Drain is called once the node is idle.  A create may still be in        *)
(* flight: processEnded can be over before StartEgress has its answer.     *)
(***************************************************************************)
Drain ==
    /\ ~draining
    /\ draining' = TRUE
    /\ UNCHANGED <<exited, done, createVars, sendVars, historyVars>>

\* runWorker leaves its loop once draining and idle, and breaks the shared fuse.
WorkerExits(w) ==
    /\ draining
    /\ w \notin exited
    /\ sending[w] = NoEgress
    /\ Idle(w)
    /\ exited' = exited \cup {w}
    /\ done' = TRUE
    /\ UNCHANGED <<draining, createVars, sendVars, historyVars>>

\* Every worker has left and no egress waits: the reporter stops.
Stopped == exited = Worker /\ UNCHANGED vars

WorkerStep(w) == TakeUpdate(w) \/ SendSucceeds(w) \/ SendFails(w) \/ SendRetries(w)

Next ==
    \/ \E e \in Egress : CreateEgress(e)
    \/ \E e \in Egress, ok \in BOOLEAN : CreateReturns(e, ok)
    \/ \E e \in Egress, s \in Status : UpdateEgress(e, s)
    \/ \E w \in Worker : TakeUpdate(w)
    \/ \E w \in Worker : SendSucceeds(w)
    \/ \E w \in Worker : SendFails(w)
    \/ \E w \in Worker : SendRetries(w)
    \/ \E e \in Egress : Requeue(e)
    \/ \E e \in Egress : DeadlinePasses(e)
    \/ Drain
    \/ \E w \in Worker : WorkerExits(w)
    \/ Stopped

Spec == Init /\ [][Next]_vars

(***************************************************************************)
(* Fairness.  A worker goroutine is always running (runWorker), the psrpc  *)
(* calls it makes have a request timeout, and Go's timers fire.            *)
(***************************************************************************)
Fairness ==
    /\ \A w \in Worker : WF_vars(WorkerStep(w))
    /\ \A w \in Worker : WF_vars(WorkerExits(w))
    /\ \A e \in Egress : WF_vars(Requeue(e))
    /\ \A e \in Egress : WF_vars(DeadlinePasses(e))

FairSpec == Spec /\ Fairness

-----------------------------------------------------------------------------
(***************************************************************************)
(* Every map, channel and counter keeps its type; in particular no counter *)
(* goes below zero and no queue holds anything but egress ids.             *)
(***************************************************************************)
TypeOK ==
    /\ creating \subseteq Egress
    /\ buffered \in [Egress -> Seq(Update)]
    /\ pending \in [Egress -> Seq(Update)]
    /\ createFailed \subseteq Egress
    /\ queue \in [Worker -> Seq(Egress)]
    /\ sending \in [Worker -> Egress \cup {NoEgress}]
    /\ timers \subseteq Egress
    /\ late \in [Egress -> Nat]
    /\ draining \in BOOLEAN
    /\ exited \subseteq Worker
    /\ done \in BOOLEAN
    /\ issued \in [Egress -> Nat]
    /\ delivered \in [Egress -> Seq(Nat)]
    /\ undelivered \in [Egress -> Nat]
    /\ creates \in [Egress -> Nat]
    /\ refused \subseteq Egress
    /\ disowned \in [Egress -> SUBSET Nat]

In(q, e) == \E i \in DOMAIN q : q[i] = e
Distinct(q) == \A i, j \in DOMAIN q : q[i] = q[j] => i = j

Queued(e) == In(queue[WorkerOf[e]], e)
InFlight(e) == sending[WorkerOf[e]] = e

(***************************************************************************)
(* Every egress with unsent updates has exactly one wake-up: its id is     *)
(* once in its worker's queue, or its worker is sending for it, or a       *)
(* backoff timer is armed.  None means its updates are stuck for ever      *)
(* (pending blocks every later schedule); two means the same update is     *)
(* sent by two calls of handleUpdate.                                      *)
(***************************************************************************)
OneWakeUp ==
    /\ \A e \in Egress :
          /\ pending[e] # << >> <=> (Queued(e) \/ InFlight(e) \/ e \in timers)
          /\ ~(Queued(e) /\ InFlight(e))
          /\ ~(Queued(e) /\ e \in timers)
          /\ ~(InFlight(e) /\ e \in timers)
    /\ \A w \in Worker : Distinct(queue[w])

(***************************************************************************)
(* Conservation, what the io_update_failures_total counter claims: every   *)
(* update handed to UpdateEgress was delivered, is still held, or is       *)
(* counted under one of the outcomes that mean "not delivered".            *)
(***************************************************************************)
NothingLostSilently ==
    \A e \in Egress :
        issued[e] = Len(delivered[e]) + undelivered[e]
                    + Len(pending[e]) + Len(buffered[e])

(***************************************************************************)
(* The IO service accepts the updates of an egress in the order of the     *)
(* UpdateEgress calls, each at most once, whatever was retried, coalesced, *)
(* buffered behind a create or dropped in between.                         *)
(***************************************************************************)
DeliveredInOrder ==
    \A e \in Egress : \A i, j \in DOMAIN delivered[e] :
        i < j => delivered[e][i] < delivered[e][j]

(***************************************************************************)
(* An egress whose create was reported as failed is not this node's to     *)
(* report: no update it issued while refused, or while the refused create  *)
(* was in flight, is ever delivered (TestFailedCreateDiscardsLaterUpdates).*)
(***************************************************************************)
DisownedNeverDelivered ==
    \A e \in Egress : \A i \in DOMAIN delivered[e] :
        delivered[e][i] \notin disowned[e]

(***************************************************************************)
(* What TestDrainWaitsForPendingRetry states of Drain: when the fuse it    *)
(* waits on breaks, no update is waiting for delivery, on any worker.      *)
(***************************************************************************)
DrainWaitsForPending ==
    [][~done /\ done' => \A e \in Egress : pending'[e] = << >>]_vars

(***************************************************************************)
(* With a retry deadline, every update is eventually delivered or given    *)
(* up: the entry of an egress does not stay in pending for ever, unless    *)
(* its worker exited after Drain (a CreateEgress that is answered only     *)
(* then queues updates that nobody sends).                                 *)
(***************************************************************************)
PendingResolves ==
    \A e \in Egress :
        pending[e] # << >> ~> (pending[e] = << >> \/ WorkerOf[e] \in exited)

\* Drain returns: a draining reporter eventually breaks the fuse.
DrainReturns == draining ~> done

\* What is delivered may be delivered: in the order it was issued, and nothing for a session
\* the IO service refused (handleUpdate, CreateEgress).
DeliveriesAllowed == DeliveredInOrder /\ DisownedNeverDelivered

\* The reporter comes to rest: no update stays pending, and Drain returns.
Settles == PendingResolves /\ DrainReturns
=============================================================================
