----------------------------- MODULE TaskEngine -----------------------------
(***************************************************************************)
(* The asynchronous task engine: a task row and its outbox row are written *)
(* in one transaction (Submit); the outbox publisher hands the row to the  *)
(* broker; the subscription feeds a bounded channel; workers take a lock   *)
(* per task, run the handler and record the outcome; failures are retried  *)
(* by sleeping goroutines.  The database, the outbox, the broker and the   *)
(* lock store survive the process, everything else does not.  In the cloud *)
(* deployment the bus is JetStream and the lock a Redis key; on the        *)
(* desktop the bus is a function call and the lock a map.                  *)
(***************************************************************************)
EXTENDS Integers, Sequences, FiniteSets

CONSTANTS
  Tasks, Workers,
  NoTask,     \* a worker or the publisher with nothing in hand
  Free, Stale,\* a lock nobody holds; a lock whose holder no longer renews it
  ChanCap,    \* capacity of taskCh (workerCount*2)
  MaxRetries, \* retries a task is entitled to
  RetrySlots, \* maxPendingRetries
  Unhandled,  \* tasks of a type that no handler is registered for
  Deployments,\* the deployments of this instance: cloud, desktop
  SlowRelease,\* whether releasing a lock may outlast a backoff (>= 1 second)
  Faults,     \* kinds of faults of this instance
  MaxFaults   \* bound of the model: how many faults may happen

FaultKinds == {"crash", "signal", "duplicate", "expiry", "db", "redis", "publish", "cancel"}

ASSUME SizesAssumption == /\ ChanCap \in Nat \ {0} /\ RetrySlots \in Nat \ {0}
                          /\ MaxRetries \in Nat /\ MaxFaults \in Nat
ASSUME KindsAssumption == /\ Deployments \subseteq {"cloud", "desktop"}
                          /\ SlowRelease \in BOOLEAN
                          /\ Faults \subseteq FaultKinds
                          /\ Unhandled \subseteq Tasks
ASSUME NamesAssumption == /\ NoTask \notin Tasks /\ Free # Stale
                          /\ Free \notin Workers /\ Stale \notin Workers

VARIABLES
  deployment, \* where the engine runs; it never changes
  task,     \* the tasks table
  outbox,   \* the outbox table
  batch,    \* records the publisher has polled and not yet come to
  pub,      \* the record it has published and not yet marked
  stream,   \* unacknowledged messages of the JetStream stream, per task
  taskCh,   \* the channel
  worker,   \* the worker goroutines
  lock,     \* the lock of each task
  sleeping, \* retry goroutines in their backoff, per task
  woken,    \* retry goroutines that hold a slot and saw the task pending
  life,     \* the process: up, signalled, closed (Stop has run), down
  panicked, \* a send on the closed channel has killed the process
  lost,     \* history: why a carrier of the task was given up
  expired,  \* history: tasks whose lock expired under a live holder
  budget    \* faults left

vars == <<deployment, task, outbox, batch, pub, stream, taskCh, worker, lock,
          sleeping, woken, life, panicked, lost, expired, budget>>
tables  == <<task, outbox>>
feed    == <<batch, pub, stream>>
retries == <<sleeping, woken>>
process == <<life, panicked, budget>>
Durable == deployment = "cloud"

Statuses == {"none", "pending", "running", "success", "dead_letter", "cancelled"}
Steps    == {"idle", "acquire", "begin", "execute", "succeed", "reload",
             "increment", "reset", "bury", "release"}

Idle == [pc |-> "idle", task |-> NoTask, seen |-> 0]
Held(w) == worker[w].task
Goto(w, pc) == worker' = [worker EXCEPT ![w].pc = pc]
SetStatus(t, s) == task' = [task EXCEPT ![t].status = s]
Lose(t, why) == lost' = [lost EXCEPT ![t] = @ \cup {why}]

(* Queries carry the engine's context, which the signal cancels.           *)
CtxLive == life = "up"
Running == life # "down"
Inject(kind) == /\ kind \in Faults
                /\ budget > 0
                /\ budget' = budget - 1

-----------------------------------------------------------------------------
Init ==
  /\ task = [t \in Tasks |-> [status |-> "none", retry |-> 0]]
  /\ outbox = [t \in Tasks |-> "none"]
  /\ batch = {} /\ pub = NoTask
  /\ stream = [t \in Tasks |-> 0]
  /\ taskCh = <<>>
  /\ worker = [w \in Workers |-> Idle]
  /\ lock = [t \in Tasks |-> Free]
  /\ sleeping = [t \in Tasks |-> 0]
  /\ woken = [t \in Tasks |-> 0]
  /\ life = "up" /\ panicked = FALSE
  /\ lost = [t \in Tasks |-> {}] /\ expired = {}
  /\ deployment \in Deployments
  /\ budget = MaxFaults

(* The HTTP server is drained before the engine is stopped.                *)
Submit(t) ==
  /\ life \in {"up", "signalled"}
  /\ task[t].status = "none"
  /\ SetStatus(t, "pending")
  /\ outbox' = [outbox EXCEPT ![t] = "pending"]
  /\ UNCHANGED <<feed, taskCh, worker, lock, retries, process, lost>>

CancelTask(t) ==
  /\ life \in {"up", "signalled"}
  /\ Inject("cancel")
  /\ task[t].status \in {"pending", "running"}
  /\ SetStatus(t, "cancelled")
  /\ UNCHANGED <<outbox, feed, taskCh, worker, lock, retries, life, panicked, lost>>

(* A send to the channel: what to do when it is closed, and when it is     *)
(* full, belongs to the sender.                                            *)
Closed == life = "closed"
Full   == Len(taskCh) >= ChanCap
Panic  == /\ Closed
          /\ life' = "down"
          /\ panicked' = TRUE

-----------------------------------------------------------------------------
(* The outbox publisher.                                                   *)
PollOutbox ==
  /\ CtxLive
  /\ batch = {} /\ pub = NoTask
  /\ \E t \in Tasks : outbox[t] = "pending"
  /\ batch' = {t \in Tasks : outbox[t] = "pending"}
  /\ UNCHANGED <<tables, pub, stream, taskCh, worker, lock, retries, process, lost>>

PublishToStream(t) ==
  /\ Durable /\ Running
  /\ t \in batch /\ pub = NoTask
  /\ batch' = batch \ {t} /\ pub' = t
  /\ stream' = [stream EXCEPT ![t] = @ + 1]
  /\ UNCHANGED <<tables, taskCh, worker, lock, retries, process, lost>>

(* The local bus hands the record to SubmitLocal, which drops it when the  *)
(* channel is full; the publisher is told nothing of it.                   *)
PublishLocal(t) ==
  /\ ~Durable /\ Running
  /\ t \in batch /\ pub = NoTask
  /\ batch' = batch \ {t} /\ pub' = t
  /\ \/ /\ ~Closed /\ ~Full
        /\ taskCh' = Append(taskCh, t)
        /\ UNCHANGED <<life, panicked, lost>>
     \/ /\ ~Closed /\ Full
        /\ Lose(t, "sink_full")
        /\ UNCHANGED <<life, panicked, taskCh>>
     \/ /\ Panic
        /\ UNCHANGED <<taskCh, lost>>
  /\ UNCHANGED <<tables, stream, worker, lock, retries, budget>>

(* With a cancelled context neither mark is written.                       *)
MarkPublished ==
  /\ Running
  /\ pub # NoTask
  /\ outbox' = IF CtxLive THEN [outbox EXCEPT ![pub] = "published"] ELSE outbox
  /\ pub' = NoTask
  /\ UNCHANGED <<task, batch, stream, taskCh, worker, lock, retries, process, lost>>

(* A publish error or a failed mark sends the record to failed, from where *)
(* no poll takes it up again; the second update may fail as well.          *)
PublishFails(t) ==
  /\ Durable /\ CtxLive
  /\ Inject("publish")
  /\ t \in batch /\ pub = NoTask
  /\ batch' = batch \ {t}
  /\ \/ /\ outbox' = [outbox EXCEPT ![t] = "failed"]
        /\ Lose(t, "outbox_failed")
     \/ UNCHANGED <<outbox, lost>>
  /\ UNCHANGED <<task, pub, stream, taskCh, worker, lock, retries, life, panicked>>

MarkFails ==
  /\ CtxLive
  /\ Inject("db")
  /\ pub # NoTask
  /\ pub' = NoTask
  /\ outbox' \in {outbox, [outbox EXCEPT ![pub] = "failed"]}
  /\ UNCHANGED <<task, batch, stream, taskCh, worker, lock, retries, life, panicked, lost>>

-----------------------------------------------------------------------------
(* Mutant: a message that finds the channel full is acknowledged as well.  *)
DeliverAcksAll(t) ==
  /\ Durable /\ Running
  /\ stream[t] > 0
  /\ ~Closed
  /\ taskCh' = IF Full THEN taskCh ELSE Append(taskCh, t)
  /\ stream' = [stream EXCEPT ![t] = @ - 1]
  /\ UNCHANGED <<tables, batch, pub, worker, lock, retries, process, lost>>

(* The JetStream subscription acknowledges a message once the task is in   *)
(* the channel; a full channel refuses it, and the broker redelivers.  A   *)
(* lost acknowledgement leaves the message to be delivered again.          *)
Deliver(t) ==
  /\ Durable /\ Running
  /\ stream[t] > 0
  /\ ~Closed /\ ~Full
  /\ taskCh' = Append(taskCh, t)
  /\ stream' = [stream EXCEPT ![t] = @ - 1]
  /\ UNCHANGED <<tables, batch, pub, worker, lock, retries, process, lost>>

DeliverTwice(t) ==
  /\ Durable /\ Running
  /\ Inject("duplicate")
  /\ stream[t] > 0
  /\ ~Closed /\ ~Full
  /\ taskCh' = Append(taskCh, t)
  /\ UNCHANGED <<tables, feed, worker, lock, retries, life, panicked, lost>>

(* Stop closes the channel and leaves the subscription in place.           *)
DeliverToClosed(t) ==
  /\ Durable
  /\ stream[t] > 0
  /\ Panic
  /\ UNCHANGED <<tables, feed, taskCh, worker, lock, retries, lost, budget>>

-----------------------------------------------------------------------------
(* The workers.  On a closed channel they still drain what is buffered.    *)
Take(w) ==
  /\ Running
  /\ worker[w].pc = "idle" /\ taskCh # <<>>
  /\ worker' = [worker EXCEPT ![w].pc = "acquire", ![w].task = Head(taskCh)]
  /\ taskCh' = Tail(taskCh)
  /\ UNCHANGED <<tables, feed, lock, retries, process, lost>>

(* Mutant: the lock is taken without asking who holds it.                  *)
AcquireAlways(w) ==
  /\ Running
  /\ worker[w].pc = "acquire"
  /\ lock' = [lock EXCEPT ![Held(w)] = w]
  /\ Goto(w, "begin")
  /\ UNCHANGED <<tables, feed, taskCh, retries, process, lost>>

(* SETNX needs the context; the local lock does not look at it.            *)
Acquire(w) ==
  /\ Running
  /\ worker[w].pc = "acquire"
  /\ CtxLive \/ ~Durable
  /\ lock[Held(w)] = Free
  /\ lock' = [lock EXCEPT ![Held(w)] = w]
  /\ Goto(w, "begin")
  /\ UNCHANGED <<tables, feed, taskCh, retries, process, lost>>

(* The task is dropped.  A holder that is at work still has it; one that   *)
(* has died, or is about to release the lock, does not.                    *)
AcquireFails(w) ==
  LET t == Held(w) IN
  /\ Running
  /\ worker[w].pc = "acquire"
  /\ \/ /\ CtxLive \/ ~Durable
        /\ lock[t] # Free
        /\ IF lock[t] = Stale \/ worker[lock[t]].pc = "release"
             THEN Lose(t, "lock_held") ELSE UNCHANGED lost
     \/ /\ ~CtxLive /\ Durable
        /\ Lose(t, "shutdown")
  /\ worker' = [worker EXCEPT ![w] = Idle]
  /\ UNCHANGED <<tables, feed, taskCh, lock, retries, process>>

(* Redis does not answer: the worker takes that for a lock someone else    *)
(* has, and drops the task.  The key may have been set all the same, and   *)
(* then nobody renews it.                                                  *)
LockError(w) ==
  LET t == Held(w) IN
  /\ worker[w].pc = "acquire"
  /\ Durable /\ CtxLive
  /\ Inject("redis")
  /\ Lose(t, "lock_error")
  /\ lock' \in {lock, [lock EXCEPT ![t] = IF @ = Free THEN Stale ELSE @]}
  /\ worker' = [worker EXCEPT ![w] = Idle]
  /\ UNCHANGED <<tables, feed, taskCh, retries, life, panicked>>

(* Mutant: running is written whatever the status of the row.              *)
BeginUnguarded(w) ==
  /\ worker[w].pc = "begin"
  /\ CtxLive
  /\ SetStatus(Held(w), "running")
  /\ Goto(w, "execute")
  /\ UNCHANGED <<outbox, feed, taskCh, lock, retries, process, lost>>

Begin(w) ==
  LET t == Held(w) IN
  /\ worker[w].pc = "begin"
  /\ CtxLive
  /\ IF task[t].status = "cancelled"
       THEN Goto(w, "release") /\ UNCHANGED task
       ELSE Goto(w, "execute") /\ SetStatus(t, "running")
  /\ UNCHANGED <<outbox, feed, taskCh, lock, retries, process, lost>>

(* No handler: the row becomes a dead letter, unless it was cancelled.     *)
NoHandler(w) ==
  LET t == Held(w) IN
  /\ worker[w].pc = "execute"
  /\ t \in Unhandled
  /\ task' = IF CtxLive /\ task[t].status # "cancelled"
               THEN [task EXCEPT ![t].status = "dead_letter"] ELSE task
  /\ IF CtxLive THEN UNCHANGED lost ELSE Lose(t, "shutdown")
  /\ Goto(w, "release")
  /\ Running
  /\ UNCHANGED <<outbox, feed, taskCh, lock, retries, process>>

(* The dead letter was not written, which is only logged: the row stays    *)
(* running.                                                                *)
NoHandlerFails(w) ==
  LET t == Held(w) IN
  /\ worker[w].pc = "execute"
  /\ t \in Unhandled
  /\ CtxLive /\ Inject("db")
  /\ Lose(t, "db")
  /\ Goto(w, "release")
  /\ UNCHANGED <<tables, feed, taskCh, lock, retries, life, panicked>>

(* The handler, or the circuit breaker in its place, returns.              *)
Execute(w) ==
  /\ Running
  /\ worker[w].pc = "execute"
  /\ Held(w) \notin Unhandled
  /\ \E pc \in {"succeed", "reload"} : Goto(w, pc)
  /\ UNCHANGED <<tables, feed, taskCh, lock, retries, process, lost>>

(* The success update has no guard on the status.                          *)
Succeed(w) ==
  /\ worker[w].pc = "succeed"
  /\ CtxLive
  /\ SetStatus(Held(w), "success")
  /\ Goto(w, "release")
  /\ UNCHANGED <<outbox, feed, taskCh, lock, retries, process, lost>>

(* Mutant: the count carried by the message decides.                       *)
ReloadStale(w) ==
  /\ worker[w].pc = "reload"
  /\ CtxLive
  /\ worker' = [worker EXCEPT ![w].pc = IF worker[w].seen < MaxRetries THEN "increment" ELSE "bury"]
  /\ UNCHANGED <<tables, feed, taskCh, lock, retries, process, lost>>

(* handleFailure: the fresh retry count decides.                           *)
Reload(w) ==
  LET n == task[Held(w)].retry IN
  /\ worker[w].pc = "reload"
  /\ CtxLive
  /\ worker' = [worker EXCEPT ![w].seen = n,
                              ![w].pc = IF n < MaxRetries THEN "increment" ELSE "bury"]
  /\ UNCHANGED <<tables, feed, taskCh, lock, retries, process, lost>>

Increment(w) ==
  /\ worker[w].pc = "increment"
  /\ CtxLive
  /\ task' = [task EXCEPT ![Held(w)].retry = @ + 1]
  /\ Goto(w, "reset")
  /\ UNCHANGED <<outbox, feed, taskCh, lock, retries, process, lost>>

(* Mutant: the goroutine that waits for the retry is not started.          *)
ResetOnly(w) ==
  /\ worker[w].pc = "reset"
  /\ CtxLive
  /\ SetStatus(Held(w), IF task[Held(w)].status = "cancelled" THEN "cancelled" ELSE "pending")
  /\ Goto(w, "release")
  /\ UNCHANGED <<outbox, feed, taskCh, lock, retries, process, lost>>

Reset(w) ==
  LET t == Held(w) IN
  /\ worker[w].pc = "reset"
  /\ CtxLive
  /\ SetStatus(t, IF task[t].status = "cancelled" THEN "cancelled" ELSE "pending")
  /\ sleeping' = [sleeping EXCEPT ![t] = @ + 1]
  /\ Goto(w, "release")
  /\ UNCHANGED <<outbox, feed, taskCh, lock, woken, process, lost>>

(* Out of retries; this update has no guard either.                        *)
Bury(w) ==
  /\ worker[w].pc = "bury"
  /\ CtxLive
  /\ SetStatus(Held(w), "dead_letter")
  /\ Goto(w, "release")
  /\ UNCHANGED <<outbox, feed, taskCh, lock, retries, process, lost>>

(* A query fails because the database does, or because its context is      *)
(* cancelled.                                                              *)
QueryError(t) ==
  \/ CtxLive /\ Inject("db") /\ Lose(t, "db")
  \/ ~CtxLive /\ Running /\ UNCHANGED budget /\ Lose(t, "shutdown")

QueryFails(w) ==
  /\ worker[w].pc \in {"begin", "succeed", "reload", "bury"}
  /\ QueryError(Held(w))
  /\ Goto(w, "release")
  /\ UNCHANGED <<tables, feed, taskCh, lock, retries, life, panicked>>

(* The row is running, but the answer to the update was lost.  (A lost     *)
(* answer to a later update is that update, whose error is only logged.)   *)
BeginUnacknowledged(w) ==
  LET t == Held(w) IN
  /\ worker[w].pc = "begin"
  /\ CtxLive /\ Inject("db")
  /\ task[t].status # "cancelled"
  /\ SetStatus(t, "running")
  /\ Lose(t, "db")
  /\ Goto(w, "release")
  /\ UNCHANGED <<outbox, feed, taskCh, lock, retries, life, panicked>>

(* A failed increment is only logged.                                      *)
IncrementFails(w) ==
  /\ worker[w].pc = "increment"
  /\ \/ CtxLive /\ Inject("db")
     \/ ~CtxLive /\ Running /\ UNCHANGED budget
  /\ Goto(w, "reset")
  /\ UNCHANGED <<tables, feed, taskCh, lock, retries, life, panicked, lost>>

(* So is a failed reset, but its goroutine will wake to a row that is not  *)
(* pending, and drop the task.                                             *)
ResetFails(w) ==
  /\ worker[w].pc = "reset"
  /\ QueryError(Held(w))
  /\ sleeping' = [sleeping EXCEPT ![Held(w)] = @ + 1]
  /\ Goto(w, "release")
  /\ UNCHANGED <<tables, feed, taskCh, lock, woken, life, panicked>>

(* The script deletes the key only for its holder.  Under a cancelled      *)
(* context the key stays until its TTL runs out.                           *)
Release(w) ==
  LET t == Held(w) IN
  /\ Running
  /\ worker[w].pc = "release"
  /\ lock' = IF lock[t] # w THEN lock
             ELSE [lock EXCEPT ![t] = IF CtxLive \/ ~Durable THEN Free ELSE Stale]
  /\ worker' = [worker EXCEPT ![w] = Idle]
  /\ UNCHANGED <<tables, feed, taskCh, retries, process, lost>>

(* The watchdog has been stopped by then, so that a key which could not be *)
(* deleted stays until its TTL runs out here too.                          *)
ReleaseFails(w) ==
  LET t == Held(w) IN
  /\ worker[w].pc = "release"
  /\ Durable /\ CtxLive
  /\ Inject("redis")
  /\ lock' = IF lock[t] # w THEN lock ELSE [lock EXCEPT ![t] = Stale]
  /\ worker' = [worker EXCEPT ![w] = Idle]
  /\ UNCHANGED <<tables, feed, taskCh, retries, life, panicked, lost>>

-----------------------------------------------------------------------------
(* The retry goroutines.                                                   *)
SlotFree ==
  Cardinality({s \in Tasks \X (1..RetrySlots) : s[2] <= woken[s[1]]}) < RetrySlots

WakeRetry(t) ==
  /\ CtxLive
  /\ sleeping[t] > 0 /\ SlotFree
  /\ SlowRelease \/ \A w \in Workers : Held(w) = t => worker[w].pc # "release"
  /\ sleeping' = [sleeping EXCEPT ![t] = @ - 1]
  /\ woken' = IF task[t].status = "pending" THEN [woken EXCEPT ![t] = @ + 1] ELSE woken
  /\ UNCHANGED <<tables, feed, taskCh, worker, lock, process, lost>>

Requeue(t) ==
  /\ Running
  /\ woken[t] > 0
  /\ \/ /\ ~Closed /\ ~Full
        /\ taskCh' = Append(taskCh, t)
        /\ woken' = [woken EXCEPT ![t] = @ - 1]
        /\ UNCHANGED <<life, panicked, lost>>
     \/ /\ ~Closed /\ Full
        /\ woken' = [woken EXCEPT ![t] = @ - 1]
        /\ Lose(t, "retry_full")
        /\ UNCHANGED <<taskCh, life, panicked>>
     \/ /\ Panic
        /\ UNCHANGED <<taskCh, woken, lost>>
  /\ UNCHANGED <<tables, feed, worker, lock, sleeping, budget>>

RetryQuits(t) ==
  /\ ~CtxLive /\ Running
  /\ \/ /\ sleeping[t] > 0
        /\ sleeping' = [sleeping EXCEPT ![t] = @ - 1]
        /\ UNCHANGED woken
     \/ /\ woken[t] > 0
        /\ woken' = [woken EXCEPT ![t] = @ - 1]
        /\ UNCHANGED sleeping
  /\ Lose(t, "shutdown")
  /\ UNCHANGED <<tables, feed, taskCh, worker, lock, process>>

RetryReloadFails(t) ==
  /\ CtxLive /\ Inject("db")
  /\ sleeping[t] > 0 /\ SlotFree
  /\ sleeping' = [sleeping EXCEPT ![t] = @ - 1]
  /\ Lose(t, "db")
  /\ UNCHANGED <<tables, feed, taskCh, worker, lock, woken, life, panicked>>

-----------------------------------------------------------------------------
(* The process and the lock store.                                         *)
Signal ==
  /\ life = "up" /\ Inject("signal")
  /\ life' = "signalled"
  /\ UNCHANGED <<tables, feed, taskCh, worker, lock, retries, panicked, lost>>

(* Stop closes the channel and waits for nobody; main returns.             *)
Stop ==
  /\ life = "signalled"
  /\ life' = "closed"
  /\ UNCHANGED <<tables, feed, taskCh, worker, lock, retries, panicked, budget, lost>>

Exit ==
  /\ life = "closed"
  /\ life' = "down"
  /\ UNCHANGED <<tables, feed, taskCh, worker, lock, retries, panicked, budget, lost>>

Crash ==
  /\ Running /\ Inject("crash")
  /\ life' = "down"
  /\ UNCHANGED <<tables, feed, taskCh, worker, lock, retries, panicked, lost>>

(* What only the process knew is gone.                                     *)
InMemory(t) ==
  \/ \E i \in 1..Len(taskCh) : taskCh[i] = t
  \/ \E w \in Workers : Held(w) = t
  \/ sleeping[t] + woken[t] > 0

Start ==
  /\ life = "down"
  /\ life' = "up"
  /\ lost' = [t \in Tasks |-> IF InMemory(t) THEN lost[t] \cup {"crash"} ELSE lost[t]]
  /\ batch' = {} /\ pub' = NoTask /\ taskCh' = <<>>
  /\ worker' = [w \in Workers |-> Idle]
  /\ lock' = [t \in Tasks |-> IF lock[t] = Free \/ ~Durable THEN Free ELSE Stale]
  /\ sleeping' = [t \in Tasks |-> 0] /\ woken' = [t \in Tasks |-> 0]
  /\ UNCHANGED <<tables, stream, panicked, budget>>

(* A key whose holder does not renew it expires; a watchdog that failed to *)
(* renew gives up, and then the key of a live holder expires too.          *)
Expire(t) ==
  /\ Durable
  /\ \/ lock[t] = Stale /\ UNCHANGED <<budget, expired>>
     \/ /\ lock[t] \in Workers /\ Inject("expiry")
        /\ expired' = expired \cup {t}
  /\ lock' = [lock EXCEPT ![t] = Free]
  /\ UNCHANGED <<tables, feed, taskCh, worker, retries, life, panicked, lost>>

-----------------------------------------------------------------------------
Publishing == PollOutbox \/ MarkPublished \/ \E t \in Tasks : PublishToStream(t) \/ PublishLocal(t)
Publisher  == Publishing \/ MarkFails \/ \E t \in Tasks : PublishFails(t)
Feed(t)   == Deliver(t) \/ DeliverTwice(t) \/ DeliverToClosed(t)
Work(w)   == \/ Take(w) \/ Acquire(w) \/ AcquireFails(w) \/ LockError(w) \/ Begin(w)
             \/ NoHandler(w) \/ NoHandlerFails(w) \/ Execute(w) \/ Succeed(w) \/ Reload(w)
             \/ Increment(w) \/ Reset(w) \/ Bury(w) \/ QueryFails(w) \/ BeginUnacknowledged(w)
             \/ IncrementFails(w) \/ ResetFails(w) \/ Release(w) \/ ReleaseFails(w)
Retry(t)  == WakeRetry(t) \/ Requeue(t) \/ RetryQuits(t) \/ RetryReloadFails(t)

Next ==
  /\ UNCHANGED deployment
  /\ \/ /\ \/ Publisher \/ Signal \/ Stop \/ Exit \/ Crash \/ Start
           \/ \E t \in Tasks : Submit(t) \/ CancelTask(t) \/ Feed(t) \/ Retry(t)
           \/ \E w \in Workers : Work(w)
        /\ UNCHANGED expired
     \/ \E t \in Tasks : Expire(t)

Spec == Init /\ [][Next]_vars

(* Goroutines that can run do run, and the broker keeps delivering.        *)
(* Nothing is promised about faults.                                       *)
FairSpec ==
  /\ Spec
  /\ WF_vars(Publishing /\ UNCHANGED <<deployment, expired>>)
  /\ \A t \in Tasks : /\ WF_vars(Deliver(t) /\ UNCHANGED <<deployment, expired>>)
                      /\ WF_vars((WakeRetry(t) \/ Requeue(t)) /\ UNCHANGED <<deployment, expired>>)
  /\ \A w \in Workers : WF_vars(Work(w) /\ UNCHANGED <<deployment, expired>>)

-----------------------------------------------------------------------------
Working(w) == worker[w].pc \notin {"idle", "acquire"}
Carried(t) == outbox[t] = "pending" \/ stream[t] > 0 \/ InMemory(t)
Final      == {"success", "dead_letter"}

(* "Acquire distributed lock to prevent duplicate processing" (engine.go): *)
(* however often a task is delivered or requeued, one worker at a time has *)
(* it, unless the key of a live holder expired (the watchdog gives up      *)
(* after one failed renewal).                                              *)
OneRunnerPerTask ==
  \A v, w \in Workers :
    (Working(v) /\ Working(w) /\ Held(v) = Held(w)) => (v = w \/ Held(v) \in expired)

(* Two deliveries of one task share the one retry budget of its row, under *)
(* the same condition.                                                     *)
RetryBudget == \A t \in Tasks : task[t].retry <= MaxRetries \/ t \in expired

(* An unfinished task is on its way somewhere, in a table, in the broker   *)
(* or in the process, unless one of the code's exits gave it up: a full    *)
(* channel, a failed outbox record, a shutdown, a crash after the          *)
(* acknowledgement, a query that failed (the dead letter of a task without *)
(* handler among them), a lock store that did not answer, a lock that a    *)
(* dead or a departing holder still had or could not give back.            *)
NoSilentLoss ==
  \A t \in Tasks :
    (task[t].status \in {"pending", "running"} /\ ~Carried(t)) => lost[t] # {}

(* A cancelled row never runs again (the guards of UpdateStatus and of the *)
(* reset in handleFailure): it can only take the outcome of a worker that  *)
(* was past those guards when the cancellation came.                       *)
CancelledNotRevived ==
  [][\A t \in Tasks : task[t].status = "cancelled" /\ task'[t].status # "cancelled"
       => /\ task'[t].status \in Final
          /\ \E w \in Workers : Held(w) = t /\ worker[w].pc \in {"succeed", "bury"}]_vars

(* "Guard: a cancelled task is terminal - engine workers must never flip   *)
(* it back to running/pending/success" (UpdateStatus); "its result is      *)
(* discarded by the cancelled guards in processTask/handleFailure"         *)
(* (CancelTask).  The two outcomes are written without that guard.         *)
CancelledIsTerminal ==
  [][\A t \in Tasks : task[t].status = "cancelled" => task'[t].status = "cancelled"]_vars

(* Without faults every submitted task ends, retries included.             *)
EveryTaskFinishes ==
  \A t \in Tasks :
    task[t].status = "pending" ~> task[t].status \in Final \cup {"cancelled"}

=============================================================================
