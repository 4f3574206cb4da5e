------------------------- MODULE TaskEngine_proofs -------------------------
(***************************************************************************)
(* Proofs about TaskEngine for every set of tasks and of workers, every    *)
(* capacity, retry bound and number of faults, and both deployments.       *)
(*                                                                         *)
(* LockInv ties the lock of a task to the worker that has it, BudgetInv    *)
(* says what a worker about to count a retry knows of the row, and         *)
(* CarryInv strengthens "on its way" so that each step that lets go of a   *)
(* task can be judged alone: a worker that only has to release the lock    *)
(* does not carry the task any more, and the outbox row of the record just *)
(* published counts only once the process is gone.                         *)
(***************************************************************************)
EXTENDS TaskEngine, TLAPS

Names  == Tasks \cup {NoTask}
Row    == [status : Statuses, retry : Nat]
Record == [pc : Steps, task : Names, seen : Nat]

(* why the carrier of a task was given up                                  *)
Reasons == {"sink_full", "outbox_failed", "lock_held", "lock_error", "shutdown", "db", "retry_full", "crash"}

TypeOK ==
  /\ task \in [Tasks -> Row]
  /\ outbox \in [Tasks -> {"none", "pending", "published", "failed"}]
  /\ batch \in SUBSET Tasks /\ pub \in Names
  /\ stream \in [Tasks -> Nat]
  /\ taskCh \in Seq(Tasks)
  /\ worker \in [Workers -> Record]
  /\ \A w \in Workers : worker[w].task = NoTask <=> worker[w].pc = "idle"
  /\ lock \in [Tasks -> Workers \cup {Free, Stale}]
  /\ sleeping \in [Tasks -> Nat] /\ woken \in [Tasks -> Nat]
  /\ life \in {"up", "signalled", "closed", "down"}
  /\ lost \in [Tasks -> SUBSET Reasons]
  /\ expired \in SUBSET Tasks

(* A worker at work has the lock, but for one that expired; and who has a  *)
(* lock is at work on its task.                                            *)
LockInv ==
  /\ \A w \in Workers : Working(w) => lock[Held(w)] = w \/ Held(w) \in expired
  /\ \A w \in Workers, t \in Tasks : lock[t] = w => Held(w) = t /\ Working(w)

BudgetInv ==
  /\ RetryBudget
  /\ \A w \in Workers :
       worker[w].pc = "increment" =>
         \/ Held(w) \in expired
         \/ worker[w].seen = task[Held(w)].retry /\ worker[w].seen < MaxRetries

AtWork == {"execute", "succeed", "reload", "increment", "reset", "bury"}

Queued(t) == \E i \in 1..Len(taskCh) : taskCh[i] = t

OnItsWay(t) ==
  \/ outbox[t] = "pending" /\ (pub # t \/ life = "down")
  \/ stream[t] > 0
  \/ Queued(t)
  \/ sleeping[t] > 0 \/ woken[t] > 0
  \/ \E w \in Workers : Held(w) = t /\ worker[w].pc # "release"

Worked(t) == \E w \in Workers : Held(w) = t /\ worker[w].pc \in AtWork

Fate(t) ==
  /\ task[t].status \in {"pending", "running"} => OnItsWay(t) \/ lost[t] # {}
  /\ task[t].status = "running" => Worked(t) \/ lost[t] # {}
  /\ task[t].status = "none" => outbox[t] = "none" /\ t \notin batch /\ pub # t

CarryInv == \A t \in Tasks : Fate(t)

IInv == TypeOK /\ LockInv /\ BudgetInv /\ CarryInv
-----------------------------------------------------------------------------
LEMMA InitIInv == Init => IInv
<1> SUFFICES ASSUME Init PROVE IInv
  OBVIOUS
<1> USE DEF Init
<1>1. TypeOK
  BY NamesAssumption DEF TypeOK, Row, Record, Names, Statuses, Steps, Idle
<1>2. LockInv
  BY NamesAssumption DEF LockInv, Working, Idle
<1>3. BudgetInv
  BY SizesAssumption DEF BudgetInv, RetryBudget, Idle
<1>4. CarryInv
  BY NamesAssumption DEF CarryInv, Fate
<1> QED
  BY <1>1, <1>2, <1>3, <1>4 DEF IInv

(* Steps of a worker between taking the lock and releasing it.             *)
Inside(w) ==
  \/ Begin(w) \/ NoHandler(w) \/ Execute(w) \/ Succeed(w) \/ Reload(w) \/ Increment(w)
  \/ Reset(w) \/ Bury(w) \/ QueryFails(w) \/ IncrementFails(w) \/ ResetFails(w)
  \/ NoHandlerFails(w) \/ BeginUnacknowledged(w)

(* Steps of a worker that take a task, and take and give back its lock.    *)
Outside(w) ==
  \/ Take(w) \/ Acquire(w) \/ AcquireFails(w) \/ LockError(w) \/ Release(w) \/ ReleaseFails(w)

LEMMA InsideKeepsTheTask ==
  ASSUME TypeOK, NEW w \in Workers, Inside(w)
  PROVE  /\ Working(w) /\ Held(w) \in Tasks /\ UNCHANGED lock
         /\ \E q \in Record : /\ worker' = [worker EXCEPT ![w] = q]
                              /\ q.task = Held(w) /\ q.pc \notin {"idle", "acquire"}
<1>1. worker[w] \in Record /\ worker \in [Workers -> Record]
  BY DEF TypeOK
<1>2. worker[w].pc \notin {"idle", "acquire"} /\ UNCHANGED lock
  BY DEF Inside, Begin, NoHandler, Execute, Succeed, Reload, Increment, Reset, Bury,
         QueryFails, IncrementFails, ResetFails, NoHandlerFails, BeginUnacknowledged
<1>3. Working(w) /\ Held(w) \in Tasks
  BY <1>1, <1>2 DEF TypeOK, Working, Held, Record, Names
<1>4. CASE Reload(w)
  <2> DEFINE n  == task[Held(w)].retry
             pc == IF n < MaxRetries THEN "increment" ELSE "bury"
             q  == [worker[w] EXCEPT !.seen = n, !.pc = pc]
  <2>1. n \in Nat
    BY <1>3 DEF TypeOK, Row
  <2>2. q \in Record /\ q.task = Held(w) /\ q.pc \notin {"idle", "acquire"}
    BY <1>1, <2>1 DEF Held, Record, Steps
  <2>3. worker' = [worker EXCEPT ![w] = q]
    BY <1>1, <1>4 DEF Reload
  <2> QED
    BY <1>2, <1>3, <2>2, <2>3
<1>5. CASE ~Reload(w)
  <2>1. PICK pc \in Steps \ {"idle", "acquire"} : Goto(w, pc)
    BY <1>5 DEF Inside, Begin, NoHandler, Execute, Succeed, Increment, Reset, Bury,
                QueryFails, IncrementFails, ResetFails, NoHandlerFails, BeginUnacknowledged, Steps
  <2> DEFINE q == [worker[w] EXCEPT !.pc = pc]
  <2>2. q \in Record /\ q.task = Held(w) /\ q.pc \notin {"idle", "acquire"}
    BY <1>1 DEF Held, Record
  <2>3. worker' = [worker EXCEPT ![w] = q]
    BY <1>1, <2>1 DEF Goto
  <2> QED
    BY <1>2, <1>3, <2>2, <2>3
<1> QED
  BY <1>4, <1>5

LEMMA QueueTypes ==
  ASSUME taskCh \in Seq(Tasks)
  PROVE  /\ \A t \in Tasks : Append(taskCh, t) \in Seq(Tasks)
         /\ taskCh # <<>> => Head(taskCh) \in Tasks /\ Tail(taskCh) \in Seq(Tasks)
         /\ <<>> \in Seq(Tasks)
OBVIOUS

LEMMA LoseType ==
  ASSUME TypeOK, NEW t \in Tasks, NEW why \in Reasons, Lose(t, why)
  PROVE  lost' \in [Tasks -> SUBSET Reasons]
<1>1. lost \in [Tasks -> SUBSET Reasons]
  BY DEF TypeOK
<1>2. lost[t] \cup {why} \in SUBSET Reasons
  BY <1>1
<1>3. lost' = [lost EXCEPT ![t] = lost[t] \cup {why}]
  BY DEF Lose
<1> QED
  BY <1>1, <1>2, <1>3

LEMMA StatusType ==
  ASSUME TypeOK, NEW t \in Tasks, NEW s \in Statuses, SetStatus(t, s)
  PROVE  task' \in [Tasks -> Row]
<1>1. task \in [Tasks -> Row]
  BY DEF TypeOK
<1>2. [task[t] EXCEPT !.status = s] \in Row
  BY <1>1 DEF Row
<1>3. task' = [task EXCEPT ![t] = [task[t] EXCEPT !.status = s]]
  BY <1>1 DEF SetStatus
<1> QED
  BY <1>1, <1>2, <1>3

LEMMA ClientsType ==
  ASSUME TypeOK, NEW t \in Tasks, Submit(t) \/ CancelTask(t), UNCHANGED expired
  PROVE  TypeOK'
<1>1. task' \in [Tasks -> Row]
  BY StatusType DEF Submit, CancelTask, Statuses
<1>2. outbox' \in [Tasks -> {"none", "pending", "published", "failed"}]
  BY DEF TypeOK, Submit, CancelTask
<1> QED
  BY <1>1, <1>2 DEF TypeOK, Submit, CancelTask, feed, retries, process

LEMMA PublisherType ==
  ASSUME TypeOK, Publisher, UNCHANGED expired
  PROVE  TypeOK'
<1>1. CASE PollOutbox
  BY <1>1 DEF TypeOK, PollOutbox, tables, retries, process, Names
<1>2. CASE MarkPublished
  BY <1>2 DEF TypeOK, MarkPublished, retries, process, Names
<1>3. CASE MarkFails
  BY <1>3 DEF TypeOK, MarkFails, retries, Names
<1>4. ASSUME NEW t \in Tasks, PublishToStream(t) PROVE TypeOK'
  BY <1>4 DEF TypeOK, PublishToStream, tables, retries, process, Names
<1>5. ASSUME NEW t \in Tasks, PublishLocal(t) PROVE TypeOK'
  <2>1. taskCh' \in Seq(Tasks)
    BY <1>5, QueueTypes DEF TypeOK, PublishLocal
  <2>2. lost' \in [Tasks -> SUBSET Reasons]
    BY <1>5, LoseType DEF TypeOK, Reasons, PublishLocal
  <2>3. life' \in {"up", "signalled", "closed", "down"}
    BY <1>5 DEF TypeOK, PublishLocal, Panic
  <2> QED
    BY <1>5, <2>1, <2>2, <2>3 DEF TypeOK, PublishLocal, tables, retries, Names
<1>6. ASSUME NEW t \in Tasks, PublishFails(t) PROVE TypeOK'
  <2>1. lost' \in [Tasks -> SUBSET Reasons]
    BY <1>6, LoseType DEF TypeOK, Reasons, PublishFails
  <2> QED
    BY <1>6, <2>1 DEF TypeOK, PublishFails, retries, Names
<1> QED
  BY <1>1, <1>2, <1>3, <1>4, <1>5, <1>6 DEF Publishing, Publisher

LEMMA FeedType ==
  ASSUME TypeOK, NEW t \in Tasks, Feed(t), UNCHANGED expired
  PROVE  TypeOK'
<1>1. taskCh' \in Seq(Tasks)
  BY QueueTypes DEF TypeOK, Feed, Deliver, DeliverTwice, DeliverToClosed
<1>2. stream' \in [Tasks -> Nat]
  BY DEF TypeOK, Feed, Deliver, DeliverTwice, DeliverToClosed, feed
<1>3. life' \in {life, "down"}
  BY DEF Feed, Deliver, DeliverTwice, DeliverToClosed, Panic, process
<1> QED
  BY <1>1, <1>2, <1>3 DEF TypeOK, Feed, Deliver, DeliverTwice, DeliverToClosed, tables, feed, retries, process

LEMMA RetryType ==
  ASSUME TypeOK, NEW t \in Tasks, Retry(t), UNCHANGED expired
  PROVE  TypeOK'
<1>1. taskCh' \in Seq(Tasks)
  BY QueueTypes DEF TypeOK, Retry, WakeRetry, Requeue, RetryQuits, RetryReloadFails
<1>2. life' \in {life, "down"}
  BY DEF Retry, WakeRetry, Requeue, RetryQuits, RetryReloadFails, Panic, process
<1>3. lost' \in [Tasks -> SUBSET Reasons]
  BY LoseType DEF TypeOK, Reasons, Retry, WakeRetry, Requeue, RetryQuits, RetryReloadFails
<1>4. sleeping' \in [Tasks -> Nat]
  BY DEF TypeOK, Retry, WakeRetry, Requeue, RetryQuits, RetryReloadFails
<1>5. woken' \in [Tasks -> Nat]
  <2>1. woken \in [Tasks -> Nat] /\ sleeping \in [Tasks -> Nat]
    BY DEF TypeOK
  <2>2. CASE WakeRetry(t)
    BY <2>1, <2>2 DEF WakeRetry
  <2>3. CASE ~WakeRetry(t)
    BY <2>1, <2>3 DEF Retry, Requeue, RetryQuits, RetryReloadFails
  <2> QED
    BY <2>2, <2>3
<1>6. UNCHANGED <<tables, feed, worker, lock>>
  BY DEF Retry, WakeRetry, Requeue, RetryQuits, RetryReloadFails
<1> QED
  BY <1>1, <1>2, <1>3, <1>4, <1>5, <1>6 DEF TypeOK, tables, feed

LEMMA InsideType ==
  ASSUME TypeOK, NEW w \in Workers, Inside(w), UNCHANGED expired
  PROVE  TypeOK'
<1>1. PICK q \in Record : /\ worker' = [worker EXCEPT ![w] = q]
                          /\ q.task = Held(w) /\ q.pc \notin {"idle", "acquire"}
  BY InsideKeepsTheTask
<1>2. Held(w) \in Tasks /\ UNCHANGED lock
  BY InsideKeepsTheTask
<1>3. /\ worker' \in [Workers -> Record]
      /\ \A v \in Workers : worker'[v].task = NoTask <=> worker'[v].pc = "idle"
  BY <1>1, <1>2, NamesAssumption DEF TypeOK
<1>4. task' \in [Tasks -> Row]
  <2>1. CASE Increment(w)
    <3>1. task \in [Tasks -> Row] /\ task[Held(w)] \in Row
      BY <1>2 DEF TypeOK
    <3>2. task[Held(w)].retry + 1 \in Nat
      BY <3>1 DEF Row
    <3> DEFINE n == task[Held(w)].retry + 1
    <3>3. task' = [task EXCEPT ![Held(w)].retry = n]
      BY <1>2, <2>1, <3>1 DEF Increment
    <3> HIDE DEF n
    <3>4. \A t \in Tasks : task'[t] \in Row
      BY <3>1, <3>2, <3>3 DEF Row, n
    <3> QED
      BY <3>1, <3>3, <3>4
  <2>2. CASE NoHandler(w)
    BY <1>2, <2>2, StatusType DEF TypeOK, NoHandler, SetStatus, Statuses
  <2>3. CASE ~Increment(w) /\ ~NoHandler(w)
    BY <1>2, <2>3, StatusType
       DEF TypeOK, Inside, Begin, Execute, Succeed, Reload, Reset, Bury, QueryFails,
           IncrementFails, ResetFails, NoHandlerFails, BeginUnacknowledged, Statuses, tables
  <2> QED
    BY <2>1, <2>2, <2>3
<1>5. sleeping' \in [Tasks -> Nat]
  BY <1>2 DEF TypeOK, Inside, Begin, NoHandler, Execute, Succeed, Reload, Increment, Reset, Bury,
              QueryFails, IncrementFails, ResetFails, NoHandlerFails, BeginUnacknowledged, retries
<1>6. lost' \in [Tasks -> SUBSET Reasons]
  BY <1>2, LoseType DEF TypeOK, Reasons, Inside, Begin, NoHandler, Execute, Succeed, Reload, Increment, Reset, Bury,
              QueryFails, IncrementFails, ResetFails, NoHandlerFails, BeginUnacknowledged, QueryError
<1>7. UNCHANGED <<outbox, feed, taskCh, woken, life>>
  BY DEF Inside, Begin, NoHandler, Execute, Succeed, Reload, Increment, Reset, Bury,
         QueryFails, IncrementFails, ResetFails, NoHandlerFails, BeginUnacknowledged, tables, retries, process
<1> QED
  BY <1>2, <1>3, <1>4, <1>5, <1>6, <1>7 DEF TypeOK, feed

LEMMA OutsideType ==
  ASSUME TypeOK, NEW w \in Workers, Outside(w), UNCHANGED expired
  PROVE  TypeOK'
<1>1. CASE Take(w)
  <2>1. Head(taskCh) \in Tasks /\ taskCh' \in Seq(Tasks)
    BY <1>1, QueueTypes DEF TypeOK, Take
  <2>2. /\ worker' \in [Workers -> Record]
        /\ \A v \in Workers : worker'[v].task = NoTask <=> worker'[v].pc = "idle"
    BY <1>1, <2>1, NamesAssumption DEF TypeOK, Take, Record, Steps, Names
  <2> QED
    BY <1>1, <2>1, <2>2 DEF TypeOK, Take, tables, feed, retries, process
<1>2. CASE Acquire(w)
  BY <1>2 DEF TypeOK, Acquire, Goto, Held, Record, Steps, tables, feed, retries, process
<1>3. CASE AcquireFails(w)
  <2>1. lost' \in [Tasks -> SUBSET Reasons]
    BY <1>3, LoseType DEF TypeOK, Reasons, AcquireFails, Record, Names, Held
  <2>2. Idle \in Record /\ worker' = [worker EXCEPT ![w] = Idle]
    BY <1>3 DEF AcquireFails, Idle, Record, Steps, Names
  <2> QED
    BY <1>3, <2>1, <2>2 DEF TypeOK, AcquireFails, Idle, tables, feed, retries, process
<1>4. CASE Release(w)
  <2>1. Idle \in Record /\ worker' = [worker EXCEPT ![w] = Idle]
    BY <1>4 DEF Release, Idle, Record, Steps, Names
  <2>2. lock' \in [Tasks -> Workers \cup {Free, Stale}]
    BY <1>4 DEF TypeOK, Release
  <2> QED
    BY <1>4, <2>1, <2>2 DEF TypeOK, Release, Idle, tables, feed, retries, process
<1>5. CASE LockError(w)
  <2>1. lost' \in [Tasks -> SUBSET Reasons]
    BY <1>5, LoseType DEF TypeOK, Reasons, LockError, Record, Names, Held
  <2>2. Idle \in Record /\ worker' = [worker EXCEPT ![w] = Idle]
    BY <1>5 DEF LockError, Idle, Record, Steps, Names
  <2>3. lock' \in [Tasks -> Workers \cup {Free, Stale}]
    BY <1>5 DEF TypeOK, LockError
  <2> QED
    BY <1>5, <2>1, <2>2, <2>3 DEF TypeOK, LockError, Idle, tables, feed, retries
<1>6. CASE ReleaseFails(w)
  <2>1. Idle \in Record /\ worker' = [worker EXCEPT ![w] = Idle]
    BY <1>6 DEF ReleaseFails, Idle, Record, Steps, Names
  <2>2. lock' \in [Tasks -> Workers \cup {Free, Stale}]
    BY <1>6 DEF TypeOK, ReleaseFails
  <2> QED
    BY <1>6, <2>1, <2>2 DEF TypeOK, ReleaseFails, Idle, tables, feed, retries
<1> QED
  BY <1>1, <1>2, <1>3, <1>4, <1>5, <1>6 DEF Outside

LEMMA LifeType ==
  ASSUME TypeOK, Signal \/ Stop \/ Exit \/ Crash, UNCHANGED expired
  PROVE  TypeOK'
BY DEF TypeOK, Signal, Stop, Exit, Crash, tables, feed, retries

LEMMA StartType ==
  ASSUME TypeOK, Start, UNCHANGED expired
  PROVE  TypeOK'
<1>1. Idle \in Record /\ worker' = [w \in Workers |-> Idle]
  BY DEF Start, Idle, Record, Steps, Names
<1>2. lost' \in [Tasks -> SUBSET Reasons]
  <2>1. lost \in [Tasks -> SUBSET Reasons]
    BY DEF TypeOK
  <2>2. \A t \in Tasks : lost[t] \cup {"crash"} \in SUBSET Reasons
    BY <2>1 DEF Reasons
  <2> QED
    BY <2>1, <2>2 DEF Start
<1>3. lock' \in [Tasks -> Workers \cup {Free, Stale}]
  BY DEF TypeOK, Start
<1>4. taskCh' \in Seq(Tasks) /\ pub' \in Names /\ batch' \in SUBSET Tasks
  BY QueueTypes DEF TypeOK, Start, Names
<1>5. sleeping' \in [Tasks -> Nat] /\ woken' \in [Tasks -> Nat] /\ life' = "up"
  BY DEF Start
<1>6. UNCHANGED <<tables, stream>>
  BY DEF Start
<1> QED
  BY <1>1, <1>2, <1>3, <1>4, <1>5, <1>6 DEF TypeOK, tables, Idle

LEMMA ExpireType ==
  ASSUME TypeOK, NEW t \in Tasks, Expire(t)
  PROVE  TypeOK'
BY DEF TypeOK, Expire, tables, feed, retries
-----------------------------------------------------------------------------
(* The locks.                                                              *)
LEMMA LockStep ==
  ASSUME TypeOK, LockInv, NEW w \in Workers, UNCHANGED expired,
         Inside(w) \/ Outside(w)
  PROVE  LockInv'
<1>1. worker \in [Workers -> Record] /\ lock \in [Tasks -> Workers \cup {Free, Stale}]
  BY DEF TypeOK
<1>2. CASE Inside(w)
  <2>1. /\ Working(w) /\ UNCHANGED lock
        /\ \E q \in Record : /\ worker' = [worker EXCEPT ![w] = q]
                             /\ q.task = Held(w) /\ q.pc \notin {"idle", "acquire"}
    BY <1>2, InsideKeepsTheTask
  <2>2. \A v \in Workers : Held(v)' = Held(v) /\ Working(v)' = Working(v)
    BY <1>1, <2>1 DEF Held, Working
  <2> QED
    BY <2>1, <2>2 DEF LockInv
<1>3. CASE Take(w)
  <2>1. /\ ~Working(w) /\ ~Working(w)' /\ UNCHANGED lock
        /\ \A v \in Workers \ {w} : Held(v)' = Held(v) /\ Working(v)' = Working(v)
    BY <1>1, <1>3 DEF Take, Held, Working
  <2> QED
    BY <2>1 DEF LockInv
<1>4. CASE Acquire(w)
  <2>1. Held(w) \in Tasks
    BY <1>1, <1>4 DEF TypeOK, Acquire, Held, Record, Names
  <2>2. /\ Held(w)' = Held(w) /\ Working(w)' /\ lock' = [lock EXCEPT ![Held(w)] = w]
        /\ lock[Held(w)] = Free
        /\ \A v \in Workers \ {w} : Held(v)' = Held(v) /\ Working(v)' = Working(v)
    BY <1>1, <1>4 DEF Acquire, Goto, Held, Working
  <2>3. ASSUME NEW v \in Workers, Working(v)'
        PROVE  lock'[Held(v)'] = v \/ Held(v)' \in expired'
    <3>1. CASE v = w
      BY <1>1, <2>1, <2>2, <3>1
    <3>2. CASE v # w
      <4>1. lock[Held(v)] = v \/ Held(v) \in expired
        BY <2>2, <2>3, <3>2 DEF LockInv
      <4> QED
        BY <1>1, <2>2, <3>2, <4>1, NamesAssumption
    <3> QED
      BY <3>1, <3>2
  <2>4. ASSUME NEW v \in Workers, NEW t \in Tasks, lock'[t] = v
        PROVE  Held(v)' = t /\ Working(v)'
    <3>1. CASE t = Held(w)
      BY <1>1, <2>1, <2>2, <2>4, <3>1
    <3>2. CASE t # Held(w)
      <4>1. lock[t] = v
        BY <1>1, <2>2, <2>4, <3>2
      <4>2. Held(v) = t /\ Working(v)
        BY <4>1 DEF LockInv
      <4> QED
        BY <2>2, <3>2, <4>2
    <3> QED
      BY <3>1, <3>2
  <2> QED
    BY <2>3, <2>4 DEF LockInv
<1>5. CASE AcquireFails(w)
  <2>1. /\ ~Working(w) /\ ~Working(w)' /\ UNCHANGED lock
        /\ \A v \in Workers \ {w} : Held(v)' = Held(v) /\ Working(v)' = Working(v)
    BY <1>1, <1>5 DEF AcquireFails, Held, Working, Idle
  <2> QED
    BY <2>1 DEF LockInv
<1>6. CASE Release(w) \/ ReleaseFails(w)
  <2>1. Held(w) \in Tasks /\ Working(w)
    BY <1>1, <1>6 DEF TypeOK, Release, ReleaseFails, Held, Record, Names, Working
  <2>2. /\ ~Working(w)'
        /\ \A v \in Workers \ {w} : Held(v)' = Held(v) /\ Working(v)' = Working(v)
    BY <1>1, <1>6 DEF Release, ReleaseFails, Held, Working, Idle
  <2>3. /\ \A t \in Tasks : lock'[t] # w
        /\ \A t \in Tasks, v \in Workers \ {w} : lock'[t] = v <=> lock[t] = v
    BY <1>1, <1>6, <2>1, NamesAssumption DEF Release, ReleaseFails, LockInv
  <2>4. ASSUME NEW v \in Workers, Working(v)'
        PROVE  lock'[Held(v)'] = v \/ Held(v)' \in expired'
    <3>1. v # w /\ Held(v)' = Held(v) /\ Working(v)
      BY <2>2, <2>4
    <3>2. Held(v) \in Tasks
      BY <1>1, <3>1 DEF TypeOK, Held, Record, Names, Working
    <3> QED
      BY <2>3, <3>1, <3>2 DEF LockInv
  <2> QED
    BY <2>2, <2>3, <2>4 DEF LockInv
<1>7. CASE LockError(w)
  <2>1. /\ ~Working(w) /\ ~Working(w)'
        /\ \A v \in Workers \ {w} : Held(v)' = Held(v) /\ Working(v)' = Working(v)
    BY <1>1, <1>7 DEF LockError, Held, Working, Idle
  <2>2. \A t \in Tasks, v \in Workers : lock'[t] = v <=> lock[t] = v
    BY <1>1, <1>7, NamesAssumption DEF LockError
  <2>3. \A v \in Workers : Working(v) => Held(v) \in Tasks
    BY <1>1 DEF TypeOK, Held, Record, Names, Working
  <2> QED
    BY <2>1, <2>2, <2>3 DEF LockInv
<1> QED
  BY <1>2, <1>3, <1>4, <1>5, <1>6, <1>7 DEF Outside

LEMMA LockExpires ==
  ASSUME TypeOK, LockInv, NEW t \in Tasks, Expire(t)
  PROVE  LockInv'
<1>1. /\ lock' = [lock EXCEPT ![t] = Free] /\ lock \in [Tasks -> Workers \cup {Free, Stale}]
      /\ UNCHANGED worker /\ expired \subseteq expired'
      /\ lock[t] \in Workers => t \in expired'
  BY NamesAssumption DEF Expire, TypeOK
<1>2. \A v \in Workers : Working(v) => Held(v) \in Tasks
  BY DEF TypeOK, Held, Record, Names, Working
<1>3. ASSUME NEW v \in Workers, Working(v)
      PROVE  lock'[Held(v)] = v \/ Held(v) \in expired'
  BY <1>1, <1>2, <1>3 DEF LockInv
<1>4. ASSUME NEW v \in Workers, NEW u \in Tasks, lock'[u] = v
      PROVE  Held(v) = u /\ Working(v)
  BY <1>1, <1>4, NamesAssumption DEF LockInv
<1> QED
  BY <1>1, <1>3, <1>4 DEF LockInv, Held, Working

LEMMA LockRestart ==
  ASSUME TypeOK, LockInv, Start, UNCHANGED expired
  PROVE  LockInv'
<1>1. \A w \in Workers : ~Working(w)'
  BY DEF Start, Working, Idle
<1>2. \A t \in Tasks : lock'[t] \notin Workers
  BY NamesAssumption DEF Start
<1> QED
  BY <1>1, <1>2 DEF LockInv

LEMMA LockElse ==
  ASSUME LockInv, UNCHANGED <<worker, lock, expired>>
  PROVE  LockInv'
BY DEF LockInv, Held, Working
-----------------------------------------------------------------------------
(* The budget of retries.                                                  *)
LEMMA BudgetStep ==
  ASSUME TypeOK, LockInv, BudgetInv, NEW w \in Workers, UNCHANGED expired,
         Inside(w)
  PROVE  BudgetInv'
<1>1. worker \in [Workers -> Record] /\ task \in [Tasks -> Row] /\ Held(w) \in Tasks
  BY InsideKeepsTheTask DEF TypeOK
<1>2. /\ Held(w)' = Held(w)
      /\ \A v \in Workers \ {w} : worker'[v] = worker[v]
  BY <1>1, InsideKeepsTheTask DEF Held
<1>3. CASE Increment(w)
  <2>1. /\ \A t \in Tasks \ {Held(w)} : task'[t].retry = task[t].retry
        /\ task'[Held(w)].retry = task[Held(w)].retry + 1
        /\ worker[w].pc = "increment" /\ worker'[w].pc = "reset"
    BY <1>1, <1>3 DEF Increment, Goto
  <2>2. RetryBudget'
    <3>1. Held(w) \in expired \/ task[Held(w)].retry < MaxRetries
      BY <2>1 DEF BudgetInv
    <3>2. task[Held(w)].retry \in Nat
      BY <1>1 DEF Row
    <3> QED
      BY <2>1, <3>1, <3>2, SizesAssumption DEF BudgetInv, RetryBudget
  <2>3. ASSUME NEW v \in Workers, worker'[v].pc = "increment"
        PROVE  \/ Held(v)' \in expired'
               \/ worker'[v].seen = task'[Held(v)'].retry /\ worker'[v].seen < MaxRetries
    <3>1. v # w /\ worker'[v] = worker[v] /\ Held(v)' = Held(v) /\ Held(v) \in Tasks
      BY <1>1, <1>2, <2>1, <2>3 DEF TypeOK, Held, Record, Names
    <3>2. Working(v) /\ Working(w)
      BY <2>1, <2>3, <3>1 DEF Working
    <3>3. CASE Held(v) = Held(w)
      BY <3>1, <3>2, <3>3 DEF LockInv
    <3>4. CASE Held(v) # Held(w)
      BY <2>1, <2>3, <3>1, <3>4 DEF BudgetInv
    <3> QED
      BY <3>3, <3>4
  <2> QED
    BY <2>2, <2>3 DEF BudgetInv
<1>4. CASE ~Increment(w)
  <2>1. \A t \in Tasks : task'[t].retry = task[t].retry
    BY <1>1, <1>4 DEF Inside, Begin, NoHandler, Execute, Succeed, Reload, Reset, Bury, QueryFails,
                      IncrementFails, ResetFails, NoHandlerFails, BeginUnacknowledged, SetStatus, Row, tables
  <2>2. worker'[w].pc = "increment" =>
          worker'[w].seen = task[Held(w)].retry /\ worker'[w].seen < MaxRetries
    BY <1>1, <1>4 DEF Inside, Begin, NoHandler, Execute, Succeed, Reload, Reset, Bury, QueryFails,
                      IncrementFails, ResetFails, NoHandlerFails, BeginUnacknowledged, Goto, Record
  <2>3. ASSUME NEW v \in Workers, worker'[v].pc = "increment"
        PROVE  Held(v)' \in Tasks /\ Held(v)' = Held(v)
    BY <1>1, <1>2, <2>3 DEF TypeOK, Held, Record, Names
  <2> QED
    BY <1>1, <1>2, <2>1, <2>2, <2>3 DEF BudgetInv, RetryBudget, Held
<1> QED
  BY <1>3, <1>4

LEMMA BudgetElse ==
  ASSUME TypeOK, BudgetInv, expired \subseteq expired',
         \A t \in Tasks : task'[t].retry = task[t].retry,
         \A w \in Workers : worker'[w] = worker[w] \/ worker'[w].pc # "increment"
  PROVE  BudgetInv'
<1>1. ASSUME NEW w \in Workers, worker[w].pc = "increment" PROVE Held(w) \in Tasks
  BY <1>1 DEF TypeOK, Held, Record, Names
<1> QED
  BY <1>1 DEF BudgetInv, RetryBudget, Held
-----------------------------------------------------------------------------
(* The carriers.                                                           *)
LEMMA FateKept ==
  ASSUME NEW t \in Tasks, Fate(t), task'[t].status = task[t].status,
         lost[t] \subseteq lost'[t],
         OnItsWay(t) => OnItsWay(t)' \/ lost'[t] # {},
         Worked(t) => Worked(t)' \/ lost'[t] # {},
         task[t].status = "none" => outbox'[t] = outbox[t] /\ t \notin batch' /\ pub' # t
  PROVE  Fate(t)'
BY DEF Fate

LEMMA QueueGrows ==
  ASSUME taskCh \in Seq(Tasks), NEW t \in Tasks, taskCh' = Append(taskCh, t)
  PROVE  Queued(t)' /\ \A u \in Tasks : Queued(u) => Queued(u)'
<1>1. Len(taskCh') = Len(taskCh) + 1 /\ Len(taskCh) \in Nat
  OBVIOUS
<1>2. taskCh'[Len(taskCh) + 1] = t
  OBVIOUS
<1>3. \A i \in 1..Len(taskCh) : taskCh'[i] = taskCh[i]
  OBVIOUS
<1> QED
  BY <1>1, <1>2, <1>3 DEF Queued

LEMMA QueueShrinks ==
  ASSUME taskCh \in Seq(Tasks), taskCh # <<>>, taskCh' = Tail(taskCh)
  PROVE  \A u \in Tasks : Queued(u) => u = Head(taskCh) \/ Queued(u)'
<1> SUFFICES ASSUME NEW u \in Tasks, Queued(u), u # Head(taskCh) PROVE Queued(u)'
  OBVIOUS
<1>1. PICK i \in 1..Len(taskCh) : taskCh[i] = u
  BY DEF Queued
<1>2. i # 1 /\ Len(taskCh) \in Nat /\ Len(taskCh') = Len(taskCh) - 1
  BY <1>1
<1>3. i - 1 \in 1..Len(taskCh') /\ taskCh'[i - 1] = u
  BY <1>1, <1>2
<1> QED
  BY <1>3 DEF Queued

LEMMA LoseSays ==
  ASSUME TypeOK, NEW t \in Tasks, NEW why, Lose(t, why)
  PROVE  lost'[t] # {} /\ \A u \in Tasks : lost[u] \subseteq lost'[u]
<1>1. lost' = [lost EXCEPT ![t] = lost[t] \cup {why}] /\ lost \in [Tasks -> SUBSET Reasons]
  BY DEF TypeOK, Lose
<1> QED
  BY <1>1

LEMMA CarryClients ==
  ASSUME TypeOK, CarryInv, NEW t \in Tasks, Submit(t) \/ CancelTask(t)
  PROVE  CarryInv'
<1>1. task \in [Tasks -> Row] /\ outbox \in [Tasks -> {"none", "pending", "published", "failed"}]
  BY DEF TypeOK
<1>2. /\ UNCHANGED <<batch, pub, stream, taskCh, worker, sleeping, woken, lost>>
      /\ \A u \in Tasks \ {t} : task'[u] = task[u] /\ outbox'[u] = outbox[u]
      /\ life = "down" => life' = "down"
  BY <1>1 DEF Submit, CancelTask, SetStatus, feed, retries, process
<1>3. ASSUME NEW u \in Tasks \ {t} PROVE Fate(u)'
  <2>1. (OnItsWay(u) => OnItsWay(u)') /\ (Worked(u) => Worked(u)')
    BY <1>2, <1>3 DEF OnItsWay, Worked, Queued, Held
  <2> QED
    BY <1>2, <1>3, <2>1, FateKept DEF CarryInv, Fate
<1>4. Fate(t)'
  <2>1. CASE Submit(t)
    <3>1. task'[t].status = "pending" /\ outbox'[t] = "pending" /\ pub' # t
      BY <1>1, <1>2, <2>1 DEF Submit, SetStatus, Row, CarryInv, Fate
    <3> QED
      BY <3>1 DEF Fate, OnItsWay
  <2>2. CASE CancelTask(t)
    <3>1. task'[t].status = "cancelled"
      BY <1>1, <2>2 DEF CancelTask, SetStatus, Row
    <3> QED
      BY <3>1 DEF Fate
  <2> QED
    BY <2>1, <2>2
<1> QED
  BY <1>3, <1>4 DEF CarryInv

LEMMA CarryPublisher ==
  ASSUME TypeOK, CarryInv, Publisher
  PROVE  CarryInv'
<1> SUFFICES ASSUME NEW u \in Tasks PROVE Fate(u)'
  BY DEF CarryInv
<1>0. Fate(u) /\ taskCh \in Seq(Tasks) /\ u # NoTask
  BY NamesAssumption DEF CarryInv, TypeOK
<1>1. CASE PollOutbox
  <2>1. UNCHANGED <<task, outbox, pub, stream, taskCh, worker, sleeping, woken, lost, life>>
    BY <1>1 DEF PollOutbox, tables, retries, process
  <2>2. (OnItsWay(u) => OnItsWay(u)') /\ (Worked(u) => Worked(u)')
    BY <2>1 DEF OnItsWay, Worked, Queued, Held
  <2>3. task[u].status = "none" => u \notin batch'
    BY <1>0, <1>1 DEF PollOutbox, Fate
  <2> QED
    BY <1>0, <2>1, <2>2, <2>3, FateKept DEF Fate
<1>2. CASE MarkPublished
  <2>1. /\ UNCHANGED <<task, batch, stream, taskCh, worker, sleeping, woken, lost, life>>
        /\ pub' = NoTask /\ life # "down" /\ (u # pub => outbox'[u] = outbox[u])
    BY <1>2 DEF MarkPublished, Running, retries, process, TypeOK
  <2>2. (OnItsWay(u) => OnItsWay(u)') /\ (Worked(u) => Worked(u)')
    BY <1>0, <2>1 DEF OnItsWay, Worked, Queued, Held
  <2> QED
    BY <1>0, <2>1, <2>2, FateKept DEF Fate
<1>3. CASE MarkFails
  <2>1. /\ UNCHANGED <<task, batch, stream, taskCh, worker, sleeping, woken, lost, life>>
        /\ pub' = NoTask /\ life # "down" /\ (u # pub => outbox'[u] = outbox[u])
    BY <1>3 DEF MarkFails, CtxLive, retries, process, TypeOK
  <2>2. (OnItsWay(u) => OnItsWay(u)') /\ (Worked(u) => Worked(u)')
    BY <1>0, <2>1 DEF OnItsWay, Worked, Queued, Held
  <2> QED
    BY <1>0, <2>1, <2>2, FateKept DEF Fate
<1>4. ASSUME NEW t \in Tasks, PublishToStream(t) PROVE Fate(u)'
  <2>1. /\ UNCHANGED <<task, outbox, taskCh, worker, sleeping, woken, lost, life>>
        /\ pub' = t /\ batch' \subseteq batch /\ t \in batch
        /\ stream' = [stream EXCEPT ![t] = @ + 1] /\ stream \in [Tasks -> Nat]
    BY <1>4 DEF PublishToStream, tables, retries, process, TypeOK
  <2>2. stream'[t] > 0 /\ (u # t => stream'[u] = stream[u])
    BY <2>1
  <2>3. (OnItsWay(u) => OnItsWay(u)') /\ (Worked(u) => Worked(u)')
    BY <2>1, <2>2 DEF OnItsWay, Worked, Queued, Held
  <2> QED
    BY <1>0, <2>1, <2>3, FateKept DEF Fate
<1>5. ASSUME NEW t \in Tasks, PublishLocal(t) PROVE Fate(u)'
  <2>1. /\ UNCHANGED <<task, outbox, stream, worker, sleeping, woken>>
        /\ pub' = t /\ batch' \subseteq batch /\ t \in batch /\ life # "down"
        /\ \/ taskCh' = Append(taskCh, t) /\ UNCHANGED <<lost, life>>
           \/ lost'[t] # {} /\ (\A x \in Tasks : lost[x] \subseteq lost'[x]) /\ UNCHANGED <<taskCh, life>>
           \/ life' = "down" /\ UNCHANGED <<taskCh, lost>>
    BY <1>5, LoseSays DEF PublishLocal, Panic, Running, tables, retries
  <2>2. (Queued(u) => Queued(u)') /\ (taskCh' = Append(taskCh, t) => Queued(t)')
    BY <1>0, <2>1, QueueGrows DEF Queued
  <2>3. (OnItsWay(u) => OnItsWay(u)' \/ lost'[u] # {}) /\ (Worked(u) => Worked(u)')
    BY <2>1, <2>2 DEF OnItsWay, Worked, Held
  <2> QED
    BY <1>0, <2>1, <2>3, FateKept DEF Fate
<1>6. ASSUME NEW t \in Tasks, PublishFails(t) PROVE Fate(u)'
  <2>1. /\ UNCHANGED <<task, pub, stream, taskCh, worker, sleeping, woken, life>>
        /\ batch' \subseteq batch /\ t \in batch
        /\ \/ /\ lost'[t] # {} /\ \A x \in Tasks : lost[x] \subseteq lost'[x]
              /\ u # t => outbox'[u] = outbox[u]
           \/ UNCHANGED <<lost, outbox>>
    BY <1>6, LoseSays DEF PublishFails, retries, TypeOK
  <2>2. (OnItsWay(u) => OnItsWay(u)' \/ lost'[u] # {}) /\ (Worked(u) => Worked(u)')
    BY <2>1 DEF OnItsWay, Worked, Queued, Held
  <2> QED
    BY <1>0, <2>1, <2>2, FateKept DEF Fate
<1> QED
  BY <1>1, <1>2, <1>3, <1>4, <1>5, <1>6 DEF Publishing, Publisher

LEMMA CarryFeed ==
  ASSUME TypeOK, CarryInv, NEW t \in Tasks, Feed(t)
  PROVE  CarryInv'
<1> SUFFICES ASSUME NEW u \in Tasks PROVE Fate(u)'
  BY DEF CarryInv
<1>0. Fate(u) /\ taskCh \in Seq(Tasks) /\ stream \in [Tasks -> Nat]
  BY DEF CarryInv, TypeOK
<1>1. UNCHANGED <<task, outbox, batch, pub, worker, sleeping, woken, lost>>
  BY DEF Feed, Deliver, DeliverTwice, DeliverToClosed, tables, feed, retries, process
<1>2. CASE Deliver(t) \/ DeliverTwice(t)
  <2>1. /\ taskCh' = Append(taskCh, t) /\ (u # t => stream'[u] = stream[u])
        /\ life = "down" => life' = "down"
    BY <1>0, <1>2 DEF Deliver, DeliverTwice, feed, process
  <2>2. Queued(t)' /\ (Queued(u) => Queued(u)')
    BY <1>0, <2>1, QueueGrows
  <2>3. (OnItsWay(u) => OnItsWay(u)') /\ (Worked(u) => Worked(u)')
    BY <1>1, <2>1, <2>2 DEF OnItsWay, Worked, Held
  <2> QED
    BY <1>0, <1>1, <2>3, FateKept DEF Fate
<1>3. CASE DeliverToClosed(t)
  <2>1. life' = "down" /\ UNCHANGED <<stream, taskCh>>
    BY <1>3 DEF DeliverToClosed, Panic, feed
  <2>2. (OnItsWay(u) => OnItsWay(u)') /\ (Worked(u) => Worked(u)')
    BY <1>1, <2>1 DEF OnItsWay, Worked, Queued, Held
  <2> QED
    BY <1>0, <1>1, <2>2, FateKept DEF Fate
<1> QED
  BY <1>2, <1>3 DEF Feed

LEMMA CarryRetry ==
  ASSUME TypeOK, CarryInv, NEW t \in Tasks, Retry(t)
  PROVE  CarryInv'
<1> SUFFICES ASSUME NEW u \in Tasks PROVE Fate(u)'
  BY DEF CarryInv
<1>0. /\ Fate(u) /\ Fate(t) /\ taskCh \in Seq(Tasks)
      /\ sleeping \in [Tasks -> Nat] /\ woken \in [Tasks -> Nat]
  BY DEF CarryInv, TypeOK
<1>1. UNCHANGED <<task, outbox, batch, pub, stream, worker>>
  BY DEF Retry, WakeRetry, Requeue, RetryQuits, RetryReloadFails, tables, feed
<1>2. CASE WakeRetry(t)
  <2>1. /\ UNCHANGED <<taskCh, lost, life>>
        /\ u # t => sleeping'[u] = sleeping[u] /\ woken'[u] = woken[u]
        /\ task[t].status = "pending" => woken'[t] > 0
    BY <1>0, <1>2 DEF WakeRetry, process
  <2>2. Worked(u) => Worked(u)' /\ OnItsWay(u)'
    BY <1>1 DEF Worked, OnItsWay, AtWork, Held
  <2>3. CASE u # t
    <3>1. OnItsWay(u) => OnItsWay(u)'
      BY <1>1, <2>1, <2>3 DEF OnItsWay, Queued, Held
    <3> QED
      BY <1>0, <1>1, <2>1, <2>2, <3>1, FateKept DEF Fate
  <2>4. CASE u = t
    BY <1>0, <1>1, <2>1, <2>2, <2>4 DEF Fate, OnItsWay
  <2> QED
    BY <2>3, <2>4
<1>3. CASE Requeue(t)
  <2>1. /\ UNCHANGED sleeping
        /\ u # t => woken'[u] = woken[u]
        /\ \/ taskCh' = Append(taskCh, t) /\ UNCHANGED <<lost, life>>
           \/ lost'[t] # {} /\ (\A x \in Tasks : lost[x] \subseteq lost'[x]) /\ UNCHANGED <<taskCh, life>>
           \/ life' = "down" /\ UNCHANGED <<taskCh, lost, woken>>
    BY <1>0, <1>3, LoseSays DEF Requeue, Panic
  <2>2. (Queued(u) => Queued(u)') /\ (taskCh' = Append(taskCh, t) => Queued(t)')
    BY <1>0, <2>1, QueueGrows DEF Queued
  <2>3. (OnItsWay(u) => OnItsWay(u)' \/ lost'[u] # {}) /\ (Worked(u) => Worked(u)')
    BY <1>1, <2>1, <2>2 DEF OnItsWay, Worked, Held
  <2> QED
    BY <1>0, <1>1, <2>1, <2>3, FateKept DEF Fate
<1>4. CASE RetryQuits(t) \/ RetryReloadFails(t)
  <2>1. /\ UNCHANGED <<taskCh, life>>
        /\ lost'[t] # {} /\ \A x \in Tasks : lost[x] \subseteq lost'[x]
        /\ u # t => sleeping'[u] = sleeping[u] /\ woken'[u] = woken[u]
    BY <1>0, <1>4, LoseSays DEF RetryQuits, RetryReloadFails, process
  <2>2. (OnItsWay(u) => OnItsWay(u)' \/ lost'[u] # {}) /\ (Worked(u) => Worked(u)')
    BY <1>1, <2>1 DEF OnItsWay, Queued, Worked, Held
  <2> QED
    BY <1>0, <1>1, <2>1, <2>2, FateKept DEF Fate
<1> QED
  BY <1>2, <1>3, <1>4 DEF Retry

LEMMA CarryOutside ==
  ASSUME TypeOK, LockInv, CarryInv, NEW w \in Workers,
         Outside(w)
  PROVE  CarryInv'
<1> SUFFICES ASSUME NEW u \in Tasks PROVE Fate(u)'
  BY DEF CarryInv
<1>0. /\ Fate(u) /\ taskCh \in Seq(Tasks) /\ worker \in [Workers -> Record]
      /\ lock \in [Tasks -> Workers \cup {Free, Stale}]
      /\ worker[w].pc # "idle" => Held(w) \in Tasks
  BY DEF CarryInv, TypeOK, Held, Record, Names
<1>1. /\ UNCHANGED <<task, outbox, batch, pub, stream, sleeping, woken, life>>
      /\ \A v \in Workers \ {w} : worker'[v] = worker[v]
      /\ worker[w].pc \notin AtWork
  BY <1>0 DEF Outside, Take, Acquire, AcquireFails, LockError, Release, ReleaseFails, Goto, AtWork,
              tables, feed, retries, process
<1>2. Worked(u) => Worked(u)'
  BY <1>1 DEF Worked, Held
<1>3. CASE Take(w)
  <2>1. /\ UNCHANGED lost /\ worker[w].pc = "idle" /\ taskCh # <<>> /\ taskCh' = Tail(taskCh)
        /\ Held(w)' = Head(taskCh) /\ worker'[w].pc = "acquire" /\ Held(w) = NoTask
    BY <1>0, <1>3 DEF Take, TypeOK, Held
  <2>2. Queued(u) => Held(w)' = u \/ Queued(u)'
    BY <1>0, <2>1, QueueShrinks
  <2>3. OnItsWay(u) => OnItsWay(u)'
    BY <1>1, <2>1, <2>2, NamesAssumption DEF OnItsWay, Held
  <2> QED
    BY <1>0, <1>1, <1>2, <2>1, <2>3, FateKept DEF Fate
<1>4. CASE Acquire(w)
  <2>1. /\ UNCHANGED <<lost, taskCh>> /\ Held(w)' = Held(w) /\ worker'[w].pc = "begin"
    BY <1>0, <1>4 DEF Acquire, Goto, Held
  <2>2. OnItsWay(u) => OnItsWay(u)'
    BY <1>1, <2>1 DEF OnItsWay, Queued, Held
  <2> QED
    BY <1>0, <1>1, <1>2, <2>1, <2>2, FateKept DEF Fate
<1>5. CASE AcquireFails(w)
  <2>1. /\ UNCHANGED taskCh /\ worker[w].pc = "acquire" /\ Held(w) \in Tasks
        /\ (UNCHANGED lost /\ lock[Held(w)] \notin {Free, Stale} /\ worker[lock[Held(w)]].pc # "release")
           \/ (lost'[Held(w)] # {} /\ \A x \in Tasks : lost[x] \subseteq lost'[x])
    BY <1>0, <1>5, LoseSays DEF AcquireFails
  <2>2. CASE UNCHANGED lost /\ lock[Held(w)] \notin {Free, Stale} /\ worker[lock[Held(w)]].pc # "release"
    <3>1. PICK v \in Workers : v = lock[Held(w)]
      BY <1>0, <2>1, <2>2
    <3>2. v # w /\ worker[v].pc # "release" /\ Held(v) = Held(w)
      BY <2>1, <2>2, <3>1 DEF LockInv, Working
    <3>3. worker'[v] = worker[v] /\ Held(v)' = Held(v)
      BY <1>1, <3>1, <3>2 DEF Held
    <3>4. Held(w) = u => \E x \in Workers : Held(x)' = u /\ worker'[x].pc # "release"
      BY <3>1, <3>2, <3>3
    <3>5. OnItsWay(u) => OnItsWay(u)'
      BY <1>1, <2>1, <3>4 DEF OnItsWay, Queued, Held
    <3> QED
      BY <1>0, <1>1, <1>2, <2>2, <3>5, FateKept DEF Fate
  <2>3. CASE lost'[Held(w)] # {} /\ \A x \in Tasks : lost[x] \subseteq lost'[x]
    <3>1. OnItsWay(u) => OnItsWay(u)' \/ lost'[u] # {}
      BY <1>1, <2>1, <2>3 DEF OnItsWay, Queued, Held
    <3> QED
      BY <1>0, <1>1, <1>2, <2>3, <3>1, FateKept DEF Fate
  <2> QED
    BY <2>1, <2>2, <2>3
<1>6. CASE Release(w) \/ ReleaseFails(w)
  <2>1. UNCHANGED <<lost, taskCh>> /\ worker[w].pc = "release"
    BY <1>6 DEF Release, ReleaseFails
  <2>2. OnItsWay(u) => OnItsWay(u)'
    BY <1>1, <2>1 DEF OnItsWay, Queued, Held
  <2> QED
    BY <1>0, <1>1, <1>2, <2>1, <2>2, FateKept DEF Fate
<1>7. CASE LockError(w)
  <2>1. /\ UNCHANGED taskCh /\ worker[w].pc = "acquire" /\ Held(w) \in Tasks
        /\ lost'[Held(w)] # {} /\ \A x \in Tasks : lost[x] \subseteq lost'[x]
    BY <1>0, <1>7, LoseSays DEF LockError
  <2>2. OnItsWay(u) => OnItsWay(u)' \/ lost'[u] # {}
    BY <1>1, <2>1 DEF OnItsWay, Queued, Held
  <2> QED
    BY <1>0, <1>1, <1>2, <2>1, <2>2, FateKept DEF Fate
<1> QED
  BY <1>3, <1>4, <1>5, <1>6, <1>7 DEF Outside

LEMMA CarryInside ==
  ASSUME TypeOK, CarryInv, NEW w \in Workers, Inside(w)
  PROVE  CarryInv'
<1> SUFFICES ASSUME NEW u \in Tasks PROVE Fate(u)'
  BY DEF CarryInv
<1>0. /\ Fate(u) /\ worker \in [Workers -> Record] /\ task \in [Tasks -> Row]
      /\ sleeping \in [Tasks -> Nat] /\ Held(w) \in Tasks
      /\ Held(w)' = Held(w) /\ \A v \in Workers \ {w} : worker'[v] = worker[v]
  BY InsideKeepsTheTask DEF CarryInv, TypeOK, Held
<1>1. UNCHANGED <<outbox, batch, pub, stream, taskCh, woken, life>>
  BY DEF Inside, Begin, NoHandler, Execute, Succeed, Reload, Increment, Reset, Bury,
         QueryFails, IncrementFails, ResetFails, NoHandlerFails, BeginUnacknowledged, tables, feed, retries, process
<1>2. \A x \in Tasks : lost[x] \subseteq lost'[x]
  BY <1>0, LoseSays
     DEF Inside, Begin, NoHandler, Execute, Succeed, Reload, Increment, Reset, Bury,
         QueryFails, IncrementFails, ResetFails, NoHandlerFails, BeginUnacknowledged, QueryError
<1>3. CASE u # Held(w)
  <2>1. task'[u] = task[u] /\ sleeping'[u] = sleeping[u]
    BY <1>0, <1>3 DEF Inside, Begin, NoHandler, Execute, Succeed, Reload, Increment, Reset, Bury,
           QueryFails, IncrementFails, ResetFails, NoHandlerFails, BeginUnacknowledged, SetStatus, tables, retries
  <2>2. (OnItsWay(u) => OnItsWay(u)') /\ (Worked(u) => Worked(u)')
    BY <1>0, <1>1, <1>3, <2>1 DEF OnItsWay, Worked, Queued, Held
  <2> QED
    BY <1>0, <1>1, <1>2, <2>1, <2>2, FateKept DEF Fate
<1>4. CASE u = Held(w)
  <2>1. ASSUME worker'[w].pc \in AtWork, task'[u].status \in {task[u].status, "running"}
        PROVE  Fate(u)'
    <3>1. Worked(u)' /\ OnItsWay(u)'
      BY <1>0, <1>4, <2>1 DEF Worked, OnItsWay, AtWork, Held
    <3> QED
      BY <1>0, <1>1, <2>1, <3>1 DEF Fate
  <2>2. ASSUME task'[u].status \in {"success", "dead_letter", "cancelled"} PROVE Fate(u)'
    BY <2>2 DEF Fate
  <2>3. ASSUME lost'[u] # {}, UNCHANGED task PROVE Fate(u)'
    BY <1>0, <1>1, <2>3 DEF Fate
  <2>4. CASE Begin(w)
    <3>1. CASE task[u].status = "cancelled"
      BY <1>4, <2>2, <2>4, <3>1 DEF Begin
    <3>2. CASE task[u].status # "cancelled"
      <4>1. Goto(w, "execute") /\ SetStatus(u, "running")
        BY <1>4, <2>4, <3>2 DEF Begin
      <4>2. worker'[w].pc = "execute"
        BY <1>0, <4>1 DEF Goto
      <4>3. task'[u].status = "running"
        BY <1>0, <4>1 DEF SetStatus, Row
      <4> QED
        BY <2>1, <4>2, <4>3 DEF AtWork
    <3> QED
      BY <3>1, <3>2
  <2>5. CASE NoHandler(w)
    <3>1. CASE CtxLive
      <4>1. task'[u].status \in {"dead_letter", "cancelled"}
        BY <1>0, <1>4, <2>5, <3>1 DEF NoHandler, Row
      <4> QED
        BY <2>2, <4>1
    <3>2. CASE ~CtxLive
      BY <1>0, <1>4, <2>3, <2>5, <3>2, LoseSays DEF NoHandler
    <3> QED
      BY <3>1, <3>2
  <2>6. CASE Execute(w) \/ Reload(w) \/ IncrementFails(w)
    <3>1. UNCHANGED task
      BY <2>6 DEF Execute, Reload, IncrementFails, tables
    <3>2. worker'[w].pc \in {"succeed", "reload", "increment", "bury", "reset"}
      <4>1. CASE Reload(w)
        BY <1>0, <4>1 DEF Reload
      <4>2. CASE Execute(w)
        BY <1>0, <4>2 DEF Execute, Goto
      <4>3. CASE IncrementFails(w)
        BY <1>0, <4>3 DEF IncrementFails, Goto
      <4> QED
        BY <2>6, <4>1, <4>2, <4>3
    <3> QED
      BY <2>1, <3>1, <3>2 DEF AtWork
  <2>7. CASE Increment(w)
    <3>1. task'[u].status = task[u].status /\ worker'[w].pc \in AtWork
      BY <1>0, <1>4, <2>7 DEF Increment, Goto, AtWork, Row
    <3> QED
      BY <2>1, <3>1
  <2>8. CASE Succeed(w) \/ Bury(w)
    <3>1. task'[u].status \in {"success", "dead_letter"}
      BY <1>0, <1>4, <2>8 DEF Succeed, Bury, SetStatus, Row
    <3> QED
      BY <2>2, <3>1
  <2>9. CASE Reset(w)
    <3>1. task'[u].status \in {"cancelled", "pending"} /\ sleeping'[u] > 0
      BY <1>0, <1>4, <2>9 DEF Reset, SetStatus, Row
    <3> QED
      BY <3>1 DEF Fate, OnItsWay
  <2>10. CASE QueryFails(w) \/ ResetFails(w) \/ NoHandlerFails(w)
    BY <1>0, <1>4, <2>3, <2>10, LoseSays DEF QueryFails, ResetFails, NoHandlerFails, QueryError, tables
  <2>11. CASE BeginUnacknowledged(w)
    <3>1. lost'[u] # {} /\ task'[u].status = "running"
      BY <1>0, <1>4, <2>11, LoseSays DEF BeginUnacknowledged, SetStatus, Row
    <3> QED
      BY <3>1 DEF Fate
  <2> QED
    BY <2>4, <2>5, <2>6, <2>7, <2>8, <2>9, <2>10, <2>11 DEF Inside
<1> QED
  BY <1>3, <1>4

LEMMA CarryLife ==
  ASSUME TypeOK, CarryInv, Signal \/ Stop \/ Exit \/ Crash \/ \E t \in Tasks : Expire(t)
  PROVE  CarryInv'
<1>1. /\ UNCHANGED <<task, outbox, batch, pub, stream, taskCh, worker, sleeping, woken, lost>>
      /\ life = "down" => life' = "down"
  BY DEF Signal, Stop, Exit, Crash, Expire, Running, tables, feed, retries, TypeOK
<1>2. \A u \in Tasks : (OnItsWay(u) => OnItsWay(u)') /\ (Worked(u) => Worked(u)')
  BY <1>1 DEF OnItsWay, Worked, Queued, Held
<1> QED
  BY <1>1, <1>2, FateKept DEF CarryInv, Fate

LEMMA CarryRestart ==
  ASSUME TypeOK, CarryInv, Start
  PROVE  CarryInv'
<1> SUFFICES ASSUME NEW u \in Tasks PROVE Fate(u)'
  BY DEF CarryInv
<1>0. Fate(u) /\ lost \in [Tasks -> SUBSET Reasons] /\ sleeping[u] \in Nat /\ woken[u] \in Nat
  BY DEF CarryInv, TypeOK
<1>1. UNCHANGED <<task, outbox, stream>> /\ pub' = NoTask /\ batch' = {}
  BY DEF Start, tables
<1>2. lost[u] \subseteq lost'[u] /\ (InMemory(u) => lost'[u] # {})
  BY <1>0 DEF Start
<1>3. (Worked(u) => InMemory(u)) /\ (Queued(u) => InMemory(u))
  BY DEF Worked, InMemory, Queued
<1>4. OnItsWay(u) => OnItsWay(u)' \/ InMemory(u)
  BY <1>0, <1>1, <1>3, NamesAssumption DEF OnItsWay, InMemory
<1> QED
  BY <1>0, <1>1, <1>2, <1>3, <1>4, NamesAssumption, FateKept DEF Fate
-----------------------------------------------------------------------------
(* The steps put together.                                                 *)
LEMMA ClientsIInv ==
  ASSUME IInv, NEW t \in Tasks, Submit(t) \/ CancelTask(t), UNCHANGED expired
  PROVE  IInv'
<1>1. UNCHANGED <<worker, lock>>
  BY DEF Submit, CancelTask
<1>2. \A u \in Tasks : task'[u].retry = task[u].retry
  <2>1. task \in [Tasks -> Row]
    BY DEF IInv, TypeOK
  <2>2. PICK s \in Statuses : SetStatus(t, s)
    BY DEF Submit, CancelTask, Statuses
  <2> QED
    BY <2>1, <2>2 DEF SetStatus, Row
<1>3. LockInv'
  BY <1>1, LockElse DEF IInv
<1>4. BudgetInv'
  BY <1>1, <1>2, BudgetElse DEF IInv
<1> QED
  BY <1>3, <1>4, ClientsType, CarryClients DEF IInv

LEMMA BackgroundIInv ==
  ASSUME IInv, UNCHANGED expired,
         Publisher \/ \E t \in Tasks : Feed(t) \/ Retry(t)
  PROVE  IInv'
<1>1. UNCHANGED <<task, worker, lock>>
  BY DEF Publishing, Publisher, PollOutbox, MarkPublished, MarkFails, PublishToStream, PublishLocal,
         PublishFails, Feed, Deliver, DeliverTwice, DeliverToClosed, Retry, WakeRetry, Requeue,
         RetryQuits, RetryReloadFails, tables
<1>2. LockInv'
  BY <1>1, LockElse DEF IInv
<1>3. BudgetInv'
  BY <1>1, BudgetElse DEF IInv
<1>4. TypeOK' /\ CarryInv'
  BY PublisherType, FeedType, RetryType, CarryPublisher, CarryFeed, CarryRetry DEF IInv
<1> QED
  BY <1>2, <1>3, <1>4 DEF IInv

LEMMA WorkIInv ==
  ASSUME IInv, NEW w \in Workers, Work(w), UNCHANGED expired
  PROVE  IInv'
<1>1. CASE Inside(w)
  BY <1>1, InsideType, LockStep, BudgetStep, CarryInside DEF IInv
<1>2. CASE Outside(w)
  <2>1. UNCHANGED task
    BY <1>2 DEF Outside, Take, Acquire, AcquireFails, LockError, Release, ReleaseFails, tables
  <2>2. worker \in [Workers -> Record]
    BY DEF IInv, TypeOK
  <2>3. \A v \in Workers : worker'[v] = worker[v] \/ worker'[v].pc # "increment"
    <3>1. \A v \in Workers \ {w} : worker'[v] = worker[v]
      BY <1>2, <2>2 DEF Outside, Take, Acquire, AcquireFails, LockError, Release, ReleaseFails, Goto
    <3>2. worker'[w].pc \in {"acquire", "begin", "idle"}
      <4>1. CASE Take(w)
        BY <2>2, <4>1 DEF Take
      <4>2. CASE Acquire(w)
        BY <2>2, <4>2 DEF Acquire, Goto
      <4>3. CASE AcquireFails(w) \/ LockError(w) \/ Release(w) \/ ReleaseFails(w)
        BY <2>2, <4>3 DEF AcquireFails, LockError, Release, ReleaseFails, Idle
      <4> QED
        BY <1>2, <4>1, <4>2, <4>3 DEF Outside
    <3> QED
      BY <3>1, <3>2
  <2>4. BudgetInv'
    BY <2>1, <2>3, BudgetElse DEF IInv
  <2> QED
    BY <1>2, <2>4, OutsideType, LockStep, CarryOutside DEF IInv
<1> QED
  BY <1>1, <1>2 DEF Work, Inside, Outside

LEMMA LifeIInv ==
  ASSUME IInv, Signal \/ Stop \/ Exit \/ Crash, UNCHANGED expired
  PROVE  IInv'
<1>1. UNCHANGED <<task, worker, lock>>
  BY DEF Signal, Stop, Exit, Crash, tables
<1>2. LockInv' /\ BudgetInv'
  BY <1>1, LockElse, BudgetElse DEF IInv
<1> QED
  BY <1>2, LifeType, CarryLife DEF IInv

LEMMA StartIInv ==
  ASSUME IInv, Start, UNCHANGED expired
  PROVE  IInv'
<1>1. UNCHANGED task /\ \A w \in Workers : worker'[w].pc # "increment"
  BY DEF Start, tables, Idle
<1>2. BudgetInv'
  BY <1>1, BudgetElse DEF IInv
<1> QED
  BY <1>2, StartType, LockRestart, CarryRestart DEF IInv

LEMMA ExpireIInv ==
  ASSUME IInv, NEW t \in Tasks, Expire(t)
  PROVE  IInv'
<1>1. UNCHANGED <<task, worker>> /\ expired \subseteq expired'
  BY DEF Expire, tables
<1>2. BudgetInv'
  BY <1>1, BudgetElse DEF IInv
<1> QED
  BY <1>2, ExpireType, LockExpires, CarryLife DEF IInv

LEMMA StutterIInv ==
  ASSUME IInv, UNCHANGED vars
  PROVE  IInv'
BY ZenonT(60) DEF IInv, TypeOK, LockInv, BudgetInv, RetryBudget, CarryInv, Fate, OnItsWay, Worked, Queued,
       Working, Held, vars

LEMMA NextIInv == IInv /\ [Next]_vars => IInv'
<1> SUFFICES ASSUME IInv, [Next]_vars PROVE IInv'
  OBVIOUS
<1>1. CASE Next
  <2>1. CASE UNCHANGED expired /\ (Publisher \/ \E t \in Tasks : Feed(t) \/ Retry(t))
    BY <2>1, BackgroundIInv
  <2>2. CASE UNCHANGED expired /\ (Signal \/ Stop \/ Exit \/ Crash \/ Start)
    BY <2>2, LifeIInv, StartIInv
  <2>3. CASE UNCHANGED expired /\ \E t \in Tasks : Submit(t) \/ CancelTask(t)
    BY <2>3, ClientsIInv
  <2>4. CASE UNCHANGED expired /\ \E w \in Workers : Work(w)
    BY <2>4, WorkIInv
  <2>5. CASE \E t \in Tasks : Expire(t)
    BY <2>5, ExpireIInv
  <2> QED
    BY <1>1, <2>1, <2>2, <2>3, <2>4, <2>5 DEF Next
<1>2. CASE UNCHANGED vars
  BY <1>2, StutterIInv
<1> QED
  BY <1>1, <1>2

(* The invariant holds in every reachable state: types, locks, budgets and *)
(* carriers of every task, whatever fails and whenever the process stops.  *)
THEOREM Invariance == Spec => []IInv
BY InitIInv, NextIInv, PTL DEF Spec

(* One runner at a time: two workers past the lock with the same task are  *)
(* one worker, unless the key of a live holder expired (engine.go's        *)
(* process and the lock it acquires), for any number of workers and        *)
(* deliveries.                                                             *)
THEOREM OneRunner == Spec => []OneRunnerPerTask
<1>1. IInv => OneRunnerPerTask
  BY DEF IInv, LockInv, OneRunnerPerTask
<1> QED
  BY <1>1, Invariance, PTL

(* The retry count of a row never passes the bound, however many           *)
(* deliveries share it, unless a lock of its holder expired                *)
(* (handleFailure's reload, compare and increment).                        *)
THEOREM Retries == Spec => []RetryBudget
<1>1. IInv => RetryBudget
  BY DEF IInv, BudgetInv
<1> QED
  BY <1>1, Invariance, PTL

(* A task that is not finished is on its way in a table, in the broker or  *)
(* in the process, or one of the engine's known exits has given it up.     *)
THEOREM NothingLostSilently == Spec => []NoSilentLoss
<1>1. ASSUME TypeOK, NEW t \in Tasks, OnItsWay(t) PROVE Carried(t)
  <2>1. sleeping[t] \in Nat /\ woken[t] \in Nat
    BY <1>1 DEF TypeOK
  <2>2. sleeping[t] > 0 \/ woken[t] > 0 => sleeping[t] + woken[t] > 0
    BY <2>1
  <2> QED
    BY <1>1, <2>2 DEF OnItsWay, Carried, InMemory, Queued
<1>2. IInv => NoSilentLoss
  BY <1>1 DEF IInv, CarryInv, Fate, NoSilentLoss
<1> QED
  BY <1>2, Invariance, PTL

(* A cancelled task never runs again (the guards of the running and        *)
(* pending updates, task_repo.go and engine.go): under every interleaving  *)
(* of the cancellation with the workers its row is left only for the       *)
(* outcome of a worker that was past those guards already.                 *)
THEOREM CancelledStays == Spec => CancelledNotRevived
<1> DEFINE Kept == \A t \in Tasks : task[t].status = "cancelled" /\ task'[t].status # "cancelled"
             => /\ task'[t].status \in Final
                /\ \E w \in Workers : Held(w) = t /\ worker[w].pc \in {"succeed", "bury"}
<1>1. ASSUME TypeOK, UNCHANGED task PROVE Kept
  BY <1>1
<1>2. ASSUME TypeOK, NEW w \in Workers, Inside(w) PROVE Kept
  <2>1. Held(w) \in Tasks /\ task \in [Tasks -> Row]
    BY <1>2, InsideKeepsTheTask DEF TypeOK
  <2>2. CASE Succeed(w) \/ Bury(w)
    BY <2>1, <2>2 DEF Succeed, Bury, SetStatus, Row, Final
  <2>3. CASE ~Succeed(w) /\ ~Bury(w)
    <3>1. \A t \in Tasks : task[t].status = "cancelled" => task'[t].status = "cancelled"
      BY <1>2, <2>1, <2>3
         DEF Inside, Begin, NoHandler, Execute, Reload, Increment, Reset, QueryFails, IncrementFails,
             ResetFails, NoHandlerFails, BeginUnacknowledged, SetStatus, Row, tables
    <3> QED
      BY <3>1
  <2> QED
    BY <2>2, <2>3
<1>3. ASSUME TypeOK, NEW t \in Tasks, Submit(t) \/ CancelTask(t) PROVE Kept
  BY <1>3 DEF TypeOK, Submit, CancelTask, SetStatus, Row
<1>4. ASSUME Next PROVE \/ UNCHANGED task
                        \/ \E w \in Workers : Inside(w)
                        \/ \E t \in Tasks : Submit(t) \/ CancelTask(t)
  BY <1>4 DEF Next, Publishing, Publisher, PollOutbox, MarkPublished, MarkFails, PublishToStream,
         PublishLocal, PublishFails, Feed, Deliver, DeliverTwice, DeliverToClosed, Retry,
         WakeRetry, Requeue, RetryQuits, RetryReloadFails, Signal, Stop, Exit, Crash, Start,
         Expire, Work, Inside, Take, Acquire, AcquireFails, LockError, Release, ReleaseFails, tables
<1>5. TypeOK /\ [Next]_vars => [Kept]_vars
  BY <1>1, <1>2, <1>3, <1>4 DEF vars
<1>6. IInv => TypeOK
  BY DEF IInv
<1>7. Spec => [][Kept]_vars
  BY <1>5, <1>6, Invariance, PTL DEF Spec
<1> QED
  BY <1>7 DEF CancelledNotRevived
=============================================================================
