----------------------------- MODULE MCLiveness -----------------------------
(***************************************************************************)
(* What must go on by itself, side by side for TLC: the circuit breaker,   *)
(* the hub with two tabs of one user, the task engine without faults, and  *)
(* the saves of the editor.  They share no state in the models, so a       *)
(* behaviour is of the one that has the focus; the fairness of each is     *)
(* that of its own module, while it has the focus.                         *)
(***************************************************************************)
EXTENDS Breaker, Editor

CONSTANTS a, b, ann, s1, t1, t2, w1, w2, NoTask, Free, Stale

VARIABLES focus,
  life, clients, closed, queue, broadcast, reader, writer, kicks, targets, sends,
  deployment, task, outbox, batch, pub, stream, taskCh, worker, lock, sleeping, woken,
  engineLife, panicked, lost, expired, budget

hub    == <<life, clients, closed, queue, broadcast, reader, writer, kicks, targets, sends>>
engine == <<deployment, task, outbox, batch, pub, stream, taskCh, worker, lock, sleeping,
            woken, engineLife, panicked, lost, expired, budget>>
loops  == <<focus, vars, hub, engine, edVars>>

Hub == INSTANCE WSHub WITH
  Clients <- {a, b}, User <- [x \in {a, b} |-> ann], Senders <- {s1},
  Buffer <- 1, Pending <- 2, MayStop <- TRUE, MaxSends <- 1, MaxBroadcasts <- 2

Engine == INSTANCE TaskEngine WITH
  Tasks <- {t1, t2}, Workers <- {w1, w2}, ChanCap <- 2, MaxRetries <- 1, RetrySlots <- 1,
  Unhandled <- {}, SlowRelease <- FALSE, Deployments <- {"cloud"}, Faults <- {"cancel"},
  MaxFaults <- 1, life <- engineLife

LoopsInit ==
  /\ focus \in {"breaker", "hub", "engine", "editor"}
  /\ Init /\ Hub!Init /\ Engine!Init /\ EdInit

Rest(f) ==
  /\ UNCHANGED focus
  /\ f = "breaker" \/ UNCHANGED vars
  /\ f = "hub" \/ UNCHANGED hub
  /\ f = "engine" \/ UNCHANGED engine
  /\ f = "editor" \/ UNCHANGED edVars

LoopsNext ==
  \/ focus = "breaker" /\ Next /\ Rest("breaker")
  \/ focus = "hub" /\ Hub!Next /\ Rest("hub")
  \/ focus = "engine" /\ Engine!Next /\ Rest("engine")
  \/ focus = "editor" /\ EdNext /\ Rest("editor")

BreakerFairness ==
  /\ WF_loops(focus = "breaker" /\ TimePasses /\ Rest("breaker"))
  /\ WF_loops(focus = "breaker" /\ (\E c \in Calls : Probe(c)) /\ Rest("breaker"))
  /\ \A c \in Calls :
       WF_loops(focus = "breaker" /\ (\E failed \in BOOLEAN : Return(c, failed)) /\ Rest("breaker"))

HubFairness ==
  /\ WF_loops(focus = "hub" /\ Hub!Deliver /\ Rest("hub"))
  /\ \A c \in {a, b} :
       /\ WF_loops(focus = "hub" /\ Hub!Unregister(c) /\ Rest("hub"))
       /\ WF_loops(focus = "hub" /\ Hub!Kick(c) /\ Rest("hub"))
       /\ WF_loops(focus = "hub" /\ c \in closed /\ Hub!WriterEnds(c) /\ Rest("hub"))
       /\ WF_loops(focus = "hub" /\ writer[c] = "gone" /\ Hub!Disconnect(c) /\ Rest("hub"))

EngineRest == Rest("engine") /\ UNCHANGED <<deployment, expired>>
EngineFairness ==
  /\ WF_loops(focus = "engine" /\ Engine!Publishing /\ EngineRest)
  /\ \A t \in {t1, t2} :
       /\ WF_loops(focus = "engine" /\ Engine!Deliver(t) /\ EngineRest)
       /\ WF_loops(focus = "engine" /\ (Engine!WakeRetry(t) \/ Engine!Requeue(t)) /\ EngineRest)
  /\ \A w \in {w1, w2} : WF_loops(focus = "engine" /\ Engine!Work(w) /\ EngineRest)

EditorFairness ==
  /\ WF_loops(focus = "editor" /\ SyncHtml /\ Rest("editor"))
  /\ \A c \in Chapters : WF_loops(focus = "editor" /\ AutoSave(c) /\ Rest("editor"))
  /\ WF_loops(focus = "editor" /\ (\E s \in saves : SaveAnswered(s)) /\ Rest("editor"))
  /\ WF_loops(focus = "editor" /\ (\E r \in saveRetries : RetrySave(r)) /\ Rest("editor"))

LoopsSpec ==
  /\ LoopsInit /\ [][LoopsNext]_loops
  /\ BreakerFairness /\ HubFairness /\ EngineFairness /\ EditorFairness

(* A connection that has broken leaves the hub (WSHub).                    *)
BrokenIsRemoved == Hub!BrokenIsRemoved

(* Both goroutines of a removed client end (WSHub).                        *)
PumpsEnd == Hub!PumpsEnd

(* A slow client holds no broadcast up (WSHub).                            *)
BroadcastsDrain == Hub!BroadcastsDrain

(* Without faults every submitted task ends (TaskEngine).                  *)
EveryTaskFinishes == Engine!EveryTaskFinishes
=============================================================================
