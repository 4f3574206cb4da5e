------------------------------- MODULE WSHub --------------------------------
(***************************************************************************)
(* The WebSocket hub (server/websocket.go).  One goroutine, Run, owns the  *)
(* set of live clients and closes their send channels; each client has a   *)
(* read pump, which asks for its removal when the connection ends, and a   *)
(* write pump, which empties its channel.  SendToUser runs in the callers' *)
(* goroutines (task engine, NATS bridge): it copies the user's clients     *)
(* under the read lock and sends after it has let the lock go.             *)
(***************************************************************************)
EXTENDS Integers, FiniteSets

CONSTANTS
  Clients,
  User,     \* function from clients to the user they belong to
  Senders,  \* goroutines that call SendToUser
  Buffer,   \* sendBufferSize of a client
  Pending,  \* sendBufferSize of the broadcast channel
  MayStop,  \* whether the context of Run may be cancelled
  MaxSends, MaxBroadcasts  \* bounds of the model: messages to a user, to all

Users == {User[c] : c \in Clients}

VARIABLES
  life,      \* up, stopped (Run has returned) or dead (a panic)
  clients,   \* the registered clients
  closed,    \* clients whose send channel is closed
  queue,     \* messages in each send channel
  broadcast, \* messages in the broadcast channel
  reader,    \* the read pumps (and, before, the goroutine in serve)
  writer,    \* the write pumps
  kicks,     \* goroutines that ask for the removal of a slow client
  targets,   \* what each sender has still to send to
  sends      \* messages left, of each kind

vars == <<life, clients, closed, queue, broadcast, reader, writer, kicks,
          targets, sends>>
hub   == <<life, clients, closed>>
pumps == <<reader, writer, kicks>>

Init ==
  /\ life = "up"
  /\ clients = {} /\ closed = {}
  /\ queue = [c \in Clients |-> 0]
  /\ broadcast = 0
  /\ reader = [c \in Clients |-> "new"]
  /\ writer = [c \in Clients |-> "new"]
  /\ kicks = [c \in Clients |-> 0]
  /\ targets = [s \in Senders |-> {}]
  /\ sends = [user |-> MaxSends, all |-> MaxBroadcasts]

Up    == life = "up"
Alive == life # "dead"
PanicIf(p) == life' = IF p THEN "dead" ELSE life

-----------------------------------------------------------------------------
(* serve blocks on the unbuffered register channel until Run takes it.     *)
Register(c) ==
  /\ Up
  /\ reader[c] = "new"
  /\ clients' = clients \cup {c}
  /\ reader' = [reader EXCEPT ![c] = "reading"]
  /\ writer' = [writer EXCEPT ![c] = "writing"]
  /\ UNCHANGED <<life, closed, queue, broadcast, kicks, targets, sends>>

(* The connection ends: the peer leaves, a read times out, or the write    *)
(* pump has closed it.                                                     *)
Disconnect(c) ==
  /\ Alive
  /\ reader[c] = "reading"
  /\ reader' = [reader EXCEPT ![c] = "leaving"]
  /\ UNCHANGED <<hub, queue, broadcast, writer, kicks, targets, sends>>

(* What Run does with a request for removal; a stale one does nothing.     *)
Remove(c) ==
  IF c \in clients
    THEN /\ clients' = clients \ {c}
         /\ closed' = closed \cup {c}
         /\ PanicIf(c \in closed)
    ELSE UNCHANGED hub

(* Mutant: the request for removal is taken and forgotten.                 *)
UnregisterForgets(c) ==
  /\ Up
  /\ reader[c] = "leaving"
  /\ reader' = [reader EXCEPT ![c] = "gone"]
  /\ UNCHANGED <<hub, queue, broadcast, writer, kicks, targets, sends>>

Unregister(c) ==
  /\ Up
  /\ reader[c] = "leaving"
  /\ reader' = [reader EXCEPT ![c] = "gone"]
  /\ Remove(c)
  /\ UNCHANGED <<queue, broadcast, writer, kicks, targets, sends>>

Kick(c) ==
  /\ Up
  /\ kicks[c] > 0
  /\ kicks' = [kicks EXCEPT ![c] = @ - 1]
  /\ Remove(c)
  /\ UNCHANGED <<queue, broadcast, reader, writer, targets, sends>>

Room(c) == queue[c] < Buffer

(* Mutant: Run itself waits for the slow clients.                          *)
DeliverBlocking ==
  /\ Up
  /\ broadcast > 0
  /\ \A c \in clients : Room(c)
  /\ broadcast' = broadcast - 1
  /\ queue' = [c \in Clients |-> IF c \in clients THEN queue[c] + 1 ELSE queue[c]]
  /\ UNCHANGED <<hub, reader, writer, kicks, targets, sends>>

(* A broadcast skips the slow clients and has each of them removed.        *)
Deliver ==
  /\ Up
  /\ broadcast > 0
  /\ broadcast' = broadcast - 1
  /\ queue' = [c \in Clients |-> IF c \in clients /\ Room(c) THEN queue[c] + 1 ELSE queue[c]]
  /\ kicks' = [c \in Clients |-> IF c \in clients /\ ~Room(c) THEN kicks[c] + 1 ELSE kicks[c]]
  /\ UNCHANGED <<hub, reader, writer, targets, sends>>

(* The context is cancelled: every live channel is closed, Run returns.    *)
Stop ==
  /\ Up /\ MayStop
  /\ closed' = closed \cup clients
  /\ life' = IF clients \cap closed = {} THEN "stopped" ELSE "dead"
  /\ clients' = {}
  /\ UNCHANGED <<queue, broadcast, pumps, targets, sends>>

-----------------------------------------------------------------------------
(* Broadcast blocks while the channel is full.                             *)
Broadcast ==
  /\ Alive
  /\ sends.all > 0
  /\ broadcast < Pending
  /\ broadcast' = broadcast + 1
  /\ sends' = [sends EXCEPT !.all = @ - 1]
  /\ UNCHANGED <<hub, queue, pumps, targets>>

(* SendToUser copies the set of clients ...                                *)
CopyTargets(s, u) ==
  /\ Alive
  /\ sends.user > 0
  /\ targets[s] = {}
  /\ targets' = [targets EXCEPT ![s] = {c \in clients : User[c] = u}]
  /\ sends' = [sends EXCEPT !.user = @ - 1]
  /\ UNCHANGED <<hub, queue, broadcast, pumps>>

(* ... and sends to them one by one; a full buffer drops the message, a    *)
(* closed one panics.                                                      *)
SendToTarget(s, c) ==
  /\ Alive
  /\ c \in targets[s]
  /\ targets' = [targets EXCEPT ![s] = @ \ {c}]
  /\ PanicIf(c \in closed)
  /\ queue' = IF c \notin closed /\ Room(c) THEN [queue EXCEPT ![c] = @ + 1] ELSE queue
  /\ UNCHANGED <<clients, closed, broadcast, pumps, sends>>

(* The write pump drains what is queued into one write.                    *)
Write(c) ==
  /\ Alive
  /\ writer[c] = "writing"
  /\ queue[c] > 0
  /\ queue' = [queue EXCEPT ![c] = 0]
  /\ UNCHANGED <<hub, broadcast, pumps, targets, sends>>

(* Mutant: the write pump leaves the connection open when it ends.         *)
WriterVanishes(c) ==
  /\ Alive
  /\ writer[c] = "writing" /\ reader[c] = "leaving"
  /\ writer' = [writer EXCEPT ![c] = "gone"]
  /\ UNCHANGED <<hub, queue, broadcast, reader, kicks, targets, sends>>

(* It ends on a failed write or on the closed channel; it closes the       *)
(* connection either way, and the read pump notices.                       *)
WriterEnds(c) ==
  /\ Alive
  /\ writer[c] = "writing"
  /\ writer' = [writer EXCEPT ![c] = "gone"]
  /\ UNCHANGED <<hub, queue, broadcast, reader, kicks, targets, sends>>

Loop    == \/ Deliver \/ \E c \in Clients : Register(c) \/ Unregister(c) \/ Kick(c)
Sending == \E s \in Senders : \/ \E u \in Users : CopyTargets(s, u)
                              \/ \E c \in Clients : SendToTarget(s, c)

Next ==
  \/ Loop \/ Stop \/ Broadcast \/ Sending
  \/ \E c \in Clients : Disconnect(c) \/ Write(c) \/ WriterEnds(c)

Spec == Init /\ [][Next]_vars

(* Go's select picks fairly among the ready cases of Run; a closed channel *)
(* ends the write pump, and a closed connection the read pump.             *)
FairSpec ==
  /\ Spec
  /\ WF_vars(Deliver)
  /\ \A c \in Clients :
       /\ WF_vars(Unregister(c))
       /\ WF_vars(Kick(c))
       /\ WF_vars(c \in closed /\ WriterEnds(c))
       /\ WF_vars(writer[c] = "gone" /\ Disconnect(c))

-----------------------------------------------------------------------------
(* A connection that has broken on either side, or is too slow, leaves the *)
(* hub, as long as the hub runs.                                           *)
BrokenIsRemoved ==
  \A c \in Clients : (writer[c] = "gone" \/ reader[c] = "leaving" \/ kicks[c] > 0)
                       ~> (~Up \/ c \notin clients)

(* Both goroutines of a removed client end.                                *)
PumpsEnd ==
  \A c \in Clients : c \in closed ~> (~Up \/ (reader[c] = "gone" /\ writer[c] = "gone"))

(* A slow client holds no broadcast up.                                    *)
BroadcastsDrain == (broadcast = Pending) ~> (~Up \/ broadcast < Pending)

(* "... must never close a newer connection's channel - doing so used to   *)
(* panic SendToUser with 'send on closed channel'" (Run).                  *)
NoSendOnClosed == Alive
=============================================================================
