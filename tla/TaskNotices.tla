------------------------------ MODULE TaskNotices ------------------------------
(***************************************************************************)
(* Pictures asked for in the AIGC panel, the tasks they become on the      *)
(* server, the notices of the task panel, and the records of what was made *)
(* (aigc-store, task-store, AIGCPanel, TaskListPanel).  A task is its      *)
(* number; its progress, the prompt's text and the previews are left out.  *)
(***************************************************************************)
EXTENDS Naturals, Sequences, FiniteSets

CONSTANTS MaxEvents,  \* bound: what the user does and what fails
          MaxPolls    \* bound: MAX_POLLS

VARIABLES note, noteServer, noteCalls

noteVars == <<note, noteServer, noteCalls>>

Active == {"pending", "running"}
Ended == {"success", "dead_letter", "cancelled"}
Scopes == {"all", "current"}

Init ==
  /\ note = [watching |-> FALSE, tasks |-> <<>>, timers |-> {}, images |-> <<>>, generating |-> FALSE,
             prefab |-> FALSE, editor |-> FALSE,
             scope |-> "all", loading |-> FALSE, records |-> {}, listed |-> "all",
             asked |-> 0, left |-> MaxEvents]
  /\ noteServer = [tasks |-> <<>>, records |-> {}]
  /\ noteCalls = {}

User == note.left > 0
RecordsOf(s) == [kind |-> "records", id |-> note.asked + 1, read |-> FALSE, scope |-> s, records |-> {}]
Ask(m, call) == note' = [m EXCEPT !.asked = @ + 1] /\ noteCalls' = noteCalls \cup {call}
Spent(m) == [m EXCEPT !.left = @ - 1]
Done(c) == noteCalls' = noteCalls \ {c}
Becomes(c, answer) == noteCalls' = (noteCalls \ {c}) \cup {answer}
Added(tasks, t) == [u \in DOMAIN tasks \cup {t} |-> IF u \in DOMAIN tasks THEN tasks[u] ELSE "pending"]
-----------------------------------------------------------------------------
(* The server, as TaskEngine has it: pending, running, an end, each end    *)
(* told once.  A task cancelled stays so here.                             *)
Reached(t, status) ==
  /\ noteServer' = [noteServer EXCEPT !.tasks[t] = status, !.records = IF status = "success" THEN @ \cup {t} ELSE @]
  /\ noteCalls' = noteCalls \cup
       (IF status \in Ended THEN {[kind |-> "event", id |-> t, read |-> TRUE, status |-> status]} ELSE {})

ServerRuns(t) ==
  /\ \/ noteServer.tasks[t] = "pending" /\ Reached(t, "running")
     \/ noteServer.tasks[t] = "running" /\ \E status \in {"success", "dead_letter"} : Reached(t, status)
  /\ UNCHANGED note
-----------------------------------------------------------------------------
(* createImageTask                                                         *)
HandleGenerate ==
  /\ User /\ ~note.generating
  /\ Ask(Spent([note EXCEPT !.generating = TRUE]),
      [kind |-> "create", id |-> note.asked + 1, read |-> FALSE, task |-> 0])
  /\ UNCHANGED noteServer

ServerCreates(c) ==
  /\ c.kind = "create" /\ ~c.read
  /\ noteServer' = [noteServer EXCEPT !.tasks = Append(@, "pending")]
  /\ Becomes(c, [c EXCEPT !.read = TRUE, !.task = Len(noteServer.tasks) + 1])
  /\ UNCHANGED note

(* into the panel's list and, unless it is there, among the notices        *)
Created(c) ==
  /\ c.kind = "create" /\ c.read
  /\ note' = [note EXCEPT !.images = Added(@, c.task), !.tasks = Added(@, c.task)]
  /\ Becomes(c, [kind |-> "poll", id |-> c.id, read |-> FALSE, task |-> c.task, polls |-> 1, status |-> "pending"])
  /\ UNCHANGED noteServer

CreateFails(c) ==
  /\ c.kind = "create" /\ User
  /\ note' = Spent([note EXCEPT !.generating = FALSE])
  /\ Done(c) /\ UNCHANGED noteServer
-----------------------------------------------------------------------------
(* pollTaskStatus: every two seconds, until an end it knows                *)
ServerTells(c) ==
  /\ c.kind = "poll" /\ ~c.read
  /\ Becomes(c, [c EXCEPT !.read = TRUE, !.status = noteServer.tasks[c.task]])
  /\ UNCHANGED <<note, noteServer>>

Polled(c) ==
  /\ c.kind = "poll" /\ c.read
  /\ LET ended   == c.status \in {"success", "dead_letter"}
         timeout == ~ended /\ c.polls >= MaxPolls
     IN /\ note' = [note EXCEPT !.images[c.task] = IF timeout THEN "failed" ELSE c.status,
                                !.generating = @ /\ ~ended /\ ~timeout]
        /\ noteCalls' = (noteCalls \ {c}) \cup
             (IF ended \/ timeout THEN {} ELSE {[c EXCEPT !.read = FALSE, !.polls = @ + 1]})
  /\ UNCHANGED noteServer

PollFails(c) ==
  /\ c.kind = "poll" /\ User
  /\ note' = Spent([note EXCEPT !.images[c.task] = "failed", !.generating = FALSE])
  /\ Done(c) /\ UNCHANGED noteServer
-----------------------------------------------------------------------------
(* The notices.  merge: an answer or an event changes only what is listed, *)
(* and an end starts the timer that takes the notice away.                 *)
Merge(m, t, status) ==
  IF t \notin DOMAIN m.tasks THEN m
  ELSE [m EXCEPT !.tasks[t] = status, !.timers = IF status \in Ended THEN @ \cup {t} ELSE @]

StartWatch == ~note.watching /\ note' = [note EXCEPT !.watching = TRUE] /\ UNCHANGED <<noteServer, noteCalls>>

Actives == {t \in DOMAIN note.tasks : note.tasks[t] \in Active}

WatchPolls ==
  /\ note.watching /\ User /\ Actives # {}
  /\ Ask(Spent(note), [kind |-> "list", id |-> note.asked + 1, read |-> FALSE, of |-> Actives, statuses |-> <<>>])
  /\ UNCHANGED noteServer

ServerLists(c) ==
  /\ c.kind = "list" /\ ~c.read
  /\ Becomes(c, [c EXCEPT !.read = TRUE, !.statuses = noteServer.tasks])
  /\ UNCHANGED <<note, noteServer>>

Listed(c) ==
  /\ c.kind = "list" /\ c.read
  /\ LET m == [t \in DOMAIN note.tasks |-> IF t \in c.of THEN c.statuses[t] ELSE note.tasks[t]]
     IN note' = [note EXCEPT !.tasks = m, !.timers = @ \cup {t \in c.of \cap DOMAIN m : m[t] \in Ended}]
  /\ Done(c) /\ UNCHANGED noteServer

(* A refusal, or no answer, changes nothing.                               *)
Dropped(c) ==
  /\ c.kind \in {"list", "cancel"} /\ User
  /\ note' = Spent(note) /\ Done(c) /\ UNCHANGED noteServer

Cancel(t) ==
  /\ User /\ t \in Actives
  /\ Ask(Spent(note), [kind |-> "cancel", id |-> note.asked + 1, read |-> FALSE, task |-> t, ok |-> FALSE])
  /\ UNCHANGED noteServer

ServerCancels(c) ==
  /\ c.kind = "cancel" /\ ~c.read
  /\ LET ok == noteServer.tasks[c.task] \in Active
         served == [c EXCEPT !.read = TRUE, !.ok = ok]
     IN IF ok THEN /\ noteServer' = [noteServer EXCEPT !.tasks[c.task] = "cancelled"]
                   /\ noteCalls' = (noteCalls \ {c}) \cup
                        {served, [kind |-> "event", id |-> c.task, read |-> TRUE, status |-> "cancelled"]}
        ELSE noteServer' = noteServer /\ Becomes(c, served)
  /\ UNCHANGED note

Cancelled(c) ==
  /\ c.kind = "cancel" /\ c.read
  /\ note' = IF c.ok THEN Merge(note, c.task, "cancelled") ELSE note
  /\ Done(c) /\ UNCHANGED noteServer

Destroy(t) ==
  /\ t \in note.timers
  /\ note' = [note EXCEPT !.tasks = [u \in DOMAIN @ \ {t} |-> @[u]], !.timers = @ \ {t}]
  /\ UNCHANGED <<noteServer, noteCalls>>
-----------------------------------------------------------------------------
(* Events of the socket: the notices hear all of them once they watch, the *)
(* panel's list hears of a success, which also refreshes the records.      *)
Event(c) ==
  /\ c.kind = "event"
  /\ LET heard == IF note.watching THEN Merge(note, c.id, c.status) ELSE note
     IN IF c.status = "success"
        THEN /\ note' = [heard EXCEPT !.generating = FALSE, !.loading = TRUE, !.asked = @ + 1,
                           !.images = [t \in DOMAIN @ |-> IF t = c.id THEN "success" ELSE @[t]]]
             /\ Becomes(c, RecordsOf("all"))
        ELSE note' = heard /\ Done(c)
  /\ UNCHANGED noteServer

EventLost(c) == c.kind = "event" /\ User /\ note' = Spent(note) /\ Done(c) /\ UNCHANGED noteServer
-----------------------------------------------------------------------------
(* fetchRecords: when the panel shows another scope, and after a success   *)
SetHistoryScope(s) ==
  /\ User /\ s # note.scope
  /\ Ask(Spent([note EXCEPT !.scope = s, !.loading = TRUE]), RecordsOf(s))
  /\ UNCHANGED noteServer

ServerTellsRecords(c) ==
  /\ c.kind = "records" /\ ~c.read
  /\ Becomes(c, [c EXCEPT !.read = TRUE, !.records = noteServer.records])
  /\ UNCHANGED <<note, noteServer>>

FetchedRecords(c) ==
  /\ c.kind = "records" /\ c.read
  /\ note' = [note EXCEPT !.records = c.records, !.listed = c.scope, !.loading = FALSE]
  /\ Done(c) /\ UNCHANGED noteServer

FetchRecordsFails(c) ==
  /\ c.kind = "records" /\ User
  /\ note' = Spent([note EXCEPT !.records = {}, !.loading = FALSE])
  /\ Done(c) /\ UNCHANGED noteServer

(* the record and its picture, one request                                 *)
HandleDeleteRecord(r) ==
  /\ User /\ r \in note.records
  /\ Ask(Spent(note), [kind |-> "delete", id |-> note.asked + 1, read |-> FALSE, record |-> r])
  /\ UNCHANGED noteServer

RecordDeleted(c) ==
  /\ c.kind = "delete"
  /\ \/ /\ note' = [note EXCEPT !.records = @ \ {c.record}]
        /\ noteServer' = [noteServer EXCEPT !.records = @ \ {c.record}]
     \/ User /\ note' = Spent(note) /\ UNCHANGED noteServer
  /\ Done(c)

(* A prompt made from the chapter: the editor opens on the answer.         *)
HandleAutoPrefab ==
  /\ User /\ ~note.prefab /\ ~note.generating
  /\ Ask(Spent([note EXCEPT !.prefab = TRUE]), [kind |-> "prefab", id |-> note.asked + 1, read |-> FALSE])
  /\ UNCHANGED noteServer

PrefabAnswered(c) ==
  /\ c.kind = "prefab"
  /\ note' \in {[note EXCEPT !.prefab = FALSE, !.editor = TRUE]} \cup
                 (IF User THEN {Spent([note EXCEPT !.prefab = FALSE])} ELSE {})
  /\ Done(c) /\ UNCHANGED noteServer

CloseEditor == note.editor /\ note' = [note EXCEPT !.editor = FALSE] /\ UNCHANGED <<noteServer, noteCalls>>

Next ==
  \/ HandleGenerate \/ StartWatch \/ WatchPolls \/ HandleAutoPrefab \/ CloseEditor
  \/ \E t \in DOMAIN noteServer.tasks :
       ServerRuns(t) \/ Cancel(t) \/ Destroy(t) \/ HandleDeleteRecord(t)
  \/ \E s \in Scopes : SetHistoryScope(s)
  \/ \E c \in noteCalls :
       \/ ServerCreates(c) \/ Created(c) \/ CreateFails(c) \/ ServerTells(c) \/ Polled(c) \/ PollFails(c)
       \/ ServerLists(c) \/ Listed(c) \/ Dropped(c) \/ ServerCancels(c) \/ Cancelled(c) \/ Event(c) \/ EventLost(c)
       \/ ServerTellsRecords(c) \/ FetchedRecords(c) \/ FetchRecordsFails(c) \/ RecordDeleted(c) \/ PrefabAnswered(c)

Spec == Init /\ [][Next]_noteVars
-----------------------------------------------------------------------------
(* "Generating" and "loading" are said only while an answer is out that    *)
(* will take it back, whatever events, polls and cancellations cross.      *)
NoteBusyIsHonest ==
  /\ note.generating => \E c \in noteCalls : c.kind \in {"create", "poll"}
  /\ note.loading => \E c \in noteCalls : c.kind = "records"
  /\ note.prefab => \E c \in noteCalls : c.kind = "prefab"

(* A notice that says a task has ended is right, and is on its way out     *)
(* ("gone by itself once completed or stopped", TaskListPanel:150).        *)
NoticesTellTheTruth ==
  \A t \in DOMAIN note.tasks : note.tasks[t] \in Ended => noteServer.tasks[t] \in Ended /\ t \in note.timers

(* However late a poll brings back "running", no notice is taken away      *)
(* before its task has ended (task-store, merge and scheduleDestroy).      *)
NoticesOutliveTheirTask ==
  [][\A t \in DOMAIN note.tasks \ DOMAIN note'.tasks : noteServer.tasks[t] \in Ended]_noteVars
=============================================================================
