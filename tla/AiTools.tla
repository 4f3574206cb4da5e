------------------------------- MODULE AiTools -------------------------------
(***************************************************************************)
(* What the editor asks the AI for: completion at the cursor and rewriting *)
(* of a selection, both streamed (ai-store, sse-client, TipTapEditor), the *)
(* choice among candidates (candidates-store, CandidatesPanel), and the    *)
(* card every form uses to generate text or a picture (AigcCard), with the *)
(* clues about the novel it sends along (useAigcClues).                    *)
(* A text is the number of the request that made it, 0 no text; what was   *)
(* inserted into the chapter shown is the set of those numbers.            *)
(***************************************************************************)
EXTENDS Naturals

CONSTANTS MaxEvents,    \* bound: what the user does and what fails
          MaxPolls      \* bound: POLL_MAX_TIMES

VARIABLES tool, toolTasks, toolCache, toolCalls

toolVars == <<tool, toolTasks, toolCache, toolCalls>>

Novels == {1, 2}
None == 0
NoRewrite == [on |-> FALSE, text |-> None, shown |-> FALSE]
NoCandidates == [visible |-> FALSE, loading |-> FALSE, items |-> None, failed |-> FALSE]
NoRun == [on |-> FALSE, task |-> None, abort |-> None]

Init ==
  /\ tool = [novel |-> 1, inline |-> [on |-> FALSE, text |-> None], rewrite |-> NoRewrite, cand |-> NoCandidates,
             run |-> NoRun, open |-> FALSE, clues |-> None, stopped |-> {}, applied |-> {}, inserted |-> {},
             asked |-> 0, left |-> MaxEvents]
  /\ toolTasks = <<>>
  /\ toolCache = {}
  /\ toolCalls = {}

Page == UNCHANGED <<toolTasks, toolCache, toolCalls>>
Others == UNCHANGED <<toolTasks, toolCache>>
Call(kind, novel) ==
  [kind |-> kind, id |-> tool.asked + 1, novel |-> novel, step |-> IF kind = "image" THEN "prompt" ELSE "answer", polls |-> 0]
Ask(m, call) ==
  /\ tool.left > 0
  /\ tool' = [m EXCEPT !.asked = @ + 1, !.left = @ - 1]
  /\ toolCalls' = toolCalls \cup {call}
Done(c) == toolCalls' = toolCalls \ {c}
-----------------------------------------------------------------------------
(* Streams.  readSSEStream ends in onDone however it ends - [DONE], an     *)
(* error frame, a broken connection - and only a request that never became *)
(* a stream throws.                                                        *)
TriggerInline == Ask([tool EXCEPT !.inline = [on |-> TRUE, text |-> None]], Call("inline", None)) /\ Others

TriggerRewrite == Ask([tool EXCEPT !.rewrite = [NoRewrite EXCEPT !.on = TRUE]], Call("rewrite", None)) /\ Others

(* what has come so far replaces what is shown, of whichever request       *)
Chunk(c) ==
  /\ tool' = IF c.kind = "inline" THEN [tool EXCEPT !.inline.text = c.id]
             ELSE [tool EXCEPT !.rewrite.text = c.id]
  /\ c.kind \in {"inline", "rewrite"} /\ Page

StreamEnds(c) ==
  /\ tool' = IF c.kind = "inline" THEN [tool EXCEPT !.inline.on = FALSE]
             ELSE [tool EXCEPT !.rewrite.on = FALSE, !.rewrite.shown = TRUE]
  /\ c.kind \in {"inline", "rewrite"} /\ Done(c) /\ Others

StreamThrows(c) ==
  /\ c.kind \in {"inline", "rewrite"} /\ tool.left > 0
  /\ tool' = [IF c.kind = "inline" THEN [tool EXCEPT !.inline.on = FALSE] ELSE [tool EXCEPT !.rewrite.on = FALSE]
                EXCEPT !.left = @ - 1]
  /\ Done(c) /\ Others

(* Tab and Escape, where a suggestion is                                   *)
AcceptInline ==
  /\ tool.inline.text # None
  /\ tool' = [tool EXCEPT !.inserted = @ \cup {tool.inline.text}, !.inline.text = None] /\ Page

ClearInline ==
  /\ tool.inline.text # None /\ tool' = [tool EXCEPT !.inline.text = None] /\ Page

(* the diff is open when there is something to compare                     *)
DiffOpen == tool.rewrite.shown /\ tool.rewrite.text # None

CloseDiff(accept) ==
  /\ DiffOpen
  /\ tool' = [tool EXCEPT !.inserted = IF accept THEN @ \cup {tool.rewrite.text} ELSE @,
                          !.rewrite.text = None, !.rewrite.shown = FALSE]
  /\ Page
-----------------------------------------------------------------------------
(* Candidates                                                              *)
RequestCandidates ==
  Ask([tool EXCEPT !.cand = [visible |-> TRUE, loading |-> TRUE, items |-> None, failed |-> FALSE]],
      Call("candidates", None)) /\ Others

(* dropped if the panel has been closed since                              *)
CandidatesAnswered(c) ==
  /\ c.kind = "candidates"
  /\ tool' = IF ~tool.cand.visible THEN tool ELSE [tool EXCEPT !.cand.items = c.id, !.cand.loading = FALSE]
  /\ Done(c) /\ Others

CandidatesFail(c) ==
  /\ c.kind = "candidates" /\ tool.left > 0
  /\ tool' = [IF ~tool.cand.visible THEN tool ELSE [tool EXCEPT !.cand.failed = TRUE, !.cand.loading = FALSE]
                EXCEPT !.left = @ - 1]
  /\ Done(c) /\ Others

AcceptCandidate ==
  /\ tool.cand.visible /\ ~tool.cand.loading /\ ~tool.cand.failed /\ tool.cand.items # None
  /\ tool' = [tool EXCEPT !.inserted = @ \cup {tool.cand.items}, !.cand = NoCandidates] /\ Page

DismissCandidates ==
  /\ tool.cand.visible /\ tool' = [tool EXCEPT !.cand = NoCandidates] /\ Page
-----------------------------------------------------------------------------
(* The clues of a novel, cached for a minute                               *)
SelectNovel(n) ==
  /\ tool.left > 0 /\ n # tool.novel
  /\ IF n \in toolCache
       THEN /\ tool' = [tool EXCEPT !.novel = n, !.clues = n, !.left = @ - 1] /\ UNCHANGED toolCalls
       ELSE Ask([tool EXCEPT !.novel = n], Call("clues", n))
  /\ Others

CacheExpires == toolCache # {} /\ toolCache' = {} /\ UNCHANGED <<tool, toolTasks, toolCalls>>

(* mutant: the clues shown are those that came last                        *)
CluesLoadedLate(c) ==
  /\ c.kind = "clues"
  /\ toolCache' = toolCache \cup {c.novel} /\ tool' = [tool EXCEPT !.clues = c.novel]
  /\ Done(c) /\ UNCHANGED toolTasks

(* alive: the effect of a novel left behind no longer shows its clues      *)
CluesLoaded(c) ==
  /\ c.kind = "clues"
  /\ toolCache' = toolCache \cup {c.novel}
  /\ tool' = IF tool.novel = c.novel THEN [tool EXCEPT !.clues = c.novel] ELSE tool
  /\ Done(c) /\ UNCHANGED toolTasks
-----------------------------------------------------------------------------
(* The card: confirm, a task of its own in the task list, the request; the *)
(* button then cancels.  A picture is a prompt, a task on the server and   *)
(* questions for its state, none of which can be aborted.                  *)
OpenCard == ~tool.open /\ ~tool.run.on /\ tool' = [tool EXCEPT !.open = TRUE] /\ Page

CloseCard == tool.open /\ ~tool.run.on /\ tool' = [tool EXCEPT !.open = FALSE] /\ Page

Confirm ==
  /\ tool.open /\ ~tool.run.on
  /\ \E mode \in {"text", "image"} :
       Ask([tool EXCEPT !.open = FALSE, !.run = [on |-> TRUE, task |-> tool.asked + 1, abort |-> tool.asked + 1]],
           Call(mode, None))
  /\ toolTasks' = [t \in DOMAIN toolTasks \cup {tool.asked + 1} |-> IF t \in DOMAIN toolTasks THEN toolTasks[t] ELSE "running"]
  /\ UNCHANGED toolCache

(* finish: the card's present run and its task                             *)
TasksAfter(status) == IF tool.run.task = None THEN toolTasks ELSE [toolTasks EXCEPT ![tool.run.task] = status]
Finish(m, status) == tool' = [m EXCEPT !.run = NoRun] /\ toolTasks' = TasksAfter(status)

HandleCancel ==
  /\ tool.run.on
  /\ Finish([tool EXCEPT !.stopped = @ \cup {tool.run.abort}], "cancelled")
  /\ UNCHANGED <<toolCache, toolCalls>>

Stopped(c) == c.id \in tool.stopped

(* agentGenerate rejects at once when aborted                              *)
TextAborted(c) ==
  /\ c.kind = "text" /\ Stopped(c)
  /\ Finish(tool, "cancelled") /\ Done(c) /\ UNCHANGED toolCache

Result(c) ==
  /\ IF Stopped(c) THEN UNCHANGED <<tool, toolTasks>>
     ELSE Finish([tool EXCEPT !.applied = @ \cup {c.id}], "success")
  /\ Done(c) /\ UNCHANGED toolCache

TextAnswered(c) == c.kind = "text" /\ ~Stopped(c) /\ Result(c)

PictureGoesOn(c) ==
  /\ c.kind = "image"
  /\ \/ c.step = "prompt" /\ toolCalls' = (toolCalls \ {c}) \cup {[c EXCEPT !.step = "create"]}
     \/ c.step = "create" /\ toolCalls' = (toolCalls \ {c}) \cup {[c EXCEPT !.step = "poll"]}
     \/ c.step = "poll" /\ c.polls + 1 < MaxPolls
        /\ toolCalls' = (toolCalls \ {c}) \cup {[c EXCEPT !.polls = @ + 1]}
  /\ UNCHANGED <<tool, toolTasks, toolCache>>

PictureDone(c) == c.kind = "image" /\ c.step = "poll" /\ Result(c)

(* a request fails, the task does, or the questions run out                *)
RunFails(c) ==
  /\ c.kind \in {"text", "image"}
  /\ \/ c.kind = "text" /\ ~Stopped(c) /\ tool.left > 0
     \/ c.kind = "image" /\ tool.left > 0
     \/ c.kind = "image" /\ c.step = "poll" /\ c.polls + 1 = MaxPolls
  /\ LET timeout == c.kind = "image" /\ c.polls + 1 = MaxPolls
     IN Finish([tool EXCEPT !.left = IF timeout THEN @ ELSE @ - 1], IF Stopped(c) THEN "cancelled" ELSE "failed")
  /\ Done(c) /\ UNCHANGED toolCache

Next ==
  \/ TriggerInline \/ TriggerRewrite \/ AcceptInline \/ ClearInline \/ CloseDiff(TRUE) \/ CloseDiff(FALSE)
  \/ RequestCandidates \/ AcceptCandidate \/ DismissCandidates \/ CacheExpires
  \/ OpenCard \/ CloseCard \/ Confirm \/ HandleCancel
  \/ \E n \in Novels : SelectNovel(n)
  \/ \E c \in toolCalls :
       \/ Chunk(c) \/ StreamEnds(c) \/ StreamThrows(c) \/ CandidatesAnswered(c) \/ CandidatesFail(c)
       \/ CluesLoaded(c) \/ TextAborted(c) \/ TextAnswered(c) \/ PictureGoesOn(c) \/ PictureDone(c) \/ RunFails(c)

Spec == Init /\ [][Next]_toolVars
-----------------------------------------------------------------------------
(* "Generating" - at the cursor, over the candidates, on a card, in the    *)
(* task list - is said only while a request is out that will end it.       *)
ToolBusyIsHonest ==
  /\ tool.inline.on => \E c \in toolCalls : c.kind = "inline"
  /\ tool.rewrite.on => \E c \in toolCalls : c.kind = "rewrite"
  /\ tool.cand.loading => \E c \in toolCalls : c.kind = "candidates"
  /\ tool.run.on => \E c \in toolCalls : c.id = tool.run.abort /\ ~Stopped(c)
  /\ \A t \in DOMAIN toolTasks : toolTasks[t] = "running" => \E c \in toolCalls : c.id = t

(* "Cancel really interrupts" (AigcCard:27): what a cancelled run still    *)
(* brings back - a picture runs to its end - never reaches the form.       *)
CancelledIsNotApplied == tool.applied \cap tool.stopped = {}

(* The clues shown change to those of the novel shown, however late those  *)
(* of another arrive (useAigcClues, alive).                                *)
CluesAreNotLate == [][tool'.clues # tool.clues => tool'.clues = tool'.novel]_toolVars

=============================================================================
