------------------------------- MODULE AiChat -------------------------------
(***************************************************************************)
(* The chat with the creation agent (ai-store, AIChatPanel): sessions and  *)
(* their messages, kept in localStorage when an answer arrives, the stop   *)
(* button, and the cards among the messages (DraftConfigCard,              *)
(* DraftResultCard) that start a story job and drive it (story_service).   *)
(* A message is its number, who wrote it and its card.  The seven stages   *)
(* of a job are three: a draft, the check of it, done; one job is made.    *)
(* Texts, models, attachments' contents and speech input are left out.     *)
(* A card's buttons wait for busy, which the component of the card on the  *)
(* screen holds: [card, kind, id] for the request id.  stuck and old only  *)
(* remember: cards whose first stage failed, cards read from localStorage. *)
(***************************************************************************)
EXTENDS Naturals, Sequences, SequencesExt, FiniteSetsExt, TLC

CONSTANTS MaxEvents,     \* bound: what the user does and what fails
          MaxSessions    \* bound: sessions ever made

VARIABLES chat, chatKept, chatServer, chatCalls

chatVars == <<chat, chatKept, chatServer, chatCalls>>

None == 0
Drafting == 1
Verifying == 2
Finished == 3
NoCard == [kind |-> "none", status |-> "none", stage |-> None, content |-> FALSE]
NoInput == [text |-> FALSE, skill |-> FALSE, files |-> 0]
Said(i, who, card) == [id |-> i, from |-> who, card |-> card]

Ids(msgs) == [k \in DOMAIN msgs |-> msgs[k].id]

Opened(kept, novel, left) ==
  LET current == IF kept.sessions = <<>> THEN None ELSE Last(kept.sessions)
  IN [sessions |-> kept.sessions, current |-> current,
      msgs |-> IF current = None THEN <<>> ELSE kept.msgs[current],
      streaming |-> FALSE, latest |-> None, input |-> NoInput, busy |-> {},
      stuck |-> {}, old |-> IF current = None THEN {} ELSE ToSet(Ids(kept.msgs[current])),
      novel |-> novel, made |-> 1, said |-> 1, left |-> left]

Init ==
  /\ chatKept = [sessions |-> <<1>>, msgs |-> [s \in 1..MaxSessions |-> IF s = 1 THEN <<Said(1, "user", NoCard)>> ELSE <<>>]]
  /\ \E novel \in {None, 1} : chat = Opened(chatKept, novel, MaxEvents)
  /\ chatServer = [job |-> FALSE, stage |-> None, payload |-> "none", written |-> 0]
  /\ chatCalls = {}

FreeId == CHOOSE i \in 1..(Cardinality(chatCalls) + 1) : \A c \in chatCalls : c.id # i
Call(r) == r @@ [id |-> FreeId]
Page == UNCHANGED <<chatKept, chatServer, chatCalls>>
-----------------------------------------------------------------------------
(* The input                                                               *)
Type ==
  /\ chat.left > 0 /\ ~chat.input.text
  /\ chat' = [chat EXCEPT !.input.text = TRUE, !.left = @ - 1] /\ Page

Attach ==
  /\ chat.left > 0 /\ chat' = [chat EXCEPT !.left = @ - 1]
  /\ chatCalls' = chatCalls \cup {Call([kind |-> "parse"])} /\ UNCHANGED <<chatKept, chatServer>>

(* a file too large, or no text, is left out                               *)
Parsed(c) ==
  /\ c.kind = "parse"
  /\ \E n \in {0, 1} : chat' = [chat EXCEPT !.input.files = @ + n]
  /\ chatCalls' = chatCalls \ {c} /\ UNCHANGED <<chatKept, chatServer>>

(* one skill puts a card among the messages, the others mark the input     *)
InvokeSkill ==
  /\ chat.left > 0
  /\ chat' \in
       {[chat EXCEPT !.input.skill = TRUE, !.left = @ - 1],
        [chat EXCEPT !.msgs = Append(@, Said(chat.said + 1, "card", [NoCard EXCEPT !.kind = "config", !.status = "editing"])),
                     !.said = @ + 1, !.left = @ - 1]}
  /\ Page

(* sendMessage: the first message makes the session; it is kept when the   *)
(* answer is                                                               *)
Send(m, files) ==
  LET fresh == m.current = None
      sid   == IF fresh THEN m.made + 1 ELSE m.current
      call  == Call([kind |-> "agent", session |-> sid, files |-> files])
  IN /\ chat.left > 0 /\ (fresh => m.made < MaxSessions)
     /\ chat' = [m EXCEPT !.current = sid, !.made = IF fresh THEN sid ELSE @,
                          !.sessions = IF fresh THEN <<sid>> \o @ ELSE @,
                          !.msgs = Append(@, Said(m.said + 1, "user", NoCard)), !.said = @ + 1,
                          !.streaming = TRUE, !.latest = call.id, !.left = @ - 1]
     /\ chatCalls' = chatCalls \cup {call} /\ UNCHANGED <<chatKept, chatServer>>

HandleSend ==
  /\ chat.input.text \/ chat.input.skill
  /\ ~chat.streaming
  /\ Send([chat EXCEPT !.input = NoInput], chat.input.files)

SendSuggestion == chat.msgs = <<>> /\ ~chat.streaming /\ Send(chat, 0)

(* the answer - or the error, in its place - goes to the messages on the   *)
(* screen, and those to the session that asked                             *)
AgentAnswered(c) ==
  /\ c.kind = "agent"
  /\ LET msgs == Append(chat.msgs, Said(chat.said + 1, "assistant", NoCard)) IN
     /\ chat' = [chat EXCEPT !.msgs = msgs, !.said = @ + 1, !.streaming = FALSE,
                             !.latest = IF @ = c.id THEN None ELSE @]
     /\ chatKept' = [sessions |-> chat.sessions, msgs |-> [chatKept.msgs EXCEPT ![c.session] = msgs]]
  /\ chatCalls' = chatCalls \ {c} /\ UNCHANGED chatServer

(* stop: the request sent last, if it is still out                         *)
CancelMessage ==
  /\ chat.streaming
  /\ chat' = [chat EXCEPT !.streaming = FALSE, !.latest = None]
  /\ chatCalls' = {c \in chatCalls : c.kind # "agent" \/ c.id # chat.latest}
  /\ UNCHANGED <<chatKept, chatServer>>
-----------------------------------------------------------------------------
(* The sessions, newest first.  Showing other messages unmounts the cards  *)
(* that are not among them, and their busy with them; requests go on.      *)
Show(m, msgs) ==
  [m EXCEPT !.msgs = msgs, !.stuck = {}, !.old = ToSet(Ids(msgs)),
            !.busy = {b \in @ : \E x \in ToSet(msgs) : x.id = b.card /\ x.card.kind = b.kind}]

ClearMessages ==
  /\ chat.left > 0 /\ chat.msgs # <<>>
  /\ chat' = Show([chat EXCEPT !.streaming = FALSE, !.left = @ - 1], <<>>)
  /\ chatKept' = IF chat.current = None THEN chatKept
                 ELSE [sessions |-> chat.sessions, msgs |-> [chatKept.msgs EXCEPT ![chat.current] = <<>>]]
  /\ UNCHANGED <<chatServer, chatCalls>>

NewSession ==
  /\ chat.left > 0 /\ chat.made < MaxSessions
  /\ chat' = Show([chat EXCEPT !.sessions = <<chat.made + 1>> \o @, !.current = chat.made + 1, !.made = @ + 1,
                               !.streaming = FALSE, !.left = @ - 1], <<>>)
  /\ chatKept' = [chatKept EXCEPT !.sessions = chat'.sessions]
  /\ UNCHANGED <<chatServer, chatCalls>>

LoadSession(s) ==
  /\ chat.left > 0 /\ s # chat.current
  /\ chat' = Show([chat EXCEPT !.current = s, !.streaming = FALSE, !.left = @ - 1], chatKept.msgs[s])
  /\ Page

DeleteSession(s) ==
  LET rest == SelectSeq(chat.sessions, LAMBDA x : x # s)
      next == IF rest = <<>> THEN None ELSE Head(rest)
      gone == [chatKept EXCEPT !.sessions = rest, !.msgs[s] = <<>>]
  IN
  /\ chat.left > 0 /\ chatKept' = gone
  /\ chat' = IF s # chat.current THEN [chat EXCEPT !.sessions = rest, !.left = @ - 1]
             ELSE Show([chat EXCEPT !.sessions = rest, !.current = next, !.left = @ - 1],
                       IF next = None THEN <<>> ELSE gone.msgs[next])
  /\ UNCHANGED <<chatServer, chatCalls>>

(* initialSessionState: the last session of the list                       *)
Reload ==
  /\ chat.left > 0
  /\ chat' = [Opened(chatKept, chat.novel, chat.left - 1) EXCEPT !.made = chat.made, !.said = chat.said]
  /\ chatCalls' = {} /\ UNCHANGED <<chatKept, chatServer>>
-----------------------------------------------------------------------------
(* The cards.  A card is changed where its message is, if it is shown; its *)
(* buttons wait while a request is out that this component has made.       *)
Update(m, i, kind, Change(_)) ==
  [m EXCEPT !.msgs = [k \in DOMAIN @ |-> IF @[k].id = i /\ @[k].card.kind = kind
                                         THEN [@[k] EXCEPT !.card = Change(@)] ELSE @[k]]]
Marked(m, i, status) == Update(m, i, "result", LAMBDA c : [c EXCEPT !.status = status])

Shown(i, kind) == \E k \in DOMAIN chat.msgs : chat.msgs[k].id = i /\ chat.msgs[k].card.kind = kind
CardOf(i) == (CHOOSE m \in ToSet(chat.msgs) : m.id = i).card
Waiting(i, kind) == \E b \in chat.busy : b.card = i /\ b.kind = kind
Ready(i) == chat.left > 0 /\ Shown(i, "result") /\ ~Waiting(i, "result") /\ CardOf(i).status # "abandoned"
Request(m, i, on, kind, rest) ==
  /\ chat' = [m EXCEPT !.busy = @ \cup {[card |-> i, kind |-> on, id |-> FreeId]}, !.left = @ - 1]
  /\ chatCalls' = chatCalls \cup {Call([kind |-> kind, card |-> i] @@ rest)} /\ UNCHANGED <<chatKept, chatServer>>
Settled(m, c) == [m EXCEPT !.busy = {b \in @ : b.id # c.id}]

(* the stage and content of a job on the card, as applyJob writes them     *)
Applied(m, i, job, failed) ==
  Update(m, i, "result", LAMBDA c : [c EXCEPT !.status = IF failed THEN "failed" ELSE "ready",
                                              !.stage = job.stage, !.content = (job.payload = "text")])

SubmitDraft(i) ==
  /\ chat.left > 0 /\ Shown(i, "config") /\ ~Waiting(i, "config") /\ chat.novel # None
  /\ chatServer.stage = None /\ \A c \in chatCalls : c.kind # "create"      \* bound: one job
  /\ Request(chat, i, "config", "create", <<>>)

(* the job is made and its first stage asked for: the card runs.  It is a  *)
(* new component, whose buttons do not wait for that stage.                *)
SubmitAnswered(c) ==
  /\ c.kind = "create"
  /\ chatServer' = [chatServer EXCEPT !.job = TRUE, !.stage = Drafting]
  /\ chat' = Update(Settled(chat, c), c.card, "config",
               LAMBDA x : [kind |-> "result", status |-> "running", stage |-> Drafting, content |-> FALSE])
  /\ chatCalls' = (chatCalls \ {c}) \cup
       {[kind |-> "stage", card |-> c.card, then |-> "stay", first |-> TRUE, seen |-> chatServer', id |-> c.id]}
  /\ UNCHANGED chatKept

SubmitFails(c) ==
  /\ c.kind = "create" /\ chat.left > 0
  /\ chat' = [Settled(chat, c) EXCEPT !.left = @ - 1]
  /\ chatCalls' = chatCalls \ {c} /\ UNCHANGED <<chatKept, chatServer>>

(* handleGenerate: "next" generates the stage and goes on to the next,     *)
(* "regen" and "retry" stay                                                *)
HandleGenerate(i, then) ==
  /\ Ready(i)
  /\ IF CardOf(i).status = "failed" THEN then = "stay" ELSE CardOf(i).stage # Finished
  /\ Request([Marked(chat, i, "running") EXCEPT !.stuck = @ \ {i}, !.old = @ \ {i}],
             i, "result", "stage", [then |-> then, first |-> FALSE, seen |-> chatServer])

(* GenerateStage writes back the row it read before it generated, which    *)
(* may have been deleted meanwhile: Save inserts it again                  *)
StageAnswered(c) ==
  /\ c.kind = "stage" /\ c.seen.job
  /\ LET job == [c.seen EXCEPT !.payload = IF c.seen.stage = Verifying THEN "issues" ELSE "text",
                               !.written = chatServer.written] IN
     /\ chatServer' = job
     /\ IF c.then = "next"
          THEN /\ chatCalls' = (chatCalls \ {c}) \cup {[kind |-> "advance", card |-> c.card, id |-> c.id]}
               /\ UNCHANGED chat
          ELSE /\ chatCalls' = chatCalls \ {c}
               /\ \E failed \in BOOLEAN : /\ c.first => ~failed
                                          /\ chat' = Settled(Applied(chat, c.card, job, failed), c)
  /\ UNCHANGED chatKept

Advanced(c) ==
  /\ c.kind = "advance" /\ chatServer.job
  /\ chatServer' = [chatServer EXCEPT !.stage = IF @ < Finished THEN @ + 1 ELSE @]
  /\ chat' = Settled(Applied(chat, c.card, chatServer', FALSE), c)
  /\ chatCalls' = chatCalls \ {c} /\ UNCHANGED chatKept

(* mutant: a stage that fails leaves its card as it is                     *)
StageFailsUnsaid(c) ==
  /\ c.kind \in {"stage", "advance"} /\ chat.left > 0
  /\ chat' = [Settled(chat, c) EXCEPT !.left = @ - 1]
  /\ chatCalls' = chatCalls \ {c} /\ UNCHANGED <<chatKept, chatServer>>

(* the request fails: a card whose first stage it was stays as it is       *)
StageFails(c) ==
  /\ c.kind \in {"stage", "advance"} /\ chat.left > 0
  /\ LET first == c.kind = "stage" /\ c.first
         m == IF first THEN [chat EXCEPT !.stuck = @ \cup {c.card}] ELSE Marked(chat, c.card, "failed")
     IN chat' = [Settled(m, c) EXCEPT !.left = @ - 1]
  /\ chatCalls' = chatCalls \ {c} /\ UNCHANGED <<chatKept, chatServer>>

HandleAdopt(i) ==
  /\ Ready(i) /\ CardOf(i).content /\ CardOf(i).status # "adopted"
  /\ Request(chat, i, "result", "adopt", <<>>)

(* without a key the server makes the next one, and the chapter            *)
Adopted(c) ==
  /\ c.kind = "adopt" /\ chatServer.job
  /\ chatServer' = [chatServer EXCEPT !.written = @ + 1]
  /\ \/ chat' = Settled(Marked(chat, c.card, "adopted"), c)
     \/ chat.left > 0 /\ chat' = [Settled(chat, c) EXCEPT !.left = @ - 1]       \* the answer is lost
  /\ chatCalls' = chatCalls \ {c} /\ UNCHANGED chatKept

HandleAbandon(i) == Ready(i) /\ Request(chat, i, "result", "delete", <<>>)

Abandoned(c) ==
  /\ c.kind = "delete" /\ chatServer.job
  /\ chatServer' = [chatServer EXCEPT !.job = FALSE]
  /\ \/ chat' = Settled(Marked(chat, c.card, "abandoned"), c)
     \/ chat.left > 0 /\ chat' = [Settled(chat, c) EXCEPT !.left = @ - 1]       \* the answer is lost
  /\ chatCalls' = chatCalls \ {c} /\ UNCHANGED chatKept

CardRequestFails(c) ==
  /\ c.kind \in {"adopt", "delete"} /\ chat.left > 0
  /\ chat' = [Settled(chat, c) EXCEPT !.left = @ - 1]
  /\ chatCalls' = chatCalls \ {c} /\ UNCHANGED <<chatKept, chatServer>>

Next ==
  \/ Type \/ Attach \/ InvokeSkill \/ HandleSend \/ SendSuggestion \/ CancelMessage \/ ClearMessages
  \/ NewSession \/ Reload
  \/ \E s \in ToSet(chat.sessions) : LoadSession(s) \/ DeleteSession(s)
  \/ \E i \in ToSet(Ids(chat.msgs)) :
       \/ SubmitDraft(i) \/ HandleAdopt(i) \/ HandleAbandon(i)
       \/ \E then \in {"next", "stay"} : HandleGenerate(i, then)
  \/ \E c \in chatCalls :
       \/ Parsed(c) \/ AgentAnswered(c) \/ SubmitAnswered(c) \/ SubmitFails(c) \/ StageAnswered(c)
       \/ Advanced(c) \/ StageFails(c) \/ Adopted(c) \/ Abandoned(c) \/ CardRequestFails(c)

Spec == Init /\ [][Next]_chatVars
-----------------------------------------------------------------------------
(* While the panel says that the agent is writing, a button that it waits, *)
(* or a card that its job is being worked on, a request is out whose       *)
(* answer will end it (ai-store, DraftResultCard:43,173) - but for a card  *)
(* whose first stage failed (DraftConfigCard:74 leaves it running) and one *)
(* read from localStorage, whose copy may be older than the answer.        *)
ChatBusyIsHonest ==
  /\ chat.streaming => \E c \in chatCalls : c.kind = "agent"
  /\ \A b \in chat.busy : \E c \in chatCalls : c.kind \notin {"agent", "parse"} /\ c.card = b.card /\ c.id = b.id
  /\ \A m \in ToSet(chat.msgs) :
       m.card.status = "running" /\ m.id \notin chat.stuck \cup chat.old =>
         \E c \in chatCalls : c.kind \in {"stage", "advance"} /\ c.card = m.id

(* The messages on the screen begin with those kept for their session      *)
(* (ai-store): a reload, or a visit to another session, takes back no more *)
(* than what was said since the last answer - even when answers arrive in  *)
(* sessions that did not ask.                                              *)
ShownExtendsKept ==
  chat.current # None => IsPrefix(Ids(chatKept.msgs[chat.current]), Ids(chat.msgs))

=============================================================================
