----------------------------- MODULE StoryPanel -----------------------------
(***************************************************************************)
(* Whole-book creation: the panel of the web client with its overview      *)
(* form, saved by timers and kept in localStorage (StoryWorkflowPanel,     *)
(* story-store), and the jobs of the server (story_service), whose stages  *)
(* generate a preview and whose chapters are adopted one by one.           *)
(* The five fields of the form that the novel stores are one field; the    *)
(* idea (logline) lives in localStorage only.  A value is the number of    *)
(* the keystroke or generation that made it, 0 the one stored first.       *)
(* st is the page, stKept its localStorage, stServer the server, stCalls   *)
(* the requests and the timers of finished saves.                          *)
(* The panels that, like this one, only ask and hear the server's answers  *)
(* - the tools of the AI, the gallery, the notices of tasks and the bills  *)
(* - are instances, for what is said of the late answers to them all.      *)
(***************************************************************************)
EXTENDS Naturals, Sequences, SequencesExt, FiniteSetsExt

CONSTANTS StMaxEvents,                    \* bound: what the user does and what fails
          ToolMaxEvents, ToolMaxPolls,    \* bounds: of AiTools
          GalMaxEvents, GalMaxPictures,   \* bounds: of Gallery
          NoteMaxEvents, NoteMaxPolls,    \* bounds: of TaskNotices
          BillMaxEvents                   \* bound: of Billing

VARIABLES st, stKept, stServer, stCalls, tool, toolTasks, toolCache, toolCalls, gal, galServer, galCalls,
          note, noteServer, noteCalls, bill, billServer, billCalls

stVars == <<st, stKept, stServer, stCalls>>

StNovels == {1, 2}
New == 0                 \* no novel: the form makes one, novel 2
StScopes == StNovels \cup {New}
NoDraft == [field |-> 0, idea |-> 0]

Stages == <<"idea", "outline", "plan_chapters", "draft_chapter", "verify", "finalize", "done">>
NoJob == [stage |-> 0, status |-> "none", adopted |-> <<>>, keys |-> 0, content |-> 0]
NewJob == [NoJob EXCEPT !.stage = 1, !.status = "pending"]

StInit ==
  LET begun == [NewJob EXCEPT !.stage = 4, !.content = 1] IN
  \E n \in {1, New} :
    /\ st = [novel |-> n, field |-> IF n = New THEN 1 ELSE 0, idea |-> IF n = New THEN 2 ELSE 0,
             known |-> [m \in StNovels |-> 0],
             draftTimer |-> FALSE, saveTimer |-> FALSE, guarded |-> FALSE, filling |-> FALSE,
             active |-> n, job |-> IF n = New THEN NoJob ELSE begun,
             generating |-> FALSE, adopting |-> FALSE, rev |-> 2, left |-> StMaxEvents]
    /\ stKept = [m \in StScopes |-> IF m = New THEN [field |-> 1, idea |-> 2] ELSE NoDraft]
    /\ stServer = [field |-> [m \in StNovels |-> 0], made |-> {1}, written |-> <<>>,
                   job |-> [m \in StNovels |-> IF m = 1 THEN begun ELSE NoJob]]
    /\ stCalls = {}

StId == CHOOSE i \in 1..(Cardinality(stCalls) + 1) : \A c \in stCalls : c.id # i
Answered(c) == stCalls' = stCalls \ {c}
StLeft == st.left > 0
-----------------------------------------------------------------------------
(* The form.  Every change restarts two timers: one keeps what is not yet  *)
(* stored in localStorage, one stores it.                                  *)
Known(s) == IF s.novel = New THEN 0 ELSE s.known[s.novel]

TypeField ==
  /\ StLeft
  /\ st' = [st EXCEPT !.field = st.rev + 1, !.rev = @ + 1, !.draftTimer = TRUE,
                      !.saveTimer = (st.novel # New), !.left = @ - 1]
  /\ UNCHANGED <<stKept, stServer, stCalls>>

TypeIdea ==
  /\ StLeft
  /\ st' = [st EXCEPT !.idea = st.rev + 1, !.rev = @ + 1, !.draftTimer = TRUE, !.left = @ - 1]
  /\ UNCHANGED <<stKept, stServer, stCalls>>

KeepDraft ==
  /\ st.draftTimer
  /\ stKept' = [stKept EXCEPT ![st.novel] =
                  [field |-> IF st.field = Known(st) THEN 0 ELSE st.field, idea |-> st.idea]]
  /\ st' = [st EXCEPT !.draftTimer = FALSE] /\ UNCHANGED <<stServer, stCalls>>

(* the panel is left and opened again, or another novel is selected: what  *)
(* the page knows of the novel, under what localStorage kept               *)
Prefilled(s, n) ==
  LET kept == stKept[n] IN
  [s EXCEPT !.novel = n, !.idea = kept.idea,
            !.field = IF kept.field # 0 THEN kept.field ELSE IF n = New THEN 0 ELSE s.known[n],
            !.draftTimer = TRUE, !.saveTimer = n # New /\ kept.field \notin {0, s.known[n]}]

ShowNovel(n) ==
  /\ StLeft /\ n \in stServer.made \cup {New}
  /\ st' = [Prefilled(st, n) EXCEPT !.left = @ - 1]
  /\ UNCHANGED <<stKept, stServer, stCalls>>

AutoSaveOverview ==
  /\ st.saveTimer
  /\ st' = [st EXCEPT !.saveTimer = FALSE, !.guarded = TRUE]
  /\ stCalls' = stCalls \cup {[id |-> StId, kind |-> "save", novel |-> st.novel, field |-> st.field, idea |-> st.idea]}
  /\ UNCHANGED <<stKept, stServer>>

(* mutant: the draft a save replaced is not kept again                     *)
StoredQuietly(s, n, v) ==
  [s EXCEPT !.known[n] = v, !.field = IF s.novel # n \/ s.guarded THEN @ ELSE v]

(* updateNovel renders the form anew.  savingRef keeps the stored value    *)
(* from replacing what is being typed - unless an older save has lowered it*)
Stored(s, n, v) ==
  LET s1 == [s EXCEPT !.known[n] = v] IN
  IF s.novel # n THEN s1
  ELSE [s1 EXCEPT !.draftTimer = TRUE, !.field = IF s.guarded \/ s.known[n] = v THEN @ ELSE v,
                  !.saveTimer = s.guarded /\ s.field # v]

(* the draft is replaced by the idea the form had when the save left       *)
SaveOverviewAnswered(c) ==
  /\ c.kind = "save"
  /\ stServer' = [stServer EXCEPT !.field[c.novel] = c.field]
  /\ st' = Stored(st, c.novel, c.field)
  /\ stKept' = [stKept EXCEPT ![c.novel] = [field |-> 0, idea |-> c.idea]]
  /\ stCalls' = (stCalls \ {c}) \cup {[kind |-> "unguard", id |-> c.id]}

SaveOverviewFails(c) ==
  /\ c.kind = "save" /\ StLeft
  /\ st' = [st EXCEPT !.left = @ - 1]
  /\ stCalls' = (stCalls \ {c}) \cup {[kind |-> "unguard", id |-> c.id]}
  /\ UNCHANGED <<stKept, stServer>>

LowerGuard(c) ==
  /\ c.kind = "unguard"
  /\ st' = [st EXCEPT !.guarded = FALSE]
  /\ Answered(c) /\ UNCHANGED <<stKept, stServer>>

(* AI: one field, or all of them.  The answer goes to the form as it is    *)
(* then, whichever novel it shows                                          *)
Fill ==
  /\ StLeft /\ ~st.filling
  /\ st' = [st EXCEPT !.filling = TRUE, !.left = @ - 1]
  /\ stCalls' = stCalls \cup {[id |-> StId, kind |-> "fill"]}
  /\ UNCHANGED <<stKept, stServer>>

FillAnswered(c) ==
  /\ c.kind = "fill"
  /\ \/ st' = [st EXCEPT !.field = st.rev + 1, !.rev = @ + 1, !.draftTimer = TRUE,
                         !.saveTimer = (st.novel # New), !.filling = FALSE]
     \/ StLeft /\ st' = [st EXCEPT !.filling = FALSE, !.left = @ - 1]
  /\ Answered(c) /\ UNCHANGED <<stKept, stServer>>
-----------------------------------------------------------------------------
(* handleCreate: with a novel, what it does not store yet is stored, then  *)
(* the job made; without one, the novel first.  Bounds: one job a novel,   *)
(* one novel made, so no second click before the answer.                   *)
Create ==
  /\ StLeft /\ st.idea # 0 /\ (st.novel = New => st.field # 0 /\ stServer.made # StNovels)
  /\ stServer.job[IF st.novel = New THEN 2 ELSE st.novel] = NoJob
  /\ \A c \in stCalls : c.kind # "create"
  /\ st' = [st EXCEPT !.left = @ - 1]
  /\ stCalls' = stCalls \cup {[id |-> StId, kind |-> "create", novel |-> st.novel, field |-> st.field,
                                idea |-> st.idea]}
  /\ UNCHANGED <<stKept, stServer>>

(* How far it came: the novel stored or made and its draft moved, then the *)
(* job made, then the job opened.                                          *)
CreateReaches(c, jobMade, opened) ==
  LET n  == IF c.novel = New THEN 2 ELSE c.novel
      s1 == IF c.novel = New
              THEN [st EXCEPT !.known[n] = c.field, !.novel = n, !.field = c.field, !.idea = stKept[n].idea,
                              !.draftTimer = TRUE, !.saveTimer = FALSE]
              ELSE Stored(st, n, c.field)
  IN
  /\ c.kind = "create"
  /\ stServer' = [stServer EXCEPT !.field[n] = c.field, !.made = @ \cup {n}, !.job[n] = IF jobMade THEN NewJob ELSE @]
  /\ stKept' = IF c.novel = New THEN [stKept EXCEPT ![n] = [field |-> 0, idea |-> c.idea], ![New] = NoDraft]
               ELSE stKept
  /\ st' = IF opened THEN [s1 EXCEPT !.active = n, !.job = NewJob] ELSE [s1 EXCEPT !.left = @ - 1]
  /\ Answered(c)

CreateAnswered(c) == CreateReaches(c, TRUE, TRUE)

(* createJob or openJob refused: what was done before it stays, on the page *)
(* (its form now shows the novel made) and on the server (the job's row)    *)
CreateStops(c) == StLeft /\ \E jobMade \in BOOLEAN : CreateReaches(c, jobMade, FALSE)

(* the first step refused: nothing is done                                 *)
CreateFails(c) ==
  /\ c.kind = "create" /\ StLeft
  /\ st' = [st EXCEPT !.left = @ - 1]
  /\ Answered(c) /\ UNCHANGED <<stKept, stServer>>

OpenJob(n) ==
  /\ StLeft /\ st.active = New /\ stServer.job[n] # NoJob
  /\ st' = [st EXCEPT !.active = n, !.job = stServer.job[n], !.left = @ - 1]
  /\ UNCHANGED <<stKept, stServer, stCalls>>

CloseJob == st.active # New /\ st' = [st EXCEPT !.active = New, !.job = NoJob] /\ UNCHANGED <<stKept, stServer, stCalls>>

RemoveJob(n) ==
  /\ StLeft /\ st.active = New /\ stServer.job[n] # NoJob
  /\ st' = [st EXCEPT !.left = @ - 1]
  /\ stServer' = [stServer EXCEPT !.job[n] = NoJob] /\ UNCHANGED <<stKept, stCalls>>
-----------------------------------------------------------------------------
(* The server reads the job, works, and writes the whole row it read.      *)
Ask(kind, data) ==
  stCalls' = stCalls \cup {[id |-> StId, kind |-> kind, novel |-> st.active, data |-> data,
                            row |-> stServer.job[st.active], locked |-> FALSE]}

Generate ==
  /\ StLeft /\ st.active # New /\ ~st.generating /\ Ask("generate", 0)
  /\ st' = [st EXCEPT !.generating = TRUE, !.left = @ - 1] /\ UNCHANGED <<stKept, stServer>>

Advance ==
  /\ StLeft /\ st.active # New /\ st.job.status # "done" /\ Ask("advance", 0)
  /\ st' = [st EXCEPT !.left = @ - 1] /\ UNCHANGED <<stKept, stServer>>

JumpStage(i) ==
  /\ StLeft /\ st.active # New /\ i # st.job.stage /\ Ask("stage", i)
  /\ st' = [st EXCEPT !.left = @ - 1] /\ UNCHANGED <<stKept, stServer>>

(* StagePreview: only a drafted chapter is adopted, other stages are passed*)
MayAdopt == Stages[st.job.stage] = "draft_chapter" /\ st.job.content # 0 /\ ~st.adopting

(* the key of the chapter is the page's own count                          *)
Adopt ==
  /\ StLeft /\ st.active # New /\ MayAdopt /\ Ask("adopt", st.job.keys + 1)
  /\ st' = [st EXCEPT !.adopting = TRUE, !.left = @ - 1] /\ UNCHANGED <<stKept, stServer>>

(* a stage of verify keeps no record of the chapters adopted               *)
StageDone(row) ==
  IF Stages[row.stage] = "verify" THEN [row EXCEPT !.status = "pending", !.adopted = <<>>, !.content = 0]
  ELSE [row EXCEPT !.status = "running", !.content = @ + 1]

AdvanceStage(row) ==
  IF row.stage = Len(Stages) THEN [row EXCEPT !.status = "done"]
  ELSE [row EXCEPT !.stage = @ + 1, !.status = "pending"]

SetStage(row, i) == [row EXCEPT !.stage = i, !.status = "pending"]

(* what the page takes of an answer about job n                            *)
Shown(s, c, row) ==
  [s EXCEPT !.job = IF s.active = c.novel THEN row ELSE @,
            !.generating = @ /\ c.kind # "generate", !.adopting = @ /\ c.kind # "adopt"]

JobAnswered(c) ==
  LET row == CASE c.kind = "generate" -> StageDone(c.row)
               [] c.kind = "advance"  -> AdvanceStage(stServer.job[c.novel])
               [] c.kind = "stage"    -> SetStage(stServer.job[c.novel], c.data)
  IN
  /\ c.kind \in {"generate", "advance", "stage"} /\ (c.kind = "generate" \/ stServer.job[c.novel] # NoJob)
  /\ stServer' = [stServer EXCEPT !.job[c.novel] = row]
  /\ st' = Shown(st, c, row)
  /\ Answered(c) /\ UNCHANGED stKept

(* AdoptChapter holds the lock of the job: it reads, writes the chapter    *)
(* (StartAdopt), settles it, and writes the row                            *)
StartAdopt(c) ==
  LET row == stServer.job[c.novel] IN
  /\ c.kind = "adopt" /\ ~c.locked /\ row # NoJob
  /\ \A d \in stCalls : d.kind = "adopt" /\ d.novel = c.novel => ~d.locked
  /\ IF c.data \in ToSet(row.adopted)
       THEN st' = Shown(st, c, row) /\ Answered(c) /\ UNCHANGED stServer
       ELSE /\ stServer' = [stServer EXCEPT !.written = Append(@, <<c.novel, c.data>>)]
            /\ stCalls' = (stCalls \ {c}) \cup
                 {[c EXCEPT !.locked = TRUE,
                            !.row = [row EXCEPT !.adopted = Append(@, c.data), !.keys = @ + 1]]}
            /\ UNCHANGED st
  /\ UNCHANGED stKept

AdoptAnswered(c) ==
  /\ c.kind = "adopt" /\ c.locked
  /\ stServer' = [stServer EXCEPT !.job[c.novel] = c.row]
  /\ st' = Shown(st, c, c.row)
  /\ Answered(c) /\ UNCHANGED stKept

(* the request, or only its answer, is lost; a generation that fails is    *)
(* written down                                                            *)
JobFails(c) ==
  /\ StLeft /\ c.kind \in {"generate", "advance", "stage", "adopt"} /\ ~c.locked
  /\ st' = [Shown(st, c, st.job) EXCEPT !.left = @ - 1]
  /\ \/ c.kind # "adopt" /\ Answered(c)
     \/ c.kind = "adopt" /\ stCalls' = (stCalls \ {c}) \cup {[c EXCEPT !.kind = "unheard"]}
  /\ stServer' = IF c.kind = "generate" THEN [stServer EXCEPT !.job[c.novel] = [c.row EXCEPT !.status = "failed"]]
                 ELSE stServer
  /\ UNCHANGED stKept

(* an adoption whose connection broke still runs to its end                *)
Unheard(c) ==
  /\ c.kind = "unheard" /\ stServer.job[c.novel] # NoJob
  /\ \A d \in stCalls : d.kind = "adopt" /\ d.novel = c.novel => ~d.locked
  /\ LET row == stServer.job[c.novel] IN
     IF c.data \in ToSet(row.adopted) THEN UNCHANGED stServer
     ELSE stServer' = [stServer EXCEPT !.written = Append(@, <<c.novel, c.data>>),
                         !.job[c.novel] = [row EXCEPT !.adopted = Append(@, c.data), !.keys = @ + 1]]
  /\ Answered(c) /\ UNCHANGED <<st, stKept>>

StNext ==
  \/ TypeField \/ TypeIdea \/ KeepDraft \/ AutoSaveOverview \/ Fill \/ Create
  \/ Generate \/ Advance \/ Adopt \/ CloseJob
  \/ \E n \in StScopes : ShowNovel(n)
  \/ \E n \in StNovels : OpenJob(n) \/ RemoveJob(n)
  \/ \E i \in DOMAIN Stages : JumpStage(i)
  \/ \E c \in stCalls : \/ SaveOverviewAnswered(c) \/ SaveOverviewFails(c) \/ LowerGuard(c)
                        \/ FillAnswered(c) \/ CreateAnswered(c) \/ CreateStops(c) \/ CreateFails(c)
                        \/ JobAnswered(c) \/ StartAdopt(c) \/ AdoptAnswered(c)
                        \/ JobFails(c) \/ Unheard(c)

StSpec == StInit /\ [][StNext]_stVars
-----------------------------------------------------------------------------
(* "Kept across leaving the panel and a reload" (StoryWorkflowPanel): what *)
(* the form shows of its novel is stored, or kept in localStorage, or      *)
(* about to be, whatever saves, generations and novels come between.       *)
OverviewIsKept ==
  st.novel # New =>
    \/ st.field = st.known[st.novel] \/ st.draftTimer
    \/ stKept[st.novel].field = st.field

(* A job never records a key twice, however its requests interleave: the   *)
(* lock of AdoptChapter and its check hold together.                       *)
KeysAreDistinct == \A n \in StNovels : IsInjective(stServer.job[n].adopted)
-----------------------------------------------------------------------------
Tool == INSTANCE AiTools WITH MaxEvents <- ToolMaxEvents, MaxPolls <- ToolMaxPolls
Gal  == INSTANCE Gallery WITH MaxEvents <- GalMaxEvents, MaxPictures <- GalMaxPictures
Note == INSTANCE TaskNotices WITH MaxEvents <- NoteMaxEvents, MaxPolls <- NoteMaxPolls
Bill == INSTANCE Billing WITH MaxEvents <- BillMaxEvents

(* A late answer does no harm: it shows no clue of another novel, takes    *)
(* away no picture that is there and no notice of a task that goes on, is  *)
(* not applied after a cancellation, adopts no chapter twice, and "bought" *)
(* is said with the new amount.                                            *)
LateAnswersAreHarmless ==
  /\ Tool!CluesAreNotLate /\ []Tool!CancelledIsNotApplied /\ Gal!OnlyTheDeletedDisappear
  /\ Note!NoticesOutliveTheirTask /\ []KeysAreDistinct /\ Bill!BoughtIsShown

=============================================================================
