------------------------------- MODULE Editor -------------------------------
(***************************************************************************)
(* The manuscript editor of the web client: the tabs (tab-store), the one  *)
(* TipTap editor that shows the active chapter, the debounced save with    *)
(* its retries (editor-store, EditorArea), the drafts kept in localStorage *)
(* (draft-vault), the loading of a chapter (novel-store) and the AI draft  *)
(* of a whole chapter (useChapterDraft).                                   *)
(*                                                                         *)
(* ed is what a page holds in memory and loses with it; vault and snap are *)
(* localStorage; server is what the server stores; saves, loads and gens   *)
(* are the requests under way; saveRetries are scheduleSaveRetry's timers. *)
(* A text is the chapter it was written for and the number of its last     *)
(* keystroke (AI: generated).  React commits between two tasks, so the     *)
(* effects of a store change (Commit) belong to the action that made it.   *)
(* work says what became of the text a tab holds, for the properties: it   *)
(* is stored (or none of the user's), unsaved, outrun by the answer to a   *)
(* save of an older text, or replaced by a load or by an older draft.      *)
(* localStorage accepts every write.  RETRY_MAX_ATTEMPTS is out of reach:  *)
(* every failed attempt starts a chain of its own (see SaveFails).         *)
(***************************************************************************)
EXTENDS Naturals, Sequences, SequencesExt, FiniteSets

CONSTANTS
  Chapters,      \* the chapters of the novel
  Panels,        \* the other tabs: outline nodes, the story wizard ...
  NoKey,         \* no tab, no chapter
  MaxEvents,     \* bound: what the user does and what fails, together
  MaxInFlight    \* bound: saves, and loads, under way when a tab closes or opens

ASSUME EditorAssumption == /\ IsFiniteSet(Chapters) /\ Chapters \cap Panels = {}
                           /\ NoKey \notin Chapters \cup Panels
                           /\ MaxEvents \in Nat /\ MaxInFlight \in Nat

VARIABLES ed, vault, snap, server, saves, loads, gens, saveRetries, spent

edVars == <<ed, vault, snap, server, saves, loads, gens, saveRetries, spent>>

TabKeys   == Chapters \cup Panels
AI     == MaxEvents + 1
Empty  == [of |-> NoKey, rev |-> 0]
Absent == [of |-> NoKey, rev |-> AI]
Text   == [of : Chapters, rev : 0..AI] \cup {Empty}

NewTab(text) == [draft |-> text, dirty |-> FALSE, status |-> "idle", loadError |-> FALSE,
                 work |-> "stored"]

NewPage ==
  [tabs |-> <<>>, active |-> NoKey, tab |-> [k \in TabKeys |-> NewTab(Empty)],
   mounted |-> NoKey, doc |-> Empty, unsynced |-> FALSE,
   current |-> NoKey, content |-> Empty, listed |-> TRUE, listing |-> FALSE,
   timers |-> {}, pending |-> [c \in Chapters |-> Absent],
   target |-> NoKey, prev |-> Empty, generating |-> FALSE, draft |-> Absent]

EdInit ==
  /\ ed = NewPage
  /\ vault = [c \in Chapters |-> Absent]
  /\ snap = [c \in Chapters |-> Absent]
  /\ server = [c \in Chapters |-> [of |-> c, rev |-> 0]]
  /\ saves = {} /\ loads = {} /\ gens = {} /\ saveRetries = {}
  /\ spent = 0

Event == spent < MaxEvents /\ spent' = spent + 1

Open(e, k)  == k \in ToSet(e.tabs)
Fresh(set)  == CHOOSE n \in 1..(Cardinality(set) + 1) : \A r \in set : r.n # n
-----------------------------------------------------------------------------
(* tab-store                                                               *)
OpenTab(e, k, text) ==
  IF Open(e, k) THEN [e EXCEPT !.active = k]
  ELSE [e EXCEPT !.tabs = Append(@, k), !.active = k, !.tab[k] = NewTab(text)]

SetActive(e, k) == IF Open(e, k) THEN [e EXCEPT !.active = k] ELSE e

(* a patch, which a tab that has been closed in the meantime ignores       *)
UpdateTab(e, k, t) == IF Open(e, k) THEN [e EXCEPT !.tab[k] = t] ELSE e

(* what a filter leaves, in its order                                      *)
Kept(tabs, keys) ==
  LET at == {i \in DOMAIN tabs : tabs[i] \in keys}
  IN [j \in 1..Cardinality(at) |-> tabs[CHOOSE i \in at : Cardinality({h \in at : h <= i}) = j]]

(* the right neighbour takes over, else the left one                       *)
CloseTab(e, k) ==
  LET left == Kept(e.tabs, TabKeys \ {k})
      at   == CHOOSE i \in DOMAIN e.tabs : e.tabs[i] = k
      heir == IF at <= Len(left) THEN left[at]
              ELSE IF left # <<>> THEN left[Len(left)] ELSE NoKey
  IN IF ~Open(e, k) THEN e
     ELSE [e EXCEPT !.tabs = left, !.tab[k] = NewTab(Empty),
                    !.active = IF @ = k THEN heir ELSE @]

Prune(e, valid) ==
  LET left == Kept(e.tabs, valid \cup Panels)
  IN [e EXCEPT !.tabs = left,
               !.tab = [k \in TabKeys |-> IF k \in ToSet(left) THEN @[k] ELSE NewTab(Empty)],
               !.active = IF @ \in ToSet(left) THEN @
                          ELSE IF left # <<>> THEN left[1] ELSE NoKey]
-----------------------------------------------------------------------------
(* What React does after a change of the stores.                           *)

(* EditorArea.handleChange: the html goes to the tab that is active NOW    *)
(* (to no effect when that is a panel: nothing reads its draft)            *)
HandleChange(e, html) ==
  IF e.active \notin Chapters THEN e
  ELSE [e EXCEPT !.tab[e.active] = [@ EXCEPT !.draft = html, !.dirty = TRUE, !.work = "unsaved"],
                 !.pending[e.active] = html,
                 !.timers = @ \cup {e.active}]

(* TipTapEditor is keyed by the tab: leaving it runs flushHtmlSync, with   *)
(* the html of the old chapter; the new one starts from its tab's draft,   *)
(* and follows the draft when somebody else changes it                     *)
Remount(old, e) ==
  LET left  == old.mounted # NoKey /\ e.active # old.mounted
      e1    == IF left THEN [HandleChange(e, old.doc) EXCEPT !.unsynced = FALSE] ELSE e
      shown == IF e1.active \in Chapters THEN e1.active ELSE NoKey
  IN IF shown = NoKey
       THEN [e1 EXCEPT !.mounted = NoKey, !.doc = Empty, !.unsynced = FALSE]
     ELSE IF left \/ old.mounted = NoKey \/ e1.tab[shown].draft # old.tab[shown].draft
       THEN [e1 EXCEPT !.mounted = shown, !.doc = e1.tab[shown].draft]
     ELSE e1

(* the effect on currentChapter: bring its tab back, or open it - then, and *)
(* only then, with the draft that localStorage kept (loadDraft does not    *)
(* see a newer one on its way there)                                       *)
FollowCurrent(e) ==
  LET c == e.current
      t == e.tab[c]
      opened == OpenTab(e, c, e.content)
  IN IF c = NoKey THEN e
     ELSE IF ~Open(e, c)
       THEN IF vault[c] \in {Absent, e.content} THEN opened
            ELSE UpdateTab(opened, c, [NewTab(vault[c]) EXCEPT !.dirty = TRUE,
                                     !.work = IF e.pending[c] = Absent THEN "unsaved" ELSE "replaced"])
     ELSE IF ~t.dirty /\ t.draft = Empty
       THEN [e EXCEPT !.active = c, !.tab[c].draft = e.content]
     ELSE [e EXCEPT !.active = c]

Commit(e) ==
  LET e1 == Remount(ed, e)
  IN ed' = IF <<e.current, e.content>> = <<ed.current, ed.content>> THEN e1
           ELSE Remount(e1, FollowCurrent(e1))
-----------------------------------------------------------------------------
(* editor-store.saveChapter, up to its await; again: called by a retry     *)
Put(c, body, again) == [c |-> c, body |-> body, again |-> again, n |-> Fresh(saves)]

MaySave(e, c) == Open(e, c) /\ e.tab[c].dirty /\ e.tab[c].status # "saving"

StartSave(e, c) == [e EXCEPT !.tab[c].status = "saving"]

(* EditorArea.flushTab: e after it, and the saves it adds                  *)
Flushes(e, k)  == k \in Chapters /\ MaySave(e, k) /\ ~e.tab[k].loadError
FlushTab(e, k) == LET e1 == [e EXCEPT !.timers = @ \ {k}]
                  IN IF Flushes(e, k) THEN StartSave(e1, k) ELSE e1
Flushed(e, k)  == IF Flushes(e, k) THEN saves \cup {Put(k, e.tab[k].draft, FALSE)} ELSE saves

(* Typing reaches the tab 300 ms later (SyncHtml).                         *)
Type ==
  /\ ed.mounted # NoKey /\ Event
  /\ ed' = [ed EXCEPT !.unsynced = TRUE,
              !.doc = [of |-> IF @.of = NoKey THEN ed.mounted ELSE @.of, rev |-> spent + 1]]
  /\ UNCHANGED <<vault, snap, server, saves, loads, gens, saveRetries>>

SyncHtml ==
  /\ ed.unsynced
  /\ ed' = [HandleChange(ed, ed.doc) EXCEPT !.unsynced = FALSE]
  /\ UNCHANGED <<vault, snap, server, saves, loads, gens, saveRetries, spent>>

(* draft-vault: the throttled write, one second after the first saveDraft  *)
WriteDraft(c) ==
  /\ ed.pending[c] # Absent
  /\ vault' = [vault EXCEPT ![c] = ed.pending[c]]
  /\ ed' = [ed EXCEPT !.pending[c] = Absent]
  /\ UNCHANGED <<snap, server, saves, loads, gens, saveRetries, spent>>

(* the 15 s timer of handleChange                                          *)
AutoSave(c) ==
  /\ c \in ed.timers
  /\ ed' = FlushTab(ed, c) /\ saves' = Flushed(ed, c)
  /\ UNCHANGED <<vault, snap, server, loads, gens, saveRetries, spent>>

(* Ctrl+S, the window loses focus, the page is hidden                      *)
SaveNow ==
  /\ ed.active # NoKey /\ Event
  /\ FlushTab(ed, ed.active) # ed
  /\ ed' = FlushTab(ed, ed.active) /\ saves' = Flushed(ed, ed.active)
  /\ UNCHANGED <<vault, snap, server, loads, gens, saveRetries>>
-----------------------------------------------------------------------------
(* The answer to a save.  Whatever was typed since the request left is now *)
(* clean, and its draft dropped.                                           *)
Outcome(t, body) == IF t.draft = body THEN "stored"
                    ELSE IF t.work = "unsaved" THEN "outrun" ELSE t.work

SaveAnswered(s) ==
  LET t == ed.tab[s.c] IN
  /\ server' = [server EXCEPT ![s.c] = s.body]
  /\ saves' = saves \ {s}
  /\ vault' = [vault EXCEPT ![s.c] = Absent]
  /\ ed' = [UpdateTab(ed, s.c, [t EXCEPT !.dirty = FALSE, !.status = "saved", !.work = Outcome(t, s.body)])
              EXCEPT !.pending[s.c] = Absent]
  /\ UNCHANGED <<snap, loads, gens, saveRetries, spent>>

(* mutant: the draft is dropped whether the save succeeds or not           *)
SaveFailsDropping(s) ==
  /\ Event
  /\ saves' = saves \ {s}
  /\ server' \in {server, [server EXCEPT ![s.c] = s.body]}
  /\ vault' = [vault EXCEPT ![s.c] = Absent]
  /\ ed' = [UpdateTab(ed, s.c, [ed.tab[s.c] EXCEPT !.status = "error"]) EXCEPT !.pending[s.c] = Absent]
  /\ saveRetries' = {r \in saveRetries : ~(r.c = s.c /\ r.held)}
                  \cup {[c |-> s.c, body |-> s.body, held |-> TRUE, n |-> Fresh(saveRetries)]}
  /\ UNCHANGED <<snap, loads, gens>>

(* mutant: a retry that fails schedules no other                           *)
SaveFailsOnce(s) ==
  /\ Event
  /\ saves' = saves \ {s}
  /\ server' \in {server, [server EXCEPT ![s.c] = s.body]}
  /\ ed' = UpdateTab(ed, s.c, [ed.tab[s.c] EXCEPT !.status = "error"])
  /\ saveRetries' = IF s.again THEN saveRetries
                ELSE {r \in saveRetries : ~(r.c = s.c /\ r.held)}
                       \cup {[c |-> s.c, body |-> s.body, held |-> TRUE, n |-> Fresh(saveRetries)]}
  /\ UNCHANGED <<vault, snap, loads, gens>>

(* The save fails, or its answer is lost.  scheduleSaveRetry replaces the  *)
(* timer that retryTimers holds for the chapter; when the failed save was  *)
(* itself a retry, its then() puts a second timer in the map, and the      *)
(* first runs on, out of reach                                             *)
SaveFails(s) ==
  /\ Event
  /\ saves' = saves \ {s}
  /\ server' \in {server, [server EXCEPT ![s.c] = s.body]}
  /\ ed' = UpdateTab(ed, s.c, [ed.tab[s.c] EXCEPT !.status = "error"])
  /\ LET others == {r \in saveRetries : ~(r.c = s.c /\ r.held)}
         chain  == [c |-> s.c, body |-> s.body, held |-> ~(s.again /\ Open(ed, s.c)), n |-> Fresh(others)]
         both   == others \cup {chain}
     IN saveRetries' = IF chain.held THEN both
                   ELSE both \cup {[chain EXCEPT !.held = TRUE, !.n = Fresh(both)]}
  /\ UNCHANGED <<vault, snap, loads, gens>>

(* attemptOnce: the text of the failed save, unless the tab is no longer   *)
(* in error                                                                *)
RetrySave(r) ==
  LET rest == saveRetries \ {r} IN
  /\ saveRetries' = IF Open(ed, r.c) /\ ed.tab[r.c].status = "error" THEN rest
                ELSE {[q EXCEPT !.held = @ /\ q.c # r.c] : q \in rest}
  /\ IF Open(ed, r.c) /\ ed.tab[r.c].status = "error"
       THEN ed' = StartSave(ed, r.c) /\ saves' = saves \cup {Put(r.c, r.body, TRUE)}
       ELSE UNCHANGED <<ed, saves>>
  /\ UNCHANGED <<vault, snap, server, loads, gens, spent>>
-----------------------------------------------------------------------------
(* novel-store.selectChapter, from the list, the palette, a search result  *)
(* or, with e flushed, from the tab bar                                    *)
SelectChapter(e, c) ==
  IF Open(e, c)
    THEN /\ Commit([SetActive(e, c) EXCEPT !.current = c, !.content = e.tab[c].draft])
         /\ UNCHANGED loads
    ELSE /\ Commit([OpenTab(e, c, Empty) EXCEPT !.current = c, !.content = Empty])
         /\ loads' = loads \cup {[c |-> c, text |-> server[c], n |-> Fresh(loads)]}

ClickChapter(c) ==
  /\ ed.listed /\ (Open(ed, c) \/ Cardinality(loads) < MaxInFlight) /\ Event
  /\ SelectChapter(ed, c)
  /\ UNCHANGED <<vault, snap, server, saves, gens, saveRetries>>

(* handleSwitch: the tab that is left is flushed - its draft, not its doc  *)
SwitchTab(k) ==
  /\ Open(ed, k) /\ k # ed.active /\ Event
  /\ LET e == FlushTab(ed, ed.active)
     IN IF k \in Chapters /\ ed.listed THEN SelectChapter(e, k)
        ELSE Commit(SetActive(e, k)) /\ UNCHANGED loads
  /\ saves' = Flushed(ed, ed.active)
  /\ UNCHANGED <<vault, snap, server, gens, saveRetries>>

CloseByUser(k) ==
  /\ Open(ed, k) /\ Cardinality(saves) < MaxInFlight /\ Event
  /\ LET e1 == CloseTab(FlushTab(ed, k), k)
     IN IF k # ed.active THEN ed' = e1 /\ UNCHANGED loads
        ELSE IF e1.active = NoKey
          THEN Commit([e1 EXCEPT !.current = NoKey, !.content = Empty]) /\ UNCHANGED loads
        ELSE IF e1.active \in Chapters /\ e1.listed THEN SelectChapter(e1, e1.active)
        ELSE Commit(e1) /\ UNCHANGED loads
  /\ saves' = Flushed(ed, k)
  /\ UNCHANGED <<vault, snap, server, gens, saveRetries>>

OpenPanel(k) ==
  /\ ed.active # k /\ Event
  /\ Commit(OpenTab(ed, k, Empty))
  /\ UNCHANGED <<vault, snap, server, saves, loads, gens, saveRetries>>

(* The answer, read when the request left or when it is given, makes its   *)
(* chapter the current one again, wherever the user has gone since, and    *)
(* replaces the draft, typed in or not                                     *)
LoadAnswered(l) ==
  /\ loads' = loads \ {l}
  /\ \E text \in {l.text, server[l.c]} :
       LET e == [ed EXCEPT !.current = l.c, !.content = text]
       IN Commit(UpdateTab(e, l.c, [e.tab[l.c] EXCEPT !.draft = text, !.loadError = FALSE,
                                     !.work = IF @ = "stored" THEN "stored" ELSE "replaced"]))
  /\ UNCHANGED <<vault, snap, server, saves, gens, saveRetries, spent>>

LoadFails(l) ==
  /\ Event
  /\ loads' = loads \ {l}
  /\ ed' = UpdateTab(ed, l.c, [ed.tab[l.c] EXCEPT !.loadError = TRUE])
  /\ UNCHANGED <<vault, snap, server, saves, gens, saveRetries>>

(* selectNovel (of the same novel, again): every dirty tab is saved, even  *)
(* one whose text could not be loaded; then the chapters are listed anew   *)
SelectNovel ==
  LET dirty == {c \in Chapters : MaySave(ed, c)} IN
  /\ ~ed.listing /\ Event
  /\ ed' = [ed EXCEPT !.tab = [k \in TabKeys |-> IF k \in dirty THEN [@[k] EXCEPT !.status = "saving"] ELSE @[k]],
                      !.current = NoKey, !.content = Empty, !.listing = TRUE]
  /\ saves' = saves \cup {[Put(c, ed.tab[c].draft, FALSE) EXCEPT !.n = Fresh({s \in saves : s.c = c})] : c \in dirty}
  /\ UNCHANGED <<vault, snap, server, loads, gens, saveRetries>>

ListAnswered ==
  /\ ed.listing
  /\ Commit([Prune(ed, Chapters) EXCEPT !.listing = FALSE, !.listed = TRUE])
  /\ UNCHANGED <<vault, snap, server, saves, loads, gens, saveRetries, spent>>

(* no list: every chapter tab is pruned, unsaved text or not               *)
ListFails ==
  /\ ed.listing /\ Event
  /\ Commit([Prune(ed, {}) EXCEPT !.listing = FALSE, !.listed = FALSE])
  /\ UNCHANGED <<vault, snap, server, saves, loads, gens, saveRetries>>
-----------------------------------------------------------------------------
(* AI draft of the current chapter, previewed, then written over the tab   *)
Compose ==
  LET c == ed.current IN
  /\ c # NoKey /\ ed.target = NoKey /\ Open(ed, c) /\ ~ed.tab[c].loadError
  /\ Event
  /\ ed' = [ed EXCEPT !.target = c, !.prev = ed.tab[c].draft, !.generating = TRUE, !.draft = Absent]
  /\ gens' = gens \cup {[c |-> c, n |-> Fresh(gens)]}
  /\ UNCHANGED <<vault, snap, server, saves, loads, saveRetries>>

ComposeAnswered(g) ==
  /\ gens' = gens \ {g}
  /\ \/ ed' = [ed EXCEPT !.generating = FALSE, !.draft = [of |-> g.c, rev |-> AI]] /\ UNCHANGED spent
     \/ ed' = [ed EXCEPT !.generating = FALSE, !.draft = Absent] /\ Event
  /\ UNCHANGED <<vault, snap, server, saves, loads, saveRetries>>

CloseCompose ==
  /\ ed.target # NoKey /\ Event
  /\ ed' = [ed EXCEPT !.target = NoKey, !.draft = Absent]
  /\ UNCHANGED <<vault, snap, server, saves, loads, gens, saveRetries>>

(* the text it replaces is the one the tab held when the draft was ordered *)
WriteCompose ==
  LET c == ed.target
      written == UpdateTab([ed EXCEPT !.pending[c] = ed.draft], c,
                           [ed.tab[c] EXCEPT !.draft = ed.draft, !.dirty = TRUE, !.work = "unsaved"])
      starts == ~(Open(ed, c) /\ ed.tab[c].status = "saving")
  IN
  /\ c # NoKey /\ ~ed.generating /\ ed.draft # Absent
  /\ snap' = IF ed.prev = Empty THEN snap ELSE [snap EXCEPT ![c] = ed.prev]
  /\ Commit([(IF starts /\ Open(ed, c) THEN StartSave(written, c) ELSE written)
               EXCEPT !.target = NoKey, !.draft = Absent])
  /\ saves' = IF starts THEN saves \cup {Put(c, ed.draft, FALSE)} ELSE saves
  /\ UNCHANGED <<vault, server, loads, gens, saveRetries, spent>>
-----------------------------------------------------------------------------
(* The page goes away: by a reload, which writes the pending drafts first  *)
(* (App's beforeunload), or by a crash, which does not.  Saves that have   *)
(* left may still land; nobody hears their answer.                         *)
LeavePage ==
  /\ Event
  /\ \/ vault' = [c \in Chapters |-> IF ed.pending[c] # Absent THEN ed.pending[c] ELSE vault[c]]
     \/ UNCHANGED vault
  /\ \E landed \in SUBSET saves :
       /\ \A s, t \in landed : s.c = t.c => s = t
       /\ server' = [c \in Chapters |-> IF \E s \in landed : s.c = c
                                          THEN (CHOOSE s \in landed : s.c = c).body ELSE server[c]]
  /\ ed' = NewPage /\ saves' = {} /\ loads' = {} /\ gens' = {} /\ saveRetries' = {}
  /\ UNCHANGED snap

EdNext ==
  \/ Type \/ SyncHtml \/ SaveNow \/ SelectNovel \/ ListAnswered \/ ListFails
  \/ Compose \/ CloseCompose \/ WriteCompose \/ LeavePage
  \/ \E k \in TabKeys : SwitchTab(k) \/ CloseByUser(k)
  \/ \E k \in Panels : OpenPanel(k)
  \/ \E c \in Chapters : WriteDraft(c) \/ AutoSave(c) \/ ClickChapter(c)
  \/ \E s \in saves : SaveAnswered(s) \/ SaveFails(s)
  \/ \E l \in loads : LoadAnswered(l) \/ LoadFails(l)
  \/ \E r \in saveRetries : RetrySave(r)
  \/ \E g \in gens : ComposeAnswered(g)

(* timers fire, and the server answers or the connection breaks            *)
EdFairness ==
  /\ WF_edVars(SyncHtml)
  /\ \A c \in Chapters : WF_edVars(AutoSave(c))
  /\ WF_edVars(\E s \in saves : SaveAnswered(s))
  /\ WF_edVars(\E r \in saveRetries : RetrySave(r))

EdSpec == EdInit /\ [][EdNext]_edVars /\ EdFairness
-----------------------------------------------------------------------------
(* "The draft is still in the local layer" (saveChapter): the very text    *)
(* that a tab holds unsaved is the one localStorage would give back, or    *)
(* is on its way there, through every order of saves, loads, closed tabs   *)
(* and AI drafts - until the answer to a save of an older text drops it    *)
(* (outrun), or a load, or an older draft, replaces it in the tab.         *)
Backup(e, c, drafts) == IF e.pending[c] # Absent THEN e.pending[c] ELSE drafts[c]

UnsavedIsBackedUp ==
  \A c \in Chapters : Open(ed, c) /\ ed.tab[c].work = "unsaved" =>
    Backup(ed, c, vault) = ed.tab[c].draft

(* What the tab shows is under way: a tab that says "saving" has a save    *)
(* under way, one that says "failed" has a timer that will retry it.       *)
StatusIsHonest ==
  \A c \in Chapters :
    /\ ed.tab[c].status = "saving" => \E s \in saves : s.c = c
    /\ ed.tab[c].status = "error"  => \E r \in saveRetries : r.c = c

(* Unsaved text that has its timer is saved: that very text, whatever      *)
(* fails, unless its tab is closed, its chapter could not be loaded, a     *)
(* load replaces it, or the answer to a save of an older text outruns it.  *)
UnsavedIsSaved ==
  \A c \in Chapters :
    (Open(ed, c) /\ ed.tab[c].work = "unsaved" /\ c \in ed.timers) ~>
      (~Open(ed, c) \/ ed.tab[c].work # "unsaved" \/ ed.tab[c].loadError)

(* "The window of a crash's loss is 15 s, with the browser's quick save as *)
(* backing" (SAVE_DEBOUNCE_MS): unsaved text whose timer has run out is in *)
(* localStorage, on its way there, or in a save under way.                 *)
LossWindowIsBacked ==
  \A c \in Chapters : Open(ed, c) /\ ed.tab[c].work \in {"unsaved", "outrun"} =>
    \/ c \in ed.timers
    \/ Backup(ed, c, vault) = ed.tab[c].draft
    \/ \E s \in saves : s.c = c /\ s.body = ed.tab[c].draft

=============================================================================
