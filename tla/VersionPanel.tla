----------------------------- MODULE VersionPanel -----------------------------
(***************************************************************************)
(* The versions of a chapter: the draft in its tab, the published copy on  *)
(* the server and the snapshots the browser keeps, one automatic and two   *)
(* by hand (HistoryPanel, VersionCompare, temp-branch, history-client).    *)
(* A text is a number, the empty one is Blank.  Saving is one step here    *)
(* (module Editor has its own races); layout and word counts are left out. *)
(***************************************************************************)
EXTENDS Naturals, Sequences, SequencesExt

CONSTANT MaxEvents   \* bound: what the user does and what fails

VARIABLES hist, histKept, histServer, histCalls

histVars == <<hist, histKept, histServer, histCalls>>

Chapters == 1..2
Blank == 0
ManualSlots == 2
NoSnapshot == [id |-> 0, text |-> Blank]
EmptyWorkspace == [auto |-> NoSnapshot, manual |-> <<>>]

(* Both chapters saved; the first one published as text 3, and stashed once *)
Init ==
  /\ hist = [open |-> FALSE, active |-> 1, text |-> [c \in Chapters |-> c], dirty |-> [c \in Chapters |-> FALSE],
             summary |-> 0, shown |-> EmptyWorkspace, loading |-> FALSE, working |-> FALSE, compare |-> FALSE,
             snap |-> NoSnapshot, pick |-> Blank, lost |-> {}, fresh |-> 4, asked |-> 0, left |-> MaxEvents]
  /\ histKept = [c \in Chapters |-> IF c = 1 THEN [EmptyWorkspace EXCEPT !.manual = <<[id |-> 4, text |-> 4]>>]
                               ELSE EmptyWorkspace]
  /\ histServer = [draft |-> [c \in Chapters |-> c], published |-> [c \in Chapters |-> IF c = 1 THEN 3 ELSE Blank]]
  /\ histCalls = {}

User == hist.left > 0
Acted(m) == [m EXCEPT !.left = @ - 1]
Published(c) == histServer.published[c] # Blank
-----------------------------------------------------------------------------
(* What the browser keeps (temp-branch): save gives up in silence when the *)
(* storage is full, and lost remembers that it did.                        *)
Snapshot(m, text) == [id |-> m.fresh + 1, text |-> text]
PutAuto(ws, m, text) == IF text = Blank THEN ws ELSE [ws EXCEPT !.auto = Snapshot(m, text)]
PutManual(ws, m, text) == [ws EXCEPT !.manual = <<Snapshot(m, text)>> \o @]
ReplaceManual(ws, m, i, text) ==
  [ws EXCEPT !.manual = IF i \in DOMAIN @ THEN [@ EXCEPT ![i] = Snapshot(m, text)] ELSE Append(@, Snapshot(m, text))]
RemoveManual(ws, id) ==
  LET places == {i \in DOMAIN ws.manual : ws.manual[i].id = id}  \* one at most: an id is one snapshot's
  IN IF places = {} THEN ws ELSE [ws EXCEPT !.manual = RemoveAt(@, CHOOSE i \in places : TRUE)]

(* ws is what chapter c should keep from now on, m the page otherwise      *)
Saves(m, c, ws) ==
  \/ histKept' = [histKept EXCEPT ![c] = ws] /\ hist' = [m EXCEPT !.fresh = @ + 1]
  \/ User /\ ws # histKept[c] /\ histKept' = histKept /\ hist' = Acted([m EXCEPT !.lost = @ \cup {c}])
-----------------------------------------------------------------------------
(* was is the text of the tab when the request was made                    *)
Request(m, kind, purpose, c, snap) ==
  [kind |-> kind, purpose |-> purpose, id |-> m.asked + 1, chapter |-> c, snap |-> snap, was |-> m.text[c],
   read |-> FALSE, text |-> Blank]
Ask(m, kind, purpose, c, snap) ==
  /\ hist' = [m EXCEPT !.asked = @ + 1] /\ histCalls' = histCalls \cup {Request(m, kind, purpose, c, snap)}
Others(k) == histCalls \ {k}

(* reload: nothing stops the answer for a chapter left meanwhile           *)
Reload(m, k) ==
  /\ hist' = [m EXCEPT !.asked = @ + 1, !.loading = TRUE]
  /\ histCalls' = Others(k) \cup {Request(m, "summary", "reload", m.active, NoSnapshot)}
NoCall == Request(hist, "none", "none", 1, NoSnapshot)

OpenPanel ==
  /\ User /\ ~hist.open
  /\ Reload(Acted([hist EXCEPT !.open = TRUE]), NoCall) /\ UNCHANGED <<histKept, histServer>>

ClosePanel ==
  /\ hist.open
  /\ hist' = [hist EXCEPT !.open = FALSE, !.summary = 0, !.compare = FALSE, !.snap = NoSnapshot, !.pick = Blank]
  /\ UNCHANGED <<histKept, histServer, histCalls>>

(* another tab, by the user or by the late answer of a chapter's loading   *)
Activate(c) ==
  /\ User /\ c # hist.active
  /\ LET m == Acted([hist EXCEPT !.active = c])
     IN IF hist.open THEN Reload(m, NoCall) ELSE hist' = m /\ UNCHANGED histCalls
  /\ UNCHANGED <<histKept, histServer>>

SummaryAnswered(k) ==
  /\ k.kind = "summary"
  /\ hist' = [hist EXCEPT !.summary = k.chapter, !.shown = histKept[k.chapter], !.loading = FALSE,
                          !.working = @ /\ k.purpose # "rollback"]
  /\ histCalls' = Others(k) /\ UNCHANGED <<histKept, histServer>>
-----------------------------------------------------------------------------
(* The editor behind the panel                                             *)
Type(text) ==
  /\ User /\ text \in {Blank, hist.fresh + 1} \ {hist.text[hist.active]}
  /\ hist' = Acted([hist EXCEPT !.text[hist.active] = text, !.dirty[hist.active] = TRUE, !.fresh = @ + 1])
  /\ UNCHANGED <<histKept, histServer, histCalls>>

(* a save that crosses a rollback may undo it on the server, and a restore *)
(* that crosses one takes the slot the rollback has filled: lost           *)
Changing(c) == {k \in histCalls : k.chapter = c /\ k.purpose \in {"restore", "rollback", "compare"}}
Crossing(m, c, ks) == [m EXCEPT !.lost = IF ks # {} THEN @ \cup {c} ELSE @]
Save(c) ==
  /\ hist.dirty[c]
  /\ histServer' = [histServer EXCEPT !.draft[c] = hist.text[c]]
  /\ hist' = Crossing([hist EXCEPT !.dirty[c] = FALSE], c, Changing(c))
  /\ UNCHANGED <<histKept, histCalls>>

(* currentDraft: an unsaved draft is at hand, else the server is asked     *)
AtHand(c) == hist.dirty[c] /\ hist.text[c] # Blank
Applied(m, c, text, dirty) == [m EXCEPT !.text[c] = text, !.dirty[c] = dirty]
-----------------------------------------------------------------------------
(* handleStash, confirmReplace: the replacement goes to the chapter active *)
(* when it is confirmed                                                    *)
Stashed(m, c, text) ==
  IF text = Blank THEN hist' = m /\ UNCHANGED histKept
  ELSE IF Len(histKept[c].manual) >= ManualSlots
       THEN hist' = [m EXCEPT !.pick = text] /\ UNCHANGED histKept
       ELSE LET ws == PutManual(histKept[c], m, text) IN Saves([m EXCEPT !.shown = ws], c, ws)

Offered == hist.open /\ hist.summary # 0 /\ User
Stash ==
  /\ Offered /\ ~hist.working
  /\ IF AtHand(hist.active)
     THEN Stashed(Acted(hist), hist.active, hist.text[hist.active]) /\ UNCHANGED histCalls
     ELSE Ask(Acted(hist), "current", "stash", hist.active, NoSnapshot) /\ UNCHANGED histKept
  /\ UNCHANGED histServer

ConfirmReplace(i) ==
  /\ hist.open /\ hist.pick # Blank /\ i \in DOMAIN hist.shown.manual
  /\ LET ws == ReplaceManual(histKept[hist.active], hist, i, hist.pick)
     IN Saves([hist EXCEPT !.pick = Blank, !.shown = ws], hist.active, ws)
  /\ UNCHANGED <<histServer, histCalls>>

CancelReplace ==
  /\ hist.pick # Blank
  /\ hist' = [hist EXCEPT !.pick = Blank] /\ UNCHANGED <<histKept, histServer, histCalls>>

RemoveSnapshot(i) ==
  /\ Offered /\ i \in DOMAIN hist.shown.manual
  /\ LET ws == RemoveManual(histKept[hist.active], hist.shown.manual[i].id)
     IN /\ histKept' = [histKept EXCEPT ![hist.active] = ws] /\ hist' = Acted([hist EXCEPT !.shown = ws])
  /\ UNCHANGED <<histServer, histCalls>>
-----------------------------------------------------------------------------
(* handleRestoreSnapshot: from a row, or from the comparison of a snapshot *)
Shown == {s \in {hist.shown.auto} \cup ToSet(hist.shown.manual) : s # NoSnapshot}

(* mutant: the text that is replaced is not put into the automatic slot    *)
RestoredOver(m, c, snap, current) ==
  Saves([Applied(m, c, snap.text, TRUE) EXCEPT !.shown = histKept[c], !.snap = NoSnapshot, !.working = FALSE],
        c, histKept[c])

Restored(m, c, snap, current) ==
  LET ws == IF current = snap.text THEN histKept[c] ELSE PutAuto(histKept[c], m, current)
  IN Saves([Applied(m, c, snap.text, TRUE) EXCEPT !.shown = ws, !.snap = NoSnapshot, !.working = FALSE], c, ws)

RestoreSnapshot(snap) ==
  /\ \/ Offered /\ ~hist.working /\ snap \in Shown
     \/ User /\ hist.snap # NoSnapshot /\ snap = hist.snap
  /\ IF AtHand(hist.active)
     THEN /\ Restored(Crossing(Acted(hist), hist.active, Changing(hist.active)), hist.active, snap, hist.text[hist.active])
          /\ UNCHANGED histCalls
     ELSE Ask(Acted([hist EXCEPT !.working = TRUE]), "current", "restore", hist.active, snap) /\ UNCHANGED histKept
  /\ UNCHANGED histServer

CompareSnapshot(snap) ==
  /\ Offered /\ snap \in Shown /\ hist.snap = NoSnapshot
  /\ hist' = Acted([hist EXCEPT !.snap = snap]) /\ UNCHANGED <<histKept, histServer, histCalls>>

(* handleRollback, and handleRestore of the comparison with what is        *)
(* published: that one always asks the server for the text it will keep    *)
Checkout(m, k, c) ==
  histCalls' = Others(k) \cup {[Request(m, "checkout", k.purpose, c, NoSnapshot) EXCEPT !.was = k.was]}
Rollback ==
  /\ Offered /\ ~hist.working /\ Published(hist.summary)
  /\ LET c == hist.active
         m == Acted([hist EXCEPT !.working = TRUE, !.asked = @ + 1])
     IN IF AtHand(c)
        THEN /\ Saves(m, c, PutAuto(histKept[c], m, hist.text[c]))
             /\ Checkout(hist, Request(hist, "current", "rollback", c, NoSnapshot), c)
        ELSE hist' = m /\ histCalls' = histCalls \cup {Request(hist, "current", "rollback", c, NoSnapshot)}
             /\ UNCHANGED histKept
  /\ UNCHANGED histServer

OpenCompare ==
  /\ Offered /\ Published(hist.summary) /\ ~hist.compare
  /\ hist' = Acted([hist EXCEPT !.compare = TRUE]) /\ UNCHANGED <<histKept, histServer, histCalls>>

CompareRollback ==
  /\ User /\ hist.compare
  /\ Ask(Acted(hist), "current", "compare", hist.active, NoSnapshot) /\ UNCHANGED <<histKept, histServer>>
-----------------------------------------------------------------------------
(* The server, and what its answers do                                     *)
ServerReads(k) ==
  /\ k.kind \in {"current", "refresh"} /\ ~k.read
  /\ histCalls' = Others(k) \cup {[k EXCEPT !.read = TRUE, !.text = histServer.draft[k.chapter]]}
  /\ UNCHANGED <<hist, histKept, histServer>>

ServerChecksOut(k) ==
  /\ k.kind = "checkout" /\ ~k.read /\ Published(k.chapter)
  /\ LET text == histServer.published[k.chapter]
     IN /\ histServer' = [histServer EXCEPT !.draft[k.chapter] = text]
        /\ histCalls' = Others(k) \cup {[k EXCEPT !.read = TRUE, !.text = text]}
  /\ UNCHANGED <<hist, histKept>>

CurrentAnswered(k) ==
  /\ k.kind = "current" /\ k.read
  /\ \/ k.purpose = "stash" /\ Stashed(hist, k.chapter, k.text) /\ histCalls' = Others(k)
     \/ /\ k.purpose = "restore" /\ histCalls' = Others(k)
        /\ Restored(Crossing(hist, k.chapter, Changing(k.chapter) \ {k}), k.chapter, k.snap, k.text)
     \/ /\ k.purpose \in {"rollback", "compare"}
        /\ LET m == [hist EXCEPT !.asked = @ + 1] IN Saves(m, k.chapter, PutAuto(histKept[k.chapter], m, k.text))
        /\ Checkout(hist, k, k.chapter)
  /\ UNCHANGED histServer

(* the panel pours the answer into the tab, the comparison asks once more  *)
CheckedOut(k) ==
  /\ k.kind = "checkout" /\ k.read
  /\ LET m == IF k.purpose = "rollback" THEN Applied(hist, k.chapter, k.text, FALSE) ELSE hist
     IN /\ hist' = [m EXCEPT !.asked = @ + 1, !.loading = @ \/ k.purpose = "rollback"]
        /\ histCalls' = Others(k) \cup {[Request(m, IF k.purpose = "rollback" THEN "summary" ELSE "refresh",
                                                 k.purpose, k.chapter, NoSnapshot) EXCEPT !.was = k.was]}
  /\ UNCHANGED <<histKept, histServer>>

Refreshed(k) ==
  /\ k.kind = "refresh" /\ k.read
  /\ Reload([Applied(hist, k.chapter, k.text, FALSE) EXCEPT !.compare = FALSE], k)
  /\ UNCHANGED <<histKept, histServer>>

(* a request fails or its answer is lost                                   *)
Fails(k) ==
  /\ User
  /\ hist' = Acted([hist EXCEPT !.loading = @ /\ k.kind # "summary",
                                !.working = @ /\ k.purpose \notin {"restore", "rollback"},
                                !.lost = IF k.kind \in {"checkout", "refresh"} THEN @ \cup {k.chapter} ELSE @])
  /\ histCalls' = Others(k) /\ UNCHANGED <<histKept, histServer>>

Next ==
  \/ OpenPanel \/ ClosePanel \/ Stash \/ CancelReplace \/ Rollback \/ OpenCompare \/ CompareRollback
  \/ \E c \in Chapters : Activate(c) \/ Save(c)
  \/ \E t \in {Blank, hist.fresh + 1} : Type(t)
  \/ \E i \in 1..ManualSlots : ConfirmReplace(i) \/ RemoveSnapshot(i)
  \/ \E s \in Shown \cup {hist.snap} : RestoreSnapshot(s) \/ CompareSnapshot(s)
  \/ \E k \in histCalls :
       \/ SummaryAnswered(k) \/ ServerReads(k) \/ ServerChecksOut(k) \/ CurrentAnswered(k) \/ CheckedOut(k)
       \/ Refreshed(k) \/ Fails(k)

Spec == Init /\ [][Next]_histVars
-----------------------------------------------------------------------------
(* "Loading" and "working" are said only while a request is out that will  *)
(* take them back (HistoryPanel:102, the finally of every handler).        *)
VersionBusyIsHonest ==
  /\ hist.loading => \E k \in histCalls : k.kind = "summary"
  /\ hist.working => \E k \in histCalls : k.purpose \in {"restore", "rollback"}

(* The text of c is replaced by the panel or by the comparison, for the    *)
(* only such request about c, and nobody typed in it since it was made.    *)
Replaces(c) ==
  /\ hist'.text[c] # hist.text[c] /\ c \notin hist'.lost /\ hist.text[c] # Blank
  /\ \/ \E k \in Changing(c) : k \notin histCalls'
     \/ Changing(c) = {} /\ histKept' # histKept
  /\ \A k \in Changing(c) : k.was = hist.text[c] /\ Changing(c) = {k}

(* What a rollback of the panel or a snapshot takes the place of is in the *)
(* automatic slot and can be brought back (HistoryPanel:193,218) - unless  *)
(* it was typed while the answer was out, which the code does not keep, or *)
(* the storage was full, an answer of the server was lost, or a save or    *)
(* another restore crossed.  A rollback from the comparison is left out:   *)
(* see RollbackKeepsTheDraft.                                              *)
UndoIsKept ==
  [][\A c \in Chapters :
       Replaces(c) /\ (\A k \in Changing(c) : k.purpose # "compare") => histKept'[c].auto.text = hist.text[c]]_histVars

(* Every rollback puts the current draft aside first and can be undone:    *)
(* what VersionCompare:92 and the toast of line 99 say of the comparison's *)
(* ("回滚 = 先暂存当前草稿（临时分支，可撤销）").  It keeps what the       *)
(* server has, not the unsaved text of the tab: violated.                  *)
RollbackKeepsTheDraft ==
  [][\A c \in Chapters : Replaces(c) => histKept'[c].auto.text = hist.text[c]]_histVars

=============================================================================
