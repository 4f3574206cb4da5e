------------------------------ MODULE Milestones ------------------------------
(***************************************************************************)
(* Versions of a whole novel as its panel sees them: the list, a milestone *)
(* by hand, going back to one and pouring what the server then has into    *)
(* the open tabs (NovelVersionPanel, novel-version-store,                  *)
(* novel-version-client; the server is module History).  Two novels,       *)
(* one open chapter of the first; a text is a number, a version the text   *)
(* it holds.                                                               *)
(***************************************************************************)
EXTENDS Naturals, Sequences

CONSTANT MaxEvents   \* bound: what the user does and what fails

VARIABLES mile, mileServer, mileCalls

mileVars == <<mile, mileServer, mileCalls>>

Novels == 1..2
NoVersion == 0
Versions == 1..(MaxEvents + 2)

(* A milestone of each novel; the chapter was written on since.            *)
Init ==
  /\ mile = [open |-> FALSE, current |-> 1, of |-> 0, versions |-> {}, loading |-> FALSE, restoring |-> FALSE,
             snapshotting |-> FALSE, error |-> FALSE, confirm |-> NoVersion, text |-> 3, dirty |-> FALSE,
             fresh |-> 3, asked |-> 0, left |-> MaxEvents]
  /\ mileServer = [draft |-> 3, versions |-> <<[novel |-> 1, text |-> 1], [novel |-> 2, text |-> 2]>>]
  /\ mileCalls = {}

User == mile.left > 0
Acted(m) == [m EXCEPT !.left = @ - 1]
Of(n) == {v \in DOMAIN mileServer.versions : mileServer.versions[v].novel = n}

(* When it was asked for: the text in the tab, whether the server had it,  *)
(* and what had been typed by then.                                        *)
Call(m, kind, for, n, v) ==
  [kind |-> kind, for |-> for, id |-> m.asked + 1, novel |-> n, version |-> v, was |-> m.text,
   saved |-> m.text = mileServer.draft, typed |-> m.fresh, read |-> FALSE, list |-> {}, text |-> 0]
Asks(m, others, kind, for, n, v) ==
  mile' = [m EXCEPT !.asked = @ + 1] /\ mileCalls' = others \cup {Call(m, kind, for, n, v)}
Others(k) == mileCalls \ {k}
(* the next request of the same handler                                    *)
GoesOn(m, k, kind) ==
  /\ mile' = [m EXCEPT !.asked = @ + 1]
  /\ mileCalls' = Others(k) \cup
       {[Call(m, kind, k.for, k.novel, k.version) EXCEPT !.was = k.was, !.saved = k.saved, !.typed = k.typed]}
-----------------------------------------------------------------------------
(* The panel opens, closes, or the novel changes under it                  *)
Loading(m) == [m EXCEPT !.loading = TRUE, !.error = FALSE]
OpenPanel ==
  /\ User /\ ~mile.open
  /\ Asks(Loading(Acted([mile EXCEPT !.open = TRUE])), mileCalls, "list", "panel", mile.current, NoVersion)
  /\ UNCHANGED mileServer

ClosePanel ==
  /\ mile.open
  /\ mile' = [mile EXCEPT !.open = FALSE, !.confirm = NoVersion, !.of = 0, !.versions = {}, !.loading = FALSE,
                          !.restoring = FALSE, !.snapshotting = FALSE, !.error = FALSE]
  /\ UNCHANGED <<mileServer, mileCalls>>

SelectNovel(n) ==
  /\ User /\ n # mile.current
  /\ LET m == Acted([mile EXCEPT !.current = n])
     IN IF mile.open THEN Asks(Loading(m), mileCalls, "list", "panel", n, NoVersion)
        ELSE mile' = m /\ UNCHANGED mileCalls
  /\ UNCHANGED mileServer

ServerLists(k) ==
  /\ k.kind = "list" /\ ~k.read
  /\ mileCalls' = Others(k) \cup {[k EXCEPT !.read = TRUE, !.list = Of(k.novel)]} /\ UNCHANGED <<mile, mileServer>>

(* load ends, well or not: a snapshot is done, a restore refreshes the tabs *)
AfterList(m, k) ==
  CASE k.for = "panel" -> mile' = m /\ mileCalls' = Others(k)
    [] k.for = "snapshot" -> mile' = [m EXCEPT !.snapshotting = FALSE] /\ mileCalls' = Others(k)
    [] k.for = "restore" -> GoesOn([m EXCEPT !.restoring = FALSE, !.confirm = NoVersion], k, "chapters")
Listed(k) ==
  /\ k.kind = "list" /\ k.read
  /\ AfterList([mile EXCEPT !.of = k.novel, !.versions = k.list, !.loading = FALSE], k) /\ UNCHANGED mileServer

ListFails(k) ==
  /\ k.kind = "list" /\ User
  /\ AfterList(Acted([mile EXCEPT !.loading = FALSE, !.error = TRUE]), k) /\ UNCHANGED mileServer
-----------------------------------------------------------------------------
(* The editor behind the panel                                             *)
Type ==
  /\ User /\ mile' = Acted([mile EXCEPT !.text = mile.fresh + 1, !.fresh = @ + 1, !.dirty = TRUE])
  /\ UNCHANGED <<mileServer, mileCalls>>

Save ==
  /\ mile.dirty /\ mile' = [mile EXCEPT !.dirty = FALSE] /\ mileServer' = [mileServer EXCEPT !.draft = mile.text]
  /\ UNCHANGED mileCalls
-----------------------------------------------------------------------------
(* snapshot: the client turns a failure into "nothing", and nobody is told *)
Snapshot ==
  /\ User /\ mile.open /\ ~mile.snapshotting
  /\ Asks(Acted([mile EXCEPT !.snapshotting = TRUE, !.error = FALSE]), mileCalls, "snapshot", "snapshot", mile.current,
          NoVersion)
  /\ UNCHANGED mileServer

Kept(n) == [novel |-> n, text |-> IF n = 1 THEN mileServer.draft ELSE 2]
ServerKeeps(k) ==
  /\ k.kind = "snapshot" /\ ~k.read
  /\ mileServer' = [mileServer EXCEPT !.versions = Append(@, Kept(k.novel))]
  /\ mileCalls' = Others(k) \cup {[k EXCEPT !.read = TRUE]} /\ UNCHANGED mile

Snapshotted(k) ==
  /\ k.kind = "snapshot" /\ k.read
  /\ GoesOn(Loading(mile), k, "list") /\ UNCHANGED mileServer

SnapshotFails(k) ==
  /\ k.kind = "snapshot" /\ User
  /\ mile' = Acted([mile EXCEPT !.snapshotting = FALSE]) /\ mileCalls' = Others(k) /\ UNCHANGED mileServer
-----------------------------------------------------------------------------
(* handleRestore: the version confirmed, of the novel current now          *)
Choose(v) ==
  /\ User /\ mile.open /\ ~mile.restoring /\ v \in mile.versions /\ v # mile.confirm
  /\ mile' = Acted([mile EXCEPT !.confirm = v]) /\ UNCHANGED <<mileServer, mileCalls>>

CancelChoice ==
  /\ mile.confirm # NoVersion /\ mile' = [mile EXCEPT !.confirm = NoVersion] /\ UNCHANGED <<mileServer, mileCalls>>

Restore ==
  /\ User /\ mile.open /\ ~mile.restoring /\ mile.confirm \in mile.versions
  /\ Asks(Acted([mile EXCEPT !.restoring = TRUE, !.error = FALSE]), mileCalls, "restore", "restore", mile.current,
          mile.confirm)
  /\ UNCHANGED mileServer

(* a checkpoint first; a version of another novel is not found             *)
ServerRestores(k) ==
  /\ k.kind = "restore" /\ ~k.read /\ k.version \in Of(k.novel)
  /\ mileServer' = [draft |-> IF k.novel = 1 THEN mileServer.versions[k.version].text ELSE mileServer.draft,
                    versions |-> Append(mileServer.versions, Kept(k.novel))]
  /\ mileCalls' = Others(k) \cup {[k EXCEPT !.read = TRUE]} /\ UNCHANGED mile

Restored(k) ==
  /\ k.kind = "restore" /\ k.read
  /\ GoesOn(Loading(mile), k, "list") /\ UNCHANGED mileServer

RestoreFails(k) ==
  /\ k.kind = "restore" /\ (User \/ k.version \notin Of(k.novel))
  /\ mile' = [mile EXCEPT !.restoring = FALSE, !.error = TRUE, !.confirm = NoVersion, !.left = IF User THEN @ - 1 ELSE @]
  /\ mileCalls' = Others(k) /\ UNCHANGED mileServer
-----------------------------------------------------------------------------
(* refreshWholeNovel: the chapters, then the text of every open tab of the *)
(* novel, over whatever is in it.  It goes on although the panel is closed *)
ChaptersAnswered(k) ==
  /\ k.kind = "chapters"
  /\ IF k.novel = 1 THEN GoesOn(mile, k, "content") ELSE mile' = mile /\ mileCalls' = Others(k)
  /\ UNCHANGED mileServer

ServerReads(k) ==
  /\ k.kind = "content" /\ ~k.read
  /\ mileCalls' = Others(k) \cup {[k EXCEPT !.read = TRUE, !.text = mileServer.draft]} /\ UNCHANGED <<mile, mileServer>>

Refreshed(k) ==
  /\ k.kind = "content" /\ k.read
  /\ mile' = [mile EXCEPT !.text = k.text, !.dirty = FALSE] /\ mileCalls' = Others(k) /\ UNCHANGED mileServer

RefreshFails(k) ==
  /\ k.kind = "content" /\ User /\ mile' = Acted(mile) /\ mileCalls' = Others(k) /\ UNCHANGED mileServer

Next ==
  \/ OpenPanel \/ ClosePanel \/ Type \/ Save \/ Snapshot \/ CancelChoice \/ Restore
  \/ \E n \in Novels : SelectNovel(n)
  \/ \E v \in Versions : Choose(v)
  \/ \E k \in mileCalls :
       \/ ServerLists(k) \/ Listed(k) \/ ListFails(k) \/ ServerKeeps(k) \/ Snapshotted(k) \/ SnapshotFails(k)
       \/ ServerRestores(k) \/ Restored(k) \/ RestoreFails(k) \/ ChaptersAnswered(k) \/ ServerReads(k)
       \/ Refreshed(k) \/ RefreshFails(k)

Spec == Init /\ [][Next]_mileVars
-----------------------------------------------------------------------------
(* "Loading", "restoring" and "snapshotting" are said only while a request *)
(* is out that will take them back (novel-version-store).                  *)
MilestoneBusyIsHonest ==
  /\ mile.loading => \E k \in mileCalls : k.kind = "list"
  /\ mile.restoring => \E k \in mileCalls : k.for = "restore" /\ k.kind \in {"restore", "list"}
  /\ mile.snapshotting => \E k \in mileCalls : k.for = "snapshot"

(* What the refresh after a restore takes out of the tab                   *)
Loses(k) ==
  k.kind = "content" /\ k \notin mileCalls' /\ mile'.text # mile.text /\ mile.text # mileServer.draft
Recoverable == \E v \in DOMAIN mileServer.versions : mileServer.versions[v].text = mile.text

(* A text that the server had when the restore was asked for, and that was *)
(* not written on since, is in a version: the restore can be undone        *)
(* (novel-version-client:85).  It is not enough that the tab was clean:    *)
(* the refresh after an earlier restore may have put an old text in it.    *)
RestoreIsUndoable ==
  [][\A k \in mileCalls :
       Loses(k) /\ k.saved /\ k.was = mile.text /\ k.typed = mile.fresh => Recoverable]_mileVars

=============================================================================
