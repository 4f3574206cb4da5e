----------------------------- MODULE Manuscript -----------------------------
(***************************************************************************)
(* HistoryService: rolling a chapter back to one of its versions, with the *)
(* text it replaces kept first; marking a version; and the daily sweep of  *)
(* the automatic ones.  NovelVersionService: a version of the whole novel, *)
(* its chapters and its outline read one after the other, and going back   *)
(* to one, conservatively or in full, in one transaction after a           *)
(* checkpoint.  Then the requests on one novel together, the failures of   *)
(* their queries, and the server's restart, which ends with the cleanup of *)
(* the chapters that no outline node binds; and what must be true of all   *)
(* of it.                                                                  *)
(***************************************************************************)
EXTENDS Outline

AskRollback(r) ==
  At(r, "idle") /\ \E v \in version :
    /\ Arrive(r, [Fresh EXCEPT !.kind = "rollback", !.pc = "load", !.c = v.chapter, !.pick = v])
    /\ UNCHANGED <<tables, panel, cache, faults>>

(* The version may have been pruned since the author saw it in the list.   *)
Target(r) ==
  /\ At(r, "target")
  /\ IF req[r].pick \in version THEN Goto(r, "checkpoint") ELSE Reply(r, "notfound")
  /\ UNCHANGED <<tables, panel, cache, faults>>

(* Mutant: the checkpoint is a version like any other.                     *)
CheckpointAuto(r) ==
  /\ At(r, "checkpoint")
  /\ AddVersion(req[r].c, req[r].seen.text, "auto")
  /\ Goto(r, "save")
  /\ UNCHANGED <<chapter, outline, panel, bin, bundle, cache, counted, faults>>

Checkpoint(r) ==
  /\ At(r, "checkpoint")
  /\ AddVersion(req[r].c, req[r].seen.text, "rollback")
  /\ Goto(r, "save")
  /\ UNCHANGED <<chapter, outline, panel, bin, bundle, cache, counted, faults>>

CreateSnapshot(r) ==
  /\ At(r, "mark")
  /\ AddVersion(req[r].c, req[r].seen.text, "milestone")
  /\ Reply(r, "ok")
  /\ UNCHANGED <<chapter, outline, panel, bin, bundle, cache, counted, faults>>

SweepExpiredVersions ==
  \E k \in 1..stamp :
    LET old == {v \in version : v.kind = "auto" /\ v.at <= k} IN
    /\ old # {} /\ version' = version \ old
    /\ UNCHANGED <<chapter, outline, panel, bin, stamp, bundle, cache, counted, req, faults>>

HistoryStep(r) == AskRollback(r) \/ Target(r) \/ Checkpoint(r) \/ CreateSnapshot(r)

-----------------------------------------------------------------------------
AskBundle(r) ==
  /\ Arrive(r, [Fresh EXCEPT !.kind = "bundle", !.pc = "bchapters"])
  /\ UNCHANGED <<tables, panel, cache, faults>>

AskRevert(r) ==
  At(r, "idle") /\ \E k \in Keys, full \in BOOLEAN :
    /\ bundle[k] # None
    /\ Arrive(r, [Fresh EXCEPT !.kind = "revert", !.pc = "bchapters", !.pick = k, !.full = full])
    /\ UNCHANGED <<tables, panel, cache, faults>>

BundleChapters(r) ==
  /\ At(r, "bchapters")
  /\ req' = [req EXCEPT ![r].pc = "boutline",
                        ![r].book = [c \in Chapters |-> IF c \in Live THEN chapter[c] ELSE NoRow]]
  /\ UNCHANGED <<tables, panel, cache, faults>>

BundleOutline(r) ==
  /\ At(r, "boutline")
  /\ bundle' = [bundle EXCEPT ![r] = [book |-> req[r].book, list |-> outline]]
  /\ IF req[r].kind = "bundle" THEN Reply(r, "ok") ELSE Goto(r, "current")
  /\ UNCHANGED <<chapter, outline, panel, bin, version, stamp, cache, counted, faults>>

(* The checkpoint is best effort.                                          *)
CheckpointFails(r) ==
  /\ req[r].kind = "revert" /\ req[r].pc \in {"bchapters", "boutline"} /\ Fault
  /\ Goto(r, "current")
  /\ UNCHANGED <<tables, panel, cache>>

ReadCurrent(r) ==
  /\ At(r, "current")
  /\ req' = [req EXCEPT ![r].pc = "revert",
                        ![r].book = [c \in Chapters |-> IF c \in Live THEN chapter[c] ELSE NoRow]]
  /\ UNCHANGED <<tables, panel, cache, faults>>

(* One chapter of the version after the other, on a book that is still ok. *)
(* A chapter that is there gets the version's text and keeps its position; *)
(* one that is not comes back where it was, or at the end.                 *)
Put(s, c, row) == [ok |-> s.ok /\ ~Taken(s.book, row.pos, c), book |-> [s.book EXCEPT ![c] = row]]

Recreated(s, row, c) ==
  IF s.book[c].row = "live" THEN [s EXCEPT !.ok = FALSE]
  ELSE Put(s, c, IF Taken(s.book, row.pos, c) THEN [row EXCEPT !.pos = MaxPos(s.book) + 1] ELSE row)

(* Mutant: the snapshot's position or nothing.                             *)
RecreatedInPlace(s, row, c) ==
  IF s.book[c].row = "live" THEN [s EXCEPT !.ok = FALSE] ELSE Put(s, c, row)

PutBack(then, now, full, s, c) ==
  IF c \in LiveIn(now)
    THEN Put(s, c, [now[c] EXCEPT !.text = then[c].text, !.title = then[c].title])
  ELSE IF full THEN Recreated(s, then[c], c) ELSE s

Restored(then, now, full) ==
  LET ids == ByPosition(then, LiveIn(then))
      run[n \in 0..Len(ids)] ==
        IF n = 0 THEN [ok |-> TRUE, book |-> chapter] ELSE PutBack(then, now, full, run[n - 1], ids[n])
      r == run[Len(ids)]
      extra == IF full THEN LiveIn(now) \ LiveIn(then) ELSE {} IN
  [r EXCEPT !.book = [c \in Chapters |->
     IF c \in extra /\ r.book[c].row = "live" THEN [r.book[c] EXCEPT !.row = "deleted"] ELSE r.book[c]]]

Restore(r) ==
  LET b == bundle[req[r].pick]
      s == Restored(b.book, req[r].book, req[r].full) IN
  /\ At(r, "revert")
  /\ \A c \in LiveIn(b.book) \cup LiveIn(req[r].book) : Unlocked(r, c)
  /\ IF s.ok THEN chapter' = s.book /\ outline' = b.list /\ counted' = "right" /\ Reply(r, "ok")
     ELSE Conflict(r) /\ UNCHANGED <<chapter, outline, counted>>
  /\ UNCHANGED <<panel, bin, version, stamp, bundle, cache, faults>>

NovelStep(r) ==
  \/ AskBundle(r) \/ AskRevert(r) \/ BundleChapters(r) \/ BundleOutline(r)
  \/ CheckpointFails(r) \/ ReadCurrent(r) \/ Restore(r)

-----------------------------------------------------------------------------
(* Steps after which the caller goes on, and those whose failure is only   *)
(* logged because what was asked for has been done.                        *)
Tolerated == {"fill", "latest", "keep", "boundary", "prune", "aload", "akeep", "bchapters", "boutline",
              "uncache", "answered"}
Logged    == {"count", "bindread", "bind", "syncread", "sync", "order"}

Fail(r) ==
  /\ r \in InFlight /\ Fault
  /\ req[r].pc \notin Tolerated \/ req[r].kind = "bundle"
  /\ Reply(r, IF req[r].pc \in Logged THEN "ok" ELSE "error")
  /\ counted' = IF At(r, "count") /\ counted = "behind" THEN "skipped" ELSE counted
  /\ UNCHANGED <<chapter, outline, panel, bin, version, stamp, bundle, cache>>

UncacheFails(r) ==
  /\ At(r, "uncache") /\ Fault
  /\ Goto(r, "count")
  /\ UNCHANGED <<tables, panel, cache>>

-----------------------------------------------------------------------------
(* MigrateCleanupOrphanChapters, before the server listens.                *)

Rebind(o, c) == IF Referenced(o, c) THEN o ELSE BoundByTitle(o, chapter[c].title, c)

Rebound(o, C) ==
  LET ids == ByPosition(chapter, C)
      run[n \in 0..Len(ids)] == IF n = 0 THEN o ELSE Rebind(run[n - 1], ids[n]) IN
  run[Len(ids)]

(* Chapters with text are bound first; texts have no length here by which  *)
(* the code would order those.                                             *)
Repaired(o) ==
  LET written == {c \in Live : chapter[c].text # Empty} IN
  Rebound(Rebound(Sanitized(o, chapter), written), Live \ written)

(* Mutant: the outline as it is in the database decides.                   *)
OrphansBefore(o) == {c \in Live : ~Referenced(outline, c)}

Orphans(o) == {c \in Live : ~Referenced(o, c)}

Resynced(o, b) ==
  LET ids == InOutlineOrder(o, b) IN
  IF ids = ByPosition(b, LiveIn(b)) THEN b ELSE ReorderByIDs(b, ids).book

(* A novel without chapters is passed over.  A cache that dies with the    *)
(* process is one whose entries expire at once.                            *)
Restart ==
  /\ Fault
  /\ \E o \in {IF Live = {} THEN outline ELSE Repaired(outline)} :
       LET gone == Orphans(o)
           b    == [c \in Chapters |-> IF c \in gone THEN [chapter[c] EXCEPT !.row = "deleted"]
                                       ELSE chapter[c]] IN
       /\ outline' = o
       /\ chapter' = Resynced(o, b)
       /\ counted' = IF gone # {} THEN "right" ELSE IF counted = "behind" THEN "skipped" ELSE counted
  /\ req' = [r \in Requests |-> IF r \in InFlight THEN Answered(req[r], "lost") ELSE req[r]]
  /\ UNCHANGED <<panel, bin, version, stamp, bundle, cache>>

-----------------------------------------------------------------------------
Step(r) == ChapterStep(r) \/ HistoryStep(r) \/ OutlineStep(r) \/ NovelStep(r)
Quiet   == Requests = {r \in Requests : At(r, "done")} /\ UNCHANGED vars

Next ==
  \/ \E r \in Requests : Step(r) \/ Fail(r) \/ UncacheFails(r)
  \/ SweepExpiredVersions \/ CacheExpires \/ LoadOutline \/ Restart
  \/ Quiet

Spec == Init /\ [][Next]_vars

-----------------------------------------------------------------------------
(* A request that no other overlaps is never answered with a violation of  *)
(* the index on live positions: shifting, reordering, restoring, reviving  *)
(* keep the positions apart at every statement (chapter_repo.go:145-223).  *)
AloneNeverConflicts == \A r \in Requests : req[r].reply # "own conflict"

(* What a rollback overwrites, the author finds again among the versions,  *)
(* unless somebody wrote it after the rollback had looked, whatever pruning *)
(* and sweeping went on meanwhile (history_service.go:241-243).            *)
RollbackIsReversible ==
  [][\A r \in Requests :
       (req[r].kind = "rollback" /\ At(r, "save") /\ req'[r].pc = "uncache") =>
         LET t == chapter[req[r].c].text IN
           t # req[r].seen.text \/ \E v \in version : v.chapter = req[r].c /\ v.text = t]_vars

(* The novel's word count differs from its chapters' only while a writer   *)
(* that will refresh it is at work, or when a write that never refreshes   *)
(* it, or a failed refresh, came last.                                     *)
CountCatchesUp == counted = "behind" => \E r \in InFlight : req[r].pc \in {"uncache", "count"}

(* An outline save of the panel that nothing overlaps ends with every      *)
(* binding to a live chapter, one node per chapter, and the chapters in    *)
(* the order of their nodes (novel_doc_service.go:699-703).                *)
OutlineOrders ==
  [][\A r \in Requests :
       (At(r, "order") /\ req'[r].pc = "done" /\ req[r].alone /\ faults' = faults) =>
         LET at(c) == chapter'[c].pos IN
         /\ \A i, j \in DOMAIN outline' :
              LET c == outline'[i].chapter
                  d == outline'[j].chapter IN
              c # None => /\ c \in LiveIn(chapter')
                          /\ (i < j /\ d # None) => at(c) < at(d)
         /\ \A c, d \in LiveIn(chapter') :
              Referenced(outline', c) /\ ~Referenced(outline', d) => at(c) < at(d)]_vars

(* The cleanup at startup deletes no chapter that a node bound before it   *)
(* or binds after it (novel_doc_service.go:360-376).                       *)
CleanupSparesBound ==
  [][Restart => \A c \in Live :
       Referenced(outline, c) \/ Referenced(outline', c) => c \in LiveIn(chapter')]_vars
=============================================================================
