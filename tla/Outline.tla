------------------------------ MODULE Outline -------------------------------
(***************************************************************************)
(* NovelDocService's outline and the bin.  The outline is one document,    *)
(* replaced whole by whoever writes it, so every change of it is a read    *)
(* and a write; the web panel edits a copy it read some time ago.  Its     *)
(* acts are one list of nodes here, and a node is known by its title.      *)
(***************************************************************************)
EXTENDS Chapters

Referenced(o, c) == \E i \in DOMAIN o : o[i].chapter = c

(* bindChaptersToOutline for one chapter: the first node without a chapter *)
(* that has its title, else a new node at the end.                         *)
FirstPlanned(o, n) == {i \in DOMAIN o : /\ o[i].chapter = None /\ o[i].title = n
                         /\ \A j \in 1..(i - 1) : o[j].chapter # None \/ o[j].title # n}
BoundByTitle(o, n, c) == [i \in DOMAIN o |-> IF i \in FirstPlanned(o, n) THEN Node(n, c) ELSE o[i]]
BoundIn(o, n, c) == IF Referenced(o, c) THEN o
                    ELSE IF FirstPlanned(o, n) # {} THEN BoundByTitle(o, n, c)
                    ELSE Append(o, Node(n, c))

BindRead(r) ==
  /\ At(r, "bindread")
  /\ req' = [req EXCEPT ![r].pc = "bind", ![r].list = outline]
  /\ UNCHANGED <<tables, panel, cache, faults>>

BindChapterToOutline(r) ==
  LET o == BoundIn(req[r].list, req[r].seen.title, req[r].c) IN
  /\ At(r, "bind")
  /\ outline' = IF o = req[r].list THEN outline ELSE o
  /\ Reply(r, "ok")
  /\ UNCHANGED <<chapter, panel, bin, version, stamp, bundle, cache, counted, faults>>

-----------------------------------------------------------------------------
(* The panel: an edit changes its copy at once and is sent without a       *)
(* version.  The answer to "write the body" binds the node in the copy.    *)

Swapped(o, i) == [j \in DOMAIN o |-> CASE j = i -> o[i + 1] [] j = i + 1 -> o[i] [] OTHER -> o[j]]
Edits(o) == {Swapped(o, i) : i \in 1..(Len(o) - 1)} \cup {RemoveAt(o, i) : i \in DOMAIN o}

AskPut(r) ==
  At(r, "idle") /\ \E o \in Edits(panel) :
    /\ Arrive(r, [Fresh EXCEPT !.kind = "put", !.pc = "upsert", !.list = o])
    /\ panel' = o
    /\ UNCHANGED <<tables, cache, faults>>

HandleOpenBody(r) ==
  /\ At(r, "answered")
  /\ IF FirstPlanned(panel, req[r].seen.title) = {} THEN Reply(r, "ok") /\ UNCHANGED panel
     ELSE /\ panel' = BoundByTitle(panel, req[r].seen.title, req[r].c)
          /\ req' = [req EXCEPT ![r].pc = "upsert", ![r].list = panel']
  /\ UNCHANGED <<tables, cache, faults>>

LoadOutline ==
  /\ panel # outline /\ panel' = outline
  /\ UNCHANGED <<tables, cache, req, faults>>

UpdateOutline(r) ==
  /\ At(r, "upsert")
  /\ outline' = req[r].list
  /\ Goto(r, "syncread")
  /\ UNCHANGED <<chapter, panel, bin, version, stamp, bundle, cache, counted, faults>>

-----------------------------------------------------------------------------
(* SyncOutlineChapterOrder, after a save by the panel.                     *)

(* Mutant: bindings to chapters that are gone stay.                        *)
PhantomsKept(o, b) ==
  [i \in DOMAIN o |-> IF \A j \in 1..(i - 1) : o[j].chapter # o[i].chapter
                        THEN o[i] ELSE [o[i] EXCEPT !.chapter = None]]

Sanitized(o, b) ==
  [i \in DOMAIN o |-> IF o[i].chapter \in LiveIn(b)
                         /\ \A j \in 1..(i - 1) : o[j].chapter # o[i].chapter
                        THEN o[i] ELSE [o[i] EXCEPT !.chapter = None]]

(* The elements of S in the order of f, which tells them apart.            *)
Sorted(S, f) ==
  LET place == [c \in S |-> Cardinality({d \in S : f[d] <= f[c]})] IN
  [i \in 1..Cardinality(S) |-> CHOOSE c \in S : place[c] = i]

ByPosition(b, C) == Sorted(C, [c \in C |-> b[c].pos])
BoundOrder(o) ==
  LET I == {i \in DOMAIN o : o[i].chapter # None}
      s == Sorted(I, [i \in I |-> i]) IN [k \in DOMAIN s |-> o[s[k]].chapter]
InOutlineOrder(o, b) ==
  LET bound == BoundOrder(Sanitized(o, b)) IN bound \o ByPosition(b, LiveIn(b) \ Range(bound))

SyncRead(r) ==
  /\ At(r, "syncread")
  /\ req' = [req EXCEPT ![r].pc = "sync", ![r].list = outline,
                        ![r].book = [c \in Chapters |-> IF c \in Live THEN chapter[c] ELSE NoRow]]
  /\ UNCHANGED <<tables, panel, cache, faults>>

SyncBindings(r) ==
  LET o == Sanitized(req[r].list, req[r].book) IN
  /\ At(r, "sync")
  /\ outline' = IF o = req[r].list THEN outline ELSE o
  /\ req' = [req EXCEPT ![r].pc = "order", ![r].list = o]
  /\ UNCHANGED <<chapter, panel, bin, version, stamp, bundle, cache, counted, faults>>

(* The save has been committed: a failure here is logged, not answered.    *)
ResyncPositions(r) ==
  LET ids == InOutlineOrder(req[r].list, req[r].book)
      o   == ReorderByIDs(chapter, ids) IN
  /\ At(r, "order")
  /\ IF ids = ByPosition(req[r].book, LiveIn(req[r].book)) THEN UNCHANGED chapter
     ELSE /\ \A c \in Range(ids) : Unlocked(r, c)
          /\ chapter' = IF o.found /\ o.ok THEN o.book ELSE chapter
  /\ Reply(r, "ok")
  /\ UNCHANGED <<outline, panel, bin, version, stamp, bundle, cache, counted, faults>>

-----------------------------------------------------------------------------
(* The bin: a node and its chapter go in, come back, or are purged.        *)

AskTrash(r) ==
  At(r, "idle") /\ \E n \in {panel[i].title : i \in DOMAIN panel} :
    /\ Arrive(r, [Fresh EXCEPT !.kind = "trash", !.pc = "tread", !.pick = Node(n, None)])
    /\ UNCHANGED <<tables, panel, cache, faults>>

TrashRead(r) ==
  LET N == {n \in Range(outline) : n.title = req[r].pick.title} IN
  /\ At(r, "tread")
  /\ \/ N = {} /\ Reply(r, "notfound")
     \/ \E n \in N :
          IF n.chapter = None \/ n.chapter \in Live
            THEN req' = [req EXCEPT ![r].pc = "trash", ![r].list = outline, ![r].pick = n,
                   ![r].seen = IF n.chapter = None THEN NoRow ELSE chapter[n.chapter]]
            ELSE Reply(r, "notfound")
  /\ UNCHANGED <<tables, panel, cache, faults>>

TrashNode(r) ==
  LET c == req[r].pick.chapter
      i == CHOOSE j \in DOMAIN req[r].list : req[r].list[j] = req[r].pick IN
  /\ At(r, "trash") /\ (c # None => Unlocked(r, c))
  /\ bin' = [bin EXCEPT ![r] = [node |-> req[r].pick, text |-> req[r].seen.text,
                                title |-> req[r].seen.title]]
  /\ outline' = RemoveAt(req[r].list, i)
  /\ IF c \in Live THEN chapter' = [chapter EXCEPT ![c].row = "deleted"] /\ counted' = "skipped"
     ELSE UNCHANGED <<chapter, counted>>
  /\ Reply(r, "ok")
  /\ UNCHANGED <<panel, version, stamp, bundle, cache, faults>>

AskBin(r) ==
  At(r, "idle") /\ \E k \in Keys, kind \in {"untrash", "purge"} :
    /\ bin[k] # None
    /\ Arrive(r, [Fresh EXCEPT !.kind = kind, !.c = bin[k].node.chapter, !.pick = k,
                               !.pc = IF kind = "untrash" THEN "find" ELSE "purge"])
    /\ UNCHANGED <<tables, panel, cache, faults>>

FindInBin(r) ==
  LET k == req[r].pick IN
  /\ At(r, "find")
  /\ IF bin[k] = None THEN Reply(r, "notfound")
     ELSE req' = [req EXCEPT ![r].pc = "revive", ![r].seen = Row(0, bin[k].text, bin[k].title),
                             ![r].list = <<bin[k].node>>]
  /\ UNCHANGED <<tables, panel, cache, faults>>

(* The chapter comes back where it was, or at the end when the place is    *)
(* taken or the row is gone; then the outline is read.                     *)
Revive(r) ==
  LET c == req[r].c
      p == IF c = None THEN 0
           ELSE IF chapter[c].row # "none" /\ ~Taken(chapter, chapter[c].pos, c) THEN chapter[c].pos
           ELSE IF chapter[c].row # "none" \/ Live # {} THEN MaxPos(chapter) + 1 ELSE 0 IN
  /\ At(r, "revive") /\ (c # None => Unlocked(r, c))
  /\ req' = [req EXCEPT ![r].pc = "replant", ![r].seen.pos = p, ![r].list = outline \o @,
                        ![r].full = c # None /\ chapter[c].row = "none"]
  /\ UNCHANGED <<tables, panel, cache, faults>>

Replant(r) ==
  LET c == req[r].c IN
  /\ At(r, "replant")
  /\ IF c # None /\ (Taken(chapter, req[r].seen.pos, c) \/ (req[r].full /\ chapter[c].row # "none"))
       THEN Conflict(r) /\ UNCHANGED <<chapter, outline, bin, counted>>
     ELSE /\ outline' = req[r].list
          /\ bin' = [bin EXCEPT ![req[r].pick] = None]
          /\ IF c = None THEN UNCHANGED <<chapter, counted>>
             ELSE chapter' = [chapter EXCEPT ![c] = req[r].seen] /\ counted' = "skipped"
          /\ Reply(r, "ok")
  /\ UNCHANGED <<panel, version, stamp, bundle, cache, faults>>

Purge(r) ==
  LET k == req[r].pick
      c == req[r].c IN
  /\ At(r, "purge") /\ (c # None => Unlocked(r, c))
  /\ IF bin[k] = None THEN Reply(r, "notfound") /\ UNCHANGED <<chapter, bin, counted>>
     ELSE /\ bin' = [bin EXCEPT ![k] = None]
          /\ chapter' = IF c = None THEN chapter ELSE [chapter EXCEPT ![c] = NoRow]
          /\ counted' = IF c \in Live THEN "skipped" ELSE counted
          /\ Reply(r, "ok")
  /\ UNCHANGED <<outline, panel, version, stamp, bundle, cache, faults>>

OutlineStep(r) ==
  \/ BindRead(r) \/ BindChapterToOutline(r) \/ AskPut(r) \/ HandleOpenBody(r) \/ UpdateOutline(r)
  \/ SyncRead(r) \/ SyncBindings(r) \/ ResyncPositions(r)
  \/ AskTrash(r) \/ TrashRead(r) \/ TrashNode(r)
  \/ AskBin(r) \/ FindInBin(r) \/ Revive(r) \/ Replant(r) \/ Purge(r)
=============================================================================
