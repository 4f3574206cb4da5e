------------------------------ MODULE Chapters ------------------------------
(***************************************************************************)
(* ChapterService, its repository and its cache, query by query: creation  *)
(* at the end or at a place, reordering, saving, deletion and reading, and *)
(* the agent's write_chapter, which is a read, a snapshot and a save with  *)
(* a generation in between.  First, what all requests on one novel share:  *)
(* its chapters, the outline whose nodes they hang on, the copy of it the  *)
(* web panel holds, the bin, the versions of chapters and of the whole     *)
(* novel, the chapter cache, and whether the novel's word count is that of *)
(* its chapters.  A text is named after the request that wrote it.  The    *)
(* memory document that goes into the versions of the novel beside the     *)
(* outline is left out.  The database is PostgreSQL with its unique index  *)
(* on live positions.                                                      *)
(***************************************************************************)
EXTENDS Integers, SequencesExt

CONSTANTS
  Requests,    \* the requests
  Chapters,    \* the ids the chapters table hands out
  First,       \* the chapters there at the beginning, in order
  None,
  Past,        \* who wrote and binned what was there at the beginning
  Kinds,       \* the kinds of requests that come
  MaxInFlight, \* bound: requests in progress at a time
  AutoKeep,    \* automatic versions kept per chapter
  MaxFaults    \* bound of failing queries and restarts

ASSUME ChaptersAssumption == /\ IsFiniteSet(Chapters) /\ None \notin Chapters \cup Requests
                             /\ Past \notin Chapters \cup Requests \cup {None}
                             /\ First \in Seq(Chapters) /\ IsInjective(First) /\ First # << >>
                             /\ Chapters \cap Requests = {}
ASSUME ManuscriptBounds   == MaxInFlight \in Nat /\ AutoKeep \in Nat \ {0} /\ MaxFaults \in Nat

VARIABLES
  chapter,  \* per id: its row, live, deleted or none, with position and text
  outline,  \* the nodes of the outline, a title and a chapter or None each
  panel,    \* the web panel's copy of it
  bin,      \* per maker: the bin's record it left
  version,  \* the versions of chapters
  stamp,    \* creation times given so far
  bundle,   \* per maker: the version of the whole novel it left
  cache,    \* per id: what the cache holds of a chapter
  counted,  \* word count: right, behind a writer that will refresh it, or skipped
  req,
  faults

tables == <<chapter, outline, bin, version, stamp, bundle, counted>>
vars   == <<chapter, outline, panel, bin, version, stamp, bundle, cache, counted,
            req, faults>>

Keys  == Requests \cup {Past}
Empty == "empty"
Row(p, t, n) == [row |-> "live", pos |-> p, text |-> t, title |-> n]
NoRow        == [row |-> "none", pos |-> 0, text |-> Empty, title |-> None]
Node(t, c)   == [title |-> t, chapter |-> c]
NoBook       == [c \in Chapters |-> NoRow]
Fresh == [kind |-> "none", pc |-> "idle", c |-> None, seen |-> NoRow, pos |-> 0,
          list |-> << >>, book |-> NoBook, pick |-> None, full |-> FALSE,
          tried |-> FALSE, alone |-> FALSE, reply |-> "none"]

Written == [c \in Chapters |-> IF c \in Range(First)
              THEN Row(CHOOSE i \in DOMAIN First : First[i] = c, c, c) ELSE NoRow]
Bound   == [i \in DOMAIN First |-> Node(First[i], First[i])]

(* The chapters one after the other, each bound to its node, and a version *)
(* of that book; since then the last has perhaps gone to the bin and a     *)
(* node without a chapter has perhaps been added in front.                 *)
Init ==
  /\ bundle = [k \in Keys |-> IF k = Past THEN [book |-> Written, list |-> Bound] ELSE None]
  /\ \E trashed \in BOOLEAN :
       LET z    == First[Len(First)]
           kept == IF trashed THEN Front(Bound) ELSE Bound IN
       /\ chapter = IF trashed THEN [Written EXCEPT ![z].row = "deleted"] ELSE Written
       /\ bin = [k \in Keys |-> IF trashed /\ k = Past
                                 THEN [node |-> Node(z, z), text |-> z, title |-> z] ELSE None]
       /\ \/ outline = kept
          \/ \E t \in Chapters \ Range(First) : outline = InsertAt(kept, 1, Node(t, None))
  /\ panel = outline
  /\ version = {[at |-> 1, chapter |-> First[1], text |-> Past, kind |-> "auto"]} /\ stamp = 1
  /\ cache = [c \in Chapters |-> None]
  /\ counted = "right"
  /\ req = [r \in Requests |-> Fresh]
  /\ faults = MaxFaults

-----------------------------------------------------------------------------
At(r, pc)  == req[r].pc = pc
InFlight   == {r \in Requests : req[r].pc \notin {"idle", "done"}}
Live       == {c \in Chapters : chapter[c].row = "live"}
LiveIn(b)  == {c \in Chapters : b[c].row = "live"}
MaxPos(b)  == Max({0} \cup {b[c].pos : c \in LiveIn(b)})
Taken(b, p, c) == \E d \in LiveIn(b) \ {c} : b[d].pos = p
NewIds     == Chapters \ (Range(First) \cup {req[r].c : r \in Requests})

Fault      == faults > 0 /\ faults' = faults - 1
Goto(r, pc) == req' = [req EXCEPT ![r].pc = pc]

(* A request arrives; those in progress are no longer alone.               *)
Arrive(r, q) ==
  /\ At(r, "idle") /\ q.kind \in Kinds /\ Cardinality(InFlight) < MaxInFlight
  /\ req' = [x \in Requests |-> IF x = r THEN [q EXCEPT !.alone = InFlight = {}]
                                ELSE [req[x] EXCEPT !.alone = FALSE]]

(* What a request has read matters no longer once it has answered, except  *)
(* for the id it took.                                                     *)
Answered(q, x) == [Fresh EXCEPT !.pc = "done", !.reply = IF x = "own conflict" THEN x ELSE "other",
                                !.c = IF q.kind \in {"create", "open"} THEN q.c ELSE None]
Reply(r, x)    == req' = [req EXCEPT ![r] = Answered(@, x)]

(* 23505 from uniq_chapters_novel_position.                                *)
Conflict(r)    == Reply(r, IF req[r].alone THEN "own conflict" ELSE "conflict")

(* A trash restore holds the row of its chapter until it commits.          *)
Unlocked(r, c) == ~ \E q \in Requests \ {r} : At(q, "replant") /\ req[q].c = c

Latest(c)      == LET V == {v \in version : v.chapter = c} IN
                  IF V = {} THEN None ELSE CHOOSE v \in V : \A w \in V : w.at <= v.at
AddVersion(c, t, k) ==
  /\ version' = version \cup {[at |-> stamp + 1, chapter |-> c, text |-> t, kind |-> k]}
  /\ stamp' = stamp + 1

-----------------------------------------------------------------------------
(* Creation.  create is the adoption of a draft or the create_chapter of   *)
(* the agent, which does not come here when the title is there already;    *)
(* open is the panel's "write the body of this node".                     *)

Planned(o) == {o[i].title : i \in {j \in DOMAIN o : o[j].chapter = None}}

AskCreate(r) ==
  At(r, "idle") /\ \E c \in NewIds, t \in {Empty, r} : \E n \in {c} \cup Planned(outline) :
    /\ Arrive(r, [Fresh EXCEPT !.kind = "create", !.pc = "max", !.c = c, !.seen = Row(0, t, n)])
    /\ UNCHANGED <<tables, panel, cache, faults>>

(* The panel counts the bound nodes before this one.                       *)
AskOpen(r) ==
  At(r, "idle") /\ \E i \in DOMAIN panel, c \in NewIds :
    LET before == Cardinality({j \in 1..(i - 1) : panel[j].chapter # None}) IN
    /\ panel[i].chapter = None
    /\ Arrive(r, [Fresh EXCEPT !.kind = "open", !.pc = "max", !.c = c,
                               !.seen = Row(before, Empty, panel[i].title)])
    /\ UNCHANGED <<tables, panel, cache, faults>>

GetMaxPosition(r) ==
  LET end == MaxPos(chapter) + 1 IN
  /\ At(r, "max")
  /\ req' = IF req[r].kind = "create"
              THEN [req EXCEPT ![r].pc = "insert", ![r].pos = end]
              ELSE [req EXCEPT ![r].pc = "shift",  ![r].pos = Min({req[r].seen.pos, end})]
  /\ UNCHANGED <<tables, panel, cache, faults>>

CreateAtEnd(r) ==
  /\ At(r, "insert")
  /\ IF Taken(chapter, req[r].pos, req[r].c) THEN Conflict(r) /\ UNCHANGED <<chapter, counted>>
     ELSE /\ chapter' = [chapter EXCEPT ![req[r].c] = [req[r].seen EXCEPT !.pos = req[r].pos]]
          /\ counted' = IF req[r].seen.text = Empty THEN counted ELSE "skipped"
          /\ Goto(r, "bindread")
  /\ UNCHANGED <<outline, panel, bin, version, stamp, bundle, cache, faults>>

(* The index is checked row by row: an update of the rows S from p to f(p) *)
(* runs into itself or into another row of b.                              *)
Collides(b, S, f(_)) ==
  \E c \in S : \E d \in LiveIn(b) \ {c} :
    f(b[c].pos) = b[d].pos \/ (d \in S /\ f(b[c].pos) = f(b[d].pos))
Moved(b, S, f(_)) == [c \in Chapters |-> IF c \in S THEN [b[c] EXCEPT !.pos = f(@)] ELSE b[c]]

Sentinel(p) == -p - 1
Negated(p)  == -p
Unmoved(p)  == p
Next1(p)    == p + 1

(* The first statement of CreateAtPosition sees the rows committed so far. *)
SeeShifted(r) ==
  /\ At(r, "shift")
  /\ req' = [req EXCEPT ![r].pc = "insertat", ![r].book =
       [c \in Chapters |-> IF c \in Live /\ chapter[c].pos >= req[r].pos THEN chapter[c] ELSE NoRow]]
  /\ UNCHANGED <<tables, panel, cache, faults>>

(* Mutant: shift in one statement.                                         *)
ShiftInOne(b, S) == [ok |-> ~Collides(b, S, Next1), book |-> Moved(b, S, Next1)]

Shift(b, S) ==
  LET low == Moved(b, S, Sentinel) IN
  [ok |-> ~Collides(b, S, Sentinel) /\ ~Collides(low, S, Negated),
   book |-> Moved(low, S, Negated)]

CreateAtPosition(r) ==
  LET c == req[r].c
      S == {d \in LiveIn(req[r].book) : chapter[d].row = "live" /\ chapter[d].pos >= req[r].pos}
      s == Shift(chapter, S) IN
  /\ At(r, "insertat")
  /\ IF s.ok /\ (\A d \in S : ~Taken(s.book, s.book[d].pos, d)) /\ ~Taken(s.book, req[r].pos, c)
       THEN /\ chapter' = [s.book EXCEPT ![c] = [req[r].seen EXCEPT !.pos = req[r].pos]]
            /\ req' = [req EXCEPT ![r].pc = "answered", ![r].book = NoBook]
       ELSE /\ UNCHANGED chapter
            /\ IF req[r].tried THEN Conflict(r)
               ELSE req' = [req EXCEPT ![r].pc = "shift", ![r].tried = TRUE]
  /\ UNCHANGED <<outline, panel, bin, version, stamp, bundle, cache, counted, faults>>

-----------------------------------------------------------------------------
(* Reordering: the whole list of ids, in one transaction over locked rows. *)

AskReorder(r) ==
  At(r, "idle") /\ \E ids \in SetToSeqs(Live) :
    /\ Len(ids) > 1
    /\ Arrive(r, [Fresh EXCEPT !.kind = "reorder", !.pc = "reorder", !.list = ids])
    /\ UNCHANGED <<tables, panel, cache, faults>>

Placed(b, ids) ==
  [c \in Chapters |-> IF c \in Range(ids)
     THEN [b[c] EXCEPT !.pos = (CHOOSE i \in DOMAIN ids : ids[i] = c) - 1] ELSE b[c]]

ReorderByIDs(b, ids) ==
  LET low == Moved(b, Range(ids), Sentinel)
      new == Placed(b, ids) IN
  [found |-> Range(ids) \subseteq LiveIn(b),
   ok    |-> /\ ~Collides(b, Range(ids), Sentinel)
             /\ \A c \in Range(ids) : ~Taken(new, new[c].pos, c),
   book  |-> new]

Reorder(r) ==
  LET o == ReorderByIDs(chapter, req[r].list) IN
  /\ At(r, "reorder")
  /\ \A c \in Range(req[r].list) : Unlocked(r, c)
  /\ IF o.found /\ o.ok THEN chapter' = o.book /\ Reply(r, "ok")
     ELSE /\ UNCHANGED chapter
          /\ IF o.found THEN Conflict(r) ELSE Reply(r, "mismatch")
  /\ UNCHANGED <<outline, panel, bin, version, stamp, bundle, cache, counted, faults>>

-----------------------------------------------------------------------------
(* Reading through the cache; the fill is a goroutine of its own, which is *)
(* done here before the agent has generated its text.                      *)

AskRead(r) ==
  At(r, "idle") /\ \E c \in Chapters :
    /\ chapter[c].row # "none"
    /\ \E k \in {"read", "agent"} :
         Arrive(r, [Fresh EXCEPT !.kind = k, !.pc = "cache", !.c = c])
    /\ UNCHANGED <<tables, panel, cache, faults>>

Known(r, x) == IF x = "null" THEN Reply(r, "notfound")
               ELSE IF req[r].kind = "read" THEN Reply(r, "ok") ELSE Goto(r, "aload")

AskCache(r) ==
  /\ At(r, "cache")
  /\ IF cache[req[r].c] # None THEN Known(r, cache[req[r].c])
     ELSE req' = [req EXCEPT ![r].pc = "fill", ![r].seen = chapter[req[r].c]]
  /\ UNCHANGED <<tables, panel, cache, faults>>

Fill(r) ==
  LET x == IF req[r].seen.row = "live" THEN req[r].seen.text ELSE "null" IN
  /\ At(r, "fill")
  /\ cache' = [cache EXCEPT ![req[r].c] = x]
  /\ Known(r, x)
  /\ UNCHANGED <<tables, panel, faults>>

CacheExpires ==
  /\ \E c \in Chapters : cache[c] # None /\ cache' = [cache EXCEPT ![c] = None]
  /\ UNCHANGED <<tables, panel, req, faults>>

-----------------------------------------------------------------------------
(* Saving and deleting.                                                    *)

AskSave(r) ==
  At(r, "idle") /\ \E c \in Chapters, k \in {"save", "delete", "mark"} :
    /\ chapter[c].row # "none"
    /\ Arrive(r, [Fresh EXCEPT !.kind = k, !.pc = "load", !.c = c])
    /\ UNCHANGED <<tables, panel, cache, faults>>

AfterLoad(r) ==
  CASE req[r].kind \in {"save", "agent"} ->
         IF chapter[req[r].c].text = Empty THEN "save" ELSE "latest"
    [] req[r].kind = "delete"   -> "remove"
    [] req[r].kind = "rollback" -> "target"
    [] req[r].kind = "mark"     -> "mark"

GetByID(r) ==
  /\ At(r, "load")
  /\ IF req[r].c \in Live
       THEN req' = [req EXCEPT ![r].pc = AfterLoad(r), ![r].seen = chapter[req[r].c]]
       ELSE Reply(r, "notfound")
  /\ UNCHANGED <<tables, panel, cache, faults>>

(* snapshotBeforeUpdate: nothing new, or a version of a few minutes ago,   *)
(* and there is no snapshot.                                               *)
LookAtLatest(r) ==
  LET v == Latest(req[r].c) IN
  /\ At(r, "latest")
  /\ \/ v # None /\ Goto(r, "save")
     \/ (IF v = None THEN TRUE ELSE v.text # req[r].seen.text) /\ Goto(r, "keep")
  /\ UNCHANGED <<tables, panel, cache, faults>>

KeepVersion(r) ==
  /\ At(r, "keep")
  /\ AddVersion(req[r].c, req[r].seen.text, "auto")
  /\ Goto(r, "boundary")
  /\ UNCHANGED <<chapter, outline, panel, bin, bundle, cache, counted, faults>>

Autos(c)    == {v \in version : v.chapter = c /\ v.kind = "auto"}
Newer(S, v) == {w \in S : w.at > v.at}

FindBoundary(r) ==
  LET A == Autos(req[r].c) IN
  /\ At(r, "boundary")
  /\ IF Cardinality(A) <= AutoKeep THEN Goto(r, "save")
     ELSE \E v \in A : /\ Cardinality(Newer(A, v)) = AutoKeep - 1
                       /\ req' = [req EXCEPT ![r].pc = "prune", ![r].pick = v]
  /\ UNCHANGED <<tables, panel, cache, faults>>

PruneAuto(r) ==
  /\ At(r, "prune")
  /\ version' = {v \in version : ~(v \in Autos(req[r].c) /\ v.at < req[r].pick.at)}
  /\ Goto(r, "save")
  /\ UNCHANGED <<chapter, outline, panel, bin, stamp, bundle, cache, counted, faults>>

(* A snapshot that fails is logged and the save goes on.                   *)
SnapshotFails(r) ==
  /\ req[r].pc \in {"latest", "keep", "boundary", "prune", "aload", "akeep"} /\ Fault
  /\ Goto(r, IF req[r].pc \in {"aload", "akeep"} THEN "load" ELSE "save")
  /\ UNCHANGED <<tables, panel, cache>>

NewText(r) == IF req[r].kind = "rollback" THEN req[r].pick.text ELSE r

(* gorm's Save writes every column of the row that was read, its position  *)
(* too, and inserts it anew when the row has been deleted meanwhile.       *)
Save(r) ==
  LET c == req[r].c IN
  /\ At(r, "save") /\ Unlocked(r, c)
  /\ IF Taken(chapter, req[r].seen.pos, c) THEN Conflict(r) /\ UNCHANGED <<chapter, counted>>
     ELSE /\ chapter' = [chapter EXCEPT ![c] = [req[r].seen EXCEPT !.text = NewText(r)]]
          /\ counted' = "behind"
          /\ Goto(r, "uncache")
  /\ UNCHANGED <<outline, panel, bin, version, stamp, bundle, cache, faults>>

Delete(r) ==
  LET c == req[r].c IN
  /\ At(r, "remove") /\ Unlocked(r, c)
  /\ chapter' = IF c \in Live THEN [chapter EXCEPT ![c].row = "deleted"] ELSE chapter
  /\ counted' = "behind"
  /\ Goto(r, "uncache")
  /\ UNCHANGED <<outline, panel, bin, version, stamp, bundle, cache, faults>>

(* Mutant: a deletion ends here.                                           *)
UncacheLast(r) ==
  /\ At(r, "uncache")
  /\ cache' = [cache EXCEPT ![req[r].c] = None]
  /\ IF req[r].kind = "delete" THEN Reply(r, "ok") ELSE Goto(r, "count")
  /\ UNCHANGED <<tables, panel, faults>>

Uncache(r) ==
  /\ At(r, "uncache")
  /\ cache' = [cache EXCEPT ![req[r].c] = None]
  /\ Goto(r, "count")
  /\ UNCHANGED <<tables, panel, faults>>

RefreshNovelWordCount(r) ==
  /\ At(r, "count")
  /\ counted' = "right"
  /\ Reply(r, "ok")
  /\ UNCHANGED <<chapter, outline, panel, bin, version, stamp, bundle, cache, faults>>

(* SnapshotForAgent: as above, without the window and without pruning.     *)
AgentLoads(r) ==
  /\ At(r, "aload")
  /\ req' = [req EXCEPT ![r].seen = chapter[req[r].c],
       ![r].pc = IF req[r].c \in Live /\ chapter[req[r].c].text # Empty THEN "akeep" ELSE "load"]
  /\ UNCHANGED <<tables, panel, cache, faults>>

AgentKeeps(r) ==
  LET v == Latest(req[r].c) IN
  /\ At(r, "akeep")
  /\ IF v # None /\ v.text = req[r].seen.text THEN UNCHANGED <<version, stamp>>
     ELSE AddVersion(req[r].c, req[r].seen.text, "auto")
  /\ Goto(r, "load")
  /\ UNCHANGED <<chapter, outline, panel, bin, bundle, cache, counted, faults>>

ChapterStep(r) ==
  \/ AskCreate(r) \/ AskOpen(r) \/ GetMaxPosition(r) \/ CreateAtEnd(r)
  \/ SeeShifted(r) \/ CreateAtPosition(r)
  \/ AskReorder(r) \/ Reorder(r)
  \/ AskRead(r) \/ AskCache(r) \/ Fill(r)
  \/ AskSave(r) \/ GetByID(r) \/ LookAtLatest(r) \/ KeepVersion(r)
  \/ FindBoundary(r) \/ PruneAuto(r) \/ SnapshotFails(r) \/ Save(r)
  \/ Delete(r) \/ Uncache(r) \/ RefreshNovelWordCount(r)
  \/ AgentLoads(r) \/ AgentKeeps(r)
=============================================================================
