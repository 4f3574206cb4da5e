----------------------------- MODULE PublishPanel -----------------------------
(***************************************************************************)
(* An author publishes a novel: the work first, then its chapters in the   *)
(* order of the outline, each only when all before it are (PublishModal,   *)
(* publish-store, reader-client; publish_service on the server, which does *)
(* not know that rule).  A chapter is its place in the outline; the text   *)
(* published, covers, titles and times of day are left out.                *)
(***************************************************************************)
EXTENDS Naturals, FiniteSetsExt

CONSTANTS PubMaxEvents,    \* bound: what the author does and what fails
          MaxChapters   \* bound: chapters of the novel

VARIABLES pub, pubServer, pubCalls

pubVars == <<pub, pubServer, pubCalls>>

Chapters == 1..MaxChapters
NotPublished == 0
Nothing == [c \in Chapters |-> NotPublished]
PublishedIn(chapters) == {c \in Chapters : chapters[c] # NotPublished}
NoBatch == [todo |-> {}, live |-> {}, done |-> Nothing, failed |-> {}, refused |-> {}, later |-> FALSE]

(* The novel was never published, or its first chapter was.                *)
PubInit ==
  \E there \in BOOLEAN :
    /\ pubServer = [work |-> there, chapters |-> [Nothing EXCEPT ![1] = IF there THEN 1 ELSE NotPublished], pids |-> 1]
    /\ pub = [open |-> FALSE, work |-> FALSE, known |-> Nothing, selected |-> {}, schedule |-> FALSE,
              loading |-> FALSE, publishing |-> FALSE, batch |-> NoBatch, marked |-> {}, disturbed |-> FALSE,
              asked |-> 0, left |-> PubMaxEvents]
    /\ pubCalls = {}

User == pub.left > 0
(* an act of the author while an earlier request is out disturbs it        *)
Acted(m) == [m EXCEPT !.left = @ - 1, !.disturbed = @ \/ pubCalls # {}]
Published == PublishedIn(pub.known)
-----------------------------------------------------------------------------
(* load: the works of the author, then the chapters of this one; whoever   *)
(* asked for it goes on when it has ended, well or not                     *)
Call(m, kind, for, c) ==
  [kind |-> kind, for |-> for, id |-> m.asked + 1, chapter |-> c, pid |-> pub.known[c], read |-> FALSE,
   step |-> "works", work |-> FALSE, chapters |-> Nothing]
Asks(m, others, kind, for, c) ==
  pub' = [m EXCEPT !.asked = @ + 1] /\ pubCalls' = others \cup {Call(m, kind, for, c)}
Others(k) == pubCalls \ {k}

OpenPanel ==
  /\ User /\ ~pub.open
  /\ Asks([Acted(pub) EXCEPT !.open = TRUE, !.selected = {}, !.schedule = FALSE, !.loading = TRUE], pubCalls, "load", "open", 1)
  /\ UNCHANGED pubServer

ClosePanel ==
  /\ pub.open /\ pub' = [pub EXCEPT !.open = FALSE] /\ UNCHANGED <<pubServer, pubCalls>>

(* the overview and the outline load the state as well                     *)
OthersLoad ==
  /\ User /\ Asks(Acted(pub), pubCalls, "load", "others", 1) /\ UNCHANGED pubServer

ServerReads(k) ==
  /\ k.kind = "load"
  /\ \/ /\ k.step = "works"
        /\ pubCalls' = Others(k) \cup {[k EXCEPT !.work = pubServer.work,
                                                !.step = IF pubServer.work THEN "chapters" ELSE "done"]}
     \/ /\ k.step = "chapters"
        /\ pubCalls' = Others(k) \cup {[k EXCEPT !.chapters = pubServer.chapters, !.step = "done"]}
  /\ UNCHANGED <<pub, pubServer>>

(* what the caller does after load: chapters not published stay selected   *)
AfterLoad(m, for) ==
  LET lost == m.batch.failed \cup m.batch.refused
  IN CASE for = "open" -> [m EXCEPT !.loading = FALSE]
       [] for = "batch" ->
            [m EXCEPT !.publishing = FALSE, !.selected = @ \cap lost, !.schedule = @ /\ lost # {}, !.batch = NoBatch,
                      !.marked = IF m.batch.later THEN @ ELSE @ \cup PublishedIn(m.batch.done)]
       [] for \in {"work", "again"} -> [m EXCEPT !.publishing = FALSE]
       [] OTHER -> m

Loaded(k) ==
  /\ k.kind = "load" /\ k.step = "done"
  /\ pub' = AfterLoad([pub EXCEPT !.work = k.work, !.known = k.chapters], k.for)
  /\ pubCalls' = Others(k) /\ UNCHANGED pubServer

LoadFails(k) ==
  /\ k.kind = "load" /\ User
  /\ pub' = AfterLoad([pub EXCEPT !.left = @ - 1], k.for) /\ pubCalls' = Others(k) /\ UNCHANGED pubServer
-----------------------------------------------------------------------------
(* handlePublishWork                                                       *)
Offered == pub.open /\ ~pub.loading /\ User
PublishWork ==
  /\ Offered /\ ~pub.work /\ ~pub.publishing
  /\ Asks([Acted(pub) EXCEPT !.publishing = TRUE], pubCalls, "work", "work", 1) /\ UNCHANGED pubServer

ServerCreates(k) ==
  /\ k.kind = "work" /\ ~k.read /\ ~pubServer.work
  /\ pubServer' = [pubServer EXCEPT !.work = TRUE] /\ pubCalls' = Others(k) \cup {[k EXCEPT !.read = TRUE]}
  /\ UNCHANGED pub

WorkCreated(k) ==
  /\ k.kind = "work" /\ k.read
  /\ Asks(pub, Others(k), "load", "work", 1) /\ UNCHANGED pubServer

Refused(k) ==
  /\ ~k.read
  /\ \/ k.kind = "work" /\ pubServer.work
     \/ k.kind = "unpublish" /\ pubServer.chapters[k.chapter] # k.pid
(* refused when the work exists already, or the request fails              *)
WorkFails(k) ==
  /\ k.kind = "work" /\ (User \/ Refused(k))
  /\ pub' = [pub EXCEPT !.publishing = FALSE, !.left = IF Refused(k) THEN @ ELSE @ - 1]
  /\ pubCalls' = Others(k) /\ UNCHANGED pubServer
-----------------------------------------------------------------------------
(* The chapters selected                                                   *)
Toggle(c) ==
  /\ Offered /\ pub.work /\ c \notin Published
  /\ pub' = [pub EXCEPT !.selected = SymDiff(@, {c}), !.left = @ - 1] /\ UNCHANGED <<pubServer, pubCalls>>

(* frontierIdx: everything before it is published                          *)
Frontier == {c \in Chapters : \A d \in 1..(c - 1) : d \in Published}
Selectable == Frontier \ Published
SelectAll ==
  /\ Offered /\ pub.work /\ Selectable # {}
  /\ pub' = [pub EXCEPT !.selected = IF @ = Selectable THEN {} ELSE Selectable, !.left = @ - 1]
  /\ UNCHANGED <<pubServer, pubCalls>>

Schedule ==
  /\ Offered /\ pub.work
  /\ pub' = [pub EXCEPT !.schedule = ~@, !.left = @ - 1] /\ UNCHANGED <<pubServer, pubCalls>>
-----------------------------------------------------------------------------
(* handlePublishChapters: one request after the other, in the order of the *)
(* outline; a chapter with one before it not published is refused on the   *)
(* spot.  live is what was published when the button was pressed.          *)
MayGo(b, c) == \A d \in 1..(c - 1) : d \in b.live
Sendable(b) == {c \in b.todo : MayGo(b, c)}
Live(b, c) == b.live
Proceed(m, others, b) ==
  IF Sendable(b) # {}
  THEN LET c == Min(Sendable(b))
           earlier == {d \in b.todo : d < c}
       IN Asks([m EXCEPT !.batch = [b EXCEPT !.todo = {d \in b.todo : d > c}, !.refused = @ \cup earlier]],
               others, "publish", "batch", c)
  ELSE LET m2 == [m EXCEPT !.batch = [b EXCEPT !.todo = {}, !.refused = @ \cup b.todo]]
       IN IF PublishedIn(b.done) = {} THEN pub' = AfterLoad(m2, "batch") /\ pubCalls' = others
          ELSE Asks([m2 EXCEPT !.known = [c \in Chapters |-> IF m.known[c] = NotPublished THEN b.done[c] ELSE m.known[c]]],
                    others, "load", "batch", 1)

PublishChapters ==
  /\ Offered /\ pub.work /\ ~pub.publishing /\ pub.selected # {}
  /\ Proceed([Acted(pub) EXCEPT !.publishing = TRUE], pubCalls,
             [NoBatch EXCEPT !.todo = pub.selected, !.live = Published, !.later = pub.schedule])
  /\ UNCHANGED pubServer

(* UpsertChapter: a chapter published again keeps its row                  *)
ServerPublishes(k) ==
  /\ k.kind = "publish" /\ ~k.read /\ pubServer.work
  /\ LET old == pubServer.chapters[k.chapter]
         pid == IF old = NotPublished THEN pubServer.pids + 1 ELSE old
     IN /\ pubServer' = [pubServer EXCEPT !.chapters[k.chapter] = pid, !.pids = IF pid > @ THEN pid ELSE @]
        /\ pubCalls' = Others(k) \cup {[k EXCEPT !.read = TRUE, !.pid = pid]}
  /\ UNCHANGED pub

ChapterPublished(k) ==
  /\ k.kind = "publish" /\ k.read
  /\ \/ /\ k.for = "batch"
        /\ Proceed(pub, Others(k), [pub.batch EXCEPT !.done[k.chapter] = k.pid, !.live = Live(pub.batch, k.chapter)])
     \/ /\ k.for = "again"
        /\ Asks([pub EXCEPT !.known[k.chapter] = IF @ = NotPublished THEN k.pid ELSE @, !.marked = @ \cup {k.chapter}],
                Others(k), "load", "again", 1)
  /\ UNCHANGED pubServer

PublishFails(k) ==
  /\ k.kind = "publish" /\ User
  /\ LET m == [pub EXCEPT !.disturbed = @ \/ k.read, !.left = @ - 1]
     IN \/ k.for = "batch" /\ Proceed(m, Others(k), [pub.batch EXCEPT !.failed = @ \cup {k.chapter}])
        \/ k.for = "again" /\ pub' = [m EXCEPT !.publishing = FALSE] /\ pubCalls' = Others(k)
  /\ UNCHANGED pubServer

PublishAgain(c) ==
  /\ Offered /\ pub.work /\ ~pub.publishing /\ c \in Published
  /\ Asks([Acted(pub) EXCEPT !.publishing = TRUE], pubCalls, "publish", "again", c) /\ UNCHANGED pubServer
-----------------------------------------------------------------------------
(* mutant: any published chapter may be taken back                         *)
HasLaterPublishedNever(c) == FALSE

(* handleUnpublishChapter: the last one first; a batch does not stop it    *)
HasLaterPublished(c) == \E d \in Published : d > c
Unpublish(c) ==
  /\ Offered /\ pub.work /\ c \in Published /\ ~HasLaterPublished(c)
  /\ Asks(Acted(pub), pubCalls, "unpublish", "one", c) /\ UNCHANGED pubServer

ServerUnpublishes(k) ==
  /\ k.kind = "unpublish" /\ ~k.read /\ pubServer.chapters[k.chapter] = k.pid
  /\ pubServer' = [pubServer EXCEPT !.chapters[k.chapter] = NotPublished]
  /\ pubCalls' = Others(k) \cup {[k EXCEPT !.read = TRUE]}
  /\ UNCHANGED pub

Unpublished(k) ==
  /\ k.kind = "unpublish" /\ k.read
  /\ Asks([pub EXCEPT !.known[k.chapter] = NotPublished], Others(k), "load", "others", 1) /\ UNCHANGED pubServer

(* refused, the row being gone; or failed; or done and the answer lost     *)
UnpublishFails(k) ==
  /\ k.kind = "unpublish" /\ (User \/ Refused(k))
  /\ pub' = [pub EXCEPT !.disturbed = @ \/ k.read, !.left = IF Refused(k) THEN @ ELSE @ - 1]
  /\ pubCalls' = Others(k) /\ UNCHANGED pubServer

PubNext ==
  \/ OpenPanel \/ ClosePanel \/ OthersLoad \/ PublishWork \/ SelectAll \/ Schedule \/ PublishChapters
  \/ \E c \in Chapters : Toggle(c) \/ PublishAgain(c) \/ Unpublish(c)
  \/ \E k \in pubCalls :
       \/ ServerReads(k) \/ Loaded(k) \/ LoadFails(k) \/ ServerCreates(k) \/ WorkCreated(k) \/ WorkFails(k)
       \/ ServerPublishes(k) \/ ChapterPublished(k) \/ PublishFails(k)
       \/ ServerUnpublishes(k) \/ Unpublished(k) \/ UnpublishFails(k)

PubSpec == PubInit /\ [][PubNext]_pubVars
-----------------------------------------------------------------------------
(* "Loading" and "publishing" are said only while a request is out that    *)
(* will take them back, a batch going from request to request.             *)
PublishBusyIsHonest ==
  /\ pub.loading => \E k \in pubCalls : k.kind = "load" /\ k.for = "open"
  /\ pub.publishing => \E k \in pubCalls : k.for \in {"batch", "work", "again"}

(* What readers see is a beginning of the novel, whatever is published,    *)
(* taken back or fails, in any order (PublishModal:52-69) - as long as the *)
(* author waits for one answer before the next act, and no answer is lost. *)
PublishedIsABeginning ==
  ~pub.disturbed => \A c \in PublishedIn(pubServer.chapters) : \A d \in 1..c : pubServer.chapters[d] # NotPublished

(* "As soon as a chapter is published it counts, and the adjacent one may  *)
(* go" (PublishModal:157): a chapter is refused only when one before it    *)
(* really is not published.                                                *)
RefusedForAReason ==
  [][\A c \in pub'.batch.refused \ pub.batch.refused :
       \E d \in 1..(c - 1) : pubServer.chapters[d] = NotPublished]_pubVars
=============================================================================
