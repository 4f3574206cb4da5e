---------------------------- MODULE OutlinePanel ----------------------------
(***************************************************************************)
(* The outline of a novel in the web client: outline-store, which keeps    *)
(* the acts, saves every change at once and never waits for the answer;    *)
(* OutlinePanel and OutlineNodeEditor, which create, delete and publish    *)
(* the chapters bound to its nodes; and the chapter list of novel-store,   *)
(* sorted by the outline.  ol is the page (and its localStorage), olServer *)
(* what the server stores, olJobs the handlers that await an answer.       *)
(* Titles and summaries are left out, and so are the bindings the server   *)
(* adds of its own (module Outline).                                       *)
(***************************************************************************)
EXTENDS Naturals, Sequences, SequencesExt, FiniteSetsExt

CONSTANTS
  OlMaxActs, OlMaxNodes, OlMaxChapters,  \* bounds: how many are ever made
  OlMaxEvents                            \* bound: clicks and failures, together

VARIABLES ol, olServer, olJobs

olVars == <<ol, olServer, olJobs>>

Unbound == 0
Node(n, c) == [id |-> n, ch |-> c, done |-> FALSE]

OlInit ==
  LET acts == <<[id |-> 1, nodes |-> <<Node(1, 1), Node(2, Unbound)>>]>> IN
  /\ ol = [acts |-> acts, kept |-> acts, chapters |-> <<1>>, pub |-> {},
           target |-> 0, drafted |-> FALSE, busy |-> FALSE, nodes |-> 2, left |-> OlMaxEvents]
  /\ olServer = [acts |-> acts, chapters |-> <<1>>, pub |-> {}, made |-> <<1>>]
  /\ olJobs = {}

Nodes(acts) == UNION {ToSet(acts[i].nodes) : i \in DOMAIN acts}
Bound(acts) == {n.ch : n \in Nodes(acts)} \ {Unbound}

(* acts -> nodes: the order of the outline; unbound nodes are skipped      *)
ChapterOrder(acts) ==
  SelectSeq(FlattenSeq([i \in DOMAIN acts |-> [j \in DOMAIN acts[i].nodes |-> acts[i].nodes[j].ch]]),
            LAMBDA c : c # Unbound)

(* bound chapters first, as the outline has them; the rest as they were    *)
SortChaptersByOutline(list, acts) ==
  SelectSeq(ChapterOrder(acts), LAMBDA c : c \in ToSet(list))
    \o SelectSeq(list, LAMBDA c : c \notin Bound(acts))

(* mutant: the chapters are not sorted anew                                *)
SetActsUnsorted(e, acts) == [e EXCEPT !.acts = acts]

(* novel-store follows every change of the acts                            *)
SetActs(e, acts) ==
  [e EXCEPT !.acts = acts,
            !.chapters = IF acts = <<>> THEN @ ELSE SortChaptersByOutline(@, acts)]

Job(kind, data) == [kind |-> kind, data |-> data, n |-> CHOOSE n \in 1..(Cardinality(olJobs) + 1) :
                                                      \A j \in olJobs : j.n # n]
Saving(acts) == Job("save", acts)

(* commit: memory, localStorage, and a PUT nobody waits for                *)
Written(e, acts) == [SetActs(e, acts) EXCEPT !.kept = acts]
Edit(acts) ==
  /\ ol.left > 0
  /\ ol' = [Written(ol, acts) EXCEPT !.left = @ - 1]
  /\ olJobs' = olJobs \cup {Saving(acts)} /\ UNCHANGED olServer

MapNode(acts, n, F(_)) ==
  [i \in DOMAIN acts |-> [acts[i] EXCEPT !.nodes =
     [j \in DOMAIN @ |-> IF @[j].id = n THEN F(@[j]) ELSE @[j]]]]
Bind(acts, n, c) == MapNode(acts, n, LAMBDA x : [x EXCEPT !.ch = c])
Mark(acts, n, d) == MapNode(acts, n, LAMBDA x : [x EXCEPT !.done = d])
Without(acts, n) ==
  [i \in DOMAIN acts |-> [acts[i] EXCEPT !.nodes = SelectSeq(@, LAMBDA x : x.id # n)]]

AddAct ==
  Len(ol.acts) < OlMaxActs /\ Edit(Append(ol.acts, [id |-> Len(ol.acts) + 1, nodes |-> <<>>]))

(* addNode and addNodeAt, above or below a node or at the end              *)
AddNodeAt(i, at) ==
  /\ ol.nodes < OlMaxNodes /\ ol.left > 0
  /\ LET acts == [ol.acts EXCEPT ![i].nodes = InsertAt(@, at, Node(ol.nodes + 1, Unbound))]
     IN /\ ol' = [Written(ol, acts) EXCEPT !.left = @ - 1, !.nodes = @ + 1]
        /\ olJobs' = olJobs \cup {Saving(acts)} /\ UNCHANGED olServer

MoveNode(i, j) ==
  LET nodes == ol.acts[i].nodes
  IN Edit([ol.acts EXCEPT ![i].nodes = [nodes EXCEPT ![j] = nodes[j + 1], ![j + 1] = nodes[j]]])

(* the status button of the node editor (commitNodeEdit)                   *)
ToggleStatus(n) == Edit(Mark(ol.acts, n.id, ~n.done))
-----------------------------------------------------------------------------
(* Answers to the saves and the loads.                                     *)
SaveOutlineAnswered(j) ==
  /\ j.kind = "save"
  /\ olServer' = [olServer EXCEPT !.acts = j.data]
  /\ olJobs' = olJobs \ {j} /\ UNCHANGED ol

(* a failed save is forgotten: "saved locally only"                        *)
SaveOutlineFails(j) ==
  /\ j.kind = "save" /\ ol.left > 0
  /\ ol' = [ol EXCEPT !.left = @ - 1]
  /\ olJobs' = olJobs \ {j} /\ UNCHANGED olServer

(* loadOutline; fetchChapters follows it where the caller awaits both      *)
LoadOutlineAnswered(j) ==
  /\ j.kind = "load"
  /\ \/ ol' = SetActs(ol, olServer.acts)
     \/ ol.left > 0 /\ ol' = [SetActs(ol, ol.kept) EXCEPT !.left = @ - 1]
  /\ olJobs' = (olJobs \ {j}) \cup (IF j.data = "list" THEN {Job("list", 0)} ELSE {})
  /\ UNCHANGED olServer

(* fetchChapters: the server's order, sorted by the outline at once; a     *)
(* list that cannot be had is an empty one                                 *)
FetchChaptersAnswered(j) ==
  /\ j.kind = "list"
  /\ \/ ol' = SetActs([ol EXCEPT !.chapters = olServer.chapters], ol.acts)
     \/ ol.left > 0 /\ ol' = [ol EXCEPT !.chapters = <<>>, !.left = @ - 1]
  /\ olJobs' = olJobs \ {j} /\ UNCHANGED olServer
-----------------------------------------------------------------------------
(* "Write the body": how many of the nodes before it have a chapter that   *)
(* exists                                                                  *)
InsertPosition(n) ==
  LET before == FlattenSeq([i \in DOMAIN ol.acts |-> ol.acts[i].nodes])
      at == SelectInSeq(before, LAMBDA x : x.id = n)
  IN Cardinality({k \in 1..(at - 1) : before[k].ch \in ToSet(ol.chapters)})

Linked(n) == n.ch # Unbound /\ n.ch \in ToSet(ol.chapters)

OpenBody(n) ==
  /\ ol.left > 0 /\ ~Linked(n)
  /\ ol' = [ol EXCEPT !.left = @ - 1]
  /\ olJobs' = olJobs \cup {Job("create", [node |-> n.id, at |-> InsertPosition(n.id), body |-> FALSE])}
  /\ UNCHANGED olServer

(* the new chapter goes where it was to go when it was ordered; then its   *)
(* node is bound to it, and the outline sorts the list                     *)
CreateAnswered(j) ==
  LET c == Len(olServer.made) + 1
      bound == Bind(ol.acts, j.data.node, c)
      acts == IF j.data.body THEN Mark(bound, j.data.node, FALSE) ELSE bound
      list == InsertAt(ol.chapters, Min({j.data.at, Len(ol.chapters)}) + 1, c)
  IN
  /\ j.kind = "create" /\ c <= OlMaxChapters
  /\ olServer' = [olServer EXCEPT !.chapters = Append(@, c), !.made = Append(@, j.data.node)]
  /\ ol' = [Written([ol EXCEPT !.chapters = list], acts) EXCEPT
              !.busy = @ /\ ~j.data.body, !.target = IF j.data.body THEN 0 ELSE @]
  /\ olJobs' = (olJobs \ {j}) \cup {Saving(acts)}

CreateFails(j) ==
  /\ j.kind = "create" /\ ol.left > 0
  /\ ol' = [ol EXCEPT !.left = @ - 1, !.busy = @ /\ ~j.data.body]
  /\ olJobs' = olJobs \ {j} /\ UNCHANGED olServer

(* Expand a node into a draft, previewed, then written into its chapter or *)
(* into a new one                                                          *)
Expand(n) ==
  /\ ol.left > 0 /\ ol.target = 0
  /\ ol' = [Written(ol, ol.acts) EXCEPT !.target = n.id, !.drafted = FALSE, !.left = @ - 1]
  /\ olJobs' = olJobs \cup {Saving(ol.acts)} /\ UNCHANGED olServer

DraftReady == ol.target # 0 /\ ~ol.drafted /\ ol' = [ol EXCEPT !.drafted = TRUE] /\ UNCHANGED <<olServer, olJobs>>

CloseExpand ==
  /\ ol.target # 0
  /\ ol' = [ol EXCEPT !.target = 0, !.drafted = FALSE] /\ UNCHANGED <<olServer, olJobs>>

WriteDraft(n) ==
  /\ ol.target = n.id /\ ol.drafted /\ ~ol.busy
  /\ ol' = [ol EXCEPT !.busy = TRUE]
  /\ olJobs' = olJobs \cup {IF Linked(n) THEN Job("write", n.id)
                           ELSE Job("create", [node |-> n.id, at |-> InsertPosition(n.id), body |-> TRUE])}
  /\ UNCHANGED olServer

(* saveChapter never fails for its caller                                  *)
BodyWritten(j) ==
  LET acts == Mark(ol.acts, j.data, FALSE) IN
  /\ j.kind = "write"
  /\ ol' = [Written(ol, acts) EXCEPT !.busy = FALSE, !.target = 0, !.drafted = FALSE]
  /\ olJobs' = (olJobs \ {j}) \cup {Saving(acts)} /\ UNCHANGED olServer
-----------------------------------------------------------------------------
(* Delete a node with its chapter, or an act with all of its own: the      *)
(* chapters one after the other, then the node or the act, then load and   *)
(* list anew - whatever happened                                           *)
Doomed(nodes) == SelectSeq([j \in DOMAIN nodes |-> nodes[j].ch], LAMBDA c : c # Unbound)

Removal(nodes, act) ==
  /\ ol.left > 0
  /\ ol' = [ol EXCEPT !.left = @ - 1]
  /\ olJobs' = olJobs \cup {Job("delete", [rest |-> Doomed(nodes), act |-> act,
                                          node |-> IF act = 0 THEN nodes[1].id ELSE 0])}
  /\ UNCHANGED olServer

DeleteNode(n) == Removal(<<n>>, 0)
RemoveAct(i)  == Removal(ol.acts[i].nodes, ol.acts[i].id)

Except(list, c) == SelectSeq(list, LAMBDA x : x # c)

DeleteChapterAnswered(j) ==
  /\ j.kind = "delete" /\ j.data.rest # <<>>
  /\ LET c == Head(j.data.rest)
     IN /\ olServer' = [olServer EXCEPT !.chapters = Except(@, c), !.pub = @ \ {c}]
        /\ ol' = [ol EXCEPT !.chapters = Except(@, c)]
  /\ olJobs' = (olJobs \ {j}) \cup {[j EXCEPT !.data.rest = Tail(@)]}

DeleteChapterFails(j) ==
  /\ j.kind = "delete" /\ j.data.rest # <<>> /\ ol.left > 0
  /\ ol' = [ol EXCEPT !.left = @ - 1]
  /\ olJobs' = (olJobs \ {j}) \cup {Job("load", "list")} /\ UNCHANGED olServer

RemovalDone(j) ==
  LET acts == IF j.data.act # 0 THEN SelectSeq(ol.acts, LAMBDA a : a.id # j.data.act)
              ELSE Without(ol.acts, j.data.node)
      rest == olJobs \ {j}
  IN
  /\ j.kind = "delete" /\ j.data.rest = <<>>
  /\ ol' = Written(ol, acts)
  /\ olJobs' = rest \cup {Saving(acts), [Job("load", "list") EXCEPT !.n = j.n]}
  /\ UNCHANGED olServer
-----------------------------------------------------------------------------
(* publishBlockReason: chapters are published from the first on, and taken *)
(* back from the last on - by the order and the publications the page knows*)
Place(c) == SelectInSeq(ol.chapters, LAMBDA x : x = c)
MayPublish(c) == \A k \in 1..(Place(c) - 1) : ol.chapters[k] \in ol.pub
MayUnpublish(c) == \A k \in (Place(c) + 1)..Len(ol.chapters) : ol.chapters[k] \notin ol.pub

TogglePublish(n) ==
  /\ ol.left > 0 /\ Linked(n) /\ \A j \in olJobs : j.kind # "publish"
  /\ IF n.ch \in ol.pub THEN MayUnpublish(n.ch) ELSE MayPublish(n.ch)
  /\ ol' = [ol EXCEPT !.left = @ - 1]
  /\ olJobs' = olJobs \cup {Job("publish", [node |-> n.id, ch |-> n.ch, on |-> n.ch \notin ol.pub])}
  /\ UNCHANGED olServer

(* markPublished and markUnpublished read the truth again; publishing also *)
(* marks the node as done                                                  *)
PublishAnswered(j) ==
  LET c == j.data.ch
      pub == IF j.data.on THEN olServer.pub \cup ({c} \cap ToSet(olServer.chapters))
             ELSE olServer.pub \ {c}
      acts == Mark(ol.acts, j.data.node, TRUE)
  IN
  /\ j.kind = "publish"
  /\ olServer' = [olServer EXCEPT !.pub = pub]
  /\ ol' = [IF j.data.on THEN Written(ol, acts) ELSE ol EXCEPT !.pub = pub]
  /\ olJobs' = (olJobs \ {j}) \cup (IF j.data.on THEN {Saving(acts)} ELSE {})

PublishFails(j) ==
  /\ j.kind = "publish" /\ ol.left > 0
  /\ ol' = [ol EXCEPT !.left = @ - 1]
  /\ olJobs' = olJobs \ {j} /\ UNCHANGED olServer

OlNext ==
  \/ AddAct \/ DraftReady \/ CloseExpand
  \/ \E i \in DOMAIN ol.acts :
       \/ RemoveAct(i)
       \/ \E at \in 1..(Len(ol.acts[i].nodes) + 1) : AddNodeAt(i, at)
       \/ \E j \in 1..(Len(ol.acts[i].nodes) - 1) : MoveNode(i, j)
  \/ \E n \in Nodes(ol.acts) : \/ ToggleStatus(n) \/ OpenBody(n) \/ Expand(n) \/ WriteDraft(n)
                               \/ DeleteNode(n) \/ TogglePublish(n)
  \/ \E j \in olJobs : \/ SaveOutlineAnswered(j) \/ SaveOutlineFails(j)
                       \/ LoadOutlineAnswered(j) \/ FetchChaptersAnswered(j)
                       \/ CreateAnswered(j) \/ CreateFails(j) \/ BodyWritten(j) \/ DeleteChapterAnswered(j)
                       \/ DeleteChapterFails(j) \/ RemovalDone(j)
                       \/ PublishAnswered(j) \/ PublishFails(j)

OlSpec == OlInit /\ [][OlNext]_olVars
-----------------------------------------------------------------------------
(* "The chapters strictly follow the outline" (novel-store): whatever is   *)
(* moved, created, deleted or loaded, and in whatever order the answers    *)
(* come, two chapters of the list that the outline binds stand in its      *)
(* order, before those it does not.                                        *)
ChaptersFollowOutline ==
  LET order == SelectSeq(ChapterOrder(ol.acts), LAMBDA c : c \in ToSet(ol.chapters))
  IN ol.acts # <<>> => IsPrefix(order, ol.chapters)

=============================================================================
