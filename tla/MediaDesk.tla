----------------------------- MODULE MediaDesk -----------------------------
(***************************************************************************)
(* Self-media mode: the library of contents, the editor that saves 800 ms  *)
(* after the last change, the rewriting for a platform, the title factory  *)
(* and the pool of topics (MediaLibraryPanel, MediaEditorArea,             *)
(* TitleFactoryPanel, TopicPoolPanel, media-store, media-client;           *)
(* MediaService).  A title or a text is the number of the change that made *)
(* it; the platform is saved as the title is and left out.                 *)
(***************************************************************************)
EXTENDS Naturals, Sequences, SequencesExt, FiniteSetsExt

CONSTANTS MaxEvents,     \* bound: what the user does and what fails
          MaxContents,   \* bound: contents ever made
          MaxTopics      \* bound: topics ever made

VARIABLES media, mediaServer, mediaCalls, pool, poolServer, poolCalls

mediaVars == <<media, mediaServer, mediaCalls>>
poolVars == <<pool, poolServer, poolCalls>>

None == 0
Absent == 0    \* a field a patch does not have
Empty == 1     \* of a content just made
NoPatch == [title |-> Absent, text |-> Absent]
NoContent == [id |-> None, title |-> Empty, text |-> Empty]

(* wrote: what the author last made of each content, which no page keeps.  *)
(* sure: nothing has happened that the page lets go wrong in silence.      *)
MediaInit ==
  LET rows == [n \in 1..2 |-> [id |-> n, title |-> 2, text |-> 2, pos |-> n, live |-> TRUE]]
      list == [n \in 1..2 |-> [id |-> n, title |-> 2, text |-> 2]]
  IN /\ media = [list |-> list, loading |-> FALSE, cur |-> list[1], title |-> 2, text |-> 2, typed |-> Absent,
                 pending |-> NoPatch, timer |-> FALSE, status |-> "saved", shown |-> TRUE, mount |-> 1,
                 adapting |-> FALSE, orphans |-> {}, generating |-> FALSE, offered |-> FALSE, titled |-> TRUE,
                 ordered |-> TRUE, sure |-> TRUE, made |-> 2, left |-> MaxEvents,
                 wrote |-> [n \in 1..MaxContents |-> [title |-> 2, text |-> IF n <= 2 THEN 2 ELSE Empty]]]
     /\ mediaServer = rows
     /\ mediaCalls = {}

User == media.left > 0
Acted(m) == [m EXCEPT !.left = @ - 1]
Others(k) == mediaCalls \ {k}

(* r with what p changes of it; also one patch after another               *)
With(r, p) ==
  [r EXCEPT !.title = IF p.title = Absent THEN @ ELSE p.title, !.text = IF p.text = Absent THEN @ ELSE p.text]
Titled(n) == [NoPatch EXCEPT !.title = n]
Texted(n) == [NoPatch EXCEPT !.text = n]

Writes(m, id, p) == [m EXCEPT !.made = @ + 1, !.wrote[id] = With(@, p)]
Unsaved(m) == m.pending # NoPatch \/ m.typed # Absent

Call(m, kind, id) ==
  [kind |-> kind, id |-> id, step |-> "sent", patch |-> NoPatch, by |-> "", got |-> <<>>, mount |-> m.mount,
   at |-> None, no |-> CHOOSE n \in 1..(Cardinality(mediaCalls) + 1) : \A k \in mediaCalls : k.no # n]
Sends(m, call) == media' = m /\ mediaCalls' = mediaCalls \cup {call}
Steps(k, step) == mediaCalls' = Others(k) \cup {[k EXCEPT !.step = step]}

Writing(calls) == {k \in calls : k.kind \in {"create", "save", "delete", "order"}}
Unsure(m, id) == [m EXCEPT !.sure = @ /\ \A k \in Writing(mediaCalls) : k.id # id /\ k.kind # "order"]
-----------------------------------------------------------------------------
(* The effect on the id of the current content: the fields are those of    *)
(* the content, what was to be saved is forgotten.  The editor that goes   *)
(* has run its last flush, so a timer with nothing to save may be left.    *)
Shows(m, c) ==
  IF ~m.shown THEN [m EXCEPT !.cur = c]
  ELSE IF m.cur.id = c.id THEN [m EXCEPT !.cur = c]
  ELSE [m EXCEPT !.cur = c, !.title = c.title, !.text = c.text, !.typed = Absent, !.pending = NoPatch,
                 !.timer = @ \/ m.cur.id # None, !.status = "saved", !.titled = TRUE]

Select(i) ==
  /\ User
  /\ LET c == media.list[i]
     IN media' = Acted([Shows(media, c) EXCEPT !.sure = @ /\ (media.cur.id \in {None, c.id} \/ ~Unsaved(media))])
  /\ UNCHANGED <<mediaServer, mediaCalls>>

(* mutant: a change takes the place of those that wait                     *)
SchedulesLast(m, p) == [m EXCEPT !.pending = p, !.status = "dirty", !.timer = TRUE]

(* scheduleSave, by a page that shows a content                            *)
Schedules(m, p) == [m EXCEPT !.pending = With(@, p), !.status = "dirty", !.timer = TRUE]

TypeTitle ==
  /\ User /\ media.shown /\ media.cur.id # None
  /\ LET n == media.made + 1
         m == Writes([media EXCEPT !.title = n, !.titled = TRUE], media.cur.id, Titled(n))
     IN media' = Acted(Schedules(m, Titled(n)))
  /\ UNCHANGED <<mediaServer, mediaCalls>>

(* A key or an insertion; the page hears of it 300 ms later, by Heard      *)
TypeText ==
  /\ User /\ media.shown /\ media.cur.id # None
  /\ LET n == media.made + 1 IN media' = Acted(Writes([media EXCEPT !.typed = n], media.cur.id, Texted(n)))
  /\ UNCHANGED <<mediaServer, mediaCalls>>
Heard ==
  /\ media.typed # Absent
  /\ media' = Schedules([media EXCEPT !.text = media.typed, !.typed = Absent], Texted(media.typed))
  /\ UNCHANGED <<mediaServer, mediaCalls>>
-----------------------------------------------------------------------------
(* saveContent of the store: its contents are patched before the server is *)
Saves(m, id, p, by) ==
  LET s == [Unsure(m, id) EXCEPT !.list = [i \in DOMAIN @ |-> IF @[i].id = id THEN With(@[i], p) ELSE @[i]],
                                 !.cur = IF @.id = id THEN With(@, p) ELSE @]
  IN Sends(s, [Call(m, "save", id) EXCEPT !.patch = p, !.by = by])

Flushes(m) ==
  LET idle == [m EXCEPT !.timer = FALSE]
  IN IF m.cur.id = None \/ m.pending = NoPatch THEN media' = idle /\ UNCHANGED mediaCalls
     ELSE Saves([idle EXCEPT !.pending = NoPatch, !.status = "saving"], m.cur.id, m.pending, "flush")

TimerFires == media.shown /\ media.timer /\ Flushes(media) /\ UNCHANGED mediaServer

StatusClick ==
  /\ User /\ media.shown /\ media.cur.id # None /\ media.status # "saving"
  /\ media.status = "dirty" \/ media.pending # NoPatch
  /\ Flushes(Acted(media)) /\ UNCHANGED mediaServer

(* UpdateContent: a read, and a write of the whole row, which brings back  *)
(* one that has been deleted in between (gorm's Save inserts it)           *)
ServerReadsRow(k) ==
  /\ k.kind = "save" /\ k.step = "sent"
  /\ IF mediaServer[k.id].live
     THEN mediaCalls' = Others(k) \cup {[k EXCEPT !.step = "read", !.got = <<With(mediaServer[k.id], k.patch)>>]}
     ELSE Steps(k, "done")
  /\ UNCHANGED <<media, mediaServer>>
ServerSavesRow(k) ==
  /\ k.kind = "save" /\ k.step = "read"
  /\ mediaServer' = [mediaServer EXCEPT ![k.id] = k.got[1]] /\ Steps(k, "done") /\ UNCHANGED media

(* flushSave after saveContent, which throws nothing: "saved", whatever    *)
(* came of it and whatever is shown by now                                 *)
SaveEnds(m, k) ==
  /\ media' = IF k.by = "flush" /\ k.mount = m.mount /\ m.shown THEN [m EXCEPT !.status = "saved"] ELSE m
  /\ mediaCalls' = Others(k) /\ UNCHANGED mediaServer
Saved(k) == k.kind = "save" /\ k.step = "done" /\ SaveEnds(media, k)
SaveFails(k) == k.kind = "save" /\ User /\ SaveEnds([Acted(media) EXCEPT !.sure = FALSE], k)
-----------------------------------------------------------------------------
(* Another role: the timer is stopped, but then the editor's last flush    *)
(* arms it again, for what is shown; it fires with nobody looking.         *)
Orphan(m, n, id, p) ==
  LET old == {o \in m.orphans : o.mount = n}
      new == IF old = {} THEN p ELSE With((CHOOSE o \in old : TRUE).patch, p)
  IN IF id = None THEN m ELSE [m EXCEPT !.orphans = (@ \ old) \cup {[mount |-> n, id |-> id, patch |-> new]}]

Leave ==
  /\ User /\ media.shown
  /\ LET text == IF media.typed = Absent THEN media.text ELSE media.typed
         late == With(media.pending, Texted(text))
     IN media' = Acted([Orphan(media, media.mount, media.cur.id, late) EXCEPT
                         !.shown = FALSE, !.typed = Absent, !.pending = NoPatch, !.timer = FALSE,
                         !.status = "saved", !.adapting = FALSE])
  /\ mediaCalls' = {IF k.kind = "adapt" /\ k.at = None /\ k.mount = media.mount
                    THEN [k EXCEPT !.at = media.cur.id] ELSE k : k \in mediaCalls}
  /\ UNCHANGED mediaServer
Return ==
  /\ ~media.shown
  /\ media' = [media EXCEPT !.shown = TRUE, !.mount = @ + 1, !.title = media.cur.title, !.text = media.cur.text,
                            !.titled = TRUE, !.sure = @ /\ media.orphans = {}]
  /\ UNCHANGED <<mediaServer, mediaCalls>>
OrphanFires(o) ==
  /\ Saves([media EXCEPT !.orphans = @ \ {o}], o.id, o.patch, "orphan") /\ UNCHANGED mediaServer
-----------------------------------------------------------------------------
(* handleAdapt, from the bar or from the export window: what comes is put  *)
(* into the content that is shown by then                                  *)
Adapt ==
  /\ User /\ media.shown /\ media.cur.id # None /\ media.text # Empty
  /\ Sends([Acted(media) EXCEPT !.adapting = TRUE], Call(media, "adapt", media.cur.id))
  /\ UNCHANGED mediaServer
Adapted(k) ==
  /\ k.kind = "adapt"
  /\ LET n == media.made + 1
         m == Writes(media, k.id, Texted(n))
     IN media' = IF k.mount = m.mount /\ m.shown
                 THEN Schedules([m EXCEPT !.text = n, !.typed = IF @ = Absent THEN @ ELSE n, !.adapting = FALSE,
                                          !.sure = @ /\ k.id = m.cur.id], Texted(n))
                 ELSE [Orphan(m, k.mount, k.at, Texted(n)) EXCEPT !.sure = @ /\ k.at = k.id /\ k.mount = m.mount]
  /\ mediaCalls' = Others(k) /\ UNCHANGED mediaServer
AdaptFails(k) ==
  /\ k.kind = "adapt" /\ User
  /\ media' = Acted(IF k.mount = media.mount THEN [media EXCEPT !.adapting = FALSE] ELSE media)
  /\ mediaCalls' = Others(k) /\ UNCHANGED mediaServer

(* The title factory; a title applied goes round the title field           *)
Generate ==
  /\ User /\ ~media.generating
  /\ Sends([Acted(media) EXCEPT !.generating = TRUE, !.offered = FALSE], Call(media, "titles", None))
  /\ UNCHANGED mediaServer
Generated(k, ok) ==
  /\ k.kind = "titles" /\ (ok \/ User)
  /\ media' = [media EXCEPT !.generating = FALSE, !.offered = ok, !.left = IF ok THEN @ ELSE @ - 1]
  /\ mediaCalls' = Others(k) /\ UNCHANGED mediaServer
ApplyTitle ==
  /\ User /\ media.offered /\ media.cur.id # None
  /\ LET n == media.made + 1
         m == [media EXCEPT !.titled = FALSE, !.sure = @ /\ media.pending.title = Absent]
     IN Saves(Acted(Writes(m, media.cur.id, Titled(n))), media.cur.id, Titled(n), "apply")
  /\ UNCHANGED mediaServer
-----------------------------------------------------------------------------
(* The library                                                             *)
Listing ==
  LET rows == mediaServer
      live == SetToSortSeq({n \in DOMAIN rows : rows[n].live},
                           LAMBDA a, b : rows[a].pos < rows[b].pos \/ (rows[a].pos = rows[b].pos /\ a < b))
  IN [i \in DOMAIN live |-> [id |-> live[i], title |-> rows[live[i]].title, text |-> rows[live[i]].text]]

LoadContents ==
  /\ User /\ Sends([Acted(media) EXCEPT !.loading = TRUE], Call(media, "list", None))
  /\ UNCHANGED mediaServer
ServerLists(k) ==
  /\ k.kind = "list" /\ k.step = "sent"
  /\ mediaCalls' = Others(k) \cup {[k EXCEPT !.step = "done", !.got = Listing]} /\ UNCHANGED <<media, mediaServer>>
Listed(k) ==
  /\ k.kind = "list" /\ k.step = "done"
  /\ media' = [media EXCEPT !.list = k.got, !.loading = FALSE, !.ordered = TRUE,
                            !.sure = @ /\ k.got = Listing /\ Writing(mediaCalls) = {}]
  /\ mediaCalls' = Others(k) /\ UNCHANGED mediaServer
ListFails(k) ==
  /\ k.kind = "list" /\ User
  /\ media' = [Acted(media) EXCEPT !.loading = FALSE] /\ mediaCalls' = Others(k) /\ UNCHANGED mediaServer

(* handleCreate; the new one is the last on the server, the first here     *)
Create ==
  /\ User /\ Sends(Unsure(Acted(media), None), Call(media, "create", None)) /\ UNCHANGED mediaServer
ServerCreates(k) ==
  /\ k.kind = "create" /\ k.step = "sent" /\ Len(mediaServer) < MaxContents
  /\ LET n == Len(mediaServer) + 1
         pos == {r.pos : r \in {l \in ToSet(mediaServer) : l.live}}
     IN /\ mediaServer' = Append(mediaServer, [id |-> n, title |-> 2, text |-> Empty, live |-> TRUE,
                                               pos |-> IF pos = {} THEN 0 ELSE Max(pos) + 1])
        /\ mediaCalls' = Others(k) \cup {[k EXCEPT !.step = "done", !.id = n]}
  /\ UNCHANGED media
Created(k) ==
  /\ k.kind = "create" /\ k.step = "done"
  /\ LET c == [id |-> k.id, title |-> 2, text |-> Empty]
     IN media' = [Shows(media, c) EXCEPT !.list = <<c>> \o @, !.ordered = FALSE,
                                         !.sure = @ /\ (media.cur.id = None \/ ~Unsaved(media))]
  /\ mediaCalls' = Others(k) /\ UNCHANGED mediaServer
CreateFails(k) ==
  /\ k.kind = "create" /\ User
  /\ media' = [Acted(media) EXCEPT !.sure = @ /\ k.step = "sent"] /\ mediaCalls' = Others(k) /\ UNCHANGED mediaServer

(* removeContent: gone from the page, deleted or not                       *)
RemoveContent(i) ==
  /\ User /\ Sends(Unsure(Acted(media), media.list[i].id), Call(media, "delete", media.list[i].id))
  /\ UNCHANGED mediaServer
ServerDeletes(k) ==
  /\ k.kind = "delete" /\ k.step = "sent" /\ Steps(k, "done")
  /\ mediaServer' = [mediaServer EXCEPT ![k.id].live = FALSE] /\ UNCHANGED media
Removes(m, k) ==
  /\ media' = [(IF m.cur.id = k.id THEN Shows(m, NoContent) ELSE m)
                 EXCEPT !.list = SelectSeq(@, LAMBDA c : c.id # k.id)]
  /\ mediaCalls' = Others(k) /\ UNCHANGED mediaServer
Removed(k) == k.kind = "delete" /\ k.step = "done" /\ Removes(media, k)
RemoveFails(k) == k.kind = "delete" /\ User /\ Removes([Acted(media) EXCEPT !.sure = FALSE], k)

(* handleDrop: dragged before the target.  The server takes a list of all  *)
(* its contents or none of it, which nobody hears of.                      *)
Drop(i, j) ==
  /\ User /\ i # j
  /\ LET rest == RemoveAt(media.list, i)
         at   == IF j > i THEN j - 1 ELSE j
         next == InsertAt(rest, at, media.list[i])
     IN Sends([Acted(media) EXCEPT !.list = next, !.ordered = TRUE, !.sure = @ /\ Writing(mediaCalls) = {}],
              [Call(media, "order", None) EXCEPT !.got = [n \in DOMAIN next |-> next[n].id]])
  /\ UNCHANGED mediaServer
ServerOrders(k) ==
  /\ k.kind = "order" /\ k.step = "sent" /\ Steps(k, "done") /\ UNCHANGED media
  /\ mediaServer' = IF ToSet(k.got) # {r.id : r \in {l \in ToSet(mediaServer) : l.live}} THEN mediaServer
       ELSE [n \in DOMAIN mediaServer |->
               IF mediaServer[n].live THEN [mediaServer[n] EXCEPT !.pos = SelectInSeq(k.got, LAMBDA x : x = n) - 1]
               ELSE mediaServer[n]]
Ordered(k) ==
  /\ k.kind = "order" /\ k.step = "done" /\ mediaCalls' = Others(k) /\ UNCHANGED <<media, mediaServer>>
OrderFails(k) ==
  /\ k.kind = "order" /\ User /\ mediaCalls' = Others(k)
  /\ media' = [Acted(media) EXCEPT !.sure = FALSE] /\ UNCHANGED mediaServer
-----------------------------------------------------------------------------
(* The pool of topics: every change sends the whole list                   *)
Topic(n, status) == [id |-> n, status |-> status]

PoolInit ==
  /\ pool = [topics |-> <<Topic(1, "idea")>>, kept |-> <<>>, made |-> 1, sure |-> TRUE, left |-> MaxEvents]
  /\ poolServer = <<Topic(1, "idea")>>
  /\ poolCalls = {}

PoolActed(p) == [p EXCEPT !.left = @ - 1]
PoolSends(p, kind, list) ==
  /\ pool' = [p EXCEPT !.left = @ - 1, !.sure = @ /\ poolCalls = {}]
  /\ poolCalls' = poolCalls \cup {[kind |-> kind, step |-> "sent", list |-> list,
        no |-> CHOOSE n \in 1..(Cardinality(poolCalls) + 1) : \A k \in poolCalls : k.no # n]}
  /\ UNCHANGED poolServer

LoadTopics == pool.left > 0 /\ PoolSends(pool, "load", <<>>)
ServerListsTopics(k) ==
  /\ k.kind = "load" /\ k.step = "sent"
  /\ poolCalls' = (poolCalls \ {k}) \cup {[k EXCEPT !.step = "done", !.list = poolServer]}
  /\ UNCHANGED <<pool, poolServer>>
TopicsListed(k) ==
  /\ k.kind = "load" /\ k.step = "done"
  /\ pool' = [pool EXCEPT !.topics = k.list] /\ poolCalls' = poolCalls \ {k} /\ UNCHANGED poolServer
(* what localStorage has, which the last change that was sent left there   *)
TopicsFail(k) ==
  /\ k.kind = "load" /\ pool.left > 0
  /\ pool' = [PoolActed(pool) EXCEPT !.topics = pool.kept, !.sure = FALSE]
  /\ poolCalls' = poolCalls \ {k} /\ UNCHANGED poolServer

(* mutant: the list is sent as it was before the change                    *)
PoolsBefore(p, topics) == PoolSends([p EXCEPT !.topics = topics], "save", p.topics)

Pools(p, topics) == PoolSends([p EXCEPT !.topics = topics], "save", topics)

AddTopic ==
  /\ pool.left > 0 /\ pool.made < MaxTopics
  /\ Pools([pool EXCEPT !.made = @ + 1], <<Topic(pool.made + 1, "idea")>> \o pool.topics)
SetTopicStatus(i, status) ==
  /\ pool.left > 0 /\ status # pool.topics[i].status /\ (status = "dropped" => pool.topics[i].status = "idea")
  /\ Pools(pool, [pool.topics EXCEPT ![i].status = status])
RemoveTopic(i) == pool.left > 0 /\ Pools(pool, RemoveAt(pool.topics, i))

ServerPools(k) ==
  /\ k.kind = "save" /\ k.step = "sent"
  /\ poolServer' = k.list /\ poolCalls' = (poolCalls \ {k}) \cup {[k EXCEPT !.step = "done"]} /\ UNCHANGED pool
(* saveTopics: kept in localStorage, sent or not                           *)
Pooled(k, ok) ==
  /\ k.kind = "save" /\ (IF ok THEN k.step = "done" ELSE pool.left > 0)
  /\ pool' = [IF ok THEN pool ELSE [PoolActed(pool) EXCEPT !.sure = FALSE] EXCEPT !.kept = k.list]
  /\ poolCalls' = poolCalls \ {k} /\ UNCHANGED poolServer

PoolNext ==
  \/ LoadTopics \/ AddTopic
  \/ \E i \in DOMAIN pool.topics : RemoveTopic(i) \/ \E s \in {"used", "dropped"} : SetTopicStatus(i, s)
  \/ \E k \in poolCalls :
       \/ ServerListsTopics(k) \/ TopicsListed(k) \/ TopicsFail(k) \/ ServerPools(k)
       \/ \E ok \in BOOLEAN : Pooled(k, ok)
-----------------------------------------------------------------------------
MediaNext ==
  \/ TypeTitle \/ TypeText \/ Heard \/ TimerFires \/ StatusClick \/ Leave \/ Return \/ Adapt \/ Generate \/ ApplyTitle
  \/ LoadContents \/ Create
  \/ \E o \in media.orphans : OrphanFires(o)
  \/ \E i \in DOMAIN media.list : Select(i) \/ RemoveContent(i) \/ \E j \in DOMAIN media.list : Drop(i, j)
  \/ \E k \in mediaCalls :
       \/ ServerReadsRow(k) \/ ServerSavesRow(k) \/ Saved(k) \/ SaveFails(k) \/ Adapted(k) \/ AdaptFails(k)
       \/ ServerLists(k) \/ Listed(k) \/ ListFails(k) \/ ServerCreates(k) \/ Created(k) \/ CreateFails(k)
       \/ ServerDeletes(k) \/ Removed(k) \/ RemoveFails(k) \/ ServerOrders(k) \/ Ordered(k) \/ OrderFails(k)
       \/ \E ok \in BOOLEAN : Generated(k, ok)

Next == (MediaNext /\ UNCHANGED poolVars) \/ (PoolNext /\ UNCHANGED mediaVars)
Spec == MediaInit /\ PoolInit /\ [][Next]_<<mediaVars, poolVars>>
-----------------------------------------------------------------------------
(* "Saving", "adapting", "generating" and "loading" are said only while a  *)
(* request that takes them back is out; "unsaved" only while a timer will  *)
(* save it, and no change of the content shown waits without that timer    *)
(* (MediaEditorArea:65-95), through switches, failures and overlaps.       *)
MediaBusyIsHonest ==
  /\ media.status = "saving" => \E k \in mediaCalls : k.kind = "save" /\ k.by = "flush"
  /\ media.shown /\ media.cur.id # None =>
       (media.status = "dirty" \/ media.pending # NoPatch => media.timer)
  /\ media.adapting => \E k \in mediaCalls : k.kind = "adapt"
  /\ media.generating => \E k \in mediaCalls : k.kind = "titles"
  /\ media.loading => \E k \in mediaCalls : k.kind = "list"

(* With nothing to be saved and nothing on its way, the server has what    *)
(* the author last made of every content, and the library and the editor   *)
(* show it, in the order the server has it - unless a content was left     *)
(* unsaved, a call failed, two writes or a load and a write overlapped, a  *)
(* title was applied over one typed, or an adapted text came to another    *)
(* content: none of this does the page tell the author of.                 *)
MediaIsStored ==
  media.sure /\ ~Unsaved(media) /\ media.orphans = {} /\ Writing(mediaCalls) = {} =>
    /\ ToSet(media.list) = ToSet(Listing)
    /\ \A c \in ToSet(Listing) : [title |-> c.title, text |-> c.text] = media.wrote[c.id]
    /\ media.ordered => media.list = Listing
    /\ media.shown /\ media.cur.id # None =>
         \E c \in ToSet(Listing) : c.id = media.cur.id /\ c.text = media.text /\ (media.titled => c.title = media.title)

(* The topics shown are those of the server once no request is out, as     *)
(* long as none failed and no two of them overlapped.                      *)
TopicsAreStored == pool.sure /\ poolCalls = {} => pool.topics = poolServer
=============================================================================
