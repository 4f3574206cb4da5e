------------------------------- MODULE Reader -------------------------------
(***************************************************************************)
(* The reading side, in three parts that share nothing: a work read        *)
(* chapter by chapter and resumed where it was left (ReaderPage,           *)
(* ChapterReader), what readers say and like of it (ReaderInteractions;    *)
(* InteractionService, the follows of PublishService), and the works       *)
(* searched page by page (DiscoverPage).  Positions inside a chapter,      *)
(* which a resumed chapter does not go back to, anchors and texts are left *)
(* out.                                                                    *)
(***************************************************************************)
EXTENDS Integers, SequencesExt, FiniteSetsExt

CONSTANTS MaxEvents,     \* bound: what the reader and others do and what fails
          MaxTalk,       \* bound: the same, about remarks and follows
          MaxChapters,   \* bound: chapters of the work
          MaxRemarks,    \* bound: comments ever made
          MaxWorks,      \* bound: works ever published
          PageSize       \* works asked for at a time

VARIABLES book, bookKept, bookServer, bookCalls, talk, talkServer, talkCalls, find, findServer, findCalls

bookVars == <<book, bookKept, bookServer, bookCalls>>
talkVars == <<talk, talkServer, talkCalls>>
findVars == <<find, findServer, findCalls>>

None == 0
Acted(m) == [m EXCEPT !.left = @ - 1]
(* A number no call that is out has.                                       *)
Unused(calls) == CHOOSE n \in 1..(Cardinality(calls) + 1) : \A k \in calls : k.no # n
-----------------------------------------------------------------------------
(* The work.  last: the chapter reported last, and whether it went to the  *)
(* server.  sure: no report was lost or overtaken, no chapter failed.      *)
BookInit ==
  /\ book = [status |-> "checking", signed |-> TRUE, route |-> None, list |-> {}, chapter |-> None, loading |-> TRUE,
             error |-> FALSE, run |-> 1, last |-> [chapter |-> None, signed |-> TRUE], sure |-> TRUE, left |-> MaxEvents]
  /\ bookKept = None
  /\ bookServer = [public |-> 1..MaxChapters, progress |-> None]
  /\ bookCalls = {[kind |-> "list", no |-> 1, run |-> 1, step |-> "sent", list |-> {}, chapter |-> None]}

OfRun(kind, run, list, c) == [kind |-> kind, no |-> 0, run |-> run, step |-> "sent", list |-> list, chapter |-> c]
Answered(k) == k \in bookCalls /\ k.step = "done"
BookOthers(k) == bookCalls \ {k}
Reports(calls) == {k \in calls : k.kind = "report"}
Replaces(k, kind, list, c) == bookCalls' = BookOthers(k) \cup {[k EXCEPT !.kind = kind, !.step = "sent", !.list = list, !.chapter = c]}

(* The effect: a new load, and the one before is cancelled, so that what   *)
(* it still asks for changes nothing.                                      *)
Loads(m, calls) ==
  /\ book' = [m EXCEPT !.run = @ + 1, !.loading = TRUE, !.error = FALSE]
  /\ bookCalls' = Reports(calls) \cup {OfRun("list", m.run + 1, {}, None)}

ServerTellsBook(k) ==
  /\ k.step = "sent" /\ UNCHANGED bookKept
  /\ \/ /\ k.kind = "report"
        /\ bookServer' = [bookServer EXCEPT !.progress = k.chapter]
        /\ bookCalls' = BookOthers(k) /\ UNCHANGED book
     \/ /\ k.kind = "list"
        /\ bookCalls' = BookOthers(k) \cup {[k EXCEPT !.step = "done", !.list = bookServer.public]}
        /\ UNCHANGED <<book, bookServer>>
     \/ /\ k.kind = "progress"
        /\ bookCalls' = BookOthers(k) \cup {[k EXCEPT !.step = "done", !.chapter = bookServer.progress]}
        /\ book' = [book EXCEPT !.sure = @ /\ Reports(bookCalls) = {}]
        /\ UNCHANGED bookServer
     \/ /\ k.kind \in {"chapter", "first"}
        /\ bookCalls' = BookOthers(k) \cup {[k EXCEPT !.step = "done", !.chapter = IF @ \in bookServer.public THEN @ ELSE None]}
        /\ UNCHANGED <<book, bookServer>>

(* Mutant: what this browser kept comes before what the server knows.      *)
TargetKept(list, server, kept) ==
  IF kept \in list THEN kept ELSE IF server \in list THEN server ELSE Min(list)

(* The place to go on from: the server's, this browser's, the first.       *)
Target(list, server, kept) ==
  IF server \in list THEN server ELSE IF kept \in list THEN kept ELSE Min(list)

BookListed(k) ==
  /\ k.kind = "list" /\ Answered(k)
  /\ LET listed == [book EXCEPT !.list = k.list]
     IN IF k.list = {}
        THEN book' = [book EXCEPT !.error = TRUE, !.loading = FALSE] /\ bookCalls' = BookOthers(k)
        ELSE /\ book' = listed
             /\ IF book.route # None THEN Replaces(k, "chapter", k.list, book.route)
                ELSE IF book.status = "authed" THEN Replaces(k, "progress", k.list, None)
                ELSE Replaces(k, "chapter", k.list, Target(k.list, None, bookKept))
  /\ UNCHANGED <<bookKept, bookServer>>
BookListFails(k) ==
  /\ k.kind = "list" /\ book.left > 0
  /\ book' = [Acted(book) EXCEPT !.error = TRUE, !.loading = FALSE] /\ bookCalls' = BookOthers(k)
  /\ UNCHANGED <<bookKept, bookServer>>

ProgressRead(k, ok) ==
  /\ k.kind = "progress" /\ (IF ok THEN Answered(k) ELSE book.left > 0)
  /\ Replaces(k, "chapter", k.list, Target(k.list, IF ok THEN k.chapter ELSE None, bookKept))
  /\ book' = IF ok THEN book ELSE [Acted(book) EXCEPT !.sure = FALSE]
  /\ UNCHANGED <<bookKept, bookServer>>

(* A chapter that is not there: the first instead, once.                   *)
ChapterComes(k, ok) ==
  /\ k.kind \in {"chapter", "first"} /\ (IF ok THEN Answered(k) ELSE book.left > 0)
  /\ LET c == IF ok THEN k.chapter ELSE None
         m == IF ok THEN book ELSE Acted(book)
     IN IF c = None /\ k.kind = "chapter"
        THEN Replaces(k, "first", k.list, Min(k.list)) /\ book' = [m EXCEPT !.sure = FALSE]
        ELSE bookCalls' = BookOthers(k) /\ book' = [m EXCEPT !.chapter = c, !.loading = FALSE]
  /\ UNCHANGED <<bookKept, bookServer>>

(* initAuth has ended, or the session has                                  *)
StatusComes ==
  /\ book.status = "checking"
  /\ Loads([book EXCEPT !.status = IF book.signed THEN "authed" ELSE "guest"], bookCalls)
  /\ UNCHANGED <<bookKept, bookServer>>
SessionEnds ==
  /\ book.left > 0 /\ book.status = "authed"
  /\ Loads([Acted(book) EXCEPT !.status = "guest", !.signed = FALSE], bookCalls)
  /\ UNCHANGED <<bookKept, bookServer>>

(* reportProgress, after scrolling and when the page is hidden.  While the *)
(* status is being checked a reader counts as a guest.                     *)
Reading == ~book.loading /\ ~book.error /\ book.chapter # None
Reported(m) ==
  LET k == [kind |-> "report", no |-> Unused(bookCalls), run |-> None, step |-> "sent", list |-> {}, chapter |-> m.chapter]
  IN IF m.status = "authed"
     THEN [m |-> [m EXCEPT !.last = [chapter |-> m.chapter, signed |-> TRUE],
                           !.sure = @ /\ \A r \in Reports(bookCalls) : r.chapter = m.chapter],
           kept |-> bookKept, calls |-> bookCalls \cup {k}]
     ELSE [m |-> [m EXCEPT !.last = [chapter |-> m.chapter, signed |-> FALSE]], kept |-> m.chapter, calls |-> bookCalls]
Report ==
  /\ book.left > 0 /\ Reading
  /\ LET r == Reported(Acted(book)) IN book' = r.m /\ bookKept' = r.kept /\ bookCalls' = r.calls
  /\ UNCHANGED bookServer
ReportFails(k) ==
  /\ k.kind = "report" /\ book.left > 0
  /\ book' = [Acted(book) EXCEPT !.sure = FALSE] /\ bookCalls' = BookOthers(k) /\ UNCHANGED <<bookKept, bookServer>>

(* Another address: the page goes, reporting, and a new one comes; without *)
(* a chapter in its address it resumes.  The reader may have signed in or  *)
(* out elsewhere.                                                          *)
Open(route, signed) ==
  /\ book.left > 0 /\ route \in {None} \cup book.list
  /\ LET r == IF Reading THEN Reported(Acted(book)) ELSE [m |-> Acted(book), kept |-> bookKept, calls |-> bookCalls]
     IN /\ Loads([r.m EXCEPT !.status = "checking", !.signed = signed, !.route = route, !.list = {}, !.chapter = None], r.calls)
        /\ bookKept' = r.kept
  /\ UNCHANGED bookServer

(* The author takes a chapter back or publishes it again.                  *)
AuthorChanges(c) ==
  /\ book.left > 0 /\ book' = Acted(book)
  /\ bookServer' = [bookServer EXCEPT !.public = IF c \in @ THEN @ \ {c} ELSE @ \cup {c}]
  /\ UNCHANGED <<bookKept, bookCalls>>

BookNext ==
  \/ StatusComes \/ SessionEnds \/ Report
  \/ \E c \in 1..MaxChapters : AuthorChanges(c)
  \/ \E route \in 0..MaxChapters, signed \in BOOLEAN : Open(route, signed)
  \/ \E k \in bookCalls :
       \/ ServerTellsBook(k) \/ BookListed(k) \/ BookListFails(k) \/ ReportFails(k)
       \/ \E ok \in BOOLEAN : ProgressRead(k, ok) \/ ChapterComes(k, ok)
-----------------------------------------------------------------------------
(* Remarks and marks.  A mark is a reader's like of a remark or following  *)
(* of the work; the server has the marks and, apart from them, their       *)
(* count.  The reader of this page is the author too, who may do           *)
(* everything.  sure: what the page heard was not crossed by a write of    *)
(* its own, and none failed.  fair: no two changes of one mark overlapped, *)
(* none was cut in two.                                                    *)
Me == 1
Another == 2
Work == 0                   \* what a call is about: the work a follower marks,
All == MaxRemarks + 1       \* all remarks,
New == MaxRemarks + 2       \* or the one it makes

TalkInit ==
  /\ talk = [mount |-> 1, authed |-> TRUE, following |-> FALSE, followBusy |-> FALSE, open |-> TRUE,
             shown |-> <<[id |-> 1, type |-> "comment", status |-> "pending", likes |-> 0, liked |-> FALSE]>>,
             loading |-> FALSE, posting |-> FALSE, sure |-> TRUE, fair |-> TRUE, left |-> MaxTalk]
  /\ talkServer = [remarks |-> <<[by |-> Another, type |-> "comment", status |-> "pending"]>>, marks |-> {},
                   count |-> [x \in 0..MaxRemarks |-> 0]]
  /\ talkCalls = {}

TalkOthers(k) == talkCalls \ {k}
TalkSteps(k, changed) == talkCalls' = TalkOthers(k) \cup {changed}
Mine(k) == k.who = Me /\ k.mount = talk.mount
Marks(kind) == kind \in {"like", "follow"}

(* Two calls cross that are about one thing, or one about all remarks.     *)
Crosses(kind, of, k) ==
  \/ of = k.of /\ ~(kind = "create" /\ k.kind = "create") /\ ~(kind = "status" /\ k.kind = "status")
  \/ Work \notin {of, k.of} /\ All \in {of, k.of}
Unsure(m, calls, kind, of, who) ==
  [m EXCEPT !.sure = @ /\ (who = Me => \A k \in calls : k.who = Me => ~Crosses(kind, of, k)),
            !.fair = @ /\ (Marks(kind) => \A k \in calls : ~(Marks(k.kind) /\ k.who = who /\ k.of = of))]
CallOf(m, calls, kind, of, who, want) ==
  [kind |-> kind, no |-> Unused(calls), who |-> who, mount |-> m.mount, of |-> of, step |-> "sent", want |-> want,
   seen |-> 0, list |-> <<>>]
Asks(m, calls, kind, of, want) ==
  /\ talk' = Unsure(m, calls, kind, of, Me) /\ talkCalls' = calls \cup {CallOf(m, calls, kind, of, Me, want)}
  /\ UNCHANGED talkServer
Refreshes(m, calls) == Asks([m EXCEPT !.loading = TRUE], calls, "list", All, m.authed)

TalkUser == talk.left > 0
Live == {i \in DOMAIN talkServer.remarks : talkServer.remarks[i].status # "hidden"}

(* The panel: opened or bumped, it is loaded again                         *)
OpenTalk == TalkUser /\ ~talk.open /\ Refreshes([Acted(talk) EXCEPT !.open = TRUE], talkCalls)
CloseTalk == talk.open /\ talk' = [talk EXCEPT !.open = FALSE] /\ UNCHANGED <<talkServer, talkCalls>>

(* submit, of a comment in the panel, and recordMood, of a paragraph       *)
Submit ==
  /\ TalkUser /\ talk.open /\ talk.authed /\ ~talk.posting
  /\ Asks([Acted(talk) EXCEPT !.posting = TRUE], talkCalls, "create", New, TRUE)
RecordMood == TalkUser /\ talk.authed /\ Asks(Acted(talk), talkCalls, "create", New, FALSE)
Shown(i) == TalkUser /\ talk.open /\ talk.shown[i].type = "comment"
ToggleLike(i) == Shown(i) /\ talk.authed /\ Asks(Acted(talk), talkCalls, "like", talk.shown[i].id, FALSE)
Adopt(i) == Shown(i) /\ talk.shown[i].status # "adopted" /\ Asks(Acted(talk), talkCalls, "adopt", talk.shown[i].id, FALSE)
Hide(i) == Shown(i) /\ Asks(Acted(talk), talkCalls, "hide", talk.shown[i].id, FALSE)
ToggleFollow ==
  /\ TalkUser /\ talk.authed /\ ~talk.followBusy
  /\ Asks([Acted(talk) EXCEPT !.followBusy = TRUE], talkCalls, "follow", Work, ~talk.following)

(* Another reader, who hides a remark of his own, or this one elsewhere    *)
Elsewhere(kind, of, who, want) ==
  /\ TalkUser
  /\ CASE kind = "follow" -> of = Work
       [] kind = "like" -> of \in Live /\ talkServer.remarks[of].type = "comment" /\ want
       [] kind = "hide" -> of \in Live /\ talkServer.remarks[of].by = Another /\ who = Another /\ want
  /\ talk' = [Unsure(Acted(talk), talkCalls, kind, of, who) EXCEPT !.sure = @ /\ who # Me]
  /\ talkCalls' = talkCalls \cup {[CallOf(talk, talkCalls, kind, of, who, want) EXCEPT !.mount = None]}
  /\ UNCHANGED talkServer

(* The session ends, or the page is loaded anew; what the page asked goes  *)
(* on at the server.                                                       *)
SignOut ==
  /\ TalkUser /\ talk.authed
  /\ talk' = [Acted(talk) EXCEPT !.authed = FALSE, !.following = FALSE]
  /\ talkCalls' = {k \in talkCalls : k.kind # "status"} /\ UNCHANGED talkServer
Reload ==
  /\ TalkUser
  /\ LET m == [Acted(talk) EXCEPT !.mount = @ + 1, !.authed = TRUE, !.following = FALSE, !.followBusy = FALSE, !.open = FALSE,
                                  !.shown = <<>>, !.loading = FALSE, !.posting = FALSE]
     IN Asks(m, talkCalls, "status", Work, FALSE)
-----------------------------------------------------------------------------
(* The server.  Likes and follows go one way: is the remark there, is the  *)
(* mark, set or take it, count.                                            *)
Remarks ==
  LET shown == SetToSortSeq(Live, <)
  IN [n \in DOMAIN shown |-> [id |-> shown[n], type |-> talkServer.remarks[shown[n]].type,
                              status |-> talkServer.remarks[shown[n]].status, likes |-> talkServer.count[shown[n]], liked |-> FALSE]]

ServerLooks(k) ==
  /\ \/ k.kind = "list" /\ k.step = "sent" /\ TalkSteps(k, [k EXCEPT !.step = "rows", !.list = Remarks])
     \/ /\ k.kind = "list" /\ k.step = "rows"
        /\ TalkSteps(k, [k EXCEPT !.step = "done",
             !.list = [n \in DOMAIN @ |-> [@[n] EXCEPT !.liked = k.want /\ <<Me, k.list[n].id>> \in talkServer.marks]]])
     \/ /\ k.kind = "status" /\ k.step = "sent"
        /\ TalkSteps(k, [k EXCEPT !.step = "done", !.want = <<Me, Work>> \in talkServer.marks])
     \/ /\ k.kind = "like" /\ k.step = "sent"
        /\ TalkSteps(k, [k EXCEPT !.step = IF k.of \in Live THEN "mark" ELSE "refused", !.seen = talkServer.count[k.of]])
     \/ k.kind = "follow" /\ k.step = "sent" /\ TalkSteps(k, [k EXCEPT !.step = "mark"])
     \/ /\ k.step = "mark"
        /\ LET there == <<k.who, k.of>> \in talkServer.marks
               want  == IF k.kind = "like" THEN ~there ELSE k.want
           IN TalkSteps(k, [k EXCEPT !.want = want, !.step = IF want = there THEN "done" ELSE "change"])
  /\ UNCHANGED <<talk, talkServer>>

ServerMarks(k) ==
  /\ k.step = "change" /\ TalkSteps(k, [k EXCEPT !.step = "count"]) /\ UNCHANGED talk
  /\ talkServer' = [talkServer EXCEPT !.marks = IF k.want THEN @ \cup {<<k.who, k.of>>} ELSE @ \ {<<k.who, k.of>>}]

(* The count the answer tells, from the row that was read; written back,   *)
(* as a mutant would, it loses what others count meanwhile.                *)
Told(k) == Max({k.seen + (IF k.want THEN 1 ELSE -1), 0})
(* IncLikeCount, DecLikeCount and those of the follows                     *)
Counted(k) == Max({talkServer.count[k.of] + (IF k.want THEN 1 ELSE -1), 0})
ServerCounts(k) ==
  /\ k.step = "count" /\ TalkSteps(k, [k EXCEPT !.step = "done"]) /\ UNCHANGED talk
  /\ talkServer' = [talkServer EXCEPT !.count[k.of] = Counted(k)]

ServerWrites(k) ==
  /\ k.step = "sent" /\ UNCHANGED talk
  /\ \/ /\ k.kind = "create" /\ Len(talkServer.remarks) < MaxRemarks
        /\ talkServer' = [talkServer EXCEPT !.remarks = Append(@, [by |-> Me, type |-> IF k.want THEN "comment" ELSE "mood", status |-> "pending"])]
     \/ /\ k.kind \in {"adopt", "hide"}
        /\ talkServer' = [talkServer EXCEPT !.remarks[k.of].status = IF k.kind = "adopt" THEN "adopted" ELSE "hidden"]
  /\ TalkSteps(k, [k EXCEPT !.step = "done"])
-----------------------------------------------------------------------------
(* What the page makes of an answer                                        *)
Entry(of, change(_)) == [i \in DOMAIN talk.shown |-> IF talk.shown[i].id = of THEN change(talk.shown[i]) ELSE talk.shown[i]]

TalkAnswer(k) ==
  /\ k.step = "done" /\ Mine(k)
  /\ \/ /\ k.kind = "create"
        /\ LET m == [talk EXCEPT !.posting = @ /\ ~k.want]
           IN IF talk.open THEN Refreshes(m, TalkOthers(k))
              ELSE talk' = m /\ talkCalls' = TalkOthers(k) /\ UNCHANGED talkServer
     \/ /\ k.kind # "create" /\ talkCalls' = TalkOthers(k) /\ UNCHANGED talkServer
        /\ \/ k.kind = "list" /\ talk' = [talk EXCEPT !.shown = k.list, !.loading = FALSE]
           \/ k.kind = "status" /\ talk' = [talk EXCEPT !.following = k.want]
           \/ k.kind = "follow" /\ talk' = [talk EXCEPT !.following = k.want, !.followBusy = FALSE]
           \/ /\ k.kind = "like"
              /\ talk' = [talk EXCEPT !.shown =
                   Entry(k.of, LAMBDA e : [e EXCEPT !.liked = k.want, !.likes = Told(k)])]
           \/ k.kind = "adopt" /\ talk' = [talk EXCEPT !.shown = Entry(k.of, LAMBDA e : [e EXCEPT !.status = "adopted"])]
           \/ k.kind = "hide" /\ talk' = [talk EXCEPT !.shown = SelectSeq(@, LAMBDA e : e.id # k.of)]

(* Nobody waits for it, or it is refused                                   *)
TalkEnds(k) ==
  /\ k.step = "refused" \/ (k.step = "done" /\ ~Mine(k))
  /\ talkCalls' = TalkOthers(k) /\ UNCHANGED <<talk, talkServer>>

(* A failure, which may leave a mark that is not counted                   *)
TalkFails(k) ==
  /\ TalkUser
  /\ LET m == [Acted(talk) EXCEPT !.sure = FALSE, !.fair = @ /\ k.step # "count"]
     IN talk' = IF ~Mine(k) THEN m
                ELSE [m EXCEPT !.posting = @ /\ ~(k.kind = "create" /\ k.want), !.followBusy = @ /\ k.kind # "follow",
                               !.loading = @ /\ k.kind # "list"]
  /\ talkCalls' = TalkOthers(k) /\ UNCHANGED talkServer

TalkNext ==
  \/ OpenTalk \/ CloseTalk \/ Submit \/ RecordMood \/ ToggleFollow \/ SignOut \/ Reload
  \/ \E i \in DOMAIN talk.shown : ToggleLike(i) \/ Adopt(i) \/ Hide(i)
  \/ \E kind \in {"like", "follow", "hide"}, of \in 0..MaxRemarks, who \in {Me, Another}, want \in BOOLEAN : Elsewhere(kind, of, who, want)
  \/ \E k \in talkCalls :
       \/ ServerLooks(k) \/ ServerMarks(k) \/ ServerCounts(k) \/ ServerWrites(k)
       \/ TalkAnswer(k) \/ TalkEnds(k) \/ TalkFails(k)
-----------------------------------------------------------------------------
(* The search.  A work is its number, and the query the reader may type    *)
(* finds the odd ones.  Works stand newest first.                          *)
Everything == "all"
Odd == "odd"
Matches(q) == IF q = Everything THEN findServer ELSE SelectSeq(findServer, LAMBDA w : w % 2 = 1)

FindCall(q, reset, offset, calls) ==
  [no |-> Unused(calls), q |-> q, reset |-> reset, offset |-> offset, step |-> "sent", rows |-> <<>>, last |-> TRUE]

FindInit ==
  /\ find = [q |-> Everything, works |-> <<>>, offset |-> 0, loading |-> TRUE, more |-> FALSE, hasMore |-> TRUE,
             timer |-> FALSE, shows |-> Everything, sure |-> FALSE, left |-> MaxEvents]
  /\ findServer = <<3, 2, 1>>
  /\ findCalls = {FindCall(Everything, TRUE, 0, {})}

FindOthers(k) == findCalls \ {k}
(* load, by the effect, the timer or the button.  Of loads that overlap    *)
(* only the last one sent can be relied on.                                *)
Loading(m, q, reset) ==
  /\ find' = IF reset THEN [m EXCEPT !.loading = TRUE] ELSE [m EXCEPT !.more = TRUE]
  /\ findCalls' = {[k EXCEPT !.last = FALSE] : k \in findCalls}
                    \cup {FindCall(q, reset, IF reset THEN 0 ELSE m.offset, findCalls)}
  /\ UNCHANGED findServer

Type(q) ==
  /\ find.left > 0 /\ q # find.q
  /\ find' = [Acted(find) EXCEPT !.q = q, !.timer = TRUE] /\ UNCHANGED <<findServer, findCalls>>
SearchTimer == find.timer /\ Loading([find EXCEPT !.timer = FALSE, !.offset = 0], find.q, TRUE)
LoadMore == find.left > 0 /\ find.works # <<>> /\ find.hasMore /\ ~find.more /\ Loading(Acted(find), find.q, FALSE)

ServerDiscovers(k) ==
  /\ k.step = "sent" /\ UNCHANGED <<find, findServer>>
  /\ LET all == Matches(k.q)
     IN findCalls' = FindOthers(k) \cup {[k EXCEPT !.step = "done",
                       !.rows = SubSeq(all, k.offset + 1, Min({k.offset + PageSize, Len(all)}))]}

(* Mutant: a new search is added to what is shown.                         *)
GrownAlways(k) == find.works \o k.rows
Grown(k) == IF k.reset THEN k.rows ELSE find.works \o k.rows
Discovered(k) ==
  /\ k.step = "done" /\ findCalls' = FindOthers(k) /\ UNCHANGED findServer
  /\ find' = [find EXCEPT !.works = Grown(k), !.offset = k.offset + Len(k.rows), !.hasMore = Len(k.rows) = PageSize,
                          !.loading = FALSE, !.more = FALSE, !.shows = IF k.reset THEN k.q ELSE @,
                          !.sure = k.last /\ (k.reset \/ (@ /\ k.q = find.shows))]
DiscoverFails(k) ==
  /\ find.left > 0 /\ findCalls' = FindOthers(k) /\ UNCHANGED findServer
  /\ find' = [Acted(find) EXCEPT !.loading = FALSE, !.more = FALSE, !.sure = @ /\ ~k.reset]

(* A work is published, or changed and so the newest.                      *)
WorkComesFirst(w) ==
  /\ find.left > 0
  /\ findServer' = <<w>> \o SelectSeq(findServer, LAMBDA x : x # w)
  /\ find' = [Acted(find) EXCEPT !.sure = FALSE]
  /\ findCalls' = {[k EXCEPT !.last = @ /\ k.step = "sent" /\ k.reset] : k \in findCalls}

FindNext ==
  \/ SearchTimer \/ LoadMore
  \/ \E q \in {Everything, Odd} : Type(q)
  \/ \E w \in 1..MaxWorks : WorkComesFirst(w)
  \/ \E k \in findCalls : ServerDiscovers(k) \/ Discovered(k) \/ DiscoverFails(k)
-----------------------------------------------------------------------------
Next ==
  \/ BookNext /\ UNCHANGED <<talkVars, findVars>>
  \/ TalkNext /\ UNCHANGED <<bookVars, findVars>>
  \/ FindNext /\ UNCHANGED <<bookVars, talkVars>>
Spec == BookInit /\ TalkInit /\ FindInit /\ [][Next]_<<bookVars, talkVars, findVars>>
-----------------------------------------------------------------------------
(* The page waits - for its chapter, for remarks, to post, to follow, for  *)
(* works - only while a request of its own is out: through cancelled       *)
(* loads, reloads, failures and overlaps.                                  *)
BookBusyIsHonest == book.loading => \E k \in bookCalls : k.kind # "report" /\ k.run = book.run
TalkBusyIsHonest ==
  /\ talk.loading => \E k \in talkCalls : Mine(k) /\ k.kind = "list"
  /\ talk.posting => \E k \in talkCalls : Mine(k) /\ k.kind = "create" /\ k.want
  /\ talk.followBusy => \E k \in talkCalls : Mine(k) /\ k.kind = "follow"
FindBusyIsHonest == find.loading \/ find.more => findCalls # {}

(* A work opened without a chapter shows the one reported last in the same *)
(* way, by an account or by this browser, through reloads and changes of   *)
(* the session - unless a report was lost or overtaken, or a chapter did   *)
(* not come.                                                               *)
ResumesWhereLeft ==
  book.sure /\ Reading /\ book.route = None /\ book.status # "checking" /\ book.last.chapter \in book.list
    /\ book.last.signed = (book.status = "authed") => book.chapter = book.last.chapter

(* The count of likes of a remark, and of followers of the work, is that   *)
(* of the marks, but for those about to be counted, however readers' calls *)
(* interleave - as long as no reader changes one mark twice at a time (the *)
(* like button may be clicked twice) and none is cut in two.               *)
MarksAreCounted ==
  LET half(x, want) == Cardinality({k \in talkCalls : k.of = x /\ k.step = "count" /\ k.want = want})
  IN talk.fair => \A x \in 0..MaxRemarks :
       talkServer.count[x] + half(x, TRUE)
         = Cardinality({r \in {Me, Another} : <<r, x>> \in talkServer.marks}) + half(x, FALSE)

(* With no call of the reader out, the panel shows own likes, own remarks, *)
(* the adopted ones and whether the work is followed as the server has     *)
(* them - unless two calls about one thing crossed or one failed.          *)
RemarksAreTrue ==
  talk.sure /\ talk.authed /\ (\A k \in talkCalls : k.who # Me) =>
    /\ talk.following = (<<Me, Work>> \in talkServer.marks)
    /\ \A e \in ToSet(talk.shown) : /\ e.liked = (<<Me, e.id>> \in talkServer.marks)
                                    /\ e.status = "adopted" => talkServer.remarks[e.id].status # "pending"
    /\ talk.open => {i \in Live : talkServer.remarks[i].by = Me} \subseteq {e.id : e \in ToSet(talk.shown)}

(* The works shown are the first of those that match what was searched,    *)
(* all of them when there is no more to load - unless an earlier load came *)
(* last, a search failed, more was asked for after other words were typed, *)
(* or works changed.                                                       *)
FoundIsABeginning ==
  find.sure /\ findCalls = {} =>
    /\ IsPrefix(find.works, Matches(find.shows))
    /\ ~find.hasMore => find.works = Matches(find.shows)
    /\ ~find.timer => find.shows = find.q
=============================================================================
