------------------------------ MODULE Foreshadow ------------------------------
(***************************************************************************)
(* The ledger of plot threads beside the editor and the hint bar above it  *)
(* (ForeshadowTracker, ForeshadowHintBar, foreshadow-store;                *)
(* ForeshadowService).  A thread is its number, its novel and its state; a *)
(* candidate is the chapter it was found in.  Chapters 1 and 2 are of      *)
(* novel 1, chapter 3 is of novel 2.  Descriptions, anchors and deadlines  *)
(* are left out: any thread that waits may be hinted at.                   *)
(***************************************************************************)
EXTENDS Naturals

CONSTANTS MaxEvents,   \* bound: what the user does and what fails
          MaxThreads   \* bound: threads ever made

VARIABLES fore, foreServer, foreCalls

foreVars == <<fore, foreServer, foreCalls>>

None == 0
Novels == 1..2
Chapters == 1..3
NovelOf(c) == IF c = 3 THEN 2 ELSE 1
Waiting == {"planted", "reminded"}
NoHints == [chapter |-> None, threads |-> {}]

(* Novel 1 is current and one of its chapters is open; it has one thread.  *)
Init ==
  /\ fore = [novel |-> 1, chapter |-> 1, items |-> {}, loading |-> TRUE, detecting |-> FALSE, scanning |-> FALSE,
             candidates |-> {}, degraded |-> FALSE, failed |-> FALSE, hints |-> NoHints, hinting |-> TRUE,
             fresh |-> {1}, asked |-> 1, left |-> MaxEvents]
  /\ foreServer = [rows |-> {[id |-> 1, novel |-> 1, status |-> "planted"]}, made |-> 1]
  /\ foreCalls = {[kind |-> "load", id |-> 1, novel |-> 1, chapter |-> None, to |-> "", thread |-> None,
                   by |-> "", read |-> FALSE, got |-> {}]}

User == fore.left > 0
Acted(m) == [m EXCEPT !.left = @ - 1]
Others(k) == foreCalls \ {k}
-----------------------------------------------------------------------------
(* by: the operation whose last step a load is                             *)
Call(m, kind, n) ==
  [kind |-> kind, id |-> m.asked + 1, novel |-> n, chapter |-> m.chapter, to |-> "", thread |-> None,
   by |-> "", read |-> FALSE, got |-> {}]
Sends(m, others, call) == fore' = [m EXCEPT !.asked = call.id] /\ foreCalls' = others \cup {call}
Loads(m, others, n, by) ==
  LET l == [m EXCEPT !.loading = TRUE, !.failed = FALSE] IN Sends(l, others, [Call(l, "load", n) EXCEPT !.by = by])

(* load of the hint bar: once in five minutes for a chapter, unless forced *)
AsksHints(m, force) ==
  IF m.hinting /\ m.chapter # None /\ (force \/ m.chapter \notin m.fresh)
  THEN Sends([m EXCEPT !.fresh = @ \cup {m.chapter}], foreCalls, Call(m, "hints", m.novel))
  ELSE fore' = m /\ UNCHANGED foreCalls
-----------------------------------------------------------------------------
(* Another novel: no chapter is open, its ledger is asked for, the old one *)
(* stays until then; with no novel at all the ledger is emptied.           *)
SelectNovel(n) ==
  /\ User /\ n # fore.novel
  /\ Loads(Acted([fore EXCEPT !.novel = n, !.chapter = None, !.hints = NoHints]), foreCalls, n, "")
  /\ UNCHANGED foreServer

DeselectNovel ==
  /\ User /\ fore.novel # None
  /\ fore' = Acted([fore EXCEPT !.novel = None, !.chapter = None, !.items = {}, !.loading = FALSE,
                    !.detecting = FALSE, !.scanning = FALSE, !.candidates = {}, !.degraded = FALSE,
                    !.failed = FALSE, !.hints = NoHints])
  /\ UNCHANGED <<foreServer, foreCalls>>

OpenChapter(c) ==
  /\ User /\ fore.novel = NovelOf(c) /\ c # fore.chapter
  /\ AsksHints(Acted([fore EXCEPT !.chapter = c]), FALSE) /\ UNCHANGED foreServer

ChapterSaved == User /\ fore.chapter # None /\ fore.hinting /\ AsksHints(Acted(fore), TRUE) /\ UNCHANGED foreServer

FiveMinutesPass ==
  /\ fore.fresh # {} /\ fore' = [fore EXCEPT !.fresh = {}] /\ UNCHANGED <<foreServer, foreCalls>>

SetHinting ==
  /\ User
  /\ IF fore.hinting THEN fore' = Acted([fore EXCEPT !.hinting = FALSE, !.hints = NoHints]) /\ UNCHANGED foreCalls
     ELSE AsksHints(Acted([fore EXCEPT !.hinting = TRUE]), FALSE)
  /\ UNCHANGED foreServer

(* What comes for the chapter left a while ago is shown all the same       *)
ServerHints(k) ==
  /\ k.kind = "hints" /\ ~k.read
  /\ foreCalls' = Others(k) \cup
       {[k EXCEPT !.read = TRUE, !.got = {r \in foreServer.rows : r.novel = k.novel /\ r.status = "planted"}]}
  /\ UNCHANGED <<fore, foreServer>>
Hinted(k) ==
  /\ k.kind = "hints" /\ k.read
  /\ fore' = [fore EXCEPT !.hints = [chapter |-> k.chapter, threads |-> k.got]]
  /\ foreCalls' = Others(k) /\ UNCHANGED foreServer
HintsFail(k) ==
  /\ k.kind = "hints" /\ User
  /\ fore' = Acted([fore EXCEPT !.hints = NoHints]) /\ foreCalls' = Others(k) /\ UNCHANGED foreServer
-----------------------------------------------------------------------------
(* create and adopt, setStatus, remove: each loads the ledger when it is   *)
(* done; nothing keeps a button from being pressed again meanwhile         *)
Create ==
  /\ User /\ fore.novel # None
  /\ Sends(Acted([fore EXCEPT !.failed = FALSE]), foreCalls, Call(fore, "create", fore.novel))
  /\ UNCHANGED foreServer
Adopt(c) ==
  /\ User /\ fore.novel # None /\ c \in fore.candidates
  /\ Sends(Acted([fore EXCEPT !.failed = FALSE]), foreCalls, [Call(fore, "create", fore.novel) EXCEPT !.thread = c])
  /\ UNCHANGED foreServer

Choices(status) == IF status \in Waiting THEN {"resolved", "abandoned", "gone"} ELSE {"planted", "gone"}
Change(r, to) ==
  /\ User /\ fore.novel # None /\ to \in Choices(r.status)
  /\ Sends(Acted([fore EXCEPT !.failed = FALSE]), foreCalls,
           [Call(fore, "change", fore.novel) EXCEPT !.thread = r.id, !.to = to])
  /\ UNCHANGED foreServer

ServerCreates(k) ==
  /\ k.kind = "create" /\ ~k.read /\ foreServer.made < MaxThreads
  /\ LET n == foreServer.made + 1
     IN foreServer' = [rows |-> foreServer.rows \cup {[id |-> n, novel |-> k.novel, status |-> "planted"]}, made |-> n]
  /\ foreCalls' = Others(k) \cup {[k EXCEPT !.read = TRUE]} /\ UNCHANGED fore

ServerChanges(k) ==
  /\ k.kind = "change" /\ ~k.read /\ (\E r \in foreServer.rows : r.id = k.thread)
  /\ LET old == {r \in foreServer.rows : r.id = k.thread}
     IN foreServer' = [foreServer EXCEPT !.rows =
          (@ \ old) \cup IF k.to = "gone" THEN {} ELSE {[r EXCEPT !.status = k.to] : r \in old}]
  /\ foreCalls' = Others(k) \cup {[k EXCEPT !.read = TRUE]} /\ UNCHANGED fore

Done(k) ==
  /\ k.kind \in {"create", "change"} /\ k.read
  /\ Loads(IF k.kind = "create" THEN [fore EXCEPT !.candidates = @ \ {k.thread}] ELSE fore, Others(k), k.novel, "")
  /\ UNCHANGED foreServer

Refused(k) ==
  /\ k.kind \in {"create", "change"} /\ User
  /\ fore' = Acted([fore EXCEPT !.failed = TRUE]) /\ foreCalls' = Others(k) /\ UNCHANGED foreServer
-----------------------------------------------------------------------------
(* load; a scan ends when the load it ends with does, whatever it brought  *)
ServerLists(k) ==
  /\ k.kind = "load" /\ ~k.read
  /\ foreCalls' = Others(k) \cup {[k EXCEPT !.read = TRUE, !.got = {r \in foreServer.rows : r.novel = k.novel}]}
  /\ UNCHANGED <<fore, foreServer>>

Ended(m, k) ==
  LET l == [m EXCEPT !.loading = FALSE]
  IN IF k.by = "" THEN l ELSE [l EXCEPT !.scanning = FALSE, !.degraded = k.by = "degraded"]
Loaded(k) ==
  /\ k.kind = "load" /\ k.read
  /\ fore' = Ended([fore EXCEPT !.items = k.got], k) /\ foreCalls' = Others(k) /\ UNCHANGED foreServer
LoadFails(k) ==
  /\ k.kind = "load" /\ User
  /\ fore' = Acted(Ended([fore EXCEPT !.failed = TRUE], k)) /\ foreCalls' = Others(k) /\ UNCHANGED foreServer
-----------------------------------------------------------------------------
(* detect: the model may find nothing, may find one, may be out of reach   *)
Detect ==
  /\ User /\ fore.chapter # None /\ ~fore.detecting
  /\ Sends(Acted([fore EXCEPT !.detecting = TRUE, !.failed = FALSE, !.candidates = {}, !.degraded = FALSE]), foreCalls,
           Call(fore, "detect", fore.novel))
  /\ UNCHANGED foreServer
Detected(k, found) ==
  /\ k.kind = "detect"
  /\ fore' = [fore EXCEPT !.candidates = found, !.degraded = FALSE, !.detecting = FALSE]
  /\ foreCalls' = Others(k) /\ UNCHANGED foreServer
DetectFails(k, failed) ==
  /\ k.kind = "detect" /\ User
  /\ fore' = Acted([fore EXCEPT !.candidates = IF failed THEN @ ELSE {}, !.degraded = TRUE,
                                !.failed = @ \/ failed, !.detecting = FALSE])
  /\ foreCalls' = Others(k) /\ UNCHANGED foreServer

(* scan: the threads that wait are read, the model is asked, and those it  *)
(* names are saved as they were read, made again if they have been deleted *)
Scan ==
  /\ User /\ fore.chapter # None /\ ~fore.scanning
  /\ Sends(Acted([fore EXCEPT !.scanning = TRUE, !.failed = FALSE]), foreCalls, Call(fore, "scan", fore.novel))
  /\ UNCHANGED foreServer
ServerReadsWaiting(k) ==
  /\ k.kind = "scan" /\ k.to = ""
  /\ LET open == {r \in foreServer.rows : r.novel = k.novel /\ r.status \in Waiting}
     IN foreCalls' = Others(k) \cup {[k EXCEPT !.to = IF open = {} THEN "done" ELSE "asked", !.got = open]}
  /\ UNCHANGED <<fore, foreServer>>
ServerResolves(k, hits) ==
  /\ k.kind = "scan" /\ k.to = "asked"
  /\ LET others == {r \in foreServer.rows : \A h \in hits : r.id # h.id}
     IN foreServer' = [foreServer EXCEPT !.rows = others \cup {[h EXCEPT !.status = "resolved"] : h \in hits}]
  /\ foreCalls' = Others(k) \cup {[k EXCEPT !.to = "done"]} /\ UNCHANGED fore
ServerDegrades(k) ==
  /\ k.kind = "scan" /\ k.to = "asked" /\ User
  /\ foreCalls' = Others(k) \cup {[k EXCEPT !.to = "degraded"]} /\ fore' = Acted(fore) /\ UNCHANGED foreServer
Scanned(k) ==
  /\ k.kind = "scan" /\ k.to \in {"done", "degraded"} /\ Loads(fore, Others(k), k.novel, k.to) /\ UNCHANGED foreServer
ScanFails(k) ==
  /\ k.kind = "scan" /\ User
  /\ fore' = Acted([fore EXCEPT !.scanning = FALSE, !.failed = TRUE]) /\ foreCalls' = Others(k) /\ UNCHANGED foreServer

ClearCandidates ==
  /\ fore.candidates # {} /\ fore' = [fore EXCEPT !.candidates = {}, !.degraded = FALSE]
  /\ UNCHANGED <<foreServer, foreCalls>>
-----------------------------------------------------------------------------
Next ==
  \/ DeselectNovel \/ ChapterSaved \/ FiveMinutesPass \/ SetHinting \/ Create \/ Detect \/ Scan \/ ClearCandidates
  \/ \E n \in Novels : SelectNovel(n)
  \/ \E c \in Chapters : OpenChapter(c) \/ Adopt(c)
  \/ \E r \in fore.items, to \in {"resolved", "abandoned", "planted", "gone"} : Change(r, to)
  \/ \E k \in foreCalls :
       \/ ServerHints(k) \/ Hinted(k) \/ HintsFail(k) \/ ServerCreates(k) \/ ServerChanges(k) \/ Done(k) \/ Refused(k)
       \/ ServerLists(k) \/ Loaded(k) \/ LoadFails(k) \/ (\E f \in BOOLEAN : DetectFails(k, f))
       \/ (\E found \in SUBSET {k.chapter} : Detected(k, found))
       \/ ServerReadsWaiting(k) \/ (\E hits \in SUBSET k.got : ServerResolves(k, hits)) \/ ServerDegrades(k)
       \/ Scanned(k) \/ ScanFails(k)

Spec == Init /\ [][Next]_foreVars
-----------------------------------------------------------------------------
(* "Loading", "detecting" and "scanning" are said only while something is  *)
(* out that will take them back; a scan is over with the load that ends it *)
(* (foreshadow-store:62,133,144), however the operations overlap.          *)
ForeBusyIsHonest ==
  /\ fore.loading => \E k \in foreCalls : k.kind = "load"
  /\ fore.detecting => \E k \in foreCalls : k.kind = "detect"
  /\ fore.scanning => \E k \in foreCalls : k.kind = "scan" \/ (k.kind = "load" /\ k.by # "")

=============================================================================
