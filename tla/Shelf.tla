-------------------------------- MODULE Shelf ---------------------------------
(***************************************************************************)
(* The works of an author: the list, the one that is current and that the  *)
(* browser remembers, their overview tabs and the chapters shown           *)
(* (novel-store, WorksBar, LibraryExpandedView, NovelOverview, tab-store). *)
(* A work is its number; titles, counts and layout are left out, and so is *)
(* the store of a development build.                                       *)
(***************************************************************************)
EXTENDS Naturals, SequencesExt

CONSTANTS MaxEvents,  \* bound: what the user does and what fails
          MaxNovels   \* bound: works ever made

VARIABLES shelf, shelfKept, shelfServer, shelfCalls

shelfVars == <<shelf, shelfKept, shelfServer, shelfCalls>>

None == 0
Novels == 1..MaxNovels

(* The page was loaded with nothing remembered, a work, or a work that has *)
(* been deleted elsewhere since; tabs is what is open, in order.           *)
Init ==
  /\ shelf = [novels |-> <<>>, current |-> None, chaptersOf |-> None, loading |-> FALSE, listed |-> FALSE,
              tabs |-> <<>>, active |-> None, confirm |-> None, deleting |-> None, creating |-> FALSE, asked |-> 0,
              left |-> MaxEvents]
  /\ shelfKept \in {None, 1, 3}
  /\ shelfServer = [there |-> {1, 2}, made |-> 3]
  /\ shelfCalls = {}

User == shelf.left > 0
Acted(m) == [m EXCEPT !.left = @ - 1]
Known(n) == Contains(shelf.novels, n)
-----------------------------------------------------------------------------
(* then: what its answer does to the tabs, "open" or "activate"            *)
Call(m, kind, n, then) ==
  [kind |-> kind, id |-> m.asked + 1, novel |-> n, then |-> then, read |-> FALSE, list |-> {}]
Asks(m, others, kind, n, then) ==
  shelf' = [m EXCEPT !.asked = @ + 1] /\ shelfCalls' = others \cup {Call(m, kind, n, then)}
Others(k) == shelfCalls \ {k}

(* openPanelTab and closeTab, of an overview; another one comes to the fore *)
Opened(m, n) == [m EXCEPT !.tabs = IF Contains(@, n) THEN @ ELSE Append(@, n), !.active = n]
Neighbour(tabs, n) ==
  LET i == CHOOSE j \in DOMAIN tabs : tabs[j] = n
      rest == Remove(tabs, n)
  IN IF i \in DOMAIN rest THEN rest[i] ELSE IF rest = <<>> THEN None ELSE rest[i - 1]
Closed(m, n) ==
  IF ~Contains(m.tabs, n) THEN m
  ELSE [m EXCEPT !.tabs = Remove(@, n), !.active = IF @ = n THEN Neighbour(m.tabs, n) ELSE @]
Confirming(m) == [m EXCEPT !.confirm = IF m.active = @ THEN @ ELSE None]

(* selectNovel: remembered at once, the chapters are asked for             *)
Selects(m, others, n, then) ==
  Asks([m EXCEPT !.current = n], others, "chapters", n, then) /\ shelfKept' = n
-----------------------------------------------------------------------------
(* fetchNovels                                                             *)
Fetch ==
  /\ User /\ Asks(Acted([shelf EXCEPT !.loading = TRUE]), shelfCalls, "list", None, "none")
  /\ UNCHANGED <<shelfKept, shelfServer>>

ServerLists(k) ==
  /\ k.kind = "list" /\ ~k.read
  /\ shelfCalls' = Others(k) \cup {[k EXCEPT !.read = TRUE, !.list = shelfServer.there]}
  /\ UNCHANGED <<shelf, shelfKept, shelfServer>>

(* with nothing current, the work remembered is selected or forgotten      *)
Fetched(k) ==
  /\ k.kind = "list" /\ k.read
  /\ LET m == [shelf EXCEPT !.novels = SetToSortSeq(k.list, >), !.loading = FALSE, !.listed = TRUE]
     IN IF shelf.current = None /\ shelfKept \in k.list
        THEN Selects(m, Others(k), shelfKept, "open")
        ELSE /\ shelf' = m /\ shelfCalls' = Others(k)
             /\ shelfKept' = IF shelf.current = None THEN None ELSE shelfKept
  /\ UNCHANGED shelfServer

FetchFails(k) ==
  /\ k.kind = "list" /\ User
  /\ shelf' = Acted([shelf EXCEPT !.loading = FALSE]) /\ shelfCalls' = Others(k) /\ UNCHANGED <<shelfKept, shelfServer>>
-----------------------------------------------------------------------------
(* Selecting: from the lists or the chip, or by the tab of an overview     *)
SelectAndGoOverview(n) ==
  /\ User /\ Known(n)
  /\ Selects(Confirming(Opened(Acted(shelf), n)), shelfCalls, n, "none") /\ UNCHANGED shelfServer

(* syncNovelForOverview: a work that is not current is selected first, its *)
(* tab comes to the fore when its chapters have been asked for             *)
ToSelect(n) == n # None /\ n # shelf.current /\ Known(n)
SwitchTab(n) ==
  /\ User /\ Contains(shelf.tabs, n) /\ n # shelf.active
  /\ IF ToSelect(n) THEN Selects(Acted(shelf), shelfCalls, n, "activate")
     ELSE shelf' = Confirming(Acted([shelf EXCEPT !.active = n])) /\ UNCHANGED <<shelfKept, shelfCalls>>
  /\ UNCHANGED shelfServer

CloseTab(n) ==
  /\ User /\ Contains(shelf.tabs, n)
  /\ LET m == Confirming(Closed(Acted(shelf), n))
     IN IF shelf.active = n /\ ToSelect(m.active) THEN Selects(m, shelfCalls, m.active, "activate")
        ELSE shelf' = m /\ UNCHANGED <<shelfKept, shelfCalls>>
  /\ UNCHANGED shelfServer

(* deselectNovel, to start a new one: the chapters shown stay              *)
OpenStoryWorkflow ==
  /\ User /\ shelf.current # None
  /\ shelf' = Acted([shelf EXCEPT !.current = None]) /\ shelfKept' = None /\ UNCHANGED <<shelfServer, shelfCalls>>

(* fetchChapters: shown whichever work is current by now; after a restore  *)
(* of the page the overview is opened, even when the chapters did not come *)
ChaptersAnswered(k) ==
  /\ k.kind = "chapters"
  /\ LET m == [shelf EXCEPT !.chaptersOf = k.novel]
     IN shelf' = CASE k.then = "open" -> Confirming(Opened(m, k.novel))
                   [] k.then = "activate" /\ Contains(m.tabs, k.novel) -> Confirming([m EXCEPT !.active = k.novel])
                   [] OTHER -> m
  /\ shelfCalls' = Others(k) /\ UNCHANGED <<shelfKept, shelfServer>>
-----------------------------------------------------------------------------
(* createNovel                                                             *)
Create ==
  /\ User /\ ~shelf.creating
  /\ Asks(Acted([shelf EXCEPT !.creating = TRUE]), shelfCalls, "create", None, "none")
  /\ UNCHANGED <<shelfKept, shelfServer>>

ServerCreates(k) ==
  /\ k.kind = "create" /\ ~k.read /\ shelfServer.made < MaxNovels
  /\ LET n == shelfServer.made + 1
     IN /\ shelfServer' = [there |-> shelfServer.there \cup {n}, made |-> n]
        /\ shelfCalls' = Others(k) \cup {[k EXCEPT !.read = TRUE, !.novel = n]}
  /\ UNCHANGED <<shelf, shelfKept>>

Created(k) ==
  /\ k.kind = "create" /\ k.read
  /\ shelf' = [shelf EXCEPT !.novels = <<k.novel>> \o @, !.creating = FALSE] /\ shelfCalls' = Others(k)
  /\ UNCHANGED <<shelfKept, shelfServer>>

CreateFails(k) ==
  /\ k.kind = "create" /\ ~k.read
  /\ shelf' = [shelf EXCEPT !.creating = FALSE] /\ shelfCalls' = Others(k) /\ UNCHANGED <<shelfKept, shelfServer>>
-----------------------------------------------------------------------------
(* deleteNovel, from the overview that is seen                             *)
AskDelete ==
  /\ User /\ shelf.active # None /\ Known(shelf.active) /\ shelf.confirm = None
  /\ shelf' = Acted([shelf EXCEPT !.confirm = shelf.active]) /\ UNCHANGED <<shelfKept, shelfServer, shelfCalls>>

CancelDelete ==
  /\ shelf.confirm # None
  /\ shelf' = [shelf EXCEPT !.confirm = None] /\ UNCHANGED <<shelfKept, shelfServer, shelfCalls>>

DeleteNovel ==
  /\ shelf.confirm # None /\ shelf.deleting = None /\ Known(shelf.confirm)
  /\ Asks([shelf EXCEPT !.deleting = shelf.confirm], shelfCalls, "delete", shelf.confirm, "none")
  /\ UNCHANGED <<shelfKept, shelfServer>>

ServerDeletes(k) ==
  /\ k.kind = "delete" /\ ~k.read
  /\ shelfServer' = [shelfServer EXCEPT !.there = @ \ {k.novel}]
  /\ shelfCalls' = Others(k) \cup {[k EXCEPT !.read = TRUE]} /\ UNCHANGED <<shelf, shelfKept>>

(* forgotten, left if it is the current one, and its overview closed       *)
Without(m, n) ==
  LET left == [m EXCEPT !.novels = SelectSeq(@, LAMBDA x : x # n), !.deleting = None, !.confirm = None]
  IN Closed(IF m.current = n THEN [left EXCEPT !.current = None, !.chaptersOf = None] ELSE left, n)
Deleted(k) ==
  /\ k.kind = "delete" /\ k.read
  /\ shelf' = Without(shelf, k.novel) /\ shelfKept' = IF shelfKept = k.novel THEN None ELSE shelfKept
  /\ shelfCalls' = Others(k) /\ UNCHANGED shelfServer

DeleteFails(k) ==
  /\ k.kind = "delete" /\ ~k.read /\ User
  /\ shelf' = Acted([shelf EXCEPT !.deleting = None, !.confirm = None]) /\ shelfCalls' = Others(k)
  /\ UNCHANGED <<shelfKept, shelfServer>>

Next ==
  \/ Fetch \/ OpenStoryWorkflow \/ Create \/ AskDelete \/ CancelDelete \/ DeleteNovel
  \/ \E n \in Novels : SelectAndGoOverview(n) \/ SwitchTab(n) \/ CloseTab(n)
  \/ \E k \in shelfCalls :
       \/ ServerLists(k) \/ Fetched(k) \/ FetchFails(k) \/ ChaptersAnswered(k) \/ ServerCreates(k) \/ Created(k)
       \/ CreateFails(k) \/ ServerDeletes(k) \/ Deleted(k) \/ DeleteFails(k)

Spec == Init /\ [][Next]_shelfVars
-----------------------------------------------------------------------------
(* "Loading" and "deleting" are said only while a request is out that will *)
(* take them back (novel-store:84, NovelOverview:61).                      *)
ShelfBusyIsHonest ==
  /\ shelf.loading => \E k \in shelfCalls : k.kind = "list"
  /\ shelf.deleting # None => \E k \in shelfCalls : k.kind = "delete"

(* Once the list has come, the browser remembers the work that is current  *)
(* and no other, whatever is selected, left or deleted meanwhile: a reload *)
(* comes back to it (novel-store:68-79,117,138,148).                       *)
KeptIsCurrent == shelf.listed => shelfKept = shelf.current

=============================================================================
