----------------------------- MODULE MCWebClient ------------------------------
(***************************************************************************)
(* The panels of the page, side by side, for TLC.  They share no state in  *)
(* the models, so a behaviour is of the one panel that has the focus, and  *)
(* the states explored are the sum of the states of each.  The bounds are  *)
(* those of each panel's events, failures and entities.  Five panels are   *)
(* extended, and each states its own property; the others are instances.   *)
(***************************************************************************)
EXTENDS PublishPanel, MemoryPanel, StoryPanel, Socket, DiffViewer

VARIABLES focus, ol, olServer, olJobs, tree, treeServer, treeCalls, fore, foreServer, foreCalls, chat, chatKept,
          chatServer, chatCalls, shelf, shelfKept, shelfServer, shelfCalls, media, mediaServer, mediaCalls,
          pool, poolServer, poolCalls, book, bookKept, bookServer, bookCalls, talk, talkServer, talkCalls,
          find, findServer, findCalls

vars == <<focus, ol, olServer, olJobs, st, stKept, stServer, stCalls, mm, mmKept, mmServer,
          mmCalls, hist, histKept, histServer, histCalls, mile, mileServer, mileCalls, pub,
          pubServer, pubCalls, tree, treeServer, treeCalls, fore, foreServer, foreCalls, diff,
          tool, toolTasks, toolCache, toolCalls, chat, chatKept, chatServer, chatCalls, gal,
          galServer, galCalls, note, noteServer, noteCalls, shelf, shelfKept, shelfServer,
          shelfCalls, link, sockets, page, pageKept, authServer, authCalls, bill, billServer,
          billCalls, media, mediaServer, mediaCalls, pool, poolServer, poolCalls, book, bookKept,
          bookServer, bookCalls, talk, talkServer, talkCalls, find, findServer, findCalls>>

SomeLines == {<<>>, <<1>>, <<1, 1>>, <<1, 2>>}

Ol    == INSTANCE OutlinePanel WITH OlMaxActs <- 2, OlMaxNodes <- 3, OlMaxChapters <- 3, OlMaxEvents <- 2
Tree  == INSTANCE WorldTree WITH MaxEvents <- 5, MaxBranches <- 4
Fore  == INSTANCE Foreshadow WITH MaxEvents <- 2, MaxThreads <- 2
Chat  == INSTANCE AiChat WITH MaxEvents <- 5, MaxSessions <- 2
Shelf == INSTANCE Shelf WITH MaxEvents <- 4, MaxNovels <- 4
Media == INSTANCE MediaDesk WITH MaxEvents <- 3, MaxContents <- 3, MaxTopics <- 2
Read  == INSTANCE Reader WITH MaxEvents <- 3, MaxTalk <- 2, MaxChapters <- 2, MaxRemarks <- 2,
                              MaxWorks <- 4, PageSize <- 2

Panels ==
  {"outline", "story", "memory", "versions", "milestones", "publish", "tree", "foreshadow",
    "diff", "tools", "chat", "gallery", "notices", "shelf", "socket", "auth", "billing",
    "media", "topics", "book", "talk", "find"}

Init ==
  /\ focus \in Panels
  /\ Ol!OlInit
  /\ StInit /\ (focus = "story" \/ st.novel = 1)
  /\ MmInit /\ (focus = "memory" \/ (mm.items[1].gate.mode = "none" /\ mm.nodes = <<1, 2>>))
  /\ Hist!Init
  /\ Mile!Init
  /\ PubInit /\ (focus = "publish" \/ ~pubServer.work)
  /\ Tree!Init
  /\ Fore!Init
  /\ DiffInit
  /\ Tool!Init
  /\ Chat!Init /\ (focus = "chat" \/ chat.novel = 1)
  /\ Gal!Init
  /\ Note!Init
  /\ Shelf!Init /\ (focus = "shelf" \/ shelfKept = 0)
  /\ LinkInit /\ (focus = "socket" \/ ~link.desktop)
  /\ Auth!Init /\ (focus = "auth" \/ pageKept = 0)
  /\ Bill!Init
  /\ Media!MediaInit /\ Media!PoolInit
  /\ Read!BookInit /\ Read!TalkInit /\ Read!FindInit

Idle(f) ==
  /\ UNCHANGED focus
  /\ f = "outline" \/ UNCHANGED <<ol, olServer, olJobs>>
  /\ f = "story" \/ UNCHANGED <<st, stKept, stServer, stCalls>>
  /\ f = "memory" \/ UNCHANGED <<mm, mmKept, mmServer, mmCalls>>
  /\ f = "versions" \/ UNCHANGED <<hist, histKept, histServer, histCalls>>
  /\ f = "milestones" \/ UNCHANGED <<mile, mileServer, mileCalls>>
  /\ f = "publish" \/ UNCHANGED <<pub, pubServer, pubCalls>>
  /\ f = "tree" \/ UNCHANGED <<tree, treeServer, treeCalls>>
  /\ f = "foreshadow" \/ UNCHANGED <<fore, foreServer, foreCalls>>
  /\ f = "diff" \/ UNCHANGED diff
  /\ f = "tools" \/ UNCHANGED <<tool, toolTasks, toolCache, toolCalls>>
  /\ f = "chat" \/ UNCHANGED <<chat, chatKept, chatServer, chatCalls>>
  /\ f = "gallery" \/ UNCHANGED <<gal, galServer, galCalls>>
  /\ f = "notices" \/ UNCHANGED <<note, noteServer, noteCalls>>
  /\ f = "shelf" \/ UNCHANGED <<shelf, shelfKept, shelfServer, shelfCalls>>
  /\ f = "socket" \/ UNCHANGED <<link, sockets>>
  /\ f = "auth" \/ UNCHANGED <<page, pageKept, authServer, authCalls>>
  /\ f = "billing" \/ UNCHANGED <<bill, billServer, billCalls>>
  /\ f = "media" \/ UNCHANGED <<media, mediaServer, mediaCalls>>
  /\ f = "topics" \/ UNCHANGED <<pool, poolServer, poolCalls>>
  /\ f = "book" \/ UNCHANGED <<book, bookKept, bookServer, bookCalls>>
  /\ f = "talk" \/ UNCHANGED <<talk, talkServer, talkCalls>>
  /\ f = "find" \/ UNCHANGED <<find, findServer, findCalls>>

Next ==
  \/ focus = "outline" /\ Ol!OlNext /\ Idle("outline")
  \/ focus = "story" /\ StNext /\ Idle("story")
  \/ focus = "memory" /\ MmNext /\ Idle("memory")
  \/ focus = "versions" /\ Hist!Next /\ Idle("versions")
  \/ focus = "milestones" /\ Mile!Next /\ Idle("milestones")
  \/ focus = "publish" /\ PubNext /\ Idle("publish")
  \/ focus = "tree" /\ Tree!Next /\ Idle("tree")
  \/ focus = "foreshadow" /\ Fore!Next /\ Idle("foreshadow")
  \/ focus = "diff" /\ DiffNext /\ Idle("diff")
  \/ focus = "tools" /\ Tool!Next /\ Idle("tools")
  \/ focus = "chat" /\ Chat!Next /\ Idle("chat")
  \/ focus = "gallery" /\ Gal!Next /\ Idle("gallery")
  \/ focus = "notices" /\ Note!Next /\ Idle("notices")
  \/ focus = "shelf" /\ Shelf!Next /\ Idle("shelf")
  \/ focus = "socket" /\ LinkNext /\ Idle("socket")
  \/ focus = "auth" /\ Auth!Next /\ Idle("auth")
  \/ focus = "billing" /\ Bill!Next /\ Idle("billing")
  \/ focus = "media" /\ Media!MediaNext /\ Idle("media")
  \/ focus = "topics" /\ Media!PoolNext /\ Idle("topics")
  \/ focus = "book" /\ Read!BookNext /\ Idle("book")
  \/ focus = "talk" /\ Read!TalkNext /\ Idle("talk")
  \/ focus = "find" /\ Read!FindNext /\ Idle("find")

Spec == Init /\ [][Next]_vars
-------------------------------------------------------------------------------
(* A part out of focus stays as it began, so it is judged in focus.        *)
Of(f, claim) == focus = f => claim

(* Whatever the page says is going on - "loading", "saving", "publishing", *)
(* "the agent is writing", "signing in" - is said only while a request or  *)
(* a timer is out that will take it back, through every overlap, failure   *)
(* and cancellation: no spinner and no disabled button stays for good, but *)
(* that of a draft card whose first stage failed or that was read back     *)
(* from localStorage (ChatBusyIsHonest names both).                        *)
BusyIsHonest ==
  /\ Of("memory", MemoryBusyIsHonest) /\ Of("versions", Hist!VersionBusyIsHonest)
  /\ Of("milestones", Mile!MilestoneBusyIsHonest) /\ Of("publish", PublishBusyIsHonest)
  /\ Of("tree", Tree!TreeBusyIsHonest) /\ Of("foreshadow", Fore!ForeBusyIsHonest)
  /\ Of("tools", Tool!ToolBusyIsHonest) /\ Of("chat", Chat!ChatBusyIsHonest)
  /\ Of("gallery", Gal!GalleryBusyIsHonest) /\ Of("notices", Note!NoteBusyIsHonest)
  /\ Of("shelf", Shelf!ShelfBusyIsHonest) /\ Of("auth", Auth!WaitingIsWoken)
  /\ Of("billing", Bill!BillBusyIsHonest) /\ Of("media", Media!MediaBusyIsHonest)
  /\ Of("book", Read!BookBusyIsHonest) /\ Of("talk", Read!TalkBusyIsHonest) /\ Of("find", Read!FindBusyIsHonest)

(* The chapters stand in the order of the outline that binds them,         *)
(* whatever is moved, bound, deleted or loaded (outline-store).            *)
ChaptersFollowOutline == Of("outline", Ol!ChaptersFollowOutline)

(* What is shown is what there is: pictures of the filter, branches of the *)
(* list, ends of tasks that have ended, messages that begin with those     *)
(* kept; what is kept of the current work is the current work; and the     *)
(* contents and topics of the media desk are those of the server.  A       *)
(* reader resumes where the work was left, likes are counted and shown as  *)
(* they are, and what is found is a beginning of what there is to find.    *)
ShownIsTrue ==
  /\ Of("gallery", Gal!ShownBelongsToFilter) /\ Of("tree", Tree!EveryBranchIsShown)
  /\ Of("notices", Note!NoticesTellTheTruth) /\ Of("chat", Chat!ShownExtendsKept)
  /\ Of("shelf", Shelf!KeptIsCurrent) /\ Of("media", Media!MediaIsStored) /\ Of("topics", Media!TopicsAreStored)
  /\ Of("book", Read!ResumesWhereLeft) /\ Of("find", Read!FoundIsABeginning)
  /\ Of("talk", Read!MarksAreCounted /\ Read!RemarksAreTrue)
===============================================================================
