-------------------------------- MODULE Gallery --------------------------------
(***************************************************************************)
(* The gallery of pictures: the list loaded page by page under a filter,   *)
(* uploads, deletion of one or of a selection (gallery-store, GalleryGrid, *)
(* image-client).  A picture is its number, newer ones are greater; a page *)
(* holds one picture; of the list shown what is in it is kept.             *)
(* Thumbnails, order and layout, and copying of links are left out.        *)
(***************************************************************************)
EXTENDS Naturals, Sequences, FiniteSetsExt

CONSTANTS MaxEvents,    \* bound: what the user does and what fails
          MaxPictures   \* bound: pictures ever uploaded

VARIABLES gal, galServer, galCalls

galVars == <<gal, galServer, galCalls>>

Scopes == {"memo", "novel"}
Filters == Scopes \cup {"all"}
NoPicture == 0
NoCursor == 0
Matches(s, f) == f = "all" \/ s = f

(* Two pictures to begin with, one of them used by a chapter.              *)
Init ==
  /\ gal = [images |-> {}, cursor |-> NoCursor, loading |-> FALSE, filter |-> "all", epoch |-> 0,
            selection |-> {}, batch |-> FALSE, uploading |-> FALSE, busy |-> FALSE,
            confirm |-> NoPicture, force |-> NoPicture, ask |-> FALSE, foreign |-> {},
            asked |-> 0, left |-> MaxEvents]
  /\ galServer = [scope |-> <<"memo", "novel">>, there |-> {1, 2}, used |-> {1}]
  /\ galCalls = {}

User == gal.left > 0
Dialog == gal.confirm # NoPicture \/ gal.force # NoPicture \/ gal.ask
-----------------------------------------------------------------------------
(* setFilter and loadMore                                                  *)
ListCall(m) ==
  [kind |-> "list", id |-> m.asked + 1, epoch |-> m.epoch, filter |-> m.filter, cursor |-> m.cursor,
   read |-> FALSE, page |-> {}, next |-> NoCursor]
Asking(m) == [m EXCEPT !.loading = TRUE, !.asked = @ + 1]

SetFilter(f) ==
  /\ User /\ ~Dialog /\ f # gal.filter
  /\ LET m == [gal EXCEPT !.filter = f, !.images = {}, !.cursor = NoCursor, !.selection = {},
                          !.epoch = @ + 1, !.foreign = {}, !.left = @ - 1]
     IN gal' = Asking(m) /\ galCalls' = galCalls \cup {ListCall(m)}
  /\ UNCHANGED galServer

(* the end of the list is scrolled into view, or the panel becomes visible *)
LoadMore ==
  /\ ~gal.loading /\ ~(gal.images # {} /\ gal.cursor = NoCursor) /\ User
  /\ gal' = [Asking(gal) EXCEPT !.left = @ - 1]
  /\ galCalls' = galCalls \cup {ListCall(gal)}
  /\ UNCHANGED galServer

(* listImages: newest first, from the cursor on; a full page has a cursor  *)
Older(c) == {p \in galServer.there : Matches(galServer.scope[p], c.filter) /\ (c.cursor = NoCursor \/ p < c.cursor)}
ServerLists(c) ==
  /\ c.kind = "list" /\ ~c.read
  /\ \/ Older(c) = {} /\ galCalls' = (galCalls \ {c}) \cup {[c EXCEPT !.read = TRUE]}
     \/ \E p \in Older(c) :
          /\ \A q \in Older(c) : q <= p
          /\ galCalls' = (galCalls \ {c}) \cup {[c EXCEPT !.read = TRUE, !.page = {p}, !.next = p]}
  /\ UNCHANGED <<gal, galServer>>

ListAnswered(c) ==
  /\ c.kind = "list" /\ c.read
  /\ gal' = IF c.epoch # gal.epoch THEN gal
            ELSE [gal EXCEPT !.images = @ \cup c.page, !.cursor = c.next, !.loading = FALSE]
  /\ galCalls' = galCalls \ {c} /\ UNCHANGED galServer

ListFails(c) ==
  /\ c.kind = "list" /\ User
  /\ gal' = [IF c.epoch # gal.epoch THEN gal ELSE [gal EXCEPT !.loading = FALSE] EXCEPT !.left = @ - 1]
  /\ galCalls' = galCalls \ {c} /\ UNCHANGED galServer
-----------------------------------------------------------------------------
(* handleUploadPick: under the filter of the moment, into the list of the  *)
(* moment it is done.                                                      *)
Upload ==
  /\ User /\ ~gal.uploading /\ ~Dialog
  /\ gal' = [gal EXCEPT !.uploading = TRUE, !.asked = @ + 1, !.left = @ - 1]
  /\ galCalls' = galCalls \cup {[kind |-> "upload", id |-> gal.asked + 1, read |-> FALSE, picture |-> NoPicture,
                                 scope |-> IF gal.filter = "all" THEN "memo" ELSE gal.filter]}
  /\ UNCHANGED galServer

(* a picture the user has already is not stored twice                      *)
ServerStores(c) ==
  /\ c.kind = "upload" /\ ~c.read
  /\ \E p \in galServer.there \cup {Len(galServer.scope) + 1} :
       /\ p <= MaxPictures
       /\ galServer' = IF p \in galServer.there THEN galServer
                       ELSE [galServer EXCEPT !.scope = Append(@, c.scope), !.there = @ \cup {p}]
       /\ galCalls' = (galCalls \ {c}) \cup {[c EXCEPT !.read = TRUE, !.picture = p]}
  /\ UNCHANGED gal

Uploaded(c) ==
  /\ c.kind = "upload" /\ c.read
  /\ gal' = [gal EXCEPT !.images = @ \cup {c.picture}, !.uploading = FALSE,
                        !.foreign = IF Matches(galServer.scope[c.picture], gal.filter) THEN @ ELSE @ \cup {c.picture}]
  /\ galCalls' = galCalls \ {c} /\ UNCHANGED galServer

UploadFails(c) ==
  /\ c.kind = "upload" /\ ~c.read
  /\ gal' = [gal EXCEPT !.uploading = FALSE] /\ galCalls' = galCalls \ {c} /\ UNCHANGED galServer
-----------------------------------------------------------------------------
(* Deletion of one: a picture in use is refused until it is forced         *)
AskDelete(p) ==
  /\ User /\ ~gal.batch /\ ~Dialog /\ p \in gal.images
  /\ gal' = [gal EXCEPT !.confirm = p, !.left = @ - 1] /\ UNCHANGED <<galServer, galCalls>>

CloseDialogs ==
  /\ Dialog /\ ~gal.busy
  /\ gal' = [gal EXCEPT !.confirm = NoPicture, !.force = NoPicture, !.ask = FALSE] /\ UNCHANGED <<galServer, galCalls>>

DoDelete(force) ==
  /\ ~gal.busy
  /\ LET p == IF force THEN gal.force ELSE gal.confirm
     IN /\ p # NoPicture
        /\ galCalls' = galCalls \cup {[kind |-> "delete", id |-> gal.asked + 1, read |-> FALSE, picture |-> p,
                                       force |-> force, ok |-> FALSE]}
  /\ gal' = [gal EXCEPT !.busy = TRUE, !.asked = @ + 1] /\ UNCHANGED galServer

ServerDeletes(c) ==
  /\ c.kind = "delete" /\ ~c.read
  /\ LET ok == c.force \/ c.picture \notin galServer.used
     IN /\ galServer' = IF ok THEN [galServer EXCEPT !.there = @ \ {c.picture}] ELSE galServer
        /\ galCalls' = (galCalls \ {c}) \cup {[c EXCEPT !.read = TRUE, !.ok = ok]}
  /\ UNCHANGED gal

Deleted(c) ==
  /\ c.kind = "delete" /\ c.read
  /\ gal' = IF c.ok THEN [gal EXCEPT !.images = @ \ {c.picture}, !.selection = @ \ {c.picture},
                                     !.confirm = NoPicture, !.force = NoPicture, !.busy = FALSE]
            ELSE [gal EXCEPT !.confirm = NoPicture, !.force = c.picture, !.busy = FALSE]
  /\ galCalls' = galCalls \ {c} /\ UNCHANGED galServer

(* the dialog stays open; a selection may be deleted in part               *)
DeleteFails(c) ==
  /\ c.kind \in {"delete", "batch"} /\ ~c.read /\ User
  /\ gal' = [gal EXCEPT !.busy = FALSE, !.left = @ - 1] /\ galCalls' = galCalls \ {c}
  /\ \E gone \in SUBSET (IF c.kind = "batch" THEN c.pictures \ galServer.used ELSE {}) :
       galServer' = [galServer EXCEPT !.there = @ \ gone]

-----------------------------------------------------------------------------
(* Selection and deletion of what is selected                              *)
ToggleBatch ==
  /\ User /\ ~Dialog
  /\ gal' = [gal EXCEPT !.batch = ~@, !.selection = IF gal.batch THEN {} ELSE @, !.left = @ - 1]
  /\ UNCHANGED <<galServer, galCalls>>

ToggleSelect(p) ==
  /\ User /\ gal.batch /\ ~Dialog /\ p \in gal.images
  /\ gal' = [gal EXCEPT !.selection = SymDiff(@, {p}), !.left = @ - 1] /\ UNCHANGED <<galServer, galCalls>>

SelectAllVisible ==
  /\ User /\ gal.batch /\ ~Dialog
  /\ gal' = [gal EXCEPT !.selection = @ \cup gal.images, !.left = @ - 1] /\ UNCHANGED <<galServer, galCalls>>

AskBatch ==
  /\ User /\ gal.batch /\ ~Dialog /\ gal.selection # {}
  /\ gal' = [gal EXCEPT !.ask = TRUE, !.left = @ - 1] /\ UNCHANGED <<galServer, galCalls>>

DoBatchDelete ==
  /\ gal.ask /\ ~gal.busy
  /\ galCalls' = galCalls \cup {[kind |-> "batch", id |-> gal.asked + 1, read |-> FALSE,
                                 pictures |-> gal.selection, skipped |-> {}]}
  /\ gal' = [gal EXCEPT !.busy = TRUE, !.asked = @ + 1] /\ UNCHANGED galServer

ServerDeletesBatch(c) ==
  /\ c.kind = "batch" /\ ~c.read
  /\ LET skipped == c.pictures \cap galServer.there \cap galServer.used
     IN /\ galServer' = [galServer EXCEPT !.there = @ \ (c.pictures \ skipped)]
        /\ galCalls' = (galCalls \ {c}) \cup {[c EXCEPT !.read = TRUE, !.skipped = skipped]}
  /\ UNCHANGED gal

(* what is selected now and was not refused is gone                        *)
BatchDeleted(c) ==
  /\ c.kind = "batch" /\ c.read
  /\ gal' = [gal EXCEPT !.images = @ \ (gal.selection \ c.skipped),
                        !.selection = @ \cap c.skipped, !.ask = FALSE, !.busy = FALSE]
  /\ galCalls' = galCalls \ {c} /\ UNCHANGED galServer

Next ==
  \/ LoadMore \/ Upload \/ CloseDialogs \/ DoDelete(FALSE) \/ DoDelete(TRUE)
  \/ ToggleBatch \/ SelectAllVisible \/ AskBatch \/ DoBatchDelete
  \/ \E f \in Filters : SetFilter(f)
  \/ \E p \in 1..MaxPictures : AskDelete(p) \/ ToggleSelect(p)
  \/ \E c \in galCalls :
       \/ ServerLists(c) \/ ListAnswered(c) \/ ListFails(c) \/ ServerStores(c) \/ Uploaded(c) \/ UploadFails(c)
       \/ ServerDeletes(c) \/ Deleted(c) \/ DeleteFails(c) \/ ServerDeletesBatch(c) \/ BatchDeleted(c)

Spec == Init /\ [][Next]_galVars
-----------------------------------------------------------------------------
(* "Loading" is said only while the list of the filter shown is being      *)
(* asked for: nothing else would ever take it back (gallery-store, epoch). *)
GalleryBusyIsHonest ==
  /\ gal.loading => \E c \in galCalls : c.kind = "list" /\ c.epoch = gal.epoch
  /\ gal.busy => \E c \in galCalls : c.kind \in {"delete", "batch"}

(* A picture shown belongs to the filter, whatever answers of an earlier   *)
(* filter were still out (gallery-store:41) - but for the uploads, which   *)
(* are put at the head of whichever list is shown.                         *)
ShownBelongsToFilter ==
  \A p \in gal.images : Matches(galServer.scope[p], gal.filter) \/ p \in gal.foreign

(* What is taken off the list by a deletion is gone from the server: a     *)
(* picture in use and skipped stays in sight (gallery-store, batchRemove). *)
OnlyTheDeletedDisappear ==
  [][gal'.epoch = gal.epoch => (gal.images \ gal'.images) \cap galServer'.there = {}]_galVars

=============================================================================
