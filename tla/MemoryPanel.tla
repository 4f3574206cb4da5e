---------------------------- MODULE MemoryPanel ----------------------------
(***************************************************************************)
(* The long-term memory of a novel, or of the media account, in the web    *)
(* client: the stores (memory-store, media-memory-store), which show every *)
(* change at once and then save the whole list under the version they know *)
(* of; the panel and the editor of an item (MemoryPanel,                   *)
(* MemoryEditorModal); and the gates that say what of it the AI may read   *)
(* where in the outline, evaluated by the page (memory-access) and by the  *)
(* server (agent_context).                                                 *)
(* An item is its id, the number of its last edit, its pin and its gate;   *)
(* outline nodes are numbers, their order the outline's.  apart remembers  *)
(* what has parted the page's list from the server's since the last load.  *)
(***************************************************************************)
EXTENDS Naturals, Sequences, SequencesExt, FiniteSetsExt

CONSTANTS MmMaxEvents    \* bound: what the user and another device do, and what fails

VARIABLES mm, mmKept, mmServer, mmCalls

mmVars == <<mm, mmKept, mmServer, mmCalls>>

MmNodes == {1, 2}
Soft == {"ignore", "restricted_visible", "partial_visible"}
Hard == {"disabled", "restricted_disabled", "partial_disabled"}
Restricted == {"restricted_visible", "restricted_disabled"}
Partial    == {"partial_visible", "partial_disabled"}
NoGate == [mode |-> "none", unlock |-> 0, visible |-> {}]
Gates ==
  {NoGate} \cup {[NoGate EXCEPT !.mode = m] : m \in {"ignore", "disabled"}}
    \cup [mode : Restricted, unlock : MmNodes \cup {0}, visible : {{}}]
    \cup [mode : Partial, unlock : {0}, visible : SUBSET MmNodes]

Item(i, g) == [id |-> i, rev |-> 0, pinned |-> FALSE, order |-> i, gate |-> g]
NoForm == [item |-> 0, fresh |-> FALSE, pinned |-> FALSE, gate |-> NoGate, pictures |-> 0]
Unknown == 0       \* no version yet: the save is not checked

MmInit ==
  \E g \in Gates, scope \in {"novel", "media"}, nodes \in {<<1, 2>>, <<2>>, <<>>} :
    /\ scope = "media" => nodes = <<>> /\ g.mode \in {"none", "ignore", "disabled"}
    /\ g.mode \in {"none", "restricted_disabled"} \/ nodes = <<1, 2>>
    /\ mm = [scope |-> scope, items |-> <<Item(1, g)>>, version |-> Unknown, seq |-> 0, loading |-> FALSE,
             nodes |-> nodes, form |-> NoForm, saving |-> FALSE, uploading |-> FALSE, drag |-> 0,
             apart |-> FALSE, made |-> 2, left |-> MmMaxEvents]
    /\ mmKept = <<Item(1, g)>>
    /\ mmServer = [items |-> <<Item(1, g), Item(2, NoGate)>>, version |-> 1,
                   nodes |-> IF scope = "novel" THEN <<1, 2>> ELSE <<>>]
    /\ mmCalls = {}

MmCall(kind, data) ==
  [kind |-> kind, data |-> data,
   id |-> CHOOSE i \in 1..(Cardinality(mmCalls) + 1) : \A c \in mmCalls : c.id # i]
-----------------------------------------------------------------------------
(* The gates                                                               *)
Pos(nodes, n) == IF n \in ToSet(nodes) THEN SelectInSeq(nodes, LAMBDA x : x = n) ELSE 0

(* memory-access, evaluateAccess: what the page says of a gate at a place  *)
Verdict(g, nodes, target) ==
  LET at     == Pos(nodes, target)
      unlock == Pos(nodes, g.unlock)
      open   == \/ g.mode \in Restricted /\ at > 0 /\ unlock > 0 /\ at >= unlock
                \/ g.mode \in Partial /\ at > 0 /\ target \in g.visible
  IN [inject |-> g.mode \notin Hard \/ open,
      state  |-> IF g.mode = "ignore" THEN "ignore"
                 ELSE IF g.mode \in Soft /\ ~open THEN "hidden" ELSE "visible"]

(* mutant: any place of the outline opens a restricted gate, the places    *)
(* before the one it names too                                             *)
ResolvedAnywhere(g, nodes, target) ==
  LET passed == target \in ToSet(nodes) /\ g.unlock \in ToSet(nodes)
      chosen == target \in ToSet(nodes) /\ target \in g.visible
  IN IF g.mode = "none" \/ (g.mode \in Restricted /\ passed) \/ (g.mode \in Partial /\ chosen) THEN {"visible"}
     ELSE IF g.mode = "ignore" THEN {"ignore"} ELSE IF g.mode \in Soft THEN {"hidden"} ELSE {}

(* agent_context, resolveMemoryItems: what the AI is given                 *)
Resolved(g, nodes, target) ==
  LET placed == target \in ToSet(nodes)
      passed == placed /\ g.unlock \in ToSet(nodes) /\ Pos(nodes, target) >= Pos(nodes, g.unlock)
      chosen == placed /\ target \in g.visible
  IN CASE g.mode = "none"                -> {"visible"}
       [] g.mode = "disabled"            -> {}
       [] g.mode = "restricted_disabled" -> IF passed THEN {"visible"} ELSE {}
       [] g.mode = "partial_disabled"    -> IF chosen THEN {"visible"} ELSE {}
       [] g.mode = "ignore"              -> {"ignore"}
       [] g.mode = "restricted_visible"  -> IF passed THEN {"visible"} ELSE {"hidden"}
       [] g.mode = "partial_visible"     -> IF chosen THEN {"visible"} ELSE {"hidden"}

(* handleSubmit: nodes the page does not know of are dropped; no gate is   *)
(* no field, and the gate the item had stays (updateItem merges)           *)
Submitted(g, old, nodes) ==
  IF g.mode = "none" THEN old
  ELSE [g EXCEPT !.unlock = IF @ \in ToSet(nodes) THEN @ ELSE 0, !.visible = @ \cap ToSet(nodes)]
-----------------------------------------------------------------------------
(* loadMemory: an answer overtaken by a newer load is dropped - by the     *)
(* store of a novel, not by that of the media account                      *)
Loading(m) == [m EXCEPT !.seq = @ + 1, !.loading = TRUE]
LoadCall(m) == MmCall("load", [seq |-> m.seq + 1, items |-> mmServer.items, version |-> mmServer.version])
Overtaken(c) == mm.scope = "novel" /\ c.data.seq # mm.seq

(* the window of an item that is gone closes                               *)
WithItems(m, items) ==
  [m EXCEPT !.items = items,
            !.form = IF @.item = 0 \/ \E k \in DOMAIN items : items[k].id = @.item THEN @ ELSE NoForm]

LoadMemory ==
  /\ mm.left > 0
  /\ mm' = [Loading(mm) EXCEPT !.left = @ - 1]
  /\ mmCalls' = mmCalls \cup {LoadCall(mm)} /\ UNCHANGED <<mmKept, mmServer>>

(* a load that crosses a save of the page undoes what is shown of it       *)
SavesOut == {c \in mmCalls : c.kind = "save"}
LoadMemoryAnswered(c) ==
  /\ c.kind = "load"
  /\ mm' = IF Overtaken(c) THEN mm
           ELSE [WithItems(mm, c.data.items) EXCEPT !.version = c.data.version, !.loading = FALSE,
                                                    !.apart = SavesOut # {}]
  /\ mmCalls' = mmCalls \ {c} /\ UNCHANGED <<mmKept, mmServer>>

(* what localStorage has, which no load has written; the version stays     *)
LoadMemoryFails(c) ==
  /\ c.kind = "load" /\ mm.left > 0
  /\ mm' = [IF Overtaken(c) THEN mm ELSE [WithItems(mm, mmKept) EXCEPT !.loading = FALSE, !.apart = TRUE]
              EXCEPT !.left = @ - 1]
  /\ mmCalls' = mmCalls \ {c} /\ UNCHANGED <<mmKept, mmServer>>

(* commit: on the page, in localStorage, then to the server, which may     *)
(* take two saves in the other order                                       *)
CommitItems(m, items) ==
  /\ mm' = [WithItems(m, items) EXCEPT !.left = @ - 1, !.apart = @ \/ SavesOut # {}]
  /\ mmKept' = items
  /\ mmCalls' = mmCalls \cup {MmCall("save", [items |-> items, version |-> mm.version, form |-> m.saving])}
  /\ UNCHANGED mmServer

Accepted(c) == c.data.version \in {Unknown, mmServer.version}
FormDone(m, c) == IF c.data.form THEN [m EXCEPT !.saving = FALSE, !.form = NoForm] ELSE m

Overwritten(c) == [mmServer EXCEPT !.items = c.data.items, !.version = @ + 1]

SaveMemoryAnswered(c) ==
  /\ c.kind = "save" /\ Accepted(c)
  /\ mmServer' = Overwritten(c)
  /\ mm' = [FormDone(mm, c) EXCEPT !.version = mmServer.version + 1]
  /\ mmCalls' = mmCalls \ {c} /\ UNCHANGED mmKept

(* 409: "another device was faster", load again - what was edited is gone  *)
SaveMemoryConflicts(c) ==
  /\ c.kind = "save" /\ ~Accepted(c)
  /\ mm' = [Loading(FormDone(mm, c)) EXCEPT !.apart = TRUE]
  /\ mmCalls' = (mmCalls \ {c}) \cup {LoadCall(mm)} /\ UNCHANGED <<mmKept, mmServer>>

(* "saved locally, to be synchronised later": by no code; or the server    *)
(* has stored it and the answer is lost                                    *)
SaveMemoryFails(c) ==
  /\ c.kind = "save" /\ mm.left > 0
  /\ mm' = [FormDone(mm, c) EXCEPT !.left = @ - 1, !.apart = TRUE]
  /\ mmServer' = mmServer \/ (Accepted(c) /\ mmServer' = Overwritten(c))
  /\ mmCalls' = mmCalls \ {c} /\ UNCHANGED mmKept

OtherDevice ==
  /\ mm.left > 0 /\ mmServer.version < 3
  /\ mmServer' = [mmServer EXCEPT !.items = Append(@, Item(mm.made + 1, NoGate)), !.version = @ + 1]
  /\ mm' = [mm EXCEPT !.made = @ + 1, !.left = @ - 1] /\ UNCHANGED <<mmKept, mmCalls>>
-----------------------------------------------------------------------------
(* The panel                                                               *)
Change(k, item) == CommitItems(mm, [mm.items EXCEPT ![k] = item])

TogglePin(k) == mm.left > 0 /\ Change(k, [mm.items[k] EXCEPT !.pinned = ~@, !.rev = @ + 1])

RemoveItem(k) == mm.left > 0 /\ CommitItems(mm, RemoveAt(mm.items, k))

(* pinned first, then by their order                                       *)
Sorted(items) ==
  SetToSortSeq(DOMAIN items,
    LAMBDA j, k : IF items[j].pinned # items[k].pinned THEN items[j].pinned
                  ELSE \/ items[j].order < items[k].order
                       \/ items[j].order = items[k].order /\ j < k)

DragStart(k) == mm.drag = 0 /\ mm' = [mm EXCEPT !.drag = mm.items[k].id] /\ UNCHANGED <<mmKept, mmServer, mmCalls>>

(* handleDrop: the item dragged goes to the place of the other, and all    *)
(* are numbered anew                                                       *)
Dropped(items, from, to) ==
  LET shown == Sorted(items)
      moved == InsertAt(RemoveAt(shown, from), to, shown[from])
  IN [k \in DOMAIN items |-> [items[k] EXCEPT !.order = SelectInSeq(moved, LAMBDA x : x = k)]]

Drop(k) ==
  LET from == SelectInSeq(Sorted(mm.items), LAMBDA x : mm.items[x].id = mm.drag)
      to   == SelectInSeq(Sorted(mm.items), LAMBDA x : x = k)
  IN /\ mm.drag # 0 /\ from # 0 /\ from # to /\ mm.left > 0
     /\ CommitItems([mm EXCEPT !.drag = 0], Dropped(mm.items, from, to))

DragEnd == mm.drag # 0 /\ mm' = [mm EXCEPT !.drag = 0] /\ UNCHANGED <<mmKept, mmServer, mmCalls>>
-----------------------------------------------------------------------------
(* The editor of an item, which reads the item once, when it opens         *)
OpenCreate ==
  /\ mm.left > 0 /\ mm.form = NoForm
  /\ mm' = [mm EXCEPT !.form = [NoForm EXCEPT !.fresh = TRUE], !.left = @ - 1]
  /\ UNCHANGED <<mmKept, mmServer, mmCalls>>

OpenEdit(k) ==
  /\ mm.left > 0 /\ mm.form = NoForm
  /\ mm' = [mm EXCEPT !.form = [NoForm EXCEPT !.item = mm.items[k].id, !.pinned = mm.items[k].pinned,
                                              !.gate = mm.items[k].gate], !.left = @ - 1]
  /\ UNCHANGED <<mmKept, mmServer, mmCalls>>

CloseEditor ==
  /\ mm.form # NoForm /\ mm' = [mm EXCEPT !.form = NoForm, !.saving = FALSE]
  /\ UNCHANGED <<mmKept, mmServer, mmCalls>>

(* what the form offers: of a media item, only the gates without a place   *)
PickGate(g) ==
  /\ mm.form # NoForm /\ g # mm.form.gate
  /\ mm.scope = "media" => g.mode \in {"none", "ignore", "disabled"}
  /\ g.mode \in Restricted => g.unlock \in ToSet(mm.nodes) \cup {0}
  /\ g.mode \in Partial => g.visible \subseteq ToSet(mm.nodes)
  /\ mm.left > 0 /\ mm' = [mm EXCEPT !.form.gate = g, !.left = @ - 1]
  /\ UNCHANGED <<mmKept, mmServer, mmCalls>>

Upload ==
  /\ mm.form # NoForm /\ ~mm.uploading /\ mm.left > 0
  /\ mm' = [mm EXCEPT !.uploading = TRUE, !.left = @ - 1]
  /\ mmCalls' = mmCalls \cup {MmCall("upload", 0)} /\ UNCHANGED <<mmKept, mmServer>>

UploadAnswered(c) ==
  /\ c.kind = "upload"
  /\ \E n \in {0, 1} : mm' = [mm EXCEPT !.uploading = FALSE,
                                        !.form.pictures = IF mm.form = NoForm THEN 0 ELSE @ + n]
  /\ mmCalls' = mmCalls \ {c} /\ UNCHANGED <<mmKept, mmServer>>

Submit ==
  LET f == mm.form
      k == SelectInSeq(mm.items, LAMBDA x : x.id = f.item)
      m == [mm EXCEPT !.saving = TRUE, !.made = @ + (IF f.fresh THEN 1 ELSE 0)]
  IN
  /\ f # NoForm /\ ~mm.saving /\ mm.left > 0 /\ (f.fresh \/ k # 0)
  /\ IF f.fresh
       THEN CommitItems(m, <<[Item(mm.made + 1, Submitted(f.gate, NoGate, mm.nodes)) EXCEPT !.pinned = f.pinned]>>
                             \o mm.items)
       ELSE CommitItems(m, [mm.items EXCEPT ![k].rev = @ + 1, ![k].pinned = f.pinned,
                                            ![k].gate = Submitted(f.gate, @, mm.nodes)])

(* the outline changes, on the page or on the server; and the one takes    *)
(* the other's, by a save or a load                                        *)
OutlineMoves ==
  /\ mm.scope = "novel" /\ mm.left > 0
  /\ \E nodes \in {<<1, 2>>, <<2, 1>>, <<2>>} \ {mm.nodes} :
       mm' = [mm EXCEPT !.nodes = nodes, !.left = @ - 1]
  /\ UNCHANGED <<mmKept, mmServer, mmCalls>>

OutlineSaved ==
  /\ mm.scope = "novel" /\ mmServer' = [mmServer EXCEPT !.nodes = mm.nodes]
  /\ UNCHANGED <<mm, mmKept, mmCalls>>

OutlineLoaded ==
  /\ mm.scope = "novel" /\ mm' = [mm EXCEPT !.nodes = mmServer.nodes]
  /\ UNCHANGED <<mmKept, mmServer, mmCalls>>

MmNext ==
  \/ LoadMemory \/ OtherDevice \/ DragEnd \/ OpenCreate \/ CloseEditor \/ Upload \/ Submit
  \/ OutlineMoves \/ OutlineSaved \/ OutlineLoaded
  \/ \E k \in DOMAIN mm.items : TogglePin(k) \/ RemoveItem(k) \/ DragStart(k) \/ Drop(k) \/ OpenEdit(k)
  \/ \E g \in Gates : PickGate(g)
  \/ \E c \in mmCalls : \/ LoadMemoryAnswered(c) \/ LoadMemoryFails(c) \/ SaveMemoryAnswered(c)
                        \/ SaveMemoryConflicts(c) \/ SaveMemoryFails(c) \/ UploadAnswered(c)

MmSpec == MmInit /\ [][MmNext]_mmVars
-----------------------------------------------------------------------------
(* A place that a hard gate names: of the outline as it is, not before the *)
(* node that unlocks, or one of those chosen.                              *)
Names(g, nodes, target) ==
  \E j \in DOMAIN nodes :
    /\ nodes[j] = target
    /\ \/ g.mode \in Restricted /\ \E i \in 1..j : nodes[i] = g.unlock
       \/ g.mode \in Partial /\ target \in g.visible

(* The page knows of nothing that would part it from the server: it has    *)
(* the server's version and outline, no save is out, and since the last    *)
(* load none failed, conflicted or crossed another save or a load.         *)
InStep == mm.version = mmServer.version /\ mm.nodes = mmServer.nodes /\ SavesOut = {} /\ ~mm.apart

(* "Fail closed" (agent_context:403): what the server stores behind a hard *)
(* gate is read only at a place that its gate names.  And "the same rules  *)
(* on both sides" (memory-access:3-8): a page in step with the server says *)
(* of every item at every place what the server gives the AI of it.  Out   *)
(* of step it may show shut what the server opens, for as long as a save   *)
(* is out, and until the next load when one failed (memory-store:256).     *)
GatesFailClosed ==
  /\ \A k \in DOMAIN mmServer.items, target \in MmNodes \cup {0} :
       LET g == mmServer.items[k].gate
       IN g.mode \in Hard /\ Resolved(g, mmServer.nodes, target) # {} => Names(g, mmServer.nodes, target)
  /\ InStep =>
       /\ DOMAIN mm.items = DOMAIN mmServer.items
       /\ \A k \in DOMAIN mm.items, target \in MmNodes \cup {0} :
            LET v == Verdict(mm.items[k].gate, mm.nodes, target)
            IN /\ mm.items[k].id = mmServer.items[k].id
               /\ Resolved(mmServer.items[k].gate, mmServer.nodes, target) = (IF v.inject THEN {v.state} ELSE {})

(* The spinner and the buttons wait for an answer that will come.          *)
MemoryBusyIsHonest ==
  /\ mm.loading => \E c \in mmCalls : c.kind = "load" /\ ~Overtaken(c)
  /\ mm.saving => \E c \in mmCalls : c.kind = "save" /\ c.data.form
  /\ mm.uploading => \E c \in mmCalls : c.kind = "upload"
=============================================================================
