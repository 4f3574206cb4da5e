------------------------------ MODULE WorldTree -------------------------------
(***************************************************************************)
(* The world lines of a novel: branches kept flat on the server, where the *)
(* agent adds to them too, and shown as a tree (WorldTreePanel,            *)
(* branch-store; NovelBranchService).  A branch is its number, titles and  *)
(* summaries are left out.                                                 *)
(***************************************************************************)
EXTENDS Naturals, Sequences

CONSTANTS MaxEvents,   \* bound: what the user and the agent do and what fails
          MaxBranches  \* bound: branches ever made

VARIABLES tree, treeServer, treeCalls

treeVars == <<tree, treeServer, treeCalls>>

Root == 0
NoForm == MaxBranches + 1

(* One branch to begin with; parent never changes once a branch is made.   *)
Init ==
  /\ tree = [open |-> FALSE, known |-> {}, loading |-> FALSE, adding |-> NoForm, submitting |-> FALSE,
             asked |-> 0, left |-> MaxEvents]
  /\ treeServer = [parent |-> <<Root>>, there |-> {1}]
  /\ treeCalls = {}

User == tree.left > 0
Parent(n) == treeServer.parent[n]
-----------------------------------------------------------------------------
(* mutant: a branch whose parent is gone is nobody's child                 *)
RootsOfRoot(list) == {n \in list : Parent(n) = Root}

(* buildTree: a branch whose parent is not on the list hangs on the root   *)
Roots(list) == {n \in list : Parent(n) \notin list}
Children(list, p) == {n \in list : Parent(n) = p}
InSight(list) ==
  LET seen[n \in Nat] == n \in Roots(list) \/ (\E p \in list : p < n /\ n \in Children(list, p) /\ seen[p])
  IN {n \in list : seen[n]}
-----------------------------------------------------------------------------
Call(m, kind, n, subtree) ==
  [kind |-> kind, id |-> m.asked + 1, node |-> n, subtree |-> subtree, read |-> FALSE, list |-> {}]
Asks(m, others, kind, n, subtree) ==
  tree' = [m EXCEPT !.asked = @ + 1] /\ treeCalls' = others \cup {Call(m, kind, n, subtree)}
Acted(m) == [m EXCEPT !.left = @ - 1]
Others(k) == treeCalls \ {k}

OpenPanel ==
  /\ User /\ ~tree.open
  /\ Asks(Acted([tree EXCEPT !.open = TRUE, !.loading = TRUE]), treeCalls, "load", Root, FALSE)
  /\ UNCHANGED treeServer

ClosePanel ==
  /\ tree.open /\ tree' = [tree EXCEPT !.open = FALSE] /\ UNCHANGED <<treeServer, treeCalls>>

ServerLists(k) ==
  /\ k.kind \in {"load", "reload"} /\ ~k.read
  /\ treeCalls' = Others(k) \cup {[k EXCEPT !.read = TRUE, !.list = treeServer.there]}
  /\ UNCHANGED <<tree, treeServer>>

(* reload: the form that added the branch is closed, whatever came         *)
AfterLoad(m, k) ==
  IF k.kind = "reload" THEN [m EXCEPT !.loading = FALSE, !.adding = NoForm, !.submitting = FALSE]
  ELSE [m EXCEPT !.loading = FALSE]
Loaded(k) ==
  /\ k.kind \in {"load", "reload"} /\ k.read
  /\ tree' = AfterLoad([tree EXCEPT !.known = k.list], k) /\ treeCalls' = Others(k) /\ UNCHANGED treeServer

LoadFails(k) ==
  /\ k.kind \in {"load", "reload"} /\ User
  /\ tree' = AfterLoad(Acted(tree), k) /\ treeCalls' = Others(k) /\ UNCHANGED treeServer
-----------------------------------------------------------------------------
(* The add form, under a branch or at the root                             *)
Offered == tree.open /\ User
StartAdd(p) ==
  /\ Offered /\ p # tree.adding /\ (p = Root \/ (p \in tree.known /\ ~tree.loading))
  /\ tree' = Acted([tree EXCEPT !.adding = p]) /\ UNCHANGED <<treeServer, treeCalls>>

CancelAdd ==
  /\ tree.open /\ tree.adding # NoForm
  /\ tree' = [tree EXCEPT !.adding = NoForm] /\ UNCHANGED <<treeServer, treeCalls>>

FormShown ==
  /\ tree.open /\ ~tree.loading /\ tree.adding # NoForm
  /\ IF tree.adding = Root THEN tree.known # {} ELSE tree.adding \in tree.known
SubmitAdd ==
  /\ User /\ FormShown /\ ~tree.submitting
  /\ Asks([Acted(tree) EXCEPT !.submitting = TRUE], treeCalls, "create", tree.adding, FALSE) /\ UNCHANGED treeServer

(* the server does not look whether the parent is still there              *)
Grown(p) == [treeServer EXCEPT !.parent = Append(@, p), !.there = @ \cup {Len(treeServer.parent) + 1}]
ServerCreates(k) ==
  /\ k.kind = "create" /\ ~k.read /\ Len(treeServer.parent) < MaxBranches
  /\ treeServer' = Grown(k.node) /\ treeCalls' = Others(k) \cup {[k EXCEPT !.read = TRUE]} /\ UNCHANGED tree

Created(k) ==
  /\ k.kind = "create" /\ k.read
  /\ Asks([tree EXCEPT !.loading = TRUE], Others(k), "reload", Root, FALSE) /\ UNCHANGED treeServer

CreateFails(k) ==
  /\ k.kind = "create" /\ (User \/ (~k.read /\ Len(treeServer.parent) = MaxBranches))
  /\ tree' = [tree EXCEPT !.submitting = FALSE, !.left = IF User THEN @ - 1 ELSE @]
  /\ treeCalls' = Others(k) /\ UNCHANGED treeServer

(* save_branch of the agent: the list shown does not know                  *)
AgentSaves(p) ==
  /\ User /\ p \in treeServer.there \cup {Root} /\ Len(treeServer.parent) < MaxBranches
  /\ treeServer' = Grown(p) /\ tree' = Acted(tree) /\ UNCHANGED treeCalls
-----------------------------------------------------------------------------
(* Deletion: with the subtree when children are shown                      *)
RemoveBranch(n) ==
  /\ Offered /\ ~tree.loading /\ n \in InSight(tree.known)
  /\ Asks(Acted(tree), treeCalls, "delete", n, Children(tree.known, n) # {}) /\ UNCHANGED treeServer

Below(n) == LET under[m \in Nat] == m = n \/ (m > n /\ under[Parent(m)]) IN {m \in treeServer.there : under[m]}
ServerDeletes(k) ==
  /\ k.kind = "delete" /\ ~k.read /\ k.node \in treeServer.there
  /\ treeServer' = [treeServer EXCEPT !.there = @ \ (IF k.subtree THEN Below(k.node) ELSE {k.node})]
  /\ treeCalls' = Others(k) \cup {[k EXCEPT !.read = TRUE]} /\ UNCHANGED tree

Deleted(k) ==
  /\ k.kind = "delete" /\ k.read
  /\ Asks([tree EXCEPT !.loading = TRUE], Others(k), "load", Root, FALSE) /\ UNCHANGED treeServer

(* nobody is told: the branch is gone already, or the request fails        *)
DeleteFails(k) ==
  /\ k.kind = "delete" /\ (User \/ (~k.read /\ k.node \notin treeServer.there))
  /\ tree' = [tree EXCEPT !.left = IF User THEN @ - 1 ELSE @] /\ treeCalls' = Others(k) /\ UNCHANGED treeServer

Next ==
  \/ OpenPanel \/ ClosePanel \/ CancelAdd \/ SubmitAdd
  \/ \E n \in 0..MaxBranches : StartAdd(n) \/ AgentSaves(n) \/ RemoveBranch(n)
  \/ \E k \in treeCalls :
       \/ ServerLists(k) \/ Loaded(k) \/ LoadFails(k) \/ ServerCreates(k) \/ Created(k) \/ CreateFails(k)
       \/ ServerDeletes(k) \/ Deleted(k) \/ DeleteFails(k)

Spec == Init /\ [][Next]_treeVars
-----------------------------------------------------------------------------
(* "Loading" and "saving" are said only while a request is out that will   *)
(* take them back (branch-store:40, WorldTreePanel:103).                   *)
TreeBusyIsHonest ==
  /\ tree.loading => \E k \in treeCalls : k.kind \in {"load", "reload"}
  /\ tree.submitting => \E k \in treeCalls : k.kind \in {"create", "reload"}

(* Every branch of the list is in the tree, also one whose parent was      *)
(* deleted as a leaf while the agent was adding to it, or had been deleted *)
(* when it was added (WorldTreePanel:24).                                  *)
EveryBranchIsShown == InSight(tree.known) = tree.known
=============================================================================
