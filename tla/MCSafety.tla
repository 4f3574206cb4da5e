------------------------------ MODULE MCSafety ------------------------------
(***************************************************************************)
(* The task engine, the image requests that pay for its tasks, the editor  *)
(* of the manuscript and the desktop shell with its server, side by side   *)
(* for TLC: a behaviour is of the one that has the focus, and the states   *)
(* explored are the sum of the states of each.  The image requests are two *)
(* of one user and one of another, all with the same prompt.               *)
(***************************************************************************)
EXTENDS TaskEngine, ImageBilling, Editor, Desktop, TLC

CONSTANTS t1, t2, w1, w2, r1, r2, r3, ann, bob, k1

VARIABLE focus

MCTasks    == {t1, t2}
MCWorkers  == {w1, w2}
MCRequests == {r1, r2, r3}
MCOwner    == [r \in MCRequests |-> IF r = r3 THEN bob ELSE ann]
MCKey      == [r \in MCRequests |-> k1]

WorkerSymmetry == Permutations(MCWorkers)

SideInit ==
  /\ focus \in {"engine", "images", "editor", "desktop"}
  /\ Init /\ (focus = "engine" \/ deployment = "cloud")
  /\ ImgInit
  /\ EdInit
  /\ DeskInit

SideNext ==
  /\ UNCHANGED focus
  /\ \/ focus = "engine" /\ Next /\ UNCHANGED <<imgVars, edVars, deskVars>>
     \/ focus = "images" /\ ImgNext /\ UNCHANGED <<vars, edVars, deskVars>>
     \/ focus = "editor" /\ EdNext /\ UNCHANGED <<vars, imgVars, deskVars>>
     \/ focus = "desktop" /\ DeskNext /\ UNCHANGED <<vars, imgVars, edVars>>

SideSpec == SideInit /\ [][SideNext]_<<focus, vars, imgVars, edVars, deskVars>>
=============================================================================
