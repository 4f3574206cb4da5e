------------------------------- MODULE Desktop -------------------------------
(***************************************************************************)
(* The desktop shell (Electron's main process) and the server embedded in  *)
(* it: start, the crash guard, restarts asked for by a page, by the dialog *)
(* that says the server is gone or by the restore of a backup, quitting,   *)
(* and what a server process does with a staged restore while it boots.    *)
(*                                                                         *)
(* shell is the memory of the main process with the processes it has       *)
(* spawned; disk is the data directory.  An exit event runs the listener   *)
(* of spawn, then that of killChild, and the code that awaited it, before  *)
(* anything else.  A flow is an async function that awaits: the answer of  *)
(* the restore endpoint, the end of a child, or /health.                   *)
(***************************************************************************)
EXTENDS Naturals, Sequences

CONSTANTS MaxRestarts,     \* MAX_RESTARTS
          DeskMaxEvents    \* bound: what the author does, crashes and timeouts

VARIABLES shell, disk

deskVars == <<shell, disk>>

None  == 0
Alive == {p \in DOMAIN shell.procs : shell.procs[p] # "dead"}
Serving == {p \in Alive : shell.procs[p] = "serving"}
DeskEvent == shell.left > 0
Spend(s) == [s EXCEPT !.left = @ - 1]

(* A dead process leaves its number to the next one.  beside: the servers  *)
(* of which one was started while the other was alive.                     *)
Spawn(s) ==
  LET dead == {p \in DOMAIN s.procs : s.procs[p] = "dead"}
      pid  == IF dead = {} THEN Len(s.procs) + 1 ELSE CHOOSE p \in dead : TRUE
  IN [s EXCEPT !.procs = IF dead = {} THEN Append(@, "look") ELSE [@ EXCEPT ![pid] = "look"],
               !.child = pid,
               !.beside = IF dead = DOMAIN s.procs THEN {} ELSE {pid} \cup (DOMAIN s.procs \ dead)]

Flow(for, step, of) == [for |-> for, step |-> step, of |-> of]
Without(s, f) == [s EXCEPT !.flows = @ \ {f}]

(* what follows killChild: the app goes, or spawn and waitForReady - also  *)
(* when the app is stopping by now                                         *)
Killed(s, for) ==
  IF for = "quit" THEN [s EXCEPT !.gone = TRUE]
  ELSE [Spawn(s) EXCEPT !.flows = @ \cup {Flow(for, "waiting", None)}]

KillChild(s, for) ==
  IF s.child = None \/ s.child \in s.signalled
    THEN Killed([s EXCEPT !.child = None], for)
    ELSE [s EXCEPT !.signalled = @ \cup {s.child}, !.flows = @ \cup {Flow(for, "killing", s.child)}]

(* the crash guard: every exit but those of stop counts as a crash, one    *)
(* that restart has asked for as well, and clears child, whichever process *)
(* it was                                                                  *)
Guarded(s) ==
  LET left == [s EXCEPT !.child = None] IN
  IF s.stopping \/ s.child = None THEN left
  ELSE IF s.restarts < MaxRestarts THEN Spawn([left EXCEPT !.restarts = @ + 1])
  ELSE IF s.window # "none" THEN [left EXCEPT !.asked = @ + 1] ELSE left

Exited(s, p) ==
  LET dead == [s EXCEPT !.procs[p] = "dead", !.signalled = @ \ {p},
                        !.flows = {IF f.step = "asking" /\ f.of = p THEN [f EXCEPT !.of = None] ELSE f : f \in @}]
      waiting == {f \in s.flows : f.step = "killing" /\ f.of = p}
  IN IF s.gone THEN dead
     ELSE IF waiting = {} THEN Guarded(dead)
     ELSE LET f == CHOOSE f \in waiting : TRUE IN Killed(Without(Guarded(dead), f), f.for)

DeskInit ==
  /\ shell = [procs |-> <<"look">>, child |-> 1, signalled |-> {}, stopping |-> FALSE, restarts |-> 0,
              flows |-> {Flow("boot", "waiting", None)}, asked |-> 0, window |-> "splash",
              gone |-> FALSE, beside |-> {}, raced |-> FALSE, unready |-> FALSE, left |-> DeskMaxEvents]
  /\ disk = [live |-> "works", pending |-> "none"]
-----------------------------------------------------------------------------
(* A server process.  It swaps a staged restore in place before it opens   *)
(* the database, and takes the port last.                                  *)
Goes(p, step) == shell' = [shell EXCEPT !.procs[p] = step]
HasOpen(p)    == shell.procs[p] \in {"bind", "serving"}
Contended(p)  == \E q \in Alive \ {p} : HasOpen(q)

(* raced: the swap, from the look to the rename, was of two servers at     *)
(* once, or one was about to open what the other swaps                     *)
LookForRestore(p) ==
  LET step  == IF disk.pending = "none" THEN "open" ELSE "remove"
      races == \E q \in Alive \ {p} : \/ shell.procs[q] \in {"remove", "rename"}
                                      \/ shell.procs[q] = "open" /\ step = "remove"
  IN /\ p \in Alive /\ shell.procs[p] = "look"
     /\ shell' = [shell EXCEPT !.procs[p] = step, !.raced = @ \/ races]
     /\ UNCHANGED disk

(* a file that another process has open cannot be removed everywhere       *)
RemoveLive(p) ==
  /\ p \in Alive /\ shell.procs[p] = "remove"
  /\ Goes(p, "rename")
  /\ \/ disk' = [disk EXCEPT !.live = "missing"]
     \/ Contended(p) /\ UNCHANGED disk

RenamePending(p) ==
  /\ p \in Alive /\ shell.procs[p] = "rename"
  /\ \/ /\ disk.pending # "none"
        /\ Goes(p, "open")
        /\ disk' = [live |-> disk.pending, pending |-> "none"]
     \/ /\ disk.pending = "none" \/ Contended(p)
        /\ shell' = Exited(shell, p)
        /\ UNCHANGED disk

(* SQLite creates what is not there                                        *)
OpenDatabase(p) ==
  /\ p \in Alive /\ shell.procs[p] = "open"
  /\ Goes(p, "bind")
  /\ disk' = [disk EXCEPT !.live = IF @ = "missing" THEN "fresh" ELSE @]

Bind(p) ==
  /\ p \in Alive /\ shell.procs[p] = "bind"
  /\ IF Serving = {} THEN Goes(p, "serving") ELSE shell' = Exited(shell, p)
  /\ UNCHANGED disk

Dies(p) ==
  /\ p \in Alive /\ p \in shell.signalled
  /\ shell' = Exited(shell, p)
  /\ UNCHANGED disk

ServerCrashes(p) ==
  /\ p \in Alive /\ DeskEvent
  /\ shell' = Exited(Spend(shell), p)
  /\ UNCHANGED disk
-----------------------------------------------------------------------------
(* Five seconds after the signal nobody waits for the child any more.      *)
KillTimesOut(f) ==
  /\ ~shell.gone /\ f.step = "killing" /\ DeskEvent
  /\ shell' = Killed(Without(Spend(shell), f), f.for)
  /\ UNCHANGED disk

(* /health answers, whichever process it is that serves the port           *)
Ready(f) ==
  /\ ~shell.gone /\ f.step = "waiting" /\ ~shell.stopping /\ Serving # {}
  /\ shell' = [Without(shell, f) EXCEPT !.window = IF @ = "none" THEN @ ELSE "app"]
  /\ UNCHANGED disk

(* a boot that does not become ready ends the app, and leaves the child    *)
NotReady(f) ==
  /\ ~shell.gone /\ f.step = "waiting"
  /\ \/ shell.stopping /\ shell' = [Without(shell, f) EXCEPT !.gone = f.for = "boot"]
     \/ /\ ~shell.stopping /\ Serving = {} /\ DeskEvent
        /\ shell' = [Without(Spend(shell), f) EXCEPT !.gone = f.for = "boot", !.unready = @ \/ f.for = "boot"]
  /\ UNCHANGED disk

(* process:restart, from a page that the server has delivered              *)
Restart ==
  /\ ~shell.gone /\ shell.window = "app" /\ DeskEvent
  /\ shell' = KillChild(Spend(shell), "restart")
  /\ UNCHANGED disk

(* mutant: a stop that does not say so leaves the exit to the guard        *)
QuittingUnsaid(s) == KillChild(s, "quit")

(* shutdown runs once; asked again, it returns, and the app exits at once  *)
Quitting(s) == IF s.stopping THEN [s EXCEPT !.gone = TRUE] ELSE KillChild([s EXCEPT !.stopping = TRUE], "quit")

Quit ==
  /\ ~shell.gone /\ DeskEvent
  /\ shell' = Quitting(Spend(shell))
  /\ UNCHANGED disk

(* the last window closed ends the app, but on macOS                       *)
CloseWindow ==
  /\ ~shell.gone /\ shell.window # "none" /\ DeskEvent
  /\ LET s == [Spend(shell) EXCEPT !.window = "none", !.asked = 0]
     IN shell' \in {s, Quitting(s)}
  /\ UNCHANGED disk

(* activate: the new window shows the splash screen, and nothing else      *)
Activate ==
  /\ ~shell.gone /\ shell.window = "none" /\ DeskEvent
  /\ shell' = [Spend(shell) EXCEPT !.window = "splash"]
  /\ UNCHANGED disk

(* the dialog after the last crash: restart, look at the logs, or quit     *)
GoneAnswered ==
  /\ ~shell.gone /\ shell.asked > 0
  /\ LET s == [shell EXCEPT !.asked = @ - 1]
     IN \/ shell' \in {s, Quitting(s)}
        \/ DeskEvent /\ shell' = KillChild(Spend(s), "again")
  /\ UNCHANGED disk

(* The author confirms a backup; the server keeps the database as it is,   *)
(* stages the copy, and answers; the shell restarts the server.            *)
AskRestore(p) ==
  /\ ~shell.gone /\ shell.window # "none" /\ p \in Serving /\ DeskEvent
  /\ shell' = [Spend(shell) EXCEPT !.flows = @ \cup {Flow("restore", "asking", p)}]
  /\ disk' = [disk EXCEPT !.pending = "backup"]

RestoreAnswered(f) ==
  /\ ~shell.gone /\ f.step = "asking"
  /\ shell' = IF f.of \in Serving THEN KillChild(Without(shell, f), "restore")
              ELSE Without(shell, f)
  /\ UNCHANGED disk

DeskNext ==
  \/ \E p \in Alive : \/ LookForRestore(p) \/ RemoveLive(p) \/ RenamePending(p) \/ OpenDatabase(p)
                      \/ Bind(p) \/ Dies(p) \/ ServerCrashes(p) \/ AskRestore(p)
  \/ \E f \in shell.flows : KillTimesOut(f) \/ Ready(f) \/ NotReady(f) \/ RestoreAnswered(f)
  \/ Restart \/ Quit \/ CloseWindow \/ Activate \/ GoneAnswered

DeskSpec == DeskInit /\ [][DeskNext]_deskVars
-----------------------------------------------------------------------------
(* "stop(): kill child on app quit" (server-manager:12): once the app has  *)
(* gone, each server left is on its way out, if it was alone all its life  *)
(* and the app did not give up waiting for its first.  After a restart     *)
(* that was asked for, the guard and restart() have each started one: the  *)
(* app forgets one of the two, and leaves it (QuitKillsServer).            *)
QuitLeavesNoServer ==
  shell.gone /\ ~shell.unready => Alive \ shell.beside \subseteq shell.signalled

(* The swap of a staged restore may be cut by a crash anywhere, and other  *)
(* servers may run or start meanwhile: the database is there, or the copy  *)
(* still waits for the next start (database.go:148) - unless two servers   *)
(* were in the swap at once, when the second removes what the first has    *)
(* put there.                                                              *)
RestoreIsAtomic ==
  ~shell.raced => disk.live # "fresh" /\ (disk.live = "missing" => disk.pending = "backup")

(* Both, however the shell and its server crash, restart, time out or are  *)
(* told to quit.                                                           *)
ShellKeepsServerAndData == QuitLeavesNoServer /\ RestoreIsAtomic

(* "stop(): kill child on app quit / window-all-closed" (server-manager:   *)
(* 12), as it is said: no server outlives the app, but that of a boot      *)
(* given up.  Violated: a restart, before the quit or while it waits,      *)
(* starts a second server, and the app goes and leaves it.                 *)
QuitKillsServer == shell.gone /\ ~shell.unready => Alive \subseteq shell.signalled
=============================================================================
