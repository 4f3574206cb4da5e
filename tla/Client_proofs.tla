----------------------------- MODULE Client_proofs -----------------------------
(***************************************************************************)
(* Proofs about the parts of the client, one after the other: the desktop  *)
(* shell, and the panels of the page that it shows, each of them with the  *)
(* server and for any number of events and entities.                       *)
(***************************************************************************)
EXTENDS Desktop, PublishPanel, MemoryPanel, StoryPanel, Integers, FiniteSetTheorems, FunctionTheorems, SequenceTheorems,
        WellFoundedInduction, TLAPS

-----------------------------------------------------------------------------
(* The desktop shell, for any number of restarts, crashes, timeouts and    *)
(* orders of the author: the app that has gone leaves no server that was   *)
(* alone all its life, and a restore that is cut in two loses nothing,     *)
(* unless two servers were in the swap at once.                            *)

ServerSteps == {"look", "remove", "rename", "open", "bind", "serving", "dead"}
Reasons == {"boot", "restart", "again", "restore", "quit"}
Flows  == [for : Reasons, step : {"waiting", "killing", "asking"}, of : Nat]
Shell  == [procs : Seq(ServerSteps), child : Nat, signalled : SUBSET Nat, stopping : BOOLEAN, restarts : Nat,
           flows : SUBSET Flows, asked : Nat, window : {"none", "splash", "app"}, gone : BOOLEAN,
           beside : SUBSET Nat, raced : BOOLEAN, unready : BOOLEAN, left : Int]
Disk   == [live : {"works", "missing", "fresh", "backup"}, pending : {"none", "backup"}]

TypeOK == shell \in Shell /\ disk \in Disk

AliveIn(s) == {p \in DOMAIN s.procs : s.procs[p] # "dead"}
Killing(s) == {f \in s.flows : f.step = "killing"}

(* A server that was alone all its life is the only one, and is the child, *)
(* or on its way out; who waits for the end of a server waits for one that *)
(* has been told to end, and nobody else waits for it.                     *)
Alone(s) ==
  \A p \in AliveIn(s) \ s.beside : AliveIn(s) = {p} /\ (p = s.child \/ p \in s.signalled)
Waits(s) ==
  /\ \A f \in Killing(s) : f.of \in AliveIn(s) \cap s.signalled
  /\ \A f, g \in Killing(s) : f.of = g.of => f = g
  /\ \A f \in Killing(s) : f.for = "quit" => s.stopping
Awaited(s) == Waits(s) /\ (s.child # None => s.child \in AliveIn(s))

(* A stop waits for the server that it has told to end.                    *)
Stopping(s) == s.stopping => \E f \in Killing(s) : f.for = "quit"

Orderly(s) ==
  /\ Alone(s)
  /\ ~s.gone => Awaited(s) /\ Stopping(s)
  /\ s.gone /\ ~s.unready => AliveIn(s) \ s.beside \subseteq s.signalled

(* The database is missing only between the two steps of a restore, which  *)
(* no other server is at, or about to see the middle of.                   *)
Swapping ==
  /\ disk.live # "fresh" /\ (disk.live = "missing" => disk.pending = "backup")
  /\ \A p \in Alive : /\ shell.procs[p] \in {"remove", "rename"} => disk.pending = "backup"
                      /\ shell.procs[p] = "open" => disk.live # "missing"
AloneInSwap ==
  \A p \in Alive : shell.procs[p] \in {"remove", "rename"}
                   => \A q \in Alive \ {p} : shell.procs[q] \notin {"remove", "rename", "open"}
Restoring == Swapping /\ AloneInSwap

IInv == TypeOK /\ Orderly(shell) /\ (~shell.raced => Restoring)

-------------------------------------------------------------------------------
(* A process that is alive after a step was there before, at the same      *)
(* place, or has just been started.                                        *)
Turns(t, s) ==
  /\ t \in Shell
  /\ t.raced = s.raced
  /\ \A p \in AliveIn(t) : t.procs[p] = "look" \/ (p \in AliveIn(s) /\ t.procs[p] = s.procs[p])

LEMMA TurnsAgain ==
  ASSUME NEW s, NEW t, NEW u, Turns(t, s), Turns(u, t)
  PROVE  Turns(u, s)
BY DEF Turns

LEMMA SameProcsTurn ==
  ASSUME NEW s, NEW t \in Shell, t.procs = s.procs, t.raced = s.raced
  PROVE  Turns(t, s) /\ AliveIn(t) = AliveIn(s)
BY DEF Turns, AliveIn

LEMMA PidsAreNumbers ==
  ASSUME NEW s \in Shell
  PROVE  /\ DOMAIN s.procs \subseteq Nat \ {None} /\ AliveIn(s) \subseteq DOMAIN s.procs
         /\ AliveIn(s) \subseteq Nat \ {None}
<1>1. s.procs \in Seq(ServerSteps)
  BY DEF Shell
<1>2. DOMAIN s.procs = 1..Len(s.procs) /\ Len(s.procs) \in Nat
  BY <1>1
<1> QED
  BY <1>2 DEF AliveIn, None

LEMMA Spawned ==
  ASSUME NEW s \in Shell
  PROVE  LET t == Spawn(s) IN
         /\ Turns(t, s)
         /\ t.child \in Nat \ {None} /\ t.child \notin AliveIn(s)
         /\ AliveIn(t) = AliveIn(s) \cup {t.child}
         /\ AliveIn(s) # {} => AliveIn(t) \subseteq t.beside
         /\ t.signalled = s.signalled /\ t.stopping = s.stopping /\ t.flows = s.flows /\ t.gone = s.gone
         /\ t.unready = s.unready
<1> DEFINE dead == {p \in DOMAIN s.procs : s.procs[p] = "dead"}
           pid  == IF dead = {} THEN Len(s.procs) + 1 ELSE CHOOSE p \in dead : TRUE
           procs == IF dead = {} THEN Append(s.procs, "look") ELSE [s.procs EXCEPT ![pid] = "look"]
<1> DEFINE beside == IF dead = DOMAIN s.procs THEN {} ELSE {pid} \cup (DOMAIN s.procs \ dead)
           t == [s EXCEPT !.procs = procs, !.child = pid, !.beside = beside]
<1>2. Spawn(s) = t
  BY DEF Spawn
<1>3. s.procs \in Seq(ServerSteps) /\ Len(s.procs) \in Nat /\ DOMAIN s.procs = 1..Len(s.procs)
  BY DEF Shell
<1>4. dead \subseteq DOMAIN s.procs /\ AliveIn(s) = DOMAIN s.procs \ dead
  BY DEF AliveIn
<1>5. /\ pid \in Nat \ {None} /\ pid \notin AliveIn(s) /\ procs \in Seq(ServerSteps)
      /\ DOMAIN procs = DOMAIN s.procs \cup {pid}
      /\ procs[pid] = "look" /\ \A p \in DOMAIN s.procs : p # pid => procs[p] = s.procs[p]
  <2>1. CASE dead = {}
    <3> HIDE DEF dead
    <3> QED
      BY <2>1, <1>3, <1>4 DEF ServerSteps, None
  <2>2. CASE dead # {}
    <3>1. pid \in dead
      BY <2>2
    <3>2. procs = [s.procs EXCEPT ![pid] = "look"]
      BY <2>2
    <3> HIDE DEF dead, pid, procs
    <3> QED
      BY <3>1, <3>2, <1>3, <1>4 DEF ServerSteps, None
  <2> QED
    BY <2>1, <2>2
<1>10. beside \subseteq Nat
  BY <1>3, <1>5
<1>11. AliveIn(s) # {} => beside = {pid} \cup AliveIn(s)
  BY <1>4
<1> HIDE DEF dead, pid, procs, beside
<1>6. /\ t \in Shell /\ t.procs = procs /\ t.child = pid /\ t.beside = beside /\ t.raced = s.raced
      /\ t.signalled = s.signalled /\ t.stopping = s.stopping /\ t.flows = s.flows /\ t.gone = s.gone
      /\ t.unready = s.unready
  BY <1>5, <1>10 DEF Shell
<1> HIDE DEF t
<1>7. AliveIn(t) = AliveIn(s) \cup {pid}
  BY <1>5, <1>6 DEF AliveIn
<1>8. Turns(t, s)
  <2>1. \A p \in AliveIn(t) : t.procs[p] = "look" \/ (p \in AliveIn(s) /\ t.procs[p] = s.procs[p])
    BY <1>5, <1>6, <1>7 DEF AliveIn
  <2> QED
    BY <1>6, <2>1 DEF Turns
<1>9. AliveIn(s) # {} => AliveIn(t) \subseteq t.beside
  BY <1>6, <1>7, <1>11
<1> QED
  BY <1>2, <1>5, <1>6, <1>7, <1>8, <1>9

(* After the end of a child: the app goes, or a server is started.         *)
LEMMA Kills ==
  ASSUME NEW s \in Shell, NEW for \in Reasons
  PROVE  LET t == Killed(s, for) IN
         /\ Turns(t, s) /\ t.signalled = s.signalled /\ t.stopping = s.stopping /\ t.unready = s.unready
         /\ Killing(t) = Killing(s)
         /\ for = "quit" => t.gone /\ AliveIn(t) = AliveIn(s) /\ t.child = s.child /\ t.beside = s.beside /\ t.raced = s.raced
         /\ for # "quit" => /\ t.gone = s.gone
                            /\ t.child \in Nat \ {None} /\ t.child \notin AliveIn(s)
                            /\ AliveIn(t) = AliveIn(s) \cup {t.child}
                            /\ AliveIn(s) # {} => AliveIn(t) \subseteq t.beside
<1>1. CASE for = "quit"
  <2> DEFINE t == [s EXCEPT !.gone = TRUE]
  <2>1. Killed(s, for) = t
    BY <1>1 DEF Killed
  <2>2. /\ t \in Shell /\ t.procs = s.procs /\ t.beside = s.beside /\ t.raced = s.raced /\ t.signalled = s.signalled
        /\ t.stopping = s.stopping /\ t.unready = s.unready /\ t.flows = s.flows /\ t.gone /\ t.child = s.child
    BY DEF Shell
  <2> HIDE DEF t
  <2>3. Turns(t, s) /\ AliveIn(t) = AliveIn(s)
    BY <2>2, SameProcsTurn
  <2> QED
    BY <1>1, <2>1, <2>2, <2>3 DEF Killing
<1>2. CASE for # "quit"
  <2> DEFINE r == Spawn(s)
             new == Flow(for, "waiting", None)
             t == [r EXCEPT !.flows = @ \cup {new}]
  <2>1. Killed(s, for) = t
    BY <1>2 DEF Killed
  <2>2. /\ Turns(r, s) /\ r.child \in Nat \ {None} /\ r.child \notin AliveIn(s)
        /\ AliveIn(r) = AliveIn(s) \cup {r.child} /\ (AliveIn(s) # {} => AliveIn(r) \subseteq r.beside)
        /\ r.signalled = s.signalled /\ r.stopping = s.stopping /\ r.flows = s.flows /\ r.gone = s.gone
        /\ r.unready = s.unready
    BY Spawned
  <2>3. new \in Flows /\ new.step = "waiting"
    BY DEF Flow, Flows, None
  <2> HIDE DEF r, new
  <2>4. r \in Shell
    BY <2>2 DEF Turns
  <2>5. /\ t \in Shell /\ t.procs = r.procs /\ t.beside = r.beside /\ t.raced = r.raced /\ t.signalled = r.signalled
        /\ t.stopping = r.stopping /\ t.unready = r.unready /\ t.flows = r.flows \cup {new}
        /\ t.gone = r.gone /\ t.child = r.child
    BY <2>3, <2>4 DEF Shell
  <2> HIDE DEF t
  <2>6. Turns(t, r) /\ AliveIn(t) = AliveIn(r)
    BY <2>5, SameProcsTurn
  <2>7. Turns(t, s)
    BY <2>2, <2>6, TurnsAgain
  <2>8. Killing(t) = Killing(s)
    BY <2>2, <2>3, <2>5 DEF Killing
  <2> QED
    BY <1>2, <2>1, <2>2, <2>5, <2>6, <2>7, <2>8
<1> QED
  BY <1>1, <1>2

LEMMA KilledIsOrderly ==
  ASSUME NEW s \in Shell, NEW for \in Reasons, ~s.gone, Alone(s), Waits(s),
         for = "quit" => AliveIn(s) \ s.beside \subseteq s.signalled,
         for # "quit" => Stopping(s)
  PROVE  Orderly(Killed(s, for))
<1> DEFINE t == Killed(s, for)
<1>1. /\ Turns(t, s) /\ t.signalled = s.signalled /\ t.stopping = s.stopping /\ t.unready = s.unready
      /\ Killing(t) = Killing(s)
      /\ for = "quit" => t.gone /\ AliveIn(t) = AliveIn(s) /\ t.child = s.child /\ t.beside = s.beside /\ t.raced = s.raced
      /\ for # "quit" => /\ t.gone = s.gone
                         /\ t.child \in Nat \ {None} /\ t.child \notin AliveIn(s)
                         /\ AliveIn(t) = AliveIn(s) \cup {t.child}
                         /\ AliveIn(s) # {} => AliveIn(t) \subseteq t.beside
  BY Kills
<1> SUFFICES Orderly(t)
  OBVIOUS
<1> HIDE DEF t
<1>3. CASE for = "quit"
  <2>1. Alone(t)
    BY <1>1, <1>3 DEF Alone
  <2>2. t.gone /\ AliveIn(t) \ t.beside \subseteq t.signalled
    BY <1>1, <1>3
  <2> QED
    BY <2>1, <2>2 DEF Orderly
<1>4. CASE for # "quit"
  <2>1. /\ ~t.gone /\ t.child \in AliveIn(t) /\ AliveIn(s) \subseteq AliveIn(t)
        /\ AliveIn(t) = {t.child} \/ AliveIn(t) \subseteq t.beside
    BY <1>1, <1>4
  <2>2. Alone(t)
    BY <2>1 DEF Alone
  <2>3. Awaited(t)
    BY <1>1, <2>1 DEF Awaited, Waits
  <2>4. Stopping(t)
    BY <1>1, <1>4 DEF Stopping
  <2> QED
    BY <2>1, <2>2, <2>3, <2>4 DEF Orderly
<1> QED
  BY <1>3, <1>4

(* To end the child: there is none to wait for, or it is told to end.      *)
LEMMA KillsChild ==
  ASSUME NEW s \in Shell, NEW for \in Reasons
  PROVE  LET none == s.child = None \/ s.child \in s.signalled
             left == [s EXCEPT !.child = None]
             told == [s EXCEPT !.signalled = @ \cup {s.child}, !.flows = @ \cup {Flow(for, "killing", s.child)}]
         IN  /\ Turns(KillChild(s, for), s)
             /\ none => /\ KillChild(s, for) = Killed(left, for) /\ left \in Shell
                        /\ Turns(left, s) /\ AliveIn(left) = AliveIn(s) /\ Killing(left) = Killing(s)
                        /\ left.child = None /\ left.signalled = s.signalled /\ left.stopping = s.stopping
                        /\ left.gone = s.gone /\ left.unready = s.unready /\ left.beside = s.beside /\ left.raced = s.raced
             /\ ~none => /\ KillChild(s, for) = told
                         /\ AliveIn(told) = AliveIn(s) /\ Killing(told) = Killing(s) \cup {Flow(for, "killing", s.child)}
                         /\ told.signalled = s.signalled \cup {s.child} /\ told.stopping = s.stopping
                         /\ told.child = s.child /\ told.gone = s.gone /\ told.unready = s.unready
                         /\ told.beside = s.beside /\ told.raced = s.raced
<1> DEFINE none == s.child = None \/ s.child \in s.signalled
           left == [s EXCEPT !.child = None]
           new  == Flow(for, "killing", s.child)
           told == [s EXCEPT !.signalled = @ \cup {s.child}, !.flows = @ \cup {new}]
<1>1. none => KillChild(s, for) = Killed(left, for)
  BY DEF KillChild
<1>2. ~none => KillChild(s, for) = told
  BY DEF KillChild
<1>3. /\ left \in Shell /\ left.procs = s.procs /\ left.beside = s.beside /\ left.raced = s.raced /\ left.flows = s.flows
      /\ left.child = None /\ left.signalled = s.signalled /\ left.stopping = s.stopping
      /\ left.gone = s.gone /\ left.unready = s.unready
  BY DEF Shell, None
<1>4. s.child \in Nat /\ new \in Flows /\ new.step = "killing"
  BY DEF Flow, Flows, Shell
<1>5. new = Flow(for, "killing", s.child)
  OBVIOUS
<1> HIDE DEF new
<1>6. /\ told \in Shell /\ told.procs = s.procs /\ told.beside = s.beside /\ told.raced = s.raced /\ told.flows = s.flows \cup {new}
      /\ told.child = s.child /\ told.signalled = s.signalled \cup {s.child} /\ told.stopping = s.stopping
      /\ told.gone = s.gone /\ told.unready = s.unready
  BY <1>4 DEF Shell
<1> HIDE DEF left, told, none
<1>7. Turns(left, s) /\ AliveIn(left) = AliveIn(s) /\ Killing(left) = Killing(s)
  <2>1. Killing(left) = Killing(s)
    BY <1>3 DEF Killing
  <2> QED
    BY <1>3, <2>1, SameProcsTurn
<1>8. Turns(told, s) /\ AliveIn(told) = AliveIn(s) /\ Killing(told) = Killing(s) \cup {new}
  <2>1. Killing(told) = Killing(s) \cup {new}
    BY <1>4, <1>6 DEF Killing
  <2> QED
    BY <1>6, <2>1, SameProcsTurn
<1>9. Turns(KillChild(s, for), s)
  <2>1. CASE none
    <3>1. Turns(Killed(left, for), left)
      BY <1>3, Kills
    <3> QED
      BY <2>1, <3>1, <1>1, <1>7, TurnsAgain
  <2>2. CASE ~none
    BY <2>2, <1>2, <1>8
  <2> QED
    BY <2>1, <2>2
<1> QED
  BY <1>1, <1>2, <1>3, <1>5, <1>6, <1>7, <1>8, <1>9 DEF left, told, none

LEMMA KillChildIsOrderly ==
  ASSUME NEW s \in Shell, NEW for \in Reasons, ~s.gone, Alone(s), Awaited(s),
         for = "quit" => s.stopping,
         for # "quit" => Stopping(s)
  PROVE  Orderly(KillChild(s, for))
<1> DEFINE none == s.child = None \/ s.child \in s.signalled
           left == [s EXCEPT !.child = None]
           new  == Flow(for, "killing", s.child)
           told == [s EXCEPT !.signalled = @ \cup {s.child}, !.flows = @ \cup {Flow(for, "killing", s.child)}]
<1>1. /\ none => /\ KillChild(s, for) = Killed(left, for) /\ left \in Shell
                 /\ Turns(left, s) /\ AliveIn(left) = AliveIn(s) /\ Killing(left) = Killing(s)
                 /\ left.child = None /\ left.signalled = s.signalled /\ left.stopping = s.stopping
                 /\ left.gone = s.gone /\ left.unready = s.unready /\ left.beside = s.beside /\ left.raced = s.raced
      /\ ~none => /\ KillChild(s, for) = told
                  /\ AliveIn(told) = AliveIn(s) /\ Killing(told) = Killing(s) \cup {new}
                  /\ told.signalled = s.signalled \cup {s.child} /\ told.stopping = s.stopping
                  /\ told.child = s.child /\ told.gone = s.gone /\ told.unready = s.unready
                  /\ told.beside = s.beside /\ told.raced = s.raced
  BY Zenon, KillsChild
<1>2. new.step = "killing" /\ new.for = for /\ new.of = s.child
  BY DEF Flow
<1>3. AliveIn(s) \subseteq Nat \ {None}
  BY PidsAreNumbers
<1> HIDE DEF left, told, new
<1>4. CASE none
  <2>1. AliveIn(left) \ left.beside \subseteq left.signalled
    BY <1>1, <1>3, <1>4 DEF Alone
  <2>2. Alone(left) /\ Waits(left) /\ ~left.gone
    BY <1>1, <1>4, <2>1 DEF Alone, Waits, Awaited
  <2>3. for # "quit" => Stopping(left)
    BY <1>1, <1>4 DEF Stopping
  <2> HIDE DEF none
  <2> QED
    BY <1>1, <1>4, <2>1, <2>2, <2>3, KilledIsOrderly
<1>5. CASE ~none
  <2>1. s.child \in AliveIn(s) /\ s.child \notin s.signalled
    BY <1>5 DEF Awaited
  <2> HIDE DEF none
  <2>2. \A f \in Killing(s) : f.of # new.of
    BY <1>2, <2>1 DEF Awaited, Waits
  <2>3. Alone(told)
    BY <1>1, <1>5 DEF Alone
  <2>4. Awaited(told)
    <3>1. /\ \A f \in Killing(told) : f.of \in AliveIn(told) \cap told.signalled
          /\ \A f \in Killing(told) : f.for = "quit" => told.stopping
      BY <1>1, <1>2, <1>5, <2>1 DEF Awaited, Waits
    <3>2. \A f, g \in Killing(told) : f.of = g.of => f = g
      BY <1>1, <1>5, <2>2 DEF Awaited, Waits
    <3> QED
      BY <1>1, <1>5, <2>1, <3>1, <3>2 DEF Awaited, Waits
  <2>5. Stopping(told)
    BY <1>1, <1>2, <1>5 DEF Stopping
  <2> QED
    BY <1>1, <1>5, <2>3, <2>4, <2>5 DEF Orderly
<1> QED
  BY <1>4, <1>5

Restarting(t, s) == /\ t.child \in Nat \ {None} /\ t.child \notin AliveIn(s)
                    /\ AliveIn(t) = AliveIn(s) \cup {t.child}
                    /\ AliveIn(s) # {} => AliveIn(t) \subseteq t.beside

(* The guard starts a server, or leaves the shell without a child; it      *)
(* starts none while the app is stopping.                                  *)
LEMMA Guards ==
  ASSUME NEW s \in Shell
  PROVE  LET t == Guarded(s) IN
         /\ Turns(t, s) /\ t.signalled = s.signalled /\ t.stopping = s.stopping /\ t.unready = s.unready
         /\ t.flows = s.flows /\ t.gone = s.gone
         /\ \/ t.child = None /\ AliveIn(t) = AliveIn(s) /\ t.beside = s.beside
            \/ ~s.stopping /\ Restarting(t, s)
<1> DEFINE left == [s EXCEPT !.child = None]
           more == [left EXCEPT !.restarts = @ + 1]
           asks == [left EXCEPT !.asked = @ + 1]
           Alike(t) == /\ t \in Shell /\ t.procs = s.procs /\ t.beside = s.beside /\ t.raced = s.raced /\ t.child = None
                       /\ t.signalled = s.signalled /\ t.stopping = s.stopping /\ t.unready = s.unready
                       /\ t.flows = s.flows /\ t.gone = s.gone
<1>1. Guarded(s) \in {left, asks} \/ (~s.stopping /\ Guarded(s) = Spawn(more))
  BY DEF Guarded
<1>2. Alike(left)
  BY DEF Shell, None
<1> HIDE DEF left
<1>3. Alike(more) /\ Alike(asks)
  <2>1. left \in Shell /\ left.restarts + 1 \in Nat /\ left.asked + 1 \in Nat
    BY <1>2 DEF Shell
  <2>2. more \in Shell /\ asks \in Shell
    BY <2>1 DEF Shell
  <2> QED
    BY <1>2, <2>1, <2>2 DEF Shell
<1> HIDE DEF more, asks
<1>4. ASSUME NEW t, Alike(t)
      PROVE  Turns(t, s) /\ AliveIn(t) = AliveIn(s)
  BY <1>4, SameProcsTurn
<1>5. CASE Guarded(s) \in {left, asks}
  <2>1. Alike(Guarded(s))
    BY <1>2, <1>3, <1>5
  <2> QED
    BY <2>1, <1>4
<1>6. CASE ~s.stopping /\ Guarded(s) = Spawn(more)
  <2> DEFINE t == Spawn(more)
  <2>1. /\ Turns(t, more) /\ t.child \in Nat \ {None} /\ t.child \notin AliveIn(more)
        /\ AliveIn(t) = AliveIn(more) \cup {t.child} /\ (AliveIn(more) # {} => AliveIn(t) \subseteq t.beside)
        /\ t.signalled = more.signalled /\ t.stopping = more.stopping /\ t.flows = more.flows
        /\ t.gone = more.gone /\ t.unready = more.unready
    BY <1>3, Spawned
  <2> HIDE DEF t
  <2>2. Turns(more, s) /\ AliveIn(more) = AliveIn(s)
    BY <1>3, <1>4
  <2>3. Turns(t, s)
    BY <2>1, <2>2, TurnsAgain
  <2>4. Restarting(t, s)
    BY <2>1, <2>2 DEF Restarting
  <2>5. Guarded(s) = t
    BY <1>6 DEF t
  <2> QED
    BY <1>3, <1>6, <2>1, <2>3, <2>4, <2>5
<1> QED
  BY <1>1, <1>5, <1>6

Fallen(s, p) == [s EXCEPT !.procs[p] = "dead", !.signalled = @ \ {p},
                          !.flows = {IF f.step = "asking" /\ f.of = p THEN [f EXCEPT !.of = None] ELSE f : f \in @}]

LEMMA Falls ==
  ASSUME NEW s \in Shell, NEW p \in AliveIn(s)
  PROVE  LET t == Fallen(s, p) IN
         /\ Turns(t, s) /\ AliveIn(t) = AliveIn(s) \ {p} /\ Killing(t) = Killing(s)
         /\ t.signalled = s.signalled \ {p} /\ t.stopping = s.stopping /\ t.unready = s.unready
         /\ t.gone = s.gone /\ t.beside = s.beside /\ t.raced = s.raced /\ t.child = s.child
<1> DEFINE procs == [s.procs EXCEPT ![p] = "dead"]
           sig == s.signalled \ {p}
           Left(f) == IF f.step = "asking" /\ f.of = p THEN [f EXCEPT !.of = None] ELSE f
           flows == {Left(f) : f \in s.flows}
           t == [s EXCEPT !.procs = procs, !.signalled = sig, !.flows = flows]
<1>1. Fallen(s, p) = t
  BY DEF Fallen
<1>2. s.procs \in Seq(ServerSteps) /\ DOMAIN s.procs = 1..Len(s.procs) /\ p \in DOMAIN s.procs
      /\ s.flows \subseteq Flows /\ s.signalled \subseteq Nat
  BY DEF Shell, AliveIn
<1>3. /\ procs \in Seq(ServerSteps) /\ DOMAIN procs = DOMAIN s.procs /\ procs[p] = "dead"
      /\ \A q \in DOMAIN s.procs : q # p => procs[q] = s.procs[q]
  BY <1>2 DEF ServerSteps
<1>4. \A f \in Flows : Left(f) \in Flows /\ Left(f).step = f.step /\ (f.step = "killing" => Left(f) = f)
  BY DEF Flows, None
<1>5. flows \subseteq Flows /\ {f \in flows : f.step = "killing"} = Killing(s)
  <2> HIDE DEF Left
  <2> QED
    BY <1>2, <1>4 DEF Killing
<1>6. sig \subseteq Nat
  BY <1>2
<1> HIDE DEF procs, flows, sig
<1>7. /\ t \in Shell /\ t.procs = procs /\ t.signalled = sig /\ t.flows = flows /\ t.stopping = s.stopping
      /\ t.unready = s.unready /\ t.gone = s.gone /\ t.beside = s.beside /\ t.raced = s.raced /\ t.child = s.child
  BY <1>3, <1>5, <1>6 DEF Shell
<1> HIDE DEF t
<1>8. AliveIn(t) = AliveIn(s) \ {p}
  BY <1>3, <1>7 DEF AliveIn
<1>9. Turns(t, s)
  BY <1>3, <1>7, <1>8 DEF AliveIn, Turns
<1>10. Killing(t) = Killing(s)
  BY <1>5, <1>7 DEF Killing
<1> QED
  BY <1>1, <1>7, <1>8, <1>9, <1>10 DEF sig

(* An exit: the guard, and then the code that waited for that end.         *)
LEMMA Exits ==
  ASSUME NEW s \in Shell, NEW p \in AliveIn(s)
  PROVE  LET dead == Fallen(s, p)
             waiting == {f \in s.flows : f.step = "killing" /\ f.of = p}
         IN  /\ Turns(Exited(s, p), s)
             /\ \/ s.gone /\ Exited(s, p) = dead
                \/ ~s.gone /\ waiting = {} /\ Exited(s, p) = Guarded(dead)
                \/ ~s.gone /\ \E f \in waiting : /\ f \in Flows /\ f.for \in Reasons
                                                 /\ Without(Guarded(dead), f) \in Shell
                                                 /\ Exited(s, p) = Killed(Without(Guarded(dead), f), f.for)
<1> DEFINE dead == Fallen(s, p)
           waiting == {f \in s.flows : f.step = "killing" /\ f.of = p}
           g == Guarded(dead)
<1>1. Turns(dead, s) /\ dead \in Shell
  BY Falls DEF Turns
<1>2. /\ s.gone => Exited(s, p) = dead
      /\ ~s.gone /\ waiting = {} => Exited(s, p) = g
      /\ ~s.gone /\ waiting # {} => \E f \in waiting : Exited(s, p) = Killed(Without(g, f), f.for)
  BY Zenon DEF Exited, Fallen
<1> HIDE DEF dead
<1>3. Turns(g, dead) /\ g \in Shell
  BY <1>1, Guards DEF Turns
<1>4. Turns(g, s)
  BY <1>1, <1>3, TurnsAgain
<1> HIDE DEF g
<1>5. ASSUME NEW f \in waiting
      PROVE  /\ f \in Flows /\ f.for \in Reasons /\ Without(g, f) \in Shell
             /\ Turns(Killed(Without(g, f), f.for), s)
  <2>1. f \in Flows /\ f.for \in Reasons
    BY DEF Shell, Flows
  <2> DEFINE w == [g EXCEPT !.flows = @ \ {f}]
  <2>2. w \in Shell /\ w.procs = g.procs /\ w.beside = g.beside /\ w.raced = g.raced
    BY <1>3 DEF Shell
  <2>3. Without(g, f) = w
    BY DEF Without
  <2> HIDE DEF w
  <2>4. Turns(w, g)
    BY <2>2, SameProcsTurn
  <2>5. Turns(Killed(w, f.for), w)
    BY <2>1, <2>2, Kills
  <2> QED
    BY <1>4, <2>1, <2>2, <2>3, <2>4, <2>5, TurnsAgain
<1> HIDE DEF waiting
<1>6. Turns(Exited(s, p), s)
  BY <1>1, <1>2, <1>4, <1>5
<1>7. s.gone \in BOOLEAN
  BY DEF Shell
<1> QED
  BY <1>2, <1>5, <1>6, <1>7 DEF dead, waiting, g

LEMMA TakesAway ==
  ASSUME NEW s \in Shell, NEW f
  PROVE  LET t == Without(s, f) IN
         /\ t \in Shell /\ Turns(t, s) /\ AliveIn(t) = AliveIn(s) /\ Killing(t) = Killing(s) \ {f}
         /\ t.child = s.child /\ t.signalled = s.signalled /\ t.stopping = s.stopping /\ t.gone = s.gone
         /\ t.unready = s.unready /\ t.beside = s.beside /\ t.raced = s.raced /\ t.procs = s.procs
<1> DEFINE t == [s EXCEPT !.flows = @ \ {f}]
<1>1. Without(s, f) = t
  BY DEF Without
<1>2. /\ t \in Shell /\ t.procs = s.procs /\ t.beside = s.beside /\ t.raced = s.raced /\ t.flows = s.flows \ {f}
      /\ t.child = s.child /\ t.signalled = s.signalled /\ t.stopping = s.stopping /\ t.gone = s.gone
      /\ t.unready = s.unready
  BY DEF Shell
<1> HIDE DEF t
<1>3. Turns(t, s) /\ AliveIn(t) = AliveIn(s)
  BY <1>2, SameProcsTurn
<1>4. Killing(t) = Killing(s) \ {f}
  BY <1>2 DEF Killing
<1> QED
  BY <1>1, <1>2, <1>3, <1>4

LEMMA ExitedIsOrderly ==
  ASSUME NEW s \in Shell, NEW p \in AliveIn(s), Orderly(s)
  PROVE  Orderly(Exited(s, p))
<1> DEFINE dead == Fallen(s, p)
           waiting == {f \in s.flows : f.step = "killing" /\ f.of = p}
           g == Guarded(dead)
<1>1. /\ dead \in Shell /\ AliveIn(dead) = AliveIn(s) \ {p} /\ Killing(dead) = Killing(s)
      /\ dead.stopping = s.stopping /\ dead.gone = s.gone /\ dead.beside = s.beside
      /\ dead.signalled = s.signalled \ {p}
  BY Falls DEF Turns
<1>2. AliveIn(dead) \subseteq dead.beside
  BY <1>1 DEF Orderly, Alone
<1>3. \/ s.gone /\ Exited(s, p) = dead
      \/ ~s.gone /\ waiting = {} /\ Exited(s, p) = g
      \/ ~s.gone /\ \E f \in waiting : /\ f \in Flows /\ f.for \in Reasons
                                       /\ Without(g, f) \in Shell
                                       /\ Exited(s, p) = Killed(Without(g, f), f.for)
  BY Exits
<1> HIDE DEF dead
<1>4. /\ g \in Shell /\ g.stopping = dead.stopping /\ g.flows = dead.flows /\ g.gone = dead.gone
      /\ g.signalled = dead.signalled
      /\ \/ g.child = None /\ AliveIn(g) = AliveIn(dead) /\ g.beside = dead.beside
         \/ ~dead.stopping /\ Restarting(g, dead)
  BY <1>1, Guards DEF Turns
<1> HIDE DEF g
<1>5. Killing(g) = Killing(s)
  BY <1>1, <1>4 DEF Killing
<1>6. /\ AliveIn(g) \subseteq g.beside \/ AliveIn(g) = {g.child}
      /\ g.child # None => g.child \in AliveIn(g)
      /\ g.stopping => AliveIn(g) \subseteq g.beside
      /\ AliveIn(s) \ {p} \subseteq AliveIn(g)
  BY <1>1, <1>2, <1>4 DEF Restarting
<1>10. s.signalled \ {p} = g.signalled
  BY <1>1, <1>4
<1>7. CASE s.gone /\ Exited(s, p) = dead
  <2>1. dead.gone
    BY <1>1, <1>7
  <2> QED
    BY <1>2, <1>7, <2>1 DEF Orderly, Alone
<1>8. CASE ~s.gone /\ waiting = {} /\ Exited(s, p) = g
  <2>1. \A f \in Killing(s) : f.of # p
    BY <1>8 DEF Killing
  <2>2. ~g.gone /\ g.stopping = s.stopping /\ Waits(s) /\ Stopping(s)
    BY <1>1, <1>4, <1>8 DEF Orderly, Awaited
  <2>3. Alone(g) /\ Stopping(g)
    BY <1>5, <1>6, <2>2 DEF Alone, Stopping
  <2>4. Awaited(g)
    BY <1>5, <1>6, <1>10, <2>1, <2>2 DEF Awaited, Waits
  <2> QED
    BY <1>8, <2>2, <2>3, <2>4 DEF Orderly
<1>9. CASE ~s.gone /\ \E f \in waiting : /\ f \in Flows /\ f.for \in Reasons
                                         /\ Without(g, f) \in Shell
                                         /\ Exited(s, p) = Killed(Without(g, f), f.for)
  <2>1. PICK f \in waiting : /\ f \in Flows /\ f.for \in Reasons
                             /\ Exited(s, p) = Killed(Without(g, f), f.for)
    BY <1>9
  <2> DEFINE w == Without(g, f)
  <2>2. /\ w \in Shell /\ AliveIn(w) = AliveIn(g) /\ Killing(w) = Killing(g) \ {f}
        /\ w.child = g.child /\ w.stopping = g.stopping /\ w.gone = g.gone
        /\ w.beside = g.beside /\ w.signalled = g.signalled
    BY <1>4, TakesAway
  <2> HIDE DEF w
  <2>3. Waits(s) /\ Stopping(s) /\ f \in Killing(s) /\ f.of = p
    BY <1>9, <2>1 DEF Orderly, Awaited, Killing
  <2>4. Killing(w) = Killing(s) \ {f} /\ \A h \in Killing(w) : h.of # p
    BY <1>5, <2>2, <2>3 DEF Waits
  <2>5. ~w.gone
    BY <1>1, <1>4, <1>9, <2>2
  <2>6. Alone(w) /\ Waits(w)
    <3>1. Alone(w)
      BY <1>6, <2>2 DEF Alone
    <3>2. Waits(w)
      BY <1>1, <1>4, <1>6, <1>10, <2>2, <2>3, <2>4 DEF Waits
    <3> QED
      BY <3>1, <3>2
  <2>7. f.for = "quit" => AliveIn(w) \ w.beside \subseteq w.signalled
    BY <1>1, <1>4, <1>6, <2>2, <2>3 DEF Waits
  <2>8. f.for # "quit" => Stopping(w)
    BY <1>1, <1>4, <2>2, <2>3, <2>4 DEF Stopping
  <2>9. Exited(s, p) = Killed(w, f.for)
    BY <2>1 DEF w
  <2> QED
    BY <2>1, <2>2, <2>5, <2>6, <2>7, <2>8, <2>9, KilledIsOrderly
<1> QED
  BY <1>3, <1>7, <1>8, <1>9

LEMMA QuitsInOrder ==
  ASSUME NEW s \in Shell, ~s.gone
  PROVE  /\ Turns(Quitting(s), s)
         /\ Orderly(s) => Orderly(Quitting(s))
<1>1. CASE s.stopping
  <2> DEFINE t == [s EXCEPT !.gone = TRUE]
  <2>1. Quitting(s) = t
    BY <1>1 DEF Quitting
  <2>2. /\ t \in Shell /\ t.procs = s.procs /\ t.beside = s.beside /\ t.raced = s.raced /\ t.signalled = s.signalled
        /\ t.gone /\ t.child = s.child
    BY DEF Shell
  <2> HIDE DEF t
  <2>3. Turns(t, s) /\ AliveIn(t) = AliveIn(s)
    BY <2>2, SameProcsTurn
  <2>4. ASSUME Orderly(s)
        PROVE  Orderly(t)
    <3>1. Alone(t)
      BY <2>2, <2>3, <2>4 DEF Orderly, Alone
    <3>2. AliveIn(s) \ s.beside \subseteq s.signalled
      BY <1>1, <2>4 DEF Orderly, Alone, Awaited, Waits, Stopping
    <3> QED
      BY <2>2, <2>3, <3>1, <3>2 DEF Orderly
  <2> QED
    BY <2>1, <2>3, <2>4
<1>2. CASE ~s.stopping
  <2> DEFINE t == [s EXCEPT !.stopping = TRUE]
  <2>1. Quitting(s) = KillChild(t, "quit") /\ "quit" \in Reasons
    BY <1>2 DEF Quitting, Reasons
  <2>2. /\ t \in Shell /\ t.procs = s.procs /\ t.beside = s.beside /\ t.raced = s.raced /\ t.signalled = s.signalled
        /\ t.gone = s.gone /\ t.child = s.child /\ t.stopping /\ t.flows = s.flows
    BY DEF Shell
  <2> HIDE DEF t
  <2>3. Turns(t, s) /\ AliveIn(t) = AliveIn(s) /\ Killing(t) = Killing(s)
    BY <2>2, SameProcsTurn DEF Killing
  <2>4. Turns(KillChild(t, "quit"), t)
    BY Zenon, <2>1, <2>2, KillsChild
  <2>5. Turns(KillChild(t, "quit"), s)
    BY <2>3, <2>4, TurnsAgain
  <2>6. ASSUME Orderly(s)
        PROVE  Orderly(KillChild(t, "quit"))
    <3>1. Alone(t) /\ Awaited(t) /\ ~t.gone
      BY <2>2, <2>3, <2>6 DEF Orderly, Alone, Awaited, Waits
    <3> QED
      BY <2>1, <2>2, <2>6, <3>1, KillChildIsOrderly
  <2> QED
    BY <2>1, <2>5, <2>6
<1>3. s.stopping \in BOOLEAN
  BY DEF Shell
<1> QED
  BY <1>1, <1>2, <1>3

-------------------------------------------------------------------------------
(* What a step may do without a word about processes: the windows, the     *)
(* dialogs, the events left, the flows that wait for no end.               *)
Same(t, s) ==
  /\ t \in Shell /\ t.procs = s.procs /\ t.beside = s.beside /\ t.raced = s.raced /\ t.child = s.child
  /\ t.signalled = s.signalled /\ t.stopping = s.stopping /\ t.gone = s.gone /\ t.unready = s.unready
  /\ Killing(t) = Killing(s)

LEMMA SameInOrder ==
  ASSUME NEW s, NEW t, Same(t, s)
  PROVE  Turns(t, s) /\ AliveIn(t) = AliveIn(s) /\ (Orderly(s) => Orderly(t))
<1>1. Turns(t, s) /\ AliveIn(t) = AliveIn(s)
  BY SameProcsTurn DEF Same
<1>2. ASSUME Orderly(s)
      PROVE  Orderly(t)
  <2>1. Alone(t)
    BY <1>1, <1>2 DEF Orderly, Alone, Same
  <2>2. ~t.gone => Awaited(t) /\ Stopping(t)
    BY <1>1, <1>2 DEF Orderly, Awaited, Waits, Stopping, Same
  <2>3. t.gone /\ ~t.unready => AliveIn(t) \ t.beside \subseteq t.signalled
    BY <1>1, <1>2 DEF Orderly, Same
  <2> QED
    BY <2>1, <2>2, <2>3 DEF Orderly
<1> QED
  BY <1>1, <1>2

LEMMA Spent ==
  ASSUME NEW s \in Shell
  PROVE  Same(Spend(s), s) /\ Spend(s) \in Shell /\ Spend(s).flows = s.flows
         /\ Spend(s).window = s.window /\ Spend(s).asked = s.asked
<1> DEFINE t == [s EXCEPT !.left = @ - 1]
<1>1. Spend(s) = t
  BY DEF Spend
<1>2. s.left - 1 \in Int
  BY DEF Shell
<1>3. /\ t \in Shell /\ t.procs = s.procs /\ t.beside = s.beside /\ t.raced = s.raced /\ t.child = s.child
      /\ t.signalled = s.signalled /\ t.stopping = s.stopping /\ t.gone = s.gone /\ t.unready = s.unready
      /\ t.flows = s.flows /\ t.window = s.window /\ t.asked = s.asked
  BY <1>2 DEF Shell
<1> HIDE DEF t
<1> QED
  BY <1>1, <1>3 DEF Same, Killing

(* A step that leaves the disk alone.                                      *)
LEMMA DiskAside ==
  ASSUME IInv, disk' = disk, Turns(shell', shell),
         Orderly(shell) => Orderly(shell')
  PROVE  IInv'
<1>1. TypeOK'
  BY DEF IInv, TypeOK, Turns
<1>2. ASSUME ~shell'.raced
      PROVE  Restoring'
  <2>1. Restoring
    BY <1>2 DEF IInv, Turns
  <2>2. \A p \in Alive' : shell'.procs[p] = "look" \/ (p \in Alive /\ shell'.procs[p] = shell.procs[p])
    BY DEF Turns, Alive, AliveIn
  <2>3. Swapping'
    BY <2>1, <2>2 DEF Restoring, Swapping
  <2>4. AloneInSwap'
    BY <2>1, <2>2 DEF Restoring, AloneInSwap
  <2> QED
    BY <2>3, <2>4 DEF Restoring
<1>3. Orderly(shell)' <=> Orderly(shell')
  BY DEF Orderly, Alone, Awaited, Waits, Stopping, AliveIn, Killing
<1> QED
  BY <1>1, <1>2, <1>3 DEF IInv

(* A step of a server that stays alive.                                    *)
StepTo(s, p, step, raced) == [s EXCEPT !.procs[p] = step, !.raced = raced]

LEMMA StepsTo ==
  ASSUME NEW s \in Shell, NEW p \in AliveIn(s), NEW step \in ServerSteps \ {"dead"}, NEW raced \in BOOLEAN
  PROVE  LET t == StepTo(s, p, step, raced) IN
         /\ t \in Shell /\ t.beside = s.beside /\ t.raced = raced /\ AliveIn(t) = AliveIn(s) /\ t.procs[p] = step
         /\ \A q \in AliveIn(s) : q # p => t.procs[q] = s.procs[q]
         /\ Orderly(s) => Orderly(t)
<1> DEFINE procs == [s.procs EXCEPT ![p] = step]
           t == [s EXCEPT !.procs = procs, !.raced = raced]
<1>2. s.procs \in Seq(ServerSteps) /\ DOMAIN s.procs = 1..Len(s.procs) /\ p \in DOMAIN s.procs
  BY DEF Shell, AliveIn
<1>3. /\ procs \in Seq(ServerSteps) /\ DOMAIN procs = DOMAIN s.procs /\ procs[p] = step
      /\ \A q \in DOMAIN s.procs : q # p => procs[q] = s.procs[q]
  BY <1>2
<1> HIDE DEF procs
<1>4. /\ t \in Shell /\ t.procs = procs /\ t.beside = s.beside /\ t.raced = raced /\ t.flows = s.flows
      /\ t.child = s.child /\ t.signalled = s.signalled /\ t.stopping = s.stopping
      /\ t.gone = s.gone /\ t.unready = s.unready
  BY <1>3 DEF Shell
<1> HIDE DEF t
<1>5. AliveIn(t) = AliveIn(s) /\ Killing(t) = Killing(s)
  BY <1>3, <1>4 DEF AliveIn, Killing
<1>6. ASSUME Orderly(s)
      PROVE  Orderly(t)
  <2>1. Alone(t)
    BY <1>4, <1>5, <1>6 DEF Orderly, Alone
  <2>2. ~t.gone => Awaited(t) /\ Stopping(t)
    BY <1>4, <1>5, <1>6 DEF Orderly, Awaited, Waits, Stopping
  <2>3. t.gone /\ ~t.unready => AliveIn(t) \ t.beside \subseteq t.signalled
    BY <1>4, <1>5, <1>6 DEF Orderly
  <2> QED
    BY <2>1, <2>2, <2>3 DEF Orderly
<1>7. t = StepTo(s, p, step, raced)
  BY DEF t, procs, StepTo
<1> QED
  BY <1>3, <1>4, <1>5, <1>6, <1>7 DEF AliveIn

LEMMA Gone ==
  ASSUME TypeOK, NEW p \in Alive, NEW step \in ServerSteps \ {"dead"}, Goes(p, step)
  PROVE  /\ shell' \in Shell /\ shell'.beside = shell.beside /\ shell'.raced = shell.raced
         /\ Alive' = Alive /\ shell'.procs[p] = step
         /\ \A q \in Alive : q # p => shell'.procs[q] = shell.procs[q]
         /\ Orderly(shell) => Orderly(shell)'
<1>1. shell \in Shell /\ p \in AliveIn(shell) /\ shell.raced \in BOOLEAN
  BY DEF TypeOK, Shell, Alive, AliveIn
<1> DEFINE t == StepTo(shell, p, step, shell.raced)
<1>2. shell' = t
  <2> DEFINE procs == [shell.procs EXCEPT ![p] = step]
  <2>1. shell' = [shell EXCEPT !.procs = procs]
    BY DEF Goes
  <2> HIDE DEF procs
  <2>2. [shell EXCEPT !.procs = procs] = [shell EXCEPT !.procs = procs, !.raced = shell.raced]
    BY <1>1 DEF Shell
  <2> QED
    BY <2>1, <2>2 DEF procs, StepTo
<1>8. /\ t \in Shell /\ t.beside = shell.beside /\ t.raced = shell.raced
      /\ AliveIn(t) = AliveIn(shell) /\ t.procs[p] = step
      /\ \A q \in AliveIn(shell) : q # p => t.procs[q] = shell.procs[q]
      /\ Orderly(shell) => Orderly(t)
  BY <1>1, StepsTo
<1> HIDE DEF t
<1>3. /\ shell' \in Shell /\ shell'.beside = shell.beside /\ shell'.raced = shell.raced
      /\ AliveIn(shell') = AliveIn(shell) /\ shell'.procs[p] = step
      /\ \A q \in AliveIn(shell) : q # p => shell'.procs[q] = shell.procs[q]
      /\ Orderly(shell) => Orderly(shell')
  BY <1>2, <1>8
<1>4. Orderly(shell)' <=> Orderly(shell')
  BY DEF Orderly, Alone, Awaited, Waits, Stopping, AliveIn, Killing
<1> QED
  BY <1>3, <1>4 DEF Alive, AliveIn

LEMMA LookSafe ==
  ASSUME IInv, NEW p \in Alive, LookForRestore(p)
  PROVE  IInv'
<1> DEFINE step  == IF disk.pending = "none" THEN "open" ELSE "remove"
           races == \E q \in Alive \ {p} : \/ shell.procs[q] \in {"remove", "rename"}
                                           \/ shell.procs[q] = "open" /\ step = "remove"
<1>1. shell \in Shell /\ p \in AliveIn(shell) /\ shell.raced \in BOOLEAN
  BY DEF IInv, TypeOK, Shell, Alive, AliveIn
<1>2. step \in ServerSteps \ {"dead"} /\ disk' = disk
  BY DEF LookForRestore, ServerSteps
<1>3. PICK raced \in BOOLEAN : raced = (shell.raced \/ races)
  OBVIOUS
<1> DEFINE t == StepTo(shell, p, step, raced)
<1>4. shell' = t
  BY <1>3 DEF LookForRestore, StepTo
<1>8. /\ t \in Shell /\ t.raced = raced
      /\ AliveIn(t) = AliveIn(shell) /\ t.procs[p] = step
      /\ \A q \in AliveIn(shell) : q # p => t.procs[q] = shell.procs[q]
      /\ Orderly(shell) => Orderly(t)
  <2> HIDE DEF step
  <2> QED
    BY <1>1, <1>2, StepsTo
<1> HIDE DEF t
<1>5. /\ shell' \in Shell /\ shell'.raced = raced
      /\ AliveIn(shell') = AliveIn(shell) /\ shell'.procs[p] = step
      /\ \A q \in AliveIn(shell) : q # p => shell'.procs[q] = shell.procs[q]
      /\ Orderly(shell) => Orderly(shell')
  BY <1>4, <1>8
<1>6. Orderly(shell)' <=> Orderly(shell')
  BY DEF Orderly, Alone, Awaited, Waits, Stopping, AliveIn, Killing
<1>7. ASSUME ~raced
      PROVE  Restoring'
  <2>1. /\ Restoring
        /\ \A q \in Alive \ {p} : /\ shell.procs[q] \notin {"remove", "rename"}
                                  /\ step = "remove" => shell.procs[q] # "open"
    BY <1>3, <1>7 DEF IInv
  <2>2. /\ Alive' = Alive /\ shell'.procs[p] = step
        /\ \A q \in Alive \ {p} : shell'.procs[q] = shell.procs[q]
    BY <1>5 DEF Alive, AliveIn
  <2>3. step = "open" \/ (step = "remove" /\ disk.pending = "backup")
    BY DEF IInv, TypeOK, Disk
  <2>4. step = "open" => disk.pending = "none"
    OBVIOUS
  <2> HIDE DEF step
  <2>5. Swapping'
    BY <1>2, <2>1, <2>2, <2>3, <2>4 DEF Restoring, Swapping
  <2>6. AloneInSwap'
    BY <2>1, <2>2, <2>3 DEF AloneInSwap
  <2> QED
    BY <2>5, <2>6 DEF Restoring
<1> QED
  BY <1>2, <1>5, <1>6, <1>7 DEF IInv, TypeOK

LEMMA RemoveSafe ==
  ASSUME IInv, NEW p \in Alive, RemoveLive(p)
  PROVE  IInv'
<1>1. "rename" \in ServerSteps \ {"dead"} /\ Goes(p, "rename") /\ shell.procs[p] = "remove"
  BY DEF RemoveLive, ServerSteps
<1>2. /\ shell' \in Shell /\ shell'.raced = shell.raced /\ Alive' = Alive /\ shell'.procs[p] = "rename"
      /\ \A q \in Alive : q # p => shell'.procs[q] = shell.procs[q]
      /\ Orderly(shell) => Orderly(shell)'
  BY <1>1, Gone DEF IInv
<1>3. disk' = [disk EXCEPT !.live = "missing"] \/ disk' = disk
  BY DEF RemoveLive
<1>4. disk \in Disk
  BY DEF IInv, TypeOK
<1>5. disk' \in Disk /\ disk'.pending = disk.pending /\ disk'.live \in {disk.live, "missing"}
  BY <1>3, <1>4 DEF Disk
<1>6. ASSUME Restoring
      PROVE  Restoring'
  <2>1. disk.pending = "backup" /\ \A q \in Alive \ {p} : shell.procs[q] \notin {"remove", "rename", "open"}
    BY <1>1, <1>6 DEF Restoring, Swapping, AloneInSwap
  <2> QED
    BY <1>2, <1>5, <1>6, <2>1 DEF Restoring, Swapping, AloneInSwap
<1> QED
  BY <1>2, <1>5, <1>6 DEF IInv, TypeOK

LEMMA ExitSafe ==
  ASSUME IInv, NEW p \in Alive, NEW s, Same(s, shell), shell' = Exited(s, p), disk' = disk
  PROVE  IInv'
<1>1. /\ s \in Shell /\ Turns(s, shell) /\ p \in AliveIn(s) /\ (Orderly(shell) => Orderly(s))
      /\ s.beside = shell.beside /\ s.raced = shell.raced
  BY SameInOrder DEF Same, Alive, AliveIn
<1>2. Turns(Exited(s, p), s)
  BY <1>1, Exits
<1>3. Turns(shell', shell)
  BY <1>1, <1>2, TurnsAgain
<1>4. Orderly(shell) => Orderly(shell')
  BY <1>1, ExitedIsOrderly
<1> QED
  BY <1>3, <1>4, DiskAside

LEMMA NothingChanges ==
  ASSUME TypeOK
  PROVE  Same(shell, shell)
BY DEF TypeOK, Same

LEMMA RenameSafe ==
  ASSUME IInv, NEW p \in Alive, RenamePending(p)
  PROVE  IInv'
<1>1. CASE /\ shell.procs[p] = "rename" /\ disk.pending # "none" /\ Goes(p, "open")
           /\ disk' = [live |-> disk.pending, pending |-> "none"]
  <2>1. /\ shell' \in Shell /\ shell'.raced = shell.raced /\ Alive' = Alive /\ shell'.procs[p] = "open"
        /\ \A q \in Alive : q # p => shell'.procs[q] = shell.procs[q]
        /\ Orderly(shell) => Orderly(shell)'
    BY <1>1, Gone DEF IInv, ServerSteps
  <2>2. disk' \in Disk /\ disk'.live = "backup"
    BY <1>1 DEF IInv, TypeOK, Disk
  <2>3. ASSUME Restoring
        PROVE  Restoring'
    <3>1. \A q \in Alive \ {p} : shell.procs[q] \notin {"remove", "rename", "open"}
      BY <1>1, <2>3 DEF Restoring, Swapping, AloneInSwap
    <3> QED
      BY <2>1, <2>2, <2>3, <3>1 DEF Restoring, Swapping, AloneInSwap
  <2> QED
    BY <2>1, <2>2, <2>3 DEF IInv, TypeOK
<1>2. CASE shell' = Exited(shell, p) /\ UNCHANGED disk
  BY <1>2, NothingChanges, ExitSafe DEF IInv
<1> QED
  BY <1>1, <1>2 DEF RenamePending

LEMMA OpenSafe ==
  ASSUME IInv, NEW p \in Alive, OpenDatabase(p)
  PROVE  IInv'
<1>1. Goes(p, "bind") /\ shell.procs[p] = "open" /\ disk' = [disk EXCEPT !.live = IF @ = "missing" THEN "fresh" ELSE @]
  BY DEF OpenDatabase
<1>2. /\ shell' \in Shell /\ shell'.raced = shell.raced /\ Alive' = Alive /\ shell'.procs[p] = "bind"
      /\ \A q \in Alive : q # p => shell'.procs[q] = shell.procs[q]
      /\ Orderly(shell) => Orderly(shell)'
  BY <1>1, Gone DEF IInv, ServerSteps
<1>3. disk' \in Disk /\ (disk.live # "missing" => disk' = disk)
  BY <1>1 DEF IInv, TypeOK, Disk
<1>4. Restoring => disk' = disk
  BY <1>1, <1>3 DEF Restoring, Swapping, AloneInSwap
<1>5. Restoring => Restoring'
  BY <1>2, <1>4 DEF Restoring, Swapping, AloneInSwap
<1> QED
  BY <1>2, <1>3, <1>5 DEF IInv, TypeOK

LEMMA BindSafe ==
  ASSUME IInv, NEW p \in Alive, Bind(p)
  PROVE  IInv'
<1>1. CASE Goes(p, "serving")
  <2>1. /\ shell' \in Shell /\ shell'.raced = shell.raced /\ Alive' = Alive /\ shell'.procs[p] = "serving"
        /\ \A q \in Alive : q # p => shell'.procs[q] = shell.procs[q]
        /\ Orderly(shell) => Orderly(shell)'
    BY <1>1, Gone DEF IInv, ServerSteps
  <2>2. disk' = disk
    BY DEF Bind
  <2>3. Restoring => Restoring'
    BY <2>1, <2>2 DEF Restoring, Swapping, AloneInSwap
  <2> QED
    BY <2>1, <2>2, <2>3 DEF IInv, TypeOK
<1>2. CASE shell' = Exited(shell, p)
  BY <1>2, NothingChanges, ExitSafe DEF IInv, Bind
<1> QED
  BY <1>1, <1>2 DEF Bind

LEMMA EndSafe ==
  ASSUME IInv, NEW p \in Alive, Dies(p) \/ ServerCrashes(p)
  PROVE  IInv'
<1>1. CASE Dies(p)
  BY <1>1, NothingChanges, ExitSafe DEF IInv, Dies
<1>2. CASE ServerCrashes(p)
  <2>1. Same(Spend(shell), shell)
    BY Spent DEF IInv, TypeOK
  <2> QED
    BY <1>2, <2>1, ExitSafe DEF ServerCrashes
<1> QED
  BY <1>1, <1>2

LEMMA KillTimesOutSafe ==
  ASSUME IInv, NEW f \in shell.flows, KillTimesOut(f)
  PROVE  IInv'
<1>1. /\ ~shell.gone /\ f.step = "killing" /\ disk' = disk
      /\ shell' = Killed(Without(Spend(shell), f), f.for)
  BY DEF KillTimesOut
<1>2. shell \in Shell /\ f \in Flows /\ f.for \in Reasons /\ f \in Killing(shell)
  BY <1>1 DEF IInv, TypeOK, Shell, Flows, Killing
<1> DEFINE e == Spend(shell)
           s == Without(e, f)
<1>3. Same(e, shell) /\ e \in Shell
  BY <1>2, Spent
<1>4. Turns(e, shell) /\ AliveIn(e) = AliveIn(shell)
  BY <1>3, SameInOrder
<1> HIDE DEF e
<1>5. /\ s \in Shell /\ Turns(s, e) /\ AliveIn(s) = AliveIn(e) /\ Killing(s) = Killing(e) \ {f}
      /\ s.child = e.child /\ s.signalled = e.signalled /\ s.stopping = e.stopping /\ s.gone = e.gone
      /\ s.beside = e.beside
  BY <1>3, TakesAway
<1>6. shell' = Killed(s, f.for)
  BY <1>1 DEF e
<1> HIDE DEF s
<1>7. Turns(shell', shell)
  BY <1>2, <1>4, <1>5, <1>6, Kills, TurnsAgain
<1>8. ASSUME Orderly(shell)
      PROVE  Orderly(shell')
  <2>1. Alone(shell) /\ Waits(shell) /\ Stopping(shell)
    BY <1>1, <1>8 DEF Orderly, Awaited
  <2>2. ~s.gone /\ Killing(s) = Killing(shell) \ {f}
    BY <1>1, <1>3, <1>5 DEF Same
  <2>3. Alone(s) /\ Waits(s)
    BY <1>3, <1>4, <1>5, <2>1, <2>2 DEF Same, Alone, Waits
  <2>4. AliveIn(s) \ s.beside \subseteq s.signalled
    BY <1>2, <1>3, <1>4, <1>5, <2>1 DEF Same, Alone, Waits
  <2>5. f.for # "quit" => Stopping(s)
    BY <1>2, <1>3, <1>5, <2>1, <2>2 DEF Same, Stopping
  <2> QED
    BY <1>2, <1>5, <1>6, <2>2, <2>3, <2>4, <2>5, KilledIsOrderly
<1> QED
  BY <1>1, <1>7, <1>8, DiskAside

(* The step leaves the processes and those who wait for one as they are.   *)
LEMMA SameSafe ==
  ASSUME IInv, Same(shell', shell), disk' = disk
  PROVE  IInv'
BY SameInOrder, DiskAside

LEMMA ReadySafe ==
  ASSUME IInv, NEW f \in shell.flows, Ready(f)
  PROVE  IInv'
<1> DEFINE w == Without(shell, f)
           t == [w EXCEPT !.window = IF @ = "none" THEN @ ELSE "app"]
<1>1. shell' = t /\ disk' = disk /\ f.step = "waiting" /\ shell \in Shell
  BY DEF Ready, IInv, TypeOK
<1>2. /\ w \in Shell /\ Killing(w) = Killing(shell) \ {f} /\ w.child = shell.child
      /\ w.signalled = shell.signalled /\ w.stopping = shell.stopping /\ w.gone = shell.gone
      /\ w.unready = shell.unready /\ w.beside = shell.beside /\ w.raced = shell.raced /\ w.procs = shell.procs
  BY <1>1, TakesAway
<1>3. Killing(w) = Killing(shell)
  BY <1>1, <1>2 DEF Killing
<1> HIDE DEF w
<1>4. /\ t \in Shell /\ t.procs = w.procs /\ t.beside = w.beside /\ t.raced = w.raced /\ t.child = w.child
      /\ t.signalled = w.signalled /\ t.stopping = w.stopping /\ t.gone = w.gone /\ t.unready = w.unready
      /\ t.flows = w.flows
  BY <1>2 DEF Shell
<1> HIDE DEF t
<1>5. Same(t, shell)
  BY <1>2, <1>3, <1>4 DEF Same, Killing
<1> QED
  BY <1>1, <1>5, SameSafe

(* A boot that ends without a server ready ends the app.                   *)
LEMMA NotReadySafe ==
  ASSUME IInv, NEW f \in shell.flows, NotReady(f)
  PROVE  IInv'
<1> PICK boots \in BOOLEAN : boots = (f.for = "boot")
  OBVIOUS
<1>1. ~shell.gone /\ f.step = "waiting" /\ disk' = disk /\ shell \in Shell
  BY DEF NotReady, IInv, TypeOK
<1>2. PICK s \in {shell, Spend(shell)}, late \in BOOLEAN :
        /\ shell' = [Without(s, f) EXCEPT !.gone = boots, !.unready = late]
        /\ (late = shell.unready /\ shell.stopping) \/ late = (shell.unready \/ boots)
  <2>1. shell.unready \in BOOLEAN
    BY <1>1 DEF Shell
  <2>2. CASE shell.stopping /\ shell' = [Without(shell, f) EXCEPT !.gone = f.for = "boot"]
    <3> DEFINE w == Without(shell, f)
    <3>1. w \in Shell /\ w.unready = shell.unready
      BY <1>1, TakesAway
    <3> HIDE DEF w
    <3>2. [w EXCEPT !.gone = boots] = [w EXCEPT !.gone = boots, !.unready = shell.unready]
      BY <3>1 DEF Shell
    <3>3. shell' = [w EXCEPT !.gone = boots, !.unready = shell.unready]
      BY <2>2, <3>2 DEF w
    <3> QED
      BY Zenon, <2>1, <2>2, <3>3 DEF w
  <2>3. CASE shell' = [Without(Spend(shell), f) EXCEPT !.gone = f.for = "boot", !.unready = @ \/ f.for = "boot"]
    <3> DEFINE w == Without(Spend(shell), f)
    <3>1. w.unready = shell.unready
      BY <1>1, Spent, TakesAway DEF Same
    <3>2. PICK late \in BOOLEAN : late = (shell.unready \/ boots)
      OBVIOUS
    <3>3. shell' = [w EXCEPT !.gone = boots, !.unready = late]
      BY <2>3, <3>1, <3>2
    <3> HIDE DEF w
    <3>4. Spend(shell) \in {shell, Spend(shell)}
      OBVIOUS
    <3> QED
      BY Zenon, <3>2, <3>3, <3>4 DEF w
  <2> QED
    BY Zenon, <2>2, <2>3 DEF NotReady
<1>3. /\ s \in Shell /\ Same(s, shell)
  BY <1>1, Spent, NothingChanges DEF IInv
<1> DEFINE w == Without(s, f)
           t == [w EXCEPT !.gone = boots, !.unready = late]
<1>4. /\ w \in Shell /\ Turns(w, s) /\ AliveIn(w) = AliveIn(s) /\ Killing(w) = Killing(s) \ {f}
      /\ w.child = s.child /\ w.signalled = s.signalled /\ w.stopping = s.stopping
      /\ w.procs = s.procs /\ w.beside = s.beside /\ w.raced = s.raced
  BY <1>3, TakesAway
<1>5. shell' = t
  BY <1>2
<1> HIDE DEF w
<1>6. /\ t \in Shell /\ t.procs = w.procs /\ t.beside = w.beside /\ t.raced = w.raced /\ t.flows = w.flows /\ t.child = w.child
      /\ t.signalled = w.signalled /\ t.stopping = w.stopping /\ t.gone = boots /\ t.unready = late
  BY <1>4 DEF Shell
<1> HIDE DEF t
<1>7. /\ AliveIn(t) = AliveIn(shell) /\ Killing(t) = Killing(shell) /\ t.child = shell.child
      /\ t.signalled = shell.signalled /\ t.stopping = shell.stopping /\ t.beside = shell.beside /\ t.raced = shell.raced
      /\ t.procs = shell.procs
  <2>1. AliveIn(t) = AliveIn(shell)
    BY <1>3, <1>4, <1>6 DEF Same, AliveIn
  <2>2. f \notin Killing(shell)
    BY <1>1 DEF Killing
  <2>3. Killing(t) = Killing(w)
    BY <1>6 DEF Killing
  <2>4. Killing(w) = Killing(shell)
    BY <1>3, <1>4, <2>2 DEF Same
  <2> QED
    BY <1>3, <1>4, <1>6, <2>1, <2>3, <2>4 DEF Same
<1>8. Turns(t, shell)
  BY <1>6, <1>7, SameProcsTurn
<1>9. ASSUME Orderly(shell)
      PROVE  Orderly(t)
  <2>1. Alone(shell) /\ Awaited(shell) /\ Stopping(shell)
    BY <1>1, <1>9 DEF Orderly
  <2>2. Alone(t) /\ Awaited(t) /\ Stopping(t)
    BY <1>7, <2>1 DEF Alone, Awaited, Waits, Stopping
  <2>3. ASSUME boots, ~late
        PROVE  AliveIn(t) \ t.beside \subseteq t.signalled
    <3>1. shell.stopping
      BY <1>2, <2>3
    <3> QED
      BY <1>7, <2>1, <3>1 DEF Alone, Awaited, Waits, Stopping
  <2> QED
    BY <1>6, <2>2, <2>3 DEF Orderly
<1> QED
  BY <1>1, <1>5, <1>8, <1>9, DiskAside

LEMMA KillChildSafe ==
  ASSUME IInv, NEW s \in Shell, Same(s, shell), ~shell.gone, NEW for \in Reasons \ {"quit"},
         shell' = KillChild(s, for), disk' = disk
  PROVE  IInv'
<1>1. Turns(s, shell) /\ (Orderly(shell) => Orderly(s)) /\ ~s.gone
  BY SameInOrder DEF Same
<1>2. Turns(KillChild(s, for), s)
  BY Zenon, KillsChild
<1>3. Turns(shell', shell)
  BY <1>1, <1>2, TurnsAgain
<1>4. Orderly(shell) => Orderly(shell')
  BY <1>1, KillChildIsOrderly DEF Orderly
<1> QED
  BY <1>3, <1>4, DiskAside

LEMMA QuittingSafe ==
  ASSUME IInv, NEW s \in Shell, Same(s, shell), ~shell.gone, shell' = Quitting(s), disk' = disk
  PROVE  IInv'
<1>1. Turns(s, shell) /\ (Orderly(shell) => Orderly(s)) /\ ~s.gone
  BY SameInOrder DEF Same
<1>2. Turns(Quitting(s), s) /\ (Orderly(s) => Orderly(Quitting(s)))
  BY <1>1, QuitsInOrder
<1>3. Turns(shell', shell)
  BY <1>1, <1>2, TurnsAgain
<1>4. Orderly(shell) => Orderly(shell')
  BY <1>1, <1>2
<1> QED
  BY <1>3, <1>4, DiskAside

(* What the author does with the windows and in the dialogs.               *)
LEMMA AuthorSafe ==
  ASSUME IInv, Restart \/ Quit \/ CloseWindow \/ Activate \/ GoneAnswered
  PROVE  IInv'
<1> DEFINE e == Spend(shell)
<1>1. shell \in Shell /\ e \in Shell /\ Same(e, shell) /\ ~shell.gone /\ disk' = disk
      /\ Same(shell, shell)
  BY Spent, NothingChanges DEF IInv, TypeOK, Restart, Quit, CloseWindow, Activate, GoneAnswered
<1> HIDE DEF e
<1>2. CASE Restart
  BY <1>1, <1>2, KillChildSafe DEF Restart, Reasons, e
<1>3. CASE Quit
  BY <1>1, <1>3, QuittingSafe DEF Quit, e
<1>4. ASSUME NEW u \in {shell, e}, NEW w \in {"none", "splash", "app"}, NEW n \in Nat,
             NEW s, s = [u EXCEPT !.window = w, !.asked = n]
      PROVE  s \in Shell /\ Same(s, shell)
  <2>1. u \in Shell /\ Same(u, shell)
    BY <1>1
  <2>2. /\ s \in Shell /\ s.procs = u.procs /\ s.beside = u.beside /\ s.raced = u.raced /\ s.child = u.child
        /\ s.signalled = u.signalled /\ s.stopping = u.stopping /\ s.gone = u.gone /\ s.unready = u.unready
        /\ s.flows = u.flows
    BY <1>4, <2>1 DEF Shell
  <2> QED
    BY <2>1, <2>2 DEF Same, Killing
<1>5. e.asked = shell.asked /\ shell.asked \in Nat /\ e.window = shell.window
      /\ shell.window \in {"none", "splash", "app"}
  BY <1>1, Spent DEF Shell, e
<1>6. CASE CloseWindow
  <2> DEFINE s == [e EXCEPT !.window = "none", !.asked = 0]
  <2>1. s \in Shell /\ Same(s, shell)
    BY Zenon, <1>4
  <2>2. shell' \in {s, Quitting(s)}
    BY <1>6 DEF CloseWindow, e
  <2> HIDE DEF s
  <2> QED
    BY <1>1, <2>1, <2>2, SameSafe, QuittingSafe
<1>7. CASE Activate
  <2> DEFINE s == [e EXCEPT !.window = "splash", !.asked = e.asked]
  <2>1. Same(s, shell)
    BY Zenon, <1>4, <1>5
  <2>2. shell' = s
    BY <1>1, <1>7 DEF Activate, e, Shell
  <2> QED
    BY <1>1, <2>1, <2>2, SameSafe
<1>8. CASE GoneAnswered
  <2> DEFINE n == shell.asked - 1
             s == [shell EXCEPT !.asked = n]
             d == [e EXCEPT !.asked = n]
  <2>1. n \in Nat
    BY <1>5, <1>8 DEF GoneAnswered
  <2>2. s = [shell EXCEPT !.window = shell.window, !.asked = n]
    BY <1>1 DEF Shell
  <2>3. d = [e EXCEPT !.window = e.window, !.asked = n]
    BY <1>1 DEF Shell
  <2> HIDE DEF n
  <2>4. s \in Shell /\ Same(s, shell) /\ d \in Shell /\ Same(d, shell)
    BY Zenon, <1>4, <1>5, <2>1, <2>2, <2>3
  <2>5. Spend(s) = d
    BY <1>1 DEF Spend, e, Shell
  <2>6. shell' \in {s, Quitting(s)} \/ shell' = KillChild(d, "again")
    BY <1>8, <2>5 DEF GoneAnswered, n
  <2> HIDE DEF s, d
  <2>7. "again" \in Reasons \ {"quit"}
    BY DEF Reasons
  <2> QED
    BY <1>1, <2>4, <2>6, <2>7, SameSafe, QuittingSafe, KillChildSafe
<1> QED
  BY <1>2, <1>3, <1>6, <1>7, <1>8

LEMMA AskRestoreSafe ==
  ASSUME IInv, NEW p \in Alive, AskRestore(p)
  PROVE  IInv'
<1> DEFINE e   == Spend(shell)
           new == Flow("restore", "asking", p)
           t   == [e EXCEPT !.flows = @ \cup {new}]
<1>1. shell \in Shell /\ disk \in Disk /\ shell' = t /\ disk' = [disk EXCEPT !.pending = "backup"]
  BY DEF IInv, TypeOK, AskRestore
<1>2. e \in Shell /\ Same(e, shell) /\ p \in Nat
  BY <1>1, Spent, PidsAreNumbers DEF Alive, AliveIn
<1>3. new \in Flows /\ new.step = "asking"
  BY <1>2 DEF Flow, Flows, Reasons
<1> HIDE DEF e, new
<1>4. /\ t \in Shell /\ t.procs = e.procs /\ t.beside = e.beside /\ t.raced = e.raced /\ t.child = e.child
      /\ t.signalled = e.signalled /\ t.stopping = e.stopping /\ t.gone = e.gone /\ t.unready = e.unready
      /\ t.flows = e.flows \cup {new}
  BY <1>2, <1>3 DEF Shell
<1> HIDE DEF t
<1>5. Killing(t) = Killing(shell)
  BY <1>2, <1>3, <1>4 DEF Same, Killing
<1>6. Same(t, shell)
  BY <1>2, <1>4, <1>5 DEF Same
<1>7. Turns(shell', shell) /\ (Orderly(shell) => Orderly(shell'))
  BY <1>1, <1>6, SameInOrder
<1>8. disk' \in Disk /\ disk'.pending = "backup" /\ disk'.live = disk.live
  BY <1>1 DEF Disk
<1>9. Restoring => Restoring'
  BY <1>7, <1>8 DEF Restoring, Swapping, AloneInSwap, Turns, Alive, AliveIn
<1>10. Orderly(shell)' <=> Orderly(shell')
  BY DEF Orderly, Alone, Awaited, Waits, Stopping, AliveIn, Killing
<1> QED
  BY <1>7, <1>8, <1>9, <1>10 DEF IInv, TypeOK, Turns

LEMMA RestoreAnsweredSafe ==
  ASSUME IInv, NEW f \in shell.flows, RestoreAnswered(f)
  PROVE  IInv'
<1> DEFINE w == Without(shell, f)
<1>1. shell \in Shell /\ disk' = disk /\ ~shell.gone /\ f.step = "asking"
      /\ shell' \in {w, KillChild(w, "restore")}
  BY DEF IInv, TypeOK, RestoreAnswered
<1>2. /\ w \in Shell /\ Killing(w) = Killing(shell) \ {f}
      /\ w.child = shell.child /\ w.signalled = shell.signalled /\ w.stopping = shell.stopping
      /\ w.gone = shell.gone /\ w.unready = shell.unready /\ w.beside = shell.beside /\ w.raced = shell.raced
      /\ w.procs = shell.procs
  BY <1>1, TakesAway
<1>3. f \notin Killing(shell)
  BY <1>1 DEF Killing
<1> HIDE DEF w
<1>4. Same(w, shell)
  BY <1>2, <1>3 DEF Same
<1>5. "restore" \in Reasons \ {"quit"}
  BY DEF Reasons
<1> QED
  BY <1>1, <1>2, <1>4, <1>5, SameSafe, KillChildSafe

-------------------------------------------------------------------------------
LEMMA InitIInv ==
  ASSUME DeskMaxEvents \in Nat, DeskInit
  PROVE  IInv
<1> DEFINE procs == <<"look">>
           boot  == Flow("boot", "waiting", None)
<1>1. procs \in Seq(ServerSteps) /\ DOMAIN procs = {1} /\ procs[1] = "look"
  BY DEF ServerSteps
<1>2. boot \in Flows /\ boot.step = "waiting"
  BY DEF Flow, Flows, Reasons, None
<1> HIDE DEF procs, boot
<1>3. /\ shell = [procs |-> procs, child |-> 1, signalled |-> {}, stopping |-> FALSE, restarts |-> 0,
                  flows |-> {boot}, asked |-> 0, window |-> "splash",
                  gone |-> FALSE, beside |-> {}, raced |-> FALSE, unready |-> FALSE, left |-> DeskMaxEvents]
      /\ disk = [live |-> "works", pending |-> "none"]
  BY DEF DeskInit, procs, boot
<1>4. TypeOK
  BY <1>1, <1>2, <1>3 DEF TypeOK, Shell, Disk
<1>5. AliveIn(shell) = {1} /\ Killing(shell) = {}
  BY <1>1, <1>2, <1>3 DEF AliveIn, Killing
<1>6. Orderly(shell)
  BY <1>3, <1>5 DEF Orderly, Alone, Awaited, Waits, Stopping
<1>7. Restoring
  BY <1>1, <1>3 DEF Restoring, Swapping, AloneInSwap, Alive
<1> QED
  BY <1>4, <1>6, <1>7 DEF IInv

LEMMA NextKeepsIInv ==
  ASSUME IInv, [DeskNext]_deskVars
  PROVE  IInv'
<1>1. ASSUME NEW p \in Alive,
             \/ LookForRestore(p) \/ RemoveLive(p) \/ RenamePending(p) \/ OpenDatabase(p)
             \/ Bind(p) \/ Dies(p) \/ ServerCrashes(p) \/ AskRestore(p)
      PROVE  IInv'
  BY <1>1, LookSafe, RemoveSafe, RenameSafe, OpenSafe, BindSafe, EndSafe, AskRestoreSafe
<1>2. ASSUME NEW f \in shell.flows, KillTimesOut(f) \/ Ready(f) \/ NotReady(f) \/ RestoreAnswered(f)
      PROVE  IInv'
  BY <1>2, KillTimesOutSafe, ReadySafe, NotReadySafe, RestoreAnsweredSafe
<1>3. CASE Restart \/ Quit \/ CloseWindow \/ Activate \/ GoneAnswered
  BY <1>3, AuthorSafe
<1>4. CASE UNCHANGED deskVars
  BY <1>4, NothingChanges, SameSafe DEF deskVars, IInv
<1> QED
  BY <1>1, <1>2, <1>3, <1>4 DEF DeskNext

LEMMA IInvIsEnough ==
  ASSUME IInv
  PROVE  ShellKeepsServerAndData
<1>1. QuitLeavesNoServer
  BY DEF IInv, Orderly, QuitLeavesNoServer, AliveIn, Alive
<1>2. RestoreIsAtomic
  BY DEF IInv, Restoring, Swapping, RestoreIsAtomic
<1> QED
  BY <1>1, <1>2 DEF ShellKeepsServerAndData

(* However the shell and its servers start, crash, are killed, time out    *)
(* and are told to quit: an app that has gone, unless it gave up waiting   *)
(* for its first server, leaves none that was alone all its life, but one  *)
(* that has been told to end; and the swap of a restored backup leaves the *)
(* database in its place or the copy still to be put there, unless two     *)
(* servers were in the swap at once.                                       *)
THEOREM ServerAndDataAreKept ==
  ASSUME DeskMaxEvents \in Nat
  PROVE  DeskSpec => []ShellKeepsServerAndData
<1>1. DeskInit => IInv
  BY InitIInv
<1>2. IInv /\ [DeskNext]_deskVars => IInv'
  BY NextKeepsIInv
<1>3. IInv => ShellKeepsServerAndData
  BY IInvIsEnough
<1> QED
  BY <1>1, <1>2, <1>3, PTL DEF DeskSpec

-----------------------------------------------------------------------------
(* Induction, as the provers can use it.                                   *)

LEMMA LeastNumber ==
  ASSUME NEW S \in SUBSET Nat, S # {}
  PROVE  \E n \in S : \A m \in S : n <= m
<1> DEFINE R == {p \in Nat \X Nat : p[1] < p[2]}
<1>1. IsWellFoundedOn(R, Nat)
  BY NatLessThanWellFounded DEF OpToRel
<1> HIDE DEF R
<1>2. PICK n \in S : \A m \in S : <<m, n>> \notin R
  BY <1>1, WFMin
<1>3. \A m \in S : m < n => <<m, n>> \in R
  BY DEF R
<1>4. ASSUME NEW m \in S PROVE n <= m
  <2>1. ~(m < n) /\ m \in Nat /\ n \in Nat
    BY <1>2, <1>3
  <2> QED
    BY <2>1
<1> QED
  BY <1>4

LEMMA Induction ==
  ASSUME NEW S \in SUBSET Nat, 0 \in S, \A n \in S : n + 1 \in S
  PROVE  S = Nat
<1> SUFFICES ASSUME Nat \ S # {} PROVE FALSE
  OBVIOUS
<1>1. PICK n \in Nat \ S : \A m \in Nat \ S : n <= m
  BY LeastNumber
<1>2. n # 0 /\ n - 1 \in Nat
  BY <1>1
<1>3. n - 1 \in S
  BY <1>1, <1>2
<1> QED
  BY <1>1, <1>2, <1>3

LEMMA LeastIsIn ==
  ASSUME NEW S \in SUBSET Nat, S # {}
  PROVE  Min(S) \in S /\ \A n \in S : Min(S) <= n
<1>1. \E n \in S : \A m \in S : n <= m
  BY LeastNumber
<1> QED
  BY <1>1 DEF Min

-----------------------------------------------------------------------------
(* Publishing (PublishPanel)                                               *)
PubBounds == PubMaxEvents \in Nat /\ MaxChapters \in Nat \ {0}

Marks == [Chapters -> Nat]
PubBatch == [todo : SUBSET Chapters, live : SUBSET Chapters, done : Marks,
             failed : SUBSET Chapters, refused : SUBSET Chapters, later : BOOLEAN]
PubPage == [open : BOOLEAN, work : BOOLEAN, known : Marks, selected : SUBSET Chapters,
            schedule : BOOLEAN, loading : BOOLEAN, publishing : BOOLEAN, batch : PubBatch,
            marked : SUBSET Chapters, disturbed : BOOLEAN, asked : Nat, left : Int]
PubWhy == {"open", "others", "work", "batch", "again", "one"}
PubCall == [kind : {"load", "work", "publish", "unpublish"}, for : PubWhy, id : Nat,
            chapter : Chapters, pid : Nat, read : BOOLEAN, step : {"works", "chapters", "done"},
            work : BOOLEAN, chapters : Marks]
PubType ==
  /\ PubBounds
  /\ pub \in PubPage /\ pubCalls \subseteq PubCall
  /\ pubServer \in [work : BOOLEAN, chapters : Marks, pids : Nat]

(* the marks of a batch over what was known before it                      *)
Merged(known, done) == [c \in Chapters |-> IF known[c] = NotPublished THEN done[c] ELSE known[c]]
Beginning(marks) == \A c \in PublishedIn(marks) : \A d \in 1..c : marks[d] # NotPublished

(* A load brings what is there; a chapter of a batch has all before it     *)
(* published, a chapter taken back is the last; and while a call is out    *)
(* the server has what the page knows and what the call has done.          *)
LoadIsTrue(k) ==
  /\ k.step = "works" => k.chapters = Nothing
  /\ k.step = "chapters" => k.work /\ pubServer.work
  /\ k.step = "done" => k.work = pubServer.work /\ k.chapters = pubServer.chapters
BatchIsOrdered(k) ==
  /\ pub.work /\ pub.batch.live = PublishedIn(pub.known) /\ MayGo(pub.batch, k.chapter)
  /\ k.read => k.pid # NotPublished /\ (pub.known[k.chapter] # NotPublished => k.pid = pub.known[k.chapter])
  /\ pubServer.chapters = IF k.read THEN [Merged(pub.known, pub.batch.done) EXCEPT ![k.chapter] = k.pid]
                          ELSE Merged(pub.known, pub.batch.done)
AgainIsKnown(k) == pub.work /\ pub.known = pubServer.chapters /\ k.chapter \in Published
LastIsTakenBack(k) ==
  /\ pub.work /\ k.chapter \in Published /\ ~HasLaterPublished(k.chapter)
  /\ pubServer.chapters = IF k.read THEN [pub.known EXCEPT ![k.chapter] = NotPublished] ELSE pub.known

PubCallHolds(k) ==
  /\ k.kind = "load" => LoadIsTrue(k)
  /\ k.kind = "publish" /\ k.for = "batch" => BatchIsOrdered(k)
  /\ k.kind = "publish" /\ k.for # "batch" => k.for = "again" /\ AgainIsKnown(k)
  /\ k.kind = "unpublish" => LastIsTakenBack(k)

PubQuiet == \A k \in pubCalls : k.kind \in {"load", "work"}

PubTrue ==
  /\ \A j, k \in pubCalls : j = k
  /\ Beginning(pubServer.chapters)
  /\ pub.work => pubServer.work
  /\ PubQuiet /\ pub.work => pub.known = pubServer.chapters
  /\ \A k \in pubCalls : PubCallHolds(k)

PubInv ==
  /\ PubType
  /\ ~pubServer.work => pubServer.chapters = Nothing
  /\ ~pub.disturbed => PubTrue

LEMMA PubBegun == PubBounds /\ PubInit => PubInv
<1> SUFFICES ASSUME PubBounds, PubInit PROVE PubInv
  OBVIOUS
<1>1. PubMaxEvents \in Nat /\ MaxChapters \in Nat \ {0}
  BY DEF PubBounds
<1>2. PICK there \in BOOLEAN :
        /\ pubServer = [work |-> there, chapters |-> [Nothing EXCEPT ![1] = IF there THEN 1 ELSE NotPublished],
                        pids |-> 1]
        /\ pub = [open |-> FALSE, work |-> FALSE, known |-> Nothing, selected |-> {}, schedule |-> FALSE,
                  loading |-> FALSE, publishing |-> FALSE, batch |-> NoBatch, marked |-> {}, disturbed |-> FALSE,
                  asked |-> 0, left |-> PubMaxEvents]
        /\ pubCalls = {}
  BY DEF PubInit
<1>3. Nothing \in Marks /\ [Nothing EXCEPT ![1] = 1] \in Marks /\ [Nothing EXCEPT ![1] = 0] = Nothing
  BY DEF Marks, Nothing, NotPublished
<1>4. pubServer \in [work : BOOLEAN, chapters : Marks, pids : Nat] /\ (~there => pubServer.chapters = Nothing)
  BY <1>2, <1>3 DEF NotPublished
<1>5. NoBatch \in PubBatch
  BY <1>3 DEF NoBatch, PubBatch
<1>6. pub \in PubPage
  BY <1>2, <1>3, <1>5, <1>1 DEF PubPage
<1>7. Beginning(pubServer.chapters)
  <2>1. \A c \in Chapters : pubServer.chapters[c] = IF c = 1 /\ there THEN 1 ELSE 0
    BY <1>2, <1>1 DEF Nothing, NotPublished, Chapters
  <2> QED
    BY <2>1, <1>1 DEF Beginning, PublishedIn, Chapters, NotPublished
<1> QED
  BY <1>2, <1>4, <1>6, <1>7 DEF PubInv, PubTrue, PubType, PubQuiet

(* What a call asked for is.                                               *)
LEMMA PubCalled ==
  ASSUME PubType, NEW m \in PubPage, NEW why \in PubWhy, NEW c \in Chapters,
         NEW kind \in {"load", "work", "publish", "unpublish"}
  PROVE  LET k == Call(m, kind, why, c)
         IN /\ k \in PubCall
            /\ k.kind = kind /\ k.for = why /\ k.chapter = c /\ k.pid = pub.known[c]
            /\ ~k.read /\ k.step = "works" /\ k.chapters = Nothing
<1>1. Nothing \in Marks
  BY DEF Marks, Nothing, NotPublished
<1>2. pub.known[c] \in Nat
  BY DEF PubType, PubPage, Marks
<1>3. Call(m, kind, why, c) \in PubCall
  BY <1>1, <1>2 DEF Call, PubCall, PubPage
<1> QED
  BY <1>3 DEF Call

LEMMA PubAsks ==
  ASSUME NEW m \in PubPage
  PROVE  LET n == [m EXCEPT !.asked = @ + 1]
         IN /\ n \in PubPage
            /\ n.work = m.work /\ n.known = m.known /\ n.batch = m.batch /\ n.disturbed = m.disturbed
  BY DEF PubPage

LEMMA PubAfterLoad ==
  ASSUME NEW m \in PubPage, NEW why
  PROVE  /\ AfterLoad(m, why) \in PubPage
         /\ AfterLoad(m, why).work = m.work /\ AfterLoad(m, why).known = m.known
         /\ AfterLoad(m, why).disturbed = m.disturbed
<1> DEFINE lost == m.batch.failed \cup m.batch.refused
           n == AfterLoad(m, why)
<1>1. PICK no \in BOOLEAN : no = FALSE
  OBVIOUS
<1>2. NoBatch \in PubBatch /\ lost \subseteq Chapters /\ m.batch.done \in Marks
  BY DEF NoBatch, PubBatch, Marks, Nothing, NotPublished, PubPage
<1>3. CASE why = "open"
  <2>1. n = [m EXCEPT !.loading = no]
    BY <1>1, <1>3 DEF AfterLoad
  <2> QED
    BY <2>1 DEF PubPage
<1>4. CASE why = "batch"
  <2> DEFINE sel == m.selected \cap lost
             sch == m.schedule /\ lost # {}
             mk  == IF m.batch.later THEN m.marked ELSE m.marked \cup PublishedIn(m.batch.done)
             nb  == NoBatch
  <2>1. PICK s \in BOOLEAN : s = sch
    BY DEF PubPage
  <2>2. n = [m EXCEPT !.publishing = no, !.selected = sel, !.schedule = s, !.batch = nb, !.marked = mk]
    BY <1>1, <1>4, <2>1 DEF AfterLoad
  <2>3. sel \subseteq Chapters /\ mk \subseteq Chapters /\ nb \in PubBatch
    BY <1>2 DEF PubPage, PublishedIn
  <2> HIDE DEF sel, sch, mk, nb, n
  <2> QED
    BY <2>2, <2>3 DEF PubPage, n
<1>5. CASE why \in {"work", "again"}
  <2>1. n = [m EXCEPT !.publishing = no]
    BY <1>1, <1>5 DEF AfterLoad
  <2> QED
    BY <2>1 DEF PubPage
<1>6. CASE why \notin {"open", "batch", "work", "again"}
  BY <1>6 DEF AfterLoad
<1> QED
  BY <1>3, <1>4, <1>5, <1>6

(* One step of a batch: the next chapter that may go is asked for, or the  *)
(* batch is over, with or without a load that looks at what it did.        *)
LEMMA PubProceeds ==
  ASSUME PubType, NEW m \in PubPage, NEW others \in SUBSET PubCall, NEW b \in PubBatch,
         Proceed(m, others, b)
  PROVE  /\ pub' \in PubPage /\ pubCalls' \subseteq PubCall
         /\ pub'.work = m.work /\ pub'.disturbed = m.disturbed
         /\ \/ /\ pub'.known = m.known /\ pub'.batch.live = b.live /\ pub'.batch.done = b.done
               /\ \E k \in PubCall : /\ pubCalls' = others \cup {k}
                                     /\ k.kind = "publish" /\ k.for = "batch" /\ ~k.read
                                     /\ MayGo(b, k.chapter)
            \/ pub'.known = m.known /\ pubCalls' = others /\ PublishedIn(b.done) = {}
            \/ /\ pub'.known = Merged(m.known, b.done)
               /\ \E k \in PubCall : /\ pubCalls' = others \cup {k}
                                     /\ k.kind = "load" /\ k.step = "works" /\ k.chapters = Nothing
<1>1. CASE Sendable(b) # {}
  <2> DEFINE c == Min(Sendable(b))
             earlier == {d \in b.todo : d < c}
             n == [b EXCEPT !.todo = {d \in b.todo : d > c}, !.refused = @ \cup earlier]
             p == [m EXCEPT !.batch = n]
  <2>1. c \in Sendable(b)
    <3>1. Sendable(b) \in SUBSET Nat
      BY DEF Sendable, PubBatch, Chapters
    <3> QED
      BY <3>1, <1>1, LeastIsIn
  <2>2. c \in Chapters /\ MayGo(b, c)
    BY <2>1 DEF Sendable, PubBatch
  <2>3. Asks(p, others, "publish", "batch", c)
    BY <1>1 DEF Proceed
  <2> HIDE DEF c
  <2>4. n \in PubBatch /\ n.live = b.live /\ n.done = b.done
    BY Zenon DEF PubBatch
  <2> HIDE DEF n
  <2>5. p \in PubPage /\ p.batch = n /\ p.work = m.work /\ p.disturbed = m.disturbed /\ p.known = m.known
    BY <2>4 DEF PubPage
  <2> HIDE DEF p
  <2>6. /\ pub' \in PubPage
        /\ pub'.work = p.work /\ pub'.known = p.known /\ pub'.batch = p.batch /\ pub'.disturbed = p.disturbed
    BY <2>3, <2>5, PubAsks DEF Asks
  <2> DEFINE k == Call(p, "publish", "batch", c)
  <2>7. k \in PubCall /\ k.kind = "publish" /\ k.for = "batch" /\ k.chapter = c /\ ~k.read
    BY <2>2, <2>5, PubCalled DEF PubWhy
  <2>8. pubCalls' = others \cup {k}
    BY <2>3 DEF Asks
  <2> HIDE DEF k
  <2> QED
    BY <2>2, <2>4, <2>5, <2>6, <2>7, <2>8
<1>2. CASE Sendable(b) = {}
  <2> DEFINE n == [b EXCEPT !.todo = {}, !.refused = @ \cup b.todo]
             m2 == [m EXCEPT !.batch = n]
             known == Merged(m.known, b.done)
             p == [m2 EXCEPT !.known = known]
  <2>1. n \in PubBatch
    BY DEF PubBatch
  <2>2. /\ PublishedIn(b.done) = {} => pub' = AfterLoad(m2, "batch") /\ pubCalls' = others
        /\ PublishedIn(b.done) # {} => Asks(p, others, "load", "batch", 1)
    BY <1>2 DEF Proceed, Merged
  <2>3. m.known \in Marks /\ b.done \in Marks
    BY DEF PubPage, PubBatch
  <2>4. known \in Marks
    BY <2>3 DEF Merged, Marks
  <2> HIDE DEF n, known
  <2>5. m2 \in PubPage /\ m2.work = m.work /\ m2.disturbed = m.disturbed /\ m2.known = m.known
    BY <2>1 DEF PubPage
  <2> HIDE DEF m2
  <2>6. p \in PubPage /\ p.work = m.work /\ p.disturbed = m.disturbed /\ p.known = known
    BY <2>4, <2>5 DEF PubPage
  <2> HIDE DEF p
  <2>7. 1 \in Chapters
    BY DEF PubType, PubBounds, Chapters
  <2>8. CASE PublishedIn(b.done) = {}
    BY <2>2, <2>5, <2>8, PubAfterLoad
  <2>9. CASE PublishedIn(b.done) # {}
    <3>1. Asks(p, others, "load", "batch", 1)
      BY <2>2, <2>9
    <3>2. /\ pub' \in PubPage
          /\ pub'.work = p.work /\ pub'.known = p.known /\ pub'.batch = p.batch /\ pub'.disturbed = p.disturbed
      BY <3>1, <2>6, PubAsks DEF Asks
    <3> DEFINE k == Call(p, "load", "batch", 1)
    <3>3. k \in PubCall /\ k.kind = "load" /\ k.step = "works" /\ k.chapters = Nothing
      BY <2>6, <2>7, PubCalled DEF PubWhy
    <3>4. pubCalls' = others \cup {k}
      BY <3>1 DEF Asks
    <3> HIDE DEF k
    <3> QED
      BY <3>2, <3>3, <3>4, <2>6 DEF known
  <2> QED
    BY <2>8, <2>9
<1> QED
  BY <1>1, <1>2

(* What the page shows besides, its buttons and boxes, matters to none of  *)
(* this.                                                                   *)
PubSame(n, m) ==
  n \in PubPage /\ n.work = m.work /\ n.known = m.known /\ n.batch = m.batch /\ (~n.disturbed => ~m.disturbed)

LEMMA PubActed ==
  ASSUME NEW m \in PubPage
  PROVE  /\ PubSame(Acted(m), m)
         /\ ~Acted(m).disturbed => pubCalls = {}
<1>1. PICK d \in BOOLEAN : d <=> m.disturbed \/ pubCalls # {}
  OBVIOUS
<1> DEFINE l == m.left - 1
           n == [m EXCEPT !.left = l, !.disturbed = d]
<1>2. Acted(m) = n
  BY <1>1 DEF Acted, PubPage
<1>3. l \in Int
  BY DEF PubPage
<1> HIDE DEF l
<1>4. n \in PubPage /\ n.work = m.work /\ n.known = m.known /\ n.batch = m.batch
  BY <1>3 DEF PubPage
<1>5. n.disturbed = d
  BY DEF PubPage
<1> HIDE DEF n
<1> QED
  BY <1>1, <1>2, <1>4, <1>5 DEF PubSame

LEMMA PubShows ==
  ASSUME NEW m \in PubPage, NEW yes \in BOOLEAN, NEW some \in SUBSET Chapters, NEW n \in Int
  PROVE  /\ PubSame([m EXCEPT !.publishing = yes], m) /\ [m EXCEPT !.publishing = yes].disturbed = m.disturbed
         /\ PubSame([m EXCEPT !.open = yes], m)
         /\ PubSame([m EXCEPT !.schedule = yes, !.left = n], m)
         /\ PubSame([m EXCEPT !.selected = some, !.left = n], m)
         /\ PubSame([m EXCEPT !.publishing = yes, !.left = n], m)
         /\ PubSame([m EXCEPT !.left = n], m)
  BY DEF PubPage, PubSame

LEMMA PubStays ==
  ASSUME PubInv, PubSame(pub', pub), UNCHANGED <<pubServer, pubCalls>>
  PROVE  PubInv'
  BY DEF PubInv, PubSame, PubType, PubTrue, PubQuiet, PubCallHolds, LoadIsTrue, BatchIsOrdered, AgainIsKnown,
         LastIsTakenBack, Published, MayGo, HasLaterPublished

(* A call is out in the place of one answered, or when none was out.       *)
LEMMA PubTurns ==
  ASSUME PubInv, pub' \in PubPage, ~pub'.disturbed => ~pub.disturbed, UNCHANGED pubServer,
         NEW others \in SUBSET pubCalls, NEW k \in PubCall, pubCalls' = others \cup {k},
         ~pub'.disturbed => /\ others = {} /\ (pub'.work => pubServer.work) /\ PubCallHolds(k)'
                            /\ k.kind \in {"load", "work"} /\ pub'.work => pub'.known = pubServer.chapters
  PROVE  PubInv'
  BY DEF PubInv, PubType, PubTrue, PubQuiet

(* A call is over, and none is out.                                        *)
LEMMA PubEnds ==
  ASSUME PubInv, pub' \in PubPage, ~pub'.disturbed => ~pub.disturbed, UNCHANGED pubServer,
         NEW others \in SUBSET pubCalls, pubCalls' = others,
         ~pub'.disturbed => others = {} /\ (pub'.work => pubServer.work /\ pub'.known = pubServer.chapters)
  PROVE  PubInv'
  BY DEF PubInv, PubType, PubTrue, PubQuiet

LEMMA PubOnlyCall ==
  ASSUME PubInv, ~pub.disturbed, NEW k \in pubCalls
  PROVE  /\ pubCalls = {k} /\ Others(k) = {} /\ PubCallHolds(k)
         /\ k.kind \in {"load", "work"} => PubQuiet
  BY DEF PubInv, PubTrue, PubQuiet, Others

-----------------------------------------------------------------------------
(* Publishing, one action after the other                                  *)
LEMMA PubAsksAnew ==
  ASSUME PubInv, NEW m \in PubPage, PubSame(m, pub), ~m.disturbed => pubCalls = {}, UNCHANGED pubServer,
         NEW kind \in {"load", "work", "publish", "unpublish"}, NEW why \in PubWhy, NEW c \in Chapters,
         Asks(m, pubCalls, kind, why, c),
         kind = "publish" => why = "again" /\ pub.work /\ c \in Published,
         kind = "unpublish" => pub.work /\ c \in Published /\ ~HasLaterPublished(c)
  PROVE  PubInv'
<1>1. /\ Call(m, kind, why, c) \in PubCall
      /\ LET k == Call(m, kind, why, c)
         IN k.kind = kind /\ k.for = why /\ k.chapter = c /\ ~k.read /\ k.step = "works" /\ k.chapters = Nothing
  BY PubCalled DEF PubInv
<1>2. PICK k \in PubCall :
        /\ pubCalls' = pubCalls \cup {k}
        /\ k.kind = kind /\ k.for = why /\ k.chapter = c /\ ~k.read /\ k.step = "works" /\ k.chapters = Nothing
  BY <1>1 DEF Asks
<1>3. PubSame(pub', m)
  BY PubAsks DEF Asks, PubSame
<1>4. PubSame(pub', pub)
  BY <1>3 DEF PubSame
<1>5. ASSUME ~pub'.disturbed
      PROVE  pubCalls = {} /\ ~pub.disturbed /\ (pub.work => pubServer.work /\ pub.known = pubServer.chapters)
  <2>1. pubCalls = {} /\ ~pub.disturbed
    BY <1>3, <1>4, <1>5 DEF PubSame
  <2> QED
    BY <2>1 DEF PubInv, PubTrue, PubQuiet
<1>6. ASSUME ~pub'.disturbed PROVE PubCallHolds(k)'
  <2>1. kind = "load" => LoadIsTrue(k)'
    BY <1>2 DEF LoadIsTrue
  <2>2. kind = "publish" => AgainIsKnown(k)'
    BY <1>2, <1>4, <1>5, <1>6 DEF AgainIsKnown, Published, PubSame
  <2>3. kind = "unpublish" => LastIsTakenBack(k)'
    BY <1>2, <1>4, <1>5, <1>6 DEF LastIsTakenBack, Published, HasLaterPublished, PubSame
  <2> QED
    BY <1>2, <2>1, <2>2, <2>3 DEF PubCallHolds
<1> QED
  BY <1>2, <1>4, <1>5, <1>6, PubTurns DEF PubSame

LEMMA PubAuthorAsks ==
  ASSUME PubInv, OpenPanel \/ OthersLoad \/ PublishWork \/ (\E c \in Chapters : PublishAgain(c) \/ Unpublish(c))
  PROVE  PubInv'
<1>1. pub \in PubPage /\ 1 \in Chapters
  BY DEF PubBounds, PubInv, PubType, Chapters
<1> DEFINE a == Acted(pub)
<1>2. a \in PubPage /\ PubSame(a, pub) /\ (~a.disturbed => pubCalls = {})
  BY <1>1, PubActed DEF PubSame
<1>3. PICK yes \in BOOLEAN, no \in BOOLEAN : yes = TRUE /\ no = FALSE
  OBVIOUS
<1> DEFINE op == [a EXCEPT !.open = yes, !.selected = {}, !.schedule = no, !.loading = yes]
           pw == [a EXCEPT !.publishing = yes]
<1>4. op \in PubPage /\ op.work = a.work /\ op.known = a.known /\ op.batch = a.batch /\ op.disturbed = a.disturbed
  BY <1>2 DEF PubPage
<1>5. pw \in PubPage /\ pw.work = a.work /\ pw.known = a.known /\ pw.batch = a.batch /\ pw.disturbed = a.disturbed
  BY <1>2 DEF PubPage
<1>6. CASE OpenPanel
  <2>1. Asks(op, pubCalls, "load", "open", 1) /\ UNCHANGED pubServer
    BY <1>3, <1>6 DEF OpenPanel
  <2> HIDE DEF op, a
  <2> QED
    BY <1>1, <1>2, <1>4, <2>1, PubAsksAnew DEF PubSame, PubWhy
<1>7. CASE OthersLoad
  <2>1. Asks(a, pubCalls, "load", "others", 1) /\ UNCHANGED pubServer
    BY <1>7 DEF OthersLoad
  <2> HIDE DEF op, a
  <2> QED
    BY <1>1, <1>2, <2>1, PubAsksAnew DEF PubSame, PubWhy
<1>8. CASE PublishWork
  <2>1. Asks(pw, pubCalls, "work", "work", 1) /\ UNCHANGED pubServer
    BY <1>3, <1>8 DEF PublishWork
  <2> HIDE DEF pw, a
  <2> QED
    BY <1>1, <1>2, <1>5, <2>1, PubAsksAnew DEF PubSame, PubWhy
<1>9. ASSUME NEW c \in Chapters, PublishAgain(c) PROVE PubInv'
  <2>1. Asks(pw, pubCalls, "publish", "again", c) /\ UNCHANGED pubServer /\ pub.work /\ c \in Published
    BY <1>3, <1>9 DEF PublishAgain
  <2> HIDE DEF pw, a
  <2> QED
    BY <1>1, <1>2, <1>5, <2>1, PubAsksAnew DEF PubSame, PubWhy
<1>10. ASSUME NEW c \in Chapters, Unpublish(c) PROVE PubInv'
  <2>1. /\ Asks(a, pubCalls, "unpublish", "one", c) /\ UNCHANGED pubServer
        /\ pub.work /\ c \in Published /\ ~HasLaterPublished(c)
    BY <1>10 DEF Unpublish
  <2> HIDE DEF pw, a
  <2> QED
    BY <1>1, <1>2, <2>1, PubAsksAnew DEF PubSame, PubWhy
<1> QED
  BY <1>6, <1>7, <1>8, <1>9, <1>10

LEMMA PubBoxes ==
  ASSUME PubInv, ClosePanel \/ SelectAll \/ Schedule \/ (\E c \in Chapters : Toggle(c))
  PROVE  PubInv'
<1>1. pub \in PubPage /\ pub.left \in Int /\ pub.left - 1 \in Int
  BY DEF PubInv, PubType, PubPage
<1>2. PICK no \in BOOLEAN : no = FALSE
  OBVIOUS
<1>3. CASE ClosePanel
  <2>1. pub' = [pub EXCEPT !.open = no] /\ UNCHANGED <<pubServer, pubCalls>>
    BY <1>2, <1>3 DEF ClosePanel
  <2> QED
    BY Zenon, <1>1, <2>1, PubShows, PubStays
<1>4. CASE Schedule
  <2>1. PICK b \in BOOLEAN : b = ~pub.schedule
    OBVIOUS
  <2>2. pub' = [pub EXCEPT !.schedule = b, !.left = pub.left - 1] /\ UNCHANGED <<pubServer, pubCalls>>
    BY <1>1, <1>4, <2>1 DEF Schedule, PubPage
  <2> QED
    BY Zenon, <1>1, <2>2, PubShows, PubStays
<1>5. ASSUME NEW some \in SUBSET Chapters, pub' = [pub EXCEPT !.selected = some, !.left = pub.left - 1],
             UNCHANGED <<pubServer, pubCalls>>
      PROVE  PubInv'
  BY Zenon, <1>1, <1>5, PubShows, PubStays
<1>6. CASE SelectAll
  <2> DEFINE some == IF pub.selected = Selectable THEN {} ELSE Selectable
  <2>1. some \in SUBSET Chapters
    BY DEF Selectable, Frontier
  <2>2. pub' = [pub EXCEPT !.selected = some, !.left = pub.left - 1] /\ UNCHANGED <<pubServer, pubCalls>>
    BY <1>1, <1>6 DEF SelectAll, PubPage
  <2> HIDE DEF some
  <2> QED
    BY Zenon, <1>5, <2>1, <2>2
<1>7. ASSUME NEW c \in Chapters, Toggle(c) PROVE PubInv'
  <2> DEFINE some == SymDiff(pub.selected, {c})
  <2>1. some \in SUBSET Chapters
    BY <1>1 DEF SymDiff, PubPage
  <2>2. pub' = [pub EXCEPT !.selected = some, !.left = pub.left - 1] /\ UNCHANGED <<pubServer, pubCalls>>
    BY Zenon, <1>1, <1>7 DEF Toggle, PubPage
  <2> HIDE DEF some
  <2> QED
    BY Zenon, <1>5, <2>1, <2>2
<1> QED
  BY <1>3, <1>4, <1>6, <1>7

(* The answer of a load is what the server had when it was read, which it  *)
(* has still, no other call being out.                                     *)
LEMMA PubLoads ==
  ASSUME PubInv, NEW k \in pubCalls, ServerReads(k) \/ Loaded(k) \/ LoadFails(k)
  PROVE  PubInv'
<1>1. pub \in PubPage /\ pub.left - 1 \in Int /\ k \in PubCall
  BY DEF PubInv, PubType, PubPage
<1>2. Others(k) \subseteq pubCalls
  BY DEF Others
<1>3. CASE ServerReads(k)
  <2>1. UNCHANGED <<pub, pubServer>> /\ PubSame(pub', pub) /\ k.kind = "load"
    BY <1>1, <1>3 DEF ServerReads, PubSame
  <2>2. PICK n \in PubCall :
           /\ pubCalls' = Others(k) \cup {n} /\ n.kind = "load"
           /\ \/ /\ k.step = "works" /\ n.chapters = k.chapters /\ (n.work <=> pubServer.work)
                 /\ n.step = IF n.work THEN "chapters" ELSE "done"
              \/ k.step = "chapters" /\ n.chapters = pubServer.chapters /\ (n.work <=> k.work) /\ n.step = "done"
    <3>1. CASE k.step = "works"
      <4> DEFINE w == pubServer.work
                 s == IF w THEN "chapters" ELSE "done"
                 n == [k EXCEPT !.work = w, !.step = s]
      <4>1. pubCalls' = Others(k) \cup {n}
        BY <1>3, <3>1 DEF ServerReads
      <4>2. w \in BOOLEAN /\ s \in {"chapters", "done"} /\ (s = "chapters" <=> w)
        BY DEF PubInv, PubType
      <4> HIDE DEF w, s
      <4>3. n \in PubCall /\ n.kind = k.kind /\ n.chapters = k.chapters /\ n.step = s
        BY <1>1, <4>2 DEF PubCall
      <4>4. n.work = w
        BY <1>1 DEF PubCall
      <4> HIDE DEF n
      <4>5. n.work \in BOOLEAN
        BY <4>3 DEF PubCall
      <4> QED
        BY <2>1, <3>1, <4>1, <4>2, <4>3, <4>4, <4>5 DEF w
    <3>2. CASE k.step = "chapters"
      <4> DEFINE ch == pubServer.chapters
                 n == [k EXCEPT !.chapters = ch, !.step = "done"]
      <4>1. pubCalls' = Others(k) \cup {n}
        BY <1>3, <3>2 DEF ServerReads
      <4>2. ch \in Marks
        BY DEF PubInv, PubType
      <4> HIDE DEF ch
      <4>3. n \in PubCall /\ n.kind = k.kind /\ n.chapters = ch /\ n.step = "done" /\ n.work = k.work
        BY <1>1, <4>2 DEF PubCall
      <4> HIDE DEF n
      <4> QED
        BY <2>1, <3>2, <4>1, <4>3 DEF ch
    <3> QED
      BY <1>3, <3>1, <3>2 DEF ServerReads
  <2>3. ASSUME ~pub.disturbed PROVE PubCallHolds(n)'
    <3>1. PubCallHolds(k)
      BY <2>3, PubOnlyCall
    <3>2. LoadIsTrue(k)
      BY <2>1, <3>1 DEF PubCallHolds
    <3>3. n.work \in BOOLEAN /\ k.work \in BOOLEAN /\ pubServer.work \in BOOLEAN
      BY <1>1, <2>2 DEF PubCall, PubInv, PubType
    <3>4. LoadIsTrue(n)
      BY <2>2, <3>2, <3>3 DEF LoadIsTrue, PubInv
    <3> QED
      BY <2>1, <2>2, <3>4 DEF PubCallHolds, LoadIsTrue
  <2>4. ~pub.disturbed => Others(k) = {} /\ (pub.work => pubServer.work /\ pub.known = pubServer.chapters)
    BY <2>1, PubOnlyCall DEF PubInv, PubTrue
  <2> QED
    BY <1>2, <2>1, <2>2, <2>3, <2>4, PubTurns DEF PubSame
<1>4. CASE Loaded(k)
  <2> DEFINE m == [pub EXCEPT !.work = k.work, !.known = k.chapters]
  <2>1. k.kind = "load" /\ k.step = "done" /\ pub' = AfterLoad(m, k.for) /\ pubCalls' = Others(k) /\ UNCHANGED pubServer
    BY <1>4 DEF Loaded
  <2>2. k.work \in BOOLEAN /\ k.chapters \in Marks
    BY <1>1 DEF PubCall
  <2>3. m \in PubPage /\ m.work = k.work /\ m.known = k.chapters /\ m.disturbed = pub.disturbed
    BY <1>1, <2>2 DEF PubPage
  <2> HIDE DEF m
  <2>4. pub' \in PubPage /\ pub'.work = k.work /\ pub'.known = k.chapters /\ pub'.disturbed = pub.disturbed
    BY <2>1, <2>3, PubAfterLoad
  <2>5. ~pub.disturbed => Others(k) = {} /\ k.work = pubServer.work /\ k.chapters = pubServer.chapters
    BY <2>1, PubOnlyCall DEF PubCallHolds, LoadIsTrue
  <2> QED
    BY <1>2, <2>1, <2>4, <2>5, PubEnds
<1>5. CASE LoadFails(k)
  <2> DEFINE m == [pub EXCEPT !.left = @ - 1]
  <2>1. k.kind = "load" /\ pub' = AfterLoad(m, k.for) /\ pubCalls' = Others(k) /\ UNCHANGED pubServer
    BY <1>5 DEF LoadFails
  <2>3. m \in PubPage /\ m.work = pub.work /\ m.known = pub.known /\ m.disturbed = pub.disturbed
    BY <1>1 DEF PubPage
  <2> HIDE DEF m
  <2>4. pub' \in PubPage /\ pub'.work = pub.work /\ pub'.known = pub.known /\ pub'.disturbed = pub.disturbed
    BY <2>1, <2>3, PubAfterLoad
  <2>5. ~pub.disturbed => Others(k) = {} /\ (pub.work => pubServer.work /\ pub.known = pubServer.chapters)
    BY <2>1, PubOnlyCall DEF PubInv, PubTrue
  <2> QED
    BY <1>2, <2>1, <2>4, <2>5, PubEnds
<1> QED
  BY <1>3, <1>4, <1>5

LEMMA PubCreates ==
  ASSUME PubInv, NEW k \in pubCalls, ServerCreates(k) \/ WorkCreated(k) \/ WorkFails(k)
  PROVE  PubInv'
<1>1. pub \in PubPage /\ pub.left - 1 \in Int /\ pub.left \in Int /\ k \in PubCall /\ 1 \in Chapters
  BY DEF PubBounds, PubInv, PubType, PubPage, Chapters
<1>2. k.kind = "work" /\ Others(k) \subseteq pubCalls
  BY DEF ServerCreates, WorkCreated, WorkFails, Others
<1>3. ~pub.disturbed => Others(k) = {} /\ (pub.work => pubServer.work /\ pub.known = pubServer.chapters)
  BY <1>2, PubOnlyCall DEF PubInv, PubTrue
<1>4. CASE ServerCreates(k)
  <2> DEFINE yes == TRUE
             n == [k EXCEPT !.read = yes]
             s == [pubServer EXCEPT !.work = yes]
  <2>1. pubServer' = s /\ pubCalls' = Others(k) \cup {n} /\ UNCHANGED pub /\ ~pubServer.work
    BY <1>4 DEF ServerCreates
  <2>2. yes \in BOOLEAN /\ yes
    OBVIOUS
  <2> HIDE DEF yes
  <2>3. n \in PubCall /\ n.kind = "work"
    BY <1>1, <1>2, <2>2 DEF PubCall
  <2>4. s \in [work : BOOLEAN, chapters : Marks, pids : Nat] /\ s.chapters = pubServer.chapters
    BY <2>2 DEF PubInv, PubType
  <2>5. s.work
    BY <2>2 DEF PubInv, PubType
  <2> HIDE DEF n, s
  <2> QED
    BY <1>1, <1>2, <1>3, <2>1, <2>3, <2>4, <2>5 DEF PubInv, PubType, PubTrue, PubQuiet, PubCallHolds
<1>5. CASE WorkCreated(k)
  <2>1. Asks(pub, Others(k), "load", "work", 1) /\ UNCHANGED pubServer
    BY <1>5 DEF WorkCreated
  <2>2. PICK n \in PubCall : pubCalls' = Others(k) \cup {n} /\ n.kind = "load" /\ n.step = "works" /\ n.chapters = Nothing
    BY <1>1, <2>1, PubCalled DEF PubInv, PubWhy, Asks
  <2>3. PubSame(pub', pub)
    BY <1>1, <2>1, PubAsks DEF PubSame, Asks
  <2>4. PubCallHolds(n)'
    BY <2>2 DEF PubCallHolds, LoadIsTrue
  <2> QED
    BY <1>2, <1>3, <2>1, <2>2, <2>3, <2>4, PubTurns DEF PubSame
<1>6. CASE WorkFails(k)
  <2>1. PICK no \in BOOLEAN : no = FALSE
    OBVIOUS
  <2>2. PICK l \in Int : l = IF Refused(k) THEN pub.left ELSE pub.left - 1
    BY <1>1
  <2>3. pub' = [pub EXCEPT !.publishing = no, !.left = l] /\ pubCalls' = Others(k) /\ UNCHANGED pubServer
    BY <1>1, <1>6, <2>1, <2>2 DEF WorkFails, PubPage
  <2>4. PubSame(pub', pub)
    BY Zenon, <1>1, <2>3, PubShows
  <2> QED
    BY <1>2, <1>3, <2>3, <2>4, PubEnds DEF PubSame
<1> QED
  BY <1>4, <1>5, <1>6

(* The next step of a batch, when the server has what the page knew and    *)
(* what the batch has done, and nothing else is out.                       *)
LEMMA PubGoesOn ==
  ASSUME PubInv, NEW m \in PubPage, NEW others \in SUBSET pubCalls, NEW b \in PubBatch,
         Proceed(m, others, b), UNCHANGED pubServer, ~m.disturbed => ~pub.disturbed,
         ~m.disturbed => /\ others = {} /\ m.work /\ pubServer.work /\ b.live = PublishedIn(m.known)
                         /\ pubServer.chapters = Merged(m.known, b.done)
  PROVE  PubInv'
<1>1. PubType /\ others \in SUBSET PubCall
  BY DEF PubInv, PubType
<1>2. /\ pub' \in PubPage /\ pubCalls' \subseteq PubCall
      /\ pub'.work = m.work /\ pub'.disturbed = m.disturbed
  BY <1>1, PubProceeds
<1>3. m.known \in Marks /\ b.done \in Marks
  BY DEF PubPage, PubBatch
<1>4. CASE /\ pub'.known = m.known /\ pub'.batch.live = b.live /\ pub'.batch.done = b.done
           /\ \E k \in PubCall : /\ pubCalls' = others \cup {k}
                                 /\ k.kind = "publish" /\ k.for = "batch" /\ ~k.read
                                 /\ MayGo(b, k.chapter)
  <2>1. PICK k \in PubCall : /\ pubCalls' = others \cup {k}
                             /\ k.kind = "publish" /\ k.for = "batch" /\ ~k.read
                             /\ MayGo(b, k.chapter)
    BY <1>4
  <2>2. ASSUME ~pub'.disturbed PROVE BatchIsOrdered(k)'
    <3>1. pub'.batch.live = PublishedIn(pub'.known) /\ pub'.work
      BY <1>2, <1>4, <2>2
    <3>2. MayGo(pub'.batch, k.chapter)
      BY <1>4, <2>1 DEF MayGo
    <3>3. pubServer'.chapters = Merged(pub'.known, pub'.batch.done)
      BY <1>2, <1>4, <2>2
    <3> QED
      BY <2>1, <3>1, <3>2, <3>3 DEF BatchIsOrdered, MayGo
  <2>3. ~pub'.disturbed => PubCallHolds(k)'
    BY <2>1, <2>2 DEF PubCallHolds
  <2> QED
    BY <1>2, <2>1, <2>3, PubTurns
<1>5. CASE pub'.known = m.known /\ pubCalls' = others /\ PublishedIn(b.done) = {}
  <2>1. m.known = Merged(m.known, b.done)
    BY <1>3, <1>5 DEF Merged, Marks, PublishedIn, NotPublished
  <2> QED
    BY <1>2, <1>5, <2>1, PubEnds
<1>6. CASE /\ pub'.known = Merged(m.known, b.done)
           /\ \E k \in PubCall : /\ pubCalls' = others \cup {k}
                                 /\ k.kind = "load" /\ k.step = "works" /\ k.chapters = Nothing
  <2>1. PICK k \in PubCall : /\ pubCalls' = others \cup {k}
                             /\ k.kind = "load" /\ k.step = "works" /\ k.chapters = Nothing
    BY <1>6
  <2>2. PubCallHolds(k)'
    BY <2>1 DEF PubCallHolds, LoadIsTrue
  <2> QED
    BY <1>2, <1>6, <2>1, <2>2, PubTurns
<1> QED
  <2>1. pub' \in PubPage
    BY <1>2
  <2> QED
    BY <1>1, <1>4, <1>5, <1>6, PubProceeds

LEMMA PubBegins ==
  ASSUME PubInv, PublishChapters
  PROVE  PubInv'
<1>1. pub \in PubPage /\ NotPublished \in Nat
  BY DEF PubInv, PubType, NotPublished
<1>2. PICK yes \in BOOLEAN : yes = TRUE
  OBVIOUS
<1> DEFINE a == Acted(pub)
           m == [a EXCEPT !.publishing = yes]
           s == pub.selected
           p == Published
           l == pub.schedule
           b == [NoBatch EXCEPT !.todo = s, !.live = p, !.later = l]
<1>3. Proceed(m, pubCalls, b) /\ UNCHANGED pubServer /\ pub.work
  BY <1>2 DEF PublishChapters
<1>4. a \in PubPage /\ PubSame(a, pub) /\ (~a.disturbed => pubCalls = {})
  BY <1>1, PubActed DEF PubSame
<1> HIDE DEF a
<1>5. m \in PubPage /\ m.work = a.work /\ m.known = a.known /\ m.disturbed = a.disturbed
  BY <1>4 DEF PubPage
<1> HIDE DEF m
<1>6. s \in SUBSET Chapters /\ p \in SUBSET Chapters /\ l \in BOOLEAN
  BY <1>1 DEF PubPage, Published, PublishedIn
<1> HIDE DEF s, p, l
<1>7. b \in PubBatch /\ b.live = p /\ b.done = Nothing
  <2>1. Nothing \in Marks
    BY <1>1 DEF Marks, Nothing
  <2> QED
    BY <1>6, <2>1 DEF PubBatch, NoBatch
<1> HIDE DEF b
<1>8. pub.known = Merged(pub.known, Nothing)
  BY <1>1 DEF Merged, Nothing, PubPage, Marks
<1>9. ASSUME ~m.disturbed
      PROVE  /\ pubCalls = {} /\ m.work /\ pubServer.work /\ b.live = PublishedIn(m.known)
             /\ pubServer.chapters = Merged(m.known, b.done)
  <2>1. ~pub.disturbed /\ pubCalls = {}
    BY <1>4, <1>5, <1>9 DEF PubSame
  <2>2. pubServer.work /\ pub.known = pubServer.chapters
    BY <1>3, <2>1 DEF PubInv, PubTrue, PubQuiet
  <2> QED
    BY <1>3, <1>4, <1>5, <1>7, <1>8, <2>1, <2>2 DEF PubSame, p, Published
<1> QED
  BY <1>3, <1>4, <1>5, <1>7, <1>9, PubGoesOn DEF PubSame

(* The server publishes a chapter: all before it are.                      *)
LEMMA PubServerPublishes ==
  ASSUME PubInv, NEW k \in pubCalls, ServerPublishes(k)
  PROVE  PubInv'
<1>1. pub \in PubPage /\ k \in PubCall /\ pubServer \in [work : BOOLEAN, chapters : Marks, pids : Nat]
  BY DEF PubInv, PubType
<1>2. k.kind = "publish" /\ ~k.read /\ pubServer.work /\ UNCHANGED pub
  BY DEF ServerPublishes
<1> DEFINE c == k.chapter
           old == pubServer.chapters[c]
           pid == IF old = NotPublished THEN pubServer.pids + 1 ELSE old
           top == IF pid > pubServer.pids THEN pid ELSE pubServer.pids
           ch  == [pubServer.chapters EXCEPT ![c] = pid]
           yes == TRUE
           n   == [k EXCEPT !.read = yes, !.pid = pid]
<1>3. c \in Chapters /\ old \in Nat /\ pid \in Nat /\ pid # NotPublished /\ (old # NotPublished => pid = old)
      /\ top \in Nat
  BY <1>1 DEF PubCall, Marks, NotPublished
<1>4. pubServer' = [pubServer EXCEPT !.chapters = ch, !.pids = top] /\ pubCalls' = Others(k) \cup {n}
  BY <1>1 DEF ServerPublishes
<1>5. pubServer.chapters \in Marks
  BY <1>1
<1> HIDE DEF old, pid, top
<1>6. ch \in Marks /\ ch[c] = pid /\ \A d \in Chapters : d # c => ch[d] = pubServer.chapters[d]
  BY <1>3, <1>5 DEF Marks
<1>7. pubServer' \in [work : BOOLEAN, chapters : Marks, pids : Nat] /\ pubServer'.chapters = ch /\ pubServer'.work
  <2> HIDE DEF ch
  <2> QED
    BY <1>1, <1>2, <1>3, <1>4, <1>6
<1>8. yes \in BOOLEAN /\ yes
  OBVIOUS
<1> HIDE DEF yes
<1>9. n \in PubCall /\ n.kind = "publish" /\ n.for = k.for /\ n.chapter = c /\ n.pid = pid
  BY <1>1, <1>2, <1>3, <1>8 DEF PubCall
<1>10. n.read
  BY <1>1, <1>8 DEF PubCall
<1>11. pubCalls' \subseteq PubCall
  BY <1>4, <1>9 DEF Others, PubInv, PubType
<1>12. ASSUME ~pub.disturbed PROVE PubTrue'
  <2>1. pubCalls' = {n} /\ PubCallHolds(k) /\ PubTrue
    BY <1>4, <1>12, PubOnlyCall DEF PubInv
  <2>2. PICK x : x = n
    OBVIOUS
  <2> HIDE DEF n
  <2>3. CASE k.for = "batch"
    <3>1. BatchIsOrdered(k)
      BY <1>2, <2>1, <2>3 DEF PubCallHolds
    <3>2. \A d \in 1..(c - 1) : pubServer.chapters[d] # NotPublished
      <4>1. ASSUME NEW d \in 1..(c - 1) PROVE pubServer.chapters[d] # NotPublished
        <5>1. d \in PublishedIn(pub.known)
          BY <3>1 DEF BatchIsOrdered, MayGo
        <5> QED
          BY <1>2, <3>1, <5>1 DEF BatchIsOrdered, PublishedIn, Merged
      <4> QED
        BY <4>1
    <3>3. Beginning(ch)
      <4>1. ASSUME NEW e \in PublishedIn(ch), NEW d \in 1..e PROVE ch[d] # NotPublished
        <5>1. e \in Chapters /\ c \in Nat /\ d \in Chapters /\ e \in Nat /\ d \in Nat
          BY <1>3 DEF PubInv, PubType, PubBounds, PublishedIn, Chapters
        <5>2. CASE e = c /\ d # c
          <6>1. d \in 1..(c - 1)
            BY <5>1, <5>2
          <6> QED
            BY <1>6, <3>2, <5>1, <5>2, <6>1
        <5>3. CASE e # c /\ d # c
          <6>1. e \in PublishedIn(pubServer.chapters)
            BY <1>6, <5>1, <5>3 DEF PublishedIn
          <6> QED
            BY <1>6, <2>1, <5>1, <5>3, <6>1 DEF PubTrue, Beginning
        <5>4. CASE d = c
          BY <1>3, <1>6, <5>4
        <5> QED
          BY <5>2, <5>3, <5>4
      <4> QED
        BY <4>1 DEF Beginning
    <3>4. BatchIsOrdered(x)'
      <4>1. pub.known[c] # NotPublished => pid = pub.known[c]
        BY <1>2, <1>3, <3>1 DEF BatchIsOrdered, Merged, old
      <4>2. ch = [Merged(pub.known, pub.batch.done) EXCEPT ![c] = pid]
        BY <1>2, <3>1 DEF BatchIsOrdered
      <4> HIDE DEF ch
      <4> QED
        BY <1>2, <1>3, <1>7, <1>9, <1>10, <2>2, <3>1, <4>1, <4>2 DEF BatchIsOrdered, MayGo
    <3>5. PubCallHolds(x)'
      BY <1>9, <2>2, <2>3, <3>4 DEF PubCallHolds
    <3> HIDE DEF ch
    <3> QED
      BY <1>2, <1>7, <1>9, <2>1, <2>2, <3>3, <3>5 DEF PubTrue, PubQuiet, Beginning
  <2>4. CASE k.for # "batch"
    <3>1. k.for = "again" /\ AgainIsKnown(k)
      BY <1>2, <2>1, <2>4 DEF PubCallHolds
    <3>2. pid = old
      BY <1>3, <3>1 DEF AgainIsKnown, Published, PublishedIn, old
    <3>3. ch = pubServer.chapters
      BY <1>3, <1>5, <3>2 DEF Marks, old
    <3>4. AgainIsKnown(x)'
      BY <1>2, <1>7, <1>9, <2>2, <3>1, <3>3 DEF AgainIsKnown, Published
    <3>5. PubCallHolds(x)'
      BY <1>9, <2>2, <3>1, <3>4 DEF PubCallHolds
    <3> HIDE DEF ch
    <3> QED
      BY <1>2, <1>7, <1>9, <2>1, <2>2, <3>3, <3>5 DEF PubTrue, PubQuiet, Beginning
  <2> QED
    BY <2>3, <2>4
<1> QED
  BY <1>1, <1>2, <1>7, <1>11, <1>12 DEF PubInv, PubType

LEMMA PubAnswers ==
  ASSUME PubInv, NEW k \in pubCalls, ChapterPublished(k)
  PROVE  PubInv'
<1>1. pub \in PubPage /\ pub.batch \in PubBatch /\ k \in PubCall /\ k.chapter \in Chapters /\ k.pid \in Nat
      /\ pub.known \in Marks
  BY DEF PubInv, PubType, PubPage, PubCall
<1>2. k.kind = "publish" /\ k.read /\ UNCHANGED pubServer /\ Others(k) \subseteq pubCalls
  BY DEF ChapterPublished, Others
<1>3. ASSUME ~pub.disturbed
      PROVE  Others(k) = {} /\ PubCallHolds(k) /\ (pub.work => pubServer.work)
  BY <1>3, PubOnlyCall DEF PubInv, PubTrue
<1>4. CASE k.for = "batch"
  <2> DEFINE done == [pub.batch.done EXCEPT ![k.chapter] = k.pid]
             live == pub.batch.live
             b == [pub.batch EXCEPT !.done = done, !.live = live]
  <2>1. Proceed(pub, Others(k), b)
    BY <1>1, <1>4 DEF ChapterPublished, Live, PubBatch
  <2>2. pub.batch.done \in Marks /\ live \in SUBSET Chapters
    BY <1>1 DEF PubBatch
  <2>3. done \in Marks
    BY <1>1, <2>2 DEF Marks
  <2> HIDE DEF done, live
  <2>4. b \in PubBatch /\ b.live = live /\ b.done = done
    BY <1>1, <2>2, <2>3 DEF PubBatch
  <2> HIDE DEF b
  <2>5. ASSUME ~pub.disturbed
        PROVE  /\ Others(k) = {} /\ pub.work /\ pubServer.work /\ b.live = PublishedIn(pub.known)
               /\ pubServer.chapters = Merged(pub.known, b.done)
    <3>1. BatchIsOrdered(k)
      BY <1>2, <1>3, <1>4, <2>5 DEF PubCallHolds
    <3>2. [Merged(pub.known, pub.batch.done) EXCEPT ![k.chapter] = k.pid] = Merged(pub.known, done)
      BY <1>1, <1>2, <2>2, <3>1 DEF BatchIsOrdered, Merged, done, Marks, NotPublished
    <3> QED
      BY <1>2, <1>3, <2>4, <2>5, <3>1, <3>2 DEF BatchIsOrdered, live
  <2> QED
    BY <1>1, <1>2, <2>1, <2>4, <2>5, PubGoesOn
<1>5. CASE k.for # "batch"
  <2> DEFINE old == pub.known[k.chapter]
             pid == IF old = NotPublished THEN k.pid ELSE old
             known == [pub.known EXCEPT ![k.chapter] = pid]
             marked == pub.marked \cup {k.chapter}
             m == [pub EXCEPT !.known = known, !.marked = marked]
  <2>1. Asks(m, Others(k), "load", "again", 1)
    BY <1>1, <1>5 DEF ChapterPublished, PubPage, Marks
  <2>2. pid \in Nat /\ marked \in SUBSET Chapters
    BY <1>1 DEF PubPage, Marks
  <2>3. known \in Marks
    BY <1>1, <2>2 DEF Marks
  <2>4. pub.known[k.chapter] # NotPublished => known = pub.known
    BY <1>1 DEF Marks
  <2> HIDE DEF known, marked
  <2>5. m \in PubPage /\ m.work = pub.work /\ m.known = known /\ m.disturbed = pub.disturbed
    BY <1>1, <2>2, <2>3 DEF PubPage
  <2> HIDE DEF m
  <2>6. pub' \in PubPage /\ pub'.work = pub.work /\ pub'.known = known /\ pub'.disturbed = pub.disturbed
    BY <2>1, <2>5, PubAsks DEF Asks
  <2>7. 1 \in Chapters
    BY DEF PubInv, PubType, PubBounds, Chapters
  <2>8. PICK n \in PubCall : pubCalls' = Others(k) \cup {n} /\ n.kind = "load" /\ n.step = "works" /\ n.chapters = Nothing
    BY <2>1, <2>5, <2>7, PubCalled DEF PubInv, PubWhy, Asks
  <2>9. PubCallHolds(n)'
    BY <2>8 DEF PubCallHolds, LoadIsTrue
  <2>10. ~pub.disturbed => known = pubServer.chapters
    BY <1>2, <1>3, <1>5, <2>4 DEF PubCallHolds, AgainIsKnown, Published, PublishedIn
  <2> QED
    BY <1>2, <1>3, <2>6, <2>8, <2>9, <2>10, PubTurns
<1> QED
  BY <1>4, <1>5

LEMMA PubRefusals ==
  ASSUME PubInv, NEW k \in pubCalls, PublishFails(k)
  PROVE  PubInv'
<1>1. pub \in PubPage /\ pub.batch \in PubBatch /\ k \in PubCall /\ k.chapter \in Chapters /\ k.read \in BOOLEAN
      /\ pub.left - 1 \in Int
  BY DEF PubInv, PubType, PubPage, PubCall
<1>2. k.kind = "publish" /\ UNCHANGED pubServer /\ Others(k) \subseteq pubCalls
  BY DEF PublishFails, Others
<1>3. ASSUME ~pub.disturbed
      PROVE  Others(k) = {} /\ PubCallHolds(k) /\ (pub.work => pubServer.work)
  BY <1>3, PubOnlyCall DEF PubInv, PubTrue
<1>4. PICK d \in BOOLEAN : d <=> pub.disturbed \/ k.read
  OBVIOUS
<1>5. PICK l \in Int : l = pub.left - 1
  BY <1>1
<1> DEFINE m == [pub EXCEPT !.disturbed = d, !.left = l]
<1>6. \/ k.for = "batch" /\ Proceed(m, Others(k), [pub.batch EXCEPT !.failed = @ \cup {k.chapter}])
      \/ k.for = "again" /\ pub' = [m EXCEPT !.publishing = FALSE] /\ pubCalls' = Others(k)
  <2>1. [pub EXCEPT !.disturbed = @ \/ k.read, !.left = @ - 1] = m
    BY <1>1, <1>4, <1>5 DEF PubPage
  <2> QED
    BY <2>1 DEF PublishFails
<1>7. m \in PubPage /\ m.work = pub.work /\ m.known = pub.known /\ m.batch = pub.batch
  BY <1>1 DEF PubPage
<1>8. m.disturbed = d
  BY <1>1 DEF PubPage
<1> HIDE DEF m
<1>9. CASE k.for = "batch" /\ Proceed(m, Others(k), [pub.batch EXCEPT !.failed = @ \cup {k.chapter}])
  <2> DEFINE b == [pub.batch EXCEPT !.failed = @ \cup {k.chapter}]
  <2>1. b \in PubBatch /\ b.live = pub.batch.live /\ b.done = pub.batch.done
    BY <1>1 DEF PubBatch
  <2>2. Proceed(m, Others(k), b)
    BY <1>9
  <2> HIDE DEF b
  <2>3. ASSUME ~m.disturbed
        PROVE  /\ Others(k) = {} /\ m.work /\ pubServer.work /\ b.live = PublishedIn(m.known)
               /\ pubServer.chapters = Merged(m.known, b.done)
    BY <1>2, <1>3, <1>4, <1>7, <1>8, <1>9, <2>1, <2>3 DEF PubCallHolds, BatchIsOrdered
  <2> QED
    BY <1>2, <1>4, <1>7, <1>8, <2>1, <2>2, <2>3, PubGoesOn
<1>10. CASE k.for = "again" /\ pub' = [m EXCEPT !.publishing = FALSE] /\ pubCalls' = Others(k)
  <2>1. PICK no \in BOOLEAN : no = FALSE
    OBVIOUS
  <2>2. pub' = [m EXCEPT !.publishing = no]
    BY <1>10, <2>1
  <2>3. PubSame(pub', m)
    BY Zenon, <1>7, <2>2, PubShows
  <2>4. ~pub.disturbed => (pub.work => pub.known = pubServer.chapters)
    BY <1>2, <1>3, <1>10 DEF PubCallHolds, AgainIsKnown
  <2> QED
    BY <1>2, <1>3, <1>4, <1>7, <1>8, <1>10, <2>3, <2>4, PubEnds DEF PubSame
<1> QED
  BY <1>6, <1>9, <1>10

(* The last chapter is taken back.                                         *)
LEMMA PubTakesBack ==
  ASSUME PubInv, NEW k \in pubCalls, ServerUnpublishes(k) \/ Unpublished(k) \/ UnpublishFails(k)
  PROVE  PubInv'
<1>1. pub \in PubPage /\ k \in PubCall /\ k.chapter \in Chapters /\ k.read \in BOOLEAN /\ pub.known \in Marks
      /\ pub.left - 1 \in Int /\ pub.left \in Int /\ pubServer \in [work : BOOLEAN, chapters : Marks, pids : Nat]
      /\ pubServer.chapters \in Marks /\ NotPublished \in Nat
  BY DEF PubInv, PubType, PubPage, PubCall, NotPublished
<1>2. k.kind = "unpublish" /\ Others(k) \subseteq pubCalls
  BY DEF ServerUnpublishes, Unpublished, UnpublishFails, Others
<1>3. ASSUME ~pub.disturbed
      PROVE  Others(k) = {} /\ LastIsTakenBack(k) /\ (pub.work => pubServer.work) /\ Beginning(pubServer.chapters)
  BY <1>2, <1>3, PubOnlyCall DEF PubInv, PubTrue, PubCallHolds
<1>4. CASE ServerUnpublishes(k)
  <2> DEFINE c == k.chapter
             ch == [pubServer.chapters EXCEPT ![c] = NotPublished]
             yes == TRUE
             n == [k EXCEPT !.read = yes]
  <2>1. pubServer' = [pubServer EXCEPT !.chapters = ch] /\ pubCalls' = Others(k) \cup {n} /\ UNCHANGED pub /\ ~k.read
    BY <1>1, <1>4 DEF ServerUnpublishes
  <2>2. ch \in Marks /\ ch[c] = NotPublished /\ \A d \in Chapters : d # c => ch[d] = pubServer.chapters[d]
    BY <1>1 DEF Marks
  <2>3. yes \in BOOLEAN /\ yes
    OBVIOUS
  <2> HIDE DEF yes
  <2>4. n \in PubCall /\ n.kind = "unpublish" /\ n.chapter = c
    BY <1>1, <1>2, <2>3 DEF PubCall
  <2>5. n.read
    BY <1>1, <2>3 DEF PubCall
  <2>6. PICK x \in PubCall : x = n
    BY <2>4
  <2> HIDE DEF n
  <2>7. /\ pubServer' \in [work : BOOLEAN, chapters : Marks, pids : Nat] /\ pubServer'.chapters = ch
        /\ pubServer'.work = pubServer.work
    <3> HIDE DEF ch
    <3> QED
      BY <1>1, <2>1, <2>2
  <2>8. pubCalls' \subseteq PubCall
    BY <2>1, <2>4 DEF Others, PubInv, PubType
  <2>9. ~pubServer'.work => ch = Nothing
    BY <1>1, <2>7 DEF PubInv, Nothing
  <2>10. ASSUME ~pub.disturbed PROVE PubTrue'
    <3>1. pubCalls' = {x} /\ LastIsTakenBack(k)
      BY <1>3, <2>1, <2>6, <2>10
    <3>2. pubServer.chapters = pub.known /\ pub.work
      BY <2>1, <3>1 DEF LastIsTakenBack
    <3>3. Beginning(ch)
      <4>1. ASSUME NEW e \in PublishedIn(ch), NEW d \in 1..e PROVE ch[d] # NotPublished
        <5>1. e \in Chapters /\ c \in Nat /\ d \in Chapters /\ e \in Nat /\ d \in Nat
          BY <1>1 DEF PubInv, PubType, PubBounds, PublishedIn, Chapters
        <5>2. e # c /\ e \in PublishedIn(pub.known)
          BY <2>2, <3>2, <5>1 DEF PublishedIn
        <5>3. ~(e > c)
          BY <3>1, <5>2 DEF LastIsTakenBack, HasLaterPublished, Published
        <5>4. d # c
          BY <5>1, <5>2, <5>3
        <5> QED
          BY <1>3, <2>2, <2>10, <3>2, <5>1, <5>2, <5>4 DEF Beginning
      <4> QED
        BY <4>1 DEF Beginning
    <3>4. LastIsTakenBack(x)'
      BY <2>1, <2>4, <2>5, <2>6, <2>7, <3>1, <3>2 DEF LastIsTakenBack, Published, HasLaterPublished
    <3>5. PubCallHolds(x)'
      BY <2>4, <2>6, <3>4 DEF PubCallHolds
    <3> HIDE DEF ch
    <3> QED
      BY <1>3, <2>1, <2>4, <2>6, <2>7, <2>10, <3>1, <3>3, <3>5 DEF PubTrue, PubQuiet, Beginning
  <2> QED
    BY <1>1, <2>1, <2>7, <2>8, <2>9, <2>10 DEF PubInv, PubType
<1>5. CASE Unpublished(k)
  <2> DEFINE known == [pub.known EXCEPT ![k.chapter] = NotPublished]
             m == [pub EXCEPT !.known = known]
  <2>1. Asks(m, Others(k), "load", "others", 1) /\ UNCHANGED pubServer /\ k.read
    BY <1>1, <1>5 DEF Unpublished, PubPage
  <2>2. known \in Marks
    BY <1>1 DEF Marks
  <2> HIDE DEF known
  <2>3. m \in PubPage /\ m.work = pub.work /\ m.known = known /\ m.disturbed = pub.disturbed
    BY <1>1, <2>2 DEF PubPage
  <2> HIDE DEF m
  <2>4. pub' \in PubPage /\ pub'.work = pub.work /\ pub'.known = known /\ pub'.disturbed = pub.disturbed
    BY <2>1, <2>3, PubAsks DEF Asks
  <2>5. 1 \in Chapters
    BY DEF PubInv, PubType, PubBounds, Chapters
  <2>6. PICK n \in PubCall : pubCalls' = Others(k) \cup {n} /\ n.kind = "load" /\ n.step = "works" /\ n.chapters = Nothing
    BY <2>1, <2>3, <2>5, PubCalled DEF PubInv, PubWhy, Asks
  <2>7. PubCallHolds(n)'
    BY <2>6 DEF PubCallHolds, LoadIsTrue
  <2>8. ~pub.disturbed => known = pubServer.chapters
    BY <1>3, <2>1 DEF LastIsTakenBack, known
  <2> QED
    BY <1>2, <1>3, <2>1, <2>4, <2>6, <2>7, <2>8, PubTurns
<1>6. CASE UnpublishFails(k)
  <2>1. PICK d \in BOOLEAN : d <=> pub.disturbed \/ k.read
    OBVIOUS
  <2>2. PICK l \in Int : l = IF Refused(k) THEN pub.left ELSE pub.left - 1
    BY <1>1
  <2> DEFINE m == [pub EXCEPT !.disturbed = d, !.left = l]
  <2>3. pub' = m /\ pubCalls' = Others(k) /\ UNCHANGED pubServer
    BY <1>1, <1>6, <2>1, <2>2 DEF UnpublishFails, PubPage
  <2>4. m \in PubPage /\ m.work = pub.work /\ m.known = pub.known
    BY <1>1 DEF PubPage
  <2>5. m.disturbed = d
    BY <1>1 DEF PubPage
  <2> HIDE DEF m
  <2>6. ~pub.disturbed /\ ~k.read => pub.known = pubServer.chapters
    BY <1>3 DEF LastIsTakenBack
  <2> QED
    BY <1>2, <1>3, <2>1, <2>3, <2>4, <2>5, <2>6, PubEnds
<1> QED
  BY <1>4, <1>5, <1>6

LEMMA PubStep == PubInv /\ [PubNext]_pubVars => PubInv'
<1> SUFFICES ASSUME PubInv, [PubNext]_pubVars PROVE PubInv'
  OBVIOUS
<1>1. CASE UNCHANGED pubVars
  BY <1>1 DEF PubInv, PubType, PubTrue, PubQuiet, PubCallHolds, LoadIsTrue, BatchIsOrdered, AgainIsKnown,
       LastIsTakenBack, Published, MayGo, HasLaterPublished, pubVars
<1>2. CASE PubNext
  BY <1>2, PubAuthorAsks, PubBoxes, PubBegins, PubLoads, PubCreates, PubServerPublishes, PubAnswers, PubRefusals,
     PubTakesBack DEF PubNext
<1> QED
  BY <1>1, <1>2

(* Readers see a beginning of the novel, however many chapters it has and  *)
(* whatever is published, taken back, refused or fails, as long as the     *)
(* author waits for each answer and none is lost (PublishModal,            *)
(* publish-store).                                                         *)
THEOREM ReadersSeeABeginning ==
  ASSUME PubBounds
  PROVE  PubSpec => []PublishedIsABeginning
<1>1. PubInit => PubInv
  BY PubBegun
<1>2. PubInv /\ [PubNext]_pubVars => PubInv'
  BY PubStep
<1>3. PubInv => PublishedIsABeginning
  BY DEF PubInv, PubTrue, Beginning, PublishedIsABeginning
<1> QED
  BY <1>1, <1>2, <1>3, PTL DEF PubSpec

-----------------------------------------------------------------------------
(* The long-term memory (MemoryPanel)                                      *)
MmBounds == MmMaxEvents \in Nat
Modes == {"none", "ignore", "disabled"} \cup Restricted \cup Partial
Places == MmNodes \cup {0}

(* where a node stands in the outline                                      *)
LEMMA PlaceInOutline ==
  ASSUME NEW nodes \in Seq(MmNodes), NEW n
  PROVE  Pos(nodes, n) \in Nat /\ (Pos(nodes, n) > 0 <=> n \in ToSet(nodes))
<1> DEFINE I == {i \in 1..Len(nodes) : nodes[i] = n}
<1>1. n \in ToSet(nodes) <=> I # {}
  BY DEF ToSet
<1>2. I \in SUBSET Nat /\ \A i \in I : i > 0
  OBVIOUS
<1>3. CASE n \in ToSet(nodes)
  <2>1. Pos(nodes, n) = Min(I)
    BY <1>1, <1>3 DEF Pos, SelectInSeq
  <2> QED
    BY <2>1, <1>1, <1>2, <1>3, LeastIsIn
<1>4. CASE n \notin ToSet(nodes)
  BY <1>4 DEF Pos
<1> QED
  BY <1>3, <1>4

LEMMA GateTypes ==
  /\ NoGate \in Gates
  /\ \A g \in Gates : /\ g = [mode |-> g.mode, unlock |-> g.unlock, visible |-> g.visible]
                      /\ g.mode \in Modes /\ g.unlock \in Places /\ g.visible \in SUBSET MmNodes
                      /\ (g.mode \notin Restricted => g.unlock = 0)
                      /\ (g.mode \notin Partial => g.visible = {})
  BY DEF Gates, NoGate, Modes, Places, Restricted, Partial, MmNodes

LEMMA PlaceOf ==
  ASSUME NEW nodes \in Seq(MmNodes), NEW n, Pos(nodes, n) > 0
  PROVE  Pos(nodes, n) \in DOMAIN nodes /\ nodes[Pos(nodes, n)] = n
<1> DEFINE I == {i \in 1..Len(nodes) : nodes[i] = n}
<1>1. n \in ToSet(nodes)
  BY PlaceInOutline
<1>2. I \in SUBSET Nat /\ I # {}
  BY <1>1 DEF ToSet
<1>3. Pos(nodes, n) = Min(I)
  BY <1>1, <1>2 DEF Pos, SelectInSeq
<1>4. Pos(nodes, n) \in I
  BY <1>2, <1>3, LeastIsIn
<1> QED
  BY <1>4

(* At any place of any outline the page and the server read a gate alike,  *)
(* and a hard gate opens at the places it names.                           *)
LEMMA GatesAgree ==
  ASSUME NEW g \in Gates, NEW nodes \in Seq(MmNodes), NEW target \in Places
  PROVE  LET v == Verdict(g, nodes, target)
         IN /\ Resolved(g, nodes, target) = (IF v.inject THEN {v.state} ELSE {})
            /\ g.mode \in Hard /\ Resolved(g, nodes, target) # {} => Names(g, nodes, target)
<1> DEFINE at == Pos(nodes, target)
           unlock == Pos(nodes, g.unlock)
           v == Verdict(g, nodes, target)
<1>1. at \in Nat /\ unlock \in Nat /\ (at > 0 <=> target \in ToSet(nodes)) /\ (unlock > 0 <=> g.unlock \in ToSet(nodes))
  BY PlaceInOutline
<1>2. g.mode \in Modes
  BY GateTypes
<1> HIDE DEF at, unlock
<1> DEFINE open == \/ g.mode \in Restricted /\ at > 0 /\ unlock > 0 /\ at >= unlock
                   \/ g.mode \in Partial /\ at > 0 /\ target \in g.visible
<1>3. /\ v.inject <=> (g.mode \notin Hard \/ open)
      /\ v.state = IF g.mode = "ignore" THEN "ignore" ELSE IF g.mode \in Soft /\ ~open THEN "hidden" ELSE "visible"
  BY DEF Verdict, at, unlock
<1> HIDE DEF v
<1>4. CASE g.mode \in {"none", "ignore", "disabled"}
  <2>1. ~open
    BY <1>4 DEF Restricted, Partial
  <2> HIDE DEF open
  <2> QED
    BY <2>1, <1>4, <1>3 DEF Resolved, Hard, Soft, v
<1>8. ASSUME at > 0, g.mode \in Partial, target \in g.visible PROVE Names(g, nodes, target)
  <2>1. at \in DOMAIN nodes /\ nodes[at] = target
    BY <1>8, PlaceOf DEF at
  <2> QED
    BY <2>1, <1>8 DEF Names
<1>9. ASSUME at > 0, unlock > 0, at >= unlock, g.mode \in Restricted PROVE Names(g, nodes, target)
  <2>1. at \in DOMAIN nodes /\ nodes[at] = target /\ unlock \in DOMAIN nodes /\ nodes[unlock] = g.unlock
    BY <1>9, PlaceOf DEF at, unlock
  <2>2. unlock \in 1..at
    BY <2>1, <1>1, <1>9
  <2> QED
    BY <2>1, <2>2, <1>9 DEF Names
<1>5. CASE g.mode \in Restricted
  <2>1. open <=> at > 0 /\ unlock > 0 /\ at >= unlock
    BY <1>5 DEF Restricted, Partial
  <2>2. open <=> target \in ToSet(nodes) /\ g.unlock \in ToSet(nodes) /\ at >= unlock
    BY <2>1, <1>1
  <2> HIDE DEF open
  <2>3. Resolved(g, nodes, target) = IF g.mode = "restricted_disabled" THEN IF open THEN {"visible"} ELSE {}
                                     ELSE IF open THEN {"visible"} ELSE {"hidden"}
    BY <2>2, <1>5 DEF Resolved, Restricted, at, unlock
  <2>4. open => Names(g, nodes, target)
    BY <2>1, <1>5, <1>9
  <2> QED
    BY <2>3, <2>4, <1>3, <1>5 DEF Hard, Soft, Restricted, v
<1>6. CASE g.mode \in Partial
  <2>1. open <=> at > 0 /\ target \in g.visible
    BY <1>6 DEF Restricted, Partial
  <2>2. open <=> target \in ToSet(nodes) /\ target \in g.visible
    BY <2>1, <1>1
  <2> HIDE DEF open
  <2>3. Resolved(g, nodes, target) = IF g.mode = "partial_disabled" THEN IF open THEN {"visible"} ELSE {}
                                     ELSE IF open THEN {"visible"} ELSE {"hidden"}
    BY <2>2, <1>6 DEF Resolved, Partial
  <2>4. open => Names(g, nodes, target)
    BY <2>1, <1>6, <1>8
  <2> QED
    BY <2>3, <2>4, <1>3, <1>6 DEF Hard, Soft, Partial, v
<1>7. v.inject <=> (g.mode \notin Hard \/ open)
  BY <1>3
<1> QED
  BY <1>2, <1>4, <1>5, <1>6 DEF Modes, v

(* The orders that a drag gives to the items are taken from R.             *)
MmItem(R) == [id : Nat, rev : Nat, pinned : BOOLEAN, order : R, gate : Gates]
MmForm == [item : Nat, fresh : BOOLEAN, pinned : BOOLEAN, gate : Gates, pictures : Nat]
MmPage(R) == [scope : {"novel", "media"}, items : Seq(MmItem(R)), version : Nat, seq : Nat, loading : BOOLEAN,
              nodes : Seq(MmNodes), form : MmForm, saving : BOOLEAN, uploading : BOOLEAN, drag : Nat,
              apart : BOOLEAN, made : Nat, left : Nat]
MmStored(R) == [items : Seq(MmItem(R)), version : Nat, nodes : Seq(MmNodes)]
MmLoad(R) == [seq : Nat, items : Seq(MmItem(R)), version : Nat]
MmSave(R) == [items : Seq(MmItem(R)), version : Nat, form : BOOLEAN]
MmTyped(R) ==
  /\ MmBounds /\ Nat \subseteq R
  /\ mm \in MmPage(R) /\ mmKept \in Seq(MmItem(R))
  /\ mmServer \in MmStored(R)
  /\ \A c \in mmCalls : /\ c.kind = "load" => c.data \in MmLoad(R)
                        /\ c.kind = "save" => c.data \in MmSave(R)
MmInv == (\E R : MmTyped(R)) /\ MemoryBusyIsHonest

LEMMA MmBegun == MmBounds /\ MmInit => MmInv
<1> SUFFICES ASSUME MmBounds, MmInit PROVE MmInv
  OBVIOUS
<1>1. PICK g \in Gates, scope \in {"novel", "media"}, nodes \in {<<1, 2>>, <<2>>, <<>>} :
    /\ mm = [scope |-> scope, items |-> <<Item(1, g)>>, version |-> Unknown, seq |-> 0, loading |-> FALSE,
             nodes |-> nodes, form |-> NoForm, saving |-> FALSE, uploading |-> FALSE, drag |-> 0,
             apart |-> FALSE, made |-> 2, left |-> MmMaxEvents]
    /\ mmKept = <<Item(1, g)>>
    /\ mmServer = [items |-> <<Item(1, g), Item(2, NoGate)>>, version |-> 1,
                   nodes |-> IF scope = "novel" THEN <<1, 2>> ELSE <<>>]
    /\ mmCalls = {}
  BY DEF MmInit
<1>2. Item(1, g) \in MmItem(Nat) /\ Item(2, NoGate) \in MmItem(Nat)
  BY GateTypes DEF Item, MmItem
<1>3. NoForm \in MmForm
  BY GateTypes DEF NoForm, MmForm
<1>4. nodes \in Seq(MmNodes) /\ <<1, 2>> \in Seq(MmNodes) /\ <<>> \in Seq(MmNodes)
  <2>1. 1 \in MmNodes /\ 2 \in MmNodes
    BY DEF MmNodes
  <2>2. <<1, 2>> \in Seq(MmNodes) /\ <<2>> \in Seq(MmNodes) /\ <<>> \in Seq(MmNodes)
    BY <2>1
  <2> QED
    BY <2>2
<1>5. mm \in MmPage(Nat)
  BY <1>1, <1>2, <1>3, <1>4 DEF MmPage, MmBounds, Unknown
<1>6. MmTyped(Nat)
  <2>1. mmServer \in MmStored(Nat)
    BY <1>1, <1>2, <1>4 DEF MmStored
  <2> QED
    BY <1>1, <1>2, <1>5, <2>1 DEF MmTyped
<1>7. ~mm.loading /\ ~mm.saving /\ ~mm.uploading
  BY <1>1
<1> QED
  BY <1>6, <1>7 DEF MmInv, MemoryBusyIsHonest

LEMMA MmCalled ==
  ASSUME NEW kind, NEW data
  PROVE  MmCall(kind, data).kind = kind /\ MmCall(kind, data).data = data
  BY DEF MmCall

LEMMA WithItemsTyped ==
  ASSUME NEW R, NEW m \in MmPage(R), NEW items \in Seq(MmItem(R))
  PROVE  LET n == WithItems(m, items)
         IN /\ n \in MmPage(R) /\ n.scope = m.scope /\ n.seq = m.seq
            /\ n.loading = m.loading /\ n.saving = m.saving /\ n.uploading = m.uploading
            /\ n.version = m.version /\ n.left = m.left /\ n.apart = m.apart /\ n.items = items
<1> PICK f \in MmForm : f = IF m.form.item = 0 \/ \E k \in DOMAIN items : items[k].id = m.form.item THEN m.form ELSE NoForm
  BY GateTypes DEF MmPage, MmForm, NoForm
<1>1. WithItems(m, items) = [m EXCEPT !.items = items, !.form = f]
  BY DEF WithItems, MmPage
<1> QED
  BY <1>1 DEF MmPage

(* What does not take back a call, nor begin to wait for one.              *)
LEMMA MmWaits ==
  ASSUME MemoryBusyIsHonest, mmCalls \subseteq mmCalls', mm'.scope = mm.scope, mm'.seq = mm.seq,
         mm'.loading => mm.loading, mm'.saving => mm.saving, mm'.uploading => mm.uploading
  PROVE  MemoryBusyIsHonest'
  BY DEF MemoryBusyIsHonest, Overtaken

LEMMA MmCommits ==
  ASSUME NEW R, MmTyped(R), MemoryBusyIsHonest, NEW m \in MmPage(R), NEW items \in Seq(MmItem(R)), mm.left > 0,
         m.scope = mm.scope, m.seq = mm.seq, m.loading = mm.loading, m.uploading = mm.uploading, m.left = mm.left,
         CommitItems(m, items)
  PROVE  MmTyped(R)' /\ MemoryBusyIsHonest'
<1>1. PICK n \in MmPage(R) :
        /\ n = WithItems(m, items) /\ n.scope = m.scope /\ n.seq = m.seq
        /\ n.loading = m.loading /\ n.saving = m.saving /\ n.uploading = m.uploading /\ n.left = m.left
        /\ n.apart = m.apart
  BY WithItemsTyped
<1> PICK apart \in BOOLEAN : apart = (m.apart \/ SavesOut # {})
  OBVIOUS
<1>2. mm' = [n EXCEPT !.left = n.left - 1, !.apart = apart]
  BY <1>1 DEF CommitItems, MmPage
<1>3. mm' = [n EXCEPT !.left = mm.left - 1, !.apart = apart] /\ mm.left - 1 \in Nat
  <2>1. mm.left \in Nat /\ mm.left - 1 \in Nat
    <3>1. mm.left \in Nat
      BY DEF MmPage, MmTyped
    <3> QED
      BY <3>1
  <2> QED
    BY <1>1, <1>2, <2>1
<1>4. /\ mm' \in MmPage(R) /\ mm'.scope = mm.scope /\ mm'.seq = mm.seq
      /\ mm'.loading = mm.loading /\ mm'.saving = m.saving /\ mm'.uploading = mm.uploading
  BY <1>1, <1>3 DEF MmPage
<1>5. PICK k : /\ k.kind = "save" /\ k.data = [items |-> items, version |-> mm.version, form |-> m.saving]
               /\ mmCalls' = mmCalls \cup {k}
  BY Zenon, MmCalled DEF CommitItems
<1>6. k.data \in MmSave(R) /\ k.data.form = m.saving
  BY <1>5 DEF MmSave, MmPage, MmTyped
<1>7. MmTyped(R)'
  BY <1>4, <1>5, <1>6 DEF MmTyped, CommitItems, MmStored
<1>8. MemoryBusyIsHonest'
  BY <1>4, <1>5, <1>6 DEF MemoryBusyIsHonest, Overtaken
<1> QED
  BY <1>7, <1>8

(* Loads and saves.                                                        *)
LEMMA MmLoadCalled ==
  ASSUME NEW R, MmTyped(R)
  PROVE  LoadCall(mm).kind = "load" /\ LoadCall(mm).data \in MmLoad(R) /\ LoadCall(mm).data.seq = mm.seq + 1
<1>1. LoadCall(mm).kind = "load" /\ LoadCall(mm).data = [seq |-> mm.seq + 1, items |-> mmServer.items, version |-> mmServer.version]
  BY MmCalled DEF LoadCall
<1> QED
  BY <1>1 DEF MmTyped, MmPage, MmLoad, MmStored

LEMMA MmAsksForLoad ==
  ASSUME NEW R, MmTyped(R), MemoryBusyIsHonest, LoadMemory
  PROVE  MmTyped(R)' /\ MemoryBusyIsHonest'
<1>1. PICK k : k = LoadCall(mm) /\ k.kind = "load" /\ k.data \in MmLoad(R) /\ k.data.seq = mm.seq + 1
  BY MmLoadCalled
<1>2. mmCalls' = mmCalls \cup {k} /\ UNCHANGED <<mmKept, mmServer>>
  BY <1>1 DEF LoadMemory
<1>3. PICK yes \in BOOLEAN : yes = TRUE
  OBVIOUS
<1>4. mm' = [mm EXCEPT !.seq = mm.seq + 1, !.loading = yes, !.left = mm.left - 1] /\ mm.left - 1 \in Nat
  <2>1. mm' = [[mm EXCEPT !.seq = mm.seq + 1, !.loading = yes] EXCEPT !.left = @ - 1]
    BY <1>3 DEF LoadMemory, Loading, MmTyped, MmPage
  <2>2. mm.left \in Nat /\ mm.left > 0
    BY DEF LoadMemory, MmTyped, MmPage
  <2> QED
    BY <2>1, <2>2 DEF MmTyped, MmPage
<1>5. /\ mm' \in MmPage(R) /\ mm'.scope = mm.scope /\ mm'.seq = mm.seq + 1
      /\ mm'.saving = mm.saving /\ mm'.uploading = mm.uploading
  <2>1. mm \in MmPage(R) /\ mm.seq + 1 \in Nat
    BY DEF MmPage, MmTyped
  <2> DEFINE q == mm.seq + 1
             l == mm.left - 1
  <2>2. mm' = [mm EXCEPT !.seq = q, !.loading = yes, !.left = l] /\ q \in Nat /\ l \in Nat
    BY <1>4, <2>1
  <2> HIDE DEF q, l
  <2>3. mm' \in MmPage(R) /\ mm'.scope = mm.scope /\ mm'.seq = q /\ mm'.saving = mm.saving /\ mm'.uploading = mm.uploading
    BY <2>1, <2>2 DEF MmPage
  <2> QED
    BY <2>3 DEF q
<1>6. MmTyped(R)'
  BY <1>5, <1>1, <1>2 DEF MmTyped
<1>7. MemoryBusyIsHonest'
  BY <1>5, <1>1, <1>2 DEF MemoryBusyIsHonest, Overtaken
<1> QED
  BY <1>6, <1>7

LEMMA MmLoadEnds ==
  ASSUME NEW R, MmTyped(R), MemoryBusyIsHonest, NEW c \in mmCalls, LoadMemoryAnswered(c) \/ LoadMemoryFails(c)
  PROVE  MmTyped(R)' /\ MemoryBusyIsHonest'
<1>1. c.kind = "load" /\ c.data \in MmLoad(R) /\ mmCalls' = mmCalls \ {c} /\ UNCHANGED <<mmKept, mmServer>>
  BY DEF LoadMemoryAnswered, LoadMemoryFails, MmTyped
<1>2. PICK no \in BOOLEAN : no = FALSE
  OBVIOUS
<1>3. PICK items \in Seq(MmItem(R)), version \in Nat, l \in Nat, apart \in BOOLEAN :
        mm' = IF Overtaken(c) THEN [mm EXCEPT !.left = l]
              ELSE [WithItems(mm, items) EXCEPT !.version = version, !.loading = no, !.apart = apart, !.left = l]
  <2>1. CASE LoadMemoryAnswered(c)
    <3>1. PICK n \in MmPage(R) : n = WithItems(mm, c.data.items) /\ n.left = mm.left
      BY <1>1, WithItemsTyped DEF MmTyped, MmLoad
    <3> PICK apart \in BOOLEAN : apart = (SavesOut # {})
      OBVIOUS
    <3>2. mm' = IF Overtaken(c) THEN [mm EXCEPT !.left = mm.left]
                ELSE [n EXCEPT !.version = c.data.version, !.loading = no, !.apart = apart, !.left = mm.left]
      BY <3>1, <2>1, <1>2 DEF LoadMemoryAnswered, MmTyped, MmPage
    <3>3. c.data.items \in Seq(MmItem(R)) /\ c.data.version \in Nat /\ mm.left \in Nat
      BY <1>1 DEF MmLoad, MmTyped, MmPage
    <3> QED
      BY Zenon, <3>1, <3>2, <3>3
  <2>2. CASE LoadMemoryFails(c)
    <3>1. PICK n \in MmPage(R) : n = WithItems(mm, mmKept) /\ n.left = mm.left /\ n.version = mm.version
      BY WithItemsTyped DEF MmTyped
    <3> PICK yes \in BOOLEAN : yes = TRUE
      OBVIOUS
    <3>2. mm' = [IF Overtaken(c) THEN mm ELSE [n EXCEPT !.loading = no, !.apart = yes] EXCEPT !.left = @ - 1]
      BY <3>1, <2>2, <1>2 DEF LoadMemoryFails
    <3>3. mm' = IF Overtaken(c) THEN [mm EXCEPT !.left = mm.left - 1]
                ELSE [n EXCEPT !.version = mm.version, !.loading = no, !.apart = yes, !.left = mm.left - 1]
      BY <3>1, <3>2 DEF MmTyped, MmPage
    <3>4. mmKept \in Seq(MmItem(R)) /\ mm.version \in Nat /\ mm.left - 1 \in Nat
      BY SMTT(60), <2>2 DEF LoadMemoryFails, MmTyped, MmPage
    <3> QED
      BY Zenon, <3>1, <3>3, <3>4
  <2> QED
    BY Zenon, <2>1, <2>2
<1>4. PICK n \in MmPage(R) : /\ n = WithItems(mm, items) /\ n.scope = mm.scope /\ n.seq = mm.seq
                             /\ n.loading = mm.loading /\ n.saving = mm.saving /\ n.uploading = mm.uploading
  BY WithItemsTyped DEF MmTyped
<1>5. mm' = IF Overtaken(c) THEN [mm EXCEPT !.left = l]
            ELSE [n EXCEPT !.version = version, !.loading = no, !.apart = apart, !.left = l]
  BY <1>3, <1>4
<1>6. /\ mm' \in MmPage(R) /\ mm'.scope = mm.scope /\ mm'.seq = mm.seq
      /\ mm'.saving = mm.saving /\ mm'.uploading = mm.uploading
      /\ mm'.loading => mm.loading /\ Overtaken(c)
  BY <1>4, <1>5, <1>2 DEF MmPage, MmTyped
<1>7. MmTyped(R)'
  BY <1>6, <1>1 DEF MmTyped
<1>8. MemoryBusyIsHonest'
  BY <1>6, <1>1 DEF MemoryBusyIsHonest, Overtaken
<1> QED
  BY <1>7, <1>8

LEMMA MmFormDone ==
  ASSUME NEW R, NEW m \in MmPage(R), NEW c, c.data \in MmSave(R)
  PROVE  LET n == FormDone(m, c)
         IN /\ n \in MmPage(R) /\ n.scope = m.scope /\ n.seq = m.seq
            /\ n.loading = m.loading /\ n.uploading = m.uploading /\ n.left = m.left
            /\ n.saving => m.saving /\ ~c.data.form
<1>1. PICK no \in BOOLEAN : no = FALSE
  OBVIOUS
<1>2. FormDone(m, c) = IF c.data.form THEN [m EXCEPT !.saving = no, !.form = NoForm] ELSE m
  BY <1>1 DEF FormDone
<1>3. NoForm \in MmForm
  BY GateTypes DEF NoForm, MmForm
<1> QED
  BY <1>1, <1>2, <1>3 DEF MmPage

LEMMA MmSaveEnds ==
  ASSUME NEW R, MmTyped(R), MemoryBusyIsHonest, NEW c \in mmCalls,
         SaveMemoryAnswered(c) \/ SaveMemoryFails(c)
  PROVE  MmTyped(R)' /\ MemoryBusyIsHonest'
<1>1. c.kind = "save" /\ c.data \in MmSave(R) /\ mmCalls' = mmCalls \ {c} /\ mmKept' = mmKept
  BY DEF SaveMemoryAnswered, SaveMemoryFails, MmTyped
<1>2. PICK n \in MmPage(R) :
        /\ n = FormDone(mm, c) /\ n.scope = mm.scope /\ n.seq = mm.seq
        /\ n.loading = mm.loading /\ n.uploading = mm.uploading /\ n.left = mm.left
        /\ n.saving => mm.saving /\ ~c.data.form
  BY <1>1, MmFormDone DEF MmTyped
<1>3. PICK version \in Nat, l \in Nat, apart \in BOOLEAN : mm' = [n EXCEPT !.version = version, !.left = l, !.apart = apart]
  <2>1. CASE SaveMemoryAnswered(c)
    <3>1. mmServer.version + 1 \in Nat /\ n.left \in Nat /\ n.apart \in BOOLEAN
      BY <1>2 DEF MmTyped, MmPage, MmStored
    <3>2. mm' = [n EXCEPT !.version = mmServer.version + 1, !.left = n.left, !.apart = n.apart]
      BY <1>2, <2>1 DEF SaveMemoryAnswered, MmPage
    <3> QED
      BY Zenon, <3>1, <3>2
  <2>2. CASE SaveMemoryFails(c)
    <3>1. n.left - 1 \in Nat /\ n.version \in Nat
      BY <1>2, <2>2 DEF MmTyped, MmPage, SaveMemoryFails
    <3> PICK yes \in BOOLEAN : yes = TRUE
      OBVIOUS
    <3>2. mm' = [n EXCEPT !.version = n.version, !.left = n.left - 1, !.apart = yes]
      BY <1>2, <2>2 DEF SaveMemoryFails, MmPage
    <3> QED
      BY Zenon, <3>1, <3>2
  <2> QED
    BY Zenon, <2>1, <2>2
<1>4. /\ mm' \in MmPage(R) /\ mm'.scope = mm.scope /\ mm'.seq = mm.seq
      /\ mm'.loading = mm.loading /\ mm'.uploading = mm.uploading
      /\ mm'.saving => mm.saving /\ ~c.data.form
  BY <1>2, <1>3 DEF MmPage
<1>5. mmServer' \in MmStored(R)
  <2>1. mmServer \in MmStored(R)
    BY DEF MmTyped
  <2>2. Overwritten(c) \in MmStored(R)
    <3>1. PICK items \in Seq(MmItem(R)), v \in Nat : items = c.data.items /\ v = mmServer.version + 1
      BY <1>1, <2>1 DEF MmStored, MmSave
    <3>2. Overwritten(c) = [mmServer EXCEPT !.items = items, !.version = v]
      BY <2>1, <3>1 DEF Overwritten, MmStored
    <3> QED
      BY <2>1, <3>2 DEF MmStored
  <2> QED
    BY <2>1, <2>2 DEF SaveMemoryAnswered, SaveMemoryFails
<1>6. MmTyped(R)'
  BY <1>4, <1>5, <1>1 DEF MmTyped
<1>7. MemoryBusyIsHonest'
  BY <1>4, <1>1 DEF MemoryBusyIsHonest, Overtaken
<1> QED
  BY <1>6, <1>7

LEMMA MmConflicts ==
  ASSUME NEW R, MmTyped(R), MemoryBusyIsHonest, NEW c \in mmCalls, SaveMemoryConflicts(c)
  PROVE  MmTyped(R)' /\ MemoryBusyIsHonest'
<1>1. c.kind = "save" /\ c.data \in MmSave(R) /\ UNCHANGED <<mmKept, mmServer>>
  BY DEF SaveMemoryConflicts, MmTyped
<1>2. PICK k : k = LoadCall(mm) /\ k.kind = "load" /\ k.data \in MmLoad(R) /\ k.data.seq = mm.seq + 1
  BY MmLoadCalled
<1>3. mmCalls' = (mmCalls \ {c}) \cup {k}
  BY <1>2 DEF SaveMemoryConflicts
<1>4. PICK n \in MmPage(R) :
        /\ n = FormDone(mm, c) /\ n.scope = mm.scope /\ n.seq = mm.seq
        /\ n.loading = mm.loading /\ n.uploading = mm.uploading /\ n.left = mm.left
        /\ n.saving => mm.saving /\ ~c.data.form
  BY <1>1, MmFormDone DEF MmTyped
<1>5. PICK yes \in BOOLEAN : yes = TRUE
  OBVIOUS
<1>6. PICK q \in Nat : q = mm.seq + 1
  BY DEF MmTyped, MmPage
<1>7. mm' = [n EXCEPT !.seq = q, !.loading = yes, !.apart = yes]
  BY <1>4, <1>5, <1>6 DEF SaveMemoryConflicts, Loading, MmPage
<1>8. /\ mm' \in MmPage(R) /\ mm'.scope = mm.scope /\ mm'.seq = q /\ mm'.uploading = mm.uploading
      /\ mm'.saving => mm.saving /\ ~c.data.form
  BY <1>4, <1>7 DEF MmPage
<1>9. MmTyped(R)'
  BY <1>1, <1>2, <1>3, <1>8 DEF MmTyped
<1>10. MemoryBusyIsHonest'
  BY <1>1, <1>2, <1>3, <1>6, <1>8 DEF MemoryBusyIsHonest, Overtaken
<1> QED
  BY <1>9, <1>10

(* A step of the page alone.                                               *)
LEMMA MmTurns ==
  ASSUME NEW R, MmTyped(R), MemoryBusyIsHonest, mm' \in MmPage(R),
         UNCHANGED <<mmKept, mmServer, mmCalls>>, mm'.scope = mm.scope, mm'.seq = mm.seq,
         mm'.loading => mm.loading, mm'.saving => mm.saving, mm'.uploading => mm.uploading
  PROVE  MmTyped(R)' /\ MemoryBusyIsHonest'
<1>1. MmTyped(R)'
  BY DEF MmTyped
<1>2. MemoryBusyIsHonest'
  BY MmWaits
<1> QED
  BY <1>1, <1>2

LEMMA MmOtherDevice ==
  ASSUME NEW R, MmTyped(R), MemoryBusyIsHonest, OtherDevice
  PROVE  MmTyped(R)' /\ MemoryBusyIsHonest'
<1>1. mm.made + 1 \in Nat /\ mm.left - 1 \in Nat /\ mm \in MmPage(R)
  BY DEF OtherDevice, MmTyped, MmPage
<1>2. PICK d \in Nat, l \in Nat : d = mm.made + 1 /\ l = mm.left - 1 /\ mm' = [mm EXCEPT !.made = d, !.left = l]
  BY Zenon, <1>1 DEF OtherDevice, MmPage
<1>3. /\ mm' \in MmPage(R) /\ mm'.scope = mm.scope /\ mm'.seq = mm.seq
      /\ mm'.loading = mm.loading /\ mm'.saving = mm.saving /\ mm'.uploading = mm.uploading
  BY <1>1, <1>2 DEF MmPage
<1>4. Item(d, NoGate) \in MmItem(R)
  BY GateTypes DEF Item, MmItem, MmTyped
<1>5. mmServer' = [mmServer EXCEPT !.items = Append(mmServer.items, Item(d, NoGate)), !.version = mmServer.version + 1]
  BY <1>2 DEF OtherDevice, MmTyped, MmStored
<1>6. mmServer' \in MmStored(R)
  <2>1. mmServer.items \in Seq(MmItem(R)) /\ mmServer.version + 1 \in Nat /\ mmServer \in MmStored(R)
    BY DEF MmTyped, MmStored
  <2>2. Append(mmServer.items, Item(d, NoGate)) \in Seq(MmItem(R))
    BY <2>1, <1>4
  <2> QED
    BY <2>1, <2>2, <1>5 DEF MmStored
<1>7. mmKept' = mmKept /\ mmCalls' = mmCalls
  BY DEF OtherDevice
<1>8. MmTyped(R)'
  BY <1>3, <1>6, <1>7 DEF MmTyped
<1>9. MemoryBusyIsHonest'
  BY <1>3, <1>7, MmWaits
<1> QED
  BY <1>8, <1>9

(* The list in the panel.                                                  *)
LEMMA MmTogglePin ==
  ASSUME NEW R, MmTyped(R), MemoryBusyIsHonest, NEW k \in DOMAIN mm.items, TogglePin(k)
  PROVE  MmTyped(R)' /\ MemoryBusyIsHonest'
<1>1. mm \in MmPage(R) /\ mm.items \in Seq(MmItem(R)) /\ mm.items[k] \in MmItem(R)
  BY DEF MmTyped, MmPage
<1> DEFINE b == ~mm.items[k].pinned
           r == mm.items[k].rev + 1
           item == [mm.items[k] EXCEPT !.pinned = b, !.rev = r]
<1>2. b \in BOOLEAN /\ r \in Nat
  BY <1>1 DEF MmItem
<1>3. CommitItems(mm, [mm.items EXCEPT ![k] = item]) /\ mm.left > 0
  BY <1>1 DEF TogglePin, Change, MmItem
<1> HIDE DEF b, r
<1>4. item \in MmItem(R)
  BY <1>1, <1>2 DEF MmItem
<1> HIDE DEF item
<1>5. [mm.items EXCEPT ![k] = item] \in Seq(MmItem(R))
  BY <1>1, <1>4, ExceptSeq
<1> QED
  BY <1>1, <1>3, <1>5, MmCommits

LEMMA MmRemoves ==
  ASSUME NEW R, MmTyped(R), MemoryBusyIsHonest, NEW k \in DOMAIN mm.items, RemoveItem(k)
  PROVE  MmTyped(R)' /\ MemoryBusyIsHonest'
<1>1. mm \in MmPage(R) /\ mm.items \in Seq(MmItem(R)) /\ k \in 1..Len(mm.items)
  BY DEF MmTyped, MmPage
<1>2. RemoveAt(mm.items, k) \in Seq(MmItem(R))
  <2>1. SubSeq(mm.items, 1, k-1) \in Seq(MmItem(R)) /\ SubSeq(mm.items, k+1, Len(mm.items)) \in Seq(MmItem(R))
    BY <1>1
  <2> QED
    BY <2>1 DEF RemoveAt
<1>3. CommitItems(mm, RemoveAt(mm.items, k)) /\ mm.left > 0
  BY DEF RemoveItem
<1> QED
  BY <1>1, <1>2, <1>3, MmCommits

LEMMA MmMoreOrders ==
  ASSUME NEW R, NEW S, R \subseteq S, MmTyped(R)
  PROVE  MmTyped(S)
<1>1. MmItem(R) \subseteq MmItem(S)
  BY DEF MmItem
<1>2. Seq(MmItem(R)) \subseteq Seq(MmItem(S))
  BY <1>1, SeqMonotonic
<1>3. /\ MmLoad(R) \subseteq MmLoad(S) /\ MmSave(R) \subseteq MmSave(S) /\ MmPage(R) \subseteq MmPage(S)
      /\ MmStored(R) \subseteq MmStored(S)
  BY <1>2 DEF MmLoad, MmSave, MmPage, MmStored
<1> QED
  BY <1>2, <1>3 DEF MmTyped

(* An item is dropped: all have new orders.                                *)
LEMMA MmDrops ==
  ASSUME NEW R, MmTyped(R), MemoryBusyIsHonest, NEW k \in DOMAIN mm.items, Drop(k)
  PROVE  (\E S : MmTyped(S)') /\ MemoryBusyIsHonest'
<1>1. mm \in MmPage(R) /\ mm.items \in Seq(MmItem(R))
  BY DEF MmTyped, MmPage
<1>2. PICK from, to : CommitItems([mm EXCEPT !.drag = 0], Dropped(mm.items, from, to)) /\ mm.left > 0
  BY DEF Drop
<1>3. PICK order : Dropped(mm.items, from, to) = [j \in DOMAIN mm.items |-> [mm.items[j] EXCEPT !.order = order[j]]]
  <2> DEFINE shown == Sorted(mm.items)
             moved == InsertAt(RemoveAt(shown, from), to, shown[from])
             order == [j \in DOMAIN mm.items |-> SelectInSeq(moved, LAMBDA x : x = j)]
  <2>1. \A j \in DOMAIN mm.items : order[j] = SelectInSeq(moved, LAMBDA x : x = j)
    OBVIOUS
  <2>2. Dropped(mm.items, from, to) = [j \in DOMAIN mm.items |-> [mm.items[j] EXCEPT !.order = order[j]]]
    BY <2>1 DEF Dropped
  <2> HIDE DEF order
  <2> QED
    BY <2>2
<1>4. PICK S : S = R \cup {order[j] : j \in DOMAIN mm.items}
  OBVIOUS
<1>5. MmTyped(S) /\ mm \in MmPage(S)
  <2>1. R \subseteq S
    BY <1>4
  <2>2. MmTyped(S)
    BY <2>1, MmMoreOrders
  <2> QED
    BY <2>2 DEF MmTyped
<1>6. Dropped(mm.items, from, to) \in Seq(MmItem(S))
  <2>1. \A j \in DOMAIN mm.items : [mm.items[j] EXCEPT !.order = order[j]] \in MmItem(S)
    <3>1. ASSUME NEW j \in DOMAIN mm.items PROVE [mm.items[j] EXCEPT !.order = order[j]] \in MmItem(S)
      <4>1. mm.items[j] \in MmItem(S)
        BY <1>5 DEF MmPage
      <4>2. order[j] \in S
        BY <1>4
      <4> QED
        BY <4>1, <4>2 DEF MmItem
    <3> QED
      BY <3>1
  <2>2. DOMAIN mm.items = 1..Len(mm.items) /\ Len(mm.items) \in Nat
    BY <1>1
  <2> QED
    BY <2>1, <2>2, <1>3, IsASeq
<1>7. PICK m \in MmPage(S) : /\ m = [mm EXCEPT !.drag = 0] /\ m.scope = mm.scope /\ m.seq = mm.seq
                             /\ m.loading = mm.loading /\ m.uploading = mm.uploading /\ m.left = mm.left
  <2> DEFINE m == [mm EXCEPT !.drag = 0]
  <2>1. /\ m \in MmPage(S) /\ m.scope = mm.scope /\ m.seq = mm.seq
        /\ m.loading = mm.loading /\ m.uploading = mm.uploading /\ m.left = mm.left
    BY <1>5 DEF MmPage
  <2> HIDE DEF m
  <2>2. m = [mm EXCEPT !.drag = 0]
    BY DEF m
  <2> QED
    BY <2>1, <2>2
<1>8. CommitItems(m, Dropped(mm.items, from, to)) /\ mm.left > 0
  BY <1>2, <1>7
<1>9. MmTyped(S)' /\ MemoryBusyIsHonest'
  BY <1>5, <1>6, <1>7, <1>8, MmCommits
<1> QED
  BY <1>9

LEMMA MmDrags ==
  ASSUME NEW R, MmTyped(R), MemoryBusyIsHonest, DragEnd \/ \E k \in DOMAIN mm.items : DragStart(k)
  PROVE  MmTyped(R)' /\ MemoryBusyIsHonest'
<1>1. mm \in MmPage(R) /\ UNCHANGED <<mmKept, mmServer, mmCalls>>
  BY DEF DragEnd, DragStart, MmTyped
<1>2. PICK d \in Nat : mm' = [mm EXCEPT !.drag = d]
  <2>1. CASE DragEnd
    BY <2>1 DEF DragEnd
  <2>2. ASSUME NEW k \in DOMAIN mm.items, DragStart(k) PROVE \E d \in Nat : mm' = [mm EXCEPT !.drag = d]
    <3>1. mm.items[k] \in MmItem(R)
      BY <1>1 DEF MmPage
    <3>2. mm.items[k].id \in Nat
      BY <3>1 DEF MmItem
    <3> QED
      BY <2>2, <3>2 DEF DragStart
  <2> QED
    BY <2>1, <2>2
<1>3. /\ mm' \in MmPage(R) /\ mm'.scope = mm.scope /\ mm'.seq = mm.seq
      /\ mm'.loading = mm.loading /\ mm'.saving = mm.saving /\ mm'.uploading = mm.uploading
  BY <1>1, <1>2 DEF MmPage
<1> QED
  BY <1>1, <1>3, MmTurns

(* The editor of an item.                                                  *)
LEMMA MmForms ==
  ASSUME NEW R, MmTyped(R), MemoryBusyIsHonest,
         \/ OpenCreate \/ CloseEditor \/ OutlineMoves \/ OutlineLoaded
         \/ \E k \in DOMAIN mm.items : OpenEdit(k)
         \/ \E g \in Gates : PickGate(g)
  PROVE  /\ MmTyped(R)' /\ MemoryBusyIsHonest'
         /\ mm'.items = mm.items /\ mm'.version = mm.version /\ mm'.apart = mm.apart /\ UNCHANGED <<mmServer, mmCalls>>
<1>1. mm \in MmPage(R) /\ NoForm \in MmForm /\ UNCHANGED <<mmKept, mmServer, mmCalls>>
  BY Zenon, GateTypes DEF NoForm, MmForm, MmTyped, OpenCreate, CloseEditor, OutlineMoves, OutlineLoaded, OpenEdit, PickGate
<1>2. mm.left - 1 \in Nat \/ ~(mm.left > 0)
  BY <1>1 DEF MmPage
<1>3. /\ mm' \in MmPage(R) /\ mm'.scope = mm.scope /\ mm'.seq = mm.seq
      /\ mm'.loading = mm.loading /\ mm'.uploading = mm.uploading /\ (mm'.saving => mm.saving)
      /\ mm'.items = mm.items /\ mm'.version = mm.version /\ mm'.apart = mm.apart
  <2>1. CASE \/ OpenCreate \/ (\E k \in DOMAIN mm.items : OpenEdit(k)) \/ (\E g \in Gates : PickGate(g))
    <3>1. PICK f \in MmForm : mm' = [mm EXCEPT !.form = f, !.left = mm.left - 1]
      <4>1. CASE OpenCreate
        <5>1. PICK yes \in BOOLEAN : yes = TRUE
          OBVIOUS
        <5>2. [NoForm EXCEPT !.fresh = yes] \in MmForm
          BY <1>1 DEF MmForm
        <5> QED
          BY Zenon, <1>1, <5>1, <5>2, <4>1 DEF OpenCreate, MmPage
      <4>2. ASSUME NEW k \in DOMAIN mm.items, OpenEdit(k)
            PROVE  \E f \in MmForm : mm' = [mm EXCEPT !.form = f, !.left = mm.left - 1]
        <5>1. mm.items[k] \in MmItem(R)
          BY <1>1 DEF MmPage
        <5>2. [NoForm EXCEPT !.item = mm.items[k].id, !.pinned = mm.items[k].pinned, !.gate = mm.items[k].gate] \in MmForm
          BY <1>1, <5>1 DEF MmForm, MmItem
        <5> QED
          BY Zenon, <1>1, <5>2, <4>2 DEF OpenEdit, MmPage
      <4>3. ASSUME NEW g \in Gates, PickGate(g)
            PROVE  \E f \in MmForm : mm' = [mm EXCEPT !.form = f, !.left = mm.left - 1]
        <5>1. [mm.form EXCEPT !.gate = g] \in MmForm
          BY <1>1 DEF MmPage, MmForm
        <5>2. mm' = [mm EXCEPT !.form = [mm.form EXCEPT !.gate = g], !.left = mm.left - 1]
          BY Zenon, <1>1, <4>3 DEF PickGate, MmPage
        <5> QED
          BY Zenon, <5>1, <5>2
      <4> QED
        BY Zenon, <2>1, <4>1, <4>2, <4>3
    <3>2. mm.left - 1 \in Nat
      BY Zenon, <2>1, <1>2 DEF OpenCreate, OpenEdit, PickGate
    <3> QED
      BY <1>1, <3>1, <3>2 DEF MmPage
  <2>2. CASE CloseEditor
    <3>1. PICK no \in BOOLEAN : no = FALSE
      OBVIOUS
    <3>2. mm' = [mm EXCEPT !.form = NoForm, !.saving = no]
      BY <2>2, <3>1 DEF CloseEditor
    <3> QED
      BY <1>1, <3>1, <3>2 DEF MmPage
  <2>3. CASE OutlineMoves
    <3>1. PICK nodes \in {<<1, 2>>, <<2, 1>>, <<2>>} : mm' = [mm EXCEPT !.nodes = nodes, !.left = mm.left - 1]
      BY Zenon, <1>1, <2>3 DEF OutlineMoves, MmPage
    <3>2. nodes \in Seq(MmNodes)
      <4>1. 1 \in MmNodes /\ 2 \in MmNodes
        BY DEF MmNodes
      <4>2. <<1, 2>> \in Seq(MmNodes) /\ <<2, 1>> \in Seq(MmNodes) /\ <<2>> \in Seq(MmNodes)
        BY <4>1
      <4> QED
        BY <4>2
    <3>3. mm.left - 1 \in Nat
      BY Zenon, <2>3, <1>2 DEF OutlineMoves
    <3> QED
      BY <1>1, <3>1, <3>2, <3>3 DEF MmPage
  <2>4. CASE OutlineLoaded
    <3>1. mmServer.nodes \in Seq(MmNodes)
      BY DEF MmTyped, MmStored
    <3>2. mm' = [mm EXCEPT !.nodes = mmServer.nodes]
      BY <2>4 DEF OutlineLoaded
    <3> QED
      BY <1>1, <3>1, <3>2 DEF MmPage
  <2> QED
    BY <2>1, <2>2, <2>3, <2>4
<1> QED
  BY <1>1, <1>3, MmTurns

LEMMA MmOutlineSaved ==
  ASSUME NEW R, MmTyped(R), MemoryBusyIsHonest, OutlineSaved
  PROVE  MmTyped(R)' /\ MemoryBusyIsHonest'
<1>1. mmServer \in MmStored(R) /\ mm.nodes \in Seq(MmNodes) /\ UNCHANGED <<mm, mmKept, mmCalls>>
  BY DEF OutlineSaved, MmTyped, MmPage
<1>2. mmServer' \in MmStored(R)
  BY <1>1 DEF OutlineSaved, MmStored
<1> QED
  BY <1>1, <1>2 DEF MmTyped, MemoryBusyIsHonest, Overtaken

LEMMA MmUploads ==
  ASSUME NEW R, MmTyped(R), MemoryBusyIsHonest, Upload
  PROVE  MmTyped(R)' /\ MemoryBusyIsHonest'
<1>1. mm \in MmPage(R) /\ mm.left - 1 \in Nat
  BY DEF MmTyped, MmPage, Upload
<1>2. PICK yes \in BOOLEAN : yes = TRUE
  OBVIOUS
<1>3. mm' = [mm EXCEPT !.uploading = yes, !.left = mm.left - 1]
  BY <1>2, <1>1 DEF Upload, MmPage
<1>4. /\ mm' \in MmPage(R) /\ mm'.scope = mm.scope /\ mm'.seq = mm.seq
      /\ mm'.loading = mm.loading /\ mm'.saving = mm.saving
  BY <1>1, <1>3 DEF MmPage
<1>5. PICK k : k.kind = "upload" /\ mmCalls' = mmCalls \cup {k}
  BY MmCalled DEF Upload
<1>6. MmTyped(R)'
  BY <1>4, <1>5 DEF MmTyped, Upload
<1>7. MemoryBusyIsHonest'
  BY <1>4, <1>5 DEF MemoryBusyIsHonest, Overtaken
<1> QED
  BY <1>6, <1>7

LEMMA MmUploaded ==
  ASSUME NEW R, MmTyped(R), MemoryBusyIsHonest, NEW c \in mmCalls, UploadAnswered(c)
  PROVE  MmTyped(R)' /\ MemoryBusyIsHonest'
<1>1. mm \in MmPage(R)
  BY DEF MmTyped
<1>2. PICK no \in BOOLEAN : no = FALSE
  OBVIOUS
<1>3. PICK n \in {0, 1} : mm' = [mm EXCEPT !.uploading = FALSE, !.form.pictures = IF mm.form = NoForm THEN 0 ELSE @ + n]
  BY DEF UploadAnswered
<1>4. PICK p \in Nat : p = IF mm.form = NoForm THEN 0 ELSE mm.form.pictures + n
  BY <1>1 DEF MmPage, MmForm
<1>5. [mm.form EXCEPT !.pictures = p] \in MmForm
  BY <1>1 DEF MmPage, MmForm
<1>6. mm' = [mm EXCEPT !.uploading = no, !.form = [mm.form EXCEPT !.pictures = p]]
  BY <1>1, <1>2, <1>3, <1>4 DEF MmPage, MmForm
<1>7. /\ mm' \in MmPage(R) /\ mm'.scope = mm.scope /\ mm'.seq = mm.seq
      /\ mm'.loading = mm.loading /\ mm'.saving = mm.saving /\ ~mm'.uploading
  <2>1. mm' \in MmPage(R) /\ mm'.scope = mm.scope /\ mm'.seq = mm.seq
      /\ mm'.loading = mm.loading /\ mm'.saving = mm.saving /\ mm'.uploading = no
    BY <1>1, <1>5, <1>6 DEF MmPage
  <2> QED
    BY <2>1, <1>2
<1>8. c.kind = "upload" /\ mmCalls' = mmCalls \ {c} /\ UNCHANGED <<mmKept, mmServer>>
  BY DEF UploadAnswered
<1>9. MmTyped(R)'
  BY <1>7, <1>8 DEF MmTyped
<1>10. MemoryBusyIsHonest'
  BY <1>7, <1>8 DEF MemoryBusyIsHonest, Overtaken
<1> QED
  BY <1>9, <1>10

LEMMA SubmittedGates ==
  ASSUME NEW g \in Gates, NEW old \in Gates, NEW nodes \in Seq(MmNodes)
  PROVE  Submitted(g, old, nodes) \in Gates
<1>1. /\ g = [mode |-> g.mode, unlock |-> g.unlock, visible |-> g.visible]
      /\ g.mode \in Modes /\ g.unlock \in Places /\ g.visible \in SUBSET MmNodes
      /\ (g.mode \notin Restricted => g.unlock = 0)
      /\ (g.mode \notin Partial => g.visible = {})
  BY GateTypes
<1> DEFINE u == IF g.unlock \in ToSet(nodes) THEN g.unlock ELSE 0
           v == g.visible \cap ToSet(nodes)
<1>2. /\ u \in Places /\ v \in SUBSET MmNodes
      /\ (g.mode \notin Restricted => u = 0) /\ (g.mode \notin Partial => v = {})
  BY <1>1 DEF Places
<1>3. g.mode # "none" => Submitted(g, old, nodes) = [mode |-> g.mode, unlock |-> u, visible |-> v]
  BY <1>1 DEF Submitted
<1> HIDE DEF u, v
<1>4. CASE g.mode = "none"
  BY <1>4 DEF Submitted
<1>5. CASE g.mode \in {"ignore", "disabled"}
  <2>1. u = 0 /\ v = {}
    BY <1>2, <1>5 DEF Restricted, Partial
  <2>2. Submitted(g, old, nodes) = [NoGate EXCEPT !.mode = g.mode]
    <3>1. [NoGate EXCEPT !.mode = g.mode] = [mode |-> g.mode, unlock |-> 0, visible |-> {}]
      <4> DEFINE h == [NoGate EXCEPT !.mode = g.mode]
      <4>1. h \in Gates /\ h.mode = g.mode
        BY <1>5 DEF Gates, NoGate
      <4>2. /\ h = [mode |-> h.mode, unlock |-> h.unlock, visible |-> h.visible]
            /\ (h.mode \notin Restricted => h.unlock = 0) /\ (h.mode \notin Partial => h.visible = {})
        BY <4>1, GateTypes
      <4>3. h.mode \notin Restricted /\ h.mode \notin Partial
        BY <4>1, <1>5 DEF Restricted, Partial
      <4> HIDE DEF h
      <4>4. h = [mode |-> g.mode, unlock |-> 0, visible |-> {}]
        BY <4>1, <4>2, <4>3
      <4> QED
        BY <4>4 DEF h
    <3>2. g.mode # "none"
      BY <1>5
    <3> QED
      BY <2>1, <3>1, <3>2, <1>3
  <2> QED
    BY <2>2, <1>5 DEF Gates
<1>6. CASE g.mode \in Restricted
  <2>1. v = {} /\ g.mode # "none"
    BY <1>2, <1>6 DEF Restricted, Partial
  <2> QED
    BY <2>1, <1>2, <1>3, <1>6 DEF Gates, Places
<1>7. CASE g.mode \in Partial
  <2>1. u = 0 /\ g.mode # "none"
    BY <1>2, <1>7 DEF Restricted, Partial
  <2> QED
    BY <2>1, <1>2, <1>3, <1>7 DEF Gates
<1> QED
  BY <1>1, <1>4, <1>5, <1>6, <1>7 DEF Modes

LEMMA MmSubmits ==
  ASSUME NEW R, MmTyped(R), MemoryBusyIsHonest, Submit
  PROVE  MmTyped(R)' /\ MemoryBusyIsHonest'
<1> DEFINE f == mm.form
           k == SelectInSeq(mm.items, LAMBDA x : x.id = f.item)
           d == mm.made + (IF f.fresh THEN 1 ELSE 0)
<1>1. mm \in MmPage(R) /\ f \in MmForm /\ f.gate \in Gates /\ f.pinned \in BOOLEAN /\ mm.items \in Seq(MmItem(R)) /\ mm.nodes \in Seq(MmNodes)
      /\ Nat \subseteq R /\ mm.left > 0 /\ (f.fresh \/ k # 0)
  BY Zenon DEF MmTyped, MmPage, MmForm, Submit
<1>2. d \in Nat /\ mm.made + 1 \in Nat
  BY <1>1 DEF MmPage, MmForm
<1>3. PICK yes \in BOOLEAN : yes = TRUE
  OBVIOUS
<1> DEFINE m == [mm EXCEPT !.saving = yes, !.made = d]
<1>4. m = [mm EXCEPT !.saving = TRUE, !.made = @ + (IF f.fresh THEN 1 ELSE 0)]
  BY <1>1, <1>3 DEF MmPage
<1>5. IF f.fresh
       THEN CommitItems(m, <<[Item(mm.made + 1, Submitted(f.gate, NoGate, mm.nodes)) EXCEPT !.pinned = f.pinned]>>
                             \o mm.items)
       ELSE CommitItems(m, [mm.items EXCEPT ![k].rev = @ + 1, ![k].pinned = f.pinned,
                                            ![k].gate = Submitted(f.gate, @, mm.nodes)])
  BY Zenon, <1>4 DEF Submit
<1> HIDE DEF d
<1>6. /\ m \in MmPage(R) /\ m.scope = mm.scope /\ m.seq = mm.seq
      /\ m.loading = mm.loading /\ m.uploading = mm.uploading /\ m.left = mm.left
  BY <1>1, <1>2, <1>3 DEF MmPage
<1> HIDE DEF m
<1>7. CASE f.fresh
  <2> DEFINE g == Submitted(f.gate, NoGate, mm.nodes)
             item == [Item(mm.made + 1, g) EXCEPT !.pinned = f.pinned]
  <2>1. g \in Gates
    BY <1>1, GateTypes, SubmittedGates
  <2> HIDE DEF g
  <2>2. item \in MmItem(R)
    BY <1>1, <1>2, <2>1 DEF Item, MmItem
  <2>3. CommitItems(m, <<item>> \o mm.items)
    BY <1>5, <1>7 DEF g
  <2> HIDE DEF item
  <2>4. <<item>> \o mm.items \in Seq(MmItem(R))
    <3>1. <<item>> \in Seq(MmItem(R))
      BY <2>2
    <3> QED
      BY <3>1, <1>1
  <2> QED
    BY <1>1, <1>6, <2>3, <2>4, MmCommits
<1>8. CASE ~f.fresh
  <2>1. k \in 1..Len(mm.items)
    <3> DEFINE I == {i \in 1..Len(mm.items) : mm.items[i].id = f.item}
    <3>1. k = IF I # {} THEN Min(I) ELSE 0
      BY DEF SelectInSeq
    <3> HIDE DEF k
    <3>2. I # {} /\ I \in SUBSET Nat
      BY <3>1, <1>1, <1>8
    <3> QED
      BY <3>1, <3>2, LeastIsIn
  <2> DEFINE old == mm.items[k]
             r == old.rev + 1
             g == Submitted(f.gate, old.gate, mm.nodes)
             item == [old EXCEPT !.rev = r, !.pinned = f.pinned, !.gate = g]
  <2>2. CommitItems(m, [mm.items EXCEPT ![k].rev = @ + 1, ![k].pinned = f.pinned,
                                        ![k].gate = Submitted(f.gate, @, mm.nodes)])
    BY Zenon, <1>5, <1>8
  <2> HIDE DEF k
  <2>3. old \in MmItem(R) /\ old.gate \in Gates /\ r \in Nat
    <3>1. old \in MmItem(R)
      BY <2>1, <1>1
    <3> HIDE DEF old
    <3> QED
      BY <3>1 DEF MmItem
  <2>4. CommitItems(m, [mm.items EXCEPT ![k] = item])
    BY <2>1, <2>2, <2>3, <1>1 DEF MmItem
  <2>5. g \in Gates
    BY <1>1, <2>3, SubmittedGates
  <2> HIDE DEF r, g, old
  <2>6. item \in MmItem(R)
    BY <1>1, <2>3, <2>5 DEF MmItem
  <2> HIDE DEF item
  <2>7. [mm.items EXCEPT ![k] = item] \in Seq(MmItem(R))
    BY <1>1, <2>1, <2>6, ExceptSeq
  <2> QED
    BY <1>1, <1>6, <2>4, <2>7, MmCommits
<1> QED
  BY <1>7, <1>8

LEMMA MmStep == MmInv /\ [MmNext]_mmVars => MmInv'
<1> SUFFICES ASSUME MmInv, [MmNext]_mmVars PROVE MmInv'
  OBVIOUS
<1>1. PICK R : MmTyped(R)
  BY DEF MmInv
<1>2. MemoryBusyIsHonest
  BY DEF MmInv
<1>3. CASE UNCHANGED mmVars
  <2>1. MmTyped(R)' /\ MemoryBusyIsHonest'
    BY <1>1, <1>2, <1>3 DEF MmTyped, MemoryBusyIsHonest, Overtaken, mmVars
  <2> QED
    BY <2>1 DEF MmInv
<1>4. CASE \E k \in DOMAIN mm.items : Drop(k)
  <2>1. (\E S : MmTyped(S)') /\ MemoryBusyIsHonest'
    BY <1>1, <1>2, <1>4, MmDrops
  <2> QED
    BY <2>1 DEF MmInv
<1>5. CASE MmNext /\ ~(\E k \in DOMAIN mm.items : Drop(k))
  <2>1. MmTyped(R)' /\ MemoryBusyIsHonest'
    BY <1>1, <1>2, <1>5, MmAsksForLoad, MmLoadEnds, MmSaveEnds, MmConflicts, MmOtherDevice, MmTogglePin, MmRemoves,
       MmDrags, MmForms, MmOutlineSaved, MmUploads, MmUploaded, MmSubmits DEF MmNext
  <2> QED
    BY <2>1 DEF MmInv
<1> QED
  BY <1>3, <1>4, <1>5

(* What the versions, the loads and the saves that are out say of the two  *)
(* lists, the page's and the server's.                                     *)
MmLoadsFit ==
  \A c \in mmCalls : c.kind = "load" =>
    /\ c.data.version <= mmServer.version
    /\ c.data.version = mmServer.version => c.data.items = mmServer.items
MmSavesFit == ~mm.apart => \A c \in SavesOut : c.data.items = mm.items /\ SavesOut = {c}
MmTogether ==
  /\ mm.version <= mmServer.version /\ MmLoadsFit /\ MmSavesFit
  /\ ~mm.apart /\ SavesOut = {} /\ mm.version = mmServer.version => mm.items = mmServer.items

(* A step that leaves the lists, the versions and their calls alone.       *)
LEMMA MmAside ==
  ASSUME MmTogether, mm'.items = mm.items, mm'.version = mm.version, mm'.apart = mm.apart,
         mmServer'.items = mmServer.items, mmServer'.version = mmServer.version,
         \A c : c.kind \in {"load", "save"} => (c \in mmCalls' <=> c \in mmCalls)
  PROVE  MmTogether'
<1>1. SavesOut' = SavesOut
  BY DEF SavesOut
<1>2. MmLoadsFit'
  BY DEF MmLoadsFit, MmTogether
<1>3. MmSavesFit'
  BY <1>1 DEF MmSavesFit, MmTogether
<1> QED
  BY <1>1, <1>2, <1>3 DEF MmTogether

LEMMA MmTogetherCommits ==
  ASSUME NEW R, MmTyped(R), MmTogether, NEW m \in MmPage(R), NEW items, CommitItems(m, items),
         m.version = mm.version, m.apart = mm.apart
  PROVE  MmTogether'
<1>1. PICK f : f = IF m.form.item = 0 \/ \E k \in DOMAIN items : items[k].id = m.form.item THEN m.form ELSE NoForm
  OBVIOUS
<1> PICK apart \in BOOLEAN : apart = (mm.apart \/ SavesOut # {})
  OBVIOUS
<1> DEFINE n == WithItems(m, items)
<1>2. /\ n = [m EXCEPT !.items = items, !.form = f]
      /\ mm' = [n EXCEPT !.left = n.left - 1, !.apart = n.apart \/ SavesOut # {}] /\ mmServer' = mmServer
  BY <1>1 DEF CommitItems, WithItems, MmPage
<1> HIDE DEF n
<1>3. mm'.items = items /\ mm'.version = mm.version /\ (mm'.apart <=> apart)
  <2>1. n.items = items /\ n.version = mm.version /\ n.apart = mm.apart
    BY <1>2 DEF MmPage
  <2>2. mm' = [n EXCEPT !.left = n.left - 1, !.apart = apart]
    BY <1>2, <2>1
  <2> QED
    BY <1>2, <2>1, <2>2 DEF MmPage
<1>4. PICK k : k.kind = "save" /\ k.data.items = items /\ mmCalls' = mmCalls \cup {k}
  <2>1. PICK d, k : /\ d = [items |-> items, version |-> mm.version, form |-> m.saving]
                    /\ k = MmCall("save", d) /\ mmCalls' = mmCalls \cup {k}
    BY ZenonT(60) DEF CommitItems
  <2> QED
    BY <2>1, MmCalled
<1>5. SavesOut' = SavesOut \cup {k}
  BY <1>4 DEF SavesOut
<1>6. MmLoadsFit'
  BY <1>2, <1>4 DEF MmLoadsFit, MmTogether
<1>7. MmSavesFit'
  BY <1>3, <1>4, <1>5 DEF MmSavesFit
<1> QED
  BY <1>2, <1>3, <1>5, <1>6, <1>7 DEF MmTogether

LEMMA MmTogetherEdits ==
  ASSUME NEW R, MmTyped(R), MmTogether,
         Submit \/ \E k \in DOMAIN mm.items : TogglePin(k) \/ RemoveItem(k) \/ Drop(k)
  PROVE  MmTogether'
<1>1. mm \in MmPage(R)
  BY DEF MmTyped
<1>2. CASE \E k \in DOMAIN mm.items : TogglePin(k) \/ RemoveItem(k)
  <2>1. PICK items : CommitItems(mm, items)
    BY Zenon, <1>2 DEF TogglePin, RemoveItem, Change
  <2> QED
    BY <1>1, <2>1, MmTogetherCommits
<1>3. CASE \E k \in DOMAIN mm.items : Drop(k)
  <2> DEFINE m == [mm EXCEPT !.drag = 0]
  <2>1. m \in MmPage(R) /\ m.version = mm.version /\ m.apart = mm.apart
    BY <1>1 DEF MmPage
  <2>2. PICK items : CommitItems(m, items)
    BY Zenon, <1>3 DEF Drop
  <2> HIDE DEF m
  <2> QED
    BY <2>1, <2>2, MmTogetherCommits
<1>4. CASE Submit
  <2> DEFINE d == mm.made + (IF mm.form.fresh THEN 1 ELSE 0)
             m == [mm EXCEPT !.saving = TRUE, !.made = d]
  <2>1. d \in Nat
    BY <1>1 DEF MmPage, MmForm
  <2>2. m = [mm EXCEPT !.saving = TRUE, !.made = @ + (IF mm.form.fresh THEN 1 ELSE 0)]
    BY <1>1 DEF MmPage
  <2>3. PICK items : CommitItems(m, items)
    BY Zenon, <2>2, <1>4 DEF Submit
  <2> HIDE DEF d
  <2>4. m \in MmPage(R) /\ m.version = mm.version /\ m.apart = mm.apart
    BY <1>1, <2>1 DEF MmPage
  <2> HIDE DEF m
  <2> QED
    BY <2>3, <2>4, MmTogetherCommits
<1> QED
  BY <1>2, <1>3, <1>4

LEMMA MmTogetherLoads ==
  ASSUME NEW R, MmTyped(R), MmTogether, NEW c \in mmCalls, LoadMemoryAnswered(c) \/ LoadMemoryFails(c)
  PROVE  MmTogether'
<1>1. c.kind = "load" /\ mmCalls' = mmCalls \ {c} /\ mmServer' = mmServer
  BY DEF LoadMemoryAnswered, LoadMemoryFails
<1>2. SavesOut' = SavesOut
  BY <1>1 DEF SavesOut
<1>3. MmLoadsFit'
  BY <1>1 DEF MmLoadsFit, MmTogether
<1>4. CASE LoadMemoryAnswered(c) /\ ~Overtaken(c)
  <2>1. c.data.items \in Seq(MmItem(R)) /\ mm \in MmPage(R)
    BY <1>1 DEF MmTyped, MmLoad
  <2>2. PICK n \in MmPage(R) : n = WithItems(mm, c.data.items) /\ n.items = c.data.items
    BY <2>1, WithItemsTyped
  <2> PICK apart \in BOOLEAN, no \in BOOLEAN : apart = (SavesOut # {}) /\ no = FALSE
    OBVIOUS
  <2>3. mm' = [n EXCEPT !.version = c.data.version, !.loading = no, !.apart = apart]
    BY <1>4, <2>2 DEF LoadMemoryAnswered
  <2>4. mm'.items = c.data.items /\ mm'.version = c.data.version /\ (mm'.apart <=> SavesOut # {})
    BY <2>2, <2>3 DEF MmPage
  <2>5. c.data.version <= mmServer.version /\ (c.data.version = mmServer.version => c.data.items = mmServer.items)
    BY <1>1 DEF MmTogether, MmLoadsFit
  <2>6. MmSavesFit'
    BY <1>2, <2>4 DEF MmSavesFit
  <2> QED
    BY <1>1, <1>2, <1>3, <2>4, <2>5, <2>6 DEF MmTogether
<1>5. CASE LoadMemoryFails(c) /\ ~Overtaken(c)
  <2>1. PICK n \in MmPage(R) : n = WithItems(mm, mmKept) /\ n.version = mm.version
    BY WithItemsTyped DEF MmTyped
  <2> PICK yes \in BOOLEAN, no \in BOOLEAN : yes = TRUE /\ no = FALSE
    OBVIOUS
  <2>2. mm' = [n EXCEPT !.loading = no, !.apart = yes, !.left = n.left - 1]
    BY <1>5, <2>1 DEF LoadMemoryFails, MmPage
  <2>3. mm'.version = mm.version /\ mm'.apart
    BY <2>1, <2>2 DEF MmPage
  <2> QED
    BY <1>1, <1>3, <2>3 DEF MmTogether, MmSavesFit
<1>6. CASE Overtaken(c)
  <2>1. mm'.items = mm.items /\ mm'.version = mm.version /\ mm'.apart = mm.apart
    BY <1>6 DEF LoadMemoryAnswered, LoadMemoryFails, MmTyped, MmPage
  <2>2. MmSavesFit'
    BY <1>2, <2>1 DEF MmSavesFit, MmTogether
  <2> QED
    BY <1>1, <1>2, <1>3, <2>1, <2>2 DEF MmTogether
<1> QED
  BY <1>4, <1>5, <1>6

LEMMA MmFormDoneKeeps ==
  ASSUME NEW R, NEW m \in MmPage(R), NEW c
  PROVE  LET n == FormDone(m, c)
         IN /\ n.items = m.items /\ n.version = m.version /\ n.apart = m.apart
            /\ DOMAIN n = DOMAIN m
  BY DEF FormDone, MmPage

LEMMA MmTogetherSaves ==
  ASSUME NEW R, MmTyped(R), MmTogether, NEW c \in mmCalls,
         SaveMemoryAnswered(c) \/ SaveMemoryConflicts(c) \/ SaveMemoryFails(c)
  PROVE  MmTogether'
<1>1. c.kind = "save" /\ c \in SavesOut /\ mmServer.version \in Nat /\ mm.version \in Nat /\ mm \in MmPage(R)
      /\ mmServer \in MmStored(R)
  BY DEF SaveMemoryAnswered, SaveMemoryConflicts, SaveMemoryFails, SavesOut, MmTyped, MmPage, MmStored
<1>2. Overwritten(c).items = c.data.items /\ Overwritten(c).version = mmServer.version + 1
  BY <1>1 DEF Overwritten, MmStored
<1>3. PICK n : n = FormDone(mm, c) /\ n.items = mm.items /\ n.version = mm.version /\ n.apart = mm.apart /\ DOMAIN n = DOMAIN mm
  BY <1>1, MmFormDoneKeeps
<1>4. \A l \in mmCalls : l.kind = "load" => l.data.version \in Nat
  BY DEF MmTyped, MmLoad
<1>5. CASE SaveMemoryAnswered(c)
  <2>1. mm' = [n EXCEPT !.version = mmServer.version + 1] /\ mmServer' = Overwritten(c) /\ mmCalls' = mmCalls \ {c}
    BY <1>3, <1>5 DEF SaveMemoryAnswered
  <2>2. mm'.items = mm.items /\ mm'.version = mmServer.version + 1 /\ mm'.apart = mm.apart
    BY <1>1, <1>3, <2>1 DEF MmPage
  <2>3. SavesOut' = SavesOut \ {c}
    BY <2>1 DEF SavesOut
  <2>4. MmLoadsFit'
    BY <1>1, <1>2, <1>4, <2>1 DEF MmLoadsFit, MmTogether
  <2>5. MmSavesFit' /\ (~mm.apart => c.data.items = mm.items)
    BY <1>1, <2>2, <2>3 DEF MmSavesFit, MmTogether
  <2> QED
    BY <1>1, <1>2, <2>1, <2>2, <2>4, <2>5 DEF MmTogether
<1>6. CASE SaveMemoryConflicts(c)
  <2>1. PICK k : k = LoadCall(mm) /\ mmCalls' = (mmCalls \ {c}) \cup {k} /\ mmServer' = mmServer
    BY <1>6 DEF SaveMemoryConflicts
  <2>2. k.kind = "load" /\ k.data.items = mmServer.items /\ k.data.version = mmServer.version
    BY <2>1, MmCalled DEF LoadCall
  <2>3. mm' = [n EXCEPT !.seq = @ + 1, !.loading = TRUE, !.apart = TRUE]
    BY <1>3, <1>6 DEF SaveMemoryConflicts, Loading
  <2>4. mm'.version = mm.version /\ mm'.apart
    BY <1>1, <1>3, <2>3 DEF MmPage
  <2>5. MmLoadsFit'
    BY <1>1, <2>1, <2>2 DEF MmLoadsFit, MmTogether
  <2> QED
    BY <2>1, <2>4, <2>5 DEF MmTogether, MmSavesFit
<1>7. CASE SaveMemoryFails(c)
  <2>1. mm' = [n EXCEPT !.left = @ - 1, !.apart = TRUE] /\ mmCalls' = mmCalls \ {c}
    BY <1>3, <1>7 DEF SaveMemoryFails
  <2>2. mm'.version = mm.version /\ mm'.apart
    BY <1>1, <1>3, <2>1 DEF MmPage
  <2>3. mmServer' = mmServer \/ mmServer' = Overwritten(c)
    BY <1>7 DEF SaveMemoryFails
  <2>4. MmLoadsFit'
    BY <1>1, <1>2, <1>4, <2>1, <2>3 DEF MmLoadsFit, MmTogether
  <2>5. mm'.version <= mmServer'.version
    BY <1>1, <1>2, <2>2, <2>3 DEF MmTogether
  <2> QED
    BY <2>2, <2>4, <2>5 DEF MmTogether, MmSavesFit
<1> QED
  BY <1>5, <1>6, <1>7

LEMMA MmTogetherAsks ==
  ASSUME NEW R, MmTyped(R), MmTogether, LoadMemory
  PROVE  MmTogether'
<1>1. PICK k : k = LoadCall(mm) /\ mmCalls' = mmCalls \cup {k} /\ mmServer' = mmServer
  BY DEF LoadMemory
<1>2. k.kind = "load" /\ k.data.items = mmServer.items /\ k.data.version = mmServer.version
  BY <1>1, MmCalled DEF LoadCall
<1>3. mm'.items = mm.items /\ mm'.version = mm.version /\ mm'.apart = mm.apart
  BY DEF LoadMemory, Loading, MmTyped, MmPage
<1>4. SavesOut' = SavesOut
  BY <1>1, <1>2 DEF SavesOut
<1>5. MmLoadsFit'
  <2>1. mmServer.version \in Nat
    BY DEF MmTyped, MmStored
  <2> QED
    BY <1>1, <1>2, <2>1 DEF MmLoadsFit, MmTogether
<1>6. MmSavesFit'
  BY <1>3, <1>4 DEF MmSavesFit, MmTogether
<1> QED
  BY <1>1, <1>3, <1>4, <1>5, <1>6 DEF MmTogether

LEMMA MmTogetherElsewhere ==
  ASSUME NEW R, MmTyped(R), MmTogether, OtherDevice
  PROVE  MmTogether'
<1>1. mmServer.version \in Nat /\ mm.version \in Nat /\ \A l \in mmCalls : l.kind = "load" => l.data.version \in Nat
  BY DEF MmTyped, MmPage, MmLoad, MmStored
<1>2. mmCalls' = mmCalls /\ mmServer'.version = mmServer.version + 1
  BY DEF OtherDevice, MmTyped, MmStored
<1>3. mm'.items = mm.items /\ mm'.version = mm.version /\ mm'.apart = mm.apart
  BY DEF OtherDevice, MmTyped, MmPage
<1>4. SavesOut' = SavesOut
  BY <1>2 DEF SavesOut
<1>5. MmLoadsFit'
  BY <1>1, <1>2 DEF MmLoadsFit, MmTogether
<1>6. MmSavesFit'
  BY <1>3, <1>4 DEF MmSavesFit, MmTogether
<1> QED
  BY <1>1, <1>2, <1>3, <1>5, <1>6 DEF MmTogether

(* What moves on the page alone, the pictures, and the outline.            *)
LEMMA MmTogetherStays ==
  ASSUME NEW R, MmTyped(R), MemoryBusyIsHonest, MmTogether,
         \/ DragEnd \/ OpenCreate \/ CloseEditor \/ OutlineMoves \/ OutlineSaved \/ OutlineLoaded
         \/ \E k \in DOMAIN mm.items : DragStart(k) \/ OpenEdit(k)
         \/ \E g \in Gates : PickGate(g)
  PROVE  MmTogether'
<1> DEFINE Rests == /\ mm'.items = mm.items /\ mm'.version = mm.version /\ mm'.apart = mm.apart
                   /\ mmServer'.items = mmServer.items /\ mmServer'.version = mmServer.version /\ mmCalls' = mmCalls
<1>1. CASE DragEnd \/ \E k \in DOMAIN mm.items : DragStart(k)
  <2>1. Rests
    BY <1>1 DEF DragEnd, DragStart, MmTyped, MmPage
  <2> QED
    BY <2>1, MmAside
<1>2. CASE OutlineSaved
  <2>1. Rests
    BY <1>2 DEF OutlineSaved, MmTyped, MmStored
  <2> QED
    BY <2>1, MmAside
<1>3. CASE \/ OpenCreate \/ CloseEditor \/ OutlineMoves \/ OutlineLoaded
           \/ \E k \in DOMAIN mm.items : OpenEdit(k)
           \/ \E g \in Gates : PickGate(g)
  BY <1>3, MmForms, MmAside
<1> QED
  BY <1>1, <1>2, <1>3

LEMMA MmTogetherUploads ==
  ASSUME NEW R, MmTyped(R), MmTogether, Upload \/ \E c \in mmCalls : UploadAnswered(c)
  PROVE  MmTogether'
<1>1. mm'.items = mm.items /\ mm'.version = mm.version /\ mm'.apart = mm.apart /\ mmServer' = mmServer
  BY DEF Upload, UploadAnswered, MmTyped, MmPage
<1>2. \A c : c.kind \in {"load", "save"} => (c \in mmCalls' <=> c \in mmCalls)
  <2>1. CASE Upload
    <3>1. PICK k : k.kind = "upload" /\ mmCalls' = mmCalls \cup {k}
      BY Zenon, <2>1, MmCalled DEF Upload
    <3> QED
      BY <3>1
  <2>2. CASE \E c \in mmCalls : UploadAnswered(c)
    BY <2>2 DEF UploadAnswered
  <2> QED
    BY <2>1, <2>2
<1> QED
  BY <1>1, <1>2, MmAside

LEMMA MmStaysTogether == MmInv /\ MmTogether /\ [MmNext]_mmVars => MmTogether'
<1> SUFFICES ASSUME MmInv, MmTogether, [MmNext]_mmVars PROVE MmTogether'
  OBVIOUS
<1>0. MemoryBusyIsHonest
  BY DEF MmInv
<1>1. PICK R : MmTyped(R)
  BY DEF MmInv
<1>2. CASE UNCHANGED mmVars
  BY <1>2, MmAside DEF mmVars
<1>3. CASE MmNext
  BY <1>0, <1>1, <1>3, MmTogetherAsks, MmTogetherLoads, MmTogetherSaves, MmTogetherElsewhere, MmTogetherEdits,
     MmTogetherStays, MmTogetherUploads DEF MmNext
<1> QED
  BY <1>2, <1>3

(* What the server keeps behind a hard gate is read only at the places     *)
(* that its gate names, whatever the page shows or saves; and a page in    *)
(* step with the server says of each item at each place of the outline     *)
(* what the server gives the AI of it (memory-access, agent_context).      *)
THEOREM GatesAgreeAndFailClosed ==
  ASSUME MmBounds
  PROVE  MmSpec => []GatesFailClosed
<1>1. MmInit => MmInv /\ MmTogether
  <2>1. MmInit => MmTogether
    <3>1. MmInit => mm.version = 0 /\ mmServer.version = 1 /\ mmCalls = {}
      BY DEF MmInit, Unknown
    <3> QED
      BY <3>1 DEF MmTogether, MmLoadsFit, MmSavesFit, SavesOut
  <2> QED
    BY <2>1, MmBegun
<1>2. MmInv /\ MmTogether /\ [MmNext]_mmVars => (MmInv /\ MmTogether)'
  BY MmStep, MmStaysTogether
<1>3. MmInv /\ MmTogether => GatesFailClosed
  <2> SUFFICES ASSUME MmInv, MmTogether PROVE GatesFailClosed
    OBVIOUS
  <2>1. PICK R : MmTyped(R)
    BY DEF MmInv
  <2>2. mmServer.nodes \in Seq(MmNodes) /\ \A k \in DOMAIN mmServer.items : mmServer.items[k].gate \in Gates
    <3>1. mmServer.items \in Seq(MmItem(R)) /\ mmServer.nodes \in Seq(MmNodes)
      BY <2>1 DEF MmTyped, MmStored
    <3>2. \A k \in DOMAIN mmServer.items : mmServer.items[k] \in MmItem(R)
      BY <3>1
    <3> QED
      BY <3>1, <3>2 DEF MmItem
  <2>3. MmNodes \cup {0} = Places
    BY DEF Places
  <2>4. InStep => mm.items = mmServer.items /\ mm.nodes = mmServer.nodes
    BY DEF InStep, MmTogether
  <2> QED
    BY <2>2, <2>3, <2>4, GatesAgree DEF GatesFailClosed
<1> QED
  BY <1>1, <1>2, <1>3, PTL DEF MmSpec

(* The memory panel's spinner and buttons wait for an answer that is still *)
(* to come, however loads overtake each other and saves fail or conflict   *)
(* (memory-store, MemoryEditorModal).                                      *)
THEOREM MemoryWaitsForAnAnswer ==
  ASSUME MmBounds
  PROVE  MmSpec => []MemoryBusyIsHonest
<1>1. MmInit => MmInv
  BY MmBegun
<1>2. MmInv /\ [MmNext]_mmVars => MmInv'
  BY MmStep
<1>3. MmInv => MemoryBusyIsHonest
  BY DEF MmInv
<1> QED
  BY <1>1, <1>2, <1>3, PTL DEF MmSpec

-----------------------------------------------------------------------------
(* The story workflow (StoryPanel)                                         *)
StBounds == StMaxEvents \in Nat
StJob == [stage : Nat, status : {"none", "pending", "running", "done", "failed"}, adopted : Seq(Nat),
          keys : Nat, content : Nat]
StJobs == [StNovels -> StJob]
StDrafts == [StScopes -> [field : Nat, idea : Nat]]
StPage == [novel : StScopes, field : Nat, idea : Nat, known : [StNovels -> Nat], draftTimer : BOOLEAN,
           saveTimer : BOOLEAN, guarded : BOOLEAN, filling : BOOLEAN, active : StScopes, job : StJob,
           generating : BOOLEAN, adopting : BOOLEAN, rev : Nat, left : Nat]
StStored == [field : [StNovels -> Nat], made : SUBSET StNovels, written : Seq(StNovels \X Nat), job : StJobs]

(* a call about a job: the row it has read records no key twice            *)
StAsks == {"generate", "advance", "stage", "adopt", "unheard"}
StJobCall(c) ==
  /\ c \in [id : {c.id}, kind : StAsks, novel : StNovels, data : Nat, row : StJob, locked : BOOLEAN]
  /\ IsInjective(c.row.adopted)
StCalled(c) ==
  /\ c.kind \in {"save", "create"} => c.novel \in StScopes /\ c.field \in Nat /\ c.idea \in Nat
  /\ c.kind \in StAsks => StJobCall(c)

StTyped ==
  /\ StBounds /\ st \in StPage /\ stKept \in StDrafts /\ stServer \in StStored
  /\ \A c \in stCalls : StCalled(c)
StInv == StTyped /\ OverviewIsKept /\ KeysAreDistinct

LEMMA StBegun == StBounds /\ StInit => StInv
<1> SUFFICES ASSUME StBounds, StInit PROVE StInv
  OBVIOUS
<1>1. NoJob \in StJob /\ NewJob \in StJob /\ NoJob.adopted = <<>> /\ NewJob.adopted = <<>>
  <2>1. NoJob = [stage |-> 0, status |-> "none", adopted |-> <<>>, keys |-> 0, content |-> 0] /\ <<>> \in Seq(Nat)
    BY DEF NoJob
  <2>2. NoJob \in StJob /\ NoJob.adopted = <<>>
    BY <2>1 DEF StJob
  <2>3. NewJob \in StJob /\ NewJob.adopted = NoJob.adopted
    BY <2>2 DEF NewJob, StJob
  <2> QED
    BY <2>2, <2>3
<1> DEFINE begun == [NewJob EXCEPT !.stage = 4, !.content = 1]
<1>2. begun \in StJob /\ begun.adopted = <<>>
  BY <1>1 DEF StJob
<1>3. PICK no \in BOOLEAN : no = FALSE
  OBVIOUS
<1>4. PICK n \in {1, New} :
    /\ st = [novel |-> n, field |-> IF n = New THEN 1 ELSE 0, idea |-> IF n = New THEN 2 ELSE 0,
             known |-> [m \in StNovels |-> 0],
             draftTimer |-> no, saveTimer |-> no, guarded |-> no, filling |-> no,
             active |-> n, job |-> IF n = New THEN NoJob ELSE begun,
             generating |-> no, adopting |-> no, rev |-> 2, left |-> StMaxEvents]
    /\ stKept = [m \in StScopes |-> IF m = New THEN [field |-> 1, idea |-> 2] ELSE NoDraft]
    /\ stServer = [field |-> [m \in StNovels |-> 0], made |-> {1}, written |-> <<>>,
                   job |-> [m \in StNovels |-> IF m = 1 THEN begun ELSE NoJob]]
    /\ stCalls = {}
  BY <1>3 DEF StInit
<1> HIDE DEF begun
<1>5. st \in StPage
  BY <1>1, <1>2, <1>4 DEF StPage, StScopes, StNovels, New, StBounds
<1>6. stKept \in StDrafts
  BY <1>4 DEF StDrafts, NoDraft
<1>7. stServer \in StStored
  BY <1>1, <1>2, <1>4 DEF StStored, StNovels, StJobs
<1>8. OverviewIsKept
  BY <1>4 DEF OverviewIsKept, New, StNovels
<1>9. KeysAreDistinct
  BY <1>1, <1>2, <1>4 DEF KeysAreDistinct, IsInjective
<1> QED
  BY <1>4, <1>5, <1>6, <1>7, <1>8, <1>9 DEF StInv, StTyped

(* A step that is of the form alone, or of calls that are asked or end.    *)
LEMMA StGoes ==
  ASSUME StInv, st' \in StPage, stKept' \in StDrafts, stServer' = stServer,
         \A c \in stCalls' : c \in stCalls \/ StCalled(c), OverviewIsKept'
  PROVE  StInv'
<1>1. StTyped'
  BY DEF StInv, StTyped, StCalled, StJobCall
<1>2. KeysAreDistinct'
  BY DEF StInv, KeysAreDistinct
<1> QED
  BY <1>1, <1>2 DEF StInv

LEMMA StStays ==
  ASSUME StInv, stKept' = stKept, st'.novel = st.novel, st'.field = st.field, st'.known = st.known,
         st'.draftTimer = st.draftTimer
  PROVE  OverviewIsKept'
  BY DEF StInv, OverviewIsKept

LEMMA StTypes ==
  ASSUME StInv, TypeField \/ TypeIdea
  PROVE  StInv'
<1>1. st \in StPage
  BY DEF StInv, StTyped
<1>2. PICK yes \in BOOLEAN : yes = TRUE
  OBVIOUS
<1>3. PICK r \in Nat, l \in Nat : r = st.rev + 1 /\ l = st.left - 1
  BY <1>1 DEF TypeField, TypeIdea, StPage, StLeft
<1>4. PICK save \in BOOLEAN : save = (st.novel # New)
  OBVIOUS
<1>5. \/ st' = [st EXCEPT !.field = r, !.rev = r, !.draftTimer = yes, !.saveTimer = save, !.left = l]
      \/ st' = [st EXCEPT !.idea = r, !.rev = r, !.draftTimer = yes, !.left = l]
  BY <1>1, <1>2, <1>3, <1>4 DEF TypeField, TypeIdea, StPage
<1>6. st' \in StPage /\ st'.draftTimer = yes
  BY ZenonT(60), <1>1, <1>3, <1>4, <1>5 DEF StPage
<1>7. OverviewIsKept'
  BY <1>2, <1>6 DEF OverviewIsKept
<1> QED
  BY <1>6, <1>7, StGoes DEF TypeField, TypeIdea, StInv, StTyped

LEMMA StKeepsDraft ==
  ASSUME StInv, KeepDraft
  PROVE  StInv'
<1>1. st \in StPage /\ stKept \in StDrafts
  BY DEF StInv, StTyped
<1>2. PICK no \in BOOLEAN : no = FALSE
  OBVIOUS
<1>3. st' = [st EXCEPT !.draftTimer = no]
  BY <1>2 DEF KeepDraft
<1>4. st' \in StPage /\ st'.novel = st.novel /\ st'.field = st.field /\ st'.known = st.known
  BY <1>1, <1>3 DEF StPage
<1>5. stKept' = [stKept EXCEPT ![st.novel] = [field |-> IF st.field = Known(st) THEN 0 ELSE st.field, idea |-> st.idea]]
  BY DEF KeepDraft
<1>6. stKept' \in StDrafts /\ stKept'[st.novel].field = IF st.field = Known(st) THEN 0 ELSE st.field
  <2>1. [field |-> IF st.field = Known(st) THEN 0 ELSE st.field, idea |-> st.idea] \in [field : Nat, idea : Nat]
    BY <1>1 DEF StPage
  <2>2. st.novel \in StScopes
    BY <1>1 DEF StPage
  <2> QED
    BY <1>1, <1>5, <2>1, <2>2 DEF StDrafts
<1>7. OverviewIsKept'
  BY <1>4, <1>6 DEF OverviewIsKept, Known
<1> QED
  BY <1>4, <1>6, <1>7, StGoes DEF KeepDraft

LEMMA StShows ==
  ASSUME StInv, NEW n \in StScopes, ShowNovel(n)
  PROVE  StInv'
<1>1. st \in StPage /\ stKept \in StDrafts /\ st.left - 1 \in Nat
  BY DEF StInv, StTyped, ShowNovel, StLeft, StPage
<1>2. PICK yes \in BOOLEAN : yes = TRUE
  OBVIOUS
<1>3. PICK save \in BOOLEAN : save = (n # New /\ stKept[n].field \notin {0, st.known[n]})
  OBVIOUS
<1>4. PICK idea \in Nat, field \in Nat :
        idea = stKept[n].idea /\ field = IF stKept[n].field # 0 THEN stKept[n].field ELSE IF n = New THEN 0 ELSE st.known[n]
  BY <1>1 DEF StDrafts, StPage, StScopes
<1>5. st' = [[st EXCEPT !.novel = n, !.idea = idea, !.field = field, !.draftTimer = yes, !.saveTimer = save] EXCEPT !.left = @ - 1]
  BY <1>2, <1>3, <1>4 DEF ShowNovel, Prefilled
<1>6. st' \in StPage /\ st'.draftTimer = yes
  BY <1>1, <1>5 DEF StPage
<1>7. OverviewIsKept'
  BY <1>2, <1>6 DEF OverviewIsKept
<1> QED
  BY <1>1, <1>6, <1>7, StGoes DEF ShowNovel

(* Saves, their answers, and the AI that fills the form.                   *)
LEMMA StSaves ==
  ASSUME StInv, AutoSaveOverview \/ (\E c \in stCalls : SaveOverviewFails(c))
  PROVE  StInv'
<1>1. st \in StPage /\ stKept \in StDrafts
  BY DEF StInv, StTyped
<1>2. PICK no \in BOOLEAN, yes \in BOOLEAN : no = FALSE /\ yes = TRUE
  OBVIOUS
<1>3. /\ st' \in StPage /\ st'.novel = st.novel /\ st'.field = st.field /\ st'.known = st.known
      /\ st'.draftTimer = st.draftTimer
  <2>1. CASE AutoSaveOverview
    <3>1. st' = [st EXCEPT !.saveTimer = no, !.guarded = yes]
      BY <1>2, <2>1 DEF AutoSaveOverview
    <3> QED
      BY <1>1, <3>1 DEF StPage
  <2>2. CASE \E c \in stCalls : SaveOverviewFails(c)
    <3>1. st.left - 1 \in Nat /\ st' = [st EXCEPT !.left = st.left - 1]
      BY <1>1, <2>2 DEF SaveOverviewFails, StLeft, StPage
    <3> QED
      BY <1>1, <3>1 DEF StPage
  <2> QED
    BY <2>1, <2>2
<1>4. OverviewIsKept'
  BY <1>3, StStays DEF AutoSaveOverview, SaveOverviewFails
<1>5. \A c \in stCalls' : c \in stCalls \/ StCalled(c)
  BY <1>1 DEF AutoSaveOverview, SaveOverviewFails, StCalled, StPage, StAsks
<1> QED
  BY <1>1, <1>3, <1>4, <1>5, StGoes DEF AutoSaveOverview, SaveOverviewFails

(* What is stored of a novel replaces what the page knows of it; of the    *)
(* novel shown, the draft is to be kept again.                             *)
LEMMA StoredTyped ==
  ASSUME NEW s \in StPage, NEW n \in StScopes, NEW v \in Nat
  PROVE  LET t == Stored(s, n, v)
         IN /\ t \in StPage /\ t.novel = s.novel
            /\ (s.novel = n => t.draftTimer)
            /\ (s.novel # n => t.field = s.field /\ t.draftTimer = s.draftTimer)
            /\ (s.novel \notin {n, New} => t.known[s.novel] = s.known[s.novel])
<1>1. PICK yes \in BOOLEAN : yes = TRUE
  OBVIOUS
<1> DEFINE s1 == [s EXCEPT !.known[n] = v]
<1>2. s1 = [s EXCEPT !.known = [s.known EXCEPT ![n] = v]]
  BY DEF StPage
<1>3. [s.known EXCEPT ![n] = v] \in [StNovels -> Nat] /\ (s.novel \notin {n, New} => [s.known EXCEPT ![n] = v][s.novel] = s.known[s.novel])
  BY DEF StPage, StScopes
<1>4. /\ s1 \in StPage /\ s1.novel = s.novel /\ s1.field = s.field /\ s1.draftTimer = s.draftTimer
      /\ (s.novel \notin {n, New} => s1.known[s.novel] = s.known[s.novel])
  BY <1>2, <1>3 DEF StPage
<1>5. PICK save \in BOOLEAN, field \in Nat :
        save = (s.guarded /\ s.field # v) /\ field = IF s.guarded \/ s.known[n] = v THEN s1.field ELSE v
  BY <1>4 DEF StPage
<1>6. Stored(s, n, v) = IF s.novel # n THEN s1 ELSE [s1 EXCEPT !.draftTimer = yes, !.field = field, !.saveTimer = save]
  BY <1>1, <1>4, <1>5 DEF Stored, StPage
<1> HIDE DEF s1
<1>7. CASE s.novel # n
  BY <1>4, <1>6, <1>7
<1>8. CASE s.novel = n
  BY ZenonT(60), <1>1, <1>4, <1>5, <1>6, <1>8 DEF StPage
<1> QED
  BY <1>7, <1>8

LEMMA StSaved ==
  ASSUME StInv, NEW c \in stCalls, SaveOverviewAnswered(c)
  PROVE  StInv'
<1>1. st \in StPage /\ stKept \in StDrafts /\ stServer \in StStored /\ KeysAreDistinct
  BY DEF StInv, StTyped
<1>2. c.kind = "save" /\ c.novel \in StScopes /\ c.field \in Nat /\ c.idea \in Nat
  BY DEF StInv, StTyped, StCalled, SaveOverviewAnswered
<1>3. PICK t \in StPage :
        /\ t = Stored(st, c.novel, c.field) /\ t.novel = st.novel
        /\ (st.novel = c.novel => t.draftTimer)
        /\ (st.novel # c.novel => t.field = st.field /\ t.draftTimer = st.draftTimer)
        /\ (st.novel \notin {c.novel, New} => t.known[st.novel] = st.known[st.novel])
  BY <1>1, <1>2, StoredTyped
<1>4. st' = t
  BY <1>3 DEF SaveOverviewAnswered
<1>5. stKept' = [stKept EXCEPT ![c.novel] = [field |-> 0, idea |-> c.idea]]
  BY DEF SaveOverviewAnswered
<1>6. stKept' \in StDrafts /\ (st.novel # c.novel => stKept'[st.novel] = stKept[st.novel])
  BY <1>1, <1>2, <1>5 DEF StDrafts, StPage
<1>7. OverviewIsKept'
  BY <1>3, <1>4, <1>6 DEF StInv, OverviewIsKept
<1>8. stServer' = [stServer EXCEPT !.field = [stServer.field EXCEPT ![c.novel] = c.field]]
  BY <1>1 DEF SaveOverviewAnswered, StStored
<1>9. stServer' \in StStored /\ stServer'.job = stServer.job
  BY <1>1, <1>2, <1>8 DEF StStored
<1>10. KeysAreDistinct'
  BY <1>1, <1>9 DEF KeysAreDistinct
<1>11. \A d \in stCalls' : d \in stCalls \/ StCalled(d)
  BY DEF SaveOverviewAnswered, StCalled, StAsks
<1>12. StTyped'
  BY <1>4, <1>6, <1>9, <1>11 DEF StInv, StTyped, StCalled, StJobCall
<1> QED
  BY <1>7, <1>10, <1>12 DEF StInv

LEMMA StFills ==
  ASSUME StInv, Fill \/ Create \/ (\E c \in stCalls : LowerGuard(c) \/ FillAnswered(c) \/ CreateFails(c))
  PROVE  StInv'
<1>1. st \in StPage /\ stKept \in StDrafts
  BY DEF StInv, StTyped
<1>2. PICK no \in BOOLEAN, yes \in BOOLEAN : no = FALSE /\ yes = TRUE
  OBVIOUS
<1>3. stKept' = stKept /\ stServer' = stServer
  BY DEF Fill, Create, LowerGuard, FillAnswered, CreateFails
<1>4. \A c \in stCalls' : c \in stCalls \/ StCalled(c)
  BY <1>1 DEF Fill, Create, LowerGuard, FillAnswered, CreateFails, Answered, StCalled, StAsks, StPage
<1>5. st' \in StPage /\ OverviewIsKept'
  <2>1. ASSUME NEW l \in Nat, NEW g \in BOOLEAN, NEW f \in BOOLEAN, st' = [st EXCEPT !.guarded = g, !.filling = f, !.left = l]
        PROVE  st' \in StPage /\ OverviewIsKept'
    <3>1. /\ st' \in StPage /\ st'.novel = st.novel /\ st'.field = st.field /\ st'.known = st.known
          /\ st'.draftTimer = st.draftTimer
      BY <1>1, <2>1 DEF StPage
    <3> QED
      BY <3>1, <1>3, StStays
  <2>2. CASE Fill
    <3>1. st' = [st EXCEPT !.guarded = st.guarded, !.filling = yes, !.left = st.left - 1]
      BY <1>1, <1>2, <2>2 DEF Fill, StPage
    <3>2. st.left - 1 \in Nat
      BY <1>1, <2>2 DEF Fill, StLeft, StPage
    <3> QED
      BY Zenon, <3>1, <3>2, <2>1, <1>1, <1>2 DEF StPage
  <2>3. CASE Create \/ \E c \in stCalls : CreateFails(c)
    <3>1. st' = [st EXCEPT !.guarded = st.guarded, !.filling = st.filling, !.left = st.left - 1]
      BY <1>1, <2>3 DEF Create, CreateFails, StPage
    <3>2. st.left - 1 \in Nat
      BY <1>1, <2>3 DEF Create, CreateFails, StLeft, StPage
    <3> QED
      BY Zenon, <3>1, <3>2, <2>1, <1>1 DEF StPage
  <2>4. CASE \E c \in stCalls : LowerGuard(c)
    <3>1. st' = [st EXCEPT !.guarded = no, !.filling = st.filling, !.left = st.left]
      BY <1>1, <1>2, <2>4 DEF LowerGuard, StPage
    <3> QED
      BY Zenon, <3>1, <2>1, <1>1 DEF StPage
  <2>5. CASE \E c \in stCalls : FillAnswered(c)
    <3>1. CASE StLeft /\ st' = [st EXCEPT !.filling = FALSE, !.left = @ - 1]
      <4>1. st' = [st EXCEPT !.guarded = st.guarded, !.filling = no, !.left = st.left - 1]
        BY <1>1, <1>2, <3>1 DEF StPage
      <4>2. st.left - 1 \in Nat
        BY <1>1, <3>1 DEF StLeft, StPage
      <4> QED
        BY Zenon, <4>1, <4>2, <2>1, <1>1 DEF StPage
    <3>2. CASE st' = [st EXCEPT !.field = st.rev + 1, !.rev = @ + 1, !.draftTimer = TRUE,
                                !.saveTimer = (st.novel # New), !.filling = FALSE]
      <4>1. PICK r \in Nat : r = st.rev + 1
        BY <1>1 DEF StPage
      <4> DEFINE save == st.novel # New
      <4> save \in BOOLEAN
        OBVIOUS
      <4>2. st' = [st EXCEPT !.field = r, !.rev = r, !.draftTimer = yes, !.saveTimer = save, !.filling = no]
        BY <1>1, <1>2, <3>2, <4>1 DEF StPage
      <4>3. st' \in StPage /\ st'.draftTimer = yes
        BY ZenonT(60), <1>1, <4>2 DEF StPage
      <4> QED
        BY <1>2, <4>3 DEF OverviewIsKept
    <3> QED
      BY <2>5, <3>1, <3>2 DEF FillAnswered
  <2> QED
    BY <2>2, <2>3, <2>4, <2>5
<1> QED
  BY <1>1, <1>3, <1>4, <1>5, StGoes

(* The rows of the jobs.                                                   *)
LEMMA OneMoreKey ==
  ASSUME NEW s \in Seq(Nat), IsInjective(s), NEW x \in Nat, x \notin ToSet(s)
  PROVE  Append(s, x) \in Seq(Nat) /\ IsInjective(Append(s, x))
<1>1. Append(s, x) \in Seq(Nat) /\ DOMAIN Append(s, x) = 1..Len(s)+1 /\ DOMAIN s = 1..Len(s) /\ Len(s) \in Nat
  OBVIOUS
<1>2. \A i \in 1..Len(s) : Append(s, x)[i] = s[i] /\ s[i] # x
  BY DEF ToSet
<1>3. Append(s, x)[Len(s)+1] = x
  OBVIOUS
<1>4. \A i \in 1..Len(s)+1 : i \in 1..Len(s) \/ i = Len(s)+1
  BY <1>1
<1> QED
  BY <1>1, <1>2, <1>3, <1>4 DEF IsInjective

LEMMA StRows ==
  ASSUME NEW row \in StJob, IsInjective(row.adopted)
  PROVE  /\ StageDone(row) \in StJob /\ IsInjective(StageDone(row).adopted)
         /\ AdvanceStage(row) \in StJob /\ IsInjective(AdvanceStage(row).adopted)
         /\ \A i \in Nat : SetStage(row, i) \in StJob /\ IsInjective(SetStage(row, i).adopted)
         /\ [row EXCEPT !.status = "failed"] \in StJob /\ IsInjective([row EXCEPT !.status = "failed"].adopted)
<1>1. row.stage \in Nat /\ row.stage + 1 \in Nat /\ row.content + 1 \in Nat
  BY DEF StJob
<1>2. <<>> \in Seq(Nat) /\ IsInjective(<<>>)
  BY DEF IsInjective
<1>3. StageDone(row) \in StJob /\ StageDone(row).adopted \in {row.adopted, <<>>}
  <2>1. [row EXCEPT !.status = "pending", !.adopted = <<>>, !.content = 0] \in StJob
    BY <1>2 DEF StJob
  <2>2. [row EXCEPT !.status = "running", !.content = row.content + 1] \in StJob
    BY <1>1 DEF StJob
  <2>3. [row EXCEPT !.status = "running", !.content = @ + 1] = [row EXCEPT !.status = "running", !.content = row.content + 1]
    BY DEF StJob
  <2>4. /\ [row EXCEPT !.status = "pending", !.adopted = <<>>, !.content = 0].adopted = <<>>
        /\ [row EXCEPT !.status = "running", !.content = row.content + 1].adopted = row.adopted
    BY DEF StJob
  <2> QED
    BY <2>1, <2>2, <2>3, <2>4 DEF StageDone
<1>4. AdvanceStage(row) \in StJob /\ AdvanceStage(row).adopted = row.adopted
  <2>1. [row EXCEPT !.stage = @ + 1, !.status = "pending"] = [row EXCEPT !.stage = row.stage + 1, !.status = "pending"]
    BY DEF StJob
  <2>2. /\ [row EXCEPT !.stage = row.stage + 1, !.status = "pending"] \in StJob
        /\ [row EXCEPT !.stage = row.stage + 1, !.status = "pending"].adopted = row.adopted
    BY <1>1 DEF StJob
  <2>3. [row EXCEPT !.status = "done"] \in StJob /\ [row EXCEPT !.status = "done"].adopted = row.adopted
    BY DEF StJob
  <2> QED
    BY <2>1, <2>2, <2>3 DEF AdvanceStage
<1>5. \A i \in Nat : SetStage(row, i) \in StJob /\ SetStage(row, i).adopted = row.adopted
  BY DEF SetStage, StJob
<1>6. [row EXCEPT !.status = "failed"] \in StJob /\ [row EXCEPT !.status = "failed"].adopted = row.adopted
  BY DEF StJob
<1> QED
  BY <1>2, <1>3, <1>4, <1>5, <1>6

(* A step about a job: the form stays as it is.                            *)
LEMMA StWorks ==
  ASSUME StInv, st' \in StPage, st'.novel = st.novel, st'.field = st.field, st'.known = st.known,
         st'.draftTimer = st.draftTimer, stKept' = stKept, stServer' \in StStored, KeysAreDistinct',
         \A c \in stCalls' : c \in stCalls \/ StCalled(c)
  PROVE  StInv'
<1>1. OverviewIsKept'
  BY StStays
<1>2. StTyped'
  BY DEF StInv, StTyped, StCalled, StJobCall
<1> QED
  BY <1>1, <1>2 DEF StInv

LEMMA StSets ==
  ASSUME StInv, NEW n \in StNovels, NEW row \in StJob, IsInjective(row.adopted),
         stServer' = [stServer EXCEPT !.job[n] = row]
  PROVE  stServer' \in StStored /\ KeysAreDistinct'
<1>1. stServer \in StStored /\ stServer.job \in StJobs /\ KeysAreDistinct
  BY DEF StInv, StTyped, StStored
<1>2. stServer' = [stServer EXCEPT !.job = [stServer.job EXCEPT ![n] = row]]
  BY <1>1 DEF StStored
<1>3. [stServer.job EXCEPT ![n] = row] \in StJobs
  BY <1>1 DEF StJobs
<1>4. stServer' \in StStored /\ stServer'.job = [stServer.job EXCEPT ![n] = row]
  BY <1>1, <1>2, <1>3 DEF StStored
<1>5. KeysAreDistinct'
  BY <1>1, <1>4 DEF KeysAreDistinct, StJobs
<1> QED
  BY <1>4, <1>5

LEMMA ShownTyped ==
  ASSUME NEW s \in StPage, NEW c, NEW row \in StJob
  PROVE  LET t == Shown(s, c, row)
         IN /\ t \in StPage /\ t.novel = s.novel /\ t.field = s.field /\ t.known = s.known
            /\ t.draftTimer = s.draftTimer /\ t.left = s.left
<1>1. PICK job \in StJob : job = IF s.active = c.novel THEN row ELSE s.job
  BY DEF StPage
<1> DEFINE g == s.generating /\ c.kind # "generate"
           a == s.adopting /\ c.kind # "adopt"
<1>2. g \in BOOLEAN /\ a \in BOOLEAN
  OBVIOUS
<1>3. Shown(s, c, row) = [s EXCEPT !.job = job, !.generating = g, !.adopting = a]
  BY <1>1 DEF Shown, StPage
<1> HIDE DEF g, a
<1> QED
  BY <1>1, <1>2, <1>3 DEF StPage

LEMMA StOpens ==
  ASSUME StInv, CloseJob \/ (\E n \in StNovels : OpenJob(n) \/ RemoveJob(n))
  PROVE  StInv'
<1>1. st \in StPage /\ stServer \in StStored /\ stServer.job \in StJobs /\ KeysAreDistinct
  BY DEF StInv, StTyped, StStored
<1>2. NoJob \in StJob /\ IsInjective(NoJob.adopted)
  <2>1. NoJob = [stage |-> 0, status |-> "none", adopted |-> <<>>, keys |-> 0, content |-> 0] /\ <<>> \in Seq(Nat)
    BY DEF NoJob
  <2> QED
    BY <2>1 DEF StJob, IsInjective
<1>3. PICK n \in StScopes, job \in StJob, l \in Nat : st' = [st EXCEPT !.active = n, !.job = job, !.left = l]
  <2>1. CASE CloseJob
    <3>1. st' = [st EXCEPT !.active = New, !.job = NoJob, !.left = st.left] /\ st.left \in Nat /\ New \in StScopes
      BY <1>1, <2>1 DEF CloseJob, StPage, StScopes
    <3> QED
      BY Zenon, <1>2, <3>1
  <2>2. ASSUME NEW n \in StNovels, OpenJob(n) \/ RemoveJob(n)
        PROVE  \E m \in StScopes, job \in StJob, l \in Nat : st' = [st EXCEPT !.active = m, !.job = job, !.left = l]
    <3>1. st.left - 1 \in Nat
      <4>1. st.left > 0
        BY Zenon, <2>2 DEF OpenJob, RemoveJob, StLeft
      <4>2. st.left \in Nat
        BY <1>1 DEF StPage
      <4> QED
        BY <4>1, <4>2
    <3>2. st.active \in StScopes /\ st.job \in StJob /\ n \in StScopes /\ stServer.job[n] \in StJob
      BY <1>1 DEF StPage, StScopes, StJobs
    <3>3. \/ st' = [st EXCEPT !.active = n, !.job = stServer.job[n], !.left = st.left - 1]
          \/ st' = [st EXCEPT !.active = st.active, !.job = st.job, !.left = st.left - 1]
      BY Zenon, <1>1, <2>2 DEF OpenJob, RemoveJob, StPage
    <3> QED
      BY Zenon, <3>1, <3>2, <3>3
  <2> QED
    BY Zenon, <2>1, <2>2
<1>4. /\ st' \in StPage /\ st'.novel = st.novel /\ st'.field = st.field /\ st'.known = st.known
      /\ st'.draftTimer = st.draftTimer
  BY <1>1, <1>3 DEF StPage
<1>5. stServer' \in StStored /\ KeysAreDistinct'
  <2>1. CASE stServer' = stServer
    BY <1>1, <2>1 DEF KeysAreDistinct
  <2>2. CASE \E m \in StNovels : stServer' = [stServer EXCEPT !.job[m] = NoJob]
    BY <1>2, <2>2, StSets
  <2> QED
    BY Zenon, <2>1, <2>2 DEF CloseJob, OpenJob, RemoveJob
<1> QED
  BY Zenon, <1>4, <1>5, StWorks DEF CloseJob, OpenJob, RemoveJob

LEMMA StAsksJob ==
  ASSUME StInv, Generate \/ Advance \/ Adopt \/ \E i \in DOMAIN Stages : JumpStage(i)
  PROVE  StInv'
<1>1. st \in StPage /\ stServer \in StStored /\ stServer.job \in StJobs /\ KeysAreDistinct
  BY DEF StInv, StTyped, StStored
<1>2. PICK yes \in BOOLEAN : yes = TRUE
  OBVIOUS
<1>3. st.left - 1 \in Nat /\ st.job.keys + 1 \in Nat
  BY <1>1 DEF Generate, Advance, Adopt, JumpStage, StLeft, StPage, StJob
<1>4. PICK g \in BOOLEAN, a \in BOOLEAN : st' = [st EXCEPT !.generating = g, !.adopting = a, !.left = st.left - 1]
  <2>1. st.generating \in BOOLEAN /\ st.adopting \in BOOLEAN
    BY <1>1 DEF StPage
  <2>2. \/ st' = [st EXCEPT !.generating = yes, !.adopting = st.adopting, !.left = st.left - 1]
        \/ st' = [st EXCEPT !.generating = st.generating, !.adopting = yes, !.left = st.left - 1]
        \/ st' = [st EXCEPT !.generating = st.generating, !.adopting = st.adopting, !.left = st.left - 1]
    BY <1>1, <1>2 DEF Generate, Advance, Adopt, JumpStage, StPage
  <2> QED
    BY Zenon, <1>2, <2>1, <2>2
<1>5. /\ st' \in StPage /\ st'.novel = st.novel /\ st'.field = st.field /\ st'.known = st.known
      /\ st'.draftTimer = st.draftTimer
  BY <1>1, <1>3, <1>4 DEF StPage
<1>6. DOMAIN Stages \subseteq Nat
  BY DEF Stages
<1>7. PICK kind \in {"generate", "advance", "stage", "adopt"}, data \in Nat : Ask(kind, data) /\ st.active # New
  BY <1>3, <1>6 DEF Generate, Advance, Adopt, JumpStage
<1> PICK no \in BOOLEAN : no = FALSE
  OBVIOUS
<1> DEFINE k == [id |-> StId, kind |-> kind, novel |-> st.active, data |-> data,
                 row |-> stServer.job[st.active], locked |-> no]
<1>8. stCalls' = stCalls \cup {k}
  BY <1>7 DEF Ask
<1>9. st.active \in StNovels /\ stServer.job[st.active] \in StJob /\ IsInjective(stServer.job[st.active].adopted)
  BY <1>1, <1>7 DEF StPage, StScopes, StJobs, KeysAreDistinct
<1>10. StCalled(k)
  BY <1>9 DEF StCalled, StJobCall, StAsks
<1> HIDE DEF k
<1>11. stKept' = stKept /\ stServer' = stServer
  BY DEF Generate, Advance, Adopt, JumpStage
<1>12. KeysAreDistinct'
  BY <1>1, <1>11 DEF KeysAreDistinct
<1> QED
  BY <1>1, <1>5, <1>8, <1>10, <1>11, <1>12, StWorks

LEMMA StCreated ==
  ASSUME StInv, NEW c \in stCalls, CreateAnswered(c) \/ CreateStops(c)
  PROVE  StInv'
<1>0. PICK made \in BOOLEAN, opened \in BOOLEAN : CreateReaches(c, made, opened) /\ (opened \/ StLeft)
  BY DEF CreateAnswered, CreateStops
<1>1. st \in StPage /\ stKept \in StDrafts /\ stServer \in StStored /\ stServer.job \in StJobs /\ KeysAreDistinct
  BY DEF StInv, StTyped, StStored
<1>2. c.kind = "create" /\ c.novel \in StScopes /\ c.field \in Nat /\ c.idea \in Nat
  BY <1>0 DEF StInv, StTyped, StCalled, CreateReaches
<1> DEFINE n == IF c.novel = New THEN 2 ELSE c.novel
<1>3. n \in StNovels /\ n \in StScopes /\ (c.novel # New => n = c.novel)
  BY <1>2 DEF StScopes, StNovels
<1> HIDE DEF n
<1>4. NewJob \in StJob /\ IsInjective(NewJob.adopted)
  <2>1. NoJob = [stage |-> 0, status |-> "none", adopted |-> <<>>, keys |-> 0, content |-> 0] /\ <<>> \in Seq(Nat)
    BY DEF NoJob
  <2>2. NoJob \in StJob /\ NoJob.adopted = <<>>
    BY <2>1 DEF StJob
  <2>3. NewJob \in StJob /\ NewJob.adopted = NoJob.adopted
    BY <2>2 DEF NewJob, StJob
  <2> QED
    BY <2>2, <2>3 DEF IsInjective
<1>5. PICK no \in BOOLEAN, yes \in BOOLEAN : no = FALSE /\ yes = TRUE
  OBVIOUS
<1>6. stServer' \in StStored /\ KeysAreDistinct'
  <2> DEFINE j == IF made THEN NewJob ELSE stServer.job[n]
  <2>0. j \in StJob /\ IsInjective(j.adopted)
    BY <1>1, <1>3, <1>4 DEF StJobs, KeysAreDistinct
  <2>1. stServer' = [stServer EXCEPT !.field = [stServer.field EXCEPT ![n] = c.field], !.made = stServer.made \cup {n},
                                     !.job = [stServer.job EXCEPT ![n] = j]]
    BY <1>0, <1>1 DEF CreateReaches, StStored, n
  <2> HIDE DEF j
  <2>2. [stServer.job EXCEPT ![n] = j] \in StJobs
    BY <1>1, <2>0 DEF StJobs
  <2>3. stServer' \in StStored /\ stServer'.job = [stServer.job EXCEPT ![n] = j]
    BY <1>1, <1>2, <1>3, <2>1, <2>2 DEF StStored
  <2>4. KeysAreDistinct'
    BY <1>1, <2>0, <2>3 DEF KeysAreDistinct, StJobs
  <2> QED
    BY <2>3, <2>4
<1> DEFINE Led(t) == IF opened THEN [t EXCEPT !.active = n, !.job = NewJob] ELSE [t EXCEPT !.left = t.left - 1]
<1>9. ASSUME NEW t \in StPage, st' = Led(t), t.left = st.left
        PROVE  /\ st' \in StPage /\ st'.novel = t.novel /\ st'.field = t.field /\ st'.known = t.known
               /\ st'.draftTimer = t.draftTimer
  <2>1. CASE opened
    BY <1>3, <1>4, <1>9, <2>1 DEF StPage
  <2>2. CASE ~opened
    <3>1. t.left - 1 \in Nat
      BY <1>0, <1>9, <2>2 DEF StLeft, StPage
    <3> QED
      BY <1>9, <2>2, <3>1 DEF StPage
  <2> QED
    BY <2>1, <2>2
<1> HIDE DEF Led
<1>7. st' \in StPage /\ stKept' \in StDrafts /\ OverviewIsKept'
  <2>1. CASE c.novel = New
    <3>1. stKept' = [[stKept EXCEPT ![n] = [field |-> 0, idea |-> c.idea]] EXCEPT ![New] = NoDraft]
      BY <1>0, <2>1 DEF CreateReaches, n
    <3>2. stKept' \in StDrafts
      BY <1>1, <1>2, <3>1 DEF StDrafts, NoDraft
    <3>3. stKept[n].idea \in Nat
      BY <1>1, <1>3 DEF StDrafts
    <3> DEFINE idea == stKept[n].idea
               t    == [st EXCEPT !.known[n] = c.field, !.novel = n, !.field = c.field, !.idea = idea,
                                  !.draftTimer = TRUE, !.saveTimer = FALSE]
    <3>4. st' = Led(t)
      BY <1>0, <2>1 DEF CreateReaches, Led, n
    <3> HIDE DEF idea
    <3>5. t = [st EXCEPT !.known = [st.known EXCEPT ![n] = c.field], !.novel = n, !.field = c.field, !.idea = idea,
                         !.draftTimer = yes, !.saveTimer = no]
      BY <1>1, <1>5 DEF StPage
    <3>6. idea \in Nat
      BY <3>3 DEF idea
    <3> HIDE DEF t
    <3>7. t \in StPage /\ t.draftTimer = yes /\ t.left = st.left
      <4> DEFINE s1 == [st EXCEPT !.known = [st.known EXCEPT ![n] = c.field]]
      <4>1. s1 \in StPage /\ s1.left = st.left
        BY <1>1, <1>2, <1>3 DEF StPage
      <4>2. t = [s1 EXCEPT !.novel = n, !.field = c.field, !.idea = idea, !.draftTimer = yes, !.saveTimer = no]
        BY <1>1, <3>5 DEF StPage
      <4> HIDE DEF s1
      <4> QED
        BY <1>2, <1>3, <3>6, <4>1, <4>2 DEF StPage
    <3>8. st' \in StPage /\ st'.draftTimer = yes
      BY Zenon, <1>9, <3>4, <3>7
    <3> QED
      BY <3>2, <3>8, <1>5 DEF OverviewIsKept
  <2>2. CASE c.novel # New
    <3>1. PICK t \in StPage :
            /\ t = Stored(st, n, c.field) /\ t.novel = st.novel
            /\ (st.novel = n => t.draftTimer)
            /\ (st.novel # n => t.field = st.field /\ t.draftTimer = st.draftTimer)
            /\ (st.novel \notin {n, New} => t.known[st.novel] = st.known[st.novel])
      BY <1>1, <1>2, <1>3, StoredTyped
    <3>2. t.left = st.left
      BY <1>1, <3>1 DEF Stored, StPage
    <3>3. stKept' = stKept
      BY <1>0, <2>2 DEF CreateReaches
    <3>4. st' = Led(t)
      BY <1>0, <2>2, <3>1 DEF CreateReaches, Led, n
    <3>5. /\ st' \in StPage /\ st'.novel = t.novel /\ st'.field = t.field /\ st'.known = t.known
          /\ st'.draftTimer = t.draftTimer
      BY Zenon, <1>9, <3>1, <3>2, <3>4
    <3>6. OverviewIsKept'
      BY <3>1, <3>3, <3>5 DEF StInv, OverviewIsKept
    <3> QED
      BY <1>1, <3>3, <3>5, <3>6
  <2> QED
    BY <2>1, <2>2
<1>8. StTyped'
  BY <1>0, <1>6, <1>7 DEF CreateReaches, Answered, StInv, StTyped, StCalled, StJobCall
<1> QED
  BY <1>6, <1>7, <1>8 DEF StInv

LEMMA StAnswersJob ==
  ASSUME StInv, NEW c \in stCalls, JobAnswered(c) \/ AdoptAnswered(c)
  PROVE  StInv'
<1>1. st \in StPage /\ stServer \in StStored /\ stServer.job \in StJobs /\ KeysAreDistinct
  BY DEF StInv, StTyped, StStored
<1>2. c.kind \in StAsks /\ c.novel \in StNovels /\ c.data \in Nat /\ c.row \in StJob /\ IsInjective(c.row.adopted)
  BY DEF StInv, StTyped, StCalled, StAsks, StJobCall, JobAnswered, AdoptAnswered
<1>3. stServer.job[c.novel] \in StJob /\ IsInjective(stServer.job[c.novel].adopted)
  BY <1>1, <1>2 DEF StJobs, KeysAreDistinct
<1>4. PICK row \in StJob : /\ IsInjective(row.adopted) /\ stServer' = [stServer EXCEPT !.job[c.novel] = row]
                           /\ st' = Shown(st, c, row)
  <2>1. CASE AdoptAnswered(c)
    BY <2>1, <1>2 DEF AdoptAnswered
  <2>2. CASE JobAnswered(c) /\ c.kind = "generate"
    BY <2>2, <1>2, StRows DEF JobAnswered
  <2>3. CASE JobAnswered(c) /\ c.kind = "advance"
    BY <2>3, <1>3, StRows DEF JobAnswered
  <2>4. CASE JobAnswered(c) /\ c.kind = "stage"
    BY <2>4, <1>2, <1>3, StRows DEF JobAnswered
  <2> QED
    BY <2>1, <2>2, <2>3, <2>4 DEF JobAnswered
<1>5. stServer' \in StStored /\ KeysAreDistinct'
  BY <1>2, <1>4, StSets
<1>6. /\ st' \in StPage /\ st'.novel = st.novel /\ st'.field = st.field /\ st'.known = st.known
      /\ st'.draftTimer = st.draftTimer
  BY <1>1, <1>4, ShownTyped
<1> QED
  BY <1>5, <1>6, StWorks DEF JobAnswered, AdoptAnswered, Answered

(* An adoption that found its key absent, under the lock.                  *)
LEMMA StAdopts ==
  ASSUME StInv, NEW c \in stCalls, StartAdopt(c)
  PROVE  StInv'
<1>1. st \in StPage /\ stServer \in StStored /\ stServer.job \in StJobs /\ KeysAreDistinct
  BY DEF StInv, StTyped, StStored
<1>2. /\ c.kind = "adopt" /\ c.novel \in StNovels /\ c.data \in Nat
      /\ c \in [id : {c.id}, kind : StAsks, novel : StNovels, data : Nat, row : StJob, locked : BOOLEAN]
  BY DEF StInv, StTyped, StCalled, StAsks, StJobCall, StartAdopt
<1> DEFINE row == stServer.job[c.novel]
<1>3. row \in StJob /\ IsInjective(row.adopted)
  BY <1>1, <1>2 DEF StJobs, KeysAreDistinct
<1>4. CASE c.data \in ToSet(row.adopted)
  <2>1. st' = Shown(st, c, row) /\ stCalls' = stCalls \ {c} /\ stServer' = stServer /\ stKept' = stKept
    BY <1>4 DEF StartAdopt, Answered
  <2> HIDE DEF row
  <2>2. /\ st' \in StPage /\ st'.novel = st.novel /\ st'.field = st.field /\ st'.known = st.known
        /\ st'.draftTimer = st.draftTimer
    BY <1>1, <1>3, <2>1, ShownTyped
  <2>3. KeysAreDistinct'
    BY <1>1, <2>1 DEF KeysAreDistinct
  <2> QED
    BY <1>1, <2>1, <2>2, <2>3, StWorks
<1>5. CASE c.data \notin ToSet(row.adopted)
  <2> DEFINE more == [row EXCEPT !.adopted = Append(@, c.data), !.keys = @ + 1]
  <2> PICK yes \in BOOLEAN : yes = TRUE
    OBVIOUS
  <2> DEFINE d == [c EXCEPT !.locked = yes, !.row = more]
  <2>1. /\ stServer' = [stServer EXCEPT !.written = Append(@, <<c.novel, c.data>>)]
        /\ stCalls' = (stCalls \ {c}) \cup {d} /\ st' = st /\ stKept' = stKept
    BY <1>5 DEF StartAdopt
  <2>2. more \in StJob /\ IsInjective(more.adopted)
    <3>1. Append(row.adopted, c.data) \in Seq(Nat) /\ IsInjective(Append(row.adopted, c.data))
      BY <1>2, <1>3, <1>5, OneMoreKey DEF StJob
    <3>2. row.keys + 1 \in Nat
      BY <1>3 DEF StJob
    <3>3. more = [row EXCEPT !.adopted = Append(row.adopted, c.data), !.keys = row.keys + 1]
      BY <1>3 DEF StJob
    <3> HIDE DEF more, row
    <3> QED
      BY <1>3, <3>1, <3>2, <3>3 DEF StJob
  <2> HIDE DEF more
  <2>3. d \in [id : {c.id}, kind : StAsks, novel : StNovels, data : Nat, row : StJob, locked : BOOLEAN]
    BY <1>2, <2>2
  <2>4. d.id = c.id /\ d.kind = "adopt" /\ d.row = more
    BY <1>2
  <2>5. StCalled(d)
    BY <2>2, <2>3, <2>4 DEF StCalled, StJobCall, StAsks
  <2> HIDE DEF d
  <2>6. stServer' \in StStored /\ stServer'.job = stServer.job
    <3>1. stServer' = [stServer EXCEPT !.written = Append(stServer.written, <<c.novel, c.data>>)]
      BY <1>1, <2>1 DEF StStored
    <3>2. Append(stServer.written, <<c.novel, c.data>>) \in Seq(StNovels \X Nat)
      BY <1>1, <1>2 DEF StStored
    <3> QED
      BY <1>1, <3>1, <3>2 DEF StStored
  <2>7. KeysAreDistinct'
    BY <1>1, <2>6 DEF KeysAreDistinct
  <2> QED
    BY <1>1, <2>1, <2>5, <2>6, <2>7, StWorks
<1> QED
  BY <1>4, <1>5

LEMMA StFailsJob ==
  ASSUME StInv, NEW c \in stCalls, JobFails(c)
  PROVE  StInv'
<1>1. st \in StPage /\ st.job \in StJob /\ stServer \in StStored /\ stServer.job \in StJobs /\ KeysAreDistinct
  BY DEF StInv, StTyped, StStored, StPage
<1>2. /\ c.kind \in StAsks /\ c.novel \in StNovels /\ StJobCall(c) /\ c.row \in StJob /\ IsInjective(c.row.adopted)
      /\ c \in [id : {c.id}, kind : StAsks, novel : StNovels, data : Nat, row : StJob, locked : BOOLEAN]
  BY DEF StInv, StTyped, StCalled, StAsks, StJobCall, JobFails
<1>3. PICK t \in StPage : /\ t = Shown(st, c, st.job) /\ t.novel = st.novel /\ t.field = st.field /\ t.known = st.known
                          /\ t.draftTimer = st.draftTimer /\ t.left = st.left
  BY <1>1, ShownTyped
<1>4. st' = [t EXCEPT !.left = st.left - 1]
  BY <1>3 DEF JobFails
<1>5. st.left - 1 \in Nat
  BY <1>1 DEF JobFails, StLeft, StPage
<1>6. /\ st' \in StPage /\ st'.novel = st.novel /\ st'.field = st.field /\ st'.known = st.known
      /\ st'.draftTimer = st.draftTimer
  BY <1>3, <1>4, <1>5 DEF StPage
<1>7. stServer' \in StStored /\ KeysAreDistinct'
  <2>1. CASE c.kind = "generate"
    BY <2>1, <1>2, StRows, StSets DEF JobFails
  <2>2. CASE c.kind # "generate"
    BY <2>2, <1>1 DEF JobFails, KeysAreDistinct
  <2> QED
    BY <2>1, <2>2
<1> DEFINE d == [c EXCEPT !.kind = "unheard"]
<1>8. /\ d \in [id : {c.id}, kind : StAsks, novel : StNovels, data : Nat, row : StJob, locked : BOOLEAN]
      /\ d.id = c.id /\ d.kind = "unheard" /\ d.row = c.row
  BY <1>2 DEF StAsks
<1>9. StCalled(d)
  BY <1>2, <1>8 DEF StCalled, StJobCall, StAsks
<1>10. \A k \in stCalls' : k \in stCalls \/ StCalled(k)
  BY <1>9 DEF JobFails, Answered
<1> QED
  BY <1>1, <1>6, <1>7, <1>10, StWorks DEF JobFails

LEMMA StUnheard ==
  ASSUME StInv, NEW c \in stCalls, Unheard(c)
  PROVE  StInv'
<1>1. st \in StPage /\ stServer \in StStored /\ stServer.job \in StJobs /\ KeysAreDistinct
  BY DEF StInv, StTyped, StStored
<1>2. c.novel \in StNovels /\ c.data \in Nat
  BY DEF StInv, StTyped, StCalled, StAsks, StJobCall, Unheard
<1> DEFINE row == stServer.job[c.novel]
           more == [row EXCEPT !.adopted = Append(@, c.data), !.keys = @ + 1]
<1>3. row \in StJob /\ IsInjective(row.adopted)
  BY <1>1, <1>2 DEF StJobs, KeysAreDistinct
<1>4. stServer' \in StStored /\ KeysAreDistinct'
  <2>1. CASE stServer' = stServer
    BY <1>1, <2>1 DEF KeysAreDistinct
  <2>2. CASE /\ c.data \notin ToSet(row.adopted)
             /\ stServer' = [stServer EXCEPT !.written = Append(@, <<c.novel, c.data>>), !.job[c.novel] = more]
    <3>1. more \in StJob /\ IsInjective(more.adopted)
      <4>1. Append(row.adopted, c.data) \in Seq(Nat) /\ IsInjective(Append(row.adopted, c.data))
        BY <1>2, <1>3, <2>2, OneMoreKey DEF StJob
      <4>2. row.keys + 1 \in Nat
        BY <1>3 DEF StJob
      <4>3. more = [row EXCEPT !.adopted = Append(row.adopted, c.data), !.keys = row.keys + 1]
        BY <1>3 DEF StJob
      <4> HIDE DEF more, row
      <4> QED
        BY <1>3, <4>1, <4>2, <4>3 DEF StJob
    <3> HIDE DEF more
    <3>2. stServer' = [stServer EXCEPT !.written = Append(stServer.written, <<c.novel, c.data>>),
                                       !.job = [stServer.job EXCEPT ![c.novel] = more]]
      BY <1>1, <2>2 DEF StStored
    <3>3. Append(stServer.written, <<c.novel, c.data>>) \in Seq(StNovels \X Nat)
      BY <1>1, <1>2 DEF StStored
    <3>4. [stServer.job EXCEPT ![c.novel] = more] \in StJobs
      BY <1>1, <3>1 DEF StJobs
    <3>5. stServer' \in StStored /\ stServer'.job = [stServer.job EXCEPT ![c.novel] = more]
      BY <1>1, <3>2, <3>3, <3>4 DEF StStored
    <3>6. KeysAreDistinct'
      BY <1>1, <3>1, <3>5 DEF KeysAreDistinct, StJobs
    <3> QED
      BY <3>5, <3>6
  <2> QED
    BY <2>1, <2>2 DEF Unheard
<1>5. st' = st /\ stKept' = stKept /\ \A k \in stCalls' : k \in stCalls
  BY DEF Unheard, Answered
<1> QED
  BY <1>1, <1>4, <1>5, StWorks

LEMMA StStep == StInv /\ [StNext]_stVars => StInv'
<1> SUFFICES ASSUME StInv, [StNext]_stVars PROVE StInv'
  OBVIOUS
<1>1. CASE UNCHANGED stVars
  BY <1>1 DEF StInv, StTyped, OverviewIsKept, KeysAreDistinct, StCalled, StJobCall, stVars
<1>2. CASE StNext
  BY <1>2, StTypes, StKeepsDraft, StShows, StSaves, StSaved, StFills, StOpens, StAsksJob, StCreated, StAnswersJob,
     StAdopts, StFailsJob, StUnheard DEF StNext
<1> QED
  BY <1>1, <1>2

(* What the overview form shows of its novel is stored, or kept in         *)
(* localStorage, or about to be, for any number of edits, saves, answers   *)
(* of the AI, novels shown and failures (StoryWorkflowPanel).              *)
THEOREM OverviewSurvives ==
  ASSUME StBounds
  PROVE  StSpec => []OverviewIsKept
<1>1. StInit => StInv
  BY StBegun
<1>2. StInv /\ [StNext]_stVars => StInv'
  BY StStep
<1>3. StInv => OverviewIsKept
  BY DEF StInv
<1> QED
  BY <1>1, <1>2, <1>3, PTL DEF StSpec

(* No job records a key twice, however adoptions, generations that write   *)
(* the row they once read, retries and lost answers interleave: every row  *)
(* a request carries keeps its keys distinct (AdoptChapter).               *)
THEOREM NoKeyIsAdoptedTwice ==
  ASSUME StBounds
  PROVE  StSpec => []KeysAreDistinct
<1>1. StInit => StInv
  BY StBegun
<1>2. StInv /\ [StNext]_stVars => StInv'
  BY StStep
<1>3. StInv => KeysAreDistinct
  BY DEF StInv
<1> QED
  BY <1>1, <1>2, <1>3, PTL DEF StSpec

-----------------------------------------------------------------------------
(* Buying (Billing): the two dialogs and the server that sells.            *)
BillAll == <<bill, billServer, billCalls>>
BillDialogs == {"token", "subscription"}
BillPage ==
  [open : [BillDialogs -> BOOLEAN], buying : [BillDialogs -> BOOLEAN], shown : [BillDialogs -> Nat], waiting : BOOLEAN,
   range : {"day", "week", "month"}, stats : {"none", "day", "week", "month"}, throttled : BOOLEAN,
   told : {"none", "refused", "bought", "failed"}, asked : Nat, left : Int]
BillCall == [kind : {"fetch", "records", "order"}, dialog : BillDialogs, id : Nat, read : BOOLEAN, value : Nat, buys : BOOLEAN]
BillStats == [kind : {"stats"}, range : {"day", "week", "month"}, id : Nat]
BillTyped ==
  /\ bill \in BillPage /\ billServer \in [paid : [BillDialogs -> Nat]]
  /\ billCalls \in SUBSET (BillCall \cup BillStats)

(* An order is a purchase, and so is the fetch that follows it; what that  *)
(* fetch has read is paid, no other order being out.                       *)
BillWell(c) ==
  /\ c.kind = "order" => c.buys
  /\ c.kind = "records" => ~c.buys
  /\ c.kind = "fetch" /\ c.buys /\ c.read => c.value = billServer.paid[c.dialog]
BillBuys(calls, d) == {c \in calls : c.kind # "stats" /\ c.dialog = d /\ c.buys}
BillOne(d) ==
  /\ bill.buying[d] <=> BillBuys(billCalls, d) # {}
  /\ \A c, e \in BillBuys(billCalls, d) : c = e
BillQuiet(c) == c.kind = "stats" \/ (c.kind \in {"fetch", "records"} /\ ~c.buys)
BillInv ==
  /\ BillTyped /\ (bill.asked = 0 => billCalls = {})
  /\ (\A c \in billCalls : BillWell(c)) /\ \A d \in BillDialogs : BillOne(d)

LEMMA BillHonest == BillInv => Bill!BillBusyIsHonest
  BY DEF BillInv, BillOne, BillBuys, BillDialogs, Bill!BillBusyIsHonest, Bill!Dialogs

LEMMA BillNames == Bill!Dialogs = BillDialogs /\ Bill!Ranges = {"day", "week", "month"}
  BY DEF Bill!Dialogs, Bill!Ranges, BillDialogs

LEMMA BillStarts == BillMaxEvents \in Nat /\ Bill!Init => BillInv
<1> SUFFICES ASSUME BillMaxEvents \in Nat, Bill!Init PROVE BillInv
    OBVIOUS
<1>1. bill \in BillPage /\ bill.buying = [d \in BillDialogs |-> FALSE]
      BY BillNames DEF Bill!Init, Bill!Nothing, BillPage
<1>2. billServer \in [paid : [BillDialogs -> Nat]] /\ billCalls = {}
      BY BillNames DEF Bill!Init
<1> QED BY <1>1, <1>2 DEF BillInv, BillTyped, BillOne, BillBuys

(* The purchases stay as they are, and who waits for one does.             *)
LEMMA BillAside ==
  ASSUME BillInv, bill' \in BillPage, bill'.buying = bill.buying, billServer' = billServer,
         \A c \in billCalls : c \in billCalls' \/ BillQuiet(c),
         \A c \in billCalls' : c \in billCalls \/ (c \in BillCall \cup BillStats /\ BillQuiet(c)),
         bill'.asked # 0 \/ (bill'.asked = bill.asked /\ billCalls' \subseteq billCalls)
  PROVE  BillInv'
<1>1. BillTyped'
      BY DEF BillInv, BillTyped
<1>2. ASSUME NEW c \in billCalls' PROVE BillWell(c)'
      BY <1>2 DEF BillInv, BillWell, BillQuiet
<1>3. ASSUME NEW d \in BillDialogs PROVE BillOne(d)'
  <2>1. BillBuys(billCalls', d) = BillBuys(billCalls, d)
        BY DEF BillBuys, BillQuiet
  <2> QED BY <2>1 DEF BillInv, BillOne
<1>4. bill'.asked = 0 => billCalls' = {}
      BY DEF BillInv
<1> QED BY <1>1, <1>2, <1>3, <1>4 DEF BillInv

LEMMA BillCalls ==
  ASSUME bill \in BillPage, NEW n \in {1, 2}, NEW kind \in {"fetch", "records", "order"}, NEW d \in BillDialogs, NEW b \in BOOLEAN
  PROVE  /\ Bill!Call(n, kind, d, b) \in BillCall
         /\ Bill!Call(n, kind, d, b).kind = kind /\ Bill!Call(n, kind, d, b).dialog = d
         /\ Bill!Call(n, kind, d, b).buys = b /\ ~Bill!Call(n, kind, d, b).read
      BY DEF Bill!Call, BillCall, BillPage

LEMMA BillOpens ==
  ASSUME BillInv, NEW d \in BillDialogs
  PROVE  /\ Bill!OpenCalls(d) \in SUBSET (BillCall \cup BillStats)
         /\ \A c \in Bill!OpenCalls(d) : BillQuiet(c)
<1> DEFINE s == [kind |-> "stats", range |-> bill.range, id |-> bill.asked + 2]
<1>1. bill \in BillPage
      BY DEF BillInv, BillTyped
<1>2. s \in BillStats /\ s.kind = "stats"
      BY <1>1 DEF BillStats, BillPage
<1>3. Bill!OpenCalls(d) = {Bill!Call(1, "fetch", d, FALSE), IF d = "token" THEN s ELSE Bill!Call(2, "records", d, FALSE)}
      BY DEF Bill!OpenCalls
<1> DEFINE f == Bill!Call(1, "fetch", d, FALSE)
           r == Bill!Call(2, "records", d, FALSE)
<1>4. f \in BillCall /\ f.kind = "fetch" /\ ~f.buys /\ r \in BillCall /\ r.kind = "records" /\ ~r.buys
      BY ZenonT(60), <1>1, BillCalls
<1> HIDE DEF s, f, r
<1>5. Bill!OpenCalls(d) \subseteq {f, s, r}
      BY <1>3 DEF f, r
<1> QED BY <1>2, <1>4, <1>5 DEF BillQuiet

LEMMA BillSpends ==
  ASSUME NEW m \in BillPage
  PROVE  /\ Bill!Spent(m) \in BillPage /\ Bill!Spent(m).asked = m.asked /\ Bill!Spent(m).buying = m.buying
         /\ Bill!Spent(m).told = m.told /\ Bill!Spent(m).shown = m.shown
  BY DEF BillPage, Bill!Spent

LEMMA BillAsking ==
  ASSUME NEW m \in BillPage, NEW n \in {1, 2}
  PROVE  /\ Bill!Asked(m, n) \in BillPage /\ Bill!Asked(m, n).asked = m.asked + n /\ Bill!Asked(m, n).buying = m.buying
         /\ Bill!Asked(m, n).told = m.told /\ Bill!Asked(m, n).shown = m.shown
  BY DEF BillPage, Bill!Asked

LEMMA BillSpendsAsking ==
  ASSUME NEW m \in BillPage, NEW n \in {1, 2}, NEW p, p = Bill!Asked(Bill!Spent(m), n)
  PROVE  /\ p \in BillPage /\ p.asked # 0 /\ p.asked = m.asked + n /\ p.buying = m.buying /\ p.told = m.told /\ p.shown = m.shown
<1>1. p.asked = m.asked + n /\ m.asked \in Nat /\ p \in BillPage
  BY BillSpends, BillAsking DEF BillPage
<1> QED BY <1>1, BillSpends, BillAsking

LEMMA BillShows ==
  ASSUME BillInv, NEW d \in BillDialogs, NEW r \in {"day", "week", "month"},
         Bill!Mount \/ Bill!ThrottleEnds \/ Bill!Open(d) \/ Bill!Close(d) \/ Bill!NotifyPaymentRequired(d) \/ Bill!LoadStats(r)
  PROVE  BillInv' /\ bill'.buying = bill.buying
<1>1. bill \in BillPage /\ bill.asked \in Nat /\ bill.left \in Int /\ bill.open \in [BillDialogs -> BOOLEAN]
      BY DEF BillInv, BillTyped, BillPage
<1>2. CASE Bill!Mount
  <2>1. bill' \in BillPage /\ bill'.buying = bill.buying /\ billServer' = billServer /\ bill'.asked # 0
        BY <1>1, <1>2 DEF Bill!Mount, Bill!Asked, BillPage
  <2> DEFINE f == Bill!Call(1, "fetch", "token", FALSE)
             g == Bill!Call(2, "fetch", "subscription", FALSE)
  <2>2. f \in BillCall /\ f.kind = "fetch" /\ ~f.buys /\ g \in BillCall /\ g.kind = "fetch" /\ ~g.buys
        BY <1>1, BillCalls DEF BillDialogs
  <2>3. billCalls' = {f, g} /\ billCalls = {}
        BY <1>2 DEF Bill!Mount, Bill!StartUp, BillInv
  <2> HIDE DEF f, g
  <2> QED BY <2>1, <2>2, <2>3, BillAside DEF BillQuiet
<1>3. CASE Bill!ThrottleEnds \/ Bill!Close(d)
  <2> DEFINE m == [bill EXCEPT !.throttled = FALSE]
             n == [bill EXCEPT !.open[d] = FALSE]
  <2>0. m \in BillPage /\ m.buying = bill.buying /\ m.asked = bill.asked
        BY <1>1 DEF BillPage
  <2>3. n \in BillPage /\ n.buying = bill.buying /\ n.asked = bill.asked
        BY <1>1 DEF BillPage
  <2>4. bill' = m \/ bill' = n
        BY <1>3 DEF Bill!ThrottleEnds, Bill!Close
  <2> HIDE DEF m, n
  <2>1. bill' \in BillPage /\ bill'.buying = bill.buying /\ bill'.asked = bill.asked
        BY <2>0, <2>3, <2>4
  <2>2. billServer' = billServer /\ billCalls' = billCalls
        BY <1>3 DEF Bill!ThrottleEnds, Bill!Close
  <2> QED BY <2>1, <2>2, BillAside
<1>4. CASE Bill!LoadStats(r)
  <2> DEFINE s == [kind |-> "stats", range |-> r, id |-> bill.asked + 1]
  <2>1. bill' \in BillPage /\ bill'.buying = bill.buying /\ bill'.asked # 0
    <3> DEFINE m == [bill EXCEPT !.range = r]
    <3>1. m \in BillPage /\ m.buying = bill.buying
          BY <1>1 DEF BillPage
    <3>2. bill' = Bill!Asked(Bill!Spent(m), 1)
          BY <1>4 DEF Bill!LoadStats
    <3> HIDE DEF m
    <3> QED BY <3>1, <3>2, BillSpendsAsking
  <2>2. billServer' = billServer /\ billCalls' = billCalls \cup {s}
        BY <1>4 DEF Bill!LoadStats
  <2>3. s \in BillStats /\ s.kind = "stats"
        BY <1>1 DEF BillStats
  <2> HIDE DEF s
  <2> QED BY <2>1, <2>2, <2>3, BillAside DEF BillQuiet
<1>5. CASE Bill!Open(d)
  <2>1. bill' \in BillPage /\ bill'.buying = bill.buying /\ bill'.asked # 0
    <3> DEFINE m == [bill EXCEPT !.open[d] = TRUE, !.waiting = @ \/ d = "subscription"]
    <3>1. m \in BillPage /\ m.buying = bill.buying
          BY <1>1 DEF BillPage
    <3>2. bill' = Bill!Asked(Bill!Spent(m), 2)
          BY <1>5 DEF Bill!Open
    <3> HIDE DEF m
    <3> QED BY <3>1, <3>2, BillSpendsAsking
  <2>2. billServer' = billServer /\ billCalls' = billCalls \cup Bill!OpenCalls(d)
        BY <1>5 DEF Bill!Open
  <2> QED BY <2>1, <2>2, BillOpens, BillAside
<1>6. CASE Bill!NotifyPaymentRequired(d)
  <2>1. bill' \in BillPage /\ bill'.buying = bill.buying /\ bill'.asked # 0
    <3> DEFINE m == [bill EXCEPT !.throttled = TRUE, !.open[d] = TRUE, !.told = "refused",
                                 !.waiting = @ \/ (d = "subscription" /\ ~bill.open[d])]
    <3>1. m \in BillPage /\ m.buying = bill.buying
          BY <1>1 DEF BillPage
    <3>2. bill.asked # 0 /\ (bill' = Bill!Spent(bill) \/ bill' = Bill!Asked(Bill!Spent(m), 2))
          BY <1>1, <1>6 DEF Bill!NotifyPaymentRequired
    <3> HIDE DEF m
    <3> QED BY <1>1, <3>1, <3>2, BillSpends, BillSpendsAsking
  <2>2. billServer' = billServer /\ (billCalls' = billCalls \/ billCalls' = billCalls \cup Bill!OpenCalls(d))
        BY <1>6 DEF Bill!NotifyPaymentRequired
  <2> QED BY <2>1, <2>2, BillOpens, BillAside
<1> QED BY <1>2, <1>3, <1>4, <1>5, <1>6

(* One purchase goes on or ends; those of the other dialog stay.           *)
LEMMA BillTurns ==
  ASSUME BillInv, NEW c \in billCalls, c.kind # "stats", c.buys, NEW e \in BillCall, e.dialog = c.dialog, e.buys,
         bill' \in BillPage, bill'.buying = bill.buying, bill'.asked >= bill.asked,
         billServer' \in [paid : [BillDialogs -> Nat]],
         \A d \in BillDialogs : d # c.dialog => billServer'.paid[d] = billServer.paid[d],
         billCalls' = (billCalls \ {c}) \cup {e},
         e.kind \in {"fetch", "order"}, e.kind = "fetch" /\ e.read => e.value = billServer'.paid[e.dialog]
  PROVE  BillInv'
<1>1. c \in BillCall /\ bill.asked \in Nat /\ bill'.asked \in Nat /\ bill.asked # 0
      BY DEF BillInv, BillTyped, BillPage, BillStats
<1>2. BillTyped'
      BY DEF BillInv, BillTyped
<1>3. \A b \in billCalls \ {c} : b.kind # "stats" /\ b.dialog = c.dialog => ~b.buys
      BY <1>1 DEF BillInv, BillOne, BillBuys, BillCall
<1>4. ASSUME NEW b \in billCalls' PROVE BillWell(b)'
  <2>1. CASE b = e
        BY <2>1 DEF BillWell
  <2>2. CASE b \in billCalls \ {c}
    <3>1. b \in BillCall \cup BillStats /\ BillWell(b)
          BY <2>2 DEF BillInv, BillTyped
    <3>2. b.kind \in {"fetch", "order"} /\ b.buys => b \in BillCall /\ b.dialog # c.dialog
          BY <2>2, <3>1, <1>3 DEF BillStats
    <3>3. b.kind \in {"fetch", "order"} /\ b.buys => billServer'.paid[b.dialog] = billServer.paid[b.dialog]
          BY <3>2 DEF BillCall
    <3> QED BY <3>1, <3>3 DEF BillWell
  <2> QED BY <2>1, <2>2
<1>5. e.kind # "stats" /\ c.dialog \in BillDialogs
      BY <1>1 DEF BillCall
<1>6. ASSUME NEW d \in BillDialogs PROVE BillOne(d)'
  <2>1. CASE d = c.dialog
    <3>1. BillBuys(billCalls', d) = {e} /\ c \in BillBuys(billCalls, d)
          BY <2>1, <1>3, <1>5 DEF BillBuys
    <3> QED BY <3>1 DEF BillInv, BillOne
  <2>2. CASE d # c.dialog
    <3>1. BillBuys(billCalls', d) = BillBuys(billCalls, d)
          BY <2>2 DEF BillBuys
    <3> QED BY <3>1 DEF BillInv, BillOne
  <2> QED BY <2>1, <2>2
<1> QED BY <1>1, <1>2, <1>4, <1>6 DEF BillInv

LEMMA BillEnds ==
  ASSUME BillInv, NEW c \in billCalls, c.kind # "stats", c.buys, bill' \in BillPage, bill'.asked >= bill.asked,
         bill'.buying = [bill.buying EXCEPT ![c.dialog] = FALSE], billServer' = billServer,
         c \notin billCalls', billCalls \ {c} \subseteq billCalls',
         \A e \in billCalls' : e \in billCalls \/ (e \in BillCall /\ e.kind = "records" /\ ~e.buys)
  PROVE  BillInv'
<1>1. /\ c \in BillCall /\ bill.asked \in Nat /\ bill'.asked \in Nat /\ bill.asked # 0
      /\ bill.buying \in [BillDialogs -> BOOLEAN]
      BY DEF BillInv, BillTyped, BillPage, BillStats
<1>2. BillTyped'
      BY DEF BillInv, BillTyped
<1>3. ASSUME NEW b \in billCalls' PROVE BillWell(b)'
      BY <1>3 DEF BillInv, BillWell
<1>4. ASSUME NEW d \in BillDialogs PROVE BillOne(d)'
  <2>1. CASE d = c.dialog
    <3>1. BillBuys(billCalls', d) = {} /\ ~bill'.buying[d]
          BY <2>1, <1>1 DEF BillBuys, BillInv, BillOne
    <3> QED BY <3>1 DEF BillOne
  <2>2. CASE d # c.dialog
    <3>1. BillBuys(billCalls', d) = BillBuys(billCalls, d) /\ bill'.buying[d] = bill.buying[d]
          BY <2>2, <1>1 DEF BillBuys
    <3> QED BY <3>1 DEF BillInv, BillOne
  <2> QED BY <2>1, <2>2
<1> QED BY <1>1, <1>2, <1>3, <1>4 DEF BillInv

LEMMA BillAnswers ==
  ASSUME BillInv, NEW c \in billCalls,
         Bill!StatsLoaded(c) \/ Bill!ServerReads(c) \/ Bill!RecordsLoaded(c) \/ (Bill!FetchFails(c) /\ (c.kind = "stats" \/ ~c.buys))
           \/ (Bill!Fetched(c) /\ ~c.buys)
  PROVE  BillInv' /\ bill'.buying = bill.buying
<1>1. bill \in BillPage /\ bill.asked # 0 /\ c \in BillCall \cup BillStats /\ bill.buying \in [BillDialogs -> BOOLEAN]
      BY DEF BillInv, BillTyped, BillPage
<1>2. CASE Bill!StatsLoaded(c)
  <2>1. c \in BillStats
        BY <1>1, <1>2 DEF BillCall, Bill!StatsLoaded
  <2>2. bill' = [bill EXCEPT !.stats = c.range] /\ billCalls' = (billCalls \ {c}) \cup {} /\ billServer' = billServer
        BY <1>2 DEF Bill!StatsLoaded, Bill!Done
  <2>3. bill' \in BillPage /\ bill'.buying = bill.buying /\ bill'.asked = bill.asked
        BY <1>1, <2>1, <2>2 DEF BillPage, BillStats
  <2> QED BY <1>1, <1>2, <2>2, <2>3, BillAside DEF Bill!StatsLoaded, BillQuiet
<1>3. CASE Bill!ServerReads(c)
  <2> DEFINE e == [c EXCEPT !.read = TRUE, !.value = billServer.paid[c.dialog]]
  <2>1. c \in BillCall /\ c.kind = "fetch" /\ billServer.paid[c.dialog] \in Nat
        BY <1>1, <1>3 DEF BillCall, BillStats, BillInv, BillTyped, Bill!ServerReads
  <2>2. /\ e \in BillCall /\ e.kind = "fetch" /\ e.dialog = c.dialog /\ e.buys = c.buys
        /\ e.value = billServer.paid[c.dialog]
        BY <2>1 DEF BillCall
  <2>3. bill' = bill /\ billServer' = billServer /\ billCalls' = (billCalls \ {c}) \cup {e}
        BY <1>3 DEF Bill!ServerReads
  <2> HIDE DEF e
  <2>4. e.kind = "fetch" /\ e.read => e.value = billServer'.paid[e.dialog]
        BY <2>2, <2>3
  <2>5. CASE c.buys
    <3>1. bill.asked >= bill.asked /\ billServer \in [paid : [BillDialogs -> Nat]]
          BY DEF BillInv, BillTyped, BillPage
    <3> QED BY <1>1, <2>1, <2>2, <2>3, <2>4, <2>5, <3>1, BillTurns
  <2>6. CASE ~c.buys
        BY <1>1, <2>1, <2>2, <2>3, <2>6, BillAside DEF BillQuiet
  <2> QED BY <2>3, <2>5, <2>6
<1>4. CASE Bill!RecordsLoaded(c)
  <2>1. c.kind = "records" /\ ~c.buys
        BY <1>4 DEF BillInv, BillWell, Bill!RecordsLoaded
  <2>2. /\ bill' = [bill EXCEPT !.waiting = @ /\ c.dialog # "subscription"]
        /\ billCalls' = (billCalls \ {c}) \cup {} /\ billServer' = billServer
        BY <1>4 DEF Bill!RecordsLoaded, Bill!Done
  <2>3. bill' \in BillPage /\ bill'.buying = bill.buying /\ bill'.asked = bill.asked
        BY <1>1, <2>2 DEF BillPage
  <2> QED BY <1>1, <2>1, <2>2, <2>3, BillAside DEF BillQuiet
<1>5. CASE Bill!FetchFails(c) /\ (c.kind = "stats" \/ ~c.buys)
  <2> DEFINE m == [bill EXCEPT !.waiting = @ /\ ~(c.kind = "records" /\ c.dialog = "subscription")]
  <2>1. m \in BillPage /\ m.buying = bill.buying /\ m.asked = bill.asked
        BY <1>1 DEF BillPage
  <2>2. bill' = bill \/ bill' = m
        BY <1>5 DEF Bill!FetchFails
  <2>3. billCalls' = (billCalls \ {c}) \cup {} /\ billServer' = billServer /\ c.kind \in {"fetch", "records", "stats"}
        BY <1>5 DEF Bill!FetchFails, Bill!Done
  <2> HIDE DEF m
  <2>4. bill' \in BillPage /\ bill'.buying = bill.buying /\ bill'.asked = bill.asked
        BY <1>1, <2>1, <2>2
  <2> QED BY <1>1, <1>5, <2>3, <2>4, BillAside DEF BillQuiet
<1>6. CASE Bill!Fetched(c) /\ ~c.buys
  <2>1. c \in BillCall /\ c.kind = "fetch"
        BY <1>1, <1>6 DEF BillStats, Bill!Fetched
  <2>2. bill' = [bill EXCEPT !.shown[c.dialog] = c.value] /\ billCalls' = (billCalls \ {c}) \cup {} /\ billServer' = billServer
        BY <1>6 DEF Bill!Fetched, Bill!Done
  <2>3. bill' \in BillPage /\ bill'.buying = bill.buying /\ bill'.asked = bill.asked
        BY <1>1, <2>1, <2>2 DEF BillPage, BillCall
  <2> QED BY <1>1, <1>6, <2>1, <2>2, <2>3, BillAside DEF BillQuiet
<1> QED BY <1>2, <1>3, <1>4, <1>5, <1>6

(* What ends a purchase: the fetch after it with the amount paid, or a     *)
(* failure.                                                                *)
LEMMA BillIsDone ==
  ASSUME BillInv, NEW c \in billCalls,
         (Bill!FetchFails(c) /\ c.kind # "stats" /\ c.buys) \/ (Bill!Fetched(c) /\ c.buys) \/ Bill!OrderFails(c)
  PROVE  /\ BillInv'
         /\ \A d \in BillDialogs : bill.buying[d] /\ ~bill'.buying[d] /\ bill'.told = "bought"
                                      => bill'.shown[d] = billServer.paid[d]
<1>1. c \in BillCall /\ c.kind # "stats" /\ c.buys
      BY DEF BillInv, BillTyped, BillStats, BillWell, Bill!Fetched, Bill!OrderFails
<1>2. /\ bill \in BillPage /\ c.dialog \in BillDialogs /\ bill.buying \in [BillDialogs -> BOOLEAN]
      /\ bill.shown \in [BillDialogs -> Nat] /\ bill.asked \in Nat
      BY <1>1 DEF BillInv, BillTyped, BillPage, BillCall
<1>3. CASE (Bill!FetchFails(c) /\ c.kind # "stats" /\ c.buys) \/ Bill!OrderFails(c)
  <2>1. bill' = [bill EXCEPT !.buying[c.dialog] = FALSE, !.told = "failed"]
        BY <1>3 DEF Bill!FetchFails, Bill!OrderFails
  <2>2. billCalls' = (billCalls \ {c}) \cup {} /\ billServer' = billServer
        BY <1>3 DEF Bill!FetchFails, Bill!OrderFails, Bill!Done
  <2>3. /\ bill' \in BillPage /\ bill'.told = "failed" /\ bill'.buying = [bill.buying EXCEPT ![c.dialog] = FALSE]
        /\ bill'.asked = bill.asked
        BY <1>2, <2>1 DEF BillPage
  <2>4. BillInv'
        BY <1>1, <1>2, <2>2, <2>3, BillEnds
  <2> QED BY <2>3, <2>4
<1>4. CASE Bill!Fetched(c) /\ c.buys
  <2> DEFINE m == [bill EXCEPT !.shown[c.dialog] = c.value]
             n == [m EXCEPT !.buying[c.dialog] = FALSE, !.told = "bought"]
             e == Bill!Call(1, "records", c.dialog, FALSE)
             more == IF c.dialog = "token" THEN {} ELSE {e}
  <2>1. m \in BillPage /\ m.buying = bill.buying /\ m.asked = bill.asked /\ m.shown = [bill.shown EXCEPT ![c.dialog] = c.value]
        BY <1>1, <1>2 DEF BillPage, BillCall
  <2>2. bill' = Bill!Asked(n, 1) /\ billCalls' = (billCalls \ {c}) \cup more /\ billServer' = billServer
        BY <1>4 DEF Bill!Fetched
  <2>3. e \in BillCall /\ e.kind = "records" /\ ~e.buys
        BY ZenonT(60), <1>2, BillCalls
  <2> HIDE DEF e, m
  <2>4. n \in BillPage /\ n.buying = [bill.buying EXCEPT ![c.dialog] = FALSE] /\ n.asked = bill.asked /\ n.shown = m.shown
        BY <1>2, <2>1 DEF BillPage
  <2> HIDE DEF n
  <2>5. /\ bill' \in BillPage /\ bill'.buying = [bill.buying EXCEPT ![c.dialog] = FALSE] /\ bill'.shown = m.shown
        /\ bill'.asked >= bill.asked
        BY <1>2, <2>2, <2>4, BillAsking
  <2>6. BillInv'
        BY <1>1, <2>2, <2>3, <2>5, BillEnds
  <2>7. c.value = billServer.paid[c.dialog]
        BY <1>1, <1>4 DEF Bill!Fetched, BillInv, BillWell
  <2> QED BY <1>2, <2>1, <2>5, <2>6, <2>7
<1> QED BY <1>3, <1>4

LEMMA BillBuysOn ==
  ASSUME BillInv, NEW c \in billCalls, Bill!ServerSells(c) \/ Bill!Ordered(c)
  PROVE  BillInv' /\ bill'.buying = bill.buying
<1>1. c \in BillCall /\ c.kind = "order" /\ c.buys
      BY DEF BillInv, BillTyped, BillStats, BillWell, Bill!ServerSells, Bill!Ordered
<1>2. bill \in BillPage /\ c.dialog \in BillDialogs /\ bill.asked \in Nat /\ billServer \in [paid : [BillDialogs -> Nat]]
      BY <1>1 DEF BillInv, BillTyped, BillPage, BillCall
<1>3. CASE Bill!ServerSells(c)
  <2> DEFINE e == [c EXCEPT !.read = TRUE, !.value = billServer.paid[c.dialog] + 1]
  <2>1. e \in BillCall /\ e.dialog = c.dialog /\ e.buys /\ e.kind = "order"
    <3>1. billServer.paid[c.dialog] + 1 \in Nat
          BY <1>2
    <3> QED BY <1>1, <3>1 DEF BillCall
  <2>2. bill' = bill /\ billServer' = [billServer EXCEPT !.paid[c.dialog] = @ + 1] /\ billCalls' = (billCalls \ {c}) \cup {e}
        BY <1>3 DEF Bill!ServerSells
  <2>3. /\ billServer' \in [paid : [BillDialogs -> Nat]]
        /\ \A d \in BillDialogs : d # c.dialog => billServer'.paid[d] = billServer.paid[d]
        BY <1>2, <2>2
  <2> HIDE DEF e
  <2>4. bill.asked >= bill.asked
        BY <1>2
  <2> QED BY <1>1, <1>2, <2>1, <2>2, <2>3, <2>4, BillTurns
<1>4. CASE Bill!Ordered(c)
  <2> DEFINE e == Bill!Call(1, "fetch", c.dialog, TRUE)
  <2>1. e \in BillCall /\ e.dialog = c.dialog /\ e.buys /\ e.kind = "fetch" /\ ~e.read
        BY ZenonT(60), <1>2, BillCalls
  <2>2. bill' = Bill!Asked(bill, 1) /\ billServer' = billServer /\ billCalls' = (billCalls \ {c}) \cup {e}
        BY <1>4 DEF Bill!Ordered
  <2> HIDE DEF e
  <2>4. bill' \in BillPage /\ bill'.buying = bill.buying /\ bill'.asked >= bill.asked
        BY <1>2, <2>2, BillAsking
  <2> QED BY <1>1, <1>2, <2>1, <2>2, <2>4, BillTurns
<1> QED BY <1>3, <1>4

LEMMA BillBegins ==
  ASSUME BillInv, NEW d \in BillDialogs, Bill!HandleBuy(d)
  PROVE  BillInv' /\ \A x \in BillDialogs : bill.buying[x] => bill'.buying[x]
<1>1. bill \in BillPage /\ bill.buying \in [BillDialogs -> BOOLEAN] /\ bill.asked \in Nat
      BY DEF BillInv, BillTyped, BillPage
<1> DEFINE m == [bill EXCEPT !.buying[d] = TRUE]
           e == Bill!Call(1, "order", d, TRUE)
<1>2. m \in BillPage /\ m.buying = [bill.buying EXCEPT ![d] = TRUE]
      BY <1>1 DEF BillPage
<1>3. e \in BillCall /\ e.kind = "order" /\ e.dialog = d /\ e.buys
      BY <1>1 DEF Bill!Call, BillCall, BillPage
<1>4. bill' = Bill!Asked(Bill!Spent(m), 1) /\ billCalls' = billCalls \cup {e} /\ billServer' = billServer /\ ~bill.buying[d]
      BY DEF Bill!HandleBuy
<1> HIDE DEF m, e
<1>5. bill' \in BillPage /\ bill'.asked # 0 /\ bill'.buying = [bill.buying EXCEPT ![d] = TRUE]
      BY <1>2, <1>4, BillSpendsAsking
<1>6. BillTyped'
      BY <1>3, <1>4, <1>5 DEF BillInv, BillTyped
<1>7. ASSUME NEW c \in billCalls' PROVE BillWell(c)'
      BY <1>3, <1>4, <1>7 DEF BillInv, BillWell
<1>8. ASSUME NEW x \in BillDialogs PROVE BillOne(x)'
  <2>1. CASE x = d
    <3>1. BillBuys(billCalls', d) = {e}
          BY <1>3, <1>4 DEF BillBuys, BillInv, BillOne
    <3> QED BY <1>1, <1>5, <2>1, <3>1 DEF BillOne
  <2>2. CASE x # d
    <3>1. BillBuys(billCalls', x) = BillBuys(billCalls, x) /\ bill'.buying[x] = bill.buying[x]
          BY <1>1, <1>3, <1>4, <1>5, <2>2 DEF BillBuys
    <3> QED BY <3>1 DEF BillInv, BillOne
  <2> QED BY <2>1, <2>2
<1> QED BY <1>1, <1>5, <1>6, <1>7, <1>8 DEF BillInv

LEMMA BillStep ==
  ASSUME BillInv, [Bill!Next]_BillAll
  PROVE  /\ BillInv'
         /\ \A d \in BillDialogs : bill.buying[d] /\ ~bill'.buying[d] /\ bill'.told = "bought"
                                      => bill'.shown[d] = billServer.paid[d]
<1>1. CASE UNCHANGED BillAll
      BY <1>1 DEF BillAll, BillInv, BillTyped, BillWell, BillOne, BillBuys
<1>2. ASSUME NEW d \in BillDialogs, NEW r \in {"day", "week", "month"},
             Bill!Mount \/ Bill!ThrottleEnds \/ Bill!Open(d) \/ Bill!Close(d) \/ Bill!NotifyPaymentRequired(d)
               \/ Bill!LoadStats(r)
      PROVE  BillInv' /\ bill'.buying = bill.buying
      BY <1>2, BillShows
<1>3. CASE Bill!Mount \/ Bill!ThrottleEnds
  <2>1. "token" \in BillDialogs /\ "day" \in {"day", "week", "month"}
        BY DEF BillDialogs
  <2> QED BY <1>2, <1>3, <2>1
<1>4. ASSUME NEW d \in Bill!Dialogs, Bill!Open(d) \/ Bill!Close(d) \/ Bill!NotifyPaymentRequired(d)
      PROVE  BillInv' /\ bill'.buying = bill.buying
  <2>1. d \in BillDialogs /\ "day" \in {"day", "week", "month"}
        BY BillNames
  <2> QED BY <1>2, <1>4, <2>1
<1>5. ASSUME NEW d \in Bill!Dialogs, Bill!HandleBuy(d)
      PROVE  BillInv' /\ \A x \in BillDialogs : bill.buying[x] => bill'.buying[x]
      BY <1>5, BillNames, BillBegins
<1>6. ASSUME NEW r \in Bill!Ranges, Bill!LoadStats(r) PROVE BillInv' /\ bill'.buying = bill.buying
  <2>1. r \in {"day", "week", "month"} /\ "token" \in BillDialogs
        BY BillNames DEF BillDialogs
  <2> QED BY <1>2, <1>6, <2>1
<1>7. ASSUME NEW c \in billCalls, Bill!StatsLoaded(c) \/ Bill!ServerReads(c) \/ Bill!RecordsLoaded(c)
      PROVE  BillInv' /\ bill'.buying = bill.buying
      BY <1>7, BillAnswers
<1>8. ASSUME NEW c \in billCalls, Bill!ServerSells(c) \/ Bill!Ordered(c)
      PROVE  BillInv' /\ bill'.buying = bill.buying
      BY <1>8, BillBuysOn
<1>9. ASSUME NEW c \in billCalls, Bill!Fetched(c) \/ Bill!FetchFails(c) \/ Bill!OrderFails(c)
      PROVE  /\ BillInv'
             /\ \A d \in BillDialogs : bill.buying[d] /\ ~bill'.buying[d] /\ bill'.told = "bought"
                                          => bill'.shown[d] = billServer.paid[d]
      BY <1>9, BillAnswers, BillIsDone
<1> QED BY <1>1, <1>3, <1>4, <1>5, <1>6, <1>7, <1>8, <1>9 DEF Bill!Next, BillAll

(* Whoever is told "bought" sees the amount that was read after the order  *)
(* was paid, however many purchases fail or answers overtake each other    *)
(* (token-store, buyPack).                                                 *)
THEOREM BoughtMeansPaid ==
  ASSUME BillMaxEvents \in Nat
  PROVE  Bill!Spec => Bill!BoughtIsShown /\ []Bill!BillBusyIsHonest
<1>1. BillInv /\ [Bill!Next]_BillAll => BillInv'
      BY BillStep
<1>2. BillInv /\ [Bill!Next]_BillAll =>
        [\A d \in Bill!Dialogs : bill.buying[d] /\ ~bill'.buying[d] /\ bill'.told = "bought"
                                    => bill'.shown[d] = billServer.paid[d]]_BillAll
      BY BillStep, BillNames
<1> QED BY <1>1, <1>2, BillStarts, BillHonest, PTL DEF Bill!Spec, Bill!BoughtIsShown, Bill!billVars, BillAll

-----------------------------------------------------------------------------
(* Pictures asked for and the notices of their tasks (TaskNotices).  The   *)
(* calls are records of several shapes: each has what its kind needs.      *)
NoteAll == <<note, noteServer, noteCalls>>
NoteEnded == {"success", "dead_letter", "cancelled"}
NoteStatus == {"pending", "running", "success", "dead_letter", "cancelled"}
NoteFields ==
  {"watching", "tasks", "timers", "images", "generating", "prefab", "editor", "scope", "loading", "records", "listed",
   "asked", "left"}
NoteThere == DOMAIN noteServer.tasks
NoteOver(t) == t \in NoteThere /\ noteServer.tasks[t] \in NoteEnded
NoteServerTyped == noteServer \in [tasks : Seq(NoteStatus), records : SUBSET Nat]

(* Whatever a call or a notice says has ended has ended on the server.     *)
NoteCall(c) ==
  /\ {"kind", "id", "read"} \subseteq DOMAIN c
  /\ c.kind = "create" => "task" \in DOMAIN c /\ (c.read => c.task \in NoteThere)
  /\ c.kind = "list" =>
       /\ {"of", "statuses"} \subseteq DOMAIN c /\ c.of \subseteq NoteThere
       /\ c.read => \A t \in c.of : c.statuses[t] \in NoteEnded => NoteOver(t)
  /\ c.kind = "cancel" => {"task", "ok"} \subseteq DOMAIN c /\ c.task \in NoteThere /\ (c.read /\ c.ok => NoteOver(c.task))
  /\ c.kind = "event" => NoteOver(c.id)
NoteShown ==
  /\ DOMAIN note.tasks \subseteq NoteThere /\ (\A t \in note.timers : NoteOver(t))
  /\ \A t \in DOMAIN note.tasks : note.tasks[t] \in NoteEnded => t \in note.timers
NoteOut(kinds) == \E c \in noteCalls : c.kind \in kinds
NoteBusy ==
  /\ note.generating => NoteOut({"create", "poll"})
  /\ note.loading => NoteOut({"records"}) 
  /\ note.prefab => NoteOut({"prefab"})
NoteInv ==
  /\ DOMAIN note = NoteFields /\ NoteServerTyped /\ (\A c \in noteCalls : NoteCall(c)) /\ NoteShown /\ NoteBusy

LEMMA NoteTells == NoteInv => Note!NoteBusyIsHonest /\ Note!NoticesTellTheTruth
<1> SUFFICES ASSUME NoteInv PROVE Note!NoteBusyIsHonest /\ Note!NoticesTellTheTruth
    OBVIOUS
<1>1. Note!NoteBusyIsHonest
      BY DEF NoteInv, NoteBusy, NoteOut, Note!NoteBusyIsHonest
<1>2. Note!NoticesTellTheTruth
      BY DEF NoteInv, NoteShown, NoteOver, NoteEnded, Note!NoticesTellTheTruth, Note!Ended
<1> QED BY <1>1, <1>2

LEMMA NoteStarts == Note!Init => NoteInv
<1> SUFFICES ASSUME Note!Init PROVE NoteInv
    OBVIOUS
<1>1. DOMAIN note = NoteFields /\ note.tasks = <<>> /\ note.timers = {} /\ ~note.generating /\ ~note.loading /\ ~note.prefab
      BY DEF Note!Init, NoteFields
<1>2. NoteServerTyped /\ noteServer.tasks = <<>> /\ noteCalls = {}
      BY DEF Note!Init, NoteServerTyped
<1> QED BY <1>1, <1>2 DEF NoteInv, NoteShown, NoteBusy

(* What has ended stays so, and so what is known of it.                    *)
NoteGrows == NoteServerTyped' /\ NoteThere \subseteq NoteThere' /\ \A t \in NoteThere : NoteOver(t) => NoteOver(t)'
LEMMA NoteCallsStay ==
  ASSUME NoteInv, NoteGrows, \A c \in noteCalls' : c \in noteCalls \/ NoteCall(c)'
  PROVE  \A c \in noteCalls' : NoteCall(c)'
<1>1. ASSUME NEW c \in noteCalls PROVE NoteCall(c)'
  <2>1. NoteCall(c)
        BY DEF NoteInv
  <2>2. \A t : NoteOver(t) => NoteOver(t)'
        BY DEF NoteGrows, NoteOver
  <2> QED BY <2>1, <2>2 DEF NoteCall, NoteGrows
<1> QED BY <1>1

LEMMA NoteSame == ASSUME NoteInv, noteServer' = noteServer PROVE NoteGrows
  BY DEF NoteInv, NoteGrows, NoteServerTyped, NoteThere, NoteOver

(* The notices stay as they are.                                           *)
NoteRest == note'.tasks = note.tasks /\ note'.timers = note.timers /\ DOMAIN note' = NoteFields
LEMMA NoteRests == ASSUME NoteInv, NoteGrows, NoteRest PROVE NoteShown'
  BY DEF NoteInv, NoteShown, NoteGrows, NoteRest, NoteOver

(* The server moves on, the page waits.                                    *)
LEMMA NoteServes ==
  ASSUME NoteInv, note' = note, NoteGrows, \A c \in noteCalls' : c \in noteCalls \/ NoteCall(c)',
         \A c \in noteCalls : \E e \in noteCalls' : e.kind = c.kind
  PROVE  NoteInv' /\ note'.tasks = note.tasks
<1>1. \A c \in noteCalls' : NoteCall(c)'
      BY NoteCallsStay
<1>2. NoteShown' /\ DOMAIN note' = NoteFields
      BY NoteRests DEF NoteInv, NoteRest
<1>3. NoteBusy'
      BY DEF NoteInv, NoteBusy, NoteOut
<1> QED BY <1>1, <1>2, <1>3 DEF NoteInv, NoteGrows

LEMMA NoteSetting ==
  ASSUME NoteInv, NEW t \in NoteThere, NEW status \in NoteStatus, ~NoteOver(t), NEW records \in SUBSET Nat,
         noteServer' = [noteServer EXCEPT !.tasks[t] = status, !.records = records]
  PROVE  NoteGrows /\ noteServer'.tasks[t] = status /\ NoteThere' = NoteThere
<1>1. noteServer.tasks \in Seq(NoteStatus) /\ t \in DOMAIN noteServer.tasks /\ DOMAIN noteServer = {"tasks", "records"}
      BY DEF NoteInv, NoteServerTyped, NoteThere
<1> DEFINE m == [noteServer.tasks EXCEPT ![t] = status]
<1>2. m \in Seq(NoteStatus) /\ DOMAIN m = DOMAIN noteServer.tasks /\ m[t] = status
         /\ \A u \in DOMAIN m : u # t => m[u] = noteServer.tasks[u]
      BY <1>1
<1>3. noteServer'.tasks = m /\ noteServer'.records = records
      BY <1>1
<1>4. noteServer' = [tasks |-> m, records |-> records]
      BY <1>1
<1> HIDE DEF m
<1>5. NoteServerTyped'
      BY <1>2, <1>4 DEF NoteServerTyped
<1> QED BY <1>1, <1>2, <1>3, <1>5 DEF NoteGrows, NoteThere, NoteOver

LEMMA NoteRuns ==
  ASSUME NoteInv, NEW t \in NoteThere, Note!ServerRuns(t)
  PROVE  NoteInv' /\ note'.tasks = note.tasks
<1>1. PICK status \in {"running", "success", "dead_letter"} : Note!Reached(t, status) /\ ~NoteOver(t) /\ note' = note
      BY DEF Note!ServerRuns, NoteOver, NoteEnded
<1> DEFINE records == IF status = "success" THEN noteServer.records \cup {t} ELSE noteServer.records
           e == [kind |-> "event", id |-> t, read |-> TRUE, status |-> status]
<1>2. records \in SUBSET Nat /\ status \in NoteStatus
      BY DEF NoteInv, NoteServerTyped, NoteThere, NoteStatus
<1>3. noteServer' = [noteServer EXCEPT !.tasks[t] = status, !.records = records]
      BY <1>1 DEF Note!Reached, NoteInv, NoteServerTyped
<1>4. noteCalls' = noteCalls \cup (IF status \in NoteEnded THEN {e} ELSE {})
      BY <1>1 DEF Note!Reached, NoteEnded, Note!Ended
<1> HIDE DEF records
<1>5. NoteGrows /\ noteServer'.tasks[t] = status /\ NoteThere' = NoteThere
      BY <1>1, <1>2, <1>3, NoteSetting
<1>6. status \in NoteEnded => NoteCall(e)'
      BY <1>5 DEF NoteCall, NoteOver
<1> HIDE DEF e
<1>7. \A c \in noteCalls' : c \in noteCalls \/ NoteCall(c)'
      BY <1>4, <1>6
<1> QED BY <1>1, <1>4, <1>5, <1>7, NoteServes

LEMMA NoteCreates ==
  ASSUME NoteInv, NEW c \in noteCalls, Note!ServerCreates(c)
  PROVE  NoteInv' /\ note'.tasks = note.tasks
<1> DEFINE tasks == noteServer.tasks
<1>0. PICK e : e = [c EXCEPT !.read = TRUE, !.task = Len(tasks) + 1]
      OBVIOUS
<1>1. tasks \in Seq(NoteStatus) /\ "pending" \in NoteStatus
      BY DEF NoteInv, NoteServerTyped, NoteStatus
<1>2. /\ Append(tasks, "pending") \in Seq(NoteStatus) /\ DOMAIN Append(tasks, "pending") = 1..(Len(tasks) + 1)
      /\ DOMAIN tasks = 1..Len(tasks) /\ \A t \in DOMAIN tasks : Append(tasks, "pending")[t] = tasks[t]
      BY <1>1
<1>3. noteServer' = [noteServer EXCEPT !.tasks = Append(tasks, "pending")] /\ note' = note /\ noteCalls' = (noteCalls \ {c}) \cup {e}
      BY <1>0 DEF Note!ServerCreates, Note!Becomes
<1>4. /\ noteServer'.tasks = Append(tasks, "pending")
      /\ noteServer' = [tasks |-> Append(tasks, "pending"), records |-> noteServer.records]
      BY <1>3 DEF NoteInv, NoteServerTyped
<1>5. NoteServerTyped'
      BY <1>2, <1>4 DEF NoteInv, NoteServerTyped
<1>6. NoteGrows /\ Len(tasks) + 1 \in NoteThere'
  <2>1. Len(tasks) \in Nat
        BY <1>1
  <2> QED BY <1>2, <1>4, <1>5, <2>1 DEF NoteGrows, NoteThere, NoteOver
<1>7. NoteCall(c) /\ c.kind = "create"
      BY DEF NoteInv, Note!ServerCreates
<1>8. e.kind = "create" /\ DOMAIN e = DOMAIN c /\ e.task = Len(tasks) + 1
      BY <1>0, <1>7 DEF NoteCall
<1> HIDE DEF tasks
<1>9. NoteCall(e)'
      BY <1>6, <1>7, <1>8 DEF NoteCall
<1>10. \A b \in noteCalls' : b \in noteCalls \/ NoteCall(b)'
      BY <1>3, <1>9
<1>11. \A b \in noteCalls : \E f \in noteCalls' : f.kind = b.kind
      BY <1>3, <1>7, <1>8
<1> QED BY <1>3, <1>6, <1>10, <1>11, NoteServes

LEMMA NoteAnswers ==
  ASSUME NoteInv, NEW c \in noteCalls, Note!ServerTells(c) \/ Note!ServerLists(c) \/ Note!ServerTellsRecords(c)
  PROVE  NoteInv' /\ note'.tasks = note.tasks
<1>1. PICK e : /\ noteCalls' = (noteCalls \ {c}) \cup {e}
               /\ \/ c.kind = "poll" /\ e = [c EXCEPT !.read = TRUE, !.status = noteServer.tasks[c.task]]
                  \/ c.kind = "list" /\ e = [c EXCEPT !.read = TRUE, !.statuses = noteServer.tasks]
                  \/ c.kind = "records" /\ e = [c EXCEPT !.read = TRUE, !.records = noteServer.records]
      BY DEF Note!ServerTells, Note!ServerLists, Note!ServerTellsRecords, Note!Becomes
<1>2. note' = note /\ noteServer' = noteServer
      BY DEF Note!ServerTells, Note!ServerLists, Note!ServerTellsRecords
<1>3. NoteCall(c) /\ NoteGrows
      BY <1>2, NoteSame DEF NoteInv
<1>4. DOMAIN e = DOMAIN c /\ e.kind = c.kind
      BY <1>1, <1>3 DEF NoteCall
<1>5. c.kind = "list" => e.of = c.of /\ e.statuses = noteServer.tasks
      BY <1>1, <1>3 DEF NoteCall
<1>6. NoteCall(e)'
      BY <1>1, <1>2, <1>3, <1>4, <1>5 DEF NoteCall, NoteOver, NoteThere
<1>7. \A b \in noteCalls' : b \in noteCalls \/ NoteCall(b)'
      BY <1>1, <1>6
<1>8. \A b \in noteCalls : \E f \in noteCalls' : f.kind = b.kind
      BY <1>1, <1>4
<1> QED BY <1>2, <1>3, <1>7, <1>8, NoteServes

LEMMA NoteCancels ==
  ASSUME NoteInv, NEW c \in noteCalls, Note!ServerCancels(c)
  PROVE  NoteInv' /\ note'.tasks = note.tasks
<1>1. NoteCall(c) /\ c.kind = "cancel" /\ note' = note
      BY DEF NoteInv, Note!ServerCancels
<1>2. PICK ok \in BOOLEAN : ok <=> noteServer.tasks[c.task] \in {"pending", "running"}
  <2>1. CASE noteServer.tasks[c.task] \in {"pending", "running"}
        BY <2>1
  <2>2. CASE noteServer.tasks[c.task] \notin {"pending", "running"}
        BY <2>2
  <2> QED BY <2>1, <2>2
<1>3. PICK e : e = [c EXCEPT !.read = TRUE, !.ok = ok]
      OBVIOUS
<1>4. PICK told : told = [kind |-> "event", id |-> c.task, read |-> TRUE, status |-> "cancelled"]
      OBVIOUS
<1>5. DOMAIN e = DOMAIN c /\ e.kind = c.kind /\ e.task = c.task /\ e.ok = ok /\ c.task \in NoteThere
      BY <1>1, <1>3 DEF NoteCall
<1>6. {"kind", "id", "read"} \subseteq DOMAIN told /\ told.kind = "event" /\ told.id = c.task
      BY <1>4
<1>7. CASE ok
  <2>1. noteServer' = [noteServer EXCEPT !.tasks[c.task] = "cancelled"] /\ noteCalls' = (noteCalls \ {c}) \cup {e, told}
        BY <1>2, <1>3, <1>4, <1>7 DEF Note!ServerCancels, Note!Active
  <2>2. noteServer' = [noteServer EXCEPT !.tasks[c.task] = "cancelled", !.records = noteServer.records]
        BY <2>1 DEF NoteInv, NoteServerTyped
  <2>3. ~NoteOver(c.task) /\ "cancelled" \in NoteStatus /\ noteServer.records \in SUBSET Nat
        BY <1>2, <1>7 DEF NoteOver, NoteEnded, NoteStatus, NoteInv, NoteServerTyped
  <2>4. NoteGrows /\ noteServer'.tasks[c.task] = "cancelled" /\ NoteThere' = NoteThere
        BY <1>5, <2>2, <2>3, NoteSetting
  <2>5. NoteCall(e)' /\ NoteCall(told)'
        BY <1>1, <1>5, <1>6, <2>4 DEF NoteCall, NoteOver, NoteEnded
  <2>6. \A b \in noteCalls' : b \in noteCalls \/ NoteCall(b)'
        BY <2>1, <2>5
  <2>7. \A b \in noteCalls : \E f \in noteCalls' : f.kind = b.kind
        BY <2>1, <1>5
  <2> QED BY <1>1, <2>4, <2>6, <2>7, NoteServes
<1>8. CASE ~ok
  <2>1. noteServer' = noteServer /\ noteCalls' = (noteCalls \ {c}) \cup {e}
        BY <1>2, <1>3, <1>8 DEF Note!ServerCancels, Note!Active, Note!Becomes
  <2>2. NoteGrows
        BY <2>1, NoteSame
  <2>3. NoteCall(e)'
        BY <1>1, <1>5, <1>8, <2>1 DEF NoteCall, NoteThere
  <2>4. \A b \in noteCalls' : b \in noteCalls \/ NoteCall(b)'
        BY <2>1, <2>3
  <2>5. \A b \in noteCalls : \E f \in noteCalls' : f.kind = b.kind
        BY <2>1, <1>5
  <2> QED BY <1>1, <2>2, <2>4, <2>5, NoteServes
<1> QED BY <1>2, <1>7, <1>8

(* The page asks, or hears what does not touch the notices.                *)
LEMMA NoteStays ==
  ASSUME NoteInv, noteServer' = noteServer, NoteRest, \A c \in noteCalls' : c \in noteCalls \/ NoteCall(c)', NoteBusy'
  PROVE  NoteInv' /\ note'.tasks = note.tasks
<1>1. NoteGrows
      BY NoteSame
<1>2. NoteShown' /\ \A c \in noteCalls' : NoteCall(c)'
      BY <1>1, NoteRests, NoteCallsStay
<1> QED BY <1>1, <1>2 DEF NoteInv, NoteGrows, NoteRest

LEMMA NoteAsks ==
  ASSUME NoteInv, NEW m, NEW e, Note!Ask(m, e), noteServer' = noteServer, NoteCall(e), DOMAIN m = NoteFields,
         m.tasks = note.tasks, m.timers = note.timers,
         m.generating => note.generating \/ e.kind = "create", m.loading => note.loading \/ e.kind = "records",
         m.prefab => note.prefab \/ e.kind = "prefab"
  PROVE  NoteInv' /\ note'.tasks = note.tasks
<1>1. /\ NoteRest /\ noteCalls' = noteCalls \cup {e}
      /\ note'.generating = m.generating /\ note'.loading = m.loading /\ note'.prefab = m.prefab
      BY DEF Note!Ask, NoteRest, NoteFields
<1>2. NoteBusy'
      BY <1>1 DEF NoteInv, NoteBusy, NoteOut
<1>3. NoteCall(e)'
      BY DEF NoteCall, NoteOver, NoteThere
<1> QED BY <1>1, <1>2, <1>3, NoteStays

LEMMA NoteHears ==
  ASSUME NoteInv, NEW c \in noteCalls, noteCalls' = noteCalls \ {c}, noteServer' = noteServer, NoteRest,
         note'.generating => note.generating /\ c.kind \notin {"create", "poll"},
         note'.loading => note.loading /\ c.kind # "records", note'.prefab => note.prefab /\ c.kind # "prefab"
  PROVE  NoteInv' /\ note'.tasks = note.tasks
<1>1. NoteBusy'
      BY DEF NoteInv, NoteBusy, NoteOut
<1> QED BY <1>1, NoteStays

LEMMA NoteSpends ==
  ASSUME NEW m, DOMAIN m = NoteFields
  PROVE  /\ DOMAIN Note!Spent(m) = NoteFields /\ Note!Spent(m).tasks = m.tasks /\ Note!Spent(m).timers = m.timers
         /\ Note!Spent(m).generating = m.generating /\ Note!Spent(m).loading = m.loading
         /\ Note!Spent(m).prefab = m.prefab
  BY DEF Note!Spent, NoteFields

LEMMA NoteWishes ==
  ASSUME NoteInv, NEW t, NEW s,
         Note!HandleGenerate \/ Note!WatchPolls \/ Note!Cancel(t) \/ Note!SetHistoryScope(s) \/ Note!HandleDeleteRecord(t)
           \/ Note!HandleAutoPrefab
  PROVE  NoteInv' /\ note'.tasks = note.tasks
<1>1. DOMAIN note = NoteFields /\ Note!Actives \subseteq NoteThere
      BY DEF NoteInv, NoteShown, Note!Actives
<1>2. CASE Note!HandleGenerate
  <2>1. PICK m, e : /\ Note!Ask(Note!Spent(m), e) /\ noteServer' = noteServer /\ m = [note EXCEPT !.generating = TRUE]
                    /\ e = [kind |-> "create", id |-> note.asked + 1, read |-> FALSE, task |-> 0]
        BY <1>2 DEF Note!HandleGenerate
  <2>2. DOMAIN m = NoteFields /\ m.tasks = note.tasks /\ m.timers = note.timers /\ m.loading = note.loading /\ m.prefab = note.prefab
        BY <1>1, <2>1 DEF NoteFields
  <2>3. NoteCall(e) /\ e.kind = "create"
        BY <2>1 DEF NoteCall
  <2> DEFINE p == Note!Spent(m)
  <2>4. DOMAIN p = NoteFields /\ p.tasks = note.tasks /\ p.timers = note.timers
        BY <2>2, NoteSpends
  <2>5. (p.loading => note.loading) /\ (p.prefab => note.prefab)
        BY <2>2, NoteSpends
  <2>6. Note!Ask(p, e) /\ noteServer' = noteServer
        BY <2>1
  <2> HIDE DEF p
  <2> QED BY <2>3, <2>4, <2>5, <2>6, NoteAsks
<1>3. CASE Note!WatchPolls
  <2>1. PICK e : /\ Note!Ask(Note!Spent(note), e) /\ noteServer' = noteServer
                 /\ e = [kind |-> "list", id |-> note.asked + 1, read |-> FALSE, of |-> Note!Actives, statuses |-> <<>>]
        BY <1>3 DEF Note!WatchPolls
  <2>2. NoteCall(e) /\ e.kind = "list"
        BY <1>1, <2>1 DEF NoteCall
  <2> QED BY <1>1, <2>1, <2>2, NoteSpends, NoteAsks
<1>4. CASE Note!Cancel(t)
  <2>1. PICK e : /\ Note!Ask(Note!Spent(note), e) /\ noteServer' = noteServer /\ t \in Note!Actives
                 /\ e = [kind |-> "cancel", id |-> note.asked + 1, read |-> FALSE, task |-> t, ok |-> FALSE]
        BY <1>4 DEF Note!Cancel
  <2>2. NoteCall(e) /\ e.kind = "cancel"
        BY <1>1, <2>1 DEF NoteCall
  <2> QED BY <1>1, <2>1, <2>2, NoteSpends, NoteAsks
<1>5. CASE Note!SetHistoryScope(s)
  <2>1. PICK m, e : /\ Note!Ask(Note!Spent(m), e) /\ noteServer' = noteServer
                    /\ m = [note EXCEPT !.scope = s, !.loading = TRUE] /\ e = Note!RecordsOf(s)
        BY <1>5 DEF Note!SetHistoryScope
  <2>2. /\ DOMAIN m = NoteFields /\ m.tasks = note.tasks /\ m.timers = note.timers
        /\ m.generating = note.generating /\ m.prefab = note.prefab
        BY <1>1, <2>1 DEF NoteFields
  <2>3. NoteCall(e) /\ e.kind = "records"
        BY <2>1 DEF NoteCall, Note!RecordsOf
  <2> DEFINE p == Note!Spent(m)
  <2>4. DOMAIN p = NoteFields /\ p.tasks = note.tasks /\ p.timers = note.timers
        BY <2>2, NoteSpends
  <2>5. (p.generating => note.generating) /\ (p.prefab => note.prefab)
        BY <2>2, NoteSpends
  <2>6. Note!Ask(p, e) /\ noteServer' = noteServer
        BY <2>1
  <2> HIDE DEF p
  <2> QED BY <2>3, <2>4, <2>5, <2>6, NoteAsks
<1>6. CASE Note!HandleDeleteRecord(t)
  <2>1. PICK e : /\ Note!Ask(Note!Spent(note), e) /\ noteServer' = noteServer
                 /\ e = [kind |-> "delete", id |-> note.asked + 1, read |-> FALSE, record |-> t]
        BY <1>6 DEF Note!HandleDeleteRecord
  <2>2. NoteCall(e)
        BY <2>1 DEF NoteCall
  <2> QED BY <1>1, <2>1, <2>2, NoteSpends, NoteAsks
<1>7. CASE Note!HandleAutoPrefab
  <2>1. PICK m, e : /\ Note!Ask(Note!Spent(m), e) /\ noteServer' = noteServer /\ m = [note EXCEPT !.prefab = TRUE]
                    /\ e = [kind |-> "prefab", id |-> note.asked + 1, read |-> FALSE]
        BY <1>7 DEF Note!HandleAutoPrefab
  <2>2. /\ DOMAIN m = NoteFields /\ m.tasks = note.tasks /\ m.timers = note.timers
        /\ m.generating = note.generating /\ m.loading = note.loading
        BY <1>1, <2>1 DEF NoteFields
  <2>3. NoteCall(e) /\ e.kind = "prefab"
        BY <2>1 DEF NoteCall
  <2> DEFINE p == Note!Spent(m)
  <2>4. DOMAIN p = NoteFields /\ p.tasks = note.tasks /\ p.timers = note.timers
        BY <2>2, NoteSpends
  <2>5. (p.generating => note.generating) /\ (p.loading => note.loading)
        BY <2>2, NoteSpends
  <2>6. Note!Ask(p, e) /\ noteServer' = noteServer
        BY <2>1
  <2> HIDE DEF p
  <2> QED BY <2>3, <2>4, <2>5, <2>6, NoteAsks
<1> QED BY <1>2, <1>3, <1>4, <1>5, <1>6, <1>7

LEMMA NoteQuiet ==
  ASSUME NoteInv, Note!StartWatch \/ Note!CloseEditor
  PROVE  NoteInv' /\ note'.tasks = note.tasks
<1>1. /\ noteCalls' = noteCalls /\ noteServer' = noteServer /\ NoteRest
      /\ note'.generating = note.generating /\ note'.loading = note.loading /\ note'.prefab = note.prefab
      BY DEF Note!StartWatch, Note!CloseEditor, NoteInv, NoteRest, NoteFields
<1>2. NoteBusy'
      BY <1>1 DEF NoteInv, NoteBusy, NoteOut
<1> QED BY <1>1, <1>2, NoteStays

(* An answer, or none: what waited for it waits no more.                   *)
LEMMA NoteFails ==
  ASSUME NoteInv, NEW c \in noteCalls,
         Note!CreateFails(c) \/ Note!PollFails(c) \/ Note!Dropped(c) \/ Note!EventLost(c) \/ Note!FetchRecordsFails(c)
  PROVE  NoteInv' /\ note'.tasks = note.tasks
<1>1. DOMAIN note = NoteFields
      BY DEF NoteInv
<1>2. noteCalls' = noteCalls \ {c} /\ noteServer' = noteServer
      BY DEF Note!CreateFails, Note!PollFails, Note!Dropped, Note!EventLost, Note!FetchRecordsFails, Note!Done
<1>3. CASE Note!CreateFails(c)
  <2>1. PICK m : m = [note EXCEPT !.generating = FALSE]
        OBVIOUS
  <2>2. note' = Note!Spent(m) /\ c.kind = "create"
        BY <1>3, <2>1 DEF Note!CreateFails
  <2>3. /\ DOMAIN m = NoteFields /\ m.tasks = note.tasks /\ m.timers = note.timers
        /\ ~m.generating /\ m.loading = note.loading /\ m.prefab = note.prefab
        BY <1>1, <2>1 DEF NoteFields
  <2> QED BY <1>2, <2>2, <2>3, NoteSpends, NoteHears DEF NoteRest
<1>4. CASE Note!PollFails(c)
  <2>1. PICK m : m = [note EXCEPT !.images[c.task] = "failed", !.generating = FALSE]
        OBVIOUS
  <2>2. note' = Note!Spent(m) /\ c.kind = "poll"
        BY <1>4, <2>1 DEF Note!PollFails
  <2>3. /\ DOMAIN m = NoteFields /\ m.tasks = note.tasks /\ m.timers = note.timers
        /\ ~m.generating /\ m.loading = note.loading /\ m.prefab = note.prefab
        BY <1>1, <2>1 DEF NoteFields
  <2> QED BY <1>2, <2>2, <2>3, NoteSpends, NoteHears DEF NoteRest
<1>5. CASE Note!Dropped(c) \/ Note!EventLost(c)
  <2>1. note' = Note!Spent(note) /\ c.kind \in {"list", "cancel", "event"}
        BY <1>5 DEF Note!Dropped, Note!EventLost
  <2> QED BY <1>1, <1>2, <2>1, NoteSpends, NoteHears DEF NoteRest
<1>6. CASE Note!FetchRecordsFails(c)
  <2>1. PICK m : m = [note EXCEPT !.records = {}, !.loading = FALSE]
        OBVIOUS
  <2>2. note' = Note!Spent(m) /\ c.kind = "records"
        BY <1>6, <2>1 DEF Note!FetchRecordsFails
  <2>3. /\ DOMAIN m = NoteFields /\ m.tasks = note.tasks /\ m.timers = note.timers
        /\ ~m.loading /\ m.generating = note.generating /\ m.prefab = note.prefab
        BY <1>1, <2>1 DEF NoteFields
  <2> QED BY <1>2, <2>2, <2>3, NoteSpends, NoteHears DEF NoteRest
<1> QED BY <1>3, <1>4, <1>5, <1>6

LEMMA NoteFetches ==
  ASSUME NoteInv, NEW c \in noteCalls, Note!FetchedRecords(c) \/ Note!PrefabAnswered(c)
  PROVE  NoteInv' /\ note'.tasks = note.tasks
<1>1. DOMAIN note = NoteFields
      BY DEF NoteInv
<1>2. noteCalls' = noteCalls \ {c} /\ noteServer' = noteServer
      BY DEF Note!FetchedRecords, Note!PrefabAnswered, Note!Done
<1>3. CASE Note!FetchedRecords(c)
  <2>1. /\ NoteRest /\ ~note'.loading /\ note'.generating = note.generating /\ note'.prefab = note.prefab
        /\ c.kind = "records"
        BY <1>1, <1>3 DEF Note!FetchedRecords, NoteFields, NoteRest
  <2> QED BY <1>2, <2>1, NoteHears
<1>4. CASE Note!PrefabAnswered(c)
  <2>1. PICK m, n : m = [note EXCEPT !.prefab = FALSE, !.editor = TRUE] /\ n = [note EXCEPT !.prefab = FALSE]
        OBVIOUS
  <2>2. (note' = m \/ note' = Note!Spent(n)) /\ c.kind = "prefab"
        BY <1>4, <2>1 DEF Note!PrefabAnswered
  <2>3. /\ DOMAIN m = NoteFields /\ m.tasks = note.tasks /\ m.timers = note.timers
        /\ ~m.prefab /\ m.generating = note.generating /\ m.loading = note.loading
        BY <1>1, <2>1 DEF NoteFields
  <2>4. /\ DOMAIN n = NoteFields /\ n.tasks = note.tasks /\ n.timers = note.timers
        /\ ~n.prefab /\ n.generating = note.generating /\ n.loading = note.loading
        BY <1>1, <2>1 DEF NoteFields
  <2> QED BY <1>2, <2>2, <2>3, <2>4, NoteSpends, NoteHears DEF NoteRest
<1> QED BY <1>3, <1>4

LEMMA NoteDeletes ==
  ASSUME NoteInv, NEW c \in noteCalls, Note!RecordDeleted(c)
  PROVE  NoteInv' /\ note'.tasks = note.tasks
<1>1. DOMAIN note = NoteFields /\ noteCalls' = noteCalls \ {c} /\ c.kind = "delete"
      BY DEF NoteInv, Note!RecordDeleted, Note!Done
<1>2. CASE note' = Note!Spent(note) /\ noteServer' = noteServer
      BY <1>1, <1>2, NoteSpends, NoteHears DEF NoteRest
<1>3. CASE /\ note' = [note EXCEPT !.records = @ \ {c.record}]
           /\ noteServer' = [noteServer EXCEPT !.records = @ \ {c.record}]
  <2>1. NoteRest /\ note'.generating = note.generating /\ note'.loading = note.loading /\ note'.prefab = note.prefab
        BY <1>1, <1>3 DEF NoteFields, NoteRest
  <2>2. noteServer'.tasks = noteServer.tasks /\ NoteServerTyped'
        BY <1>3 DEF NoteInv, NoteServerTyped
  <2>3. NoteGrows
        BY <2>2 DEF NoteGrows, NoteThere, NoteOver
  <2>4. NoteBusy'
        BY <1>1, <2>1 DEF NoteInv, NoteBusy, NoteOut
  <2>5. \A b \in noteCalls' : b \in noteCalls
        BY <1>1
  <2> QED BY <2>1, <2>2, <2>3, <2>4, <2>5, NoteRests, NoteCallsStay DEF NoteInv, NoteRest
<1> QED BY <1>2, <1>3 DEF Note!RecordDeleted

LEMMA NotePolls ==
  ASSUME NoteInv, NEW c \in noteCalls, Note!Polled(c)
  PROVE  NoteInv' /\ note'.tasks = note.tasks
<1>1. DOMAIN note = NoteFields /\ c.kind = "poll" /\ noteServer' = noteServer /\ NoteCall(c)
      BY DEF NoteInv, Note!Polled
<1> DEFINE ended == c.status \in {"success", "dead_letter"}
           timeout == ~ended /\ c.polls >= NoteMaxPolls
<1>2. PICK e : e = [c EXCEPT !.read = FALSE, !.polls = @ + 1]
      OBVIOUS
<1>3. PICK image : image = IF timeout THEN "failed" ELSE c.status
      OBVIOUS
<1>4. /\ note' = [note EXCEPT !.images[c.task] = image, !.generating = @ /\ ~ended /\ ~timeout]
      /\ noteCalls' = (noteCalls \ {c}) \cup (IF ended \/ timeout THEN {} ELSE {e})
      BY <1>2, <1>3 DEF Note!Polled
<1>5. DOMAIN e = DOMAIN c /\ e.kind = "poll"
      BY <1>1, <1>2 DEF NoteCall
<1>6. /\ NoteRest /\ note'.loading = note.loading /\ note'.prefab = note.prefab
      /\ note'.generating => note.generating /\ ~ended /\ ~timeout
      BY <1>1, <1>4 DEF NoteRest, NoteFields
<1> HIDE DEF ended, timeout
<1>7. NoteCall(e)'
      BY <1>1, <1>5 DEF NoteCall
<1>8. NoteBusy'
      BY <1>1, <1>4, <1>5, <1>6 DEF NoteInv, NoteBusy, NoteOut
<1>9. \A b \in noteCalls' : b \in noteCalls \/ NoteCall(b)'
      BY <1>4, <1>7
<1> QED BY <1>1, <1>6, <1>8, <1>9, NoteStays

(* The notices change: what they say is what is known to have ended.       *)
LEMMA NoteChanges ==
  ASSUME NoteInv, noteServer' = noteServer, DOMAIN note' = NoteFields, NoteShown',
         \A c \in noteCalls' : c \in noteCalls \/ NoteCall(c)', NoteBusy'
  PROVE  NoteInv'
<1>1. NoteGrows
      BY NoteSame
<1>2. \A c \in noteCalls' : NoteCall(c)'
      BY <1>1, NoteCallsStay
<1> QED BY <1>1, <1>2 DEF NoteInv, NoteGrows

LEMMA NoteMerges ==
  ASSUME NoteInv, NEW t, NEW status, status \in NoteEnded => NoteOver(t), NEW m, m = Note!Merge(note, t, status)
  PROVE  /\ DOMAIN m = NoteFields /\ DOMAIN m.tasks = DOMAIN note.tasks /\ (\A u \in m.timers : NoteOver(u))
         /\ \A u \in DOMAIN m.tasks : m.tasks[u] \in NoteEnded => u \in m.timers
         /\ m.generating = note.generating /\ m.loading = note.loading /\ m.prefab = note.prefab
<1>1. DOMAIN note = NoteFields /\ NoteShown
      BY DEF NoteInv
<1>2. CASE t \notin DOMAIN note.tasks
      BY <1>1, <1>2 DEF Note!Merge, NoteShown
<1>3. CASE t \in DOMAIN note.tasks
  <2> DEFINE timers == IF status \in NoteEnded THEN note.timers \cup {t} ELSE note.timers
  <2>1. m = [note EXCEPT !.tasks[t] = status, !.timers = timers]
        BY <1>3 DEF Note!Merge, Note!Ended, NoteEnded
  <2>2. m = [note EXCEPT !.tasks = [note.tasks EXCEPT ![t] = status], !.timers = timers]
        BY <2>1
  <2>3. /\ DOMAIN m = NoteFields /\ m.tasks = [note.tasks EXCEPT ![t] = status] /\ m.timers = timers
        /\ m.generating = note.generating /\ m.loading = note.loading /\ m.prefab = note.prefab
        BY <1>1, <2>2 DEF NoteFields
  <2>4. /\ DOMAIN m.tasks = DOMAIN note.tasks /\ m.tasks[t] = status
        /\ \A u \in DOMAIN note.tasks : u # t => m.tasks[u] = note.tasks[u]
        BY <1>3, <2>3
  <2> QED BY <1>1, <2>3, <2>4 DEF NoteShown
<1> QED BY <1>2, <1>3

LEMMA NoteCreated ==
  ASSUME NoteInv, NEW c \in noteCalls, Note!Created(c)
  PROVE  NoteInv' /\ DOMAIN note.tasks \subseteq DOMAIN note'.tasks
<1>1. DOMAIN note = NoteFields /\ NoteShown /\ NoteCall(c) /\ c.kind = "create" /\ c.read /\ noteServer' = noteServer
      BY DEF NoteInv, Note!Created
<1>2. PICK e : e = [kind |-> "poll", id |-> c.id, read |-> FALSE, task |-> c.task, polls |-> 1, status |-> "pending"]
      OBVIOUS
<1>3. PICK m : m = Note!Added(note.tasks, c.task)
      OBVIOUS
<1>4. /\ note' = [note EXCEPT !.images = Note!Added(@, c.task), !.tasks = m]
      /\ noteCalls' = (noteCalls \ {c}) \cup {e}
      BY <1>2, <1>3 DEF Note!Created, Note!Becomes
<1>5. /\ DOMAIN note' = NoteFields /\ note'.tasks = m /\ note'.timers = note.timers
      /\ note'.generating = note.generating /\ note'.loading = note.loading /\ note'.prefab = note.prefab
      BY <1>1, <1>4 DEF NoteFields
<1>6. /\ DOMAIN m = DOMAIN note.tasks \cup {c.task}
      /\ \A u \in DOMAIN m : m[u] = IF u \in DOMAIN note.tasks THEN note.tasks[u] ELSE "pending"
      BY <1>3 DEF Note!Added
<1>7. NoteShown'
      BY <1>1, <1>5, <1>6 DEF NoteShown, NoteCall, NoteThere, NoteOver, NoteEnded
<1>8. NoteCall(e)' /\ e.kind = "poll"
      BY <1>2 DEF NoteCall
<1>9. NoteBusy'
      BY <1>1, <1>4, <1>5, <1>8 DEF NoteInv, NoteBusy, NoteOut
<1>10. \A b \in noteCalls' : b \in noteCalls \/ NoteCall(b)'
      BY <1>4, <1>8
<1> QED BY <1>1, <1>5, <1>6, <1>7, <1>9, <1>10, NoteChanges

LEMMA NoteListed ==
  ASSUME NoteInv, NEW c \in noteCalls, Note!Listed(c)
  PROVE  NoteInv' /\ DOMAIN note.tasks \subseteq DOMAIN note'.tasks
<1>1. /\ DOMAIN note = NoteFields /\ NoteShown /\ NoteCall(c) /\ c.kind = "list" /\ c.read /\ noteServer' = noteServer
      /\ noteCalls' = noteCalls \ {c}
      BY DEF NoteInv, Note!Listed, Note!Done
<1>2. PICK m : m = [t \in DOMAIN note.tasks |-> IF t \in c.of THEN c.statuses[t] ELSE note.tasks[t]]
      OBVIOUS
<1>3. note' = [note EXCEPT !.tasks = m, !.timers = @ \cup {t \in c.of \cap DOMAIN m : m[t] \in NoteEnded}]
      BY <1>2 DEF Note!Listed, Note!Ended, NoteEnded
<1>4. /\ DOMAIN note' = NoteFields /\ note'.tasks = m
      /\ note'.timers = note.timers \cup {t \in c.of \cap DOMAIN m : m[t] \in NoteEnded}
      /\ note'.generating = note.generating /\ note'.loading = note.loading /\ note'.prefab = note.prefab
      BY <1>1, <1>3 DEF NoteFields
<1>5. NoteShown'
      BY <1>1, <1>2, <1>4 DEF NoteShown, NoteCall, NoteThere, NoteOver
<1>6. NoteBusy'
      BY <1>1, <1>4 DEF NoteInv, NoteBusy, NoteOut
<1>7. \A b \in noteCalls' : b \in noteCalls
      BY <1>1
<1> QED BY <1>1, <1>2, <1>4, <1>5, <1>6, <1>7, NoteChanges

LEMMA NoteCancelled ==
  ASSUME NoteInv, NEW c \in noteCalls, Note!Cancelled(c)
  PROVE  NoteInv' /\ DOMAIN note.tasks \subseteq DOMAIN note'.tasks
<1>1. /\ NoteShown /\ NoteCall(c) /\ c.kind = "cancel" /\ c.read /\ noteServer' = noteServer
      /\ noteCalls' = noteCalls \ {c} /\ DOMAIN note = NoteFields
      BY DEF NoteInv, Note!Cancelled, Note!Done
<1>2. CASE c.ok
  <2>1. note' = Note!Merge(note, c.task, "cancelled") /\ NoteOver(c.task)
        BY <1>1, <1>2 DEF Note!Cancelled, NoteCall
  <2>2. PICK m : m = note'
        OBVIOUS
  <2>3. /\ DOMAIN m = NoteFields /\ DOMAIN m.tasks = DOMAIN note.tasks /\ (\A u \in m.timers : NoteOver(u))
        /\ \A u \in DOMAIN m.tasks : m.tasks[u] \in NoteEnded => u \in m.timers
        /\ m.generating = note.generating /\ m.loading = note.loading /\ m.prefab = note.prefab
        BY <2>1, <2>2, NoteMerges
  <2>4. NoteShown'
        BY <1>1, <2>2, <2>3 DEF NoteShown, NoteThere, NoteOver
  <2>5. NoteBusy'
        BY <1>1, <2>2, <2>3 DEF NoteInv, NoteBusy, NoteOut
  <2> QED BY <1>1, <2>2, <2>3, <2>4, <2>5, NoteChanges
<1>3. CASE ~c.ok
  <2>1. note' = note
        BY <1>3 DEF Note!Cancelled
  <2> QED BY <1>1, <2>1, NoteHears DEF NoteRest
<1> QED BY <1>2, <1>3

LEMMA NoteDestroys ==
  ASSUME NoteInv, NEW t, Note!Destroy(t)
  PROVE  NoteInv' /\ \A u \in DOMAIN note.tasks \ DOMAIN note'.tasks : noteServer.tasks[u] \in NoteEnded
<1>1. DOMAIN note = NoteFields /\ NoteShown /\ t \in note.timers /\ noteServer' = noteServer /\ noteCalls' = noteCalls
      BY DEF NoteInv, Note!Destroy
<1>2. note' = [note EXCEPT !.tasks = [u \in DOMAIN note.tasks \ {t} |-> note.tasks[u]], !.timers = note.timers \ {t}]
      BY DEF Note!Destroy
<1>3. /\ DOMAIN note' = NoteFields /\ note'.timers = note.timers \ {t}
      /\ note'.tasks = [u \in DOMAIN note.tasks \ {t} |-> note.tasks[u]]
      /\ note'.generating = note.generating /\ note'.loading = note.loading /\ note'.prefab = note.prefab
      BY <1>1, <1>2 DEF NoteFields
<1>4. NoteShown'
      BY <1>1, <1>3 DEF NoteShown, NoteThere, NoteOver
<1>5. NoteBusy'
      BY <1>1, <1>3 DEF NoteInv, NoteBusy, NoteOut
<1> QED BY <1>1, <1>3, <1>4, <1>5, NoteChanges DEF NoteShown, NoteOver

LEMMA NoteEvents ==
  ASSUME NoteInv, NEW c \in noteCalls, Note!Event(c)
  PROVE  NoteInv' /\ DOMAIN note.tasks \subseteq DOMAIN note'.tasks
<1>1. /\ NoteShown /\ NoteCall(c) /\ c.kind = "event" /\ noteServer' = noteServer /\ DOMAIN note = NoteFields
      BY DEF NoteInv, Note!Event
<1>2. PICK m : m = IF note.watching THEN Note!Merge(note, c.id, c.status) ELSE note
      OBVIOUS
<1>3. /\ DOMAIN m = NoteFields /\ DOMAIN m.tasks = DOMAIN note.tasks /\ (\A u \in m.timers : NoteOver(u))
      /\ \A u \in DOMAIN m.tasks : m.tasks[u] \in NoteEnded => u \in m.timers
      /\ m.generating = note.generating /\ m.loading = note.loading /\ m.prefab = note.prefab
  <2>1. NoteOver(c.id)
        BY <1>1 DEF NoteCall
  <2> QED BY <1>1, <1>2, <2>1, NoteMerges DEF NoteShown
<1>4. CASE c.status = "success"
  <2>1. PICK e : e = Note!RecordsOf("all")
        OBVIOUS
  <2>2. /\ note' = [m EXCEPT !.generating = FALSE, !.loading = TRUE, !.asked = @ + 1,
                             !.images = [t \in DOMAIN @ |-> IF t = c.id THEN "success" ELSE @[t]]]
        /\ noteCalls' = (noteCalls \ {c}) \cup {e}
        BY <1>2, <1>4, <2>1 DEF Note!Event, Note!Becomes
  <2>3. /\ DOMAIN note' = NoteFields /\ note'.tasks = m.tasks /\ note'.timers = m.timers
        /\ ~note'.generating /\ note'.prefab = note.prefab
        BY <1>3, <2>2 DEF NoteFields
  <2>4. NoteShown'
        BY <1>1, <1>3, <2>3 DEF NoteShown, NoteThere, NoteOver
  <2>5. NoteCall(e)' /\ e.kind = "records"
        BY <2>1 DEF Note!RecordsOf, NoteCall
  <2>6. NoteBusy'
        BY <1>1, <2>2, <2>3, <2>5 DEF NoteInv, NoteBusy, NoteOut
  <2>7. \A b \in noteCalls' : b \in noteCalls \/ NoteCall(b)'
        BY <2>2, <2>5
  <2> QED BY <1>1, <1>3, <2>3, <2>4, <2>6, <2>7, NoteChanges
<1>5. CASE c.status # "success"
  <2>1. note' = m /\ noteCalls' = noteCalls \ {c}
        BY <1>2, <1>5 DEF Note!Event, Note!Done
  <2>2. NoteShown'
        BY <1>1, <1>3, <2>1 DEF NoteShown, NoteThere, NoteOver
  <2>3. NoteBusy'
        BY <1>1, <1>3, <2>1 DEF NoteInv, NoteBusy, NoteOut
  <2>4. \A b \in noteCalls' : b \in noteCalls
        BY <2>1
  <2> QED BY <1>1, <1>3, <2>1, <2>2, <2>3, <2>4, NoteChanges
<1> QED BY <1>4, <1>5

LEMMA NoteHeld ==
  ASSUME NoteInv, note' = note, noteServer' = noteServer, noteCalls' = noteCalls
  PROVE  NoteInv' /\ note'.tasks = note.tasks
  BY NoteStays DEF NoteInv, NoteRest, NoteBusy, NoteOut

LEMMA NoteStep ==
  ASSUME NoteInv, [Note!Next]_NoteAll
  PROVE  NoteInv' /\ \A t \in DOMAIN note.tasks \ DOMAIN note'.tasks : noteServer.tasks[t] \in NoteEnded
<1> DEFINE Harmless == \A t \in DOMAIN note.tasks \ DOMAIN note'.tasks : noteServer.tasks[t] \in NoteEnded
<1>1. CASE UNCHANGED NoteAll
      BY <1>1, NoteHeld DEF NoteAll
<1>2. CASE Note!HandleGenerate \/ Note!WatchPolls \/ Note!HandleAutoPrefab
      BY <1>2, NoteWishes
<1>3. CASE Note!StartWatch \/ Note!CloseEditor
      BY <1>3, NoteQuiet
<1>4. ASSUME NEW t \in DOMAIN noteServer.tasks, Note!ServerRuns(t) \/ Note!Cancel(t) \/ Note!HandleDeleteRecord(t)
      PROVE  NoteInv' /\ note'.tasks = note.tasks
      BY <1>4, NoteRuns, NoteWishes DEF NoteThere
<1>5. ASSUME NEW t, Note!Destroy(t) PROVE NoteInv' /\ Harmless
      BY <1>5, NoteDestroys
<1>6. ASSUME NEW s, Note!SetHistoryScope(s) PROVE NoteInv' /\ note'.tasks = note.tasks
      BY <1>6, NoteWishes
<1>7. ASSUME NEW c \in noteCalls,
             Note!ServerCreates(c) \/ Note!ServerTells(c) \/ Note!ServerLists(c) \/ Note!ServerTellsRecords(c) \/ Note!ServerCancels(c)
      PROVE  NoteInv' /\ note'.tasks = note.tasks
      BY <1>7, NoteCreates, NoteAnswers, NoteCancels
<1>8. ASSUME NEW c \in noteCalls,
             Note!CreateFails(c) \/ Note!PollFails(c) \/ Note!Dropped(c) \/ Note!EventLost(c) \/ Note!FetchRecordsFails(c)
               \/ Note!FetchedRecords(c) \/ Note!PrefabAnswered(c) \/ Note!RecordDeleted(c) \/ Note!Polled(c)
      PROVE  NoteInv' /\ note'.tasks = note.tasks
      BY <1>8, NoteFails, NoteFetches, NoteDeletes, NotePolls
<1>9. ASSUME NEW c \in noteCalls, Note!Created(c) \/ Note!Listed(c) \/ Note!Cancelled(c) \/ Note!Event(c)
      PROVE  NoteInv' /\ DOMAIN note.tasks \subseteq DOMAIN note'.tasks
      BY <1>9, NoteCreated, NoteListed, NoteCancelled, NoteEvents
<1> QED BY <1>1, <1>2, <1>3, <1>4, <1>5, <1>6, <1>7, <1>8, <1>9 DEF Note!Next

(* "Generating" and "loading" end, a notice that says a task has ended is  *)
(* right, and none goes before its task has ended, whatever polls, events, *)
(* lists and cancellations overtake each other (task-store, aigc-store).   *)
THEOREM NoticesAreTrue == Note!Spec => Note!NoticesOutliveTheirTask /\ [](Note!NoteBusyIsHonest /\ Note!NoticesTellTheTruth)
<1>1. NoteInv /\ [Note!Next]_NoteAll => NoteInv'
      BY NoteStep
<1>2. NoteInv /\ [Note!Next]_NoteAll =>
        [\A t \in DOMAIN note.tasks \ DOMAIN note'.tasks : noteServer.tasks[t] \in Note!Ended]_NoteAll
      BY NoteStep DEF NoteEnded, Note!Ended
<1> QED BY <1>1, <1>2, NoteStarts, NoteTells, PTL DEF Note!Spec, Note!NoticesOutliveTheirTask, Note!noteVars, NoteAll

-----------------------------------------------------------------------------
(* What the editor asks the AI for (AiTools).  A call has a number of its  *)
(* own; that of the card's run is out while the run is on, and neither     *)
(* stopped nor applied.                                                    *)
ToolAll == <<tool, toolTasks, toolCache, toolCalls>>
ToolFields ==
  {"novel", "inline", "rewrite", "cand", "run", "open", "clues", "stopped", "applied", "inserted", "asked", "left"}
ToolPage(m) ==
  /\ DOMAIN m = ToolFields /\ "on" \in DOMAIN m.inline /\ "on" \in DOMAIN m.rewrite /\ "loading" \in DOMAIN m.cand
  /\ m.asked \in Nat
ToolRuns == {"text", "image"}
ToolCall(c) == {"kind", "id"} \subseteq DOMAIN c /\ c.id \in Nat
ToolIds ==
  /\ \A c \in toolCalls : 0 < c.id /\ c.id <= tool.asked /\ c.id \notin tool.applied
  /\ \A c, e \in toolCalls : c.id = e.id => c = e
  /\ \A t \in tool.applied \cup tool.stopped : t \in Nat /\ t <= tool.asked
  /\ tool.applied \cap tool.stopped = {}
ToolRun ==
  /\ tool.run.on <=> tool.run.task # 0
  /\ tool.run.task # 0 =>
       /\ tool.run.abort = tool.run.task /\ tool.run.task \notin tool.stopped
       /\ \E c \in toolCalls : c.id = tool.run.task /\ c.kind \in ToolRuns
  /\ \A t \in DOMAIN toolTasks : toolTasks[t] = "running" => tool.run.task # 0 /\ t = tool.run.task
ToolOut(kind) == \E c \in toolCalls : c.kind = kind
ToolBusy ==
  /\ tool.inline.on => ToolOut("inline")
  /\ tool.rewrite.on => ToolOut("rewrite")
  /\ tool.cand.loading => tool.cand.visible /\ ToolOut("candidates")
ToolCore == ToolPage(tool) /\ (\A c \in toolCalls : ToolCall(c)) /\ ToolIds /\ ToolRun
ToolInv == ToolCore /\ ToolBusy

LEMMA ToolTells == ToolInv => Tool!ToolBusyIsHonest /\ Tool!CancelledIsNotApplied
<1> SUFFICES ASSUME ToolInv PROVE Tool!ToolBusyIsHonest /\ Tool!CancelledIsNotApplied
    OBVIOUS
<1>1. Tool!CancelledIsNotApplied
      BY DEF ToolInv, ToolCore, ToolIds, Tool!CancelledIsNotApplied
<1>2. \A t \in DOMAIN toolTasks : toolTasks[t] = "running" => \E c \in toolCalls : c.id = t
      BY DEF ToolInv, ToolCore, ToolRun
<1>3. tool.run.on => \E c \in toolCalls : c.id = tool.run.abort /\ ~Tool!Stopped(c)
      BY DEF ToolInv, ToolCore, ToolRun, Tool!Stopped
<1> QED BY <1>1, <1>2, <1>3 DEF ToolInv, ToolBusy, ToolOut, Tool!ToolBusyIsHonest

LEMMA ToolStarts == Tool!Init => ToolInv
<1> SUFFICES ASSUME Tool!Init PROVE ToolInv
    OBVIOUS
<1>1. /\ ToolPage(tool) /\ tool.run = [on |-> FALSE, task |-> 0, abort |-> 0] /\ tool.applied = {} /\ tool.stopped = {}
      /\ ~tool.inline.on /\ ~tool.rewrite.on /\ ~tool.cand.loading
      BY DEF Tool!Init, Tool!None, Tool!NoRun, Tool!NoRewrite, Tool!NoCandidates, ToolPage, ToolFields
<1>2. toolCalls = {} /\ toolTasks = <<>>
      BY DEF Tool!Init
<1> QED BY <1>1, <1>2 DEF ToolInv, ToolCore, ToolIds, ToolRun, ToolBusy

(* The run goes on: another request is made, answered or lost.             *)
ToolSame ==
  /\ tool'.stopped = tool.stopped /\ tool'.applied = tool.applied /\ tool'.run = tool.run /\ toolTasks' = toolTasks
LEMMA ToolAsking ==
  ASSUME ToolCore, ToolPage(tool'), ToolSame, tool'.asked = tool.asked + 1,
         NEW e, ToolCall(e), e.id = tool.asked + 1, toolCalls' = toolCalls \cup {e}
  PROVE  ToolCore'
<1>1. tool.asked \in Nat
      BY DEF ToolCore, ToolPage
<1>2. \A c \in toolCalls : c.id \in Nat /\ c.id <= tool.asked
      BY <1>1 DEF ToolCore, ToolIds, ToolCall
<1>3. tool.asked + 1 \notin tool.applied
      BY <1>1 DEF ToolCore, ToolIds
<1>4. ToolIds'
  <2>1. \A t \in tool.applied \cup tool.stopped : t <= tool.asked + 1
        BY <1>1 DEF ToolCore, ToolIds
  <2> QED BY <1>1, <1>2, <1>3, <2>1 DEF ToolCore, ToolIds, ToolSame
<1>5. ToolRun'
      BY DEF ToolCore, ToolRun, ToolSame
<1> QED BY <1>1, <1>4, <1>5 DEF ToolCore

LEMMA ToolHearing ==
  ASSUME ToolCore, ToolPage(tool'), ToolSame, tool'.asked = tool.asked,
         toolCalls' \subseteq toolCalls, \A c \in toolCalls : c \in toolCalls' \/ c.kind \notin ToolRuns
  PROVE  ToolCore'
<1>1. ToolIds'
      BY DEF ToolCore, ToolIds, ToolSame
<1>2. ToolRun'
      BY DEF ToolCore, ToolRun, ToolSame
<1> QED BY <1>1, <1>2 DEF ToolCore

(* The run ends, whichever call it was that ended it.                      *)
LEMMA ToolFinishing ==
  ASSUME ToolCore, NEW m, ToolPage(m), NEW status, status # "running", Tool!Finish(m, status), m.asked = tool.asked,
         toolCalls' \subseteq toolCalls, m.applied \cap m.stopped = {},
         \A t \in m.applied \cup m.stopped : t \in Nat /\ t <= tool.asked, \A c \in toolCalls' : c.id \notin m.applied
  PROVE  ToolCore' /\ tool' = [m EXCEPT !.run = [on |-> FALSE, task |-> 0, abort |-> 0]]
<1>1. tool' = [m EXCEPT !.run = [on |-> FALSE, task |-> 0, abort |-> 0]]
      BY DEF Tool!Finish, Tool!NoRun, Tool!None
<1>2. /\ ToolPage(tool') /\ tool'.run.task = 0 /\ ~tool'.run.on /\ tool'.applied = m.applied /\ tool'.stopped = m.stopped
      /\ tool'.asked = m.asked
      BY <1>1 DEF ToolPage, ToolFields
<1>3. toolTasks' = IF tool.run.task = 0 THEN toolTasks ELSE [toolTasks EXCEPT ![tool.run.task] = status]
      BY DEF Tool!Finish, Tool!TasksAfter, Tool!None
<1>4. \A t \in DOMAIN toolTasks' : toolTasks'[t] # "running"
      BY <1>3 DEF ToolCore, ToolRun
<1>5. ToolIds'
      BY <1>2 DEF ToolCore, ToolIds
<1>6. ToolRun'
      BY <1>2, <1>4 DEF ToolRun
<1> QED BY <1>1, <1>2, <1>5, <1>6 DEF ToolCore

(* The clues shown change to those of the novel shown.                     *)
ToolClues == tool'.clues # tool.clues => tool'.clues = tool'.novel

LEMMA ToolAsks ==
  ASSUME NEW m, ToolPage(m), NEW kind, NEW n, tool.asked \in Nat, m.asked = tool.asked, NEW e,
         e = Tool!Call(kind, n), Tool!Ask(m, e)
  PROVE  /\ ToolCall(e) /\ e.kind = kind /\ e.id = tool.asked + 1 /\ ToolPage(tool')
         /\ tool'.asked = tool.asked + 1 /\ toolCalls' = toolCalls \cup {e}
         /\ tool'.stopped = m.stopped /\ tool'.applied = m.applied /\ tool'.run = m.run /\ tool'.inline = m.inline
         /\ tool'.rewrite = m.rewrite /\ tool'.cand = m.cand /\ tool'.clues = m.clues /\ tool'.novel = m.novel
<1>1. ToolCall(e) /\ e.kind = kind /\ e.id = tool.asked + 1
      BY DEF Tool!Call, ToolCall
<1>2. tool' = [m EXCEPT !.asked = @ + 1, !.left = @ - 1] /\ toolCalls' = toolCalls \cup {e}
      BY DEF Tool!Ask
<1> QED BY <1>1, <1>2 DEF ToolPage, ToolFields

LEMMA ToolTriggers ==
  ASSUME ToolInv, Tool!TriggerInline \/ Tool!TriggerRewrite \/ Tool!RequestCandidates
  PROVE  ToolInv' /\ ToolClues
<1>1. ToolPage(tool) /\ tool.asked \in Nat /\ toolTasks' = toolTasks
      BY DEF ToolInv, ToolCore, ToolPage, ToolFields, Tool!TriggerInline, Tool!TriggerRewrite, Tool!RequestCandidates, Tool!Others
<1> DEFINE Now(m, kind, e) ==
        /\ Tool!Ask(m, e) /\ e = Tool!Call(kind, Tool!None)
        /\ \/ kind = "inline" /\ m = [tool EXCEPT !.inline = [on |-> TRUE, text |-> Tool!None]]
           \/ kind = "rewrite" /\ m = [tool EXCEPT !.rewrite = [Tool!NoRewrite EXCEPT !.on = TRUE]]
           \/ kind = "candidates"
              /\ m = [tool EXCEPT !.cand = [visible |-> TRUE, loading |-> TRUE, items |-> Tool!None, failed |-> FALSE]]
<1>2. PICK m, kind, e : Now(m, kind, e)
  <2>1. CASE Tool!TriggerInline
        BY <2>1 DEF Tool!TriggerInline
  <2>2. CASE Tool!TriggerRewrite
        BY <2>2 DEF Tool!TriggerRewrite
  <2>3. CASE Tool!RequestCandidates
        BY <2>3 DEF Tool!RequestCandidates
  <2> QED BY <2>1, <2>2, <2>3
<1>3. /\ ToolPage(m) /\ m.asked = tool.asked /\ m.stopped = tool.stopped /\ m.applied = tool.applied
      /\ m.run = tool.run /\ m.clues = tool.clues
      /\ kind # "inline" => m.inline = tool.inline
      /\ kind # "rewrite" => m.rewrite = tool.rewrite
      /\ kind # "candidates" => m.cand = tool.cand
      /\ kind = "candidates" => m.cand.visible
      BY <1>1, <1>2 DEF ToolPage, ToolFields, Tool!NoRewrite
<1>4. /\ ToolCall(e) /\ e.kind = kind /\ e.id = tool.asked + 1 /\ ToolPage(tool')
      /\ tool'.asked = tool.asked + 1 /\ toolCalls' = toolCalls \cup {e}
      /\ tool'.stopped = m.stopped /\ tool'.applied = m.applied /\ tool'.run = m.run /\ tool'.inline = m.inline
      /\ tool'.rewrite = m.rewrite /\ tool'.cand = m.cand /\ tool'.clues = m.clues /\ tool'.novel = m.novel
      BY <1>1, <1>2, <1>3, ToolAsks
<1>5. ToolCore'
      BY <1>1, <1>3, <1>4, ToolAsking DEF ToolInv, ToolSame
<1>6. ToolBusy'
      BY <1>3, <1>4 DEF ToolInv, ToolBusy, ToolOut
<1> QED BY <1>3, <1>4, <1>5, <1>6 DEF ToolInv, ToolClues

LEMMA ToolSelects ==
  ASSUME ToolInv, NEW n \in Tool!Novels, Tool!SelectNovel(n)
  PROVE  ToolInv' /\ ToolClues
<1>1. ToolPage(tool) /\ tool.asked \in Nat /\ toolTasks' = toolTasks
      BY DEF ToolInv, ToolCore, ToolPage, ToolFields, Tool!Novels, Tool!SelectNovel, Tool!Others
<1>2. CASE n \in toolCache
  <2>1. tool' = [tool EXCEPT !.novel = n, !.clues = n, !.left = @ - 1] /\ toolCalls' = toolCalls
        BY <1>2 DEF Tool!SelectNovel
  <2>2. /\ ToolPage(tool') /\ tool'.asked = tool.asked /\ ToolSame /\ tool'.inline = tool.inline
        /\ tool'.rewrite = tool.rewrite /\ tool'.cand = tool.cand /\ tool'.clues = n /\ tool'.novel = n
        BY <1>1, <2>1 DEF ToolPage, ToolFields, ToolSame
  <2>3. ToolCore'
        BY <2>1, <2>2, ToolHearing DEF ToolInv
  <2>4. ToolBusy'
        BY <2>1, <2>2 DEF ToolInv, ToolBusy, ToolOut
  <2> QED BY <2>2, <2>3, <2>4 DEF ToolInv, ToolClues
<1>3. CASE n \notin toolCache
  <2>1. PICK m, kind, e : Tool!Ask(m, e) /\ e = Tool!Call(kind, n) /\ m = [tool EXCEPT !.novel = n]
        BY <1>3 DEF Tool!SelectNovel
  <2>2. /\ ToolPage(m) /\ m.asked = tool.asked /\ m.stopped = tool.stopped /\ m.applied = tool.applied
        /\ m.run = tool.run /\ m.clues = tool.clues /\ m.inline = tool.inline /\ m.rewrite = tool.rewrite
        /\ m.cand = tool.cand
        BY <1>1, <2>1 DEF ToolPage, ToolFields
  <2>3. /\ ToolCall(e) /\ e.id = tool.asked + 1 /\ ToolPage(tool')
        /\ tool'.asked = tool.asked + 1 /\ toolCalls' = toolCalls \cup {e}
        /\ tool'.stopped = m.stopped /\ tool'.applied = m.applied /\ tool'.run = m.run /\ tool'.inline = m.inline
        /\ tool'.rewrite = m.rewrite /\ tool'.cand = m.cand /\ tool'.clues = m.clues
    <3>1. Tool!Ask(m, e) /\ e = Tool!Call(kind, n)
          BY <2>1
    <3> QED BY <1>1, <2>2, <3>1, ToolAsks
  <2>4. ToolCore'
        BY <1>1, <2>2, <2>3, ToolAsking DEF ToolInv, ToolSame
  <2>5. ToolBusy'
        BY <2>2, <2>3 DEF ToolInv, ToolBusy, ToolOut
  <2> QED BY <2>2, <2>3, <2>4, <2>5 DEF ToolInv, ToolClues
<1> QED BY <1>2, <1>3

(* What the user does with a text, and what comes of one.                  *)
LEMMA ToolQuiet ==
  ASSUME ToolInv, NEW accept, NEW c,
         Tool!AcceptInline \/ Tool!ClearInline \/ Tool!CloseDiff(accept) \/ Tool!AcceptCandidate \/ Tool!DismissCandidates
           \/ Tool!CacheExpires \/ Tool!OpenCard \/ Tool!CloseCard \/ Tool!Chunk(c)
  PROVE  ToolInv' /\ ToolClues
<1>1. ToolPage(tool) /\ toolCalls' = toolCalls /\ toolTasks' = toolTasks
      BY DEF ToolInv, ToolCore, ToolCall, Tool!AcceptInline, Tool!ClearInline, Tool!CloseDiff, Tool!AcceptCandidate,
             Tool!DismissCandidates, Tool!CacheExpires, Tool!OpenCard, Tool!CloseCard, Tool!Chunk, Tool!Page
<1>2. /\ ToolPage(tool') /\ tool'.asked = tool.asked /\ ToolSame /\ tool'.inline.on = tool.inline.on
      /\ tool'.rewrite.on = tool.rewrite.on /\ tool'.clues = tool.clues
      /\ tool'.cand = tool.cand \/ ~tool'.cand.loading
  <2>1. CASE Tool!AcceptInline \/ Tool!ClearInline
        BY <1>1, <2>1 DEF Tool!AcceptInline, Tool!ClearInline, ToolPage, ToolFields, ToolSame, Tool!None
  <2>2. CASE Tool!CloseDiff(accept)
        BY <1>1, <2>2 DEF Tool!CloseDiff, ToolPage, ToolFields, ToolSame, Tool!None
  <2>3. CASE Tool!AcceptCandidate \/ Tool!DismissCandidates
    <3>1. \E inserted : tool' = [tool EXCEPT !.inserted = inserted, !.cand = Tool!NoCandidates]
      <4>1. CASE Tool!AcceptCandidate
            BY <4>1 DEF Tool!AcceptCandidate
      <4>2. CASE Tool!DismissCandidates
        <5>1. tool' = [tool EXCEPT !.inserted = tool.inserted, !.cand = Tool!NoCandidates]
              BY <1>1, <4>2 DEF Tool!DismissCandidates, ToolPage, ToolFields
        <5> QED BY <5>1
      <4> QED BY <2>3, <4>1, <4>2
    <3>2. "loading" \in DOMAIN Tool!NoCandidates /\ ~Tool!NoCandidates.loading
          BY DEF Tool!NoCandidates
    <3> HIDE DEF Tool!NoCandidates
    <3> QED BY <1>1, <3>1, <3>2 DEF ToolPage, ToolFields, ToolSame
  <2>4. CASE Tool!CacheExpires \/ Tool!OpenCard \/ Tool!CloseCard
        BY <1>1, <2>4 DEF Tool!CacheExpires, Tool!OpenCard, Tool!CloseCard, ToolPage, ToolFields, ToolSame
  <2>5. CASE Tool!Chunk(c)
        BY <1>1, <2>5 DEF Tool!Chunk, ToolPage, ToolFields, ToolSame
  <2> QED BY <2>1, <2>2, <2>3, <2>4, <2>5
<1>3. ToolCore'
      BY <1>1, <1>2, ToolHearing DEF ToolInv
<1>4. ToolBusy'
      BY <1>1, <1>2 DEF ToolInv, ToolBusy, ToolOut
<1> QED BY <1>2, <1>3, <1>4 DEF ToolInv, ToolClues

LEMMA ToolHears ==
  ASSUME ToolInv, NEW c \in toolCalls,
         Tool!StreamEnds(c) \/ Tool!StreamThrows(c) \/ Tool!CandidatesAnswered(c) \/ Tool!CandidatesFail(c)
           \/ Tool!CluesLoaded(c)
  PROVE  ToolInv' /\ ToolClues
<1>1. /\ ToolPage(tool) /\ c.id \in Nat /\ toolCalls' = toolCalls \ {c} /\ toolTasks' = toolTasks
      BY DEF ToolInv, ToolCore, ToolCall, Tool!StreamEnds, Tool!StreamThrows, Tool!CandidatesAnswered, Tool!CandidatesFail,
             Tool!CluesLoaded, Tool!Done, Tool!Others
<1>2. /\ ToolPage(tool') /\ tool'.asked = tool.asked /\ ToolSame
      /\ tool'.inline.on => tool.inline.on /\ c.kind # "inline"
      /\ tool'.rewrite.on => tool.rewrite.on /\ c.kind # "rewrite"
      /\ tool'.cand.loading => tool.cand.loading /\ tool'.cand.visible /\ c.kind # "candidates"
      /\ ToolClues /\ c.kind \notin ToolRuns
  <2>1. CASE Tool!StreamEnds(c)
        BY <1>1, <2>1 DEF Tool!StreamEnds, ToolPage, ToolFields, ToolSame, ToolRuns, ToolClues, ToolInv, ToolBusy
  <2>2. CASE Tool!StreamThrows(c)
        BY <1>1, <2>2 DEF Tool!StreamThrows, ToolPage, ToolFields, ToolSame, ToolRuns, ToolClues, ToolInv, ToolBusy
  <2>3. CASE Tool!CandidatesAnswered(c)
        BY <1>1, <2>3 DEF Tool!CandidatesAnswered, ToolPage, ToolFields, ToolSame, ToolRuns, ToolClues, ToolInv, ToolBusy
  <2>4. CASE Tool!CandidatesFail(c)
        BY <1>1, <2>4 DEF Tool!CandidatesFail, ToolPage, ToolFields, ToolSame, ToolRuns, ToolClues, ToolInv, ToolBusy
  <2>5. CASE Tool!CluesLoaded(c)
        BY <1>1, <2>5 DEF Tool!CluesLoaded, ToolPage, ToolFields, ToolSame, ToolRuns, ToolClues, ToolInv, ToolBusy
  <2> QED BY <2>1, <2>2, <2>3, <2>4, <2>5
<1>3. ToolCore'
      BY <1>1, <1>2, ToolHearing DEF ToolInv
<1>4. ToolBusy'
      BY <1>1, <1>2 DEF ToolInv, ToolBusy, ToolOut
<1> QED BY <1>2, <1>3, <1>4 DEF ToolInv

(* The card.  A run begins with a call of its own; whatever ends it, what  *)
(* was stopped is not applied.                                             *)
LEMMA ToolConfirms ==
  ASSUME ToolInv, Tool!Confirm
  PROVE  ToolInv' /\ ToolClues
<1>1. ToolPage(tool) /\ tool.asked \in Nat /\ tool.run.task = 0
      BY DEF ToolInv, ToolCore, ToolPage, ToolRun, Tool!Confirm
<1>2. PICK m, kind, e, id :
        /\ Tool!Ask(m, e) /\ e = Tool!Call(kind, Tool!None) /\ kind \in ToolRuns /\ id = tool.asked + 1
        /\ m = [tool EXCEPT !.open = FALSE, !.run = [on |-> TRUE, task |-> id, abort |-> id]]
      BY DEF Tool!Confirm, ToolRuns
<1>3. toolTasks' = [t \in DOMAIN toolTasks \cup {id} |-> IF t \in DOMAIN toolTasks THEN toolTasks[t] ELSE "running"]
      BY <1>2 DEF Tool!Confirm
<1>4. /\ ToolPage(m) /\ m.asked = tool.asked /\ m.stopped = tool.stopped /\ m.applied = tool.applied
      /\ m.run = [on |-> TRUE, task |-> id, abort |-> id] /\ m.clues = tool.clues /\ m.inline = tool.inline
      /\ m.rewrite = tool.rewrite /\ m.cand = tool.cand
      BY <1>1, <1>2 DEF ToolPage, ToolFields
<1>5. /\ ToolCall(e) /\ e.kind = kind /\ e.id = id /\ ToolPage(tool')
      /\ tool'.asked = id /\ toolCalls' = toolCalls \cup {e}
      /\ tool'.stopped = m.stopped /\ tool'.applied = m.applied /\ tool'.run = m.run /\ tool'.inline = m.inline
      /\ tool'.rewrite = m.rewrite /\ tool'.cand = m.cand /\ tool'.clues = m.clues
  <2>1. Tool!Ask(m, e) /\ e = Tool!Call(kind, Tool!None)
        BY <1>2
  <2>2. tool.asked + 1 = id
        BY <1>2
  <2> QED BY <1>1, <1>4, <2>1, <2>2, ToolAsks
<1>6. \A t \in DOMAIN toolTasks : toolTasks[t] # "running"
      BY <1>1 DEF ToolInv, ToolCore, ToolRun
<1>7. \A t \in tool.applied \cup tool.stopped : t \in Nat /\ t <= tool.asked
      BY DEF ToolInv, ToolCore, ToolIds
<1>8. \A c \in toolCalls : ToolCall(c) /\ c.id \in Nat /\ c.id <= tool.asked
      BY DEF ToolInv, ToolCore, ToolIds, ToolCall
<1>9. ToolIds'
  <2>1. id \notin tool.applied /\ id # 0 /\ id \in Nat
        BY <1>1, <1>2, <1>7
  <2>2. \A t \in tool.applied \cup tool.stopped : t <= id
        BY <1>1, <1>2, <1>7
  <2>3. \A c \in toolCalls : c.id # id /\ c.id <= id
        BY <1>1, <1>2, <1>8
  <2> QED BY <1>4, <1>5, <1>7, <2>1, <2>2, <2>3 DEF ToolInv, ToolCore, ToolIds
<1>10. ToolRun'
  <2>1. id \notin tool.stopped /\ id # 0
        BY <1>1, <1>2, <1>7
  <2> QED BY <1>2, <1>3, <1>4, <1>5, <1>6, <2>1 DEF ToolRun
<1>11. ToolBusy'
      BY <1>4, <1>5 DEF ToolInv, ToolBusy, ToolOut
<1> QED BY <1>4, <1>5, <1>8, <1>9, <1>10, <1>11 DEF ToolInv, ToolCore, ToolClues

LEMMA ToolEnds ==
  ASSUME ToolInv, NEW m, m.inline = tool.inline, m.rewrite = tool.rewrite, m.cand = tool.cand, m.clues = tool.clues,
         DOMAIN m = ToolFields, ToolCore', tool' = [m EXCEPT !.run = [on |-> FALSE, task |-> 0, abort |-> 0]],
         \A c \in toolCalls : c \in toolCalls' \/ c.kind \in ToolRuns
  PROVE  ToolInv' /\ ToolClues
<1>1. /\ tool'.inline = tool.inline /\ tool'.rewrite = tool.rewrite /\ tool'.cand = tool.cand
      /\ tool'.clues = tool.clues
      BY DEF ToolFields
<1>2. ToolBusy'
      BY <1>1 DEF ToolInv, ToolBusy, ToolOut, ToolRuns
<1> QED BY <1>1, <1>2 DEF ToolInv, ToolClues

LEMMA ToolCancels ==
  ASSUME ToolInv, Tool!HandleCancel
  PROVE  ToolInv' /\ ToolClues
<1>1. ToolCore /\ ToolPage(tool) /\ DOMAIN tool = ToolFields /\ toolCalls' = toolCalls
      BY DEF ToolInv, ToolCore, ToolPage, Tool!HandleCancel
<1>2. PICK m : m = [tool EXCEPT !.stopped = @ \cup {tool.run.abort}]
      OBVIOUS
<1>3. Tool!Finish(m, "cancelled")
      BY <1>2 DEF Tool!HandleCancel
<1>4. /\ ToolPage(m) /\ m.asked = tool.asked /\ m.stopped = tool.stopped \cup {tool.run.abort} /\ m.applied = tool.applied
      /\ m.inline = tool.inline /\ m.rewrite = tool.rewrite /\ m.cand = tool.cand /\ m.clues = tool.clues
      BY <1>1, <1>2 DEF ToolPage, ToolFields
<1>5. tool.run.abort \notin tool.applied /\ tool.run.abort \in Nat /\ tool.run.abort <= tool.asked
  <2>1. PICK c \in toolCalls : c.id = tool.run.abort
        BY DEF Tool!HandleCancel, ToolInv, ToolCore, ToolRun
  <2> QED BY <2>1 DEF ToolInv, ToolCore, ToolIds, ToolCall
<1>6. m.applied \cap m.stopped = {} /\ \A t \in m.applied \cup m.stopped : t \in Nat /\ t <= tool.asked
      BY <1>4, <1>5 DEF ToolInv, ToolCore, ToolIds
<1>7. \A c \in toolCalls' : c.id \notin m.applied
      BY <1>1, <1>4 DEF ToolCore, ToolIds
<1>8. ToolCore' /\ tool' = [m EXCEPT !.run = [on |-> FALSE, task |-> 0, abort |-> 0]]
      BY <1>1, <1>3, <1>4, <1>6, <1>7, ToolFinishing
<1> QED BY <1>1, <1>4, <1>8, ToolEnds DEF ToolPage

(* A call of a run is answered, refused or aborted.                        *)
LEMMA ToolRunEnds ==
  ASSUME ToolInv, NEW c \in toolCalls, c.kind \in ToolRuns, toolCalls' = toolCalls \ {c},
         NEW m, ToolPage(m), NEW status, status # "running", Tool!Finish(m, status),
         m.asked = tool.asked, m.stopped = tool.stopped, m.inline = tool.inline, m.rewrite = tool.rewrite,
         m.cand = tool.cand, m.clues = tool.clues,
         m.applied = tool.applied \/ (m.applied = tool.applied \cup {c.id} /\ c.id \notin tool.stopped)
  PROVE  ToolInv' /\ ToolClues
<1>1. m.applied \cap m.stopped = {} /\ \A t \in m.applied \cup m.stopped : t \in Nat /\ t <= tool.asked
      BY DEF ToolInv, ToolCore, ToolIds, ToolCall
<1>2. \A e \in toolCalls' : e.id \notin m.applied
      BY DEF ToolInv, ToolCore, ToolIds
<1>3. ToolCore' /\ tool' = [m EXCEPT !.run = [on |-> FALSE, task |-> 0, abort |-> 0]]
      BY <1>1, <1>2, ToolFinishing DEF ToolInv
<1> QED BY <1>3, ToolEnds DEF ToolPage

LEMMA ToolAnswers ==
  ASSUME ToolInv, NEW c \in toolCalls, Tool!TextAborted(c) \/ Tool!TextAnswered(c) \/ Tool!PictureDone(c)
  PROVE  ToolInv' /\ ToolClues
<1>1. ToolPage(tool) /\ c.kind \in ToolRuns /\ toolCalls' = toolCalls \ {c}
      BY DEF ToolInv, ToolCore, ToolRuns, Tool!TextAborted, Tool!TextAnswered, Tool!PictureDone, Tool!Result, Tool!Done
<1>2. CASE Tool!TextAborted(c)
  <2>1. Tool!Finish(tool, "cancelled")
        BY <1>2 DEF Tool!TextAborted
  <2> QED BY <1>1, <2>1, ToolRunEnds
<1>3. CASE Tool!Result(c) /\ c.id \notin tool.stopped
  <2>1. PICK m : m = [tool EXCEPT !.applied = @ \cup {c.id}]
        OBVIOUS
  <2>2. Tool!Finish(m, "success")
        BY <1>3, <2>1 DEF Tool!Result, Tool!Stopped
  <2>3. /\ ToolPage(m) /\ m.asked = tool.asked /\ m.stopped = tool.stopped /\ m.applied = tool.applied \cup {c.id}
        /\ m.inline = tool.inline /\ m.rewrite = tool.rewrite /\ m.cand = tool.cand /\ m.clues = tool.clues
        BY <1>1, <2>1 DEF ToolPage, ToolFields
  <2> QED BY <1>1, <1>3, <2>2, <2>3, ToolRunEnds
<1>4. CASE Tool!Result(c) /\ c.id \in tool.stopped
  <2>1. tool' = tool /\ toolTasks' = toolTasks
        BY <1>4 DEF Tool!Result, Tool!Stopped
  <2>2. ToolIds'
        BY <1>1, <2>1 DEF ToolInv, ToolCore, ToolIds
  <2>3. ToolRun'
        BY <1>1, <1>4, <2>1 DEF ToolInv, ToolCore, ToolRun
  <2>4. ToolBusy'
        BY <1>1, <2>1 DEF ToolInv, ToolBusy, ToolOut, ToolRuns
  <2> QED BY <1>1, <2>1, <2>2, <2>3, <2>4 DEF ToolInv, ToolCore, ToolClues
<1> QED BY <1>2, <1>3, <1>4 DEF Tool!TextAnswered, Tool!PictureDone

LEMMA ToolFails ==
  ASSUME ToolInv, NEW c \in toolCalls, Tool!RunFails(c)
  PROVE  ToolInv' /\ ToolClues
<1>1. ToolPage(tool) /\ c.kind \in ToolRuns /\ toolCalls' = toolCalls \ {c}
      BY DEF ToolInv, ToolCore, ToolRuns, Tool!RunFails, Tool!Done
<1>2. PICK left : left = IF c.kind = "image" /\ c.polls + 1 = ToolMaxPolls THEN tool.left ELSE tool.left - 1
      OBVIOUS
<1>3. PICK m : m = [tool EXCEPT !.left = left]
      OBVIOUS
<1>4. PICK status : status = IF Tool!Stopped(c) THEN "cancelled" ELSE "failed"
      OBVIOUS
<1>5. /\ ToolPage(m) /\ m.asked = tool.asked /\ m.stopped = tool.stopped /\ m.applied = tool.applied
      /\ m.inline = tool.inline /\ m.rewrite = tool.rewrite /\ m.cand = tool.cand /\ m.clues = tool.clues
      BY <1>1, <1>3 DEF ToolPage, ToolFields
<1>6. m = [tool EXCEPT !.left = IF c.kind = "image" /\ c.polls + 1 = ToolMaxPolls THEN @ ELSE @ - 1]
      BY <1>2, <1>3
<1>7. Tool!Finish(m, status) /\ status # "running"
      BY <1>4, <1>6 DEF Tool!RunFails
<1> QED BY <1>1, <1>5, <1>7, ToolRunEnds

LEMMA ToolGoesOn ==
  ASSUME ToolInv, NEW c \in toolCalls, Tool!PictureGoesOn(c)
  PROVE  ToolInv' /\ ToolClues
<1>1. ToolCall(c) /\ tool' = tool /\ toolTasks' = toolTasks
      BY DEF ToolInv, ToolCore, Tool!PictureGoesOn
<1>2. PICK e : /\ toolCalls' = (toolCalls \ {c}) \cup {e}
               /\ e = [c EXCEPT !.step = "create"] \/ e = [c EXCEPT !.step = "poll"] \/ e = [c EXCEPT !.polls = @ + 1]
      BY DEF Tool!PictureGoesOn
<1>3. ToolCall(e) /\ e.id = c.id /\ e.kind = c.kind
      BY <1>1, <1>2 DEF ToolCall
<1>4. ToolIds'
      BY <1>1, <1>2, <1>3 DEF ToolInv, ToolCore, ToolIds
<1>5. ToolRun'
      BY <1>1, <1>2, <1>3 DEF ToolInv, ToolCore, ToolRun
<1>6. ToolBusy'
      BY <1>1, <1>2, <1>3 DEF ToolInv, ToolBusy, ToolOut
<1> QED BY <1>1, <1>2, <1>3, <1>4, <1>5, <1>6 DEF ToolInv, ToolCore, ToolClues

LEMMA ToolStep ==
  ASSUME ToolInv, [Tool!Next]_ToolAll
  PROVE  ToolInv' /\ ToolClues
<1>1. CASE UNCHANGED ToolAll
      BY <1>1 DEF ToolAll, ToolInv, ToolCore, ToolIds, ToolRun, ToolBusy, ToolOut, ToolClues
<1>2. CASE Tool!TriggerInline \/ Tool!TriggerRewrite \/ Tool!RequestCandidates
      BY <1>2, ToolTriggers
<1>3. CASE \/ Tool!AcceptInline \/ Tool!ClearInline \/ Tool!CloseDiff(TRUE) \/ Tool!CloseDiff(FALSE) \/ Tool!AcceptCandidate
           \/ Tool!DismissCandidates \/ Tool!CacheExpires \/ Tool!OpenCard \/ Tool!CloseCard
      BY <1>3, ToolQuiet
<1>4. CASE Tool!Confirm \/ Tool!HandleCancel
      BY <1>4, ToolConfirms, ToolCancels
<1>5. ASSUME NEW n \in Tool!Novels, Tool!SelectNovel(n) PROVE ToolInv' /\ ToolClues
      BY <1>5, ToolSelects
<1>6. ASSUME NEW c \in toolCalls,
             Tool!StreamEnds(c) \/ Tool!StreamThrows(c) \/ Tool!CandidatesAnswered(c) \/ Tool!CandidatesFail(c)
               \/ Tool!CluesLoaded(c)
      PROVE  ToolInv' /\ ToolClues
      BY <1>6, ToolHears
<1>7. ASSUME NEW c \in toolCalls, Tool!Chunk(c) PROVE ToolInv' /\ ToolClues
      BY <1>7, ToolQuiet
<1>8. ASSUME NEW c \in toolCalls,
             Tool!TextAborted(c) \/ Tool!TextAnswered(c) \/ Tool!PictureDone(c) \/ Tool!RunFails(c) \/ Tool!PictureGoesOn(c)
      PROVE  ToolInv' /\ ToolClues
      BY <1>8, ToolAnswers, ToolFails, ToolGoesOn
<1> QED BY <1>1, <1>2, <1>3, <1>4, <1>5, <1>6, <1>7, <1>8 DEF Tool!Next

(* "Generating" is said only while a request is out, "cancel" really       *)
(* interrupts, and the clues of a novel left behind are not shown, however *)
(* streams, polls and cancellations overlap (ai-store, AigcCard).          *)
THEOREM CancelInterrupts == Tool!Spec => Tool!CluesAreNotLate /\ [](Tool!ToolBusyIsHonest /\ Tool!CancelledIsNotApplied)
<1>1. ToolInv /\ [Tool!Next]_ToolAll => ToolInv'
      BY ToolStep
<1>2. ToolInv /\ [Tool!Next]_ToolAll => [tool'.clues # tool.clues => tool'.clues = tool'.novel]_ToolAll
      BY ToolStep DEF ToolClues
<1> QED BY <1>1, <1>2, ToolStarts, ToolTells, PTL DEF Tool!Spec, Tool!CluesAreNotLate, Tool!toolVars, ToolAll

-----------------------------------------------------------------------------
(* The gallery (Gallery).  What a call says of the server stays true, and  *)
(* what it says of the page is so while it is out: a deletion is the only  *)
(* one, and the selection it was asked for has not grown.                  *)
GalAll == <<gal, galServer, galCalls>>
GalFields ==
  {"images", "cursor", "loading", "filter", "epoch", "selection", "batch", "uploading", "busy", "confirm", "force", "ask",
   "foreign", "asked", "left"}
GalKnown == DOMAIN galServer.scope
GalServer ==
  /\ galServer \in [scope : Seq({"memo", "novel"}), there : SUBSET Nat, used : SUBSET Nat]
  /\ galServer.there \subseteq GalKnown
GalEnds == {"delete", "batch"}
GalTrue(c) ==
  /\ {"kind", "id", "read"} \subseteq DOMAIN c
  /\ c.kind = "list" =>
       /\ {"epoch", "filter", "page", "next"} \subseteq DOMAIN c
       /\ \A p \in c.page : p \in GalKnown /\ Gal!Matches(galServer.scope[p], c.filter)
  /\ c.kind = "upload" =>
       {"picture", "scope"} \subseteq DOMAIN c /\ c.scope \in {"memo", "novel"} /\ (c.read => c.picture \in GalKnown)
  /\ c.kind = "delete" =>
       {"picture", "ok"} \subseteq DOMAIN c /\ c.picture \in GalKnown /\ (c.read /\ c.ok => c.picture \notin galServer.there)
  /\ c.kind = "batch" =>
       /\ {"pictures", "skipped"} \subseteq DOMAIN c /\ c.pictures \subseteq GalKnown
       /\ c.read => \A p \in c.pictures : p \in c.skipped \/ p \notin galServer.there
GalDue(c) ==
  /\ c.kind = "list" => c.epoch \in Nat /\ c.epoch <= gal.epoch /\ (c.epoch = gal.epoch => c.filter = gal.filter)
  /\ c.kind \in GalEnds => gal.busy
  /\ c.kind = "batch" => gal.ask /\ gal.selection \subseteq c.pictures
GalOne == \A c, e \in galCalls : c.kind \in GalEnds /\ e.kind \in GalEnds => c = e
GalPage ==
  /\ DOMAIN gal = GalFields /\ gal.epoch \in Nat /\ gal.filter \in {"memo", "novel", "all"}
  /\ gal.images \subseteq GalKnown /\ gal.selection \subseteq GalKnown
  /\ gal.confirm \in GalKnown \cup {0} /\ gal.force \in GalKnown \cup {0}
  /\ \A p \in gal.images : Gal!Matches(galServer.scope[p], gal.filter) \/ p \in gal.foreign
GalBusy ==
  /\ gal.loading => \E c \in galCalls : c.kind = "list" /\ c.epoch = gal.epoch
  /\ gal.busy => \E c \in galCalls : c.kind \in GalEnds
GalInv ==
  /\ GalServer /\ (\A c \in galCalls : GalTrue(c)) /\ (\A c \in galCalls : GalDue(c)) /\ GalOne /\ GalPage /\ GalBusy

LEMMA GalTells == GalInv => Gal!GalleryBusyIsHonest /\ Gal!ShownBelongsToFilter
  BY DEF GalInv, GalBusy, GalPage, GalEnds, Gal!GalleryBusyIsHonest, Gal!ShownBelongsToFilter

LEMMA GalStarts == Gal!Init => GalInv
<1> SUFFICES ASSUME Gal!Init PROVE GalInv
    OBVIOUS
<1>1. /\ DOMAIN gal = GalFields /\ gal.epoch = 0 /\ gal.filter = "all" /\ gal.images = {} /\ gal.selection = {} /\ gal.confirm = 0
      /\ gal.force = 0 /\ ~gal.loading /\ ~gal.busy
      BY DEF Gal!Init, Gal!NoPicture, Gal!NoCursor, GalFields
<1>2. galServer = [scope |-> <<"memo", "novel">>, there |-> {1, 2}, used |-> {1}] /\ galCalls = {}
      BY DEF Gal!Init
<1>3. <<"memo", "novel">> \in Seq({"memo", "novel"}) /\ DOMAIN <<"memo", "novel">> = {1, 2}
      OBVIOUS
<1>4. GalServer
      BY <1>2, <1>3 DEF GalServer, GalKnown
<1> QED BY <1>1, <1>2, <1>4 DEF GalInv, GalOne, GalPage, GalBusy

(* What is known of the pictures stays so: their kind, and that they are   *)
(* gone.                                                                   *)
GalGrows ==
  /\ GalServer' /\ GalKnown \subseteq GalKnown'
  /\ \A p \in GalKnown : galServer'.scope[p] = galServer.scope[p] /\ (p \notin galServer.there => p \notin galServer'.there)

LEMMA GalKeeps ==
  ASSUME GalInv, GalGrows
  PROVE  \A c \in galCalls : GalTrue(c)'
<1> SUFFICES ASSUME NEW c \in galCalls PROVE GalTrue(c)'
    OBVIOUS
<1>1. GalTrue(c)
      BY DEF GalInv
<1> QED BY <1>1 DEF GalTrue, GalGrows, Gal!Matches

LEMMA GalSame == ASSUME GalInv, galServer' = galServer PROVE GalGrows
  BY DEF GalInv, GalGrows, GalServer, GalKnown

(* The server answers a call, the page waits.                              *)
LEMMA GalServes ==
  ASSUME GalInv, gal' = gal, GalGrows, NEW c \in galCalls, NEW e, galCalls' = (galCalls \ {c}) \cup {e}, GalTrue(e)',
         e.kind = c.kind, c.kind = "list" => e.epoch = c.epoch /\ e.filter = c.filter,
         c.kind = "batch" => e.pictures = c.pictures
  PROVE  GalInv'
<1>1. \A b \in galCalls' : GalTrue(b)'
      BY GalKeeps
<1>2. \A b \in galCalls' : GalDue(b)'
      BY DEF GalInv, GalDue, GalEnds
<1>3. GalOne'
      BY DEF GalInv, GalOne
<1>4. GalPage'
      BY DEF GalInv, GalPage, GalGrows
<1>5. GalBusy'
      BY DEF GalInv, GalBusy
<1> QED BY <1>1, <1>2, <1>3, <1>4, <1>5 DEF GalInv, GalGrows

LEMMA GalLists ==
  ASSUME GalInv, NEW c \in galCalls, Gal!ServerLists(c)
  PROVE  GalInv'
<1>1. GalTrue(c) /\ c.kind = "list" /\ gal' = gal /\ galServer' = galServer
      BY DEF GalInv, Gal!ServerLists
<1>2. PICK e : /\ galCalls' = (galCalls \ {c}) \cup {e}
               /\ \/ e = [c EXCEPT !.read = TRUE]
                  \/ \E p \in Gal!Older(c) : e = [c EXCEPT !.read = TRUE, !.page = {p}, !.next = p]
      BY DEF Gal!ServerLists
<1>3. DOMAIN e = DOMAIN c /\ e.kind = "list" /\ e.epoch = c.epoch /\ e.filter = c.filter
      BY <1>1, <1>2 DEF GalTrue
<1>4. \A p \in e.page : p \in GalKnown /\ Gal!Matches(galServer.scope[p], c.filter)
  <2>1. CASE e = [c EXCEPT !.read = TRUE]
        BY <1>1, <2>1 DEF GalTrue
  <2>2. ASSUME NEW p \in Gal!Older(c), e = [c EXCEPT !.read = TRUE, !.page = {p}, !.next = p]
        PROVE  \A q \in e.page : q \in GalKnown /\ Gal!Matches(galServer.scope[q], c.filter)
    <3>1. e.page = {p}
          BY <1>1, <2>2 DEF GalTrue
    <3> QED BY <3>1 DEF Gal!Older, GalInv, GalServer
  <2> QED BY <1>2, <2>1, <2>2
<1>5. GalTrue(e)'
      BY <1>1, <1>3, <1>4 DEF GalTrue, GalKnown, Gal!Matches
<1> QED BY <1>1, <1>2, <1>3, <1>5, GalSame, GalServes

LEMMA GalStores ==
  ASSUME GalInv, NEW c \in galCalls, Gal!ServerStores(c)
  PROVE  GalInv'
<1> DEFINE scope == galServer.scope
<1>1. GalTrue(c) /\ c.kind = "upload" /\ gal' = gal /\ scope \in Seq({"memo", "novel"}) /\ Len(scope) \in Nat
      BY DEF GalInv, GalServer, Gal!ServerStores
<1>2. PICK p \in galServer.there \cup {Len(scope) + 1} :
        /\ galServer' = IF p \in galServer.there THEN galServer
                        ELSE [galServer EXCEPT !.scope = Append(@, c.scope), !.there = @ \cup {p}]
        /\ galCalls' = (galCalls \ {c}) \cup {[c EXCEPT !.read = TRUE, !.picture = p]}
      BY DEF Gal!ServerStores
<1>3. PICK e : e = [c EXCEPT !.read = TRUE, !.picture = p]
      OBVIOUS
<1>4. DOMAIN e = DOMAIN c /\ e.kind = "upload" /\ e.picture = p /\ e.scope = c.scope
      BY <1>1, <1>3 DEF GalTrue
<1>5. GalGrows /\ p \in GalKnown'
  <2>1. CASE p \in galServer.there
        BY <1>2, <2>1, GalSame DEF GalInv, GalServer, GalKnown
  <2>2. CASE p \notin galServer.there
    <3>1. p = Len(scope) + 1 /\ p \in Nat
          BY <1>1, <1>2, <2>2
    <3>2. c.scope \in {"memo", "novel"}
          BY <1>1 DEF GalTrue
    <3>3. /\ Append(scope, c.scope) \in Seq({"memo", "novel"}) /\ DOMAIN Append(scope, c.scope) = DOMAIN scope \cup {p}
          /\ p \notin DOMAIN scope /\ \A q \in DOMAIN scope : Append(scope, c.scope)[q] = scope[q]
          BY <1>1, <3>1, <3>2
    <3>4. galServer' = [galServer EXCEPT !.scope = Append(scope, c.scope), !.there = galServer.there \cup {p}]
          BY <1>2, <2>2
    <3>5. /\ galServer' \in [scope : Seq({"memo", "novel"}), there : SUBSET Nat, used : SUBSET Nat]
          /\ galServer'.scope = Append(scope, c.scope) /\ galServer'.there = galServer.there \cup {p}
          BY <3>1, <3>3, <3>4 DEF GalInv, GalServer
    <3> QED BY <3>3, <3>5 DEF GalInv, GalServer, GalGrows, GalKnown
  <2> QED BY <2>1, <2>2
<1>6. GalTrue(e)'
      BY <1>1, <1>4, <1>5 DEF GalTrue
<1> QED BY <1>1, <1>2, <1>3, <1>4, <1>5, <1>6, GalServes

LEMMA GalRemoves ==
  ASSUME GalInv, NEW gone, galServer' = [galServer EXCEPT !.there = @ \ gone]
  PROVE  GalGrows /\ galServer'.there = galServer.there \ gone /\ GalKnown' = GalKnown
<1>1. /\ galServer' \in [scope : Seq({"memo", "novel"}), there : SUBSET Nat, used : SUBSET Nat]
      /\ galServer'.scope = galServer.scope /\ galServer'.there = galServer.there \ gone
      BY DEF GalInv, GalServer
<1> QED BY <1>1 DEF GalInv, GalServer, GalGrows, GalKnown

LEMMA GalDeletes ==
  ASSUME GalInv, NEW c \in galCalls, Gal!ServerDeletes(c) \/ Gal!ServerDeletesBatch(c)
  PROVE  GalInv'
<1>1. GalTrue(c) /\ gal' = gal
      BY DEF GalInv, Gal!ServerDeletes, Gal!ServerDeletesBatch
<1>2. CASE Gal!ServerDeletes(c)
  <2>1. PICK ok \in BOOLEAN :
          /\ galServer' = IF ok THEN [galServer EXCEPT !.there = @ \ {c.picture}] ELSE galServer
          /\ galCalls' = (galCalls \ {c}) \cup {[c EXCEPT !.read = TRUE, !.ok = ok]}
    <3>1. CASE c.force \/ c.picture \notin galServer.used
          BY <1>2, <3>1 DEF Gal!ServerDeletes
    <3>2. CASE ~(c.force \/ c.picture \notin galServer.used)
          BY <1>2, <3>2 DEF Gal!ServerDeletes
    <3> QED BY <3>1, <3>2
  <2>2. PICK e : e = [c EXCEPT !.read = TRUE, !.ok = ok]
        OBVIOUS
  <2>3. c.kind = "delete" /\ DOMAIN e = DOMAIN c /\ e.kind = "delete" /\ e.ok = ok /\ e.picture = c.picture
        BY <1>1, <1>2, <2>2 DEF GalTrue, Gal!ServerDeletes
  <2>4. GalGrows /\ GalKnown' = GalKnown /\ (ok => c.picture \notin galServer'.there)
    <3>1. CASE ok
      <4>1. PICK gone : gone = {c.picture}
            OBVIOUS
      <4>2. galServer' = [galServer EXCEPT !.there = @ \ gone]
            BY <2>1, <3>1, <4>1
      <4>3. GalGrows /\ galServer'.there = galServer.there \ gone /\ GalKnown' = GalKnown
            BY Zenon, <4>2, GalRemoves
      <4> QED BY <4>1, <4>3
    <3>2. CASE ~ok
          BY <2>1, <3>2, GalSame DEF GalKnown
    <3> QED BY <3>1, <3>2
  <2>5. GalTrue(e)'
        BY <1>1, <2>3, <2>4 DEF GalTrue
  <2> QED BY <1>1, <2>1, <2>2, <2>3, <2>4, <2>5, GalServes
<1>3. CASE Gal!ServerDeletesBatch(c)
  <2>1. PICK skipped : skipped = c.pictures \cap galServer.there \cap galServer.used
        OBVIOUS
  <2>2. PICK e : e = [c EXCEPT !.read = TRUE, !.skipped = skipped]
        OBVIOUS
  <2>3. galServer' = [galServer EXCEPT !.there = @ \ (c.pictures \ skipped)] /\ galCalls' = (galCalls \ {c}) \cup {e}
        BY <1>3, <2>1, <2>2 DEF Gal!ServerDeletesBatch
  <2>4. /\ c.kind = "batch" /\ DOMAIN e = DOMAIN c /\ e.kind = "batch" /\ e.skipped = skipped
        /\ e.pictures = c.pictures
        BY <1>1, <1>3, <2>2 DEF GalTrue, Gal!ServerDeletesBatch
  <2>5. GalGrows /\ galServer'.there = galServer.there \ (c.pictures \ skipped) /\ GalKnown' = GalKnown
        BY <2>3, GalRemoves
  <2>6. GalTrue(e)'
        BY <1>1, <2>4, <2>5 DEF GalTrue
  <2> QED BY <1>1, <2>3, <2>4, <2>5, <2>6, GalServes
<1> QED BY <1>2, <1>3

(* The user at the page: the selection does not grow under a dialog.       *)
LEMMA GalPageMoves ==
  ASSUME GalInv, galServer' = galServer, galCalls' = galCalls, DOMAIN gal' = GalFields, gal'.images = gal.images,
         gal'.loading = gal.loading, gal'.filter = gal.filter, gal'.epoch = gal.epoch, gal'.foreign = gal.foreign,
         gal'.busy = gal.busy, gal'.selection \subseteq GalKnown, gal'.confirm \in GalKnown \cup {0},
         gal'.force \in GalKnown \cup {0},
         \A c \in galCalls : c.kind = "batch" => gal'.ask /\ gal'.selection = gal.selection
  PROVE  GalInv'
<1>1. GalGrows /\ \A c \in galCalls' : GalTrue(c)'
      BY GalSame, GalKeeps
<1>2. \A c \in galCalls' : GalDue(c)'
      BY DEF GalInv, GalDue
<1>3. GalOne' /\ GalBusy'
      BY DEF GalInv, GalOne, GalBusy
<1>4. GalPage'
      BY DEF GalInv, GalPage, GalKnown, Gal!Matches
<1> QED BY <1>1, <1>2, <1>3, <1>4 DEF GalInv, GalGrows

LEMMA GalUser ==
  ASSUME GalInv, NEW p,
         Gal!AskDelete(p) \/ Gal!CloseDialogs \/ Gal!ToggleBatch \/ Gal!ToggleSelect(p) \/ Gal!SelectAllVisible \/ Gal!AskBatch
  PROVE  GalInv' /\ gal'.images = gal.images
<1>1. /\ DOMAIN gal = GalFields /\ gal.images \subseteq GalKnown /\ gal.selection \subseteq GalKnown
      /\ gal.confirm \in GalKnown \cup {0} /\ gal.force \in GalKnown \cup {0}
      BY DEF GalInv, GalPage
<1>2. \A c \in galCalls : c.kind = "batch" => gal.ask /\ gal.busy
      BY DEF GalInv, GalDue, GalEnds
<1>3. /\ galServer' = galServer /\ galCalls' = galCalls /\ DOMAIN gal' = GalFields /\ gal'.images = gal.images
      /\ gal'.loading = gal.loading /\ gal'.filter = gal.filter /\ gal'.epoch = gal.epoch
      /\ gal'.foreign = gal.foreign /\ gal'.busy = gal.busy /\ gal'.selection \subseteq GalKnown
      /\ gal'.confirm \in GalKnown \cup {0} /\ gal'.force \in GalKnown \cup {0}
      /\ \A c \in galCalls : c.kind # "batch"
  <2>1. CASE Gal!AskDelete(p)
        BY <1>1, <1>2, <2>1 DEF Gal!AskDelete, Gal!Dialog, GalFields
  <2>2. CASE Gal!CloseDialogs
        BY <1>1, <1>2, <2>2 DEF Gal!CloseDialogs, Gal!NoPicture, GalFields
  <2>3. CASE Gal!ToggleBatch
        BY <1>1, <1>2, <2>3 DEF Gal!ToggleBatch, Gal!Dialog, GalFields
  <2>4. CASE Gal!ToggleSelect(p)
        BY <1>1, <1>2, <2>4 DEF Gal!ToggleSelect, Gal!Dialog, GalFields, Gal!SymDiff
  <2>5. CASE Gal!SelectAllVisible
        BY <1>1, <1>2, <2>5 DEF Gal!SelectAllVisible, Gal!Dialog, GalFields
  <2>6. CASE Gal!AskBatch
        BY <1>1, <1>2, <2>6 DEF Gal!AskBatch, Gal!Dialog, GalFields
  <2> QED BY <2>1, <2>2, <2>3, <2>4, <2>5, <2>6
<1> QED BY <1>3, GalPageMoves

(* The page asks.                                                          *)
LEMMA GalAsks ==
  ASSUME GalInv, galServer' = galServer, NEW e, galCalls' = galCalls \cup {e}, GalTrue(e), GalDue(e)',
         DOMAIN gal' = GalFields, gal'.images = gal.images, gal'.filter = gal.filter, gal'.epoch = gal.epoch,
         gal'.foreign = gal.foreign, gal'.selection = gal.selection, gal'.confirm = gal.confirm, gal'.force = gal.force,
         gal'.ask = gal.ask, gal'.loading => gal.loading \/ (e.kind = "list" /\ e.epoch = gal.epoch),
         e.kind \in GalEnds => ~gal.busy /\ gal'.busy, e.kind \notin GalEnds => gal'.busy = gal.busy
  PROVE  GalInv'
<1>1. GalGrows /\ GalTrue(e)'
      BY GalSame DEF GalTrue, GalKnown, Gal!Matches
<1>2. \A c \in galCalls' : GalTrue(c)'
      BY <1>1, GalKeeps
<1>3. \A c \in galCalls' : GalDue(c)'
      BY DEF GalInv, GalDue
<1>4. GalOne'
      BY DEF GalInv, GalOne, GalDue
<1>5. GalBusy'
      BY DEF GalInv, GalBusy
<1>6. GalPage'
      BY DEF GalInv, GalPage, GalKnown, Gal!Matches
<1> QED BY <1>1, <1>2, <1>3, <1>4, <1>5, <1>6 DEF GalInv, GalGrows

LEMMA GalWishes ==
  ASSUME GalInv, NEW force \in BOOLEAN, Gal!LoadMore \/ Gal!Upload \/ Gal!DoDelete(force) \/ Gal!DoBatchDelete
  PROVE  GalInv' /\ gal'.images = gal.images
<1>1. /\ DOMAIN gal = GalFields /\ gal.epoch \in Nat /\ gal.selection \subseteq GalKnown /\ gal.confirm \in GalKnown \cup {0}
      /\ gal.force \in GalKnown \cup {0}
      BY DEF GalInv, GalPage
<1>2. CASE Gal!LoadMore
  <2>1. PICK m, e : /\ gal' = [m EXCEPT !.left = @ - 1] /\ m = [gal EXCEPT !.loading = TRUE, !.asked = @ + 1]
                    /\ e = Gal!ListCall(gal)
        BY <1>2 DEF Gal!LoadMore, Gal!Asking
  <2>2. galCalls' = galCalls \cup {e} /\ galServer' = galServer
        BY <1>2, <2>1 DEF Gal!LoadMore
  <2>3. /\ {"kind", "id", "read", "epoch", "filter", "page", "next"} \subseteq DOMAIN e /\ e.kind = "list"
        /\ e.epoch = gal.epoch /\ e.filter = gal.filter /\ e.page = {}
        BY <2>1 DEF Gal!ListCall
  <2>4. /\ DOMAIN gal' = GalFields /\ gal'.images = gal.images /\ gal'.filter = gal.filter /\ gal'.epoch = gal.epoch
        /\ gal'.foreign = gal.foreign /\ gal'.selection = gal.selection /\ gal'.confirm = gal.confirm
        /\ gal'.force = gal.force /\ gal'.ask = gal.ask /\ gal'.busy = gal.busy
        BY <1>1, <2>1 DEF GalFields
  <2>5. GalTrue(e) /\ GalDue(e)'
        BY <1>1, <2>3, <2>4 DEF GalTrue, GalDue, GalEnds
  <2> QED BY <2>2, <2>3, <2>4, <2>5, GalAsks DEF GalEnds
<1>3. CASE Gal!Upload
  <2>1. PICK e : /\ galCalls' = galCalls \cup {e}
                 /\ e = [kind |-> "upload", id |-> gal.asked + 1, read |-> FALSE, picture |-> 0,
                         scope |-> IF gal.filter = "all" THEN "memo" ELSE gal.filter]
        BY <1>3 DEF Gal!Upload, Gal!NoPicture
  <2>2. /\ galServer' = galServer /\ gal' = [gal EXCEPT !.uploading = TRUE, !.asked = @ + 1, !.left = @ - 1]
        BY <1>3 DEF Gal!Upload
  <2>3. /\ DOMAIN gal' = GalFields /\ gal'.images = gal.images /\ gal'.filter = gal.filter /\ gal'.epoch = gal.epoch
        /\ gal'.foreign = gal.foreign /\ gal'.selection = gal.selection /\ gal'.confirm = gal.confirm
        /\ gal'.force = gal.force /\ gal'.ask = gal.ask /\ gal'.busy = gal.busy /\ gal'.loading = gal.loading
        BY <1>1, <2>2 DEF GalFields
  <2>4. gal.filter \in {"memo", "novel", "all"}
        BY DEF GalInv, GalPage
  <2>5. GalTrue(e) /\ GalDue(e)' /\ e.kind = "upload"
        BY <2>1, <2>4 DEF GalTrue, GalDue, GalEnds
  <2> QED BY <2>1, <2>2, <2>3, <2>5, GalAsks DEF GalEnds
<1>4. CASE Gal!DoDelete(force)
  <2>1. PICK p : p = IF force THEN gal.force ELSE gal.confirm
        OBVIOUS
  <2>2. PICK e : e = [kind |-> "delete", id |-> gal.asked + 1, read |-> FALSE, picture |-> p, force |-> force, ok |-> FALSE]
        OBVIOUS
  <2>3. /\ galServer' = galServer /\ gal' = [gal EXCEPT !.busy = TRUE, !.asked = @ + 1] /\ galCalls' = galCalls \cup {e}
        /\ p # 0 /\ ~gal.busy
        BY <1>4, <2>1, <2>2 DEF Gal!DoDelete, Gal!NoPicture
  <2>4. /\ DOMAIN gal' = GalFields /\ gal'.images = gal.images /\ gal'.filter = gal.filter /\ gal'.epoch = gal.epoch
        /\ gal'.foreign = gal.foreign /\ gal'.selection = gal.selection /\ gal'.confirm = gal.confirm
        /\ gal'.force = gal.force /\ gal'.ask = gal.ask /\ gal'.busy /\ gal'.loading = gal.loading
        BY <1>1, <2>3 DEF GalFields
  <2>5. GalTrue(e) /\ GalDue(e)' /\ e.kind = "delete"
        BY <1>1, <2>1, <2>2, <2>3, <2>4 DEF GalTrue, GalDue, GalEnds
  <2> QED BY <2>3, <2>4, <2>5, GalAsks DEF GalEnds
<1>5. CASE Gal!DoBatchDelete
  <2>1. PICK e : e = [kind |-> "batch", id |-> gal.asked + 1, read |-> FALSE, pictures |-> gal.selection, skipped |-> {}]
        OBVIOUS
  <2>2. /\ galServer' = galServer /\ gal' = [gal EXCEPT !.busy = TRUE, !.asked = @ + 1] /\ galCalls' = galCalls \cup {e}
        /\ gal.ask /\ ~gal.busy
        BY <1>5, <2>1 DEF Gal!DoBatchDelete
  <2>3. /\ DOMAIN gal' = GalFields /\ gal'.images = gal.images /\ gal'.filter = gal.filter /\ gal'.epoch = gal.epoch
        /\ gal'.foreign = gal.foreign /\ gal'.selection = gal.selection /\ gal'.confirm = gal.confirm
        /\ gal'.force = gal.force /\ gal'.ask = gal.ask /\ gal'.busy /\ gal'.loading = gal.loading
        BY <1>1, <2>2 DEF GalFields
  <2>4. GalTrue(e) /\ GalDue(e)' /\ e.kind = "batch"
        BY <1>1, <2>1, <2>2, <2>3 DEF GalTrue, GalDue, GalEnds
  <2> QED BY <2>2, <2>3, <2>4, GalAsks DEF GalEnds
<1> QED BY <1>2, <1>3, <1>4, <1>5

LEMMA GalFilters ==
  ASSUME GalInv, NEW f \in Gal!Filters, Gal!SetFilter(f)
  PROVE  GalInv' /\ gal'.epoch # gal.epoch
<1>1. /\ DOMAIN gal = GalFields /\ gal.epoch \in Nat /\ gal.confirm \in GalKnown \cup {0} /\ gal.force \in GalKnown \cup {0}
      /\ f \in {"memo", "novel", "all"}
      BY DEF GalInv, GalPage, Gal!Filters, Gal!Scopes
<1>2. PICK m : m = [gal EXCEPT !.filter = f, !.images = {}, !.cursor = 0, !.selection = {}, !.epoch = @ + 1, !.foreign = {},
                               !.left = @ - 1]
      OBVIOUS
<1>3. PICK e : e = Gal!ListCall(m)
      OBVIOUS
<1>4. /\ gal' = [m EXCEPT !.loading = TRUE, !.asked = @ + 1] /\ galCalls' = galCalls \cup {e} /\ galServer' = galServer
      /\ ~gal.ask
      BY <1>2, <1>3 DEF Gal!SetFilter, Gal!Asking, Gal!NoCursor, Gal!Dialog
<1>5. /\ DOMAIN m = GalFields /\ m.images = {} /\ m.filter = f /\ m.epoch = gal.epoch + 1 /\ m.selection = {}
      /\ m.confirm = gal.confirm /\ m.force = gal.force /\ m.busy = gal.busy /\ m.ask = gal.ask
      BY <1>1, <1>2 DEF GalFields
<1>6. /\ DOMAIN gal' = GalFields /\ gal'.images = {} /\ gal'.filter = f /\ gal'.epoch = gal.epoch + 1 /\ gal'.selection = {}
      /\ gal'.confirm = gal.confirm /\ gal'.force = gal.force /\ gal'.busy = gal.busy /\ gal'.ask = gal.ask
      BY <1>4, <1>5 DEF GalFields
<1>7. /\ {"kind", "id", "read", "epoch", "filter", "page", "next"} \subseteq DOMAIN e /\ e.kind = "list"
      /\ e.epoch = gal.epoch + 1 /\ e.filter = f /\ e.page = {}
      BY <1>3, <1>5 DEF Gal!ListCall
<1>8. GalGrows /\ GalTrue(e)'
      BY <1>4, <1>7, GalSame DEF GalTrue
<1>9. \A c \in galCalls' : GalTrue(c)'
      BY <1>4, <1>8, GalKeeps
<1>10. \A c \in galCalls' : GalDue(c)'
  <2>1. GalDue(e)'
        BY <1>1, <1>6, <1>7 DEF GalDue, GalEnds
  <2>2. ASSUME NEW c \in galCalls PROVE GalDue(c)'
        BY <1>1, <1>4, <1>6 DEF GalInv, GalDue
  <2> QED BY <1>4, <2>1, <2>2
<1>11. GalOne' /\ GalBusy'
      BY <1>4, <1>6, <1>7 DEF GalInv, GalOne, GalBusy, GalEnds
<1>12. GalPage'
      BY <1>1, <1>4, <1>6 DEF GalPage, GalKnown
<1> QED BY <1>1, <1>6, <1>8, <1>9, <1>10, <1>11, <1>12 DEF GalInv, GalGrows

(* An answer, or a failure, reaches the page.                              *)
LEMMA GalHears ==
  ASSUME GalInv, GalGrows, NEW c \in galCalls, galCalls' = galCalls \ {c}, DOMAIN gal' = GalFields,
         gal'.epoch = gal.epoch, gal'.filter = gal.filter, gal'.images \subseteq GalKnown,
         gal'.selection \subseteq gal.selection, gal'.confirm \in GalKnown \cup {0}, gal'.force \in GalKnown \cup {0},
         \A p \in gal'.images : Gal!Matches(galServer.scope[p], gal.filter) \/ p \in gal'.foreign,
         gal'.loading => gal.loading /\ ~(c.kind = "list" /\ c.epoch = gal.epoch),
         c.kind \in GalEnds => ~gal'.busy, c.kind \notin GalEnds => gal'.busy = gal.busy /\ gal'.ask = gal.ask
  PROVE  GalInv'
<1>1. \A e \in galCalls' : GalTrue(e)'
      BY GalKeeps
<1>2. \A e \in galCalls' : GalDue(e)'
  <2>1. SUFFICES ASSUME NEW e \in galCalls, e # c PROVE GalDue(e)'
        OBVIOUS
  <2>2. GalDue(e) /\ (c.kind \in GalEnds => e.kind \notin GalEnds)
        BY <2>1 DEF GalInv, GalOne
  <2> QED BY <2>2 DEF GalDue, GalEnds
<1>3. GalOne'
      BY DEF GalInv, GalOne
<1>4. GalBusy'
      BY DEF GalInv, GalBusy
<1>5. GalPage'
      BY DEF GalInv, GalPage, GalGrows, Gal!Matches
<1> QED BY <1>1, <1>2, <1>3, <1>4, <1>5 DEF GalInv, GalGrows

(* What is taken off the list is gone.                                     *)
GalGone == (gal.images \ gal'.images) \cap galServer'.there = {}

LEMMA GalAnswers ==
  ASSUME GalInv, NEW c \in galCalls, Gal!ListAnswered(c) \/ Gal!ListFails(c)
  PROVE  GalInv' /\ GalGone
<1>1. /\ DOMAIN gal = GalFields /\ gal.images \subseteq GalKnown /\ gal.confirm \in GalKnown \cup {0}
      /\ gal.force \in GalKnown \cup {0}
      /\ \A p \in gal.images : Gal!Matches(galServer.scope[p], gal.filter) \/ p \in gal.foreign
      BY DEF GalInv, GalPage
<1>2. /\ c.kind = "list" /\ galServer' = galServer /\ galCalls' = galCalls \ {c}
      /\ GalTrue(c) /\ GalDue(c)
      BY DEF GalInv, Gal!ListAnswered, Gal!ListFails
<1>3. /\ DOMAIN gal' = GalFields /\ gal'.epoch = gal.epoch /\ gal'.filter = gal.filter /\ gal'.selection = gal.selection
      /\ gal'.confirm = gal.confirm /\ gal'.force = gal.force /\ gal'.busy = gal.busy /\ gal'.ask = gal.ask
      /\ gal'.foreign = gal.foreign /\ (c.epoch = gal.epoch => ~gal'.loading)
      /\ (c.epoch # gal.epoch => gal'.loading = gal.loading)
      /\ gal'.images = gal.images \/ (c.epoch = gal.epoch /\ gal'.images = gal.images \cup c.page)
  <2>1. CASE Gal!ListAnswered(c)
        BY <1>1, <2>1 DEF Gal!ListAnswered, GalFields
  <2>2. CASE Gal!ListFails(c)
    <3>1. CASE c.epoch = gal.epoch
      <4>1. gal' = [[gal EXCEPT !.loading = FALSE] EXCEPT !.left = @ - 1]
            BY <2>2, <3>1 DEF Gal!ListFails
      <4> QED BY <1>1, <3>1, <4>1 DEF GalFields
    <3>2. CASE c.epoch # gal.epoch
      <4>1. gal' = [gal EXCEPT !.left = @ - 1]
            BY <2>2, <3>2 DEF Gal!ListFails
      <4> QED BY <1>1, <3>2, <4>1 DEF GalFields
    <3> QED BY <3>1, <3>2
  <2> QED BY <2>1, <2>2
<1>4. c.epoch = gal.epoch => \A p \in c.page : p \in GalKnown /\ Gal!Matches(galServer.scope[p], gal.filter)
      BY <1>2 DEF GalTrue, GalDue
<1>5. /\ gal'.images \subseteq GalKnown
      /\ \A p \in gal'.images : Gal!Matches(galServer.scope[p], gal.filter) \/ p \in gal'.foreign
      BY <1>1, <1>3, <1>4
<1>6. GalInv'
      BY <1>1, <1>2, <1>3, <1>5, GalSame, GalHears DEF GalEnds
<1> QED BY <1>3, <1>6 DEF GalGone

LEMMA GalUploads ==
  ASSUME GalInv, NEW c \in galCalls, Gal!Uploaded(c) \/ Gal!UploadFails(c)
  PROVE  GalInv' /\ GalGone
<1>1. /\ DOMAIN gal = GalFields /\ gal.images \subseteq GalKnown /\ gal.confirm \in GalKnown \cup {0}
      /\ gal.force \in GalKnown \cup {0}
      /\ \A p \in gal.images : Gal!Matches(galServer.scope[p], gal.filter) \/ p \in gal.foreign
      BY DEF GalInv, GalPage
<1>2. c.kind = "upload" /\ galServer' = galServer /\ galCalls' = galCalls \ {c} /\ GalTrue(c)
      BY DEF GalInv, Gal!Uploaded, Gal!UploadFails
<1>3. /\ DOMAIN gal' = GalFields /\ gal'.epoch = gal.epoch /\ gal'.filter = gal.filter /\ gal'.selection = gal.selection
      /\ gal'.confirm = gal.confirm /\ gal'.force = gal.force /\ gal'.busy = gal.busy /\ gal'.ask = gal.ask
      /\ gal'.loading = gal.loading
      BY <1>1 DEF Gal!Uploaded, Gal!UploadFails, GalFields
<1>4. /\ gal'.images \subseteq GalKnown /\ gal.images \subseteq gal'.images
      /\ \A p \in gal'.images : Gal!Matches(galServer.scope[p], gal.filter) \/ p \in gal'.foreign
  <2>1. CASE Gal!Uploaded(c)
    <3>1. c.picture \in GalKnown
          BY <1>2, <2>1 DEF GalTrue, Gal!Uploaded
    <3>2. /\ gal'.images = gal.images \cup {c.picture}
          /\ gal'.foreign = IF Gal!Matches(galServer.scope[c.picture], gal.filter) THEN gal.foreign
                            ELSE gal.foreign \cup {c.picture}
          BY <1>1, <2>1 DEF Gal!Uploaded, GalFields
    <3> HIDE DEF Gal!Matches
    <3>3. ASSUME NEW p \in gal'.images PROVE Gal!Matches(galServer.scope[p], gal.filter) \/ p \in gal'.foreign
      <4>1. CASE p \in gal.images
            BY <1>1, <3>2, <4>1
      <4>2. CASE p = c.picture
            BY <3>2, <4>2
      <4> QED BY <3>2, <4>1, <4>2
    <3> QED BY <1>1, <3>1, <3>2, <3>3
  <2>2. CASE Gal!UploadFails(c)
        BY <1>1, <2>2 DEF Gal!UploadFails, GalFields
  <2> QED BY <2>1, <2>2
<1>5. GalInv'
      BY <1>1, <1>2, <1>3, <1>4, GalSame, GalHears DEF GalEnds
<1> QED BY <1>4, <1>5 DEF GalGone

LEMMA GalDeleted ==
  ASSUME GalInv, NEW c \in galCalls, Gal!Deleted(c)
  PROVE  GalInv' /\ GalGone
<1>1. /\ DOMAIN gal = GalFields /\ gal.images \subseteq GalKnown
      /\ \A p \in gal.images : Gal!Matches(galServer.scope[p], gal.filter) \/ p \in gal.foreign
      BY DEF GalInv, GalPage
<1>2. c.kind = "delete" /\ c.read /\ galServer' = galServer /\ galCalls' = galCalls \ {c} /\ GalTrue(c)
      BY DEF GalInv, Gal!Deleted
<1>3. /\ DOMAIN gal' = GalFields /\ gal'.epoch = gal.epoch /\ gal'.filter = gal.filter
      /\ gal'.selection \subseteq gal.selection /\ gal'.confirm = 0 /\ gal'.foreign = gal.foreign
      /\ gal'.force = gal.force \/ gal'.force \in {0, c.picture}
      /\ ~gal'.busy /\ gal'.loading = gal.loading /\ gal'.images \subseteq gal.images
      /\ \A p \in gal.images \ gal'.images : c.ok /\ p = c.picture
  <2>1. CASE c.ok
        BY <1>1, <2>1 DEF Gal!Deleted, Gal!NoPicture, GalFields
  <2>2. CASE ~c.ok
        BY <1>1, <2>2 DEF Gal!Deleted, Gal!NoPicture, GalFields
  <2> QED BY <2>1, <2>2
<1>4. c.picture \in GalKnown /\ gal.force \in GalKnown \cup {0} /\ (c.ok => c.picture \notin galServer.there)
      BY <1>2 DEF GalTrue, GalInv, GalPage
<1>5. GalInv'
      BY <1>1, <1>2, <1>3, <1>4, GalSame, GalHears DEF GalEnds
<1> QED BY <1>2, <1>3, <1>4, <1>5 DEF GalGone

LEMMA GalDeleteFails ==
  ASSUME GalInv, NEW c \in galCalls, Gal!DeleteFails(c)
  PROVE  GalInv' /\ GalGone
<1>1. /\ DOMAIN gal = GalFields /\ gal.images \subseteq GalKnown /\ gal.confirm \in GalKnown \cup {0}
      /\ gal.force \in GalKnown \cup {0}
      /\ \A p \in gal.images : Gal!Matches(galServer.scope[p], gal.filter) \/ p \in gal.foreign
      BY DEF GalInv, GalPage
<1>2. c.kind \in GalEnds /\ galCalls' = galCalls \ {c}
      BY DEF Gal!DeleteFails, GalEnds
<1>3. PICK gone : galServer' = [galServer EXCEPT !.there = @ \ gone]
      BY DEF Gal!DeleteFails
<1>4. gal' = [gal EXCEPT !.busy = FALSE, !.left = @ - 1]
      BY DEF Gal!DeleteFails
<1>5. /\ DOMAIN gal' = GalFields /\ gal'.epoch = gal.epoch /\ gal'.filter = gal.filter /\ gal'.selection = gal.selection
      /\ gal'.confirm = gal.confirm /\ gal'.force = gal.force /\ ~gal'.busy /\ gal'.foreign = gal.foreign
      /\ gal'.loading = gal.loading /\ gal'.images = gal.images
      BY <1>1, <1>4 DEF GalFields
<1>6. GalGrows
      BY <1>3, GalRemoves
<1>7. GalInv'
      BY <1>1, <1>2, <1>5, <1>6, GalHears DEF GalEnds
<1> QED BY <1>5, <1>7 DEF GalGone

LEMMA GalBatch ==
  ASSUME GalInv, NEW c \in galCalls, Gal!BatchDeleted(c)
  PROVE  GalInv' /\ GalGone
<1>1. /\ DOMAIN gal = GalFields /\ gal.images \subseteq GalKnown /\ gal.confirm \in GalKnown \cup {0}
      /\ gal.force \in GalKnown \cup {0}
      /\ \A p \in gal.images : Gal!Matches(galServer.scope[p], gal.filter) \/ p \in gal.foreign
      BY DEF GalInv, GalPage
<1>2. /\ c.kind = "batch" /\ c.read /\ galServer' = galServer /\ galCalls' = galCalls \ {c}
      /\ GalTrue(c) /\ GalDue(c)
      BY DEF GalInv, Gal!BatchDeleted
<1>3. /\ DOMAIN gal' = GalFields /\ gal'.epoch = gal.epoch /\ gal'.filter = gal.filter
      /\ gal'.selection \subseteq gal.selection /\ gal'.confirm = gal.confirm /\ gal'.force = gal.force
      /\ ~gal'.busy /\ gal'.foreign = gal.foreign /\ gal'.loading = gal.loading
      /\ gal'.images = gal.images \ (gal.selection \ c.skipped)
      BY <1>1 DEF Gal!BatchDeleted, GalFields
<1>4. \A p \in gal.selection : p \in c.skipped \/ p \notin galServer.there
      BY <1>2 DEF GalTrue, GalDue
<1>5. GalInv'
      BY <1>1, <1>2, <1>3, GalSame, GalHears DEF GalEnds
<1> QED BY <1>2, <1>3, <1>4, <1>5 DEF GalGone

LEMMA GalStep ==
  GalInv /\ [Gal!Next]_GalAll => GalInv' /\ (gal'.epoch = gal.epoch => GalGone)
<1> SUFFICES ASSUME GalInv, [Gal!Next]_GalAll PROVE GalInv' /\ (gal'.epoch = gal.epoch => GalGone)
    OBVIOUS
<1>1. gal'.images = gal.images => GalGone
      BY DEF GalGone
<1>2. CASE UNCHANGED GalAll
  <2>1. gal' = gal /\ galServer' = galServer /\ galCalls' = galCalls
        BY <1>2 DEF GalAll
  <2>2. GalServer' /\ GalOne' /\ GalPage' /\ GalBusy'
        BY <2>1 DEF GalInv, GalServer, GalKnown, GalOne, GalPage, GalBusy, Gal!Matches
  <2>3. (\A c \in galCalls' : GalTrue(c)') /\ (\A c \in galCalls' : GalDue(c)')
        BY <2>1 DEF GalInv, GalTrue, GalDue, GalKnown, Gal!Matches
  <2> QED BY <1>1, <2>1, <2>2, <2>3 DEF GalInv
<1>3. CASE Gal!LoadMore \/ Gal!Upload \/ Gal!DoDelete(FALSE) \/ Gal!DoDelete(TRUE) \/ Gal!DoBatchDelete
      BY <1>1, <1>3, GalWishes
<1>4. ASSUME NEW p, Gal!AskDelete(p) \/ Gal!CloseDialogs \/ Gal!ToggleBatch \/ Gal!ToggleSelect(p) \/ Gal!SelectAllVisible
                    \/ Gal!AskBatch
      PROVE  GalInv' /\ GalGone
      BY <1>1, <1>4, GalUser
<1>5. ASSUME NEW f \in Gal!Filters, Gal!SetFilter(f) PROVE GalInv' /\ gal'.epoch # gal.epoch
      BY <1>5, GalFilters
<1>6. ASSUME NEW c \in galCalls, Gal!ServerLists(c) \/ Gal!ServerStores(c) \/ Gal!ServerDeletes(c) \/ Gal!ServerDeletesBatch(c)
      PROVE  GalInv' /\ GalGone
  <2>1. gal' = gal
        BY <1>6 DEF Gal!ServerLists, Gal!ServerStores, Gal!ServerDeletes, Gal!ServerDeletesBatch
  <2> QED BY <1>1, <1>6, <2>1, GalLists, GalStores, GalDeletes
<1>7. ASSUME NEW c \in galCalls, Gal!ListAnswered(c) \/ Gal!ListFails(c) \/ Gal!Uploaded(c) \/ Gal!UploadFails(c)
                                 \/ Gal!Deleted(c) \/ Gal!DeleteFails(c) \/ Gal!BatchDeleted(c)
      PROVE  GalInv' /\ GalGone
      BY <1>7, GalAnswers, GalUploads, GalDeleted, GalDeleteFails, GalBatch
<1>8. CASE Gal!Next
      BY <1>3, <1>4, <1>5, <1>6, <1>7, <1>8 DEF Gal!Next
<1> QED BY <1>2, <1>8

(* Whatever answers of an earlier filter, of an upload or of a deletion    *)
(* are still out, what the gallery shows belongs to the filter shown, it   *)
(* says it is busy only while it is, and a picture leaves the list only    *)
(* when the server has it no more (gallery-store, GalleryGrid).            *)
THEOREM PicturesStayInSight ==
  Gal!Spec => Gal!OnlyTheDeletedDisappear /\ [](Gal!GalleryBusyIsHonest /\ Gal!ShownBelongsToFilter)
<1>1. GalInv /\ [Gal!Next]_GalAll => GalInv' /\ [gal'.epoch = gal.epoch => GalGone]_GalAll
      BY GalStep
<1>2. Gal!Spec => [](Gal!GalleryBusyIsHonest /\ Gal!ShownBelongsToFilter) /\ [][gal'.epoch = gal.epoch => GalGone]_GalAll
      BY <1>1, GalStarts, GalTells, PTL DEF Gal!Spec, Gal!galVars, GalAll
<1> QED BY <1>2 DEF Gal!OnlyTheDeletedDisappear, GalGone, Gal!galVars, GalAll

(* A late answer does no harm: on any of these panels, for any number of   *)
(* events, polls, pictures, tasks and novels, no answer that comes after a *)
(* change of mind shows what is not there, takes away what is, is applied  *)
(* to text it was not asked for or adopts a chapter twice.                 *)
THEOREM LateAnswersDoNoHarm ==
  ASSUME StBounds, BillMaxEvents \in Nat
  PROVE  Tool!Spec /\ Gal!Spec /\ Note!Spec /\ StSpec /\ Bill!Spec => LateAnswersAreHarmless
<1>1. Tool!Spec => Tool!CluesAreNotLate /\ []Tool!CancelledIsNotApplied
  BY CancelInterrupts, PTL
<1>2. Gal!Spec => Gal!OnlyTheDeletedDisappear
  BY PicturesStayInSight, PTL
<1>3. Note!Spec => Note!NoticesOutliveTheirTask
  BY NoticesAreTrue, PTL
<1>4. StSpec => []KeysAreDistinct
  BY NoKeyIsAdoptedTwice
<1>5. Bill!Spec => Bill!BoughtIsShown
  BY BoughtMeansPaid, PTL
<1> QED
  BY <1>1, <1>2, <1>3, <1>4, <1>5, PTL DEF LateAnswersAreHarmless
===============================================================================
