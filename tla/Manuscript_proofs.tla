-------------------------- MODULE Manuscript_proofs ---------------------------
(***************************************************************************)
(* Proofs about Manuscript, for any set of requests, any finite set of     *)
(* chapters and any bounds.                                                *)
(***************************************************************************)
EXTENDS Manuscript, FiniteSetTheorems, FunctionTheorems, SequenceTheorems, WellFoundedInduction, TLAPS

-----------------------------------------------------------------------------
(* Induction, as the provers can use it: a set of numbers that has 0 and   *)
(* the successor of each of its members is Nat.                            *)

LEMMA LeastNumber ==
  ASSUME NEW S \in SUBSET Nat, S # {}
  PROVE  \E n \in S : \A m \in S : n <= m
<1> DEFINE R == {p \in Nat \X Nat : p[1] < p[2]}
<1>1. IsWellFoundedOn(R, Nat)
  BY NatLessThanWellFounded DEF OpToRel
<1> HIDE DEF R
<1>2. PICK n \in S : \A m \in S : <<m, n>> \notin R
  BY <1>1, WFMin
<1>3. \A m \in S : m < n => <<m, n>> \in R
  BY DEF R
<1>4. ASSUME NEW m \in S PROVE n <= m
  <2>1. ~(m < n) /\ m \in Nat /\ n \in Nat
    BY <1>2, <1>3
  <2> QED
    BY <2>1
<1> QED
  BY <1>4

LEMMA Induction ==
  ASSUME NEW S \in SUBSET Nat, 0 \in S, \A n \in S : n + 1 \in S
  PROVE  S = Nat
<1> SUFFICES ASSUME Nat \ S # {} PROVE FALSE
  OBVIOUS
<1>1. PICK n \in Nat \ S : \A m \in Nat \ S : n <= m
  BY LeastNumber
<1>2. n # 0 /\ n - 1 \in Nat
  BY <1>1
<1>3. n - 1 \in S
  BY <1>1, <1>2
<1> QED
  BY <1>1, <1>2, <1>3

(* A finite set of numbers has a greatest one.                             *)
LEMMA Greatest ==
  ASSUME NEW S \in SUBSET Nat, IsFiniteSet(S), S # {}
  PROVE  Max(S) \in S /\ \A n \in S : n <= Max(S)
<1> DEFINE Sized(n) == \A T \in SUBSET Nat :
             IsFiniteSet(T) /\ T # {} /\ Cardinality(T) = n => \E m \in T : \A k \in T : k <= m
<1>1. {n \in Nat : Sized(n)} = Nat
  <2> DEFINE Proved == {n \in Nat : Sized(n)}
  <2>1. 0 \in Proved
    BY FS_EmptySet
  <2>2. ASSUME NEW n \in Proved PROVE n + 1 \in Proved
    <3> SUFFICES ASSUME NEW T \in SUBSET Nat, IsFiniteSet(T), T # {}, Cardinality(T) = n + 1
                 PROVE  \E m \in T : \A k \in T : k <= m
      OBVIOUS
    <3>1. PICK t : t \in T
      OBVIOUS
    <3>2. IsFiniteSet(T \ {t}) /\ Cardinality(T \ {t}) = n
      <4>1. Cardinality(T \ {t}) = Cardinality(T) - 1 /\ n \in Nat
        BY <3>1, FS_RemoveElement
      <4> QED
        BY <3>1, <4>1, FS_RemoveElement
    <3>3. CASE T \ {t} = {}
      BY <3>1, <3>3
    <3>4. CASE T \ {t} # {}
      <4>1. PICK m \in T \ {t} : \A k \in T \ {t} : k <= m
        BY <3>2, <3>4
      <4>2. m \in Nat /\ t \in Nat
        BY <3>1
      <4>3. CASE t <= m
        BY <4>1, <4>3
      <4>4. CASE ~(t <= m)
        <5>1. \A k \in T : k <= t
          BY <4>1, <4>2, <4>4
        <5> QED
          BY <3>1, <5>1
      <4> QED
        BY <4>3, <4>4
    <3> QED
      BY <3>3, <3>4
  <2> HIDE DEF Sized
  <2> QED
    BY <2>1, <2>2, Induction
<1>2. Cardinality(S) \in Nat
  BY FS_CardinalityType
<1>3. \E m \in S : \A k \in S : k <= m
  BY <1>1, <1>2
<1>4. \E m \in S : \A k \in S : m >= k
  BY <1>3
<1> QED
  BY <1>4 DEF Max

-----------------------------------------------------------------------------
(* Sorted lists what it is given, in order.                                *)

LEMMA Places ==
  ASSUME NEW S, IsFiniteSet(S), NEW f \in [S -> Nat]
  PROVE  /\ \A c \in S : /\ IsFiniteSet({d \in S : f[d] <= f[c]})
                         /\ Cardinality({d \in S : f[d] <= f[c]}) \in 1..Cardinality(S)
         /\ \A c, d \in S : f[c] < f[d] =>
              Cardinality({x \in S : f[x] <= f[c]}) < Cardinality({x \in S : f[x] <= f[d]})
<1> DEFINE upto(c) == {d \in S : f[d] <= f[c]}
<1>1. ASSUME NEW c \in S
      PROVE  IsFiniteSet(upto(c)) /\ Cardinality(upto(c)) \in 1..Cardinality(S)
  <2>1. upto(c) \in SUBSET S /\ c \in upto(c)
    OBVIOUS
  <2> HIDE DEF upto
  <2>2. IsFiniteSet(upto(c)) /\ Cardinality(upto(c)) <= Cardinality(S)
    BY <2>1, FS_Subset
  <2>3. Cardinality(upto(c)) \in Nat /\ Cardinality(S) \in Nat /\ Cardinality(upto(c)) # 0
    BY <2>1, <2>2, FS_CardinalityType, FS_EmptySet
  <2> QED
    BY <2>2, <2>3
<1>2. ASSUME NEW c \in S, NEW d \in S, f[c] < f[d]
      PROVE  Cardinality(upto(c)) < Cardinality(upto(d))
  <2>1. upto(c) \in SUBSET upto(d) /\ d \in upto(d) /\ d \notin upto(c)
    BY <1>2
  <2>2. IsFiniteSet(upto(d)) /\ Cardinality(upto(d)) \in Nat /\ Cardinality(upto(c)) \in Nat
    BY <1>1, FS_CardinalityType
  <2> HIDE DEF upto
  <2>3. Cardinality(upto(c)) <= Cardinality(upto(d)) /\ Cardinality(upto(c)) # Cardinality(upto(d))
    BY <2>1, <2>2, FS_Subset
  <2> QED
    BY <2>2, <2>3
<1> QED
  BY <1>1, <1>2

LEMMA SortedLists ==
  ASSUME NEW S, IsFiniteSet(S), NEW f \in [S -> Nat], \A c, d \in S : f[c] = f[d] => c = d
  PROVE  /\ Sorted(S, f) \in [1..Cardinality(S) -> S]
         /\ \A c \in S : \E i \in 1..Cardinality(S) : Sorted(S, f)[i] = c
         /\ \A i, j \in 1..Cardinality(S) : i < j => f[Sorted(S, f)[i]] < f[Sorted(S, f)[j]]
<1> DEFINE n == Cardinality(S)
           place == [c \in S |-> Cardinality({d \in S : f[d] <= f[c]})]
           s == [i \in 1..n |-> CHOOSE c \in S : place[c] = i]
<1>1. n \in Nat /\ IsFiniteSet(1..n) /\ Cardinality(1..n) = n
  BY FS_CardinalityType, FS_Interval
<1>2. place \in [S -> 1..n] /\ \A c, d \in S : f[c] < f[d] => place[c] < place[d]
  BY Places
<1>3. Sorted(S, f) = s
  BY DEF Sorted
<1> HIDE DEF place
<1>4. \A c, d \in S : place[c] = place[d] => c = d
  <2> SUFFICES ASSUME NEW c \in S, NEW d \in S, place[c] = place[d] PROVE f[c] = f[d]
    OBVIOUS
  <2>1. place[c] \in Nat /\ f[c] \in Nat /\ f[d] \in Nat
    BY <1>1, <1>2
  <2> QED
    BY <1>2, <2>1
<1>5. place \in Injection(S, 1..n)
  BY <1>2, <1>4, Fun_IsInj
<1>6. place \in Surjection(S, 1..n)
  BY <1>1, <1>5, FS_Injection DEF n
<1>7. \A i \in 1..n : s[i] \in S /\ place[s[i]] = i
  BY <1>6 DEF Surjection
<1> HIDE DEF s, n
<1>8. s \in [1..n -> S]
  BY <1>7 DEF s
<1>9. ASSUME NEW c \in S PROVE \E i \in 1..n : s[i] = c
  BY <1>2, <1>4, <1>7
<1>10. ASSUME NEW i \in 1..n, NEW j \in 1..n, i < j PROVE f[s[i]] < f[s[j]]
  <2>1. f[s[i]] \in Nat /\ f[s[j]] \in Nat /\ i \in Nat /\ j \in Nat
    BY <1>1, <1>7
  <2>2. ~(f[s[j]] < f[s[i]]) /\ f[s[i]] # f[s[j]]
    BY <1>2, <1>7, <1>10, <2>1
  <2> QED
    BY <2>1, <2>2
<1> QED
  BY <1>3, <1>8, <1>9, <1>10 DEF n

-----------------------------------------------------------------------------
(* The recursive functions of the model are what their equations say.      *)

Rebinding(run, o, ids, N) ==
  run = [n \in 0..N |-> IF n = 0 THEN o ELSE Rebind(run[n - 1], ids[n])]

LEMMA RebindingRuns ==
  ASSUME NEW o, NEW ids, NEW N \in Nat
  PROVE  \E run : Rebinding(run, o, ids, N)
<1> DEFINE Runs(n) == \E run : run = [k \in 0..n |-> IF k = 0 THEN o ELSE Rebind(run[k - 1], ids[k])]
           Proved == {n \in Nat : Runs(n)}
<1>1. 0 \in Proved
  <2>1. [k \in 0..0 |-> o] = [k \in 0..0 |-> IF k = 0 THEN o ELSE Rebind([j \in 0..0 |-> o][k - 1], ids[k])]
    OBVIOUS
  <2> QED
    BY <2>1
<1>2. ASSUME NEW n \in Proved PROVE n + 1 \in Proved
  <2>1. PICK run : run = [k \in 0..n |-> IF k = 0 THEN o ELSE Rebind(run[k - 1], ids[k])]
    OBVIOUS
  <2> DEFINE next == [k \in 0..(n + 1) |-> IF k <= n THEN run[k] ELSE Rebind(run[n], ids[n + 1])]
  <2>2. ASSUME NEW k \in 0..(n + 1) PROVE next[k] = IF k = 0 THEN o ELSE Rebind(next[k - 1], ids[k])
    <3>1. CASE k = 0
      BY <2>1, <3>1
    <3>2. CASE k # 0 /\ k <= n
      <4>1. k - 1 \in 0..(n + 1) /\ k - 1 <= n /\ k \in 0..n
        BY <3>2
      <4>2. next[k - 1] = run[k - 1] /\ next[k] = run[k]
        BY <3>2, <4>1
      <4>3. run[k] = Rebind(run[k - 1], ids[k])
        BY <2>1, <3>2, <4>1
      <4> QED
        BY <3>2, <4>2, <4>3
    <3>3. CASE k = n + 1
      <4>1. n \in 0..(n + 1) /\ k - 1 = n /\ k # 0 /\ ~(k <= n)
        BY <3>3
      <4>2. next[k - 1] = run[n] /\ next[k] = Rebind(run[n], ids[n + 1])
        BY <3>3, <4>1
      <4> QED
        BY <3>3, <4>1, <4>2
    <3> QED
      BY <3>1, <3>2, <3>3
  <2> HIDE DEF next
  <2>3. next = [k \in 0..(n + 1) |-> next[k]]
    BY DEF next
  <2>4. next = [k \in 0..(n + 1) |-> IF k = 0 THEN o ELSE Rebind(next[k - 1], ids[k])]
    BY <2>2, <2>3
  <2> QED
    BY <2>4
<1> HIDE DEF Runs
<1>3. Proved = Nat
  BY <1>1, <1>2, Induction
<1>4. Runs(N)
  BY <1>3
<1> QED
  BY <1>4 DEF Runs, Rebinding

LEMMA ReboundRuns ==
  ASSUME NEW o, NEW C, Len(ByPosition(chapter, C)) \in Nat
  PROVE  \E run : /\ Rebinding(run, o, ByPosition(chapter, C), Len(ByPosition(chapter, C)))
                  /\ Rebound(o, C) = run[Len(ByPosition(chapter, C))]
<1> DEFINE ids == ByPosition(chapter, C)
           run[n \in 0..Len(ids)] == IF n = 0 THEN o ELSE Rebind(run[n - 1], ids[n])
<1>1. Rebound(o, C) = run[Len(ids)] /\ Len(ids) \in Nat
  BY DEF Rebound
<1> HIDE DEF ids
<1>2. \E r : Rebinding(r, o, ids, Len(ids))
  BY <1>1, RebindingRuns
<1>3. \E r : r = [n \in 0..Len(ids) |-> IF n = 0 THEN o ELSE Rebind(r[n - 1], ids[n])]
  BY <1>2 DEF Rebinding
<1>4. run = [n \in 0..Len(ids) |-> IF n = 0 THEN o ELSE Rebind(run[n - 1], ids[n])]
  BY <1>3
<1> HIDE DEF run
<1>5. Rebinding(run, o, ids, Len(ids))
  BY <1>4 DEF Rebinding
<1> QED
  BY <1>1, <1>5 DEF ids

-----------------------------------------------------------------------------
(* Types.  The live chapters of a book, whether the table or a copy of it, *)
(* are at positions of their own: uniq_chapters_novel_position.            *)

Texts    == Requests \cup Chapters \cup {Past, Empty}
Titles   == Chapters \cup {None}
Rows     == [row : {"live", "deleted", "none"}, pos : Nat, text : Texts, title : Titles]
Apart(b) == \A c, d \in LiveIn(b) : b[c].pos = b[d].pos => c = d
Books    == {b \in [Chapters -> Rows] : Apart(b)}
Nodes    == [title : Titles, chapter : Titles]
Outlines == Seq(Nodes)
Versions == [at : Nat, chapter : Chapters, text : Texts, kind : {"auto", "rollback", "milestone"}]
Bundles  == [book : Books, list : Outlines]
Binned   == [node : Nodes, text : Texts, title : Titles]
Steps    ==
  {"idle", "done", "max", "insert", "bindread", "bind", "shift", "insertat", "answered", "upsert",
   "syncread", "sync", "order", "reorder", "cache", "fill", "aload", "akeep", "load", "latest", "keep",
   "boundary", "prune", "save", "uncache", "count", "remove", "mark", "target", "checkpoint", "tread",
   "trash", "find", "revive", "replant", "purge", "bchapters", "boutline", "current", "revert"}
Picks    == {None} \cup Versions \cup Keys \cup Nodes
Queries  ==
  [kind : {"none", "create", "open", "reorder", "read", "agent", "save", "delete", "mark", "rollback",
           "put", "trash", "untrash", "purge", "bundle", "revert"},
   pc : Steps, c : Titles, seen : Rows, pos : Nat, list : Outlines \cup Seq(Chapters), book : Books,
   pick : Picks, full : BOOLEAN, tried : BOOLEAN, alone : BOOLEAN,
   reply : {"none", "own conflict", "other"}]

(* The queries a request of each kind goes through.                        *)
Course(kind, pc) ==
  /\ kind = "none"     <=> pc \in {"idle", "done"}
  /\ kind = "create"   => pc \in {"max", "insert", "bindread", "bind"}
  /\ kind = "open"     => pc \in {"max", "shift", "insertat", "answered", "upsert", "syncread",
                                  "sync", "order"}
  /\ kind = "reorder"  => pc = "reorder"
  /\ kind = "read"     => pc \in {"cache", "fill"}
  /\ kind = "agent"    => pc \in {"cache", "fill", "aload", "akeep", "load", "latest", "keep",
                                  "boundary", "prune", "save", "uncache", "count"}
  /\ kind = "save"     => pc \in {"load", "latest", "keep", "boundary", "prune", "save", "uncache",
                                  "count"}
  /\ kind = "delete"   => pc \in {"load", "remove", "uncache", "count"}
  /\ kind = "mark"     => pc \in {"load", "mark"}
  /\ kind = "rollback" => pc \in {"load", "target", "checkpoint", "save", "uncache", "count"}
  /\ kind = "put"      => pc \in {"upsert", "syncread", "sync", "order"}
  /\ kind = "trash"    => pc \in {"tread", "trash"}
  /\ kind = "untrash"  => pc \in {"find", "revive", "replant"}
  /\ kind = "purge"    => pc = "purge"
  /\ kind = "bundle"   => pc \in {"bchapters", "boutline"}
  /\ kind = "revert"   => pc \in {"bchapters", "boutline", "current", "revert"}

OnCourse(q) == Course(q.kind, q.pc)

(* What it carries.                                                        *)
Carries(q) ==
  /\ q.kind \in {"create", "open", "read", "agent", "save", "delete", "mark", "rollback"} =>
       q.c \in Chapters
  /\ q.kind = "rollback" => q.pick \in Versions
  /\ q.kind = "trash" => q.pick \in Nodes
  /\ q.kind \in {"untrash", "purge", "revert"} => q.pick \in Keys
  /\ q.pc = "reorder" => q.list \in Seq(Chapters)
  /\ q.pc # "reorder" => q.list \in Outlines
  /\ q.pc = "trash" => \E i \in DOMAIN q.list : q.list[i] = q.pick

Backed(q) == q.kind = "revert" => bundle[q.pick] \in Bundles
Proper(q) == q \in Queries /\ OnCourse(q) /\ Carries(q) /\ Backed(q)
Asking    == req \in [Requests -> Queries] /\ \A r \in Requests : Proper(req[r])

TypeOK ==
  /\ chapter \in Books /\ outline \in Outlines /\ panel \in Outlines
  /\ bin \in [Keys -> {None} \cup Binned]
  /\ version \in SUBSET Versions /\ stamp \in Nat
  /\ bundle \in [Keys -> {None} \cup Bundles]
  /\ cache \in [Chapters -> Texts \cup {None, "null"}]
  /\ counted \in {"right", "behind", "skipped"}
  /\ faults \in Nat
  /\ Asking

LEMMA FreshQuery ==
  /\ Proper(Fresh)
  /\ NoRow \in Rows /\ NoBook \in Books /\ << >> \in Outlines
<1>1. NoRow \in Rows /\ << >> \in Outlines
  BY DEF NoRow, Rows, Texts, Titles, Outlines
<1>2. NoBook \in Books
  BY <1>1 DEF NoBook, Books, Apart, LiveIn, NoRow
<1>3. Fresh \in Queries
  BY <1>1, <1>2 DEF Fresh, Queries, Titles, Steps, Picks
<1> QED
  BY <1>1, <1>2, <1>3 DEF Fresh, OnCourse, Course, Carries, Proper, Backed

(* The versions of the novel that there are stay.                          *)
BundlesStay == \A k \in Keys : bundle[k] \in Bundles => bundle'[k] \in Bundles

LEMMA StillBacked ==
  ASSUME BundlesStay, NEW q, Proper(q)
  PROVE  q.kind = "revert" => bundle'[q.pick] \in Bundles
BY DEF BundlesStay, Proper, Backed, Carries

(* What the steps do to the requests.                                      *)
LEMMA Asked ==
  ASSUME Asking, BundlesStay, NEW r \in Requests, NEW q, Proper(q), req' = [req EXCEPT ![r] = q]
  PROVE  Asking'
<1>1. q \in Queries /\ req' \in [Requests -> Queries]
  BY DEF Asking, Proper
<1>2. ASSUME NEW x \in Requests PROVE Proper(req'[x]) /\ (req'[x].kind = "revert" => bundle'[req'[x].pick] \in Bundles)
  <2>1. Proper(req'[x])
    BY DEF Asking
  <2> QED
    BY <2>1, StillBacked
<1> QED
  BY <1>1, <1>2 DEF Asking, Proper, Backed

LEMMA Going ==
  ASSUME Asking, BundlesStay, NEW r \in Requests, NEW pc \in Steps, Goto(r, pc),
         Course(req[r].kind, pc), pc = "reorder" <=> req[r].pc = "reorder", pc # "trash"
  PROVE  Asking'
<1> DEFINE q == [req[r] EXCEPT !.pc = pc]
<1>1. req[r] \in Queries /\ Carries(req[r]) /\ Backed(req[r])
  BY DEF Asking, Proper
<1>2. /\ q \in Queries /\ q.kind = req[r].kind /\ q.c = req[r].c /\ q.pick = req[r].pick
      /\ q.list = req[r].list /\ q.pc = pc
  BY Zenon, <1>1 DEF Queries
<1>3. req' = [req EXCEPT ![r] = q]
  BY DEF Goto
<1> HIDE DEF q
<1>4. Carries(q) /\ Backed(q)
  BY <1>1, <1>2 DEF Carries, Backed
<1>5. Proper(q)
  BY <1>2, <1>4 DEF OnCourse, Proper
<1> QED
  BY <1>3, <1>5, Asked

LEMMA AnsweredQuery ==
  ASSUME Asking, NEW r \in Requests, NEW x
  PROVE  LET q == Answered(req[r], x) IN
         /\ Proper(q) /\ q.pc = "done" /\ ~q.alone /\ q.book = NoBook
         /\ q.reply = IF x = "own conflict" THEN x ELSE "other"
<1> DEFINE q == Answered(req[r], x)
<1>1. req[r] \in Queries
  BY DEF Asking, Proper
<1>2. /\ q \in Queries /\ q.kind = "none" /\ q.pc = "done" /\ q.list = << >> /\ ~q.alone
      /\ q.book = NoBook /\ q.reply = IF x = "own conflict" THEN x ELSE "other"
  <2> DEFINE y == IF x = "own conflict" THEN x ELSE "other"
             d == IF req[r].kind \in {"create", "open"} THEN req[r].c ELSE None
  <2>1. y \in {"none", "own conflict", "other"} /\ d \in Titles
    BY Zenon, <1>1 DEF Queries, Titles
  <2>2. q = [Fresh EXCEPT !.pc = "done", !.reply = y, !.c = d]
    BY DEF Answered
  <2> HIDE DEF y, d, q
  <2>3. q \in Queries
    BY ZenonT(60), <2>1, <2>2, FreshQuery DEF Queries, Steps, Fresh, Picks
  <2>4. q.kind = "none" /\ q.pc = "done" /\ q.list = << >> /\ ~q.alone /\ q.book = NoBook /\ q.reply = y
    BY <2>2 DEF Fresh
  <2> QED
    BY Zenon, <2>3, <2>4 DEF y
<1> HIDE DEF q
<1>3. Proper(q)
  BY Zenon, <1>2, FreshQuery DEF OnCourse, Course, Carries, Backed, Proper
<1> QED
  BY Zenon, <1>2, <1>3 DEF q

LEMMA Replying ==
  ASSUME Asking, BundlesStay, NEW r \in Requests, NEW x, Reply(r, x)
  PROVE  /\ Asking'
         /\ \A y \in Requests \ {r} : req'[y] = req[y]
         /\ req'[r].pc = "done" /\ ~req'[r].alone /\ req'[r].book = NoBook
         /\ req'[r].reply = IF x = "own conflict" THEN x ELSE "other"
<1> DEFINE q == Answered(req[r], x)
<1>1. req' = [req EXCEPT ![r] = q]
  BY DEF Reply
<1>2. /\ Proper(q) /\ q.pc = "done" /\ ~q.alone /\ q.book = NoBook
      /\ q.reply = IF x = "own conflict" THEN x ELSE "other"
  BY Zenon, AnsweredQuery
<1> HIDE DEF q
<1>3. Asking'
  BY Zenon, <1>1, <1>2, Asked
<1>4. req \in [Requests -> Queries]
  BY DEF Asking
<1> QED
  BY Zenon, <1>1, <1>2, <1>3, <1>4

LEMMA Arriving ==
  ASSUME Asking, BundlesStay, NEW r \in Requests, NEW q, Proper(q), Arrive(r, q)
  PROVE  Asking'
<1> DEFINE f(x) == IF x = r THEN [q EXCEPT !.alone = InFlight = {}] ELSE [req[x] EXCEPT !.alone = FALSE]
<1>1. ASSUME NEW x \in Requests PROVE /\ f(x) \in Queries
                                      /\ f(x).kind = IF x = r THEN q.kind ELSE req[x].kind
                                      /\ f(x).pc = IF x = r THEN q.pc ELSE req[x].pc
                                      /\ f(x).c = IF x = r THEN q.c ELSE req[x].c
                                      /\ f(x).pick = IF x = r THEN q.pick ELSE req[x].pick
                                      /\ f(x).list = IF x = r THEN q.list ELSE req[x].list
  <2>1. PICK b \in BOOLEAN : b = (InFlight = {})
    OBVIOUS
  <2>2. f(x) = IF x = r THEN [q EXCEPT !.alone = b] ELSE [req[x] EXCEPT !.alone = FALSE]
    BY <2>1
  <2>3. q \in Queries /\ req[x] \in Queries
    BY DEF Proper, Asking
  <2> DEFINE p == IF x = r THEN q ELSE req[x]
             d == IF x = r THEN b ELSE FALSE
  <2>4. f(x) = [p EXCEPT !.alone = d] /\ p \in Queries /\ d \in BOOLEAN
    BY <2>2, <2>3
  <2> HIDE DEF f, p, d
  <2>5. /\ f(x) \in Queries /\ f(x).kind = p.kind /\ f(x).pc = p.pc /\ f(x).c = p.c
        /\ f(x).pick = p.pick /\ f(x).list = p.list
    BY Zenon, <2>4 DEF Queries
  <2> QED
    BY <2>5 DEF p
<1>2. req' = [x \in Requests |-> f(x)]
  BY DEF Arrive
<1> HIDE DEF f
<1>3. ASSUME NEW x \in Requests PROVE OnCourse(f(x)) /\ Carries(f(x)) /\ (f(x).kind = "revert" => bundle'[f(x).pick] \in Bundles)
  <2> DEFINE p == IF x = r THEN q ELSE req[x]
  <2>1. f(x).kind = p.kind /\ f(x).pc = p.pc /\ f(x).c = p.c /\ f(x).pick = p.pick /\ f(x).list = p.list
    BY <1>1
  <2>2. Proper(p)
    BY DEF Asking
  <2> HIDE DEF p
  <2>3. OnCourse(p) /\ Carries(p) /\ (p.kind = "revert" => bundle'[p.pick] \in Bundles)
    BY <2>2, StillBacked DEF Proper
  <2> QED
    BY <2>1, <2>3 DEF OnCourse, Carries
<1> QED
  BY <1>1, <1>2, <1>3 DEF Asking, Proper, Backed

-----------------------------------------------------------------------------
(* Books.                                                                  *)

LEMMA BookType ==
  ASSUME NEW b \in Books
  PROVE  /\ b \in [Chapters -> Rows] /\ Apart(b) /\ LiveIn(b) \subseteq Chapters
         /\ \A c \in Chapters : /\ b[c] \in Rows /\ b[c].pos \in Nat /\ b[c].text \in Texts
                                /\ b[c].title \in Titles
BY DEF Books, Rows, LiveIn

(* A row that is put where no other live one is.                           *)
LEMMA PutRow ==
  ASSUME NEW b \in Books, NEW c, NEW row \in Rows, ~Taken(b, row.pos, c)
  PROVE  [b EXCEPT ![c] = row] \in Books
<1> DEFINE n == [b EXCEPT ![c] = row]
<1>1. n \in [Chapters -> Rows] /\ \A d \in Chapters : n[d] = IF d = c THEN row ELSE b[d]
  BY BookType
<1> HIDE DEF n
<1>2. Apart(n)
  <2> SUFFICES ASSUME NEW d \in LiveIn(n), NEW e \in LiveIn(n), n[d].pos = n[e].pos, d # e PROVE FALSE
    BY DEF Apart
  <2>1. d \in Chapters /\ e \in Chapters
    BY DEF LiveIn
  <2>2. CASE d # c /\ e # c
    BY <1>1, <2>1, <2>2, BookType DEF Apart, LiveIn
  <2>3. CASE d = c
    BY <1>1, <2>1, <2>3 DEF Taken, LiveIn
  <2>4. CASE e = c
    BY <1>1, <2>1, <2>4 DEF Taken, LiveIn
  <2> QED
    BY <2>2, <2>3, <2>4
<1> QED
  BY <1>1, <1>2 DEF Books, n

(* Fewer live rows at the same positions.                                  *)
LEMMA FewerRows ==
  ASSUME NEW b \in Books, NEW n \in [Chapters -> Rows],
         \A c \in LiveIn(n) : c \in LiveIn(b) /\ n[c].pos = b[c].pos
  PROVE  n \in Books
BY BookType DEF Books, Apart

LEMMA DropRow ==
  ASSUME NEW b \in Books, NEW c
  PROVE  [b EXCEPT ![c].row = "deleted"] \in Books
<1> DEFINE n == [b EXCEPT ![c].row = "deleted"]
<1>1. \A d \in Chapters : /\ n[d] \in Rows /\ n[d].pos = b[d].pos
                          /\ n[d].row = IF d = c THEN "deleted" ELSE b[d].row
  BY BookType DEF Rows
<1>2. n \in [Chapters -> Rows]
  <2>1. n = [d \in Chapters |-> n[d]]
    BY BookType
  <2> HIDE DEF n
  <2> QED
    BY <1>1, <2>1
<1> HIDE DEF n
<1>3. n \in Books
  BY <1>1, <1>2, FewerRows DEF LiveIn
<1> QED
  BY <1>3 DEF n

LEMMA PartOf ==
  ASSUME NEW b \in Books, NEW D \in SUBSET LiveIn(b)
  PROVE  /\ [c \in Chapters |-> IF c \in D THEN b[c] ELSE NoRow] \in Books
         /\ LiveIn([c \in Chapters |-> IF c \in D THEN b[c] ELSE NoRow]) = D
<1> DEFINE n == [c \in Chapters |-> IF c \in D THEN b[c] ELSE NoRow]
<1>1. n \in [Chapters -> Rows]
  BY BookType, FreshQuery
<1>2. LiveIn(n) = D
  BY DEF LiveIn, NoRow
<1>3. \A c \in D : n[c] = b[c]
  BY BookType
<1> HIDE DEF n
<1>4. n \in Books
  BY <1>1, <1>2, <1>3, FewerRows
<1> QED
  BY <1>2, <1>4 DEF n

LEMMA MaxPosIs ==
  ASSUME NEW b \in Books
  PROVE  MaxPos(b) \in Nat /\ \A c \in LiveIn(b) : b[c].pos <= MaxPos(b)
<1> DEFINE S == {0} \cup {b[c].pos : c \in LiveIn(b)}
<1>1. S \in SUBSET Nat /\ S # {}
  BY BookType
<1>2. IsFiniteSet(LiveIn(b))
  BY BookType, ChaptersAssumption, FS_Subset
<1>3. IsFiniteSet({b[c].pos : c \in LiveIn(b)})
  <2> DEFINE P == {b[c].pos : c \in LiveIn(b)}
             f == [c \in LiveIn(b) |-> b[c].pos]
  <2>1. f \in Surjection(LiveIn(b), P)
    BY Fun_IsSurj
  <2> QED
    BY <1>2, <2>1, FS_Surjection
<1>4. IsFiniteSet(S)
  BY <1>3, FS_Singleton, FS_Union
<1>5. Max(S) \in S /\ \A n \in S : n <= Max(S)
  BY <1>1, <1>4, Greatest
<1> QED
  BY <1>1, <1>5 DEF MaxPos

LEMMA PastTheEnd ==
  ASSUME NEW b \in Books, NEW c
  PROVE  ~Taken(b, MaxPos(b) + 1, c)
<1>1. \A d \in LiveIn(b) : b[d].pos \in Nat /\ b[d].pos <= MaxPos(b) /\ MaxPos(b) \in Nat
  BY MaxPosIs, BookType
<1>2. \A d \in LiveIn(b) : b[d].pos # MaxPos(b) + 1
  BY <1>1
<1> QED
  BY <1>2 DEF Taken

-----------------------------------------------------------------------------
(* Outlines.                                                               *)

LEMMA OutlineType ==
  ASSUME NEW o \in Outlines
  PROVE  /\ Len(o) \in Nat /\ DOMAIN o = 1..Len(o) /\ o \in [1..Len(o) -> Nodes]
         /\ \A i \in DOMAIN o : o[i] \in Nodes /\ o[i].title \in Titles /\ o[i].chapter \in Titles
<1>1. Len(o) \in Nat /\ DOMAIN o = 1..Len(o) /\ o \in [1..Len(o) -> Nodes]
  BY LenProperties DEF Outlines
<1>2. \A n \in Nodes : n.title \in Titles /\ n.chapter \in Titles
  BY DEF Nodes
<1> QED
  BY <1>1, <1>2

LEMMA ListType ==
  ASSUME NEW S, NEW n \in Nat, NEW f \in [1..n -> S]
  PROVE  f \in Seq(S) /\ Len(f) = n
<1>1. f \in Seq(S)
  BY SeqDef
<1>2. DOMAIN f = 1..Len(f) /\ Len(f) \in Nat
  BY <1>1, LenProperties
<1>3. 1..n = 1..Len(f)
  BY <1>2
<1> QED
  BY <1>1, <1>2, <1>3

LEMMA Renoded ==
  ASSUME NEW o \in Outlines, NEW f, f = [i \in DOMAIN o |-> f[i]], \A i \in DOMAIN o : f[i] \in Nodes
  PROVE  f \in Outlines
<1>1. f \in [1..Len(o) -> Nodes] /\ Len(o) \in Nat
  BY OutlineType
<1> QED
  BY <1>1, ListType DEF Outlines

LEMMA BoundOutline ==
  ASSUME NEW o \in Outlines, NEW n \in Titles, NEW c \in Titles
  PROVE  Node(n, c) \in Nodes /\ BoundByTitle(o, n, c) \in Outlines /\ BoundIn(o, n, c) \in Outlines
<1>1. Node(n, c) \in Nodes
  BY DEF Node, Nodes
<1>2. BoundByTitle(o, n, c) \in Outlines
  <2> DEFINE f == BoundByTitle(o, n, c)
  <2>1. f = [i \in DOMAIN o |-> f[i]] /\ \A i \in DOMAIN o : f[i] \in Nodes
    BY <1>1, OutlineType DEF BoundByTitle
  <2> HIDE DEF f
  <2> QED
    BY <2>1, Renoded DEF f
<1>3. Append(o, Node(n, c)) \in Outlines
  BY <1>1, AppendProperties DEF Outlines
<1> QED
  BY <1>1, <1>2, <1>3 DEF BoundIn

LEMMA SanitizedOutline ==
  ASSUME NEW o \in Outlines, NEW b
  PROVE  Sanitized(o, b) \in Outlines
<1> DEFINE f == Sanitized(o, b)
<1>1. f = [i \in DOMAIN o |-> f[i]]
  BY DEF Sanitized
<1>2. \A i \in DOMAIN o : f[i] \in Nodes
  BY OutlineType DEF Sanitized, Nodes, Titles
<1> HIDE DEF f
<1> QED
  BY <1>1, <1>2, Renoded DEF f

LEMMA Shortened ==
  ASSUME NEW S, NEW s \in Seq(S), NEW i \in DOMAIN s
  PROVE  RemoveAt(s, i) \in Seq(S)
<1>1. Len(s) \in Nat /\ i \in 1..Len(s) /\ \A j \in 1..Len(s) : s[j] \in S
  BY LenProperties, ElementOfSeq
<1>2. SubSeq(s, 1, i - 1) \in Seq(S)
  BY <1>1, SubSeqProperties
<1>3. SubSeq(s, i + 1, Len(s)) \in Seq(S)
  BY <1>1, SubSeqProperties
<1> QED
  BY <1>2, <1>3, ConcatProperties DEF RemoveAt

LEMMA EditedOutline ==
  ASSUME NEW o \in Outlines, NEW e \in Edits(o)
  PROVE  e \in Outlines
<1>1. CASE \E i \in 1..(Len(o) - 1) : e = Swapped(o, i)
  <2>1. PICK i \in 1..(Len(o) - 1) : e = Swapped(o, i)
    BY <1>1
  <2>2. i \in DOMAIN o /\ i + 1 \in DOMAIN o
    BY OutlineType
  <2>3. e = [j \in DOMAIN o |-> e[j]] /\ \A j \in DOMAIN o : e[j] \in Nodes
    BY <2>1, <2>2, OutlineType DEF Swapped
  <2> QED
    BY <2>3, Renoded
<1>2. CASE \E i \in DOMAIN o : e = RemoveAt(o, i)
  BY <1>2, Shortened DEF Outlines
<1> QED
  BY <1>1, <1>2 DEF Edits

-----------------------------------------------------------------------------
(* Lists of chapters.                                                      *)

(* s has the members of C, each once.                                      *)
Lists(s, C) == s \in Seq(C) /\ Range(s) = C /\ IsInjective(s)

LEMMA ByPositionLists ==
  ASSUME NEW b \in Books, NEW C \in SUBSET LiveIn(b)
  PROVE  LET s == ByPosition(b, C) IN
         /\ Lists(s, C) /\ Len(s) \in Nat /\ DOMAIN s = 1..Len(s)
         /\ \A i, j \in DOMAIN s : i < j => b[s[i]].pos < b[s[j]].pos
<1> DEFINE f == [c \in C |-> b[c].pos]
           s == Sorted(C, f)
           n == Cardinality(C)
<1>1. /\ IsFiniteSet(C) /\ f \in [C -> Nat] /\ \A c, d \in C : f[c] = f[d] => c = d
      /\ \A c \in C : f[c] = b[c].pos
  BY BookType, ChaptersAssumption, FS_Subset DEF Apart
<1>2. ByPosition(b, C) = s
  BY DEF ByPosition
<1> HIDE DEF f
<1>3. /\ s \in [1..n -> C]
      /\ \A c \in C : \E i \in 1..n : s[i] = c
      /\ \A i, j \in 1..n : i < j => f[s[i]] < f[s[j]]
  BY <1>1, SortedLists
<1> HIDE DEF s
<1>4. n \in Nat
  BY <1>1, FS_CardinalityType
<1>5. s \in Seq(C) /\ Len(s) = n /\ DOMAIN s = 1..n
  BY <1>3, <1>4, ListType
<1> HIDE DEF n
<1>6. Range(s) = C
  BY <1>3, <1>5 DEF Range
<1>7. \A i, j \in 1..n : i < j => b[s[i]].pos < b[s[j]].pos
  BY <1>1, <1>3
<1>8. ASSUME NEW i \in 1..n, NEW j \in 1..n, s[i] = s[j] PROVE i = j
  <2>1. b[s[i]].pos \in Nat /\ b[s[j]].pos \in Nat /\ i \in Nat /\ j \in Nat
    BY <1>3, <1>4, BookType
  <2>2. ~(i < j) /\ ~(j < i)
    BY <1>7, <1>8, <2>1
  <2> QED
    BY <2>1, <2>2
<1>9. IsInjective(s)
  BY <1>5, <1>8 DEF IsInjective
<1> QED
  BY <1>2, <1>4, <1>5, <1>6, <1>7, <1>9 DEF Lists

(* Every binding is to a live chapter, and no two to the same.             *)
Tidy(o, b) ==
  \A i \in DOMAIN o : o[i].chapter # None =>
    o[i].chapter \in LiveIn(b) /\ \A j \in DOMAIN o : o[j].chapter = o[i].chapter => j = i

LEMMA SanitizedIsTidy ==
  ASSUME NEW o \in Outlines, NEW b \in Books
  PROVE  Tidy(Sanitized(o, b), b)
<1> DEFINE t == Sanitized(o, b)
<1>1. /\ DOMAIN t = DOMAIN o /\ DOMAIN o = 1..Len(o) /\ Len(o) \in Nat
      /\ \A i \in DOMAIN o : t[i].chapter # None =>
           /\ t[i].chapter = o[i].chapter /\ o[i].chapter \in LiveIn(b)
           /\ \A j \in 1..(i - 1) : o[j].chapter # o[i].chapter
  BY OutlineType DEF Sanitized, Nodes
<1> HIDE DEF t
<1>2. ASSUME NEW i \in DOMAIN t, NEW j \in DOMAIN t, t[i].chapter # None, t[j].chapter = t[i].chapter, i < j
      PROVE  FALSE
  <2>1. i \in 1..(j - 1)
    BY <1>1, <1>2
  <2> QED
    BY <1>1, <1>2, <2>1
<1>3. ASSUME NEW i \in DOMAIN t, NEW j \in DOMAIN t, t[i].chapter # None, t[j].chapter = t[i].chapter
      PROVE  j = i
  <2>1. ~(i < j) /\ ~(j < i)
    BY <1>2, <1>3
  <2> QED
    BY <1>1, <2>1
<1> QED
  BY <1>1, <1>3 DEF Tidy, t

LEMMA TidyStays ==
  ASSUME NEW o \in Outlines, NEW b \in Books, Tidy(o, b)
  PROVE  Sanitized(o, b) = o
<1>1. ASSUME NEW i \in DOMAIN o PROVE Sanitized(o, b)[i] = o[i]
  <2>1. CASE o[i].chapter = None
    BY <2>1, OutlineType DEF Sanitized, Nodes
  <2>2. CASE o[i].chapter # None
    <3>1. \A j \in 1..(i - 1) : j \in DOMAIN o /\ j # i
      BY OutlineType
    <3>2. o[i].chapter \in LiveIn(b) /\ \A j \in 1..(i - 1) : o[j].chapter # o[i].chapter
      BY <2>2, <3>1 DEF Tidy
    <3> QED
      BY <3>2 DEF Sanitized
  <2> QED
    BY <2>1, <2>2
<1>2. Sanitized(o, b) = [i \in DOMAIN o |-> Sanitized(o, b)[i]] /\ o = [i \in DOMAIN o |-> o[i]]
  BY OutlineType DEF Sanitized
<1> QED
  BY <1>1, <1>2

LEMMA BoundOrderIs ==
  ASSUME NEW o \in Outlines
  PROVE  \E n \in Nat : \E s \in [1..n -> DOMAIN o] :
           /\ BoundOrder(o) = [k \in 1..n |-> o[s[k]].chapter]
           /\ \A k \in 1..n : o[s[k]].chapter # None
           /\ \A i \in DOMAIN o : o[i].chapter # None => \E k \in 1..n : s[k] = i
           /\ \A k, l \in 1..n : k < l => s[k] < s[l]
<1> DEFINE I == {i \in DOMAIN o : o[i].chapter # None}
           f == [i \in I |-> i]
           s == Sorted(I, f)
           n == Cardinality(I)
<1>1. I \in SUBSET Nat /\ IsFiniteSet(I)
  <2>1. IsFiniteSet(1..Len(o)) /\ DOMAIN o = 1..Len(o) /\ Len(o) \in Nat
    BY OutlineType, FS_Interval
  <2> QED
    BY <2>1, FS_Subset
<1>2. f \in [I -> Nat] /\ \A c, d \in I : f[c] = f[d] => c = d
  BY <1>1
<1>3. BoundOrder(o) = [k \in DOMAIN s |-> o[s[k]].chapter]
  BY DEF BoundOrder
<1> HIDE DEF f, I
<1>4. /\ s \in [1..n -> I]
      /\ \A c \in I : \E i \in 1..n : s[i] = c
      /\ \A i, j \in 1..n : i < j => f[s[i]] < f[s[j]]
  BY <1>1, <1>2, SortedLists
<1> HIDE DEF s
<1>5. n \in Nat
  BY <1>1, FS_CardinalityType
<1> HIDE DEF n
<1>6. \A k \in 1..n : s[k] \in DOMAIN o /\ o[s[k]].chapter # None /\ f[s[k]] = s[k]
  BY <1>4 DEF I, f
<1>7. s \in [1..n -> DOMAIN o]
  BY <1>4 DEF I
<1>8. \A k, l \in 1..n : k < l => s[k] < s[l]
  BY <1>4, <1>6
<1>9. \A i \in DOMAIN o : o[i].chapter # None => \E k \in 1..n : s[k] = i
  BY <1>4 DEF I
<1>10. BoundOrder(o) = [k \in 1..n |-> o[s[k]].chapter]
  BY <1>3, <1>7
<1> QED
  BY <1>5, <1>6, <1>7, <1>8, <1>9, <1>10

(* The bound chapters in the order of their nodes, then the others.        *)
LEMMA OutlineOrder ==
  ASSUME NEW o \in Outlines, NEW b \in Books
  PROVE  LET t == Sanitized(o, b)
             ids == InOutlineOrder(o, b) IN
         /\ Lists(ids, LiveIn(b)) /\ Len(ids) \in Nat /\ DOMAIN ids = 1..Len(ids)
         /\ \A k, l \in DOMAIN ids :
              (\E i, j \in DOMAIN t : i < j /\ ids[k] = t[i].chapter /\ ids[l] = t[j].chapter) => k < l
         /\ \A k, l \in DOMAIN ids : Referenced(t, ids[k]) /\ ~Referenced(t, ids[l]) => k < l
<1> DEFINE t == Sanitized(o, b)
           ids == InOutlineOrder(o, b)
           bound == BoundOrder(t)
           R == Range(bound)
           rest == ByPosition(b, LiveIn(b) \ R)
           m == Len(rest)
<1>1. t \in Outlines /\ Tidy(t, b)
  BY SanitizedOutline, SanitizedIsTidy
<1>2. ids = bound \o rest
  BY DEF InOutlineOrder
<1> HIDE DEF t, ids
<1>3. DOMAIN t \in SUBSET Nat
  <2>1. DOMAIN t = 1..Len(t) /\ Len(t) \in Nat
    BY <1>1, OutlineType
  <2> QED
    BY <2>1
<1>4. PICK n \in Nat : \E s \in [1..n -> DOMAIN t] :
           /\ bound = [k \in 1..n |-> t[s[k]].chapter]
           /\ \A k \in 1..n : t[s[k]].chapter # None
           /\ \A i \in DOMAIN t : t[i].chapter # None => \E k \in 1..n : s[k] = i
           /\ \A k, l \in 1..n : k < l => s[k] < s[l]
  BY <1>1, BoundOrderIs
<1> HIDE DEF bound
<1>5. PICK s \in [1..n -> DOMAIN t] :
           /\ bound = [k \in 1..n |-> t[s[k]].chapter]
           /\ \A k \in 1..n : t[s[k]].chapter # None
           /\ \A i \in DOMAIN t : t[i].chapter # None => \E k \in 1..n : s[k] = i
           /\ \A k, l \in 1..n : k < l => s[k] < s[l]
  BY <1>4
<1>6. \A k \in 1..n : bound[k] \in LiveIn(b)
  BY <1>1, <1>5 DEF Tidy
<1>7. bound \in [1..n -> LiveIn(b)]
  BY <1>5, <1>6
<1>8. bound \in Seq(LiveIn(b)) /\ Len(bound) = n /\ DOMAIN bound = 1..n
  BY <1>7, ListType
<1>9. R \in SUBSET LiveIn(b) /\ \A c \in R : \E k \in 1..n : c = bound[k]
  BY <1>6, <1>8 DEF Range
<1>10. \A k \in 1..n : bound[k] \in R
  BY <1>8 DEF Range
<1> HIDE DEF R
<1>11. Lists(rest, LiveIn(b) \ R) /\ m \in Nat /\ DOMAIN rest = 1..m
  BY ByPositionLists
<1> HIDE DEF rest
<1>12. rest \in Seq(LiveIn(b))
  BY <1>11, SeqMonotonic DEF Lists
<1>13. /\ ids \in Seq(LiveIn(b)) /\ Len(ids) = n + m
       /\ \A k \in 1..(n + m) : ids[k] = IF k <= n THEN bound[k] ELSE rest[k - n]
  BY <1>2, <1>8, <1>12, ConcatProperties
<1>14. DOMAIN ids = 1..(n + m)
  BY <1>13, LenProperties
<1>15. \A k \in 1..m : rest[k] \in LiveIn(b) \ R
  BY <1>11 DEF Lists, Range
<1>16. \A c \in LiveIn(b) \ R : \E k \in 1..m : rest[k] = c
  BY <1>11 DEF Lists, Range
<1>17. \A k, l \in 1..m : rest[k] = rest[l] => k = l
  BY <1>11 DEF Lists, IsInjective
<1> HIDE DEF m
<1>m. m \in Nat
  BY <1>11
<1>18. ASSUME NEW k \in 1..(n + m)
       PROVE  /\ ids[k] \in R => k \in 1..n /\ ids[k] = bound[k]
              /\ ids[k] \notin R => k - n \in 1..m /\ ids[k] = rest[k - n]
  <2>1. CASE k <= n
    BY <1>m, <2>1, <1>10, <1>13
  <2>2. CASE ~(k <= n)
    <3>1. k - n \in 1..m
      BY <1>m, <2>2
    <3> QED
      BY <2>2, <3>1, <1>13, <1>15
  <2> QED
    BY <2>1, <2>2
<1>19. ASSUME NEW k \in 1..n, NEW l \in 1..n PROVE s[k] < s[l] => k < l
  <2>1. s[k] \in Nat /\ s[l] \in Nat
    BY <1>3, <1>5
  <2>2. (l < k => s[l] < s[k]) /\ (k = l => s[l] = s[k])
    BY <1>5
  <2> QED
    BY <2>1, <2>2
<1>20. ASSUME NEW k \in 1..n, NEW l \in 1..n, bound[k] = bound[l] PROVE k = l
  <2>1. s[k] = s[l]
    BY <1>1, <1>5, <1>20 DEF Tidy
  <2>2. s[k] \in Nat /\ s[l] \in Nat /\ (l < k => s[l] < s[k]) /\ (k < l => s[k] < s[l])
    BY <1>3, <1>5
  <2> QED
    BY <2>1, <2>2
<1>21. IsInjective(ids)
  <2> SUFFICES ASSUME NEW k \in 1..(n + m), NEW l \in 1..(n + m), ids[k] = ids[l] PROVE k = l
    BY <1>14 DEF IsInjective
  <2>1. CASE ids[k] \in R
    BY <2>1, <1>18, <1>20
  <2>2. CASE ids[k] \notin R
    <3>1. k - n = l - n
      BY <2>2, <1>17, <1>18
    <3> QED
      BY <3>1, <1>m
  <2> QED
    BY <2>1, <2>2
<1>22. Range(ids) = LiveIn(b)
  <2>1. \A k \in 1..(n + m) : ids[k] \in LiveIn(b)
    BY <1>13, ElementOfSeq
  <2>2. ASSUME NEW c \in LiveIn(b) PROVE \E k \in 1..(n + m) : ids[k] = c
    <3>1. CASE c \in R
      <4>1. PICK k \in 1..n : c = bound[k]
        BY <3>1, <1>9
      <4>2. k \in 1..(n + m) /\ k <= n
        BY <1>m
      <4> QED
        BY <4>1, <4>2, <1>13
    <3>2. CASE c \notin R
      <4>1. PICK k \in 1..m : c = rest[k]
        BY <3>2, <1>16
      <4>2. n + k \in 1..(n + m) /\ ~(n + k <= n) /\ (n + k) - n = k
        BY <1>m
      <4> QED
        BY <4>1, <4>2, <1>13
    <3> QED
      BY <3>1, <3>2
  <2> QED
    BY <2>1, <2>2, <1>14 DEF Range
<1>23. ASSUME NEW c \in LiveIn(b) PROVE c \in R <=> Referenced(t, c)
  <2>1. ASSUME c \in R PROVE Referenced(t, c)
    <3>1. PICK k \in 1..n : c = bound[k]
      BY <2>1, <1>9
    <3>2. s[k] \in DOMAIN t /\ t[s[k]].chapter = c
      BY <3>1, <1>5
    <3> QED
      BY <3>2 DEF Referenced
  <2>2. ASSUME Referenced(t, c) PROVE c \in R
    <3>1. PICK i \in DOMAIN t : t[i].chapter = c
      BY <2>2 DEF Referenced
    <3>2. c # None
      BY ChaptersAssumption DEF LiveIn
    <3>3. PICK k \in 1..n : s[k] = i
      BY <3>1, <3>2, <1>5
    <3>4. bound[k] = c
      BY <3>1, <3>3, <1>5
    <3> QED
      BY <3>4, <1>10
  <2> QED
    BY <2>1, <2>2
<1>24. ASSUME NEW k \in 1..(n + m) PROVE ids[k] \in LiveIn(b)
  BY <1>14, <1>22 DEF Range
<1>25. ASSUME NEW k \in 1..(n + m), NEW l \in 1..(n + m), NEW i \in DOMAIN t, NEW j \in DOMAIN t, i < j,
              ids[k] = t[i].chapter, ids[l] = t[j].chapter
       PROVE  k < l
  <2>1. ids[k] # None /\ ids[l] # None
    BY <1>24, ChaptersAssumption DEF LiveIn
  <2>2. ids[k] \in R /\ ids[l] \in R
    BY <1>23, <1>24, <1>25 DEF Referenced
  <2>3. k \in 1..n /\ l \in 1..n /\ t[s[k]].chapter = t[i].chapter /\ t[s[l]].chapter = t[j].chapter
    BY <2>2, <1>5, <1>18, <1>25
  <2>4. s[k] = i /\ s[l] = j
    BY <2>1, <2>3, <1>1, <1>25, <1>5 DEF Tidy
  <2> QED
    BY <2>3, <2>4, <1>19, <1>25
<1>26. ASSUME NEW k \in 1..(n + m), NEW l \in 1..(n + m), Referenced(t, ids[k]), ~Referenced(t, ids[l])
       PROVE  k < l
  <2>1. ids[k] \in R /\ ids[l] \notin R
    BY <1>23, <1>24, <1>26
  <2>2. k \in 1..n /\ l - n \in 1..m
    BY <2>1, <1>18
  <2> QED
    BY <2>2, <1>m
<1>27. Len(ids) \in Nat /\ DOMAIN ids = 1..Len(ids)
  BY <1>13, <1>14, <1>m
<1> QED
  BY <1>13, <1>14, <1>21, <1>22, <1>25, <1>26, <1>27 DEF Lists, t, ids

-----------------------------------------------------------------------------
(* Reordering and shifting.                                                *)

LEMMA PlacedRows ==
  ASSUME NEW b \in Books, NEW ids \in Seq(Chapters)
  PROVE  LET n == Placed(b, ids) IN
         /\ n \in [Chapters -> Rows] /\ LiveIn(n) = LiveIn(b)
         /\ \A c \in Chapters : /\ c \notin Range(ids) => n[c] = b[c]
                                /\ n[c].row = b[c].row /\ n[c].text = b[c].text
         /\ \A c \in Chapters : c \in Range(ids) => \E i \in DOMAIN ids : ids[i] = c /\ n[c].pos = i - 1
<1> DEFINE n == Placed(b, ids)
           at(c) == CHOOSE i \in DOMAIN ids : ids[i] = c
<1>1. DOMAIN ids = 1..Len(ids) /\ Len(ids) \in Nat
  BY LenProperties
<1>2. ASSUME NEW c \in Range(ids) PROVE at(c) \in DOMAIN ids /\ ids[at(c)] = c /\ at(c) - 1 \in Nat
  <2>1. \E i \in DOMAIN ids : ids[i] = c
    BY DEF Range
  <2>2. at(c) \in DOMAIN ids /\ ids[at(c)] = c
    BY <2>1
  <2> HIDE DEF at
  <2> QED
    BY <1>1, <2>2
<1>3. n = [c \in Chapters |-> IF c \in Range(ids) THEN [b[c] EXCEPT !.pos = at(c) - 1] ELSE b[c]]
  BY DEF Placed
<1> HIDE DEF n, at
<1>4. ASSUME NEW c \in Chapters
      PROVE  /\ n[c] \in Rows /\ n[c].row = b[c].row /\ n[c].text = b[c].text
             /\ c \notin Range(ids) => n[c] = b[c]
             /\ c \in Range(ids) => n[c].pos = at(c) - 1
  <2>1. b[c] \in Rows
    BY BookType
  <2>2. CASE c \in Range(ids)
    <3>1. n[c] = [b[c] EXCEPT !.pos = at(c) - 1]
      BY <1>3, <2>2
    <3> QED
      BY <2>1, <2>2, <3>1, <1>2 DEF Rows
  <2>3. CASE c \notin Range(ids)
    BY <1>3, <2>1, <2>3
  <2> QED
    BY <2>2, <2>3
<1>5. n \in [Chapters -> Rows]
  BY <1>3, <1>4
<1>6. LiveIn(n) = LiveIn(b)
  BY <1>4 DEF LiveIn
<1> QED
  BY <1>2, <1>4, <1>5, <1>6 DEF n

(* An order that is accepted keeps the positions apart, and the order of   *)
(* all live chapters always is.                                            *)
LEMMA Reordered ==
  ASSUME NEW b \in Books, NEW ids \in Seq(Chapters)
  PROVE  LET o == ReorderByIDs(b, ids) IN
         /\ o.book = Placed(b, ids)
         /\ o.ok => o.book \in Books
         /\ Lists(ids, LiveIn(b)) => /\ o.found /\ o.ok
                                     /\ \A i \in DOMAIN ids : o.book[ids[i]].pos = i - 1
<1> DEFINE n == Placed(b, ids)
           o == ReorderByIDs(b, ids)
           low == ~Collides(b, Range(ids), Sentinel)
           free == \A c \in Range(ids) : ~Taken(n, n[c].pos, c)
<1>1. /\ n \in [Chapters -> Rows] /\ LiveIn(n) = LiveIn(b)
      /\ \A c \in Chapters : c \notin Range(ids) => n[c] = b[c]
      /\ \A c \in Chapters : c \in Range(ids) => \E i \in DOMAIN ids : ids[i] = c /\ n[c].pos = i - 1
  BY PlacedRows
<1>2. o.book = n /\ o.found = (Range(ids) \subseteq LiveIn(b)) /\ o.ok = (low /\ free)
  BY DEF ReorderByIDs
<1> HIDE DEF n, o
<1>3. ASSUME free PROVE n \in Books
  <2> SUFFICES ASSUME NEW c \in LiveIn(n), NEW d \in LiveIn(n), n[c].pos = n[d].pos, c # d PROVE FALSE
    BY <1>1 DEF Books, Apart
  <2>1. c \in Chapters /\ d \in Chapters
    BY DEF LiveIn
  <2>2. CASE c \in Range(ids)
    BY <1>3, <2>2 DEF Taken
  <2>3. CASE d \in Range(ids)
    BY <1>3, <2>3 DEF Taken
  <2>4. CASE c \notin Range(ids) /\ d \notin Range(ids)
    BY <1>1, <2>1, <2>4, BookType DEF Apart
  <2> QED
    BY <2>2, <2>3, <2>4
<1>4. ASSUME Lists(ids, LiveIn(b))
      PROVE  low /\ free /\ Range(ids) \subseteq LiveIn(b) /\ \A i \in DOMAIN ids : n[ids[i]].pos = i - 1
  <2>1. Range(ids) = LiveIn(b) /\ \A i, j \in DOMAIN ids : ids[i] = ids[j] => i = j
    BY <1>4 DEF Lists, IsInjective
  <2>2. DOMAIN ids \in SUBSET Nat
    <3>1. DOMAIN ids = 1..Len(ids) /\ Len(ids) \in Nat
      BY LenProperties
    <3> QED
      BY <3>1
  <2>3. \A i \in DOMAIN ids : ids[i] \in Range(ids) /\ ids[i] \in Chapters
    BY <2>1, BookType DEF Range
  <2>4. \A i \in DOMAIN ids : n[ids[i]].pos = i - 1
    BY <1>1, <2>1, <2>3
  <2>5. low
    <3> SUFFICES ASSUME NEW c \in LiveIn(b), NEW d \in LiveIn(b), c # d,
                        Sentinel(b[c].pos) = b[d].pos \/ Sentinel(b[c].pos) = Sentinel(b[d].pos)
                 PROVE  FALSE
      BY <2>1 DEF Collides
    <3>1. b[c].pos \in Nat /\ b[d].pos \in Nat /\ b[c].pos # b[d].pos
      BY BookType DEF Apart
    <3> QED
      BY <3>1 DEF Sentinel
  <2>6. free
    <3> SUFFICES ASSUME NEW c \in LiveIn(b), NEW d \in LiveIn(b), c # d, n[c].pos = n[d].pos PROVE FALSE
      BY <1>1, <2>1 DEF Taken
    <3>1. PICK i \in DOMAIN ids : ids[i] = c /\ n[c].pos = i - 1
      BY <1>1, <2>1, BookType
    <3>2. PICK j \in DOMAIN ids : ids[j] = d /\ n[d].pos = j - 1
      BY <1>1, <2>1, BookType
    <3>3. i \in Nat /\ j \in Nat
      BY <2>2
    <3>4. i - 1 = j - 1
      BY <3>1, <3>2
    <3>5. i = j
      BY <3>3, <3>4
    <3> QED
      BY <3>1, <3>2, <3>5
  <2> QED
    BY <2>1, <2>4, <2>5, <2>6
<1> HIDE DEF low, free
<1>5. o.ok => free
  BY <1>2
<1> QED
  BY <1>2, <1>3, <1>4, <1>5 DEF n, o

LEMMA ResyncedBook ==
  ASSUME NEW o \in Outlines, NEW b \in Books
  PROVE  Resynced(o, b) \in Books /\ LiveIn(Resynced(o, b)) = LiveIn(b)
<1> DEFINE ids == InOutlineOrder(o, b)
<1>1. Lists(ids, LiveIn(b))
  BY OutlineOrder
<1>2. ids \in Seq(Chapters)
  BY <1>1, BookType, SeqMonotonic DEF Lists
<1>3. Resynced(o, b) = IF ids = ByPosition(b, LiveIn(b)) THEN b ELSE ReorderByIDs(b, ids).book
  BY DEF Resynced
<1> HIDE DEF ids
<1>4. LET r == ReorderByIDs(b, ids) IN r.book = Placed(b, ids) /\ r.book \in Books
  BY <1>1, <1>2, Reordered
<1>5. LiveIn(Placed(b, ids)) = LiveIn(b)
  BY <1>2, PlacedRows
<1> QED
  BY <1>3, <1>4, <1>5

(* The shift moves the rows it is given by one, and leaves the place free. *)
LEMMA Shifted ==
  ASSUME NEW b \in Books, NEW S \in SUBSET LiveIn(b)
  PROVE  LET s == Shift(b, S) IN
         /\ s.book \in [Chapters -> Rows] /\ LiveIn(s.book) = LiveIn(b)
         /\ \A c \in Chapters : s.book[c].pos = IF c \in S THEN b[c].pos + 1 ELSE b[c].pos
<1> DEFINE low == Moved(b, S, Sentinel)
           n == Moved(low, S, Negated)
<1>1. low = [c \in Chapters |-> IF c \in S THEN [b[c] EXCEPT !.pos = Sentinel(b[c].pos)] ELSE b[c]]
  BY DEF Moved
<1> HIDE DEF low
<1>2. n = [c \in Chapters |-> IF c \in S THEN [low[c] EXCEPT !.pos = Negated(low[c].pos)] ELSE low[c]]
  BY DEF Moved
<1>3. Shift(b, S).book = n
  BY DEF Shift, low
<1> HIDE DEF n
<1>4. ASSUME NEW c \in Chapters
      PROVE  /\ n[c] \in Rows /\ n[c].row = b[c].row
             /\ n[c].pos = IF c \in S THEN b[c].pos + 1 ELSE b[c].pos
  <2>1. b[c] \in Rows /\ b[c].pos \in Nat
    BY BookType
  <2>2. CASE c \in S
    <3>1. low[c] = [b[c] EXCEPT !.pos = -b[c].pos - 1]
      BY <1>1, <2>2 DEF Sentinel
    <3>2. low[c].pos = -b[c].pos - 1
      BY <2>1, <3>1 DEF Rows
    <3>3. Negated(low[c].pos) = b[c].pos + 1
      BY <2>1, <3>2 DEF Negated
    <3>4. n[c] = [low[c] EXCEPT !.pos = b[c].pos + 1]
      BY <1>2, <2>2, <3>3
    <3>5. n[c] = [b[c] EXCEPT !.pos = b[c].pos + 1]
      BY <2>1, <3>1, <3>4 DEF Rows
    <3>6. b[c].pos + 1 \in Nat
      BY <2>1
    <3> HIDE <3>1, <3>4
    <3> QED
      BY <2>1, <2>2, <3>5, <3>6 DEF Rows
  <2>3. CASE c \notin S
    BY Zenon, <1>1, <1>2, <2>1, <2>3
  <2> QED
    BY <2>2, <2>3
<1>5. n \in [Chapters -> Rows]
  BY <1>2, <1>4
<1>6. LiveIn(n) = LiveIn(b)
  BY <1>4 DEF LiveIn
<1> QED
  BY <1>3, <1>4, <1>5, <1>6

LEMMA ShiftMakesRoom ==
  ASSUME NEW b \in Books, NEW p \in Nat, NEW c,
         NEW S, S = {d \in LiveIn(b) : b[d].pos >= p}
  PROVE  LET s == Shift(b, S) IN
         s.ok /\ (\A d \in S : ~Taken(s.book, s.book[d].pos, d)) /\ ~Taken(s.book, p, c)
<1> DEFINE s == Shift(b, S)
           low == Moved(b, S, Sentinel)
<1>1. \A d \in LiveIn(b) : /\ d \in Chapters /\ b[d] \in Rows /\ b[d].pos \in Nat
                           /\ d \in S <=> b[d].pos >= p
                           /\ \A e \in LiveIn(b) : b[d].pos = b[e].pos => d = e
  BY BookType DEF Apart
<1>2. /\ LiveIn(s.book) = LiveIn(b)
      /\ \A d \in LiveIn(b) : s.book[d].pos = IF d \in S THEN b[d].pos + 1 ELSE b[d].pos
  BY <1>1, Shifted
<1>3. s.ok = (~Collides(b, S, Sentinel) /\ ~Collides(low, S, Negated))
  BY DEF Shift
<1> HIDE DEF s
<1>4. ~Collides(b, S, Sentinel)
  <2> SUFFICES ASSUME NEW d \in S, NEW e \in LiveIn(b), e # d,
                      Sentinel(b[d].pos) = b[e].pos \/ Sentinel(b[d].pos) = Sentinel(b[e].pos)
               PROVE  FALSE
    BY DEF Collides
  <2>1. b[d].pos \in Nat /\ b[e].pos \in Nat /\ b[d].pos # b[e].pos
    BY <1>1
  <2> QED
    BY <2>1 DEF Sentinel
<1>5. ASSUME NEW d \in Chapters
      PROVE  low[d].row = b[d].row /\ low[d].pos = IF d \in S THEN -b[d].pos - 1 ELSE b[d].pos
  BY BookType DEF Moved, Sentinel, Rows
<1>6. LiveIn(low) = LiveIn(b)
  BY <1>5 DEF LiveIn
<1> HIDE DEF low
<1>7. ~Collides(low, S, Negated)
  <2> SUFFICES ASSUME NEW d \in S, NEW e \in LiveIn(b), e # d,
                      \/ Negated(low[d].pos) = low[e].pos
                      \/ e \in S /\ Negated(low[d].pos) = Negated(low[e].pos)
               PROVE  FALSE
    BY <1>6 DEF Collides
  <2>1. b[d].pos \in Nat /\ b[e].pos \in Nat /\ b[d].pos # b[e].pos /\ b[d].pos >= p
    BY <1>1
  <2>2. low[d].pos = -b[d].pos - 1 /\ Negated(low[d].pos) = b[d].pos + 1
    BY <1>1, <1>5, <2>1 DEF Negated
  <2>3. CASE e \in S
    <3>1. low[e].pos = -b[e].pos - 1 /\ Negated(low[e].pos) = b[e].pos + 1
      BY <1>1, <1>5, <2>1, <2>3 DEF Negated
    <3> QED
      BY <2>1, <2>2, <3>1
  <2>4. CASE e \notin S
    <3>1. low[e].pos = b[e].pos /\ ~(b[e].pos >= p)
      BY <1>1, <1>5, <2>4
    <3> QED
      BY <2>1, <2>2, <2>4, <3>1
  <2> QED
    BY <2>3, <2>4
<1>8. ASSUME NEW d \in LiveIn(b), NEW e \in LiveIn(b), d # e PROVE s.book[d].pos # s.book[e].pos /\ s.book[d].pos # p
  <2>1. b[d].pos \in Nat /\ b[e].pos \in Nat /\ b[d].pos # b[e].pos
    BY <1>1, <1>8
  <2>2. /\ s.book[d].pos = IF b[d].pos >= p THEN b[d].pos + 1 ELSE b[d].pos
        /\ s.book[e].pos = IF b[e].pos >= p THEN b[e].pos + 1 ELSE b[e].pos
    BY <1>1, <1>2
  <2> QED
    BY <2>1, <2>2
<1>9. ASSUME NEW d \in LiveIn(b) PROVE s.book[d].pos # p
  <2>1. b[d].pos \in Nat
    BY <1>1
  <2>2. s.book[d].pos = IF b[d].pos >= p THEN b[d].pos + 1 ELSE b[d].pos
    BY <1>1, <1>2
  <2> QED
    BY <2>1, <2>2
<1> QED
  BY <1>2, <1>3, <1>4, <1>7, <1>8, <1>9 DEF Taken, s

LEMMA InsertedBook ==
  ASSUME NEW b \in Books, NEW S \in SUBSET LiveIn(b), NEW c, NEW row \in Rows,
         LET s == Shift(b, S) IN
           (\A d \in S : ~Taken(s.book, s.book[d].pos, d)) /\ ~Taken(s.book, row.pos, c)
  PROVE  [Shift(b, S).book EXCEPT ![c] = row] \in Books
<1> DEFINE n == Shift(b, S).book
<1>1. /\ n \in [Chapters -> Rows] /\ LiveIn(n) = LiveIn(b)
      /\ \A d \in Chapters : n[d].pos = IF d \in S THEN b[d].pos + 1 ELSE b[d].pos
  BY Shifted
<1>2. \A d \in S : ~Taken(n, n[d].pos, d)
  OBVIOUS
<1>3. ~Taken(n, row.pos, c)
  OBVIOUS
<1> HIDE DEF n
<1>4. Apart(n)
  <2> SUFFICES ASSUME NEW d \in LiveIn(b), NEW e \in LiveIn(b), n[d].pos = n[e].pos, d # e PROVE FALSE
    BY <1>1 DEF Apart
  <2>1. CASE d \in S \/ e \in S
    BY <1>1, <1>2, <2>1 DEF Taken
  <2>2. CASE d \notin S /\ e \notin S
    BY <1>1, <2>2, BookType DEF Apart
  <2> QED
    BY <2>1, <2>2
<1> QED
  BY <1>1, <1>3, <1>4, PutRow DEF Books, n

-----------------------------------------------------------------------------
(* The cleanup's bindings: no chapter loses its node.                      *)

LEMMA RebindKeeps ==
  ASSUME chapter \in Books, NEW o \in Outlines, NEW c \in Chapters
  PROVE  /\ Rebind(o, c) \in Outlines
         /\ \A d \in Chapters : Referenced(o, d) => Referenced(Rebind(o, c), d)
<1> DEFINE n == chapter[c].title
           f == BoundByTitle(o, n, c)
<1>1. f \in Outlines
  BY BookType, BoundOutline DEF Titles
<1>2. ASSUME NEW d \in Chapters, Referenced(o, d) PROVE Referenced(f, d)
  <2>1. PICK i \in DOMAIN o : o[i].chapter = d
    BY <1>2 DEF Referenced
  <2>2. d # None
    BY ChaptersAssumption
  <2>3. i \in DOMAIN f /\ f[i] = o[i]
    BY <2>1, <2>2 DEF BoundByTitle, FirstPlanned
  <2> QED
    BY <2>1, <2>3 DEF Referenced
<1> QED
  BY <1>1, <1>2 DEF Rebind

LEMMA ReboundKeeps ==
  ASSUME chapter \in Books, NEW o \in Outlines, NEW C \in SUBSET Live
  PROVE  /\ Rebound(o, C) \in Outlines
         /\ \A d \in Chapters : Referenced(o, d) => Referenced(Rebound(o, C), d)
<1> DEFINE ids == ByPosition(chapter, C)
           N == Len(ids)
<1>1. C \in SUBSET LiveIn(chapter) /\ C \in SUBSET Chapters
  BY DEF Live, LiveIn
<1>2. Lists(ids, C) /\ N \in Nat /\ DOMAIN ids = 1..N
  BY <1>1, ByPositionLists
<1>3. \A n \in 1..N : ids[n] \in Chapters
  BY <1>1, <1>2 DEF Lists, Range
<1>4. PICK run : Rebinding(run, o, ids, N) /\ Rebound(o, C) = run[N]
  BY <1>2, ReboundRuns
<1> HIDE DEF ids, N
<1>5. run[0] = o /\ \A n \in 1..N : run[n] = Rebind(run[n - 1], ids[n])
  <2>1. \A n \in 0..N : run[n] = IF n = 0 THEN o ELSE Rebind(run[n - 1], ids[n])
    BY <1>4 DEF Rebinding
  <2>2. 0 \in 0..N /\ \A n \in 1..N : n \in 0..N /\ n # 0
    BY <1>2
  <2> QED
    BY <2>1, <2>2
<1> DEFINE P(n) == run[n] \in Outlines /\ \A d \in Chapters : Referenced(o, d) => Referenced(run[n], d)
           Proved == {n \in Nat : n <= N => P(n)}
<1>6. 0 \in Proved
  BY <1>5
<1>7. ASSUME NEW n \in Proved PROVE n + 1 \in Proved
  <2> SUFFICES ASSUME n + 1 <= N PROVE P(n + 1)
    OBVIOUS
  <2>1. n <= N /\ n + 1 \in 1..N /\ (n + 1) - 1 = n
    BY <1>2
  <2>2. P(n)
    BY <2>1
  <2>3. run[n + 1] = Rebind(run[n], ids[n + 1]) /\ ids[n + 1] \in Chapters
    BY <1>3, <1>5, <2>1
  <2> QED
    BY <2>2, <2>3, RebindKeeps
<1> HIDE DEF P
<1>8. Proved = Nat
  BY <1>6, <1>7, Induction
<1>9. P(N)
  BY <1>2, <1>8
<1> QED
  BY <1>4, <1>9 DEF P

LEMMA RepairedOutline ==
  ASSUME chapter \in Books, NEW o \in Outlines
  PROVE  /\ Repaired(o) \in Outlines
         /\ \A c \in Live : Referenced(o, c) => Referenced(Repaired(o), c)
<1> DEFINE t == Sanitized(o, chapter)
           W == {c \in Live : chapter[c].text # Empty}
           first == Rebound(t, W)
           second == Rebound(first, Live \ W)
<1>1. t \in Outlines
  BY SanitizedOutline
<1>2. ASSUME NEW c \in Live, Referenced(o, c) PROVE Referenced(t, c)
  <2> DEFINE I == {i \in DOMAIN o : o[i].chapter = c}
  <2>1. I # {} /\ I \in SUBSET Nat /\ DOMAIN o = 1..Len(o) /\ Len(o) \in Nat
    BY <1>2, OutlineType DEF Referenced
  <2>2. PICK i \in I : \A j \in I : i <= j
    BY <2>1, LeastNumber
  <2>3. \A j \in 1..(i - 1) : o[j].chapter # c
    BY <2>1, <2>2
  <2>4. i \in DOMAIN t /\ t[i] = o[i]
    BY <2>2, <2>3 DEF Sanitized, Live, LiveIn
  <2> QED
    BY <2>2, <2>4 DEF Referenced
<1>3. Repaired(o) = second
  BY DEF Repaired
<1>4. W \in SUBSET Live /\ Live \ W \in SUBSET Live /\ Live \in SUBSET Chapters
  BY DEF Live
<1> HIDE DEF t, W
<1>5. first \in Outlines /\ \A d \in Chapters : Referenced(t, d) => Referenced(first, d)
  BY <1>1, <1>4, ReboundKeeps
<1> HIDE DEF first
<1>6. second \in Outlines /\ \A d \in Chapters : Referenced(first, d) => Referenced(second, d)
  BY <1>4, <1>5, ReboundKeeps
<1> QED
  BY <1>2, <1>3, <1>4, <1>5, <1>6

-----------------------------------------------------------------------------
(* Going back to a version of the whole novel.                             *)

PuttingBack(run, then, now, full, ids, N) ==
  run = [n \in 0..N |-> IF n = 0 THEN [ok |-> TRUE, book |-> chapter]
                        ELSE PutBack(then, now, full, run[n - 1], ids[n])]

LEMMA PuttingBackRuns ==
  ASSUME NEW then, NEW now, NEW full, NEW ids, NEW N \in Nat
  PROVE  \E run : PuttingBack(run, then, now, full, ids, N)
<1> DEFINE start == [ok |-> TRUE, book |-> chapter]
           Runs(n) == \E run : run = [k \in 0..n |-> IF k = 0 THEN start
                                       ELSE PutBack(then, now, full, run[k - 1], ids[k])]
           Proved == {n \in Nat : Runs(n)}
<1> HIDE DEF start
<1>1. 0 \in Proved
  <2>1. [k \in 0..0 |-> start] = [k \in 0..0 |-> IF k = 0 THEN start
                                   ELSE PutBack(then, now, full, [j \in 0..0 |-> start][k - 1], ids[k])]
    OBVIOUS
  <2> QED
    BY <2>1
<1>2. ASSUME NEW n \in Proved PROVE n + 1 \in Proved
  <2>1. PICK run : run = [k \in 0..n |-> IF k = 0 THEN start
                                         ELSE PutBack(then, now, full, run[k - 1], ids[k])]
    OBVIOUS
  <2> DEFINE next == [k \in 0..(n + 1) |-> IF k <= n THEN run[k]
                                           ELSE PutBack(then, now, full, run[n], ids[n + 1])]
  <2>2. ASSUME NEW k \in 0..(n + 1)
        PROVE  next[k] = IF k = 0 THEN start ELSE PutBack(then, now, full, next[k - 1], ids[k])
    <3>1. CASE k = 0
      BY <2>1, <3>1
    <3>2. CASE k # 0 /\ k <= n
      <4>1. k - 1 \in 0..(n + 1) /\ k - 1 <= n /\ k \in 0..n
        BY <3>2
      <4>2. next[k - 1] = run[k - 1] /\ next[k] = run[k]
        BY <3>2, <4>1
      <4>3. run[k] = PutBack(then, now, full, run[k - 1], ids[k])
        BY <2>1, <3>2, <4>1
      <4> QED
        BY <3>2, <4>2, <4>3
    <3>3. CASE k = n + 1
      <4>1. n \in 0..(n + 1) /\ k - 1 = n /\ k # 0 /\ ~(k <= n)
        BY <3>3
      <4>2. next[k - 1] = run[n] /\ next[k] = PutBack(then, now, full, run[n], ids[n + 1])
        BY <3>3, <4>1
      <4> QED
        BY <3>3, <4>1, <4>2
    <3> QED
      BY <3>1, <3>2, <3>3
  <2> HIDE DEF next
  <2>3. next = [k \in 0..(n + 1) |-> next[k]]
    BY DEF next
  <2>4. next = [k \in 0..(n + 1) |-> IF k = 0 THEN start ELSE PutBack(then, now, full, next[k - 1], ids[k])]
    BY <2>2, <2>3
  <2> QED
    BY <2>4
<1> HIDE DEF Runs
<1>3. Proved = Nat
  BY <1>1, <1>2, Induction
<1>4. Runs(N)
  BY <1>3
<1> QED
  BY <1>4 DEF Runs, PuttingBack, start

(* A step of it that is ok keeps the positions apart.                      *)
Run(s) == /\ s = [ok |-> s.ok, book |-> s.book] /\ s.ok \in BOOLEAN
          /\ s.ok => s.book \in Books

LEMMA FailedRun ==
  ASSUME NEW s, Run(s)
  PROVE  [s EXCEPT !.ok = FALSE] = [ok |-> FALSE, book |-> s.book]
<1>1. PICK a, b : s = [ok |-> a, book |-> b]
  BY DEF Run
<1>2. PICK v \in BOOLEAN : v = FALSE
  OBVIOUS
<1>3. [[ok |-> a, book |-> b] EXCEPT !.ok = v] = [ok |-> v, book |-> b]
  OBVIOUS
<1>4. s.book = b
  BY <1>1
<1> QED
  BY <1>1, <1>2, <1>3, <1>4, Zenon

LEMMA PutKeeps ==
  ASSUME NEW s, Run(s), NEW c, NEW row \in Rows
  PROVE  /\ Run(Put(s, c, row)) /\ Put(s, c, row).book = [s.book EXCEPT ![c] = row]
         /\ Put(s, c, row).ok = (s.ok /\ ~Taken(s.book, row.pos, c))
<1> DEFINE p == Put(s, c, row)
<1>1. /\ p.ok = (s.ok /\ ~Taken(s.book, row.pos, c)) /\ p.book = [s.book EXCEPT ![c] = row]
      /\ p = [ok |-> p.ok, book |-> p.book]
  BY DEF Put
<1> HIDE DEF p
<1>2. p.ok \in BOOLEAN
  BY <1>1
<1>3. ASSUME p.ok PROVE p.book \in Books
  <2>1. s.book \in Books /\ ~Taken(s.book, row.pos, c)
    BY <1>1, <1>3 DEF Run
  <2>2. [s.book EXCEPT ![c] = row] \in Books
    BY <2>1, PutRow
  <2> QED
    BY <1>1, <2>2
<1> QED
  BY <1>1, <1>2, <1>3 DEF Run, p

LEMMA RecreatedKeeps ==
  ASSUME NEW s, Run(s), s.ok, NEW c, NEW row \in Rows
  PROVE  /\ Run(Recreated(s, row, c))
         /\ s.book[c].row # "live" =>
              /\ Recreated(s, row, c).ok
              /\ \E x \in Rows : Recreated(s, row, c).book = [s.book EXCEPT ![c] = x]
<1>1. s.book \in Books
  BY DEF Run
<1> DEFINE p == MaxPos(s.book) + 1
           x == IF Taken(s.book, row.pos, c) THEN [row EXCEPT !.pos = p] ELSE row
<1>2. p \in Nat /\ ~Taken(s.book, p, c)
  BY <1>1, MaxPosIs, PastTheEnd
<1> HIDE DEF p
<1>3. x \in Rows /\ ~Taken(s.book, x.pos, c)
  BY <1>2 DEF Rows
<1>4. Recreated(s, row, c) = IF s.book[c].row = "live" THEN [s EXCEPT !.ok = FALSE] ELSE Put(s, c, x)
  BY DEF Recreated, p
<1> HIDE DEF x
<1>5. CASE s.book[c].row = "live"
  <2>1. Recreated(s, row, c) = [ok |-> FALSE, book |-> s.book]
    BY <1>4, <1>5 DEF Run
  <2> QED
    BY <2>1, <1>5 DEF Run
<1>6. CASE s.book[c].row # "live"
  BY <1>3, <1>4, <1>6, PutKeeps
<1> QED
  BY <1>5, <1>6

LEMMA PutBackKeeps ==
  ASSUME NEW s, Run(s), NEW then \in Books, NEW now \in Books, NEW full \in BOOLEAN, NEW c \in Chapters
  PROVE  Run(PutBack(then, now, full, s, c))
<1> DEFINE row == [now[c] EXCEPT !.text = then[c].text, !.title = then[c].title]
           x == IF Taken(s.book, then[c].pos, c) THEN [then[c] EXCEPT !.pos = MaxPos(s.book) + 1] ELSE then[c]
<1>1. row \in Rows /\ then[c] \in Rows
  <2>1. now[c] \in Rows /\ then[c] \in Rows
    BY BookType
  <2> QED
    BY <2>1 DEF Rows
<1>2. PutBack(then, now, full, s, c) =
        IF c \in LiveIn(now) THEN Put(s, c, row) ELSE IF full THEN Recreated(s, then[c], c) ELSE s
  BY DEF PutBack
<1> HIDE DEF row
<1>3. Run(Put(s, c, row))
  BY <1>1, PutKeeps
<1>4. CASE s.ok
  BY <1>1, <1>2, <1>3, <1>4, RecreatedKeeps
<1>5. CASE ~s.ok
  <2>1. Recreated(s, then[c], c) = IF s.book[c].row = "live" THEN [s EXCEPT !.ok = FALSE] ELSE Put(s, c, x)
    BY DEF Recreated
  <2>2. Put(s, c, x) = [ok |-> FALSE, book |-> [s.book EXCEPT ![c] = x]]
    BY <1>5 DEF Put
  <2> HIDE DEF x
  <2>3. [s EXCEPT !.ok = FALSE] = [ok |-> FALSE, book |-> s.book]
    BY FailedRun
  <2>4. Run([s EXCEPT !.ok = FALSE]) /\ Run(Put(s, c, x))
    BY <2>2, <2>3 DEF Run
  <2> QED
    BY <1>2, <1>3, <2>1, <2>4
<1> QED
  BY <1>4, <1>5

(* What a full return leaves of the chapters written since.                *)
LeftOf(b, then, now, full) ==
  LET extra == IF full THEN LiveIn(now) \ LiveIn(then) ELSE {} IN
  [c \in Chapters |-> IF c \in extra /\ b[c].row = "live" THEN [b[c] EXCEPT !.row = "deleted"] ELSE b[c]]

LEMMA RestoredRuns ==
  ASSUME chapter \in Books, NEW then \in Books, NEW now \in Books, NEW full \in BOOLEAN
  PROVE  LET ids == ByPosition(then, LiveIn(then)) IN
         \E run : /\ run[0] = [ok |-> TRUE, book |-> chapter]
                  /\ \A n \in 1..Len(ids) : run[n] = PutBack(then, now, full, run[n - 1], ids[n])
                  /\ Restored(then, now, full) =
                       [run[Len(ids)] EXCEPT !.book = LeftOf(run[Len(ids)].book, then, now, full)]
<1> DEFINE ids == ByPosition(then, LiveIn(then))
           N == Len(ids)
           run[n \in 0..N] == IF n = 0 THEN [ok |-> TRUE, book |-> chapter]
                              ELSE PutBack(then, now, full, run[n - 1], ids[n])
<1>1. Restored(then, now, full) = [run[N] EXCEPT !.book = LeftOf(run[N].book, then, now, full)]
  BY DEF Restored, LeftOf
<1>2. N \in Nat
  BY ByPositionLists
<1> HIDE DEF ids, N
<1>3. \E r : PuttingBack(r, then, now, full, ids, N)
  BY <1>2, PuttingBackRuns
<1>4. \E r : r = [n \in 0..N |-> IF n = 0 THEN [ok |-> TRUE, book |-> chapter]
                                ELSE PutBack(then, now, full, r[n - 1], ids[n])]
  BY <1>3 DEF PuttingBack
<1>5. run = [n \in 0..N |-> IF n = 0 THEN [ok |-> TRUE, book |-> chapter]
                            ELSE PutBack(then, now, full, run[n - 1], ids[n])]
  BY <1>4
<1> HIDE DEF run
<1>6. run[0] = [ok |-> TRUE, book |-> chapter]
  BY <1>2, <1>5
<1>7. \A n \in 1..N : run[n] = PutBack(then, now, full, run[n - 1], ids[n])
  <2>1. \A n \in 1..N : n \in 0..N /\ n # 0
    BY <1>2
  <2> QED
    BY <1>5, <2>1
<1> QED
  BY <1>1, <1>6, <1>7 DEF ids, N

LEMMA RestoredBook ==
  ASSUME chapter \in Books, NEW then \in Books, NEW now \in Books, NEW full \in BOOLEAN
  PROVE  LET s == Restored(then, now, full) IN s.ok => s.book \in Books
<1> DEFINE ids == ByPosition(then, LiveIn(then))
           N == Len(ids)
           left(b) == LeftOf(b, then, now, full)
<1>1. N \in Nat /\ \A n \in 1..N : ids[n] \in Chapters
  BY ByPositionLists, BookType DEF Lists, Range
<1>2. PICK run : /\ run[0] = [ok |-> TRUE, book |-> chapter]
                 /\ \A n \in 1..N : run[n] = PutBack(then, now, full, run[n - 1], ids[n])
                 /\ Restored(then, now, full) = [run[N] EXCEPT !.book = left(run[N].book)]
  BY RestoredRuns
<1> HIDE DEF ids, N
<1> DEFINE Proved == {n \in Nat : n <= N => Run(run[n])}
<1>3. 0 \in Proved
  <2>1. Run([ok |-> TRUE, book |-> chapter])
    BY DEF Run
  <2> QED
    BY <1>2, <2>1
<1>4. ASSUME NEW n \in Proved PROVE n + 1 \in Proved
  <2> SUFFICES ASSUME n + 1 <= N PROVE Run(run[n + 1])
    OBVIOUS
  <2>1. n <= N /\ n + 1 \in 1..N /\ (n + 1) - 1 = n
    BY <1>1
  <2>2. Run(run[n])
    BY <2>1
  <2>3. run[n + 1] = PutBack(then, now, full, run[n], ids[n + 1]) /\ ids[n + 1] \in Chapters
    BY <1>1, <1>2, <2>1
  <2> QED
    BY <2>2, <2>3, PutBackKeeps
<1>5. Proved = Nat
  BY <1>3, <1>4, Induction
<1>6. Run(run[N])
  BY <1>1, <1>5
<1>7. Restored(then, now, full) = [ok |-> run[N].ok, book |-> left(run[N].book)]
  BY <1>2, <1>6 DEF Run
<1>8. ASSUME NEW b \in Books PROVE left(b) \in Books
  <2>1. \A c \in Chapters : /\ left(b)[c] \in Rows /\ left(b)[c].pos = b[c].pos
                            /\ left(b)[c].row = "live" => b[c].row = "live"
    BY BookType DEF LeftOf, Rows
  <2>2. left(b) \in [Chapters -> Rows]
    <3>1. left(b) = [c \in Chapters |-> left(b)[c]]
      BY DEF LeftOf
    <3> QED
      BY <2>1, <3>1
  <2> QED
    BY <2>1, <2>2, FewerRows DEF LiveIn
<1> QED
  BY <1>6, <1>7, <1>8 DEF Run

-----------------------------------------------------------------------------
(* The initial states.                                                     *)

LEMMA FirstChapters ==
  /\ DOMAIN First = 1..Len(First) /\ Len(First) \in Nat \ {0}
  /\ \A i \in DOMAIN First : First[i] \in Chapters /\ First[i] \in Range(First)
  /\ \A i, j \in DOMAIN First : First[i] = First[j] => i = j
<1>1. First \in Seq(Chapters) /\ First # << >>
  BY ChaptersAssumption
<1>2. DOMAIN First = 1..Len(First) /\ Len(First) \in Nat \ {0}
  BY <1>1, LenProperties, EmptySeq
<1>3. \A i \in DOMAIN First : First[i] \in Chapters /\ First[i] \in Range(First)
  BY <1>1, <1>2, ElementOfSeq DEF Range
<1>4. \A i, j \in DOMAIN First : First[i] = First[j] => i = j
  BY ChaptersAssumption DEF IsInjective
<1> QED
  BY <1>2, <1>3, <1>4

LEMMA WrittenBook == Written \in Books
<1> DEFINE at(c) == CHOOSE i \in DOMAIN First : First[i] = c
<1>1. ASSUME NEW c \in Range(First) PROVE at(c) \in DOMAIN First /\ First[at(c)] = c /\ at(c) \in Nat
  <2>1. \E i \in DOMAIN First : First[i] = c
    BY DEF Range
  <2>2. at(c) \in DOMAIN First /\ First[at(c)] = c
    BY <2>1
  <2> HIDE DEF at
  <2> QED
    BY <2>2, FirstChapters
<1>2. Written = [c \in Chapters |-> IF c \in Range(First) THEN Row(at(c), c, c) ELSE NoRow]
  BY DEF Written
<1> HIDE DEF at
<1>3. Written \in [Chapters -> Rows]
  BY <1>1, <1>2, FreshQuery DEF Row, Rows, Texts, Titles
<1>4. \A c \in LiveIn(Written) : c \in Range(First) /\ Written[c].pos = at(c)
  BY <1>2 DEF LiveIn, Row, NoRow
<1>5. Apart(Written)
  BY <1>1, <1>4 DEF Apart
<1> QED
  BY <1>3, <1>5 DEF Books

LEMMA BoundFirst == Bound \in Outlines /\ Front(Bound) \in Outlines
<1>1. Bound \in [1..Len(First) -> Nodes]
  BY FirstChapters DEF Bound, Node, Nodes, Titles
<1>2. Bound \in Seq(Nodes) /\ Len(Bound) = Len(First) /\ Len(First) \in Nat
  BY <1>1, FirstChapters, ListType
<1>3. \A i \in 1..(Len(Bound) - 1) : Bound[i] \in Nodes
  BY <1>1, <1>2
<1>4. SubSeq(Bound, 1, Len(Bound) - 1) \in Seq(Nodes)
  BY <1>2, <1>3, SubSeqProperties
<1> QED
  BY <1>2, <1>4 DEF Front, Outlines

LEMMA TypeInit == Init => TypeOK
<1> SUFFICES ASSUME Init PROVE TypeOK
  OBVIOUS
<1>1. PICK trashed \in BOOLEAN :
        LET z == First[Len(First)]
            kept == IF trashed THEN Front(Bound) ELSE Bound IN
        /\ chapter = IF trashed THEN [Written EXCEPT ![z].row = "deleted"] ELSE Written
        /\ bin = [k \in Keys |-> IF trashed /\ k = Past
                                  THEN [node |-> Node(z, z), text |-> z, title |-> z] ELSE None]
        /\ \/ outline = kept
           \/ \E t \in Chapters \ Range(First) : outline = InsertAt(kept, 1, Node(t, None))
  BY DEF Init
<1> DEFINE z == First[Len(First)]
           kept == IF trashed THEN Front(Bound) ELSE Bound
<1>2. z \in Chapters
  BY FirstChapters
<1>3. chapter \in Books
  BY <1>1, WrittenBook, DropRow
<1>4. kept \in Outlines
  BY BoundFirst
<1>5. outline \in Outlines
  <2>1. CASE outline = kept
    BY <1>4, <2>1
  <2>2. CASE \E t \in Chapters \ Range(First) : outline = InsertAt(kept, 1, Node(t, None))
    <3>1. PICK t \in Chapters : outline = InsertAt(kept, 1, Node(t, None))
      BY <2>2
    <3>2. Node(t, None) \in Nodes
      BY DEF Node, Nodes, Titles
    <3> HIDE DEF kept
    <3>3. kept \in Seq(Nodes) /\ Len(kept) \in Nat /\ \A i \in 1..Len(kept) : kept[i] \in Nodes
      BY <1>4, OutlineType DEF Outlines
    <3>4. SubSeq(kept, 1, 0) \in Seq(Nodes) /\ SubSeq(kept, 1, Len(kept)) \in Seq(Nodes)
      BY <3>3, SubSeqProperties
    <3>5. <<Node(t, None)>> \in Seq(Nodes)
      BY <3>2
    <3>6. SubSeq(kept, 1, 0) \o <<Node(t, None)>> \o SubSeq(kept, 1, Len(kept)) \in Seq(Nodes)
      BY <3>4, <3>5, ConcatProperties
    <3>7. outline = SubSeq(kept, 1, 0) \o <<Node(t, None)>> \o SubSeq(kept, 1, Len(kept))
      BY <3>1 DEF InsertAt
    <3> QED
      BY <3>6, <3>7 DEF Outlines
  <2> QED
    BY <1>1, <2>1, <2>2
<1>6. bin \in [Keys -> {None} \cup Binned]
  <2>1. [node |-> Node(z, z), text |-> z, title |-> z] \in Binned
    BY <1>2 DEF Binned, Node, Nodes, Titles, Texts
  <2> QED
    BY <1>1, <2>1
<1>7. version \in SUBSET Versions /\ stamp \in Nat
  <2>1. First[1] \in Chapters
    BY FirstChapters
  <2> QED
    BY <2>1 DEF Init, Versions, Texts
<1>8. bundle \in [Keys -> {None} \cup Bundles]
  <2>1. [book |-> Written, list |-> Bound] \in Bundles
    BY WrittenBook, BoundFirst DEF Bundles
  <2> QED
    BY <2>1 DEF Init
<1>9. cache \in [Chapters -> Texts \cup {None, "null"}] /\ counted \in {"right", "behind", "skipped"}
  BY DEF Init
<1>10. faults \in Nat /\ panel \in Outlines
  BY <1>5, ManuscriptBounds DEF Init
<1>11. Asking
  <2>1. Fresh \in Queries /\ Proper(Fresh)
    BY FreshQuery DEF Proper
  <2> QED
    BY <2>1 DEF Init, Asking
<1> QED
  BY <1>3, <1>5, <1>6, <1>7, <1>8, <1>9, <1>10, <1>11 DEF TypeOK

-----------------------------------------------------------------------------
(* Every step keeps the types.                                             *)

LEMMA Doing ==
  ASSUME Asking, NEW r \in Requests
  PROVE  /\ req \in [Requests -> Queries] /\ req[r] \in Queries /\ Proper(req[r])
         /\ Course(req[r].kind, req[r].pc) /\ Carries(req[r]) /\ Backed(req[r])
         /\ req[r].c \in Titles /\ req[r].seen \in Rows /\ req[r].pos \in Nat
         /\ req[r].list \in Outlines \cup Seq(Chapters) /\ req[r].book \in Books
         /\ req[r].full \in BOOLEAN /\ req[r].tried \in BOOLEAN
BY Zenon DEF Asking, Proper, Queries, OnCourse

(* Fields that a step overwrites.                                          *)
Follows(n, q, pc) == /\ n \in Queries /\ n.pc = pc /\ n.kind = q.kind /\ n.c = q.c
                     /\ n.alone = q.alone

LEMMA WithPos ==
  ASSUME NEW q \in Queries, NEW pc \in Steps, NEW p \in Nat
  PROVE  LET n == [q EXCEPT !.pc = pc, !.pos = p] IN
         Follows(n, q, pc) /\ n.pick = q.pick /\ n.list = q.list
BY Zenon DEF Follows, Queries

LEMMA WithBook ==
  ASSUME NEW q \in Queries, NEW pc \in Steps, NEW b \in Books
  PROVE  LET n == [q EXCEPT !.pc = pc, !.book = b] IN
         Follows(n, q, pc) /\ n.pick = q.pick /\ n.list = q.list
BY Zenon DEF Follows, Queries

LEMMA WithTried ==
  ASSUME NEW q \in Queries, NEW pc \in Steps, NEW f \in BOOLEAN
  PROVE  LET n == [q EXCEPT !.pc = pc, !.tried = f] IN
         Follows(n, q, pc) /\ n.pick = q.pick /\ n.list = q.list
BY Zenon DEF Follows, Queries

LEMMA WithSeen ==
  ASSUME NEW q \in Queries, NEW pc \in Steps, NEW row \in Rows
  PROVE  LET n == [q EXCEPT !.pc = pc, !.seen = row] IN
         Follows(n, q, pc) /\ n.pick = q.pick /\ n.list = q.list
BY Zenon DEF Follows, Queries

LEMMA WithPick ==
  ASSUME NEW q \in Queries, NEW pc \in Steps, NEW k \in Picks
  PROVE  LET n == [q EXCEPT !.pc = pc, !.pick = k] IN
         Follows(n, q, pc) /\ n.pick = k /\ n.list = q.list
BY Zenon DEF Follows, Queries

LEMMA WithList ==
  ASSUME NEW q \in Queries, NEW pc \in Steps, NEW o \in Outlines
  PROVE  LET n == [q EXCEPT !.pc = pc, !.list = o] IN
         Follows(n, q, pc) /\ n.pick = q.pick /\ n.list = o
BY Zenon DEF Follows, Queries

LEMMA OnlyRequests ==
  ASSUME TypeOK, UNCHANGED <<tables, panel, cache>>, faults' \in Nat, Asking'
  PROVE  TypeOK'
BY DEF TypeOK, tables

LEMMA Failing == ASSUME TypeOK, Fault PROVE faults' \in Nat
BY DEF TypeOK, Fault

LEMMA Unmoving == ASSUME UNCHANGED bundle PROVE BundlesStay
BY DEF BundlesStay

(* A request that a step gives new contents.                               *)
LEMMA Changed ==
  ASSUME Asking, BundlesStay, NEW r \in Requests, NEW q, req' = [req EXCEPT ![r] = q],
         NEW pc \in Steps, Follows(q, req[r], pc), pc \notin {"reorder", "trash"}, Course(req[r].kind, pc),
         q.pick = req[r].pick \/ q.kind \notin {"rollback", "trash", "untrash", "purge", "revert"},
         q.list \in Outlines
  PROVE  Asking'
<1>1. Carries(req[r]) /\ Backed(req[r])
  BY Doing
<1>2. Carries(q) /\ Backed(q)
  BY <1>1 DEF Carries, Backed, Follows
<1>3. Proper(q)
  BY <1>2 DEF Proper, OnCourse, Follows
<1> QED
  BY <1>3, Asked

LEMMA CreateAsked ==
  ASSUME TypeOK, NEW r \in Requests, AskCreate(r) \/ AskOpen(r)
  PROVE  TypeOK'
<1>1. Asking /\ outline \in Outlines /\ panel \in Outlines
  BY DEF TypeOK
<1>2. UNCHANGED <<tables, panel, cache, faults>> /\ BundlesStay
  BY Zenon, Unmoving DEF AskCreate, AskOpen, tables
<1>3. CASE AskCreate(r)
  <2>1. PICK c \in NewIds, t \in {Empty, r} : \E n \in {c} \cup Planned(outline) :
               Arrive(r, [Fresh EXCEPT !.kind = "create", !.pc = "max", !.c = c, !.seen = Row(0, t, n)])
    BY Zenon, <1>3 DEF AskCreate
  <2>2. PICK n \in {c} \cup Planned(outline) :
               Arrive(r, [Fresh EXCEPT !.kind = "create", !.pc = "max", !.c = c, !.seen = Row(0, t, n)])
    BY Zenon, <2>1
  <2>3. c \in Chapters /\ n \in Titles /\ t \in Texts
    BY <1>1, OutlineType DEF NewIds, Planned, Titles, Texts
  <2>4. Row(0, t, n) \in Rows
    BY <2>3 DEF Row, Rows
  <2> DEFINE q == [Fresh EXCEPT !.kind = "create", !.pc = "max", !.c = c, !.seen = Row(0, t, n)]
  <2>5. q \in Queries /\ q.kind = "create" /\ q.pc = "max" /\ q.c = c /\ q.list = << >>
    BY Zenon, <2>3, <2>4, FreshQuery DEF Fresh, Queries, Steps, Titles, Outlines, Picks
  <2> HIDE DEF q
  <2>6. Proper(q)
    BY <2>3, <2>5, FreshQuery DEF Proper, OnCourse, Course, Carries, Backed
  <2>7. Asking'
    BY <1>1, <1>2, <2>2, <2>6, Arriving DEF q
  <2> QED
    BY <1>2, <2>7, OnlyRequests DEF TypeOK
<1>4. CASE AskOpen(r)
  <2>1. PICK i \in DOMAIN panel, c \in NewIds :
          LET before == Cardinality({j \in 1..(i - 1) : panel[j].chapter # None}) IN
          Arrive(r, [Fresh EXCEPT !.kind = "open", !.pc = "max", !.c = c,
                                  !.seen = Row(before, Empty, panel[i].title)])
    BY Zenon, <1>4 DEF AskOpen
  <2> DEFINE before == Cardinality({j \in 1..(i - 1) : panel[j].chapter # None})
             row == Row(before, Empty, panel[i].title)
             q == [Fresh EXCEPT !.kind = "open", !.pc = "max", !.c = c, !.seen = row]
  <2>2. before \in Nat
    <3>1. i - 1 \in Int /\ 1 \in Int
      BY <1>1, OutlineType
    <3>2. IsFiniteSet(1..(i - 1))
      BY <3>1, FS_Interval
    <3>3. IsFiniteSet({j \in 1..(i - 1) : panel[j].chapter # None})
      BY <3>2, FS_Subset
    <3> QED
      BY <3>3, FS_CardinalityType
  <2> HIDE DEF before
  <2>3. c \in Chapters /\ panel[i].title \in Titles
    BY <1>1, OutlineType DEF NewIds
  <2>4. row \in Rows
    BY <2>2, <2>3 DEF Row, Rows, Texts
  <2>5. Arrive(r, q)
    BY <2>1 DEF before
  <2> HIDE DEF row
  <2>6. q \in Queries /\ q.kind = "open" /\ q.pc = "max" /\ q.c = c /\ q.list = << >>
    BY Zenon, <2>3, <2>4, FreshQuery DEF Fresh, Queries, Steps, Titles, Outlines, Picks
  <2> HIDE DEF q
  <2>7. Proper(q)
    BY <2>3, <2>6, FreshQuery DEF Proper, OnCourse, Course, Carries, Backed
  <2>8. Asking'
    BY <1>1, <1>2, <2>5, <2>7, Arriving
  <2> QED
    BY <1>2, <2>8, OnlyRequests DEF TypeOK
<1> QED
  BY <1>3, <1>4

LEMMA CreationSteps ==
  ASSUME TypeOK, NEW r \in Requests,
         GetMaxPosition(r) \/ CreateAtEnd(r) \/ SeeShifted(r) \/ CreateAtPosition(r)
  PROVE  TypeOK'
<1>1. Asking /\ chapter \in Books
  BY DEF TypeOK
<1>2. BundlesStay
  BY Unmoving DEF GetMaxPosition, CreateAtEnd, SeeShifted, CreateAtPosition, tables
<1>3. CASE GetMaxPosition(r)
  <2> DEFINE end == MaxPos(chapter) + 1
             m == Min({req[r].seen.pos, end})
             q == IF req[r].kind = "create" THEN [req[r] EXCEPT !.pc = "insert", !.pos = end]
                  ELSE [req[r] EXCEPT !.pc = "shift", !.pos = m]
  <2>1. req[r].seen.pos \in Nat /\ end \in Nat
    BY <1>1, Doing, MaxPosIs DEF Rows
  <2> HIDE DEF end
  <2>2. m \in Nat
    <3>1. \E x \in {req[r].seen.pos, end} : \A y \in {req[r].seen.pos, end} : x <= y
      BY <2>1
    <3>2. m \in {req[r].seen.pos, end}
      BY <3>1 DEF Min
    <3> QED
      BY <2>1, <3>2
  <2> HIDE DEF m
  <2>3. req' = [req EXCEPT ![r] = q]
    BY Zenon, <1>1, <1>3, Doing DEF GetMaxPosition, end, m
  <2> DEFINE pc == IF req[r].kind = "create" THEN "insert" ELSE "shift"
  <2>4. Follows(q, req[r], pc) /\ q.pick = req[r].pick /\ q.list = req[r].list
    <3>1. CASE req[r].kind = "create"
      BY ZenonT(60), <1>1, <2>1, <3>1, Doing, WithPos DEF Steps
    <3>2. CASE req[r].kind # "create"
      BY ZenonT(60), <1>1, <2>2, <3>2, Doing, WithPos DEF Steps
    <3> QED
      BY <3>1, <3>2
  <2> HIDE DEF q
  <2>5. Course(req[r].kind, pc) /\ q.list \in Outlines /\ pc \in Steps /\ pc # "reorder"
    BY <1>1, <1>3, <2>4, Doing DEF Course, Carries, GetMaxPosition, At, Steps
  <2>6. Asking'
    BY <1>1, <1>2, <2>3, <2>4, <2>5, Changed
  <2> QED
    BY <1>3, <2>6, OnlyRequests DEF GetMaxPosition, TypeOK
<1>4. CASE CreateAtEnd(r)
  <2>1. req[r].pc = "insert" /\ Course(req[r].kind, "insert")
    BY <1>1, <1>4, Doing DEF CreateAtEnd, At
  <2> DEFINE row == [req[r].seen EXCEPT !.pos = req[r].pos]
  <2>2. row \in Rows /\ row.pos = req[r].pos
    BY <1>1, Doing DEF Rows
  <2>3. chapter' \in Books
    <3>1. CASE Taken(chapter, req[r].pos, req[r].c)
      BY <1>1, <1>4, <3>1 DEF CreateAtEnd
    <3>2. CASE ~Taken(chapter, req[r].pos, req[r].c)
      <4>1. chapter' = [chapter EXCEPT ![req[r].c] = row]
        BY <1>4, <3>2 DEF CreateAtEnd
      <4> HIDE DEF row
      <4> QED
        BY <1>1, <2>2, <3>2, <4>1, PutRow
    <3> QED
      BY <3>1, <3>2
  <2>4. Asking'
    <3>1. Course(req[r].kind, "bindread") /\ "bindread" \in Steps
      BY <2>1 DEF Course, Steps
    <3>2. Goto(r, "bindread") \/ \E x : Reply(r, x)
      BY Zenon, <1>4 DEF CreateAtEnd, Conflict
    <3>3. ASSUME NEW x, Reply(r, x) PROVE Asking'
      BY Zenon, <1>1, <1>2, <3>3, Replying
    <3> QED
      BY <1>1, <1>2, <2>1, <3>1, <3>2, <3>3, Going
  <2>5. counted' \in {"right", "behind", "skipped"}
    BY <1>4 DEF CreateAtEnd, TypeOK
  <2> QED
    BY <1>4, <2>3, <2>4, <2>5 DEF CreateAtEnd, TypeOK
<1>5. CASE SeeShifted(r)
  <2> DEFINE D == {c \in LiveIn(chapter) : chapter[c].pos >= req[r].pos}
             B == [c \in Chapters |-> IF c \in D THEN chapter[c] ELSE NoRow]
             q == [req[r] EXCEPT !.pc = "insertat", !.book = B]
  <2>1. B \in Books
    BY <1>1, PartOf
  <2>2. B = [c \in Chapters |-> IF c \in Live /\ chapter[c].pos >= req[r].pos THEN chapter[c] ELSE NoRow]
    BY DEF Live, LiveIn
  <2> HIDE DEF B
  <2>3. req' = [req EXCEPT ![r] = q]
    BY <1>1, <1>5, <2>2, Doing DEF SeeShifted
  <2>4. Follows(q, req[r], "insertat") /\ q.pick = req[r].pick /\ q.list = req[r].list
    <3>1. req[r] \in Queries /\ "insertat" \in Steps
      BY <1>1, Doing DEF Steps
    <3> QED
      BY Zenon, <2>1, <3>1, WithBook
  <2> HIDE DEF q
  <2>5. Course(req[r].kind, "insertat") /\ q.list \in Outlines /\ "insertat" \in Steps
    BY <1>1, <1>5, <2>4, Doing DEF Course, Carries, SeeShifted, At, Steps
  <2>6. Asking'
    BY Zenon, <1>1, <1>2, <2>3, <2>4, <2>5, Changed
  <2> QED
    BY <1>5, <2>6, OnlyRequests DEF SeeShifted, TypeOK
<1>6. CASE CreateAtPosition(r)
  <2> DEFINE c == req[r].c
             S == {d \in LiveIn(req[r].book) : chapter[d].row = "live" /\ chapter[d].pos >= req[r].pos}
             s == Shift(chapter, S)
             row == [req[r].seen EXCEPT !.pos = req[r].pos]
             good == s.ok /\ (\A d \in S : ~Taken(s.book, s.book[d].pos, d)) /\ ~Taken(s.book, req[r].pos, c)
  <2>1. req[r].pc = "insertat" /\ Course(req[r].kind, "insertat") /\ req[r].list \in Outlines
    BY Zenon, <1>1, <1>6, Doing DEF CreateAtPosition, At, Carries
  <2>2. row \in Rows /\ row.pos = req[r].pos
    BY <1>1, Doing DEF Rows
  <2>3. S \in SUBSET LiveIn(chapter)
    BY DEF LiveIn
  <2>4. /\ good => /\ chapter' = [s.book EXCEPT ![c] = row]
                   /\ req' = [req EXCEPT ![r].pc = "answered", ![r].book = NoBook]
        /\ ~good => /\ UNCHANGED chapter
                    /\ IF req[r].tried THEN Conflict(r)
                       ELSE req' = [req EXCEPT ![r].pc = "shift", ![r].tried = TRUE]
    BY Zenon, <1>6 DEF CreateAtPosition
  <2> HIDE DEF row, S
  <2>5. good => [s.book EXCEPT ![c] = row] \in Books
    BY <1>1, <2>2, <2>3, InsertedBook
  <2> HIDE DEF good, s
  <2>6. chapter' \in Books
    BY <1>1, <2>4, <2>5
  <2>7. ASSUME req' = [req EXCEPT ![r].pc = "answered", ![r].book = NoBook] PROVE Asking'
    <3> DEFINE q == [req[r] EXCEPT !.pc = "answered", !.book = NoBook]
    <3>1. req' = [req EXCEPT ![r] = q]
      BY <1>1, <2>7, Doing
    <3>2. Follows(q, req[r], "answered") /\ q.pick = req[r].pick /\ q.list = req[r].list
      <4>1. req[r] \in Queries /\ "answered" \in Steps /\ NoBook \in Books
        BY <1>1, Doing, FreshQuery DEF Steps
      <4> QED
        BY Zenon, <4>1, WithBook
    <3> HIDE DEF q
    <3>3. Course(req[r].kind, "answered") /\ "answered" \in Steps
      BY <2>1 DEF Course, Steps
    <3> QED
      BY <1>1, <1>2, <2>1, <3>1, <3>2, <3>3, Changed
  <2>8. ASSUME req' = [req EXCEPT ![r].pc = "shift", ![r].tried = TRUE] PROVE Asking'
    <3> DEFINE q == [req[r] EXCEPT !.pc = "shift", !.tried = TRUE]
    <3>1. req' = [req EXCEPT ![r] = q]
      BY <1>1, <2>8, Doing
    <3>2. Follows(q, req[r], "shift") /\ q.pick = req[r].pick /\ q.list = req[r].list
      BY Zenon, <1>1, Doing, WithTried DEF Steps
    <3> HIDE DEF q
    <3>3. Course(req[r].kind, "shift") /\ "shift" \in Steps
      BY <2>1 DEF Course, Steps
    <3> QED
      BY <1>1, <1>2, <2>1, <3>1, <3>2, <3>3, Changed
  <2>9. Conflict(r) => Asking'
    BY Zenon, <1>1, <1>2, Replying DEF Conflict
  <2>10. Asking'
    BY <2>4, <2>7, <2>8, <2>9
  <2> QED
    BY Zenon, <1>6, <2>6, <2>10 DEF CreateAtPosition, TypeOK
<1> QED
  BY <1>3, <1>4, <1>5, <1>6

LEMMA ReorderSteps ==
  ASSUME TypeOK, NEW r \in Requests, AskReorder(r) \/ Reorder(r)
  PROVE  TypeOK'
<1>1. Asking /\ chapter \in Books
  BY DEF TypeOK
<1>2. BundlesStay
  BY Zenon, Unmoving DEF AskReorder, Reorder, tables
<1>3. CASE AskReorder(r)
  <2>1. PICK ids \in SetToSeqs(Live) :
               Arrive(r, [Fresh EXCEPT !.kind = "reorder", !.pc = "reorder", !.list = ids])
    BY Zenon, <1>3 DEF AskReorder
  <2>2. ids \in Seq(Chapters)
    <3>1. Live \in SUBSET Chapters
      BY DEF Live
    <3>2. Cardinality(Live) \in Nat
      BY <3>1, ChaptersAssumption, FS_Subset, FS_CardinalityType
    <3>3. ids \in [1..Cardinality(Live) -> Live]
      BY DEF SetToSeqs
    <3>4. ids \in [1..Cardinality(Live) -> Chapters]
      BY <3>1, <3>3
    <3> QED
      BY <3>2, <3>4, ListType
  <2> DEFINE q == [Fresh EXCEPT !.kind = "reorder", !.pc = "reorder", !.list = ids]
  <2>3. q \in Queries /\ q.kind = "reorder" /\ q.pc = "reorder" /\ q.list = ids
    BY Zenon, <2>2, FreshQuery DEF Fresh, Queries, Steps, Titles, Picks
  <2> HIDE DEF q
  <2>4. Proper(q)
    BY <2>2, <2>3 DEF Proper, OnCourse, Course, Carries, Backed
  <2>5. Asking'
    BY <1>1, <1>2, <2>1, <2>4, Arriving DEF q
  <2> QED
    BY Zenon, <1>3, <2>5, OnlyRequests DEF AskReorder, TypeOK
<1>4. CASE Reorder(r)
  <2>1. req[r].list \in Seq(Chapters)
    BY <1>1, <1>4, Doing DEF Reorder, At, Carries
  <2>2. chapter' \in Books
    BY <1>1, <1>4, <2>1, Reordered DEF Reorder
  <2>3. Asking'
    <3>1. \E x : Reply(r, x)
      BY Zenon, <1>4 DEF Reorder, Conflict
    <3> QED
      BY Zenon, <1>1, <1>2, <3>1, Replying
  <2> QED
    BY <1>4, <2>2, <2>3 DEF Reorder, TypeOK
<1> QED
  BY <1>3, <1>4

LEMMA ChapterAsked ==
  ASSUME Asking, BundlesStay, NEW r \in Requests, NEW c \in Chapters, NEW kind, NEW pc,
         \/ kind \in {"read", "agent"} /\ pc = "cache"
         \/ kind \in {"save", "delete", "mark"} /\ pc = "load",
         Arrive(r, [Fresh EXCEPT !.kind = kind, !.pc = pc, !.c = c])
  PROVE  Asking'
<1> DEFINE q == [Fresh EXCEPT !.kind = kind, !.pc = pc, !.c = c]
<1>1. q \in Queries /\ q.kind = kind /\ q.pc = pc /\ q.list = << >> /\ q.c = c
  BY Zenon, FreshQuery DEF Fresh, Queries, Steps, Titles, Picks
<1> HIDE DEF q
<1>2. Proper(q)
  BY <1>1, FreshQuery DEF Proper, OnCourse, Course, Carries, Backed
<1> QED
  BY <1>2, Arriving DEF q

LEMMA ReadSteps ==
  ASSUME TypeOK, NEW r \in Requests, AskRead(r) \/ AskSave(r) \/ AskCache(r) \/ Fill(r) \/ Uncache(r)
  PROVE  TypeOK'
<1>1. Asking /\ chapter \in Books /\ cache \in [Chapters -> Texts \cup {None, "null"}]
  BY DEF TypeOK
<1>2. BundlesStay
  BY Zenon, Unmoving DEF AskRead, AskSave, AskCache, Fill, Uncache, tables
<1>3. CASE AskRead(r)
  <2>1. PICK c \in Chapters, k \in {"read", "agent"} :
               Arrive(r, [Fresh EXCEPT !.kind = k, !.pc = "cache", !.c = c])
    BY Zenon, <1>3 DEF AskRead
  <2>2. Asking'
    BY Zenon, <1>1, <1>2, <2>1, ChapterAsked
  <2> QED
    BY Zenon, <1>3, <2>2, OnlyRequests DEF AskRead, TypeOK
<1>4. CASE AskSave(r)
  <2>1. PICK c \in Chapters, k \in {"save", "delete", "mark"} :
               Arrive(r, [Fresh EXCEPT !.kind = k, !.pc = "load", !.c = c])
    BY Zenon, <1>4 DEF AskSave
  <2>2. Asking'
    BY Zenon, <1>1, <1>2, <2>1, ChapterAsked
  <2> QED
    BY Zenon, <1>4, <2>2, OnlyRequests DEF AskSave, TypeOK
<1>5. ASSUME At(r, "cache") \/ At(r, "fill"), NEW x, Known(r, x) PROVE Asking'
  <2>1. Course(req[r].kind, "aload") \/ req[r].kind = "read"
    BY <1>1, <1>5, Doing DEF At, Course
  <2>2. CASE Goto(r, "aload") /\ req[r].kind # "read"
    <3>1. Course(req[r].kind, "aload") /\ "aload" \in Steps /\ req[r].pc # "reorder"
      BY <1>5, <2>1, <2>2 DEF At, Steps
    <3> QED
      BY <1>1, <1>2, <2>2, <3>1, Going
  <2>3. CASE \E y : Reply(r, y)
    BY Zenon, <1>1, <1>2, <2>3, Replying
  <2> QED
    BY <1>5, <2>2, <2>3 DEF Known
<1>6. CASE AskCache(r)
  <2>1. CASE Known(r, cache[req[r].c])
    BY <1>5, <1>6, <2>1, OnlyRequests DEF AskCache, TypeOK
  <2>2. CASE req' = [req EXCEPT ![r].pc = "fill", ![r].seen = chapter[req[r].c]]
    <3> DEFINE row == chapter[req[r].c]
               q == [req[r] EXCEPT !.pc = "fill", !.seen = row]
    <3>1. Course(req[r].kind, "cache") /\ req[r].list \in Outlines /\ req[r] \in Queries /\ Carries(req[r])
      BY <1>1, <1>6, Doing DEF AskCache, At, Carries
    <3>2. req[r].kind \in {"read", "agent"}
      BY Zenon, <3>1 DEF Course, Queries
    <3>3. req[r].c \in Chapters /\ Course(req[r].kind, "fill") /\ "fill" \in Steps
      BY <3>1, <3>2 DEF Course, Carries, Steps
    <3>4. row \in Rows
      BY <1>1, <3>3, BookType
    <3>5. req' = [req EXCEPT ![r] = q]
      BY <1>1, <2>2, Doing
    <3> HIDE DEF row
    <3>6. Follows(q, req[r], "fill") /\ q.pick = req[r].pick /\ q.list = req[r].list
      BY Zenon, <3>1, <3>3, <3>4, WithSeen
    <3> HIDE DEF q
    <3>7. Asking'
      BY <1>1, <1>2, <3>1, <3>3, <3>5, <3>6, Changed
    <3> QED
      BY <1>6, <3>7, OnlyRequests DEF AskCache, TypeOK
  <2> QED
    BY <1>6, <2>1, <2>2 DEF AskCache
<1>7. CASE Fill(r)
  <2> DEFINE x == IF req[r].seen.row = "live" THEN req[r].seen.text ELSE "null"
  <2>1. x \in Texts \cup {"null"}
    BY <1>1, Doing DEF Rows
  <2>2. cache' = [cache EXCEPT ![req[r].c] = x] /\ Known(r, x)
    BY <1>7 DEF Fill
  <2> HIDE DEF x
  <2>3. cache' \in [Chapters -> Texts \cup {None, "null"}]
    BY <1>1, <2>1, <2>2
  <2>4. Asking'
    BY <1>5, <1>7, <2>2 DEF Fill
  <2> QED
    BY <1>7, <2>3, <2>4 DEF Fill, TypeOK, tables
<1>8. CASE Uncache(r)
  <2>1. cache' \in [Chapters -> Texts \cup {None, "null"}]
    BY <1>1, <1>8 DEF Uncache
  <2>2. Course(req[r].kind, "uncache") /\ req[r].pc # "reorder"
    BY <1>1, <1>8, Doing DEF Uncache, At
  <2>3. Course(req[r].kind, "count") /\ "count" \in Steps
    BY <2>2 DEF Course, Steps
  <2>4. Asking'
    BY <1>1, <1>2, <1>8, <2>2, <2>3, Going DEF Uncache
  <2> QED
    BY <1>8, <2>1, <2>4 DEF Uncache, TypeOK, tables
<1> QED
  BY <1>3, <1>4, <1>6, <1>7, <1>8

LEMMA OfAChapter ==
  ASSUME Asking, NEW r \in Requests,
         req[r].pc \in {"load", "latest", "keep", "boundary", "prune", "save", "count", "aload", "akeep",
                        "remove", "mark", "target", "checkpoint"}
  PROVE  /\ req[r].c \in Chapters /\ req[r].list \in Outlines /\ req[r].pc # "reorder"
         /\ req[r].kind \in {"agent", "save", "delete", "mark", "rollback"}
         /\ Course(req[r].kind, req[r].pc)
<1>1. Carries(req[r]) /\ Course(req[r].kind, req[r].pc) /\ req[r] \in Queries
  BY Doing
<1>2. PICK k, p : k = req[r].kind /\ p = req[r].pc
  OBVIOUS
<1>3. k \in {"agent", "save", "delete", "mark", "rollback"}
  <2>1. k \in {"none", "create", "open", "reorder", "read", "agent", "save", "delete", "mark", "rollback",
               "put", "trash", "untrash", "purge", "bundle", "revert"}
    BY Zenon, <1>1, <1>2 DEF Queries
  <2>2. Course(k, p) /\ p \in {"load", "latest", "keep", "boundary", "prune", "save", "count", "aload",
                               "akeep", "remove", "mark", "target", "checkpoint"}
    BY <1>1, <1>2
  <2> QED
    BY <2>1, <2>2 DEF Course
<1> QED
  BY <1>1, <1>2, <1>3 DEF Carries

LEMMA AddedVersion ==
  ASSUME TypeOK, NEW c \in Chapters, NEW t \in Texts, NEW k \in {"auto", "rollback", "milestone"},
         AddVersion(c, t, k)
  PROVE  version' \in SUBSET Versions /\ stamp' \in Nat
<1>1. version \in SUBSET Versions /\ stamp \in Nat
  BY DEF TypeOK
<1>2. [at |-> stamp + 1, chapter |-> c, text |-> t, kind |-> k] \in Versions
  BY <1>1 DEF Versions
<1> QED
  BY <1>1, <1>2 DEF AddVersion

LEMMA SnapshotSteps ==
  ASSUME TypeOK, NEW r \in Requests,
         \/ GetByID(r) \/ LookAtLatest(r) \/ KeepVersion(r) \/ FindBoundary(r) \/ PruneAuto(r)
         \/ SnapshotFails(r) \/ AgentLoads(r) \/ AgentKeeps(r)
  PROVE  TypeOK'
<1>1. Asking /\ chapter \in Books /\ version \in SUBSET Versions /\ stamp \in Nat
  BY DEF TypeOK
<1>2. BundlesStay
  BY Unmoving DEF GetByID, LookAtLatest, KeepVersion, FindBoundary, PruneAuto, SnapshotFails, AgentLoads,
     AgentKeeps, tables
<1>3. req[r].pc \in {"load", "latest", "keep", "boundary", "prune", "aload", "akeep"}
  BY DEF GetByID, LookAtLatest, KeepVersion, FindBoundary, PruneAuto, SnapshotFails, AgentLoads,
     AgentKeeps, At
<1>4. /\ req[r].c \in Chapters /\ req[r].list \in Outlines /\ req[r].pc # "reorder"
      /\ req[r].kind \in {"agent", "save", "delete", "mark", "rollback"}
      /\ Course(req[r].kind, req[r].pc) /\ req[r] \in Queries
  BY <1>1, <1>3, OfAChapter, Doing
<1>5. chapter[req[r].c] \in Rows /\ req[r].seen.text \in Texts
  BY <1>1, <1>4, BookType, Doing DEF Rows
<1>6. ASSUME NEW pc \in {"save", "keep", "boundary", "load"}, Goto(r, pc),
             \/ req[r].pc \in {"latest", "keep", "boundary", "prune"} /\ pc # "load"
             \/ req[r].pc \in {"aload", "akeep"} /\ pc = "load"
      PROVE  Asking'
  <2>1. Course(req[r].kind, pc) /\ pc \in Steps /\ pc # "reorder"
    BY <1>4, <1>6 DEF Course, Steps
  <2> QED
    BY <1>1, <1>2, <1>4, <1>6, <2>1, Going
<1>7. ASSUME NEW pc \in Steps, Course(req[r].kind, pc), pc \notin {"reorder", "trash"},
             req' = [req EXCEPT ![r].pc = pc, ![r].seen = chapter[req[r].c]]
      PROVE  Asking'
  <2> DEFINE row == chapter[req[r].c]
             q == [req[r] EXCEPT !.pc = pc, !.seen = row]
  <2>1. req' = [req EXCEPT ![r] = q]
    BY <1>1, <1>7, Doing
  <2>2. Follows(q, req[r], pc) /\ q.pick = req[r].pick /\ q.list = req[r].list
    BY Zenon, <1>4, <1>5, WithSeen
  <2> HIDE DEF q
  <2> QED
    BY <1>1, <1>2, <1>4, <1>7, <2>1, <2>2, Changed
<1>8. ASSUME NEW x, Reply(r, x) PROVE Asking'
  BY Zenon, <1>1, <1>2, <1>8, Replying
<1>9. CASE GetByID(r)
  <2>1. CASE req' = [req EXCEPT ![r].pc = AfterLoad(r), ![r].seen = chapter[req[r].c]]
    <3>1. Course(req[r].kind, "load")
      BY <1>4, <1>9 DEF GetByID, At
    <3>2. \/ AfterLoad(r) \in {"save", "latest"} /\ req[r].kind \in {"save", "agent"}
          \/ AfterLoad(r) = "remove" /\ req[r].kind = "delete"
          \/ AfterLoad(r) = "target" /\ req[r].kind = "rollback"
          \/ AfterLoad(r) = "mark" /\ req[r].kind = "mark"
      BY <1>4 DEF AfterLoad
    <3>3. AfterLoad(r) \in Steps /\ Course(req[r].kind, AfterLoad(r)) /\ AfterLoad(r) \notin {"reorder", "trash"}
      BY <3>2 DEF Course, Steps
    <3>4. Asking'
      BY <1>7, <2>1, <3>3
    <3> QED
      BY <1>9, <3>4, OnlyRequests DEF GetByID, TypeOK
  <2> QED
    BY <1>8, <1>9, <2>1, OnlyRequests DEF GetByID, TypeOK
<1>10. CASE LookAtLatest(r)
  <2>1. req[r].pc = "latest" /\ (Goto(r, "save") \/ Goto(r, "keep"))
    BY <1>10 DEF LookAtLatest, At
  <2>2. Asking'
    BY <1>6, <2>1
  <2> QED
    BY <1>10, <2>2, OnlyRequests DEF LookAtLatest, TypeOK
<1>11. CASE KeepVersion(r)
  <2>1. req[r].pc = "keep" /\ Goto(r, "boundary")
    BY <1>11 DEF KeepVersion, At
  <2>2. Asking' /\ version' \in SUBSET Versions /\ stamp' \in Nat
    BY <1>4, <1>5, <1>6, <1>11, <2>1, AddedVersion DEF KeepVersion
  <2> QED
    BY <1>11, <2>2 DEF KeepVersion, TypeOK
<1>12. CASE FindBoundary(r)
  <2>1. req[r].pc = "boundary"
    BY <1>12 DEF FindBoundary, At
  <2>2. CASE Goto(r, "save")
    BY <1>6, <1>12, <2>1, <2>2, OnlyRequests DEF FindBoundary, TypeOK
  <2>3. CASE \E v \in Autos(req[r].c) : req' = [req EXCEPT ![r].pc = "prune", ![r].pick = v]
    <3>1. PICK v \in Autos(req[r].c) : req' = [req EXCEPT ![r].pc = "prune", ![r].pick = v]
      BY <2>3
    <3> DEFINE q == [req[r] EXCEPT !.pc = "prune", !.pick = v]
    <3>2. v \in Picks /\ "prune" \in Steps
      BY <1>1 DEF Autos, Picks, Steps
    <3>3. req' = [req EXCEPT ![r] = q]
      BY <1>1, <3>1, Doing
    <3>4. Follows(q, req[r], "prune") /\ q.pick = v /\ q.list = req[r].list
      <4>1. PICK x, k : x = req[r] /\ k = v
        OBVIOUS
      <4>2. LET n == [x EXCEPT !.pc = "prune", !.pick = k] IN
            Follows(n, x, "prune") /\ n.pick = k /\ n.list = x.list
        <5>1. x \in Queries /\ k \in Picks /\ "prune" \in Steps
          BY <1>4, <3>2, <4>1
        <5> QED
          BY ONLY Zenon, <5>1, WithPick
      <4> QED
        BY <4>1, <4>2
    <3> HIDE DEF q
    <3>5. q.kind \notin {"rollback", "trash", "untrash", "purge", "revert"} /\ Course(req[r].kind, "prune")
      BY <1>4, <2>1, <3>4 DEF Course, Follows
    <3>6. Asking'
      BY <1>1, <1>2, <1>4, <3>2, <3>3, <3>4, <3>5, Changed
    <3> QED
      BY <1>12, <3>6, OnlyRequests DEF FindBoundary, TypeOK
  <2> QED
    BY <1>12, <2>2, <2>3 DEF FindBoundary
<1>13. CASE PruneAuto(r)
  <2>1. req[r].pc = "prune" /\ Goto(r, "save")
    BY <1>13 DEF PruneAuto, At
  <2>2. Asking' /\ version' \in SUBSET Versions
    BY <1>1, <1>6, <1>13, <2>1 DEF PruneAuto
  <2> QED
    BY <1>13, <2>2 DEF PruneAuto, TypeOK
<1>14. CASE SnapshotFails(r)
  <2>1. Asking'
    BY <1>6, <1>14 DEF SnapshotFails
  <2> QED
    BY <1>14, <2>1, Failing, OnlyRequests DEF SnapshotFails
<1>15. CASE AgentLoads(r)
  <2> DEFINE pc == IF req[r].c \in Live /\ chapter[req[r].c].text # Empty THEN "akeep" ELSE "load"
  <2>1. req' = [req EXCEPT ![r].pc = pc, ![r].seen = chapter[req[r].c]]
    <3> DEFINE row == chapter[req[r].c]
    <3>1. req' = [req EXCEPT ![r].seen = row, ![r].pc = pc]
      BY <1>15 DEF AgentLoads
    <3> HIDE DEF row, pc
    <3>2. [req EXCEPT ![r].seen = row, ![r].pc = pc] = [req EXCEPT ![r].pc = pc, ![r].seen = row]
      BY <1>1, <1>4, Doing
    <3> QED
      BY <3>1, <3>2 DEF row
  <2>2. Course(req[r].kind, "aload")
    BY <1>4, <1>15 DEF AgentLoads, At
  <2>3. pc \in Steps /\ Course(req[r].kind, pc) /\ pc \notin {"reorder", "trash"}
    BY <2>2 DEF Course, Steps
  <2> HIDE DEF pc
  <2>4. Asking'
    BY <1>7, <2>1, <2>3
  <2> QED
    BY <1>15, <2>4, OnlyRequests DEF AgentLoads, TypeOK
<1>16. CASE AgentKeeps(r)
  <2>1. req[r].pc = "akeep" /\ Goto(r, "load")
    BY <1>16 DEF AgentKeeps, At
  <2>2. Asking'
    BY <1>6, <2>1
  <2>3. version' \in SUBSET Versions /\ stamp' \in Nat
    BY <1>1, <1>4, <1>5, <1>16, AddedVersion DEF AgentKeeps
  <2> QED
    BY <1>16, <2>2, <2>3 DEF AgentKeeps, TypeOK
<1> QED
  BY <1>9, <1>10, <1>11, <1>12, <1>13, <1>14, <1>15, <1>16

LEMMA WriteSteps ==
  ASSUME TypeOK, NEW r \in Requests, Save(r) \/ Delete(r) \/ RefreshNovelWordCount(r)
  PROVE  TypeOK'
<1>1. Asking /\ chapter \in Books
  BY DEF TypeOK
<1>2. BundlesStay
  BY Unmoving DEF Save, Delete, RefreshNovelWordCount
<1>3. req[r].pc \in {"save", "remove", "count"}
  BY DEF Save, Delete, RefreshNovelWordCount, At
<1>4. /\ req[r].c \in Chapters /\ req[r].list \in Outlines /\ req[r].pc # "reorder"
      /\ req[r].kind \in {"agent", "save", "delete", "mark", "rollback"}
      /\ Course(req[r].kind, req[r].pc) /\ req[r] \in Queries
  BY <1>1, <1>3, OfAChapter, Doing
<1>5. ASSUME NEW x, Reply(r, x) PROVE Asking'
  BY Zenon, <1>1, <1>2, <1>5, Replying
<1>6. ASSUME Goto(r, "uncache"), req[r].pc \in {"save", "remove"} PROVE Asking'
  <2>1. Course(req[r].kind, "uncache") /\ "uncache" \in Steps
    BY <1>4, <1>6 DEF Course, Steps
  <2> QED
    BY <1>1, <1>2, <1>4, <1>6, <2>1, Going
<1>7. CASE Save(r)
  <2>1. CASE Taken(chapter, req[r].seen.pos, req[r].c)
    <3>1. \E x : Reply(r, x)
      BY Zenon, <1>7, <2>1 DEF Save, Conflict
    <3> QED
      BY <1>5, <1>7, <2>1, <3>1 DEF Save, TypeOK
  <2>2. CASE ~Taken(chapter, req[r].seen.pos, req[r].c)
    <3> DEFINE row == [req[r].seen EXCEPT !.text = NewText(r)]
    <3>1. NewText(r) \in Texts
      <4>1. req[r].kind = "rollback" => req[r].pick \in Versions
        BY <1>1, Doing DEF Carries
      <4> QED
        BY <4>1 DEF NewText, Versions, Texts
    <3>2. req[r].seen \in Rows
      BY <1>1, Doing
    <3>3. row \in Rows /\ row.pos = req[r].seen.pos
      BY <3>1, <3>2 DEF Rows
    <3> HIDE DEF row
    <3>4. chapter' = [chapter EXCEPT ![req[r].c] = row]
      BY <1>7, <2>2 DEF Save, row
    <3>5. chapter' \in Books
      BY <1>1, <2>2, <3>3, <3>4, PutRow
    <3>6. Asking'
      BY <1>6, <1>7, <2>2 DEF Save, At
    <3> QED
      BY <1>7, <2>2, <3>5, <3>6 DEF Save, TypeOK
  <2> QED
    BY <2>1, <2>2
<1>8. CASE Delete(r)
  <2>1. chapter' \in Books
    BY <1>1, <1>8, DropRow DEF Delete
  <2>2. Asking'
    BY <1>6, <1>8 DEF Delete, At
  <2> QED
    BY <1>8, <2>1, <2>2 DEF Delete, TypeOK
<1>9. CASE RefreshNovelWordCount(r)
  BY <1>5, <1>9 DEF RefreshNovelWordCount, TypeOK
<1> QED
  BY <1>7, <1>8, <1>9

LEMMA HistorySteps ==
  ASSUME TypeOK, NEW r \in Requests, HistoryStep(r)
  PROVE  TypeOK'
<1>1. Asking /\ chapter \in Books /\ version \in SUBSET Versions /\ stamp \in Nat
  BY DEF TypeOK
<1>2. BundlesStay
  BY Zenon, Unmoving DEF HistoryStep, AskRollback, Target, Checkpoint, CreateSnapshot, tables
<1>3. CASE AskRollback(r)
  <2>1. PICK v \in version : Arrive(r, [Fresh EXCEPT !.kind = "rollback", !.pc = "load", !.c = v.chapter,
                                                     !.pick = v])
    BY Zenon, <1>3 DEF AskRollback
  <2> DEFINE c == v.chapter
             q == [Fresh EXCEPT !.kind = "rollback", !.pc = "load", !.c = c, !.pick = v]
  <2>2. c \in Chapters /\ v \in Versions
    BY <1>1 DEF Versions
  <2>3. v \in Picks
    BY <2>2 DEF Picks
  <2> HIDE DEF c
  <2>4. q \in Queries /\ q.kind = "rollback" /\ q.pc = "load" /\ q.c = c /\ q.pick = v /\ q.list = << >>
    <3>1. Fresh \in Queries /\ Fresh.list = << >>
      <4>1. Fresh.list = << >>
        BY DEF Fresh
      <4>2. Fresh \in Queries
        BY FreshQuery DEF Proper
      <4> QED
        BY <4>1, <4>2
    <3>2. PICK f, k : f = Fresh /\ k = v
      OBVIOUS
    <3>3. f \in Queries /\ f.list = << >> /\ k \in Picks /\ c \in Titles /\ "load" \in Steps
      BY <2>2, <2>3, <3>1, <3>2 DEF Titles, Steps
    <3> DEFINE n == [f EXCEPT !.kind = "rollback", !.pc = "load", !.c = c, !.pick = k]
    <3> HIDE DEF Steps, Picks, Titles
    <3>4. n \in Queries /\ n.kind = "rollback" /\ n.pc = "load" /\ n.c = c /\ n.pick = k /\ n.list = << >>
      BY ONLY Zenon, <3>3 DEF Queries
    <3> QED
      BY <3>2, <3>4
  <2> HIDE DEF q
  <2>5. Proper(q)
    BY <2>2, <2>4, FreshQuery DEF Proper, OnCourse, Course, Carries, Backed
  <2>6. Asking'
    BY <1>1, <1>2, <2>1, <2>5, Arriving DEF q, c
  <2> QED
    BY <1>3, <2>6, OnlyRequests DEF AskRollback, TypeOK
<1>4. CASE ~AskRollback(r)
  <2>1. req[r].pc \in {"target", "checkpoint", "mark"} /\ (Target(r) \/ Checkpoint(r) \/ CreateSnapshot(r))
    BY <1>4 DEF HistoryStep, Target, Checkpoint, CreateSnapshot, At
  <2>2. /\ req[r].c \in Chapters /\ req[r].pc # "reorder" /\ Course(req[r].kind, req[r].pc)
        /\ req[r].seen.text \in Texts
        /\ req[r].kind \in {"agent", "save", "delete", "mark", "rollback"}
    <3>1. req[r].seen.text \in Texts
      BY <1>1, Doing DEF Rows
    <3> QED
      BY <1>1, <2>1, <3>1, OfAChapter
  <2>3. ASSUME NEW pc \in {"checkpoint", "save"}, Goto(r, pc), req[r].pc \in {"target", "checkpoint"}
        PROVE  Asking'
    <3>1. Course(req[r].kind, pc) /\ pc \in Steps /\ pc # "reorder"
      BY <2>2, <2>3 DEF Course, Steps
    <3> QED
      BY <1>1, <1>2, <2>2, <2>3, <3>1, Going
  <2>4. ASSUME NEW x, Reply(r, x) PROVE Asking'
    BY Zenon, <1>1, <1>2, <2>4, Replying
  <2>5. CASE Target(r)
    <3>1. Asking'
      BY <2>3, <2>4, <2>5 DEF Target, At
    <3> QED
      BY <2>5, <3>1, OnlyRequests DEF Target, TypeOK
  <2>6. CASE Checkpoint(r)
    <3>1. Asking'
      BY <2>3, <2>6 DEF Checkpoint, At
    <3>2. version' \in SUBSET Versions /\ stamp' \in Nat
      BY <2>2, <2>6, AddedVersion DEF Checkpoint
    <3> QED
      BY <2>6, <3>1, <3>2 DEF Checkpoint, TypeOK
  <2>7. CASE CreateSnapshot(r)
    <3>1. Asking'
      BY <2>4, <2>7 DEF CreateSnapshot
    <3>2. version' \in SUBSET Versions /\ stamp' \in Nat
      BY <2>2, <2>7, AddedVersion DEF CreateSnapshot
    <3> QED
      BY <2>7, <3>1, <3>2 DEF CreateSnapshot, TypeOK
  <2> QED
    BY <2>1, <2>5, <2>6, <2>7
<1> QED
  BY <1>3, <1>4

LEMMA SweepingSteps ==
  ASSUME TypeOK, SweepExpiredVersions \/ CacheExpires \/ LoadOutline
  PROVE  TypeOK'
<1>1. CASE SweepExpiredVersions
  <2>1. version' \in SUBSET version
    BY <1>1 DEF SweepExpiredVersions
  <2>2. UNCHANGED <<chapter, outline, panel, bin, stamp, bundle, cache, counted, req, faults>>
    BY <1>1 DEF SweepExpiredVersions
  <2> QED
    BY <2>1, <2>2 DEF TypeOK, Asking, Proper, Backed
<1>2. CASE CacheExpires
  <2>1. cache' \in [Chapters -> Texts \cup {None, "null"}]
    BY <1>2 DEF CacheExpires, TypeOK
  <2> QED
    BY <1>2, <2>1 DEF CacheExpires, TypeOK, Asking, Proper, Backed, tables
<1>3. CASE LoadOutline
  BY <1>3 DEF LoadOutline, TypeOK, Asking, Proper, Backed, tables
<1> QED
  BY <1>1, <1>2, <1>3

-----------------------------------------------------------------------------
(* The outline's steps.                                                    *)

LEMMA BindingSteps ==
  ASSUME TypeOK, NEW r \in Requests, BindRead(r) \/ BindChapterToOutline(r)
  PROVE  TypeOK'
<1>1. Asking /\ outline \in Outlines
  BY DEF TypeOK
<1>2. BundlesStay
  BY Unmoving DEF BindRead, BindChapterToOutline, tables
<1>3. /\ Course(req[r].kind, req[r].pc) /\ req[r] \in Queries /\ Carries(req[r])
      /\ req[r].seen.title \in Titles /\ req[r].c \in Titles
  BY <1>1, Doing DEF Rows
<1>4. CASE BindRead(r)
  <2> DEFINE q == [req[r] EXCEPT !.pc = "bind", !.list = outline]
  <2>1. req' = [req EXCEPT ![r] = q]
    BY <1>1, <1>4, Doing DEF BindRead
  <2>2. "bind" \in Steps
    BY DEF Steps
  <2>3. Follows(q, req[r], "bind") /\ q.pick = req[r].pick /\ q.list = outline
    BY ZenonT(60), <1>1, <1>3, <2>2, WithList
  <2> HIDE DEF q
  <2>4. Course(req[r].kind, "bind")
    BY <1>3, <1>4 DEF Course, BindRead, At
  <2>5. Asking'
    BY <1>1, <1>2, <2>1, <2>2, <2>3, <2>4, Changed
  <2> QED
    BY <1>4, <2>5, OnlyRequests DEF BindRead, TypeOK
<1>5. CASE BindChapterToOutline(r)
  <2>1. req[r].list \in Outlines
    BY <1>3, <1>5 DEF BindChapterToOutline, At, Carries
  <2>2. outline' \in Outlines
    BY <1>1, <1>3, <1>5, <2>1, BoundOutline DEF BindChapterToOutline
  <2>3. Asking'
    BY Zenon, <1>1, <1>2, <1>5, Replying DEF BindChapterToOutline
  <2> QED
    BY <1>5, <2>2, <2>3 DEF BindChapterToOutline, TypeOK
<1> QED
  BY <1>4, <1>5

LEMMA PanelSteps ==
  ASSUME TypeOK, NEW r \in Requests, AskPut(r) \/ HandleOpenBody(r) \/ UpdateOutline(r)
  PROVE  TypeOK'
<1>1. Asking /\ outline \in Outlines /\ panel \in Outlines
  BY DEF TypeOK
<1>2. BundlesStay
  BY Zenon, Unmoving DEF AskPut, HandleOpenBody, UpdateOutline, tables
<1>3. /\ Course(req[r].kind, req[r].pc) /\ req[r] \in Queries /\ Carries(req[r])
      /\ req[r].seen.title \in Titles /\ req[r].c \in Titles
  BY <1>1, Doing DEF Rows
<1>4. CASE AskPut(r)
  <2>1. PICK o \in Edits(panel) : /\ Arrive(r, [Fresh EXCEPT !.kind = "put", !.pc = "upsert", !.list = o])
                                  /\ panel' = o
    BY Zenon, <1>4 DEF AskPut
  <2>2. o \in Outlines
    BY <1>1, EditedOutline
  <2> DEFINE q == [Fresh EXCEPT !.kind = "put", !.pc = "upsert", !.list = o]
  <2>3. q \in Queries /\ q.kind = "put" /\ q.pc = "upsert" /\ q.list = o
    <3>1. PICK f : f = Fresh
      OBVIOUS
    <3>2. f \in Queries /\ "upsert" \in Steps
      BY <3>1, FreshQuery DEF Proper, Steps
    <3>3. LET n == [f EXCEPT !.kind = "put", !.pc = "upsert", !.list = o] IN
          n \in Queries /\ n.kind = "put" /\ n.pc = "upsert" /\ n.list = o
      BY ONLY Zenon, <2>2, <3>2 DEF Queries
    <3> QED
      BY <3>1, <3>3
  <2> HIDE DEF q
  <2>4. Proper(q)
    BY <2>2, <2>3 DEF Proper, OnCourse, Course, Carries, Backed
  <2>5. Asking'
    BY <1>1, <1>2, <2>1, <2>4, Arriving DEF q
  <2> QED
    BY Zenon, <1>4, <2>1, <2>2, <2>5 DEF AskPut, TypeOK, tables
<1>5. CASE HandleOpenBody(r)
  <2>1. CASE Reply(r, "ok") /\ UNCHANGED panel
    <3>1. Asking'
      BY Zenon, <1>1, <1>2, <2>1, Replying
    <3> QED
      BY <1>5, <2>1, <3>1 DEF HandleOpenBody, TypeOK, tables
  <2>2. CASE /\ panel' = BoundByTitle(panel, req[r].seen.title, req[r].c)
             /\ req' = [req EXCEPT ![r].pc = "upsert", ![r].list = panel']
    <3>1. panel' \in Outlines
      BY <1>1, <1>3, <2>2, BoundOutline
    <3>2. PICK o \in Outlines : o = panel'
      BY <3>1
    <3> DEFINE q == [req[r] EXCEPT !.pc = "upsert", !.list = o]
    <3>3. req' = [req EXCEPT ![r] = q]
      <4>1. req' = [req EXCEPT ![r].pc = "upsert", ![r].list = o]
        BY <2>2, <3>2
      <4> QED
        BY <1>1, <4>1, Doing
    <3>4. "upsert" \in Steps
      BY DEF Steps
    <3>5. Follows(q, req[r], "upsert") /\ q.pick = req[r].pick /\ q.list = o
      BY ZenonT(60), <1>3, <3>4, WithList
    <3> HIDE DEF q
    <3>6. Course(req[r].kind, "upsert")
      BY <1>3, <1>5 DEF Course, HandleOpenBody, At
    <3>7. Asking'
      BY <1>1, <1>2, <3>3, <3>4, <3>5, <3>6, Changed
    <3> QED
      BY <1>5, <3>1, <3>7 DEF HandleOpenBody, TypeOK, tables
  <2> QED
    BY <1>5, <2>1, <2>2 DEF HandleOpenBody
<1>6. CASE UpdateOutline(r)
  <2>1. req[r].list \in Outlines
    BY <1>3, <1>6 DEF UpdateOutline, At, Carries
  <2>2. Course(req[r].kind, "syncread") /\ "syncread" \in Steps /\ req[r].pc # "reorder"
    BY <1>3, <1>6 DEF Course, UpdateOutline, At, Steps
  <2>3. Asking'
    BY <1>1, <1>2, <1>6, <2>2, Going DEF UpdateOutline
  <2> QED
    BY <1>6, <2>1, <2>3 DEF UpdateOutline, TypeOK
<1> QED
  BY <1>4, <1>5, <1>6

LEMMA LiveRead ==
  ASSUME chapter \in Books
  PROVE  LET b == [c \in Chapters |-> IF c \in Live THEN chapter[c] ELSE NoRow] IN
         b \in Books /\ LiveIn(b) = Live
<1>1. Live = LiveIn(chapter)
  BY DEF Live, LiveIn
<1> QED
  BY <1>1, PartOf

LEMMA SyncSteps ==
  ASSUME TypeOK, NEW r \in Requests, SyncRead(r) \/ SyncBindings(r) \/ ResyncPositions(r)
  PROVE  TypeOK'
<1>1. Asking /\ outline \in Outlines /\ chapter \in Books
  BY DEF TypeOK
<1>2. BundlesStay
  BY Unmoving DEF SyncRead, SyncBindings, ResyncPositions, tables
<1>3. /\ Course(req[r].kind, req[r].pc) /\ req[r] \in Queries /\ Carries(req[r]) /\ req[r].book \in Books
  BY <1>1, Doing
<1>4. req[r].list \in Outlines
  BY <1>3 DEF SyncRead, SyncBindings, ResyncPositions, At, Carries
<1>5. CASE SyncRead(r)
  <2> DEFINE b == [c \in Chapters |-> IF c \in Live THEN chapter[c] ELSE NoRow]
             q == [req[r] EXCEPT !.pc = "sync", !.list = outline, !.book = b]
  <2>1. b \in Books
    BY <1>1, LiveRead
  <2>2. req' = [req EXCEPT ![r] = q]
    <3>1. req' = [req EXCEPT ![r].pc = "sync", ![r].list = outline, ![r].book = b]
      BY <1>5 DEF SyncRead
    <3> HIDE DEF b
    <3> QED
      BY <1>1, <3>1, Doing
  <2> HIDE DEF b
  <2>3. "sync" \in Steps
    BY DEF Steps
  <2>4. Follows(q, req[r], "sync") /\ q.pick = req[r].pick /\ q.list = outline
    <3>1. req[r] \in Queries /\ "sync" \in Steps /\ outline \in Outlines /\ b \in Books
      BY <1>1, <1>3, <2>1, <2>3
    <3>2. PICK x, o, d : x = req[r] /\ o = outline /\ d = b
      OBVIOUS
    <3>3. LET n == [x EXCEPT !.pc = "sync", !.list = o, !.book = d] IN
          Follows(n, x, "sync") /\ n.pick = x.pick /\ n.list = o
      <4>1. x \in Queries /\ "sync" \in Steps /\ o \in Outlines /\ d \in Books
        BY ONLY <3>1, <3>2
      <4> QED
        BY ONLY Zenon, <4>1 DEF Follows, Queries
    <3> QED
      BY <3>2, <3>3 DEF q
  <2> HIDE DEF q
  <2>5. Course(req[r].kind, "sync")
    BY <1>3, <1>5 DEF Course, SyncRead, At
  <2>6. Asking'
    BY <1>1, <1>2, <2>2, <2>3, <2>4, <2>5, Changed
  <2> QED
    BY <1>5, <2>6, OnlyRequests DEF SyncRead, TypeOK
<1>6. CASE SyncBindings(r)
  <2> DEFINE o == Sanitized(req[r].list, req[r].book)
             q == [req[r] EXCEPT !.pc = "order", !.list = o]
  <2>1. o \in Outlines
    BY <1>4, SanitizedOutline
  <2>2. outline' = IF o = req[r].list THEN outline ELSE o
    BY <1>6 DEF SyncBindings
  <2>3. req' = [req EXCEPT ![r].pc = "order", ![r].list = o]
    BY <1>6 DEF SyncBindings
  <2> HIDE DEF o
  <2>4. req' = [req EXCEPT ![r] = q]
    BY <1>1, <2>3, Doing
  <2>5. "order" \in Steps
    BY DEF Steps
  <2>6. Follows(q, req[r], "order") /\ q.pick = req[r].pick /\ q.list = o
    BY ZenonT(60), <1>3, <2>1, <2>5, WithList
  <2> HIDE DEF q
  <2>7. Course(req[r].kind, "order")
    BY <1>3, <1>6 DEF Course, SyncBindings, At
  <2>8. Asking'
    BY <1>1, <1>2, <2>1, <2>4, <2>5, <2>6, <2>7, Changed
  <2>9. outline' \in Outlines
    BY <1>1, <2>1, <2>2
  <2> QED
    BY <1>6, <2>8, <2>9 DEF SyncBindings, TypeOK
<1>7. CASE ResyncPositions(r)
  <2> DEFINE ids == InOutlineOrder(req[r].list, req[r].book)
  <2>1. ids \in Seq(Chapters)
    <3>1. Lists(ids, LiveIn(req[r].book)) /\ LiveIn(req[r].book) \in SUBSET Chapters
      BY <1>3, <1>4, OutlineOrder, BookType
    <3> QED
      BY <3>1, SeqDef DEF Lists
  <2>2. \/ UNCHANGED chapter
        \/ chapter' = IF ReorderByIDs(chapter, ids).found /\ ReorderByIDs(chapter, ids).ok
                        THEN ReorderByIDs(chapter, ids).book ELSE chapter
    BY <1>7 DEF ResyncPositions
  <2> HIDE DEF ids
  <2>3. chapter' \in Books
    BY <1>1, <2>1, <2>2, Reordered
  <2>4. Asking'
    BY Zenon, <1>1, <1>2, <1>7, Replying DEF ResyncPositions
  <2> QED
    BY <1>7, <2>3, <2>4 DEF ResyncPositions, TypeOK
<1> QED
  BY <1>5, <1>6, <1>7

-----------------------------------------------------------------------------
(* The bin's steps.                                                        *)

LEMMA BinAsked ==
  ASSUME TypeOK, NEW r \in Requests, AskTrash(r) \/ AskBin(r)
  PROVE  TypeOK'
<1>1. Asking /\ panel \in Outlines /\ bin \in [Keys -> {None} \cup Binned]
  BY DEF TypeOK
<1>2. UNCHANGED <<tables, panel, cache, faults>> /\ BundlesStay
  BY Zenon, Unmoving DEF AskTrash, AskBin, tables
<1>3. CASE AskTrash(r)
  <2>1. PICK n \in {panel[i].title : i \in DOMAIN panel} :
          Arrive(r, [Fresh EXCEPT !.kind = "trash", !.pc = "tread", !.pick = Node(n, None)])
    BY Zenon, <1>3 DEF AskTrash
  <2>2. PICK k \in Nodes : k = Node(n, None)
    BY <1>1, OutlineType DEF Node, Nodes, Titles
  <2> DEFINE q == [Fresh EXCEPT !.kind = "trash", !.pc = "tread", !.pick = k]
  <2>3. q \in Queries /\ q.kind = "trash" /\ q.pc = "tread" /\ q.pick = k /\ q.list = << >>
    <3>1. PICK f : f = Fresh
      OBVIOUS
    <3>2. f \in Queries /\ f.list = << >>
      <4>1. Fresh.list = << >>
        BY DEF Fresh
      <4> QED
        BY <3>1, <4>1, FreshQuery DEF Proper
    <3>3. "tread" \in Steps /\ k \in Picks
      BY DEF Steps, Picks
    <3>4. LET n1 == [f EXCEPT !.kind = "trash", !.pc = "tread", !.pick = k] IN
          n1 \in Queries /\ n1.kind = "trash" /\ n1.pc = "tread" /\ n1.pick = k /\ n1.list = << >>
      BY ONLY Zenon, <3>2, <3>3 DEF Queries
    <3> QED
      BY <3>1, <3>4
  <2> HIDE DEF q
  <2>4. Proper(q)
    BY <2>2, <2>3, FreshQuery DEF Proper, OnCourse, Course, Carries, Backed
  <2>5. Arrive(r, q)
    BY <2>1, <2>2 DEF q
  <2>6. Asking'
    BY <1>1, <1>2, <2>4, <2>5, Arriving
  <2> QED
    BY <1>2, <2>6, OnlyRequests DEF TypeOK
<1>4. CASE AskBin(r)
  <2>1. PICK k \in Keys, kind \in {"untrash", "purge"} :
          /\ bin[k] # None
          /\ Arrive(r, [Fresh EXCEPT !.kind = kind, !.c = bin[k].node.chapter, !.pick = k,
                                     !.pc = IF kind = "untrash" THEN "find" ELSE "purge"])
    BY Zenon, <1>4 DEF AskBin
  <2>2. PICK c \in Titles : c = bin[k].node.chapter
    BY <1>1, <2>1 DEF Binned, Nodes
  <2>3. PICK pc \in Steps : pc = IF kind = "untrash" THEN "find" ELSE "purge"
    BY DEF Steps
  <2> DEFINE q == [Fresh EXCEPT !.kind = kind, !.c = c, !.pick = k, !.pc = pc]
  <2>4. q \in Queries /\ q.kind = kind /\ q.pc = pc /\ q.pick = k /\ q.list = << >>
    <3>1. PICK f : f = Fresh
      OBVIOUS
    <3>2. f \in Queries /\ f.list = << >>
      <4>1. Fresh.list = << >>
        BY DEF Fresh
      <4> QED
        BY <3>1, <4>1, FreshQuery DEF Proper
    <3>3. k \in Picks
      BY DEF Picks
    <3>4. LET n == [f EXCEPT !.kind = kind, !.c = c, !.pick = k, !.pc = pc] IN
          n \in Queries /\ n.kind = kind /\ n.pc = pc /\ n.pick = k /\ n.list = << >>
      <4>1. kind \in {"untrash", "purge"} /\ c \in Titles /\ pc \in Steps
        BY <2>1, <2>2, <2>3
      <4> QED
        BY ONLY Zenon, <3>2, <3>3, <4>1 DEF Queries
    <3> QED
      BY <3>1, <3>4
  <2> HIDE DEF q
  <2>5. Proper(q)
    BY <2>1, <2>3, <2>4, FreshQuery DEF Proper, OnCourse, Course, Carries, Backed
  <2>6. Arrive(r, q)
    BY <2>1, <2>2, <2>3 DEF q
  <2>7. Asking'
    BY <1>1, <1>2, <2>5, <2>6, Arriving
  <2> QED
    BY <1>2, <2>7, OnlyRequests DEF TypeOK
<1> QED
  BY <1>3, <1>4

LEMMA TrashSteps ==
  ASSUME TypeOK, NEW r \in Requests, TrashRead(r) \/ TrashNode(r)
  PROVE  TypeOK'
<1>1. Asking /\ chapter \in Books /\ outline \in Outlines /\ bin \in [Keys -> {None} \cup Binned]
  BY DEF TypeOK
<1>2. BundlesStay
  BY Zenon, Unmoving DEF TrashRead, TrashNode, tables
<1>3. req[r].pc \in {"tread", "trash"} /\ req[r].kind = "trash" /\ req[r] \in Queries /\ Carries(req[r])
  <2>1. req[r].pc \in {"tread", "trash"} /\ Course(req[r].kind, req[r].pc) /\ req[r] \in Queries
    BY Zenon, <1>1, Doing DEF TrashRead, TrashNode, At
  <2>2. PICK k, p : k = req[r].kind /\ p = req[r].pc
    OBVIOUS
  <2>3. k = "trash"
    <3>1. k \in {"none", "create", "open", "reorder", "read", "agent", "save", "delete", "mark", "rollback",
                 "put", "trash", "untrash", "purge", "bundle", "revert"}
      BY Zenon, <2>1, <2>2 DEF Queries
    <3>2. Course(k, p) /\ p \in {"tread", "trash"}
      BY <2>1, <2>2
    <3> QED
      BY <3>1, <3>2 DEF Course
  <2> QED
    BY <1>1, <2>1, <2>2, <2>3, Doing
<1>4. CASE TrashRead(r)
  <2>1. CASE Reply(r, "notfound")
    <3>1. Asking'
      BY Zenon, <1>1, <1>2, <2>1, Replying
    <3> QED
      BY Zenon, <1>4, <3>1, OnlyRequests DEF TrashRead, TypeOK
  <2>2. CASE \E n \in Range(outline) :
               /\ n.chapter = None \/ n.chapter \in Live
               /\ req' = [req EXCEPT ![r].pc = "trash", ![r].list = outline, ![r].pick = n,
                            ![r].seen = IF n.chapter = None THEN NoRow ELSE chapter[n.chapter]]
    <3>1. PICK n \in Range(outline) :
               /\ n.chapter = None \/ n.chapter \in Live
               /\ req' = [req EXCEPT ![r].pc = "trash", ![r].list = outline, ![r].pick = n,
                            ![r].seen = IF n.chapter = None THEN NoRow ELSE chapter[n.chapter]]
      BY Zenon, <2>2
    <3>2. n \in Nodes /\ \E i \in DOMAIN outline : outline[i] = n
      BY <1>1, OutlineType DEF Range
    <3>3. PICK row \in Rows : row = IF n.chapter = None THEN NoRow ELSE chapter[n.chapter]
      BY <1>1, <3>1, BookType, FreshQuery DEF Live
    <3> DEFINE q == [req[r] EXCEPT !.pc = "trash", !.list = outline, !.pick = n, !.seen = row]
    <3>4. req' = [req EXCEPT ![r] = q]
      <4>1. req' = [req EXCEPT ![r].pc = "trash", ![r].list = outline, ![r].pick = n, ![r].seen = row]
        BY <3>1, <3>3
      <4> QED
        BY <1>1, <4>1, Doing
    <3>5. q \in Queries /\ q.kind = "trash" /\ q.pc = "trash" /\ q.list = outline /\ q.pick = n
      <4>1. PICK x, o, k : x = req[r] /\ o = outline /\ k = n
        OBVIOUS
      <4>2. x \in Queries /\ x.kind = "trash" /\ o \in Outlines /\ k \in Picks /\ "trash" \in Steps
        BY <1>1, <1>3, <3>2, <4>1 DEF Steps, Picks
      <4>3. LET y == [x EXCEPT !.pc = "trash", !.list = o, !.pick = k, !.seen = row] IN
            y \in Queries /\ y.kind = "trash" /\ y.pc = "trash" /\ y.list = o /\ y.pick = k
        <5>1. row \in Rows
          BY <3>3
        <5> QED
          BY ONLY Zenon, <4>2, <5>1 DEF Queries
      <4> QED
        BY <4>1, <4>3
    <3> HIDE DEF q
    <3>6. Proper(q)
      BY <1>1, <3>2, <3>5 DEF Proper, OnCourse, Course, Carries, Backed
    <3>7. Asking'
      BY <1>1, <1>2, <3>4, <3>6, Asked
    <3> QED
      BY Zenon, <1>4, <3>7, OnlyRequests DEF TrashRead, TypeOK
  <2> QED
    BY Zenon, <1>4, <2>1, <2>2 DEF TrashRead
<1>5. CASE TrashNode(r)
  <2> DEFINE i == CHOOSE j \in DOMAIN req[r].list : req[r].list[j] = req[r].pick
  <2>1. i \in DOMAIN req[r].list /\ req[r].list \in Outlines /\ req[r].pick \in Nodes
    BY <1>3, <1>5 DEF TrashNode, At, Carries
  <2>2. outline' = RemoveAt(req[r].list, i)
    BY <1>5 DEF TrashNode
  <2> HIDE DEF i
  <2>3. outline' \in Outlines
    BY <2>1, <2>2, Shortened DEF Outlines
  <2>4. chapter' \in Books /\ counted' \in {"right", "behind", "skipped"}
    <3>1. chapter' = [chapter EXCEPT ![req[r].pick.chapter].row = "deleted"] \/ chapter' = chapter
      BY <1>5 DEF TrashNode
    <3>2. chapter' \in Books
      BY <1>1, <3>1, DropRow
    <3>3. counted' \in {"right", "behind", "skipped"}
      BY <1>5 DEF TrashNode, TypeOK
    <3> QED
      BY <3>2, <3>3
  <2>5. bin' \in [Keys -> {None} \cup Binned]
    <3>1. req[r].seen.text \in Texts /\ req[r].seen.title \in Titles
      BY <1>1, Doing DEF Rows
    <3>2. [node |-> req[r].pick, text |-> req[r].seen.text, title |-> req[r].seen.title] \in Binned
      BY <2>1, <3>1 DEF Binned
    <3> QED
      BY <1>1, <1>5, <3>2 DEF TrashNode
  <2>6. Asking'
    BY Zenon, <1>1, <1>2, <1>5, Replying DEF TrashNode
  <2> QED
    BY <1>5, <2>3, <2>4, <2>5, <2>6 DEF TrashNode, TypeOK
<1> QED
  BY <1>4, <1>5

LEMMA BinSteps ==
  ASSUME TypeOK, NEW r \in Requests, FindInBin(r) \/ Revive(r) \/ Replant(r) \/ Purge(r)
  PROVE  TypeOK'
<1>1. /\ Asking /\ chapter \in Books /\ outline \in Outlines /\ bin \in [Keys -> {None} \cup Binned]
      /\ counted \in {"right", "behind", "skipped"}
  BY DEF TypeOK
<1>2. BundlesStay
  BY Zenon, Unmoving DEF FindInBin, Revive, Replant, Purge, tables
<1>3. req[r].pc \in {"find", "revive", "replant", "purge"}
  BY Zenon DEF FindInBin, Revive, Replant, Purge, At
<1>4. /\ Course(req[r].kind, req[r].pc) /\ req[r] \in Queries /\ req[r].seen \in Rows /\ req[r].c \in Titles
      /\ req[r].list \in Outlines
  BY <1>1, <1>3, Doing DEF Carries
<1>5. req[r].kind \in {"untrash", "purge"} /\ req[r].pick \in Keys
  <2>1. PICK k, p : k = req[r].kind /\ p = req[r].pc
    OBVIOUS
  <2>2. k \in {"untrash", "purge"}
    <3>1. k \in {"none", "create", "open", "reorder", "read", "agent", "save", "delete", "mark", "rollback",
                 "put", "trash", "untrash", "purge", "bundle", "revert"}
      BY Zenon, <1>4, <2>1 DEF Queries
    <3>2. Course(k, p) /\ p \in {"find", "revive", "replant", "purge"}
      BY <1>3, <1>4, <2>1
    <3> QED
      BY <3>1, <3>2 DEF Course
  <2> QED
    BY <1>1, <2>1, <2>2, Doing DEF Carries
<1>6. ASSUME NEW x, Reply(r, x) PROVE Asking'
  BY Zenon, <1>1, <1>2, <1>6, Replying
<1>7. CASE FindInBin(r)
  <2>1. CASE bin[req[r].pick] = None
    <3>1. Asking'
      BY <1>6, <1>7, <2>1 DEF FindInBin
    <3> QED
      BY <1>7, <3>1, OnlyRequests DEF FindInBin, TypeOK
  <2>2. CASE bin[req[r].pick] # None
    <3>1. PICK b \in Binned : b = bin[req[r].pick]
      BY <1>1, <1>5, <2>2
    <3>2. PICK row \in Rows : row = Row(0, b.text, b.title)
      <4>1. b.text \in Texts /\ b.title \in Titles
        BY DEF Binned
      <4> QED
        BY <4>1 DEF Row, Rows
    <3>3. PICK o \in Outlines : o = <<b.node>>
      <4>1. b.node \in Nodes
        BY DEF Binned
      <4>2. PICK n \in Nodes : n = b.node
        BY <4>1
      <4>3. <<n>> \in Seq(Nodes)
        OBVIOUS
      <4> QED
        BY <4>2, <4>3 DEF Outlines
    <3> DEFINE q == [req[r] EXCEPT !.pc = "revive", !.seen = row, !.list = o]
    <3>4. req' = [req EXCEPT ![r] = q]
      <4>1. req' = [req EXCEPT ![r].pc = "revive", ![r].seen = row, ![r].list = o]
        BY <1>7, <2>2, <3>1, <3>2, <3>3 DEF FindInBin
      <4> QED
        BY <1>1, <4>1, Doing
    <3>5. Follows(q, req[r], "revive") /\ q.pick = req[r].pick /\ q.list = o
      <4>1. PICK x : x = req[r]
        OBVIOUS
      <4>2. x \in Queries /\ row \in Rows /\ o \in Outlines /\ "revive" \in Steps
        BY <1>4, <3>2, <3>3, <4>1 DEF Steps
      <4>3. LET y == [x EXCEPT !.pc = "revive", !.seen = row, !.list = o] IN
            Follows(y, x, "revive") /\ y.pick = x.pick /\ y.list = o
        BY ONLY Zenon, <4>2 DEF Follows, Queries
      <4> QED
        BY <4>1, <4>3
    <3> HIDE DEF q
    <3>6. Course(req[r].kind, "revive") /\ "revive" \in Steps
      BY <1>4, <1>7 DEF Course, FindInBin, At, Steps
    <3>7. Asking'
      BY <1>1, <1>2, <3>3, <3>4, <3>5, <3>6, Changed
    <3> QED
      BY <1>7, <3>7, OnlyRequests DEF FindInBin, TypeOK
  <2> QED
    BY <2>1, <2>2
<1>8. CASE Revive(r)
  <2> DEFINE p == IF req[r].c = None THEN 0
                  ELSE IF chapter[req[r].c].row # "none" /\ ~Taken(chapter, chapter[req[r].c].pos, req[r].c)
                    THEN chapter[req[r].c].pos
                  ELSE IF chapter[req[r].c].row # "none" \/ Live # {} THEN MaxPos(chapter) + 1 ELSE 0
             f == req[r].c # None /\ chapter[req[r].c].row = "none"
  <2>1. p \in Nat /\ f \in BOOLEAN
    <3>1. MaxPos(chapter) + 1 \in Nat
      BY <1>1, MaxPosIs
    <3>2. req[r].c # None => chapter[req[r].c].pos \in Nat
      BY <1>1, <1>4, BookType DEF Titles
    <3> QED
      BY <3>1, <3>2
  <2>2. req' = [req EXCEPT ![r].pc = "replant", ![r].seen.pos = p, ![r].list = outline \o @, ![r].full = f]
    BY Zenon, <1>8 DEF Revive
  <2> HIDE DEF p, f
  <2>3. PICK g \in BOOLEAN : g = f
    BY <2>1
  <2> DEFINE row == [req[r].seen EXCEPT !.pos = p]
             o == outline \o req[r].list
             q == [req[r] EXCEPT !.pc = "replant", !.seen = row, !.list = o, !.full = g]
  <2>4. row \in Rows
    BY <1>4, <2>1 DEF Rows
  <2>5. o \in Outlines
    BY <1>1, <1>4, ConcatProperties DEF Outlines
  <2>6. req' = [req EXCEPT ![r] = q]
    BY <1>1, <2>2, <2>3, Doing
  <2> HIDE DEF row, o
  <2>7. Follows(q, req[r], "replant") /\ q.pick = req[r].pick /\ q.list = o
    <3>1. PICK x : x = req[r]
      OBVIOUS
    <3>2. x \in Queries /\ row \in Rows /\ o \in Outlines /\ g \in BOOLEAN /\ "replant" \in Steps
      BY <1>4, <2>3, <2>4, <2>5, <3>1 DEF Steps
    <3>3. LET y == [x EXCEPT !.pc = "replant", !.seen = row, !.list = o, !.full = g] IN
          Follows(y, x, "replant") /\ y.pick = x.pick /\ y.list = o
      BY ONLY Zenon, <3>2 DEF Follows, Queries
    <3> QED
      BY <3>1, <3>3
  <2> HIDE DEF q
  <2>8. Course(req[r].kind, "replant") /\ "replant" \in Steps
    BY Zenon, <1>4, <1>8 DEF Course, Revive, At, Steps
  <2>9. Asking'
    BY <1>1, <1>2, <2>5, <2>6, <2>7, <2>8, Changed
  <2> QED
    BY Zenon, <1>8, <2>9, OnlyRequests DEF Revive, TypeOK
<1>9. CASE Replant(r)
  <2>1. \E x : Reply(r, x)
    BY Zenon, <1>9 DEF Replant, Conflict
  <2>2. Asking'
    BY <1>6, <2>1
  <2>3. outline' \in Outlines
    BY <1>1, <1>4, <1>9 DEF Replant
  <2>4. bin' \in [Keys -> {None} \cup Binned]
    BY <1>1, <1>9 DEF Replant
  <2>5. chapter' \in Books
    <3>1. \/ chapter' = chapter
          \/ chapter' = [chapter EXCEPT ![req[r].c] = req[r].seen] /\ ~Taken(chapter, req[r].seen.pos, req[r].c)
      BY <1>9 DEF Replant
    <3>2. ASSUME NEW row \in Rows, NEW c, ~Taken(chapter, row.pos, c)
          PROVE  [chapter EXCEPT ![c] = row] \in Books
      BY <1>1, <3>2, PutRow
    <3> QED
      BY <1>1, <1>4, <3>1, <3>2
  <2>6. counted' \in {"right", "behind", "skipped"}
    BY <1>1, <1>9 DEF Replant
  <2> QED
    BY <1>9, <2>2, <2>3, <2>4, <2>5, <2>6 DEF Replant, TypeOK
<1>10. CASE Purge(r)
  <2>1. \E x : Reply(r, x)
    BY <1>10 DEF Purge
  <2>2. Asking'
    BY <1>6, <2>1
  <2>3. bin' \in [Keys -> {None} \cup Binned]
    BY <1>1, <1>10 DEF Purge
  <2>4. chapter' \in Books
    <3>1. chapter' = chapter \/ chapter' = [chapter EXCEPT ![req[r].c] = NoRow]
      BY <1>10 DEF Purge
    <3>2. CASE chapter' = [chapter EXCEPT ![req[r].c] = NoRow]
      <4>1. chapter' \in [Chapters -> Rows]
        BY <1>1, <3>2, BookType, FreshQuery
      <4>2. \A c \in LiveIn(chapter') : c \in LiveIn(chapter) /\ chapter'[c].pos = chapter[c].pos
        <5>1. \A c \in Chapters : chapter'[c] = IF c = req[r].c THEN NoRow ELSE chapter[c]
          BY <1>1, <3>2, BookType
        <5> QED
          BY <5>1 DEF LiveIn, NoRow
      <4> QED
        BY <1>1, <4>1, <4>2, FewerRows
    <3> QED
      BY <1>1, <3>1, <3>2
  <2>5. counted' \in {"right", "behind", "skipped"}
    BY <1>1, <1>10 DEF Purge
  <2> QED
    BY <1>10, <2>2, <2>3, <2>4, <2>5 DEF Purge, TypeOK
<1> QED
  BY <1>7, <1>8, <1>9, <1>10

-----------------------------------------------------------------------------
(* The steps of the versions of the whole novel, the failures, the restart. *)

LEMMA NovelAsked ==
  ASSUME TypeOK, NEW r \in Requests, AskBundle(r) \/ AskRevert(r)
  PROVE  TypeOK'
<1>1. Asking /\ bundle \in [Keys -> {None} \cup Bundles]
  BY DEF TypeOK
<1>2. UNCHANGED <<tables, panel, cache, faults>> /\ BundlesStay
  BY Zenon, Unmoving DEF AskBundle, AskRevert, tables
<1>3. PICK f : f = Fresh
  OBVIOUS
<1>4. f \in Queries /\ f.list = << >> /\ "bchapters" \in Steps
  <2>1. Fresh.list = << >>
    BY DEF Fresh
  <2> QED
    BY <1>3, <2>1, FreshQuery DEF Proper, Steps
<1>5. CASE AskBundle(r)
  <2> DEFINE q == [f EXCEPT !.kind = "bundle", !.pc = "bchapters"]
  <2>1. q \in Queries /\ q.kind = "bundle" /\ q.pc = "bchapters" /\ q.list = << >>
    BY ONLY Zenon, <1>4 DEF Queries
  <2> HIDE DEF q
  <2>2. Proper(q)
    BY <2>1, FreshQuery DEF Proper, OnCourse, Course, Carries, Backed
  <2>3. Arrive(r, q)
    BY <1>3, <1>5 DEF AskBundle, q
  <2>4. Asking'
    BY <1>1, <1>2, <2>2, <2>3, Arriving
  <2> QED
    BY <1>2, <2>4, OnlyRequests DEF TypeOK
<1>6. CASE AskRevert(r)
  <2>1. PICK k \in Keys, full \in BOOLEAN :
          /\ bundle[k] # None
          /\ Arrive(r, [Fresh EXCEPT !.kind = "revert", !.pc = "bchapters", !.pick = k, !.full = full])
    BY Zenon, <1>6 DEF AskRevert
  <2> DEFINE q == [f EXCEPT !.kind = "revert", !.pc = "bchapters", !.pick = k, !.full = full]
  <2>2. q \in Queries /\ q.kind = "revert" /\ q.pc = "bchapters" /\ q.list = << >> /\ q.pick = k
    <3>1. k \in Picks /\ full \in BOOLEAN
      BY DEF Picks
    <3> QED
      BY ONLY Zenon, <1>4, <3>1 DEF Queries
  <2>3. Arrive(r, q)
    BY <1>3, <2>1
  <2> HIDE DEF q
  <2>4. Proper(q)
    BY <1>1, <2>1, <2>2, FreshQuery DEF Proper, OnCourse, Course, Carries, Backed
  <2>5. Asking'
    BY <1>1, <1>2, <2>3, <2>4, Arriving
  <2> QED
    BY <1>2, <2>5, OnlyRequests DEF TypeOK
<1> QED
  BY <1>5, <1>6

LEMMA OfTheNovel ==
  ASSUME Asking, NEW r \in Requests, req[r].pc \in {"bchapters", "boutline", "current", "revert"}
  PROVE  /\ req[r].kind \in {"bundle", "revert"} /\ Course(req[r].kind, req[r].pc) /\ req[r] \in Queries
         /\ req[r].list \in Outlines
<1>1. Carries(req[r]) /\ Course(req[r].kind, req[r].pc) /\ req[r] \in Queries
  BY Doing
<1>2. PICK k, p : k = req[r].kind /\ p = req[r].pc
  OBVIOUS
<1>3. k \in {"bundle", "revert"}
  <2>1. k \in {"none", "create", "open", "reorder", "read", "agent", "save", "delete", "mark", "rollback",
               "put", "trash", "untrash", "purge", "bundle", "revert"}
    BY Zenon, <1>1, <1>2 DEF Queries
  <2>2. Course(k, p) /\ p \in {"bchapters", "boutline", "current", "revert"}
    BY <1>1, <1>2
  <2> QED
    BY <2>1, <2>2 DEF Course
<1> QED
  BY <1>1, <1>2, <1>3 DEF Carries

LEMMA NovelReads ==
  ASSUME TypeOK, NEW r \in Requests, BundleChapters(r) \/ ReadCurrent(r)
  PROVE  TypeOK'
<1>1. Asking /\ chapter \in Books
  BY DEF TypeOK
<1>2. UNCHANGED <<tables, panel, cache, faults>> /\ BundlesStay
  BY Unmoving DEF BundleChapters, ReadCurrent, tables
<1>3. PICK pc \in {"boutline", "revert"} :
        /\ \/ req[r].pc = "bchapters" /\ pc = "boutline"
           \/ req[r].pc = "current" /\ pc = "revert"
        /\ req' = [req EXCEPT ![r].pc = pc,
                              ![r].book = [c \in Chapters |-> IF c \in Live THEN chapter[c] ELSE NoRow]]
  <2> DEFINE b == [c \in Chapters |-> IF c \in Live THEN chapter[c] ELSE NoRow]
  <2>1. \/ req[r].pc = "bchapters" /\ req' = [req EXCEPT ![r].pc = "boutline", ![r].book = b]
        \/ req[r].pc = "current" /\ req' = [req EXCEPT ![r].pc = "revert", ![r].book = b]
    BY DEF BundleChapters, ReadCurrent, At
  <2> HIDE DEF b
  <2>2. \E pc \in {"boutline", "revert"} :
           /\ \/ req[r].pc = "bchapters" /\ pc = "boutline"
              \/ req[r].pc = "current" /\ pc = "revert"
           /\ req' = [req EXCEPT ![r].pc = pc, ![r].book = b]
    BY <2>1
  <2> QED
    BY <2>2 DEF b
<1>4. req[r].kind \in {"bundle", "revert"} /\ Course(req[r].kind, req[r].pc) /\ req[r] \in Queries
      /\ req[r].list \in Outlines
  BY <1>1, <1>3, OfTheNovel
<1>5. Course(req[r].kind, pc) /\ pc \in Steps /\ pc \notin {"reorder", "trash"}
  BY <1>3, <1>4 DEF Course, Steps
<1>6. PICK b \in Books : b = [c \in Chapters |-> IF c \in Live THEN chapter[c] ELSE NoRow]
  BY <1>1, LiveRead
<1> DEFINE q == [req[r] EXCEPT !.pc = pc, !.book = b]
<1>7. req' = [req EXCEPT ![r] = q]
  <2>1. req' = [req EXCEPT ![r].pc = pc, ![r].book = b]
    BY <1>3, <1>6
  <2> QED
    BY <1>1, <2>1, Doing
<1>8. Follows(q, req[r], pc) /\ q.pick = req[r].pick /\ q.list = req[r].list
  <2>1. PICK x : x = req[r]
    OBVIOUS
  <2>2. x \in Queries /\ pc \in Steps /\ b \in Books
    BY <1>4, <1>5, <1>6, <2>1
  <2>3. LET y == [x EXCEPT !.pc = pc, !.book = b] IN
        Follows(y, x, pc) /\ y.pick = x.pick /\ y.list = x.list
    BY ONLY Zenon, <2>2 DEF Follows, Queries
  <2> QED
    BY <2>1, <2>3
<1> HIDE DEF q
<1>9. Asking'
  BY <1>1, <1>2, <1>4, <1>5, <1>7, <1>8, Changed
<1> QED
  BY <1>2, <1>9, OnlyRequests DEF TypeOK

LEMMA NovelWrites ==
  ASSUME TypeOK, NEW r \in Requests, BundleOutline(r) \/ CheckpointFails(r) \/ Restore(r)
  PROVE  TypeOK'
<1>1. /\ Asking /\ chapter \in Books /\ outline \in Outlines /\ bundle \in [Keys -> {None} \cup Bundles]
      /\ counted \in {"right", "behind", "skipped"}
  BY DEF TypeOK
<1>2. /\ req[r].pc \in {"bchapters", "boutline", "revert"}
      /\ req[r].kind \in {"bundle", "revert"} /\ Course(req[r].kind, req[r].pc) /\ req[r] \in Queries
      /\ req[r].list \in Outlines
  <2>1. req[r].pc \in {"bchapters", "boutline", "revert"}
    BY DEF BundleOutline, CheckpointFails, Restore, At
  <2> QED
    BY <1>1, <2>1, OfTheNovel
<1>3. ASSUME BundlesStay, Goto(r, "current"), req[r].kind = "revert" PROVE Asking'
  <2>1. Course(req[r].kind, "current") /\ "current" \in Steps /\ req[r].pc # "reorder"
    BY <1>2, <1>3 DEF Course, Steps
  <2> QED
    BY <1>1, <1>3, <2>1, Going
<1>4. CASE BundleOutline(r)
  <2> DEFINE x == [book |-> req[r].book, list |-> outline]
  <2>1. x \in Bundles /\ r \in Keys
    BY <1>1, Doing DEF Bundles, Keys
  <2>2. bundle' = [bundle EXCEPT ![r] = x]
    BY <1>4 DEF BundleOutline
  <2> HIDE DEF x
  <2>3. BundlesStay /\ bundle' \in [Keys -> {None} \cup Bundles]
    BY <1>1, <2>1, <2>2 DEF BundlesStay
  <2>4. Asking'
    <3>1. CASE req[r].kind = "bundle"
      BY Zenon, <1>1, <1>4, <2>3, <3>1, Replying DEF BundleOutline
    <3>2. CASE req[r].kind = "revert"
      BY <1>3, <1>4, <2>3, <3>2 DEF BundleOutline
    <3> QED
      BY <1>2, <3>1, <3>2
  <2> QED
    BY <1>4, <2>3, <2>4 DEF BundleOutline, TypeOK
<1>5. CASE CheckpointFails(r)
  <2>1. BundlesStay
    BY <1>5, Unmoving DEF CheckpointFails, tables
  <2>2. Asking'
    BY <1>3, <1>5, <2>1 DEF CheckpointFails
  <2> QED
    BY <1>5, <2>2, Failing, OnlyRequests DEF CheckpointFails
<1>6. CASE Restore(r)
  <2> DEFINE b == bundle[req[r].pick]
             s == Restored(b.book, req[r].book, req[r].full)
  <2>1. BundlesStay
    BY <1>6, Unmoving DEF Restore
  <2>2. \E x : Reply(r, x)
    BY Zenon, <1>6 DEF Restore, Conflict
  <2>3. Asking'
    BY Zenon, <1>1, <2>1, <2>2, Replying
  <2>4. b \in Bundles
    <3>1. req[r].kind = "revert"
      BY <1>2, <1>6 DEF Restore, At, Course
    <3> QED
      BY <1>1, <3>1, Doing DEF Backed
  <2>5. \/ s.ok /\ chapter' = s.book /\ outline' = b.list /\ counted' = "right"
        \/ UNCHANGED <<chapter, outline, counted>>
    BY <1>6 DEF Restore
  <2> HIDE DEF b
  <2>6. b.book \in Books /\ b.list \in Outlines
    BY <2>4 DEF Bundles
  <2>7. req[r].book \in Books /\ req[r].full \in BOOLEAN
    BY <1>1, Doing
  <2>8. s.ok => s.book \in Books
    BY <1>1, <2>6, <2>7, RestoredBook
  <2> HIDE DEF s
  <2>9. chapter' \in Books /\ outline' \in Outlines /\ counted' \in {"right", "behind", "skipped"}
    BY <1>1, <2>5, <2>6, <2>8
  <2> QED
    BY <1>6, <2>3, <2>9 DEF Restore, TypeOK
<1> QED
  BY <1>4, <1>5, <1>6

LEMMA FailureSteps ==
  ASSUME TypeOK, NEW r \in Requests, Fail(r) \/ UncacheFails(r)
  PROVE  TypeOK'
<1>1. Asking /\ faults' \in Nat
  BY Failing DEF TypeOK, Fail, UncacheFails
<1>2. BundlesStay
  BY Unmoving DEF Fail, UncacheFails, tables
<1>3. CASE Fail(r)
  <2>1. \E x : Reply(r, x)
    BY <1>3 DEF Fail
  <2>2. Asking'
    BY Zenon, <1>1, <1>2, <2>1, Replying
  <2>3. counted' \in {"right", "behind", "skipped"}
    BY <1>3 DEF Fail, TypeOK
  <2> QED
    BY <1>1, <1>3, <2>2, <2>3 DEF Fail, TypeOK
<1>4. CASE UncacheFails(r)
  <2>1. Course(req[r].kind, "count") /\ "count" \in Steps /\ req[r].pc # "reorder"
    BY <1>1, <1>4, Doing DEF UncacheFails, At, Course, Steps
  <2>2. Asking'
    BY <1>1, <1>2, <1>4, <2>1, Going DEF UncacheFails
  <2> QED
    BY <1>1, <1>4, <2>2, OnlyRequests DEF UncacheFails
<1> QED
  BY <1>3, <1>4

(* The cleanup keeps what is bound before it or after it.                  *)
LEMMA Cleanup ==
  ASSUME chapter \in Books, outline \in Outlines, Restart
  PROVE  /\ chapter' \in Books /\ outline' \in Outlines
         /\ \A c \in Live : Referenced(outline, c) \/ Referenced(outline', c) => c \in LiveIn(chapter')
<1> DEFINE o == IF Live = {} THEN outline ELSE Repaired(outline)
           b == [c \in Chapters |-> IF c \in Orphans(o) THEN [chapter[c] EXCEPT !.row = "deleted"]
                                    ELSE chapter[c]]
<1>1. outline' = o /\ chapter' = Resynced(o, b)
  BY DEF Restart
<1>2. o \in Outlines /\ \A c \in Live : Referenced(outline, c) => Referenced(o, c)
  BY RepairedOutline
<1> HIDE DEF o
<1>3. b \in Books /\ LiveIn(b) = Live \ Orphans(o)
  <2>1. \A c \in Chapters : /\ b[c] \in Rows /\ b[c].pos = chapter[c].pos
                            /\ b[c].row = IF c \in Orphans(o) THEN "deleted" ELSE chapter[c].row
    BY BookType DEF Rows
  <2>2. b \in [Chapters -> Rows]
    <3>1. b = [c \in Chapters |-> b[c]]
      OBVIOUS
    <3> HIDE DEF b
    <3> QED
      BY <2>1, <3>1
  <2> HIDE DEF b
  <2>3. LiveIn(b) = Live \ Orphans(o)
    BY <2>1 DEF LiveIn, Live
  <2>4. \A c \in LiveIn(b) : c \in LiveIn(chapter) /\ b[c].pos = chapter[c].pos
    BY <2>1, <2>3 DEF LiveIn, Live
  <2> QED
    BY <2>2, <2>3, <2>4, FewerRows
<1> HIDE DEF b
<1>4. Resynced(o, b) \in Books /\ LiveIn(Resynced(o, b)) = LiveIn(b)
  BY <1>2, <1>3, ResyncedBook
<1>5. \A c \in Live : Referenced(o, c) => c \notin Orphans(o)
  BY DEF Orphans
<1> QED
  BY <1>1, <1>2, <1>3, <1>4, <1>5

LEMMA RestartStep ==
  ASSUME TypeOK, Restart
  PROVE  TypeOK'
<1>1. Asking /\ chapter \in Books /\ outline \in Outlines
  BY DEF TypeOK
<1>2. chapter' \in Books /\ outline' \in Outlines
  BY <1>1, Cleanup
<1>3. BundlesStay
  BY Unmoving DEF Restart
<1>4. \A r \in Requests : req'[r] = Answered(req[r], "lost") \/ req'[r] = req[r]
  BY DEF Restart
<1>5. \A r \in Requests : Proper(req'[r]) /\ (req'[r].kind = "revert" => bundle'[req'[r].pick] \in Bundles)
  <2> SUFFICES ASSUME NEW r \in Requests
               PROVE  Proper(req'[r]) /\ (req'[r].kind = "revert" => bundle'[req'[r].pick] \in Bundles)
    OBVIOUS
  <2>1. Proper(req[r]) /\ Proper(Answered(req[r], "lost"))
    BY Zenon, <1>1, AnsweredQuery DEF Asking
  <2>2. Proper(req'[r])
    BY <1>4, <2>1
  <2> QED
    BY <1>3, <2>2, StillBacked
<1>6. req' \in [Requests -> Queries]
  <2>1. req' = [r \in Requests |-> req'[r]]
    BY DEF Restart
  <2> QED
    BY <1>5, <2>1 DEF Proper
<1>7. Asking'
  BY <1>5, <1>6 DEF Asking, Proper, Backed
<1>8. faults' \in Nat /\ counted' \in {"right", "behind", "skipped"}
  BY Failing DEF Restart, TypeOK
<1> QED
  BY <1>2, <1>7, <1>8 DEF Restart, TypeOK

LEMMA TypeSteps ==
  ASSUME TypeOK, [Next]_vars
  PROVE  TypeOK'
<1>1. CASE UNCHANGED vars
  BY <1>1 DEF vars, TypeOK, Asking, Proper, Backed
<1>2. CASE \E r \in Requests : Step(r)
  <2>1. PICK r \in Requests : ChapterStep(r) \/ HistoryStep(r) \/ OutlineStep(r) \/ NovelStep(r)
    BY <1>2 DEF Step
  <2>2. CASE ChapterStep(r)
    BY <2>2, CreateAsked, CreationSteps, ReorderSteps, ReadSteps, SnapshotSteps, WriteSteps DEF ChapterStep
  <2>3. CASE OutlineStep(r)
    BY <2>3, BindingSteps, PanelSteps, SyncSteps, BinAsked, TrashSteps, BinSteps DEF OutlineStep
  <2>4. CASE NovelStep(r)
    BY <2>4, NovelAsked, NovelReads, NovelWrites DEF NovelStep
  <2> QED
    BY <2>1, <2>2, <2>3, <2>4, HistorySteps
<1>3. CASE \E r \in Requests : Fail(r) \/ UncacheFails(r)
  BY <1>3, FailureSteps
<1>4. CASE SweepExpiredVersions \/ CacheExpires \/ LoadOutline
  BY <1>4, SweepingSteps
<1>5. CASE Restart
  BY <1>5, RestartStep
<1> QED
  BY <1>1, <1>2, <1>3, <1>4, <1>5 DEF Next, Quiet

(* Whatever the requests do to each other, the tables, the panel's copy    *)
(* and what the requests carry keep their types, no two live chapters have *)
(* the same position, a version that is gone back to is there, and a       *)
(* request is at a query of its own kind.                                  *)
THEOREM TypeCorrect == Spec => []TypeOK
<1>1. TypeOK /\ [Next]_vars => TypeOK'
  BY TypeSteps
<1> QED
  BY <1>1, TypeInit, PTL DEF Spec

(* The cleanup at startup deletes no chapter that a node bound before it   *)
(* or binds after it.                                                      *)
THEOREM BoundChaptersSurvive == Spec => CleanupSparesBound
<1>1. TypeOK /\ [Next]_vars =>
        [Restart => \A c \in Live :
           Referenced(outline, c) \/ Referenced(outline', c) => c \in LiveIn(chapter')]_vars
  BY Cleanup DEF TypeOK
<1>2. Spec => [][Restart => \A c \in Live :
                   Referenced(outline, c) \/ Referenced(outline', c) => c \in LiveIn(chapter')]_vars
  BY <1>1, TypeCorrect, PTL DEF Spec
<1> QED
  BY <1>2 DEF CleanupSparesBound

-----------------------------------------------------------------------------
(* What the requests beside it see of a step, and what most steps leave    *)
(* alone: the ends of the writers, their saves, the versions a rollback    *)
(* leaves.                                                                 *)
Beside(r) ==
  \A x \in Requests \ {r} :
    /\ req'[x].pc = req[x].pc /\ req'[x].kind = req[x].kind /\ req'[x].c = req[x].c
    /\ req'[x].seen = req[x].seen
    /\ req'[x].alone => req[x].alone /\ req[r].pc \notin {"idle", "done"}

VersionsKept == \A v \in version : v.kind # "auto" => v \in version'

Ordinary(r) ==
  /\ req[r].pc \notin {"uncache", "count"} /\ req'[r].pc # "save"
  /\ counted' = "behind" => counted = "behind"
  /\ VersionsKept

LEMMA ArrivingBeside ==
  ASSUME Asking, NEW r \in Requests, NEW q, Arrive(r, q)
  PROVE  Beside(r) /\ req'[r].pc = q.pc
<1>1. req \in [Requests -> Queries]
  BY DEF Asking
<1>2. ASSUME NEW x \in Requests \ {r}
      PROVE  /\ req'[x].pc = req[x].pc /\ req'[x].kind = req[x].kind /\ req'[x].c = req[x].c
             /\ req'[x].seen = req[x].seen /\ ~req'[x].alone
  <2>1. PICK f \in BOOLEAN : f = FALSE
    OBVIOUS
  <2>2. PICK y \in Queries : y = req[x] /\ req'[x] = [y EXCEPT !.alone = f]
    BY <1>1, <2>1 DEF Arrive
  <2>3. LET z == [y EXCEPT !.alone = f] IN
        z.pc = y.pc /\ z.kind = y.kind /\ z.c = y.c /\ z.seen = y.seen /\ z.alone = f
    BY ONLY Zenon, <2>2 DEF Queries
  <2> QED
    BY <2>1, <2>2, <2>3
<1>3. req'[r].pc = q.pc
  <2>1. PICK f \in BOOLEAN : f = (InFlight = {})
    OBVIOUS
  <2>2. req'[r] = [q EXCEPT !.alone = f]
    BY <2>1 DEF Arrive
  <2> QED
    BY <2>2
<1> QED
  BY <1>2, <1>3 DEF Beside

LEMMA GoingBeside ==
  ASSUME Asking, NEW r \in Requests, req[r].pc \notin {"idle", "done"},
         \A x \in Requests \ {r} : req'[x] = req[x]
  PROVE  Beside(r)
BY DEF Beside

LEMMA RepliedIs ==
  ASSUME Asking, NEW r \in Requests, NEW x, Reply(r, x)
  PROVE  req'[r].pc = "done" /\ \A y \in Requests \ {r} : req'[y] = req[y]
<1>1. req' = [req EXCEPT ![r] = Answered(req[r], x)] /\ req \in [Requests -> Queries]
  BY DEF Reply, Asking
<1>2. Answered(req[r], x).pc = "done"
  BY Zenon, AnsweredQuery
<1> QED
  BY <1>1, <1>2

LEMMA GoneTo ==
  ASSUME Asking, NEW r \in Requests, NEW pc, Goto(r, pc)
  PROVE  /\ req'[r].pc = pc /\ req'[r].kind = req[r].kind /\ req'[r].c = req[r].c /\ req'[r].seen = req[r].seen
         /\ \A y \in Requests \ {r} : req'[y] = req[y]
BY Zenon DEF Asking, Goto, Queries

(* The lists a request to reorder may bring.                               *)
LEMMA EverySequence ==
  ASSUME NEW ids \in SetToSeqs(Live)
  PROVE  Lists(ids, Live)
<1> DEFINE n == Cardinality(Live)
<1>1. Live \in SUBSET Chapters
  BY DEF Live
<1>2. IsFiniteSet(Live) /\ n \in Nat
  BY <1>1, ChaptersAssumption, FS_Subset, FS_CardinalityType
<1>3. ids \in [1..n -> Live] /\ \A i, j \in 1..n : ids[i] = ids[j] => i = j
  BY DEF SetToSeqs
<1>4. Cardinality(1..n) = n /\ IsFiniteSet(1..n)
  BY <1>2, FS_Interval
<1>5. ids \in Injection(1..n, Live)
  BY <1>3 DEF Injection, IsInjective
<1> HIDE DEF n
<1>6. ids \in Surjection(1..n, Live)
  <2>1. Cardinality(Live) = n
    BY DEF n
  <2> QED
    BY <1>2, <1>4, <1>5, <2>1, FS_Injection
<1>7. ids \in Seq(Live)
  BY <1>2, <1>3, ListType
<1>8. Range(ids) = Live
  BY <1>3, <1>6 DEF Surjection, Range
<1>9. IsInjective(ids)
  BY <1>3 DEF IsInjective
<1> QED
  BY <1>7, <1>8, <1>9 DEF Lists

LEMMA Asks ==
  ASSUME NEW r \in Requests,
         \/ AskCreate(r) \/ AskOpen(r) \/ AskReorder(r) \/ AskRead(r) \/ AskSave(r) \/ AskRollback(r)
         \/ AskPut(r) \/ AskTrash(r) \/ AskBin(r) \/ AskBundle(r) \/ AskRevert(r)
  PROVE  /\ req[r].pc = "idle" /\ UNCHANGED <<tables, cache, faults>>
         /\ \E q : Arrive(r, q) /\ q.pc \in {"max", "reorder", "cache", "load", "upsert", "tread", "find",
                                            "purge", "bchapters"}
              /\ q.reply = "none" /\ (q.pc = "reorder" => Lists(q.list, Live))
<1> DEFINE Ways == {"max", "reorder", "cache", "load", "upsert", "tread", "find", "purge", "bchapters"}
           Proposed(q) == /\ q.pc \in Ways /\ q.reply = "none"
                          /\ q.pc = "reorder" => Lists(q.list, Live)
           Came == \E q : Arrive(r, q) /\ Proposed(q)
<1>1. ASSUME NEW q, Arrive(r, q), Proposed(q) PROVE Came
  BY <1>1
<1>2. CASE AskCreate(r)
  <2>1. PICK c \in NewIds, t \in {Empty, r} : \E n \in {c} \cup Planned(outline) :
          Arrive(r, [Fresh EXCEPT !.kind = "create", !.pc = "max", !.c = c, !.seen = Row(0, t, n)])
    BY Zenon, <1>2 DEF AskCreate
  <2>2. PICK n \in {c} \cup Planned(outline) :
          Arrive(r, [Fresh EXCEPT !.kind = "create", !.pc = "max", !.c = c, !.seen = Row(0, t, n)])
    BY Zenon, <2>1
  <2> DEFINE q == [Fresh EXCEPT !.kind = "create", !.pc = "max", !.c = c, !.seen = Row(0, t, n)]
  <2>3. Proposed(q)
    BY DEF Fresh
  <2> HIDE DEF Ways, Proposed
  <2>4. Came
    <3> HIDE DEF q, Came
    <3> QED
      BY <1>1, <2>2, <2>3 DEF q
  <2> QED
    BY Zenon, <1>2, <2>4 DEF AskCreate, At, Ways, Proposed
<1>3. CASE AskOpen(r)
  <2>1. PICK i \in DOMAIN panel, c \in NewIds :
          Arrive(r, [Fresh EXCEPT !.kind = "open", !.pc = "max", !.c = c,
               !.seen = Row(Cardinality({j \in 1..(i - 1) : panel[j].chapter # None}), Empty,
                            panel[i].title)])
    BY Zenon, <1>3 DEF AskOpen
  <2> DEFINE q == [Fresh EXCEPT !.kind = "open", !.pc = "max", !.c = c,
               !.seen = Row(Cardinality({j \in 1..(i - 1) : panel[j].chapter # None}), Empty,
                            panel[i].title)]
  <2>2. Proposed(q)
    BY DEF Fresh
  <2> HIDE DEF Ways, Proposed
  <2>3. Came
    <3> HIDE DEF q, Came
    <3> QED
      BY <1>1, <2>1, <2>2 DEF q
  <2> QED
    BY Zenon, <1>3, <2>3 DEF AskOpen, At, Ways, Proposed
<1>4. CASE AskReorder(r)
  <2>1. PICK ids \in SetToSeqs(Live) :
          Arrive(r, [Fresh EXCEPT !.kind = "reorder", !.pc = "reorder", !.list = ids])
    BY Zenon, <1>4 DEF AskReorder
  <2> DEFINE q == [Fresh EXCEPT !.kind = "reorder", !.pc = "reorder", !.list = ids]
  <2>2. Proposed(q)
    <3>1. Lists(ids, Live)
      BY EverySequence
    <3> QED
      BY <3>1 DEF Fresh
  <2> HIDE DEF Ways, Proposed
  <2>3. Came
    <3> HIDE DEF q, Came
    <3> QED
      BY <1>1, <2>1, <2>2 DEF q
  <2> QED
    BY Zenon, <1>4, <2>3 DEF AskReorder, At, Ways, Proposed
<1>5. CASE AskRead(r)
  <2>1. PICK c \in Chapters : \E k \in {"read", "agent"} :
          Arrive(r, [Fresh EXCEPT !.kind = k, !.pc = "cache", !.c = c])
    BY Zenon, <1>5 DEF AskRead
  <2>2. PICK k \in {"read", "agent"} :
          Arrive(r, [Fresh EXCEPT !.kind = k, !.pc = "cache", !.c = c])
    BY <2>1
  <2> DEFINE q == [Fresh EXCEPT !.kind = k, !.pc = "cache", !.c = c]
  <2>3. Proposed(q)
    BY DEF Fresh
  <2> HIDE DEF Ways, Proposed
  <2>4. Came
    <3> HIDE DEF q, Came
    <3> QED
      BY <1>1, <2>2, <2>3 DEF q
  <2> QED
    BY Zenon, <1>5, <2>4 DEF AskRead, At, Ways, Proposed
<1>6. CASE AskSave(r)
  <2>1. PICK c \in Chapters, k \in {"save", "delete", "mark"} :
          Arrive(r, [Fresh EXCEPT !.kind = k, !.pc = "load", !.c = c])
    BY Zenon, <1>6 DEF AskSave
  <2> DEFINE q == [Fresh EXCEPT !.kind = k, !.pc = "load", !.c = c]
  <2>2. Proposed(q)
    BY DEF Fresh
  <2> HIDE DEF Ways, Proposed
  <2>3. Came
    <3> HIDE DEF q, Came
    <3> QED
      BY <1>1, <2>1, <2>2 DEF q
  <2> QED
    BY Zenon, <1>6, <2>3 DEF AskSave, At, Ways, Proposed
<1>7. CASE AskRollback(r)
  <2>1. PICK v \in version :
          Arrive(r, [Fresh EXCEPT !.kind = "rollback", !.pc = "load", !.c = v.chapter, !.pick = v])
    BY Zenon, <1>7 DEF AskRollback
  <2> DEFINE q == [Fresh EXCEPT !.kind = "rollback", !.pc = "load", !.c = v.chapter, !.pick = v]
  <2>2. Proposed(q)
    BY DEF Fresh
  <2> HIDE DEF Ways, Proposed
  <2>3. Came
    <3> HIDE DEF q, Came
    <3> QED
      BY <1>1, <2>1, <2>2 DEF q
  <2> QED
    BY Zenon, <1>7, <2>3 DEF AskRollback, At, Ways, Proposed
<1>8. CASE AskPut(r)
  <2>1. PICK o \in Edits(panel) :
          Arrive(r, [Fresh EXCEPT !.kind = "put", !.pc = "upsert", !.list = o])
    BY Zenon, <1>8 DEF AskPut
  <2> DEFINE q == [Fresh EXCEPT !.kind = "put", !.pc = "upsert", !.list = o]
  <2>2. Proposed(q)
    BY DEF Fresh
  <2> HIDE DEF Ways, Proposed
  <2>3. Came
    <3> HIDE DEF q, Came
    <3> QED
      BY <1>1, <2>1, <2>2 DEF q
  <2> QED
    BY Zenon, <1>8, <2>3 DEF AskPut, At, Ways, Proposed
<1>9. CASE AskTrash(r)
  <2>1. PICK n \in {panel[i].title : i \in DOMAIN panel} :
          Arrive(r, [Fresh EXCEPT !.kind = "trash", !.pc = "tread", !.pick = Node(n, None)])
    BY Zenon, <1>9 DEF AskTrash
  <2> DEFINE q == [Fresh EXCEPT !.kind = "trash", !.pc = "tread", !.pick = Node(n, None)]
  <2>2. Proposed(q)
    BY DEF Fresh
  <2> HIDE DEF Ways, Proposed
  <2>3. Came
    <3> HIDE DEF q, Came
    <3> QED
      BY <1>1, <2>1, <2>2 DEF q
  <2> QED
    BY Zenon, <1>9, <2>3 DEF AskTrash, At, Ways, Proposed
<1>10. CASE AskBin(r)
  <2>1. PICK k \in Keys, kind \in {"untrash", "purge"} :
          Arrive(r, [Fresh EXCEPT !.kind = kind, !.c = bin[k].node.chapter, !.pick = k,
               !.pc = IF kind = "untrash" THEN "find" ELSE "purge"])
    BY Zenon, <1>10 DEF AskBin
  <2> DEFINE q == [Fresh EXCEPT !.kind = kind, !.c = bin[k].node.chapter, !.pick = k,
               !.pc = IF kind = "untrash" THEN "find" ELSE "purge"]
  <2>2. Proposed(q)
    BY DEF Fresh
  <2> HIDE DEF Ways, Proposed
  <2>3. Came
    <3> HIDE DEF q, Came
    <3> QED
      BY <1>1, <2>1, <2>2 DEF q
  <2> QED
    BY Zenon, <1>10, <2>3 DEF AskBin, At, Ways, Proposed
<1>11. CASE AskBundle(r)
  <2>1. Arrive(r, [Fresh EXCEPT !.kind = "bundle", !.pc = "bchapters"])
    BY <1>11 DEF AskBundle
  <2> DEFINE q == [Fresh EXCEPT !.kind = "bundle", !.pc = "bchapters"]
  <2>2. Proposed(q)
    BY DEF Fresh
  <2> HIDE DEF Ways, Proposed
  <2>3. Came
    <3> HIDE DEF q, Came
    <3> QED
      BY <1>1, <2>1, <2>2 DEF q
  <2> QED
    BY Zenon, <1>11, <2>3 DEF AskBundle, Arrive, At, Ways, Proposed
<1>12. CASE AskRevert(r)
  <2>1. PICK k \in Keys, full \in BOOLEAN :
          Arrive(r, [Fresh EXCEPT !.kind = "revert", !.pc = "bchapters", !.pick = k, !.full = full])
    BY Zenon, <1>12 DEF AskRevert
  <2> DEFINE q == [Fresh EXCEPT !.kind = "revert", !.pc = "bchapters", !.pick = k, !.full = full]
  <2>2. Proposed(q)
    BY DEF Fresh
  <2> HIDE DEF Ways, Proposed
  <2>3. Came
    <3> HIDE DEF q, Came
    <3> QED
      BY <1>1, <2>1, <2>2 DEF q
  <2> QED
    BY Zenon, <1>12, <2>3 DEF AskRevert, At, Ways, Proposed
<1> QED
  BY <1>2, <1>3, <1>4, <1>5, <1>6, <1>7, <1>8, <1>9, <1>10, <1>11, <1>12

LEMMA OrdinaryAsks ==
  ASSUME Asking, NEW r \in Requests,
         \/ AskCreate(r) \/ AskOpen(r) \/ AskReorder(r) \/ AskRead(r) \/ AskSave(r) \/ AskRollback(r)
         \/ AskPut(r) \/ AskTrash(r) \/ AskBin(r) \/ AskBundle(r) \/ AskRevert(r)
  PROVE  Ordinary(r) /\ Beside(r)
<1>1. /\ req[r].pc = "idle" /\ UNCHANGED <<version, counted>>
      /\ \E q : Arrive(r, q) /\ q.pc # "save"
  BY Asks DEF tables
<1>2. Beside(r) /\ req'[r].pc # "save"
  BY <1>1, ArrivingBeside
<1> QED
  BY <1>1, <1>2 DEF Ordinary, VersionsKept

LEMMA OrdinaryGoings ==
  ASSUME Asking, NEW r \in Requests, req[r].pc \notin {"idle", "done", "uncache", "count"},
         counted' = "behind" => counted = "behind", VersionsKept,
         \/ \E pc : Goto(r, pc) /\ pc # "save"
         \/ \E x : Reply(r, x)
         \/ req'[r].pc # "save" /\ \A x \in Requests \ {r} : req'[x] = req[x]
  PROVE  Ordinary(r) /\ Beside(r)
<1>1. req'[r].pc # "save" /\ \A x \in Requests \ {r} : req'[x] = req[x]
  BY GoneTo, RepliedIs
<1> QED
  BY <1>1, GoingBeside DEF Ordinary

LEMMA OrdinaryChapters ==
  ASSUME Asking, NEW r \in Requests,
         \/ GetMaxPosition(r) \/ CreateAtEnd(r) \/ SeeShifted(r) \/ CreateAtPosition(r) \/ Reorder(r)
         \/ AskCache(r) \/ Fill(r) \/ KeepVersion(r) \/ AgentLoads(r) \/ AgentKeeps(r)
  PROVE  Ordinary(r) /\ Beside(r)
<1>1. req[r] \in Queries /\ req \in [Requests -> Queries]
  BY Doing
<1>2. CASE GetMaxPosition(r)
  <2>1. req'[r].pc # "save" /\ \A x \in Requests \ {r} : req'[x] = req[x]
    BY Zenon, <1>1, <1>2 DEF GetMaxPosition, Queries
  <2> QED
    BY <1>2, <2>1, OrdinaryGoings DEF GetMaxPosition, At, tables, VersionsKept
<1>3. CASE CreateAtEnd(r)
  <2>1. (\E x : Reply(r, x)) \/ Goto(r, "bindread")
    BY Zenon, <1>3 DEF CreateAtEnd, Conflict
  <2> QED
    BY <1>3, <2>1, OrdinaryGoings DEF CreateAtEnd, At, VersionsKept
<1>4. CASE SeeShifted(r)
  <2> DEFINE b == [c \in Chapters |-> IF c \in Live /\ chapter[c].pos >= req[r].pos THEN chapter[c] ELSE NoRow]
  <2>1. req' = [req EXCEPT ![r].pc = "insertat", ![r].book = b]
    BY <1>4 DEF SeeShifted
  <2> HIDE DEF b
  <2>2. req'[r].pc # "save" /\ \A x \in Requests \ {r} : req'[x] = req[x]
    BY Zenon, <1>1, <2>1 DEF Queries
  <2> QED
    BY <1>4, <2>2, OrdinaryGoings DEF SeeShifted, At, tables, VersionsKept
<1>5. CASE CreateAtPosition(r)
  <2>1. \/ \E x : Reply(r, x)
        \/ req' = [req EXCEPT ![r].pc = "answered", ![r].book = NoBook]
        \/ req' = [req EXCEPT ![r].pc = "shift", ![r].tried = TRUE]
    BY Zenon, <1>5 DEF CreateAtPosition, Conflict
  <2>2. (\E x : Reply(r, x)) \/ (req'[r].pc # "save" /\ \A x \in Requests \ {r} : req'[x] = req[x])
    BY ZenonT(60), <1>1, <2>1 DEF Queries
  <2> QED
    BY <1>5, <2>2, OrdinaryGoings DEF CreateAtPosition, At, VersionsKept
<1>6. CASE Reorder(r)
  <2>1. \E x : Reply(r, x)
    BY Zenon, <1>6 DEF Reorder, Conflict
  <2> QED
    BY <1>6, <2>1, OrdinaryGoings DEF Reorder, At, VersionsKept
<1>7. CASE AskCache(r)
  <2>1. \/ \E x : Reply(r, x)
        \/ Goto(r, "aload")
        \/ req' = [req EXCEPT ![r].pc = "fill", ![r].seen = chapter[req[r].c]]
    BY <1>7 DEF AskCache, Known
  <2>2. \/ \E x : Reply(r, x)
        \/ Goto(r, "aload")
        \/ req'[r].pc # "save" /\ \A x \in Requests \ {r} : req'[x] = req[x]
    BY Zenon, <1>1, <2>1 DEF Queries
  <2> QED
    BY <1>7, <2>2, OrdinaryGoings DEF AskCache, At, tables, VersionsKept
<1>8. CASE Fill(r)
  <2>1. (\E x : Reply(r, x)) \/ Goto(r, "aload")
    BY <1>8 DEF Fill, Known
  <2> QED
    BY <1>8, <2>1, OrdinaryGoings DEF Fill, At, tables, VersionsKept
<1>9. CASE KeepVersion(r)
  BY <1>9, OrdinaryGoings DEF KeepVersion, At, AddVersion, VersionsKept
<1>10. CASE AgentLoads(r)
  <2> DEFINE pc == IF req[r].c \in Live /\ chapter[req[r].c].text # Empty THEN "akeep" ELSE "load"
  <2>1. req' = [req EXCEPT ![r].seen = chapter[req[r].c], ![r].pc = pc] /\ pc # "save"
    BY <1>10 DEF AgentLoads
  <2> HIDE DEF pc
  <2>2. req'[r].pc # "save" /\ \A x \in Requests \ {r} : req'[x] = req[x]
    BY Zenon, <1>1, <2>1 DEF Queries
  <2> QED
    BY <1>10, <2>2, OrdinaryGoings DEF AgentLoads, At, tables, VersionsKept
<1>11. CASE AgentKeeps(r)
  BY <1>11, OrdinaryGoings DEF AgentKeeps, At, AddVersion, VersionsKept
<1> QED
  BY <1>2, <1>3, <1>4, <1>5, <1>6, <1>7, <1>8, <1>9, <1>10, <1>11

LEMMA OrdinaryOutlines ==
  ASSUME Asking, NEW r \in Requests,
         \/ BindRead(r) \/ BindChapterToOutline(r) \/ HandleOpenBody(r) \/ UpdateOutline(r) \/ SyncRead(r)
         \/ SyncBindings(r) \/ ResyncPositions(r) \/ TrashRead(r) \/ TrashNode(r) \/ FindInBin(r)
         \/ Revive(r) \/ Replant(r) \/ Purge(r)
  PROVE  Ordinary(r) /\ Beside(r)
<1>1. req[r] \in Queries /\ req \in [Requests -> Queries]
  BY Doing
<1>2. CASE BindRead(r)
  <2>1. req'[r].pc # "save" /\ \A x \in Requests \ {r} : req'[x] = req[x]
    BY Zenon, <1>1, <1>2 DEF BindRead, Queries
  <2> QED
    BY <1>2, <2>1, OrdinaryGoings DEF BindRead, At, tables, VersionsKept
<1>3. CASE BindChapterToOutline(r)
  BY <1>3, OrdinaryGoings DEF BindChapterToOutline, At, VersionsKept
<1>4. CASE HandleOpenBody(r)
  <2>1. (\E x : Reply(r, x)) \/ req' = [req EXCEPT ![r].pc = "upsert", ![r].list = panel']
    BY <1>4 DEF HandleOpenBody
  <2>2. (\E x : Reply(r, x)) \/ (req'[r].pc # "save" /\ \A x \in Requests \ {r} : req'[x] = req[x])
    BY Zenon, <1>1, <2>1 DEF Queries
  <2> QED
    BY <1>4, <2>2, OrdinaryGoings DEF HandleOpenBody, At, tables, VersionsKept
<1>5. CASE UpdateOutline(r)
  BY <1>5, OrdinaryGoings DEF UpdateOutline, At, VersionsKept
<1>6. CASE SyncRead(r)
  <2> DEFINE b == [c \in Chapters |-> IF c \in Live THEN chapter[c] ELSE NoRow]
  <2>1. req' = [req EXCEPT ![r].pc = "sync", ![r].list = outline, ![r].book = b]
    BY <1>6 DEF SyncRead
  <2> HIDE DEF b
  <2>2. req'[r].pc # "save" /\ \A x \in Requests \ {r} : req'[x] = req[x]
    BY Zenon, <1>1, <2>1 DEF Queries
  <2> QED
    BY <1>6, <2>2, OrdinaryGoings DEF SyncRead, At, tables, VersionsKept
<1>7. CASE SyncBindings(r)
  <2> DEFINE o == Sanitized(req[r].list, req[r].book)
  <2>1. req' = [req EXCEPT ![r].pc = "order", ![r].list = o]
    BY <1>7 DEF SyncBindings
  <2> HIDE DEF o
  <2>2. req'[r].pc # "save" /\ \A x \in Requests \ {r} : req'[x] = req[x]
    BY Zenon, <1>1, <2>1 DEF Queries
  <2> QED
    BY <1>7, <2>2, OrdinaryGoings DEF SyncBindings, At, VersionsKept
<1>8. CASE ResyncPositions(r)
  BY <1>8, OrdinaryGoings DEF ResyncPositions, At, VersionsKept
<1>9. CASE TrashRead(r)
  <2>1. \/ \E x : Reply(r, x)
        \/ \E n, row : req' = [req EXCEPT ![r].pc = "trash", ![r].list = outline, ![r].pick = n, ![r].seen = row]
    BY Zenon, <1>9 DEF TrashRead
  <2>2. (\E x : Reply(r, x)) \/ (req'[r].pc # "save" /\ \A x \in Requests \ {r} : req'[x] = req[x])
    <3>1. CASE \E n, row : req' = [req EXCEPT ![r].pc = "trash", ![r].list = outline, ![r].pick = n,
                                              ![r].seen = row]
      BY ZenonT(60), <1>1, <3>1 DEF Queries
    <3> QED
      BY Zenon, <2>1, <3>1
  <2> QED
    BY Zenon, <1>9, <2>2, OrdinaryGoings DEF TrashRead, At, tables, VersionsKept
<1>10. CASE TrashNode(r)
  BY <1>10, OrdinaryGoings DEF TrashNode, At, VersionsKept
<1>11. CASE FindInBin(r)
  <2>1. \/ \E x : Reply(r, x)
        \/ \E row, o : req' = [req EXCEPT ![r].pc = "revive", ![r].seen = row, ![r].list = o]
    BY Zenon, <1>11 DEF FindInBin
  <2>2. (\E x : Reply(r, x)) \/ (req'[r].pc # "save" /\ \A x \in Requests \ {r} : req'[x] = req[x])
    <3>1. CASE \E row, o : req' = [req EXCEPT ![r].pc = "revive", ![r].seen = row, ![r].list = o]
      BY ZenonT(60), <1>1, <3>1 DEF Queries
    <3> QED
      BY Zenon, <2>1, <3>1
  <2> QED
    BY <1>11, <2>2, OrdinaryGoings DEF FindInBin, At, tables, VersionsKept
<1>12. CASE Revive(r)
  <2>1. PICK p, f : req' = [req EXCEPT ![r].pc = "replant", ![r].seen.pos = p, ![r].list = outline \o @,
                                       ![r].full = f]
    BY Zenon, <1>12 DEF Revive
  <2>2. req'[r].pc # "save" /\ \A x \in Requests \ {r} : req'[x] = req[x]
    BY Zenon, <1>1, <2>1 DEF Queries
  <2> QED
    BY Zenon, <1>12, <2>2, OrdinaryGoings DEF Revive, At, tables, VersionsKept
<1>13. CASE Replant(r)
  <2>1. \E x : Reply(r, x)
    BY Zenon, <1>13 DEF Replant, Conflict
  <2> QED
    BY <1>13, <2>1, OrdinaryGoings DEF Replant, At, VersionsKept
<1>14. CASE Purge(r)
  <2>1. \E x : Reply(r, x)
    BY <1>14 DEF Purge
  <2> QED
    BY <1>14, <2>1, OrdinaryGoings DEF Purge, At, VersionsKept
<1> QED
  BY <1>2, <1>3, <1>4, <1>5, <1>6, <1>7, <1>8, <1>9, <1>10, <1>11, <1>12, <1>13, <1>14

LEMMA OrdinaryOthers ==
  ASSUME Asking, NEW r \in Requests,
         \/ Target(r) \/ CreateSnapshot(r) \/ BundleChapters(r) \/ BundleOutline(r) \/ CheckpointFails(r)
         \/ ReadCurrent(r) \/ Restore(r)
  PROVE  Ordinary(r) /\ Beside(r)
<1>1. req[r] \in Queries /\ req \in [Requests -> Queries]
  BY Doing
<1>2. CASE Target(r)
  <2>1. (\E x : Reply(r, x)) \/ Goto(r, "checkpoint")
    BY <1>2 DEF Target
  <2> QED
    BY <1>2, <2>1, OrdinaryGoings DEF Target, At, tables, VersionsKept
<1>3. CASE CreateSnapshot(r)
  BY <1>3, OrdinaryGoings DEF CreateSnapshot, AddVersion, At, VersionsKept
<1>4. CASE BundleChapters(r) \/ ReadCurrent(r)
  <2> DEFINE b == [c \in Chapters |-> IF c \in Live THEN chapter[c] ELSE NoRow]
  <2>1. \/ req' = [req EXCEPT ![r].pc = "boutline", ![r].book = b]
        \/ req' = [req EXCEPT ![r].pc = "revert", ![r].book = b]
    BY <1>4 DEF BundleChapters, ReadCurrent
  <2> HIDE DEF b
  <2>2. req'[r].pc # "save" /\ \A x \in Requests \ {r} : req'[x] = req[x]
    BY ZenonT(60), <1>1, <2>1 DEF Queries
  <2> QED
    BY <1>4, <2>2, OrdinaryGoings DEF BundleChapters, ReadCurrent, At, tables, VersionsKept
<1>5. CASE BundleOutline(r)
  <2>1. (\E x : Reply(r, x)) \/ Goto(r, "current")
    BY <1>5 DEF BundleOutline
  <2> QED
    BY <1>5, <2>1, OrdinaryGoings DEF BundleOutline, At, VersionsKept
<1>6. CASE CheckpointFails(r)
  BY <1>6, OrdinaryGoings DEF CheckpointFails, At, tables, VersionsKept
<1>7. CASE Restore(r)
  <2>1. \E x : Reply(r, x)
    BY Zenon, <1>7 DEF Restore, Conflict
  <2>2. req[r].pc = "revert" /\ UNCHANGED version /\ (counted' = "right" \/ counted' = counted)
    BY <1>7 DEF Restore, At
  <2> QED
    BY <2>1, <2>2, OrdinaryGoings DEF VersionsKept
<1> QED
  BY <1>2, <1>3, <1>4, <1>5, <1>6, <1>7

(* The others: those that end at the save, the save, and those after it.   *)
ToSave(r) ==
  /\ req[r].pc \in {"load", "latest", "boundary", "keep", "prune", "aload", "akeep", "checkpoint"}
  /\ VersionsKept /\ counted' = counted
  /\ req'[r].pc = "save" /\ req'[r].kind = "rollback" =>
       \E v \in version' : v.kind # "auto" /\ v.chapter = req'[r].c /\ v.text = req'[r].seen.text

LEMMA SavesAhead ==
  ASSUME TypeOK, NEW r \in Requests,
         \/ GetByID(r) \/ LookAtLatest(r) \/ FindBoundary(r) \/ PruneAuto(r) \/ SnapshotFails(r)
         \/ Checkpoint(r)
  PROVE  ToSave(r) /\ Beside(r)
<1>1. /\ req[r] \in Queries /\ req \in [Requests -> Queries] /\ Asking /\ Course(req[r].kind, req[r].pc)
      /\ stamp \in Nat
  BY Doing DEF TypeOK
<1>2. CASE GetByID(r)
  <2>1. req[r].pc = "load" /\ UNCHANGED <<version, counted>>
    BY <1>2 DEF GetByID, At, tables
  <2>2. /\ req'[r].kind = "rollback" => req'[r].pc # "save"
        /\ \A x \in Requests \ {r} : req'[x] = req[x]
    <3>1. CASE \E x : Reply(r, x)
      BY <1>1, <3>1, RepliedIs
    <3>2. CASE req' = [req EXCEPT ![r].pc = AfterLoad(r), ![r].seen = chapter[req[r].c]]
      <4>1. req[r].kind = "rollback" => AfterLoad(r) = "target"
        BY DEF AfterLoad
      <4>2. PICK pc, row : pc = AfterLoad(r) /\ req' = [req EXCEPT ![r].pc = pc, ![r].seen = row]
        BY <3>2
      <4>3. /\ req'[r].kind = req[r].kind /\ req'[r].pc = pc /\ \A x \in Requests \ {r} : req'[x] = req[x]
        BY Zenon, <1>1, <4>2 DEF Queries
      <4> QED
        BY <4>1, <4>2, <4>3
    <3> QED
      BY <1>2, <3>1, <3>2 DEF GetByID
  <2> QED
    BY <1>1, <2>1, <2>2, GoingBeside DEF ToSave, VersionsKept
<1>3. CASE LookAtLatest(r)
  <2>1. req[r].pc = "latest" /\ UNCHANGED <<version, counted>> /\ \E pc : Goto(r, pc)
    BY <1>3 DEF LookAtLatest, At, tables
  <2>2. req'[r].kind # "rollback" /\ \A x \in Requests \ {r} : req'[x] = req[x]
    BY <1>1, <2>1, GoneTo DEF Course
  <2> QED
    BY <1>1, <2>1, <2>2, GoingBeside DEF ToSave, VersionsKept
<1>4. CASE FindBoundary(r)
  <2>1. req[r].pc = "boundary" /\ UNCHANGED <<version, counted>>
    BY <1>4 DEF FindBoundary, At, tables
  <2>2. req'[r].kind # "rollback" /\ \A x \in Requests \ {r} : req'[x] = req[x]
    <3>1. req[r].kind # "rollback"
      BY <1>1, <2>1 DEF Course
    <3>2. Goto(r, "save") \/ \E v : req' = [req EXCEPT ![r].pc = "prune", ![r].pick = v]
      BY <1>4 DEF FindBoundary
    <3>3. CASE \E v : req' = [req EXCEPT ![r].pc = "prune", ![r].pick = v]
      BY Zenon, <1>1, <3>1, <3>3 DEF Queries
    <3> QED
      BY <1>1, <3>1, <3>2, <3>3, GoneTo
  <2> QED
    BY <1>1, <2>1, <2>2, GoingBeside DEF ToSave, VersionsKept
<1>5. CASE PruneAuto(r)
  <2>1. req[r].pc = "prune" /\ UNCHANGED counted /\ \E pc : Goto(r, pc)
    BY <1>5 DEF PruneAuto, At
  <2>2. VersionsKept
    BY <1>5 DEF PruneAuto, Autos, VersionsKept
  <2>3. req'[r].kind # "rollback" /\ \A x \in Requests \ {r} : req'[x] = req[x]
    BY <1>1, <2>1, GoneTo DEF Course
  <2> QED
    BY <1>1, <2>1, <2>2, <2>3, GoingBeside DEF ToSave
<1>6. CASE SnapshotFails(r)
  <2>1. /\ req[r].pc \in {"latest", "keep", "boundary", "prune", "aload", "akeep"}
        /\ UNCHANGED <<version, counted>> /\ \E pc : Goto(r, pc)
    BY <1>6 DEF SnapshotFails, tables
  <2>2. req'[r].kind # "rollback" /\ \A x \in Requests \ {r} : req'[x] = req[x]
    BY <1>1, <2>1, GoneTo DEF Course
  <2> QED
    BY <1>1, <2>1, <2>2, GoingBeside DEF ToSave, VersionsKept
<1>7. CASE Checkpoint(r)
  <2>1. req[r].pc = "checkpoint" /\ UNCHANGED counted /\ Goto(r, "save")
    BY <1>7 DEF Checkpoint, At
  <2>2. /\ req'[r].c = req[r].c /\ req'[r].seen = req[r].seen
        /\ \A x \in Requests \ {r} : req'[x] = req[x]
    BY <1>1, <2>1, GoneTo
  <2> DEFINE v == [at |-> stamp + 1, chapter |-> req[r].c, text |-> req[r].seen.text, kind |-> "rollback"]
  <2>3. version' = version \cup {v}
    BY <1>7 DEF Checkpoint, AddVersion
  <2>4. v \in version' /\ v.kind # "auto" /\ v.chapter = req[r].c /\ v.text = req[r].seen.text
    BY <2>3
  <2> HIDE DEF v
  <2>5. VersionsKept
    BY <2>3 DEF VersionsKept
  <2> QED
    BY <1>1, <2>1, <2>2, <2>4, <2>5, GoingBeside DEF ToSave
<1> QED
  BY <1>2, <1>3, <1>4, <1>5, <1>6, <1>7

LEMMA Writes ==
  ASSUME Asking, NEW r \in Requests, Save(r) \/ Delete(r)
  PROVE  /\ req[r].pc \in {"save", "remove"} /\ UNCHANGED version /\ Beside(r) /\ req'[r].pc # "save"
         /\ counted' = counted \/ (counted' = "behind" /\ req'[r].pc = "uncache")
<1>1. /\ req[r].pc \in {"save", "remove"} /\ UNCHANGED version
      /\ \/ Goto(r, "uncache") /\ counted' = "behind"
         \/ (\E x : Reply(r, x)) /\ counted' = counted
  BY Zenon DEF Save, Delete, Conflict, At
<1>2. CASE Goto(r, "uncache") /\ counted' = "behind"
  <2>1. req'[r].pc = "uncache" /\ \A x \in Requests \ {r} : req'[x] = req[x]
    BY <1>2, GoneTo
  <2> QED
    BY <1>1, <1>2, <2>1, GoingBeside
<1>3. CASE (\E x : Reply(r, x)) /\ counted' = counted
  <2>1. req'[r].pc = "done" /\ \A x \in Requests \ {r} : req'[x] = req[x]
    BY <1>3, RepliedIs
  <2> QED
    BY <1>1, <1>3, <2>1, GoingBeside
<1> QED
  BY <1>1, <1>2, <1>3

LEMMA Endings ==
  ASSUME Asking, NEW r \in Requests, Uncache(r) \/ UncacheFails(r) \/ RefreshNovelWordCount(r) \/ Fail(r)
  PROVE  /\ UNCHANGED version /\ Beside(r) /\ req'[r].pc # "save"
         /\ \/ req'[r].pc = "count" /\ UNCHANGED counted
            \/ counted' # "behind"
            \/ req[r].pc \notin {"uncache", "count"} /\ UNCHANGED counted
<1>1. CASE Uncache(r) \/ UncacheFails(r)
  <2>1. req[r].pc = "uncache" /\ UNCHANGED <<version, counted>> /\ Goto(r, "count")
    BY <1>1 DEF Uncache, UncacheFails, At, tables
  <2> QED
    BY <2>1, GoneTo, GoingBeside
<1>2. CASE RefreshNovelWordCount(r)
  <2>1. req[r].pc = "count" /\ UNCHANGED version /\ counted' = "right" /\ \E x : Reply(r, x)
    BY <1>2 DEF RefreshNovelWordCount, At
  <2> QED
    BY <2>1, RepliedIs, GoingBeside
<1>3. CASE Fail(r)
  <2>1. /\ req[r].pc \notin {"idle", "done"} /\ UNCHANGED version /\ \E x : Reply(r, x)
        /\ counted' = IF req[r].pc = "count" /\ counted = "behind" THEN "skipped" ELSE counted
    BY <1>3 DEF Fail, InFlight, At
  <2>2. req[r].pc # "uncache"
    <3>1. Course(req[r].kind, req[r].pc)
      BY Doing
    <3> QED
      BY <1>3, <3>1 DEF Fail, Tolerated, Course
  <2> QED
    BY <2>1, <2>2, RepliedIs, GoingBeside
<1> QED
  BY <1>1, <1>2, <1>3

(* A step of a request is of one of these sorts.                           *)
LEMMA Sorts ==
  ASSUME TypeOK, NEW r \in Requests, Step(r) \/ Fail(r) \/ UncacheFails(r)
  PROVE  /\ Beside(r)
         /\ \/ Ordinary(r)
            \/ ToSave(r)
            \/ /\ req[r].pc \in {"save", "remove"} /\ UNCHANGED version /\ req'[r].pc # "save"
               /\ counted' = counted \/ (counted' = "behind" /\ req'[r].pc = "uncache")
            \/ /\ UNCHANGED version /\ req'[r].pc # "save"
               /\ \/ req'[r].pc = "count" /\ UNCHANGED counted
                  \/ counted' # "behind"
                  \/ req[r].pc \notin {"uncache", "count"} /\ UNCHANGED counted
<1>1. Asking
  BY DEF TypeOK
<1>2. CASE ChapterStep(r)
  <2>1. CASE AskCreate(r) \/ AskOpen(r) \/ AskReorder(r) \/ AskRead(r) \/ AskSave(r)
    BY <1>1, <2>1, OrdinaryAsks
  <2>2. CASE \/ GetMaxPosition(r) \/ CreateAtEnd(r) \/ SeeShifted(r) \/ CreateAtPosition(r) \/ Reorder(r)
             \/ AskCache(r) \/ Fill(r) \/ KeepVersion(r) \/ AgentLoads(r) \/ AgentKeeps(r)
    BY <1>1, <2>2, OrdinaryChapters
  <2>3. CASE GetByID(r) \/ LookAtLatest(r) \/ FindBoundary(r) \/ PruneAuto(r) \/ SnapshotFails(r)
    BY <2>3, SavesAhead
  <2>4. CASE Save(r) \/ Delete(r)
    BY <1>1, <2>4, Writes
  <2>5. CASE Uncache(r) \/ RefreshNovelWordCount(r)
    BY <1>1, <2>5, Endings
  <2> QED
    BY <1>2, <2>1, <2>2, <2>3, <2>4, <2>5 DEF ChapterStep
<1>3. CASE HistoryStep(r)
  BY <1>1, <1>3, OrdinaryAsks, OrdinaryOthers, SavesAhead DEF HistoryStep
<1>4. CASE OutlineStep(r)
  BY <1>1, <1>4, OrdinaryAsks, OrdinaryOutlines DEF OutlineStep
<1>5. CASE NovelStep(r)
  BY <1>1, <1>5, OrdinaryAsks, OrdinaryOthers DEF NovelStep
<1>6. CASE Fail(r) \/ UncacheFails(r)
  BY <1>1, <1>6, Endings
<1> QED
  BY <1>2, <1>3, <1>4, <1>5, <1>6 DEF Step

(* A rollback about to save has left a version of what it overwrites that  *)
(* no pruning and no sweep removes.                                        *)
Reversible(r) ==
  req[r].kind = "rollback" /\ req[r].pc = "save" =>
    \E v \in version : v.kind # "auto" /\ v.chapter = req[r].c /\ v.text = req[r].seen.text

Caught == CountCatchesUp /\ \A r \in Requests : Reversible(r)

LEMMA CaughtInit == Init => Caught
BY DEF Init, Caught, CountCatchesUp, Reversible, Fresh

LEMMA CaughtBySteps ==
  ASSUME TypeOK, Caught, NEW r \in Requests, Step(r) \/ Fail(r) \/ UncacheFails(r)
  PROVE  Caught'
<1>1. Beside(r)
  BY Sorts
<1>2. VersionsKept
  BY Sorts DEF Ordinary, ToSave, VersionsKept
<1>3. ASSUME NEW x \in Requests PROVE Reversible(x)'
  <2>1. CASE x # r
    <3>1. req'[x].kind = req[x].kind /\ req'[x].pc = req[x].pc /\ req'[x].c = req[x].c
          /\ req'[x].seen = req[x].seen
      BY <1>1, <2>1 DEF Beside
    <3>2. Reversible(x)
      BY DEF Caught
    <3> QED
      BY <1>2, <3>1, <3>2 DEF Reversible, VersionsKept
  <2>2. CASE x = r
    BY <2>2, Sorts DEF Reversible, Ordinary, ToSave
  <2> QED
    BY <2>1, <2>2
<1>4. CountCatchesUp'
  <2> SUFFICES ASSUME counted' = "behind"
               PROVE  \E x \in Requests : req'[x].pc \in {"uncache", "count"}
    BY DEF CountCatchesUp, InFlight
  <2>1. ASSUME NEW x \in Requests, req[x].pc \in {"uncache", "count"}, x # r
        PROVE  req'[x].pc \in {"uncache", "count"}
    BY <1>1, <2>1 DEF Beside
  <2>2. counted = "behind" => \E x \in Requests : req[x].pc \in {"uncache", "count"}
    BY DEF Caught, CountCatchesUp, InFlight
  <2>3. \/ req'[r].pc \in {"uncache", "count"}
        \/ counted = "behind" /\ req[r].pc \notin {"uncache", "count"}
    BY Sorts DEF Ordinary, ToSave
  <2> QED
    BY <2>1, <2>2, <2>3
<1> QED
  BY <1>3, <1>4 DEF Caught

LEMMA CaughtSteps ==
  ASSUME TypeOK, Caught, [Next]_vars
  PROVE  Caught'
<1>1. CASE UNCHANGED vars
  BY <1>1 DEF vars, Caught, CountCatchesUp, Reversible, InFlight
<1>2. CASE \E r \in Requests : Step(r) \/ Fail(r) \/ UncacheFails(r)
  BY <1>2, CaughtBySteps
<1>3. CASE SweepExpiredVersions
  <2>1. \A v \in version : v.kind # "auto" => v \in version'
    BY <1>3 DEF SweepExpiredVersions
  <2>2. UNCHANGED <<counted, req>>
    BY <1>3 DEF SweepExpiredVersions
  <2> QED
    BY <2>1, <2>2 DEF Caught, CountCatchesUp, Reversible, InFlight
<1>4. CASE CacheExpires \/ LoadOutline
  <2>1. UNCHANGED <<version, counted, req>>
    BY <1>4 DEF CacheExpires, LoadOutline, tables
  <2> QED
    BY <2>1 DEF Caught, CountCatchesUp, Reversible, InFlight
<1>5. CASE Restart
  <2>1. counted' # "behind"
    BY <1>5 DEF Restart
  <2>2. \A r \in Requests : req'[r].pc # "save"
    <3> SUFFICES ASSUME NEW r \in Requests PROVE req'[r].pc # "save"
      OBVIOUS
    <3>1. Answered(req[r], "lost").pc = "done"
      BY Zenon, AnsweredQuery DEF TypeOK
    <3>2. req'[r] = IF r \in InFlight THEN Answered(req[r], "lost") ELSE req[r]
      BY <1>5 DEF Restart
    <3> QED
      BY <3>1, <3>2 DEF InFlight
  <2> QED
    BY <2>1, <2>2 DEF Caught, CountCatchesUp, Reversible
<1> QED
  BY <1>1, <1>2, <1>3, <1>4, <1>5 DEF Next, Quiet

(* A count that is behind has a writer, and a rollback about to save its    *)
(* version.                                                                *)
THEOREM SomebodyCounts == Spec => []Caught
<1>1. TypeOK /\ Caught /\ [Next]_vars => Caught'
  BY CaughtSteps
<1> QED
  BY <1>1, CaughtInit, TypeCorrect, PTL DEF Spec

(* The word count is behind only while a writer that will refresh it is on *)
(* its way to do so.                                                       *)
THEOREM CountIsCaughtUp == Spec => []CountCatchesUp
<1>1. Caught => CountCatchesUp
  BY DEF Caught
<1> QED
  BY <1>1, SomebodyCounts, PTL

(* What a rollback overwrites is among the versions, or was written after  *)
(* the rollback had looked.                                                *)
THEOREM RollbackKeepsText == Spec => RollbackIsReversible
<1>1. Caught /\ [Next]_vars =>
        [\A r \in Requests :
           (req[r].kind = "rollback" /\ At(r, "save") /\ req'[r].pc = "uncache") =>
             LET t == chapter[req[r].c].text IN
               t # req[r].seen.text \/ \E v \in version : v.chapter = req[r].c /\ v.text = t]_vars
  BY DEF Caught, Reversible, At
<1>2. Spec => [][\A r \in Requests :
           (req[r].kind = "rollback" /\ At(r, "save") /\ req'[r].pc = "uncache") =>
             LET t == chapter[req[r].c].text IN
               t # req[r].seen.text \/ \E v \in version : v.chapter = req[r].c /\ v.text = t]_vars
  BY <1>1, SomebodyCounts, PTL DEF Spec
<1> QED
  BY <1>2 DEF RollbackIsReversible

-----------------------------------------------------------------------------
(* Going back to a version, over chapters given.                           *)
RestoredOn(ch, then, now, full) ==
  LET ids == ByPosition(then, LiveIn(then))
      run[n \in 0..Len(ids)] ==
        IF n = 0 THEN [ok |-> TRUE, book |-> ch] ELSE PutBack(then, now, full, run[n - 1], ids[n])
      r == run[Len(ids)]
      extra == IF full THEN LiveIn(now) \ LiveIn(then) ELSE {} IN
  [r EXCEPT !.book = [c \in Chapters |->
     IF c \in extra /\ r.book[c].row = "live" THEN [r.book[c] EXCEPT !.row = "deleted"] ELSE r.book[c]]]

LEMMA RestoredHere ==
  ASSUME NEW then, NEW now, NEW full
  PROVE  Restored(then, now, full) = RestoredOn(chapter, then, now, full)
BY DEF Restored, RestoredOn

(* What a request that nothing overlaps finds when it writes: a place that *)
(* is free, a shift over all rows behind it, all chapters in its list, the *)
(* chapter as it read it, a version that can be put back, the outline and  *)
(* the book as it read them.                                               *)
Saving == {"latest", "keep", "boundary", "prune", "target", "checkpoint", "save"}

Solo(r) ==
  LET q == req[r] IN
  /\ q.pc = "insert" => ~Taken(chapter, q.pos, q.c)
  /\ q.pc = "insertat" => LiveIn(q.book) = {d \in Live : chapter[d].pos >= q.pos}
  /\ q.pc = "reorder" => Lists(q.list, Live)
  /\ q.pc \in Saving => q.c \in Live /\ q.seen.pos = chapter[q.c].pos
  /\ q.pc = "replant" /\ q.c # None =>
       ~Taken(chapter, q.seen.pos, q.c) /\ (q.full => chapter[q.c].row = "none")
  /\ q.pc = "revert" => RestoredOn(chapter, bundle[q.pick].book, q.book, q.full).ok
  /\ q.pc \in {"sync", "order"} =>
       q.list = outline /\ LiveIn(q.book) = Live /\ \A c \in Live : q.book[c] = chapter[c]
  /\ q.pc = "order" => Tidy(outline, q.book)

Alone == \A r \in Requests : req[r].alone => InFlight = {r} /\ Solo(r)

(* A version put back, one chapter after the other, over the chapters as   *)
(* they are: what is there keeps its place, what comes back finds one.     *)
LEMMA VersionFits ==
  ASSUME chapter \in Books, NEW then \in Books, NEW now \in Books, NEW full \in BOOLEAN,
         LiveIn(now) = Live, \A c \in Live : now[c] = chapter[c]
  PROVE  Restored(then, now, full).ok
<1> DEFINE ids == ByPosition(then, LiveIn(then))
           N == Len(ids)
           Met(s, n) == /\ s.ok /\ Run(s)
                        /\ \A c \in Live : s.book[c].row = "live" /\ s.book[c].pos = chapter[c].pos
                        /\ \A c \in LiveIn(s.book) : c \in Live \/ \E i \in 1..n : ids[i] = c
<1>1. /\ N \in Nat /\ \A n \in 1..N : ids[n] \in LiveIn(then) /\ ids[n] \in Chapters
      /\ \A m, n \in 1..N : ids[m] = ids[n] => m = n
  BY ByPositionLists, BookType DEF Lists, Range, IsInjective
<1>2. PICK run : /\ run[0] = [ok |-> TRUE, book |-> chapter]
                 /\ \A n \in 1..N : run[n] = PutBack(then, now, full, run[n - 1], ids[n])
                 /\ Restored(then, now, full) = [run[N] EXCEPT !.book = LeftOf(run[N].book, then, now, full)]
  BY RestoredRuns
<1> HIDE DEF ids, N
<1> DEFINE Proved == {n \in Nat : n <= N => Met(run[n], n)}
<1>3. 0 \in Proved
  <2>1. Run([ok |-> TRUE, book |-> chapter])
    BY DEF Run
  <2>2. \A c \in LiveIn(chapter) : c \in Live
    BY DEF LiveIn, Live
  <2>3. \A c \in Live : chapter[c].row = "live"
    BY DEF Live
  <2> QED
    BY <1>2, <2>1, <2>2, <2>3
<1>4. ASSUME NEW s, NEW n \in Nat, n + 1 <= N, Met(s, n)
      PROVE  Met(PutBack(then, now, full, s, ids[n + 1]), n + 1)
  <2> DEFINE c == ids[n + 1]
             p == PutBack(then, now, full, s, c)
             row == [now[c] EXCEPT !.text = then[c].text, !.title = then[c].title]
  <2>1. n + 1 \in 1..N /\ \A i \in 1..n : i \in 1..N /\ i # n + 1 /\ i \in 1..(n + 1)
    BY <1>1, <1>4
  <2>2. c \in Chapters /\ \A i \in 1..n : ids[i] # c
    BY <1>1, <2>1
  <2>3. s.book \in Books /\ then[c] \in Rows /\ now[c] \in Rows
    BY <1>4, <2>2, BookType DEF Run
  <2>4. row \in Rows /\ row.pos = now[c].pos /\ row.row = now[c].row
    <3>1. then[c].text \in Texts /\ then[c].title \in Titles
      BY <2>3 DEF Rows
    <3> QED
      BY <2>3, <3>1 DEF Rows
  <2>5. p = IF c \in LiveIn(now) THEN Put(s, c, row) ELSE IF full THEN Recreated(s, then[c], c) ELSE s
    BY DEF PutBack
  <2>6. Run(p)
    BY <1>4, <2>2, PutBackKeeps
  <2> HIDE DEF row, p
  <2>7. ASSUME p.ok, NEW x, p.book = [s.book EXCEPT ![c] = x],
               c \in Live => x.row = "live" /\ x.pos = chapter[c].pos
        PROVE  Met(p, n + 1)
    <3>1. \A d \in Chapters : p.book[d] = IF d = c THEN x ELSE s.book[d]
      BY <2>3, <2>7, BookType
    <3>2. \A d \in Live : p.book[d].row = "live" /\ p.book[d].pos = chapter[d].pos
      BY <1>4, <2>7, <3>1 DEF Live
    <3>3. \A d \in LiveIn(p.book) : d \in Live \/ \E i \in 1..(n + 1) : ids[i] = d
      <4> SUFFICES ASSUME NEW d \in LiveIn(p.book), d \notin Live PROVE \E i \in 1..(n + 1) : ids[i] = d
        OBVIOUS
      <4>1. d = c \/ d \in LiveIn(s.book)
        BY <3>1 DEF LiveIn
      <4>2. d = c \/ \E i \in 1..n : ids[i] = d
        BY <1>4, <4>1
      <4>3. n + 1 \in 1..(n + 1)
        BY <1>4
      <4> QED
        BY <2>1, <4>2, <4>3
    <3> QED
      BY <2>6, <2>7, <3>2, <3>3
  <2>8. ASSUME c \in Live PROVE Met(p, n + 1)
    <3>1. p = Put(s, c, row)
      BY <2>5, <2>8
    <3>2. now[c] = chapter[c] /\ chapter[c].row = "live"
      BY <2>8 DEF Live
    <3>3. ~Taken(s.book, row.pos, c)
      <4>1. c \in LiveIn(s.book) /\ s.book[c].pos = row.pos
        BY <1>4, <2>2, <2>4, <2>8, <3>2 DEF LiveIn
      <4>2. Apart(s.book)
        BY <2>3, BookType
      <4> QED
        BY <4>1, <4>2 DEF Apart, Taken
    <3>4. p.ok /\ p.book = [s.book EXCEPT ![c] = row]
      BY <1>4, <2>4, <3>1, <3>3, PutKeeps
    <3> QED
      BY <2>4, <2>7, <3>2, <3>4
  <2>9. ASSUME c \notin Live, full PROVE Met(p, n + 1)
    <3>1. PICK y \in Rows : y = then[c] /\ p = Recreated(s, y, c)
      BY <2>3, <2>5, <2>9
    <3>2. s.book[c].row # "live"
      BY <1>4, <2>2, <2>9 DEF LiveIn
    <3>3. Run(s) /\ s.ok
      BY <1>4
    <3> HIDE DEF Met, c
    <3>4. p.ok /\ \E x \in Rows : p.book = [s.book EXCEPT ![c] = x]
      <4>1. /\ Recreated(s, y, c).ok
            /\ \E x \in Rows : Recreated(s, y, c).book = [s.book EXCEPT ![c] = x]
        BY ONLY <3>1, <3>2, <3>3, RecreatedKeeps
      <4> QED
        BY <3>1, <4>1
    <3> QED
      BY <2>7, <2>9, <3>4
  <2>10. ASSUME c \notin Live, ~full PROVE Met(p, n + 1)
    <3>1. p = s
      BY <2>5, <2>10
    <3>2. \A i \in 1..n : i \in 1..(n + 1)
      BY <2>1
    <3> QED
      BY <1>4, <3>1, <3>2
  <2> QED
    BY <2>8, <2>9, <2>10 DEF p
<1>5. ASSUME NEW n \in Proved PROVE n + 1 \in Proved
  <2> SUFFICES ASSUME n + 1 <= N PROVE Met(run[n + 1], n + 1)
    OBVIOUS
  <2>1. n <= N /\ n + 1 \in 1..N /\ (n + 1) - 1 = n /\ n \in Nat
    BY <1>1
  <2>2. Met(run[n], n)
    BY <2>1
  <2>3. run[n + 1] = PutBack(then, now, full, run[n], ids[n + 1])
    BY <1>2, <2>1
  <2> HIDE DEF Met
  <2> QED
    BY <1>4, <2>1, <2>2, <2>3
<1>6. Proved = Nat
  <2> HIDE DEF Met
  <2> QED
    BY <1>3, <1>5, Induction
<1>7. run[N].ok /\ Run(run[N])
  BY <1>1, <1>6
<1>8. Restored(then, now, full) = [ok |-> run[N].ok, book |-> LeftOf(run[N].book, then, now, full)]
  BY <1>2, <1>7 DEF Run
<1> QED
  BY <1>7, <1>8

SoloPlaces == Saving \cup {"insert", "insertat", "reorder", "replant", "revert", "sync", "order"}

(* What becomes of a request by a step of its own.                         *)
Onward(r) ==
  /\ req'[r].alone = req[r].alone /\ req'[r].reply = req[r].reply /\ req'[r].pc \notin {"idle", "done"}
  /\ \A x \in Requests \ {r} : req'[x] = req[x]

Fair(r) == \/ \E x : x # "own conflict" /\ Reply(r, x)
           \/ Onward(r) /\ (req[r].alone => Solo(r)')

LEMMA SoloElsewhere ==
  ASSUME NEW r \in Requests, req'[r].pc \notin SoloPlaces
  PROVE  Solo(r)'
BY DEF Solo, SoloPlaces

LEMMA GoingElsewhere ==
  ASSUME Asking, NEW r \in Requests, NEW pc, Goto(r, pc), pc \notin SoloPlaces \cup {"idle", "done"}
  PROVE  Fair(r)
<1>1. /\ req'[r].pc = pc /\ req'[r].alone = req[r].alone /\ req'[r].reply = req[r].reply
      /\ \A x \in Requests \ {r} : req'[x] = req[x]
  BY Zenon DEF Asking, Goto, Queries
<1> QED
  BY Zenon, <1>1, SoloElsewhere DEF Fair, Onward

LEMMA NoOwnConflict ==
  ASSUME NEW r \in Requests, Conflict(r), ~req[r].alone
  PROVE  Fair(r)
BY Zenon DEF Conflict, Fair

LEMMA FairReply ==
  ASSUME NEW r \in Requests, NEW x, Reply(r, x), x # "own conflict"
  PROVE  Fair(r)
BY Zenon DEF Fair

LEMMA FairCreation ==
  ASSUME TypeOK, NEW r \in Requests, req[r].alone => Solo(r),
         GetMaxPosition(r) \/ CreateAtEnd(r) \/ SeeShifted(r) \/ CreateAtPosition(r)
  PROVE  Fair(r)
<1>1. Asking /\ chapter \in Books /\ req[r] \in Queries /\ req \in [Requests -> Queries]
  BY Doing DEF TypeOK
<1>2. CASE GetMaxPosition(r)
  <2> DEFINE end == MaxPos(chapter) + 1
             m == Min({req[r].seen.pos, end})
  <2>1. ~Taken(chapter, end, req[r].c) /\ UNCHANGED chapter
    BY <1>1, <1>2, PastTheEnd DEF GetMaxPosition, tables
  <2>2. \/ req' = [req EXCEPT ![r].pc = "insert", ![r].pos = end]
        \/ req' = [req EXCEPT ![r].pc = "shift",  ![r].pos = m]
    BY <1>2 DEF GetMaxPosition
  <2> HIDE DEF end, m
  <2>3. CASE req' = [req EXCEPT ![r].pc = "insert", ![r].pos = end]
    <3>1. Onward(r) /\ req'[r].pc = "insert" /\ req'[r].pos = end /\ req'[r].c = req[r].c
      BY Zenon, <1>1, <2>3 DEF Onward, Queries
    <3>2. Solo(r)'
      BY <2>1, <3>1 DEF Solo, Saving
    <3> QED
      BY <3>1, <3>2 DEF Fair
  <2>4. CASE req' = [req EXCEPT ![r].pc = "shift",  ![r].pos = m]
    <3>1. Onward(r) /\ req'[r].pc = "shift"
      BY Zenon, <1>1, <2>4 DEF Onward, Queries
    <3> QED
      BY Zenon, <3>1, SoloElsewhere DEF Fair, SoloPlaces, Saving
  <2> QED
    BY <2>2, <2>3, <2>4
<1>3. CASE CreateAtEnd(r)
  <2>1. CASE Taken(chapter, req[r].pos, req[r].c)
    <3>1. Conflict(r) /\ ~req[r].alone
      BY <1>3, <2>1 DEF CreateAtEnd, Solo, At
    <3> QED
      BY <3>1, NoOwnConflict
  <2>2. CASE ~Taken(chapter, req[r].pos, req[r].c)
    <3>1. Goto(r, "bindread") /\ "bindread" \notin SoloPlaces \cup {"idle", "done"}
      BY <1>3, <2>2 DEF CreateAtEnd, SoloPlaces, Saving
    <3> QED
      BY <1>1, <3>1, GoingElsewhere
  <2> QED
    BY <2>1, <2>2
<1>4. CASE SeeShifted(r)
  <2> DEFINE D == {d \in Live : chapter[d].pos >= req[r].pos}
             b == [c \in Chapters |-> IF c \in Live /\ chapter[c].pos >= req[r].pos THEN chapter[c] ELSE NoRow]
  <2>1. LiveIn(b) = D
    <3>1. D \in SUBSET LiveIn(chapter)
      BY DEF Live, LiveIn
    <3>2. b = [c \in Chapters |-> IF c \in D THEN chapter[c] ELSE NoRow]
      OBVIOUS
    <3> HIDE DEF D, b
    <3> QED
      BY <1>1, <3>1, <3>2, PartOf
  <2>2. req' = [req EXCEPT ![r].pc = "insertat", ![r].book = b] /\ UNCHANGED chapter
    BY <1>4 DEF SeeShifted, tables
  <2> HIDE DEF b
  <2>3. Onward(r) /\ req'[r].pc = "insertat" /\ req'[r].book = b /\ req'[r].pos = req[r].pos
    BY Zenon, <1>1, <2>2 DEF Onward, Queries
  <2>4. D = {d \in Live' : chapter'[d].pos >= req'[r].pos}
    BY <2>2, <2>3 DEF Live
  <2> HIDE DEF D
  <2>5. Solo(r)'
    BY <2>1, <2>3, <2>4 DEF Solo, Saving
  <2> QED
    BY <2>3, <2>5 DEF Fair
<1>5. CASE CreateAtPosition(r)
  <2> DEFINE S == {d \in LiveIn(req[r].book) : chapter[d].row = "live" /\ chapter[d].pos >= req[r].pos}
             s == Shift(chapter, S)
             fits == s.ok /\ (\A d \in S : ~Taken(s.book, s.book[d].pos, d)) /\ ~Taken(s.book, req[r].pos, req[r].c)
  <2>1. \/ fits /\ req' = [req EXCEPT ![r].pc = "answered", ![r].book = NoBook]
        \/ ~fits /\ Conflict(r)
        \/ req' = [req EXCEPT ![r].pc = "shift", ![r].tried = TRUE]
    BY Zenon, <1>5 DEF CreateAtPosition
  <2>2. req[r].alone => fits
    <3> SUFFICES ASSUME Solo(r) PROVE fits
      OBVIOUS
    <3>1. LiveIn(req[r].book) = {d \in Live : chapter[d].pos >= req[r].pos}
      BY <1>5 DEF Solo, CreateAtPosition, At
    <3>2. S = {d \in LiveIn(chapter) : chapter[d].pos >= req[r].pos}
      BY <3>1 DEF Live, LiveIn
    <3>3. req[r].pos \in Nat
      BY <1>1, Doing
    <3> HIDE DEF S
    <3> QED
      BY <1>1, <3>2, <3>3, ShiftMakesRoom
  <2> HIDE DEF fits
  <2>3. CASE ~fits /\ Conflict(r)
    BY <2>2, <2>3, NoOwnConflict
  <2>4. CASE \/ req' = [req EXCEPT ![r].pc = "answered", ![r].book = NoBook]
             \/ req' = [req EXCEPT ![r].pc = "shift", ![r].tried = TRUE]
    <3>1. Onward(r) /\ req'[r].pc \in {"answered", "shift"}
      <4>1. CASE req' = [req EXCEPT ![r].pc = "answered", ![r].book = NoBook]
        BY Zenon, <1>1, <4>1 DEF Onward, Queries
      <4>2. CASE req' = [req EXCEPT ![r].pc = "shift", ![r].tried = TRUE]
        <5>1. PICK t \in BOOLEAN : t = TRUE
          OBVIOUS
        <5>2. req' = [req EXCEPT ![r].pc = "shift", ![r].tried = t]
          BY <4>2, <5>1
        <5> QED
          BY Zenon, <1>1, <5>2 DEF Onward, Queries
      <4> QED
        BY <2>4, <4>1, <4>2
    <3> QED
      BY Zenon, <3>1, SoloElsewhere DEF Fair, SoloPlaces, Saving
  <2> QED
    BY <2>1, <2>3, <2>4
<1> QED
  BY <1>2, <1>3, <1>4, <1>5

LEMMA FairReads ==
  ASSUME TypeOK, NEW r \in Requests, req[r].alone => Solo(r),
         \/ Reorder(r) \/ AskCache(r) \/ Fill(r) \/ GetByID(r) \/ Delete(r) \/ Uncache(r)
         \/ RefreshNovelWordCount(r) \/ AgentLoads(r) \/ AgentKeeps(r)
  PROVE  Fair(r)
<1>1. Asking /\ chapter \in Books /\ req[r] \in Queries /\ req \in [Requests -> Queries]
  BY Doing DEF TypeOK
<1>2. "aload" \notin SoloPlaces \cup {"idle", "done"} /\ "load" \notin SoloPlaces \cup {"idle", "done"}
      /\ "uncache" \notin SoloPlaces \cup {"idle", "done"} /\ "count" \notin SoloPlaces \cup {"idle", "done"}
      /\ {"fill", "akeep", "load"} \cap SoloPlaces = {}
  BY DEF SoloPlaces, Saving
<1>3. CASE Reorder(r)
  <2> DEFINE o == ReorderByIDs(chapter, req[r].list)
  <2>1. \/ \E x \in {"ok", "mismatch"} : Reply(r, x)
        \/ ~(o.found /\ o.ok) /\ Conflict(r)
    BY <1>3 DEF Reorder
  <2>2. req[r].alone => o.found /\ o.ok
    <3> SUFFICES ASSUME Solo(r) PROVE o.found /\ o.ok
      OBVIOUS
    <3>1. Lists(req[r].list, LiveIn(chapter)) /\ req[r].list \in Seq(Chapters)
      <4>1. req[r].list \in Seq(Chapters)
        BY <1>1, <1>3, Doing DEF Reorder, At, Carries
      <4>2. Live = LiveIn(chapter)
        BY DEF Live, LiveIn
      <4> QED
        BY <1>3, <4>1, <4>2 DEF Solo, Reorder, At
    <3> QED
      BY <1>1, <3>1, Reordered
  <2> HIDE DEF o
  <2> QED
    BY Zenon, <2>1, <2>2, NoOwnConflict, FairReply
<1>4. CASE AskCache(r)
  <2>1. \/ \E x \in {"ok", "notfound"} : Reply(r, x)
        \/ Goto(r, "aload")
        \/ req' = [req EXCEPT ![r].pc = "fill", ![r].seen = chapter[req[r].c]]
    BY <1>4 DEF AskCache, Known
  <2>2. CASE req' = [req EXCEPT ![r].pc = "fill", ![r].seen = chapter[req[r].c]]
    <3>1. Onward(r) /\ req'[r].pc = "fill"
      BY Zenon, <1>1, <2>2 DEF Onward, Queries
    <3> QED
      BY Zenon, <1>2, <3>1, SoloElsewhere DEF Fair
  <2> QED
    BY Zenon, <1>1, <1>2, <2>1, <2>2, GoingElsewhere, FairReply
<1>5. CASE Fill(r)
  <2>1. (\E x \in {"ok", "notfound"} : Reply(r, x)) \/ Goto(r, "aload")
    BY <1>5 DEF Fill, Known
  <2> QED
    BY Zenon, <1>1, <1>2, <2>1, GoingElsewhere, FairReply
<1>6. CASE GetByID(r)
  <2>1. CASE Reply(r, "notfound")
    BY Zenon, <2>1, FairReply
  <2>2. CASE req[r].c \in Live /\ req' = [req EXCEPT ![r].pc = AfterLoad(r), ![r].seen = chapter[req[r].c]]
    <3>1. PICK pc, row : /\ pc = AfterLoad(r) /\ row = chapter[req[r].c]
                         /\ req' = [req EXCEPT ![r].pc = pc, ![r].seen = row]
      BY <2>2
    <3>2. pc \in {"save", "latest", "remove", "target", "mark"}
      <4>1. req[r].kind \in {"agent", "save", "delete", "mark", "rollback"}
        BY <1>1, <1>6, OfAChapter DEF GetByID, At
      <4> QED
        BY <3>1, <4>1 DEF AfterLoad
    <3>3. Onward(r) /\ req'[r].pc = pc /\ req'[r].seen = row /\ req'[r].c = req[r].c
      BY Zenon, <1>1, <3>1, <3>2 DEF Onward, Queries
    <3>4. UNCHANGED chapter /\ Live' = Live
      BY <1>6 DEF GetByID, tables, Live
    <3>5. Solo(r)'
      BY <2>2, <3>1, <3>2, <3>3, <3>4 DEF Solo
    <3> QED
      BY <3>3, <3>5 DEF Fair
  <2> QED
    BY <1>6, <2>1, <2>2 DEF GetByID
<1>7. CASE Delete(r)
  BY <1>1, <1>2, <1>7, GoingElsewhere DEF Delete
<1>8. CASE Uncache(r)
  BY <1>1, <1>2, <1>8, GoingElsewhere DEF Uncache
<1>9. CASE RefreshNovelWordCount(r)
  BY Zenon, <1>9, FairReply DEF RefreshNovelWordCount
<1>10. CASE AgentLoads(r)
  <2> DEFINE pc == IF req[r].c \in Live /\ chapter[req[r].c].text # Empty THEN "akeep" ELSE "load"
  <2>1. req' = [req EXCEPT ![r].seen = chapter[req[r].c], ![r].pc = pc] /\ pc \in {"akeep", "load"}
    BY <1>10 DEF AgentLoads
  <2> HIDE DEF pc
  <2>2. Onward(r) /\ req'[r].pc = pc
    BY Zenon, <1>1, <2>1 DEF Onward, Queries
  <2> QED
    BY Zenon, <1>2, <2>1, <2>2, SoloElsewhere DEF Fair
<1>11. CASE AgentKeeps(r)
  BY <1>1, <1>2, <1>11, GoingElsewhere DEF AgentKeeps
<1> QED
  BY <1>3, <1>4, <1>5, <1>6, <1>7, <1>8, <1>9, <1>10, <1>11

(* On the way to its save a request goes from one step of the snapshot to  *)
(* the next, and its chapter stays as it was read.                         *)
LEMMA GoingToSave ==
  ASSUME Asking, NEW r \in Requests, req[r].alone => Solo(r), req[r].pc \in Saving,
         NEW pc \in Saving, Goto(r, pc), UNCHANGED chapter
  PROVE  Fair(r)
<1>1. /\ req'[r].pc = pc /\ req'[r].c = req[r].c /\ req'[r].seen = req[r].seen /\ Onward(r)
  BY Zenon DEF Asking, Goto, Queries, Onward, Saving
<1>2. Live' = Live
  BY DEF Live
<1>3. req[r].alone => Solo(r)'
  BY <1>1, <1>2 DEF Solo, Saving
<1> QED
  BY Zenon, <1>1, <1>3 DEF Fair

LEMMA FairSaving ==
  ASSUME TypeOK, NEW r \in Requests, req[r].alone => Solo(r),
         \/ LookAtLatest(r) \/ KeepVersion(r) \/ FindBoundary(r) \/ PruneAuto(r) \/ SnapshotFails(r)
         \/ Save(r) \/ Target(r) \/ Checkpoint(r) \/ CreateSnapshot(r)
  PROVE  Fair(r)
<1>1. Asking /\ chapter \in Books /\ req[r] \in Queries /\ req \in [Requests -> Queries]
  BY Doing DEF TypeOK
<1>2. CASE LookAtLatest(r)
  <2>1. req[r].pc \in Saving /\ UNCHANGED chapter /\ \E pc \in Saving : Goto(r, pc)
    BY <1>2 DEF LookAtLatest, At, tables, Saving
  <2> QED
    BY <1>1, <2>1, GoingToSave
<1>3. CASE KeepVersion(r)
  <2>1. req[r].pc \in Saving /\ UNCHANGED chapter /\ \E pc \in Saving : Goto(r, pc)
    BY <1>3 DEF KeepVersion, At, Saving
  <2> QED
    BY <1>1, <2>1, GoingToSave
<1>4. CASE FindBoundary(r)
  <2>1. req[r].pc \in Saving /\ req[r].pc = "boundary" /\ UNCHANGED chapter
    BY <1>4 DEF FindBoundary, At, tables, Saving
  <2>2. CASE Goto(r, "save")
    BY <1>1, <2>1, <2>2, GoingToSave DEF Saving
  <2>3. CASE \E v : req' = [req EXCEPT ![r].pc = "prune", ![r].pick = v]
    <3>1. PICK v : req' = [req EXCEPT ![r].pc = "prune", ![r].pick = v]
      BY <2>3
    <3>2. Onward(r) /\ req'[r].pc = "prune" /\ req'[r].c = req[r].c /\ req'[r].seen = req[r].seen
      BY Zenon, <1>1, <3>1 DEF Onward, Queries
    <3>3. Live' = Live
      BY <2>1 DEF Live
    <3>4. req[r].alone => Solo(r)'
      BY <2>1, <3>2, <3>3 DEF Solo, Saving
    <3> QED
      BY Zenon, <3>2, <3>4 DEF Fair
  <2> QED
    BY <1>4, <2>2, <2>3 DEF FindBoundary
<1>5. CASE PruneAuto(r)
  <2>1. req[r].pc \in Saving /\ UNCHANGED chapter /\ \E pc \in Saving : Goto(r, pc)
    BY <1>5 DEF PruneAuto, At, Saving
  <2> QED
    BY <1>1, <2>1, GoingToSave
<1>6. CASE SnapshotFails(r)
  <2>1. CASE req[r].pc \in {"aload", "akeep"}
    <3>1. Goto(r, "load") /\ "load" \notin SoloPlaces \cup {"idle", "done"}
      BY <1>6, <2>1 DEF SnapshotFails, SoloPlaces, Saving
    <3> QED
      BY <1>1, <3>1, GoingElsewhere
  <2>2. CASE req[r].pc \notin {"aload", "akeep"}
    <3>1. req[r].pc \in Saving /\ UNCHANGED chapter /\ \E pc \in Saving : Goto(r, pc)
      BY <1>6, <2>2 DEF SnapshotFails, tables, Saving
    <3> QED
      BY <1>1, <3>1, GoingToSave
  <2> QED
    BY <2>1, <2>2
<1>7. CASE Save(r)
  <2>1. CASE Taken(chapter, req[r].seen.pos, req[r].c)
    <3>1. Conflict(r)
      BY <1>7, <2>1 DEF Save
    <3>2. ~req[r].alone
      <4> SUFFICES ASSUME Solo(r) PROVE FALSE
        OBVIOUS
      <4>1. req[r].c \in LiveIn(chapter) /\ req[r].seen.pos = chapter[req[r].c].pos
        BY <1>7 DEF Solo, Save, At, Saving, Live, LiveIn
      <4>2. Apart(chapter)
        BY <1>1, BookType
      <4> QED
        BY <2>1, <4>1, <4>2 DEF Taken, Apart
    <3> QED
      BY <3>1, <3>2, NoOwnConflict
  <2>2. CASE ~Taken(chapter, req[r].seen.pos, req[r].c)
    <3>1. Goto(r, "uncache") /\ "uncache" \notin SoloPlaces \cup {"idle", "done"}
      BY <1>7, <2>2 DEF Save, SoloPlaces, Saving
    <3> QED
      BY <1>1, <3>1, GoingElsewhere
  <2> QED
    BY <2>1, <2>2
<1>8. CASE Target(r)
  <2>1. Reply(r, "notfound") \/ Goto(r, "checkpoint")
    BY <1>8 DEF Target
  <2>2. req[r].pc \in Saving /\ UNCHANGED chapter /\ "checkpoint" \in Saving
    BY <1>8 DEF Target, At, tables, Saving
  <2> QED
    BY Zenon, <1>1, <2>1, <2>2, GoingToSave, FairReply
<1>9. CASE Checkpoint(r)
  <2>1. req[r].pc \in Saving /\ UNCHANGED chapter /\ \E pc \in Saving : Goto(r, pc)
    BY <1>9 DEF Checkpoint, At, Saving
  <2> QED
    BY <1>1, <2>1, GoingToSave
<1>10. CASE CreateSnapshot(r)
  BY Zenon, <1>10, FairReply DEF CreateSnapshot
<1> QED
  BY <1>2, <1>3, <1>4, <1>5, <1>6, <1>7, <1>8, <1>9, <1>10

LEMMA FairOutlines ==
  ASSUME TypeOK, NEW r \in Requests, req[r].alone => Solo(r),
         \/ BindRead(r) \/ BindChapterToOutline(r) \/ HandleOpenBody(r) \/ UpdateOutline(r) \/ SyncRead(r)
         \/ SyncBindings(r) \/ ResyncPositions(r)
  PROVE  Fair(r)
<1>1. /\ Asking /\ chapter \in Books /\ outline \in Outlines /\ req[r] \in Queries
      /\ req \in [Requests -> Queries]
  BY Doing DEF TypeOK
<1>2. CASE BindRead(r)
  <2>1. Onward(r) /\ req'[r].pc = "bind"
    BY Zenon, <1>1, <1>2 DEF BindRead, Onward, Queries
  <2> QED
    BY Zenon, <2>1, SoloElsewhere DEF Fair, SoloPlaces, Saving
<1>3. CASE BindChapterToOutline(r)
  BY Zenon, <1>3, FairReply DEF BindChapterToOutline
<1>4. CASE HandleOpenBody(r)
  <2>1. Reply(r, "ok") \/ req' = [req EXCEPT ![r].pc = "upsert", ![r].list = panel']
    BY <1>4 DEF HandleOpenBody
  <2>2. CASE req' = [req EXCEPT ![r].pc = "upsert", ![r].list = panel']
    <3>1. Onward(r) /\ req'[r].pc = "upsert"
      BY Zenon, <1>1, <2>2 DEF Onward, Queries
    <3> QED
      BY Zenon, <3>1, SoloElsewhere DEF Fair, SoloPlaces, Saving
  <2> QED
    BY Zenon, <2>1, <2>2, FairReply
<1>5. CASE UpdateOutline(r)
  <2>1. Goto(r, "syncread") /\ "syncread" \notin SoloPlaces \cup {"idle", "done"}
    BY <1>5 DEF UpdateOutline, SoloPlaces, Saving
  <2> QED
    BY <1>1, <2>1, GoingElsewhere
<1>6. CASE SyncRead(r)
  <2> DEFINE b == [c \in Chapters |-> IF c \in Live THEN chapter[c] ELSE NoRow]
  <2>1. LiveIn(b) = Live /\ \A c \in Live : b[c] = chapter[c]
    BY <1>1, LiveRead DEF Live
  <2>2. req' = [req EXCEPT ![r].pc = "sync", ![r].list = outline, ![r].book = b]
        /\ UNCHANGED <<chapter, outline>>
    BY <1>6 DEF SyncRead, tables
  <2> HIDE DEF b
  <2>3. Onward(r) /\ req'[r].pc = "sync" /\ req'[r].list = outline /\ req'[r].book = b
    BY Zenon, <1>1, <2>2 DEF Onward, Queries
  <2>4. Live' = Live
    BY <2>2 DEF Live
  <2>5. Solo(r)'
    BY <2>1, <2>2, <2>3, <2>4 DEF Solo, Saving
  <2> QED
    BY <2>3, <2>5 DEF Fair
<1>7. CASE SyncBindings(r)
  <2> DEFINE o == Sanitized(req[r].list, req[r].book)
  <2>1. req' = [req EXCEPT ![r].pc = "order", ![r].list = o] /\ UNCHANGED chapter
        /\ outline' = IF o = req[r].list THEN outline ELSE o
    BY <1>7 DEF SyncBindings
  <2>2. Tidy(o, req[r].book)
    <3>1. req[r].list \in Outlines /\ req[r].book \in Books
      BY <1>1, <1>7, Doing DEF SyncBindings, At, Carries
    <3> QED
      BY <3>1, SanitizedIsTidy
  <2> HIDE DEF o
  <2>3. Onward(r) /\ req'[r].pc = "order" /\ req'[r].list = o /\ req'[r].book = req[r].book
    BY Zenon, <1>1, <2>1 DEF Onward, Queries
  <2>4. Live' = Live
    BY <2>1 DEF Live
  <2>5. ASSUME req[r].alone PROVE Solo(r)'
    <3>1. req[r].list = outline /\ LiveIn(req[r].book) = Live /\ \A c \in Live : req[r].book[c] = chapter[c]
      BY <1>7, <2>5 DEF Solo, SyncBindings, At
    <3>2. outline' = o
      BY <2>1, <3>1
    <3> QED
      BY <2>1, <2>2, <2>3, <2>4, <3>1, <3>2 DEF Solo, Saving
  <2> QED
    BY Zenon, <2>3, <2>5 DEF Fair
<1>8. CASE ResyncPositions(r)
  BY Zenon, <1>8, FairReply DEF ResyncPositions
<1> QED
  BY <1>2, <1>3, <1>4, <1>5, <1>6, <1>7, <1>8

LEMMA FairBin ==
  ASSUME TypeOK, NEW r \in Requests, req[r].alone => Solo(r),
         \/ TrashRead(r) \/ TrashNode(r) \/ FindInBin(r) \/ Revive(r) \/ Replant(r) \/ Purge(r)
  PROVE  Fair(r)
<1>1. /\ Asking /\ chapter \in Books /\ req[r] \in Queries /\ req \in [Requests -> Queries]
      /\ req[r].seen \in Rows
  BY Doing DEF TypeOK
<1>2. CASE TrashRead(r)
  <2>1. \/ Reply(r, "notfound")
        \/ \E n, row : req' = [req EXCEPT ![r].pc = "trash", ![r].list = outline, ![r].pick = n, ![r].seen = row]
    BY Zenon, <1>2 DEF TrashRead
  <2>2. CASE \E n, row : req' = [req EXCEPT ![r].pc = "trash", ![r].list = outline, ![r].pick = n,
                                            ![r].seen = row]
    <3>1. PICK n, row : req' = [req EXCEPT ![r].pc = "trash", ![r].list = outline, ![r].pick = n, ![r].seen = row]
      BY Zenon, <2>2
    <3> DEFINE q == [req[r] EXCEPT !.pc = "trash", !.list = outline, !.pick = n, !.seen = row]
    <3>2. req' = [req EXCEPT ![r] = q]
      BY <1>1, <3>1
    <3>3. q.pc = "trash" /\ q.alone = req[r].alone /\ q.reply = req[r].reply
      BY Zenon, <1>1 DEF Queries
    <3> HIDE DEF q
    <3>4. Onward(r) /\ req'[r].pc = "trash"
      BY <1>1, <3>2, <3>3 DEF Onward
    <3> QED
      BY Zenon, <3>4, SoloElsewhere DEF Fair, SoloPlaces, Saving
  <2> QED
    BY Zenon, <2>1, <2>2, FairReply
<1>3. CASE TrashNode(r)
  BY Zenon, <1>3, FairReply DEF TrashNode
<1>4. CASE FindInBin(r)
  <2>1. \/ Reply(r, "notfound")
        \/ \E row, o : req' = [req EXCEPT ![r].pc = "revive", ![r].seen = row, ![r].list = o]
    BY Zenon, <1>4 DEF FindInBin
  <2>2. CASE \E row, o : req' = [req EXCEPT ![r].pc = "revive", ![r].seen = row, ![r].list = o]
    <3>1. PICK row, o : req' = [req EXCEPT ![r].pc = "revive", ![r].seen = row, ![r].list = o]
      BY Zenon, <2>2
    <3> DEFINE q == [req[r] EXCEPT !.pc = "revive", !.seen = row, !.list = o]
    <3>2. req' = [req EXCEPT ![r] = q]
      BY <1>1, <3>1
    <3>3. q.pc = "revive" /\ q.alone = req[r].alone /\ q.reply = req[r].reply
      BY Zenon, <1>1 DEF Queries
    <3> HIDE DEF q
    <3>4. Onward(r) /\ req'[r].pc = "revive"
      BY <1>1, <3>2, <3>3 DEF Onward
    <3> QED
      BY Zenon, <3>4, SoloElsewhere DEF Fair, SoloPlaces, Saving
  <2> QED
    BY Zenon, <2>1, <2>2, FairReply
<1>5. CASE Revive(r)
  <2> DEFINE p == IF req[r].c = None THEN 0
                  ELSE IF chapter[req[r].c].row # "none" /\ ~Taken(chapter, chapter[req[r].c].pos, req[r].c)
                    THEN chapter[req[r].c].pos
                  ELSE IF chapter[req[r].c].row # "none" \/ Live # {} THEN MaxPos(chapter) + 1 ELSE 0
             f == req[r].c # None /\ chapter[req[r].c].row = "none"
             o == outline \o req[r].list
  <2>1. req[r].c # None => ~Taken(chapter, p, req[r].c)
    <3>1. ~Taken(chapter, MaxPos(chapter) + 1, req[r].c)
      BY <1>1, PastTheEnd
    <3>2. Live = {} => ~Taken(chapter, 0, req[r].c)
      BY DEF Live, LiveIn, Taken
    <3> QED
      BY <3>1, <3>2
  <2>2. /\ req' = [req EXCEPT ![r].pc = "replant", ![r].seen.pos = p, ![r].list = outline \o @, ![r].full = f]
        /\ UNCHANGED chapter
    BY Zenon, <1>5 DEF Revive, tables
  <2>3. req' = [req EXCEPT ![r].pc = "replant", ![r].seen.pos = p, ![r].list = o, ![r].full = f]
    BY Zenon, <1>1, <2>2
  <2>4. PICK g \in BOOLEAN : g = f
    OBVIOUS
  <2> HIDE DEF p, o, f
  <2>5. /\ Onward(r) /\ req'[r].pc = "replant" /\ req'[r].c = req[r].c /\ req'[r].seen.pos = p
        /\ req'[r].full = g
    <3> DEFINE row == [req[r].seen EXCEPT !.pos = p]
               q == [req[r] EXCEPT !.pc = "replant", !.seen = row, !.list = o, !.full = g]
    <3>1. req' = [req EXCEPT ![r] = q]
      BY <1>1, <2>3, <2>4
    <3>2. row.pos = p
      BY <1>1 DEF Rows
    <3> HIDE DEF row
    <3>3. /\ q.pc = "replant" /\ q.c = req[r].c /\ q.seen = row /\ q.full = g /\ q.alone = req[r].alone
          /\ q.reply = req[r].reply
      BY Zenon, <1>1 DEF Queries
    <3> HIDE DEF q
    <3> QED
      BY <1>1, <3>1, <3>2, <3>3 DEF Onward
  <2>6. Solo(r)'
    <3>1. req'[r].c # None => ~Taken(chapter', req'[r].seen.pos, req'[r].c)
      BY <2>1, <2>2, <2>5
    <3>2. req'[r].full => chapter'[req'[r].c].row = "none"
      BY <2>2, <2>4, <2>5 DEF f
    <3> QED
      BY <2>5, <3>1, <3>2 DEF Solo, Saving
  <2> QED
    BY <2>5, <2>6 DEF Fair
<1>6. CASE Replant(r)
  <2> DEFINE clash == req[r].c # None /\ (\/ Taken(chapter, req[r].seen.pos, req[r].c)
                                          \/ req[r].full /\ chapter[req[r].c].row # "none")
  <2>1. (clash /\ Conflict(r)) \/ Reply(r, "ok")
    BY <1>6 DEF Replant
  <2>2. clash => ~req[r].alone
    BY <1>6 DEF Solo, Replant, At
  <2> QED
    BY Zenon, <2>1, <2>2, NoOwnConflict, FairReply
<1>7. CASE Purge(r)
  <2>1. \E x \in {"ok", "notfound"} : Reply(r, x)
    BY <1>7 DEF Purge
  <2> QED
    BY Zenon, <2>1, FairReply
<1> QED
  BY <1>2, <1>3, <1>4, <1>5, <1>6, <1>7

LEMMA FairNovel ==
  ASSUME TypeOK, NEW r \in Requests, req[r].alone => Solo(r),
         \/ BundleChapters(r) \/ BundleOutline(r) \/ CheckpointFails(r) \/ ReadCurrent(r) \/ Restore(r)
         \/ Fail(r) \/ UncacheFails(r)
  PROVE  Fair(r)
<1>1. Asking /\ chapter \in Books /\ req[r] \in Queries /\ req \in [Requests -> Queries]
  BY Doing DEF TypeOK
<1>2. {"current", "count", "boutline"} \cap (SoloPlaces \cup {"idle", "done"}) = {}
  BY DEF SoloPlaces, Saving
<1>3. CASE BundleChapters(r)
  <2> DEFINE b == [c \in Chapters |-> IF c \in Live THEN chapter[c] ELSE NoRow]
  <2>1. req' = [req EXCEPT ![r].pc = "boutline", ![r].book = b]
    BY <1>3 DEF BundleChapters
  <2> HIDE DEF b
  <2>2. Onward(r) /\ req'[r].pc = "boutline"
    BY Zenon, <1>1, <2>1 DEF Onward, Queries
  <2> QED
    BY Zenon, <1>2, <2>2, SoloElsewhere DEF Fair
<1>4. CASE BundleOutline(r)
  <2>1. Reply(r, "ok") \/ Goto(r, "current")
    BY <1>4 DEF BundleOutline
  <2> QED
    BY Zenon, <1>1, <1>2, <2>1, GoingElsewhere, FairReply
<1>5. CASE CheckpointFails(r)
  BY <1>1, <1>2, <1>5, GoingElsewhere DEF CheckpointFails
<1>6. CASE ReadCurrent(r)
  <2> DEFINE b == [c \in Chapters |-> IF c \in Live THEN chapter[c] ELSE NoRow]
             then == bundle[req[r].pick].book
  <2>1. b \in Books /\ LiveIn(b) = Live /\ \A c \in Live : b[c] = chapter[c]
    BY <1>1, LiveRead DEF Live
  <2>2. req' = [req EXCEPT ![r].pc = "revert", ![r].book = b] /\ UNCHANGED <<chapter, bundle>>
    BY <1>6 DEF ReadCurrent, tables
  <2>3. then \in Books /\ req[r].full \in BOOLEAN
    <3>1. req[r].kind \in {"bundle", "revert"} /\ Course(req[r].kind, "current")
      BY <1>1, <1>6, OfTheNovel DEF ReadCurrent, At
    <3>2. req[r].kind = "revert"
      BY <3>1 DEF Course
    <3>3. bundle[req[r].pick] \in Bundles
      BY <1>1, <3>2, Doing DEF Backed
    <3> QED
      BY <1>1, <3>3, Doing DEF Bundles
  <2> HIDE DEF b, then
  <2>4. RestoredOn(chapter, then, b, req[r].full).ok
    <3>1. Restored(then, b, req[r].full).ok
      BY <1>1, <2>1, <2>3, VersionFits
    <3> QED
      BY <3>1, RestoredHere
  <2>5. /\ Onward(r) /\ req'[r].pc = "revert" /\ req'[r].book = b /\ req'[r].full = req[r].full
        /\ req'[r].pick = req[r].pick
    BY Zenon, <1>1, <2>2 DEF Onward, Queries
  <2>6. RestoredOn(chapter', bundle'[req'[r].pick].book, req'[r].book, req'[r].full).ok
    BY <2>2, <2>4, <2>5 DEF then
  <2>7. Solo(r)'
    BY <2>5, <2>6 DEF Solo, Saving
  <2> QED
    BY <2>5, <2>7 DEF Fair
<1>7. CASE Restore(r)
  <2> DEFINE s == Restored(bundle[req[r].pick].book, req[r].book, req[r].full)
  <2>1. (s.ok /\ Reply(r, "ok")) \/ (~s.ok /\ Conflict(r))
    BY <1>7 DEF Restore
  <2>2. req[r].alone => s.ok
    BY <1>7, RestoredHere DEF Solo, Restore, At
  <2> HIDE DEF s
  <2> QED
    BY Zenon, <2>1, <2>2, NoOwnConflict, FairReply
<1>8. CASE Fail(r)
  <2>1. \E x \in {"ok", "error"} : Reply(r, x)
    BY <1>8 DEF Fail
  <2> QED
    BY Zenon, <2>1, FairReply
<1>9. CASE UncacheFails(r)
  BY <1>1, <1>2, <1>9, GoingElsewhere DEF UncacheFails
<1> QED
  BY <1>3, <1>4, <1>5, <1>6, <1>7, <1>8, <1>9

LEMMA ArrivalIsFair ==
  ASSUME Asking, Asking', NEW r \in Requests, NEW q, Arrive(r, q), UNCHANGED chapter,
         q.pc \notin {"idle", "done"}, q.pc \in SoloPlaces => q.pc = "reorder",
         q.pc = "reorder" => Lists(q.list, Live), q.reply = "none"
  PROVE  /\ \A x \in Requests : req'[x].alone => InFlight' = {x} /\ Solo(x)'
         /\ \A x \in Requests : req'[x].reply = "own conflict" => req[x].reply = "own conflict"
<1>1. PICK f, g \in BOOLEAN : f = FALSE /\ g = (InFlight = {})
  OBVIOUS
<1>2. req \in [Requests -> Queries] /\ req' \in [Requests -> Queries]
  BY DEF Asking
<1>3. ASSUME NEW x \in Requests \ {r}
      PROVE  req'[x].pc = req[x].pc /\ req'[x].reply = req[x].reply /\ ~req'[x].alone
  <2>1. PICK y \in Queries : y = req[x] /\ req'[x] = [y EXCEPT !.alone = f]
    BY <1>1, <1>2 DEF Arrive
  <2>2. LET z == [y EXCEPT !.alone = f] IN z.pc = y.pc /\ z.reply = y.reply /\ z.alone = f
    BY ONLY Zenon, <2>1 DEF Queries
  <2> QED
    BY <1>1, <2>1, <2>2
<1>4. req'[r].pc = q.pc /\ req'[r].list = q.list /\ req'[r].reply = q.reply /\ req'[r].alone = g
  <2>1. PICK n \in Queries : n = req'[r] /\ n = [q EXCEPT !.alone = g]
    BY <1>1, <1>2 DEF Arrive
  <2>2. n.pc = q.pc /\ n.list = q.list /\ n.reply = q.reply /\ n.alone = g
    BY ONLY Zenon, <2>1 DEF Queries
  <2> QED
    BY <2>1, <2>2
<1>5. ASSUME req'[r].alone PROVE InFlight' = {r}
  BY <1>1, <1>3, <1>4, <1>5 DEF InFlight
<1>6. Solo(r)'
  <2>1. Live' = Live
    BY DEF Live
  <2> QED
    BY <1>4, <2>1 DEF Solo, SoloPlaces, Saving
<1> QED
  BY Zenon, <1>3, <1>4, <1>5, <1>6

(* Every step of a request is fair to it, or brings it.                    *)
LEMMA FairSteps ==
  ASSUME TypeOK, NEW r \in Requests, req[r].alone => Solo(r), Step(r) \/ Fail(r) \/ UncacheFails(r)
  PROVE  \/ Fair(r)
         \/ AskCreate(r) \/ AskOpen(r) \/ AskReorder(r) \/ AskRead(r) \/ AskSave(r) \/ AskRollback(r)
         \/ AskPut(r) \/ AskTrash(r) \/ AskBin(r) \/ AskBundle(r) \/ AskRevert(r)
<1>1. CASE ChapterStep(r)
  BY <1>1, FairCreation, FairReads, FairSaving DEF ChapterStep
<1>2. CASE HistoryStep(r)
  BY <1>2, FairSaving DEF HistoryStep
<1>3. CASE OutlineStep(r)
  BY <1>3, FairOutlines, FairBin DEF OutlineStep
<1>4. CASE NovelStep(r) \/ Fail(r) \/ UncacheFails(r)
  BY <1>4, FairNovel DEF NovelStep
<1> QED
  BY <1>1, <1>2, <1>3, <1>4 DEF Step

Unhindered == Alone /\ AloneNeverConflicts

LEMMA UnhinderedInit == Init => Unhindered
<1>1. ~Fresh.alone /\ Fresh.reply = "none"
  BY DEF Fresh
<1>2. Init => \A r \in Requests : ~req[r].alone /\ req[r].reply = "none"
  BY <1>1 DEF Init
<1> QED
  BY Zenon, <1>2 DEF Unhindered, Alone, AloneNeverConflicts

LEMMA UnhinderedBySteps ==
  ASSUME TypeOK, TypeOK', Unhindered, NEW r \in Requests, Step(r) \/ Fail(r) \/ UncacheFails(r)
  PROVE  Unhindered'
<1>1. req[r].alone => Solo(r)
  BY DEF TypeOK, Unhindered, Alone
<1>2. Asking /\ Asking' /\ req \in [Requests -> Queries]
  BY DEF TypeOK, Asking
<1>3. ASSUME NEW x \in Requests \ {r}, req'[x].alone PROVE FALSE
  <2>1. req[x].alone /\ r \in InFlight
    BY <1>3, Sorts DEF Beside, InFlight
  <2> QED
    BY <2>1 DEF Unhindered, Alone
<1>4. CASE Fair(r)
  <2>1. CASE \E x : x # "own conflict" /\ Reply(r, x)
    <3>1. PICK x : x # "own conflict" /\ Reply(r, x)
      BY Zenon, <2>1
    <3>2. ~Answered(req[r], x).alone /\ Answered(req[r], x).reply = "other"
      BY Zenon, <1>2, <3>1, AnsweredQuery
    <3>3. ~req'[r].alone /\ req'[r].reply = "other" /\ \A y \in Requests \ {r} : req'[y] = req[y]
      BY Zenon, <1>2, <3>1, <3>2 DEF Reply
    <3> QED
      BY Zenon, <1>3, <3>3 DEF Unhindered, Alone, AloneNeverConflicts
  <2>2. CASE Onward(r) /\ (req[r].alone => Solo(r)')
    <3>1. ASSUME req'[r].alone PROVE InFlight' = {r} /\ Solo(r)'
      <4>1. req[r].alone /\ InFlight = {r}
        BY <2>2, <3>1 DEF Onward, Unhindered, Alone
      <4> QED
        BY <2>2, <4>1 DEF Onward, InFlight
    <3>2. \A y \in Requests : req'[y].reply = req[y].reply
      BY <2>2 DEF Onward
    <3> QED
      BY Zenon, <1>3, <3>1, <3>2 DEF Unhindered, Alone, AloneNeverConflicts
  <2> QED
    BY Zenon, <1>4, <2>1, <2>2 DEF Fair
<1>5. CASE \/ AskCreate(r) \/ AskOpen(r) \/ AskReorder(r) \/ AskRead(r) \/ AskSave(r) \/ AskRollback(r)
           \/ AskPut(r) \/ AskTrash(r) \/ AskBin(r) \/ AskBundle(r) \/ AskRevert(r)
  <2>1. PICK q : /\ Arrive(r, q) /\ q.reply = "none" /\ (q.pc = "reorder" => Lists(q.list, Live))
                 /\ q.pc \in {"max", "reorder", "cache", "load", "upsert", "tread", "find", "purge",
                              "bchapters"}
    BY <1>5, Asks
  <2>2. UNCHANGED chapter
    BY <1>5, Asks DEF tables
  <2>3. q.pc \notin {"idle", "done"} /\ (q.pc \in SoloPlaces => q.pc = "reorder")
    BY <2>1 DEF SoloPlaces, Saving
  <2> QED
    BY Zenon, <1>2, <2>1, <2>2, <2>3, ArrivalIsFair DEF Unhindered, Alone, AloneNeverConflicts
<1> QED
  BY <1>1, <1>4, <1>5, FairSteps

LEMMA UnhinderedSteps ==
  ASSUME TypeOK, TypeOK', Unhindered, [Next]_vars
  PROVE  Unhindered'
<1>1. CASE UNCHANGED <<req, chapter, outline, bundle>>
  <2>1. InFlight' = InFlight /\ Live' = Live
    BY <1>1 DEF InFlight, Live
  <2>2. ASSUME NEW r \in Requests, Solo(r) PROVE Solo(r)'
    BY <1>1, <2>1, <2>2 DEF Solo
  <2> QED
    BY Zenon, <1>1, <2>1, <2>2 DEF Unhindered, Alone, AloneNeverConflicts
<1>2. CASE \E r \in Requests : Step(r) \/ Fail(r) \/ UncacheFails(r)
  BY <1>2, UnhinderedBySteps
<1>3. CASE Restart
  <2>1. ASSUME NEW r \in Requests
        PROVE  ~req'[r].alone /\ req'[r].reply # "own conflict"
    <3>1. ~Answered(req[r], "lost").alone /\ Answered(req[r], "lost").reply = "other"
      BY Zenon, AnsweredQuery DEF TypeOK
    <3>2. req'[r] = IF r \in InFlight THEN Answered(req[r], "lost") ELSE req[r]
      BY <1>3 DEF Restart
    <3>3. req[r].alone => r \in InFlight
      BY DEF Unhindered, Alone
    <3> QED
      BY Zenon, <3>1, <3>2, <3>3 DEF Unhindered, AloneNeverConflicts
  <2> QED
    BY Zenon, <2>1 DEF Unhindered, Alone, AloneNeverConflicts
<1>4. CASE SweepExpiredVersions \/ CacheExpires \/ LoadOutline \/ Quiet \/ UNCHANGED vars
  BY <1>1, <1>4 DEF SweepExpiredVersions, CacheExpires, LoadOutline, Quiet, vars, tables
<1> QED
  BY <1>2, <1>3, <1>4 DEF Next

(* A request that nothing overlaps is the only one in progress and finds   *)
(* at its write what it has read, at every moment of its way.              *)
THEOREM AloneIsUnhindered == Spec => []Unhindered
<1>1. TypeOK /\ TypeOK' /\ Unhindered /\ [Next]_vars => Unhindered'
  BY UnhinderedSteps
<1> QED
  BY <1>1, UnhinderedInit, TypeCorrect, PTL DEF Spec

(* A request that no other overlaps meets no violation of the index.       *)
THEOREM NoConflictAlone == Spec => []AloneNeverConflicts
<1>1. Unhindered => AloneNeverConflicts
  BY DEF Unhindered
<1> QED
  BY <1>1, AloneIsUnhindered, PTL

(* A request about to order the chapters ends well by doing so.            *)
LEMMA OnlyByOrdering ==
  ASSUME TypeOK, Next, NEW r \in Requests, req[r].pc = "order", req'[r].pc = "done", faults' = faults
  PROVE  ResyncPositions(r)
<1>1. faults \in Nat /\ Asking
  BY DEF TypeOK
<1>2. ~Fault
  BY <1>1 DEF Fault
<1>3. ~Restart /\ ~(\E x \in Requests : Fail(x) \/ UncacheFails(x))
  BY <1>2 DEF Restart, Fail, UncacheFails
<1>4. ~(SweepExpiredVersions \/ CacheExpires \/ LoadOutline \/ Quiet)
  BY DEF SweepExpiredVersions, CacheExpires, LoadOutline, Quiet, vars, tables
<1>5. PICK x \in Requests : Step(x)
  BY <1>3, <1>4 DEF Next
<1>6. Step(r)
  <2>1. req'[r].pc = req[r].pc \/ x = r
    BY <1>5, Sorts DEF Beside
  <2> QED
    BY <1>5, <2>1
<1>7. ~ChapterStep(r)
  <2>1. ~(AskCreate(r) \/ AskOpen(r) \/ AskReorder(r) \/ AskRead(r) \/ AskSave(r))
    BY DEF AskCreate, AskOpen, AskReorder, AskRead, AskSave, At
  <2>2. ~(GetMaxPosition(r) \/ CreateAtEnd(r) \/ SeeShifted(r) \/ CreateAtPosition(r) \/ Reorder(r))
    BY DEF GetMaxPosition, CreateAtEnd, SeeShifted, CreateAtPosition, Reorder, At
  <2>3. ~(AskCache(r) \/ Fill(r) \/ GetByID(r) \/ LookAtLatest(r) \/ KeepVersion(r) \/ FindBoundary(r))
    BY DEF AskCache, Fill, GetByID, LookAtLatest, KeepVersion, FindBoundary, At
  <2>4. ~(PruneAuto(r) \/ SnapshotFails(r) \/ Save(r) \/ Delete(r) \/ Uncache(r))
    BY DEF PruneAuto, SnapshotFails, Save, Delete, Uncache, At
  <2>5. ~(RefreshNovelWordCount(r) \/ AgentLoads(r) \/ AgentKeeps(r))
    BY DEF RefreshNovelWordCount, AgentLoads, AgentKeeps, At
  <2> QED
    BY <2>1, <2>2, <2>3, <2>4, <2>5 DEF ChapterStep
<1>8. ~HistoryStep(r)
  BY DEF HistoryStep, AskRollback, Target, Checkpoint, CreateSnapshot, At
<1>9. ~NovelStep(r)
  <2>1. ~(AskBundle(r) \/ AskRevert(r) \/ BundleChapters(r) \/ BundleOutline(r))
    BY DEF AskBundle, AskRevert, BundleChapters, BundleOutline, Arrive, At
  <2>2. ~(CheckpointFails(r) \/ ReadCurrent(r) \/ Restore(r))
    BY DEF CheckpointFails, ReadCurrent, Restore, At
  <2> QED
    BY <2>1, <2>2 DEF NovelStep
<1>10. OutlineStep(r)
  BY <1>6, <1>7, <1>8, <1>9 DEF Step
<1>11. ~(BindRead(r) \/ BindChapterToOutline(r) \/ AskPut(r) \/ HandleOpenBody(r) \/ UpdateOutline(r))
  BY DEF BindRead, BindChapterToOutline, AskPut, HandleOpenBody, UpdateOutline, At
<1>12. ~(SyncRead(r) \/ SyncBindings(r) \/ AskTrash(r) \/ TrashRead(r) \/ TrashNode(r))
  BY DEF SyncRead, SyncBindings, AskTrash, TrashRead, TrashNode, At
<1>13. ~(AskBin(r) \/ FindInBin(r) \/ Revive(r) \/ Replant(r) \/ Purge(r))
  BY DEF AskBin, FindInBin, Revive, Replant, Purge, At
<1> QED
  BY <1>10, <1>11, <1>12, <1>13 DEF OutlineStep

(* What it leaves when nothing overlaps it.                                *)
LEMMA Ordering ==
  ASSUME TypeOK, NEW r \in Requests, req[r].pc = "order", Solo(r), ResyncPositions(r)
  PROVE  LET at(c) == chapter'[c].pos IN
         /\ \A i, j \in DOMAIN outline' :
              LET c == outline'[i].chapter
                  d == outline'[j].chapter IN
              c # None => /\ c \in LiveIn(chapter')
                          /\ (i < j /\ d # None) => at(c) < at(d)
         /\ \A c, d \in LiveIn(chapter') :
              Referenced(outline', c) /\ ~Referenced(outline', d) => at(c) < at(d)
<1> DEFINE b == req[r].book
           ids == InOutlineOrder(outline, b)
           o == ReorderByIDs(chapter, ids)
<1>1. /\ chapter \in Books /\ b \in Books /\ outline \in Outlines
  BY Doing DEF TypeOK
<1>2. /\ req[r].list = outline /\ LiveIn(b) = LiveIn(chapter) /\ Tidy(outline, b)
      /\ \A c \in LiveIn(chapter) : b[c] = chapter[c]
  BY DEF Solo, Live, LiveIn
<1>3. /\ outline' = outline
      /\ chapter' = IF ids = ByPosition(b, LiveIn(b)) THEN chapter
                    ELSE IF o.found /\ o.ok THEN o.book ELSE chapter
  BY <1>2 DEF ResyncPositions
<1>4. Sanitized(outline, b) = outline
  BY <1>1, <1>2, TidyStays
<1>5. /\ Lists(ids, LiveIn(b)) /\ Len(ids) \in Nat /\ DOMAIN ids = 1..Len(ids)
      /\ \A k, l \in DOMAIN ids :
           (\E i, j \in DOMAIN outline : i < j /\ ids[k] = outline[i].chapter /\ ids[l] = outline[j].chapter)
             => k < l
      /\ \A k, l \in DOMAIN ids : Referenced(outline, ids[k]) /\ ~Referenced(outline, ids[l]) => k < l
  BY <1>1, <1>4, OutlineOrder
<1> HIDE DEF b, ids, o
<1>6. /\ LiveIn(chapter') = LiveIn(chapter)
      /\ \A k, l \in DOMAIN ids : k < l => chapter'[ids[k]].pos < chapter'[ids[l]].pos
  <2>1. CASE ids = ByPosition(b, LiveIn(b))
    <3>1. \A k, l \in DOMAIN ids : k < l => b[ids[k]].pos < b[ids[l]].pos
      BY <1>1, <2>1, ByPositionLists
    <3>2. \A k \in DOMAIN ids : ids[k] \in LiveIn(chapter)
      BY <1>2, <1>5 DEF Lists, Range
    <3> QED
      BY <1>2, <1>3, <2>1, <3>1, <3>2
  <2>2. CASE ids # ByPosition(b, LiveIn(b))
    <3>1. ids \in Seq(Chapters)
      <4>1. LiveIn(b) \in SUBSET Chapters
        BY DEF LiveIn
      <4> QED
        BY <1>5, <4>1, SeqMonotonic DEF Lists
    <3>2. /\ o.found /\ o.ok /\ o.book = Placed(chapter, ids)
          /\ \A k \in DOMAIN ids : o.book[ids[k]].pos = k - 1
      BY <1>1, <1>2, <1>5, <3>1, Reordered DEF o
    <3>3. LiveIn(o.book) = LiveIn(chapter)
      BY <1>1, <3>1, <3>2, PlacedRows
    <3>4. chapter' = o.book
      BY <1>3, <2>2, <3>2
    <3>5. \A k, l \in DOMAIN ids : k < l => k - 1 < l - 1
      BY <1>5
    <3> QED
      BY <3>2, <3>3, <3>4, <3>5
  <2> QED
    BY <2>1, <2>2
<1>7. \A c \in LiveIn(chapter) : \E k \in DOMAIN ids : ids[k] = c
  BY <1>2, <1>5 DEF Lists, Range
<1>8. ASSUME NEW i \in DOMAIN outline, outline[i].chapter # None
      PROVE  outline[i].chapter \in LiveIn(chapter)
  BY <1>2, <1>8 DEF Tidy
<1>9. ASSUME NEW i \in DOMAIN outline, NEW j \in DOMAIN outline, i < j,
             outline[i].chapter # None, outline[j].chapter # None
      PROVE  chapter'[outline[i].chapter].pos < chapter'[outline[j].chapter].pos
  <2>1. PICK k \in DOMAIN ids : ids[k] = outline[i].chapter
    BY <1>7, <1>8, <1>9
  <2>2. PICK l \in DOMAIN ids : ids[l] = outline[j].chapter
    BY <1>7, <1>8, <1>9
  <2>3. k < l
    BY <1>5, <1>9, <2>1, <2>2
  <2> QED
    BY <1>6, <2>1, <2>2, <2>3
<1>10. ASSUME NEW c \in LiveIn(chapter), NEW d \in LiveIn(chapter), Referenced(outline, c), ~Referenced(outline, d)
       PROVE  chapter'[c].pos < chapter'[d].pos
  <2>1. PICK k \in DOMAIN ids : ids[k] = c
    BY <1>7
  <2>2. PICK l \in DOMAIN ids : ids[l] = d
    BY <1>7
  <2>3. k < l
    BY <1>5, <1>10, <2>1, <2>2
  <2> QED
    BY <1>6, <2>1, <2>2, <2>3
<1> QED
  BY <1>3, <1>6, <1>8, <1>9, <1>10

(* An outline save of the panel that nothing overlaps ends with the        *)
(* chapters in the order of their nodes and every binding to a live one.   *)
THEOREM SavedOutlineOrders == Spec => OutlineOrders
<1> DEFINE Ordered(r) ==
      LET at(c) == chapter'[c].pos IN
         /\ \A i, j \in DOMAIN outline' :
              LET c == outline'[i].chapter
                  d == outline'[j].chapter IN
              c # None => /\ c \in LiveIn(chapter')
                          /\ (i < j /\ d # None) => at(c) < at(d)
         /\ \A c, d \in LiveIn(chapter') :
              Referenced(outline', c) /\ ~Referenced(outline', d) => at(c) < at(d)
           Body == \A r \in Requests :
             (At(r, "order") /\ req'[r].pc = "done" /\ req[r].alone /\ faults' = faults) => Ordered(r)
<1>1. TypeOK /\ Unhindered /\ [Next]_vars => [Body]_vars
  <2> SUFFICES ASSUME TypeOK, Unhindered, Next, NEW r \in Requests, At(r, "order"), req'[r].pc = "done",
                      req[r].alone, faults' = faults
               PROVE  Ordered(r)
    OBVIOUS
  <2>1. ResyncPositions(r) /\ Solo(r) /\ req[r].pc = "order"
    BY OnlyByOrdering DEF At, Unhindered, Alone
  <2> QED
    BY <2>1, Ordering
<1>2. Spec => [][Body]_vars
  BY <1>1, TypeCorrect, AloneIsUnhindered, PTL DEF Spec
<1> QED
  BY <1>2 DEF OutlineOrders

===============================================================================
