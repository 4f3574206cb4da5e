---------------------------- MODULE Editor_proofs -----------------------------
(***************************************************************************)
(* Proofs about Editor, for any chapters, any other tabs, and any number   *)
(* of events: unsaved text has a draft in localStorage or on its way       *)
(* there, and what a tab shows is under way is under way.  Then about what *)
(* is poured over an open tab: the versions of a whole novel (Milestones), *)
(* and those of a chapter (VersionPanel), through the module both panels   *)
(* are instances of (DiffViewer).                                          *)
(***************************************************************************)
EXTENDS Editor, DiffViewer, Integers, FiniteSetTheorems, FunctionTheorems, SequenceTheorems, TLAPS

Draft == Text \cup {Absent}
Tab   == [draft : Text, dirty : BOOLEAN, status : {"idle", "saving", "saved", "error"},
          loadError : BOOLEAN, work : {"stored", "unsaved", "outrun", "replaced"}]
Page  == [tabs : Seq(TabKeys), active : TabKeys \cup {NoKey}, tab : [TabKeys -> Tab],
          mounted : Chapters \cup {NoKey}, doc : Text, unsynced : BOOLEAN,
          current : Chapters \cup {NoKey}, content : Text, listed : BOOLEAN, listing : BOOLEAN,
          timers : SUBSET Chapters, pending : [Chapters -> Draft],
          target : Chapters \cup {NoKey}, prev : Text, generating : BOOLEAN, draft : Draft]
Count == Nat \ {0}
Save  == [c : Chapters, body : Text, again : BOOLEAN, n : Count]
Load  == [c : Chapters, text : Text, n : Count]
Gen   == [c : Chapters, n : Count]
Timer == [c : Chapters, body : Text, held : BOOLEAN, n : Count]

TypeOK ==
  /\ ed \in Page
  /\ vault \in [Chapters -> Draft] /\ snap \in [Chapters -> Draft] /\ server \in [Chapters -> Text]
  /\ saves \subseteq Save /\ IsFiniteSet(saves)
  /\ loads \subseteq Load /\ IsFiniteSet(loads)
  /\ gens \subseteq Gen /\ IsFiniteSet(gens)
  /\ saveRetries \subseteq Timer /\ IsFiniteSet(saveRetries)
  /\ spent \in 0..MaxEvents

(* A page that can be shown: the active tab is open, a tab that is not     *)
(* open is blank, and what is unsaved is dirty, and backed up as it is.    *)
Sound(e, drafts) ==
  /\ e \in Page
  /\ e.active = NoKey \/ Open(e, e.active)
  /\ \A k \in TabKeys : ~Open(e, k) => e.tab[k].work # "unsaved" /\ e.tab[k].status = "idle"
  /\ \A c \in Chapters :
       e.tab[c].work = "unsaved" => e.tab[c].dirty /\ Backup(e, c, drafts) = e.tab[c].draft

(* What its tabs say about saves and retries is so.                        *)
Honest(e, ss, rr) ==
  \A c \in Chapters : /\ e.tab[c].status = "saving" => \E s \in ss : s.c = c
                      /\ e.tab[c].status = "error"  => \E r \in rr : r.c = c

IInv == TypeOK /\ Sound(ed, vault) /\ Honest(ed, saves, saveRetries)

-------------------------------------------------------------------------------
(* A number for a new request: the ones taken are too few to take all.     *)
LEMMA FreshNumber ==
  ASSUME NEW S, IsFiniteSet(S)
  PROVE  Fresh(S) \in Count
<1> DEFINE k == Cardinality(S)
           T == {r \in S : r.n \in 1..(k + 1)}
           f == [r \in T |-> r.n]
<1>1. k \in Nat /\ IsFiniteSet(T) /\ Cardinality(T) <= k
  BY FS_CardinalityType, FS_Subset
<1>2. IsFiniteSet(1..(k + 1)) /\ Cardinality(1..(k + 1)) = k + 1
  <2> HIDE DEF k
  <2> QED
    BY <1>1, FS_Interval
<1>3. \E n \in 1..(k + 1) : \A r \in S : r.n # n
  <2> SUFFICES ASSUME \A n \in 1..(k + 1) : \E r \in S : r.n = n PROVE FALSE
    OBVIOUS
  <2> HIDE DEF k
  <2>1. f \in Surjection(T, 1..(k + 1))
    BY <1>1 DEF Surjection
  <2>2. Cardinality(1..(k + 1)) <= Cardinality(T) /\ Cardinality(T) \in Nat
    <3> HIDE DEF T, f
    <3> QED
      BY <2>1, <1>1, FS_Surjection, FS_CardinalityType
  <2> HIDE DEF T
  <2> QED
    BY <1>1, <1>2, <2>2
<1> QED
  BY <1>1, <1>3 DEF Fresh, Count

(* A filter leaves the tabs of the set, all of them and no others.         *)
LEMMA KeptTabs ==
  ASSUME NEW tabs \in Seq(TabKeys), NEW keys
  PROVE  /\ Kept(tabs, keys) \in Seq(TabKeys)
         /\ ToSet(Kept(tabs, keys)) = ToSet(tabs) \cap keys
<1> DEFINE at == {i \in DOMAIN tabs : tabs[i] \in keys}
           n  == Cardinality(at)
           upto(i) == {h \in at : h <= i}
           rank == [i \in at |-> Cardinality(upto(i))]
           nth(j) == CHOOSE i \in at : Cardinality(upto(i)) = j
<1>1. at \subseteq 1..Len(tabs) /\ Len(tabs) \in Nat /\ at \subseteq Nat
  OBVIOUS
<1>2. IsFiniteSet(at) /\ n \in Nat
  <2>1. IsFiniteSet(1..Len(tabs))
    BY <1>1, FS_Interval
  <2> HIDE DEF at
  <2> QED
    BY <1>1, <2>1, FS_Subset, FS_CardinalityType
<1>3. ASSUME NEW i \in at PROVE upto(i) \in SUBSET at /\ IsFiniteSet(upto(i)) /\ Cardinality(upto(i)) \in 1..n
  <2>1. upto(i) \in SUBSET at /\ i \in upto(i)
    BY <1>1
  <2>2. IsFiniteSet(upto(i)) /\ Cardinality(upto(i)) <= n /\ Cardinality(upto(i)) \in Nat
    <3> HIDE DEF at, upto
    <3> QED
      BY <2>1, <1>2, FS_Subset, FS_CardinalityType
  <2>3. Cardinality(upto(i)) # 0
    <3> HIDE DEF upto
    <3> QED
      BY <2>1, <2>2, FS_EmptySet
  <2> HIDE DEF upto, at
  <2> QED
    BY <2>1, <2>2, <2>3, <1>2
<1>4. ASSUME NEW i \in at, NEW h \in at, i < h PROVE Cardinality(upto(i)) # Cardinality(upto(h))
  <2>1. upto(i) \in SUBSET upto(h) /\ h \in upto(h) /\ h \notin upto(i)
    BY <1>4, <1>1
  <2> HIDE DEF upto, at
  <2> QED
    BY <2>1, <1>3, FS_Subset
<1>5. rank \in Injection(at, 1..n)
  <2>1. rank \in [at -> 1..n]
    BY <1>3
  <2>2. ASSUME NEW i \in at, NEW h \in at, rank[i] = rank[h] PROVE i = h
    <3>1. i \in Nat /\ h \in Nat
      BY <1>1
    <3>2. ~(i < h) /\ ~(h < i)
      BY <2>2, <1>4
    <3> QED
      BY <3>1, <3>2
  <2> HIDE DEF rank
  <2> QED
    BY <2>1, <2>2 DEF Injection, IsInjective
<1>6. rank \in Surjection(at, 1..n)
  <2>1. IsFiniteSet(1..n) /\ Cardinality(1..n) = n
    <3> HIDE DEF n
    <3> QED
      BY <1>2, FS_Interval
  <2> HIDE DEF rank
  <2> QED
    BY <2>1, <1>2, <1>5, FS_Injection
<1>7. ASSUME NEW j \in 1..n PROVE nth(j) \in at /\ Cardinality(upto(nth(j))) = j
  <2>1. \E i \in at : rank[i] = j
    <3> HIDE DEF rank, at
    <3> QED
      BY <1>6 DEF Surjection
  <2>2. \E i \in at : Cardinality(upto(i)) = j
    <3> HIDE DEF upto, at
    <3> QED
      BY <2>1
  <2> HIDE DEF upto, at
  <2> QED
    BY <2>2
<1>8. Kept(tabs, keys) = [j \in 1..n |-> tabs[nth(j)]]
  BY DEF Kept
<1>9. ASSUME NEW i \in at PROVE \E j \in 1..n : nth(j) = i
  <2>1. Cardinality(upto(i)) \in 1..n
    BY <1>3
  <2>2. nth(Cardinality(upto(i))) \in at /\ Cardinality(upto(nth(Cardinality(upto(i))))) = Cardinality(upto(i))
    BY <2>1, <1>7
  <2>3. ASSUME NEW h \in at, Cardinality(upto(h)) = Cardinality(upto(i)) PROVE h = i
    <3>1. i \in Nat /\ h \in Nat
      BY <1>1
    <3> HIDE DEF upto, at
    <3> QED
      BY <2>3, <3>1, <1>4
  <2> HIDE DEF upto, at, nth
  <2> QED
    BY <2>1, <2>2, <2>3
<1> HIDE DEF nth, n
<1>10. \A j \in 1..n : tabs[nth(j)] \in TabKeys /\ tabs[nth(j)] \in ToSet(tabs) \cap keys
  <2> SUFFICES ASSUME NEW j \in 1..n PROVE tabs[nth(j)] \in TabKeys /\ tabs[nth(j)] \in ToSet(tabs) \cap keys
    OBVIOUS
  <2>1. nth(j) \in at
    BY <1>7
  <2> QED
    BY <2>1 DEF ToSet
<1>11. Kept(tabs, keys) \in Seq(TabKeys)
  BY <1>8, <1>10, <1>2
<1>12. ToSet(Kept(tabs, keys)) \subseteq ToSet(tabs) \cap keys
  BY <1>8, <1>10 DEF ToSet
<1>13. ToSet(tabs) \cap keys \subseteq ToSet(Kept(tabs, keys))
  <2> SUFFICES ASSUME NEW x \in ToSet(tabs) \cap keys PROVE x \in ToSet(Kept(tabs, keys))
    OBVIOUS
  <2>1. PICK i \in at : tabs[i] = x
    BY DEF ToSet
  <2>2. PICK j \in 1..n : nth(j) = i
    BY <1>9
  <2> QED
    BY <2>1, <2>2, <1>8 DEF ToSet
<1> QED
  BY <1>11, <1>12, <1>13

-------------------------------------------------------------------------------
LEMMA Texts ==
  /\ Empty \in Text /\ Absent \notin Text /\ Text \subseteq Draft /\ Absent \in Draft
  /\ \A t \in Draft : t # Absent => t \in Text
BY EditorAssumption DEF Text, Empty, Absent, Draft, AI

LEMMA NewTabs ==
  ASSUME NEW text \in Text
  PROVE  NewTab(text) \in Tab /\ NewTab(text).work # "unsaved" /\ NewTab(text).status = "idle"
BY DEF NewTab, Tab

LEMMA OpenIsKey ==
  ASSUME NEW e \in Page, NEW k, Open(e, k)
  PROVE  k \in TabKeys
BY DEF Open, ToSet, Page

(* Tabs change their status to "idle", if at all.                          *)
Calm(f, e) == \A c \in Chapters : f.tab[c].status \in {e.tab[c].status, "idle"}

LEMMA CalmIsHonest ==
  ASSUME NEW e, NEW f, NEW ss, NEW rr, Calm(f, e), Honest(e, ss, rr)
  PROVE  Honest(f, ss, rr)
BY DEF Calm, Honest

LEMMA SameTabsSound ==
  ASSUME NEW d, NEW e, Sound(e, d), NEW f \in Page, f.tabs = e.tabs, f.active = e.active, f.tab = e.tab,
         f.pending = e.pending
  PROVE  Sound(f, d) /\ Calm(f, e)
BY DEF Sound, Open, Calm, Backup

LEMMA OpenTabSound ==
  ASSUME NEW d, NEW e, Sound(e, d), NEW k \in TabKeys, NEW text \in Text
  PROVE  /\ Sound(OpenTab(e, k, text), d) /\ Calm(OpenTab(e, k, text), e)
         /\ Open(OpenTab(e, k, text), k) /\ OpenTab(e, k, text).active = k
         /\ OpenTab(e, k, text).pending = e.pending
<1>1. e \in Page
  BY DEF Sound
<1>2. CASE Open(e, k)
  <2>1. OpenTab(e, k, text) = [e EXCEPT !.active = k]
    BY <1>2 DEF OpenTab
  <2>2. [e EXCEPT !.active = k] \in Page
    BY <1>1 DEF Page
  <2> QED
    <3> DEFINE f == [e EXCEPT !.active = k]
    <3>1. f.tabs = e.tabs /\ f.active = k /\ f.tab = e.tab /\ f.pending = e.pending
      BY <1>1 DEF Page
    <3> HIDE DEF f
    <3> QED
      BY <1>2, <2>1, <2>2, <3>1 DEF Sound, Calm, Open, Backup, f
<1>3. CASE ~Open(e, k)
  <2> DEFINE f == [e EXCEPT !.tabs = Append(@, k), !.active = k, !.tab[k] = NewTab(text)]
  <2>1. OpenTab(e, k, text) = f
    BY <1>3 DEF OpenTab
  <2>2. NewTab(text) \in Tab /\ NewTab(text).work # "unsaved" /\ NewTab(text).status = "idle"
    BY NewTabs
  <2>3. /\ f \in Page /\ f.tabs = Append(e.tabs, k) /\ f.active = k /\ f.pending = e.pending
        /\ f.tab = [e.tab EXCEPT ![k] = NewTab(text)]
    <3>1. Append(e.tabs, k) \in Seq(TabKeys) /\ [e.tab EXCEPT ![k] = NewTab(text)] \in [TabKeys -> Tab]
      BY <1>1, <2>2 DEF Page
    <3> QED
      BY <1>1, <3>1 DEF Page
  <2>4. e.tabs \in Seq(TabKeys) /\ e.tab \in [TabKeys -> Tab] /\ Chapters \subseteq TabKeys
    BY <1>1 DEF Page, TabKeys
  <2> HIDE DEF f
  <2>5. ToSet(f.tabs) = ToSet(e.tabs) \cup {k}
    BY SMTT(60), <2>3, <2>4 DEF ToSet
  <2>6. \A x \in TabKeys : x # k => f.tab[x] = e.tab[x]
    BY <2>3, <2>4
  <2>7. f.tab[k] = NewTab(text)
    BY <2>3, <2>4
  <2> QED
    BY <2>1, <2>2, <2>3, <2>4, <2>5, <2>6, <2>7 DEF Sound, Calm, Open, Backup
<1> QED
  BY <1>2, <1>3

LEMMA SetActiveSound ==
  ASSUME NEW d, NEW e, Sound(e, d), NEW k \in TabKeys
  PROVE  Sound(SetActive(e, k), d) /\ Calm(SetActive(e, k), e)
<1>1. e \in Page
  BY DEF Sound
<1>2. Open(e, k) => [e EXCEPT !.active = k] \in Page
  BY <1>1 DEF Page
<1> QED
  <2>1. CASE Open(e, k)
    <3>1. SetActive(e, k) = [e EXCEPT !.active = k]
      BY <2>1 DEF SetActive
    <3> DEFINE f == [e EXCEPT !.active = k]
    <3>2. f \in Page /\ f.tabs = e.tabs /\ f.active = k /\ f.tab = e.tab /\ f.pending = e.pending
      BY <1>1, <1>2, <2>1 DEF Page
    <3> HIDE DEF f
    <3> QED
      BY <2>1, <3>1, <3>2 DEF Sound, Calm, Open, Backup, f
  <2>2. CASE ~Open(e, k)
    BY <2>2 DEF Calm, SetActive
  <2> QED
    BY <2>1, <2>2

(* A patch of an open tab.                                                 *)
LEMMA PatchTab ==
  ASSUME NEW e \in Page, NEW k \in TabKeys, NEW t \in Tab
  PROVE  /\ UpdateTab(e, k, t) \in Page
         /\ UpdateTab(e, k, t).tabs = e.tabs /\ UpdateTab(e, k, t).active = e.active
         /\ UpdateTab(e, k, t).pending = e.pending
         /\ \A x \in TabKeys : UpdateTab(e, k, t).tab[x] = IF x = k /\ Open(e, k) THEN t ELSE e.tab[x]
<1>1. CASE Open(e, k)
  <2> DEFINE f == [e EXCEPT !.tab[k] = t]
  <2>1. f \in Page /\ f.tabs = e.tabs /\ f.active = e.active /\ f.pending = e.pending /\ f.tab = [e.tab EXCEPT ![k] = t]
    BY DEF Page
  <2>2. e.tab \in [TabKeys -> Tab]
    BY DEF Page
  <2> HIDE DEF f
  <2>3. \A x \in TabKeys : f.tab[x] = IF x = k THEN t ELSE e.tab[x]
    BY <2>1, <2>2
  <2>4. UpdateTab(e, k, t) = f
    BY <1>1 DEF UpdateTab, f
  <2> QED
    BY <1>1, <2>1, <2>3, <2>4
<1>2. CASE ~Open(e, k)
  BY <1>2 DEF UpdateTab
<1> QED
  BY <1>1, <1>2

LEMMA UpdateTabSound ==
  ASSUME NEW d, NEW e, Sound(e, d), NEW k \in TabKeys, NEW t \in Tab,
         t.work = "unsaved" /\ k \in Chapters => t.dirty /\ Backup(e, k, d) = t.draft
  PROVE  Sound(UpdateTab(e, k, t), d)
<1>1. e \in Page /\ Chapters \subseteq TabKeys
  BY DEF Sound, TabKeys
<1> DEFINE f == UpdateTab(e, k, t)
<1>2. /\ f \in Page /\ f.tabs = e.tabs /\ f.active = e.active /\ f.pending = e.pending
      /\ \A x \in TabKeys : f.tab[x] = IF x = k /\ Open(e, k) THEN t ELSE e.tab[x]
  BY <1>1, PatchTab
<1> HIDE DEF f
<1>3. Open(f, k) <=> Open(e, k)
  BY <1>2 DEF Open
<1> QED
  BY <1>1, <1>2, <1>3 DEF Sound, Open, Backup, f

LEMMA CalmAgain ==
  ASSUME NEW e, NEW f, NEW g, Calm(f, e), Calm(g, f)
  PROVE  Calm(g, e)
BY DEF Calm

LEMMA CloseTabSound ==
  ASSUME NEW d, NEW e, Sound(e, d), NEW k \in TabKeys
  PROVE  Sound(CloseTab(e, k), d) /\ Calm(CloseTab(e, k), e)
<1>1. e \in Page /\ Chapters \subseteq TabKeys /\ e.tabs \in Seq(TabKeys) /\ e.tab \in [TabKeys -> Tab]
  BY DEF Sound, TabKeys, Page
<1> DEFINE left == Kept(e.tabs, TabKeys \ {k})
           at   == CHOOSE i \in DOMAIN e.tabs : e.tabs[i] = k
           heir == IF at <= Len(left) THEN left[at]
                   ELSE IF left # <<>> THEN left[Len(left)] ELSE NoKey
           f == [e EXCEPT !.tabs = left, !.tab[k] = NewTab(Empty), !.active = IF @ = k THEN heir ELSE @]
<1>2. CASE ~Open(e, k)
  BY <1>2 DEF CloseTab, Calm
<1>3. CASE Open(e, k)
  <2>1. CloseTab(e, k) = f
    BY <1>3 DEF CloseTab
  <2>2. left \in Seq(TabKeys) /\ ToSet(left) = ToSet(e.tabs) \ {k}
    <3>1. ToSet(e.tabs) \subseteq TabKeys
      BY <1>1 DEF ToSet
    <3> QED
      BY <1>1, <3>1, KeptTabs
  <2>3. at \in Nat \ {0}
    <3>1. \E i \in DOMAIN e.tabs : e.tabs[i] = k
      BY <1>3 DEF Open, ToSet
    <3>2. at \in DOMAIN e.tabs
      BY <3>1
    <3> HIDE DEF at
    <3> QED
      BY <3>2, <1>1
  <2> HIDE DEF left, at
  <2>4. heir = NoKey \/ (heir \in ToSet(left) /\ heir \in TabKeys)
    BY <2>2, <2>3 DEF ToSet
  <2> HIDE DEF heir
  <2>5. NewTab(Empty) \in Tab /\ NewTab(Empty).work # "unsaved" /\ NewTab(Empty).status = "idle"
    BY NewTabs, Texts
  <2>6. /\ f \in Page /\ f.tabs = left /\ f.active = (IF e.active = k THEN heir ELSE e.active)
        /\ f.pending = e.pending /\ f.tab = [e.tab EXCEPT ![k] = NewTab(Empty)]
    <3>1. [e.tab EXCEPT ![k] = NewTab(Empty)] \in [TabKeys -> Tab]
      BY <1>1, <2>5
    <3>2. (IF e.active = k THEN heir ELSE e.active) \in TabKeys \cup {NoKey}
      BY <1>1, <2>4 DEF Page
    <3> QED
      BY <1>1, <2>2, <3>1, <3>2 DEF Page
  <2> HIDE DEF f
  <2>7. \A x \in TabKeys : f.tab[x] = IF x = k THEN NewTab(Empty) ELSE e.tab[x]
    BY <2>6, <1>1
  <2>8. \A x \in TabKeys : Open(f, x) <=> Open(e, x) /\ x # k
    BY <2>2, <2>6 DEF Open
  <2>9. f.active = NoKey \/ Open(f, f.active)
    <3>1. CASE e.active = k
      BY <3>1, <2>4, <2>6 DEF Open
    <3>2. CASE e.active # k
      BY <3>2, <2>2, <2>6 DEF Open, Sound
    <3> QED
      BY <3>1, <3>2
  <2>10. Sound(f, d)
    BY <1>1, <2>5, <2>6, <2>7, <2>8, <2>9 DEF Sound, Backup
  <2>11. Calm(f, e)
    BY <1>1, <2>5, <2>7 DEF Calm
  <2> QED
    BY <2>1, <2>10, <2>11
<1> QED
  BY <1>2, <1>3

LEMMA PruneSound ==
  ASSUME NEW d, NEW e, Sound(e, d), NEW valid \in SUBSET Chapters
  PROVE  Sound(Prune(e, valid), d) /\ Calm(Prune(e, valid), e)
<1>1. e \in Page /\ Chapters \subseteq TabKeys /\ e.tabs \in Seq(TabKeys) /\ e.tab \in [TabKeys -> Tab]
  BY DEF Sound, TabKeys, Page
<1> DEFINE left == Kept(e.tabs, valid \cup Panels)
           tab  == [k \in TabKeys |-> IF k \in ToSet(left) THEN e.tab[k] ELSE NewTab(Empty)]
           active == IF e.active \in ToSet(left) THEN e.active ELSE IF left # <<>> THEN left[1] ELSE NoKey
           f == [e EXCEPT !.tabs = left, !.tab = tab, !.active = active]
<1>2. Prune(e, valid) = f
  BY DEF Prune
<1>3. left \in Seq(TabKeys)
  BY <1>1, KeptTabs
<1> HIDE DEF left
<1>4. active = NoKey \/ (active \in ToSet(left) /\ active \in TabKeys)
  <2>1. ToSet(left) \subseteq TabKeys
    BY <1>3 DEF ToSet
  <2>2. left # <<>> => left[1] \in ToSet(left)
    BY <1>3 DEF ToSet
  <2> QED
    BY <2>1, <2>2
<1>5. NewTab(Empty) \in Tab /\ NewTab(Empty).work # "unsaved" /\ NewTab(Empty).status = "idle"
  BY NewTabs, Texts
<1>6. tab \in [TabKeys -> Tab]
  BY <1>1, <1>5
<1>7. \A k \in TabKeys : tab[k] = IF k \in ToSet(left) THEN e.tab[k] ELSE NewTab(Empty)
  OBVIOUS
<1> HIDE DEF tab, active
<1>8. f \in Page /\ f.tabs = left /\ f.tab = tab /\ f.active = active /\ f.pending = e.pending
  BY <1>1, <1>3, <1>4, <1>6 DEF Page
<1> HIDE DEF f
<1>9. Sound(f, d)
  BY <1>1, <1>4, <1>5, <1>7, <1>8 DEF Sound, Open, Backup
<1>10. Calm(f, e)
  BY <1>1, <1>5, <1>7, <1>8 DEF Calm
<1> QED
  BY <1>2, <1>9, <1>10

LEMMA HandleChangeSound ==
  ASSUME NEW d, NEW e, Sound(e, d), NEW html \in Text
  PROVE  /\ Sound(HandleChange(e, html), d) /\ Calm(HandleChange(e, html), e)
         /\ HandleChange(e, html).active = e.active
<1>1. e \in Page /\ Chapters \subseteq TabKeys /\ e.tab \in [TabKeys -> Tab] /\ e.pending \in [Chapters -> Draft]
      /\ e.timers \subseteq Chapters
  BY DEF Sound, TabKeys, Page
<1>2. CASE e.active \notin Chapters
  BY <1>2 DEF HandleChange, Calm
<1>3. CASE e.active \in Chapters
  <2> DEFINE a == e.active
             t == [e.tab[a] EXCEPT !.draft = html, !.dirty = TRUE, !.work = "unsaved"]
             f == [e EXCEPT !.tab[a] = t, !.pending[a] = html, !.timers = @ \cup {a}]
  <2>1. HandleChange(e, html) = f
    BY <1>3 DEF HandleChange
  <2>2. a \in Chapters /\ a \in TabKeys /\ Open(e, a)
    BY <1>1, <1>3, EditorAssumption DEF Sound
  <2>3. t \in Tab /\ t.status = e.tab[a].status /\ t.dirty /\ t.draft = html
    BY <1>1, <2>2 DEF Tab
  <2>4. html \in Draft /\ html # Absent
    BY Texts
  <2> HIDE DEF t
  <2>5. /\ f \in Page /\ f.tabs = e.tabs /\ f.active = a /\ f.tab = [e.tab EXCEPT ![a] = t]
        /\ f.pending = [e.pending EXCEPT ![a] = html]
    <3>1. /\ [e.tab EXCEPT ![a] = t] \in [TabKeys -> Tab] /\ [e.pending EXCEPT ![a] = html] \in [Chapters -> Draft]
          /\ e.timers \cup {a} \in SUBSET Chapters
      BY <1>1, <2>2, <2>3, <2>4
    <3> QED
      BY <1>1, <3>1 DEF Page
  <2> HIDE DEF f
  <2>6. /\ \A x \in TabKeys : f.tab[x] = IF x = a THEN t ELSE e.tab[x]
        /\ \A c \in Chapters : f.pending[c] = IF c = a THEN html ELSE e.pending[c]
    BY <1>1, <2>5
  <2>7. Sound(f, d)
    BY <1>1, <2>2, <2>3, <2>4, <2>5, <2>6 DEF Sound, Open, Backup
  <2>8. Calm(f, e)
    BY <1>1, <2>3, <2>6 DEF Calm
  <2> QED
    BY <2>1, <2>5, <2>7, <2>8
<1> QED
  BY <1>2, <1>3

(* What React does after a change of the stores.                           *)
LEMMA RemountSound ==
  ASSUME NEW d, NEW e, Sound(e, d), NEW old \in Page
  PROVE  Sound(Remount(old, e), d) /\ Calm(Remount(old, e), e)
<1> DEFINE left  == old.mounted # NoKey /\ e.active # old.mounted
           e1    == IF left THEN [HandleChange(e, old.doc) EXCEPT !.unsynced = FALSE] ELSE e
           shown == IF e1.active \in Chapters THEN e1.active ELSE NoKey
           blank == [e1 EXCEPT !.mounted = NoKey, !.doc = Empty, !.unsynced = FALSE]
           fresh == [e1 EXCEPT !.mounted = shown, !.doc = e1.tab[shown].draft]
<1>1. Remount(old, e) \in {blank, e1} \/ (shown # NoKey /\ Remount(old, e) = fresh)
  BY DEF Remount
<1>2. Sound(e1, d) /\ Calm(e1, e)
  <2>1. CASE ~left
    BY <2>1 DEF Calm
  <2>2. CASE left
    <3> DEFINE g == HandleChange(e, old.doc)
               h == [g EXCEPT !.unsynced = FALSE]
    <3>1. old.doc \in Text
      BY DEF Page
    <3>2. Sound(g, d) /\ Calm(g, e)
      BY <3>1, HandleChangeSound
    <3> HIDE DEF g
    <3>3. g \in Page
      BY <3>2 DEF Sound
    <3>4. h \in Page /\ h.tabs = g.tabs /\ h.active = g.active /\ h.tab = g.tab /\ h.pending = g.pending
      BY <3>3 DEF Page
    <3> HIDE DEF h
    <3>5. Sound(h, d) /\ Calm(h, g)
      BY <3>2, <3>4, SameTabsSound
    <3>6. e1 = h
      BY <2>2 DEF g, h
    <3> QED
      BY <3>2, <3>5, <3>6, CalmAgain
  <2> QED
    BY <2>1, <2>2
<1> HIDE DEF left, e1
<1>3. e1 \in Page /\ Chapters \subseteq TabKeys
  BY <1>2 DEF Sound, TabKeys
<1>4. blank \in Page /\ blank.tabs = e1.tabs /\ blank.active = e1.active /\ blank.tab = e1.tab /\ blank.pending = e1.pending
  BY <1>3, Texts DEF Page
<1>5. ASSUME shown # NoKey
      PROVE  fresh \in Page /\ fresh.tabs = e1.tabs /\ fresh.active = e1.active /\ fresh.tab = e1.tab /\ fresh.pending = e1.pending
  <2>1. shown \in Chapters
    BY <1>5
  <2>2. e1.tab[shown].draft \in Text
    BY <1>3, <2>1 DEF Page, Tab
  <2> HIDE DEF shown
  <2> QED
    BY <1>3, <2>1, <2>2 DEF Page
<1> HIDE DEF blank, fresh, shown
<1>6. Sound(blank, d) /\ Calm(blank, e1)
  BY <1>2, <1>4, SameTabsSound
<1>7. shown # NoKey => Sound(fresh, d) /\ Calm(fresh, e1)
  BY <1>2, <1>5, SameTabsSound
<1> QED
  BY <1>1, <1>2, <1>6, <1>7, CalmAgain

LEMMA FollowCurrentSound ==
  ASSUME vault \in [Chapters -> Draft], NEW e, Sound(e, vault)
  PROVE  Sound(FollowCurrent(e), vault) /\ Calm(FollowCurrent(e), e)
<1> DEFINE c == e.current
           opened == OpenTab(e, c, e.content)
           t == [NewTab(vault[c]) EXCEPT !.dirty = TRUE,
                                         !.work = IF e.pending[c] = Absent THEN "unsaved" ELSE "replaced"]
           kept == UpdateTab(opened, c, t)
           filled == [e EXCEPT !.active = c, !.tab[c].draft = e.content]
           shown == [e EXCEPT !.active = c]
<1>1. e \in Page /\ Chapters \subseteq TabKeys /\ e.content \in Text /\ c \in Chapters \cup {NoKey}
      /\ e.tab \in [TabKeys -> Tab]
  BY DEF Sound, TabKeys, Page
<1>2. CASE c = NoKey
  BY <1>2 DEF FollowCurrent, Calm
<1>3. CASE c # NoKey
  <2>1. c \in Chapters /\ c \in TabKeys
    BY <1>1, <1>3
  <2>2. \/ ~Open(e, c) /\ FollowCurrent(e) = opened
        \/ ~Open(e, c) /\ vault[c] \notin {Absent, e.content} /\ FollowCurrent(e) = kept
        \/ Open(e, c) /\ FollowCurrent(e) = shown
        \/ Open(e, c) /\ ~e.tab[c].dirty /\ FollowCurrent(e) = filled
    BY <1>3 DEF FollowCurrent
  <2>3. Sound(opened, vault) /\ Calm(opened, e) /\ opened.pending = e.pending
    BY <1>1, <2>1, OpenTabSound
  <2>4. ASSUME vault[c] \notin {Absent, e.content}
        PROVE  Sound(kept, vault) /\ Calm(kept, opened)
    <3>1. vault[c] \in Text
      BY <2>1, <2>4, Texts
    <3>2. t \in Tab /\ t.status = "idle" /\ t.dirty /\ t.draft = vault[c]
      BY <3>1 DEF NewTab, Tab
    <3>7. t.work = "unsaved" => e.pending[c] = Absent
      BY DEF NewTab
    <3> HIDE DEF t, opened
    <3>3. opened \in Page
      BY <2>3 DEF Sound
    <3>4. Sound(kept, vault)
      BY <2>1, <2>3, <2>4, <3>2, <3>7, UpdateTabSound DEF Backup
    <3>5. \A x \in TabKeys : kept.tab[x] = IF x = c /\ Open(opened, c) THEN t ELSE opened.tab[x]
      BY <2>1, <3>2, <3>3, PatchTab
    <3>6. Calm(kept, opened)
      BY <1>1, <3>2, <3>5 DEF Calm
    <3> QED
      BY <3>4, <3>6
  <2>5. ASSUME Open(e, c)
        PROVE  /\ ~e.tab[c].dirty => Sound(filled, vault) /\ Calm(filled, e)
               /\ Sound(shown, vault) /\ Calm(shown, e)
    <3>1. shown \in Page /\ shown.tabs = e.tabs /\ shown.active = c /\ shown.tab = e.tab /\ shown.pending = e.pending
      BY <1>1, <2>1 DEF Page
    <3> DEFINE u == [e.tab[c] EXCEPT !.draft = e.content]
    <3>2. u \in Tab /\ u.status = e.tab[c].status /\ u.work = e.tab[c].work
      BY <1>1, <2>1 DEF Tab
    <3>3. /\ filled \in Page /\ filled.tabs = e.tabs /\ filled.active = c /\ filled.tab = [e.tab EXCEPT ![c] = u]
          /\ filled.pending = e.pending
      <4>1. [e.tab EXCEPT ![c] = u] \in [TabKeys -> Tab]
        BY <1>1, <2>1, <3>2
      <4>2. filled = [e EXCEPT !.active = c, !.tab = [e.tab EXCEPT ![c] = u]]
        BY <1>1 DEF Page
      <4> HIDE DEF u
      <4> QED
        BY <1>1, <2>1, <4>1, <4>2 DEF Page
    <3> HIDE DEF u, filled, shown
    <3>4. \A x \in TabKeys : filled.tab[x] = IF x = c THEN u ELSE e.tab[x]
      BY <1>1, <3>3
    <3>5. Sound(shown, vault) /\ Calm(shown, e)
      BY <1>1, <2>1, <2>5, <3>1 DEF Sound, Calm, Open, Backup
    <3>6. ~e.tab[c].dirty => Sound(filled, vault) /\ Calm(filled, e)
      BY <1>1, <2>1, <2>5, <3>2, <3>3, <3>4 DEF Sound, Calm, Open, Backup
    <3> QED
      BY <3>5, <3>6
  <2> HIDE DEF opened, kept, filled, shown
  <2> QED
    BY <2>2, <2>3, <2>4, <2>5, CalmAgain
<1> QED
  BY <1>2, <1>3

LEMMA CommitSound ==
  ASSUME vault \in [Chapters -> Draft], ed \in Page, NEW e, Sound(e, vault), Commit(e)
  PROVE  Sound(ed', vault) /\ Calm(ed', e)
<1> DEFINE e1 == Remount(ed, e)
           e2 == FollowCurrent(e1)
           e3 == Remount(e1, e2)
<1>1. ed' \in {e1, e3}
  BY DEF Commit
<1>2. Sound(e1, vault) /\ Calm(e1, e)
  BY RemountSound
<1> HIDE DEF e1
<1>3. Sound(e2, vault) /\ Calm(e2, e1)
  BY <1>2, FollowCurrentSound
<1> HIDE DEF e2
<1>4. Sound(e3, vault) /\ Calm(e3, e2)
  <2>1. e1 \in Page
    BY <1>2 DEF Sound
  <2> QED
    BY <2>1, <1>3, RemountSound
<1> HIDE DEF e3
<1> QED
  BY <1>1, <1>2, <1>3, <1>4, CalmAgain

-------------------------------------------------------------------------------
(* The requests and timers that are started.                               *)
LEMMA Requested ==
  ASSUME TypeOK, NEW c \in Chapters, NEW body \in Text, NEW again \in BOOLEAN
  PROVE  /\ Put(c, body, again) \in Save /\ Put(c, body, again).c = c
         /\ saves \cup {Put(c, body, again)} \subseteq Save
         /\ IsFiniteSet(saves \cup {Put(c, body, again)})
<1>1. Fresh(saves) \in Count
  BY FreshNumber DEF TypeOK
<1>2. Put(c, body, again) \in Save /\ Put(c, body, again).c = c
  BY <1>1 DEF Put, Save
<1>3. IsFiniteSet(saves \cup {Put(c, body, again)})
  BY FS_AddElement DEF TypeOK
<1> QED
  BY <1>2, <1>3 DEF TypeOK

LEMMA StartSaveSound ==
  ASSUME NEW d, NEW e, Sound(e, d), NEW c \in Chapters, Open(e, c)
  PROVE  /\ Sound(StartSave(e, c), d)
         /\ \A x \in TabKeys : StartSave(e, c).tab[x].status = IF x = c THEN "saving" ELSE e.tab[x].status
<1>1. e \in Page /\ Chapters \subseteq TabKeys /\ e.tab \in [TabKeys -> Tab] /\ c \in TabKeys
  BY DEF Sound, TabKeys, Page
<1> DEFINE t == [e.tab[c] EXCEPT !.status = "saving"]
           f == [e EXCEPT !.tab[c] = t]
<1>2. StartSave(e, c) = f
  BY <1>1 DEF StartSave, Page
<1>3. t \in Tab /\ t.status = "saving" /\ t.dirty = e.tab[c].dirty /\ t.work = e.tab[c].work
      /\ t.draft = e.tab[c].draft
  BY <1>1 DEF Tab
<1> HIDE DEF t
<1>4. f \in Page /\ f.tabs = e.tabs /\ f.active = e.active /\ f.pending = e.pending /\ f.tab = [e.tab EXCEPT ![c] = t]
  BY <1>1, <1>3 DEF Page
<1> HIDE DEF f
<1>5. \A x \in TabKeys : f.tab[x] = IF x = c THEN t ELSE e.tab[x]
  BY <1>1, <1>4
<1>6. Sound(f, d)
  BY <1>1, <1>3, <1>4, <1>5 DEF Sound, Open, Backup
<1> QED
  BY <1>2, <1>3, <1>5, <1>6

LEMMA StartSaveHonest ==
  ASSUME NEW d, NEW e, Sound(e, d), NEW c \in Chapters, Open(e, c), NEW ss, NEW rr, Honest(e, ss, rr),
         NEW s, s.c = c
  PROVE  Honest(StartSave(e, c), ss \cup {s}, rr)
<1>1. \A x \in Chapters : StartSave(e, c).tab[x].status = IF x = c THEN "saving" ELSE e.tab[x].status
  BY StartSaveSound DEF TabKeys
<1> QED
  BY <1>1 DEF Honest

LEMMA FlushTabSound ==
  ASSUME IInv, NEW k \in TabKeys \cup {NoKey}
  PROVE  /\ Sound(FlushTab(ed, k), vault) /\ Honest(FlushTab(ed, k), Flushed(ed, k), saveRetries)
         /\ Flushed(ed, k) \subseteq Save /\ IsFiniteSet(Flushed(ed, k))
<1> DEFINE e1 == [ed EXCEPT !.timers = @ \ {k}]
<1>1. ed \in Page /\ Sound(ed, vault) /\ Honest(ed, saves, saveRetries) /\ TypeOK
  BY DEF IInv, TypeOK
<1>2. e1 \in Page /\ e1.tabs = ed.tabs /\ e1.active = ed.active /\ e1.tab = ed.tab /\ e1.pending = ed.pending
  BY <1>1 DEF Page
<1> HIDE DEF e1
<1>3. Sound(e1, vault) /\ Honest(e1, saves, saveRetries)
  BY <1>1, <1>2, SameTabsSound, CalmIsHonest
<1>4. CASE ~Flushes(ed, k)
  <2>1. FlushTab(ed, k) = e1 /\ Flushed(ed, k) = saves
    BY <1>4 DEF FlushTab, Flushed, e1
  <2> QED
    BY <2>1, <1>1, <1>3 DEF TypeOK
<1>5. CASE Flushes(ed, k)
  <2> DEFINE s == Put(k, ed.tab[k].draft, FALSE)
  <2>1. FlushTab(ed, k) = StartSave(e1, k) /\ Flushed(ed, k) = saves \cup {s}
    BY <1>5 DEF FlushTab, Flushed, e1
  <2>2. k \in Chapters /\ Open(ed, k)
    BY <1>5 DEF Flushes, MaySave
  <2>3. ed.tab[k].draft \in Text
    BY <1>1, <2>2 DEF Page, Tab, TabKeys
  <2>4. Open(e1, k)
    BY <2>2, <1>2 DEF Open
  <2>5. s.c = k /\ saves \cup {s} \subseteq Save /\ IsFiniteSet(saves \cup {s})
    BY <1>1, <2>2, <2>3, Requested
  <2> HIDE DEF s
  <2> QED
    BY <2>1, <2>2, <2>4, <2>5, <1>3, StartSaveSound, StartSaveHonest
<1> QED
  BY <1>4, <1>5

(* A step that ends in React's commit.                                     *)
LEMMA Commits ==
  ASSUME IInv, NEW e, Sound(e, vault), Honest(e, saves', saveRetries'), Commit(e)
  PROVE  ed' \in Page /\ Sound(ed', vault) /\ Honest(ed', saves', saveRetries')
<1>1. Sound(ed', vault) /\ Calm(ed', e)
  BY CommitSound DEF IInv, TypeOK
<1> QED
  BY <1>1, CalmIsHonest DEF Sound

LEMMA Selects ==
  ASSUME IInv, NEW e, Sound(e, vault), Honest(e, saves', saveRetries'), NEW c \in Chapters, SelectChapter(e, c)
  PROVE  /\ ed' \in Page /\ Sound(ed', vault) /\ Honest(ed', saves', saveRetries')
         /\ loads' \subseteq Load /\ IsFiniteSet(loads')
<1>1. e \in Page /\ c \in TabKeys
  BY DEF Sound, TabKeys
<1>2. CASE Open(e, c)
  <2> DEFINE f == SetActive(e, c)
             g == [f EXCEPT !.current = c, !.content = e.tab[c].draft]
  <2>1. Sound(f, vault) /\ Calm(f, e)
    BY <1>1, SetActiveSound
  <2> HIDE DEF f
  <2>2. f \in Page /\ e.tab[c].draft \in Text
    BY <1>1, <2>1 DEF Sound, Page, Tab
  <2>3. g \in Page /\ g.tabs = f.tabs /\ g.active = f.active /\ g.tab = f.tab /\ g.pending = f.pending
    BY <2>2 DEF Page
  <2>4. Commit(g) /\ UNCHANGED loads
    BY <1>2 DEF SelectChapter, f
  <2> HIDE DEF g
  <2>5. Sound(g, vault) /\ Calm(g, f)
    BY <2>1, <2>3, SameTabsSound
  <2>6. Honest(g, saves', saveRetries')
    BY <2>1, <2>5, CalmIsHonest
  <2> QED
    BY <2>4, <2>5, <2>6, Commits DEF IInv, TypeOK
<1>3. CASE ~Open(e, c)
  <2> DEFINE f == OpenTab(e, c, Empty)
             g == [f EXCEPT !.current = c, !.content = Empty]
             l == [c |-> c, text |-> server[c], n |-> Fresh(loads)]
  <2>1. Sound(f, vault) /\ Calm(f, e)
    BY <1>1, Texts, OpenTabSound
  <2>2. Commit(g) /\ loads' = loads \cup {l}
    BY <1>3 DEF SelectChapter
  <2> HIDE DEF f
  <2>3. f \in Page
    BY <2>1 DEF Sound
  <2>4. g \in Page /\ g.tabs = f.tabs /\ g.active = f.active /\ g.tab = f.tab /\ g.pending = f.pending
    BY <2>3, Texts DEF Page
  <2> HIDE DEF g
  <2>5. Sound(g, vault) /\ Calm(g, f)
    BY <2>1, <2>4, SameTabsSound
  <2>6. Honest(g, saves', saveRetries')
    BY <2>1, <2>5, CalmIsHonest
  <2>7. l \in Load
    BY FreshNumber DEF Load, IInv, TypeOK
  <2>8. IsFiniteSet(loads')
    BY <2>2, FS_AddElement DEF IInv, TypeOK
  <2> HIDE DEF l
  <2> QED
    BY <2>2, <2>5, <2>6, <2>7, <2>8, Commits DEF IInv, TypeOK
<1> QED
  BY <1>2, <1>3

-------------------------------------------------------------------------------
(* Typing, and the drafts it leaves.                                       *)
LEMMA Typing ==
  ASSUME IInv, Type \/ SyncHtml \/ CloseCompose \/ (\E c \in Chapters : WriteDraft(c))
  PROVE  IInv'
<1>1. /\ ed \in Page /\ Sound(ed, vault) /\ Honest(ed, saves, saveRetries) /\ spent \in 0..MaxEvents /\ TypeOK
      /\ vault \in [Chapters -> Draft]
  BY DEF IInv, TypeOK
<1>2. ASSUME ed' \in Page, ed'.tabs = ed.tabs, ed'.active = ed.active, ed'.tab = ed.tab, ed'.pending = ed.pending,
             UNCHANGED <<vault, snap, server, saves, loads, gens, saveRetries>>, spent' \in 0..MaxEvents
      PROVE  IInv'
  <2>1. Sound(ed', vault) /\ Honest(ed', saves, saveRetries)
    BY <1>1, <1>2, SameTabsSound, CalmIsHonest
  <2> QED
    BY <2>1, <1>1, <1>2 DEF IInv, TypeOK
<1>3. CASE Type
  <2> DEFINE doc == [of |-> IF ed.doc.of = NoKey THEN ed.mounted ELSE ed.doc.of, rev |-> spent + 1]
  <2>1. ed.mounted \in Chapters /\ spent' \in 0..MaxEvents /\ spent + 1 \in 0..AI
    BY <1>1, <1>3, EditorAssumption DEF Type, Event, AI, Page
  <2>2. ed.doc.of \in Chapters \cup {NoKey}
    BY <1>1 DEF Page, Text, Empty
  <2>3. doc \in Text
    BY <2>1, <2>2 DEF Text
  <2>4. ed' = [ed EXCEPT !.unsynced = TRUE, !.doc = doc]
    BY <1>3 DEF Type
  <2> HIDE DEF doc
  <2>5. UNCHANGED <<vault, snap, server, saves, loads, gens, saveRetries>>
    BY <1>3 DEF Type
  <2> QED
    BY <1>1, <2>1, <2>3, <2>4, <2>5, <1>2 DEF Page
<1>4. CASE CloseCompose
  <2>1. ed' = [ed EXCEPT !.target = NoKey, !.draft = Absent]
    BY <1>4 DEF CloseCompose
  <2>2. UNCHANGED <<vault, snap, server, saves, loads, gens, saveRetries>> /\ spent' \in 0..MaxEvents
    BY <1>1, <1>4, EditorAssumption DEF CloseCompose, Event
  <2> QED
    BY <1>1, <2>1, <2>2, <1>2, Texts DEF Page
<1>5. CASE SyncHtml
  <2> DEFINE f == HandleChange(ed, ed.doc)
             g == [f EXCEPT !.unsynced = FALSE]
  <2>1. ed.doc \in Text
    BY <1>1 DEF Page
  <2>2. Sound(f, vault) /\ Calm(f, ed)
    BY <1>1, <2>1, HandleChangeSound
  <2> HIDE DEF f
  <2>3. g \in Page /\ g.tabs = f.tabs /\ g.active = f.active /\ g.tab = f.tab /\ g.pending = f.pending
    BY <2>2 DEF Page, Sound
  <2>4. ed' = g /\ UNCHANGED <<vault, snap, server, saves, loads, gens, saveRetries, spent>>
    BY <1>5 DEF SyncHtml, f
  <2> HIDE DEF g
  <2>5. Sound(g, vault) /\ Calm(g, f)
    BY <2>2, <2>3, SameTabsSound
  <2>6. Honest(g, saves, saveRetries)
    BY <1>1, <2>2, <2>5, CalmIsHonest
  <2> QED
    BY <1>1, <2>3, <2>4, <2>5, <2>6 DEF IInv, TypeOK
<1>6. ASSUME NEW c \in Chapters, WriteDraft(c) PROVE IInv'
  <2>1. /\ ed' = [ed EXCEPT !.pending[c] = Absent] /\ vault' = [vault EXCEPT ![c] = ed.pending[c]]
        /\ ed.pending[c] # Absent
        /\ UNCHANGED <<snap, server, saves, loads, gens, saveRetries, spent>>
    BY <1>6 DEF WriteDraft
  <2>2. ed.pending \in [Chapters -> Draft]
    BY <1>1 DEF Page
  <2>3. /\ ed' \in Page /\ ed'.tabs = ed.tabs /\ ed'.active = ed.active /\ ed'.tab = ed.tab
        /\ ed'.pending = [ed.pending EXCEPT ![c] = Absent]
    <3>1. [ed.pending EXCEPT ![c] = Absent] \in [Chapters -> Draft]
      BY <2>2, Texts
    <3> QED
      BY <1>1, <2>1, <3>1 DEF Page
  <2>4. vault' \in [Chapters -> Draft]
    BY <1>1, <2>1, <2>2
  <2>5. \A x \in Chapters : Backup(ed', x, vault') = Backup(ed, x, vault)
    BY <1>1, <2>1, <2>2, <2>3 DEF Backup
  <2>6. Sound(ed', vault')
    BY <1>1, <2>3, <2>5 DEF Sound, Open
  <2>7. Honest(ed', saves, saveRetries)
    BY <1>1, <2>3 DEF Honest
  <2> QED
    BY <1>1, <2>1, <2>3, <2>4, <2>6, <2>7 DEF IInv, TypeOK
<1> QED
  BY <1>3, <1>4, <1>5, <1>6

(* The timers and the keys that save.                                      *)
LEMMA Flushing ==
  ASSUME IInv, SaveNow \/ (\E c \in Chapters : AutoSave(c))
  PROVE  IInv'
<1>1. PICK k \in TabKeys \cup {NoKey} :
         /\ ed' = FlushTab(ed, k) /\ saves' = Flushed(ed, k)
         /\ UNCHANGED <<vault, snap, server, loads, gens, saveRetries>>
  BY DEF SaveNow, AutoSave, TabKeys, IInv, TypeOK, Page
<1>2. spent' \in 0..MaxEvents
  BY EditorAssumption DEF SaveNow, AutoSave, Event, IInv, TypeOK
<1>3. /\ Sound(ed', vault') /\ Honest(ed', saves', saveRetries') /\ saves' \subseteq Save /\ IsFiniteSet(saves')
  BY <1>1, FlushTabSound
<1> QED
  BY <1>1, <1>2, <1>3 DEF IInv, TypeOK, Sound

-------------------------------------------------------------------------------
(* The answer to a save leaves nothing unsaved of its chapter.             *)
LEMMA Saved ==
  ASSUME IInv, NEW s \in saves, SaveAnswered(s)
  PROVE  IInv'
<1> DEFINE c == s.c
           t == [ed.tab[c] EXCEPT !.dirty = FALSE, !.status = "saved", !.work = Outcome(ed.tab[c], s.body)]
           f == UpdateTab(ed, c, t)
           g == [f EXCEPT !.pending[c] = Absent]
<1>1. /\ ed \in Page /\ Sound(ed, vault) /\ Honest(ed, saves, saveRetries) /\ TypeOK
      /\ c \in Chapters /\ c \in TabKeys /\ s.body \in Text /\ Chapters \subseteq TabKeys
      /\ vault \in [Chapters -> Draft] /\ server \in [Chapters -> Text] /\ ed.pending \in [Chapters -> Draft]
  BY DEF IInv, TypeOK, Save, TabKeys, Page
<1>2. /\ server' = [server EXCEPT ![c] = s.body] /\ saves' = saves \ {s} /\ vault' = [vault EXCEPT ![c] = Absent]
      /\ ed' = g /\ UNCHANGED <<snap, loads, gens, saveRetries, spent>>
  BY DEF SaveAnswered
<1>3. t \in Tab /\ t.work # "unsaved" /\ t.status = "saved"
  <2> HIDE DEF c
  <2>1. ed.tab[c] \in Tab
    BY <1>1 DEF Page
  <2>2. Outcome(ed.tab[c], s.body) \in {"stored", "outrun", "replaced"}
    BY <2>1 DEF Outcome, Tab
  <2> QED
    BY <2>1, <2>2 DEF Tab
<1> HIDE DEF t
<1>4. /\ f \in Page /\ f.tabs = ed.tabs /\ f.active = ed.active /\ f.pending = ed.pending
      /\ \A x \in TabKeys : f.tab[x] = IF x = c /\ Open(ed, c) THEN t ELSE ed.tab[x]
  BY <1>1, <1>3, PatchTab
<1> HIDE DEF f
<1>5. /\ g \in Page /\ g.tabs = ed.tabs /\ g.active = ed.active /\ g.tab = f.tab
      /\ g.pending = [ed.pending EXCEPT ![c] = Absent]
  <2>1. [ed.pending EXCEPT ![c] = Absent] \in [Chapters -> Draft]
    BY <1>1, Texts
  <2> QED
    BY <1>4, <2>1 DEF Page
<1> HIDE DEF g, c
<1>6. g.tab[c].work # "unsaved" /\ g.tab[c].status \in {"saved", "idle"}
  BY <1>1, <1>3, <1>4, <1>5 DEF Sound
<1>7. \A x \in Chapters : x # c => g.tab[x] = ed.tab[x] /\ g.pending[x] = ed.pending[x] /\ vault'[x] = vault[x]
  BY <1>1, <1>2, <1>4, <1>5
<1>8. \A x \in TabKeys : g.tab[x] = IF x = c /\ Open(ed, c) THEN t ELSE ed.tab[x]
  BY <1>4, <1>5
<1>9. Sound(g, vault')
  <2>1. g.active = NoKey \/ Open(g, g.active)
    BY <1>1, <1>5 DEF Sound, Open
  <2>2. \A k \in TabKeys : ~Open(g, k) => g.tab[k].work # "unsaved" /\ g.tab[k].status = "idle"
    BY <1>1, <1>5, <1>8 DEF Sound, Open
  <2>3. \A x \in Chapters :
          g.tab[x].work = "unsaved" => g.tab[x].dirty /\ Backup(g, x, vault') = g.tab[x].draft
    BY <1>1, <1>6, <1>7 DEF Sound, Backup
  <2> QED
    BY <1>5, <2>1, <2>2, <2>3 DEF Sound
<1>10. Honest(g, saves', saveRetries)
  <2>1. \A r \in saves : r.c # c => r \in saves'
    BY <1>2 DEF c
  <2> QED
    BY <1>1, <1>6, <1>7, <2>1 DEF Honest
<1>11. vault' \in [Chapters -> Draft] /\ server' \in [Chapters -> Text] /\ saves' \subseteq Save /\ IsFiniteSet(saves')
  BY <1>1, <1>2, Texts, FS_RemoveElement DEF TypeOK
<1> QED
  BY <1>1, <1>2, <1>5, <1>9, <1>10, <1>11 DEF IInv, TypeOK

(* The save fails: a timer is there for its chapter, and for the others    *)
(* the timers they had.                                                    *)
LEMMA Failed ==
  ASSUME IInv, NEW s \in saves, SaveFails(s)
  PROVE  IInv'
<1> DEFINE c == s.c
           t == [ed.tab[c] EXCEPT !.status = "error"]
           others == {r \in saveRetries : ~(r.c = c /\ r.held)}
           chain  == [c |-> c, body |-> s.body, held |-> ~(s.again /\ Open(ed, c)), n |-> Fresh(others)]
           both   == others \cup {chain}
           more   == [chain EXCEPT !.held = TRUE, !.n = Fresh(both)]
<1>1. /\ ed \in Page /\ Sound(ed, vault) /\ Honest(ed, saves, saveRetries) /\ TypeOK
      /\ c \in Chapters /\ c \in TabKeys /\ s.body \in Text /\ Chapters \subseteq TabKeys
      /\ server \in [Chapters -> Text] /\ saveRetries \subseteq Timer /\ IsFiniteSet(saveRetries)
      /\ s.again \in BOOLEAN
  BY DEF IInv, TypeOK, Save, TabKeys, Page
<1>2. /\ server' \in {server, [server EXCEPT ![c] = s.body]} /\ saves' = saves \ {s}
      /\ ed' = UpdateTab(ed, c, t) /\ UNCHANGED <<vault, snap, loads, gens>>
      /\ saveRetries' \in {both, both \cup {more}} /\ spent' \in 0..MaxEvents
  <2>1. spent' \in 0..MaxEvents
    <3>1. Event
      BY DEF SaveFails
    <3> QED
      BY <1>1, <3>1, EditorAssumption DEF Event, TypeOK
  <2>2. saveRetries' \in {both, both \cup {more}}
    BY DEF SaveFails
  <2> QED
    BY <2>1, <2>2 DEF SaveFails
<1>3. /\ t \in Tab /\ t.dirty = ed.tab[c].dirty /\ t.status = "error"
      /\ t.work = ed.tab[c].work /\ t.draft = ed.tab[c].draft
  <2> HIDE DEF c
  <2>1. ed.tab[c] \in Tab
    BY <1>1 DEF Page
  <2> QED
    BY <2>1 DEF Tab
<1> HIDE DEF t
<1>4. others \subseteq saveRetries /\ others \subseteq Timer /\ IsFiniteSet(others)
  <2>1. others \subseteq saveRetries
    OBVIOUS
  <2> HIDE DEF others
  <2> QED
    BY <2>1, <1>1, FS_Subset
<1>5. chain \in Timer /\ chain.c = c /\ both \subseteq Timer /\ IsFiniteSet(both)
  <2>1. Fresh(others) \in Count
    BY <1>4, FreshNumber
  <2>2. PICK held \in BOOLEAN : held = ~(s.again /\ Open(ed, c))
    OBVIOUS
  <2> HIDE DEF c, others
  <2>3. chain \in Timer /\ chain.c = c
    BY <1>1, <2>1, <2>2 DEF Timer
  <2> HIDE DEF chain
  <2> QED
    BY <2>3, <1>4, FS_AddElement
<1>6. more \in Timer /\ both \cup {more} \subseteq Timer /\ IsFiniteSet(both \cup {more})
  <2>1. Fresh(both) \in Count
    BY <1>5, FreshNumber
  <2> HIDE DEF both, chain
  <2>2. more \in Timer
    BY <1>5, <2>1 DEF Timer
  <2> HIDE DEF more
  <2> QED
    BY <2>2, <1>5, FS_AddElement
<1>7. /\ saveRetries' \subseteq Timer /\ IsFiniteSet(saveRetries') /\ \E r \in saveRetries' : r.c = c
      /\ \A r \in saveRetries : r.c # c => r \in saveRetries'
  <2>1. \A r \in saveRetries : r.c # c => r \in others
    OBVIOUS
  <2> HIDE DEF c, others, chain, more
  <2> QED
    BY <1>2, <1>5, <1>6, <2>1
<1>8. Sound(ed', vault)
  <2>1. t.work = "unsaved" => t.dirty /\ Backup(ed, c, vault) = t.draft
    BY <1>1, <1>3 DEF Sound
  <2> HIDE DEF c, others, chain, both, more
  <2> QED
    BY <1>1, <1>2, <1>3, <2>1, UpdateTabSound
<1>9. \A x \in TabKeys : ed'.tab[x] = IF x = c /\ Open(ed, c) THEN t ELSE ed.tab[x]
  <2> HIDE DEF c, others, chain, both, more
  <2>1. \A x \in TabKeys : UpdateTab(ed, c, t).tab[x] = IF x = c /\ Open(ed, c) THEN t ELSE ed.tab[x]
    BY <1>1, <1>3, PatchTab
  <2> QED
    BY <1>2, <2>1
<1>10. Honest(ed', saves', saveRetries')
  <2>1. \A r \in saves : r.c # c => r \in saves'
    BY <1>2
  <2>2. ed'.tab[c].status \in {"error", "idle"}
    BY <1>1, <1>3, <1>9 DEF Sound
  <2>3. \A x \in Chapters : x # c => ed'.tab[x] = ed.tab[x]
    BY <1>1, <1>9
  <2> HIDE DEF c, others, chain, more, both
  <2> QED
    BY <1>1, <1>7, <2>1, <2>2, <2>3 DEF Honest
<1>11. server' \in [Chapters -> Text] /\ saves' \subseteq Save /\ IsFiniteSet(saves')
  BY <1>1, <1>2, FS_RemoveElement DEF TypeOK
<1> HIDE DEF c, others, chain, more, both
<1> QED
  BY <1>1, <1>2, <1>7, <1>8, <1>10, <1>11 DEF IInv, TypeOK, Sound

LEMMA Retries ==
  ASSUME IInv, NEW r \in saveRetries, RetrySave(r)
  PROVE  IInv'
<1> DEFINE c == r.c
           rest == saveRetries \ {r}
           freed(q) == [q EXCEPT !.held = @ /\ q.c # c]
           errs == Open(ed, c) /\ ed.tab[c].status = "error"
           s == Put(c, r.body, TRUE)
<1>1. /\ ed \in Page /\ Sound(ed, vault) /\ Honest(ed, saves, saveRetries) /\ TypeOK
      /\ c \in Chapters /\ r.body \in Text /\ Chapters \subseteq TabKeys
      /\ rest \subseteq Timer /\ IsFiniteSet(rest)
  BY FS_RemoveElement DEF IInv, TypeOK, Timer, TabKeys
<1>2. UNCHANGED <<vault, snap, server, loads, gens, spent>>
  BY DEF RetrySave
<1>3. CASE errs
  <2>1. saveRetries' = rest /\ ed' = StartSave(ed, c) /\ saves' = saves \cup {s}
    BY <1>3 DEF RetrySave
  <2>2. s.c = c /\ saves' \subseteq Save /\ IsFiniteSet(saves')
    BY <1>1, <2>1, Requested
  <2>3. Sound(ed', vault)
    BY <1>1, <1>3, <2>1, StartSaveSound
  <2>4. \A x \in Chapters : ed'.tab[x].status = IF x = c THEN "saving" ELSE ed.tab[x].status
    BY <1>1, <1>3, <2>1, StartSaveSound
  <2>5. Honest(ed', saves', saveRetries')
    <3>1. s \in saves' /\ \A x \in saves : x \in saves'
      BY <2>1
    <3>2. \A q \in saveRetries : q.c # c => q \in saveRetries'
      BY <2>1
    <3> HIDE DEF s, c
    <3> QED
      BY <1>1, <2>2, <2>4, <3>1, <3>2 DEF Honest
  <2> QED
    BY <1>1, <1>2, <2>1, <2>2, <2>3, <2>5 DEF IInv, TypeOK, Sound
<1>4. CASE ~errs
  <2>1. saveRetries' = {freed(q) : q \in rest} /\ UNCHANGED <<ed, saves>>
    BY <1>4 DEF RetrySave
  <2>2. ASSUME NEW q \in rest PROVE freed(q) \in Timer /\ freed(q).c = q.c
    <3>1. q \in Timer /\ q.held \in BOOLEAN
      BY <1>1 DEF Timer
    <3>2. PICK held \in BOOLEAN : held = (q.held /\ q.c # c)
      BY <3>1
    <3>3. freed(q) = [q EXCEPT !.held = held]
      BY <3>2
    <3> HIDE DEF freed
    <3> QED
      BY <3>1, <3>3 DEF Timer
  <2>3. saveRetries' \subseteq Timer
    BY <2>1, <2>2
  <2>4. IsFiniteSet(saveRetries')
    <3> DEFINE f == [q \in rest |-> freed(q)]
    <3> HIDE DEF freed
    <3>1. f \in Surjection(rest, saveRetries')
      BY <2>1 DEF Surjection
    <3> HIDE DEF f, rest
    <3> QED
      BY <1>1, <3>1, FS_Surjection
  <2>5. \A q \in saveRetries : q.c # c => \E p \in saveRetries' : p.c = q.c
    <3> SUFFICES ASSUME NEW q \in saveRetries, q.c # c PROVE freed(q) \in saveRetries' /\ freed(q).c = q.c
      OBVIOUS
    <3>1. q \in rest
      OBVIOUS
    <3> HIDE DEF freed, rest
    <3> QED
      BY <2>1, <2>2, <3>1
  <2>6. ed.tab[c].status # "error"
    BY <1>1, <1>4 DEF Sound
  <2>7. Honest(ed, saves, saveRetries')
    <3> HIDE DEF c
    <3> QED
      BY <1>1, <2>5, <2>6 DEF Honest
  <2> HIDE DEF rest, freed, c
  <2> QED
    BY <1>1, <1>2, <2>1, <2>3, <2>4, <2>7 DEF IInv, TypeOK
<1> QED
  BY <1>3, <1>4

-------------------------------------------------------------------------------
(* Opening, switching and closing tabs.                                    *)
LEMMA Clicks ==
  ASSUME IInv, NEW c \in Chapters, ClickChapter(c)
  PROVE  IInv'
<1>1. SelectChapter(ed, c) /\ UNCHANGED <<vault, snap, server, saves, gens, saveRetries>> /\ spent' \in 0..MaxEvents
  BY EditorAssumption DEF ClickChapter, Event, IInv, TypeOK
<1>2. Sound(ed, vault) /\ Honest(ed, saves', saveRetries')
  BY <1>1 DEF IInv
<1>3. /\ ed' \in Page /\ Sound(ed', vault) /\ Honest(ed', saves', saveRetries')
      /\ loads' \subseteq Load /\ IsFiniteSet(loads')
  BY <1>1, <1>2, Selects
<1> QED
  BY <1>1, <1>3 DEF IInv, TypeOK

LEMMA Switches ==
  ASSUME IInv, NEW k \in TabKeys, SwitchTab(k)
  PROVE  IInv'
<1> DEFINE e == FlushTab(ed, ed.active)
<1>1. /\ saves' = Flushed(ed, ed.active) /\ UNCHANGED <<vault, snap, server, gens, saveRetries>> /\ spent' \in 0..MaxEvents
      /\ ed.active \in TabKeys \cup {NoKey}
  BY EditorAssumption DEF SwitchTab, Event, IInv, TypeOK, Page
<1>2. Sound(e, vault) /\ Honest(e, saves', saveRetries') /\ saves' \subseteq Save /\ IsFiniteSet(saves')
  BY <1>1, FlushTabSound
<1>3. CASE k \in Chapters /\ ed.listed
  <2>1. SelectChapter(e, k)
    BY <1>3 DEF SwitchTab
  <2> HIDE DEF e
  <2>2. /\ ed' \in Page /\ Sound(ed', vault) /\ Honest(ed', saves', saveRetries')
        /\ loads' \subseteq Load /\ IsFiniteSet(loads')
    BY <1>2, <1>3, <2>1, Selects
  <2> QED
    BY <1>1, <1>2, <2>2 DEF IInv, TypeOK
<1>4. CASE ~(k \in Chapters /\ ed.listed)
  <2>1. Commit(SetActive(e, k)) /\ UNCHANGED loads
    BY <1>4 DEF SwitchTab
  <2> HIDE DEF e
  <2>2. Sound(SetActive(e, k), vault) /\ Honest(SetActive(e, k), saves', saveRetries')
    BY <1>2, SetActiveSound, CalmIsHonest
  <2>3. ed' \in Page /\ Sound(ed', vault) /\ Honest(ed', saves', saveRetries')
    BY <2>1, <2>2, Commits
  <2> QED
    BY <1>1, <1>2, <2>1, <2>3 DEF IInv, TypeOK
<1> QED
  BY <1>3, <1>4

LEMMA Closes ==
  ASSUME IInv, NEW k \in TabKeys, CloseByUser(k)
  PROVE  IInv'
<1> DEFINE e  == FlushTab(ed, k)
           e1 == CloseTab(e, k)
           e2 == [e1 EXCEPT !.current = NoKey, !.content = Empty]
<1>1. /\ saves' = Flushed(ed, k) /\ UNCHANGED <<vault, snap, server, gens, saveRetries>> /\ spent' \in 0..MaxEvents
      /\ \/ ed' = e1 /\ UNCHANGED loads
         \/ Commit(e2) /\ UNCHANGED loads
         \/ e1.active \in Chapters /\ SelectChapter(e1, e1.active)
         \/ Commit(e1) /\ UNCHANGED loads
  <2>1. spent' \in 0..MaxEvents
    BY EditorAssumption DEF CloseByUser, Event, IInv, TypeOK
  <2> QED
    BY <2>1 DEF CloseByUser
<1>2. Sound(e, vault) /\ Honest(e, saves', saveRetries') /\ saves' \subseteq Save /\ IsFiniteSet(saves')
  BY <1>1, FlushTabSound
<1> HIDE DEF e
<1>3. Sound(e1, vault) /\ Honest(e1, saves', saveRetries') /\ e1 \in Page
  BY <1>2, CloseTabSound, CalmIsHonest DEF Sound
<1> HIDE DEF e1
<1>4. Sound(e2, vault) /\ Honest(e2, saves', saveRetries')
  <2>1. e2 \in Page /\ e2.tabs = e1.tabs /\ e2.active = e1.active /\ e2.tab = e1.tab /\ e2.pending = e1.pending
    BY <1>3, Texts DEF Page
  <2> HIDE DEF e2
  <2> QED
    BY <1>3, <2>1, SameTabsSound, CalmIsHonest
<1> HIDE DEF e2
<1>5. loads \subseteq Load /\ IsFiniteSet(loads)
  BY DEF IInv, TypeOK
<1>6. /\ ed' \in Page /\ Sound(ed', vault) /\ Honest(ed', saves', saveRetries')
      /\ loads' \subseteq Load /\ IsFiniteSet(loads')
  <2>1. CASE ed' = e1 /\ UNCHANGED loads
    BY <2>1, <1>3, <1>5
  <2>2. CASE Commit(e2) /\ UNCHANGED loads
    BY <2>2, <1>4, <1>5, Commits
  <2>3. CASE e1.active \in Chapters /\ SelectChapter(e1, e1.active)
    BY <2>3, <1>3, Selects
  <2>4. CASE Commit(e1) /\ UNCHANGED loads
    BY <2>4, <1>3, <1>5, Commits
  <2> QED
    BY <1>1, <2>1, <2>2, <2>3, <2>4
<1> QED
  BY <1>1, <1>2, <1>6 DEF IInv, TypeOK

(* A page that changes without a request.                                  *)
LEMMA Showing ==
  ASSUME IInv, NEW e, Sound(e, vault), Honest(e, saves, saveRetries), Commit(e),
         UNCHANGED <<vault, snap, server, saves, gens, saveRetries>>, loads' \subseteq loads, spent' \in 0..MaxEvents
  PROVE  IInv'
<1>1. ed' \in Page /\ Sound(ed', vault) /\ Honest(ed', saves', saveRetries')
  BY Commits
<1>2. loads' \subseteq Load /\ IsFiniteSet(loads')
  BY FS_Subset DEF IInv, TypeOK
<1> QED
  BY <1>1, <1>2 DEF IInv, TypeOK

LEMMA Panelled ==
  ASSUME IInv, NEW k \in Panels, OpenPanel(k)
  PROVE  IInv'
<1> DEFINE e == OpenTab(ed, k, Empty)
<1>1. /\ Commit(e) /\ UNCHANGED <<vault, snap, server, saves, loads, gens, saveRetries>> /\ spent' \in 0..MaxEvents
      /\ Sound(ed, vault) /\ Honest(ed, saves, saveRetries) /\ k \in TabKeys
  BY EditorAssumption DEF OpenPanel, Event, IInv, TypeOK, TabKeys
<1>2. Sound(e, vault) /\ Honest(e, saves, saveRetries)
  BY <1>1, Texts, OpenTabSound, CalmIsHonest
<1> HIDE DEF e
<1> QED
  BY <1>1, <1>2, Showing

LEMMA Listings ==
  ASSUME IInv, ListAnswered \/ ListFails
  PROVE  IInv'
<1>1. PICK valid \in SUBSET Chapters, listed \in BOOLEAN :
        /\ Commit([Prune(ed, valid) EXCEPT !.listing = FALSE, !.listed = listed])
        /\ UNCHANGED <<vault, snap, server, saves, loads, gens, saveRetries>>
  BY DEF ListAnswered, ListFails
<1>2. spent' \in 0..MaxEvents
  BY EditorAssumption DEF ListAnswered, ListFails, Event, IInv, TypeOK
<1> DEFINE f == Prune(ed, valid)
           g == [f EXCEPT !.listing = FALSE, !.listed = listed]
<1>3. Sound(f, vault) /\ Honest(f, saves, saveRetries)
  BY PruneSound, CalmIsHonest DEF IInv
<1> HIDE DEF f
<1>4. g \in Page /\ g.tabs = f.tabs /\ g.active = f.active /\ g.tab = f.tab /\ g.pending = f.pending
  BY <1>3 DEF Sound, Page
<1> HIDE DEF g
<1>5. Sound(g, vault) /\ Honest(g, saves, saveRetries)
  BY <1>3, <1>4, SameTabsSound, CalmIsHonest
<1>6. Commit(g)
  BY <1>1 DEF f, g
<1> QED
  BY <1>1, <1>2, <1>5, <1>6, Showing

(* The answer to a load, and its failure.                                  *)
LEMMA Loads ==
  ASSUME IInv, NEW l \in loads, LoadAnswered(l) \/ LoadFails(l)
  PROVE  IInv'
<1> DEFINE c == l.c
<1>1. /\ ed \in Page /\ Sound(ed, vault) /\ Honest(ed, saves, saveRetries) /\ TypeOK
      /\ c \in Chapters /\ c \in TabKeys /\ l.text \in Text /\ server[c] \in Text /\ Chapters \subseteq TabKeys
      /\ ed.tab[c] \in Tab
  BY DEF IInv, TypeOK, Load, TabKeys, Page
<1> HIDE DEF c
<1>2. CASE LoadAnswered(l)
  <2>1. PICK text \in {l.text, server[c]} :
          Commit(UpdateTab([ed EXCEPT !.current = c, !.content = text], c,
                           [ed.tab[c] EXCEPT !.draft = text, !.loadError = FALSE,
                                             !.work = IF @ = "stored" THEN "stored" ELSE "replaced"]))
    BY <1>1, <1>2 DEF LoadAnswered, Page, c
  <2>2. /\ UNCHANGED <<vault, snap, server, saves, gens, saveRetries>> /\ loads' \subseteq loads /\ spent' \in 0..MaxEvents
        /\ text \in Text
    BY <1>1, <1>2, <2>1 DEF LoadAnswered, TypeOK
  <2> DEFINE e == [ed EXCEPT !.current = c, !.content = text]
             t == [ed.tab[c] EXCEPT !.draft = text, !.loadError = FALSE,
                                    !.work = IF @ = "stored" THEN "stored" ELSE "replaced"]
             f == UpdateTab(e, c, t)
  <2>3. e \in Page /\ e.tabs = ed.tabs /\ e.active = ed.active /\ e.tab = ed.tab /\ e.pending = ed.pending
    BY <1>1, <2>2 DEF Page
  <2>4. t \in Tab /\ t.work # "unsaved" /\ t.status = e.tab[c].status
    BY <1>1, <2>2, <2>3 DEF Tab
  <2>5. Commit(f)
    BY <2>1
  <2> HIDE DEF e, t
  <2>6. Sound(e, vault) /\ Honest(e, saves, saveRetries)
    BY <1>1, <2>3, SameTabsSound, CalmIsHonest
  <2>7. Sound(f, vault)
    BY <1>1, <2>4, <2>6, UpdateTabSound
  <2>8. \A x \in TabKeys : f.tab[x] = IF x = c /\ Open(e, c) THEN t ELSE e.tab[x]
    BY <1>1, <2>3, <2>4, PatchTab
  <2>9. Honest(f, saves, saveRetries)
    BY <1>1, <2>4, <2>6, <2>8 DEF Honest
  <2> HIDE DEF f
  <2> QED
    BY <2>2, <2>5, <2>7, <2>9, Showing
<1>3. CASE LoadFails(l)
  <2> DEFINE t == [ed.tab[c] EXCEPT !.loadError = TRUE]
             f == UpdateTab(ed, c, t)
  <2>1. /\ ed' = f /\ UNCHANGED <<vault, snap, server, saves, gens, saveRetries>> /\ loads' = loads \ {l}
    BY <1>3 DEF LoadFails, c
  <2>2. spent' \in 0..MaxEvents /\ IsFiniteSet(loads') /\ loads' \subseteq Load
    <3>1. Event
      BY <1>3 DEF LoadFails
    <3> QED
      BY <1>1, <2>1, <3>1, EditorAssumption, FS_RemoveElement DEF Event, TypeOK
  <2>3. /\ t \in Tab /\ t.dirty = ed.tab[c].dirty /\ t.status = ed.tab[c].status
        /\ t.work = ed.tab[c].work /\ t.draft = ed.tab[c].draft
    BY <1>1 DEF Tab
  <2> HIDE DEF t
  <2>4. Sound(f, vault) /\ f \in Page
    <3>1. t.work = "unsaved" => t.dirty /\ Backup(ed, c, vault) = t.draft
      BY <1>1, <2>3 DEF Sound
    <3>2. Sound(f, vault)
      BY <1>1, <2>3, <3>1, UpdateTabSound
    <3> HIDE DEF f
    <3> QED
      BY <3>2 DEF Sound
  <2>5. \A x \in TabKeys : f.tab[x] = IF x = c /\ Open(ed, c) THEN t ELSE ed.tab[x]
    BY <1>1, <2>3, PatchTab
  <2>6. Honest(f, saves, saveRetries)
    BY <1>1, <2>3, <2>5 DEF Honest
  <2> HIDE DEF f
  <2> QED
    BY <1>1, <2>1, <2>2, <2>4, <2>6 DEF IInv, TypeOK
<1> QED
  BY <1>2, <1>3

(* selectNovel saves every dirty tab.                                      *)
LEMMA Reselects ==
  ASSUME IInv, SelectNovel
  PROVE  IInv'
<1> DEFINE dirty == {c \in Chapters : MaySave(ed, c)}
           tab == [k \in TabKeys |-> IF k \in dirty THEN [ed.tab[k] EXCEPT !.status = "saving"] ELSE ed.tab[k]]
           put(c) == [Put(c, ed.tab[c].draft, FALSE) EXCEPT !.n = Fresh({s \in saves : s.c = c})]
           puts == {put(c) : c \in dirty}
<1>1. /\ ed \in Page /\ Sound(ed, vault) /\ Honest(ed, saves, saveRetries) /\ TypeOK
      /\ Chapters \subseteq TabKeys /\ ed.tab \in [TabKeys -> Tab]
  BY DEF IInv, TypeOK, TabKeys, Page
<1>2. /\ ed' = [ed EXCEPT !.tab = tab, !.current = NoKey, !.content = Empty, !.listing = TRUE]
      /\ saves' = saves \cup puts
      /\ UNCHANGED <<vault, snap, server, loads, gens, saveRetries>> /\ spent' \in 0..MaxEvents
  <2>1. Event
    BY DEF SelectNovel
  <2>2. spent' \in 0..MaxEvents
    BY <1>1, <2>1, EditorAssumption DEF Event, TypeOK
  <2> QED
    BY <2>2 DEF SelectNovel
<1>3. \A k \in TabKeys : /\ tab[k] \in Tab /\ tab[k].dirty = ed.tab[k].dirty
                         /\ tab[k].work = ed.tab[k].work /\ tab[k].draft = ed.tab[k].draft
                         /\ tab[k].status = IF k \in dirty THEN "saving" ELSE ed.tab[k].status
  <2> SUFFICES ASSUME NEW k \in TabKeys
               PROVE  /\ tab[k] \in Tab /\ tab[k].dirty = ed.tab[k].dirty
                      /\ tab[k].work = ed.tab[k].work /\ tab[k].draft = ed.tab[k].draft
                      /\ tab[k].status = IF k \in dirty THEN "saving" ELSE ed.tab[k].status
    OBVIOUS
  <2>1. ed.tab[k] \in Tab /\ tab[k] = IF k \in dirty THEN [ed.tab[k] EXCEPT !.status = "saving"] ELSE ed.tab[k]
    BY <1>1
  <2> HIDE DEF tab, dirty
  <2> QED
    BY <2>1 DEF Tab
<1>4. \A k \in dirty : k \in Chapters /\ Open(ed, k)
  BY DEF MaySave
<1>5. tab \in [TabKeys -> Tab]
  BY <1>3
<1>6. ASSUME NEW c \in dirty PROVE put(c) \in Save /\ put(c).c = c
  <2>1. c \in Chapters /\ ed.tab[c].draft \in Text
    BY <1>1, <1>4 DEF Tab
  <2>2. Put(c, ed.tab[c].draft, FALSE) \in Save /\ Put(c, ed.tab[c].draft, FALSE).c = c
    BY <1>1, <2>1, Requested
  <2> DEFINE mine == {s \in saves : s.c = c}
  <2>3. Fresh(mine) \in Count
    <3>1. IsFiniteSet(mine)
      BY <1>1, FS_Subset DEF TypeOK
    <3> HIDE DEF mine
    <3> QED
      BY <3>1, FreshNumber
  <2> HIDE DEF mine
  <2> QED
    BY <2>2, <2>3 DEF Save, mine
<1>7. IsFiniteSet(puts)
  <2> DEFINE f == [c \in dirty |-> put(c)]
  <2>1. IsFiniteSet(dirty)
    BY EditorAssumption, FS_Subset
  <2> HIDE DEF put, dirty
  <2>2. f \in Surjection(dirty, puts)
    BY DEF Surjection
  <2> HIDE DEF f, puts
  <2> QED
    BY <2>1, <2>2, FS_Surjection
<1>8. saves' \subseteq Save /\ IsFiniteSet(saves')
  <2>1. puts \subseteq Save
    BY <1>6
  <2> HIDE DEF puts
  <2> QED
    BY <1>1, <1>2, <1>7, <2>1, FS_Union DEF TypeOK
<1> HIDE DEF tab
<1>9. /\ ed' \in Page /\ ed'.tabs = ed.tabs /\ ed'.active = ed.active /\ ed'.tab = tab
      /\ ed'.pending = ed.pending
  BY <1>1, <1>2, <1>5, Texts DEF Page
<1>10. Sound(ed', vault)
  BY <1>1, <1>3, <1>4, <1>9 DEF Sound, Open, Backup
<1>11. Honest(ed', saves', saveRetries)
  <2>1. \A c \in dirty : \E s \in saves' : s.c = c
    BY <1>2, <1>6
  <2>2. \A s \in saves : s \in saves'
    BY <1>2
  <2> HIDE DEF dirty, puts, put
  <2> QED
    BY <1>1, <1>3, <1>9, <2>1, <2>2 DEF Honest
<1> QED
  BY <1>1, <1>2, <1>8, <1>9, <1>10, <1>11 DEF IInv, TypeOK

-------------------------------------------------------------------------------
(* The AI draft: it is written over the tab with a draft of its own.       *)
LEMMA Composing ==
  ASSUME IInv, Compose \/ (\E g \in gens : ComposeAnswered(g))
  PROVE  IInv'
<1>1. /\ ed \in Page /\ Sound(ed, vault) /\ Honest(ed, saves, saveRetries) /\ TypeOK
      /\ gens \subseteq Gen /\ IsFiniteSet(gens) /\ spent \in 0..MaxEvents
  BY DEF IInv, TypeOK
<1>2. /\ ed' \in Page /\ ed'.tabs = ed.tabs /\ ed'.active = ed.active /\ ed'.tab = ed.tab /\ ed'.pending = ed.pending
      /\ UNCHANGED <<vault, snap, server, saves, loads, saveRetries>> /\ spent' \in 0..MaxEvents
      /\ gens' \subseteq Gen /\ IsFiniteSet(gens')
  <2>1. CASE Compose
    <3> DEFINE c == ed.current
               g == [c |-> c, n |-> Fresh(gens)]
    <3>1. /\ c # NoKey /\ Event /\ gens' = gens \cup {g}
          /\ ed' = [ed EXCEPT !.target = c, !.prev = ed.tab[c].draft, !.generating = TRUE, !.draft = Absent]
          /\ UNCHANGED <<vault, snap, server, saves, loads, saveRetries>>
      BY <2>1 DEF Compose
    <3>2. c \in Chapters /\ ed.tab[c].draft \in Text
      BY <1>1, <3>1 DEF Page, Tab, TabKeys
    <3>3. g \in Gen
      BY <1>1, <3>2, FreshNumber DEF Gen
    <3>4. spent' \in 0..MaxEvents
      BY <1>1, <3>1, EditorAssumption DEF Event
    <3> HIDE DEF g, c
    <3>5. gens' \subseteq Gen /\ IsFiniteSet(gens')
      BY <1>1, <3>1, <3>3, FS_AddElement
    <3> QED
      BY <1>1, <3>1, <3>2, <3>4, <3>5, Texts DEF Page
  <2>2. ASSUME NEW g \in gens, ComposeAnswered(g) PROVE <1>2!1 /\ <1>2!2 /\ <1>2!3
    <3>1. g.c \in Chapters
      BY <1>1 DEF Gen
    <3> DEFINE text == [of |-> g.c, rev |-> AI]
    <3>2. text \in Draft
      BY <3>1, EditorAssumption DEF Draft, Text, AI
    <3>3. PICK draft \in Draft : ed' = [ed EXCEPT !.generating = FALSE, !.draft = draft]
      <4> HIDE DEF text
      <4> QED
        BY <2>2, <3>2, Texts DEF ComposeAnswered, text
    <3>4. spent' \in 0..MaxEvents
      <4>1. Event \/ UNCHANGED spent
        BY <2>2 DEF ComposeAnswered
      <4> QED
        BY <4>1, <1>1, EditorAssumption DEF Event
    <3>5. UNCHANGED <<vault, snap, server, saves, loads, saveRetries>> /\ gens' = gens \ {g}
      BY <2>2 DEF ComposeAnswered
    <3>6. gens' \subseteq Gen /\ IsFiniteSet(gens')
      BY <1>1, <3>5, FS_RemoveElement
    <3> QED
      BY <1>1, <3>3, <3>4, <3>5, <3>6 DEF Page
  <2> QED
    BY <2>1, <2>2
<1>3. Sound(ed', vault) /\ Honest(ed', saves, saveRetries)
  BY <1>1, <1>2, SameTabsSound, CalmIsHonest
<1> QED
  BY <1>1, <1>2, <1>3 DEF IInv, TypeOK

LEMMA Written ==
  ASSUME IInv, WriteCompose
  PROVE  IInv'
<1> DEFINE c == ed.target
           p == [ed EXCEPT !.pending[c] = ed.draft]
           t == [ed.tab[c] EXCEPT !.draft = ed.draft, !.dirty = TRUE, !.work = "unsaved"]
           written == UpdateTab(p, c, t)
           starts == ~(Open(ed, c) /\ ed.tab[c].status = "saving")
           f == IF starts /\ Open(ed, c) THEN StartSave(written, c) ELSE written
           g == [f EXCEPT !.target = NoKey, !.draft = Absent]
<1>1. /\ ed \in Page /\ Sound(ed, vault) /\ Honest(ed, saves, saveRetries) /\ TypeOK
      /\ Chapters \subseteq TabKeys /\ ed.tab \in [TabKeys -> Tab] /\ ed.pending \in [Chapters -> Draft]
      /\ saves \subseteq Save /\ IsFiniteSet(saves)
  BY DEF IInv, TypeOK, TabKeys, Page
<1>2. /\ c # NoKey /\ ed.draft # Absent
      /\ snap' = (IF ed.prev = Empty THEN snap ELSE [snap EXCEPT ![c] = ed.prev])
      /\ Commit(g)
      /\ saves' = IF starts THEN saves \cup {Put(c, ed.draft, FALSE)} ELSE saves
      /\ UNCHANGED <<vault, server, loads, gens, saveRetries, spent>>
  BY DEF WriteCompose
<1>3. c \in Chapters /\ c \in TabKeys /\ ed.draft \in Text /\ ed.draft \in Draft /\ ed.prev \in Draft
  BY <1>1, <1>2, Texts DEF Page
<1>4. snap' \in [Chapters -> Draft]
  BY <1>1, <1>2, <1>3 DEF TypeOK
<1>5. t \in Tab /\ t.status = ed.tab[c].status /\ t.dirty /\ t.draft = ed.draft
  BY <1>1, <1>3 DEF Tab
<1> HIDE DEF t
<1>6. /\ p \in Page /\ p.tabs = ed.tabs /\ p.active = ed.active /\ p.tab = ed.tab
      /\ p.pending = [ed.pending EXCEPT ![c] = ed.draft]
  <2>1. [ed.pending EXCEPT ![c] = ed.draft] \in [Chapters -> Draft]
    BY <1>1, <1>3
  <2> QED
    BY <1>1, <2>1 DEF Page
<1> HIDE DEF p
<1>7. \A x \in Chapters : p.pending[x] = IF x = c THEN ed.draft ELSE ed.pending[x]
  BY <1>1, <1>3, <1>6
<1>9. /\ written.tabs = ed.tabs /\ written.active = ed.active /\ written.pending = p.pending
      /\ written \in Page
      /\ \A x \in TabKeys : written.tab[x] = IF x = c /\ Open(p, c) THEN t ELSE p.tab[x]
  BY <1>3, <1>5, <1>6, PatchTab
<1> HIDE DEF written
<1>8. Sound(written, vault)
  BY <1>1, <1>2, <1>3, <1>5, <1>6, <1>7, <1>9 DEF Sound, Open, Backup
<1>10. Honest(written, saves, saveRetries)
  BY <1>1, <1>5, <1>6, <1>9 DEF Honest
<1>11. Sound(f, vault) /\ Honest(f, saves', saveRetries)
  <2> DEFINE s == Put(c, ed.draft, FALSE)
  <2>1. s.c = c
    BY DEF Put
  <2> HIDE DEF s, c
  <2>2. Honest(written, saves', saveRetries)
    BY <1>2, <1>10 DEF Honest
  <2>3. CASE starts /\ Open(ed, c)
    <3>1. Open(written, c)
      BY <2>3, <1>9 DEF Open
    <3>2. Sound(f, vault) /\ Honest(f, saves \cup {s}, saveRetries)
      BY <2>3, <2>1, <3>1, <1>3, <1>8, <1>10, StartSaveSound, StartSaveHonest
    <3> QED
      BY <2>3, <3>2, <1>2 DEF s
  <2>4. CASE ~(starts /\ Open(ed, c))
    BY <2>2, <2>4, <1>8
  <2> QED
    BY <2>3, <2>4
<1>12. saves' \subseteq Save /\ IsFiniteSet(saves')
  BY <1>1, <1>2, <1>3, Requested
<1> HIDE DEF f, c, starts
<1>13. g \in Page /\ g.tabs = f.tabs /\ g.active = f.active /\ g.tab = f.tab /\ g.pending = f.pending
  BY <1>11, Texts DEF Sound, Page
<1> HIDE DEF g
<1>14. Sound(g, vault) /\ Honest(g, saves', saveRetries)
  BY <1>11, <1>13, SameTabsSound, CalmIsHonest
<1>15. ed' \in Page /\ Sound(ed', vault) /\ Honest(ed', saves', saveRetries')
  BY <1>2, <1>14, Commits
<1> QED
  BY <1>1, <1>2, <1>4, <1>12, <1>15 DEF IInv, TypeOK

-------------------------------------------------------------------------------
LEMMA NewPageSound ==
  ASSUME NEW d
  PROVE  Sound(NewPage, d) /\ Honest(NewPage, {}, {}) /\ NewPage \in Page
<1>1. NewTab(Empty) \in Tab /\ NewTab(Empty).work # "unsaved" /\ NewTab(Empty).status = "idle"
  BY NewTabs, Texts
<1> DEFINE tab == [k \in TabKeys |-> NewTab(Empty)]
           pending == [c \in Chapters |-> Absent]
<1>2. tab \in [TabKeys -> Tab] /\ \A k \in TabKeys : tab[k] = NewTab(Empty)
  BY <1>1
<1>3. pending \in [Chapters -> Draft]
  BY Texts
<1>4. /\ NewPage.active = NoKey /\ NewPage.tab = tab
      /\ NewPage.tabs = <<>>
  BY DEF NewPage
<1> HIDE DEF tab
<1>5. NewPage \in Page
  <2>1. <<>> \in Seq(TabKeys)
    OBVIOUS
  <2> QED
    BY <1>2, <1>3, <2>1, Texts DEF NewPage, Page, tab
<1> QED
  BY <1>1, <1>2, <1>4, <1>5 DEF Sound, Honest, TabKeys

LEMMA Leaves ==
  ASSUME IInv, LeavePage
  PROVE  IInv'
<1>1. /\ ed \in Page /\ TypeOK /\ ed.pending \in [Chapters -> Draft]
      /\ vault \in [Chapters -> Draft] /\ server \in [Chapters -> Text] /\ saves \subseteq Save
  BY DEF IInv, TypeOK, Page
<1>2. /\ vault' \in {vault, [c \in Chapters |-> IF ed.pending[c] # Absent THEN ed.pending[c] ELSE vault[c]]}
      /\ ed' = NewPage /\ saves' = {} /\ loads' = {} /\ gens' = {} /\ saveRetries' = {}
      /\ UNCHANGED snap
  BY DEF LeavePage
<1>3. spent' \in 0..MaxEvents
  <2>1. Event
    BY DEF LeavePage
  <2> QED
    BY <1>1, <2>1, EditorAssumption DEF Event, TypeOK
<1>4. vault' \in [Chapters -> Draft]
  BY <1>1, <1>2
<1>5. PICK landed \in SUBSET saves :
        server' = [c \in Chapters |-> IF \E s \in landed : s.c = c
                                        THEN (CHOOSE s \in landed : s.c = c).body ELSE server[c]]
  BY DEF LeavePage
<1>6. server' \in [Chapters -> Text]
  <2> SUFFICES ASSUME NEW c \in Chapters
               PROVE  (IF \E s \in landed : s.c = c THEN (CHOOSE s \in landed : s.c = c).body ELSE server[c]) \in Text
    BY <1>5
  <2>1. CASE \E s \in landed : s.c = c
    <3> DEFINE s == CHOOSE s \in landed : s.c = c
    <3>1. s \in landed
      BY <2>1
    <3> HIDE DEF s
    <3>2. s.body \in Text
      BY <1>1, <3>1 DEF Save
    <3> QED
      BY <2>1, <3>2 DEF s
  <2>2. CASE ~\E s \in landed : s.c = c
    BY <1>1, <2>2
  <2> QED
    BY <2>1, <2>2
<1>7. ed' \in Page /\ Sound(ed', vault') /\ Honest(ed', saves', saveRetries')
  BY <1>2, NewPageSound
<1>8. IsFiniteSet(saves') /\ IsFiniteSet(loads') /\ IsFiniteSet(gens') /\ IsFiniteSet(saveRetries')
  BY <1>2, FS_EmptySet
<1> QED
  BY <1>1, <1>2, <1>3, <1>4, <1>6, <1>7, <1>8 DEF IInv, TypeOK

-------------------------------------------------------------------------------
LEMMA InitIInv == EdInit => IInv
<1> SUFFICES ASSUME EdInit PROVE IInv
  OBVIOUS
<1>1. \A c \in Chapters : [of |-> c, rev |-> 0] \in Text
  BY EditorAssumption DEF Text, AI
<1>2. vault \in [Chapters -> Draft] /\ snap \in [Chapters -> Draft]
  BY Texts DEF EdInit
<1>3. server \in [Chapters -> Text]
  BY <1>1 DEF EdInit
<1>4. IsFiniteSet({}) /\ saves = {} /\ loads = {} /\ gens = {} /\ saveRetries = {} /\ spent = 0 /\ ed = NewPage
  BY FS_EmptySet DEF EdInit
<1> QED
  BY <1>2, <1>3, <1>4, NewPageSound, EditorAssumption DEF IInv, TypeOK

LEMMA NextIInv == IInv /\ [EdNext]_edVars => IInv'
<1> SUFFICES ASSUME IInv, [EdNext]_edVars PROVE IInv'
  OBVIOUS
<1>1. CASE Type \/ SyncHtml \/ CloseCompose \/ (\E c \in Chapters : WriteDraft(c))
  BY <1>1, Typing
<1>2. CASE SaveNow \/ (\E c \in Chapters : AutoSave(c))
  BY <1>2, Flushing
<1>3. CASE SelectNovel
  BY <1>3, Reselects
<1>4. CASE ListAnswered \/ ListFails
  BY <1>4, Listings
<1>5. CASE Compose \/ (\E g \in gens : ComposeAnswered(g))
  BY <1>5, Composing
<1>6. CASE WriteCompose
  BY <1>6, Written
<1>7. CASE LeavePage
  BY <1>7, Leaves
<1>8. CASE \E k \in TabKeys : SwitchTab(k) \/ CloseByUser(k)
  BY <1>8, Switches, Closes
<1>9. CASE \E k \in Panels : OpenPanel(k)
  BY <1>9, Panelled
<1>10. CASE \E c \in Chapters : ClickChapter(c)
  BY <1>10, Clicks
<1>11. CASE \E s \in saves : SaveAnswered(s) \/ SaveFails(s)
  BY <1>11, Saved, Failed
<1>12. CASE \E l \in loads : LoadAnswered(l) \/ LoadFails(l)
  BY <1>12, Loads
<1>13. CASE \E r \in saveRetries : RetrySave(r)
  BY <1>13, Retries
<1>14. CASE UNCHANGED edVars
  BY <1>14 DEF edVars, IInv, TypeOK, Sound, Honest, Backup
<1> QED
  BY <1>1, <1>2, <1>3, <1>4, <1>5, <1>6, <1>7, <1>8, <1>9, <1>10, <1>11, <1>12, <1>13, <1>14 DEF EdNext

(* Every reachable state has its type, shows a sound page, and says of     *)
(* saves and retries what is so.                                           *)
LEMMA Invariance == EdSpec => []IInv
<1>1. IInv /\ [EdNext]_edVars => IInv'
  BY NextIInv
<1> QED
  BY InitIInv, <1>1, PTL DEF EdSpec

(* The editor's state has its type whatever the author, the network and    *)
(* the timers do (editor-store, tab-store, novel-store, draft-vault).      *)
THEOREM TypeCorrect == EdSpec => []TypeOK
<1>1. IInv => TypeOK
  BY DEF IInv
<1> QED
  BY <1>1, Invariance, PTL

(* "The draft is still in the local layer" (saveChapter): the text a tab   *)
(* holds unsaved is what localStorage would give back, or is on its way    *)
(* there, through every order of saves, loads, retries, closed tabs,       *)
(* reloads and AI drafts, until the answer to a save of an older text, a   *)
(* load or an older draft has come over it.                                *)
THEOREM NothingUnsavedIsLost == EdSpec => []UnsavedIsBackedUp
<1>1. IInv => UnsavedIsBackedUp
  BY DEF IInv, Sound, UnsavedIsBackedUp
<1> QED
  BY <1>1, Invariance, PTL

(* A tab never says "saving" without a save under way, nor "failed"        *)
(* without a timer that will retry it (saveChapter, scheduleSaveRetry).    *)
THEOREM HonestStatus == EdSpec => []StatusIsHonest
<1>1. IInv => StatusIsHonest
  BY DEF IInv, Honest, StatusIsHonest
<1> QED
  BY <1>1, Invariance, PTL

-----------------------------------------------------------------------------
(* The versions of a whole novel and the open tab they are poured into,    *)
(* for any number of snapshots, restores, refreshes and failures.          *)

mileAll == <<mile, mileServer, mileCalls>>

MileVersion == [novel : Nat, text : Nat]
MileServers == [draft : Nat, versions : Seq(MileVersion)]
MilePage == [open : BOOLEAN, current : Nat, of : Nat, versions : SUBSET Nat, loading : BOOLEAN, restoring : BOOLEAN,
             snapshotting : BOOLEAN, error : BOOLEAN, confirm : Nat, text : Nat, dirty : BOOLEAN, fresh : Nat,
             asked : Nat, left : Nat]
MileKinds == {"list", "snapshot", "restore", "chapters", "content"}
MileCall == [kind : MileKinds, for : {"panel", "snapshot", "restore"}, id : Nat, novel : Nat, version : Nat,
             was : Nat, saved : BOOLEAN, typed : Nat, read : BOOLEAN, list : SUBSET Nat, text : Nat]

(* Nothing is newer than what was typed last, and a text not saved is what *)
(* was typed last: neither the draft nor a version holds it.  A request    *)
(* made when the server had the text still finds it there, as the draft or *)
(* in a version, until something is typed.                                 *)
MileTexts == {mileServer.versions[v].text : v \in DOMAIN mileServer.versions}
MileWell(c) ==
  /\ c \in MileCall /\ c.text <= mile.fresh /\ c.typed <= mile.fresh
  /\ c.saved /\ c.typed = mile.fresh => ~mile.dirty /\ c.was \in {mileServer.draft} \cup MileTexts
MileTyped == mile \in MilePage /\ mileServer \in MileServers
MileOld ==
  /\ 2 < mile.fresh /\ mile.text <= mile.fresh /\ mileServer.draft <= mile.fresh
  /\ \A t \in MileTexts : t <= mile.fresh
MileUnsaved ==
  mile.dirty => mile.text = mile.fresh /\ mileServer.draft < mile.fresh /\ \A t \in MileTexts : t < mile.fresh
MileInv == MileTyped /\ MileOld /\ MileUnsaved /\ \A c \in mileCalls : MileWell(c)

LEMMA MileStarts == MileMaxEvents \in Nat /\ Mile!Init => MileInv
<1> SUFFICES ASSUME MileMaxEvents \in Nat, Mile!Init PROVE MileInv
    OBVIOUS
<1>1. PICK no \in BOOLEAN : no = FALSE
      OBVIOUS
<1>2. mile = [open |-> no, current |-> 1, of |-> 0, versions |-> {}, loading |-> no, restoring |-> no,
              snapshotting |-> no, error |-> no, confirm |-> 0, text |-> 3, dirty |-> no, fresh |-> 3,
              asked |-> 0, left |-> MileMaxEvents]
      BY <1>1 DEF Mile!Init, Mile!NoVersion
<1>3. mile \in MilePage /\ mile.text = 3 /\ mile.fresh = 3 /\ ~mile.dirty
      BY <1>1, <1>2 DEF MilePage
<1> DEFINE v1 == [novel |-> 1, text |-> 1]
           v2 == [novel |-> 2, text |-> 2]
<1>4. v1 \in MileVersion /\ v2 \in MileVersion /\ v1.text = 1 /\ v2.text = 2
      BY DEF MileVersion
<1>5. mileServer = [draft |-> 3, versions |-> <<v1, v2>>] /\ mileCalls = {}
      BY DEF Mile!Init
<1> HIDE DEF v1, v2
<1>6. <<v1, v2>> \in Seq(MileVersion) /\ DOMAIN <<v1, v2>> = {1, 2} /\ <<v1, v2>>[1] = v1 /\ <<v1, v2>>[2] = v2
      BY <1>4
<1>7. mileServer \in MileServers /\ mileServer.draft = 3 /\ mileServer.versions = <<v1, v2>>
      BY <1>5, <1>6 DEF MileServers
<1>8. \A t \in MileTexts : t \in {1, 2}
      BY <1>4, <1>6, <1>7 DEF MileTexts
<1> QED BY <1>3, <1>5, <1>7, <1>8 DEF MileInv, MileTyped, MileOld, MileUnsaved

(* The page goes on, its text as it was: what is asked must be well        *)
MileSame(m) == m \in MilePage /\ m.text = mile.text /\ m.dirty = mile.dirty /\ m.fresh = mile.fresh

LEMMA MileGoesOn ==
  ASSUME MileInv, MileSame(mile'), mileServer' = mileServer, \A c \in mileCalls' : c \in mileCalls \/ MileWell(c)
  PROVE  MileInv'
<1>1. MileTexts' = MileTexts
      BY DEF MileTexts
<1>2. \A c \in mileCalls' : MileWell(c)
      BY DEF MileInv
<1>3. \A c \in mileCalls' : MileWell(c)'
      BY <1>1, <1>2 DEF MileWell, MileSame
<1>4. MileTyped' /\ MileOld' /\ MileUnsaved'
      BY <1>1 DEF MileInv, MileTyped, MileOld, MileUnsaved, MileSame
<1> QED BY <1>3, <1>4 DEF MileInv

LEMMA MileAsks ==
  ASSUME MileInv, NEW m, MileSame(m), NEW others \in SUBSET mileCalls, NEW kind \in MileKinds,
         NEW for \in {"panel", "snapshot", "restore"}, NEW n \in Nat, NEW v \in Nat,
         Mile!Asks(m, others, kind, for, n, v), mileServer' = mileServer
  PROVE  MileInv'
<1> DEFINE had == m.text = mileServer.draft
<1>1. PICK no \in BOOLEAN : no = FALSE
      OBVIOUS
<1>2. had \in BOOLEAN
      OBVIOUS
<1>3. had => mile.text = mileServer.draft
      BY DEF MileSame
<1> HIDE DEF had
<1> DEFINE c == [kind |-> kind, for |-> for, id |-> m.asked + 1, novel |-> n, version |-> v, was |-> m.text,
                 saved |-> had, typed |-> m.fresh, read |-> no, list |-> {}, text |-> 0]
<1>4. mile' = [m EXCEPT !.asked = @ + 1] /\ mileCalls' = others \cup {c}
      BY <1>1 DEF Mile!Asks, Mile!Call, had
<1>5. m.asked + 1 \in Nat /\ m.text \in Nat /\ m.fresh \in Nat /\ m \in MilePage /\ 0 \in Nat
      BY DEF MileSame, MilePage
<1>6. c \in MileCall
      BY <1>1, <1>2, <1>5 DEF MileCall
<1>7. c.text = 0 /\ c.typed = m.fresh /\ c.was = m.text /\ c.saved = had
      OBVIOUS
<1> HIDE DEF c
<1>8. c.saved => ~mile.dirty /\ c.was = mileServer.draft
  <2>1. mile.text \in Nat /\ mile.fresh \in Nat /\ mileServer.draft \in Nat
        BY DEF MileInv, MileTyped, MilePage, MileServers
  <2> QED BY <1>3, <1>7, <2>1 DEF MileSame, MileInv, MileUnsaved
<1>9. MileWell(c)
      BY <1>5, <1>6, <1>7, <1>8 DEF MileWell, MileSame
<1>10. MileSame(mile')
      BY <1>4, <1>5 DEF MileSame, MilePage
<1> QED BY <1>4, <1>9, <1>10, MileGoesOn

LEMMA MileContinues ==
  ASSUME MileInv, NEW m, MileSame(m), NEW k \in mileCalls, NEW kind \in MileKinds, Mile!GoesOn(m, k, kind),
         mileServer' = mileServer
  PROVE  MileInv'
<1> DEFINE had == m.text = mileServer.draft
<1>1. PICK no \in BOOLEAN : no = FALSE
      OBVIOUS
<1>2. had \in BOOLEAN
      OBVIOUS
<1>3. MileWell(k) /\ k \in MileCall
      BY DEF MileInv, MileWell
<1> DEFINE b == [kind |-> kind, for |-> k.for, id |-> m.asked + 1, novel |-> k.novel, version |-> k.version,
                 was |-> m.text, saved |-> had, typed |-> m.fresh, read |-> no, list |-> {}, text |-> 0]
           c == [b EXCEPT !.was = k.was, !.saved = k.saved, !.typed = k.typed]
<1>4. mile' = [m EXCEPT !.asked = @ + 1] /\ mileCalls' = (mileCalls \ {k}) \cup {c}
      BY <1>1 DEF Mile!GoesOn, Mile!Call, Mile!Others
<1> HIDE DEF had
<1>5. m.asked + 1 \in Nat /\ m.text \in Nat /\ m.fresh \in Nat /\ m \in MilePage /\ 0 \in Nat
      BY DEF MileSame, MilePage
<1>6. b \in MileCall /\ b.text = 0
      BY <1>1, <1>2, <1>3, <1>5 DEF MileCall
<1> HIDE DEF b
<1>7. c \in MileCall /\ c.text = 0 /\ c.typed = k.typed /\ c.was = k.was /\ c.saved = k.saved
      BY <1>3, <1>6 DEF MileCall
<1> HIDE DEF c
<1>8. MileWell(c)
      BY <1>3, <1>5, <1>7 DEF MileWell, MileSame
<1>9. MileSame(mile')
      BY <1>4, <1>5 DEF MileSame, MilePage
<1> QED BY <1>4, <1>8, <1>9, MileGoesOn

LEMMA MileActed == ASSUME NEW m, MileSame(m), m.left > 0 PROVE MileSame(Mile!Acted(m))
<1>1. m.left - 1 \in Nat
      BY DEF MileSame, MilePage
<1> QED BY <1>1 DEF MileSame, MilePage, Mile!Acted

LEMMA MileUser == MileInv /\ Mile!User => MileSame(Mile!Acted(mile))
<1> SUFFICES ASSUME MileInv, Mile!User PROVE MileSame(Mile!Acted(mile))
    OBVIOUS
<1>1. MileSame(mile) /\ mile.left > 0
      BY DEF MileInv, MileTyped, MileSame, Mile!User
<1> QED BY <1>1, MileActed

LEMMA MilePages ==
  ASSUME MileInv,
         Mile!OpenPanel \/ Mile!ClosePanel \/ Mile!CancelChoice \/ (\E n \in Mile!Novels : Mile!SelectNovel(n))
           \/ (\E v \in Mile!Versions : Mile!Choose(v))
  PROVE  MileInv'
<1>1. PICK no \in BOOLEAN, yes \in BOOLEAN : no = FALSE /\ yes = TRUE
      OBVIOUS
<1>2. mile \in MilePage /\ MileSame(mile)
      BY DEF MileInv, MileTyped, MileSame
<1>3. mile.current \in Nat /\ 0 \in Nat /\ "list" \in MileKinds
      BY <1>2 DEF MilePage, MileKinds
<1>4. CASE Mile!OpenPanel
  <2> DEFINE o == [mile EXCEPT !.open = yes]
             a == Mile!Acted(o)
             m == [a EXCEPT !.loading = yes, !.error = no]
  <2>1. Mile!Asks(m, mileCalls, "list", "panel", mile.current, 0) /\ mileServer' = mileServer /\ Mile!User
        BY <1>1, <1>4 DEF Mile!OpenPanel, Mile!Loading, Mile!NoVersion
  <2>2. MileSame(o) /\ o.left > 0
        BY <1>2, <2>1 DEF MileSame, MilePage, Mile!User
  <2> HIDE DEF o
  <2>3. MileSame(a)
        BY <2>2, MileActed
  <2> HIDE DEF a
  <2>4. MileSame(m)
        BY <2>3 DEF MileSame, MilePage
  <2> HIDE DEF m
  <2> QED BY <1>3, <2>1, <2>4, MileAsks
<1>5. CASE Mile!ClosePanel
  <2>1. mile' = [mile EXCEPT !.open = no, !.confirm = 0, !.of = 0, !.versions = {}, !.loading = no,
                             !.restoring = no, !.snapshotting = no, !.error = no]
        BY <1>1, <1>5 DEF Mile!ClosePanel, Mile!NoVersion
  <2>2. mileServer' = mileServer /\ mileCalls' = mileCalls
        BY <1>5 DEF Mile!ClosePanel
  <2>3. MileSame(mile')
        BY ZenonT(60), <1>2, <2>1 DEF MileSame, MilePage
  <2> QED BY <2>2, <2>3, MileGoesOn
<1>6. CASE Mile!CancelChoice
  <2>1. mile' = [mile EXCEPT !.confirm = 0] /\ mileServer' = mileServer /\ mileCalls' = mileCalls
        BY <1>6 DEF Mile!CancelChoice, Mile!NoVersion
  <2>2. MileSame(mile')
        BY <1>2, <2>1 DEF MileSame, MilePage
  <2> QED BY <2>1, <2>2, MileGoesOn
<1>7. ASSUME NEW n \in Mile!Novels, Mile!SelectNovel(n) PROVE MileInv'
  <2> DEFINE o == [mile EXCEPT !.current = n]
             a == Mile!Acted(o)
             m == [a EXCEPT !.loading = yes, !.error = no]
  <2>0. n \in Nat
        BY DEF Mile!Novels
  <2>1. mileServer' = mileServer /\ Mile!User
        BY <1>7 DEF Mile!SelectNovel
  <2>2. MileSame(o) /\ o.left > 0
        BY <1>2, <2>0, <2>1 DEF MileSame, MilePage, Mile!User
  <2>3. MileSame(a)
        BY <2>2, MileActed
  <2>4. CASE mile.open
    <3>1. Mile!Asks(m, mileCalls, "list", "panel", n, 0)
          BY <1>1, <1>7, <2>4 DEF Mile!SelectNovel, Mile!Loading, Mile!NoVersion
    <3> HIDE DEF a
    <3>2. MileSame(m)
          BY <2>3 DEF MileSame, MilePage
    <3> HIDE DEF m
    <3> QED BY <1>3, <2>0, <2>1, <3>1, <3>2, MileAsks
  <2>5. CASE ~mile.open
    <3>1. mile' = a /\ mileCalls' = mileCalls
          BY <1>7, <2>5 DEF Mile!SelectNovel
    <3> QED BY <2>1, <2>3, <3>1, MileGoesOn
  <2> QED BY <2>4, <2>5
<1>8. ASSUME NEW v \in Mile!Versions, Mile!Choose(v) PROVE MileInv'
  <2> DEFINE o == [mile EXCEPT !.confirm = v]
  <2>1. mile' = Mile!Acted(o) /\ mileServer' = mileServer /\ mileCalls' = mileCalls /\ Mile!User
        BY <1>8 DEF Mile!Choose
  <2>2. v \in Nat
        BY <1>2, <1>8 DEF Mile!Choose, MilePage
  <2>3. MileSame(o) /\ o.left > 0
        BY <1>2, <2>1, <2>2 DEF MileSame, MilePage, Mile!User
  <2> HIDE DEF o
  <2>4. MileSame(mile')
        BY <2>1, <2>3, MileActed
  <2> QED BY <2>1, <2>4, MileGoesOn
<1> QED BY <1>4, <1>5, <1>6, <1>7, <1>8

LEMMA MileWrites == ASSUME MileInv, Mile!Type \/ Mile!Save PROVE MileInv'
<1>1. PICK no \in BOOLEAN, yes \in BOOLEAN : no = FALSE /\ yes = TRUE
      OBVIOUS
<1>2. mile \in MilePage /\ mileServer \in MileServers /\ mile.fresh \in Nat /\ mile.text \in Nat
      BY DEF MileInv, MileTyped, MilePage
<1>3. mileServer.draft \in Nat /\ MileTexts \in SUBSET Nat
  <2>0. mileServer.versions \in Seq(MileVersion)
        BY <1>2 DEF MileServers
  <2>1. \A v \in DOMAIN mileServer.versions : mileServer.versions[v].text \in Nat
    <3> SUFFICES ASSUME NEW v \in DOMAIN mileServer.versions PROVE mileServer.versions[v].text \in Nat
        OBVIOUS
    <3>1. mileServer.versions[v] \in MileVersion
          BY <2>0
    <3> QED BY <3>1 DEF MileVersion
  <2> QED BY <1>2, <2>1 DEF MileServers, MileTexts
<1>4. CASE Mile!Type
  <2> DEFINE o == [mile EXCEPT !.text = mile.fresh + 1, !.fresh = mile.fresh + 1, !.dirty = yes]
  <2>1. mile' = Mile!Acted(o) /\ mileServer' = mileServer /\ mileCalls' = mileCalls /\ mile.left > 0
        BY <1>1, <1>4 DEF Mile!Type, Mile!User
  <2>0. mile.fresh + 1 \in Nat
        BY <1>2
  <2>2. o \in MilePage /\ o.text = mile.fresh + 1 /\ o.fresh = mile.fresh + 1 /\ o.left = mile.left
        BY <1>1, <1>2, <2>0 DEF MilePage
  <2> HIDE DEF o
  <2>3. o.left - 1 \in Nat
        BY <2>1, <2>2 DEF MilePage
  <2>4. mile' \in MilePage /\ mile'.text = mile.fresh + 1 /\ mile'.fresh = mile.fresh + 1
        BY <2>1, <2>2, <2>3 DEF MilePage, Mile!Acted
  <2>5. MileTexts' = MileTexts
        BY <2>1 DEF MileTexts
  <2>6. \A c \in mileCalls' : MileWell(c)'
    <3> SUFFICES ASSUME NEW c \in mileCalls' PROVE MileWell(c)'
        OBVIOUS
    <3>1. MileWell(c) /\ c \in MileCall /\ c.text <= mile.fresh /\ c.typed <= mile.fresh
          BY <2>1 DEF MileInv, MileWell
    <3>2. c.text \in Nat /\ c.typed \in Nat
          BY <3>1 DEF MileCall
    <3>3. c.text <= mile'.fresh /\ c.typed < mile'.fresh /\ mile'.fresh \in Nat
          BY <1>2, <2>4, <3>1, <3>2
    <3> QED BY <3>1, <3>2, <3>3 DEF MileWell
  <2>7. MileOld'
        BY <1>2, <1>3, <2>1, <2>4, <2>5 DEF MileInv, MileOld
  <2>8. \A t \in MileTexts' : t < mile'.fresh
        BY <1>2, <1>3, <2>4, <2>5 DEF MileInv, MileOld
  <2>9. mileServer'.draft < mile'.fresh
        BY <1>2, <1>3, <2>1, <2>4 DEF MileInv, MileOld
  <2> QED BY <1>2, <2>1, <2>4, <2>6, <2>7, <2>8, <2>9 DEF MileInv, MileTyped, MileUnsaved
<1>5. CASE Mile!Save
  <2>1. mile' = [mile EXCEPT !.dirty = no] /\ mileServer' = [mileServer EXCEPT !.draft = mile.text]
        BY <1>1, <1>5 DEF Mile!Save
  <2>2. mileCalls' = mileCalls /\ mile.dirty
        BY <1>5 DEF Mile!Save
  <2>3. mile' \in MilePage /\ mile'.text = mile.text /\ mile'.fresh = mile.fresh /\ ~mile'.dirty
        BY <1>1, <1>2, <2>1 DEF MilePage
  <2>4. mileServer' \in MileServers /\ mileServer'.draft = mile.text /\ mileServer'.versions = mileServer.versions
        BY <1>2, <2>1 DEF MileServers
  <2>5. MileTexts' = MileTexts
        BY <2>4 DEF MileTexts
  <2>6. \A c \in mileCalls : MileWell(c)'
        BY <2>2, <2>3 DEF MileInv, MileWell
  <2>7. MileOld'
        BY <2>3, <2>4, <2>5 DEF MileInv, MileOld
  <2> QED BY <2>2, <2>3, <2>4, <2>6, <2>7 DEF MileInv, MileTyped, MileUnsaved
<1> QED BY <1>4, <1>5
LEMMA MilePresses == ASSUME MileInv, Mile!Snapshot \/ Mile!Restore PROVE MileInv'
<1>1. PICK no \in BOOLEAN, yes \in BOOLEAN : no = FALSE /\ yes = TRUE
      OBVIOUS
<1>2. mile \in MilePage /\ mile.current \in Nat /\ mile.confirm \in Nat /\ 0 \in Nat
      BY DEF MileInv, MileTyped, MilePage
<1>3. MileSame(mile) /\ "snapshot" \in MileKinds /\ "restore" \in MileKinds
      BY <1>2 DEF MileSame, MileKinds
<1>4. CASE Mile!Snapshot
  <2> DEFINE o == [mile EXCEPT !.snapshotting = yes, !.error = no]
             m == Mile!Acted(o)
  <2>1. Mile!Asks(m, mileCalls, "snapshot", "snapshot", mile.current, 0) /\ mileServer' = mileServer /\ Mile!User
        BY <1>1, <1>4 DEF Mile!Snapshot, Mile!NoVersion
  <2>2. MileSame(o) /\ o.left > 0
        BY <1>2, <2>1 DEF MileSame, MilePage, Mile!User
  <2> HIDE DEF o
  <2>3. MileSame(m)
        BY <2>2, MileActed
  <2> HIDE DEF m
  <2> QED BY <1>2, <1>3, <2>1, <2>3, MileAsks
<1>5. CASE Mile!Restore
  <2> DEFINE o == [mile EXCEPT !.restoring = yes, !.error = no]
             m == Mile!Acted(o)
  <2>1. Mile!Asks(m, mileCalls, "restore", "restore", mile.current, mile.confirm) /\ mileServer' = mileServer
        BY <1>1, <1>5 DEF Mile!Restore
  <2>2. MileSame(o) /\ o.left > 0
        BY <1>2, <1>5 DEF MileSame, MilePage, Mile!User, Mile!Restore
  <2> HIDE DEF o
  <2>3. MileSame(m)
        BY <2>2, MileActed
  <2> HIDE DEF m
  <2> QED BY <1>2, <1>3, <2>1, <2>3, MileAsks
<1> QED BY <1>4, <1>5

(* load ends: what the list is for decides what comes next                 *)
LEMMA MileAfterList ==
  ASSUME MileInv, NEW m, MileSame(m), NEW k \in mileCalls, Mile!AfterList(m, k), mileServer' = mileServer
  PROVE  MileInv'
<1>1. PICK no \in BOOLEAN : no = FALSE
      OBVIOUS
<1>2. k \in MileCall
      BY DEF MileInv, MileWell
<1>3. CASE k.for = "panel"
  <2>1. mile' = m /\ mileCalls' = mileCalls \ {k}
        BY <1>3 DEF Mile!AfterList, Mile!Others
  <2> QED BY <2>1, MileGoesOn
<1>4. CASE k.for = "snapshot"
  <2>1. mile' = [m EXCEPT !.snapshotting = no] /\ mileCalls' = mileCalls \ {k}
        BY <1>1, <1>4 DEF Mile!AfterList, Mile!Others
  <2>2. MileSame(mile')
        BY <2>1 DEF MileSame, MilePage
  <2> QED BY <2>1, <2>2, MileGoesOn
<1>5. CASE k.for = "restore"
  <2> DEFINE n == [m EXCEPT !.restoring = no, !.confirm = 0]
  <2>1. Mile!GoesOn(n, k, "chapters")
        BY <1>1, <1>5 DEF Mile!AfterList, Mile!NoVersion
  <2>2. MileSame(n) /\ "chapters" \in MileKinds
        BY DEF MileSame, MilePage, MileKinds
  <2> HIDE DEF n
  <2> QED BY <2>1, <2>2, MileContinues
<1> QED BY <1>2, <1>3, <1>4, <1>5 DEF MileCall

LEMMA MileLists ==
  ASSUME MileInv, NEW k \in mileCalls, Mile!ServerLists(k) \/ Mile!Listed(k) \/ Mile!ListFails(k)
  PROVE  MileInv'
<1>1. PICK no \in BOOLEAN, yes \in BOOLEAN : no = FALSE /\ yes = TRUE
      OBVIOUS
<1>2. mile \in MilePage /\ MileSame(mile) /\ mileServer.versions \in Seq(MileVersion)
      BY DEF MileInv, MileTyped, MileSame, MileServers
<1>3. k \in MileCall /\ MileWell(k)
      BY DEF MileInv, MileWell
<1>4. CASE Mile!ServerLists(k)
  <2> DEFINE l == Mile!Of(k.novel)
             c == [k EXCEPT !.read = yes, !.list = l]
  <2>1. mileCalls' = (mileCalls \ {k}) \cup {c} /\ mile' = mile /\ mileServer' = mileServer
        BY <1>1, <1>4 DEF Mile!ServerLists, Mile!Others
  <2>2. l \in SUBSET Nat
        BY <1>2 DEF Mile!Of
  <2> HIDE DEF l
  <2>3. c \in MileCall /\ c.text = k.text /\ c.typed = k.typed /\ c.saved = k.saved /\ c.was = k.was
        BY <1>3, <2>2 DEF MileCall
  <2> HIDE DEF c
  <2>4. MileWell(c)
        BY <1>3, <2>3 DEF MileWell
  <2> QED BY <1>2, <2>1, <2>4, MileGoesOn
<1>5. CASE Mile!Listed(k)
  <2> DEFINE m == [mile EXCEPT !.of = k.novel, !.versions = k.list, !.loading = no]
  <2>1. Mile!AfterList(m, k) /\ mileServer' = mileServer
        BY <1>1, <1>5 DEF Mile!Listed
  <2>2. k.novel \in Nat /\ k.list \in SUBSET Nat
        BY <1>3 DEF MileCall
  <2>3. MileSame(m)
        BY <1>2, <2>2 DEF MileSame, MilePage
  <2> HIDE DEF m
  <2> QED BY <2>1, <2>3, MileAfterList
<1>6. CASE Mile!ListFails(k)
  <2> DEFINE o == [mile EXCEPT !.loading = no, !.error = yes]
             m == Mile!Acted(o)
  <2>1. Mile!AfterList(m, k) /\ mileServer' = mileServer
        BY <1>1, <1>6 DEF Mile!ListFails
  <2>2. MileSame(o) /\ o.left > 0
        BY <1>2, <1>6 DEF MileSame, MilePage, Mile!User, Mile!ListFails
  <2> HIDE DEF o
  <2>3. MileSame(m)
        BY <2>2, MileActed
  <2> HIDE DEF m
  <2> QED BY <2>1, <2>3, MileAfterList
<1> QED BY <1>4, <1>5, <1>6

(* A version more: those there were are still there                        *)
LEMMA MileAppends ==
  ASSUME MileInv, NEW w \in MileVersion, NEW k \in mileCalls, NEW c, c \in MileCall, NEW draft \in Nat,
         w.text = mileServer.draft \/ w.text = 2, draft = mileServer.draft \/ draft \in MileTexts,
         draft # mileServer.draft => w.text = mileServer.draft,
         c.text = k.text, c.typed = k.typed, c.saved = k.saved, c.was = k.was,
         mileServer' = [draft |-> draft, versions |-> Append(mileServer.versions, w)],
         mileCalls' = (mileCalls \ {k}) \cup {c}, mile' = mile
  PROVE  MileInv'
<1>1. mileServer.versions \in Seq(MileVersion) /\ mileServer.draft \in Nat
      BY DEF MileInv, MileTyped, MileServers
<1> DEFINE vs == Append(mileServer.versions, w)
<1>2. vs \in Seq(MileVersion)
      BY <1>1
<1>3. MileTexts' = MileTexts \cup {w.text}
  <2>1. mileServer'.versions = vs /\ Len(vs) = Len(mileServer.versions) + 1 /\ Len(mileServer.versions) \in Nat
        BY <1>1
  <2>2. DOMAIN vs = DOMAIN mileServer.versions \cup {Len(mileServer.versions) + 1}
        BY <1>1, <2>1
  <2>3. \A v \in DOMAIN mileServer.versions : vs[v] = mileServer.versions[v]
        BY <1>1
  <2>4. vs[Len(mileServer.versions) + 1] = w
        BY <1>1
  <2> HIDE DEF vs
  <2> QED BY SMTT(60), <2>1, <2>2, <2>3, <2>4 DEF MileTexts
<1>4. mileServer'.draft = draft /\ mileServer' \in MileServers
      BY <1>2 DEF MileServers
<1> HIDE DEF vs
<1>5. MileTyped'
      BY <1>4 DEF MileInv, MileTyped
<1>6. MileOld' /\ MileUnsaved'
  <2>0. mile.fresh \in Nat
        BY DEF MileInv, MileTyped, MilePage
  <2>1. 2 < mile.fresh /\ mile.text <= mile.fresh /\ mileServer.draft <= mile.fresh
        BY DEF MileInv, MileOld
  <2>2. \A t \in MileTexts : t <= mile.fresh
        BY DEF MileInv, MileOld
  <2>3. w.text <= mile.fresh /\ draft <= mile.fresh
        BY <2>0, <2>1, <2>2
  <2>4. MileOld'
        BY <1>3, <1>4, <2>1, <2>2, <2>3 DEF MileOld
  <2>5. ASSUME mile.dirty
        PROVE  /\ mile.text = mile.fresh /\ mileServer.draft < mile.fresh
               /\ \A t \in MileTexts : t < mile.fresh
        BY <2>5 DEF MileInv, MileUnsaved
  <2>6. ASSUME mile.dirty PROVE w.text < mile.fresh /\ draft < mile.fresh
        BY <2>0, <2>1, <2>5, <2>6
  <2>7. MileUnsaved'
        BY <1>3, <1>4, <2>5, <2>6 DEF MileUnsaved
  <2> QED BY <2>4, <2>7
<1>7. ASSUME NEW d \in mileCalls PROVE MileWell(d)'
      BY <1>3, <1>4 DEF MileInv, MileWell
<1>8. MileWell(c)'
      BY <1>7 DEF MileWell
<1> QED BY <1>5, <1>6, <1>7, <1>8 DEF MileInv

LEMMA MileKeeps ==
  ASSUME MileInv, NEW k \in mileCalls, Mile!ServerKeeps(k) \/ Mile!ServerRestores(k)
  PROVE  MileInv'
<1>1. PICK yes \in BOOLEAN : yes = TRUE
      OBVIOUS
<1>2. k \in MileCall
      BY DEF MileInv, MileWell
<1>3. mileServer \in MileServers /\ mileServer.draft \in Nat /\ mileServer.versions \in Seq(MileVersion)
      BY DEF MileInv, MileTyped, MileServers
<1> DEFINE w == Mile!Kept(k.novel)
           c == [k EXCEPT !.read = yes]
<1>4. w \in MileVersion /\ (k.novel = 1 => w.text = mileServer.draft) /\ (k.novel # 1 => w.text = 2)
      BY <1>2, <1>3 DEF Mile!Kept, MileVersion, MileCall
<1>5. c \in MileCall /\ c.text = k.text /\ c.typed = k.typed /\ c.saved = k.saved /\ c.was = k.was
      BY <1>2 DEF MileCall
<1>6. CASE Mile!ServerKeeps(k)
  <2>1. mileServer' = [mileServer EXCEPT !.versions = Append(mileServer.versions, w)]
        BY <1>6 DEF Mile!ServerKeeps
  <2>2. mileCalls' = (mileCalls \ {k}) \cup {c} /\ mile' = mile
        BY <1>1, <1>6 DEF Mile!ServerKeeps, Mile!Others
  <2> HIDE DEF w, c
  <2>3. mileServer' = [draft |-> mileServer.draft, versions |-> Append(mileServer.versions, w)]
        BY <1>3, <2>1 DEF MileServers
  <2> QED BY <1>3, <1>4, <1>5, <2>2, <2>3, MileAppends
<1>7. CASE Mile!ServerRestores(k)
  <2> DEFINE draft == IF k.novel = 1 THEN mileServer.versions[k.version].text ELSE mileServer.draft
  <2>1. mileServer' = [draft |-> draft, versions |-> Append(mileServer.versions, w)]
        BY <1>7 DEF Mile!ServerRestores
  <2>2. mileCalls' = (mileCalls \ {k}) \cup {c} /\ mile' = mile /\ k.version \in DOMAIN mileServer.versions
        BY <1>1, <1>7 DEF Mile!ServerRestores, Mile!Others, Mile!Of
  <2>3. mileServer.versions[k.version] \in MileVersion
        BY <1>3, <2>2
  <2>4. mileServer.versions[k.version].text \in Nat /\ mileServer.versions[k.version].text \in MileTexts
        BY <2>2, <2>3 DEF MileVersion, MileTexts
  <2>5. draft \in Nat /\ (draft = mileServer.draft \/ draft \in MileTexts)
        BY <1>3, <2>4
  <2>6. draft # mileServer.draft => w.text = mileServer.draft
        BY <1>4
  <2> HIDE DEF w, c, draft
  <2> QED BY <1>4, <1>5, <2>1, <2>2, <2>5, <2>6, MileAppends
<1> QED BY <1>6, <1>7

LEMMA MileAnswers ==
  ASSUME MileInv, NEW k \in mileCalls,
         Mile!Snapshotted(k) \/ Mile!SnapshotFails(k) \/ Mile!Restored(k) \/ Mile!RestoreFails(k)
           \/ Mile!ChaptersAnswered(k) \/ Mile!RefreshFails(k)
  PROVE  MileInv'
<1>1. PICK no \in BOOLEAN, yes \in BOOLEAN : no = FALSE /\ yes = TRUE
      OBVIOUS
<1>2. mile \in MilePage /\ MileSame(mile) /\ k \in MileCall /\ 0 \in Nat
      BY DEF MileInv, MileTyped, MileSame, MileWell
<1>3. "list" \in MileKinds /\ "content" \in MileKinds
      BY DEF MileKinds
<1>4. CASE Mile!Snapshotted(k) \/ Mile!Restored(k)
  <2> DEFINE m == [mile EXCEPT !.loading = yes, !.error = no]
  <2>1. Mile!GoesOn(m, k, "list") /\ mileServer' = mileServer
        BY <1>1, <1>4 DEF Mile!Snapshotted, Mile!Restored, Mile!Loading
  <2>2. MileSame(m)
        BY <1>2 DEF MileSame, MilePage
  <2> HIDE DEF m
  <2> QED BY <1>3, <2>1, <2>2, MileContinues
<1>5. CASE Mile!SnapshotFails(k)
  <2> DEFINE o == [mile EXCEPT !.snapshotting = no]
  <2>1. mile' = Mile!Acted(o) /\ mileCalls' = mileCalls \ {k} /\ mileServer' = mileServer /\ Mile!User
        BY <1>1, <1>5 DEF Mile!SnapshotFails, Mile!Others
  <2>2. MileSame(o) /\ o.left > 0
        BY <1>2, <2>1 DEF MileSame, MilePage, Mile!User
  <2> HIDE DEF o
  <2>3. MileSame(mile')
        BY <2>1, <2>2, MileActed
  <2> QED BY <2>1, <2>3, MileGoesOn
<1>6. CASE Mile!RestoreFails(k)
  <2> DEFINE left == IF Mile!User THEN mile.left - 1 ELSE mile.left
  <2>1. mile' = [mile EXCEPT !.restoring = no, !.error = yes, !.confirm = 0, !.left = left]
        BY <1>1, <1>6 DEF Mile!RestoreFails, Mile!NoVersion
  <2>2. mileCalls' = mileCalls \ {k} /\ mileServer' = mileServer
        BY <1>6 DEF Mile!RestoreFails, Mile!Others
  <2>3. left \in Nat
        BY <1>2 DEF MilePage, Mile!User
  <2> HIDE DEF left
  <2>4. MileSame(mile')
        BY <1>1, <1>2, <2>1, <2>3 DEF MileSame, MilePage
  <2> QED BY <2>2, <2>4, MileGoesOn
<1>7. CASE Mile!ChaptersAnswered(k)
  <2>1. mileServer' = mileServer
        BY <1>7 DEF Mile!ChaptersAnswered
  <2>2. CASE k.novel = 1
    <3>1. Mile!GoesOn(mile, k, "content")
          BY <1>7, <2>2 DEF Mile!ChaptersAnswered
    <3> QED BY <1>2, <1>3, <2>1, <3>1, MileContinues
  <2>3. CASE k.novel # 1
    <3>1. mile' = mile /\ mileCalls' = mileCalls \ {k}
          BY <1>7, <2>3 DEF Mile!ChaptersAnswered, Mile!Others
    <3> QED BY <1>2, <2>1, <3>1, MileGoesOn
  <2> QED BY <2>2, <2>3
<1>8. CASE Mile!RefreshFails(k)
  <2>1. mile' = Mile!Acted(mile) /\ mileCalls' = mileCalls \ {k} /\ mileServer' = mileServer /\ Mile!User
        BY <1>8 DEF Mile!RefreshFails, Mile!Others
  <2>2. MileSame(mile')
        BY <2>1, MileUser
  <2> QED BY <2>1, <2>2, MileGoesOn
<1> QED BY <1>4, <1>5, <1>6, <1>7, <1>8

(* The refresh reads the draft, and pours it over whatever is in the tab   *)
LEMMA MileRefreshes ==
  ASSUME MileInv, NEW k \in mileCalls, Mile!ServerReads(k) \/ Mile!Refreshed(k)
  PROVE  MileInv'
<1>1. PICK no \in BOOLEAN, yes \in BOOLEAN : no = FALSE /\ yes = TRUE
      OBVIOUS
<1>2. mile \in MilePage /\ MileSame(mile) /\ k \in MileCall /\ MileWell(k)
      BY DEF MileInv, MileTyped, MileSame, MileWell
<1>3. k.text \in Nat /\ mileServer.draft \in Nat /\ mile.fresh \in Nat
      BY <1>2 DEF MileCall, MilePage, MileInv, MileTyped, MileServers
<1>4. CASE Mile!ServerReads(k)
  <2> DEFINE c == [k EXCEPT !.read = yes, !.text = mileServer.draft]
  <2>1. mileCalls' = (mileCalls \ {k}) \cup {c} /\ mile' = mile /\ mileServer' = mileServer
        BY <1>1, <1>4 DEF Mile!ServerReads, Mile!Others
  <2>2. c \in MileCall /\ c.text = mileServer.draft /\ c.typed = k.typed /\ c.saved = k.saved /\ c.was = k.was
        BY <1>2, <1>3 DEF MileCall
  <2> HIDE DEF c
  <2>3. MileWell(c)
        BY <1>2, <2>2 DEF MileWell, MileInv, MileOld
  <2> QED BY <1>2, <2>1, <2>3, MileGoesOn
<1>5. CASE Mile!Refreshed(k)
  <2>1. mile' = [mile EXCEPT !.text = k.text, !.dirty = no] /\ mileCalls' = mileCalls \ {k} /\ mileServer' = mileServer
        BY <1>1, <1>5 DEF Mile!Refreshed, Mile!Others
  <2>2. mile' \in MilePage /\ mile'.text = k.text /\ ~mile'.dirty /\ mile'.fresh = mile.fresh
        BY <1>1, <1>2, <1>3, <2>1 DEF MilePage
  <2>3. MileTexts' = MileTexts
        BY <2>1 DEF MileTexts
  <2>4. MileTyped' /\ MileOld' /\ MileUnsaved'
        BY <1>2, <2>1, <2>2, <2>3 DEF MileInv, MileTyped, MileOld, MileUnsaved, MileWell
  <2>5. \A c \in mileCalls : MileWell(c)'
        BY <2>1, <2>2, <2>3 DEF MileInv, MileWell
  <2> QED BY <2>1, <2>4, <2>5 DEF MileInv
<1> QED BY <1>4, <1>5

LEMMA MileStep == MileInv /\ [Mile!Next]_mileAll => MileInv'
<1> SUFFICES ASSUME MileInv, [Mile!Next]_mileAll PROVE MileInv'
    OBVIOUS
<1>1. CASE UNCHANGED mileAll
  <2>1. mile' = mile /\ mileServer' = mileServer /\ mileCalls' = mileCalls
        BY <1>1 DEF mileAll
  <2>2. MileTexts' = MileTexts
        BY <2>1 DEF MileTexts
  <2> QED BY <2>1, <2>2 DEF MileInv, MileTyped, MileOld, MileUnsaved, MileWell
<1>2. CASE Mile!OpenPanel \/ Mile!ClosePanel \/ Mile!CancelChoice \/ (\E n \in Mile!Novels : Mile!SelectNovel(n))
             \/ (\E v \in Mile!Versions : Mile!Choose(v))
      BY <1>2, MilePages
<1>3. CASE Mile!Type \/ Mile!Save
      BY <1>3, MileWrites
<1>4. CASE Mile!Snapshot \/ Mile!Restore
      BY <1>4, MilePresses
<1>5. ASSUME NEW k \in mileCalls, Mile!ServerLists(k) \/ Mile!Listed(k) \/ Mile!ListFails(k) PROVE MileInv'
      BY <1>5, MileLists
<1>6. ASSUME NEW k \in mileCalls, Mile!ServerKeeps(k) \/ Mile!ServerRestores(k) PROVE MileInv'
      BY <1>6, MileKeeps
<1>7. ASSUME NEW k \in mileCalls,
             Mile!Snapshotted(k) \/ Mile!SnapshotFails(k) \/ Mile!Restored(k) \/ Mile!RestoreFails(k)
               \/ Mile!ChaptersAnswered(k) \/ Mile!RefreshFails(k)
      PROVE  MileInv'
      BY <1>7, MileAnswers
<1>8. ASSUME NEW k \in mileCalls, Mile!ServerReads(k) \/ Mile!Refreshed(k) PROVE MileInv'
      BY <1>8, MileRefreshes
<1> QED BY <1>1, <1>2, <1>3, <1>4, <1>5, <1>6, <1>7, <1>8 DEF Mile!Next

(* A text the server had when the restore of the whole novel was asked     *)
(* for, and that was not written on since, is in a version when the        *)
(* refresh takes it out of the tab, whatever other restores, snapshots and *)
(* refreshes are under way (novel-version-client:85).                      *)
THEOREM RestoresCanBeUndone == MileMaxEvents \in Nat => (Mile!Spec => Mile!RestoreIsUndoable)
<1> SUFFICES ASSUME MileMaxEvents \in Nat PROVE Mile!Spec => Mile!RestoreIsUndoable
    OBVIOUS
<1>1. MileInv => (\A k \in mileCalls :
                    Mile!Loses(k) /\ k.saved /\ k.was = mile.text /\ k.typed = mile.fresh => Mile!Recoverable)
      BY DEF MileInv, MileWell, Mile!Loses, Mile!Recoverable, MileTexts
<1>2. Mile!Init => MileInv
      BY MileStarts
<1>3. MileInv /\ [Mile!Next]_<<mile, mileServer, mileCalls>> => MileInv'
      BY MileStep DEF mileAll
<1> QED BY <1>1, <1>2, <1>3, PTL DEF Mile!Spec, Mile!mileVars, Mile!RestoreIsUndoable

-----------------------------------------------------------------------------
(* The versions of a chapter, for any number of events: the draft in its   *)
(* tab, the published copy, and what the browser keeps (VersionPanel).     *)

histAll == <<hist, histKept, histServer, histCalls>>

(* The texts are of a set U, those up to the newest one.                   *)
HistChapters == {1, 2}
HistSnap(U) == [id : Nat, text : U]
HistSpace(U) == [auto : HistSnap(U), manual : Seq(HistSnap(U))]
HistPage(U) ==
  [open : BOOLEAN, active : HistChapters, text : [HistChapters -> U], dirty : [HistChapters -> BOOLEAN], summary : Nat,
   shown : HistSpace(U), loading : BOOLEAN, working : BOOLEAN, compare : BOOLEAN, snap : HistSnap(U), pick : U,
   lost : SUBSET HistChapters, fresh : Nat, asked : Nat, left : Int]
HistSpaces(U) == [HistChapters -> HistSpace(U)]
HistStored(U) == [draft : [HistChapters -> U], published : [HistChapters -> U]]
HistKinds == {"summary", "current", "checkout", "refresh"}
HistPurposes == {"reload", "stash", "restore", "rollback", "compare"}
HistCall(U) == [kind : HistKinds, purpose : HistPurposes, id : Nat, chapter : HistChapters, snap : HistSnap(U),
                was : U, read : BOOLEAN, text : U]
HistTexts == 0..hist.fresh
HistTyped ==
  /\ hist \in HistPage(HistTexts) /\ histKept \in HistSpaces(HistTexts) /\ histServer \in HistStored(HistTexts)
  /\ histCalls \in SUBSET HistCall(HistTexts)

(* A call is its number's.  What pours a text into the tab of a chapter is *)
(* on its way to the published copy, or back.                              *)
HistFit(k) ==
  /\ k.kind = "checkout" => k.purpose \in {"rollback", "compare"}
  /\ k.kind = "refresh" => k.purpose = "compare"
HistCalled ==
  /\ \A k \in histCalls : k.id <= hist.asked /\ HistFit(k)
  /\ \A k, l \in histCalls : k.id = l.id => k = l
HistPouring(k, c) == k.chapter = c /\ k.kind \in {"checkout", "refresh"}
HistPours(c) == \E k \in histCalls : HistPouring(k, c)

(* As long as nothing is lost: the draft is the published copy from the    *)
(* checkout until it is in the tab, and else what a clean tab shows; what  *)
(* is asked about the text of the tab answers with that text, or another   *)
(* request is pouring; and what a rollback takes the place of is kept.     *)
HistOne(k, c) ==
  HistPouring(k, c) /\ (k.kind = "refresh" \/ k.read)
    => histServer.draft[c] = histServer.published[c] /\ (k.read => k.text = histServer.published[c])
HistClean(c) ==
  ~hist.dirty[c] => \/ histServer.draft[c] = hist.text[c]
                    \/ histServer.draft[c] = histServer.published[c] /\ HistPours(c)
HistAsks(k, c) == k.chapter = c /\ k.kind = "current" /\ k.purpose \in {"restore", "rollback"} /\ k.was # 0
HistAnswers(k, c) == (~k.read => histServer.draft[c] = k.was) /\ (k.read => k.text = k.was)
HistAsked(k, c) ==
  IF k.was = histServer.published[c] THEN HistAnswers(k, c)
  ELSE hist.text[c] = k.was => HistAnswers(k, c) \/ HistPours(c)
HistBack(k, c) == k.chapter = c /\ k.kind = "checkout" /\ k.purpose = "rollback"
HistKeeps(k, c) ==
  k.was # histServer.published[c] /\ hist.text[c] = k.was /\ k.was # 0
    => histKept[c].auto.text = k.was \/ \E l \in histCalls : l # k /\ HistPouring(l, c)
HistSafe(c) ==
  /\ HistClean(c)
  /\ \A k \in histCalls :
       HistOne(k, c) /\ (HistAsks(k, c) => HistAsked(k, c)) /\ (HistBack(k, c) => HistKeeps(k, c))
HistInv == HistTyped /\ HistCalled /\ \A c \in HistChapters : c \notin hist.lost => HistSafe(c)

LEMMA HistStarts == HistMaxEvents \in Nat /\ Hist!Init => HistInv
<1> SUFFICES ASSUME HistMaxEvents \in Nat, Hist!Init PROVE HistInv
    OBVIOUS
<1>1. PICK no \in BOOLEAN : no = FALSE
      OBVIOUS
<1> DEFINE texts == [c \in HistChapters |-> c]
           nothing == [id |-> 0, text |-> 0]
           blank == [auto |-> nothing, manual |-> <<>>]
           stashed == [id |-> 4, text |-> 4]
           one == [blank EXCEPT !.manual = <<stashed>>]
<1>2. nothing \in HistSnap(0..4) /\ stashed \in HistSnap(0..4)
      BY DEF HistSnap
<1> HIDE DEF nothing, stashed
<1>3. blank \in HistSpace(0..4) /\ one \in HistSpace(0..4)
  <2>1. <<>> \in Seq(HistSnap(0..4)) /\ <<stashed>> \in Seq(HistSnap(0..4))
        BY <1>2
  <2> QED BY <1>2, <2>1 DEF HistSpace
<1>4. hist = [open |-> no, active |-> 1, text |-> texts, dirty |-> [c \in HistChapters |-> no], summary |-> 0,
              shown |-> blank, loading |-> no, working |-> no, compare |-> no, snap |-> nothing, pick |-> 0,
              lost |-> {}, fresh |-> 4, asked |-> 0, left |-> HistMaxEvents]
  <2>1. Hist!Chapters = HistChapters
        BY DEF Hist!Chapters, HistChapters
  <2> QED BY <1>1, <2>1 DEF Hist!Init, Hist!NoSnapshot, Hist!EmptyWorkspace, Hist!Blank, nothing
<1>5. histKept = [c \in HistChapters |-> IF c = 1 THEN one ELSE blank] /\ histCalls = {}
  <2>1. Hist!Chapters = HistChapters
        BY DEF Hist!Chapters, HistChapters
  <2> QED BY <2>1 DEF Hist!Init, Hist!NoSnapshot, Hist!EmptyWorkspace, Hist!Blank, nothing, stashed
<1> DEFINE published == [c \in HistChapters |-> IF c = 1 THEN 3 ELSE 0]
<1>6. histServer = [draft |-> texts, published |-> published]
      BY DEF Hist!Init, Hist!Blank, Hist!Chapters, HistChapters
<1>7. texts \in [HistChapters -> 0..4] /\ published \in [HistChapters -> 0..4]
      BY DEF HistChapters
<1>8. hist.fresh = 4 /\ hist.text = texts
      BY <1>4
<1> HIDE DEF texts, published, one, blank
<1>9. hist \in HistPage(0..4)
  <2>1. [c \in HistChapters |-> no] \in [HistChapters -> BOOLEAN] /\ 1 \in HistChapters /\ 0 \in 0..4
        BY <1>1 DEF HistChapters
  <2> QED BY <1>1, <1>2, <1>3, <1>4, <1>7, <2>1 DEF HistPage
<1>10. histKept \in HistSpaces(0..4) /\ histServer \in HistStored(0..4) /\ histServer.draft = texts
       BY <1>3, <1>5, <1>6, <1>7 DEF HistSpaces, HistStored
<1> QED BY <1>5, <1>8, <1>9, <1>10 DEF HistInv, HistTyped, HistTexts, HistCalled, HistSafe, HistClean

(* A set of more texts holds what it held.                                 *)
LEMMA HistWiden ==
  ASSUME NEW U, NEW V, U \subseteq V
  PROVE  /\ HistSnap(U) \subseteq HistSnap(V) /\ HistSpaces(U) \subseteq HistSpaces(V)
         /\ HistPage(U) \subseteq HistPage(V) /\ HistStored(U) \subseteq HistStored(V)
         /\ HistCall(U) \subseteq HistCall(V)
<1>1. HistSnap(U) \subseteq HistSnap(V)
      BY DEF HistSnap
<1>2. HistSpace(U) \subseteq HistSpace(V)
  <2> SUFFICES ASSUME NEW w \in HistSpace(U) PROVE w \in HistSpace(V)
      OBVIOUS
  <2>1. w.manual \in Seq(HistSnap(U)) /\ w.auto \in HistSnap(V) /\ w = [auto |-> w.auto, manual |-> w.manual]
        BY <1>1 DEF HistSpace
  <2>2. w.manual \in Seq(HistSnap(V))
        BY <1>1, <2>1, SeqMonotonic
  <2> QED BY <2>1, <2>2 DEF HistSpace
<1>3. [HistChapters -> U] \subseteq [HistChapters -> V] /\ HistSpaces(U) \subseteq HistSpaces(V)
      BY <1>2 DEF HistSpaces
<1>4. HistPage(U) \subseteq HistPage(V)
  <2> SUFFICES ASSUME NEW m \in HistPage(U) PROVE m \in HistPage(V)
      OBVIOUS
  <2>1. m.text \in [HistChapters -> V] /\ m.shown \in HistSpace(V) /\ m.snap \in HistSnap(V) /\ m.pick \in V
        BY <1>1, <1>2, <1>3 DEF HistPage
  <2> QED BY <2>1 DEF HistPage
<1>5. HistStored(U) \subseteq HistStored(V)
      BY <1>3 DEF HistStored
<1>6. HistCall(U) \subseteq HistCall(V)
      BY <1>1 DEF HistCall
<1> QED BY <1>1, <1>3, <1>4, <1>5, <1>6

LEMMA HistAllTyped ==
  ASSUME HistTyped, hist' \in HistPage(HistTexts), hist.fresh <= hist'.fresh, histKept' \in HistSpaces(HistTexts),
         histServer' \in HistStored(HistTexts), histCalls' \in SUBSET HistCall(HistTexts)
  PROVE  HistTyped'
<1>1. hist.fresh \in Nat /\ hist'.fresh \in Nat
      BY DEF HistTyped, HistPage
<1>2. HistTexts \subseteq HistTexts'
      BY <1>1 DEF HistTexts
<1> QED BY <1>2, HistWiden DEF HistTyped

-----------------------------------------------------------------------------
(* What a step does to the page without a word about texts.                *)
HistLike(m, n) ==
  m.text = n.text /\ m.dirty = n.dirty /\ m.asked = n.asked /\ m.fresh = n.fresh /\ m.lost = n.lost

LEMMA HistActed ==
  ASSUME NEW U, NEW m \in HistPage(U)
  PROVE  Hist!Acted(m) \in HistPage(U) /\ HistLike(Hist!Acted(m), m) /\ Hist!Acted(m).active = m.active
<1>1. m.left - 1 \in Int
      BY DEF HistPage
<1> QED BY <1>1 DEF HistPage, Hist!Acted, HistLike

LEMMA HistRequest ==
  ASSUME NEW U, 0 \in U, NEW m \in HistPage(U), NEW kind \in HistKinds, NEW purpose \in HistPurposes,
         NEW c \in HistChapters, NEW shot \in HistSnap(U), NEW r, r = Hist!Request(m, kind, purpose, c, shot)
  PROVE  /\ r \in HistCall(U) /\ r.kind = kind /\ r.purpose = purpose /\ r.chapter = c /\ r.id = m.asked + 1
         /\ r.was = m.text[c] /\ ~r.read
<1>1. PICK no \in BOOLEAN : no = FALSE
      OBVIOUS
<1>2. r = [kind |-> kind, purpose |-> purpose, id |-> m.asked + 1, chapter |-> c, snap |-> shot, was |-> m.text[c],
           read |-> no, text |-> 0]
      BY <1>1 DEF Hist!Request, Hist!Blank
<1>3. m.asked + 1 \in Nat /\ m.text[c] \in U
      BY DEF HistPage
<1> QED BY <1>1, <1>2, <1>3 DEF HistCall

(* Every snapshot carries a number, and no request one of its own.         *)
LEMMA HistNothing == ASSUME NEW U, 0 \in U PROVE Hist!NoSnapshot \in HistSnap(U)
      BY DEF Hist!NoSnapshot, Hist!Blank, HistSnap

LEMMA HistSaves ==
  ASSUME HistTyped, NEW m \in HistPage(HistTexts), m.fresh = hist.fresh, NEW c \in HistChapters,
         NEW ws \in HistSpace(HistTexts), Hist!Saves(m, c, ws)
  PROVE  /\ hist' \in HistPage(HistTexts) /\ hist.fresh <= hist'.fresh
         /\ hist'.text = m.text /\ hist'.dirty = m.dirty /\ hist'.asked = m.asked /\ m.lost \subseteq hist'.lost
         /\ histKept' \in HistSpaces(HistTexts)
         /\ \A d \in HistChapters : d # c => histKept'[d] = histKept[d]
         /\ c \notin hist'.lost => histKept'[c] = ws
         /\ histKept'[c] \in {ws, histKept[c]}
<1>1. hist.fresh \in Nat /\ histKept \in HistSpaces(HistTexts) /\ m.fresh + 1 \in Nat /\ m.fresh <= m.fresh + 1
      BY DEF HistTyped, HistPage
<1>2. CASE histKept' = [histKept EXCEPT ![c] = ws] /\ hist' = [m EXCEPT !.fresh = @ + 1]
  <2>1. hist' = [m EXCEPT !.fresh = m.fresh + 1]
        BY <1>2
  <2>2. hist' \in HistPage(HistTexts) /\ hist'.fresh = m.fresh + 1 /\ hist'.text = m.text /\ hist'.dirty = m.dirty
          /\ hist'.asked = m.asked /\ hist'.lost = m.lost
        BY <1>1, <2>1 DEF HistPage
  <2>3. histKept' \in HistSpaces(HistTexts) /\ histKept'[c] = ws
          /\ \A d \in HistChapters : d # c => histKept'[d] = histKept[d]
        BY <1>1, <1>2 DEF HistSpaces
  <2> QED BY <1>1, <2>2, <2>3
<1>3. CASE histKept' = histKept /\ hist' = Hist!Acted([m EXCEPT !.lost = @ \cup {c}])
  <2> DEFINE n == [m EXCEPT !.lost = m.lost \cup {c}]
  <2>1. n \in HistPage(HistTexts) /\ n.fresh = m.fresh /\ n.text = m.text /\ n.dirty = m.dirty /\ n.asked = m.asked
          /\ n.lost = m.lost \cup {c}
        BY DEF HistPage
  <2>2. hist' = Hist!Acted(n)
        BY <1>3
  <2> HIDE DEF n
  <2>3. hist' \in HistPage(HistTexts) /\ HistLike(hist', n)
        BY <2>1, <2>2, HistActed
  <2>4. hist.fresh <= hist.fresh
        BY <1>1
  <2> QED BY <1>1, <1>3, <2>1, <2>3, <2>4 DEF HistLike
<1> QED BY <1>2, <1>3 DEF Hist!Saves

(* What is put into the slots are texts there are.                         *)
LEMMA HistSlots ==
  ASSUME NEW U, NEW m \in HistPage(U), NEW ws \in HistSpace(U), NEW text \in U
  PROVE  /\ Hist!Snapshot(m, text) \in HistSnap(U) /\ Hist!Snapshot(m, text).text = text
         /\ Hist!PutManual(ws, m, text) \in HistSpace(U) /\ Hist!PutManual(ws, m, text).auto = ws.auto
         /\ Hist!PutAuto(ws, m, text) \in HistSpace(U)
         /\ text # 0 => Hist!PutAuto(ws, m, text).auto.text = text
<1> DEFINE s == [id |-> m.fresh + 1, text |-> text]
<1>1. m.fresh + 1 \in Nat
      BY DEF HistPage
<1>2. s \in HistSnap(U) /\ s.text = text /\ Hist!Snapshot(m, text) = s
      BY <1>1 DEF HistSnap, Hist!Snapshot
<1> HIDE DEF s
<1>3. ws.manual \in Seq(HistSnap(U)) /\ ws.auto \in HistSnap(U)
      BY DEF HistSpace
<1>4. <<s>> \in Seq(HistSnap(U))
      BY <1>2
<1>5. <<s>> \o ws.manual \in Seq(HistSnap(U))
      BY <1>3, <1>4, ConcatProperties
<1>6. Hist!PutManual(ws, m, text) = [ws EXCEPT !.manual = <<s>> \o ws.manual]
      BY <1>2 DEF Hist!PutManual
<1>7. Hist!PutManual(ws, m, text) \in HistSpace(U) /\ Hist!PutManual(ws, m, text).auto = ws.auto
      BY <1>3, <1>5, <1>6 DEF HistSpace
<1>8. Hist!PutAuto(ws, m, text) = IF text = 0 THEN ws ELSE [ws EXCEPT !.auto = s]
      BY <1>2 DEF Hist!PutAuto, Hist!Blank
<1>9. [ws EXCEPT !.auto = s] \in HistSpace(U) /\ [ws EXCEPT !.auto = s].auto = s
      BY <1>2 DEF HistSpace
<1> QED BY <1>2, <1>7, <1>8, <1>9

LEMMA HistSlotsChange ==
  ASSUME NEW U, NEW m \in HistPage(U), NEW ws \in HistSpace(U), NEW text \in U, NEW i \in Nat, NEW id
  PROVE  /\ Hist!ReplaceManual(ws, m, i, text) \in HistSpace(U) /\ Hist!ReplaceManual(ws, m, i, text).auto = ws.auto
         /\ Hist!RemoveManual(ws, id) \in HistSpace(U) /\ Hist!RemoveManual(ws, id).auto = ws.auto
<1>1. PICK s : s = Hist!Snapshot(m, text)
      OBVIOUS
<1>2. s \in HistSnap(U)
      BY <1>1, HistSlots
<1>3. ws.manual \in Seq(HistSnap(U)) /\ ws.auto \in HistSnap(U) /\ DOMAIN ws.manual = 1..Len(ws.manual)
        /\ Len(ws.manual) \in Nat
      BY DEF HistSpace
<1>4. PICK q : q = IF i \in DOMAIN ws.manual THEN [ws.manual EXCEPT ![i] = s] ELSE Append(ws.manual, s)
      OBVIOUS
<1>5. q \in Seq(HistSnap(U))
  <2>1. CASE i \in DOMAIN ws.manual
        BY <1>2, <1>3, <1>4, <2>1, ExceptSeq
  <2>2. CASE i \notin DOMAIN ws.manual
        BY <1>2, <1>3, <1>4, <2>2, AppendProperties
  <2> QED BY <2>1, <2>2
<1>6. Hist!ReplaceManual(ws, m, i, text) = [ws EXCEPT !.manual = q]
      BY <1>1, <1>4 DEF Hist!ReplaceManual
<1>7. Hist!ReplaceManual(ws, m, i, text) \in HistSpace(U) /\ Hist!ReplaceManual(ws, m, i, text).auto = ws.auto
      BY <1>5, <1>6 DEF HistSpace
<1>8. PICK places : places = {j \in DOMAIN ws.manual : ws.manual[j].id = id}
      OBVIOUS
<1>9. CASE places = {}
  <2>1. Hist!RemoveManual(ws, id) = ws
        BY <1>8, <1>9 DEF Hist!RemoveManual
  <2> QED BY <1>7, <2>1
<1>10. CASE places # {}
  <2>1. PICK j : j = CHOOSE n \in places : TRUE
        OBVIOUS
  <2>2. j \in 1..Len(ws.manual)
        BY <1>3, <1>8, <1>10, <2>1
  <2> DEFINE a == SubSeq(ws.manual, 1, j - 1)
             b == SubSeq(ws.manual, j + 1, Len(ws.manual))
  <2>3. \A n \in 1..Len(ws.manual) : ws.manual[n] \in HistSnap(U)
        BY <1>3, ElementOfSeq
  <2>4. a \in Seq(HistSnap(U)) /\ b \in Seq(HistSnap(U))
    <3>1. \A n \in 1..(j - 1) : ws.manual[n] \in HistSnap(U)
          BY <1>3, <2>2, <2>3
    <3>2. \A n \in (j + 1)..Len(ws.manual) : ws.manual[n] \in HistSnap(U)
          BY <1>3, <2>2, <2>3
    <3>3. j - 1 \in Int /\ j + 1 \in Int /\ 1 \in Int /\ Len(ws.manual) \in Int
          BY <1>3, <2>2
    <3> QED BY <3>1, <3>2, <3>3, SubSeqProperties
  <2>5. Hist!RemoveManual(ws, id) = [ws EXCEPT !.manual = a \o b]
        BY <1>8, <1>10, <2>1 DEF Hist!RemoveManual, Hist!RemoveAt
  <2> HIDE DEF a, b
  <2>6. a \o b \in Seq(HistSnap(U))
        BY <2>4, ConcatProperties
  <2>7. Hist!RemoveManual(ws, id) \in HistSpace(U) /\ Hist!RemoveManual(ws, id).auto = ws.auto
        BY <1>3, <2>5, <2>6 DEF HistSpace
  <2> QED BY <1>7, <2>7
<1> QED BY <1>7, <1>9, <1>10

-----------------------------------------------------------------------------
(* The requests: one that is new, one in the place of another, or fewer.   *)

LEMMA HistSound ==
  ASSUME HistTyped, HistCalled, hist' \in HistPage(HistTexts), hist.fresh <= hist'.fresh,
         histKept' \in HistSpaces(HistTexts), histServer' \in HistStored(HistTexts), hist'.asked = hist.asked + 1,
         NEW new \in HistCall(HistTexts), new.id = hist.asked + 1, HistFit(new), NEW others \in SUBSET histCalls,
         histCalls' = others \cup {new}
  PROVE  HistTyped' /\ HistCalled' /\ \A k \in histCalls : k # new
<1>1. hist.asked \in Nat /\ histCalls \in SUBSET HistCall(HistTexts)
      BY DEF HistTyped, HistPage
<1>2. \A k \in histCalls : k.id \in Nat /\ k.id <= hist.asked /\ HistFit(k)
      BY <1>1 DEF HistCalled, HistCall
<1>3. \A k \in histCalls : k.id # new.id /\ k.id <= hist.asked + 1
      BY <1>1, <1>2
<1>4. HistTyped'
      BY <1>1, HistAllTyped
<1>5. \A k \in histCalls' : k.id <= hist'.asked /\ HistFit(k)
      BY <1>1, <1>2, <1>3
<1>6. \A k, l \in histCalls' : k.id = l.id => k = l
      BY <1>3 DEF HistCalled
<1> QED BY <1>3, <1>4, <1>5, <1>6 DEF HistCalled, HistFit

LEMMA HistSoundSame ==
  ASSUME HistTyped, HistCalled, hist' = hist, histKept' = histKept, histServer' \in HistStored(HistTexts),
         NEW k \in histCalls, NEW b \in HistCall(HistTexts), b.id = k.id, HistFit(b),
         histCalls' = (histCalls \ {k}) \cup {b}
  PROVE  HistTyped' /\ HistCalled' /\ \A l \in histCalls : l # k => l # b
<1>1. histCalls \in SUBSET HistCall(HistTexts) /\ hist.fresh \in Nat /\ hist.fresh <= hist.fresh
      BY DEF HistTyped, HistPage
<1>2. HistTyped'
      BY <1>1, HistAllTyped DEF HistTyped
<1>3. \A l \in histCalls' : l.id <= hist'.asked /\ HistFit(l)
      BY DEF HistCalled
<1>4. \A l \in histCalls : l # k => l.id # b.id
      BY DEF HistCalled
<1>5. \A l, m \in histCalls' : l.id = m.id => l = m
      BY <1>4 DEF HistCalled
<1> QED BY <1>2, <1>3, <1>4, <1>5 DEF HistCalled, HistFit

LEMMA HistSoundFewer ==
  ASSUME HistTyped, HistCalled, hist' \in HistPage(HistTexts), hist.fresh <= hist'.fresh,
         histKept' \in HistSpaces(HistTexts), histServer' \in HistStored(HistTexts), hist'.asked = hist.asked,
         histCalls' \in SUBSET histCalls
  PROVE  HistTyped' /\ HistCalled'
<1>1. histCalls' \in SUBSET HistCall(HistTexts)
      BY DEF HistTyped
<1>2. HistTyped'
      BY <1>1, HistAllTyped
<1>3. \A k \in histCalls' : k.id <= hist'.asked /\ HistFit(k)
      BY DEF HistCalled
<1>4. \A k, l \in histCalls' : k.id = l.id => k = l
      BY DEF HistCalled
<1> QED BY <1>2, <1>3, <1>4 DEF HistCalled, HistFit

(* A chapter that is left alone, with what is asked of it: its texts are   *)
(* as they were, no request about them is new, and none that pours gone.   *)
HistAlike(c) ==
  /\ hist'.text[c] = hist.text[c] /\ hist'.dirty[c] = hist.dirty[c]
  /\ histServer'.draft[c] = histServer.draft[c] /\ histServer'.published[c] = histServer.published[c]
  /\ histKept'[c].auto = histKept[c].auto
HistMatters(k, c) == HistPouring(k, c) \/ HistAsks(k, c)

LEMMA HistQuiet ==
  ASSUME NEW c, HistSafe(c), HistAlike(c), \A k \in histCalls' : HistMatters(k, c) => k \in histCalls,
         \A k \in histCalls : HistPouring(k, c) => k \in histCalls'
  PROVE  HistSafe(c)'
<1>1. HistPours(c) => HistPours(c)'
      BY DEF HistPours
<1>2. HistClean(c)'
      BY <1>1 DEF HistSafe, HistClean, HistAlike
<1> SUFFICES ASSUME NEW k \in histCalls'
             PROVE  /\ HistOne(k, c)' /\ (HistAsks(k, c) => HistAsked(k, c)')
                    /\ HistBack(k, c) => HistKeeps(k, c)'
    BY <1>2 DEF HistSafe, HistAsks, HistBack
<1>3. HistMatters(k, c) => HistOne(k, c) /\ (HistAsks(k, c) => HistAsked(k, c)) /\ (HistBack(k, c) => HistKeeps(k, c))
      BY DEF HistSafe
<1>4. HistOne(k, c)'
      BY <1>3 DEF HistMatters, HistOne, HistAlike, HistPouring
<1>5. HistAsks(k, c) => HistAsked(k, c)'
      BY <1>1, <1>3 DEF HistMatters, HistAsked, HistAnswers, HistAlike
<1>6. HistBack(k, c) => HistKeeps(k, c)'
  <2> SUFFICES ASSUME HistBack(k, c), k.was # histServer.published[c], hist.text[c] = k.was, k.was # 0,
                      histKept[c].auto.text # k.was
               PROVE  \E l \in histCalls' : l # k /\ HistPouring(l, c)
      BY DEF HistKeeps, HistAlike, HistPouring
  <2>1. HistMatters(k, c)
        BY DEF HistBack, HistMatters, HistPouring
  <2>2. PICK l \in histCalls : l # k /\ HistPouring(l, c)
        BY <1>3, <2>1 DEF HistKeeps
  <2> QED BY <2>2
<1> QED BY <1>4, <1>5, <1>6

(* A step that pours nothing: the texts, the drafts and the automatic      *)
(* slots stay, and so do the requests that are on their way.               *)
HistStill ==
  /\ hist' \in HistPage(HistTexts) /\ hist.fresh <= hist'.fresh /\ hist.lost \subseteq hist'.lost
  /\ hist'.text = hist.text /\ hist'.dirty = hist.dirty
  /\ histKept' \in HistSpaces(HistTexts) /\ \A c \in HistChapters : histKept'[c].auto = histKept[c].auto
  /\ histServer' = histServer
HistGoesOn == HistInv' /\ hist'.text = hist.text
HistOnTheirWay(others, c) == \A k \in histCalls : HistPouring(k, c) => k \in others

LEMMA HistIdle ==
  ASSUME HistInv, HistStill, hist'.asked = hist.asked, histCalls' \in SUBSET histCalls,
         \A c \in HistChapters : c \notin hist'.lost => HistOnTheirWay(histCalls', c)
  PROVE  HistGoesOn
<1>1. HistTyped' /\ HistCalled'
      BY HistSoundFewer DEF HistInv, HistStill, HistTyped
<1>2. ASSUME NEW c \in HistChapters, c \notin hist'.lost PROVE HistSafe(c)'
  <2>1. HistSafe(c) /\ HistAlike(c)
        BY <1>2 DEF HistInv, HistStill, HistAlike
  <2>2. \A k \in histCalls : HistPouring(k, c) => k \in histCalls'
        BY <1>2 DEF HistOnTheirWay
  <2> QED BY <2>1, <2>2, HistQuiet
<1> QED BY <1>1, <1>2 DEF HistInv, HistGoesOn, HistStill

LEMMA HistAsking ==
  ASSUME HistInv, HistStill, hist'.asked = hist.asked + 1, NEW others \in SUBSET histCalls,
         NEW new \in HistCall(HistTexts), new.id = hist.asked + 1, histCalls' = others \cup {new},
         new.kind \in {"summary", "current"}, \A c \in HistChapters : HistOnTheirWay(others, c),
         new.chapter \notin hist'.lost /\ HistAsks(new, new.chapter) => HistAsked(new, new.chapter)
  PROVE  HistGoesOn
<1>0. HistFit(new)
      BY DEF HistFit
<1>1. HistTyped' /\ HistCalled' /\ \A k \in histCalls : k # new
      BY <1>0, HistSound DEF HistInv, HistStill, HistTyped
<1>2. ASSUME NEW c \in HistChapters, c \notin hist'.lost PROVE HistSafe(c)'
  <2>1. HistSafe(c) /\ HistAlike(c)
        BY <1>2 DEF HistInv, HistStill, HistAlike
  <2>2. HistPours(c) => HistPours(c)'
        BY DEF HistOnTheirWay, HistPours
  <2>3. HistClean(c)'
        BY <2>1, <2>2 DEF HistSafe, HistClean, HistAlike
  <2>4. ~HistPouring(new, c) /\ ~HistBack(new, c)
        BY DEF HistPouring, HistBack
  <2>5. HistOne(new, c)'
        BY <2>4 DEF HistOne, HistPouring
  <2>6. HistAsks(new, c) => HistAsked(new, c)'
    <3> SUFFICES ASSUME HistAsks(new, c) PROVE HistAsked(new, c)'
        OBVIOUS
    <3>1. new.chapter = c /\ HistAsked(new, c)
          BY <1>2 DEF HistAsks
    <3> QED BY <2>1, <2>2, <3>1 DEF HistAsked, HistAnswers, HistAlike
  <2>7. ASSUME NEW k \in others
        PROVE  /\ HistOne(k, c)' /\ (HistAsks(k, c) => HistAsked(k, c)')
               /\ HistBack(k, c) => HistKeeps(k, c)'
    <3>1. k \in histCalls /\ HistOne(k, c) /\ (HistAsks(k, c) => HistAsked(k, c))
            /\ (HistBack(k, c) => HistKeeps(k, c))
          BY <2>1 DEF HistSafe
    <3>2. HistOne(k, c)' /\ (HistAsks(k, c) => HistAsked(k, c)')
          BY <2>1, <2>2, <3>1 DEF HistOne, HistPouring, HistAsked, HistAnswers, HistAlike
    <3>3. (\E l \in histCalls : l # k /\ HistPouring(l, c)) => (\E l \in histCalls' : l # k /\ HistPouring(l, c))
          BY DEF HistOnTheirWay
    <3>4. HistBack(k, c) => HistKeeps(k, c)'
          BY <2>1, <3>1, <3>3 DEF HistKeeps, HistAlike, HistPouring
    <3> QED BY <3>2, <3>4
  <2> QED BY <2>3, <2>4, <2>5, <2>6, <2>7 DEF HistSafe, HistAsks, HistBack
<1> QED BY <1>1, <1>2 DEF HistInv, HistGoesOn, HistStill

-----------------------------------------------------------------------------
(* Steps of the page that pour nothing.                                    *)

LEMMA HistMiddle == HistInv => hist \in HistPage(HistTexts) /\ hist.fresh \in Nat /\ hist.asked \in Nat /\ 0 \in HistTexts
      BY DEF HistInv, HistTyped, HistPage, HistTexts

LEMMA HistReload ==
  ASSUME HistInv, NEW m \in HistPage(HistTexts), m.asked = hist.asked, NEW k, Hist!Reload(m, k)
  PROVE  /\ hist' \in HistPage(HistTexts) /\ hist'.asked = hist.asked + 1
         /\ hist'.text = m.text /\ hist'.dirty = m.dirty /\ hist'.fresh = m.fresh /\ hist'.lost = m.lost
         /\ \E new \in HistCall(HistTexts) :
              new.id = hist.asked + 1 /\ new.kind = "summary" /\ histCalls' = (histCalls \ {k}) \cup {new}
<1>1. PICK yes \in BOOLEAN : yes = TRUE
      OBVIOUS
<1>2. hist' = [m EXCEPT !.asked = m.asked + 1, !.loading = yes]
      BY <1>1 DEF Hist!Reload
<1>3. hist.asked + 1 \in Nat /\ 0 \in HistTexts
      BY HistMiddle
<1>4. hist' \in HistPage(HistTexts) /\ hist'.asked = hist.asked + 1 /\ hist'.text = m.text /\ hist'.dirty = m.dirty
        /\ hist'.fresh = m.fresh /\ hist'.lost = m.lost
      BY <1>2, <1>3 DEF HistPage
<1>5. PICK new : new = Hist!Request(m, "summary", "reload", m.active, Hist!NoSnapshot)
      OBVIOUS
<1>6. new \in HistCall(HistTexts) /\ new.id = hist.asked + 1 /\ new.kind = "summary"
  <2>1. m.active \in HistChapters /\ Hist!NoSnapshot \in HistSnap(HistTexts)
        BY <1>3, HistNothing DEF HistPage
  <2>2. "summary" \in HistKinds /\ "reload" \in HistPurposes
        BY DEF HistKinds, HistPurposes
  <2> QED BY <1>3, <1>5, <2>1, <2>2, HistRequest
<1>7. histCalls' = (histCalls \ {k}) \cup {new}
      BY <1>5 DEF Hist!Reload, Hist!Others
<1> QED BY <1>4, <1>6, <1>7

LEMMA HistReloads ==
  ASSUME HistInv, NEW m \in HistPage(HistTexts), HistLike(m, hist), NEW k, k.kind \notin {"checkout", "refresh"},
         Hist!Reload(m, k), histKept' = histKept, histServer' = histServer
  PROVE  HistGoesOn
<1>1. m.asked = hist.asked
      BY DEF HistLike
<1>2. hist' \in HistPage(HistTexts) /\ hist'.asked = hist.asked + 1 /\ hist'.text = m.text /\ hist'.dirty = m.dirty
        /\ hist'.fresh = m.fresh /\ hist'.lost = m.lost
      BY <1>1, HistReload
<1>3. PICK new \in HistCall(HistTexts) :
        new.id = hist.asked + 1 /\ new.kind = "summary" /\ histCalls' = (histCalls \ {k}) \cup {new}
      BY <1>1, HistReload
<1>4. HistStill
  <2>1. hist.fresh <= hist.fresh
        BY HistMiddle
  <2> QED BY <1>2, <2>1 DEF HistStill, HistLike, HistInv, HistTyped
<1>5. \A c \in HistChapters : HistOnTheirWay(histCalls \ {k}, c)
      BY DEF HistOnTheirWay, HistPouring
<1>6. ~HistAsks(new, new.chapter)
      BY <1>3 DEF HistAsks
<1>7. (histCalls \ {k}) \in SUBSET histCalls
      OBVIOUS
<1> QED BY <1>2, <1>3, <1>4, <1>5, <1>6, <1>7, HistAsking

(* The page alone changes.                                                 *)
LEMMA HistPageOnly ==
  ASSUME HistInv, hist' \in HistPage(HistTexts), HistLike(hist', hist), histKept' = histKept,
         histServer' = histServer, histCalls' \in SUBSET histCalls,
         \A k \in histCalls : k.kind \in {"checkout", "refresh"} => k \in histCalls'
  PROVE  HistGoesOn
<1>1. hist.fresh <= hist.fresh
      BY HistMiddle
<1>2. HistStill
      BY <1>1 DEF HistStill, HistLike, HistInv, HistTyped
<1>3. \A c \in HistChapters : HistOnTheirWay(histCalls', c)
      BY DEF HistOnTheirWay, HistPouring
<1> QED BY <1>2, <1>3, HistIdle DEF HistLike

LEMMA HistOpens == ASSUME HistInv, Hist!OpenPanel PROVE HistGoesOn
<1>1. PICK yes \in BOOLEAN : yes = TRUE
      OBVIOUS
<1> DEFINE o == [hist EXCEPT !.open = yes]
           m == Hist!Acted(o)
           k == Hist!NoCall
<1>2. Hist!Reload(m, k) /\ histKept' = histKept /\ histServer' = histServer
      BY <1>1 DEF Hist!OpenPanel
<1>3. o \in HistPage(HistTexts) /\ HistLike(o, hist)
      BY HistMiddle DEF HistPage, HistLike
<1>4. k.kind = "none"
      BY DEF Hist!NoCall, Hist!Request
<1> HIDE DEF o, k
<1>5. m \in HistPage(HistTexts) /\ HistLike(m, hist)
      BY <1>3, HistActed DEF HistLike
<1> HIDE DEF m
<1> QED BY <1>2, <1>4, <1>5, HistReloads

LEMMA HistActivates == ASSUME HistInv, NEW c \in HistChapters, Hist!Activate(c) PROVE HistGoesOn
<1> DEFINE o == [hist EXCEPT !.active = c]
           m == Hist!Acted(o)
           k == Hist!NoCall
<1>1. histKept' = histKept /\ histServer' = histServer
      BY DEF Hist!Activate
<1>2. Hist!Reload(m, k) \/ (hist' = m /\ histCalls' = histCalls)
      BY DEF Hist!Activate
<1>3. o \in HistPage(HistTexts) /\ HistLike(o, hist)
      BY HistMiddle DEF HistPage, HistLike
<1>4. k.kind = "none"
      BY DEF Hist!NoCall, Hist!Request
<1> HIDE DEF o, k
<1>5. m \in HistPage(HistTexts) /\ HistLike(m, hist)
      BY <1>3, HistActed DEF HistLike
<1> HIDE DEF m
<1>6. CASE Hist!Reload(m, k)
      BY <1>1, <1>4, <1>5, <1>6, HistReloads
<1>7. CASE hist' = m /\ histCalls' = histCalls
      BY <1>1, <1>5, <1>7, HistPageOnly
<1> QED BY <1>2, <1>6, <1>7

LEMMA HistCloses == ASSUME HistInv, Hist!ClosePanel \/ Hist!CancelReplace PROVE HistGoesOn
<1>1. PICK no \in BOOLEAN : no = FALSE
      OBVIOUS
<1>2. PICK n : n = Hist!NoSnapshot
      OBVIOUS
<1>3. n \in HistSnap(HistTexts) /\ 0 \in HistTexts /\ hist \in HistPage(HistTexts)
      BY <1>2, HistMiddle, HistNothing
<1>4. histKept' = histKept /\ histServer' = histServer /\ histCalls' = histCalls
      BY DEF Hist!ClosePanel, Hist!CancelReplace
<1>5. CASE Hist!ClosePanel
  <2>1. hist' = [hist EXCEPT !.open = no, !.summary = 0, !.compare = no, !.snap = n, !.pick = 0]
        BY <1>1, <1>2, <1>5 DEF Hist!ClosePanel, Hist!Blank
  <2>2. hist' \in HistPage(HistTexts) /\ HistLike(hist', hist)
        BY <1>3, <2>1 DEF HistPage, HistLike
  <2> QED BY <1>4, <2>2, HistPageOnly
<1>6. CASE Hist!CancelReplace
  <2>1. hist' = [hist EXCEPT !.pick = 0]
        BY <1>6 DEF Hist!CancelReplace, Hist!Blank
  <2>2. hist' \in HistPage(HistTexts) /\ HistLike(hist', hist)
        BY <1>3, <2>1 DEF HistPage, HistLike
  <2> QED BY <1>4, <2>2, HistPageOnly
<1> QED BY <1>5, <1>6

LEMMA HistIsShown == HistInv => Hist!Shown \subseteq HistSnap(HistTexts)
<1> SUFFICES ASSUME HistInv, NEW s \in Hist!Shown PROVE s \in HistSnap(HistTexts)
    OBVIOUS
<1>1. hist.shown \in HistSpace(HistTexts)
      BY HistMiddle DEF HistPage
<1>2. hist.shown.manual \in Seq(HistSnap(HistTexts)) /\ hist.shown.auto \in HistSnap(HistTexts)
      BY <1>1 DEF HistSpace
<1>3. \A i \in DOMAIN hist.shown.manual : hist.shown.manual[i] \in HistSnap(HistTexts)
      BY <1>2
<1> QED BY <1>2, <1>3 DEF Hist!Shown, Hist!ToSet

LEMMA HistCompares ==
  ASSUME HistInv, Hist!OpenCompare \/ \E s \in Hist!Shown \cup {hist.snap} : Hist!CompareSnapshot(s)
  PROVE  HistGoesOn
<1>1. PICK yes \in BOOLEAN : yes = TRUE
      OBVIOUS
<1>2. hist \in HistPage(HistTexts)
      BY HistMiddle
<1>3. CASE Hist!OpenCompare
  <2> DEFINE o == [hist EXCEPT !.compare = yes]
  <2>1. hist' = Hist!Acted(o) /\ histKept' = histKept /\ histServer' = histServer /\ histCalls' = histCalls
        BY <1>1, <1>3 DEF Hist!OpenCompare
  <2>2. o \in HistPage(HistTexts) /\ HistLike(o, hist)
        BY <1>2 DEF HistPage, HistLike
  <2> HIDE DEF o
  <2>3. hist' \in HistPage(HistTexts) /\ HistLike(hist', hist)
        BY <2>1, <2>2, HistActed DEF HistLike
  <2> QED BY <2>1, <2>3, HistPageOnly
<1>4. ASSUME NEW s \in Hist!Shown \cup {hist.snap}, Hist!CompareSnapshot(s) PROVE HistGoesOn
  <2> DEFINE o == [hist EXCEPT !.snap = s]
  <2>0. s \in HistSnap(HistTexts)
        BY <1>2, HistIsShown DEF HistPage
  <2>1. hist' = Hist!Acted(o) /\ histKept' = histKept /\ histServer' = histServer /\ histCalls' = histCalls
        BY <1>4 DEF Hist!CompareSnapshot
  <2>2. o \in HistPage(HistTexts) /\ HistLike(o, hist)
        BY <1>2, <2>0 DEF HistPage, HistLike
  <2> HIDE DEF o
  <2>3. hist' \in HistPage(HistTexts) /\ HistLike(hist', hist)
        BY <2>1, <2>2, HistActed DEF HistLike
  <2> QED BY <2>1, <2>3, HistPageOnly
<1> QED BY <1>3, <1>4

LEMMA HistSummary == ASSUME HistInv, NEW k \in histCalls, Hist!SummaryAnswered(k) PROVE HistGoesOn
<1>1. PICK no \in BOOLEAN, w \in BOOLEAN : no = FALSE /\ w = (hist.working /\ k.purpose # "rollback")
      OBVIOUS
<1>2. k \in HistCall(HistTexts) /\ hist \in HistPage(HistTexts)
      BY HistMiddle DEF HistInv, HistTyped
<1>3. PICK ws : ws = histKept[k.chapter]
      OBVIOUS
<1>4. ws \in HistSpace(HistTexts) /\ k.chapter \in Nat
      BY <1>2, <1>3 DEF HistInv, HistTyped, HistSpaces, HistCall, HistChapters
<1>5. hist' = [hist EXCEPT !.summary = k.chapter, !.shown = ws, !.loading = no, !.working = w]
      BY <1>1, <1>3 DEF Hist!SummaryAnswered
<1>6. hist' \in HistPage(HistTexts) /\ HistLike(hist', hist)
      BY <1>2, <1>4, <1>5 DEF HistPage, HistLike
<1>7. histKept' = histKept /\ histServer' = histServer /\ histCalls' = histCalls \ {k} /\ k.kind = "summary"
      BY DEF Hist!SummaryAnswered, Hist!Others
<1> QED BY <1>6, <1>7, HistPageOnly

(* An answer is asked for: the text of a clean tab is the draft, unless    *)
(* another request pours.                                                  *)
LEMMA HistAskFrom ==
  ASSUME HistInv, HistStill, hist'.asked = hist.asked + 1, NEW m \in HistPage(HistTexts), m.text = hist.text,
         m.asked = hist.asked, NEW purpose \in HistPurposes, NEW c \in HistChapters, NEW shot \in HistSnap(HistTexts),
         purpose \in {"restore", "rollback"} => ~Hist!AtHand(c),
         histCalls' = histCalls \cup {Hist!Request(m, "current", purpose, c, shot)}
  PROVE  HistGoesOn
<1>1. PICK new : new = Hist!Request(m, "current", purpose, c, shot)
      OBVIOUS
<1>2. 0 \in HistTexts /\ "current" \in HistKinds
      BY HistMiddle DEF HistKinds
<1>3. new \in HistCall(HistTexts) /\ new.kind = "current" /\ new.purpose = purpose /\ new.chapter = c
        /\ new.id = hist.asked + 1 /\ new.was = hist.text[c] /\ ~new.read
      BY <1>1, <1>2, HistRequest
<1>4. c \notin hist'.lost /\ HistAsks(new, c) => HistAsked(new, c)
  <2> SUFFICES ASSUME c \notin hist'.lost, HistAsks(new, c) PROVE HistAsked(new, c)
      OBVIOUS
  <2>1. c \notin hist.lost /\ HistSafe(c)
        BY DEF HistStill, HistInv
  <2>2. ~hist.dirty[c]
        BY <1>3 DEF HistAsks, Hist!AtHand, Hist!Blank
  <2>3. \/ histServer.draft[c] = hist.text[c]
        \/ histServer.draft[c] = histServer.published[c] /\ HistPours(c)
        BY <2>1, <2>2 DEF HistSafe, HistClean
  <2> QED BY <1>3, <2>3 DEF HistAsked, HistAnswers
<1>5. \A d \in HistChapters : HistOnTheirWay(histCalls, d)
      BY DEF HistOnTheirWay
<1>6. histCalls' = histCalls \cup {new}
      BY <1>1
<1>7. new.chapter \notin hist'.lost /\ HistAsks(new, new.chapter) => HistAsked(new, new.chapter)
      BY <1>3, <1>4
<1>8. new.id = hist.asked + 1 /\ new.kind \in {"summary", "current"} /\ histCalls \in SUBSET histCalls
      BY <1>3
<1> QED BY <1>3, <1>5, <1>6, <1>7, <1>8, HistAsking

LEMMA HistAsk ==
  ASSUME HistInv, NEW m \in HistPage(HistTexts), HistLike(m, hist), NEW purpose \in HistPurposes,
         NEW c \in HistChapters, NEW shot \in HistSnap(HistTexts),
         purpose \in {"restore", "rollback"} => ~Hist!AtHand(c), Hist!Ask(m, "current", purpose, c, shot),
         histKept' = histKept, histServer' = histServer
  PROVE  HistGoesOn
<1>1. hist' = [m EXCEPT !.asked = m.asked + 1] /\ m.asked = hist.asked /\ m.text = hist.text
        /\ histCalls' = histCalls \cup {Hist!Request(m, "current", purpose, c, shot)}
      BY DEF Hist!Ask, HistLike
<1>2. hist.asked + 1 \in Nat /\ hist.fresh <= hist.fresh
      BY HistMiddle
<1>3. hist' \in HistPage(HistTexts) /\ hist'.asked = hist.asked + 1 /\ hist'.text = m.text /\ hist'.dirty = m.dirty
        /\ hist'.fresh = m.fresh /\ hist'.lost = m.lost
      BY <1>1, <1>2 DEF HistPage
<1>4. HistStill
      BY <1>2, <1>3 DEF HistStill, HistLike, HistInv, HistTyped
<1> QED BY <1>1, <1>3, <1>4, HistAskFrom

(* A slot by hand is filled, changed or emptied.                           *)
LEMMA HistFills ==
  ASSUME HistInv, NEW m \in HistPage(HistTexts), HistLike(m, hist), NEW c \in HistChapters,
         NEW ws \in HistSpace(HistTexts), ws.auto = histKept[c].auto, Hist!Saves(m, c, ws), histServer' = histServer
  PROVE  HistStill /\ hist'.asked = hist.asked
<1>1. HistTyped /\ m.fresh = hist.fresh /\ m.asked = hist.asked /\ m.lost = hist.lost /\ m.text = hist.text
        /\ m.dirty = hist.dirty
      BY DEF HistInv, HistLike
<1>2. /\ hist' \in HistPage(HistTexts) /\ hist.fresh <= hist'.fresh
      /\ hist'.text = m.text /\ hist'.dirty = m.dirty /\ hist'.asked = m.asked /\ m.lost \subseteq hist'.lost
      /\ histKept' \in HistSpaces(HistTexts)
      /\ \A d \in HistChapters : d # c => histKept'[d] = histKept[d]
      /\ histKept'[c] \in {ws, histKept[c]}
      BY <1>1, HistSaves
<1>3. \A d \in HistChapters : histKept'[d].auto = histKept[d].auto
      BY <1>2
<1> QED BY <1>1, <1>2, <1>3 DEF HistStill

LEMMA HistStashed ==
  ASSUME HistInv, NEW m \in HistPage(HistTexts), HistLike(m, hist), NEW c \in HistChapters, NEW text \in HistTexts,
         Hist!Stashed(m, c, text), histServer' = histServer
  PROVE  HistStill /\ hist'.asked = hist.asked
<1>1. hist.fresh <= hist.fresh /\ HistTyped /\ histKept \in HistSpaces(HistTexts) /\ histKept[c] \in HistSpace(HistTexts)
      BY HistMiddle DEF HistInv, HistTyped, HistSpaces
<1>2. CASE hist' = m /\ histKept' = histKept
      BY <1>1, <1>2 DEF HistStill, HistLike
<1>3. CASE hist' = [m EXCEPT !.pick = text] /\ histKept' = histKept
  <2>1. hist' \in HistPage(HistTexts) /\ HistLike(hist', m)
        BY <1>3 DEF HistPage, HistLike
  <2> QED BY <1>1, <1>3, <2>1 DEF HistStill, HistLike
<1>4. ASSUME NEW ws, ws = Hist!PutManual(histKept[c], m, text), Hist!Saves([m EXCEPT !.shown = ws], c, ws)
      PROVE  HistStill /\ hist'.asked = hist.asked
  <2>1. ws \in HistSpace(HistTexts) /\ ws.auto = histKept[c].auto
        BY <1>1, <1>4, HistSlots
  <2> DEFINE n == [m EXCEPT !.shown = ws]
  <2>2. n \in HistPage(HistTexts) /\ HistLike(n, hist)
        BY <2>1 DEF HistPage, HistLike
  <2>3. Hist!Saves(n, c, ws)
        BY <1>4
  <2> HIDE DEF n
  <2> QED BY <2>1, <2>2, <2>3, HistFills
<1> QED BY <1>2, <1>3, <1>4 DEF Hist!Stashed

LEMMA HistAwayStays == HistInv /\ histCalls' = histCalls => \A c \in HistChapters : HistOnTheirWay(histCalls', c)
      BY DEF HistOnTheirWay

LEMMA HistStashes == ASSUME HistInv, Hist!Stash PROVE HistGoesOn
<1> DEFINE m == Hist!Acted(hist)
           c == hist.active
<1>1. m \in HistPage(HistTexts) /\ HistLike(m, hist) /\ c \in HistChapters /\ hist \in HistPage(HistTexts)
      BY HistMiddle, HistActed DEF HistPage
<1>2. histServer' = histServer
      BY DEF Hist!Stash
<1> HIDE DEF m
<1>3. CASE Hist!AtHand(c)
  <2>1. Hist!Stashed(m, c, hist.text[c]) /\ histCalls' = histCalls
        BY <1>3 DEF Hist!Stash, m
  <2>2. hist.text[c] \in HistTexts
        BY <1>1 DEF HistPage
  <2> HIDE DEF c
  <2>3. HistStill /\ hist'.asked = hist.asked
        BY <1>1, <1>2, <2>1, <2>2, HistStashed
  <2> QED BY <2>1, <2>3, HistAwayStays, HistIdle
<1>4. CASE ~Hist!AtHand(c)
  <2>1. Hist!Ask(m, "current", "stash", c, Hist!NoSnapshot) /\ histKept' = histKept
        BY <1>4 DEF Hist!Stash, m
  <2>2. Hist!NoSnapshot \in HistSnap(HistTexts) /\ "stash" \in HistPurposes
        BY HistMiddle, HistNothing DEF HistPurposes
  <2> HIDE DEF c
  <2> QED BY <1>1, <1>2, <2>1, <2>2, HistAsk
<1> QED BY <1>3, <1>4

LEMMA HistReplaces == ASSUME HistInv, NEW i \in 1..Hist!ManualSlots, Hist!ConfirmReplace(i) PROVE HistGoesOn
<1> DEFINE c == hist.active
<1>1. PICK ws : ws = Hist!ReplaceManual(histKept[c], hist, i, hist.pick)
      OBVIOUS
<1>2. hist \in HistPage(HistTexts) /\ c \in HistChapters /\ hist.pick \in HistTexts /\ i \in Nat
      BY HistMiddle DEF HistPage, Hist!ManualSlots
<1>3. histKept[c] \in HistSpace(HistTexts)
      BY <1>2 DEF HistInv, HistTyped, HistSpaces
<1>4. ws \in HistSpace(HistTexts) /\ ws.auto = histKept[c].auto
      BY <1>1, <1>2, <1>3, HistSlotsChange
<1> DEFINE m == [hist EXCEPT !.pick = 0, !.shown = ws]
<1>5. Hist!Saves(m, c, ws) /\ histServer' = histServer /\ histCalls' = histCalls
      BY <1>1 DEF Hist!ConfirmReplace, Hist!Blank
<1>6. m \in HistPage(HistTexts) /\ HistLike(m, hist)
      BY <1>2, <1>4, HistMiddle DEF HistPage, HistLike
<1> HIDE DEF m, c
<1>7. HistStill /\ hist'.asked = hist.asked
      BY <1>2, <1>4, <1>5, <1>6, HistFills
<1> QED BY <1>5, <1>7, HistAwayStays, HistIdle

LEMMA HistRemoves == ASSUME HistInv, NEW i \in 1..Hist!ManualSlots, Hist!RemoveSnapshot(i) PROVE HistGoesOn
<1> DEFINE c == hist.active
<1>0. PICK id : id = hist.shown.manual[i].id
      OBVIOUS
<1>1. PICK ws : ws = Hist!RemoveManual(histKept[c], id)
      OBVIOUS
<1>2. hist \in HistPage(HistTexts) /\ c \in HistChapters /\ hist.fresh <= hist.fresh /\ 0 \in HistTexts
      BY HistMiddle DEF HistPage
<1>3. histKept \in HistSpaces(HistTexts) /\ histKept[c] \in HistSpace(HistTexts) /\ 0 \in Nat
      BY <1>2 DEF HistInv, HistTyped, HistSpaces
<1>4. ws \in HistSpace(HistTexts) /\ ws.auto = histKept[c].auto
      BY <1>1, <1>2, <1>3, HistSlotsChange
<1> DEFINE m == [hist EXCEPT !.shown = ws]
<1>5. hist' = Hist!Acted(m) /\ histKept' = [histKept EXCEPT ![c] = ws] /\ histServer' = histServer
        /\ histCalls' = histCalls
      BY <1>0, <1>1 DEF Hist!RemoveSnapshot
<1>6. m \in HistPage(HistTexts) /\ HistLike(m, hist)
      BY <1>2, <1>4 DEF HistPage, HistLike
<1> HIDE DEF m, c
<1>7. hist' \in HistPage(HistTexts) /\ HistLike(hist', hist)
      BY <1>5, <1>6, HistActed DEF HistLike
<1>8. histKept' \in HistSpaces(HistTexts) /\ \A d \in HistChapters : histKept'[d].auto = histKept[d].auto
      BY <1>2, <1>3, <1>4, <1>5 DEF HistSpaces
<1>9. HistStill
      BY <1>2, <1>5, <1>7, <1>8 DEF HistStill, HistLike
<1>10. hist'.asked = hist.asked
       BY <1>7 DEF HistLike
<1> QED BY <1>5, <1>9, <1>10, HistAwayStays, HistIdle

LEMMA HistAsksForAll == ASSUME HistInv, Hist!CompareRollback PROVE HistGoesOn
<1> DEFINE m == Hist!Acted(hist)
           c == hist.active
<1>1. m \in HistPage(HistTexts) /\ HistLike(m, hist) /\ c \in HistChapters
      BY HistMiddle, HistActed DEF HistPage
<1>2. Hist!Ask(m, "current", "compare", c, Hist!NoSnapshot) /\ histKept' = histKept /\ histServer' = histServer
      BY DEF Hist!CompareRollback
<1>3. Hist!NoSnapshot \in HistSnap(HistTexts) /\ "compare" \in HistPurposes
      BY HistMiddle, HistNothing DEF HistPurposes
<1> HIDE DEF m, c
<1> QED BY <1>1, <1>2, <1>3, HistAsk

(* A request that fails is forgotten; of one that pours, lost says so.     *)
LEMMA HistFailure == ASSUME HistInv, NEW k \in histCalls, Hist!Fails(k) PROVE HistGoesOn
<1>1. PICK l \in BOOLEAN, w \in BOOLEAN :
        l = (hist.loading /\ k.kind # "summary") /\ w = (hist.working /\ k.purpose \notin {"restore", "rollback"})
      OBVIOUS
<1>2. PICK gone : gone = IF k.kind \in {"checkout", "refresh"} THEN hist.lost \cup {k.chapter} ELSE hist.lost
      OBVIOUS
<1>3. hist \in HistPage(HistTexts) /\ k \in HistCall(HistTexts) /\ hist.fresh <= hist.fresh
      BY HistMiddle DEF HistInv, HistTyped
<1>4. gone \in SUBSET HistChapters /\ hist.lost \subseteq gone
      BY <1>2, <1>3 DEF HistPage, HistCall
<1> DEFINE m == [hist EXCEPT !.loading = l, !.working = w, !.lost = gone]
<1>5. hist' = Hist!Acted(m) /\ histCalls' = histCalls \ {k} /\ histKept' = histKept /\ histServer' = histServer
      BY <1>1, <1>2 DEF Hist!Fails, Hist!Others
<1>6. m \in HistPage(HistTexts) /\ m.text = hist.text /\ m.dirty = hist.dirty /\ m.asked = hist.asked
        /\ m.fresh = hist.fresh /\ m.lost = gone
      BY <1>3, <1>4 DEF HistPage
<1> HIDE DEF m
<1>7. hist' \in HistPage(HistTexts) /\ HistLike(hist', m)
      BY <1>5, <1>6, HistActed
<1>8. HistStill /\ hist'.asked = hist.asked
      BY <1>3, <1>4, <1>5, <1>6, <1>7 DEF HistStill, HistLike, HistInv, HistTyped
<1>9. \A c \in HistChapters : c \notin hist'.lost => HistOnTheirWay(histCalls', c)
      BY <1>2, <1>5, <1>6, <1>7 DEF HistOnTheirWay, HistPouring, HistLike
<1>10. histCalls' \in SUBSET histCalls
       BY <1>5
<1> QED BY <1>8, <1>9, <1>10, HistIdle

-----------------------------------------------------------------------------
(* Typing brings a text there has not been, or none; a save makes the      *)
(* draft what the tab shows.                                               *)

LEMMA HistTypes == ASSUME HistInv, NEW text \in {0, hist.fresh + 1}, Hist!Type(text) PROVE HistInv'
<1> DEFINE a == hist.active
<1>1. hist \in HistPage(HistTexts) /\ hist.fresh \in Nat /\ a \in HistChapters /\ HistTyped
      BY HistMiddle DEF HistInv, HistPage
<1>0. PICK yes \in BOOLEAN : yes = TRUE
      OBVIOUS
<1>2. PICK V : V = 0..(hist.fresh + 1)
      OBVIOUS
<1>3. PICK texts, dirties : /\ texts = [hist.text EXCEPT ![a] = text]
                            /\ dirties = [hist.dirty EXCEPT ![a] = yes]
      OBVIOUS
<1>4. HistTexts \subseteq V /\ text \in V /\ hist.fresh + 1 \in Nat
      BY <1>1, <1>2 DEF HistTexts
<1>5. hist \in HistPage(V)
      BY <1>1, <1>4, HistWiden
<1>6. texts \in [HistChapters -> V] /\ dirties \in [HistChapters -> BOOLEAN]
      BY <1>0, <1>1, <1>3, <1>4, <1>5 DEF HistPage
<1> DEFINE m == [hist EXCEPT !.text = texts, !.dirty = dirties, !.fresh = hist.fresh + 1]
<1>7. hist' = Hist!Acted(m) /\ histKept' = histKept /\ histServer' = histServer /\ histCalls' = histCalls
      BY <1>0, <1>3 DEF Hist!Type
<1>8. m \in HistPage(V) /\ m.text = texts /\ m.dirty = dirties /\ m.fresh = hist.fresh + 1 /\ m.asked = hist.asked
        /\ m.lost = hist.lost
      BY <1>4, <1>5, <1>6 DEF HistPage
<1> HIDE DEF m
<1>9. hist' \in HistPage(V) /\ hist'.text = texts /\ hist'.dirty = dirties /\ hist'.fresh = hist.fresh + 1
        /\ hist'.asked = hist.asked /\ hist'.lost = hist.lost
      BY <1>7, <1>8, HistActed DEF HistLike
<1>10. V = HistTexts'
       BY <1>2, <1>9 DEF HistTexts
<1>11. HistTyped'
  <2>1. histKept \in HistSpaces(V) /\ histServer \in HistStored(V) /\ histCalls \in SUBSET HistCall(V)
        BY <1>1, <1>4, HistWiden DEF HistTyped
  <2> QED BY <1>7, <1>9, <1>10, <2>1 DEF HistTyped
<1>12. HistCalled'
       BY <1>7, <1>9 DEF HistInv, HistCalled, HistFit
<1>13. ASSUME NEW c \in HistChapters, c \notin hist'.lost PROVE HistSafe(c)'
  <2>1. HistSafe(c) /\ histServer' = histServer /\ histCalls' = histCalls /\ histKept' = histKept
        BY <1>7, <1>9, <1>13 DEF HistInv
  <2>2. CASE c # a
    <3>1. hist'.text[c] = hist.text[c] /\ hist'.dirty[c] = hist.dirty[c]
          BY <1>1, <1>3, <1>9, <2>2 DEF HistPage
    <3>2. HistAlike(c)
          BY <2>1, <3>1 DEF HistAlike
    <3> QED BY <2>1, <3>2, HistQuiet
  <2>3. CASE c = a
    <3>1. hist'.text[c] = text /\ hist'.dirty[c]
          BY <1>0, <1>1, <1>3, <1>9, <2>3 DEF HistPage
    <3>2. HistClean(c)'
          BY <3>1 DEF HistClean
    <3>3. ASSUME NEW k \in histCalls, k.was # 0 PROVE hist'.text[c] # k.was
      <4>1. k.was \in 0..hist.fresh
            BY <1>1 DEF HistTyped, HistCall, HistTexts
      <4> QED BY <1>1, <3>1, <3>3, <4>1
    <3>4. ASSUME NEW k \in histCalls
          PROVE  /\ HistOne(k, c)' /\ (HistAsks(k, c) => HistAsked(k, c)')
                 /\ HistBack(k, c) => HistKeeps(k, c)'
      <4>1. HistOne(k, c) /\ (HistAsks(k, c) => HistAsked(k, c))
            BY <2>1 DEF HistSafe
      <4>2. HistOne(k, c)'
            BY <2>1, <4>1 DEF HistOne, HistPouring
      <4>3. HistAsks(k, c) => HistAsked(k, c)'
            BY <2>1, <3>3, <4>1 DEF HistAsks, HistAsked, HistAnswers
      <4>4. HistKeeps(k, c)'
            BY <3>3 DEF HistKeeps
      <4> QED BY <4>2, <4>3, <4>4
    <3> QED BY <2>1, <3>2, <3>4 DEF HistSafe, HistAsks, HistBack
  <2> QED BY <2>2, <2>3
<1> QED BY <1>11, <1>12, <1>13 DEF HistInv

LEMMA HistCrosses ==
  ASSUME NEW U, NEW m \in HistPage(U), NEW c \in HistChapters, NEW ks, NEW n, n = Hist!Crossing(m, c, ks)
  PROVE  /\ n \in HistPage(U) /\ n.text = m.text /\ n.dirty = m.dirty /\ n.asked = m.asked /\ n.fresh = m.fresh
         /\ m.lost \subseteq n.lost /\ (c \notin n.lost => ks = {})
<1>1. PICK gone : gone = IF ks # {} THEN m.lost \cup {c} ELSE m.lost
      OBVIOUS
<1>2. n = [m EXCEPT !.lost = gone]
      BY <1>1 DEF Hist!Crossing
<1>3. gone \in SUBSET HistChapters
      BY <1>1 DEF HistPage
<1> QED BY <1>1, <1>2, <1>3 DEF HistPage

(* What matters about a chapter is on its way to change it.                *)
LEMMA HistChanging ==
  HistInv => \A c \in HistChapters : \A k \in histCalls : HistMatters(k, c) => k \in Hist!Changing(c)
      BY DEF HistInv, HistCalled, HistFit, HistMatters, HistPouring, HistAsks, Hist!Changing

LEMMA HistWrites == ASSUME HistInv, NEW c \in HistChapters, Hist!Save(c) PROVE HistGoesOn
<1>1. hist \in HistPage(HistTexts) /\ hist.fresh <= hist.fresh /\ HistTyped
      BY HistMiddle DEF HistInv
<1>2. PICK no \in BOOLEAN : no = FALSE
      OBVIOUS
<1>3. PICK dirties, drafts, text : dirties = [hist.dirty EXCEPT ![c] = no] /\ text = hist.text[c]
                                     /\ drafts = [histServer.draft EXCEPT ![c] = text]
      OBVIOUS
<1> DEFINE m == [hist EXCEPT !.dirty = dirties]
<1>4. hist' = Hist!Crossing(m, c, Hist!Changing(c)) /\ histServer' = [histServer EXCEPT !.draft = drafts]
        /\ histKept' = histKept /\ histCalls' = histCalls
      BY <1>2, <1>3 DEF Hist!Save
<1>5. dirties \in [HistChapters -> BOOLEAN] /\ drafts \in [HistChapters -> HistTexts]
      BY <1>1, <1>3 DEF HistPage, HistTyped, HistStored
<1>6. m \in HistPage(HistTexts) /\ m.text = hist.text /\ m.dirty = dirties /\ m.asked = hist.asked
        /\ m.fresh = hist.fresh /\ m.lost = hist.lost
      BY <1>1, <1>5 DEF HistPage
<1> HIDE DEF m
<1>7. hist' \in HistPage(HistTexts) /\ hist'.text = hist.text /\ hist'.dirty = dirties /\ hist'.asked = hist.asked
        /\ hist'.fresh = hist.fresh /\ hist.lost \subseteq hist'.lost
        /\ (c \notin hist'.lost => Hist!Changing(c) = {})
      BY <1>4, <1>6, HistCrosses
<1>8. histServer' \in HistStored(HistTexts) /\ histServer'.draft = drafts
        /\ histServer'.published = histServer.published
      BY <1>1, <1>4, <1>5 DEF HistTyped, HistStored
<1>9. histKept' \in HistSpaces(HistTexts) /\ histCalls' \in SUBSET histCalls /\ HistCalled
      BY <1>1, <1>4 DEF HistTyped, HistInv
<1>10. HistTyped' /\ HistCalled'
       BY <1>1, <1>7, <1>8, <1>9, HistSoundFewer
<1>11. ASSUME NEW d \in HistChapters, d \notin hist'.lost PROVE HistSafe(d)'
  <2>1. HistSafe(d) /\ histCalls' = histCalls
        BY <1>4, <1>7, <1>11 DEF HistInv
  <2>2. CASE d # c
    <3>1. hist'.dirty[d] = hist.dirty[d] /\ histServer'.draft[d] = histServer.draft[d]
          BY <1>1, <1>3, <1>7, <1>8, <2>2 DEF HistPage, HistTyped, HistStored
    <3>2. HistAlike(d)
          BY <1>4, <1>7, <1>8, <3>1 DEF HistAlike
    <3> QED BY <2>1, <3>2, HistQuiet
  <2>3. CASE d = c
    <3>1. histServer'.draft[d] = hist'.text[d]
          BY <1>1, <1>3, <1>7, <1>8, <2>3 DEF HistTyped, HistStored
    <3>2. \A k \in histCalls : ~HistMatters(k, d)
          BY <1>7, <1>11, <2>3, HistChanging
    <3>3. \A k \in histCalls : ~HistPouring(k, d) /\ ~HistAsks(k, d) /\ ~HistBack(k, d)
          BY <3>2 DEF HistMatters, HistPouring, HistBack
    <3> QED BY <2>1, <3>1, <3>3 DEF HistSafe, HistClean, HistOne, HistPouring, HistAsks, HistBack
  <2> QED BY <2>2, <2>3
<1> QED BY <1>7, <1>10, <1>11 DEF HistInv, HistGoesOn

-----------------------------------------------------------------------------
(* A snapshot is poured into the tab, when nothing else is on its way to   *)
(* the chapter or the crossing says so.                                    *)
LEMMA HistRestored ==
  ASSUME HistInv, NEW m \in HistPage(HistTexts), m.text = hist.text, m.dirty = hist.dirty, m.fresh = hist.fresh,
         NEW c \in HistChapters, NEW shot \in HistSnap(HistTexts), NEW current \in HistTexts,
         Hist!Restored(m, c, shot, current)
  PROVE  /\ hist' \in HistPage(HistTexts) /\ hist.fresh <= hist'.fresh /\ m.lost \subseteq hist'.lost
         /\ hist'.text = [hist.text EXCEPT ![c] = shot.text] /\ hist'.dirty[c] /\ hist'.asked = m.asked
         /\ \A d \in HistChapters : d # c => hist'.dirty[d] = hist.dirty[d] /\ histKept'[d] = histKept[d]
         /\ histKept' \in HistSpaces(HistTexts)
         /\ c \notin hist'.lost /\ current # shot.text /\ current # 0 => histKept'[c].auto.text = current
<1>1. PICK no \in BOOLEAN, yes \in BOOLEAN : no = FALSE /\ yes = TRUE
      OBVIOUS
<1>2. PICK texts, dirties, n, ws : /\ texts = [m.text EXCEPT ![c] = shot.text]
                                   /\ dirties = [m.dirty EXCEPT ![c] = yes]
                                   /\ n = Hist!NoSnapshot
                                   /\ ws = IF current = shot.text THEN histKept[c]
                                           ELSE Hist!PutAuto(histKept[c], m, current)
      OBVIOUS
<1>3. HistTyped /\ histKept[c] \in HistSpace(HistTexts) /\ n \in HistSnap(HistTexts) /\ shot.text \in HistTexts
      BY <1>2, HistMiddle, HistNothing DEF HistInv, HistTyped, HistSpaces, HistSnap
<1>4. ws \in HistSpace(HistTexts) /\ (current # shot.text /\ current # 0 => ws.auto.text = current)
      BY <1>2, <1>3, HistSlots
<1>5. texts \in [HistChapters -> HistTexts] /\ dirties \in [HistChapters -> BOOLEAN] /\ dirties[c]
        /\ \A d \in HistChapters : d # c => dirties[d] = m.dirty[d]
      BY <1>1, <1>2, <1>3 DEF HistPage
<1> DEFINE p == [m EXCEPT !.text = texts, !.dirty = dirties, !.shown = ws, !.snap = n, !.working = no]
<1>6. Hist!Saves(p, c, ws)
      BY <1>1, <1>2 DEF Hist!Restored, Hist!Applied
<1>7. p \in HistPage(HistTexts) /\ p.text = texts /\ p.dirty = dirties /\ p.fresh = m.fresh /\ p.asked = m.asked
        /\ p.lost = m.lost
      BY <1>1, <1>3, <1>4, <1>5 DEF HistPage
<1> HIDE DEF p
<1>8. /\ hist' \in HistPage(HistTexts) /\ hist.fresh <= hist'.fresh
      /\ hist'.text = p.text /\ hist'.dirty = p.dirty /\ hist'.asked = p.asked /\ p.lost \subseteq hist'.lost
      /\ histKept' \in HistSpaces(HistTexts)
      /\ \A d \in HistChapters : d # c => histKept'[d] = histKept[d]
      /\ c \notin hist'.lost => histKept'[c] = ws
      BY <1>3, <1>4, <1>6, <1>7, HistSaves
<1> QED BY <1>2, <1>4, <1>5, <1>7, <1>8

LEMMA HistIsRestored ==
  ASSUME HistInv, NEW c \in HistChapters, NEW text,
         hist' \in HistPage(HistTexts), hist.fresh <= hist'.fresh, hist.lost \subseteq hist'.lost,
         hist'.text = [hist.text EXCEPT ![c] = text], hist'.dirty[c], hist'.asked = hist.asked,
         \A d \in HistChapters : d # c => hist'.dirty[d] = hist.dirty[d] /\ histKept'[d] = histKept[d],
         histKept' \in HistSpaces(HistTexts), histServer' = histServer, histCalls' \in SUBSET histCalls,
         c \notin hist'.lost => \A k \in histCalls' : ~HistMatters(k, c),
         \A d \in HistChapters : d # c => HistOnTheirWay(histCalls', d)
  PROVE  HistInv'
<1>1. HistTyped' /\ HistCalled'
      BY HistSoundFewer DEF HistInv, HistTyped
<1>2. ASSUME NEW d \in HistChapters, d \notin hist'.lost PROVE HistSafe(d)'
  <2>1. HistSafe(d)
        BY <1>2 DEF HistInv
  <2>2. CASE d # c
    <3>1. hist'.text[d] = hist.text[d]
          BY <2>2, HistMiddle DEF HistPage
    <3>2. HistAlike(d)
          BY <2>2, <3>1 DEF HistAlike
    <3>3. \A k \in histCalls : HistPouring(k, d) => k \in histCalls'
          BY <2>2 DEF HistOnTheirWay
    <3> QED BY <2>1, <3>2, <3>3, HistQuiet
  <2>3. CASE d = c
    <3>1. \A k \in histCalls' : ~HistPouring(k, d) /\ ~HistAsks(k, d) /\ ~HistBack(k, d)
          BY <1>2, <2>3 DEF HistMatters, HistPouring, HistBack
    <3> QED BY <2>3, <3>1 DEF HistSafe, HistClean, HistOne, HistPouring, HistAsks, HistBack
  <2> QED BY <2>2, <2>3
<1> QED BY <1>1, <1>2 DEF HistInv

LEMMA HistRestores ==
  ASSUME HistInv, NEW shot \in Hist!Shown \cup {hist.snap}, Hist!RestoreSnapshot(shot)
  PROVE  HistInv'
<1> DEFINE c == hist.active
           a == Hist!Acted(hist)
<1>1. hist \in HistPage(HistTexts) /\ c \in HistChapters /\ shot \in HistSnap(HistTexts) /\ hist.text[c] \in HistTexts
      BY HistMiddle, HistIsShown DEF HistPage
<1>2. histServer' = histServer
      BY DEF Hist!RestoreSnapshot
<1>3. CASE Hist!AtHand(c)
  <2> DEFINE m == Hist!Crossing(a, c, Hist!Changing(c))
  <2>1. Hist!Restored(m, c, shot, hist.text[c]) /\ histCalls' = histCalls
        BY <1>3 DEF Hist!RestoreSnapshot
  <2>2. a \in HistPage(HistTexts) /\ HistLike(a, hist)
        BY <1>1, HistActed
  <2> HIDE DEF a, c
  <2>3. m \in HistPage(HistTexts) /\ m.text = hist.text /\ m.dirty = hist.dirty /\ m.asked = hist.asked
          /\ m.fresh = hist.fresh /\ hist.lost \subseteq m.lost /\ (c \notin m.lost => Hist!Changing(c) = {})
        BY <1>1, <2>2, HistCrosses DEF HistLike
  <2> HIDE DEF m
  <2>4. /\ hist' \in HistPage(HistTexts) /\ hist.fresh <= hist'.fresh /\ m.lost \subseteq hist'.lost
        /\ hist'.text = [hist.text EXCEPT ![c] = shot.text] /\ hist'.dirty[c] /\ hist'.asked = m.asked
        /\ \A d \in HistChapters : d # c => hist'.dirty[d] = hist.dirty[d] /\ histKept'[d] = histKept[d]
        /\ histKept' \in HistSpaces(HistTexts)
        BY <1>1, <2>1, <2>3, HistRestored
  <2>5. c \notin hist'.lost => \A k \in histCalls' : ~HistMatters(k, c)
        BY <1>1, <2>1, <2>3, <2>4, HistChanging
  <2>6. \A d \in HistChapters : HistOnTheirWay(histCalls', d)
        BY <2>1 DEF HistOnTheirWay
  <2>7. hist.lost \subseteq hist'.lost /\ hist'.asked = hist.asked /\ histCalls' \in SUBSET histCalls
        BY <2>1, <2>3, <2>4
  <2> QED BY <1>1, <1>2, <2>4, <2>5, <2>6, <2>7, HistIsRestored
<1>4. CASE ~Hist!AtHand(c)
  <2>1. PICK yes \in BOOLEAN : yes = TRUE
        OBVIOUS
  <2> DEFINE o == [hist EXCEPT !.working = yes]
             m == Hist!Acted(o)
  <2>2. Hist!Ask(m, "current", "restore", c, shot) /\ histKept' = histKept
        BY <1>4, <2>1 DEF Hist!RestoreSnapshot
  <2>3. o \in HistPage(HistTexts) /\ HistLike(o, hist)
        BY <1>1 DEF HistPage, HistLike
  <2> HIDE DEF o
  <2>4. m \in HistPage(HistTexts) /\ HistLike(m, hist) /\ "restore" \in HistPurposes
        BY <2>3, HistActed DEF HistLike, HistPurposes
  <2> HIDE DEF m, c
  <2> QED BY <1>1, <1>2, <1>4, <2>2, <2>4, HistAsk DEF HistGoesOn
<1> QED BY <1>3, <1>4

-----------------------------------------------------------------------------
(* A checkout is asked for, in the place of the request for the text that  *)
(* was to be kept: from now on it is on its way to the chapter.            *)
LEMMA HistSendsBack ==
  ASSUME HistInv, NEW c \in HistChapters, NEW k, ~HistPouring(k, c) /\ k.kind \notin {"checkout", "refresh"},
         hist' \in HistPage(HistTexts), hist.fresh <= hist'.fresh, hist.lost \subseteq hist'.lost,
         hist'.text = hist.text, hist'.dirty = hist.dirty, hist'.asked = hist.asked + 1,
         histKept' \in HistSpaces(HistTexts), \A d \in HistChapters : d # c => histKept'[d] = histKept[d],
         histServer' = histServer,
         NEW new \in HistCall(HistTexts), new.kind = "checkout", new.purpose \in {"rollback", "compare"},
         new.chapter = c, new.id = hist.asked + 1, ~new.read, histCalls' = (histCalls \ {k}) \cup {new},
         c \notin hist'.lost /\ new.purpose = "rollback" /\ new.was # histServer.published[c]
           /\ hist.text[c] = new.was /\ new.was # 0
           => histKept'[c].auto.text = new.was \/ HistPours(c)
  PROVE  HistGoesOn
<1>1. HistFit(new) /\ (histCalls \ {k}) \in SUBSET histCalls
      BY DEF HistFit
<1>2. HistTyped' /\ HistCalled' /\ \A l \in histCalls : l # new
      BY <1>1, HistSound DEF HistInv, HistTyped
<1>3. ASSUME NEW d \in HistChapters, d \notin hist'.lost PROVE HistSafe(d)'
  <2>1. HistSafe(d)
        BY <1>3 DEF HistInv
  <2>2. \A l \in histCalls : HistPouring(l, d) => l \in histCalls' /\ l # new
        BY <1>2 DEF HistPouring
  <2>3. CASE d # c
    <3>1. HistAlike(d)
          BY <2>3 DEF HistAlike
    <3>2. ~HistMatters(new, d)
          BY <2>3 DEF HistMatters, HistPouring, HistAsks
    <3> QED BY <2>1, <2>2, <3>1, <3>2, HistQuiet
  <2>4. CASE d = c
    <3>1. HistPouring(new, c) /\ new \in histCalls' /\ HistPours(c)'
          BY DEF HistPouring, HistPours
    <3>2. HistClean(c)'
          BY <2>1, <2>4, <3>1 DEF HistSafe, HistClean
    <3>3. ASSUME NEW l \in histCalls \ {k}
          PROVE  /\ HistOne(l, c)' /\ (HistAsks(l, c) => HistAsked(l, c)')
                 /\ HistBack(l, c) => HistKeeps(l, c)'
      <4>1. HistOne(l, c) /\ (HistAsks(l, c) => HistAsked(l, c)) /\ l # new
            BY <1>2, <2>1, <2>4 DEF HistSafe
      <4>2. HistOne(l, c)'
            BY <4>1 DEF HistOne, HistPouring
      <4>3. HistAsks(l, c) => HistAsked(l, c)'
            BY <3>1, <4>1 DEF HistAsked, HistAnswers
      <4>4. HistKeeps(l, c)'
            BY <3>1, <4>1 DEF HistKeeps
      <4> QED BY <4>2, <4>3, <4>4
    <3>4. HistOne(new, c)' /\ ~HistAsks(new, c)
          BY DEF HistOne, HistPouring, HistAsks
    <3>5. HistBack(new, c) => HistKeeps(new, c)'
      <4> SUFFICES ASSUME HistBack(new, c), new.was # histServer.published[c], hist.text[c] = new.was, new.was # 0,
                          histKept'[c].auto.text # new.was
                   PROVE  \E l \in histCalls' : l # new /\ HistPouring(l, c)
          BY DEF HistKeeps, HistPouring
      <4>1. HistPours(c)
            BY <1>3, <2>4 DEF HistBack
      <4>2. PICK l \in histCalls : HistPouring(l, c)
            BY <4>1 DEF HistPours
      <4> QED BY <2>2, <2>4, <4>2
    <3> QED BY <2>4, <3>2, <3>3, <3>4, <3>5 DEF HistSafe, HistAsks, HistBack
  <2> QED BY <2>3, <2>4
<1> QED BY <1>2, <1>3 DEF HistInv, HistGoesOn

(* The checkout that a request asks for carries the text the request knew. *)
LEMMA HistCheckout ==
  ASSUME HistInv, NEW k, k.was \in HistTexts, k.purpose \in {"rollback", "compare"}, NEW c \in HistChapters,
         Hist!Checkout(hist, k, c)
  PROVE  \E new \in HistCall(HistTexts) :
           /\ new.kind = "checkout" /\ new.purpose = k.purpose /\ new.chapter = c /\ new.id = hist.asked + 1
           /\ ~new.read /\ new.was = k.was /\ histCalls' = (histCalls \ {k}) \cup {new}
<1>1. PICK b : b = Hist!Request(hist, "checkout", k.purpose, c, Hist!NoSnapshot)
      OBVIOUS
<1>2. 0 \in HistTexts /\ hist \in HistPage(HistTexts) /\ "checkout" \in HistKinds /\ k.purpose \in HistPurposes
        /\ Hist!NoSnapshot \in HistSnap(HistTexts)
      BY HistMiddle, HistNothing DEF HistKinds, HistPurposes
<1>3. b \in HistCall(HistTexts) /\ b.kind = "checkout" /\ b.purpose = k.purpose /\ b.chapter = c
        /\ b.id = hist.asked + 1 /\ ~b.read
      BY <1>1, <1>2, HistRequest
<1>4. PICK new : new = [b EXCEPT !.was = k.was]
      OBVIOUS
<1>5. new \in HistCall(HistTexts) /\ new.kind = b.kind /\ new.purpose = b.purpose /\ new.chapter = b.chapter
        /\ new.id = b.id /\ (~new.read <=> ~b.read) /\ new.was = k.was
      BY <1>3, <1>4 DEF HistCall
<1>6. histCalls' = (histCalls \ {k}) \cup {new}
      BY <1>1, <1>4 DEF Hist!Checkout, Hist!Others
<1> QED BY <1>3, <1>5, <1>6

LEMMA HistRollsBack == ASSUME HistInv, Hist!Rollback PROVE HistGoesOn
<1> DEFINE c == hist.active
<1>1. PICK yes \in BOOLEAN : yes = TRUE
      OBVIOUS
<1> DEFINE o == [hist EXCEPT !.working = yes, !.asked = hist.asked + 1]
           m == Hist!Acted(o)
<1>2. hist \in HistPage(HistTexts) /\ c \in HistChapters /\ hist.text[c] \in HistTexts /\ hist.asked + 1 \in Nat
        /\ 0 \in HistTexts /\ hist.fresh <= hist.fresh
      BY HistMiddle DEF HistPage
<1>3. o \in HistPage(HistTexts) /\ o.text = hist.text /\ o.dirty = hist.dirty /\ o.fresh = hist.fresh
        /\ o.asked = hist.asked + 1 /\ o.lost = hist.lost
      BY <1>2 DEF HistPage
<1>4. histServer' = histServer
      BY DEF Hist!Rollback
<1>5. CASE Hist!AtHand(c)
  <2>1. PICK k : k = Hist!Request(hist, "current", "rollback", c, Hist!NoSnapshot)
        OBVIOUS
  <2>2. PICK ws : ws = Hist!PutAuto(histKept[c], m, hist.text[c])
        OBVIOUS
  <2>3. Hist!Saves(m, c, ws) /\ Hist!Checkout(hist, k, c)
        BY <1>1, <1>5, <2>1, <2>2 DEF Hist!Rollback
  <2> HIDE DEF o
  <2>4. m \in HistPage(HistTexts) /\ m.text = hist.text /\ m.dirty = hist.dirty /\ m.fresh = hist.fresh
          /\ m.asked = hist.asked + 1 /\ m.lost = hist.lost
        BY <1>3, HistActed DEF HistLike
  <2> HIDE DEF m
  <2>5. k.kind = "current" /\ k.purpose = "rollback" /\ k.was = hist.text[c]
    <3>1. Hist!NoSnapshot \in HistSnap(HistTexts) /\ "current" \in HistKinds /\ "rollback" \in HistPurposes
          BY <1>2, HistNothing DEF HistKinds, HistPurposes
    <3> QED BY <1>2, <2>1, <3>1, HistRequest
  <2>6. HistTyped /\ histKept[c] \in HistSpace(HistTexts)
        BY <1>2 DEF HistInv, HistTyped, HistSpaces
  <2>7. ws \in HistSpace(HistTexts) /\ (hist.text[c] # 0 => ws.auto.text = hist.text[c])
    <3>1. PICK text \in HistTexts : text = hist.text[c]
          BY <1>2
    <3>0. PICK kept : kept = histKept[c]
          OBVIOUS
    <3>2. kept \in HistSpace(HistTexts) /\ ws = Hist!PutAuto(kept, m, text)
          BY <2>2, <2>6, <3>0, <3>1
    <3>3. ws \in HistSpace(HistTexts) /\ (text # 0 => ws.auto.text = text)
          BY <2>4, <3>2, HistSlots
    <3> QED BY <3>1, <3>3
  <2>8. /\ hist' \in HistPage(HistTexts) /\ hist.fresh <= hist'.fresh
        /\ hist'.text = m.text /\ hist'.dirty = m.dirty /\ hist'.asked = m.asked /\ m.lost \subseteq hist'.lost
        /\ histKept' \in HistSpaces(HistTexts)
        /\ \A d \in HistChapters : d # c => histKept'[d] = histKept[d]
        /\ c \notin hist'.lost => histKept'[c] = ws
        BY <1>2, <2>3, <2>4, <2>6, <2>7, HistSaves
  <2> HIDE DEF c
  <2>9. PICK new \in HistCall(HistTexts) :
          /\ new.kind = "checkout" /\ new.purpose = k.purpose /\ new.chapter = c /\ new.id = hist.asked + 1
          /\ ~new.read /\ new.was = k.was /\ histCalls' = (histCalls \ {k}) \cup {new}
        BY <1>2, <2>3, <2>5, HistCheckout
  <2>10. ~HistPouring(k, c) /\ k.kind \notin {"checkout", "refresh"} /\ new.purpose \in {"rollback", "compare"}
         BY <2>5, <2>9 DEF HistPouring
  <2>11. c \notin hist'.lost /\ hist.text[c] = new.was /\ new.was # 0 => histKept'[c].auto.text = new.was
         BY <2>7, <2>8
  <2>12. /\ hist'.text = hist.text /\ hist'.dirty = hist.dirty /\ hist'.asked = hist.asked + 1
         /\ hist.lost \subseteq hist'.lost
         BY <2>4, <2>8
  <2> QED BY <1>2, <1>4, <2>8, <2>9, <2>10, <2>11, <2>12, HistSendsBack
<1>6. CASE ~Hist!AtHand(c)
  <2>1. hist' = m /\ histCalls' = histCalls \cup {Hist!Request(hist, "current", "rollback", c, Hist!NoSnapshot)}
          /\ histKept' = histKept
        BY <1>1, <1>6 DEF Hist!Rollback
  <2> HIDE DEF o, c
  <2>2. hist' \in HistPage(HistTexts) /\ hist'.text = hist.text /\ hist'.dirty = hist.dirty
          /\ hist'.fresh = hist.fresh /\ hist'.asked = hist.asked + 1 /\ hist'.lost = hist.lost
        BY <1>3, <2>1, HistActed DEF HistLike
  <2>3. HistStill
        BY <1>2, <1>4, <2>1, <2>2 DEF HistStill, HistInv, HistTyped
  <2>4. Hist!NoSnapshot \in HistSnap(HistTexts) /\ "rollback" \in HistPurposes
        BY <1>2, HistNothing DEF HistPurposes
  <2> HIDE DEF m
  <2> QED BY <1>2, <1>6, <2>1, <2>2, <2>3, <2>4, HistAskFrom
<1> QED BY <1>5, <1>6

LEMMA HistAnswered == ASSUME HistInv, NEW k \in histCalls, Hist!CurrentAnswered(k)
  PROVE  HistInv' /\ (k.purpose # "restore" => HistGoesOn)
<1> DEFINE c == k.chapter
<1>1. k \in HistCall(HistTexts) /\ HistTyped /\ hist \in HistPage(HistTexts) /\ hist.asked + 1 \in Nat
      BY HistMiddle DEF HistInv, HistTyped
<1>2. c \in HistChapters /\ k.text \in HistTexts /\ k.was \in HistTexts /\ k.snap \in HistSnap(HistTexts)
      BY <1>1 DEF HistCall
<1>3. histServer' = histServer /\ k.kind = "current" /\ k.read
      BY DEF Hist!CurrentAnswered
<1>4. CASE k.purpose = "stash" /\ Hist!Stashed(hist, c, k.text) /\ histCalls' = Hist!Others(k)
  <2>1. HistLike(hist, hist) /\ histCalls' = histCalls \ {k}
        BY <1>4 DEF HistLike, Hist!Others
  <2>2. HistStill /\ hist'.asked = hist.asked
        BY <1>1, <1>2, <1>3, <1>4, <2>1, HistStashed
  <2>3. \A d \in HistChapters : HistOnTheirWay(histCalls', d)
        BY <1>3, <2>1 DEF HistOnTheirWay, HistPouring
  <2>4. histCalls' \in SUBSET histCalls
        BY <2>1
  <2> QED BY <2>2, <2>3, <2>4, HistIdle DEF HistGoesOn
<1>5. CASE /\ k.purpose = "restore" /\ histCalls' = Hist!Others(k)
           /\ Hist!Restored(Hist!Crossing(hist, c, Hist!Changing(c) \ {k}), c, k.snap, k.text)
  <2> DEFINE m == Hist!Crossing(hist, c, Hist!Changing(c) \ {k})
  <2>1. m \in HistPage(HistTexts) /\ m.text = hist.text /\ m.dirty = hist.dirty /\ m.asked = hist.asked
          /\ m.fresh = hist.fresh /\ hist.lost \subseteq m.lost /\ (c \notin m.lost => Hist!Changing(c) \ {k} = {})
        BY SMTT(60), <1>1, <1>2, HistCrosses
  <2>2. Hist!Restored(m, c, k.snap, k.text) /\ histCalls' = histCalls \ {k}
        BY <1>5 DEF Hist!Others
  <2> HIDE DEF m
  <2>3. /\ hist' \in HistPage(HistTexts) /\ hist.fresh <= hist'.fresh /\ m.lost \subseteq hist'.lost
        /\ hist'.text = [hist.text EXCEPT ![c] = k.snap.text] /\ hist'.dirty[c] /\ hist'.asked = m.asked
        /\ \A d \in HistChapters : d # c => hist'.dirty[d] = hist.dirty[d] /\ histKept'[d] = histKept[d]
        /\ histKept' \in HistSpaces(HistTexts)
        BY <1>2, <2>1, <2>2, HistRestored
  <2>4. c \notin hist'.lost => \A l \in histCalls' : ~HistMatters(l, c)
        BY <1>2, <2>1, <2>2, <2>3, HistChanging
  <2>5. \A d \in HistChapters : HistOnTheirWay(histCalls', d)
        BY <1>3, <2>2 DEF HistOnTheirWay, HistPouring
  <2>6. hist.lost \subseteq hist'.lost /\ hist'.asked = hist.asked /\ histCalls' \in SUBSET histCalls
        BY <2>1, <2>2, <2>3
  <2> HIDE DEF c
  <2> QED BY <1>2, <1>3, <1>5, <2>3, <2>4, <2>5, <2>6, HistIsRestored
<1>6. ASSUME k.purpose \in {"rollback", "compare"}, NEW m, m = [hist EXCEPT !.asked = @ + 1],
             Hist!Saves(m, c, Hist!PutAuto(histKept[c], m, k.text)), Hist!Checkout(hist, k, c)
      PROVE  HistGoesOn
  <2>1. m \in HistPage(HistTexts) /\ m.text = hist.text /\ m.dirty = hist.dirty /\ m.fresh = hist.fresh
          /\ m.asked = hist.asked + 1 /\ m.lost = hist.lost
        BY <1>1, <1>6 DEF HistPage
  <2>2. PICK ws : ws = Hist!PutAuto(histKept[c], m, k.text)
        OBVIOUS
  <2>3. histKept[c] \in HistSpace(HistTexts)
        BY <1>1, <1>2 DEF HistTyped, HistSpaces
  <2>4. ws \in HistSpace(HistTexts) /\ (k.text # 0 => ws.auto.text = k.text)
        BY SMTT(60), <1>2, <2>1, <2>2, <2>3, HistSlots
  <2>5. Hist!Saves(m, c, ws)
        BY <1>6, <2>2
  <2>6. /\ hist' \in HistPage(HistTexts) /\ hist.fresh <= hist'.fresh
        /\ hist'.text = m.text /\ hist'.dirty = m.dirty /\ hist'.asked = m.asked /\ m.lost \subseteq hist'.lost
        /\ histKept' \in HistSpaces(HistTexts)
        /\ \A d \in HistChapters : d # c => histKept'[d] = histKept[d]
        /\ c \notin hist'.lost => histKept'[c] = ws
        BY <1>1, <1>2, <2>1, <2>4, <2>5, HistSaves
  <2>7. PICK new \in HistCall(HistTexts) :
          /\ new.kind = "checkout" /\ new.purpose = k.purpose /\ new.chapter = c /\ new.id = hist.asked + 1
          /\ ~new.read /\ new.was = k.was /\ histCalls' = (histCalls \ {k}) \cup {new}
        BY <1>2, <1>6, HistCheckout
  <2>8. ~HistPouring(k, c) /\ k.kind \notin {"checkout", "refresh"} /\ new.purpose \in {"rollback", "compare"}
        BY <1>3, <1>6, <2>7 DEF HistPouring
  <2>9. /\ hist'.text = hist.text /\ hist'.dirty = hist.dirty /\ hist'.asked = hist.asked + 1
        /\ hist.lost \subseteq hist'.lost
        BY <2>1, <2>6
  <2>10. c \notin hist'.lost /\ new.purpose = "rollback" /\ new.was # histServer.published[c]
           /\ hist.text[c] = new.was /\ new.was # 0
           => histKept'[c].auto.text = new.was \/ HistPours(c)
    <3> SUFFICES ASSUME c \notin hist'.lost, new.purpose = "rollback", new.was # histServer.published[c],
                        hist.text[c] = new.was, new.was # 0, ~HistPours(c)
                 PROVE  histKept'[c].auto.text = new.was
        OBVIOUS
    <3>1. HistSafe(c)
          BY <1>2, <2>9 DEF HistInv
    <3>2. HistAsks(k, c)
          BY <1>3, <2>7 DEF HistAsks
    <3>3. HistAnswers(k, c)
          BY <2>7, <3>1, <3>2 DEF HistSafe, HistAsked
    <3>4. k.text = k.was
          BY <1>3, <3>3 DEF HistAnswers
    <3> QED BY <2>4, <2>6, <2>7, <3>4
  <2> HIDE DEF c
  <2> QED BY <1>2, <1>3, <2>6, <2>7, <2>8, <2>9, <2>10, HistSendsBack
<1> QED BY <1>4, <1>5, <1>6 DEF Hist!CurrentAnswered, HistGoesOn

-----------------------------------------------------------------------------
(* The server answers.                                                     *)

LEMMA HistReads == ASSUME HistInv, NEW k \in histCalls, Hist!ServerReads(k) PROVE HistGoesOn
<1> DEFINE c == k.chapter
<1>1. k \in HistCall(HistTexts) /\ HistTyped /\ HistCalled /\ histServer \in HistStored(HistTexts)
      BY DEF HistInv, HistTyped
<1>2. PICK yes \in BOOLEAN, text \in HistTexts : yes = TRUE /\ text = histServer.draft[c]
      BY <1>1 DEF HistStored, HistCall
<1>3. PICK b : b = [k EXCEPT !.read = yes, !.text = text]
      OBVIOUS
<1>4. b \in HistCall(HistTexts) /\ b.id = k.id /\ b.kind = k.kind /\ b.purpose = k.purpose /\ b.chapter = c
        /\ b.was = k.was /\ b.read /\ b.text = text
      BY <1>1, <1>2, <1>3 DEF HistCall
<1>5. hist' = hist /\ histKept' = histKept /\ histServer' = histServer /\ histCalls' = (histCalls \ {k}) \cup {b}
        /\ k.kind \in {"current", "refresh"} /\ ~k.read
      BY <1>2, <1>3 DEF Hist!ServerReads, Hist!Others
<1>6. HistFit(b)
      BY <1>1, <1>4 DEF HistCalled, HistFit
<1>7. HistTyped' /\ HistCalled' /\ \A l \in histCalls : l # k => l # b
      BY <1>1, <1>4, <1>5, <1>6, HistSoundSame
<1>8. ASSUME NEW d \in HistChapters, d \notin hist'.lost PROVE HistSafe(d)'
  <2>1. HistSafe(d)
        BY <1>5, <1>8 DEF HistInv
  <2>2. HistPouring(k, d) <=> HistPouring(b, d)
        BY <1>4 DEF HistPouring
  <2>3. HistPours(d) => HistPours(d)'
        BY <1>5, <2>2 DEF HistPours
  <2>4. HistClean(d)'
        BY <1>5, <2>1, <2>3 DEF HistSafe, HistClean
  <2>5. ASSUME NEW l \in histCalls \ {k}
        PROVE  /\ HistOne(l, d)' /\ (HistAsks(l, d) => HistAsked(l, d)')
               /\ HistBack(l, d) => HistKeeps(l, d)'
    <3>1. HistOne(l, d) /\ (HistAsks(l, d) => HistAsked(l, d)) /\ (HistBack(l, d) => HistKeeps(l, d)) /\ l # b
          BY <1>7, <2>1 DEF HistSafe
    <3>2. HistOne(l, d)' /\ (HistAsks(l, d) => HistAsked(l, d)')
          BY <1>5, <2>3, <3>1 DEF HistOne, HistPouring, HistAsked, HistAnswers
    <3>3. (\E e \in histCalls : e # l /\ HistPouring(e, d)) => (\E e \in histCalls' : e # l /\ HistPouring(e, d))
          BY <1>5, <2>2, <3>1
    <3>4. HistBack(l, d) => HistKeeps(l, d)'
          BY <1>5, <3>1, <3>3 DEF HistKeeps, HistPouring
    <3> QED BY <3>2, <3>4
  <2>6. HistOne(k, d) /\ (HistAsks(k, d) => HistAsked(k, d))
        BY <2>1 DEF HistSafe
  <2>7. HistOne(b, d)'
        BY <1>2, <1>4, <1>5, <2>6 DEF HistOne, HistPouring
  <2>8. HistAsks(b, d) => HistAsked(b, d)'
    <3> SUFFICES ASSUME HistAsks(b, d) PROVE HistAsked(b, d)'
        OBVIOUS
    <3>1. HistAsks(k, d) /\ d = c
          BY <1>4 DEF HistAsks
    <3>2. HistAsked(k, d)
          BY <2>6, <3>1
    <3>3. HistAnswers(k, d) => HistAnswers(b, d)'
          BY <1>2, <1>4, <1>5, <3>1 DEF HistAnswers
    <3> QED BY <1>4, <1>5, <2>3, <3>2, <3>3 DEF HistAsked
  <2>9. ~HistBack(b, d)
        BY <1>4, <1>5 DEF HistBack
  <2> QED BY <1>5, <2>4, <2>5, <2>7, <2>8, <2>9 DEF HistSafe, HistAsks, HistBack
<1> QED BY <1>5, <1>7, <1>8 DEF HistInv, HistGoesOn

LEMMA HistGoesBack == ASSUME HistInv, NEW k \in histCalls, Hist!ServerChecksOut(k) PROVE HistGoesOn
<1> DEFINE c == k.chapter
<1>1. k \in HistCall(HistTexts) /\ HistTyped /\ HistCalled /\ histServer \in HistStored(HistTexts) /\ c \in HistChapters
      BY DEF HistInv, HistTyped, HistCall
<1>2. PICK yes \in BOOLEAN, text \in HistTexts : yes = TRUE /\ text = histServer.published[c]
      BY <1>1 DEF HistStored
<1>3. PICK b, drafts : b = [k EXCEPT !.read = yes, !.text = text] /\ drafts = [histServer.draft EXCEPT ![c] = text]
      OBVIOUS
<1>4. b \in HistCall(HistTexts) /\ b.id = k.id /\ b.kind = k.kind /\ b.purpose = k.purpose /\ b.chapter = c
        /\ b.was = k.was /\ b.read /\ b.text = text
      BY <1>1, <1>2, <1>3 DEF HistCall
<1>5. hist' = hist /\ histKept' = histKept /\ histServer' = [histServer EXCEPT !.draft = drafts]
        /\ histCalls' = (histCalls \ {k}) \cup {b} /\ k.kind = "checkout" /\ ~k.read
      BY <1>2, <1>3 DEF Hist!ServerChecksOut, Hist!Others
<1>6. HistFit(b)
      BY <1>1, <1>4 DEF HistCalled, HistFit
<1>9. drafts \in [HistChapters -> HistTexts] /\ drafts[c] = text
        /\ \A d \in HistChapters : d # c => drafts[d] = histServer.draft[d]
      BY <1>1, <1>3 DEF HistStored
<1>10. histServer' \in HistStored(HistTexts) /\ histServer'.draft = drafts
         /\ histServer'.published = histServer.published
      BY <1>1, <1>5, <1>9 DEF HistStored
<1>7. HistTyped' /\ HistCalled' /\ \A l \in histCalls : l # k => l # b
      BY <1>1, <1>4, <1>5, <1>6, <1>10, HistSoundSame
<1>8. ASSUME NEW d \in HistChapters, d \notin hist'.lost PROVE HistSafe(d)'
  <2>1. HistSafe(d)
        BY <1>5, <1>8 DEF HistInv
  <2>2. CASE d # c
    <3>1. HistAlike(d)
          BY <1>5, <1>9, <1>10, <2>2 DEF HistAlike
    <3>2. ~HistMatters(b, d) /\ ~HistPouring(k, d)
          BY <1>4, <2>2 DEF HistMatters, HistPouring, HistAsks
    <3> QED BY <1>5, <2>1, <3>1, <3>2, HistQuiet
  <2>3. CASE d = c
    <3>1. histServer'.draft[c] = text /\ histServer'.published[c] = text /\ histServer.published[c] = text
          BY <1>2, <1>9, <1>10
    <3>2. HistPouring(b, c) /\ b \in histCalls' /\ HistPours(c)'
          BY <1>4, <1>5 DEF HistPouring, HistPours
    <3>3. HistClean(c)'
          BY <3>1, <3>2 DEF HistClean
    <3>4. ASSUME NEW l \in histCalls \ {k}
          PROVE  /\ HistOne(l, c)' /\ (HistAsks(l, c) => HistAsked(l, c)')
                 /\ HistBack(l, c) => HistKeeps(l, c)'
      <4>1. HistOne(l, c) /\ (HistAsks(l, c) => HistAsked(l, c)) /\ l # b
            BY <1>7, <2>1, <2>3 DEF HistSafe
      <4>2. HistOne(l, c)'
            BY <3>1, <4>1 DEF HistOne, HistPouring
      <4>3. HistAsks(l, c) => HistAsked(l, c)'
            BY <3>1, <3>2, <4>1 DEF HistAsked, HistAnswers
      <4>4. HistKeeps(l, c)'
            BY <3>2, <4>1 DEF HistKeeps
      <4> QED BY <4>2, <4>3, <4>4
    <3>5. HistOne(b, c)' /\ ~HistAsks(b, c)
          BY <1>4, <1>5, <3>1 DEF HistOne, HistPouring, HistAsks
    <3>6. HistBack(b, c) => HistKeeps(b, c)'
      <4> SUFFICES ASSUME HistBack(b, c), b.was # text, hist.text[c] = b.was, b.was # 0,
                          histKept[c].auto.text # b.was
                   PROVE  \E l \in histCalls' : l # b /\ HistPouring(l, c)
          BY <1>5, <3>1 DEF HistKeeps, HistPouring
      <4>1. HistBack(k, c) /\ HistKeeps(k, c)
            BY <1>4, <2>1, <2>3 DEF HistSafe, HistBack
      <4>2. PICK l \in histCalls : l # k /\ HistPouring(l, c)
            BY <1>4, <3>1, <4>1 DEF HistKeeps
      <4> QED BY <1>5, <1>7, <4>2
    <3> QED BY <1>5, <2>3, <3>3, <3>4, <3>5, <3>6 DEF HistSafe, HistAsks, HistBack
  <2> QED BY <2>2, <2>3
<1> QED BY <1>5, <1>7, <1>8 DEF HistInv, HistGoesOn

(* What the server gave out is poured into the tab: the published copy,    *)
(* which is the draft by now.                                              *)
LEMMA HistPoured ==
  ASSUME HistInv, NEW k \in histCalls, k.kind \in {"checkout", "refresh"}, k.read,
         NEW c, c = k.chapter, hist' \in HistPage(HistTexts), hist.fresh <= hist'.fresh, hist.lost \subseteq hist'.lost,
         NEW no, ~no, hist'.text = [hist.text EXCEPT ![c] = k.text], hist'.dirty = [hist.dirty EXCEPT ![c] = no],
         hist'.asked = hist.asked + 1, histKept' = histKept, histServer' = histServer,
         NEW new \in HistCall(HistTexts), new.kind = "summary", new.id = hist.asked + 1,
         histCalls' = (histCalls \ {k}) \cup {new}
  PROVE  HistInv'
<1>1. HistFit(new) /\ (histCalls \ {k}) \in SUBSET histCalls /\ HistTyped /\ HistCalled
      BY DEF HistFit, HistInv
<1>2. HistTyped' /\ HistCalled' /\ \A l \in histCalls : l # new
      BY <1>1, HistSound DEF HistTyped
<1>3. hist \in HistPage(HistTexts) /\ c \in HistChapters
      BY <1>1, HistMiddle DEF HistTyped, HistCall
<1>4. ASSUME NEW d \in HistChapters, d \notin hist'.lost PROVE HistSafe(d)'
  <2>1. HistSafe(d)
        BY <1>4 DEF HistInv
  <2>2. CASE d # c
    <3>1. HistAlike(d)
          BY <1>3, <2>2 DEF HistAlike, HistPage
    <3>2. ~HistMatters(new, d) /\ ~HistPouring(k, d)
          BY <2>2 DEF HistMatters, HistPouring, HistAsks
    <3> QED BY <2>1, <3>1, <3>2, HistQuiet
  <2>3. CASE d = c
    <3>1. HistOne(k, c) /\ HistPouring(k, c)
          BY <2>1, <2>3 DEF HistSafe, HistPouring
    <3>2. histServer.draft[c] = histServer.published[c] /\ k.text = histServer.published[c]
          BY <3>1 DEF HistOne
    <3>3. hist'.text[c] = histServer.published[c] /\ ~hist'.dirty[c]
          BY <1>3, <3>2 DEF HistPage
    <3>4. HistClean(c)'
          BY <3>2, <3>3 DEF HistClean
    <3>5. ASSUME NEW l \in histCalls \ {k}
          PROVE  /\ HistOne(l, c)' /\ (HistAsks(l, c) => HistAsked(l, c)')
                 /\ HistBack(l, c) => HistKeeps(l, c)'
      <4>1. HistOne(l, c) /\ (HistAsks(l, c) => HistAsked(l, c))
            BY <2>1, <2>3 DEF HistSafe
      <4>2. HistOne(l, c)'
            BY <4>1 DEF HistOne, HistPouring
      <4>3. HistAsks(l, c) => HistAsked(l, c)'
            BY <3>3, <4>1 DEF HistAsked, HistAnswers
      <4>4. HistKeeps(l, c)'
            BY <3>3 DEF HistKeeps
      <4> QED BY <4>2, <4>3, <4>4
    <3>6. HistOne(new, c)' /\ ~HistAsks(new, c) /\ ~HistBack(new, c)
          BY DEF HistOne, HistPouring, HistAsks, HistBack
    <3> QED BY <2>3, <3>4, <3>5, <3>6 DEF HistSafe, HistAsks, HistBack
  <2> QED BY <2>2, <2>3
<1> QED BY <1>2, <1>4 DEF HistInv

LEMMA HistRefreshes == ASSUME HistInv, NEW k \in histCalls, Hist!Refreshed(k) PROVE HistInv'
<1> DEFINE c == k.chapter
<1>1. PICK no \in BOOLEAN : no = FALSE
      OBVIOUS
<1>2. PICK texts, dirties : texts = [hist.text EXCEPT ![c] = k.text] /\ dirties = [hist.dirty EXCEPT ![c] = no]
      OBVIOUS
<1>3. hist \in HistPage(HistTexts) /\ k \in HistCall(HistTexts) /\ hist.fresh <= hist.fresh
      BY HistMiddle DEF HistInv, HistTyped
<1>4. texts \in [HistChapters -> HistTexts] /\ dirties \in [HistChapters -> BOOLEAN]
      BY <1>2, <1>3 DEF HistPage, HistCall
<1> DEFINE m == [hist EXCEPT !.text = texts, !.dirty = dirties, !.compare = no]
<1>5. Hist!Reload(m, k) /\ histKept' = histKept /\ histServer' = histServer /\ k.kind = "refresh" /\ k.read
      BY <1>1, <1>2 DEF Hist!Refreshed, Hist!Applied
<1>6. m \in HistPage(HistTexts) /\ m.text = texts /\ m.dirty = dirties /\ m.asked = hist.asked
        /\ m.fresh = hist.fresh /\ m.lost = hist.lost
      BY <1>1, <1>3, <1>4 DEF HistPage
<1> HIDE DEF m
<1>7. /\ hist' \in HistPage(HistTexts) /\ hist'.asked = hist.asked + 1
      /\ hist'.text = m.text /\ hist'.dirty = m.dirty /\ hist'.fresh = m.fresh /\ hist'.lost = m.lost
      /\ \E new \in HistCall(HistTexts) :
           new.id = hist.asked + 1 /\ new.kind = "summary" /\ histCalls' = (histCalls \ {k}) \cup {new}
      BY <1>5, <1>6, HistReload
<1>8. PICK new \in HistCall(HistTexts) :
           new.id = hist.asked + 1 /\ new.kind = "summary" /\ histCalls' = (histCalls \ {k}) \cup {new}
      BY <1>7
<1>9. /\ hist'.text = [hist.text EXCEPT ![c] = k.text] /\ hist'.dirty = [hist.dirty EXCEPT ![c] = no]
      /\ hist.fresh <= hist'.fresh /\ hist.lost \subseteq hist'.lost /\ ~no
      BY <1>1, <1>2, <1>3, <1>6, <1>7
<1>10. k.kind \in {"checkout", "refresh"}
       BY <1>5
<1> QED BY <1>5, <1>7, <1>8, <1>9, <1>10, HistPoured

LEMMA HistIsBack == ASSUME HistInv, NEW k \in histCalls, Hist!CheckedOut(k) PROVE HistInv'
<1> DEFINE c == k.chapter
<1>1. PICK no \in BOOLEAN : no = FALSE
      OBVIOUS
<1>0. PICK l \in BOOLEAN : l = (hist.loading \/ k.purpose = "rollback")
      OBVIOUS
<1>2. hist \in HistPage(HistTexts) /\ k \in HistCall(HistTexts) /\ hist.fresh <= hist.fresh /\ hist.asked + 1 \in Nat
        /\ 0 \in HistTexts /\ HistTyped /\ HistCalled
      BY HistMiddle DEF HistInv, HistTyped
<1>3. k.kind = "checkout" /\ k.read /\ histKept' = histKept /\ histServer' = histServer
      BY DEF Hist!CheckedOut
<1>4. c \in HistChapters /\ k.was \in HistTexts /\ k.text \in HistTexts /\ k.purpose \in HistPurposes
        /\ Hist!NoSnapshot \in HistSnap(HistTexts) /\ k.purpose \in {"rollback", "compare"}
      BY <1>2, <1>3, HistNothing DEF HistCall, HistCalled, HistFit
<1>5. ASSUME NEW m \in HistPage(HistTexts), m.asked = hist.asked, NEW kind \in HistKinds, NEW b,
             b = Hist!Request(m, kind, k.purpose, c, Hist!NoSnapshot),
             histCalls' = (histCalls \ {k}) \cup {[b EXCEPT !.was = k.was]}
      PROVE  \E new \in HistCall(HistTexts) :
               /\ new.kind = kind /\ new.purpose = k.purpose /\ new.chapter = c /\ new.id = hist.asked + 1
               /\ ~new.read /\ histCalls' = (histCalls \ {k}) \cup {new}
  <2>1. b \in HistCall(HistTexts) /\ b.kind = kind /\ b.purpose = k.purpose /\ b.chapter = c
          /\ b.id = hist.asked + 1 /\ ~b.read
        BY <1>2, <1>4, <1>5, HistRequest
  <2>2. PICK new : new = [b EXCEPT !.was = k.was]
        OBVIOUS
  <2>3. new \in HistCall(HistTexts) /\ new.kind = b.kind /\ new.purpose = b.purpose /\ new.chapter = b.chapter
          /\ new.id = b.id /\ (~new.read <=> ~b.read)
        BY <1>4, <2>1, <2>2 DEF HistCall
  <2> QED BY <1>5, <2>1, <2>2, <2>3
<1>6. CASE k.purpose = "rollback"
  <2>1. PICK texts, dirties : texts = [hist.text EXCEPT ![c] = k.text] /\ dirties = [hist.dirty EXCEPT ![c] = no]
        OBVIOUS
  <2>2. texts \in [HistChapters -> HistTexts] /\ dirties \in [HistChapters -> BOOLEAN]
        BY <1>2, <1>4, <2>1 DEF HistPage
  <2> DEFINE m == [hist EXCEPT !.text = texts, !.dirty = dirties]
  <2>3. m \in HistPage(HistTexts) /\ m.asked = hist.asked /\ m.text = texts /\ m.dirty = dirties
          /\ m.fresh = hist.fresh /\ m.lost = hist.lost /\ m.loading = hist.loading
        BY <1>2, <2>2 DEF HistPage
  <2>4. PICK b : b = Hist!Request(m, "summary", k.purpose, c, Hist!NoSnapshot)
        OBVIOUS
  <2>5. m = Hist!Applied(hist, c, k.text, FALSE)
        BY <1>1, <2>1 DEF Hist!Applied
  <2> HIDE DEF m
  <2>6. hist' = [m EXCEPT !.asked = m.asked + 1, !.loading = l]
        BY <1>0, <1>6, <2>3, <2>5 DEF Hist!CheckedOut
  <2>7. histCalls' = (histCalls \ {k}) \cup {[b EXCEPT !.was = k.was]}
        BY <1>6, <2>4, <2>5 DEF Hist!CheckedOut, Hist!Others
  <2>8. "summary" \in HistKinds
        BY DEF HistKinds
  <2>9. PICK new \in HistCall(HistTexts) :
          /\ new.kind = "summary" /\ new.id = hist.asked + 1 /\ histCalls' = (histCalls \ {k}) \cup {new}
        BY <1>5, <2>3, <2>4, <2>7, <2>8
  <2>10. hist' \in HistPage(HistTexts) /\ hist'.asked = hist.asked + 1 /\ hist'.text = texts
           /\ hist'.dirty = dirties /\ hist'.fresh = hist.fresh /\ hist'.lost = hist.lost
         BY <1>0, <1>2, <2>3, <2>6 DEF HistPage
  <2>11. /\ hist'.text = [hist.text EXCEPT ![c] = k.text] /\ hist'.dirty = [hist.dirty EXCEPT ![c] = no]
         /\ hist.fresh <= hist'.fresh /\ hist.lost \subseteq hist'.lost /\ ~no
         BY <1>1, <1>2, <2>1, <2>10
  <2> QED BY <1>3, <2>9, <2>10, <2>11, HistPoured
<1>7. CASE k.purpose = "compare"
  <2>1. PICK b : b = Hist!Request(hist, "refresh", k.purpose, c, Hist!NoSnapshot)
        OBVIOUS
  <2>2. hist' = [hist EXCEPT !.asked = hist.asked + 1, !.loading = l]
        BY <1>0, <1>7 DEF Hist!CheckedOut
  <2>3. histCalls' = (histCalls \ {k}) \cup {[b EXCEPT !.was = k.was]}
        BY <1>7, <2>1 DEF Hist!CheckedOut, Hist!Others
  <2>4. "refresh" \in HistKinds
        BY DEF HistKinds
  <2>5. PICK new \in HistCall(HistTexts) :
          /\ new.kind = "refresh" /\ new.purpose = k.purpose /\ new.chapter = c /\ new.id = hist.asked + 1
          /\ ~new.read /\ histCalls' = (histCalls \ {k}) \cup {new}
        BY <1>2, <1>5, <2>1, <2>3, <2>4
  <2>6. hist' \in HistPage(HistTexts) /\ hist'.asked = hist.asked + 1 /\ hist'.text = hist.text
          /\ hist'.dirty = hist.dirty /\ hist'.fresh = hist.fresh /\ hist'.lost = hist.lost
        BY <1>0, <1>2, <2>2 DEF HistPage
  <2>7. HistFit(new) /\ (histCalls \ {k}) \in SUBSET histCalls /\ hist.fresh <= hist'.fresh
        BY <1>2, <1>7, <2>5, <2>6 DEF HistFit
  <2>8. HistTyped' /\ HistCalled' /\ \A e \in histCalls : e # new
        BY <1>2, <1>3, <2>5, <2>6, <2>7, HistSound DEF HistTyped
  <2>9. ASSUME NEW d \in HistChapters, d \notin hist'.lost PROVE HistSafe(d)'
    <3>1. HistSafe(d)
          BY <2>6, <2>9 DEF HistInv
    <3>2. HistPouring(k, d) <=> HistPouring(new, d)
          BY <1>3, <2>5 DEF HistPouring
    <3>3. HistPours(d) => HistPours(d)'
          BY <2>5, <3>2 DEF HistPours
    <3>4. HistClean(d)'
          BY <1>3, <2>6, <3>1, <3>3 DEF HistSafe, HistClean
    <3>5. ASSUME NEW e \in histCalls \ {k}
          PROVE  /\ HistOne(e, d)' /\ (HistAsks(e, d) => HistAsked(e, d)')
                 /\ HistBack(e, d) => HistKeeps(e, d)'
      <4>1. HistOne(e, d) /\ (HistAsks(e, d) => HistAsked(e, d)) /\ (HistBack(e, d) => HistKeeps(e, d)) /\ e # new
            BY <2>8, <3>1 DEF HistSafe
      <4>2. HistOne(e, d)' /\ (HistAsks(e, d) => HistAsked(e, d)')
            BY <1>3, <2>6, <3>3, <4>1 DEF HistOne, HistPouring, HistAsked, HistAnswers
      <4>3. (\E f \in histCalls : f # e /\ HistPouring(f, d)) => (\E f \in histCalls' : f # e /\ HistPouring(f, d))
            BY <2>5, <3>2, <4>1
      <4>4. HistBack(e, d) => HistKeeps(e, d)'
            BY <1>3, <2>6, <4>1, <4>3 DEF HistKeeps, HistPouring
      <4> QED BY <4>2, <4>4
    <3>6. HistOne(k, d)
          BY <3>1 DEF HistSafe
    <3>7. HistOne(new, d)'
          BY <1>3, <2>5, <3>2, <3>6 DEF HistOne, HistPouring
    <3>8. ~HistAsks(new, d) /\ ~HistBack(new, d)
          BY <2>5 DEF HistAsks, HistBack
    <3> QED BY <2>5, <3>4, <3>5, <3>7, <3>8 DEF HistSafe, HistAsks, HistBack
  <2> QED BY <2>8, <2>9 DEF HistInv
<1> QED BY <1>4, <1>6, <1>7

-----------------------------------------------------------------------------
(* A step pours a text into the tab of a chapter, or no text changes.      *)
HistPourings ==
  \/ \E t \in {0, hist.fresh + 1} : Hist!Type(t)
  \/ \E s \in Hist!Shown \cup {hist.snap} : Hist!RestoreSnapshot(s)
  \/ \E k \in histCalls : (Hist!CurrentAnswered(k) /\ k.purpose = "restore") \/ Hist!CheckedOut(k) \/ Hist!Refreshed(k)

LEMMA HistGoes == ASSUME HistInv, Hist!Next PROVE HistGoesOn \/ HistPourings
<1>1. ASSUME NEW c \in Hist!Chapters, Hist!Activate(c) \/ Hist!Save(c) PROVE HistGoesOn
  <2>1. c \in HistChapters
        BY DEF Hist!Chapters, HistChapters
  <2> QED BY <1>1, <2>1, HistActivates, HistWrites
<1>2. ASSUME NEW t \in {Hist!Blank, hist.fresh + 1}, Hist!Type(t) PROVE HistPourings
      BY <1>2 DEF HistPourings, Hist!Blank
<1>3. ASSUME NEW i \in 1..Hist!ManualSlots, Hist!ConfirmReplace(i) \/ Hist!RemoveSnapshot(i) PROVE HistGoesOn
      BY <1>3, HistReplaces, HistRemoves
<1>4. ASSUME NEW s \in Hist!Shown \cup {hist.snap}, Hist!RestoreSnapshot(s) \/ Hist!CompareSnapshot(s)
      PROVE  HistGoesOn \/ HistPourings
      BY <1>4, HistCompares DEF HistPourings
<1>5. ASSUME NEW k \in histCalls,
             \/ Hist!SummaryAnswered(k) \/ Hist!ServerReads(k) \/ Hist!ServerChecksOut(k) \/ Hist!CurrentAnswered(k)
             \/ Hist!CheckedOut(k) \/ Hist!Refreshed(k) \/ Hist!Fails(k)
      PROVE  HistGoesOn \/ HistPourings
      BY <1>5, HistSummary, HistReads, HistGoesBack, HistAnswered, HistFailure DEF HistPourings
<1>6. CASE \/ Hist!OpenPanel \/ Hist!ClosePanel \/ Hist!Stash \/ Hist!CancelReplace \/ Hist!Rollback
           \/ Hist!OpenCompare \/ Hist!CompareRollback
      BY <1>6, HistOpens, HistCloses, HistStashes, HistRollsBack, HistCompares, HistAsksForAll
<1> QED BY <1>1, <1>2, <1>3, <1>4, <1>5, <1>6 DEF Hist!Next

LEMMA HistStep == HistInv /\ [Hist!Next]_histAll => HistInv'
<1> SUFFICES ASSUME HistInv, [Hist!Next]_histAll PROVE HistInv'
    OBVIOUS
<1>1. CASE HistPourings
      BY <1>1, HistTypes, HistRestores, HistAnswered, HistIsBack, HistRefreshes DEF HistPourings
<1>2. CASE Hist!Next
      BY <1>1, <1>2, HistGoes DEF HistGoesOn
<1>3. CASE UNCHANGED histAll
  <2>1. HistTyped' /\ HistCalled'
        BY <1>3 DEF histAll, HistInv, HistTyped, HistCalled, HistTexts, HistFit
  <2>2. \A c : HistAlike(c)
        BY <1>3 DEF histAll, HistAlike
  <2>3. \A c \in HistChapters : c \notin hist'.lost => HistSafe(c)'
        BY <1>3, <2>2, HistQuiet DEF histAll, HistInv
  <2> QED BY <2>1, <2>3 DEF HistInv
<1> QED BY <1>2, <1>3

(* What is replaced for the only request about a chapter was kept.         *)
LEMMA HistUndone ==
  ASSUME HistInv, Hist!Next, NEW c \in HistChapters, Hist!Replaces(c),
         \A k \in Hist!Changing(c) : k.purpose # "compare"
  PROVE  histKept'[c].auto.text = hist.text[c]
<1>1. hist \in HistPage(HistTexts) /\ HistTyped /\ HistCalled /\ hist.text[c] \in HistTexts
      BY HistMiddle DEF HistInv, HistPage
<1>2. hist'.text[c] # hist.text[c] /\ c \notin hist'.lost /\ hist.text[c] # 0
        /\ \A k \in Hist!Changing(c) : k.was = hist.text[c] /\ Hist!Changing(c) = {k}
      BY DEF Hist!Replaces, Hist!Blank
<1>3. ASSUME NEW d \in HistChapters, NEW text, hist'.text = [hist.text EXCEPT ![d] = text] PROVE c = d /\ hist'.text[c] = text
      BY <1>1, <1>2, <1>3 DEF HistPage
<1>4. HistPourings
      BY <1>2, HistGoes DEF HistGoesOn
<1>5. ASSUME NEW t, Hist!Type(t) PROVE FALSE
  <2>1. histKept' = histKept /\ histCalls' = histCalls
        BY <1>5 DEF Hist!Type
  <2> QED BY <2>1 DEF Hist!Replaces, Hist!Changing
<1>6. ASSUME NEW s \in Hist!Shown \cup {hist.snap}, Hist!RestoreSnapshot(s) PROVE histKept'[c].auto.text = hist.text[c]
  <2> DEFINE d == hist.active
             a == Hist!Acted(hist)
             m == Hist!Crossing(a, d, Hist!Changing(d))
  <2>1. d \in HistChapters /\ s \in HistSnap(HistTexts) /\ hist.text[d] \in HistTexts
        BY <1>1, HistIsShown DEF HistPage
  <2>2. Hist!AtHand(d)
    <3> SUFFICES ASSUME ~Hist!AtHand(d) PROVE hist'.text = hist.text
        BY <1>2
    <3> DEFINE n == Hist!Acted([hist EXCEPT !.working = TRUE])
    <3>1. PICK yes \in BOOLEAN : yes = TRUE
          OBVIOUS
    <3> DEFINE o == [hist EXCEPT !.working = yes]
    <3>2. hist' = [Hist!Acted(o) EXCEPT !.asked = @ + 1]
          BY <1>6, <3>1 DEF Hist!RestoreSnapshot, Hist!Ask
    <3>3. o \in HistPage(HistTexts) /\ o.text = hist.text
          BY <1>1 DEF HistPage
    <3> HIDE DEF o
    <3>4. Hist!Acted(o) \in HistPage(HistTexts) /\ Hist!Acted(o).text = hist.text
          BY <3>3, HistActed DEF HistLike
    <3> QED BY <3>2, <3>4 DEF HistPage
  <2>3. Hist!Restored(m, d, s, hist.text[d])
        BY <1>6, <2>2 DEF Hist!RestoreSnapshot
  <2>4. a \in HistPage(HistTexts) /\ HistLike(a, hist)
        BY <1>1, HistActed
  <2> HIDE DEF a, d
  <2>5. m \in HistPage(HistTexts) /\ m.text = hist.text /\ m.dirty = hist.dirty /\ m.fresh = hist.fresh
        BY <2>1, <2>4, HistCrosses DEF HistLike
  <2> HIDE DEF m
  <2>6. /\ hist'.text = [hist.text EXCEPT ![d] = s.text]
        /\ d \notin hist'.lost /\ hist.text[d] # s.text /\ hist.text[d] # 0 => histKept'[d].auto.text = hist.text[d]
        BY <2>1, <2>3, <2>5, HistRestored
  <2> QED BY <1>2, <1>3, <2>1, <2>6
<1>7. ASSUME NEW k \in histCalls, Hist!CurrentAnswered(k), k.purpose = "restore"
      PROVE  histKept'[c].auto.text = hist.text[c]
  <2> DEFINE d == k.chapter
             m == Hist!Crossing(hist, d, Hist!Changing(d) \ {k})
  <2>1. d \in HistChapters /\ k.snap \in HistSnap(HistTexts) /\ k.text \in HistTexts
        BY <1>1 DEF HistTyped, HistCall
  <2>2. Hist!Restored(m, d, k.snap, k.text) /\ k.kind = "current" /\ k.read
        BY <1>7 DEF Hist!CurrentAnswered
  <2>3. k \in Hist!Changing(d)
        BY <1>7 DEF Hist!Changing
  <2> HIDE DEF d
  <2>4. m \in HistPage(HistTexts) /\ m.text = hist.text /\ m.dirty = hist.dirty /\ m.fresh = hist.fresh
          /\ hist.lost \subseteq m.lost
        BY <1>1, <2>1, HistCrosses
  <2> HIDE DEF m
  <2>5. /\ hist'.text = [hist.text EXCEPT ![d] = k.snap.text] /\ m.lost \subseteq hist'.lost
        /\ d \notin hist'.lost /\ k.text # k.snap.text /\ k.text # 0 => histKept'[d].auto.text = k.text
        BY <2>1, <2>2, <2>4, HistRestored
  <2>6. d = c /\ hist'.text[c] = k.snap.text
        BY <1>3, <2>1, <2>5
  <2>7. k.was = hist.text[c] /\ Hist!Changing(c) = {k}
        BY <1>2, <2>3, <2>6
  <2>8. HistAsked(k, c)
    <3>1. HistSafe(c)
          BY <1>2, <2>4, <2>5, <2>6 DEF HistInv
    <3>2. HistAsks(k, c)
          BY <1>2, <1>7, <2>2, <2>6, <2>7 DEF HistAsks, d
    <3> QED BY <3>1, <3>2 DEF HistSafe
  <2>9. ~HistPours(c)
    <3>1. \A l \in histCalls : HistPouring(l, c) => l \in Hist!Changing(c)
          BY HistChanging DEF HistMatters
    <3> QED BY <2>2, <2>7, <3>1 DEF HistPours, HistPouring
  <2>10. k.text = hist.text[c]
         BY <2>2, <2>7, <2>8, <2>9 DEF HistAsked, HistAnswers
  <2> QED BY <1>2, <2>5, <2>6, <2>10
<1>8. ASSUME NEW k \in histCalls, Hist!CheckedOut(k) PROVE histKept'[c].auto.text = hist.text[c]
  <2>1. k.kind = "checkout" /\ k.read /\ histKept' = histKept
        BY <1>8 DEF Hist!CheckedOut
  <2>2. k.chapter \in HistChapters /\ k.purpose \in {"rollback", "compare"}
        BY <1>1, <2>1 DEF HistTyped, HistCall, HistCalled, HistFit
  <2>3. CASE k.purpose = "compare"
    <3>1. PICK l \in BOOLEAN : l = (hist.loading \/ k.purpose = "rollback")
          OBVIOUS
    <3>2. hist' = [hist EXCEPT !.asked = hist.asked + 1, !.loading = l]
          BY <1>8, <2>3, <3>1 DEF Hist!CheckedOut
    <3>3. hist'.text = hist.text
          BY <1>1, <3>2 DEF HistPage
    <3> QED BY <1>2, <3>3
  <2>4. CASE k.purpose = "rollback"
    <3>1. PICK no \in BOOLEAN : no = FALSE
          OBVIOUS
    <3>2. PICK texts, dirties : texts = [hist.text EXCEPT ![k.chapter] = k.text]
                                  /\ dirties = [hist.dirty EXCEPT ![k.chapter] = no]
          OBVIOUS
    <3> DEFINE n == [hist EXCEPT !.text = texts, !.dirty = dirties]
    <3>3. n = Hist!Applied(hist, k.chapter, k.text, FALSE)
          BY <3>1, <3>2 DEF Hist!Applied
    <3>4. DOMAIN n = DOMAIN hist /\ n.text = texts /\ n.lost = hist.lost
          BY <1>1 DEF HistPage
    <3> HIDE DEF n
    <3>5. hist' = [n EXCEPT !.asked = @ + 1, !.loading = @ \/ k.purpose = "rollback"]
          BY <1>8, <2>4, <3>3 DEF Hist!CheckedOut
    <3>6. hist'.text = texts /\ hist'.lost = hist.lost
          BY <3>4, <3>5
    <3>7. k.chapter = c /\ hist'.text[c] = k.text
          BY <1>3, <2>2, <3>2, <3>6
    <3>8. k \in Hist!Changing(c)
          BY <2>4, <3>7 DEF Hist!Changing
    <3>9. k.was = hist.text[c] /\ Hist!Changing(c) = {k}
          BY <1>2, <3>8
    <3>10. HistSafe(c)
           BY <1>2, <3>6 DEF HistInv
    <3>11. k.text = histServer.published[c]
           BY <2>1, <3>7, <3>10 DEF HistSafe, HistOne, HistPouring
    <3>12. HistKeeps(k, c)
           BY <2>1, <2>4, <3>7, <3>10 DEF HistSafe, HistBack
    <3>13. \A l \in histCalls : HistPouring(l, c) => l = k
      <4>1. \A l \in histCalls : HistPouring(l, c) => l \in Hist!Changing(c)
            BY HistChanging DEF HistMatters
      <4> QED BY <3>9, <4>1
    <3> QED BY <1>2, <2>1, <3>7, <3>9, <3>11, <3>12, <3>13 DEF HistKeeps
  <2> QED BY <2>2, <2>3, <2>4
<1>9. ASSUME NEW k \in histCalls, Hist!Refreshed(k) PROVE FALSE
  <2> DEFINE d == k.chapter
  <2>1. k.kind = "refresh" /\ k.purpose = "compare" /\ d \in HistChapters
        BY <1>1, <1>9 DEF Hist!Refreshed, HistCalled, HistFit, HistTyped, HistCall
  <2>2. PICK no \in BOOLEAN : no = FALSE
        OBVIOUS
  <2>3. PICK texts, dirties : texts = [hist.text EXCEPT ![d] = k.text] /\ dirties = [hist.dirty EXCEPT ![d] = no]
        OBVIOUS
  <2> DEFINE m == [hist EXCEPT !.text = texts, !.dirty = dirties, !.compare = no]
  <2>4. Hist!Reload(m, k)
        BY <1>9, <2>2, <2>3 DEF Hist!Refreshed, Hist!Applied
  <2>5. DOMAIN m = DOMAIN hist /\ m.text = texts
        BY <1>1 DEF HistPage
  <2> HIDE DEF m
  <2>6. hist'.text = texts
        BY <1>1, <2>4, <2>5 DEF Hist!Reload, HistPage
  <2>7. d = c
        BY <1>3, <2>1, <2>3, <2>6
  <2>8. k \in Hist!Changing(c)
        BY <2>1, <2>7 DEF Hist!Changing
  <2> QED BY <2>1, <2>8
<1> QED BY <1>4, <1>5, <1>6, <1>7, <1>8, <1>9 DEF HistPourings

(* A text that stood in the tab when the panel was asked for a rollback or *)
(* a snapshot, and that is still there when the answer takes its place, is *)
(* in the automatic slot of its chapter, whatever number of snapshots,     *)
(* saves, rollbacks, comparisons and failures came before and come between *)
(* (HistoryPanel:193,218).  Nothing is said of the comparison's own        *)
(* rollback, nor of text typed while the answer was out.                   *)
THEOREM RollbacksCanBeUndone == HistMaxEvents \in Nat => (Hist!Spec => Hist!UndoIsKept)
<1> SUFFICES ASSUME HistMaxEvents \in Nat PROVE Hist!Spec => Hist!UndoIsKept
    OBVIOUS
<1>1. HistInv /\ [Hist!Next]_histAll =>
        [\A c \in Hist!Chapters :
           Hist!Replaces(c) /\ (\A k \in Hist!Changing(c) : k.purpose # "compare")
             => histKept'[c].auto.text = hist.text[c]]_histAll
  <2>1. Hist!Chapters = HistChapters
        BY DEF Hist!Chapters, HistChapters
  <2> QED BY <2>1, HistUndone
<1> QED BY <1>1, HistStarts, HistStep, PTL DEF Hist!Spec, Hist!UndoIsKept, Hist!histVars, histAll

(* Together: the text that stood in the tab when a restore of the novel, a *)
(* rollback of the history panel or a snapshot was asked for can be        *)
(* brought back once it is replaced, for any number of events of either    *)
(* panel; with the exceptions the two parts name.                          *)
THEOREM ReplacedTextCanBeBroughtBack ==
  HistMaxEvents \in Nat /\ MileMaxEvents \in Nat => (Hist!Spec /\ Mile!Spec => TextCanBeBroughtBack)
<1> SUFFICES ASSUME HistMaxEvents \in Nat, MileMaxEvents \in Nat PROVE Hist!Spec /\ Mile!Spec => TextCanBeBroughtBack
    OBVIOUS
<1> QED BY RollbacksCanBeUndone, RestoresCanBeUndone DEF TextCanBeBroughtBack
===============================================================================
