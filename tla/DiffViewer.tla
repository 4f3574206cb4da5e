----------------------------- MODULE DiffViewer -----------------------------
(***************************************************************************)
(* The comparison of two texts side by side (DiffViewer), used for the     *)
(* rewriting by the AI and for versions: lines are aligned along a longest *)
(* common subsequence, what lies between is paired line by line, and in a  *)
(* pair the common beginning and end are told from the changed middle.     *)
(* A text is a sequence of lines, a line a sequence of letters.  Beside it *)
(* stand the two panels whose versions are compared and poured into the    *)
(* tab, those of a chapter and those of a novel.                           *)
(***************************************************************************)
EXTENDS Naturals, Sequences, SequencesExt, FiniteSetsExt

CONSTANTS Lines,        \* the lines of the texts that are compared
          MaxLines,     \* bound: lines of a text
          CellLimit,    \* m * n above which nothing is aligned (4,000,000)
          TokenLimit,   \* letters of two lines above which no middle is sought (TOKEN_LIMIT)
          HistMaxEvents, MileMaxEvents  \* bounds: events of the two panels

VARIABLES diff, hist, histKept, histServer, histCalls, mile, mileServer, mileCalls

diffVars == <<diff>>

Hist == INSTANCE VersionPanel WITH MaxEvents <- HistMaxEvents
Mile == INSTANCE Milestones WITH MaxEvents <- MileMaxEvents

Compared == UNION {[1..n -> Lines] : n \in 1..MaxLines}
Void == [num |-> 0, tokens |-> <<>>]
Token(s, changed) == [text |-> s, changed |-> changed]
Some(s, changed) == IF s = <<>> THEN <<>> ELSE <<Token(s, changed)>>
Side(tokens) == [num |-> 1, tokens |-> tokens]

(* how many lines two texts have in common, in order                       *)
Common(a, b) ==
  LET dp[i \in 0..Len(a), j \in 0..Len(b)] ==
        IF i = 0 \/ j = 0 THEN 0
        ELSE IF a[i] = b[j] THEN dp[i - 1, j - 1] + 1 ELSE Max({dp[i - 1, j], dp[i, j - 1]})
  IN dp

Ops(a, b) ==
  LET dp == Common(a, b)
      ops[i \in 0..Len(a), j \in 0..Len(b)] ==
        IF i = 0 /\ j = 0 THEN <<>>
        ELSE IF i > 0 /\ j > 0 /\ a[i] = b[j] THEN Append(ops[i - 1, j - 1], [op |-> "eq", line |-> a[i]])
        ELSE IF j > 0 /\ (i = 0 \/ dp[i, j - 1] >= dp[i - 1, j])
               THEN Append(ops[i, j - 1], [op |-> "ins", line |-> b[j]])
               ELSE Append(ops[i - 1, j], [op |-> "del", line |-> a[i]])
  IN ops[Len(a), Len(b)]

(* a pair of lines: their common beginning, then their common end          *)
TokenDiff(a, b) ==
  LET start == Max({k \in 0..Min({Len(a), Len(b)}) : SubSeq(a, 1, k) = SubSeq(b, 1, k)})
      rest  == Min({Len(a), Len(b)}) - start
      tail  == Max({k \in 0..rest : SubSeq(a, Len(a) - k + 1, Len(a)) = SubSeq(b, Len(b) - k + 1, Len(b))})
      split(s) == Some(SubSeq(s, 1, start), FALSE) \o <<Token(SubSeq(s, start + 1, Len(s) - tail), TRUE)>>
                    \o Some(SubSeq(s, Len(s) - tail + 1, Len(s)), FALSE)
  IN IF a = b THEN [left |-> <<Token(a, FALSE)>>, right |-> <<Token(b, FALSE)>>]
     ELSE IF Len(a) + Len(b) > TokenLimit THEN [left |-> <<Token(a, TRUE)>>, right |-> <<Token(b, TRUE)>>]
     ELSE [left |-> split(a), right |-> split(b)]

Deleted(l)  == [kind |-> "delete", left |-> Side(<<Token(l, FALSE)>>), right |-> Void]
Inserted(l) == [kind |-> "insert", left |-> Void, right |-> Side(<<Token(l, FALSE)>>)]
Equal(l)    == [kind |-> "equal", left |-> Side(<<Token(l, FALSE)>>), right |-> Side(<<Token(l, FALSE)>>)]
Modified(l, r) == LET t == TokenDiff(l, r) IN [kind |-> "modified", left |-> Side(t.left), right |-> Side(t.right)]

(* mutant: what has no counterpart is dropped                              *)
PairedOnly(dels, ins) == [p \in 1..Min({Len(dels), Len(ins)}) |-> Modified(dels[p], ins[p])]

(* what was deleted and inserted between two common lines, in pairs        *)
Paired(dels, ins) ==
  [p \in 1..Max({Len(dels), Len(ins)}) |->
     IF p > Len(ins) THEN Deleted(dels[p]) ELSE IF p > Len(dels) THEN Inserted(ins[p]) ELSE Modified(dels[p], ins[p])]

Grouped(ops) ==
  LET step(s, o) ==
        CASE o.op = "del" -> [s EXCEPT !.dels = Append(@, o.line)]
          [] o.op = "ins" -> [s EXCEPT !.ins = Append(@, o.line)]
          [] OTHER -> [rows |-> s.rows \o Paired(s.dels, s.ins) \o <<Equal(o.line)>>, dels |-> <<>>, ins |-> <<>>]
      end == FoldLeft(step, [rows |-> <<>>, dels |-> <<>>, ins |-> <<>>], ops)
  IN end.rows \o Paired(end.dels, end.ins)

(* a side that is there has the next number; a void one has none           *)
Numbered(rows) ==
  LET upto(k, side(_)) == Cardinality({j \in 1..k : side(rows[j]) # Void})
      left(r)  == r.left
      right(r) == r.right
      num(side, n) == IF side = Void THEN Void ELSE [side EXCEPT !.num = n]
  IN [k \in DOMAIN rows |-> [rows[k] EXCEPT !.left = num(@, upto(k, left)), !.right = num(@, upto(k, right))]]

ComputeRows(a, b) ==
  Numbered(IF Len(a) * Len(b) > CellLimit
             THEN [i \in DOMAIN a |-> Deleted(a[i])] \o [j \in DOMAIN b |-> Inserted(b[j])]
             ELSE Grouped(Ops(a, b)))
-----------------------------------------------------------------------------
NotShown == [open |-> FALSE, original |-> <<>>, modified |-> <<>>, hideAccept |-> FALSE, rows |-> <<>>]
DiffInit == diff = NotShown

Show ==
  /\ ~diff.open
  /\ \E a, b \in Compared, hide \in BOOLEAN :
       diff' = [open |-> TRUE, original |-> a, modified |-> b, hideAccept |-> hide, rows |-> ComputeRows(a, b)]

(* Accept (unless hidden), Reject and Escape all close it                  *)
Accept == diff.open /\ ~diff.hideAccept /\ diff' = NotShown
Reject == diff.open /\ diff' = NotShown

DiffNext == Show \/ Accept \/ Reject
DiffSpec == DiffInit /\ [][DiffNext]_diffVars
-----------------------------------------------------------------------------
Words(tokens) == FlattenSeq([k \in DOMAIN tokens |-> tokens[k].text])
ReadBack(sides) == [k \in DOMAIN sides |-> Words(sides[k].tokens)]
LeftSide  == SelectSeq([k \in DOMAIN diff.rows |-> diff.rows[k].left], LAMBDA s : s # Void)
RightSide == SelectSeq([k \in DOMAIN diff.rows |-> diff.rows[k].right], LAMBDA s : s # Void)

(* The longest common subsequence, by trying every subset of the lines     *)
LongestCommon(a, b) ==
  Max({Cardinality(S) : S \in {T \in SUBSET DOMAIN a :
         LET s == [k \in 1..Cardinality(T) |-> a[CHOOSE i \in T : Cardinality({j \in T : j <= i}) = k]]
         IN \E U \in SUBSET DOMAIN b :
              s = [k \in 1..Cardinality(U) |-> b[CHOOSE i \in U : Cardinality({j \in U : j <= i}) = k]]}})

(* What the author compares is what there is (computeRows): read down, the *)
(* left column is the original and the right one the modified text, each   *)
(* line once, numbered from 1; what is not marked as changed in a row is   *)
(* on both sides; and as many lines as can be are aligned.                 *)
DiffIsFaithful ==
  diff.open =>
    /\ ReadBack(LeftSide) = diff.original /\ ReadBack(RightSide) = diff.modified
    /\ \A k \in DOMAIN LeftSide : LeftSide[k].num = k
    /\ \A k \in DOMAIN RightSide : RightSide[k].num = k
    /\ \A k \in DOMAIN diff.rows :
         LET r == diff.rows[k]
             kept(tokens) == SelectSeq(tokens, LAMBDA t : ~t.changed)
         IN r.left # Void /\ r.right # Void => kept(r.left.tokens) = kept(r.right.tokens)
    /\ Len(diff.original) * Len(diff.modified) <= CellLimit =>
         Cardinality({k \in DOMAIN diff.rows : diff.rows[k].kind = "equal"})
           = LongestCommon(diff.original, diff.modified)

(* A text that stood in the tab when a snapshot, a rollback of the history *)
(* panel or a restore of the novel was asked for, and that it takes the    *)
(* place of, can be brought back: from the automatic slot of its chapter   *)
(* (HistoryPanel) or from a version of its novel (NovelVersionPanel).      *)
(* Left out, each by its name in the two parts: text typed while the       *)
(* answer was out, and the comparison's rollback (RollbackKeepsTheDraft).  *)
TextCanBeBroughtBack == Hist!UndoIsKept /\ Mile!RestoreIsUndoable
=============================================================================
