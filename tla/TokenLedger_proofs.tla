------------------------ MODULE TokenLedger_proofs ------------------------
(***************************************************************************)
(* Proofs about TokenLedger for every set of calls, every set of amounts   *)
(* and every retry bound.  The inductive invariant adds to the types that  *)
(* a call about to commit has either been overtaken or still sees the very *)
(* row that is stored; the version guard of Commit then excludes the first *)
(* case.                                                                   *)
(***************************************************************************)
EXTENDS TokenLedger, TLAPS

SeenIsCurrent(o) ==
  call[o].pc = "commit" =>
    /\ acct.open
    /\ call[o].seen.version <= acct.version
    /\ call[o].seen.version = acct.version => call[o].seen = acct
    /\ call[o].kind = "consume" => FromPaid(call[o]) <= call[o].seen.balance

LInv == TypeOK /\ \A o \in Ops : SeenIsCurrent(o)

(* The split of a Consume: the gift part is covered by the gift, and the   *)
(* two parts add up.                                                       *)
LEMMA Split ==
  ASSUME NEW c \in Call
  PROVE  /\ FromGift(c) \in Nat
         /\ FromPaid(c) \in Nat
         /\ FromGift(c) <= c.seen.gift
         /\ FromGift(c) + FromPaid(c) = c.units
         /\ c.units \in Nat \ {0}
<1>1. c.units \in Nat \ {0} /\ c.at \in Nat /\ c.seen \in Account
  BY UnitsAssumption DEF Call
<1>2. c.seen.gift \in Nat /\ c.seen.giftUntil \in Nat
  BY <1>1 DEF Account
<1>3. UsableGift(c.seen, c.at) \in {0, c.seen.gift}
  BY DEF UsableGift
<1>4. /\ FromGift(c) \in Nat
      /\ FromGift(c) <= c.seen.gift
      /\ FromGift(c) <= c.units
  BY <1>1, <1>2, <1>3 DEF FromGift, Least
<1> QED
  BY <1>1, <1>4 DEF FromPaid

(* What a commit does to the row, given the row the call has seen.         *)
LEMMA WrittenRow ==
  ASSUME TypeOK, NEW o \in Ops, SeenIsCurrent(o),
         call[o].pc = "commit", VersionMatches(call[o])
  PROVE  /\ Written(call[o]) \in Account
         /\ Written(call[o]).open = acct.open
         /\ Written(call[o]).version = acct.version + 1
         /\ BalanceAfter(call[o]) \in Int
         /\ Written(call[o]).balance + Written(call[o]).gift
              = acct.balance + acct.gift
                + (IF call[o].kind = "consume" THEN 0 - call[o].units
                                               ELSE call[o].units)
<1> DEFINE c == call[o]
           w == Written(c)
<1>1. c \in Call /\ acct \in Account
  BY DEF TypeOK
<1>2. c.seen = acct
  BY <1>1 DEF SeenIsCurrent, VersionMatches
<1>3. /\ FromGift(c) \in Nat /\ FromPaid(c) \in Nat
      /\ FromGift(c) <= acct.gift
      /\ FromGift(c) + FromPaid(c) = c.units
      /\ c.units \in Nat
  BY <1>1, <1>2, Split
<1>4. /\ acct.open \in BOOLEAN /\ acct.balance \in Nat /\ acct.gift \in Nat
      /\ acct.giftUntil \in Nat /\ acct.recharged \in Nat
      /\ acct.consumed \in Nat /\ acct.version \in Nat
      /\ acct = [open |-> acct.open, balance |-> acct.balance,
                 gift |-> acct.gift, giftUntil |-> acct.giftUntil,
                 recharged |-> acct.recharged, consumed |-> acct.consumed,
                 version |-> acct.version]
  BY <1>1 DEF Account
<1>5. CASE c.kind = "consume"
  <2>1. FromPaid(c) <= acct.balance
    BY <1>2, <1>5 DEF SeenIsCurrent
  <2>2. w = [open |-> acct.open, balance |-> acct.balance - FromPaid(c),
             gift |-> acct.gift - FromGift(c), giftUntil |-> acct.giftUntil,
             recharged |-> acct.recharged, consumed |-> acct.consumed + c.units,
             version |-> acct.version + 1]
    BY <1>4, <1>5 DEF Written
  <2>3. BalanceAfter(c) = (acct.balance - FromPaid(c)) + (acct.gift - FromGift(c))
    BY <1>2, <1>5 DEF BalanceAfter
  <2> HIDE DEF w, c
  <2>4. w \in Account
    BY <1>3, <1>4, <2>1, <2>2 DEF Account
  <2> QED
    BY <1>3, <1>4, <1>5, <2>2, <2>3, <2>4 DEF w, c
<1>6. CASE c.kind = "grant"
  <2>1. c.at + GiftValid \in Nat
    BY <1>1, TimeAssumption DEF Call
  <2>2. w = [open |-> acct.open, balance |-> acct.balance,
             gift |-> acct.gift + c.units, giftUntil |-> c.at + GiftValid,
             recharged |-> acct.recharged, consumed |-> acct.consumed,
             version |-> acct.version + 1]
    BY <1>4, <1>6 DEF Written
  <2>3. BalanceAfter(c) = acct.balance + acct.gift + c.units
    BY <1>2, <1>6 DEF BalanceAfter
  <2> HIDE DEF w, c
  <2>4. w \in Account
    BY <1>3, <1>4, <2>1, <2>2 DEF Account
  <2> QED
    BY <1>3, <1>4, <1>6, <2>2, <2>3, <2>4 DEF w, c
<1>7. CASE c.kind \in {"credit", "recharge"}
  <2>1. UsableGift(acct, c.at) \in Nat
    BY <1>4 DEF UsableGift
  <2>2. BalanceAfter(c) = acct.balance + c.units + UsableGift(acct, c.at)
    BY <1>2, <1>7 DEF BalanceAfter
  <2>3. \E r \in {0, c.units} :
          w = [open |-> acct.open, balance |-> acct.balance + c.units,
               gift |-> acct.gift, giftUntil |-> acct.giftUntil,
               recharged |-> acct.recharged + r, consumed |-> acct.consumed,
               version |-> acct.version + 1]
    <3>1. CASE c.kind = "credit"
      <4>1. w = [open |-> acct.open, balance |-> acct.balance + c.units,
               gift |-> acct.gift, giftUntil |-> acct.giftUntil,
               recharged |-> acct.recharged, consumed |-> acct.consumed,
               version |-> acct.version + 1]
        BY <1>4, <3>1 DEF Written
      <4> QED
        BY <1>4, <4>1
    <3>2. CASE c.kind = "recharge"
      BY <1>4, <3>2 DEF Written
    <3> QED
      BY <1>7, <3>1, <3>2
  <2> HIDE DEF w, c
  <2>4. w \in Account
    BY <1>3, <1>4, <2>3 DEF Account
  <2> QED
    BY <1>3, <1>4, <1>7, <2>1, <2>2, <2>3, <2>4 DEF w, c
<1> QED
  BY <1>1, <1>5, <1>6, <1>7 DEF Call, Kinds

(* What is left of a call that has ended.                                  *)
LEMMA ClosedCall ==
  ASSUME NEW c \in Call, NEW r \in Results
  PROVE  /\ Closed(c, r) \in Call
         /\ Closed(c, r).pc = "done" /\ Closed(c, r).result = r
         /\ Closed(c, r).kind = c.kind /\ Closed(c, r).units = c.units
         /\ Closed(c, r).at = c.at
<1>1. NewAccount \in Account
  BY DEF NewAccount, Account
<1> QED
  BY <1>1 DEF Closed, Call

LEMMA AppliedCall ==
  ASSUME NEW c \in Call, NEW r \in Results, NEW p \in {"record", "done"}
  PROVE  /\ Applied(c, p, r) \in Call
         /\ Applied(c, p, r).pc = p /\ Applied(c, p, r).result = r
         /\ Applied(c, p, r).kind = c.kind /\ Applied(c, p, r).units = c.units
         /\ Applied(c, p, r).at = c.at
<1>1. PICK e \in Call : /\ e = Closed(c, r) /\ e.result = r
                        /\ e.kind = c.kind /\ e.units = c.units /\ e.at = c.at
  BY ClosedCall
<1> QED
  BY <1>1 DEF Call, Applied

(* The two ends of a transaction that is committed.                        *)
Writes(o) == Commit(o) \/ CommitUnacknowledged(o)

LEMMA WritesApply ==
  ASSUME NEW o \in Ops, Writes(o)
  PROVE  \E p \in {"record", "done"}, r \in {"ok", "error"} : Apply(o, p, r)
BY DEF Writes, Commit, CommitUnacknowledged

-----------------------------------------------------------------------------
(* Types, with the steps grouped by what they touch.                       *)
LEMMA InitLInv == Init => LInv
<1> SUFFICES ASSUME Init PROVE LInv
  OBVIOUS
<1>1. NewAccount \in Account
  BY DEF NewAccount, Account
<1>2. ASSUME NEW o \in Ops PROVE call[o] \in Call /\ call[o].pc = "idle"
  <2>1. PICK u \in Units :
          call[o] = [pc |-> "idle", kind |-> "consume", units |-> u,
                     attempt |-> 0, seen |-> NewAccount, at |-> 0,
                     result |-> "none", recorded |-> FALSE]
    BY DEF Init
  <2> QED
    BY <1>1, <2>1 DEF Call, Kinds, Results
<1>3. call \in [Ops -> Call]
  BY <1>2 DEF Init
<1> QED
  BY <1>1, <1>2, <1>3 DEF Init, LInv, TypeOK, SeenIsCurrent

(* A step that leaves the row alone keeps the other calls' view current.   *)
LEMMA OthersUndisturbed ==
  ASSUME LInv, NEW o \in Ops, NEW p \in Ops, o # p,
         acct' = acct \/ (acct' = [acct EXCEPT !.open = TRUE]),
         call' = [call EXCEPT ![o] = call'[o]]
  PROVE  SeenIsCurrent(p)'
<1>1. acct \in Account /\ call[p] \in Call /\ call'[p] = call[p]
  BY DEF LInv, TypeOK
<1>2. SeenIsCurrent(p)
  BY DEF LInv
<1>3. ASSUME call[p].pc = "commit" PROVE acct' = acct
  <2>1. acct.open
    BY <1>2, <1>3 DEF SeenIsCurrent
  <2> QED
    BY <1>1, <2>1 DEF Account
<1> QED
  BY <1>1, <1>2, <1>3 DEF SeenIsCurrent, FromPaid, FromGift

LEMMA NextLInv == LInv /\ [Next]_vars => LInv'
<1> SUFFICES ASSUME LInv, [Next]_vars PROVE LInv'
  OBVIOUS
<1>0. /\ acct \in Account /\ ledger \in Seq(Row) /\ call \in [Ops -> Call]
      /\ orders \in [Ops -> {"none", "created", "paid"}] /\ now \in Nat
      /\ usage \in Nat
      /\ \A o \in Ops : SeenIsCurrent(o) /\ call[o] \in Call
  BY DEF LInv, TypeOK
<1>1. ASSUME Balance PROVE LInv'
  <2>1. acct' \in Account
    BY <1>0, <1>1 DEF Balance, Account
  <2>2. \A o \in Ops : SeenIsCurrent(o)'
    BY <1>0, <1>1 DEF Balance, SeenIsCurrent
  <2> QED
    BY <1>0, <1>1, <2>1, <2>2 DEF Balance, LInv, TypeOK
<1>2. ASSUME Tick PROVE LInv'
  BY <1>0, <1>2 DEF Tick, LInv, TypeOK, SeenIsCurrent, FromPaid, FromGift
<1>3. ASSUME NEW o \in Ops, Invoke(o) PROVE LInv'
  <2>1. /\ call' \in [Ops -> Call]
        /\ call' = [call EXCEPT ![o] = call'[o]]
        /\ call'[o].pc \in {"read", "order"}
    <3>1. ASSUME NEW k \in Kinds, NEW pc \in {"read", "order"}, Start(o, k, pc)
          PROVE  /\ call' \in [Ops -> Call]
                 /\ call' = [call EXCEPT ![o] = call'[o]]
                 /\ call'[o].pc = pc
      <4>1. call'[o] = [call[o] EXCEPT !.pc = pc, !.kind = k, !.at = now]
        BY <1>0, <3>1 DEF Start
      <4>2. call'[o] \in Call /\ call'[o].pc = pc
        <5>1. call[o] \in Call /\ now \in Nat
          BY <1>0
        <5> QED
          BY <4>1, <5>1 DEF Call
      <4> QED
        BY <1>0, <3>1, <4>1, <4>2 DEF Start
    <3> QED
      BY <1>3, <3>1 DEF Invoke, Consume, Refund, GrantTrialGift, CreateOrder, Kinds
  <2>2. /\ acct' = acct \/ acct' = [acct EXCEPT !.open = TRUE]
        /\ acct' \in Account
    BY <1>0, <1>3 DEF Invoke, Consume, Refund, GrantTrialGift, CreateOrder, Account
  <2>3. /\ ledger' = ledger /\ now' = now /\ usage' = usage
        /\ orders' \in [Ops -> {"none", "created", "paid"}]
    BY <1>0, <1>3 DEF Invoke, Consume, Refund, GrantTrialGift, CreateOrder
  <2>4. \A p \in Ops : SeenIsCurrent(p)'
    <3> TAKE p \in Ops
    <3>1. CASE p = o
      BY <2>1, <3>1 DEF SeenIsCurrent
    <3>2. CASE p # o
      BY <2>1, <2>2, <3>2, OthersUndisturbed
    <3> QED
      BY <3>1, <3>2
  <2> QED
    BY <1>0, <2>1, <2>2, <2>3, <2>4 DEF LInv, TypeOK
<1>4. ASSUME NEW o \in Ops, \/ MarkPaid(o) \/ ReadMissing(o) \/ Conflict(o)
                              \/ Fail(o) \/ RecordUsage(o) \/ RecordFails(o)
      PROVE  LInv'
  <2>1. /\ call'[o] \in Call
        /\ call' = [call EXCEPT ![o] = call'[o]]
        /\ call'[o].pc \in {"read", "done"}
    <3>1. CASE MarkPaid(o)
      BY <1>0, <3>1 DEF MarkPaid, Call
    <3>2. CASE ReadMissing(o)
      BY <1>0, <3>2, ClosedCall DEF ReadMissing, Return, Results
    <3>3. CASE Conflict(o)
      <4>1. call[o].attempt + 1 \in Nat
        BY <1>0 DEF Call
      <4>2. /\ Closed(call[o], "busy") \in Call
            /\ Closed(call[o], "busy").pc = "done"
        BY <1>0, ClosedCall DEF Results
      <4>3. LET d == [call[o] EXCEPT !.pc = "read", !.attempt = @ + 1] IN
            d \in Call /\ d.pc = "read"
        BY <1>0, <4>1 DEF Call
      <4> QED
        BY <1>0, <3>3, <4>2, <4>3 DEF Conflict
    <3>4. CASE Fail(o)
      BY <1>0, <3>4, ClosedCall DEF Fail, Return, Results
    <3>5. CASE RecordUsage(o) \/ RecordFails(o)
      <4>1. \/ call'[o] = [call[o] EXCEPT !.pc = "done", !.recorded = TRUE]
            \/ call'[o] = [call[o] EXCEPT !.pc = "done"]
        BY <1>0, <3>5 DEF RecordUsage, RecordFails
      <4>2. call[o] \in Call
        BY <1>0
      <4>3. call'[o] \in Call /\ call'[o].pc = "done"
        BY <4>1, <4>2 DEF Call
      <4> QED
        BY <1>0, <3>5, <4>3 DEF RecordUsage, RecordFails
    <3> QED
      BY <1>4, <3>1, <3>2, <3>3, <3>4, <3>5
  <2>2. acct' = acct /\ ledger' = ledger /\ now' = now /\ usage' \in Nat
        /\ orders' \in [Ops -> {"none", "created", "paid"}]
    <3>1. RecordUsage(o) => call[o].units \in Nat
      BY <1>0, UnitsAssumption DEF Call
    <3> QED
      BY <1>0, <1>4, <3>1 DEF MarkPaid, ReadMissing, Conflict, Fail, RecordUsage, RecordFails
  <2>3. \A p \in Ops : SeenIsCurrent(p)'
    <3> TAKE p \in Ops
    <3>1. CASE p = o
      BY <2>1, <3>1 DEF SeenIsCurrent
    <3>2. CASE p # o
      BY <2>1, <2>2, <3>2, OthersUndisturbed
    <3> QED
      BY <3>1, <3>2
  <2> QED
    BY <1>0, <2>1, <2>2, <2>3 DEF LInv, TypeOK
<1>5. ASSUME NEW o \in Ops, Read(o) PROVE LInv'
  <2> DEFINE c == [call[o] EXCEPT !.seen = acct,
                     !.at = IF call[o].kind = "grant" THEN @ ELSE now]
  <2>1. /\ c \in Call /\ c.seen = acct /\ c.kind = call[o].kind
    BY <1>0 DEF Call
  <2>2. /\ call' = [call EXCEPT ![o] = call'[o]]
        /\ call'[o] = IF c.kind = "consume" /\ FromPaid(c) > acct.balance
                        THEN Closed(c, "insufficient")
                        ELSE [c EXCEPT !.pc = "commit"]
    BY <1>0, <1>5 DEF Read
  <2>3. acct' = acct /\ ledger' = ledger /\ now' = now /\ orders' = orders
        /\ usage' = usage
    BY <1>5 DEF Read
  <2>4. call'[o] \in Call
    <3>1. PICK d \in Call : d = c
      BY <2>1
    <3>2. Closed(d, "insufficient") \in Call /\ [d EXCEPT !.pc = "commit"] \in Call
      BY ClosedCall DEF Call, Results
    <3> HIDE DEF c
    <3> QED
      BY <2>2, <3>1, <3>2
  <2>5. SeenIsCurrent(o)'
    <3>1. CASE c.kind = "consume" /\ FromPaid(c) > acct.balance
      <4>1. call'[o].pc = "done"
        BY <2>1, <2>2, <3>1, ClosedCall DEF Results
      <4> QED
        BY <4>1 DEF SeenIsCurrent
    <3>2. CASE ~(c.kind = "consume" /\ FromPaid(c) > acct.balance)
      <4>1. /\ call'[o].seen = acct /\ call'[o].kind = c.kind
            /\ call'[o].at = c.at /\ call'[o].units = c.units
        BY <2>1, <2>2, <3>2 DEF Call
      <4>2. FromPaid(c) \in Nat /\ acct.balance \in Nat /\ acct.version \in Nat
        BY <1>0, <2>1, Split DEF Account
      <4>3. FromPaid(call'[o]) = FromPaid(c)
        BY <2>1, <4>1 DEF FromPaid, FromGift
      <4>4. c.kind = "consume" => FromPaid(c) <= acct.balance
        BY <3>2, <4>2
      <4>5. acct.open
        BY <1>5 DEF Read
      <4>6. FromPaid(call[o])' = FromPaid(call'[o])
        BY DEF FromPaid, FromGift
      <4> HIDE DEF c
      <4> QED
        BY <2>3, <4>1, <4>2, <4>3, <4>4, <4>5, <4>6 DEF SeenIsCurrent
    <3> QED
      BY <3>1, <3>2
  <2>6. \A p \in Ops : SeenIsCurrent(p)'
    <3> TAKE p \in Ops
    <3>1. CASE p = o
      BY <2>5, <3>1
    <3>2. CASE p # o
      BY <2>2, <2>3, <3>2, OthersUndisturbed
    <3> QED
      BY <3>1, <3>2
  <2> QED
    BY <1>0, <2>2, <2>3, <2>4, <2>6 DEF LInv, TypeOK
<1>6. ASSUME NEW o \in Ops, Writes(o) PROVE LInv'
  <2>0. PICK pc \in {"record", "done"}, res \in {"ok", "error"} : Apply(o, pc, res)
    BY <1>6, WritesApply
  <2> DEFINE r == [op |-> o, kind |-> call[o].kind, amount |-> call[o].units,
                   after |-> BalanceAfter(call[o]),
                   before |-> acct.balance + acct.gift]
  <2>1. /\ acct' \in Account /\ acct'.version = acct.version + 1
        /\ acct'.open = acct.open /\ BalanceAfter(call[o]) \in Int
    BY <1>0, <2>0, WrittenRow DEF Apply, LInv
  <2>2. call' = [call EXCEPT ![o] = call'[o]] /\ call'[o] \in Call
        /\ call'[o].pc # "commit"
    <3>1. call'[o] = Applied(call[o], pc, res)
      BY <1>0, <2>0 DEF Apply
    <3>2. call'[o] \in Call /\ call'[o].pc = pc
      BY <1>0, <3>1, AppliedCall DEF Results
    <3> QED
      BY <1>0, <2>0, <3>1, <3>2 DEF Apply
  <2>3. ledger' \in Seq(Row)
    <3>1. /\ call[o].kind \in Kinds /\ call[o].units \in Units
          /\ acct.balance \in Nat /\ acct.gift \in Nat
      BY <1>0 DEF Call, Account
    <3>2. r \in Row
      BY <2>1, <3>1 DEF Row
    <3>3. ledger' = Append(ledger, r)
      BY <2>0 DEF Apply
    <3> QED
      BY <1>0, <3>2, <3>3
  <2>4. \A p \in Ops : SeenIsCurrent(p)'
    <3> TAKE p \in Ops
    <3>1. CASE p = o
      BY <2>2, <3>1 DEF SeenIsCurrent
    <3>2. CASE p # o
      <4>1. call'[p] = call[p] /\ call[p] \in Call /\ call[p].seen.version \in Nat
            /\ acct.version \in Nat
        BY <1>0, <2>2, <3>2 DEF Call, Account
      <4>2. SeenIsCurrent(p)
        BY <1>0
      <4> QED
        BY <2>1, <4>1, <4>2 DEF SeenIsCurrent, FromPaid, FromGift
    <3> QED
      BY <3>1, <3>2
  <2> QED
    BY <1>0, <2>0, <2>1, <2>2, <2>3, <2>4 DEF Apply, LInv, TypeOK
<1>7. ASSUME UNCHANGED vars PROVE LInv'
  BY <1>0, <1>7 DEF vars, LInv, TypeOK, SeenIsCurrent, FromPaid, FromGift
<1> QED
  BY <1>1, <1>2, <1>3, <1>4, <1>5, <1>6, <1>7 DEF Next, Advance, Writes

(* The account is well typed in every reachable state; in particular no    *)
(* interleaving of debits makes balance or gift_balance negative.          *)
THEOREM TypeCorrect == Spec => []TypeOK
<1>1. Init => LInv
  BY InitLInv
<1>2. LInv /\ [Next]_vars => LInv'
  BY NextLInv
<1>3. LInv => TypeOK
  BY DEF LInv
<1> QED
  BY <1>1, <1>2, <1>3, PTL DEF Spec

-----------------------------------------------------------------------------
(* Only a commit touches the ledger or the sum of the two balances.        *)
LEMMA OnlyCommitsWrite ==
  ASSUME LInv, [Next]_vars, \A o \in Ops : ~Writes(o)
  PROVE  /\ ledger' = ledger
         /\ acct'.balance = acct.balance /\ acct'.gift = acct.gift
<1>1. acct \in Account
  BY DEF LInv, TypeOK
<1>2. ledger' = ledger /\ (acct' = acct \/ acct' = [acct EXCEPT !.open = TRUE])
  BY Zenon DEF Next, vars, Balance, Tick, Invoke, Consume, Refund, GrantTrialGift,
         CreateOrder, Advance, MarkPaid, ReadMissing, Read, Conflict, Fail,
         RecordUsage, RecordFails, Writes
<1> QED
  BY <1>1, <1>2 DEF Account

(* A commit appends the row that starts at the current sum and ends at the *)
(* new one.                                                                *)
LEMMA CommitRow ==
  ASSUME LInv, NEW o \in Ops, Writes(o)
  PROVE  \E r \in Row :
           /\ ledger' = Append(ledger, r)
           /\ r.op = o /\ r.kind = call[o].kind
           /\ r.after = BalanceAfter(call[o])
           /\ r.before = acct.balance + acct.gift
           /\ r.before + Signed(r) = acct'.balance + acct'.gift
           /\ Signed(r) \in Int
<1> DEFINE r == [op |-> o, kind |-> call[o].kind, amount |-> call[o].units,
                 after |-> BalanceAfter(call[o]),
                 before |-> acct.balance + acct.gift]
<1>1. /\ call[o] \in Call /\ acct \in Account /\ SeenIsCurrent(o)
      /\ call[o].pc = "commit" /\ VersionMatches(call[o])
      /\ acct' = Written(call[o]) /\ ledger' = Append(ledger, r)
  BY WritesApply DEF LInv, TypeOK, Apply
<1>2. /\ BalanceAfter(call[o]) \in Int
      /\ acct'.balance + acct'.gift
           = acct.balance + acct.gift
             + (IF call[o].kind = "consume" THEN 0 - call[o].units
                                            ELSE call[o].units)
  BY <1>1, WrittenRow DEF LInv
<1>3. /\ call[o].kind \in Kinds /\ call[o].units \in Units /\ call[o].units \in Nat
      /\ acct.balance \in Nat /\ acct.gift \in Nat
  BY <1>1, UnitsAssumption DEF Call, Account
<1>4. r \in Row
  BY <1>2, <1>3 DEF Row
<1>5. Signed(r) = IF call[o].kind = "consume" THEN 0 - call[o].units
                                              ELSE call[o].units
  BY DEF Signed
<1>6. /\ r.op = o /\ r.kind = call[o].kind /\ r.after = BalanceAfter(call[o])
      /\ r.before = acct.balance + acct.gift
  OBVIOUS
<1> HIDE DEF r
<1> QED
  BY <1>1, <1>2, <1>3, <1>4, <1>5, <1>6

LEMMA InitReconciles == Init => LedgerReconciles
BY DEF Init, LedgerReconciles, NewAccount

LEMMA NextReconciles ==
  LInv /\ LedgerReconciles /\ [Next]_vars => LedgerReconciles'
<1> SUFFICES ASSUME LInv, LedgerReconciles, [Next]_vars PROVE LedgerReconciles'
  OBVIOUS
<1>1. CASE \A o \in Ops : ~Writes(o)
  BY <1>1, OnlyCommitsWrite DEF LedgerReconciles, Ended
<1>2. ASSUME NEW o \in Ops, Writes(o) PROVE LedgerReconciles'
  <2>1. PICK r \in Row :
          /\ ledger' = Append(ledger, r)
          /\ r.before = acct.balance + acct.gift
          /\ r.before + Signed(r) = acct'.balance + acct'.gift
    BY <1>2, CommitRow
  <2>2. ledger \in Seq(Row) /\ Len(ledger) \in Nat
    BY DEF LInv, TypeOK
  <2>3. /\ Len(ledger') = Len(ledger) + 1
        /\ ledger'[Len(ledger) + 1] = r
        /\ \A i \in 1..Len(ledger) : ledger'[i] = ledger[i]
    BY <2>1, <2>2
  <2>5. ledger' # <<>>
    BY <2>2, <2>3
  <2>6. ASSUME NEW i \in 1..Len(ledger')
        PROVE  ledger'[i].before = IF i = 1 THEN 0 ELSE Ended(ledger'[i - 1])
    <3>1. CASE i \in 1..Len(ledger)
      <4>1. ledger[i].before = IF i = 1 THEN 0 ELSE Ended(ledger[i - 1])
        BY <3>1 DEF LedgerReconciles
      <4>2. i # 1 => i - 1 \in 1..Len(ledger)
        BY <2>2, <3>1
      <4> QED
        BY <2>3, <3>1, <4>1, <4>2
    <3>2. CASE i = Len(ledger) + 1
      <4>1. CASE Len(ledger) = 0
        BY <2>1, <2>2, <2>3, <3>2, <4>1 DEF LedgerReconciles
      <4>2. CASE Len(ledger) # 0
        <5>1. ledger # <<>> /\ Len(ledger) \in 1..Len(ledger)
          BY <2>2, <4>2
        <5>2. r.before = Ended(ledger[Len(ledger)])
          BY <2>1, <5>1 DEF LedgerReconciles
        <5> QED
          BY <2>2, <2>3, <3>2, <4>2, <5>1, <5>2
      <4> QED
        BY <4>1, <4>2
    <3> QED
      BY <2>2, <2>3, <3>1, <3>2
  <2>7. acct'.balance + acct'.gift = Ended(ledger'[Len(ledger')])
    BY <2>1, <2>3 DEF Ended
  <2> QED
    BY <2>5, <2>6, <2>7 DEF LedgerReconciles
<1> QED
  BY <1>1, <1>2

(* The statement reconciles with the account, row by row, whatever the     *)
(* number of concurrent calls and of lost races.                           *)
THEOREM Reconciliation == Spec => []LedgerReconciles
<1>1. Init => LInv /\ LedgerReconciles
  BY InitLInv, InitReconciles
<1>2. (LInv /\ LedgerReconciles) /\ [Next]_vars => (LInv /\ LedgerReconciles)'
  BY NextLInv, NextReconciles
<1> QED
  BY <1>1, <1>2, PTL DEF Spec

-----------------------------------------------------------------------------
(* balance_after is exact for debits and gifts: the version guard makes    *)
(* the row the call has read the row it changes.                           *)
LEMMA NextExact == LInv /\ StatementExact /\ [Next]_vars => StatementExact'
<1> SUFFICES ASSUME LInv, StatementExact, [Next]_vars PROVE StatementExact'
  OBVIOUS
<1>1. CASE \A o \in Ops : ~Writes(o)
  BY <1>1, OnlyCommitsWrite DEF StatementExact
<1>2. ASSUME NEW o \in Ops, Writes(o) PROVE StatementExact'
  <2>1. PICK r \in Row :
          /\ ledger' = Append(ledger, r)
          /\ r.kind = call[o].kind
          /\ r.after = BalanceAfter(call[o])
          /\ r.before + Signed(r) = acct'.balance + acct'.gift
    BY <1>2, CommitRow
  <2>2. ledger \in Seq(Row) /\ Len(ledger) \in Nat
    BY DEF LInv, TypeOK
  <2>3. r.kind \in {"consume", "grant"} => r.after = Ended(r)
    <3> DEFINE c == call[o]
    <3>1. /\ c \in Call /\ acct \in Account /\ c.seen = acct
          /\ acct' = Written(c)
      BY <1>2, WritesApply DEF LInv, TypeOK, Apply, VersionMatches, SeenIsCurrent
    <3>2. acct.balance \in Nat /\ acct.gift \in Nat /\ c.units \in Nat
      BY <3>1, Split DEF Account
    <3>3. CASE c.kind = "consume"
      <4>1. BalanceAfter(c) = (acct.balance - FromPaid(c)) + (acct.gift - FromGift(c))
        BY <3>1, <3>3 DEF BalanceAfter
      <4>2. acct'.balance = acct.balance - FromPaid(c)
            /\ acct'.gift = acct.gift - FromGift(c)
        BY <3>1, <3>3 DEF Written, Account
      <4> QED
        BY <2>1, <4>1, <4>2 DEF Ended
    <3>4. CASE c.kind = "grant"
      <4>1. BalanceAfter(c) = acct.balance + acct.gift + c.units
        BY <3>1, <3>4 DEF BalanceAfter
      <4>2. acct'.balance = acct.balance /\ acct'.gift = acct.gift + c.units
        BY <3>1, <3>4 DEF Written, Account
      <4> QED
        BY <2>1, <3>2, <4>1, <4>2 DEF Ended
    <3> QED
      BY <2>1, <3>3, <3>4
  <2>4. /\ Len(ledger') = Len(ledger) + 1
        /\ ledger'[Len(ledger) + 1] = r
        /\ \A i \in 1..Len(ledger) : ledger'[i] = ledger[i]
    BY <2>1, <2>2
  <2>5. \A i \in 1..Len(ledger') : i \in 1..Len(ledger) \/ i = Len(ledger) + 1
    BY <2>2, <2>4
  <2> QED
    BY <2>3, <2>4, <2>5 DEF StatementExact
<1> QED
  BY <1>1, <1>2

THEOREM ExactStatement == Spec => []StatementExact
<1>1. Init => LInv /\ StatementExact
  BY InitLInv DEF Init, StatementExact
<1>2. (LInv /\ StatementExact) /\ [Next]_vars => (LInv /\ StatementExact)'
  BY NextLInv, NextExact
<1> QED
  BY <1>1, <1>2, PTL DEF Spec

-----------------------------------------------------------------------------
(* A call that has not returned has no result yet.                         *)
Over(c) == c.pc \in {"record", "done"}

Unanswered == \A o \in Ops : ~Over(call[o]) => call[o].result = "none"

LEMMA NextOneRow ==
  LInv /\ Unanswered /\ OneRowPerSuccess /\ [Next]_vars
    => Unanswered' /\ OneRowPerSuccess'
<1> SUFFICES ASSUME LInv, Unanswered, OneRowPerSuccess, [Next]_vars
             PROVE  Unanswered' /\ OneRowPerSuccess'
  OBVIOUS
<1> USE DEF Over
<1>1. /\ call \in [Ops -> Call] /\ \A o \in Ops : call[o] \in Call
      /\ ledger \in Seq(Row) /\ Len(ledger) \in Nat
  BY DEF LInv, TypeOK
<1>2. CASE \A o \in Ops : ~Writes(o)
  <2>1. ledger' = ledger
    BY <1>2, OnlyCommitsWrite
  <2>2. ASSUME NEW o \in Ops
        PROVE  /\ ~Over(call'[o]) => call'[o].result = "none"
               /\ call'[o].result = "ok" => call[o].result = "ok"
               /\ call[o].result \in {"ok", "error"} => call'[o].result = call[o].result
    <3>0. call[o] \in Call /\ (~Over(call[o]) => call[o].result = "none")
      BY <1>1 DEF Unanswered
    <3>1. CASE call'[o] = call[o]
      BY <3>0, <3>1
    <3>2. ASSUME NEW q \in Ops, Invoke(q) \/ MarkPaid(q)
          PROVE  call'[o].result = call[o].result
                 /\ (~Over(call[o]) \/ call'[o] = call[o])
      <4>1. CASE Invoke(q)
        <5>1. \E k \in Kinds, pc \in {"read", "order"} : Start(q, k, pc)
          BY <4>1 DEF Invoke, Consume, Refund, GrantTrialGift, CreateOrder, Kinds
        <5>2. PICK k \in Kinds, pc \in {"read", "order"} : Start(q, k, pc)
          BY <5>1
        <5>3. call'[o] = IF o = q THEN [call[o] EXCEPT !.pc = pc, !.kind = k, !.at = now]
                                  ELSE call[o]
          BY <1>1, <5>2 DEF Start
        <5> QED
          BY <3>0, <5>2, <5>3 DEF Call, Start
      <4>2. CASE MarkPaid(q)
        BY <1>1, <3>0, <4>2 DEF MarkPaid, Call
      <4> QED
        BY <3>2, <4>1, <4>2
    <3>3. ASSUME NEW q \in Ops, NEW res \in Results \ {"ok"}, Return(q, res),
                 ~Over(call[q])
          PROVE  \/ call'[o] = call[o]
                 \/ Over(call'[o]) /\ call'[o].result # "ok" /\ ~Over(call[o])
      <4>1. call'[o] = IF o = q THEN Closed(call[o], res) ELSE call[o]
        BY <1>1, <3>3 DEF Return
      <4> QED
        BY <3>0, <3>3, <4>1, ClosedCall
    <3>4. ASSUME NEW q \in Ops, ReadMissing(q) \/ Fail(q)
          PROVE  \E res \in Results \ {"ok"} : Return(q, res) /\ ~Over(call[q])
      BY <3>4 DEF ReadMissing, Fail, Results
    <3>5. ASSUME NEW q \in Ops, Conflict(q) \/ Read(q)
          PROVE  \/ call'[o] = call[o]
                 \/ /\ ~Over(call[o])
                    /\ \/ Over(call'[o]) /\ call'[o].result # "ok"
                       \/ ~Over(call'[o]) /\ call'[o].result = call[o].result
      <4>1. CASE o # q
        BY <1>1, <3>5, <4>1 DEF Conflict, Read
      <4>2. CASE o = q /\ Conflict(q)
        <5>1. \/ call'[o] = [call[o] EXCEPT !.pc = "read", !.attempt = @ + 1]
              \/ call'[o] = Closed(call[o], "busy")
          BY <1>1, <4>2 DEF Conflict
        <5>2. call[o].pc = "commit"
          BY <4>2 DEF Conflict
        <5>3. CASE call'[o] = Closed(call[o], "busy")
          BY <3>0, <5>2, <5>3, ClosedCall DEF Results
        <5>4. CASE call'[o] = [call[o] EXCEPT !.pc = "read", !.attempt = @ + 1]
          BY <3>0, <5>2, <5>4 DEF Call
        <5> QED
          BY <5>1, <5>3, <5>4
      <4>3. CASE o = q /\ Read(q)
        <5> DEFINE c == [call[o] EXCEPT !.seen = acct,
                           !.at = IF call[o].kind = "grant" THEN @ ELSE now]
        <5>1. \/ call'[o] = Closed(c, "insufficient")
              \/ call'[o] = [c EXCEPT !.pc = "commit"]
          BY <1>1, <4>3 DEF Read
        <5>2. call[o].pc = "read" /\ c \in Call /\ c.result = call[o].result
          <6>1. call[o].pc = "read" /\ acct \in Account /\ now \in Nat
            BY <4>3 DEF Read, LInv, TypeOK
          <6> QED
            BY <3>0, <6>1 DEF Call
        <5> HIDE DEF c
        <5>3. CASE call'[o] = Closed(c, "insufficient")
          BY <3>0, <5>2, <5>3, ClosedCall DEF Results
        <5>4. CASE call'[o] = [c EXCEPT !.pc = "commit"]
          BY <3>0, <5>2, <5>4 DEF Call
        <5> QED
          BY <5>1, <5>3, <5>4
      <4> QED
        BY <3>5, <4>1, <4>2, <4>3
    <3>6. \/ call'[o] = call[o]
          \/ \E q \in Ops : \/ Invoke(q) \/ MarkPaid(q) \/ ReadMissing(q) \/ Fail(q)
                            \/ Conflict(q) \/ Read(q)
                            \/ RecordUsage(q) \/ RecordFails(q)
      BY <1>2 DEF Next, vars, Balance, Tick, Advance, Writes
    <3>7. ASSUME NEW q \in Ops, ReadMissing(q) \/ Fail(q)
          PROVE  \/ call'[o] = call[o]
                 \/ Over(call'[o]) /\ call'[o].result # "ok" /\ ~Over(call[o])
      <4>1. PICK res \in Results \ {"ok"} : Return(q, res) /\ ~Over(call[q])
        BY <3>4, <3>7
      <4> QED
        BY <3>3, <4>1
    <3>8. ASSUME NEW q \in Ops, RecordUsage(q) \/ RecordFails(q)
          PROVE  /\ call'[o].result = call[o].result
                 /\ call'[o] = call[o] \/ Over(call'[o])
      <4>1. \/ call'[o] = call[o]
            \/ call'[o] = [call[o] EXCEPT !.pc = "done", !.recorded = TRUE]
            \/ call'[o] = [call[o] EXCEPT !.pc = "done"]
        BY <1>1, <3>8 DEF RecordUsage, RecordFails
      <4> QED
        BY <3>0, <4>1 DEF Call
    <3> QED
      <4>1. PICK q \in Ops : \/ call'[o] = call[o]
                             \/ Invoke(q) \/ MarkPaid(q) \/ ReadMissing(q) \/ Fail(q)
                             \/ Conflict(q) \/ Read(q)
                             \/ RecordUsage(q) \/ RecordFails(q)
        BY <3>6
      <4>2. CASE Invoke(q) \/ MarkPaid(q)
        BY <3>0, <3>1, <3>2, <4>2
      <4>3. CASE ReadMissing(q) \/ Fail(q)
        BY <3>0, <3>1, <3>7, <4>3
      <4>4. CASE Conflict(q) \/ Read(q)
        BY <3>0, <3>1, <3>5, <4>4
      <4>5. CASE RecordUsage(q) \/ RecordFails(q)
        BY <3>0, <3>8, <4>5
      <4> QED
        BY <3>1, <4>1, <4>2, <4>3, <4>4, <4>5
  <2> QED
    BY <2>1, <2>2 DEF Unanswered, OneRowPerSuccess
<1>3. ASSUME NEW o \in Ops, Writes(o)
      PROVE  Unanswered' /\ OneRowPerSuccess'
  <2>1. PICK r \in Row : ledger' = Append(ledger, r) /\ r.op = o
    BY <1>3, CommitRow
  <2>2. /\ Len(ledger') = Len(ledger) + 1
        /\ ledger'[Len(ledger) + 1] = r
        /\ \A i \in 1..Len(ledger) : ledger'[i] = ledger[i]
    BY <1>1, <2>1
  <2>3. /\ call[o].result = "none"
        /\ Over(call'[o]) /\ call'[o].result \in {"ok", "error"}
        /\ \A p \in Ops : p # o => call'[p] = call[p]
    <3>1. PICK pc \in {"record", "done"}, res \in {"ok", "error"} : Apply(o, pc, res)
      BY <1>3, WritesApply
    <3>2. /\ call[o].pc = "commit"
          /\ call' = [call EXCEPT ![o] = Applied(call[o], pc, res)]
      BY <3>1 DEF Apply
    <3>3. call'[o].pc = pc /\ call'[o].result = res
      <4>1. res \in Results /\ call[o] \in Call
        BY <1>1 DEF Results
      <4>2. call'[o] = Applied(call[o], pc, res)
        BY <1>1, <3>2
      <4> QED
        BY <4>1, <4>2, AppliedCall
    <3> QED
      BY <1>1, <3>2, <3>3 DEF Unanswered
  <2>4. Unanswered'
    BY <2>3 DEF Unanswered
  <2>5. ASSUME NEW p \in Ops
        PROVE  LET mine == {i \in 1..Len(ledger') : ledger'[i].op = p} IN
               /\ call'[p].result = "ok" => mine # {}
               /\ mine # {} => call'[p].result \in {"ok", "error"}
               /\ \A i, j \in mine : i = j
    <3> DEFINE old == {i \in 1..Len(ledger) : ledger[i].op = p}
               new == {i \in 1..Len(ledger') : ledger'[i].op = p}
    <3>1. /\ call[p].result = "ok" => old # {}
          /\ old # {} => call[p].result \in {"ok", "error"}
          /\ \A i, j \in old : i = j
      BY DEF OneRowPerSuccess
    <3>2. CASE p = o
      <4>1. old = {}
        BY <2>3, <3>1, <3>2
      <4>2. new = {Len(ledger) + 1}
        BY <1>1, <2>1, <2>2, <3>2, <4>1
      <4> QED
        BY <2>3, <3>2, <4>2
    <3>3. CASE p # o
      <4>1. new = old
        BY <1>1, <2>1, <2>2, <3>3
      <4> QED
        BY <2>3, <3>1, <3>3, <4>1
    <3> QED
      BY <3>2, <3>3
  <2>6. OneRowPerSuccess'
    BY <2>5 DEF OneRowPerSuccess
  <2> QED
    BY <2>4, <2>6
<1> QED
  BY <1>2, <1>3

(* A call that reports success has written its one row, a refused one has  *)
(* written none, and one that ends in an error at most one (token_repo.go, *)
(* Consume, Credit, GrantGift).                                            *)
THEOREM OneRow == Spec => []OneRowPerSuccess
<1>1. Init => LInv /\ Unanswered /\ OneRowPerSuccess
  <2> SUFFICES ASSUME Init PROVE LInv /\ Unanswered /\ OneRowPerSuccess
    OBVIOUS
  <2>1. ASSUME NEW o \in Ops PROVE call[o].result = "none"
    <3>1. PICK u \in Units :
            call[o] = [pc |-> "idle", kind |-> "consume", units |-> u,
                       attempt |-> 0, seen |-> NewAccount, at |-> 0,
                       result |-> "none", recorded |-> FALSE]
      BY DEF Init
    <3> QED
      BY <3>1
  <2>2. \A o \in Ops : call[o].result # "ok"
    BY <2>1
  <2>3. ledger = <<>> /\ Len(ledger) = 0 /\ 1..Len(ledger) = {}
    BY DEF Init
  <2>4. OneRowPerSuccess
    BY <2>2, <2>3 DEF OneRowPerSuccess
  <2> QED
    BY <2>1, <2>4, InitLInv DEF Unanswered
<1>2. (LInv /\ Unanswered /\ OneRowPerSuccess) /\ [Next]_vars
        => (LInv /\ Unanswered /\ OneRowPerSuccess)'
  BY NextLInv, NextOneRow
<1> QED
  BY <1>1, <1>2, PTL DEF Spec
-----------------------------------------------------------------------------
(***************************************************************************)
(* The optimistic transactions of TokenLedger implement the atomic wallet  *)
(* of TokenWallet, for every set of calls, every set of amounts and every  *)
(* retry bound.  A commit is the moment the wallet changes; reads, retries *)
(* and the steps on the order are stuttering, or look at the clock.        *)
(***************************************************************************)
(* Nothing is on an account whose row has not been created.                *)
EmptyUntilOpen == ~acct.open => acct.balance = 0 /\ acct.gift = 0

RInv == LInv /\ EmptyUntilOpen

LEMMA InitRInv == Init => RInv
BY InitLInv DEF Init, RInv, EmptyUntilOpen, NewAccount

LEMMA NextRInv == RInv /\ [Next]_vars => RInv'
<1> SUFFICES ASSUME RInv, [Next]_vars PROVE RInv'
  OBVIOUS
<1>1. LInv /\ LInv' /\ EmptyUntilOpen /\ acct \in Account
  BY NextLInv DEF RInv, LInv, TypeOK
<1>2. ASSUME NEW o \in Ops, Writes(o) PROVE EmptyUntilOpen'
  <2>1. acct.open /\ acct' = Written(call[o]) /\ Written(call[o]).open = acct.open
    BY <1>1, <1>2, WrittenRow, WritesApply DEF LInv, Apply, SeenIsCurrent
  <2> QED
    BY <2>1 DEF EmptyUntilOpen
<1>3. ASSUME \A o \in Ops : ~Writes(o) PROVE EmptyUntilOpen'
  <2>1. acct' = acct \/ acct' = [acct EXCEPT !.open = TRUE]
    BY Zenon, <1>3 DEF Next, vars, Balance, Tick, Invoke, Consume, Refund, GrantTrialGift,
         CreateOrder, Advance, MarkPaid, ReadMissing, Read, Conflict, Fail,
         RecordUsage, RecordFails, Writes
  <2> QED
    BY <1>1, <2>1 DEF EmptyUntilOpen, Account
<1> QED
  BY <1>1, <1>2, <1>3 DEF RInv

-----------------------------------------------------------------------------
(* The variables of the wallet after a step of the ledger.                 *)
Statement == [i \in 1..Len(ledger) |-> StatementLine(ledger[i])]
Requests  == [o \in Ops |-> Request(o)]

LEMMA StatementGrows ==
  ASSUME ledger \in Seq(Row), NEW r \in Row, ledger' = Append(ledger, r)
  PROVE  Statement' = Append(Statement, StatementLine(r))
<1>1. /\ Len(ledger') = Len(ledger) + 1 /\ Len(ledger) \in Nat
      /\ ledger'[Len(ledger) + 1] = r
      /\ \A i \in 1..Len(ledger) : ledger'[i] = ledger[i]
  OBVIOUS
<1>2. Statement' = [i \in 1..(Len(ledger) + 1) |-> StatementLine(ledger'[i])]
  BY <1>1 DEF Statement, StatementLine, Signed
<1>3. /\ Len(Statement) = Len(ledger)
      /\ Append(Statement, StatementLine(r))
           = [i \in 1..(Len(ledger) + 1) |->
                IF i = Len(ledger) + 1 THEN StatementLine(r) ELSE Statement[i]]
  BY <1>1 DEF Statement
<1>4. ASSUME NEW i \in 1..(Len(ledger) + 1)
      PROVE  StatementLine(ledger'[i])
               = IF i = Len(ledger) + 1 THEN StatementLine(r) ELSE Statement[i]
  BY <1>1 DEF Statement
<1> QED
  BY <1>2, <1>3, <1>4

(* A request as the wallet has it, and what the wallet's actions do to it. *)
Req(s, k, u, a, r) == [stage |-> s, kind |-> k, units |-> u, at |-> a, result |-> r]

Timed(q, a)       == [q EXCEPT !.at = a]
Asked(q, k, a)    == [q EXCEPT !.stage = "asked", !.kind = k, !.at = a]
Answered(q, r)    == [q EXCEPT !.stage = "done", !.result = r]
Refused(q, r, a)  == [q EXCEPT !.stage = "done", !.result = r, !.at = a]

LEMMA TimedReq ==
  ASSUME NEW s, NEW k, NEW u, NEW a, NEW r, NEW a2
  PROVE  Timed(Req(s, k, u, a, r), a2) = Req(s, k, u, a2, r)
BY Z3 DEF Req, Timed

LEMMA AnsweredReq ==
  ASSUME NEW s, NEW k, NEW u, NEW a, NEW r, NEW r2
  PROVE  Answered(Req(s, k, u, a, r), r2) = Req("done", k, u, a, r2)
<1>1. [Req(s, k, u, a, r) EXCEPT !.stage = "done"] = Req("done", k, u, a, r)
  BY Z3 DEF Req
<1>2. [Req("done", k, u, a, r) EXCEPT !.result = r2] = Req("done", k, u, a, r2)
  BY Z3 DEF Req
<1>3. Answered(Req(s, k, u, a, r), r2)
        = [[Req(s, k, u, a, r) EXCEPT !.stage = "done"] EXCEPT !.result = r2]
  BY DEF Answered
<1> QED
  BY <1>1, <1>2, <1>3

LEMMA RefusedReq ==
  ASSUME NEW s, NEW k, NEW u, NEW a, NEW r, NEW r2, NEW a2
  PROVE  Refused(Req(s, k, u, a, r), r2, a2) = Req("done", k, u, a2, r2)
<1>1. Answered(Req(s, k, u, a, r), r2) = Req("done", k, u, a, r2)
  BY AnsweredReq
<1>2. Timed(Req("done", k, u, a, r2), a2) = Req("done", k, u, a2, r2)
  BY TimedReq
<1>3. Refused(Req(s, k, u, a, r), r2, a2) = Timed(Answered(Req(s, k, u, a, r), r2), a2)
  BY DEF Refused, Timed, Answered
<1> QED
  BY <1>1, <1>2, <1>3

LEMMA AskedReq ==
  ASSUME NEW s, NEW k, NEW u, NEW a, NEW r, NEW k2, NEW a2
  PROVE  Asked(Req(s, k, u, a, r), k2, a2) = Req("asked", k2, u, a2, r)
<1>1. [Req(s, k, u, a, r) EXCEPT !.stage = "asked"] = Req("asked", k, u, a, r)
  BY Z3 DEF Req
<1>2. [Req("asked", k, u, a, r) EXCEPT !.kind = k2] = Req("asked", k2, u, a, r)
  BY Z3 DEF Req
<1>3. Timed(Req("asked", k2, u, a, r), a2) = Req("asked", k2, u, a2, r)
  BY TimedReq
<1>4. Asked(Req(s, k, u, a, r), k2, a2)
        = Timed([[Req(s, k, u, a, r) EXCEPT !.stage = "asked"] EXCEPT !.kind = k2], a2)
  BY DEF Asked, Timed
<1> QED
  BY <1>1, <1>2, <1>3, <1>4

(* What callers see of a call, by the step it is at.                       *)
LEMMA Shape ==
  ASSUME NEW o \in Ops
  PROVE  /\ call[o].pc = "idle" =>
              Request(o) = Req("idle", call[o].kind, call[o].units, call[o].at, call[o].result)
         /\ call[o].pc \in {"order", "read", "commit"} =>
              Request(o) = Req("asked", call[o].kind, call[o].units, call[o].at, call[o].result)
         /\ call[o].pc \in {"record", "done"} =>
              Request(o) = Req("done", call[o].kind, call[o].units, call[o].at, call[o].result)
<1>1. ASSUME call[o].pc = "idle"
      PROVE  Request(o) = Req("idle", call[o].kind, call[o].units, call[o].at, call[o].result)
  BY <1>1 DEF Request, Req
<1>2. ASSUME call[o].pc \in {"order", "read", "commit"}
      PROVE  Request(o) = Req("asked", call[o].kind, call[o].units, call[o].at, call[o].result)
  BY <1>2 DEF Request, Req
<1>3. ASSUME call[o].pc \in {"record", "done"}
      PROVE  Request(o) = Req("done", call[o].kind, call[o].units, call[o].at, call[o].result)
  BY <1>3 DEF Request, Req
<1> QED
  BY <1>1, <1>2, <1>3

LEMMA ShapeNext ==
  ASSUME NEW o \in Ops
  PROVE  /\ call'[o].pc \in {"order", "read", "commit"} =>
              Request(o)' = Req("asked", call'[o].kind, call'[o].units, call'[o].at, call'[o].result)
         /\ call'[o].pc \in {"record", "done"} =>
              Request(o)' = Req("done", call'[o].kind, call'[o].units, call'[o].at, call'[o].result)
<1>1. ASSUME call'[o].pc \in {"order", "read", "commit"}
      PROVE  Request(o)' = Req("asked", call'[o].kind, call'[o].units, call'[o].at, call'[o].result)
  BY <1>1 DEF Request, Req
<1>2. ASSUME call'[o].pc \in {"record", "done"}
      PROVE  Request(o)' = Req("done", call'[o].kind, call'[o].units, call'[o].at, call'[o].result)
  BY <1>2 DEF Request, Req
<1> QED
  BY <1>1, <1>2

LEMMA OneRequest ==
  ASSUME call \in [Ops -> Call], NEW o \in Ops,
         call' = [call EXCEPT ![o] = call'[o]]
  PROVE  Requests' = [Requests EXCEPT ![o] = Request(o)']
<1>1. \A p \in Ops : p # o => call'[p] = call[p]
  OBVIOUS
<1>2. \A p \in Ops : p # o => Request(p)' = Request(p)
  BY <1>1 DEF Request
<1>3. Requests' = [p \in Ops |-> Request(p)']
  BY DEF Requests
<1> QED
  BY <1>2, <1>3 DEF Requests

-----------------------------------------------------------------------------
LEMMA InitRefines == Init => Wallet!WInit
<1> SUFFICES ASSUME Init PROVE Wallet!WInit
  OBVIOUS
<1>1. /\ acct.balance = 0 /\ acct.gift = 0 /\ acct.giftUntil = 0 /\ now = 0
      /\ ledger = << >> /\ Statement = << >>
  BY DEF Init, NewAccount, Statement
<1>2. ASSUME NEW o \in Ops
      PROVE  Request(o) \in {[stage |-> "idle", kind |-> "consume", units |-> u,
                              at |-> 0, result |-> "none"] : u \in Units}
  <2>1. PICK u \in Units :
          call[o] = [pc |-> "idle", kind |-> "consume", units |-> u,
                     attempt |-> 0, seen |-> NewAccount, at |-> 0,
                     result |-> "none", recorded |-> FALSE]
    BY DEF Init
  <2> QED
    BY <2>1 DEF Request
<1> QED
  BY <1>1, <1>2 DEF Wallet!WInit, Statement

(* All but a commit and the clock leave the money and the statement alone. *)
LEMMA MoneyKept ==
  ASSUME acct \in Account, ledger' = ledger, now' = now,
         acct' = acct \/ acct' = [acct EXCEPT !.open = TRUE]
  PROVE  /\ acct'.balance = acct.balance /\ acct'.gift = acct.gift
         /\ acct'.giftUntil = acct.giftUntil
         /\ Statement' = Statement /\ now' = now
  BY DEF Account, Statement, StatementLine, Signed

LEMMA AskRefines ==
  ASSUME RInv, NEW o \in Ops, Invoke(o)
  PROVE  Wallet!Ask(o)
<1>1. call \in [Ops -> Call] /\ acct \in Account /\ call[o] \in Call
  BY DEF RInv, LInv, TypeOK
<1>2. /\ ledger' = ledger /\ now' = now
      /\ acct' = acct \/ acct' = [acct EXCEPT !.open = TRUE]
  BY DEF Invoke, Consume, Refund, GrantTrialGift, CreateOrder
<1>3. PICK k \in Kinds, pc \in {"read", "order"} : Start(o, k, pc)
  BY DEF Invoke, Consume, Refund, GrantTrialGift, CreateOrder, Kinds
<1>4. /\ call[o].pc = "idle"
      /\ call' = [call EXCEPT ![o] = call'[o]]
      /\ call'[o] = [call[o] EXCEPT !.pc = pc, !.kind = k, !.at = now]
  BY <1>1, <1>3 DEF Start
<1>5. /\ call'[o].pc = pc /\ call'[o].kind = k /\ call'[o].at = now
      /\ call'[o].units = call[o].units /\ call'[o].result = call[o].result
  BY <1>1, <1>4 DEF Call
<1>6. /\ Requests[o] = Req("idle", call[o].kind, call[o].units, call[o].at, call[o].result)
      /\ Request(o)' = Req("asked", k, call[o].units, now, call[o].result)
  BY <1>4, <1>5, Shape, ShapeNext DEF Requests
<1>7. Request(o)' = Asked(Requests[o], k, now)
  BY <1>6, AskedReq
<1>8. Requests' = [Requests EXCEPT ![o] = Request(o)']
  BY <1>1, <1>4, OneRequest
<1>9. Requests' = [Requests EXCEPT ![o].stage = "asked", ![o].kind = k, ![o].at = now]
  BY <1>7, <1>8 DEF Asked
<1>10. k \in {"consume", "credit", "grant", "recharge"} /\ Requests[o].stage = "idle"
  BY <1>3, <1>6 DEF Kinds, Req
<1>11. /\ acct'.balance = acct.balance /\ acct'.gift = acct.gift
       /\ acct'.giftUntil = acct.giftUntil /\ Statement' = Statement /\ now' = now
  BY <1>1, <1>2, MoneyKept
<1> QED
  BY <1>9, <1>10, <1>11 DEF Wallet!Ask, Requests, Statement

(* Steps that callers cannot see: the order is paid, usage is recorded, a  *)
(* lost race is retried, a grant reads the row.                            *)
Unseen(o) == \/ MarkPaid(o) \/ RecordUsage(o) \/ RecordFails(o)
             \/ Conflict(o) /\ call[o].attempt + 1 < MaxAttempts
             \/ Read(o) /\ call[o].kind = "grant"

LEMMA UnseenStutters ==
  ASSUME RInv, NEW o \in Ops, Unseen(o)
  PROVE  UNCHANGED Wallet!wvars
<1>1. call \in [Ops -> Call] /\ acct \in Account /\ call[o] \in Call
  BY DEF RInv, LInv, TypeOK
<1>2. /\ ledger' = ledger /\ now' = now /\ acct' = acct
      /\ call' = [call EXCEPT ![o] = call'[o]]
      /\ call'[o].kind = call[o].kind /\ call'[o].units = call[o].units
      /\ call'[o].at = call[o].at /\ call'[o].result = call[o].result
      /\ \/ call[o].pc = "record" /\ call'[o].pc = "done"
         \/ /\ call[o].pc \in {"order", "read", "commit"}
            /\ call'[o].pc \in {"read", "commit"}
  <2>1. CASE MarkPaid(o)
    BY <1>1, <2>1 DEF MarkPaid, Call
  <2>2. CASE RecordUsage(o) \/ RecordFails(o)
    <3>1. \/ call' = [call EXCEPT ![o] = [@ EXCEPT !.pc = "done", !.recorded = TRUE]]
          \/ call' = [call EXCEPT ![o] = [@ EXCEPT !.pc = "done"]]
      BY <2>2 DEF RecordUsage, RecordFails
    <3>2. \/ call'[o] = [call[o] EXCEPT !.pc = "done", !.recorded = TRUE]
          \/ call'[o] = [call[o] EXCEPT !.pc = "done"]
      BY <1>1, <3>1
    <3>3. call' = [call EXCEPT ![o] = call'[o]]
      BY <1>1, <3>1
    <3>4. ledger' = ledger /\ now' = now /\ acct' = acct /\ call[o].pc = "record"
      BY <2>2 DEF RecordUsage, RecordFails
    <3> QED
      BY <1>1, <3>2, <3>3, <3>4 DEF Call
  <2>3. CASE Conflict(o) /\ call[o].attempt + 1 < MaxAttempts
    BY <1>1, <2>3 DEF Conflict, Call
  <2>4. CASE Read(o) /\ call[o].kind = "grant"
    <3> DEFINE c == [call[o] EXCEPT !.seen = acct,
                                    !.at = IF call[o].kind = "grant" THEN @ ELSE now]
    <3>1. /\ ledger' = ledger /\ now' = now /\ acct' = acct /\ call[o].pc = "read"
          /\ call' = [call EXCEPT ![o] =
                        IF c.kind = "consume" /\ FromPaid(c) > acct.balance
                          THEN Closed(c, "insufficient")
                          ELSE [c EXCEPT !.pc = "commit"]]
      BY <2>4 DEF Read
    <3>2. /\ c \in Call /\ c.kind = "grant" /\ c.units = call[o].units
          /\ c.at = call[o].at /\ c.result = call[o].result
      BY <1>1, <2>4 DEF Call
    <3>3. /\ call' = [call EXCEPT ![o] = call'[o]]
          /\ call'[o] = [c EXCEPT !.pc = "commit"]
      BY <1>1, <3>1, <3>2
    <3> HIDE DEF c
    <3> QED
      BY <2>4, <3>1, <3>2, <3>3 DEF Call
  <2> QED
    BY <2>1, <2>2, <2>3, <2>4 DEF Unseen
<1>3. Request(o)' = Request(o)
  BY <1>2, Shape, ShapeNext
<1>4. Requests' = Requests
  BY <1>1, <1>2, <1>3, OneRequest DEF Requests
<1>5. Statement' = Statement
  BY <1>1, <1>2, MoneyKept
<1> QED
  BY <1>2, <1>4, <1>5 DEF Wallet!wvars, Requests, Statement

LEMMA ReadRefines ==
  ASSUME RInv, NEW o \in Ops, Read(o), call[o].kind # "grant", call'[o].pc = "commit"
  PROVE  Wallet!LookAtClock(o)
<1>1. call \in [Ops -> Call] /\ acct \in Account /\ call[o] \in Call
  BY DEF RInv, LInv, TypeOK
<1>2. /\ ledger' = ledger /\ now' = now /\ acct' = acct /\ call[o].pc = "read"
      /\ call' = [call EXCEPT ![o] = call'[o]]
  BY <1>1 DEF Read
<1>3. /\ call'[o].kind = call[o].kind /\ call'[o].units = call[o].units
      /\ call'[o].at = now /\ call'[o].result = call[o].result
  <2> DEFINE c == [call[o] EXCEPT !.seen = acct, !.at = now]
  <2>0. c \in Call
    BY <1>1 DEF Call, RInv, LInv, TypeOK
  <2>1. call'[o] = Closed(c, "insufficient")
          \/ call'[o] = [c EXCEPT !.pc = "commit"]
    BY <1>1 DEF Read
  <2>2. call'[o] # Closed(c, "insufficient")
    <3> HIDE DEF c
    <3> QED
      BY <2>0, ClosedCall DEF Results
  <2> QED
    BY <1>1, <2>1, <2>2 DEF Call
<1>4. /\ Requests[o] = Req("asked", call[o].kind, call[o].units, call[o].at, call[o].result)
      /\ Request(o)' = Req("asked", call[o].kind, call[o].units, now, call[o].result)
  BY <1>2, <1>3, Shape, ShapeNext DEF Requests
<1>5. Request(o)' = Timed(Requests[o], now) /\ Requests[o].stage = "asked"
  BY <1>4, TimedReq DEF Req
<1>6. Requests' = [Requests EXCEPT ![o].at = now]
  BY <1>1, <1>2, <1>5, OneRequest DEF Timed
<1>7. Statement' = Statement
  BY <1>1, <1>2, MoneyKept
<1> QED
  BY <1>2, <1>5, <1>6, <1>7 DEF Wallet!LookAtClock, Requests, Statement

(* A call that ends without a commit.                                      *)
GivesUp(o) == \/ Fail(o)
              \/ ReadMissing(o) /\ call[o].kind # "consume"
              \/ Conflict(o) /\ ~(call[o].attempt + 1 < MaxAttempts)

LEMMA GiveUpRefines ==
  ASSUME RInv, NEW o \in Ops, GivesUp(o)
  PROVE  Wallet!GiveUp(o)
<1>1. call \in [Ops -> Call] /\ acct \in Account /\ call[o] \in Call
  BY DEF RInv, LInv, TypeOK
<1>2. PICK r \in {"notfound", "busy", "error"} :
         /\ ledger' = ledger /\ now' = now /\ acct' = acct
         /\ call[o].pc \in {"order", "read", "commit"}
         /\ call' = [call EXCEPT ![o] = call'[o]]
         /\ call'[o] = Closed(call[o], r)
  <2>1. CASE Fail(o)
    BY <1>1, <2>1 DEF Fail, Return
  <2>2. CASE ReadMissing(o) /\ call[o].kind # "consume"
    BY <1>1, <2>2 DEF ReadMissing, Return
  <2>3. CASE Conflict(o) /\ ~(call[o].attempt + 1 < MaxAttempts)
    BY <1>1, <2>3 DEF Conflict
  <2> QED
    BY <2>1, <2>2, <2>3 DEF GivesUp
<1>3. /\ call'[o].pc = "done" /\ call'[o].kind = call[o].kind
      /\ call'[o].units = call[o].units
      /\ call'[o].at = call[o].at /\ call'[o].result = r
  BY <1>1, <1>2, ClosedCall DEF Results
<1>4. /\ Requests[o] = Req("asked", call[o].kind, call[o].units, call[o].at, call[o].result)
      /\ Request(o)' = Req("done", call[o].kind, call[o].units, call[o].at, r)
  BY <1>2, <1>3, Shape, ShapeNext DEF Requests
<1>5. Request(o)' = Answered(Requests[o], r) /\ Requests[o].stage = "asked"
  BY <1>4, AnsweredReq DEF Req
<1>6. Requests' = [Requests EXCEPT ![o].stage = "done", ![o].result = r]
  BY ZenonT(60), <1>1, <1>2, <1>5, OneRequest DEF Answered
<1>7. Statement' = Statement
  BY <1>1, <1>2, MoneyKept
<1> QED
  BY <1>2, <1>5, <1>6, <1>7 DEF Wallet!GiveUp, Requests, Statement

(* Whatever part of the gift may still be spent, the sum does not do.      *)
LEMMA CannotPay ==
  ASSUME NEW c \in Call, c.kind = "consume", FromPaid(c) > c.seen.balance
  PROVE  c.units > UsableBalance(c.seen, c.at)
<1>1. /\ c.seen.balance \in Nat /\ c.seen.gift \in Nat /\ c.units \in Nat
      /\ UsableGift(c.seen, c.at) \in Nat
  BY UnitsAssumption DEF Call, Account, UsableGift
<1> QED
  BY <1>1 DEF FromPaid, FromGift, Least, UsableBalance

(* A call that is refused for want of tokens.                              *)
IsRefused(o) == \/ ReadMissing(o) /\ call[o].kind = "consume"
                \/ Read(o) /\ call'[o].pc = "done"

LEMMA RefuseRefines ==
  ASSUME RInv, NEW o \in Ops, IsRefused(o)
  PROVE  Wallet!Refuse(o)
<1>1. call \in [Ops -> Call] /\ acct \in Account /\ call[o] \in Call /\ now \in Nat
  BY DEF RInv, LInv, TypeOK
<1>2. PICK t \in {call[o].at, now} :
         /\ call[o].kind = "consume"
         /\ call'[o].pc = "done" /\ call'[o].kind = "consume"
         /\ call'[o].units = call[o].units
         /\ call'[o].at = t /\ call'[o].result = "insufficient"
         /\ call[o].units > UsableBalance(acct, now)
  <2>1. CASE ReadMissing(o) /\ call[o].kind = "consume"
    <3>1. call'[o] = Closed(call[o], "insufficient")
      BY <1>1, <2>1 DEF ReadMissing, Return
    <3>2. acct.balance = 0 /\ acct.gift = 0
      BY <2>1 DEF ReadMissing, RInv, EmptyUntilOpen
    <3>3. call[o].units > UsableBalance(acct, now)
      <4>1. UsableBalance(acct, now) = 0
        BY <3>2 DEF UsableBalance, UsableGift
      <4>2. call[o].units \in Nat \ {0}
        BY <1>1, UnitsAssumption DEF Call
      <4> QED
        BY <4>1, <4>2
    <3> QED
      BY <1>1, <2>1, <3>1, <3>3, ClosedCall DEF Results
  <2>2. CASE Read(o) /\ call'[o].pc = "done"
    <3> DEFINE c == [call[o] EXCEPT !.seen = acct,
                                    !.at = IF call[o].kind = "grant" THEN @ ELSE now]
    <3>1. call' = [call EXCEPT ![o] =
                     IF c.kind = "consume" /\ FromPaid(c) > acct.balance
                       THEN Closed(c, "insufficient")
                       ELSE [c EXCEPT !.pc = "commit"]]
      BY <2>2 DEF Read
    <3>2. call'[o] = IF c.kind = "consume" /\ FromPaid(c) > acct.balance
                       THEN Closed(c, "insufficient")
                       ELSE [c EXCEPT !.pc = "commit"]
      BY <1>1, <3>1
    <3>3. /\ c \in Call /\ c.seen = acct /\ c.kind = call[o].kind
          /\ c.units = call[o].units
          /\ call[o].kind = "consume" => c.at = now
      BY <1>1 DEF Call
    <3>4. [c EXCEPT !.pc = "commit"].pc = "commit"
      BY <3>3 DEF Call
    <3>5. /\ c.kind = "consume" /\ FromPaid(c) > acct.balance
          /\ call'[o] = Closed(c, "insufficient")
      BY <2>2, <3>2, <3>4
    <3>6. call[o].units > UsableBalance(acct, now)
      BY <3>3, <3>5, CannotPay
    <3>7. /\ call'[o].pc = "done" /\ call'[o].kind = c.kind
          /\ call'[o].units = c.units /\ call'[o].at = c.at
          /\ call'[o].result = "insufficient"
      <4> HIDE DEF c
      <4> QED
        BY <3>3, <3>5, ClosedCall DEF Results
    <3> HIDE DEF c
    <3> QED
      BY <3>3, <3>5, <3>6, <3>7
  <2> QED
    BY <2>1, <2>2 DEF IsRefused
<1>3. /\ ledger' = ledger /\ now' = now /\ acct' = acct /\ call[o].pc = "read"
      /\ call' = [call EXCEPT ![o] = call'[o]]
  BY <1>1 DEF IsRefused, ReadMissing, Return, Read
<1>4. /\ Requests[o] = Req("asked", call[o].kind, call[o].units, call[o].at, call[o].result)
      /\ Request(o)' = Req("done", call[o].kind, call[o].units, t, "insufficient")
  BY <1>2, <1>3, Shape, ShapeNext DEF Requests
<1>5. /\ Request(o)' = Refused(Requests[o], "insufficient", t)
      /\ Requests[o].stage = "asked" /\ Requests[o].kind = "consume"
      /\ Requests[o].units = call[o].units /\ Requests[o].at = call[o].at
  <2>1. Request(o)' = Refused(Requests[o], "insufficient", t)
    BY <1>4, RefusedReq
  <2> QED
    BY <1>2, <1>4, <2>1 DEF Req
<1>6. Requests' = [Requests EXCEPT ![o].stage = "done", ![o].result = "insufficient",
                                   ![o].at = t]
  BY ZenonT(60), <1>1, <1>3, <1>5, OneRequest DEF Refused
<1>7. Statement' = Statement
  BY <1>1, <1>3, MoneyKept
<1>8. Requests[o].units > acct.balance + (IF now >= acct.giftUntil THEN 0 ELSE acct.gift)
  BY <1>2, <1>5 DEF UsableBalance, UsableGift
<1>9. t \in {Requests[o].at, now}
  BY <1>5
<1> QED
  BY <1>3, <1>5, <1>6, <1>7, <1>8, <1>9 DEF Wallet!Refuse, Requests, Statement

-----------------------------------------------------------------------------
(* A commit, which acts on the row as it is: the version guard says so.    *)
LEMMA CommitEffect ==
  ASSUME RInv, NEW o \in Ops, NEW p \in {"record", "done"},
         NEW res \in {"ok", "error"}, Apply(o, p, res)
  PROVE  /\ call[o] \in Call /\ call[o].seen = acct /\ acct \in Account
         /\ call[o].kind = "consume" => FromPaid(call[o]) <= acct.balance
         /\ acct' = Written(call[o])
         /\ Statement' = Append(Statement, [op |-> o,
                           delta |-> IF call[o].kind = "consume" THEN 0 - call[o].units
                                                                 ELSE call[o].units])
         /\ Requests' = [Requests EXCEPT ![o].stage = "done", ![o].result = res]
         /\ Requests[o] = Req("asked", call[o].kind, call[o].units, call[o].at, call[o].result)
         /\ now' = now
<1>1. /\ call \in [Ops -> Call] /\ acct \in Account /\ call[o] \in Call
      /\ ledger \in Seq(Row) /\ LInv /\ SeenIsCurrent(o)
  BY DEF RInv, LInv, TypeOK
<1>2. /\ call[o].pc = "commit" /\ VersionMatches(call[o])
      /\ acct' = Written(call[o]) /\ now' = now
      /\ call' = [call EXCEPT ![o] = Applied(call[o], p, res)]
  BY DEF Apply
<1>3. /\ call[o].seen = acct
      /\ call[o].kind = "consume" => FromPaid(call[o]) <= acct.balance
  BY <1>1, <1>2 DEF SeenIsCurrent, VersionMatches
<1>4. PICK r \in Row : /\ ledger' = Append(ledger, r)
                       /\ r = [op |-> o, kind |-> call[o].kind, amount |-> call[o].units,
                               after |-> BalanceAfter(call[o]),
                               before |-> acct.balance + acct.gift]
  <2>1. BalanceAfter(call[o]) \in Int
    BY <1>1, <1>2, WrittenRow DEF LInv
  <2>2. /\ call[o].kind \in Kinds /\ call[o].units \in Units
        /\ acct.balance + acct.gift \in Nat
    BY <1>1 DEF Call, Account
  <2> QED
    BY <2>1, <2>2 DEF Apply, Row
<1>5. Statement' = Append(Statement, StatementLine(r))
  BY <1>1, <1>4, StatementGrows
<1>6. StatementLine(r) = [op |-> o, delta |-> IF call[o].kind = "consume"
                                                THEN 0 - call[o].units ELSE call[o].units]
  BY <1>4 DEF StatementLine, Signed
<1>7. /\ call' = [call EXCEPT ![o] = call'[o]]
      /\ call'[o] = Applied(call[o], p, res)
  BY <1>1, <1>2
<1>8. /\ call'[o].pc \in {"record", "done"} /\ call'[o].kind = call[o].kind
      /\ call'[o].units = call[o].units /\ call'[o].at = call[o].at
      /\ call'[o].result = res
  <2>1. res \in Results
    BY DEF Results
  <2> QED
    BY <1>1, <1>7, <2>1, AppliedCall
<1>9. /\ Requests[o] = Req("asked", call[o].kind, call[o].units, call[o].at, call[o].result)
      /\ Request(o)' = Req("done", call[o].kind, call[o].units, call[o].at, res)
  BY <1>2, <1>8, Shape, ShapeNext DEF Requests
<1>10. Request(o)' = Answered(Requests[o], res)
  BY <1>9, AnsweredReq
<1>11. Requests' = [Requests EXCEPT ![o].stage = "done", ![o].result = res]
  <2>1. Requests' = [Requests EXCEPT ![o] = Request(o)']
    BY <1>1, <1>7, OneRequest
  <2> QED
    BY <1>10, <2>1 DEF Answered
<1> QED
  BY <1>1, <1>2, <1>3, <1>5, <1>6, <1>9, <1>11

LEMMA CommitRefines ==
  ASSUME RInv, NEW o \in Ops, Writes(o)
  PROVE  Wallet!Debit(o) \/ Wallet!Grant(o) \/ Wallet!Deposit(o)
<1> DEFINE c == call[o]
           q == Requests[o]
<1>0. PICK p \in {"record", "done"}, res \in {"ok", "error"} : Apply(o, p, res)
  BY WritesApply
<1>1. /\ c \in Call /\ c.seen = acct /\ acct \in Account
      /\ c.kind = "consume" => FromPaid(c) <= acct.balance
      /\ acct' = Written(c) /\ now' = now
      /\ Requests' = [Requests EXCEPT ![o].stage = "done", ![o].result = res]
      /\ q = Req("asked", c.kind, c.units, c.at, c.result)
      /\ Statement' = Append(Statement, [op |-> o,
            delta |-> IF c.kind = "consume" THEN 0 - c.units ELSE c.units])
  BY <1>0, CommitEffect
<1>2. /\ q.stage = "asked" /\ q.kind = c.kind /\ q.units = c.units /\ q.at = c.at
  BY <1>1 DEF Req
<1>3. /\ c.kind \in {"consume", "credit", "grant", "recharge"}
      /\ c.units \in Nat /\ c.at \in Nat
      /\ acct.balance \in Nat /\ acct.gift \in Nat /\ acct.giftUntil \in Nat
  BY <1>1, UnitsAssumption DEF Call, Account, Kinds
<1>4. CASE c.kind = "consume"
  <2>1. /\ acct'.balance = acct.balance - FromPaid(c)
        /\ acct'.gift = acct.gift - FromGift(c)
        /\ acct'.giftUntil = acct.giftUntil
    BY <1>1, <1>4 DEF Written, Account
  <2>2. /\ FromGift(c) = Wallet!Spent(q)
        /\ FromPaid(c) = q.units - Wallet!Spent(q)
    BY <1>1, <1>2, <1>3 DEF FromGift, FromPaid, Least, UsableGift, Wallet!Spent, Wallet!Usable
  <2>3. q.units <= acct.balance + Wallet!Usable(q)
    BY <1>1, <1>2, <1>3, <1>4 DEF FromGift, FromPaid, Least, UsableGift, Wallet!Usable
  <2>4. Statement' = Append(Statement, [op |-> o, delta |-> 0 - q.units])
    BY <1>1, <1>2, <1>4
  <2>5. Wallet!Debit(o)
    BY <1>1, <1>2, <1>4, <2>1, <2>2, <2>3, <2>4
    DEF Wallet!Debit, Wallet!Write, Wallet!Spent, Wallet!Usable, Requests, Statement
  <2> QED
    BY <2>5
<1>5. CASE c.kind = "grant"
  <2>1. /\ acct'.balance = acct.balance
        /\ acct'.gift = acct.gift + q.units
        /\ acct'.giftUntil = q.at + GiftValid
    BY <1>1, <1>2, <1>5 DEF Written, Account
  <2>2. Statement' = Append(Statement, [op |-> o, delta |-> q.units])
    BY <1>1, <1>2, <1>5
  <2>3. Wallet!Grant(o)
    BY <1>1, <1>2, <1>5, <2>1, <2>2 DEF Wallet!Grant, Wallet!Write, Requests, Statement
  <2> QED
    BY <2>3
<1>6. CASE c.kind \in {"credit", "recharge"}
  <2>1. /\ acct'.balance = acct.balance + q.units
        /\ acct'.gift = acct.gift /\ acct'.giftUntil = acct.giftUntil
    BY <1>1, <1>2, <1>6 DEF Written, Account
  <2>2. Statement' = Append(Statement, [op |-> o, delta |-> q.units])
    BY <1>1, <1>2, <1>6
  <2>3. Wallet!Deposit(o)
    BY <1>1, <1>2, <1>6, <2>1, <2>2 DEF Wallet!Deposit, Wallet!Write, Requests, Statement
  <2> QED
    BY <2>3
<1> QED
  BY <1>3, <1>4, <1>5, <1>6

LEMMA TickRefines ==
  ASSUME RInv, Tick
  PROVE  Wallet!Pass
<1>1. /\ acct' = acct /\ ledger' = ledger /\ call' = call /\ now' = now + 1
  BY DEF Tick
<1>2. Statement' = Statement /\ Requests' = Requests
  BY <1>1 DEF Statement, StatementLine, Signed, Requests, Request
<1> QED
  BY <1>1, <1>2 DEF Wallet!Pass, Statement, Requests

(* The row is created, or nothing happens at all.                          *)
LEMMA OpeningStutters ==
  ASSUME RInv, Balance \/ UNCHANGED vars
  PROVE  UNCHANGED Wallet!wvars
<1>1. /\ acct \in Account /\ ledger' = ledger /\ call' = call /\ now' = now
      /\ acct' = acct \/ acct' = [acct EXCEPT !.open = TRUE]
  BY DEF RInv, LInv, TypeOK, Balance, vars
<1>2. /\ acct'.balance = acct.balance /\ acct'.gift = acct.gift
      /\ acct'.giftUntil = acct.giftUntil /\ Statement' = Statement
  BY <1>1, MoneyKept
<1>3. Requests' = Requests
  BY <1>1 DEF Requests, Request
<1> QED
  BY <1>1, <1>2, <1>3 DEF Wallet!wvars, Requests, Statement

LEMMA StepRefines == RInv /\ [Next]_vars => [Wallet!WNext]_(Wallet!wvars)
<1> SUFFICES ASSUME RInv, [Next]_vars PROVE [Wallet!WNext]_(Wallet!wvars)
  OBVIOUS
<1>1. CASE Balance \/ UNCHANGED vars
  BY <1>1, OpeningStutters
<1>2. CASE Tick
  BY <1>2, TickRefines DEF Wallet!WNext
<1>3. ASSUME NEW o \in Ops, Invoke(o) PROVE Wallet!WNext
  BY <1>3, AskRefines DEF Wallet!WNext
<1>4. ASSUME NEW o \in Ops, Unseen(o) PROVE UNCHANGED Wallet!wvars
  BY <1>4, UnseenStutters
<1>5. ASSUME NEW o \in Ops, GivesUp(o) PROVE Wallet!WNext
  BY <1>5, GiveUpRefines DEF Wallet!WNext
<1>6. ASSUME NEW o \in Ops, IsRefused(o) PROVE Wallet!WNext
  BY <1>6, RefuseRefines DEF Wallet!WNext
<1>7. ASSUME NEW o \in Ops, Writes(o) PROVE Wallet!WNext
  BY <1>7, CommitRefines DEF Wallet!WNext
<1>8. ASSUME NEW o \in Ops, Read(o), call[o].kind # "grant", ~IsRefused(o)
      PROVE  Wallet!WNext
  <2>1. call \in [Ops -> Call] /\ call[o] \in Call /\ acct \in Account /\ now \in Nat
    BY DEF RInv, LInv, TypeOK
  <2>2. call'[o].pc \in {"done", "commit"}
    <3> DEFINE c == [call[o] EXCEPT !.seen = acct,
                                    !.at = IF call[o].kind = "grant" THEN @ ELSE now]
    <3>1. call' = [call EXCEPT ![o] =
                     IF c.kind = "consume" /\ FromPaid(c) > acct.balance
                       THEN Closed(c, "insufficient")
                       ELSE [c EXCEPT !.pc = "commit"]]
      BY <1>8 DEF Read
    <3>2. c \in Call
      BY <2>1 DEF Call
    <3> HIDE DEF c
    <3>3. \/ call'[o] = Closed(c, "insufficient")
          \/ call'[o] = [c EXCEPT !.pc = "commit"]
      BY <2>1, <3>1
    <3> QED
      BY <3>2, <3>3, ClosedCall DEF Call, Results
  <2>3. Wallet!LookAtClock(o)
    BY <1>8, <2>2, ReadRefines DEF IsRefused
  <2> QED
    BY <2>3 DEF Wallet!WNext
<1>9. ASSUME NEW o \in Ops,
             Advance(o) \/ Fail(o) \/ CommitUnacknowledged(o) \/ RecordFails(o)
      PROVE  Wallet!WNext \/ UNCHANGED Wallet!wvars
  <2>1. \/ Unseen(o) \/ GivesUp(o) \/ IsRefused(o) \/ Writes(o)
        \/ Read(o) /\ call[o].kind # "grant" /\ ~IsRefused(o)
    BY <1>9 DEF Advance, Unseen, GivesUp, IsRefused, Writes
  <2> QED
    BY <2>1, <1>4, <1>5, <1>6, <1>7, <1>8
<1> QED
  BY <1>1, <1>2, <1>3, <1>9 DEF Next

(* The optimistic transactions implement the atomic wallet: whatever a     *)
(* caller observes of the account could have been observed of one whose    *)
(* calls take effect one at a time (token_repo.go, Consume, Credit and     *)
(* GrantGift with their version-guarded retry loops).                      *)
THEOREM Refinement == Spec => ImplementsWallet
<1>1. Init => RInv /\ Wallet!WInit
  BY InitRInv, InitRefines
<1>2. RInv /\ [Next]_vars => RInv'
  BY NextRInv
<1>3. RInv /\ [Next]_vars => [Wallet!WNext]_(Wallet!wvars)
  BY StepRefines
<1> QED
  BY <1>1, <1>2, <1>3, PTL DEF Spec, ImplementsWallet, Wallet!WSpec
=============================================================================
