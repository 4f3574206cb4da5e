---------------------------- MODULE TokenLedger ----------------------------
(***************************************************************************)
(* One user's token account and its append-only ledger                     *)
(* (repository/token_repo.go), with the calls of service/token_service.go  *)
(* that change them.  A mutation reads the account row, computes, and then *)
(* commits one transaction: a conditional UPDATE guarded by the version it *)
(* read, plus one ledger row.  A lost race is retried, a bounded number of *)
(* times.  Calls of several requests interleave at every one of these      *)
(* steps; accounts of different users share no row, so one is enough.      *)
(***************************************************************************)
EXTENDS Integers, Sequences, Folds

CONSTANTS
  Ops,        \* calls that may be made on the account, each at most once
  Units,      \* amounts a call may carry (the code rejects units <= 0)
  MaxAttempts,\* maxTokenTxRetries
  GiftValid,  \* lifetime of a gift, in clock ticks (GiftValidDays)
  MaxTime     \* bound of the model: the clock stops here

ASSUME UnitsAssumption    == Units \subseteq Nat \ {0}
ASSUME AttemptsAssumption == MaxAttempts \in Nat \ {0}
ASSUME TimeAssumption     == GiftValid \in Nat /\ MaxTime \in Nat

VARIABLES
  acct,   \* the token_accounts row
  ledger, \* the token_ledger rows, in commit order
  orders, \* status of the token_orders row of a recharge call
  call,   \* the calls in flight
  usage,  \* units accumulated in token_usage_daily, all days together
  now     \* wall clock

vars == <<acct, ledger, orders, call, usage, now>>

(* consume: Consume; credit: Refund, also used by admin grants;            *)
(* grant: GrantTrialGift; recharge: CreateOrder on the sandbox channel.    *)
Kinds   == {"consume", "credit", "grant", "recharge"}
Results == {"none", "ok", "insufficient", "notfound", "busy", "error"}

(* giftUntil is GiftExpiresAt; NULL is 0, which is read the same way       *)
(* because only GrantGift adds gift and it always writes an expiry.        *)
Account == [open : BOOLEAN, balance : Nat, gift : Nat, giftUntil : Nat,
            recharged : Nat, consumed : Nat, version : Nat]

(* after is balance_after.  before is no column: it records balance plus   *)
(* gift of the row at the moment of the commit.                            *)
Row == [op : Ops, kind : Kinds, amount : Units, after : Int, before : Nat]

Call == [pc : {"idle", "order", "read", "commit", "record", "done"},
         kind : Kinds, units : Units, attempt : Nat, seen : Account,
         at : Nat, result : Results, recorded : BOOLEAN]

NewAccount == [open |-> FALSE, balance |-> 0, gift |-> 0, giftUntil |-> 0,
               recharged |-> 0, consumed |-> 0, version |-> 0]

Least(a, b) == IF a < b THEN a ELSE b

(* Mutant: the gift still counts in the tick in which it expires.          *)
UsableGiftLate(a, t) == IF t > a.giftUntil THEN 0 ELSE a.gift

UsableGift(a, t)    == IF t >= a.giftUntil THEN 0 ELSE a.gift
UsableBalance(a, t) == a.balance + UsableGift(a, t)

(* The split a Consume computes from the row it has read.                  *)
FromGift(c) == Least(UsableGift(c.seen, c.at), c.units)
FromPaid(c) == c.units - FromGift(c)

Signed(r) == IF r.kind = "consume" THEN 0 - r.amount ELSE r.amount

-----------------------------------------------------------------------------
Init ==
  /\ acct = NewAccount
  /\ ledger = <<>>
  /\ orders = [o \in Ops |-> "none"]
  /\ call \in [Ops -> {[pc |-> "idle", kind |-> "consume", units |-> u,
                        attempt |-> 0, seen |-> NewAccount, at |-> 0,
                        result |-> "none", recorded |-> FALSE] : u \in Units}]
  /\ usage = 0
  /\ now = 0

(* Balance creates the row on first use; the loser of a creation race      *)
(* reloads the winner's row.                                               *)
Balance ==
  /\ ~acct.open
  /\ acct' = [acct EXCEPT !.open = TRUE]
  /\ UNCHANGED <<ledger, orders, call, usage, now>>

(* The expiry of a gift is computed here, before the retry loop.           *)
Start(o, kind, pc) ==
  /\ call[o].pc = "idle"
  /\ call' = [call EXCEPT ![o] = [@ EXCEPT !.pc = pc, !.kind = kind, !.at = now]]

Consume(o) ==
  /\ Start(o, "consume", "read")
  /\ UNCHANGED <<acct, ledger, orders, usage, now>>

Refund(o) ==
  /\ Start(o, "credit", "read")
  /\ UNCHANGED <<acct, ledger, orders, usage, now>>

GrantTrialGift(o) ==
  /\ Start(o, "grant", "read")
  /\ acct' = [acct EXCEPT !.open = TRUE]
  /\ UNCHANGED <<ledger, orders, usage, now>>

CreateOrder(o) ==
  /\ Start(o, "recharge", "order")
  /\ acct' = [acct EXCEPT !.open = TRUE]
  /\ orders' = [orders EXCEPT ![o] = "created"]
  /\ UNCHANGED <<ledger, usage, now>>

(* deliverOrder flips the order first and credits afterwards.              *)
MarkPaid(o) ==
  /\ call[o].pc = "order"
  /\ orders[o] = "created"
  /\ orders' = [orders EXCEPT ![o] = "paid"]
  /\ call' = [call EXCEPT ![o].pc = "read"]
  /\ UNCHANGED <<acct, ledger, usage, now>>

(* A call that has ended has no row in hand any more.                      *)
Closed(c, result) == [c EXCEPT !.pc = "done", !.result = result,
                               !.seen = NewAccount, !.attempt = 0]

Return(o, result) == call' = [call EXCEPT ![o] = Closed(@, result)]

(* The top of the retry loop finds no row.                                 *)
ReadMissing(o) ==
  /\ call[o].pc = "read"
  /\ ~acct.open
  /\ Return(o, IF call[o].kind = "consume" THEN "insufficient" ELSE "notfound")
  /\ UNCHANGED <<acct, ledger, orders, usage, now>>

(* The top of the retry loop: load the row and take the time; a Consume    *)
(* that the row cannot cover ends here.                                    *)
Read(o) ==
  LET c == [call[o] EXCEPT !.seen = acct,
                           !.at = IF call[o].kind = "grant" THEN @ ELSE now] IN
  /\ call[o].pc = "read"
  /\ acct.open
  /\ call' = [call EXCEPT ![o] =
       IF c.kind = "consume" /\ FromPaid(c) > acct.balance
         THEN Closed(c, "insufficient")
         ELSE [c EXCEPT !.pc = "commit"]]
  /\ UNCHANGED <<acct, ledger, orders, usage, now>>

(* Mutant: the UPDATE has no version guard.                                *)
VersionIgnored(c) == TRUE

VersionMatches(c) == acct.version = c.seen.version

(* Mutant: a debit forgets to take the gift it spends.                     *)
WrittenKeepingGift(c) ==
  LET a == [acct EXCEPT !.version = @ + 1] IN
  CASE c.kind = "consume" ->
         [a EXCEPT !.balance = @ - FromPaid(c), !.consumed = @ + c.units]
    [] c.kind = "grant" ->
         [a EXCEPT !.gift = @ + c.units, !.giftUntil = c.at + GiftValid]
    [] OTHER -> [a EXCEPT !.balance = @ + c.units]

(* The columns each call writes; the SQL adds to the stored values.        *)
Written(c) ==
  LET a == [acct EXCEPT !.version = @ + 1] IN
  CASE c.kind = "consume" ->
         [a EXCEPT !.balance = @ - FromPaid(c), !.gift = @ - FromGift(c),
                   !.consumed = @ + c.units]
    [] c.kind = "grant" ->
         [a EXCEPT !.gift = @ + c.units, !.giftUntil = c.at + GiftValid]
    [] c.kind = "credit" -> [a EXCEPT !.balance = @ + c.units]
    [] c.kind = "recharge" ->
         [a EXCEPT !.balance = @ + c.units, !.recharged = @ + c.units]

(* balance_after, computed by each call from the row it read.              *)
BalanceAfter(c) ==
  CASE c.kind = "consume" -> (c.seen.balance - FromPaid(c))
                             + (c.seen.gift - FromGift(c))
    [] c.kind = "grant"   -> c.seen.balance + c.seen.gift + c.units
    [] OTHER              -> c.seen.balance + c.units + UsableGift(c.seen, c.at)

Applied(c, step, result) == [Closed(c, result) EXCEPT !.pc = step]

(* One transaction: the row under its version guard, and one ledger row.    *)
Apply(o, step, result) ==
  LET c == call[o] IN
  /\ c.pc = "commit"
  /\ VersionMatches(c)
  /\ acct' = Written(c)
  /\ ledger' = Append(ledger, [op |-> o, kind |-> c.kind, amount |-> c.units,
                               after |-> BalanceAfter(c),
                               before |-> acct.balance + acct.gift])
  /\ call' = [call EXCEPT ![o] = Applied(@, step, result)]
  /\ UNCHANGED <<orders, usage, now>>

Commit(o) ==
  Apply(o, IF call[o].kind = "consume" THEN "record" ELSE "done", "ok")

(* COMMIT is done, but its acknowledgement is lost: the caller is told of  *)
(* an error (return txErr) and the row and the ledger row stay.            *)
CommitUnacknowledged(o) == Apply(o, "done", "error")

(* Mutant: the number of updated rows is not looked at.                    *)
ConflictUnnoticed(o) ==
  /\ call[o].pc = "commit"
  /\ ~VersionMatches(call[o])
  /\ Return(o, "ok")
  /\ UNCHANGED <<acct, ledger, orders, usage, now>>

(* No row was updated: another call committed since the read.              *)
Conflict(o) ==
  LET c == call[o] IN
  /\ c.pc = "commit"
  /\ ~VersionMatches(c)
  /\ call' = [call EXCEPT ![o] =
       IF c.attempt + 1 < MaxAttempts
         THEN [c EXCEPT !.pc = "read", !.attempt = @ + 1]
         ELSE Closed(c, "busy")]
  /\ UNCHANGED <<acct, ledger, orders, usage, now>>

(* A database error, a cancelled request context or a process crash ends   *)
(* the call; an open transaction is rolled back.  The order may have been  *)
(* marked paid by the statement whose answer was lost.                     *)
Fail(o) ==
  /\ call[o].pc \in {"order", "read", "commit"}
  /\ Return(o, "error")
  /\ \/ UNCHANGED orders
     \/ call[o].pc = "order" /\ orders' = [orders EXCEPT ![o] = "paid"]
  /\ UNCHANGED <<acct, ledger, usage, now>>

(* recordDailyUsage: one upsert, after the deduction and best effort; its  *)
(* answer is not used, so a lost one makes no difference.                  *)
RecordUsage(o) ==
  /\ call[o].pc = "record"
  /\ usage' = usage + call[o].units
  /\ call' = [call EXCEPT ![o] = [@ EXCEPT !.pc = "done", !.recorded = TRUE]]
  /\ UNCHANGED <<acct, ledger, orders, now>>

RecordFails(o) ==
  /\ call[o].pc = "record"
  /\ call' = [call EXCEPT ![o] = [@ EXCEPT !.pc = "done"]]
  /\ UNCHANGED <<acct, ledger, orders, usage, now>>

Tick ==
  /\ now < MaxTime
  /\ now' = now + 1
  /\ UNCHANGED <<acct, ledger, orders, call, usage>>

Invoke(o)  == Consume(o) \/ Refund(o) \/ GrantTrialGift(o) \/ CreateOrder(o)
Advance(o) == \/ MarkPaid(o) \/ ReadMissing(o) \/ Read(o) \/ Commit(o)
              \/ Conflict(o) \/ RecordUsage(o)

Next ==
  \/ Balance
  \/ Tick
  \/ \E o \in Ops : \/ Invoke(o) \/ Advance(o)
                    \/ Fail(o) \/ CommitUnacknowledged(o) \/ RecordFails(o)

Spec == Init /\ [][Next]_vars

-----------------------------------------------------------------------------
(* Balance and gift stay natural numbers, so the CHECK (balance >= 0)      *)
(* constraints of migration 013 never have to refuse a statement.          *)
TypeOK ==
  /\ acct \in Account
  /\ ledger \in Seq(Row)
  /\ orders \in [Ops -> {"none", "created", "paid"}]
  /\ call \in [Ops -> Call]
  /\ usage \in Nat
  /\ now \in Nat

(* The ledger is the source of truth (token_repo.go, "every balance        *)
(* mutation appends exactly one ledger row"): every row starts from where  *)
(* the previous one ended, and the account is where the last one ended.    *)
Ended(r) == r.before + Signed(r)

LedgerReconciles ==
  /\ \A i \in 1..Len(ledger) :
       ledger[i].before = IF i = 1 THEN 0 ELSE Ended(ledger[i - 1])
  /\ acct.balance + acct.gift = IF ledger = <<>> THEN 0 ELSE Ended(ledger[Len(ledger)])

(* A call that reports success has appended its row and one row only; a    *)
(* call that is told insufficient, not found or busy, or that has not      *)
(* returned, has left no trace on the statement.  An error leaves open     *)
(* whether the row is there, but even then it is there at most once: a     *)
(* retried transaction is not written twice.                               *)
OneRowPerSuccess ==
  \A o \in Ops :
    LET mine == {i \in 1..Len(ledger) : ledger[i].op = o} IN
    /\ call[o].result = "ok" => mine # {}
    /\ mine # {} => call[o].result \in {"ok", "error"}
    /\ \A i, j \in mine : i = j

(* balance_after of a debit or of a gift is exact: it is computed from a   *)
(* row that nobody can have changed in between.                            *)
StatementExact ==
  \A i \in 1..Len(ledger) :
    ledger[i].kind \in {"consume", "grant"} => ledger[i].after = Ended(ledger[i])

(* The account as its callers see it.                                      *)
Request(o) ==
  [stage  |-> CASE call[o].pc = "idle" -> "idle"
                [] call[o].pc \in {"record", "done"} -> "done"
                [] OTHER -> "asked",
   kind   |-> call[o].kind,
   units  |-> call[o].units,
   at     |-> call[o].at,
   result |-> call[o].result]

StatementLine(r) == [op |-> r.op, delta |-> Signed(r)]

Wallet == INSTANCE TokenWallet WITH
  paid      <- acct.balance,
  gift      <- acct.gift,
  until     <- acct.giftUntil,
  statement <- [i \in 1..Len(ledger) |-> StatementLine(ledger[i])],
  req       <- [o \in Ops |-> Request(o)],
  clock     <- now

(* The optimistic transactions implement the atomic wallet.                *)
ImplementsWallet == Wallet!WSpec
=============================================================================
