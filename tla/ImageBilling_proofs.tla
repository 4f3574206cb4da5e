------------------------ MODULE ImageBilling_proofs ------------------------
(***************************************************************************)
(* Proofs about ImageBilling for every finite set of requests, every owner *)
(* and key of each, every opening balance and every number of faults.  The *)
(* inductive invariant adds to the three properties what each step of a    *)
(* request knows about its fee, and that the request whose task has a key  *)
(* is past the submission.                                                 *)
(***************************************************************************)
EXTENDS ImageBilling, FiniteSetTheorems, TLAPS

Account == [paid : Nat, gift : Nat, expired : Nat]
Replies == {"none", "insufficient", "error", "existing", "created", "conflict"}
Request == [pc : ImgSteps, gone : BOOLEAN, charged : BOOLEAN, refunded : BOOLEAN,
            owed : BOOLEAN, unsure : BOOLEAN, free : BOOLEAN, clash : BOOLEAN, reply : Replies]

TypeOK ==
  /\ wallet \in [Users -> Account]
  /\ creator \in [Keys -> Requests \cup {Nobody}]
  /\ req \in [Requests -> Request]

(* What a request knows about its fee.                                     *)
FeeOf(r) ==
  /\ req[r].pc \in {"idle", "check", "lookup", "charge"} => ~req[r].charged /\ ~req[r].refunded
  /\ req[r].pc \in {"submit", "refund"} => Paying(r)
  /\ req[r].unsure => req[r].pc = "done" /\ req[r].reply = "error"
  /\ req[r].pc \in {"resolve", "done"} /\ Paying(r) =>
       req[r].owed \/ req[r].unsure \/ creator[Key[r]] = r

(* The request whose task has a key.                                       *)
Served(q) ==
  /\ q.pc \in {"refund", "resolve", "done"}
  /\ q.free \/ (q.pc # "refund" /\ q.charged /\ ~q.refunded)

TaskOf(k) ==
  creator[k] # Nobody => Key[creator[k]] = k /\ Served(req[creator[k]])

FInv == TypeOK /\ (\A r \in Requests : FeeOf(r)) /\ (\A k \in Keys : TaskOf(k))

Payers(u) == {r \in Requests : Owner[r] = u /\ Paying(r)}

IInv == FInv /\ MoneyConserved

LEMMA OwnerAndKey == \A r \in Requests : Owner[r] \in Users /\ Key[r] \in Keys
BY DEF Users, Keys

LEMMA FewPayers == \A u : IsFiniteSet(Payers(u)) /\ Cardinality(Payers(u)) \in Nat
<1> SUFFICES ASSUME NEW u PROVE IsFiniteSet(Payers(u)) /\ Cardinality(Payers(u)) \in Nat
  OBVIOUS
<1>1. Payers(u) \in SUBSET Requests
  BY DEF Payers
<1> QED
  BY <1>1, RequestsAssumption, FS_Subset, FS_CardinalityType

LEMMA InitIInv == ImgInit => IInv
<1> SUFFICES ASSUME ImgInit PROVE IInv
  OBVIOUS
<1>1. TypeOK
  BY BalanceAssumption DEF ImgInit, TypeOK, Account, Request, Replies, ImgSteps
<1>2. \A r \in Requests : FeeOf(r)
  BY DEF ImgInit, FeeOf, Paying
<1>3. \A k \in Keys : TaskOf(k)
  BY DEF ImgInit, TaskOf
<1>4. ASSUME NEW u \in Users
      PROVE  wallet[u].paid + wallet[u].gift + wallet[u].expired + Cardinality(Payers(u)) = Paid0 + Gift0
  <2>1. Payers(u) = {}
    BY DEF ImgInit, Payers, Paying
  <2>2. Cardinality(Payers(u)) = 0
    BY <2>1, FS_EmptySet
  <2> QED
    BY <2>2, BalanceAssumption DEF ImgInit
<1> QED
  BY <1>1, <1>2, <1>3, <1>4 DEF IInv, FInv, MoneyConserved, Payers

(* The fees and the balances of a user are left alone.                     *)
LEMMA QuietIsConserved ==
  ASSUME MoneyConserved, UNCHANGED wallet, \A r \in Requests : Paying(r)' = Paying(r)
  PROVE  MoneyConserved'
<1>1. ASSUME NEW u \in Users PROVE Payers(u)' = Payers(u)
  BY DEF Payers
<1>2. ASSUME NEW u \in Users
      PROVE  Cardinality({r \in Requests : Owner[r] = u /\ Paying(r)})' =
             Cardinality({r \in Requests : Owner[r] = u /\ Paying(r)})
  BY <1>1 DEF Payers
<1> QED
  BY <1>2 DEF MoneyConserved, Users

(* A step of one request that leaves the balances and the keys alone: it   *)
(* is enough to look at that request.                                      *)
LEMMA OwnStep ==
  ASSUME FInv, NEW r \in Requests, UNCHANGED <<wallet, creator>>,
         NEW q \in Request, req' = [req EXCEPT ![r] = q], FeeOf(r)',
         creator[Key[r]] = r => Served(q)
  PROVE  FInv'
<1>1. TypeOK'
  BY DEF FInv, TypeOK
<1>2. ASSUME NEW x \in Requests PROVE FeeOf(x)'
  BY DEF FInv, TypeOK, FeeOf, Paying
<1>3. ASSUME NEW k \in Keys PROVE TaskOf(k)'
  <2>1. CASE creator[k] = r
    BY <2>1 DEF FInv, TypeOK, TaskOf, Served, Paying
  <2>2. CASE creator[k] # r
    BY <2>2 DEF FInv, TypeOK, TaskOf, Served, Paying
  <2> QED
    BY <2>1, <2>2
<1> QED
  BY <1>1, <1>2, <1>3 DEF FInv

(* Nobody's fee changes when the request that moves keeps its own.         *)
LEMMA OwnQuiet ==
  ASSUME IInv, NEW r \in Requests, UNCHANGED wallet, NEW q \in Request,
         req' = [req EXCEPT ![r] = q], q.charged = req[r].charged, q.refunded = req[r].refunded
  PROVE  MoneyConserved'
<1>1. \A x \in Requests : Paying(x)' = Paying(x)
  BY DEF IInv, FInv, TypeOK, Paying
<1> QED
  BY <1>1, QuietIsConserved DEF IInv

(* Moving on, or answering, without a word about the fee.                  *)
LEMMA MovesOn ==
  ASSUME IInv, NEW r \in Requests, NEW q \in Request, UNCHANGED <<wallet, creator>>,
         req' = [req EXCEPT ![r] = q], q.charged = req[r].charged,
         q.refunded = req[r].refunded, q.free = req[r].free,
         q.owed = req[r].owed, q.unsure = req[r].unsure,
         q.pc # req[r].pc \/ q.reply = req[r].reply,
         \/ q.pc = req[r].pc
         \/ /\ req[r].pc \in {"idle", "check", "lookup", "charge"}
            /\ q.pc \in {"check", "lookup", "charge", "done"}
         \/ req[r].pc = "submit" /\ q.pc = "refund"
         \/ req[r].pc = "resolve" /\ q.pc = "done"
  PROVE  IInv'
<1>1. MoneyConserved'
  BY OwnQuiet
<1>2. FeeOf(r)'
  BY DEF IInv, FInv, TypeOK, FeeOf, Paying
<1>3. creator[Key[r]] = r => Served(q)
  BY OwnerAndKey, NobodyAssumption DEF IInv, FInv, TypeOK, TaskOf, Served, Paying
<1> QED
  BY <1>1, <1>2, <1>3, OwnStep DEF IInv

LEMMA Reading ==
  ASSUME IInv, NEW r \in Requests,
         Arrive(r) \/ CanConsume(r) \/ CheckFails(r) \/ Lookup(r) \/ SubmitFails(r)
           \/ SubmitConflicts(r) \/ Resolve(r) \/ Leave(r)
  PROVE  IInv'
<1>1. req[r] \in Request
  BY DEF IInv, FInv, TypeOK
<1>2. ASSUME NEW pc \in {"check", "lookup", "charge"},
             req[r].pc \in {"idle", "check", "lookup"}, MoveTo(r, pc), UNCHANGED <<wallet, creator>>
      PROVE  IInv'
  <2> DEFINE q == [req[r] EXCEPT !.pc = pc]
  <2>1. q \in Request /\ req' = [req EXCEPT ![r] = q]
    BY <1>1, <1>2 DEF Request, ImgSteps, MoveTo
  <2> QED
    BY <1>1, <1>2, <2>1, MovesOn DEF Request
<1>3. ASSUME NEW x \in Replies, Reply(r, x), UNCHANGED <<wallet, creator>>,
             req[r].pc \in {"check", "lookup", "charge", "resolve"}
      PROVE  IInv'
  <2> DEFINE q == [req[r] EXCEPT !.pc = "done", !.reply = x]
  <2>1. q \in Request /\ req' = [req EXCEPT ![r] = q]
    BY <1>1, <1>3 DEF Request, ImgSteps, Reply
  <2> QED
    BY <1>1, <1>3, <2>1, MovesOn DEF Request
<1>4. ASSUME SubmitFails(r) PROVE IInv'
  <2> DEFINE q == [req[r] EXCEPT !.pc = "refund"]
  <2>1. q \in Request /\ req' = [req EXCEPT ![r] = q]
    BY <1>1, <1>4 DEF Request, ImgSteps, SubmitFails, MoveTo
  <2> QED
    BY <1>1, <1>4, <2>1, MovesOn DEF Request, SubmitFails
<1>5. ASSUME SubmitConflicts(r) PROVE IInv'
  <2> DEFINE q == [req[r] EXCEPT !.pc = "refund", !.clash = TRUE]
  <2>1. q \in Request /\ req' = [req EXCEPT ![r] = q]
    BY <1>1, <1>5 DEF Request, ImgSteps, SubmitConflicts
  <2> QED
    BY ZenonT(60), <1>1, <1>5, <2>1, MovesOn DEF Request, SubmitConflicts
<1>6. ASSUME Leave(r) PROVE IInv'
  <2> DEFINE q == [req[r] EXCEPT !.gone = TRUE]
  <2>1. q \in Request /\ req' = [req EXCEPT ![r] = q]
    BY <1>1, <1>6 DEF Request, Leave
  <2> QED
    BY ZenonT(60), <1>1, <1>6, <2>1, MovesOn DEF Request, Leave
<1>7. CASE Arrive(r) \/ CanConsume(r) \/ CheckFails(r) \/ Lookup(r) \/ Resolve(r)
  BY <1>2, <1>3, <1>7 DEF Arrive, CanConsume, CheckFails, Lookup, Resolve, Replies
<1> QED
  BY <1>4, <1>5, <1>6, <1>7

(* The fee is taken: one more pays, one fee less is left.                  *)
LEMMA ChargeIInv ==
  ASSUME IInv, NEW r \in Requests, req[r].pc = "charge", Usable(Owner[r]) >= 1,
         wallet' = [wallet EXCEPT ![Owner[r]] = Debited(@)], UNCHANGED creator,
         NEW q \in Request, req' = [req EXCEPT ![r] = q],
         q.charged, q.refunded = req[r].refunded,
         \/ q.pc = "submit" /\ q.unsure = req[r].unsure
         \/ q.pc = "done" /\ q.unsure /\ q.reply = "error"
  PROVE  IInv'
<1>1. req[r] \in Request /\ Owner[r] \in Users /\ wallet \in [Users -> Account]
  BY OwnerAndKey DEF IInv, FInv, TypeOK
<1>2. /\ Debited(wallet[Owner[r]]) \in Account
      /\ LET w == Debited(wallet[Owner[r]])
         IN  w.paid + w.gift + w.expired + 1
             = wallet[Owner[r]].paid + wallet[Owner[r]].gift + wallet[Owner[r]].expired
  BY <1>1 DEF Debited, Account, Usable
<1>3. TypeOK'
  BY <1>1, <1>2 DEF IInv, FInv, TypeOK
<1>4. FeeOf(r)'
  BY <1>1 DEF IInv, FInv, TypeOK, FeeOf, Paying
<1>5. ASSUME NEW x \in Requests PROVE FeeOf(x)'
  BY <1>1, <1>4 DEF IInv, FInv, TypeOK, FeeOf, Paying
<1>6. \A k \in Keys : TaskOf(k)'
  BY <1>1, NobodyAssumption DEF IInv, FInv, TypeOK, TaskOf, Served
<1>7. ~Paying(r) /\ Paying(r)' /\ \A x \in Requests \ {r} : Paying(x)' = Paying(x)
  BY <1>1 DEF IInv, FInv, TypeOK, FeeOf, Paying
<1>8. ASSUME NEW u \in Users
      PROVE  wallet[u].paid + wallet[u].gift + wallet[u].expired + Cardinality(Payers(u)) =
             (wallet[u].paid + wallet[u].gift + wallet[u].expired)' + Cardinality(Payers(u))'
  <2>1. CASE u = Owner[r]
    <3>1. Payers(u)' = Payers(u) \cup {r} /\ r \notin Payers(u)
      BY <1>7, <2>1 DEF Payers
    <3>2. Cardinality(Payers(u))' = Cardinality(Payers(u)) + 1
      BY <3>1, FewPayers, FS_AddElement
    <3>3. wallet'[u] = Debited(wallet[u])
      BY <1>1, <2>1
    <3> QED
      BY <1>1, <1>2, <1>3, <2>1, <3>2, <3>3, FewPayers DEF Account, TypeOK
  <2>2. CASE u # Owner[r]
    <3>1. Payers(u)' = Payers(u)
      BY <1>7, <2>2 DEF Payers
    <3> QED
      BY <1>1, <2>2, <3>1
  <2> QED
    BY <2>1, <2>2
<1>9. MoneyConserved'
  BY <1>8 DEF IInv, MoneyConserved, Payers, Users
<1> QED
  BY <1>3, <1>5, <1>6, <1>9 DEF IInv, FInv

LEMMA ConsumeIInv ==
  ASSUME IInv, NEW r \in Requests, ChargeFee(r)
  PROVE  IInv'
<1>1. req[r] \in Request
  BY DEF IInv, FInv, TypeOK
<1>2. CASE Usable(Owner[r]) >= 1
  <2> DEFINE q == [req[r] EXCEPT !.pc = "submit", !.charged = TRUE]
  <2>1. q \in Request /\ req' = [req EXCEPT ![r] = q] /\ UNCHANGED creator
    BY <1>1, <1>2 DEF Request, ImgSteps, ChargeFee
  <2>2. wallet' = [wallet EXCEPT ![Owner[r]] = Debited(@)] /\ req[r].pc = "charge"
    BY <1>2 DEF ChargeFee
  <2>3. q.charged /\ q.refunded = req[r].refunded /\ q.pc = "submit" /\ q.unsure = req[r].unsure
    BY <1>1 DEF Request
  <2> HIDE DEF q
  <2> QED
    BY <1>2, <2>1, <2>2, <2>3, ChargeIInv
<1>3. CASE ~(Usable(Owner[r]) >= 1)
  <2> DEFINE q == [req[r] EXCEPT !.pc = "done", !.reply = "insufficient"]
  <2>1. q \in Request /\ req' = [req EXCEPT ![r] = q] /\ UNCHANGED <<wallet, creator>>
    BY <1>1, <1>3 DEF Request, ImgSteps, ChargeFee, Reply, Replies
  <2> QED
    BY <1>1, <1>3, <2>1, MovesOn DEF Request, ChargeFee
<1> QED
  BY <1>2, <1>3

(* The fee is taken, and the request is told that it was not.              *)
LEMMA ChargeUnacknowledgedIInv ==
  ASSUME IInv, NEW r \in Requests, ChargeUnacknowledged(r)
  PROVE  IInv'
<1>1. req[r] \in Request
  BY DEF IInv, FInv, TypeOK
<1> DEFINE q == [req[r] EXCEPT !.pc = "done", !.reply = "error",
                               !.charged = TRUE, !.unsure = TRUE]
<1>2. q \in Request /\ req' = [req EXCEPT ![r] = q]
  BY <1>1 DEF Request, ImgSteps, Replies, ChargeUnacknowledged
<1>3. /\ wallet' = [wallet EXCEPT ![Owner[r]] = Debited(@)] /\ UNCHANGED creator
      /\ req[r].pc = "charge" /\ Usable(Owner[r]) >= 1
  BY DEF ChargeUnacknowledged
<1>4. /\ q.charged /\ q.refunded = req[r].refunded
      /\ q.pc = "done" /\ q.unsure /\ q.reply = "error"
  BY <1>1 DEF Request
<1> HIDE DEF q
<1> QED
  BY <1>2, <1>3, <1>4, ChargeIInv

(* The submission: the key gets its task.                                  *)
LEMMA SubmitIInv ==
  ASSUME IInv, NEW r \in Requests, SubmitTask(r) \/ SubmitUnacknowledged(r)
  PROVE  IInv'
<1>1. req[r] \in Request /\ Key[r] \in Keys /\ req[r].pc = "submit" /\ Paying(r)
  BY OwnerAndKey DEF IInv, FInv, TypeOK, SubmitTask, SubmitUnacknowledged, FeeOf
<1>2. /\ creator[Key[r]] = Nobody /\ creator' = [creator EXCEPT ![Key[r]] = r]
      /\ UNCHANGED wallet
  BY DEF SubmitTask, SubmitUnacknowledged
<1>3. PICK q \in Request :
         /\ req' = [req EXCEPT ![r] = q]
         /\ q.charged = req[r].charged /\ q.refunded = req[r].refunded
         /\ q.unsure = req[r].unsure
         /\ q.pc = "done" \/ (q.pc = "refund" /\ q.free)
  <2>1. CASE SubmitTask(r)
    <3> DEFINE q == [req[r] EXCEPT !.pc = "done", !.reply = "created"]
    <3>1. q \in Request /\ req' = [req EXCEPT ![r] = q]
      BY <1>1, <2>1 DEF Request, ImgSteps, SubmitTask, Reply, Replies
    <3> QED
      BY <1>1, <3>1 DEF Request
  <2>2. CASE SubmitUnacknowledged(r)
    <3> DEFINE q == [req[r] EXCEPT !.pc = "refund", !.free = TRUE]
    <3>1. q \in Request /\ req' = [req EXCEPT ![r] = q]
      BY <1>1, <2>2 DEF Request, ImgSteps, SubmitUnacknowledged
    <3> QED
      BY <1>1, <3>1 DEF Request
  <2> QED
    BY <2>1, <2>2
<1>4. TypeOK'
  BY <1>1, <1>2, <1>3 DEF IInv, FInv, TypeOK
<1>5. ASSUME NEW x \in Requests PROVE FeeOf(x)'
  <2>1. CASE x = r
    BY <1>1, <1>2, <1>3, <2>1 DEF IInv, FInv, TypeOK, FeeOf, Paying
  <2>2. CASE x # r
    <3>1. req'[x] = req[x] /\ (creator[Key[x]] = x => creator'[Key[x]] = x) /\ FeeOf(x)
      BY <1>1, <1>2, <1>3, <2>2, OwnerAndKey, NobodyAssumption DEF IInv, FInv, TypeOK
    <3> QED
      BY <3>1 DEF FeeOf, Paying
  <2> QED
    BY <2>1, <2>2
<1>6. ASSUME NEW k \in Keys PROVE TaskOf(k)'
  <2>1. CASE k = Key[r]
    BY <1>1, <1>2, <1>3, <2>1 DEF IInv, FInv, TypeOK, TaskOf, Served, Paying
  <2>2. CASE k # Key[r]
    BY <1>1, <1>2, <1>3, <2>2 DEF IInv, FInv, TypeOK, TaskOf, Served, Paying
  <2> QED
    BY <2>1, <2>2
<1>7. MoneyConserved'
  BY <1>2, <1>3, OwnQuiet
<1> QED
  BY <1>4, <1>5, <1>6, <1>7 DEF IInv, FInv

(* The fee goes back: one less pays, one fee more is there.                *)
LEMMA RefundIInv ==
  ASSUME IInv, NEW r \in Requests, RefundFee(r)
  PROVE  IInv'
<1>1. /\ req[r] \in Request /\ Owner[r] \in Users
      /\ req[r].pc = "refund" /\ Paying(r) /\ wallet \in [Users -> Account]
      /\ AfterRefund(r) \in {"resolve", "done"}
  BY OwnerAndKey DEF IInv, FInv, TypeOK, RefundFee, FeeOf, AfterRefund
<1>2. wallet' = [wallet EXCEPT ![Owner[r]].paid = @ + 1] /\ UNCHANGED creator
  BY DEF RefundFee
<1>3. PICK q \in Request :
         /\ req' = [req EXCEPT ![r] = q] /\ q.refunded /\ q.free = req[r].free
         /\ q.pc \in {"resolve", "done"} /\ q.unsure = req[r].unsure
  <2> DEFINE q == [req[r] EXCEPT !.refunded = TRUE, !.pc = AfterRefund(r),
                                 !.reply = IF AfterRefund(r) = "done" THEN "error" ELSE @]
  <2>1. q \in Request /\ req' = [req EXCEPT ![r] = q]
    BY <1>1 DEF Request, ImgSteps, RefundFee, Replies
  <2> QED
    BY <1>1, <2>1 DEF Request
<1>4. TypeOK'
  BY <1>1, <1>2, <1>3 DEF IInv, FInv, TypeOK, Account
<1>5. ASSUME NEW x \in Requests PROVE FeeOf(x)'
  BY <1>1, <1>2, <1>3 DEF IInv, FInv, TypeOK, FeeOf, Paying
<1>6. ASSUME NEW k \in Keys PROVE TaskOf(k)'
  BY <1>1, <1>2, <1>3, NobodyAssumption DEF IInv, FInv, TypeOK, TaskOf, Served, Paying
<1>7. ~Paying(r)' /\ \A x \in Requests \ {r} : Paying(x)' = Paying(x)
  BY <1>1, <1>3 DEF IInv, FInv, TypeOK, Paying
<1>8. ASSUME NEW u \in Users
      PROVE  wallet[u].paid + wallet[u].gift + wallet[u].expired + Cardinality(Payers(u)) =
             (wallet[u].paid + wallet[u].gift + wallet[u].expired)' + Cardinality(Payers(u))'
  <2>1. CASE u = Owner[r]
    <3>1. Payers(u)' = Payers(u) \ {r} /\ r \in Payers(u)
      BY <1>1, <1>7, <2>1 DEF Payers
    <3>2. Cardinality(Payers(u))' = Cardinality(Payers(u)) - 1
      BY <3>1, FewPayers, FS_RemoveElement
    <3> QED
      BY <1>1, <1>2, <2>1, <3>2, FewPayers DEF Account
  <2>2. CASE u # Owner[r]
    <3>1. Payers(u)' = Payers(u)
      BY <1>7, <2>2 DEF Payers
    <3> QED
      BY <1>1, <1>2, <2>2, <3>1
  <2> QED
    BY <2>1, <2>2
<1>9. MoneyConserved'
  BY <1>8 DEF IInv, MoneyConserved, Payers, Users
<1> QED
  BY <1>4, <1>5, <1>6, <1>9 DEF IInv, FInv

(* It cannot be given back, and is owed.                                   *)
LEMMA RefundFailsIInv ==
  ASSUME IInv, NEW r \in Requests, RefundFails(r)
  PROVE  IInv'
<1>1. /\ req[r] \in Request /\ req[r].pc = "refund" /\ Paying(r)
      /\ AfterRefund(r) \in {"resolve", "done"} /\ UNCHANGED <<wallet, creator>>
  BY DEF IInv, FInv, TypeOK, RefundFails, FeeOf, AfterRefund
<1>2. PICK q \in Request :
         /\ req' = [req EXCEPT ![r] = q] /\ q.owed /\ q.free = req[r].free
         /\ q.charged = req[r].charged /\ q.refunded = req[r].refunded
         /\ q.pc \in {"resolve", "done"} /\ q.unsure = req[r].unsure
  <2> DEFINE q == [req[r] EXCEPT !.owed = TRUE, !.pc = AfterRefund(r),
                                 !.reply = IF AfterRefund(r) = "done" THEN "error" ELSE @]
  <2>1. q \in Request /\ req' = [req EXCEPT ![r] = q]
    BY <1>1 DEF Request, ImgSteps, RefundFails, Replies
  <2> QED
    BY <1>1, <2>1 DEF Request
<1>3. MoneyConserved'
  BY <1>1, <1>2, OwnQuiet
<1>4. FeeOf(r)'
  BY <1>1, <1>2 DEF IInv, FInv, TypeOK, FeeOf, Paying
<1>5. creator[Key[r]] = r => Served(q)
  BY <1>1, <1>2, OwnerAndKey, NobodyAssumption DEF IInv, FInv, TypeOK, TaskOf, Served, Paying
<1> QED
  BY <1>1, <1>2, <1>3, <1>4, <1>5, OwnStep DEF IInv

(* The process dies with its requests.                                     *)
LEMMA CrashIInv == IInv /\ ProcessDies => IInv'
<1> SUFFICES ASSUME IInv, ProcessDies PROVE IInv'
  OBVIOUS
<1>1. UNCHANGED <<wallet, creator>> /\ req' = [r \in Requests |-> Died(req[r])]
  BY DEF ProcessDies
<1>2. ASSUME NEW q \in Request
      PROVE  /\ Died(q) \in Request /\ Died(q).charged = q.charged
             /\ Died(q).refunded = q.refunded /\ Died(q).free = q.free
             /\ Died(q).unsure = q.unsure
             /\ q.pc \in {"idle", "done"} => Died(q) = q
             /\ q.pc \notin {"idle", "done"} =>
                  Died(q).pc = "done" /\ (Died(q).owed <=> q.charged /\ ~q.refunded)
  BY DEF Request, ImgSteps, Died
<1>3. TypeOK'
  BY <1>1, <1>2 DEF IInv, FInv, TypeOK
<1>4. ASSUME NEW x \in Requests PROVE FeeOf(x)'
  BY <1>1, <1>2 DEF IInv, FInv, TypeOK, FeeOf, Paying
<1>5. ASSUME NEW k \in Keys PROVE TaskOf(k)'
  BY <1>1, <1>2, NobodyAssumption DEF IInv, FInv, TypeOK, TaskOf, Served, Paying
<1>6. \A x \in Requests : Paying(x)' = Paying(x)
  BY <1>1, <1>2 DEF IInv, FInv, TypeOK, Paying
<1>7. MoneyConserved'
  BY <1>1, <1>6, QuietIsConserved DEF IInv
<1> QED
  BY <1>3, <1>4, <1>5, <1>7 DEF IInv, FInv

(* A gift that expires is counted with what has expired.                   *)
LEMMA GiftExpiresIInv ==
  ASSUME IInv, NEW u \in Users, GiftExpires(u)
  PROVE  IInv'
<1>1. /\ wallet' = [wallet EXCEPT ![u] = Expired(@)]
      /\ UNCHANGED <<creator, req>> /\ wallet \in [Users -> Account]
  BY DEF GiftExpires, IInv, FInv, TypeOK
<1> DEFINE w == wallet[u]
<1>2. /\ Expired(w) \in Account
      /\ Expired(w).paid + Expired(w).gift + Expired(w).expired = w.paid + w.gift + w.expired
  <2>1. w \in Account
    BY <1>1
  <2> HIDE DEF w
  <2>2. w.paid \in Nat /\ w.gift \in Nat /\ w.expired \in Nat
    BY <2>1 DEF Account
  <2>3. Expired(w) \in Account
    BY <2>2 DEF Account, Expired
  <2> QED
    BY <2>2, <2>3 DEF Expired
<1>3. FInv'
  <2>1. TypeOK'
    BY <1>2, <1>1 DEF IInv, FInv, TypeOK
  <2>2. \A r \in Requests : FeeOf(r)'
    BY <1>1 DEF IInv, FInv, FeeOf, Paying
  <2>3. \A k \in Keys : TaskOf(k)'
    BY <1>1 DEF IInv, FInv, TaskOf, Served
  <2> QED
    BY <2>1, <2>2, <2>3 DEF FInv
<1>4. ASSUME NEW v \in Users
      PROVE  /\ (wallet[v].paid + wallet[v].gift + wallet[v].expired)' =
                wallet[v].paid + wallet[v].gift + wallet[v].expired
             /\ Payers(v)' = Payers(v)
  BY <1>2, <1>1 DEF Payers, Paying
<1> QED
  BY <1>3, <1>4 DEF IInv, MoneyConserved, Payers, Users

LEMMA NextIInv == IInv /\ [ImgNext]_imgVars => IInv'
<1> SUFFICES ASSUME IInv, [ImgNext]_imgVars PROVE IInv'
  OBVIOUS
<1>1. ASSUME NEW r \in Requests, Arrive(r) \/ Handle(r) \/ Leave(r) PROVE IInv'
  BY <1>1, Reading, ConsumeIInv, ChargeUnacknowledgedIInv, SubmitIInv, RefundIInv, RefundFailsIInv DEF Handle
<1>2. ASSUME UNCHANGED <<wallet, creator, req>> PROVE IInv'
  BY <1>2 DEF IInv, FInv, TypeOK, FeeOf, TaskOf, Served, Paying, MoneyConserved, Users, Keys
<1>3. ASSUME NEW k \in Keys, TaskEnds(k) PROVE IInv'
  BY <1>2, <1>3 DEF TaskEnds
<1>4. CASE UNCHANGED imgVars
  BY <1>2, <1>4 DEF imgVars
<1> QED
  BY <1>1, <1>3, <1>4, CrashIInv, GiftExpiresIInv DEF ImgNext

THEOREM Invariance == ImgSpec => []IInv
<1> QED
  BY InitIInv, NextIInv, PTL DEF ImgSpec

(* Whatever the requests of a user do to each other, the fees they pay and *)
(* what is left add up to what the user had (GenerateImage).               *)
THEOREM Conservation == ImgSpec => []MoneyConserved
<1>1. IInv => MoneyConserved
  BY DEF IInv
<1> QED
  BY <1>1, Invariance, PTL

(* A request that has ended pays only for a task it has created, or its    *)
(* refund failed or was cut short, or its deduction was reported as failed *)
(* (GenerateImage).                                                        *)
THEOREM FeeBuysATask == ImgSpec => []PayOnlyForATask
<1>1. IInv => PayOnlyForATask
  BY DEF IInv, FInv, FeeOf, PayOnlyForATask
<1> QED
  BY <1>1, Invariance, PTL

(* A task is paid for, or the database reported its commit as failed.      *)
THEOREM TaskCostsAFee == ImgSpec => []NoTaskForFree
<1>1. IInv => NoTaskForFree
  BY DEF IInv, FInv, TaskOf, Served, Paying, NoTaskForFree
<1> QED
  BY <1>1, Invariance, PTL
=============================================================================
