---------------------------- MODULE ImageBilling ----------------------------
(***************************************************************************)
(* POST /aigc/generate (handler/aigc_handler.go, GenerateImage): a flat    *)
(* fee is charged before the task is submitted, a task is unique per       *)
(* idempotency key, and a submission that fails gives the fee back.  The   *)
(* key is a hash of the prompt and the size: it names neither the user nor *)
(* the request, so requests of one user and of different users compete     *)
(* for it.  A deduction or a refund is one atomic step here, which         *)
(* TokenLedger shows it to be.                                             *)
(***************************************************************************)
EXTENDS Integers, FiniteSets

CONSTANTS
  Requests,
  Nobody,      \* the creator of a task that does not exist
  Owner, Key,  \* functions from requests to their user and their key
  Paid0, Gift0,\* opening balances, in fees (ImageGenUnits)
  Recognised,  \* isUniqueViolation knows the database's error (PostgreSQL)
  MaxImgFaults    \* bound of the model: how many faults may happen

ASSUME RequestsAssumption == IsFiniteSet(Requests)
ASSUME NobodyAssumption  == Nobody \notin Requests
ASSUME BalanceAssumption == /\ Paid0 \in Nat /\ Gift0 \in Nat /\ MaxImgFaults \in Nat
                            /\ Recognised \in BOOLEAN

Users == {Owner[r] : r \in Requests}
Keys  == {Key[r] : r \in Requests}

VARIABLES
  wallet,  \* per user: paid balance, usable gift, gift that expired
  creator, \* per key: the request whose task row has it
  status,  \* per key: the status of that task
  req,     \* the requests
  faultsLeft   \* faults left

imgVars == <<wallet, creator, status, req, faultsLeft>>

ImgSteps == {"idle", "check", "lookup", "charge", "submit", "refund", "resolve", "done"}

MoveTo(r, pc) == req' = [req EXCEPT ![r].pc = pc]
Reply(r, x)   == req' = [req EXCEPT ![r].pc = "done", ![r].reply = x]
Fault         == faultsLeft > 0 /\ faultsLeft' = faultsLeft - 1
Usable(u)     == wallet[u].paid + wallet[u].gift

(* A query bound to the request fails when the client has gone away, or    *)
(* because the database does.                                              *)
RequestError(r) == \/ req[r].gone /\ UNCHANGED faultsLeft
                   \/ ~req[r].gone /\ Fault

ImgInit ==
  /\ wallet = [u \in Users |-> [paid |-> Paid0, gift |-> Gift0, expired |-> 0]]
  /\ creator = [k \in Keys |-> Nobody]
  /\ status = [k \in Keys |-> "none"]
  /\ req = [r \in Requests |->
       [pc |-> "idle", gone |-> FALSE, charged |-> FALSE, refunded |-> FALSE,
        owed |-> FALSE, unsure |-> FALSE, free |-> FALSE, clash |-> FALSE,
        reply |-> "none"]]
  /\ faultsLeft = MaxImgFaults

Mine(r) == creator[Key[r]] # Nobody /\ Owner[creator[Key[r]]] = Owner[r]

Arrive(r) ==
  /\ req[r].pc = "idle"
  /\ MoveTo(r, "check")
  /\ UNCHANGED <<wallet, creator, status, faultsLeft>>

CanConsume(r) ==
  /\ req[r].pc = "check" /\ ~req[r].gone
  /\ IF Usable(Owner[r]) >= 1 THEN MoveTo(r, "lookup") ELSE Reply(r, "insufficient")
  /\ UNCHANGED <<wallet, creator, status, faultsLeft>>

CheckFails(r) ==
  /\ req[r].pc \in {"check", "charge"}
  /\ RequestError(r)
  /\ Reply(r, "error")
  /\ UNCHANGED <<wallet, creator, status>>

(* findTaskByIdempotencyKey answers "not found" for somebody else's task   *)
(* and for a failed query alike.                                           *)
Lookup(r) ==
  /\ req[r].pc = "lookup"
  /\ \/ /\ ~req[r].gone /\ UNCHANGED faultsLeft
        /\ IF Mine(r) THEN Reply(r, "existing") ELSE MoveTo(r, "charge")
     \/ RequestError(r) /\ MoveTo(r, "charge")
  /\ UNCHANGED <<wallet, creator, status>>

(* Mutant: the gift is taken, and then the paid balance as well.           *)
DebitedTwice(w) ==
  [w EXCEPT !.gift = IF @ >= 1 THEN @ - 1 ELSE @, !.paid = IF @ >= 1 THEN @ - 1 ELSE @]

Debited(w) == IF w.gift >= 1 THEN [w EXCEPT !.gift = @ - 1]
                             ELSE [w EXCEPT !.paid = @ - 1]

ChargeFee(r) ==
  /\ req[r].pc = "charge" /\ ~req[r].gone
  /\ IF Usable(Owner[r]) >= 1
       THEN /\ wallet' = [wallet EXCEPT ![Owner[r]] = Debited(@)]
            /\ req' = [req EXCEPT ![r].pc = "submit", ![r].charged = TRUE]
       ELSE Reply(r, "insufficient") /\ UNCHANGED wallet
  /\ UNCHANGED <<creator, status, faultsLeft>>

(* A deduction whose acknowledgement is lost, or that is committed as the  *)
(* client goes away, is reported as an error: the handler answers that the *)
(* billing failed, and neither submits the task nor gives the fee back.    *)
ChargeUnacknowledged(r) ==
  /\ req[r].pc = "charge" /\ RequestError(r)
  /\ Usable(Owner[r]) >= 1
  /\ wallet' = [wallet EXCEPT ![Owner[r]] = Debited(@)]
  /\ req' = [req EXCEPT ![r].pc = "done", ![r].reply = "error",
                        ![r].charged = TRUE, ![r].unsure = TRUE]
  /\ UNCHANGED <<creator, status>>

(* Mutant: the success path runs into the refund.                          *)
SubmitRefunded(r) ==
  /\ req[r].pc = "submit" /\ ~req[r].gone
  /\ creator[Key[r]] = Nobody
  /\ creator' = [creator EXCEPT ![Key[r]] = r]
  /\ status' = [status EXCEPT ![Key[r]] = "pending"]
  /\ MoveTo(r, "refund")
  /\ UNCHANGED <<wallet, faultsLeft>>

SubmitTask(r) ==
  /\ req[r].pc = "submit" /\ ~req[r].gone
  /\ creator[Key[r]] = Nobody
  /\ creator' = [creator EXCEPT ![Key[r]] = r]
  /\ status' = [status EXCEPT ![Key[r]] = "pending"]
  /\ Reply(r, "created")
  /\ UNCHANGED <<wallet, faultsLeft>>

(* A commit whose acknowledgement is lost is reported as an error.         *)
SubmitUnacknowledged(r) ==
  /\ req[r].pc = "submit" /\ Fault
  /\ creator[Key[r]] = Nobody
  /\ creator' = [creator EXCEPT ![Key[r]] = r]
  /\ status' = [status EXCEPT ![Key[r]] = "pending"]
  /\ req' = [req EXCEPT ![r].pc = "refund", ![r].free = TRUE]
  /\ UNCHANGED wallet

SubmitFails(r) ==
  /\ req[r].pc = "submit"
  /\ RequestError(r)
  /\ MoveTo(r, "refund")
  /\ UNCHANGED <<wallet, creator, status>>

SubmitConflicts(r) ==
  /\ req[r].pc = "submit" /\ ~req[r].gone
  /\ creator[Key[r]] # Nobody
  /\ req' = [req EXCEPT ![r].pc = "refund", ![r].clash = TRUE]
  /\ UNCHANGED <<wallet, creator, status, faultsLeft>>

AfterRefund(r) == IF req[r].clash /\ Recognised THEN "resolve" ELSE "done"

(* Mutant: a clash of keys is answered before the fee is given back.       *)
RefundUnlessClash(r) ==
  LET back == ~req[r].clash IN
  /\ req[r].pc = "refund"
  /\ wallet' = IF back THEN [wallet EXCEPT ![Owner[r]].paid = @ + 1] ELSE wallet
  /\ req' = [req EXCEPT ![r].refunded = back, ![r].pc = AfterRefund(r),
                        ![r].reply = IF AfterRefund(r) = "done" THEN "error" ELSE @]
  /\ UNCHANGED <<creator, status, faultsLeft>>

(* The refund does not depend on the client; it goes to the paid balance,  *)
(* whichever balance the fee came from.                                    *)
RefundFee(r) ==
  /\ req[r].pc = "refund"
  /\ wallet' = [wallet EXCEPT ![Owner[r]].paid = @ + 1]
  /\ req' = [req EXCEPT ![r].refunded = TRUE, ![r].pc = AfterRefund(r),
                        ![r].reply = IF AfterRefund(r) = "done" THEN "error" ELSE @]
  /\ UNCHANGED <<creator, status, faultsLeft>>

(* It may fail, or run into its five seconds; then it is only logged, so a *)
(* refund that is made and reported as failed is a RefundFee.              *)
RefundFails(r) ==
  /\ req[r].pc = "refund" /\ Fault
  /\ req' = [req EXCEPT ![r].owed = TRUE, ![r].pc = AfterRefund(r),
                        ![r].reply = IF AfterRefund(r) = "done" THEN "error" ELSE @]
  /\ UNCHANGED <<wallet, creator, status>>

Resolve(r) ==
  /\ req[r].pc = "resolve"
  /\ \/ /\ ~req[r].gone /\ UNCHANGED faultsLeft
        /\ Reply(r, IF Mine(r) THEN "existing" ELSE "conflict")
     \/ RequestError(r) /\ Reply(r, "conflict")
  /\ UNCHANGED <<wallet, creator, status>>

(* Around the handler: the client leaves, gifts expire, tasks end, and the *)
(* process dies with its requests.                                         *)
Leave(r) ==
  /\ req[r].pc \notin {"idle", "done"} /\ ~req[r].gone
  /\ req' = [req EXCEPT ![r].gone = TRUE]
  /\ UNCHANGED <<wallet, creator, status, faultsLeft>>

Expired(w) == [paid |-> w.paid, gift |-> 0, expired |-> w.expired + w.gift]

GiftExpires(u) ==
  /\ wallet[u].gift > 0
  /\ wallet' = [wallet EXCEPT ![u] = Expired(@)]
  /\ UNCHANGED <<creator, status, req, faultsLeft>>

TaskEnds(k) ==
  /\ status[k] = "pending"
  /\ \E s \in {"success", "dead_letter", "cancelled"} : status' = [status EXCEPT ![k] = s]
  /\ UNCHANGED <<wallet, creator, req, faultsLeft>>

Died(q) == IF q.pc \in {"idle", "done"} THEN q
           ELSE [q EXCEPT !.pc = "done", !.owed = q.charged /\ ~q.refunded]

ProcessDies ==
  /\ Fault
  /\ req' = [r \in Requests |-> Died(req[r])]
  /\ UNCHANGED <<wallet, creator, status>>

Handle(r) ==
  \/ CanConsume(r) \/ CheckFails(r) \/ Lookup(r)
  \/ ChargeFee(r) \/ ChargeUnacknowledged(r)
  \/ SubmitTask(r) \/ SubmitUnacknowledged(r) \/ SubmitFails(r) \/ SubmitConflicts(r)
  \/ RefundFee(r) \/ RefundFails(r) \/ Resolve(r)

ImgNext ==
  \/ ProcessDies
  \/ \E r \in Requests : Arrive(r) \/ Handle(r) \/ Leave(r)
  \/ \E u \in Users : GiftExpires(u)
  \/ \E k \in Keys : TaskEnds(k)

ImgSpec == ImgInit /\ [][ImgNext]_imgVars

-----------------------------------------------------------------------------
Paying(r) == req[r].charged /\ ~req[r].refunded

(* Whatever the requests of a user do to each other, the fees they pay and *)
(* what is left add up to what the user had.                               *)
MoneyConserved ==
  \A u \in Users :
    wallet[u].paid + wallet[u].gift + wallet[u].expired
      + Cardinality({r \in Requests : Owner[r] = u /\ Paying(r)}) = Paid0 + Gift0

(* "The task was never created, so the user must not pay for it"           *)
(* (GenerateImage): a request that has ended pays only for a task it has   *)
(* created.  The code leaves two ways out of it: the refund itself failed  *)
(* or the process died before it (owed), and the deduction was committed   *)
(* though it was reported as failed, for which there is no refund at all   *)
(* (unsure): the user then has the answer that the billing failed.         *)
PayOnlyForATask ==
  \A r \in Requests :
    (req[r].pc = "done" /\ Paying(r)) =>
      \/ creator[Key[r]] = r
      \/ req[r].owed
      \/ req[r].unsure /\ req[r].reply = "error"

(* And no task is for free, except when the database reported a committed  *)
(* submission as failed.                                                   *)
NoTaskForFree ==
  \A k \in Keys :
    creator[k] # Nobody => (Paying(creator[k]) \/ req[creator[k]].free)

=============================================================================
