---------------------------- MODULE TokenWallet ----------------------------
(***************************************************************************)
(* What the token account promises its callers, with no versions, retries  *)
(* or transactions: a call that succeeds changes the wallet in one atomic  *)
(* step, acting on the balances of that very moment, and writes one line   *)
(* of the statement; a call that is refused changes nothing; an error      *)
(* leaves open whether the change was made, but it is made once or not at  *)
(* all.  Only the clock reading by which a gift is judged may be older     *)
(* than the step.                                                          *)
(* TokenLedger is shown to implement this.                                 *)
(***************************************************************************)
EXTENDS Integers, Sequences

CONSTANTS Ops, Units, GiftValid

VARIABLES paid, gift, until, statement, req, clock

wvars == <<paid, gift, until, statement, req, clock>>

(* Gift that may still be spent at the time the call looked at the clock.  *)
Usable(r) == IF r.at >= until THEN 0 ELSE gift
Spent(r)  == IF Usable(r) < r.units THEN Usable(r) ELSE r.units

WInit ==
  /\ paid = 0 /\ gift = 0 /\ until = 0 /\ clock = 0
  /\ statement = <<>>
  /\ req \in [Ops -> {[stage |-> "idle", kind |-> "consume", units |-> u,
                       at |-> 0, result |-> "none"] : u \in Units}]

Ask(o) ==
  /\ req[o].stage = "idle"
  /\ \E k \in {"consume", "credit", "grant", "recharge"} :
       req' = [req EXCEPT ![o].stage = "asked", ![o].kind = k, ![o].at = clock]
  /\ UNCHANGED <<paid, gift, until, statement, clock>>

LookAtClock(o) ==
  /\ req[o].stage = "asked"
  /\ req' = [req EXCEPT ![o].at = clock]
  /\ UNCHANGED <<paid, gift, until, statement, clock>>

Write(o, delta) ==
  /\ req[o].stage = "asked"
  /\ statement' = Append(statement, [op |-> o, delta |-> delta])
  /\ \E r \in {"ok", "error"} :
       req' = [req EXCEPT ![o].stage = "done", ![o].result = r]
  /\ UNCHANGED clock

Debit(o) ==
  LET r == req[o] IN
  /\ r.kind = "consume"
  /\ r.units <= paid + Usable(r)
  /\ gift' = gift - Spent(r)
  /\ paid' = paid - (r.units - Spent(r))
  /\ Write(o, 0 - r.units)
  /\ UNCHANGED until

Grant(o) ==
  /\ req[o].kind = "grant"
  /\ gift' = gift + req[o].units
  /\ until' = req[o].at + GiftValid
  /\ Write(o, req[o].units)
  /\ UNCHANGED paid

Deposit(o) ==
  /\ req[o].kind \in {"credit", "recharge"}
  /\ paid' = paid + req[o].units
  /\ Write(o, req[o].units)
  /\ UNCHANGED <<gift, until>>

(* Insufficient is an honest answer: at this moment it is true.            *)
Refuse(o) ==
  /\ req[o].stage = "asked"
  /\ req[o].kind = "consume"
  /\ req[o].units > paid + (IF clock >= until THEN 0 ELSE gift)
  /\ \E t \in {req[o].at, clock} :
       req' = [req EXCEPT ![o].stage = "done", ![o].result = "insufficient",
                          ![o].at = t]
  /\ UNCHANGED <<paid, gift, until, statement, clock>>

GiveUp(o) ==
  /\ req[o].stage = "asked"
  /\ \E r \in {"notfound", "busy", "error"} :
       req' = [req EXCEPT ![o].stage = "done", ![o].result = r]
  /\ UNCHANGED <<paid, gift, until, statement, clock>>

Pass ==
  /\ clock' = clock + 1
  /\ UNCHANGED <<paid, gift, until, statement, req>>

WNext ==
  \/ Pass
  \/ \E o \in Ops : \/ Ask(o) \/ LookAtClock(o)
                    \/ Debit(o) \/ Grant(o) \/ Deposit(o)
                    \/ Refuse(o) \/ GiveUp(o)

WSpec == WInit /\ [][WNext]_wvars
=============================================================================
