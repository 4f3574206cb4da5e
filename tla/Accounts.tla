------------------------------ MODULE Accounts ------------------------------
(***************************************************************************)
(* Payment orders, their notifications and the subscription they extend    *)
(* (service/payment_service.go, subscription_service.go, admin_service.go, *)
(* repository/payment_order_repo.go, subscription_repo.go), over the same  *)
(* tables as Sessions, with the passage of time, failing queries and the   *)
(* death of the process.  The status of the subscription a reader sees is  *)
(* derived from the clock; the row is written by a read followed by a      *)
(* write of the whole row.                                                 *)
(***************************************************************************)
EXTENDS Sessions

(* CreateOrder; the sandbox pays at once through the same Notify.          *)
AskForOrder(r) ==
  /\ account # "none"
  /\ \E kind \in {"order", "view"} :
       /\ Arrive(r, kind)
       /\ req' = [req EXCEPT ![r].kind = kind, ![r].pc = "gate"]
  /\ Unchanged(stores)

CreateOrder(r) ==
  /\ At(r, "place")
  /\ \E ticks \in Periods, sandbox \in BOOLEAN :
       /\ order' = [order EXCEPT ![r].status = "created", ![r].ticks = ticks]
       /\ req' = [req EXCEPT ![r] =
            IF sandbox THEN [@ EXCEPT !.pc = "read", !.target = r] ELSE Answered(@, "ok")]
  /\ Unchanged(<<account, code, sent, limited, session, guard, sub, granted>>)

(* A channel notifies, and may notify again.                               *)
Notified(r) ==
  /\ Arrive(r, "notify")
  /\ \E o \in Requests :
       /\ order[o].status # "none"
       /\ req' = [req EXCEPT ![r].kind = "notify", ![r].pc = "read", ![r].target = o]
  /\ Unchanged(stores)

ReadOrder(r) ==
  /\ At(r, "read")
  /\ IF order[req[r].target].status = "paid" THEN Reply(r, "ok")
     ELSE req' = [req EXCEPT ![r].pc = "mark", ![r].at = clock]
  /\ Unchanged(stores)

(* Mutant: the update is not conditional on the status.                    *)
MarkPaidAlways(r) ==
  /\ At(r, "mark")
  /\ order' = [order EXCEPT ![req[r].target].status = "paid"]
  /\ Goto(r, "load")
  /\ Unchanged(<<account, code, sent, limited, session, guard, sub, granted>>)

(* The conditional update; only its winner goes on to extend.              *)
MarkPaid(r) ==
  LET won == order[req[r].target].status = "created" IN
  /\ At(r, "mark")
  /\ order' = [order EXCEPT ![req[r].target].status = "paid"]
  /\ IF won THEN Goto(r, "load") ELSE Reply(r, "ok")
  /\ Unchanged(<<account, code, sent, limited, session, guard, sub, granted>>)

Fulfils(r) == req[r].kind \in {"order", "notify"}

(* loadOrStartTrial, for the view and for Extend.                          *)
LoadSubscription(r) ==
  /\ At(r, "load")
  /\ IF sub = NoSub THEN Goto(r, "starttrial")
     ELSE IF req[r].kind = "view" THEN Reply(r, "ok")
     ELSE req' = [req EXCEPT ![r].expires = sub.expires, ![r].pc = "extend"]
  /\ Unchanged(stores)

StartTrial(r) ==
  /\ At(r, "starttrial")
  /\ IF sub = NoSub
       THEN sub' = NewTrial /\ Goto(r, "load")
       ELSE Reply(r, "error") /\ UNCHANGED sub
  /\ Unchanged(<<account, code, sent, limited, session, guard, order, granted>>)

Later(a, b) == IF a > b THEN a ELSE b

Extend(r) ==
  LET o == req[r].target IN
  /\ At(r, "extend") /\ Fulfils(r)
  /\ sub' = [status |-> "active", expires |-> Later(req[r].at, req[r].expires) + order[o].ticks]
  /\ order' = [order EXCEPT ![o].extended = @ + 1]
  /\ granted' = granted + order[o].ticks
  /\ Reply(r, "ok")
  /\ Unchanged(<<account, code, sent, limited, session, guard>>)

(* ExtendSubscription by an operator: the same computation, no order.      *)
Grant(r) ==
  /\ Arrive(r, "grant")
  /\ req' = [req EXCEPT ![r].kind = "grant",
       ![r].pc = IF sub = NoSub THEN "done" ELSE "extend",
       ![r].reply = IF sub = NoSub THEN "notfound" ELSE "none",
       ![r].at = clock, ![r].expires = sub.expires]
  /\ Unchanged(stores)

SaveGrant(r) ==
  /\ At(r, "extend") /\ req[r].kind = "grant"
  /\ \E ticks \in Periods :
       /\ sub' = [status |-> "active", expires |-> Later(req[r].at, req[r].expires) + ticks]
       /\ granted' = granted + ticks
  /\ Reply(r, "ok")
  /\ Unchanged(<<account, code, sent, limited, session, guard, order>>)

SubscriptionStep(r) ==
  \/ AskForOrder(r) \/ CreateOrder(r) \/ Notified(r) \/ ReadOrder(r) \/ MarkPaid(r)
  \/ LoadSubscription(r) \/ StartTrial(r) \/ Extend(r) \/ Grant(r) \/ SaveGrant(r)

-----------------------------------------------------------------------------
Tick ==
  /\ clock < MaxTime
  /\ clock' = clock + 1
  /\ UNCHANGED <<stores, req, faults>>

(* A change of the status that was not followed by what should follow it.  *)
Halfway(q) == (q.kind = "dereg" /\ q.pc = "wipe") \/ (q.kind = "ban" /\ q.pc = "invalidate")
Ended(q)   == Answered(q, IF Halfway(q) THEN "halfway" ELSE "error")

(* A query fails, or answers an error though it was committed, or the      *)
(* client has left: the handler answers an error.  What it has written     *)
(* stays.                                                                  *)
Fail(r) ==
  /\ r \in InProgress /\ Fault
  /\ req' = [req EXCEPT ![r] = Ended(@)]
  /\ UNCHANGED <<clock, account, code, sent, limited, session, guard, sub, order, granted>>

(* The process dies with its cache; MemStore dies with it, Redis does not. *)
Crash ==
  /\ InProgress # {} /\ Fault
  /\ req' = [r \in Requests |-> IF r \in InProgress THEN Ended(req[r]) ELSE req[r]]
  /\ guard' = NoEntry
  /\ \/ UNCHANGED <<code, limited>>
     \/ code' = 0 /\ limited' = FALSE
  /\ UNCHANGED <<clock, account, sent, session, sub, order, granted>>

Next ==
  \/ Tick \/ Crash \/ CodeExpires \/ RateExpires \/ GuardExpires
  \/ \E r \in Requests : SessionStep(r) \/ SubscriptionStep(r) \/ Fail(r)

Spec == Init /\ [][Next]_vars

-----------------------------------------------------------------------------
(* "Two concurrent refreshes cannot both win" (UserSessionRepository): a   *)
(* refresh token is dead once it has been exchanged, and is exchanged for  *)
(* one session, whoever presents it and however often.                     *)
RotationIsLinear ==
  \A r \in Requests : (req[r].kind = "refresh" /\ session[r].row # "none") =>
    /\ session[req[r].target].row = "gone"
    /\ \A q \in Requests \ {r} :
         (req[q].kind = "refresh" /\ req[q].target = req[r].target) => session[q].row = "none"

(* "Revoke all sessions so the account cannot keep acting while cooling"   *)
(* (RequestDeregistration): a session of a cooling account is about to be  *)
(* revoked, or was inserted by a request that had checked the status       *)
(* before, or the revocation itself failed.                                *)
CoolingIsQuiet ==
  account = "cool" =>
    \/ \A t \in Live : session[t].late
    \/ \E r \in Requests : req[r].kind = "dereg" /\ (At(r, "wipe") \/ req[r].reply = "halfway")

(* "... and drops the cached guard entry so the change applies from the    *)
(* very next request" (SetUserStatus): what the guard says of a banned     *)
(* account is not that it is active, unless the ban has yet to drop the    *)
(* entry or was told that its update had failed, or the entry was stored   *)
(* by a lookup that had read the row before the ban.                       *)
BanIsSeen ==
  (account = "banned" /\ guard.status = "active") =>
    \/ guard.late
    \/ \E r \in Requests : req[r].kind = "ban" /\ (At(r, "invalidate") \/ req[r].reply = "halfway")

(* No time for free: a subscription ends no later than the trial and the   *)
(* time handed out allow, and time is handed out once for an order, which  *)
(* has been paid for, however often a channel notifies.                    *)
NoFreeTime ==
  /\ sub # NoSub => sub.expires <= clock + TrialTicks + granted
  /\ \A o \in Requests : order[o].extended = 0 \/ (order[o].extended = 1 /\ order[o].status = "paid")
=============================================================================
