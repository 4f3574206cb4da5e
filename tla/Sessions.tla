------------------------------ MODULE Sessions ------------------------------
(***************************************************************************)
(* Registration, login, rotation of refresh tokens, logout, deregistration *)
(* and the operators' ban (service/auth_service.go, user_guard.go,         *)
(* admin_service.go, repository/user_session_repo.go).  Every query is a   *)
(* step; nothing in the code makes two of them one transaction.            *)
(*                                                                         *)
(* First what all requests about one account share: its row, its           *)
(* verification code (pkg/kvstore), the sessions, the guard's cache, the   *)
(* subscription and the payment orders, and the requests in progress.  A   *)
(* request makes at most one session and one order, so both are named      *)
(* after it.                                                               *)
(***************************************************************************)
EXTENDS Integers, FiniteSets

CONSTANTS
  Requests,     \* the requests
  Early,        \* of those, the login of the day before, if there was one
  Kinds,        \* the kinds of requests that come
  NoRequest,
  MaxInFlight,  \* bound: requests in progress at a time
  MaxSessions,  \* device limit
  SessionTTL,   \* lifetime of a session, in ticks
  TrialTicks,
  Periods,      \* ticks a paid order may buy
  MaxTime,      \* bound of the clock
  MaxFaults     \* bound of the failing steps

ASSUME RequestsAssumption == /\ IsFiniteSet(Requests) /\ Early \subseteq Requests
                             /\ NoRequest \notin Requests /\ MaxInFlight \in Nat
ASSUME TicksAssumption == /\ MaxSessions \in Nat \ {0} /\ SessionTTL \in Nat
                          /\ TrialTicks \in Nat /\ Periods \subseteq Nat \ {0}
                          /\ MaxTime \in Nat /\ MaxFaults \in Nat

VARIABLES
  clock,
  account,  \* status of the row, or none
  code,     \* the code in the store, by number; 0 when there is none
  sent,     \* how many codes were sent
  limited,  \* the rate key of the phone is set
  session,  \* per request: whether its session's row is there, and since when
  guard,    \* the cached status, or none; and whether the row had changed when it was stored
  sub,      \* the subscription's row
  order,    \* per request: the order it made
  granted,  \* ticks handed out, by the operators and for orders
  req,
  faults

stores == <<account, code, sent, limited, session, guard, sub, order, granted>>
vars   == <<clock, account, code, sent, limited, session, guard, sub, order,
            granted, req, faults>>

Statuses == {"active", "cool", "banned"}
NoSub    == [status |-> "none", expires |-> 0]
NoOrder  == [status |-> "none", ticks |-> 0, extended |-> 0]
NoEntry  == [status |-> "none", late |-> FALSE]
NoRow    == [row |-> "none", at |-> 0, late |-> FALSE]
Fresh    == [kind |-> "none", pc |-> "idle", target |-> NoRequest,
             victim |-> NoRequest, known |-> 0, seen |-> "none", at |-> 0,
             expires |-> 0, reply |-> "none"]

Init ==
  /\ clock = 0
  /\ \/ /\ account = "none" /\ sub = NoSub
        /\ session = [r \in Requests |-> NoRow]
        /\ req = [r \in Requests |-> Fresh]
     \/ /\ account = "active" /\ sub = [status |-> "trialing", expires |-> TrialTicks]
        /\ session = [r \in Requests |->
             IF r \in Early THEN [row |-> "live", at |-> 0, late |-> FALSE] ELSE NoRow]
        /\ req = [r \in Requests |->
             IF r \in Early THEN [Fresh EXCEPT !.kind = "login", !.pc = "done", !.reply = "ok"]
                            ELSE Fresh]
  /\ code = 0 /\ sent = 0 /\ limited = FALSE
  /\ guard = NoEntry
  /\ order = [r \in Requests |-> NoOrder]
  /\ granted = 0
  /\ faults = MaxFaults

-----------------------------------------------------------------------------
At(r, pc)       == req[r].pc = pc
InProgress      == {r \in Requests : req[r].pc \notin {"idle", "done"}}
Live            == {r \in Requests : session[r].row = "live"}
Unexpired       == {r \in Live : clock < session[r].at + SessionTTL}
Goto(r, pc)     == req' = [req EXCEPT ![r].pc = pc]
Seeing(r, s, pc) == req' = [req EXCEPT ![r].seen = s, ![r].pc = pc]

(* What a request has read matters no longer once it has answered.         *)
Answered(q, x)  == [q EXCEPT !.pc = "done", !.reply = x, !.seen = "none",
                             !.expires = 0, !.known = 0, !.victim = NoRequest]
Reply(r, x)     == req' = [req EXCEPT ![r] = Answered(@, x)]

Fault           == faults > 0 /\ faults' = faults - 1
Arrive(r, kind) ==
  /\ At(r, "idle") /\ kind \in Kinds
  /\ Cardinality(InProgress) < MaxInFlight

-----------------------------------------------------------------------------

Unchanged(x) == UNCHANGED <<clock, faults, x>>

-----------------------------------------------------------------------------
(* SendCode: the rate key and the code are two writes.                     *)
SendCode(r) ==
  /\ Arrive(r, "send")
  /\ req' = [req EXCEPT ![r].kind = "send", ![r].pc = IF limited THEN "done" ELSE "setcode",
                        ![r].reply = IF limited THEN "limited" ELSE "none"]
  /\ limited' = TRUE
  /\ Unchanged(<<account, code, sent, session, guard, sub, order, granted>>)

SetCode(r) ==
  /\ At(r, "setcode")
  /\ sent' = sent + 1 /\ code' = sent + 1
  /\ Reply(r, "ok")
  /\ Unchanged(<<account, limited, session, guard, sub, order, granted>>)

(* verifyCode: get, compare, delete.                                       *)
CompareCode(r) ==
  /\ At(r, "verify")
  /\ IF code # 0 /\ code = req[r].known THEN Goto(r, "spend") ELSE Reply(r, "badcode")
  /\ Unchanged(stores)

SpendCode(r) ==
  /\ At(r, "spend")
  /\ code' = 0
  /\ IF req[r].kind = "register" THEN Goto(r, "lookup")
     ELSE IF req[r].seen = "active" THEN Goto(r, "count") ELSE Reply(r, "disabled")
  /\ Unchanged(<<account, sent, limited, session, guard, sub, order, granted>>)

-----------------------------------------------------------------------------
Register(r) ==
  /\ Arrive(r, "register")
  /\ \E n \in 1..sent :
       req' = [req EXCEPT ![r].kind = "register", ![r].pc = "verify", ![r].known = n]
  /\ Unchanged(stores)

LookUpPhone(r) ==
  /\ At(r, "lookup")
  /\ IF account = "none" THEN Goto(r, "create") ELSE Reply(r, "exists")
  /\ Unchanged(stores)

(* The phone is unique: the second of two creations fails.                 *)
CreateUser(r) ==
  /\ At(r, "create")
  /\ IF account = "none" THEN account' = "active" /\ Goto(r, "trial")
                         ELSE Reply(r, "error") /\ UNCHANGED account
  /\ Unchanged(<<code, sent, limited, session, guard, sub, order, granted>>)

NewTrial == [status |-> "trialing", expires |-> clock + TrialTicks]

(* A failure here, or a trial that is there already, is only logged.       *)
RegisterTrial(r) ==
  /\ At(r, "trial")
  /\ \/ UNCHANGED faults /\ sub' = (IF sub = NoSub THEN NewTrial ELSE sub)
     \/ Fault /\ UNCHANGED sub
  /\ Goto(r, "count")
  /\ UNCHANGED <<clock, account, code, sent, limited, session, guard, order, granted>>

(* Login reads the user first, by whatever it is authenticated afterwards. *)
Login(r) ==
  /\ Arrive(r, "login")
  /\ \/ req' = [req EXCEPT ![r].kind = "login", ![r].pc = "done", ![r].reply = "denied"]
     \/ /\ account # "none"
        /\ \E n \in 1..sent :
             req' = [req EXCEPT ![r].kind = "login", ![r].pc = "verify", ![r].known = n,
                                ![r].seen = account]
     \/ /\ account = "active"
        /\ req' = [req EXCEPT ![r].kind = "login", ![r].pc = "count"]
     \/ /\ account \in Statuses \ {"active"}
        /\ req' = [req EXCEPT ![r].kind = "login", ![r].pc = "done", ![r].reply = "disabled"]
  /\ Unchanged(stores)

-----------------------------------------------------------------------------
(* Refresh and Logout of one token: Consume reads the row, then deletes it *)
(* and looks at how many rows it deleted.  A token that has expired is     *)
(* refused by its signature check, before any of this.                     *)
Present(r) ==
  /\ \E kind \in {"refresh", "logout"} \cap Kinds, t \in Requests :
       /\ session[t].row # "none" /\ clock < session[t].at + SessionTTL
       /\ Arrive(r, kind)
       /\ req' = [req EXCEPT ![r].kind = kind, ![r].target = t,
                             ![r].pc = IF kind = "refresh" THEN "find" ELSE "gate"]
  /\ Unchanged(stores)

NotConsumed(r) == Reply(r, IF req[r].kind = "refresh" THEN "revoked" ELSE "ok")

FindToken(r) ==
  /\ At(r, "find")
  /\ IF req[r].target \in Live THEN Goto(r, "consume") ELSE NotConsumed(r)
  /\ Unchanged(stores)

(* Mutant: the number of rows deleted is not looked at.                    *)
ConsumeTokenBlind(r) ==
  LET t == req[r].target IN
  /\ At(r, "consume")
  /\ session' = [session EXCEPT ![t].row = "gone"]
  /\ IF req[r].kind = "refresh" /\ t \in Unexpired \cup (Requests \ Live)
       THEN Goto(r, "reload") ELSE NotConsumed(r)
  /\ Unchanged(<<account, code, sent, limited, guard, sub, order, granted>>)

ConsumeToken(r) ==
  LET t == req[r].target IN
  /\ At(r, "consume")
  /\ session' = [session EXCEPT ![t].row = "gone"]
  /\ IF req[r].kind = "refresh" /\ t \in Unexpired THEN Goto(r, "reload") ELSE NotConsumed(r)
  /\ Unchanged(<<account, code, sent, limited, guard, sub, order, granted>>)

ReloadUser(r) ==
  /\ At(r, "reload")
  /\ IF account = "active" THEN Goto(r, "count") ELSE Reply(r, "disabled")
  /\ Unchanged(stores)

-----------------------------------------------------------------------------
(* issueTokens: count the unexpired sessions, delete the oldest of all     *)
(* when the limit is reached, insert.  A failed eviction is only logged.   *)
CountActive(r) ==
  /\ At(r, "count")
  /\ \/ /\ UNCHANGED faults
        /\ Goto(r, IF Cardinality(Unexpired) >= MaxSessions THEN "oldest" ELSE "insert")
     \/ Fault /\ Goto(r, "insert")
  /\ UNCHANGED <<clock, stores>>

PickOldest(r) ==
  /\ At(r, "oldest")
  /\ \/ /\ Live = {} /\ Goto(r, "insert")
     \/ \E t \in Live :
          /\ \A o \in Live : session[t].at <= session[o].at
          /\ req' = [req EXCEPT ![r].victim = t, ![r].pc = "evict"]
  /\ Unchanged(stores)

EvictOldest(r) ==
  /\ At(r, "evict")
  /\ \/ UNCHANGED faults /\ session' = [session EXCEPT ![req[r].victim].row = "gone"]
     \/ Fault /\ UNCHANGED session
  /\ Goto(r, "insert")
  /\ UNCHANGED <<clock, account, code, sent, limited, guard, sub, order, granted>>

InsertSession(r) ==
  /\ At(r, "insert")
  /\ session' = [session EXCEPT ![r] = [row |-> "live", at |-> clock, late |-> account # "active"]]
  /\ Reply(r, "ok")
  /\ Unchanged(<<account, code, sent, limited, guard, sub, order, granted>>)

-----------------------------------------------------------------------------
(* The middleware: the status is cached for a while; a miss reads the row  *)
(* and stores what it has read in a second step.                           *)
Entry(r) ==
  CASE req[r].kind = "logout"    -> "find"
    [] req[r].kind = "logoutall" -> "wipe"
    [] req[r].kind = "dereg"     -> "leave"
    [] req[r].kind = "undereg"   -> "comeback"
    [] req[r].kind = "revoke"    -> "delete"
    [] req[r].kind = "order"     -> "place"
    [] req[r].kind = "view"      -> "load"

Admit(r, status) == IF status = "active" THEN Goto(r, Entry(r)) ELSE Reply(r, "forbidden")

AskGuard(r) ==
  /\ At(r, "gate")
  /\ IF guard = NoEntry THEN Seeing(r, account, "fill") ELSE Admit(r, guard.status)
  /\ Unchanged(stores)

FillGuard(r) ==
  /\ At(r, "fill")
  /\ guard' = [status |-> req[r].seen, late |-> req[r].seen # account]
  /\ Admit(r, req[r].seen)
  /\ Unchanged(<<account, code, sent, limited, session, sub, order, granted>>)

Authenticated(r) ==
  /\ account # "none"
  /\ \E kind \in {"logoutall", "dereg", "undereg"} :
       /\ Arrive(r, kind)
       /\ req' = [req EXCEPT ![r].kind = kind, ![r].pc = "gate"]
  /\ Unchanged(stores)

(* DeleteSession of the device list.                                       *)
Revoke(r) ==
  /\ Arrive(r, "revoke")
  /\ \E t \in Live : req' = [req EXCEPT ![r].kind = "revoke", ![r].target = t, ![r].pc = "gate"]
  /\ Unchanged(stores)

DeleteSession(r) ==
  /\ At(r, "delete")
  /\ session' = [session EXCEPT ![req[r].target].row = IF @ = "live" THEN "gone" ELSE @]
  /\ Reply(r, "ok")
  /\ Unchanged(<<account, code, sent, limited, guard, sub, order, granted>>)

(* RequestDeregistration: the status first, then all sessions.             *)
ReadBeforeLeaving(r) ==
  /\ At(r, "leave")
  /\ IF account = "cool" THEN Reply(r, "already") ELSE Goto(r, "cool")
  /\ Unchanged(stores)

(* Mutant: the sessions are revoked before the status is set.              *)
AllRevoked == [t \in Requests |-> IF t \in Live THEN [session[t] EXCEPT !.row = "gone"] ELSE session[t]]

CoolWipedFirst(r) ==
  \/ /\ At(r, "cool")
     /\ session' = AllRevoked
     /\ Goto(r, "cooled")
     /\ Unchanged(<<account, code, sent, limited, guard, sub, order, granted>>)
  \/ /\ At(r, "cooled")
     /\ account' = "cool"
     /\ Reply(r, "ok")
     /\ Unchanged(<<code, sent, limited, session, guard, sub, order, granted>>)

Cool(r) ==
  /\ At(r, "cool")
  /\ account' = "cool"
  /\ Goto(r, "wipe")
  /\ Unchanged(<<code, sent, limited, session, guard, sub, order, granted>>)

RevokeAll(r) ==
  /\ At(r, "wipe")
  /\ session' = AllRevoked
  /\ Reply(r, "ok")
  /\ Unchanged(<<account, code, sent, limited, guard, sub, order, granted>>)

ReadBeforeReturning(r) ==
  /\ At(r, "comeback")
  /\ IF account = "cool" THEN Goto(r, "warm") ELSE Reply(r, "notcooling")
  /\ Unchanged(stores)

Warm(r) ==
  /\ At(r, "warm")
  /\ account' = "active"
  /\ Reply(r, "ok")
  /\ Unchanged(<<code, sent, limited, session, guard, sub, order, granted>>)

-----------------------------------------------------------------------------
(* SetUserStatus by an operator.                                           *)
Operate(r) ==
  /\ account # "none"
  /\ \E kind \in {"ban", "unban"} :
       /\ Arrive(r, kind)
       /\ req' = [req EXCEPT ![r].kind = kind, ![r].pc = "setstatus"]
  /\ Unchanged(stores)

Ordered(r) == IF req[r].kind = "ban" THEN "banned" ELSE "active"

(* Mutant: the cached entry is left to its sixty seconds.                  *)
SetStatusAlone(r) ==
  /\ At(r, "setstatus")
  /\ account' = Ordered(r)
  /\ Reply(r, "ok")
  /\ Unchanged(<<code, sent, limited, session, guard, sub, order, granted>>)

SetStatus(r) ==
  /\ At(r, "setstatus")
  /\ account' = Ordered(r)
  /\ Goto(r, "invalidate")
  /\ Unchanged(<<code, sent, limited, session, guard, sub, order, granted>>)

Invalidate(r) ==
  /\ At(r, "invalidate")
  /\ guard' = NoEntry
  /\ Reply(r, "ok")
  /\ Unchanged(<<account, code, sent, limited, session, sub, order, granted>>)

-----------------------------------------------------------------------------
(* The keys and the cache entry expire by themselves.                      *)
CodeExpires ==
  /\ code # 0 /\ code' = 0
  /\ Unchanged(<<account, sent, limited, session, guard, sub, order, granted, req>>)

RateExpires ==
  /\ limited /\ limited' = FALSE
  /\ Unchanged(<<account, code, sent, session, guard, sub, order, granted, req>>)

GuardExpires ==
  /\ guard # NoEntry /\ guard' = NoEntry
  /\ Unchanged(<<account, code, sent, limited, session, sub, order, granted, req>>)

SessionStep(r) ==
  \/ SendCode(r) \/ SetCode(r) \/ CompareCode(r) \/ SpendCode(r)
  \/ Register(r) \/ LookUpPhone(r) \/ CreateUser(r) \/ RegisterTrial(r)
  \/ Login(r) \/ Present(r) \/ FindToken(r) \/ ConsumeToken(r) \/ ReloadUser(r)
  \/ CountActive(r) \/ PickOldest(r) \/ EvictOldest(r) \/ InsertSession(r)
  \/ AskGuard(r) \/ FillGuard(r) \/ Authenticated(r) \/ Revoke(r) \/ DeleteSession(r)
  \/ ReadBeforeLeaving(r) \/ Cool(r) \/ RevokeAll(r)
  \/ ReadBeforeReturning(r) \/ Warm(r)
  \/ Operate(r) \/ SetStatus(r) \/ Invalidate(r)
=============================================================================
