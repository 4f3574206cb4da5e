--------------------------- MODULE Accounts_proofs ----------------------------
(***************************************************************************)
(* Proofs about Accounts, for any set of requests, any limits and times:   *)
(* a refresh token is exchanged for one session, a cooling account is      *)
(* quiet, a ban is overlooked only for its own moment, and no time is had  *)
(* for free.  Then about the browser's end of a session: the socket that   *)
(* carries the events (Socket), and the pages that share a sign-in         *)
(* (AuthClient).                                                           *)
(***************************************************************************)
EXTENDS Accounts, Socket, Integers, Sequences, FiniteSets, FunctionTheorems, SequenceTheorems, TLAPS

(* What a request of each kind goes through.                               *)
Issuing == {"count", "oldest", "evict", "insert", "done"}
Paying  == {"read", "mark", "load", "starttrial", "extend"}
Course(kind, pc) ==
  \/ kind = "none" /\ pc = "idle"
  \/ kind = "send" /\ pc \in {"setcode", "done"}
  \/ kind = "register" /\ pc \in {"verify", "spend", "lookup", "create", "trial"} \cup Issuing
  \/ kind = "login" /\ pc \in {"verify", "spend"} \cup Issuing
  \/ kind = "refresh" /\ pc \in {"find", "consume", "reload"} \cup Issuing
  \/ kind = "logout" /\ pc \in {"gate", "fill", "find", "consume", "done"}
  \/ kind = "logoutall" /\ pc \in {"gate", "fill", "wipe", "done"}
  \/ kind = "dereg" /\ pc \in {"gate", "fill", "leave", "cool", "wipe", "done"}
  \/ kind = "undereg" /\ pc \in {"gate", "fill", "comeback", "warm", "done"}
  \/ kind = "revoke" /\ pc \in {"gate", "fill", "delete", "done"}
  \/ kind = "view" /\ pc \in {"gate", "fill", "load", "starttrial", "done"}
  \/ kind = "order" /\ pc \in {"gate", "fill", "place", "done"} \cup Paying
  \/ kind = "notify" /\ pc \in {"done"} \cup Paying
  \/ kind = "grant" /\ pc \in {"extend", "done"}
  \/ kind \in {"ban", "unban"} /\ pc \in {"setstatus", "invalidate", "done"}
OnCourse(q) == Course(q.kind, q.pc)

Standing  == Statuses \cup {"none"}
Somebody  == Requests \cup {NoRequest}
Names     == {"none", "send", "register", "login", "refresh", "logout", "logoutall", "dereg", "undereg",
              "revoke", "view", "order", "notify", "grant", "ban", "unban"}
Places    == {"idle", "setcode", "verify", "spend", "lookup", "create", "trial", "find", "consume", "reload",
              "gate", "fill", "wipe", "leave", "cool", "comeback", "warm", "delete", "place", "setstatus",
              "invalidate"} \cup Issuing \cup Paying
Answers   == {"none", "ok", "limited", "badcode", "disabled", "exists", "error", "denied", "revoked",
              "forbidden", "already", "notcooling", "halfway", "notfound"}
Request   == [kind : Names, pc : Places, target : Somebody, victim : Somebody, known : Nat, seen : Standing,
              at : Nat, expires : Nat, reply : Answers]
Row       == [row : {"none", "live", "gone"}, at : Nat, late : BOOLEAN]
Order     == [status : {"none", "created", "paid"}, ticks : Nat, extended : Nat]

TypeOK ==
  /\ clock \in Nat /\ sent \in Nat /\ code \in Nat /\ granted \in Nat /\ faults \in Nat
  /\ limited \in BOOLEAN
  /\ account \in Standing /\ guard \in [status : Standing, late : BOOLEAN]
  /\ sub \in [status : {"none", "trialing", "active"}, expires : Nat]
  /\ session \in [Requests -> Row]
  /\ order \in [Requests -> Order]
  /\ req \in [Requests -> Request]

(* What a request works on is there: the session it presents or evicts     *)
(* has been made, the order it fulfils is somebody's.                      *)
Grounded(q) ==
  /\ q.kind \in {"refresh", "logout"} => q.target \in Requests /\ session[q.target].row # "none"
  /\ q.pc = "evict" => q.victim \in Requests /\ session[q.victim].row # "none"
  /\ q.kind \in {"order", "notify"} /\ q.pc \in Paying => q.target \in Requests
  /\ q.reply = "halfway" => q.pc = "done"

(* A refresh that has consumed its token, on its way to a session.         *)
Rotating(q) == q.kind = "refresh" /\ q.pc \in {"reload", "count", "oldest", "evict", "insert"}
Won(r)      == Rotating(req[r]) \/ (req[r].kind = "refresh" /\ session[r].row # "none")

RotationInv ==
  \A r \in Requests :
    /\ session[r].row # "none" => req[r].pc = "done"
    /\ Won(r) => /\ session[req[r].target].row = "gone"
                 /\ \A q \in Requests \ {r} : Won(q) => req[q].target # req[r].target

(* Who has set the account cooling revokes its sessions, or has died of it *)
Leaving(q) == q.kind = "dereg" /\ (q.pc = "wipe" \/ q.reply = "halfway")
CoolingInv ==
  account = "cool" => \/ \A t \in Live : session[t].late
                      \/ \E r \in Requests : Leaving(req[r])

IInv ==
  /\ TypeOK
  /\ \A r \in Requests : OnCourse(req[r]) /\ Grounded(req[r])
  /\ RotationInv /\ CoolingInv

-------------------------------------------------------------------------------
(* What most steps do: one request moves on, sessions only end, and nobody *)
(* is sent away cooling.                                                   *)
Ebbs ==
  \A t \in Requests : /\ session'[t].late = session[t].late
                      /\ \/ session'[t].row = session[t].row
                         \/ session[t].row # "none" /\ session'[t].row = "gone"
Wins(r) ==
  LET t == req'[r].target IN t \in Requests /\ session[t].row = "live" /\ session'[t].row = "gone"

Step(r) ==
  /\ \A x \in Requests \ {r} : req'[x] = req[x]
  /\ req[r].pc # "done"
  /\ OnCourse(req'[r]) /\ Grounded(req[r])'
  /\ Ebbs
  /\ Rotating(req'[r]) => Wins(r) \/ (Rotating(req[r]) /\ req'[r].target = req[r].target)
  /\ account' = "cool" => account = "cool"
  /\ Leaving(req[r]) => Leaving(req'[r]) \/ \A t \in Requests : session'[t].row # "live"

LEMMA StepKeeps ==
  ASSUME IInv, TypeOK', NEW r \in Requests, Step(r)
  PROVE  IInv'
<1>1. ASSUME NEW x \in Requests PROVE OnCourse(req'[x]) /\ Grounded(req[x])'
  <2>1. CASE x = r
    BY <2>1 DEF Step
  <2>2. CASE x # r
    <3>1. req'[x] = req[x] /\ OnCourse(req[x]) /\ Grounded(req[x])
      BY <2>2 DEF Step, IInv
    <3> QED
      BY <3>1 DEF Grounded, Step, Ebbs
  <2> QED
    BY <2>1, <2>2
<1>2. ASSUME NEW x \in Requests, session'[x].row # "none" PROVE session[x].row # "none" /\ x # r /\ req'[x].pc = "done"
  BY <1>2 DEF Step, Ebbs, IInv, RotationInv
<1>3. ASSUME NEW x \in Requests, Won(x)', ~Wins(r) \/ x # r PROVE Won(x) /\ req'[x].target = req[x].target
  BY <1>3, <1>2 DEF Step, Won
<1>4. ASSUME NEW x \in Requests, Won(x)'
      PROVE  /\ session'[req'[x].target].row = "gone"
             /\ \A q \in Requests \ {x} : Won(q)' => req'[q].target # req'[x].target
  <2>1. ASSUME NEW y \in Requests, Won(y) PROVE session[req[y].target].row = "gone" /\ req[y].target \in Requests
    BY <2>1 DEF IInv, RotationInv, Won, Rotating, Grounded
  <2>2. \A t \in Requests : session[t].row = "gone" => session'[t].row = "gone"
    BY DEF Step, Ebbs
  <2>3. CASE x = r /\ Wins(r)
    BY <2>1, <2>3, <1>3, <1>4 DEF Wins
  <2>4. CASE ~Wins(r) \/ x # r
    <3>1. Won(x) /\ req'[x].target = req[x].target
      BY <1>3, <1>4, <2>4
    <3>2. session'[req'[x].target].row = "gone"
      BY <3>1, <2>1, <2>2
    <3>3. ASSUME NEW q \in Requests \ {x}, Won(q)' PROVE req'[q].target # req'[x].target
      <4>1. CASE q = r /\ Wins(r)
        BY <4>1, <3>1, <2>1 DEF Wins
      <4>2. CASE ~Wins(r) \/ q # r
        BY <4>2, <3>1, <3>3, <1>3 DEF IInv, RotationInv
      <4> QED
        BY <4>1, <4>2
    <3> QED
      BY <3>2, <3>3
  <2> QED
    BY <2>3, <2>4
<1>5. RotationInv'
  BY <1>2, <1>4 DEF RotationInv
<1>6. CoolingInv'
  <2> SUFFICES ASSUME account' = "cool" PROVE CoolingInv'
    BY DEF CoolingInv
  <2>1. CASE \A t \in Live : session[t].late
    BY <2>1 DEF CoolingInv, Step, Ebbs, Live
  <2>2. ASSUME NEW x \in Requests, Leaving(req[x]) PROVE CoolingInv'
    BY <2>2 DEF CoolingInv, Step, Live
  <2> QED
    BY <2>1, <2>2 DEF IInv, CoolingInv, Step
<1> QED
  BY <1>1, <1>5, <1>6 DEF IInv

-------------------------------------------------------------------------------
LEMMA Words ==
  /\ "none" \in Names /\ "send" \in Names /\ "register" \in Names /\ "login" \in Names /\ "refresh" \in Names
  /\ "logout" \in Names /\ "logoutall" \in Names /\ "dereg" \in Names /\ "undereg" \in Names /\ "revoke" \in Names
  /\ "view" \in Names /\ "order" \in Names /\ "notify" \in Names /\ "grant" \in Names /\ "ban" \in Names
  /\ "unban" \in Names
  /\ "idle" \in Places /\ "setcode" \in Places /\ "verify" \in Places /\ "spend" \in Places /\ "lookup" \in Places
  /\ "create" \in Places /\ "trial" \in Places /\ "find" \in Places /\ "consume" \in Places /\ "reload" \in Places
  /\ "gate" \in Places /\ "fill" \in Places /\ "wipe" \in Places /\ "leave" \in Places /\ "cool" \in Places
  /\ "comeback" \in Places /\ "warm" \in Places /\ "delete" \in Places /\ "place" \in Places /\ "setstatus" \in Places
  /\ "invalidate" \in Places /\ "count" \in Places /\ "oldest" \in Places /\ "evict" \in Places /\ "insert" \in Places
  /\ "done" \in Places /\ "read" \in Places /\ "mark" \in Places /\ "load" \in Places /\ "starttrial" \in Places
  /\ "extend" \in Places
  /\ "none" \in Answers /\ "ok" \in Answers /\ "limited" \in Answers /\ "badcode" \in Answers /\ "disabled" \in Answers
  /\ "exists" \in Answers /\ "error" \in Answers /\ "denied" \in Answers /\ "revoked" \in Answers /\ "forbidden" \in Answers
  /\ "already" \in Answers /\ "notcooling" \in Answers /\ "halfway" \in Answers /\ "notfound" \in Answers
  /\ NoRequest \in Somebody /\ "none" \in Standing /\ \A r \in Requests : r \in Somebody
BY DEF Names, Places, Issuing, Paying, Answers, Somebody, Standing

(* A request that only goes to its next query, and one that answers        *)
LEMMA GotoMoves ==
  ASSUME TypeOK, NEW r \in Requests, NEW p \in Places, Goto(r, p)
  PROVE  /\ req' \in [Requests -> Request]
         /\ \A x \in Requests \ {r} : req'[x] = req[x]
         /\ req'[r] = [req[r] EXCEPT !.pc = p]
         /\ req'[r].kind = req[r].kind /\ req'[r].pc = p
         /\ req'[r].target = req[r].target /\ req'[r].victim = req[r].victim /\ req'[r].reply = req[r].reply
<1>1. req \in [Requests -> Request] /\ req[r] \in Request
  BY DEF TypeOK
<1>2. req' = [req EXCEPT ![r] = [req[r] EXCEPT !.pc = p]]
  BY DEF Goto
<1>3. [req[r] EXCEPT !.pc = p] \in Request
  BY <1>1 DEF Request
<1> QED
  BY <1>1, <1>2, <1>3 DEF Request

LEMMA ReplyMoves ==
  ASSUME TypeOK, NEW r \in Requests, NEW a \in Answers, Reply(r, a)
  PROVE  /\ req' \in [Requests -> Request]
         /\ \A x \in Requests \ {r} : req'[x] = req[x]
         /\ req'[r].kind = req[r].kind /\ req'[r].pc = "done"
         /\ req'[r].target = req[r].target /\ req'[r].reply = a
<1>1. req \in [Requests -> Request] /\ req[r] \in Request
  BY DEF TypeOK
<1>2. req' = [req EXCEPT ![r] = Answered(req[r], a)]
  BY DEF Reply
<1>3. Answered(req[r], a) \in Request
  BY <1>1 DEF Request, Answered, Places, Issuing, Somebody, Standing
<1>4. /\ Answered(req[r], a).kind = req[r].kind /\ Answered(req[r], a).pc = "done"
      /\ Answered(req[r], a).target = req[r].target /\ Answered(req[r], a).reply = a
  BY <1>1 DEF Request, Answered
<1> QED
  BY <1>1, <1>2, <1>3, <1>4

LEMMA GoesOn ==
  ASSUME IInv, NEW r \in Requests, NEW p \in Places \ {"evict", "done"}, Goto(r, p), Ebbs,
         Course(req[r].kind, p), req[r].pc # "done", ~Leaving(req[r]),
         account' = "cool" => account = "cool",
         req[r].kind = "refresh" => p \in {"find", "consume"} \/ Rotating(req[r]) \/ Wins(r),
         req[r].kind \in {"order", "notify"} /\ p \in Paying => req[r].target \in Requests
  PROVE  Step(r)
<1>1. TypeOK /\ Grounded(req[r])
  BY DEF IInv
<1>2. /\ \A x \in Requests \ {r} : req'[x] = req[x]
      /\ req'[r] = [req[r] EXCEPT !.pc = p]
      /\ req'[r].kind = req[r].kind /\ req'[r].pc = p
      /\ req'[r].target = req[r].target /\ req'[r].reply = req[r].reply
  BY <1>1, GotoMoves
<1>3. Grounded(req[r])'
  BY <1>1, <1>2 DEF Grounded, Ebbs, Leaving
<1> QED
  BY <1>2, <1>3 DEF Step, Rotating, OnCourse

LEMMA Ends ==
  ASSUME IInv, NEW r \in Requests, NEW a \in Answers, Reply(r, a), Ebbs, req[r].pc \notin {"idle", "done"},
         account' = "cool" => account = "cool",
         Leaving(req[r]) => a = "halfway" \/ \A t \in Requests : session'[t].row # "live"
  PROVE  Step(r)
<1>1. TypeOK /\ Grounded(req[r]) /\ OnCourse(req[r])
  BY DEF IInv
<1>2. /\ \A x \in Requests \ {r} : req'[x] = req[x]
      /\ req'[r].kind = req[r].kind /\ req'[r].pc = "done"
      /\ req'[r].target = req[r].target /\ req'[r].reply = a
  BY <1>1, ReplyMoves
<1>3. Grounded(req[r])'
  BY <1>1, <1>2 DEF Grounded, Ebbs, Paying
<1>4. OnCourse(req'[r])
  BY <1>1, <1>2 DEF OnCourse, Course, Issuing, Paying
<1>5. ~Rotating(req'[r])
  BY <1>2 DEF Rotating
<1> QED
  BY <1>2, <1>3, <1>4, <1>5 DEF Step, Leaving

(* The steps of a request that writes neither sessions nor the account.    *)
LEMMA GoesOnQuietly ==
  ASSUME IInv, NEW r \in Requests, NEW p \in Places \ {"evict", "done"}, Goto(r, p), UNCHANGED <<session, account>>,
         Course(req[r].kind, p), req[r].pc # "done", req[r].pc # "wipe",
         req[r].kind = "refresh" => p \in {"find", "consume"} \/ Rotating(req[r]),
         req[r].kind \in {"order", "notify"} /\ p \in Paying => req[r].pc \in Paying
  PROVE  req' \in [Requests -> Request] /\ Step(r)
<1>1. TypeOK /\ Grounded(req[r])
  BY DEF IInv
<1>2. Ebbs
  BY DEF Ebbs
<1>3. ~Leaving(req[r])
  BY <1>1 DEF Leaving, Grounded
<1>4. req[r].kind \in {"order", "notify"} /\ p \in Paying => req[r].target \in Requests
  BY <1>1 DEF Grounded
<1> QED
  BY <1>1, <1>2, <1>3, <1>4, GotoMoves, GoesOn

LEMMA EndsQuietly ==
  ASSUME IInv, NEW r \in Requests, NEW a \in Answers, Reply(r, a), UNCHANGED <<session, account>>,
         req[r].pc \notin {"idle", "done", "wipe"}
  PROVE  req' \in [Requests -> Request] /\ Step(r)
<1>1. TypeOK /\ Grounded(req[r])
  BY DEF IInv
<1>2. Ebbs
  BY DEF Ebbs
<1>3. ~Leaving(req[r])
  BY <1>1 DEF Leaving, Grounded
<1> QED
  BY <1>1, <1>2, <1>3, ReplyMoves, Ends

(* A request that has just come.                                           *)
Newcomer(q) ==
  /\ q \in Request /\ OnCourse(q) /\ ~Rotating(q) /\ q.pc # "evict" /\ q.reply # "halfway"
  /\ q.kind \in {"refresh", "logout"} => q.target \in Requests /\ session[q.target].row # "none"
  /\ q.kind \in {"order", "notify"} /\ q.pc \in Paying => q.target \in Requests

LEMMA Arrives ==
  ASSUME IInv, NEW r \in Requests, At(r, "idle"), NEW q, Newcomer(q), req' = [req EXCEPT ![r] = q],
         UNCHANGED <<session, account>>
  PROVE  req' \in [Requests -> Request] /\ Step(r)
<1>1. req \in [Requests -> Request] /\ req[r] \in Request /\ req[r].pc = "idle" /\ OnCourse(req[r]) /\ Grounded(req[r])
  BY DEF IInv, TypeOK, At
<1>2. req' \in [Requests -> Request] /\ req'[r] = q /\ \A x \in Requests \ {r} : req'[x] = req[x]
  BY <1>1 DEF Newcomer
<1>3. ~Leaving(req[r])
  BY <1>1 DEF Leaving, Grounded
<1>4. Grounded(req[r])'
  BY <1>2 DEF Grounded, Newcomer
<1> QED
  BY <1>1, <1>2, <1>3, <1>4 DEF Step, Ebbs, Newcomer

(* A request that goes to its next query with what it has read.             *)
LEMMA MovesTo ==
  ASSUME IInv, NEW r \in Requests, NEW q \in Request, req' = [req EXCEPT ![r] = q], UNCHANGED <<session, account>>,
         OnCourse(q), Grounded(q), q.kind = req[r].kind, q.reply = req[r].reply, req[r].pc \notin {"done", "wipe"},
         Rotating(q) => Rotating(req[r]) /\ q.target = req[r].target
  PROVE  req' \in [Requests -> Request] /\ Step(r)
<1>1. req \in [Requests -> Request] /\ req[r] \in Request /\ Grounded(req[r])
  BY DEF IInv, TypeOK
<1>2. req' \in [Requests -> Request] /\ req'[r] = q /\ \A x \in Requests \ {r} : req'[x] = req[x]
  BY <1>1
<1>3. ~Leaving(req[r])
  BY <1>1 DEF Leaving, Grounded
<1>4. Grounded(req[r])'
  BY <1>2 DEF Grounded
<1> QED
  BY <1>1, <1>2, <1>3, <1>4 DEF Step, Ebbs

LEMMA Arrivals ==
  ASSUME IInv, NEW r \in Requests,
         SendCode(r) \/ Register(r) \/ Login(r) \/ Present(r) \/ Authenticated(r) \/ Revoke(r) \/ Operate(r)
           \/ AskForOrder(r) \/ Notified(r) \/ Grant(r)
  PROVE  TypeOK' /\ Step(r)
<1>1. /\ At(r, "idle") /\ req \in [Requests -> Request] /\ req[r] \in Request /\ req[r].reply # "halfway"
      /\ req[r].pc = "idle" /\ UNCHANGED <<clock, faults, account, code, sent, session, guard, sub, order, granted>>
      /\ limited' \in BOOLEAN
  <2>1. At(r, "idle") /\ UNCHANGED <<clock, faults, account, code, sent, session, guard, sub, order, granted>>
    BY Zenon DEF SendCode, Register, Login, Present, Authenticated, Revoke, Operate, AskForOrder, Notified, Grant,
           Arrive, Unchanged, stores
  <2>2. limited' \in BOOLEAN
    BY Zenon DEF SendCode, Register, Login, Present, Authenticated, Revoke, Operate, AskForOrder, Notified, Grant,
           Unchanged, stores, IInv, TypeOK
  <2> QED
    BY <2>1, <2>2 DEF At, IInv, TypeOK, Grounded
<1>2. /\ sent \in Nat /\ clock \in Nat /\ sub.expires \in Nat /\ account \in Standing
      /\ \A n \in 1..sent : n \in Nat
  BY DEF IInv, TypeOK
<1>3. SUFFICES \E q : Newcomer(q) /\ req' = [req EXCEPT ![r] = q]
  <2>1. req' \in [Requests -> Request] /\ Step(r)
    BY <1>1, <1>3, Arrives
  <2> QED
    BY <1>1, <2>1 DEF IInv, TypeOK
<1>4. CASE SendCode(r)
  <2> DEFINE q == [req[r] EXCEPT !.kind = "send", !.pc = IF limited THEN "done" ELSE "setcode",
                                 !.reply = IF limited THEN "limited" ELSE "none"]
  <2>1. req' = [req EXCEPT ![r] = q]
    BY <1>4 DEF SendCode
  <2>2. q \in Request /\ q.kind = "send" /\ q.pc = (IF limited THEN "done" ELSE "setcode") /\ q.reply = (IF limited THEN "limited" ELSE "none")
    BY <1>1, Words DEF Request
  <2> HIDE DEF q
  <2>3. Newcomer(q)
    BY <1>1, <2>2 DEF Newcomer, OnCourse, Course, Rotating, Issuing, Paying
  <2> QED
    BY <2>1, <2>3
<1>5. CASE Register(r)
  <2>1. PICK n \in Nat : req' = [req EXCEPT ![r].kind = "register", ![r].pc = "verify", ![r].known = n]
    BY <1>5, <1>2 DEF Register
  <2> DEFINE q == [req[r] EXCEPT !.kind = "register", !.pc = "verify", !.known = n]
  <2>2. req' = [req EXCEPT ![r] = q]
    BY <2>1
  <2>3. q \in Request /\ q.kind = "register" /\ q.pc = "verify" /\ q.reply = req[r].reply
    BY <1>1, <1>2, Words DEF Request
  <2> HIDE DEF q
  <2>4. Newcomer(q)
    BY <1>1, <2>3 DEF Newcomer, OnCourse, Course, Rotating, Issuing, Paying
  <2> QED
    BY <2>2, <2>4
<1>6. CASE Login(r)
  <2>1. CASE req' = [req EXCEPT ![r].kind = "login", ![r].pc = "done", ![r].reply = "denied"]
    <3> DEFINE q == [req[r] EXCEPT !.kind = "login", !.pc = "done", !.reply = "denied"]
    <3>1. req' = [req EXCEPT ![r] = q]
      BY <2>1
    <3>2. q \in Request /\ q.kind = "login" /\ q.pc = "done" /\ q.reply = "denied"
      BY <1>1, Words DEF Request
    <3> HIDE DEF q
    <3>3. Newcomer(q)
      BY <1>1, <3>2 DEF Newcomer, OnCourse, Course, Rotating, Issuing, Paying
    <3> QED
      BY <3>1, <3>3
  <2>2. ASSUME NEW n \in Nat, req' = [req EXCEPT ![r].kind = "login", ![r].pc = "verify", ![r].known = n, ![r].seen = account]
        PROVE  \E q : Newcomer(q) /\ req' = [req EXCEPT ![r] = q]
    <3> DEFINE q == [req[r] EXCEPT !.kind = "login", !.pc = "verify", !.known = n, !.seen = account]
    <3>1. req' = [req EXCEPT ![r] = q]
      BY <2>2
    <3>2. q \in Request /\ q.kind = "login" /\ q.pc = "verify" /\ q.reply = req[r].reply
      BY <1>1, <1>2, Words DEF Request
    <3> HIDE DEF q
    <3>3. Newcomer(q)
      BY <1>1, <3>2 DEF Newcomer, OnCourse, Course, Rotating, Issuing, Paying
    <3> QED
      BY <3>1, <3>3
  <2>3. CASE req' = [req EXCEPT ![r].kind = "login", ![r].pc = "count"]
    <3> DEFINE q == [req[r] EXCEPT !.kind = "login", !.pc = "count"]
    <3>1. req' = [req EXCEPT ![r] = q]
      BY <2>3
    <3>2. q \in Request /\ q.kind = "login" /\ q.pc = "count" /\ q.reply = req[r].reply
      BY <1>1, Words DEF Request
    <3> HIDE DEF q
    <3>3. Newcomer(q)
      BY <1>1, <3>2 DEF Newcomer, OnCourse, Course, Rotating, Issuing, Paying
    <3> QED
      BY <3>1, <3>3
  <2>4. CASE req' = [req EXCEPT ![r].kind = "login", ![r].pc = "done", ![r].reply = "disabled"]
    <3> DEFINE q == [req[r] EXCEPT !.kind = "login", !.pc = "done", !.reply = "disabled"]
    <3>1. req' = [req EXCEPT ![r] = q]
      BY <2>4
    <3>2. q \in Request /\ q.kind = "login" /\ q.pc = "done" /\ q.reply = "disabled"
      BY <1>1, Words DEF Request
    <3> HIDE DEF q
    <3>3. Newcomer(q)
      BY <1>1, <3>2 DEF Newcomer, OnCourse, Course, Rotating, Issuing, Paying
    <3> QED
      BY <3>1, <3>3
  <2> QED
    BY Zenon, <1>6, <1>2, <2>1, <2>2, <2>3, <2>4 DEF Login
<1>7. CASE Present(r)
  <2>1. PICK kind \in {"refresh", "logout"}, t \in Requests :
          /\ session[t].row # "none"
          /\ req' = [req EXCEPT ![r].kind = kind, ![r].target = t, ![r].pc = IF kind = "refresh" THEN "find" ELSE "gate"]
    BY Zenon, <1>7 DEF Present
  <2> DEFINE q == [req[r] EXCEPT !.kind = kind, !.target = t, !.pc = IF kind = "refresh" THEN "find" ELSE "gate"]
  <2>2. req' = [req EXCEPT ![r] = q]
    BY <2>1
  <2>3. q \in Request /\ q.kind = kind /\ q.pc = (IF kind = "refresh" THEN "find" ELSE "gate") /\ q.reply = req[r].reply /\ q.target = t
    BY <1>1, <2>1, Words DEF Request
  <2> HIDE DEF q
  <2>4. /\ OnCourse(q) /\ ~Rotating(q) /\ q.pc \notin {"evict"} \cup Paying
        /\ q.target \in Requests /\ session[q.target].row # "none"
    BY <2>1, <2>3 DEF OnCourse, Course, Rotating, Paying
  <2>5. Newcomer(q)
    BY <1>1, <2>3, <2>4 DEF Newcomer
  <2> QED
    BY <2>2, <2>5
<1>8. CASE Authenticated(r)
  <2>1. PICK kind \in {"logoutall", "dereg", "undereg"} : req' = [req EXCEPT ![r].kind = kind, ![r].pc = "gate"]
    BY <1>8 DEF Authenticated
  <2> DEFINE q == [req[r] EXCEPT !.kind = kind, !.pc = "gate"]
  <2>2. req' = [req EXCEPT ![r] = q]
    BY <2>1
  <2>3. q \in Request /\ q.kind = kind /\ q.pc = "gate" /\ q.reply = req[r].reply
    BY <1>1, Words DEF Request
  <2> HIDE DEF q
  <2>4. Newcomer(q)
    BY <1>1, <2>3, <2>1 DEF Newcomer, OnCourse, Course, Rotating, Issuing, Paying
  <2> QED
    BY <2>2, <2>4
<1>9. CASE Revoke(r)
  <2>1. PICK t \in Requests : req' = [req EXCEPT ![r].kind = "revoke", ![r].target = t, ![r].pc = "gate"]
    BY Zenon, <1>9 DEF Revoke, Live
  <2> DEFINE q == [req[r] EXCEPT !.kind = "revoke", !.target = t, !.pc = "gate"]
  <2>2. req' = [req EXCEPT ![r] = q]
    BY <2>1
  <2>3. q \in Request /\ q.kind = "revoke" /\ q.pc = "gate" /\ q.reply = req[r].reply /\ q.target = t
    BY <1>1, Words DEF Request
  <2> HIDE DEF q
  <2>4. Newcomer(q)
    BY <1>1, <2>3, <2>1 DEF Newcomer, OnCourse, Course, Rotating, Issuing, Paying
  <2> QED
    BY <2>2, <2>4
<1>10. CASE Operate(r)
  <2>1. PICK kind \in {"ban", "unban"} : req' = [req EXCEPT ![r].kind = kind, ![r].pc = "setstatus"]
    BY <1>10 DEF Operate
  <2> DEFINE q == [req[r] EXCEPT !.kind = kind, !.pc = "setstatus"]
  <2>2. req' = [req EXCEPT ![r] = q]
    BY <2>1
  <2>3. q \in Request /\ q.kind = kind /\ q.pc = "setstatus" /\ q.reply = req[r].reply
    BY <1>1, Words DEF Request
  <2> HIDE DEF q
  <2>4. Newcomer(q)
    BY <1>1, <2>3, <2>1 DEF Newcomer, OnCourse, Course, Rotating, Issuing, Paying
  <2> QED
    BY <2>2, <2>4
<1>11. CASE AskForOrder(r)
  <2>1. PICK kind \in {"order", "view"} : req' = [req EXCEPT ![r].kind = kind, ![r].pc = "gate"]
    BY <1>11 DEF AskForOrder
  <2> DEFINE q == [req[r] EXCEPT !.kind = kind, !.pc = "gate"]
  <2>2. req' = [req EXCEPT ![r] = q]
    BY <2>1
  <2>3. q \in Request /\ q.kind = kind /\ q.pc = "gate" /\ q.reply = req[r].reply
    BY <1>1, Words DEF Request
  <2> HIDE DEF q
  <2>4. Newcomer(q)
    BY <1>1, <2>3, <2>1 DEF Newcomer, OnCourse, Course, Rotating, Issuing, Paying
  <2> QED
    BY <2>2, <2>4
<1>12. CASE Notified(r)
  <2>1. PICK o \in Requests : req' = [req EXCEPT ![r].kind = "notify", ![r].pc = "read", ![r].target = o]
    BY <1>12 DEF Notified
  <2> DEFINE q == [req[r] EXCEPT !.kind = "notify", !.pc = "read", !.target = o]
  <2>2. req' = [req EXCEPT ![r] = q]
    BY <2>1
  <2>3. q \in Request /\ q.kind = "notify" /\ q.pc = "read" /\ q.reply = req[r].reply /\ q.target = o
    BY <1>1, Words DEF Request
  <2> HIDE DEF q
  <2>4. Newcomer(q)
    BY <1>1, <2>3, <2>1 DEF Newcomer, OnCourse, Course, Rotating, Issuing, Paying
  <2> QED
    BY <2>2, <2>4
<1>13. CASE Grant(r)
  <2> DEFINE q == [req[r] EXCEPT !.kind = "grant", !.pc = IF sub = NoSub THEN "done" ELSE "extend",
                                 !.reply = IF sub = NoSub THEN "notfound" ELSE "none",
                                 !.at = clock, !.expires = sub.expires]
  <2>1. req' = [req EXCEPT ![r] = q]
    BY <1>13 DEF Grant
  <2>2. q \in Request /\ q.kind = "grant" /\ q.pc = (IF sub = NoSub THEN "done" ELSE "extend") /\ q.reply = (IF sub = NoSub THEN "notfound" ELSE "none")
    BY <1>1, <1>2, Words DEF Request
  <2> HIDE DEF q
  <2>3. Newcomer(q)
    BY <1>1, <2>2 DEF Newcomer, OnCourse, Course, Rotating, Issuing, Paying
  <2> QED
    BY <2>1, <2>3
<1> QED
  BY <1>4, <1>5, <1>6, <1>7, <1>8, <1>9, <1>10, <1>11, <1>12, <1>13

-------------------------------------------------------------------------------
(* The steps, one after the other.                                        *)
LEMMA CodeSteps ==
  ASSUME IInv, NEW r \in Requests,
         SetCode(r) \/ CompareCode(r) \/ SpendCode(r) \/ LookUpPhone(r) \/ RegisterTrial(r)
  PROVE  TypeOK' /\ Step(r)
<1>1. TypeOK /\ OnCourse(req[r]) /\ Grounded(req[r])
  BY DEF IInv
<1>2. CASE SetCode(r)
  <2>1. req[r].pc = "setcode" /\ UNCHANGED <<session, account>>
    BY <1>2 DEF SetCode, At, Unchanged, stores
  <2>2. ASSUME Reply(r, "ok") PROVE req' \in [Requests -> Request] /\ Step(r)
    BY <2>1, <2>2, Words, EndsQuietly
  <2>3. req' \in [Requests -> Request] /\ Step(r)
    BY <1>2, <2>2 DEF SetCode
  <2> QED
    BY <1>1, <1>2, <2>3 DEF SetCode, Unchanged, stores, TypeOK
<1>3. CASE CompareCode(r)
  <2>1. req[r].pc = "verify" /\ UNCHANGED <<session, account>>
    BY <1>3 DEF CompareCode, At, Unchanged, stores
  <2>2. ASSUME Goto(r, "spend") PROVE req' \in [Requests -> Request] /\ Step(r)
    <3>1. /\ Course(req[r].kind, "spend")
          /\ req[r].kind = "refresh" => "spend" \in {"find", "consume"} \/ Rotating(req[r])
          /\ req[r].kind \in {"order", "notify"} /\ "spend" \in Paying => req[r].pc \in Paying
      BY <1>1, <2>1, <2>2 DEF OnCourse, Course, Rotating, Issuing, Paying
    <3> QED
      BY <2>1, <2>2, <3>1, Words, GoesOnQuietly
  <2>3. ASSUME Reply(r, "badcode") PROVE req' \in [Requests -> Request] /\ Step(r)
    BY <2>1, <2>3, Words, EndsQuietly
  <2>4. req' \in [Requests -> Request] /\ Step(r)
    BY <1>3, <2>2, <2>3 DEF CompareCode
  <2> QED
    BY <1>1, <1>3, <2>4 DEF CompareCode, Unchanged, stores, TypeOK
<1>4. CASE SpendCode(r)
  <2>1. req[r].pc = "spend" /\ UNCHANGED <<session, account>>
    BY <1>4 DEF SpendCode, At, Unchanged, stores
  <2>2. ASSUME Goto(r, "lookup"), req[r].kind = "register" PROVE req' \in [Requests -> Request] /\ Step(r)
    <3>1. /\ Course(req[r].kind, "lookup")
          /\ req[r].kind = "refresh" => "lookup" \in {"find", "consume"} \/ Rotating(req[r])
          /\ req[r].kind \in {"order", "notify"} /\ "lookup" \in Paying => req[r].pc \in Paying
      BY <1>1, <2>1, <2>2 DEF OnCourse, Course, Rotating, Issuing, Paying
    <3> QED
      BY <2>1, <2>2, <3>1, Words, GoesOnQuietly
  <2>3. ASSUME Goto(r, "count"), req[r].kind # "register" PROVE req' \in [Requests -> Request] /\ Step(r)
    <3>1. /\ Course(req[r].kind, "count")
          /\ req[r].kind = "refresh" => "count" \in {"find", "consume"} \/ Rotating(req[r])
          /\ req[r].kind \in {"order", "notify"} /\ "count" \in Paying => req[r].pc \in Paying
      BY <1>1, <2>1, <2>3 DEF OnCourse, Course, Rotating, Issuing, Paying
    <3> QED
      BY <2>1, <2>3, <3>1, Words, GoesOnQuietly
  <2>4. ASSUME Reply(r, "disabled") PROVE req' \in [Requests -> Request] /\ Step(r)
    BY <2>1, <2>4, Words, EndsQuietly
  <2>5. req' \in [Requests -> Request] /\ Step(r)
    BY <1>4, <2>2, <2>3, <2>4 DEF SpendCode
  <2> QED
    BY <1>1, <1>4, <2>5 DEF SpendCode, Unchanged, stores, TypeOK
<1>5. CASE LookUpPhone(r)
  <2>1. req[r].pc = "lookup" /\ UNCHANGED <<session, account>>
    BY <1>5 DEF LookUpPhone, At, Unchanged, stores
  <2>2. ASSUME Goto(r, "create") PROVE req' \in [Requests -> Request] /\ Step(r)
    <3>1. /\ Course(req[r].kind, "create")
          /\ req[r].kind = "refresh" => "create" \in {"find", "consume"} \/ Rotating(req[r])
          /\ req[r].kind \in {"order", "notify"} /\ "create" \in Paying => req[r].pc \in Paying
      BY <1>1, <2>1, <2>2 DEF OnCourse, Course, Rotating, Issuing, Paying
    <3> QED
      BY <2>1, <2>2, <3>1, Words, GoesOnQuietly
  <2>3. ASSUME Reply(r, "exists") PROVE req' \in [Requests -> Request] /\ Step(r)
    BY <2>1, <2>3, Words, EndsQuietly
  <2>4. req' \in [Requests -> Request] /\ Step(r)
    BY <1>5, <2>2, <2>3 DEF LookUpPhone
  <2> QED
    BY <1>1, <1>5, <2>4 DEF LookUpPhone, Unchanged, stores, TypeOK
<1>6. CASE RegisterTrial(r)
  <2>1. req[r].pc = "trial" /\ UNCHANGED <<session, account>>
    BY <1>6 DEF RegisterTrial, At, Unchanged, stores
  <2>2. ASSUME Goto(r, "count") PROVE req' \in [Requests -> Request] /\ Step(r)
    <3>1. /\ Course(req[r].kind, "count")
          /\ req[r].kind = "refresh" => "count" \in {"find", "consume"} \/ Rotating(req[r])
          /\ req[r].kind \in {"order", "notify"} /\ "count" \in Paying => req[r].pc \in Paying
      BY <1>1, <2>1, <2>2 DEF OnCourse, Course, Rotating, Issuing, Paying
    <3> QED
      BY <2>1, <2>2, <3>1, Words, GoesOnQuietly
  <2>3. req' \in [Requests -> Request] /\ Step(r)
    BY <1>6, <2>2 DEF RegisterTrial
  <2>4. NewTrial \in [status : {"none", "trialing", "active"}, expires : Nat] /\ faults' \in Nat
    BY <1>1, <1>6, TicksAssumption DEF NewTrial, TypeOK, RegisterTrial, Fault
  <2> QED
    BY <1>1, <1>6, <2>3, <2>4 DEF RegisterTrial, TypeOK
<1> QED
  BY <1>2, <1>3, <1>4, <1>5, <1>6

LEMMA TokenSteps ==
  ASSUME IInv, NEW r \in Requests,
         FindToken(r) \/ ReloadUser(r) \/ CountActive(r)
  PROVE  TypeOK' /\ Step(r)
<1>1. TypeOK /\ OnCourse(req[r]) /\ Grounded(req[r])
  BY DEF IInv
<1>2. CASE FindToken(r)
  <2>1. req[r].pc = "find" /\ UNCHANGED <<session, account>>
    BY <1>2 DEF FindToken, At, Unchanged, stores
  <2>2. ASSUME Goto(r, "consume") PROVE req' \in [Requests -> Request] /\ Step(r)
    <3>1. /\ Course(req[r].kind, "consume")
          /\ req[r].kind = "refresh" => "consume" \in {"find", "consume"} \/ Rotating(req[r])
          /\ req[r].kind \in {"order", "notify"} /\ "consume" \in Paying => req[r].pc \in Paying
      BY <1>1, <2>1, <2>2 DEF OnCourse, Course, Rotating, Issuing, Paying
    <3> QED
      BY <2>1, <2>2, <3>1, Words, GoesOnQuietly
  <2>3. ASSUME Reply(r, "revoked") PROVE req' \in [Requests -> Request] /\ Step(r)
    BY <2>1, <2>3, Words, EndsQuietly
  <2>4. ASSUME Reply(r, "ok") PROVE req' \in [Requests -> Request] /\ Step(r)
    BY <2>1, <2>4, Words, EndsQuietly
  <2>5. req' \in [Requests -> Request] /\ Step(r)
    BY <1>2, <2>2, <2>3, <2>4 DEF FindToken, NotConsumed
  <2> QED
    BY <1>1, <1>2, <2>5 DEF FindToken, Unchanged, stores, TypeOK
<1>3. CASE ReloadUser(r)
  <2>1. req[r].pc = "reload" /\ UNCHANGED <<session, account>>
    BY <1>3 DEF ReloadUser, At, Unchanged, stores
  <2>2. ASSUME Goto(r, "count") PROVE req' \in [Requests -> Request] /\ Step(r)
    <3>1. /\ Course(req[r].kind, "count")
          /\ req[r].kind = "refresh" => "count" \in {"find", "consume"} \/ Rotating(req[r])
          /\ req[r].kind \in {"order", "notify"} /\ "count" \in Paying => req[r].pc \in Paying
      BY <1>1, <2>1, <2>2 DEF OnCourse, Course, Rotating, Issuing, Paying
    <3> QED
      BY <2>1, <2>2, <3>1, Words, GoesOnQuietly
  <2>3. ASSUME Reply(r, "disabled") PROVE req' \in [Requests -> Request] /\ Step(r)
    BY <2>1, <2>3, Words, EndsQuietly
  <2>4. req' \in [Requests -> Request] /\ Step(r)
    BY <1>3, <2>2, <2>3 DEF ReloadUser
  <2> QED
    BY <1>1, <1>3, <2>4 DEF ReloadUser, Unchanged, stores, TypeOK
<1>4. CASE CountActive(r)
  <2>1. req[r].pc = "count" /\ UNCHANGED <<session, account>>
    BY <1>4 DEF CountActive, At, Unchanged, stores
  <2>2. ASSUME Goto(r, "oldest") PROVE req' \in [Requests -> Request] /\ Step(r)
    <3>1. /\ Course(req[r].kind, "oldest")
          /\ req[r].kind = "refresh" => "oldest" \in {"find", "consume"} \/ Rotating(req[r])
          /\ req[r].kind \in {"order", "notify"} /\ "oldest" \in Paying => req[r].pc \in Paying
      BY <1>1, <2>1, <2>2 DEF OnCourse, Course, Rotating, Issuing, Paying
    <3> QED
      BY <2>1, <2>2, <3>1, Words, GoesOnQuietly
  <2>3. ASSUME Goto(r, "insert") PROVE req' \in [Requests -> Request] /\ Step(r)
    <3>1. /\ Course(req[r].kind, "insert")
          /\ req[r].kind = "refresh" => "insert" \in {"find", "consume"} \/ Rotating(req[r])
          /\ req[r].kind \in {"order", "notify"} /\ "insert" \in Paying => req[r].pc \in Paying
      BY <1>1, <2>1, <2>3 DEF OnCourse, Course, Rotating, Issuing, Paying
    <3> QED
      BY <2>1, <2>3, <3>1, Words, GoesOnQuietly
  <2>4. req' \in [Requests -> Request] /\ Step(r)
    BY <1>4, <2>2, <2>3 DEF CountActive
  <2> QED
    BY <1>1, <1>4, <2>4 DEF CountActive, Unchanged, stores, TypeOK, Fault
<1> QED
  BY <1>2, <1>3, <1>4

LEMMA StatusReads ==
  ASSUME IInv, NEW r \in Requests,
         ReadBeforeLeaving(r) \/ ReadBeforeReturning(r) \/ Invalidate(r)
  PROVE  TypeOK' /\ Step(r)
<1>1. TypeOK /\ OnCourse(req[r]) /\ Grounded(req[r])
  BY DEF IInv
<1>2. CASE ReadBeforeLeaving(r)
  <2>1. req[r].pc = "leave" /\ UNCHANGED <<session, account>>
    BY <1>2 DEF ReadBeforeLeaving, At, Unchanged, stores
  <2>2. ASSUME Goto(r, "cool") PROVE req' \in [Requests -> Request] /\ Step(r)
    <3>1. /\ Course(req[r].kind, "cool")
          /\ req[r].kind = "refresh" => "cool" \in {"find", "consume"} \/ Rotating(req[r])
          /\ req[r].kind \in {"order", "notify"} /\ "cool" \in Paying => req[r].pc \in Paying
      BY <1>1, <2>1, <2>2 DEF OnCourse, Course, Rotating, Issuing, Paying
    <3> QED
      BY <2>1, <2>2, <3>1, Words, GoesOnQuietly
  <2>3. ASSUME Reply(r, "already") PROVE req' \in [Requests -> Request] /\ Step(r)
    BY <2>1, <2>3, Words, EndsQuietly
  <2>4. req' \in [Requests -> Request] /\ Step(r)
    BY <1>2, <2>2, <2>3 DEF ReadBeforeLeaving
  <2> QED
    BY <1>1, <1>2, <2>4 DEF ReadBeforeLeaving, Unchanged, stores, TypeOK
<1>3. CASE ReadBeforeReturning(r)
  <2>1. req[r].pc = "comeback" /\ UNCHANGED <<session, account>>
    BY <1>3 DEF ReadBeforeReturning, At, Unchanged, stores
  <2>2. ASSUME Goto(r, "warm") PROVE req' \in [Requests -> Request] /\ Step(r)
    <3>1. /\ Course(req[r].kind, "warm")
          /\ req[r].kind = "refresh" => "warm" \in {"find", "consume"} \/ Rotating(req[r])
          /\ req[r].kind \in {"order", "notify"} /\ "warm" \in Paying => req[r].pc \in Paying
      BY <1>1, <2>1, <2>2 DEF OnCourse, Course, Rotating, Issuing, Paying
    <3> QED
      BY <2>1, <2>2, <3>1, Words, GoesOnQuietly
  <2>3. ASSUME Reply(r, "notcooling") PROVE req' \in [Requests -> Request] /\ Step(r)
    BY <2>1, <2>3, Words, EndsQuietly
  <2>4. req' \in [Requests -> Request] /\ Step(r)
    BY <1>3, <2>2, <2>3 DEF ReadBeforeReturning
  <2> QED
    BY <1>1, <1>3, <2>4 DEF ReadBeforeReturning, Unchanged, stores, TypeOK
<1>4. CASE Invalidate(r)
  <2>1. req[r].pc = "invalidate" /\ UNCHANGED <<session, account>>
    BY <1>4 DEF Invalidate, At, Unchanged, stores
  <2>2. ASSUME Reply(r, "ok") PROVE req' \in [Requests -> Request] /\ Step(r)
    BY <2>1, <2>2, Words, EndsQuietly
  <2>3. req' \in [Requests -> Request] /\ Step(r)
    BY <1>4, <2>2 DEF Invalidate
  <2> QED
    BY <1>1, <1>4, <2>3 DEF Invalidate, Unchanged, stores, TypeOK, Standing, NoEntry
<1> QED
  BY <1>2, <1>3, <1>4

LEMMA GuardSteps ==
  ASSUME IInv, NEW r \in Requests, AskGuard(r) \/ FillGuard(r)
  PROVE  TypeOK' /\ Step(r)
<1>1. TypeOK /\ OnCourse(req[r]) /\ Grounded(req[r]) /\ req[r] \in Request /\ req \in [Requests -> Request]
  BY DEF IInv, TypeOK
<1>2. req[r].pc \in {"gate", "fill"} /\ UNCHANGED <<session, account>>
  BY DEF AskGuard, FillGuard, At, Unchanged, stores
<1>3. ASSUME NEW status, Admit(r, status) PROVE req' \in [Requests -> Request] /\ Step(r)
  <2>1. ASSUME Goto(r, Entry(r)) PROVE req' \in [Requests -> Request] /\ Step(r)
    <3>1. /\ Entry(r) \in {"find", "wipe", "leave", "comeback", "delete", "place", "load"}
          /\ Course(req[r].kind, Entry(r)) /\ req[r].kind \notin {"refresh", "notify"}
          /\ req[r].kind = "order" => Entry(r) = "place"
      BY <1>1, <1>2 DEF Entry, OnCourse, Course, Issuing, Paying
    <3> QED
      BY <1>2, <2>1, <3>1, Words, GoesOnQuietly DEF Paying
  <2>2. ASSUME Reply(r, "forbidden") PROVE req' \in [Requests -> Request] /\ Step(r)
    BY <1>2, <2>2, Words, EndsQuietly
  <2> QED
    BY <1>3, <2>1, <2>2 DEF Admit
<1>4. CASE AskGuard(r)
  <2>1. ASSUME Seeing(r, account, "fill"), req[r].pc = "gate" PROVE req' \in [Requests -> Request] /\ Step(r)
    <3> DEFINE q == [req[r] EXCEPT !.seen = account, !.pc = "fill"]
    <3>1. req' = [req EXCEPT ![r] = q]
      BY <2>1 DEF Seeing
    <3>2. /\ q \in Request /\ q.kind = req[r].kind /\ q.pc = "fill" /\ q.reply = req[r].reply
          /\ q.target = req[r].target
      BY <1>1, Words DEF Request, TypeOK
    <3> HIDE DEF q
    <3>3. OnCourse(q) /\ ~Rotating(q)
      BY <1>1, <2>1, <3>2 DEF OnCourse, Course, Rotating, Issuing, Paying
    <3>4. Grounded(q)
      BY <1>1, <2>1, <3>2 DEF Grounded, Paying
    <3> QED
      BY <1>2, <3>1, <3>2, <3>3, <3>4, MovesTo
  <2>2. req' \in [Requests -> Request] /\ Step(r)
    BY <1>3, <1>4, <2>1 DEF AskGuard, At
  <2> QED
    BY <1>1, <1>4, <2>2 DEF AskGuard, Unchanged, stores, TypeOK
<1>5. CASE FillGuard(r)
  <2>1. req' \in [Requests -> Request] /\ Step(r)
    BY <1>3, <1>5 DEF FillGuard
  <2>2. req[r].seen \in Standing
    BY <1>1 DEF Request
  <2> QED
    BY <1>1, <1>5, <2>1, <2>2 DEF FillGuard, Unchanged, TypeOK
<1> QED
  BY <1>4, <1>5

LEMMA AccountSteps ==
  ASSUME IInv, NEW r \in Requests, CreateUser(r) \/ Warm(r) \/ SetStatus(r)
  PROVE  TypeOK' /\ Step(r)
<1>1. TypeOK /\ OnCourse(req[r]) /\ Grounded(req[r])
  BY DEF IInv
<1>2. /\ req[r].pc \in {"create", "warm", "setstatus"} /\ Ebbs
      /\ account' \in Standing /\ (account' = "cool" => account = "cool")
  BY <1>1 DEF CreateUser, Warm, SetStatus, At, Unchanged, Ebbs, Ordered, Standing, Statuses, TypeOK
<1>3. ~Leaving(req[r])
  BY <1>1, <1>2 DEF Leaving, Grounded
<1>4. ASSUME NEW a \in {"ok", "error"}, Reply(r, a) PROVE req' \in [Requests -> Request] /\ Step(r)
  BY <1>1, <1>2, <1>3, <1>4, Words, ReplyMoves, Ends
<1>5. ASSUME NEW w \in {"trial", "invalidate"}, Goto(r, w), Course(req[r].kind, w) PROVE req' \in [Requests -> Request] /\ Step(r)
  <2>1. req[r].kind \notin {"refresh", "order", "notify"} /\ w \in Places \ {"evict", "done"}
    BY <1>5, Words DEF Course, Issuing, Paying
  <2> QED
    BY <1>1, <1>2, <1>3, <1>5, <2>1, GotoMoves, GoesOn
<1>6. CASE CreateUser(r)
  <2>1. Course(req[r].kind, "trial")
    BY <1>1, <1>6 DEF CreateUser, At, OnCourse, Course, Issuing, Paying
  <2>2. req' \in [Requests -> Request] /\ Step(r)
    BY <1>4, <1>5, <1>6, <2>1 DEF CreateUser
  <2> QED
    BY <1>1, <1>2, <1>6, <2>2 DEF CreateUser, Unchanged, TypeOK
<1>7. CASE Warm(r)
  <2>1. req' \in [Requests -> Request] /\ Step(r)
    BY <1>4, <1>7 DEF Warm
  <2> QED
    BY <1>1, <1>2, <1>7, <2>1 DEF Warm, Unchanged, TypeOK
<1>8. CASE SetStatus(r)
  <2>1. Course(req[r].kind, "invalidate")
    BY <1>1, <1>8 DEF SetStatus, At, OnCourse, Course, Issuing, Paying
  <2>2. req' \in [Requests -> Request] /\ Step(r)
    BY <1>5, <1>8, <2>1 DEF SetStatus
  <2> QED
    BY <1>1, <1>2, <1>8, <2>2 DEF SetStatus, Unchanged, TypeOK
<1> QED
  BY <1>6, <1>7, <1>8

LEMMA SessionEndings ==
  ASSUME IInv, NEW r \in Requests,
         PickOldest(r) \/ EvictOldest(r) \/ ConsumeToken(r) \/ DeleteSession(r) \/ RevokeAll(r)
  PROVE  TypeOK' /\ Step(r)
<1>1. /\ TypeOK /\ OnCourse(req[r]) /\ Grounded(req[r]) /\ req[r] \in Request /\ req \in [Requests -> Request]
      /\ session \in [Requests -> Row]
  BY DEF IInv, TypeOK
<1>2. req[r].pc \notin {"wipe", "done"} => ~Leaving(req[r])
  BY <1>1 DEF Leaving, Grounded
(* A session that there is may end, one that there is not stays away.      *)
<1>3. ASSUME NEW t \in Requests, session[t].row # "none", session' = [session EXCEPT ![t].row = "gone"]
      PROVE  session' \in [Requests -> Row] /\ Ebbs /\ session'[t].row = "gone"
  BY <1>1, <1>3 DEF Row, Ebbs
<1>4. UNCHANGED session => session' \in [Requests -> Row] /\ Ebbs
  BY <1>1 DEF Ebbs
<1>5. CASE PickOldest(r)
  <2>1. req[r].pc = "oldest" /\ UNCHANGED <<session, account>>
    BY <1>5 DEF PickOldest, At, Unchanged, stores
  <2>2. ASSUME Goto(r, "insert") PROVE req' \in [Requests -> Request] /\ Step(r)
    <3>1. /\ Course(req[r].kind, "insert") /\ req[r].kind \notin {"order", "notify"}
          /\ req[r].kind = "refresh" => Rotating(req[r])
      BY <1>1, <2>1 DEF OnCourse, Course, Rotating, Issuing, Paying
    <3> QED
      BY <2>1, <2>2, <3>1, Words, GoesOnQuietly
  <2>3. ASSUME NEW t \in Live, req' = [req EXCEPT ![r].victim = t, ![r].pc = "evict"]
        PROVE  req' \in [Requests -> Request] /\ Step(r)
    <3> DEFINE q == [req[r] EXCEPT !.victim = t, !.pc = "evict"]
    <3>1. req' = [req EXCEPT ![r] = q]
      BY <2>3
    <3>2. t \in Requests /\ session[t].row # "none"
      BY <2>3 DEF Live
    <3>3. /\ q \in Request /\ q.kind = req[r].kind /\ q.pc = "evict" /\ q.reply = req[r].reply
          /\ q.target = req[r].target /\ q.victim = t
      BY <1>1, <3>2, Words DEF Request
    <3> HIDE DEF q
    <3>4. OnCourse(q) /\ (Rotating(q) => Rotating(req[r]))
      BY <1>1, <2>1, <3>3 DEF OnCourse, Course, Rotating, Issuing, Paying
    <3>5. Grounded(q)
      BY <1>1, <2>1, <3>2, <3>3 DEF Grounded, Paying
    <3> QED
      BY <2>1, <3>1, <3>3, <3>4, <3>5, MovesTo
  <2>4. req' \in [Requests -> Request] /\ Step(r)
    BY <1>5, <2>2, <2>3 DEF PickOldest
  <2> QED
    BY <1>1, <1>5, <2>4 DEF PickOldest, Unchanged, stores, TypeOK
<1>6. CASE EvictOldest(r)
  <2>1. /\ req[r].pc = "evict" /\ Goto(r, "insert") /\ UNCHANGED account
        /\ session' \in [Requests -> Row] /\ Ebbs
    BY <1>1, <1>3, <1>4, <1>6 DEF EvictOldest, At, Grounded
  <2>2. /\ Course(req[r].kind, "insert") /\ req[r].kind \notin {"order", "notify"}
        /\ req[r].kind = "refresh" => Rotating(req[r])
    BY <1>1, <2>1 DEF OnCourse, Course, Rotating, Issuing, Paying
  <2>3. req' \in [Requests -> Request] /\ Step(r)
    BY <1>1, <1>2, <2>1, <2>2, Words, GotoMoves, GoesOn
  <2>4. faults' \in Nat
    BY <1>1, <1>6 DEF EvictOldest, Fault, TypeOK
  <2> QED
    BY <1>1, <1>6, <2>1, <2>3, <2>4 DEF EvictOldest, TypeOK
<1>7. CASE ConsumeToken(r)
  <2> DEFINE t == req[r].target
  <2>1. /\ req[r].pc = "consume" /\ UNCHANGED account /\ session' = [session EXCEPT ![t].row = "gone"]
        /\ req[r].kind \in {"refresh", "logout"}
    BY <1>1, <1>7 DEF ConsumeToken, At, Unchanged, OnCourse, Course, Issuing, Paying
  <2>2. t \in Requests /\ session[t].row # "none"
    BY <1>1, <2>1 DEF Grounded
  <2>3. session' \in [Requests -> Row] /\ Ebbs /\ session'[t].row = "gone"
    BY <1>3, <2>1, <2>2
  <2>4. ASSUME NEW a \in {"ok", "revoked"}, Reply(r, a) PROVE req' \in [Requests -> Request] /\ Step(r)
    BY <1>1, <1>2, <2>1, <2>3, <2>4, Words, ReplyMoves, Ends
  <2>5. ASSUME req[r].kind = "refresh", t \in Unexpired, Goto(r, "reload")
        PROVE  req' \in [Requests -> Request] /\ Step(r)
    <3>1. session[t].row = "live" /\ Course(req[r].kind, "reload")
      BY <2>5 DEF Unexpired, Live, Course
    <3>2. req' \in [Requests -> Request] /\ req'[r].target = t
      BY <1>1, <2>5, Words, GotoMoves
    <3>3. Wins(r)
      BY <2>2, <2>3, <3>1, <3>2 DEF Wins
    <3> QED
      BY <1>1, <1>2, <2>1, <2>3, <2>5, <3>1, <3>2, <3>3, Words, GoesOn
  <2>6. req' \in [Requests -> Request] /\ Step(r)
    BY <1>7, <2>4, <2>5 DEF ConsumeToken, NotConsumed
  <2> QED
    BY <1>1, <1>7, <2>3, <2>6 DEF ConsumeToken, Unchanged, TypeOK
<1>8. CASE DeleteSession(r)
  <2>1. req[r].pc = "delete" /\ Reply(r, "ok") /\ UNCHANGED account
    BY <1>8 DEF DeleteSession, At, Unchanged
  <2>2. session' \in [Requests -> Row] /\ Ebbs
    BY ZenonT(60), <1>1, <1>8 DEF DeleteSession, Row, Ebbs
  <2>3. req' \in [Requests -> Request] /\ Step(r)
    BY <1>1, <1>2, <2>1, <2>2, Words, ReplyMoves, Ends
  <2> QED
    BY <1>1, <1>8, <2>2, <2>3 DEF DeleteSession, Unchanged, TypeOK
<1>9. CASE RevokeAll(r)
  <2>1. req[r].pc = "wipe" /\ Reply(r, "ok") /\ UNCHANGED account /\ session' = AllRevoked
    BY <1>9 DEF RevokeAll, At, Unchanged
  <2>2. \A t \in Requests : /\ session'[t] \in Row /\ session'[t].late = session[t].late
                            /\ session'[t].row = (IF session[t].row = "live" THEN "gone" ELSE session[t].row)
    BY <1>1, <2>1 DEF AllRevoked, Live, Row
  <2>3. session' \in [Requests -> Row]
    BY <2>1, <2>2 DEF AllRevoked
  <2>4. Ebbs /\ \A t \in Requests : session'[t].row # "live"
    BY <1>1, <2>2 DEF Ebbs, Row
  <2>5. req' \in [Requests -> Request] /\ Step(r)
    BY <1>1, <2>1, <2>4, Words, ReplyMoves, Ends
  <2> QED
    BY <1>1, <1>9, <2>3, <2>5 DEF RevokeAll, Unchanged, TypeOK
<1> QED
  BY <1>5, <1>6, <1>7, <1>8, <1>9

LEMMA OrderSteps ==
  ASSUME IInv, NEW r \in Requests, CreateOrder(r) \/ ReadOrder(r) \/ MarkPaid(r)
  PROVE  TypeOK' /\ Step(r)
<1>1. /\ TypeOK /\ OnCourse(req[r]) /\ Grounded(req[r]) /\ req[r] \in Request /\ req \in [Requests -> Request]
      /\ order \in [Requests -> Order]
  BY DEF IInv, TypeOK
<1>2. UNCHANGED <<session, account>>
  BY DEF CreateOrder, ReadOrder, MarkPaid, Unchanged, stores
<1>3. CASE CreateOrder(r)
  <2>1. req[r].pc = "place" /\ req[r].kind = "order"
    BY Zenon, <1>1, <1>3 DEF CreateOrder, At, OnCourse, Course, Issuing, Paying
  <2>2. PICK ticks \in Periods, sandbox \in BOOLEAN :
          /\ order' = [order EXCEPT ![r].status = "created", ![r].ticks = ticks]
          /\ req' = [req EXCEPT ![r] =
               IF sandbox THEN [req[r] EXCEPT !.pc = "read", !.target = r] ELSE Answered(req[r], "ok")]
    BY <1>3 DEF CreateOrder
  <2>3. ticks \in Nat
    BY TicksAssumption
  <2>4. order' \in [Requests -> Order]
    BY <1>1, <2>2, <2>3 DEF Order
  <2>5. CASE ~sandbox
    <3>1. Reply(r, "ok")
      BY <2>2, <2>5 DEF Reply
    <3> QED
      BY Zenon, <1>1, <1>2, <1>3, <2>1, <2>4, <3>1, Words, EndsQuietly DEF CreateOrder, Unchanged, TypeOK
  <2>6. CASE sandbox
    <3> DEFINE q == [req[r] EXCEPT !.pc = "read", !.target = r]
    <3>1. req' = [req EXCEPT ![r] = q]
      BY <2>2, <2>6
    <3>2. /\ q \in Request /\ q.kind = "order" /\ q.pc = "read" /\ q.reply = req[r].reply /\ q.target = r
      BY <1>1, <2>1, Words DEF Request
    <3> HIDE DEF q
    <3>3. OnCourse(q) /\ ~Rotating(q)
      BY <3>2 DEF OnCourse, Course, Rotating, Paying
    <3>4. Grounded(q)
      BY <1>1, <2>1, <3>2 DEF Grounded, Paying
    <3>5. req' \in [Requests -> Request] /\ Step(r)
      BY <1>2, <2>1, <3>1, <3>2, <3>3, <3>4, MovesTo
    <3> QED
      BY Zenon, <1>1, <1>3, <2>4, <3>5 DEF CreateOrder, Unchanged, TypeOK
  <2> QED
    BY <2>5, <2>6
<1>4. CASE ReadOrder(r)
  <2>1. req[r].pc = "read" /\ req[r].kind \in {"order", "notify"}
    BY <1>1, <1>4 DEF ReadOrder, At, OnCourse, Course, Issuing, Paying
  <2>2. ASSUME Reply(r, "ok") PROVE req' \in [Requests -> Request] /\ Step(r)
    BY <1>2, <2>1, <2>2, Words, EndsQuietly
  <2>3. ASSUME req' = [req EXCEPT ![r].pc = "mark", ![r].at = clock]
        PROVE  req' \in [Requests -> Request] /\ Step(r)
    <3> DEFINE q == [req[r] EXCEPT !.pc = "mark", !.at = clock]
    <3>1. req' = [req EXCEPT ![r] = q]
      BY <2>3
    <3>2. /\ q \in Request /\ q.kind = req[r].kind /\ q.pc = "mark" /\ q.reply = req[r].reply
          /\ q.target = req[r].target
      BY <1>1, Words DEF Request, TypeOK
    <3> HIDE DEF q
    <3>3. OnCourse(q) /\ ~Rotating(q)
      BY <2>1, <3>2 DEF OnCourse, Course, Rotating, Paying
    <3>4. Grounded(q)
      BY <1>1, <2>1, <3>2 DEF Grounded, Paying
    <3> QED
      BY <1>2, <2>1, <3>1, <3>2, <3>3, <3>4, MovesTo
  <2>4. req' \in [Requests -> Request] /\ Step(r)
    BY <1>4, <2>2, <2>3 DEF ReadOrder
  <2> QED
    BY <1>1, <1>4, <2>4 DEF ReadOrder, Unchanged, stores, TypeOK
<1>5. CASE MarkPaid(r)
  <2>1. req[r].pc = "mark" /\ req[r].kind \in {"order", "notify"} /\ req[r].target \in Requests
    BY <1>1, <1>5 DEF MarkPaid, At, OnCourse, Course, Grounded, Issuing, Paying
  <2>2. order' \in [Requests -> Order]
    BY <1>1, <1>5, <2>1 DEF MarkPaid, Order
  <2>3. ASSUME Reply(r, "ok") PROVE req' \in [Requests -> Request] /\ Step(r)
    BY <1>2, <2>1, <2>3, Words, EndsQuietly
  <2>4. ASSUME Goto(r, "load") PROVE req' \in [Requests -> Request] /\ Step(r)
    <3>1. Course(req[r].kind, "load")
      BY <2>1 DEF Course, Paying
    <3> QED
      BY <1>2, <2>1, <2>4, <3>1, Words, GoesOnQuietly DEF Paying
  <2>5. req' \in [Requests -> Request] /\ Step(r)
    BY <1>5, <2>3, <2>4 DEF MarkPaid
  <2> QED
    BY <1>1, <1>5, <2>2, <2>5 DEF MarkPaid, Unchanged, TypeOK
<1> QED
  BY <1>3, <1>4, <1>5

LEMMA SubscriptionSteps ==
  ASSUME IInv, NEW r \in Requests,
         LoadSubscription(r) \/ StartTrial(r) \/ Extend(r) \/ SaveGrant(r)
  PROVE  TypeOK' /\ Step(r)
<1>1. /\ TypeOK /\ OnCourse(req[r]) /\ Grounded(req[r]) /\ req[r] \in Request /\ req \in [Requests -> Request]
      /\ order \in [Requests -> Order] /\ sub \in [status : {"none", "trialing", "active"}, expires : Nat]
  BY DEF IInv, TypeOK
<1>2. /\ UNCHANGED <<session, account>> /\ req[r].pc \in {"load", "starttrial", "extend"}
      /\ req[r].kind \in {"view", "order", "notify", "grant"}
  BY <1>1 DEF LoadSubscription, StartTrial, Extend, SaveGrant, Unchanged, stores, At, OnCourse, Course, Issuing, Paying
<1>3. ASSUME NEW a \in {"ok", "error"}, Reply(r, a) PROVE req' \in [Requests -> Request] /\ Step(r)
  BY <1>2, <1>3, Words, EndsQuietly
<1>4. ASSUME NEW w \in {"load", "starttrial"}, Goto(r, w), req[r].pc # "extend"
      PROVE  req' \in [Requests -> Request] /\ Step(r)
  <2>1. Course(req[r].kind, w) /\ w \in Places \ {"evict", "done"} /\ req[r].pc \in Paying
    BY <1>1, <1>2, <1>4, Words DEF OnCourse, Course, Issuing, Paying
  <2> QED
    BY <1>2, <1>4, <2>1, GoesOnQuietly
<1>5. ASSUME NEW n \in Nat, NEW m \in Nat PROVE Later(n, m) \in Nat
  BY DEF Later
<1>6. req[r].at \in Nat /\ req[r].expires \in Nat
  BY <1>1 DEF Request
<1>7. CASE LoadSubscription(r)
  <2>1. ASSUME req' = [req EXCEPT ![r].expires = sub.expires, ![r].pc = "extend"], req[r].pc = "load", req[r].kind # "view"
        PROVE  req' \in [Requests -> Request] /\ Step(r)
    <3> DEFINE q == [req[r] EXCEPT !.expires = sub.expires, !.pc = "extend"]
    <3>1. req' = [req EXCEPT ![r] = q]
      BY <2>1
    <3>2. /\ q \in Request /\ q.kind = req[r].kind /\ q.pc = "extend" /\ q.reply = req[r].reply
          /\ q.target = req[r].target
      BY <1>1, Words DEF Request
    <3> HIDE DEF q
    <3>3. OnCourse(q) /\ ~Rotating(q)
      BY <1>2, <2>1, <3>2 DEF OnCourse, Course, Rotating, Paying
    <3>4. Grounded(q)
      BY <1>1, <2>1, <3>2 DEF Grounded, Paying
    <3> QED
      BY <1>2, <3>1, <3>2, <3>3, <3>4, MovesTo
  <2>2. req[r].pc = "load"
    BY <1>7 DEF LoadSubscription, At
  <2>3. req' \in [Requests -> Request] /\ Step(r)
    BY <1>3, <1>4, <1>7, <2>1, <2>2 DEF LoadSubscription
  <2> QED
    BY <1>1, <1>7, <2>3 DEF LoadSubscription, Unchanged, stores, TypeOK
<1>8. CASE StartTrial(r)
  <2>1. req[r].pc = "starttrial"
    BY <1>8 DEF StartTrial, At
  <2>2. req' \in [Requests -> Request] /\ Step(r)
    BY <1>3, <1>4, <1>8, <2>1 DEF StartTrial
  <2>3. order' \in [Requests -> Order]
    BY <1>1, <1>8 DEF StartTrial, Unchanged, TypeOK
  <2>4. sub' \in [status : {"none", "trialing", "active"}, expires : Nat]
    BY <1>1, <1>8, TicksAssumption DEF StartTrial, NewTrial, TypeOK
  <2> QED
    BY <1>1, <1>8, <2>2, <2>3, <2>4 DEF StartTrial, Unchanged, TypeOK
<1>9. CASE Extend(r)
  <2>1. req[r].target \in Requests
    BY <1>1, <1>2, <1>9 DEF Extend, At, Fulfils, Grounded, Paying
  <2>2. req' \in [Requests -> Request] /\ Step(r)
    BY <1>3, <1>9 DEF Extend
  <2>3. order' \in [Requests -> Order] /\ order[req[r].target].ticks \in Nat
    BY <1>1, <1>9, <2>1 DEF Extend, Order
  <2>4. sub' \in [status : {"none", "trialing", "active"}, expires : Nat]
    BY <1>5, <1>6, <1>9, <2>3 DEF Extend
  <2> QED
    BY <1>1, <1>9, <2>2, <2>3, <2>4 DEF Extend, Unchanged, TypeOK
<1>10. CASE SaveGrant(r)
  <2>1. req' \in [Requests -> Request] /\ Step(r)
    BY <1>3, <1>10 DEF SaveGrant
  <2>2. PICK ticks \in Periods :
          /\ sub' = [status |-> "active", expires |-> Later(req[r].at, req[r].expires) + ticks]
          /\ granted' = granted + ticks
    BY <1>10 DEF SaveGrant
  <2>3. ticks \in Nat
    BY TicksAssumption
  <2>4. sub' \in [status : {"none", "trialing", "active"}, expires : Nat]
    <3> DEFINE until == Later(req[r].at, req[r].expires)
    <3>1. until \in Nat
      BY <1>5, <1>6
    <3>2. sub' = [status |-> "active", expires |-> until + ticks]
      BY <2>2
    <3> HIDE DEF until
    <3> QED
      BY <2>3, <3>1, <3>2
  <2>5. granted' \in Nat
    BY <1>1, <2>2, <2>3 DEF TypeOK
  <2> QED
    BY <1>1, <1>10, <2>1, <2>4, <2>5 DEF SaveGrant, Unchanged, TypeOK
<1> QED
  BY <1>7, <1>8, <1>9, <1>10

LEMMA Failures ==
  ASSUME IInv, NEW r \in Requests, Fail(r)
  PROVE  TypeOK' /\ Step(r)
<1>1. TypeOK /\ OnCourse(req[r]) /\ Grounded(req[r])
  BY DEF IInv
<1>2. /\ req[r].pc \notin {"idle", "done"} /\ UNCHANGED <<session, account>> /\ Ebbs
      /\ faults' \in Nat
  BY <1>1 DEF Fail, InProgress, Ebbs, Fault, TypeOK
<1>3. ASSUME NEW a \in {"halfway", "error"}, Reply(r, a), Leaving(req[r]) => a = "halfway"
      PROVE  req' \in [Requests -> Request] /\ Step(r)
  BY <1>1, <1>2, <1>3, Words, ReplyMoves, Ends
<1>4. req' \in [Requests -> Request] /\ Step(r)
  <2>1. Reply(r, IF Halfway(req[r]) THEN "halfway" ELSE "error")
    BY Zenon DEF Fail, Ended, Reply
  <2>2. Leaving(req[r]) => Halfway(req[r])
    BY <1>1, <1>2 DEF Leaving, Grounded, Halfway
  <2> QED
    BY <1>3, <2>1, <2>2
<1>5. order' \in [Requests -> Order]
  BY <1>1 DEF Fail, TypeOK
<1> QED
  BY <1>1, <1>2, <1>4, <1>5 DEF Fail, TypeOK

(* A session comes to be at the end of a rotation, and late if the account *)
(* is cooling.                                                             *)
LEMMA Insertion ==
  ASSUME IInv, NEW r \in Requests, InsertSession(r)
  PROVE  IInv'
<1>1. /\ TypeOK /\ OnCourse(req[r]) /\ Grounded(req[r]) /\ req \in [Requests -> Request]
      /\ session \in [Requests -> Row] /\ RotationInv
  BY DEF IInv, TypeOK
<1>2. req[r].pc = "insert" /\ session[r].row = "none" /\ ~Leaving(req[r]) /\ UNCHANGED account
  BY <1>1 DEF InsertSession, At, RotationInv, Leaving, Grounded, Unchanged
<1>3. /\ req' \in [Requests -> Request] /\ \A x \in Requests \ {r} : req'[x] = req[x]
      /\ req'[r].kind = req[r].kind /\ req'[r].pc = "done" /\ req'[r].target = req[r].target
      /\ req'[r].reply = "ok"
  BY <1>1, Words, ReplyMoves DEF InsertSession
<1>4. PICK late \in BOOLEAN : late = (account # "active")
  OBVIOUS
<1>5. [row |-> "live", at |-> clock, late |-> late] \in Row
  BY <1>1 DEF Row, TypeOK
<1>6. /\ session' \in [Requests -> Row] /\ \A x \in Requests \ {r} : session'[x] = session[x]
      /\ session'[r].row = "live" /\ session'[r].late = late
  <2>1. session' = [session EXCEPT ![r] = [row |-> "live", at |-> clock, late |-> late]]
    BY <1>4, Zenon DEF InsertSession
  <2> QED
    BY <1>1, <1>5, <2>1
<1>7. TypeOK'
  BY <1>1, <1>3, <1>6 DEF InsertSession, Unchanged, TypeOK
<1>8. ASSUME NEW x \in Requests PROVE OnCourse(req'[x]) /\ Grounded(req[x])'
  <2>1. \A t \in Requests : session[t].row # "none" => session'[t].row # "none"
    BY <1>2, <1>6
  <2>2. CASE x = r
    BY <1>1, <1>2, <1>3, <2>1, <2>2 DEF OnCourse, Course, Grounded, Issuing, Paying
  <2>3. CASE x # r
    <3>1. req'[x] = req[x] /\ OnCourse(req[x]) /\ Grounded(req[x])
      BY <1>3, <2>3 DEF IInv
    <3> QED
      BY <2>1, <3>1 DEF Grounded
  <2> QED
    BY <2>2, <2>3
<1>9. ASSUME NEW x \in Requests, Won(x)' PROVE Won(x) /\ req'[x].target = req[x].target
  BY <1>2, <1>3, <1>6, <1>9 DEF Won, Rotating
<1>10. RotationInv'
  <2>1. ASSUME NEW x \in Requests, session'[x].row # "none" PROVE req'[x].pc = "done"
    BY <1>1, <1>3, <1>6, <2>1 DEF RotationInv
  <2>2. ASSUME NEW x \in Requests, Won(x) PROVE req[x].target \in Requests /\ session[req[x].target].row = "gone"
    BY <1>1, <2>2 DEF RotationInv, IInv, Won, Rotating, Grounded
  <2>3. ASSUME NEW x \in Requests, Won(x)'
        PROVE  /\ session'[req'[x].target].row = "gone"
               /\ \A q \in Requests \ {x} : Won(q)' => req'[q].target # req'[x].target
    BY <1>1, <1>2, <1>6, <1>9, <2>2, <2>3 DEF RotationInv
  <2> QED
    BY <2>1, <2>3 DEF RotationInv
<1>11. CoolingInv'
  <2> SUFFICES ASSUME account = "cool" PROVE CoolingInv'
    BY <1>2 DEF CoolingInv
  <2>1. CASE \A t \in Live : session[t].late
    <3>1. session'[r].late
      BY <1>4, <1>6
    <3>2. \A t \in Requests \ {r} : session'[t].row = "live" => session'[t].late
      BY <1>6, <2>1 DEF Live
    <3> QED
      BY <3>1, <3>2 DEF CoolingInv, Live
  <2>2. ASSUME NEW x \in Requests, Leaving(req[x]) PROVE CoolingInv'
    BY <1>2, <1>3, <2>2 DEF CoolingInv
  <2> QED
    BY <2>1, <2>2 DEF IInv, CoolingInv
<1> QED
  BY <1>7, <1>8, <1>10, <1>11 DEF IInv

(* Who sets the account cooling goes on to revoke.                         *)
LEMMA Departure ==
  ASSUME IInv, NEW r \in Requests, Cool(r)
  PROVE  IInv'
<1>1. /\ TypeOK /\ OnCourse(req[r]) /\ Grounded(req[r]) /\ RotationInv
  BY DEF IInv
<1>2. req[r].pc = "cool" /\ req[r].kind = "dereg" /\ UNCHANGED session /\ account' = "cool"
  BY <1>1 DEF Cool, At, Unchanged, OnCourse, Course, Issuing, Paying
<1>3. /\ req' \in [Requests -> Request] /\ \A x \in Requests \ {r} : req'[x] = req[x]
      /\ req'[r].kind = "dereg" /\ req'[r].pc = "wipe" /\ req'[r].reply = req[r].reply
  BY <1>1, <1>2, Words, GotoMoves DEF Cool
<1>4. TypeOK'
  BY <1>1, <1>2, <1>3 DEF Cool, Unchanged, TypeOK, Standing, Statuses
<1>5. ASSUME NEW x \in Requests PROVE OnCourse(req'[x]) /\ Grounded(req[x])'
  <2>1. CASE x = r
    BY <1>1, <1>2, <1>3, <2>1 DEF OnCourse, Course, Grounded
  <2>2. CASE x # r
    <3>1. req'[x] = req[x] /\ OnCourse(req[x]) /\ Grounded(req[x])
      BY <1>3, <2>2 DEF IInv
    <3> QED
      BY <1>2, <3>1 DEF Grounded
  <2> QED
    BY <2>1, <2>2
<1>6. session[r].row = "none"
  BY <1>1, <1>2 DEF RotationInv
<1>7. \A x \in Requests : Won(x)' => Won(x) /\ x # r
  BY <1>2, <1>3 DEF Won, Rotating
<1>8. RotationInv'
  BY <1>1, <1>2, <1>3, <1>6, <1>7 DEF RotationInv
<1>9. CoolingInv'
  BY <1>3 DEF CoolingInv, Leaving
<1> QED
  BY <1>4, <1>5, <1>8, <1>9 DEF IInv

(* Whoever was at work has died of it; the rows stay as they are.          *)
LEMMA Crashes ==
  ASSUME IInv, Crash
  PROVE  IInv'
<1>1. /\ TypeOK /\ RotationInv /\ CoolingInv /\ req \in [Requests -> Request] /\ order \in [Requests -> Order]
  BY DEF IInv, TypeOK
<1>2. UNCHANGED <<session, account>>
  BY DEF Crash
<1>3. ASSUME NEW x \in Requests
      PROVE  /\ req'[x] \in Request /\ req'[x].kind = req[x].kind /\ req'[x].target = req[x].target
             /\ \/ x \notin InProgress /\ req'[x] = req[x]
                \/ /\ x \in InProgress /\ req'[x].pc = "done"
                   /\ req'[x].reply = IF Halfway(req[x]) THEN "halfway" ELSE "error"
  <2> DEFINE a == IF Halfway(req[x]) THEN "halfway" ELSE "error"
  <2>1. req'[x] = IF x \notin InProgress THEN req[x] ELSE Answered(req[x], a)
    BY DEF Crash, Ended
  <2>2. a \in Answers /\ req[x] \in Request
    BY <1>1, Words
  <2> HIDE DEF a
  <2>3. /\ Answered(req[x], a) \in Request
        /\ Answered(req[x], a).kind = req[x].kind /\ Answered(req[x], a).pc = "done"
        /\ Answered(req[x], a).target = req[x].target /\ Answered(req[x], a).reply = a
    BY <2>2, Words DEF Request, Answered
  <2>4. a = IF Halfway(req[x]) THEN "halfway" ELSE "error"
    BY DEF a
  <2> QED
    BY <2>1, <2>2, <2>3, <2>4
<1>4. req' \in [Requests -> Request]
  BY <1>3 DEF Crash
<1>5. order' \in [Requests -> Order]
  BY <1>1 DEF Crash, TypeOK
<1>6. TypeOK'
  <2>1. faults' \in Nat
    BY <1>1 DEF Crash, Fault, TypeOK
  <2>2. code' \in Nat
    BY <1>1 DEF Crash, TypeOK
  <2>3. limited' \in BOOLEAN
    BY <1>1, Zenon DEF Crash, TypeOK
  <2> QED
    BY <1>1, <1>2, <1>4, <1>5, <2>1, <2>2, <2>3 DEF Crash, TypeOK, Standing, NoEntry
<1>7. ASSUME NEW x \in Requests PROVE OnCourse(req'[x]) /\ Grounded(req[x])'
  <2>1. OnCourse(req[x]) /\ Grounded(req[x])
    BY DEF IInv
  <2>2. CASE x \notin InProgress
    BY <1>2, <1>3, <2>1, <2>2 DEF Grounded
  <2>3. CASE x \in InProgress
    <3>1. OnCourse(req'[x])
      BY <1>3, <2>1, <2>3 DEF InProgress, OnCourse, Course, Issuing, Paying
    <3>2. Grounded(req[x])'
      BY <1>2, <1>3, <2>1, <2>3 DEF Grounded, Paying
    <3> QED
      BY <3>1, <3>2
  <2> QED
    BY <2>2, <2>3
<1>8. RotationInv'
  <2>1. \A x \in Requests : Won(x)' => Won(x)
    BY <1>2, <1>3 DEF Won, Rotating
  <2>2. \A x \in Requests : session'[x].row # "none" => req'[x].pc = "done"
    BY <1>1, <1>2, <1>3 DEF RotationInv
  <2> QED
    BY <1>1, <1>2, <1>3, <2>1, <2>2 DEF RotationInv
<1>9. CoolingInv'
  <2>1. ASSUME NEW x \in Requests, Leaving(req[x]) PROVE Leaving(req'[x])
    <3>1. Grounded(req[x])
      BY DEF IInv
    <3> QED
      BY <1>3, <2>1, <3>1 DEF Leaving, InProgress, Grounded, Halfway
  <2> QED
    BY <1>1, <1>2, <2>1 DEF CoolingInv, Live
<1> QED
  BY <1>6, <1>7, <1>8, <1>9 DEF IInv

(* Time passes, keys expire.                                               *)
LEMMA Untouched ==
  ASSUME IInv, Tick \/ CodeExpires \/ RateExpires \/ GuardExpires \/ UNCHANGED vars
  PROVE  IInv'
<1>1. UNCHANGED <<req, session, account>>
  BY DEF Tick, CodeExpires, RateExpires, GuardExpires, Unchanged, stores, vars
<1>2. TypeOK'
  <2>1. TypeOK
    BY DEF IInv
  <2>2. CASE Tick
    BY <2>1, <2>2 DEF TypeOK, Tick, stores
  <2>3. CASE CodeExpires
    BY <2>1, <2>3 DEF TypeOK, CodeExpires, Unchanged
  <2>4. CASE RateExpires
    BY <2>1, <2>4 DEF TypeOK, RateExpires, Unchanged
  <2>5. CASE GuardExpires
    BY <2>1, <2>5 DEF TypeOK, GuardExpires, Unchanged, Standing, NoEntry
  <2>6. CASE UNCHANGED vars
    BY <2>1, <2>6 DEF TypeOK, vars
  <2> QED
    BY <2>2, <2>3, <2>4, <2>5, <2>6
<1>3. \A x \in Requests : OnCourse(req'[x]) /\ Grounded(req[x])'
  BY <1>1 DEF IInv, Grounded
<1>4. RotationInv' /\ CoolingInv'
  BY <1>1 DEF IInv, RotationInv, CoolingInv, Won, Live
<1> QED
  BY <1>2, <1>3, <1>4 DEF IInv

-------------------------------------------------------------------------------
LEMMA InitIInv ==
  ASSUME Init
  PROVE  IInv
<1>1. Fresh \in Request /\ Fresh.kind = "none" /\ Fresh.pc = "idle" /\ Fresh.reply = "none"
  BY Words DEF Fresh, Request
<1>2. [row |-> "live", at |-> 0, late |-> FALSE] \in Row /\ NoRow \in Row /\ NoOrder \in Order
  BY DEF NoRow, Row, NoOrder, Order
<1> DEFINE past == [Fresh EXCEPT !.kind = "login", !.pc = "done", !.reply = "ok"]
<1>3. past \in Request /\ past.kind = "login" /\ past.pc = "done" /\ past.reply = "ok"
  BY <1>1, Words DEF Request
<1>4. session \in [Requests -> Row] /\ req \in [Requests -> Request]
  BY <1>1, <1>2, <1>3 DEF Init
<1>5. \A x \in Requests :
        \/ session[x].row = "none" /\ req[x].kind = "none" /\ req[x].pc = "idle" /\ req[x].reply = "none"
        \/ req[x].kind = "login" /\ req[x].pc = "done" /\ req[x].reply = "ok"
  <2>1. NoRow.row = "none"
    BY DEF NoRow
  <2>2. ASSUME NEW x \in Requests
        PROVE  (session[x] = NoRow /\ req[x] = Fresh) \/ req[x] = past
    <3>1. \/ session = [r \in Requests |-> NoRow] /\ req = [r \in Requests |-> Fresh]
          \/ /\ session = [r \in Requests |->
                  IF r \in Early THEN [row |-> "live", at |-> 0, late |-> FALSE] ELSE NoRow]
             /\ req = [r \in Requests |-> IF r \in Early THEN past ELSE Fresh]
      BY DEF Init
    <3> HIDE DEF past
    <3> QED
      BY <3>1
  <2> HIDE DEF past
  <2> QED
    BY <1>1, <1>3, <2>1, <2>2
<1> HIDE DEF past
<1>6. TypeOK
  <2>1. sub \in [status : {"none", "trialing", "active"}, expires : Nat] /\ account \in Standing
    BY TicksAssumption DEF Init, NoSub, Standing, Statuses
  <2>2. order \in [Requests -> Order]
    BY <1>2 DEF Init
  <2>3. limited \in BOOLEAN /\ guard \in [status : Standing, late : BOOLEAN] /\ faults \in Nat
    BY TicksAssumption DEF Init, Standing, NoEntry
  <2> QED
    BY <1>4, <2>1, <2>2, <2>3 DEF Init, TypeOK
<1>7. \A x \in Requests : OnCourse(req[x]) /\ Grounded(req[x])
  BY <1>5 DEF OnCourse, Course, Grounded, Issuing, Paying
<1>8. RotationInv
  BY <1>5 DEF RotationInv, Won, Rotating
<1>9. CoolingInv
  BY DEF CoolingInv, Init
<1> QED
  BY <1>6, <1>7, <1>8, <1>9 DEF IInv

LEMMA NextIInv ==
  ASSUME IInv, [Next]_vars
  PROVE  IInv'
<1>1. CASE Tick \/ CodeExpires \/ RateExpires \/ GuardExpires \/ UNCHANGED vars
  BY <1>1, Untouched
<1>2. CASE Crash
  BY <1>2, Crashes
<1>3. ASSUME NEW r \in Requests, SessionStep(r) PROVE IInv'
  <2>1. CASE InsertSession(r)
    BY <2>1, Insertion
  <2>2. CASE Cool(r)
    BY <2>2, Departure
  <2>3. CASE \/ SendCode(r) \/ Register(r) \/ Login(r) \/ Present(r) \/ Authenticated(r) \/ Revoke(r) \/ Operate(r)
    BY <2>3, Arrivals, StepKeeps
  <2>4. CASE SetCode(r) \/ CompareCode(r) \/ SpendCode(r) \/ LookUpPhone(r) \/ RegisterTrial(r)
    BY <2>4, CodeSteps, StepKeeps
  <2>5. CASE FindToken(r) \/ ReloadUser(r) \/ CountActive(r)
    BY <2>5, TokenSteps, StepKeeps
  <2>6. CASE ReadBeforeLeaving(r) \/ ReadBeforeReturning(r) \/ Invalidate(r)
    BY <2>6, StatusReads, StepKeeps
  <2>7. CASE AskGuard(r) \/ FillGuard(r)
    BY <2>7, GuardSteps, StepKeeps
  <2>8. CASE CreateUser(r) \/ Warm(r) \/ SetStatus(r)
    BY <2>8, AccountSteps, StepKeeps
  <2>9. CASE PickOldest(r) \/ EvictOldest(r) \/ ConsumeToken(r) \/ DeleteSession(r) \/ RevokeAll(r)
    BY <2>9, SessionEndings, StepKeeps
  <2> QED
    BY <1>3, <2>1, <2>2, <2>3, <2>4, <2>5, <2>6, <2>7, <2>8, <2>9 DEF SessionStep
<1>4. ASSUME NEW r \in Requests, SubscriptionStep(r) PROVE IInv'
  <2>1. CASE AskForOrder(r) \/ Notified(r) \/ Grant(r)
    BY <2>1, Arrivals, StepKeeps
  <2>2. CASE CreateOrder(r) \/ ReadOrder(r) \/ MarkPaid(r)
    BY <2>2, OrderSteps, StepKeeps
  <2>3. CASE LoadSubscription(r) \/ StartTrial(r) \/ Extend(r) \/ SaveGrant(r)
    BY <2>3, SubscriptionSteps, StepKeeps
  <2> QED
    BY <1>4, <2>1, <2>2, <2>3 DEF SubscriptionStep
<1>5. ASSUME NEW r \in Requests, Fail(r) PROVE IInv'
  BY <1>5, Failures, StepKeeps
<1> QED
  BY <1>1, <1>2, <1>3, <1>4, <1>5 DEF Next

LEMMA Invariance == Spec => []IInv
<1>1. Init => IInv
  BY InitIInv
<1>2. IInv /\ [Next]_vars => IInv'
  BY NextIInv
<1> QED
  BY <1>1, <1>2, PTL DEF Spec

(* However many requests present one refresh token, Consume lets one of    *)
(* them have a session for it, and the token is dead from then on.         *)
THEOREM Rotation == Spec => []RotationIsLinear
<1>1. IInv => RotationIsLinear
  BY DEF IInv, RotationInv, RotationIsLinear, Won
<1> QED
  BY <1>1, Invariance, PTL

(* RequestDeregistration: while the account cools, no session works but    *)
(* one that a request inserted after the status changed, unless the        *)
(* revocation is still to come or has failed.                              *)
THEOREM Cooling == Spec => []CoolingIsQuiet
<1>1. IInv => CoolingIsQuiet
  BY DEF IInv, CoolingInv, CoolingIsQuiet, Leaving, At
<1> QED
  BY <1>1, Invariance, PTL

(* The ban has yet to drop the cached entry, or was told that its update   *)
(* had failed.                                                             *)
Banning(q) == q.kind = "ban" /\ (q.pc = "invalidate" \/ q.reply = "halfway")
BanInv     == account = "banned" /\ guard.status = "active" => guard.late \/ \E r \in Requests : Banning(req[r])

LEMMA BanStays ==
  ASSUME BanInv, guard' = guard, account' = account \/ account' # "banned",
         \A x \in Requests : Banning(req[x]) => Banning(req'[x])
  PROVE  BanInv'
BY DEF BanInv

LEMMA BanAside ==
  ASSUME IInv, BanInv, NEW r \in Requests, \A x \in Requests \ {r} : req'[x] = req[x],
         req[r].pc \notin {"done", "invalidate"}, guard' = guard, account' = account \/ account' # "banned"
  PROVE  BanInv'
<1>1. ~Banning(req[r])
  BY DEF IInv, Grounded, Banning
<1> QED
  BY <1>1, BanStays

LEMMA BanSessionStep ==
  ASSUME IInv, BanInv, NEW r \in Requests, SessionStep(r)
  PROVE  BanInv'
<1>1. CASE \/ SendCode(r) \/ Register(r) \/ Login(r) \/ Present(r) \/ Authenticated(r) \/ Revoke(r) \/ Operate(r)
  <2>1. guard' = guard /\ account' = account /\ req[r].pc = "idle"
    BY <1>1, Zenon DEF SendCode, Register, Login, Present, Authenticated, Revoke, Operate, Arrive, At, Unchanged, stores
  <2> QED
    BY <1>1, <2>1, Arrivals, BanAside DEF Step
<1>2. CASE SetCode(r) \/ CompareCode(r) \/ SpendCode(r) \/ LookUpPhone(r) \/ RegisterTrial(r)
  <2>1. guard' = guard /\ account' = account /\ req[r].pc \notin {"done", "invalidate"}
    BY <1>2 DEF SetCode, CompareCode, SpendCode, LookUpPhone, RegisterTrial, At, Unchanged, stores
  <2> QED
    BY <1>2, <2>1, CodeSteps, BanAside DEF Step
<1>3. CASE FindToken(r) \/ ReloadUser(r) \/ CountActive(r)
  <2>1. guard' = guard /\ account' = account /\ req[r].pc \notin {"done", "invalidate"}
    BY <1>3 DEF FindToken, ReloadUser, CountActive, At, Unchanged, stores
  <2> QED
    BY <1>3, <2>1, TokenSteps, BanAside DEF Step
<1>4. CASE PickOldest(r) \/ EvictOldest(r) \/ ConsumeToken(r) \/ DeleteSession(r) \/ RevokeAll(r)
  <2>1. guard' = guard /\ account' = account /\ req[r].pc \notin {"done", "invalidate"}
    BY <1>4 DEF PickOldest, EvictOldest, ConsumeToken, DeleteSession, RevokeAll, At, Unchanged, stores
  <2> QED
    BY <1>4, <2>1, SessionEndings, BanAside DEF Step
<1>5. CASE ReadBeforeLeaving(r) \/ ReadBeforeReturning(r)
  <2>1. guard' = guard /\ account' = account /\ req[r].pc \notin {"done", "invalidate"}
    BY <1>5 DEF ReadBeforeLeaving, ReadBeforeReturning, At, Unchanged, stores
  <2> QED
    BY <1>5, <2>1, StatusReads, BanAside DEF Step
<1>6. CASE AskGuard(r)
  <2>1. guard' = guard /\ account' = account /\ req[r].pc = "gate"
    BY <1>6 DEF AskGuard, At, Unchanged, stores
  <2> QED
    BY <1>6, <2>1, GuardSteps, BanAside DEF Step
<1>7. CASE CreateUser(r) \/ Warm(r)
  <2>1. guard' = guard /\ (account' = account \/ account' # "banned") /\ req[r].pc \in {"create", "warm"}
    BY <1>7 DEF CreateUser, Warm, At, Unchanged
  <2> QED
    BY <1>7, <2>1, AccountSteps, BanAside DEF Step
<1>8. CASE InsertSession(r) \/ Cool(r)
  <2>1. guard' = guard /\ (account' = account \/ account' # "banned") /\ req[r].pc \in {"insert", "cool"}
    BY <1>8 DEF InsertSession, Cool, At, Unchanged
  <2>2. \A x \in Requests \ {r} : req'[x] = req[x]
    BY <1>8, Words, GotoMoves, ReplyMoves DEF InsertSession, Cool, IInv
  <2> QED
    BY <2>1, <2>2, BanAside
<1>9. CASE FillGuard(r)
  BY <1>9 DEF FillGuard, BanInv, Unchanged
<1>10. CASE SetStatus(r)
  <2>1. req[r].kind \in {"ban", "unban"} /\ account' = Ordered(r)
    BY <1>10 DEF IInv, SetStatus, At, OnCourse, Course, Issuing, Paying
  <2>2. req'[r].kind = req[r].kind /\ req'[r].pc = "invalidate"
    BY <1>10, Words, GotoMoves DEF IInv, SetStatus
  <2> QED
    BY <2>1, <2>2 DEF Ordered, Banning, BanInv
<1>11. CASE Invalidate(r)
  BY <1>11 DEF Invalidate, NoEntry, BanInv
<1> QED
  BY <1>1, <1>2, <1>3, <1>4, <1>5, <1>6, <1>7, <1>8, <1>9, <1>10, <1>11 DEF SessionStep

LEMMA BanFails ==
  ASSUME IInv, BanInv, NEW r \in Requests, Fail(r)
  PROVE  BanInv'
<1>1. guard' = guard /\ account' = account /\ req[r].pc \notin {"idle", "done"}
  BY DEF Fail, InProgress
<1>2. CASE Halfway(req[r])
  <2>1. Reply(r, "halfway")
    BY <1>2, Zenon DEF Fail, Ended, Reply
  <2>2. /\ \A x \in Requests \ {r} : req'[x] = req[x]
        /\ req'[r].kind = req[r].kind /\ req'[r].reply = "halfway"
    BY <2>1, Words, ReplyMoves DEF IInv
  <2> QED
    BY <1>1, <2>2, BanStays DEF Banning
<1>3. CASE ~Halfway(req[r])
  <2>1. Reply(r, "error")
    BY <1>3, Zenon DEF Fail, Ended, Reply
  <2>2. ~Banning(req[r])
    BY <1>1, <1>3 DEF IInv, Grounded, Banning, Halfway
  <2>3. \A x \in Requests \ {r} : req'[x] = req[x]
    BY <2>1, Words, ReplyMoves DEF IInv
  <2> QED
    BY <1>1, <2>2, <2>3, BanStays
<1> QED
  BY <1>2, <1>3

(* SetUserStatus: what the guard says of a banned account is not that it   *)
(* is active, however requests, failures and crashes fall together, unless *)
(* the ban has not come to its invalidation, or was told of a failure, or  *)
(* the entry comes from a lookup that had read the row before.             *)
THEOREM Ban == Spec => []BanIsSeen
<1>1. Init => BanInv
  BY DEF Init, BanInv
<1>2. ASSUME IInv, BanInv, [Next]_vars PROVE BanInv'
  <2>1. CASE Tick \/ CodeExpires \/ RateExpires \/ UNCHANGED vars
    BY <1>2, <2>1, BanStays DEF Tick, CodeExpires, RateExpires, Unchanged, stores, vars
  <2>2. CASE GuardExpires \/ Crash
    BY <2>2 DEF GuardExpires, Crash, NoEntry, BanInv
  <2>3. ASSUME NEW r \in Requests, SubscriptionStep(r) PROVE BanInv'
    <3>1. guard' = guard /\ account' = account /\ req[r].pc \notin {"done", "invalidate"}
      BY <2>3, Zenon DEF SubscriptionStep, AskForOrder, CreateOrder, Notified, ReadOrder, MarkPaid, LoadSubscription,
                  StartTrial, Extend, Grant, SaveGrant, Arrive, At, Unchanged, stores
    <3>2. Step(r)
      BY <1>2, <2>3, Arrivals, OrderSteps, SubscriptionSteps DEF SubscriptionStep
    <3> QED
      BY <1>2, <3>1, <3>2, BanAside DEF Step
  <2> QED
    BY <1>2, <2>1, <2>2, <2>3, BanSessionStep, BanFails DEF Next
<1>3. BanInv => BanIsSeen
  BY DEF BanInv, BanIsSeen, Banning, At
<1> QED
  BY <1>1, <1>2, <1>3, Invariance, PTL DEF Spec

-------------------------------------------------------------------------------
(* Time.  Paid: a request fulfils an order that is there; Handing: it has  *)
(* won the order, and has yet to extend the subscription for it.           *)
Paid(q)    == q.kind \in {"order", "notify"} /\ q.pc \in Paying
Handing(q) == q.kind \in {"order", "notify"} /\ q.pc \in {"load", "starttrial", "extend"}
Latest     == clock + TrialTicks + granted

(* What a request has read of the clock and the subscription is no later   *)
(* than what has been handed out allows.                                   *)
Within ==
  /\ sub.expires <= Latest
  /\ \A r \in Requests : req[r].at <= clock /\ req[r].expires <= Latest

(* An order is handed out once: its request has placed it before anyone    *)
(* reads it, and one winner at most is on the way to extend.               *)
Once ==
  /\ \A o \in Requests :
       /\ order[o].status # "none" => req[o].pc \in Paying \cup {"done"}
       /\ order[o].extended = 0 \/ (order[o].extended = 1 /\ order[o].status = "paid")
  /\ \A r \in Requests :
       /\ Paid(req[r]) => order[req[r].target].status # "none"
       /\ Handing(req[r]) => order[req[r].target].status = "paid" /\ order[req[r].target].extended = 0
       /\ \A q \in Requests \ {r} : Handing(req[r]) /\ Handing(req[q]) => req[r].target # req[q].target

(* A step of a request that changes no order and wins none; and one that   *)
(* reads neither the clock nor the subscription.                           *)
Aside(r) ==
  /\ \A o \in Requests : order'[o].status = order[o].status /\ order'[o].extended = order[o].extended
  /\ \A x \in Requests \ {r} : req'[x] = req[x]
  /\ req[r].pc \in Paying => req'[r].pc \in Paying \cup {"done"}
  /\ req[r].pc # "done"
  /\ Paid(req'[r]) => \/ Paid(req[r]) /\ req'[r].target = req[r].target
                      \/ req'[r].target \in Requests /\ order[req'[r].target].status # "none"
  /\ Handing(req'[r]) => Handing(req[r]) /\ req'[r].target = req[r].target
Elsewhere(r) == Aside(r) /\ req'[r].at = req[r].at /\ req'[r].expires \in {0, req[r].expires}

LEMMA LatestIsANumber ==
  ASSUME TypeOK
  PROVE  Latest \in Nat /\ clock \in Nat /\ granted \in Nat /\ TrialTicks \in Nat
BY TicksAssumption DEF TypeOK, Latest

LEMMA AsideOnce ==
  ASSUME IInv, Once, NEW r \in Requests, Aside(r)
  PROVE  Once'
<1>1. ASSUME NEW x \in Requests, Paid(req'[x])
      PROVE  req'[x].target \in Requests /\ order[req'[x].target].status # "none"
  <2>1. CASE Paid(req[x]) /\ req'[x].target = req[x].target
    <3>1. Grounded(req[x])
      BY DEF IInv
    <3> QED
      BY <2>1, <3>1 DEF Grounded, Paid, Once
  <2> QED
    BY <1>1, <2>1 DEF Aside
<1>2. ASSUME NEW x \in Requests, Handing(req'[x])
      PROVE  Handing(req[x]) /\ req'[x].target = req[x].target
  BY <1>2 DEF Aside
<1>3. \A x \in Requests : Handing(req'[x]) => Paid(req'[x])
  BY DEF Handing, Paid, Paying
<1>4. \A o \in Requests :
        /\ order'[o].status # "none" => req'[o].pc \in Paying \cup {"done"}
        /\ order'[o].extended = 0 \/ (order'[o].extended = 1 /\ order'[o].status = "paid")
  BY DEF Once, Aside
<1>5. ASSUME NEW x \in Requests
      PROVE  /\ Paid(req'[x]) => order'[req'[x].target].status # "none"
             /\ Handing(req'[x]) => order'[req'[x].target].status = "paid" /\ order'[req'[x].target].extended = 0
             /\ \A q \in Requests \ {x} : Handing(req'[x]) /\ Handing(req'[q]) => req'[x].target # req'[q].target
  BY <1>1, <1>2, <1>3 DEF Once, Aside
<1> QED
  BY <1>4, <1>5 DEF Once, Paid, Handing

LEMMA MoreIsLater ==
  ASSUME NEW a \in Nat, NEW b \in Nat, NEW c \in Nat, NEW d \in Nat, c <= d
  PROVE  a + b + c \in Nat /\ a + b + d \in Nat /\ a + b + c <= a + b + d
OBVIOUS

(* Time that is handed out is added to what is allowed.                    *)
LEMMA WithinStays ==
  ASSUME IInv, IInv', Within, NEW r \in Requests, \A x \in Requests \ {r} : req'[x] = req[x],
         clock' = clock, granted' >= granted, sub'.expires <= Latest',
         req'[r].at <= clock, req'[r].expires <= Latest'
  PROVE  Within'
<1>1. Latest \in Nat /\ \A x \in Requests : req[x].expires \in Nat /\ req[x].at \in Nat
  BY LatestIsANumber DEF IInv, TypeOK, Request
<1>2. granted \in Nat /\ granted' \in Nat /\ clock \in Nat /\ TrialTicks \in Nat
  BY TicksAssumption DEF IInv, TypeOK
<1>3. Latest' \in Nat /\ Latest <= Latest'
  <2>1. Latest = clock + TrialTicks + granted
    BY DEF Latest
  <2>2. Latest' = clock + TrialTicks + granted'
    BY DEF Latest
  <2>3. granted <= granted'
    BY <1>2
  <2> QED
    BY <1>2, <2>1, <2>2, <2>3, MoreIsLater
<1> QED
  BY <1>1, <1>3 DEF Within

LEMMA ElsewhereWithin ==
  ASSUME IInv, IInv', Within, NEW r \in Requests, Elsewhere(r), UNCHANGED <<clock, granted>>,
         sub' = sub \/ sub' = NewTrial
  PROVE  Within'
<1>1. Latest \in Nat /\ Latest' = Latest /\ clock \in Nat /\ granted \in Nat /\ TrialTicks \in Nat
  BY LatestIsANumber DEF IInv, Latest
<1>2. NewTrial.expires <= Latest
  BY <1>1 DEF NewTrial, Latest
<1>3. sub'.expires <= Latest
  BY <1>2 DEF Within
<1>4. req'[r].at <= clock /\ req'[r].expires <= Latest
  BY <1>1 DEF Within, Elsewhere
<1> QED
  BY <1>1, <1>3, <1>4, WithinStays DEF Elsewhere, Aside

LEMMA GoesOnElsewhere ==
  ASSUME TypeOK, NEW r \in Requests, NEW p, Goto(r, p), order' = order,
         p \notin Paying \/ req[r].kind \notin {"order", "notify"}, req[r].pc \notin Paying \cup {"done"}
  PROVE  Elsewhere(r)
<1>1. req \in [Requests -> Request] /\ req[r] \in Request
  BY DEF TypeOK
<1>2. req' = [req EXCEPT ![r] = [req[r] EXCEPT !.pc = p]]
  BY DEF Goto
<1>3. /\ req'[r].at = req[r].at /\ req'[r].expires = req[r].expires
      /\ req'[r].pc = p /\ req'[r].kind = req[r].kind
  BY <1>1, <1>2 DEF Request
<1>4. ~Paid(req'[r]) /\ ~Handing(req'[r])
  BY <1>3 DEF Paid, Handing, Paying
<1> QED
  BY <1>1, <1>2, <1>3, <1>4 DEF Elsewhere, Aside

LEMMA EndsElsewhere ==
  ASSUME TypeOK, NEW r \in Requests, NEW a, Reply(r, a), req[r].pc # "done",
         \A o \in Requests : order'[o].status = order[o].status /\ order'[o].extended = order[o].extended
  PROVE  Elsewhere(r)
<1>1. req \in [Requests -> Request] /\ req[r] \in Request
  BY DEF TypeOK
<1>2. req' = [req EXCEPT ![r] = Answered(req[r], a)]
  BY DEF Reply
<1>3. req'[r].at = req[r].at /\ req'[r].expires = 0 /\ req'[r].pc = "done"
  BY <1>1, <1>2 DEF Request, Answered
<1>4. ~Paid(req'[r]) /\ ~Handing(req'[r])
  BY <1>3 DEF Paid, Handing, Paying
<1> QED
  BY <1>1, <1>2, <1>3, <1>4 DEF Elsewhere, Aside

(* A request that has just come has read nothing.                          *)
LEMMA ArrivesElsewhere ==
  ASSUME TypeOK, NEW r \in Requests,
         SendCode(r) \/ Register(r) \/ Login(r) \/ Present(r) \/ Authenticated(r) \/ Revoke(r) \/ Operate(r)
           \/ AskForOrder(r)
  PROVE  Elsewhere(r)
<1>1. /\ req \in [Requests -> Request] /\ req[r] \in Request /\ req[r].pc = "idle"
      /\ req[r].pc \notin Paying \cup {"done"} /\ order' = order
  <2>1. At(r, "idle") /\ order' = order
    BY Zenon DEF SendCode, Register, Login, Present, Authenticated, Revoke, Operate, AskForOrder, Arrive, Unchanged, stores
  <2> QED
    BY <2>1 DEF TypeOK, At, Paying
<1> DEFINE Came == /\ \A x \in Requests \ {r} : req'[x] = req[x]
                   /\ req'[r].at = req[r].at /\ req'[r].expires = req[r].expires
                   /\ req'[r].kind \notin {"order", "notify"} \/ req'[r].pc = "gate"
<1>2. SUFFICES Came
  BY <1>1 DEF Elsewhere, Aside, Paid, Handing, Paying
<1>3. CASE SendCode(r)
  BY <1>1, <1>3 DEF SendCode, Request
<1>4. CASE Register(r)
  <2>1. PICK n : req' = [req EXCEPT ![r].kind = "register", ![r].pc = "verify", ![r].known = n]
    BY <1>4 DEF Register
  <2> QED
    BY <1>1, <2>1 DEF Request
<1>5. CASE Login(r)
  <2>1. CASE \E p, x : req' = [req EXCEPT ![r].kind = "login", ![r].pc = p, ![r].reply = x]
    BY <1>1, <2>1 DEF Request
  <2>2. CASE \E n : req' = [req EXCEPT ![r].kind = "login", ![r].pc = "verify", ![r].known = n, ![r].seen = account]
    BY <1>1, <2>2 DEF Request
  <2>3. CASE req' = [req EXCEPT ![r].kind = "login", ![r].pc = "count"]
    BY <1>1, <2>3 DEF Request
  <2> QED
    BY Zenon, <1>5, <2>1, <2>2, <2>3 DEF Login
<1>6. CASE Present(r)
  <2>1. PICK kind \in {"refresh", "logout"} : \E t \in Requests :
          req' = [req EXCEPT ![r].kind = kind, ![r].target = t,
                             ![r].pc = IF kind = "refresh" THEN "find" ELSE "gate"]
    BY Zenon, <1>6 DEF Present
  <2>2. PICK t \in Requests :
          req' = [req EXCEPT ![r].kind = kind, ![r].target = t,
                             ![r].pc = IF kind = "refresh" THEN "find" ELSE "gate"]
    BY Zenon, <2>1
  <2> QED
    BY <1>1, <2>2 DEF Request
<1>7. CASE Authenticated(r)
  BY <1>1, <1>7 DEF Authenticated, Request
<1>8. CASE Revoke(r)
  <2>1. PICK t : req' = [req EXCEPT ![r].kind = "revoke", ![r].target = t, ![r].pc = "gate"]
    BY Zenon, <1>8 DEF Revoke
  <2> QED
    BY <1>1, <2>1 DEF Request
<1>9. CASE Operate(r)
  BY <1>1, <1>9 DEF Operate, Request
<1>10. CASE AskForOrder(r)
  BY <1>1, <1>10 DEF AskForOrder, Request
<1> QED
  BY <1>3, <1>4, <1>5, <1>6, <1>7, <1>8, <1>9, <1>10

(* The other steps of Sessions know of no order, and read no clock.        *)
LEMMA SessionsElsewhere ==
  ASSUME IInv, NEW r \in Requests, SessionStep(r)
  PROVE  Elsewhere(r) /\ UNCHANGED <<clock, granted>> /\ (sub' = sub \/ sub' = NewTrial)
<1>1. TypeOK /\ req \in [Requests -> Request] /\ req[r] \in Request /\ OnCourse(req[r])
  BY DEF IInv, TypeOK
<1>2. ASSUME NEW p, Goto(r, p), order' = order, p \notin Paying, req[r].pc \notin Paying \cup {"done"}
      PROVE  Elsewhere(r)
  BY <1>1, <1>2, GoesOnElsewhere
<1>3. ASSUME NEW a, Reply(r, a), order' = order, req[r].pc # "done"
      PROVE  Elsewhere(r)
  BY <1>1, <1>3, EndsElsewhere
<1>4. CASE SendCode(r) \/ Register(r) \/ Login(r) \/ Present(r) \/ Authenticated(r) \/ Revoke(r) \/ Operate(r)
  BY Zenon, <1>1, <1>4, ArrivesElsewhere DEF SendCode, Register, Login, Present, Authenticated, Revoke, Operate, Unchanged, stores
<1>5. CASE SetCode(r)
  <2>1. req[r].pc = "setcode" /\ UNCHANGED <<clock, granted, sub, order>>
    BY <1>5 DEF SetCode, At, Unchanged, stores
  <2>2. Elsewhere(r)
    BY <1>2, <1>3, <1>5, <2>1 DEF SetCode, Paying
  <2> QED
    BY <1>5, <2>1, <2>2
<1>6. CASE CompareCode(r)
  <2>1. req[r].pc = "verify" /\ UNCHANGED <<clock, granted, sub, order>>
    BY <1>6 DEF CompareCode, At, Unchanged, stores
  <2>2. Elsewhere(r)
    BY <1>2, <1>3, <1>6, <2>1 DEF CompareCode, Paying
  <2> QED
    BY <1>6, <2>1, <2>2
<1>7. CASE SpendCode(r)
  <2>1. req[r].pc = "spend" /\ UNCHANGED <<clock, granted, sub, order>>
    BY <1>7 DEF SpendCode, At, Unchanged, stores
  <2>2. Elsewhere(r)
    BY <1>2, <1>3, <1>7, <2>1 DEF SpendCode, Paying
  <2> QED
    BY <1>7, <2>1, <2>2
<1>8. CASE LookUpPhone(r)
  <2>1. req[r].pc = "lookup" /\ UNCHANGED <<clock, granted, sub, order>>
    BY <1>8 DEF LookUpPhone, At, Unchanged, stores
  <2>2. Elsewhere(r)
    BY <1>2, <1>3, <1>8, <2>1 DEF LookUpPhone, Paying
  <2> QED
    BY <1>8, <2>1, <2>2
<1>9. CASE CreateUser(r)
  <2>1. req[r].pc = "create" /\ UNCHANGED <<clock, granted, sub, order>>
    BY <1>9 DEF CreateUser, At, Unchanged, stores
  <2>2. Elsewhere(r)
    BY <1>2, <1>3, <1>9, <2>1 DEF CreateUser, Paying
  <2> QED
    BY <1>9, <2>1, <2>2
<1>10. CASE RegisterTrial(r)
  <2>1. req[r].pc = "trial" /\ UNCHANGED <<clock, granted, order>>
    BY <1>10 DEF RegisterTrial, At, Unchanged, stores
  <2>2. Elsewhere(r)
    BY <1>2, <1>3, <1>10, <2>1 DEF RegisterTrial, Paying
  <2> QED
    BY <1>10, <2>1, <2>2 DEF RegisterTrial
<1>11. CASE FindToken(r)
  <2>1. req[r].pc = "find" /\ UNCHANGED <<clock, granted, sub, order>>
    BY <1>11 DEF FindToken, At, Unchanged, stores
  <2>2. Elsewhere(r)
    BY <1>2, <1>3, <1>11, <2>1 DEF FindToken, Paying, NotConsumed
  <2> QED
    BY <1>11, <2>1, <2>2
<1>12. CASE ConsumeToken(r)
  <2>1. req[r].pc = "consume" /\ UNCHANGED <<clock, granted, sub, order>>
    BY <1>12 DEF ConsumeToken, At, Unchanged, stores
  <2>2. Elsewhere(r)
    BY <1>2, <1>3, <1>12, <2>1 DEF ConsumeToken, Paying, NotConsumed
  <2> QED
    BY <1>12, <2>1, <2>2
<1>13. CASE ReloadUser(r)
  <2>1. req[r].pc = "reload" /\ UNCHANGED <<clock, granted, sub, order>>
    BY <1>13 DEF ReloadUser, At, Unchanged, stores
  <2>2. Elsewhere(r)
    BY <1>2, <1>3, <1>13, <2>1 DEF ReloadUser, Paying
  <2> QED
    BY <1>13, <2>1, <2>2
<1>14. CASE CountActive(r)
  <2>1. req[r].pc = "count" /\ UNCHANGED <<clock, granted, sub, order>>
    BY <1>14 DEF CountActive, At, Unchanged, stores
  <2>2. Elsewhere(r)
    BY <1>2, <1>3, <1>14, <2>1 DEF CountActive, Paying
  <2> QED
    BY <1>14, <2>1, <2>2
<1>15. CASE PickOldest(r)
  <2>1. req[r].pc = "oldest" /\ UNCHANGED <<clock, granted, sub, order>>
    BY <1>15 DEF PickOldest, At, Unchanged, stores
  <2>2. ASSUME NEW t, req' = [req EXCEPT ![r].victim = t, ![r].pc = "evict"]
        PROVE  Elsewhere(r)
    <3>1. /\ \A x \in Requests \ {r} : req'[x] = req[x]
          /\ req'[r].at = req[r].at /\ req'[r].expires = req[r].expires /\ req'[r].pc = "evict"
      BY <1>1, <2>2 DEF Request
    <3> QED
      BY <2>1, <3>1 DEF Elsewhere, Aside, Paid, Handing, Paying
  <2>3. Elsewhere(r)
    BY <1>2, <1>15, <2>1, <2>2 DEF PickOldest, Paying
  <2> QED
    BY <2>1, <2>3
<1>16. CASE EvictOldest(r)
  <2>1. req[r].pc = "evict" /\ UNCHANGED <<clock, granted, sub, order>>
    BY <1>16 DEF EvictOldest, At, Unchanged, stores
  <2>2. Elsewhere(r)
    BY <1>2, <1>3, <1>16, <2>1 DEF EvictOldest, Paying
  <2> QED
    BY <1>16, <2>1, <2>2
<1>17. CASE InsertSession(r)
  <2>1. req[r].pc = "insert" /\ UNCHANGED <<clock, granted, sub, order>>
    BY <1>17 DEF InsertSession, At, Unchanged, stores
  <2>2. Elsewhere(r)
    BY <1>2, <1>3, <1>17, <2>1 DEF InsertSession, Paying
  <2> QED
    BY <1>17, <2>1, <2>2
<1>18. CASE DeleteSession(r)
  <2>1. req[r].pc = "delete" /\ UNCHANGED <<clock, granted, sub, order>>
    BY <1>18 DEF DeleteSession, At, Unchanged, stores
  <2>2. Elsewhere(r)
    BY <1>2, <1>3, <1>18, <2>1 DEF DeleteSession, Paying
  <2> QED
    BY <1>18, <2>1, <2>2
<1>19. CASE ReadBeforeLeaving(r)
  <2>1. req[r].pc = "leave" /\ UNCHANGED <<clock, granted, sub, order>>
    BY <1>19 DEF ReadBeforeLeaving, At, Unchanged, stores
  <2>2. Elsewhere(r)
    BY <1>2, <1>3, <1>19, <2>1 DEF ReadBeforeLeaving, Paying
  <2> QED
    BY <1>19, <2>1, <2>2
<1>20. CASE Cool(r)
  <2>1. req[r].pc = "cool" /\ UNCHANGED <<clock, granted, sub, order>>
    BY <1>20 DEF Cool, At, Unchanged, stores
  <2>2. Elsewhere(r)
    BY <1>2, <1>3, <1>20, <2>1 DEF Cool, Paying
  <2> QED
    BY <1>20, <2>1, <2>2
<1>21. CASE RevokeAll(r)
  <2>1. req[r].pc = "wipe" /\ UNCHANGED <<clock, granted, sub, order>>
    BY <1>21 DEF RevokeAll, At, Unchanged, stores
  <2>2. Elsewhere(r)
    BY <1>2, <1>3, <1>21, <2>1 DEF RevokeAll, Paying
  <2> QED
    BY <1>21, <2>1, <2>2
<1>22. CASE ReadBeforeReturning(r)
  <2>1. req[r].pc = "comeback" /\ UNCHANGED <<clock, granted, sub, order>>
    BY <1>22 DEF ReadBeforeReturning, At, Unchanged, stores
  <2>2. Elsewhere(r)
    BY <1>2, <1>3, <1>22, <2>1 DEF ReadBeforeReturning, Paying
  <2> QED
    BY <1>22, <2>1, <2>2
<1>23. CASE Warm(r)
  <2>1. req[r].pc = "warm" /\ UNCHANGED <<clock, granted, sub, order>>
    BY <1>23 DEF Warm, At, Unchanged, stores
  <2>2. Elsewhere(r)
    BY <1>2, <1>3, <1>23, <2>1 DEF Warm, Paying
  <2> QED
    BY <1>23, <2>1, <2>2
<1>24. CASE SetStatus(r)
  <2>1. req[r].pc = "setstatus" /\ UNCHANGED <<clock, granted, sub, order>>
    BY <1>24 DEF SetStatus, At, Unchanged, stores
  <2>2. Elsewhere(r)
    BY <1>2, <1>3, <1>24, <2>1 DEF SetStatus, Paying
  <2> QED
    BY <1>24, <2>1, <2>2
<1>25. CASE Invalidate(r)
  <2>1. req[r].pc = "invalidate" /\ UNCHANGED <<clock, granted, sub, order>>
    BY <1>25 DEF Invalidate, At, Unchanged, stores
  <2>2. Elsewhere(r)
    BY <1>2, <1>3, <1>25, <2>1 DEF Invalidate, Paying
  <2> QED
    BY <1>25, <2>1, <2>2
<1>26. CASE AskGuard(r) \/ FillGuard(r)
  <2>1. req[r].pc \in {"gate", "fill"} /\ UNCHANGED <<clock, granted, sub, order>>
    BY <1>26 DEF AskGuard, FillGuard, At, Unchanged, stores
  <2>2. ASSUME Seeing(r, account, "fill")
        PROVE  Elsewhere(r)
    <3>1. /\ \A x \in Requests \ {r} : req'[x] = req[x]
          /\ req'[r].at = req[r].at /\ req'[r].expires = req[r].expires /\ req'[r].pc = "fill"
      BY <1>1, <2>2 DEF Seeing, Request
    <3> QED
      BY <2>1, <3>1 DEF Elsewhere, Aside, Paid, Handing, Paying
  <2>3. ASSUME Goto(r, Entry(r))
        PROVE  Elsewhere(r)
    <3>1. Entry(r) \notin Paying \/ req[r].kind \notin {"order", "notify"}
      BY <1>1, <2>1 DEF Entry, OnCourse, Course, Issuing, Paying
    <3>2. req[r].pc \notin Paying \cup {"done"}
      BY <2>1 DEF Paying
    <3> QED
      BY <1>1, <2>1, <2>3, <3>1, <3>2, GoesOnElsewhere
  <2>4. ASSUME NEW a, Reply(r, a)
        PROVE  Elsewhere(r)
    BY <1>3, <2>1, <2>4
  <2>5. Elsewhere(r)
    BY <1>26, <2>2, <2>3, <2>4 DEF AskGuard, FillGuard, Admit
  <2> QED
    BY <2>1, <2>5
<1> QED
  BY <1>4, <1>5, <1>6, <1>7, <1>8, <1>9, <1>10, <1>11, <1>12, <1>13, <1>14, <1>15, <1>16, <1>17, <1>18, <1>19, <1>20, <1>21, <1>22, <1>23, <1>24, <1>25, <1>26 DEF SessionStep

(* A channel's notification, and what an operator grants.                  *)
LEMMA NotifiesInTime ==
  ASSUME IInv, NEW r \in Requests, Notified(r)
  PROVE  Elsewhere(r) /\ UNCHANGED <<clock, granted, sub>>
<1>1. PICK o \in Requests : /\ order[o].status # "none"
                            /\ req' = [req EXCEPT ![r].kind = "notify", ![r].pc = "read", ![r].target = o]
  BY DEF Notified
<1>2. req[r].pc = "idle" /\ UNCHANGED <<clock, granted, sub, order>>
  BY DEF Notified, Arrive, At, Unchanged, stores
<1>3. /\ \A x \in Requests \ {r} : req'[x] = req[x]
      /\ req'[r].at = req[r].at /\ req'[r].expires = req[r].expires /\ req'[r].pc = "read" /\ req'[r].target = o
  BY <1>1 DEF IInv, TypeOK, Request
<1> QED
  BY <1>1, <1>2, <1>3 DEF Elsewhere, Aside, Handing, Paying

LEMMA GrantsInTime ==
  ASSUME IInv, IInv', Within, Once, NEW r \in Requests, Grant(r)
  PROVE  Within' /\ Once'
<1>1. req[r].pc = "idle" /\ UNCHANGED <<clock, granted, sub, order>>
  BY DEF Grant, Arrive, At, Unchanged, stores
<1>2. /\ \A x \in Requests \ {r} : req'[x] = req[x]
      /\ req'[r].at = clock /\ req'[r].expires = sub.expires /\ req'[r].kind = "grant"
  BY DEF Grant, IInv, TypeOK, Request
<1>3. Aside(r)
  BY <1>1, <1>2 DEF Aside, Handing, Paid, Paying
<1>4. Latest' = Latest /\ granted \in Nat /\ clock \in Nat
  BY <1>1 DEF Latest, IInv, TypeOK
<1>5. Within'
  BY <1>1, <1>2, <1>4, WithinStays DEF Within
<1> QED
  BY <1>3, <1>5, AsideOnce

(* The order is new: nobody can have paid for it.                          *)
LEMMA CreatesInTime ==
  ASSUME IInv, IInv', Within, Once, NEW r \in Requests, CreateOrder(r)
  PROVE  Within' /\ Once'
<1>1. /\ req \in [Requests -> Request] /\ req[r] \in Request /\ order \in [Requests -> Order]
      /\ OnCourse(req[r]) /\ req[r].pc = "place" /\ UNCHANGED <<clock, granted, sub>>
  BY DEF IInv, TypeOK, CreateOrder, At, Unchanged
<1>2. PICK ticks \in Periods, sandbox \in BOOLEAN :
        /\ order' = [order EXCEPT ![r].status = "created", ![r].ticks = ticks]
        /\ req' = [req EXCEPT ![r] =
             IF sandbox THEN [req[r] EXCEPT !.pc = "read", !.target = r] ELSE Answered(req[r], "ok")]
  BY DEF CreateOrder
<1>3. /\ \A o \in Requests \ {r} : order'[o] = order[o]
      /\ order'[r].status = "created" /\ order'[r].extended = order[r].extended
  BY <1>1, <1>2 DEF Order
<1>4. /\ \A x \in Requests \ {r} : req'[x] = req[x]
      /\ req'[r].at = req[r].at /\ req'[r].expires \in {0, req[r].expires}
      /\ (req'[r].pc = "read" /\ req'[r].target = r) \/ req'[r].pc = "done"
  BY <1>1, <1>2 DEF Request, Answered
<1>5. order[r].status = "none" /\ order[r].extended = 0
  BY <1>1 DEF Once, Paying
<1>6. ~Handing(req'[r]) /\ (Paid(req'[r]) => req'[r].target = r)
  BY <1>4 DEF Handing, Paid, Paying
<1>7. \A o \in Requests :
        /\ order'[o].status # "none" => req'[o].pc \in Paying \cup {"done"}
        /\ order'[o].extended = 0 \/ (order'[o].extended = 1 /\ order'[o].status = "paid")
  BY <1>3, <1>4, <1>5 DEF Once, Paying
<1>8. ASSUME NEW x \in Requests
      PROVE  /\ Paid(req'[x]) => order'[req'[x].target].status # "none"
             /\ Handing(req'[x]) => order'[req'[x].target].status = "paid" /\ order'[req'[x].target].extended = 0
             /\ \A q \in Requests \ {x} : Handing(req'[x]) /\ Handing(req'[q]) => req'[x].target # req'[q].target
  <2>1. CASE x = r
    BY <1>3, <1>6, <2>1
  <2>2. CASE x # r
    <3>1. Grounded(req[x]) /\ (Handing(req[x]) => Paid(req[x])) /\ req'[x] = req[x]
      BY <1>4, <2>2 DEF IInv, Handing, Paid, Paying
    <3>2. Paid(req[x]) => req[x].target \in Requests \ {r}
      BY <1>5, <3>1 DEF Once, Grounded, Paid
    <3> QED
      BY <1>3, <1>4, <1>6, <3>1, <3>2 DEF Once
  <2> QED
    BY <2>1, <2>2
<1>9. Once'
  BY <1>7, <1>8 DEF Once, Paid, Handing
<1>10. Latest' = Latest /\ Latest \in Nat /\ granted \in Nat
  BY <1>1, LatestIsANumber DEF Latest, IInv
<1>11. Within'
  BY <1>1, <1>4, <1>10, WithinStays DEF Within
<1> QED
  BY <1>9, <1>11

LEMMA ReadsInTime ==
  ASSUME IInv, IInv', Within, Once, NEW r \in Requests, ReadOrder(r)
  PROVE  Within' /\ Once'
<1>1. /\ TypeOK /\ req \in [Requests -> Request] /\ req[r] \in Request /\ req[r].pc = "read" /\ OnCourse(req[r])
      /\ UNCHANGED <<clock, granted, sub, order>>
  BY DEF IInv, TypeOK, ReadOrder, At, Unchanged, stores
<1>2. CASE Reply(r, "ok")
  <2>1. Elsewhere(r)
    BY <1>1, <1>2, EndsElsewhere
  <2> QED
    BY <1>1, <2>1, AsideOnce, ElsewhereWithin DEF Elsewhere
<1>3. CASE req' = [req EXCEPT ![r].pc = "mark", ![r].at = clock]
  <2>1. /\ \A x \in Requests \ {r} : req'[x] = req[x]
        /\ req'[r].at = clock /\ req'[r].expires = req[r].expires /\ req'[r].pc = "mark"
        /\ req'[r].kind = req[r].kind /\ req'[r].target = req[r].target
    BY <1>1, <1>3 DEF Request
  <2>2. Aside(r)
    BY <1>1, <2>1 DEF Aside, Paid, Handing, Paying
  <2>3. Latest' = Latest /\ clock \in Nat /\ granted \in Nat
    BY <1>1 DEF Latest, TypeOK
  <2>4. Within'
    BY <1>1, <2>1, <2>3, WithinStays DEF Within
  <2> QED
    BY <2>2, <2>4, AsideOnce
<1> QED
  BY <1>2, <1>3 DEF ReadOrder

(* The conditional update has one winner.                                  *)
LEMMA MarksInTime ==
  ASSUME IInv, IInv', Within, Once, NEW r \in Requests, MarkPaid(r)
  PROVE  Within' /\ Once'
<1> DEFINE o == req[r].target
<1>1. /\ TypeOK /\ req \in [Requests -> Request] /\ req[r] \in Request /\ order \in [Requests -> Order]
      /\ req[r].pc = "mark" /\ OnCourse(req[r]) /\ Grounded(req[r]) /\ UNCHANGED <<clock, granted, sub>>
  BY DEF IInv, TypeOK, MarkPaid, At, Unchanged
<1>2. Paid(req[r]) /\ o \in Requests
  BY <1>1 DEF Paid, Grounded, OnCourse, Course, Paying, Issuing
<1>3. order[o].status \in {"created", "paid"}
  BY <1>1, <1>2 DEF Once, Order
<1>4. /\ \A n \in Requests \ {o} : order'[n] = order[n]
      /\ order'[o].status = "paid" /\ order'[o].extended = order[o].extended
  BY <1>1, <1>2 DEF MarkPaid, Order
<1>5. CASE order[o].status = "paid"
  <2>1. Reply(r, "ok")
    BY <1>5 DEF MarkPaid
  <2>2. \A n \in Requests : order'[n].status = order[n].status /\ order'[n].extended = order[n].extended
    BY <1>4, <1>5
  <2>3. Elsewhere(r)
    BY <1>1, <2>1, <2>2, EndsElsewhere
  <2> QED
    BY <1>1, <2>3, AsideOnce, ElsewhereWithin DEF Elsewhere
<1>6. CASE order[o].status = "created"
  <2>1. Goto(r, "load")
    BY <1>6 DEF MarkPaid
  <2>2. /\ \A x \in Requests \ {r} : req'[x] = req[x]
        /\ req'[r].at = req[r].at /\ req'[r].expires = req[r].expires /\ req'[r].pc = "load"
        /\ req'[r].target = o
    BY <1>1, <2>1 DEF Goto, Request
  <2>3. order[o].extended = 0 /\ \A x \in Requests : Handing(req[x]) => req[x].target # o
    BY <1>2, <1>6 DEF Once
  <2>4. \A n \in Requests :
          /\ order'[n].status # "none" => req'[n].pc \in Paying \cup {"done"}
          /\ order'[n].extended = 0 \/ (order'[n].extended = 1 /\ order'[n].status = "paid")
    BY <1>2, <1>3, <1>4, <2>2, <2>3 DEF Once, Paying
  <2>5. ASSUME NEW x \in Requests
        PROVE  /\ Paid(req'[x]) => order'[req'[x].target].status # "none"
               /\ Handing(req'[x]) => order'[req'[x].target].status = "paid" /\ order'[req'[x].target].extended = 0
               /\ \A q \in Requests \ {x} : Handing(req'[x]) /\ Handing(req'[q]) => req'[x].target # req'[q].target
    <3>1. CASE x = r
      BY <1>2, <1>4, <2>2, <2>3, <3>1 DEF Once
    <3>2. CASE x # r
      <4>1. Grounded(req[x]) /\ (Handing(req[x]) => Paid(req[x])) /\ req'[x] = req[x]
        BY <2>2, <3>2 DEF IInv, Handing, Paid, Paying
      <4>2. Paid(req[x]) => req[x].target \in Requests
        BY <4>1 DEF Grounded, Paid
      <4> QED
        BY <1>4, <2>2, <2>3, <4>1, <4>2 DEF Once
    <3> QED
      BY <3>1, <3>2
  <2>6. Once'
    BY <2>4, <2>5 DEF Once, Paid, Handing
  <2>7. Latest' = Latest /\ granted \in Nat
    BY <1>1 DEF Latest, TypeOK
  <2>8. Within'
    BY <1>1, <2>2, <2>7, WithinStays DEF Within
  <2> QED
    BY <2>6, <2>8
<1> QED
  BY <1>3, <1>5, <1>6

LEMMA LoadsInTime ==
  ASSUME IInv, IInv', Within, Once, NEW r \in Requests, LoadSubscription(r)
  PROVE  Within' /\ Once'
<1>1. /\ TypeOK /\ req \in [Requests -> Request] /\ req[r] \in Request /\ req[r].pc = "load" /\ OnCourse(req[r])
      /\ UNCHANGED <<clock, granted, sub, order>>
  BY DEF IInv, TypeOK, LoadSubscription, At, Unchanged, stores
<1>2. CASE Reply(r, "ok")
  <2>1. Elsewhere(r)
    BY <1>1, <1>2, EndsElsewhere
  <2> QED
    BY <1>1, <2>1, AsideOnce, ElsewhereWithin DEF Elsewhere
<1>3. ASSUME NEW p \in {"starttrial", "extend"}, NEW e \in {req[r].expires, sub.expires},
             req' = [req EXCEPT ![r].expires = e, ![r].pc = p]
      PROVE  Within' /\ Once'
  <2>1. /\ \A x \in Requests \ {r} : req'[x] = req[x]
        /\ req'[r].at = req[r].at /\ req'[r].expires = e /\ req'[r].pc = p
        /\ req'[r].kind = req[r].kind /\ req'[r].target = req[r].target
    BY <1>1, <1>3 DEF Request
  <2>2. Aside(r)
    BY <1>1, <2>1 DEF Aside, Paid, Handing, Paying
  <2>3. Latest' = Latest /\ granted \in Nat
    BY <1>1 DEF Latest, TypeOK
  <2>4. Within'
    BY <1>1, <2>1, <2>3, WithinStays DEF Within
  <2> QED
    BY <2>2, <2>4, AsideOnce
<1>4. CASE Goto(r, "starttrial")
  <2>1. req' = [req EXCEPT ![r].expires = req[r].expires, ![r].pc = "starttrial"]
    BY <1>1, <1>4 DEF Goto, Request
  <2> QED
    BY <1>3, <2>1
<1> QED
  BY <1>2, <1>3, <1>4 DEF LoadSubscription

LEMMA TrialInTime ==
  ASSUME IInv, IInv', Within, Once, NEW r \in Requests, StartTrial(r)
  PROVE  Within' /\ Once'
<1>1. /\ TypeOK /\ req \in [Requests -> Request] /\ req[r] \in Request /\ req[r].pc = "starttrial"
      /\ UNCHANGED <<clock, granted, order>>
  BY DEF IInv, TypeOK, StartTrial, At, Unchanged, stores
<1>2. CASE sub' = NewTrial /\ Goto(r, "load")
  <2>1. /\ \A x \in Requests \ {r} : req'[x] = req[x]
        /\ req'[r].at = req[r].at /\ req'[r].expires = req[r].expires /\ req'[r].pc = "load"
        /\ req'[r].kind = req[r].kind /\ req'[r].target = req[r].target
    BY <1>1, <1>2 DEF Goto, Request
  <2>2. Elsewhere(r)
    BY <1>1, <1>2, <2>1 DEF Elsewhere, Aside, Paid, Handing, Paying
  <2> QED
    BY <1>1, <1>2, <2>2, AsideOnce, ElsewhereWithin DEF Elsewhere
<1>3. CASE Reply(r, "error") /\ sub' = sub
  <2>1. Elsewhere(r)
    BY <1>1, <1>3, EndsElsewhere
  <2> QED
    BY <1>1, <1>3, <2>1, AsideOnce, ElsewhereWithin DEF Elsewhere
<1> QED
  BY <1>2, <1>3 DEF StartTrial

(* What was read is within what is allowed, and so is that and the time    *)
(* handed out.                                                             *)
LEMMA HandsOut ==
  ASSUME IInv, IInv', Within, NEW r \in Requests, NEW ticks \in Nat, NEW a, Reply(r, a),
         sub'.expires = Later(req[r].at, req[r].expires) + ticks, granted' = granted + ticks, clock' = clock
  PROVE  Within'
<1>1. TypeOK /\ TypeOK' /\ req[r] \in Request /\ req \in [Requests -> Request]
  BY DEF IInv, TypeOK
<1>2. /\ \A x \in Requests \ {r} : req'[x] = req[x]
      /\ req'[r].at = req[r].at /\ req'[r].expires = 0
  BY <1>1 DEF Reply, Answered, Request
<1>3. /\ Latest \in Nat /\ clock \in Nat /\ granted \in Nat /\ TrialTicks \in Nat
      /\ req[r].at \in Nat /\ req[r].expires \in Nat
  BY <1>1, LatestIsANumber DEF Request
<1>4. Latest' = Latest + ticks /\ clock <= Latest
  <2>1. Latest = clock + TrialTicks + granted /\ Latest' = clock + TrialTicks + (granted + ticks)
    BY DEF Latest
  <2> HIDE DEF Latest
  <2> QED
    BY <1>3, <2>1
<1>5. req[r].at <= clock /\ req[r].expires <= Latest
  BY DEF Within
<1>6. Later(req[r].at, req[r].expires) \in {req[r].at, req[r].expires}
  BY DEF Later
<1>7. sub'.expires <= Latest'
  BY <1>3, <1>4, <1>5, <1>6
<1>8. granted' >= granted /\ req'[r].at <= clock /\ req'[r].expires <= Latest'
  BY <1>2, <1>3, <1>4, <1>5
<1> QED
  BY <1>2, <1>7, <1>8, WithinStays

LEMMA ExtendsInTime ==
  ASSUME IInv, IInv', Within, Once, NEW r \in Requests, Extend(r)
  PROVE  Within' /\ Once'
<1> DEFINE o == req[r].target
<1>1. /\ TypeOK /\ req \in [Requests -> Request] /\ req[r] \in Request /\ order \in [Requests -> Order]
      /\ req[r].pc = "extend" /\ Grounded(req[r]) /\ UNCHANGED clock /\ Handing(req[r]) /\ Reply(r, "ok")
  BY DEF IInv, TypeOK, Extend, At, Unchanged, Fulfils, Handing
<1>2. o \in Requests /\ order[o].ticks \in Nat
  BY <1>1 DEF Grounded, Handing, Paying, Order
<1>3. Within'
  <2>1. sub'.expires = Later(req[r].at, req[r].expires) + order[o].ticks /\ granted' = granted + order[o].ticks
    BY DEF Extend
  <2> QED
    BY <1>1, <1>2, <2>1, HandsOut
<1>4. /\ \A n \in Requests \ {o} : order'[n] = order[n]
      /\ order'[o].status = order[o].status /\ order'[o].extended = order[o].extended + 1
  BY <1>1, <1>2 DEF Extend, Order
<1>5. /\ order[o].status = "paid" /\ order[o].extended = 0
      /\ \A x \in Requests \ {r} : Handing(req[x]) => req[x].target # o
  BY <1>1 DEF Once
<1>6. /\ \A x \in Requests \ {r} : req'[x] = req[x]
      /\ req'[r].pc = "done"
  BY <1>1 DEF Reply, Answered, Request
<1>7. ~Handing(req'[r]) /\ ~Paid(req'[r])
  BY <1>6 DEF Handing, Paid, Paying
<1>8. \A n \in Requests :
        /\ order'[n].status # "none" => req'[n].pc \in Paying \cup {"done"}
        /\ order'[n].extended = 0 \/ (order'[n].extended = 1 /\ order'[n].status = "paid")
  BY <1>2, <1>4, <1>5, <1>6 DEF Once
<1>9. ASSUME NEW x \in Requests
      PROVE  /\ Paid(req'[x]) => order'[req'[x].target].status # "none"
             /\ Handing(req'[x]) => order'[req'[x].target].status = "paid" /\ order'[req'[x].target].extended = 0
             /\ \A q \in Requests \ {x} : Handing(req'[x]) /\ Handing(req'[q]) => req'[x].target # req'[q].target
  <2>1. CASE x = r
    BY <1>7, <2>1
  <2>2. CASE x # r
    <3>1. Grounded(req[x]) /\ (Handing(req[x]) => Paid(req[x])) /\ req'[x] = req[x]
      BY <1>6, <2>2 DEF IInv, Handing, Paid, Paying
    <3>2. Paid(req[x]) => req[x].target \in Requests
      BY <3>1 DEF Grounded, Paid
    <3>3. Handing(req[x]) => req[x].target # o
      BY <1>5, <2>2
    <3> QED
      BY <1>4, <1>6, <1>7, <3>1, <3>2, <3>3 DEF Once
  <2> QED
    BY <2>1, <2>2
<1> QED
  BY <1>3, <1>8, <1>9 DEF Once, Paid, Handing

LEMMA SavesInTime ==
  ASSUME IInv, IInv', Within, Once, NEW r \in Requests, SaveGrant(r)
  PROVE  Within' /\ Once'
<1>1. TypeOK /\ req[r].pc = "extend" /\ UNCHANGED <<clock, order>> /\ Reply(r, "ok")
  BY DEF IInv, SaveGrant, At, Unchanged
<1>2. PICK ticks \in Periods :
        /\ sub' = [status |-> "active", expires |-> Later(req[r].at, req[r].expires) + ticks]
        /\ granted' = granted + ticks
  BY DEF SaveGrant
<1>3. ticks \in Nat /\ sub'.expires = Later(req[r].at, req[r].expires) + ticks
  BY <1>2, TicksAssumption
<1>4. Within'
  BY <1>1, <1>2, <1>3, HandsOut
<1>5. Elsewhere(r)
  BY <1>1, EndsElsewhere
<1> QED
  BY <1>4, <1>5, AsideOnce DEF Elsewhere

LEMMA FailsInTime ==
  ASSUME IInv, IInv', Within, Once, NEW r \in Requests, Fail(r)
  PROVE  Within' /\ Once'
<1>1. /\ TypeOK /\ req[r].pc # "done" /\ UNCHANGED <<clock, granted, sub>> /\ order' = order
      /\ \E a : Reply(r, a)
  BY DEF IInv, Fail, InProgress, Ended, Reply
<1>2. Elsewhere(r)
  BY <1>1, EndsElsewhere
<1> QED
  BY <1>1, <1>2, AsideOnce, ElsewhereWithin DEF Elsewhere

(* The requests of a process that dies are gone, the orders stay.          *)
LEMMA CrashesInTime ==
  ASSUME IInv, Within, Once, Crash
  PROVE  Within' /\ Once'
<1>1. TypeOK /\ req \in [Requests -> Request] /\ order \in [Requests -> Order] /\ UNCHANGED <<clock, granted, sub>>
  BY DEF IInv, TypeOK, Crash
<1>2. ASSUME NEW x \in Requests
      PROVE  \/ req'[x] = req[x]
             \/ req'[x].at = req[x].at /\ req'[x].expires = 0 /\ req'[x].pc = "done"
  <2> DEFINE a == IF Halfway(req[x]) THEN "halfway" ELSE "error"
  <2>1. req'[x] = req[x] \/ req'[x] = Answered(req[x], a)
    BY DEF Crash, Ended
  <2> HIDE DEF a
  <2> QED
    BY <1>1, <2>1 DEF Answered, Request
<1>3. ASSUME NEW o \in Requests
      PROVE  order'[o].status = order[o].status /\ order'[o].extended = order[o].extended
  BY DEF Crash
<1>4. Within'
  <2>1. Latest' = Latest /\ Latest \in Nat
    BY <1>1, LatestIsANumber DEF Latest
  <2> QED
    BY <1>1, <1>2, <2>1 DEF Within
<1>5. \A x \in Requests : (Paid(req'[x]) => Paid(req[x]) /\ req'[x] = req[x]) /\ (Handing(req'[x]) => Handing(req[x]) /\ req'[x] = req[x])
  BY <1>2 DEF Paid, Handing, Paying
<1>6. \A o \in Requests :
        /\ order'[o].status # "none" => req'[o].pc \in Paying \cup {"done"}
        /\ order'[o].extended = 0 \/ (order'[o].extended = 1 /\ order'[o].status = "paid")
  BY <1>2, <1>3 DEF Once
<1>7. ASSUME NEW x \in Requests
      PROVE  /\ Paid(req'[x]) => order'[req'[x].target].status # "none"
             /\ Handing(req'[x]) => order'[req'[x].target].status = "paid" /\ order'[req'[x].target].extended = 0
             /\ \A q \in Requests \ {x} : Handing(req'[x]) /\ Handing(req'[q]) => req'[x].target # req'[q].target
  <2>1. Grounded(req[x]) /\ (Handing(req[x]) => Paid(req[x]))
    BY DEF IInv, Handing, Paid, Paying
  <2>2. Paid(req[x]) => req[x].target \in Requests
    BY <2>1 DEF Grounded, Paid
  <2> QED
    BY <1>3, <1>5, <2>1, <2>2 DEF Once
<1> QED
  BY <1>4, <1>6, <1>7 DEF Once, Paid, Handing

(* The clock goes on, and keys expire: what is allowed only grows.         *)
LEMMA WaitsInTime ==
  ASSUME IInv, Within, Once, Tick \/ CodeExpires \/ RateExpires \/ GuardExpires \/ UNCHANGED vars
  PROVE  Within' /\ Once'
<1>1. TypeOK /\ UNCHANGED <<req, order, sub, granted>> /\ clock' \in {clock, clock + 1}
  BY DEF IInv, Tick, CodeExpires, RateExpires, GuardExpires, Unchanged, stores, vars
<1>2. clock \in Nat /\ granted \in Nat /\ TrialTicks \in Nat
  BY <1>1, LatestIsANumber
<1>3. Latest \in Nat /\ Latest' \in {Latest, Latest + 1}
  <2>1. Latest = clock + TrialTicks + granted /\ Latest' = clock' + TrialTicks + granted
    BY <1>1 DEF Latest
  <2>2. \A a, b, c \in Nat : a + b + c \in Nat /\ (a + 1) + b + c = (a + b + c) + 1
    OBVIOUS
  <2>3. clock + TrialTicks + granted \in Nat
        /\ (clock + 1) + TrialTicks + granted = (clock + TrialTicks + granted) + 1
    BY <1>2, <2>2
  <2> QED
    BY <1>1, <2>1, <2>3
<1>4. sub.expires \in Nat /\ \A x \in Requests : req[x].at \in Nat /\ req[x].expires \in Nat
  BY <1>1 DEF TypeOK, Request
<1>5. Within'
  BY <1>1, <1>2, <1>3, <1>4 DEF Within
<1>6. Once'
  BY <1>1 DEF Once, Paid, Handing
<1> QED
  BY <1>5, <1>6

LEMMA InitInTime ==
  ASSUME Init
  PROVE  Within /\ Once
<1>1. TrialTicks \in Nat /\ clock = 0 /\ granted = 0
  BY TicksAssumption DEF Init
<1>2. Latest = TrialTicks
  BY <1>1 DEF Latest
<1>3. sub.expires \in {0, TrialTicks}
  BY DEF Init, NoSub
<1>4. ASSUME NEW x \in Requests
      PROVE  /\ req[x].at = 0 /\ req[x].expires = 0 /\ req[x].kind \in {"none", "login"}
             /\ order[x].status = "none" /\ order[x].extended = 0
  <2>1. order[x] = NoOrder /\ req[x] \in {Fresh, [Fresh EXCEPT !.kind = "login", !.pc = "done", !.reply = "ok"]}
    BY DEF Init
  <2>2. order[x].status = "none" /\ order[x].extended = 0
    BY <2>1 DEF NoOrder
  <2>3. req[x].at = 0 /\ req[x].expires = 0 /\ req[x].kind \in {"none", "login"}
    <3>1. CASE req[x] = Fresh
      BY <3>1 DEF Fresh
    <3>2. CASE req[x] = [Fresh EXCEPT !.kind = "login", !.pc = "done", !.reply = "ok"]
      BY <3>2 DEF Fresh
    <3> QED
      BY <2>1, <3>1, <3>2
  <2> QED
    BY <2>2, <2>3
<1>5. Within
  BY <1>1, <1>2, <1>3, <1>4 DEF Within
<1>6. Once
  BY <1>4 DEF Once, Paid, Handing
<1> QED
  BY <1>5, <1>6

LEMMA NextInTime ==
  ASSUME IInv, Within, Once, [Next]_vars
  PROVE  Within' /\ Once'
<1>1. IInv'
  BY NextIInv
<1>2. ASSUME NEW r \in Requests, Elsewhere(r), UNCHANGED <<clock, granted>>, sub' = sub \/ sub' = NewTrial
      PROVE  Within' /\ Once'
  BY <1>1, <1>2, AsideOnce, ElsewhereWithin DEF Elsewhere
<1>3. CASE Tick \/ CodeExpires \/ RateExpires \/ GuardExpires \/ UNCHANGED vars
  BY <1>3, WaitsInTime
<1>4. CASE Crash
  BY <1>4, CrashesInTime
<1>5. ASSUME NEW r \in Requests, SessionStep(r) PROVE Within' /\ Once'
  BY <1>2, <1>5, SessionsElsewhere
<1>6. ASSUME NEW r \in Requests, SubscriptionStep(r) PROVE Within' /\ Once'
  <2>1. CASE AskForOrder(r)
    <3>1. UNCHANGED <<clock, granted, sub>> /\ TypeOK
      BY <2>1 DEF AskForOrder, Unchanged, stores, IInv
    <3> QED
      BY <1>2, <2>1, <3>1, ArrivesElsewhere
  <2>2. CASE Notified(r)
    BY <1>2, <2>2, NotifiesInTime
  <2>3. CASE Grant(r)
    BY <1>1, <2>3, GrantsInTime
  <2>4. CASE CreateOrder(r) \/ ReadOrder(r) \/ MarkPaid(r)
    BY <1>1, <2>4, CreatesInTime, ReadsInTime, MarksInTime
  <2>5. CASE LoadSubscription(r) \/ StartTrial(r) \/ Extend(r) \/ SaveGrant(r)
    BY <1>1, <2>5, LoadsInTime, TrialInTime, ExtendsInTime, SavesInTime
  <2> QED
    BY <1>6, <2>1, <2>2, <2>3, <2>4, <2>5 DEF SubscriptionStep
<1>7. ASSUME NEW r \in Requests, Fail(r) PROVE Within' /\ Once'
  BY <1>1, <1>7, FailsInTime
<1> QED
  BY <1>3, <1>4, <1>5, <1>6, <1>7 DEF Next

(* Orders, notifications, trials and grants, interleaved at every query    *)
(* and cut short anywhere: the subscription ends within what was handed    *)
(* out, and an order is handed out once and only when it has been paid.    *)
THEOREM NothingForFree == Spec => []NoFreeTime
<1>1. Init => IInv /\ Within /\ Once
  BY InitIInv, InitInTime
<1>2. IInv /\ Within /\ Once /\ [Next]_vars => (IInv /\ Within /\ Once)'
  BY NextIInv, NextInTime
<1>3. Within /\ Once => NoFreeTime
  BY DEF Within, Once, NoFreeTime, Latest
<1> QED
  BY <1>1, <1>2, <1>3, PTL DEF Spec

-----------------------------------------------------------------------------
(* The socket, for any number of tokens, of sockets opened and of losses:  *)
(* the desktop shell and the browser, signed in and out in any order.      *)

Tokens == {0} \cup (0..MaxTokens)
LinkRec == [ws : Nat, url : Tokens, timer : BOOLEAN, intentional : BOOLEAN, token : Tokens, desktop : BOOLEAN,
            mounted : BOOLEAN]
SocketRec == [state : {"connecting", "open", "closing", "closed"}, url : Tokens]

(* What the effect, the timer and the sockets' own events keep of the      *)
(* socket held.  A page that wants no connection holds none and has no     *)
(* timer, and its sockets close without setting one.                       *)
LinkTyped == link \in LinkRec /\ sockets \in Seq(SocketRec) /\ link.ws \in 0..Len(sockets)
LinkIdle == ~Wanted(link) => link.ws = 0 /\ ~link.timer /\ (link.intentional \/ sockets = <<>>)
LinkHeld ==
  Wanted(link) =>
    /\ link.ws # 0 /\ link.url = link.token /\ ~link.intentional /\ sockets[link.ws].url = link.url
    /\ link.timer \/ sockets[link.ws].state # "closed"
LinkInv == LinkTyped /\ LinkIdle /\ LinkHeld

LEMMA LinkStarts == LinkInit => LinkInv
<1> SUFFICES ASSUME LinkInit PROVE LinkInv
    OBVIOUS
<1>1. PICK d \in BOOLEAN :
        link = [ws |-> 0, url |-> 0, timer |-> FALSE, intentional |-> FALSE, token |-> 0, desktop |-> d,
                mounted |-> FALSE]
      BY DEF LinkInit, NoSocket, NoToken
<1>2. sockets = <<>> /\ sockets \in Seq(SocketRec) /\ Len(sockets) = 0
      BY DEF LinkInit
<1>3. PICK no \in BOOLEAN : no = FALSE
      OBVIOUS
<1>4. link = [ws |-> 0, url |-> 0, timer |-> no, intentional |-> no, token |-> 0, desktop |-> d, mounted |-> no]
      BY <1>1, <1>3
<1>5. link \in LinkRec /\ link.ws = 0 /\ ~link.timer /\ ~link.mounted
      BY <1>3, <1>4 DEF LinkRec, Tokens
<1> QED BY <1>2, <1>5 DEF LinkInv, LinkTyped, LinkIdle, LinkHeld, Wanted

(* A socket appended to those there are is the last of them, and those     *)
(* there were stay where they are.                                         *)
LEMMA LinkConnects ==
  ASSUME NEW l \in LinkRec, NEW socks \in Seq(SocketRec), l.ws \in 0..Len(socks), Wanted(l),
         l.url = l.token, ~l.intentional, l.ws # 0 => socks[l.ws].url = l.url,
         DoConnect(l, socks)
  PROVE  LinkInv'
<1>1. CASE l.ws # 0 /\ socks[l.ws].state = "open"
  <2>1. link' = l /\ sockets' = socks
        BY <1>1 DEF DoConnect, NoSocket
  <2>2. LinkTyped'
        BY <2>1 DEF LinkTyped
  <2>3. Wanted(link)' /\ ~link'.intentional /\ link'.url = link'.token /\ link'.ws # 0
        BY <1>1, <2>1 DEF Wanted
  <2>4. sockets'[link'.ws].url = link'.url /\ sockets'[link'.ws].state # "closed"
        BY <1>1, <2>1
  <2> QED BY <2>2, <2>3, <2>4 DEF LinkInv, LinkIdle, LinkHeld
<1>2. CASE ~(l.ws # 0 /\ socks[l.ws].state = "open")
  <2> DEFINE s == [state |-> "connecting", url |-> l.url]
  <2>1. link' = [l EXCEPT !.ws = Len(socks) + 1] /\ sockets' = Append(socks, s)
        BY <1>2 DEF DoConnect, NoSocket
  <2>2. s \in SocketRec
        BY DEF SocketRec, LinkRec
  <2>3. s.url = l.url /\ s.state # "closed"
        OBVIOUS
  <2> HIDE DEF s
  <2>4. sockets' \in Seq(SocketRec) /\ Len(sockets') = Len(socks) + 1 /\ sockets'[Len(socks) + 1] = s
        BY <2>1, <2>2
  <2>5. Len(socks) + 1 \in Nat /\ Len(socks) + 1 # 0
        OBVIOUS
  <2>6. link' \in LinkRec /\ link'.ws = Len(socks) + 1 /\ link'.url = l.url /\ link'.token = l.token
        BY <2>1, <2>5 DEF LinkRec
  <2>7. link'.intentional = l.intentional /\ link'.mounted = l.mounted /\ link'.desktop = l.desktop
        BY <2>1, <2>5 DEF LinkRec
  <2>8. Wanted(link)' /\ ~link'.intentional
        BY <2>6, <2>7 DEF Wanted
  <2>9. LinkTyped'
        BY <2>4, <2>5, <2>6 DEF LinkTyped
  <2> QED BY <2>3, <2>4, <2>5, <2>6, <2>8, <2>9 DEF LinkInv, LinkIdle, LinkHeld
<1> QED BY <1>1, <1>2

LEMMA LinkReconnects == LinkInv /\ Reconnect => LinkInv'
<1> SUFFICES ASSUME LinkInv, Reconnect PROVE LinkInv'
    OBVIOUS
<1> USE DEF LinkInv, LinkTyped
<1>1. PICK no \in BOOLEAN : no = FALSE
      OBVIOUS
<1> DEFINE l == [link EXCEPT !.timer = no]
<1>2. DoConnect(l, sockets) /\ link.timer
      BY <1>1 DEF Reconnect
<1>3. l \in LinkRec /\ l.ws = link.ws /\ l.url = link.url /\ l.token = link.token
      BY DEF LinkRec
<1>4. l.intentional = link.intentional /\ l.mounted = link.mounted /\ l.desktop = link.desktop
      BY DEF LinkRec
<1> HIDE DEF l
<1>5. Wanted(link) /\ link.url = link.token /\ ~link.intentional /\ sockets[link.ws].url = link.url
      BY <1>2 DEF LinkIdle, LinkHeld
<1>6. Wanted(l) /\ ~l.intentional
      BY <1>3, <1>4, <1>5 DEF Wanted
<1> QED BY <1>2, <1>3, <1>5, <1>6, LinkConnects

LEMMA LinkFollowsToken == ASSUME LinkInv, NEW t \in 0..MaxTokens, TokenChanges(t) PROVE LinkInv'
<1> USE DEF LinkInv, LinkTyped
<1>1. PICK no \in BOOLEAN, yes \in BOOLEAN : no = FALSE /\ yes = TRUE
      OBVIOUS
<1>2. t \in Tokens /\ 0 \in Nat
      BY DEF Tokens
<1> DEFINE out == [link EXCEPT !.intentional = yes, !.timer = no, !.ws = 0]
           from == IF Wanted(link) THEN out ELSE link
           left == [from EXCEPT !.token = t, !.mounted = yes]
           shut == IF Wanted(link) THEN Closing(link) ELSE sockets
           on == [left EXCEPT !.url = t, !.intentional = no]
<1>3. IF Wanted(left) THEN DoConnect(on, shut) ELSE link' = left /\ sockets' = shut
      BY <1>1 DEF TokenChanges, Disconnected, NoSocket
<1>4. out \in LinkRec /\ out.ws = 0 /\ ~out.timer /\ out.intentional
      BY <1>1, <1>2 DEF LinkRec
<1>5. from \in LinkRec /\ from.ws = 0 /\ ~from.timer /\ (from.intentional \/ sockets = <<>>)
      BY <1>4 DEF LinkIdle
<1> HIDE DEF out, from
<1>6. left \in LinkRec /\ left.ws = 0 /\ left.token = t /\ left.timer = from.timer
      BY <1>2, <1>5 DEF LinkRec
<1>7. left.intentional = from.intentional /\ left.mounted = yes
      BY <1>2, <1>5 DEF LinkRec
<1> HIDE DEF left
<1>8. on \in LinkRec /\ on.ws = 0 /\ on.token = t /\ on.url = t
      BY <1>2, <1>6 DEF LinkRec
<1>9. on.intentional = no /\ on.mounted = yes /\ on.desktop = left.desktop
      BY <1>2, <1>6, <1>7 DEF LinkRec
<1> HIDE DEF on
<1>10. shut \in Seq(SocketRec) /\ (sockets = <<>> => shut = <<>>)
  <2>1. CASE Wanted(link)
    <3>1. shut = Closing(link)
          BY <2>1
    <3>2. \A i \in DOMAIN sockets : sockets[i] \in SocketRec
          OBVIOUS
    <3>3. \A i \in DOMAIN sockets : [sockets[i] EXCEPT !.state = "closing"] \in SocketRec
          BY <3>2 DEF SocketRec
    <3>4. Len(sockets) \in Nat /\ DOMAIN sockets = 1..Len(sockets)
          OBVIOUS
    <3>5. shut \in [1..Len(sockets) -> SocketRec]
          BY <3>1, <3>2, <3>3, <3>4 DEF Closing
    <3>6. sockets # <<>>
          BY <2>1 DEF LinkHeld
    <3> QED BY <3>4, <3>5, <3>6, SeqDef
  <2>2. CASE ~Wanted(link)
        BY <2>2
  <2> QED BY <2>1, <2>2
<1> HIDE DEF shut
<1>11. CASE Wanted(left)
  <2>1. Wanted(on)
        BY <1>1, <1>6, <1>7, <1>8, <1>9, <1>11 DEF Wanted
  <2>2. on.ws \in 0..Len(shut) /\ ~on.intentional
        BY <1>1, <1>8, <1>9, <1>10
  <2> QED BY <1>3, <1>8, <1>10, <1>11, <2>1, <2>2, LinkConnects
<1>12. CASE ~Wanted(left)
  <2>1. link' = left /\ sockets' = shut /\ ~Wanted(link)'
        BY <1>3, <1>12 DEF Wanted
  <2>2. LinkTyped'
        BY <1>6, <1>10, <2>1
  <2>3. LinkIdle'
        BY <1>5, <1>6, <1>7, <1>10, <2>1 DEF LinkIdle
  <2> QED BY <2>1, <2>2, <2>3 DEF LinkHeld
<1> QED BY <1>11, <1>12

LEMMA LinkOpens == ASSUME LinkInv, NEW i \in DOMAIN sockets, Open(i) PROVE LinkInv'
<1> USE DEF LinkInv, LinkTyped
<1>1. sockets[i] \in SocketRec /\ i \in 1..Len(sockets)
      OBVIOUS
<1> DEFINE s == [sockets[i] EXCEPT !.state = "open"]
<1>2. s \in SocketRec /\ s.url = sockets[i].url /\ s.state # "closed"
      BY <1>1 DEF SocketRec
<1>3. sockets' = [sockets EXCEPT ![i] = s] /\ link' = link
      BY DEF Open
<1> HIDE DEF s
<1>4. sockets' \in Seq(SocketRec) /\ Len(sockets') = Len(sockets) /\ sockets # <<>>
      BY <1>1, <1>2, <1>3, ExceptSeq
<1>5. \A j \in DOMAIN sockets : sockets'[j].url = sockets[j].url /\ (sockets[j].state # "closed" => sockets'[j].state # "closed")
      BY <1>2, <1>3
<1>6. link.ws # 0 => link.ws \in DOMAIN sockets
      OBVIOUS
<1>7. Wanted(link)' <=> Wanted(link)
      BY <1>3 DEF Wanted
<1>8. LinkTyped'
      BY <1>3, <1>4
<1>9. LinkIdle'
      BY <1>3, <1>4, <1>7 DEF LinkIdle
<1>10. LinkHeld'
      BY <1>3, <1>5, <1>6, <1>7 DEF LinkHeld
<1> QED BY <1>8, <1>9, <1>10

LEMMA LinkCloses == ASSUME LinkInv, NEW i \in DOMAIN sockets, Closed(i) PROVE LinkInv'
<1> USE DEF LinkInv, LinkTyped
<1>1. sockets[i] \in SocketRec /\ i \in 1..Len(sockets)
      OBVIOUS
<1> DEFINE s == [sockets[i] EXCEPT !.state = "closed"]
           b == link.timer \/ ~link.intentional
<1>2. s \in SocketRec /\ s.url = sockets[i].url
      BY <1>1 DEF SocketRec
<1>3. sockets' = [sockets EXCEPT ![i] = s] /\ link' = [link EXCEPT !.timer = b]
      BY DEF Closed
<1>4. b \in BOOLEAN
      OBVIOUS
<1>5. b <=> (link.timer \/ ~link.intentional)
      OBVIOUS
<1> HIDE DEF s, b
<1>6. sockets' \in Seq(SocketRec) /\ Len(sockets') = Len(sockets) /\ sockets # <<>>
      BY <1>1, <1>2, <1>3, ExceptSeq
<1>7. \A j \in DOMAIN sockets : sockets'[j].url = sockets[j].url
      BY <1>2, <1>3
<1>8. link' \in LinkRec /\ link'.ws = link.ws /\ link'.url = link.url /\ link'.token = link.token /\ link'.timer = b
      BY <1>3, <1>4 DEF LinkRec
<1>9. link'.intentional = link.intentional /\ link'.mounted = link.mounted /\ link'.desktop = link.desktop
      BY <1>3, <1>4 DEF LinkRec
<1>10. Wanted(link)' <=> Wanted(link)
      BY <1>8, <1>9 DEF Wanted
<1>11. link.ws # 0 => link.ws \in DOMAIN sockets
      OBVIOUS
<1>12. LinkTyped'
      BY <1>6, <1>8
<1>13. LinkIdle'
      BY <1>5, <1>6, <1>8, <1>9, <1>10 DEF LinkIdle
<1>14. LinkHeld'
      BY <1>5, <1>7, <1>8, <1>9, <1>10, <1>11 DEF LinkHeld
<1> QED BY <1>12, <1>13, <1>14

LEMMA LinkStep == LinkInv /\ [LinkNext]_<<link, sockets>> => LinkInv'
<1> SUFFICES ASSUME LinkInv, [LinkNext]_<<link, sockets>> PROVE LinkInv'
    OBVIOUS
<1>1. CASE Reconnect
      BY <1>1, LinkReconnects
<1>2. ASSUME NEW t \in 0..MaxTokens, TokenChanges(t) PROVE LinkInv'
      BY <1>2, LinkFollowsToken
<1>3. ASSUME NEW i \in DOMAIN sockets, Open(i) PROVE LinkInv'
      BY <1>3, LinkOpens
<1>4. ASSUME NEW i \in DOMAIN sockets, Closed(i) PROVE LinkInv'
      BY <1>4, LinkCloses
<1>5. CASE UNCHANGED <<link, sockets>>
      BY <1>5 DEF LinkInv, LinkTyped, LinkIdle, LinkHeld, Wanted
<1> QED BY <1>1, <1>2, <1>3, <1>4, <1>5 DEF LinkNext

(* A page that wants the events has a socket with the token of the moment, *)
(* one being opened or closed, or the timer that opens the next, whatever  *)
(* the order in which tokens change, sockets open and sockets close        *)
(* (ws-client, App.tsx:72).                                                *)
THEOREM EventsAreNeverCutOff == LinkSpec => []NeverCutOff
<1>1. LinkInv => NeverCutOff
      BY DEF LinkInv, LinkHeld, NeverCutOff, NoSocket
<1> QED BY <1>1, LinkStarts, LinkStep, PTL DEF LinkSpec, linkVars

-----------------------------------------------------------------------------
(* The session, for any number of pages, of requests, of sign-ins and outs *)
(* and of expiries.                                                        *)

authAll == <<page, pageKept, authServer, authCalls>>

AuthPage == [status : {"closed", "checking", "guest", "authed"}, token : Nat, boot : {0, 1, 2},
             tab : {"login", "register"}, loading : BOOLEAN, sending : BOOLEAN, countdown : BOOLEAN, leaving : BOOLEAN]
AuthServer == [issued : Nat, access : SUBSET Nat, refresh : SUBSET Nat, excuse : BOOLEAN, asked : Nat, left : Nat]
AuthKinds == {"me", "refresh", "request", "login", "code", "logout"}
AuthSteps == {"out", "ok", "refused", "waiting"}
AuthCall == [kind : AuthKinds, page : AuthPages, id : Nat, token : Nat, step : AuthSteps, again : BOOLEAN]
AuthTyped ==
  /\ page \in [AuthPages -> AuthPage] /\ pageKept \in Nat /\ authServer \in AuthServer /\ authCalls \in SUBSET AuthCall
  /\ authServer.issued > 0
  /\ \A n \in authServer.refresh : n > 0

(* While there is no excuse one page is open at most.  The renewal that is *)
(* out has the token the page has and the server takes, or is answered     *)
(* with one that it takes; without a renewal the page's own is taken.      *)
In(p) == page[p].status \in {"checking", "authed"}
Taken(n) == n \in authServer.refresh
AuthCallGood(c) ==
  /\ page[c.page].status # "closed" /\ c.kind # "logout"
  /\ c.kind \in {"me", "refresh"} => In(c.page)
  /\ c.kind = "request" => page[c.page].status = "authed"
  /\ c.kind = "login" =>
       page[c.page].status = "guest" /\ page[c.page].loading /\ (c.step = "out" \/ (c.step = "ok" /\ Taken(c.token)))
  /\ c.kind = "me" =>
       /\ page[c.page].status = "checking" /\ page[c.page].boot \in {1, 2}
       /\ page[c.page].boot = 2 => c.token \in authServer.access /\ c.token # 1 /\ c.step # "refused"
  /\ c.kind = "refresh" =>
       /\ Taken(c.token)
       /\ \/ c.step = "out" /\ c.token = page[c.page].token
          \/ c.step = "ok" /\ c.token # 1 /\ (page[c.page].status = "checking" => c.token \in authServer.access)
Renewing == \E c \in authCalls : c.kind = "refresh"
OnePage == \A p, q \in AuthPages : page[p].status # "closed" /\ page[q].status # "closed" => p = q
OneCall == \A c, d \in authCalls : c.kind = d.kind /\ c.kind \in {"me", "refresh", "login"} => c = d
MeOrRenewal == \A c, d \in authCalls : c.kind = "me" /\ d.kind = "refresh" => page[c.page].boot # 2
TokensTaken == \A p \in AuthPages : In(p) /\ ~Renewing => Taken(page[p].token)
KeptTaken == (\A p \in AuthPages : page[p].status = "closed") /\ pageKept # 0 => Taken(pageKept)
Booted == \A p \in AuthPages : page[p].status # "checking" => page[p].boot = 0
AuthSole ==
  /\ OnePage /\ OneCall /\ MeOrRenewal /\ TokensTaken /\ KeptTaken /\ Booted
  /\ \A c \in authCalls : AuthCallGood(c)
AuthInv == AuthTyped /\ (~authServer.excuse => AuthSole)

LEMMA AuthStarts == AuthMaxEvents \in Nat /\ Auth!Init => AuthInv
<1> SUFFICES ASSUME AuthMaxEvents \in Nat, Auth!Init PROVE AuthInv
    OBVIOUS
<1>1. PICK no \in BOOLEAN : no = FALSE
      OBVIOUS
<1> DEFINE g == [status |-> "closed", token |-> 0, boot |-> 0, tab |-> "login", loading |-> no, sending |-> no,
                 countdown |-> no, leaving |-> no]
<1>2. page = [p \in AuthPages |-> g] /\ pageKept \in {0, 1} /\ authCalls = {}
      BY <1>1 DEF Auth!Init, Auth!Closed, Auth!None
<1>3. authServer = [issued |-> 1, access |-> {1}, refresh |-> {1}, excuse |-> no, asked |-> 0, left |-> AuthMaxEvents]
      BY <1>1 DEF Auth!Init
<1>4. g \in AuthPage /\ g.status = "closed" /\ g.boot = 0
      BY <1>1 DEF AuthPage
<1> HIDE DEF g
<1>5. page \in [AuthPages -> AuthPage] /\ \A p \in AuthPages : page[p].status = "closed" /\ page[p].boot = 0
      BY <1>2, <1>4
<1>6. authServer \in AuthServer /\ authServer.issued = 1 /\ authServer.refresh = {1}
      BY <1>1, <1>3 DEF AuthServer
<1>7. AuthTyped
      BY <1>2, <1>5, <1>6 DEF AuthTyped
<1>8. AuthSole
      BY <1>2, <1>5, <1>6
      DEF AuthSole, OnePage, OneCall, MeOrRenewal, TokensTaken, KeptTaken, Booted, In, Taken
<1> QED BY <1>7, <1>8 DEF AuthInv

LEMMA AuthExcused == AuthTyped' /\ authServer'.excuse => AuthInv'
  BY DEF AuthInv

LEMMA AuthSpends ==
  ASSUME AuthTyped, Auth!Budget
  PROVE  /\ Auth!Spend \in AuthServer /\ Auth!Spend.issued = authServer.issued /\ Auth!Spend.access = authServer.access
         /\ Auth!Spend.refresh = authServer.refresh /\ Auth!Spend.excuse = authServer.excuse
<1>1. authServer.left - 1 \in Nat /\ authServer.asked + 1 \in Nat
      BY DEF AuthTyped, AuthServer, Auth!Budget
<1> QED BY <1>1 DEF AuthTyped, AuthServer, Auth!Spend

LEMMA AuthExcusing ==
  ASSUME AuthTyped, Auth!Budget, NEW s, s = [Auth!Spend EXCEPT !.excuse = TRUE]
  PROVE  s \in AuthServer /\ s.issued = authServer.issued /\ s.refresh = authServer.refresh /\ s.excuse
<1>1. PICK yes \in BOOLEAN : yes = TRUE
      OBVIOUS
<1>2. s = [Auth!Spend EXCEPT !.excuse = yes]
      BY <1>1
<1>3. Auth!Spend \in AuthServer /\ Auth!Spend.issued = authServer.issued /\ Auth!Spend.refresh = authServer.refresh
      BY AuthSpends
<1> QED BY <1>1, <1>2, <1>3 DEF AuthServer

(* What is asked is of the page that asks                                  *)
LEMMA AuthAsked ==
  ASSUME AuthTyped, NEW p \in AuthPages, NEW kind \in AuthKinds, NEW n \in Nat, NEW c, c = Auth!Call(p, kind, n)
  PROVE  c \in AuthCall /\ c.kind = kind /\ c.page = p /\ c.token = n /\ c.step = "out"
<1>1. PICK no \in BOOLEAN : no = FALSE
      OBVIOUS
<1>2. c = [kind |-> kind, page |-> p, id |-> authServer.asked + 1, token |-> n, step |-> "out", again |-> no]
      BY <1>1 DEF Auth!Call
<1>3. authServer.asked + 1 \in Nat
      BY DEF AuthTyped, AuthServer
<1> QED BY <1>1, <1>2, <1>3 DEF AuthCall, AuthSteps

LEMMA AuthRenewals ==
  ASSUME AuthTyped, NEW p \in AuthPages
  PROVE  /\ Auth!RefreshCalls(p) \in SUBSET AuthCall
         /\ \A c \in Auth!RefreshCalls(p) :
              c.kind = "refresh" /\ c.page = p /\ c.token = page[p].token /\ c.step = "out"
         /\ \A c, d \in Auth!RefreshCalls(p) : c = d
         /\ Auth!RefreshCalls(p) = {} => \E c \in authCalls : c.kind = "refresh" /\ c.page = p
         /\ Auth!RefreshCalls(p) # {} => \A c \in authCalls : c.page = p => c.kind # "refresh"
<1>1. PICK no \in BOOLEAN : no = FALSE
      OBVIOUS
<1> DEFINE r == [kind |-> "refresh", page |-> p, id |-> 0, token |-> page[p].token, step |-> "out", again |-> no]
<1>2. Auth!RefreshCalls(p) = IF Auth!CallsOf(p, "refresh") # {} THEN {} ELSE {r}
      BY <1>1 DEF Auth!RefreshCalls
<1>3. page[p] \in AuthPage /\ page[p].token \in Nat
      BY DEF AuthTyped, AuthPage
<1>4. r \in AuthCall /\ r.kind = "refresh" /\ r.page = p /\ r.token = page[p].token /\ r.step = "out"
      BY <1>1, <1>3 DEF AuthCall, AuthKinds, AuthSteps
<1> HIDE DEF r
<1> QED BY <1>2, <1>4 DEF Auth!CallsOf

(* Steps that touch neither the tokens nor who is signed in                *)
LEMMA AuthQuiet ==
  ASSUME AuthInv, AuthTyped',
         \A p \in AuthPages : /\ page'[p].status = page[p].status /\ page'[p].token = page[p].token
                              /\ page'[p].boot = page[p].boot /\ (page[p].loading => page'[p].loading),
         pageKept' = pageKept,
         authServer'.access = authServer.access /\ authServer'.refresh = authServer.refresh
           /\ authServer'.excuse = authServer.excuse,
         \A c \in authCalls' : \/ c \in authCalls
                               \/ c.kind = "code" /\ page[c.page].status # "closed"
                               \/ c.kind = "request" /\ page[c.page].status = "authed",
         \A c \in authCalls : c.kind = "refresh" => c \in authCalls'
  PROVE  AuthInv'
<1> SUFFICES ASSUME ~authServer'.excuse PROVE AuthSole'
    BY DEF AuthInv
<1>1. AuthSole
      BY DEF AuthInv
<1>2. \A c \in authCalls' : c \in AuthCall /\ c.page \in AuthPages
      BY DEF AuthTyped, AuthCall
<1>3. \A p \in AuthPages : In(p)' <=> In(p)
      BY DEF In
<1>4. \A n : Taken(n)' <=> Taken(n)
      BY DEF Taken
<1>5. Renewing' <=> Renewing
      BY DEF Renewing
<1>6. OnePage' /\ OneCall' /\ MeOrRenewal' /\ Booted'
      BY <1>1, <1>2 DEF AuthSole, OnePage, OneCall, MeOrRenewal, Booted
<1>7. TokensTaken' /\ KeptTaken'
      BY <1>1, <1>3, <1>4, <1>5 DEF AuthSole, TokensTaken, KeptTaken, Taken
<1>8. \A c \in authCalls' : AuthCallGood(c)'
  <2> SUFFICES ASSUME NEW c \in authCalls' PROVE AuthCallGood(c)'
      OBVIOUS
  <2>1. c.page \in AuthPages
        BY <1>2
  <2>2. CASE c \in authCalls
        BY <1>1, <1>3, <1>4, <2>1, <2>2 DEF AuthSole, AuthCallGood
  <2>3. CASE c.kind = "code" /\ page[c.page].status # "closed"
        BY <2>1, <2>3 DEF AuthCallGood
  <2>4. CASE c.kind = "request" /\ page[c.page].status = "authed"
        BY <2>1, <2>4 DEF AuthCallGood
  <2> QED BY <2>2, <2>3, <2>4
<1> QED BY <1>6, <1>7, <1>8 DEF AuthSole

LEMMA AuthForms ==
  ASSUME AuthInv, NEW p \in AuthPages,
         Auth!SwitchTab(p) \/ Auth!HandleSendCode(p) \/ Auth!CountdownEnds(p) \/ Auth!Send(p) \/ Auth!HandleLogout(p)
  PROVE  AuthInv'
<1>1. PICK no \in BOOLEAN, yes \in BOOLEAN : no = FALSE /\ yes = TRUE
      OBVIOUS
<1>2. AuthTyped /\ page \in [AuthPages -> AuthPage] /\ page[p] \in AuthPage /\ page[p].token \in Nat /\ 0 \in Nat
      BY DEF AuthInv, AuthTyped, AuthPage
<1>3. {"code", "request", "logout"} \in SUBSET AuthKinds
      BY DEF AuthKinds
<1>4. CASE Auth!SwitchTab(p)
  <2> DEFINE tab == IF page[p].tab = "login" THEN "register" ELSE "login"
             g == [page[p] EXCEPT !.tab = tab]
  <2>1. page' = [page EXCEPT ![p] = g] /\ authServer' = Auth!Spend /\ Auth!Budget
        BY <1>2, <1>4 DEF Auth!SwitchTab
  <2>2. pageKept' = pageKept /\ authCalls' = authCalls
        BY <1>4 DEF Auth!SwitchTab
  <2>3. tab \in {"login", "register"}
        OBVIOUS
  <2> HIDE DEF tab
  <2>4. g \in AuthPage /\ g.status = page[p].status /\ g.token = page[p].token /\ g.boot = page[p].boot
          /\ g.loading = page[p].loading
        BY <1>2, <2>3 DEF AuthPage
  <2> HIDE DEF g
  <2>5. AuthTyped'
        BY <1>2, <2>1, <2>2, <2>4, AuthSpends DEF AuthTyped
  <2> QED BY <1>2, <2>1, <2>2, <2>4, <2>5, AuthSpends, AuthQuiet
<1>5. CASE Auth!HandleSendCode(p)
  <2> DEFINE g == [page[p] EXCEPT !.sending = yes]
             c == Auth!Call(p, "code", 0)
  <2>1. page' = [page EXCEPT ![p] = g] /\ authServer' = Auth!Spend /\ Auth!Budget
        BY <1>1, <1>2, <1>5 DEF Auth!HandleSendCode
  <2>2. pageKept' = pageKept /\ authCalls' = authCalls \cup {c} /\ page[p].status = "guest"
        BY <1>5 DEF Auth!HandleSendCode, Auth!None
  <2>3. c \in AuthCall /\ c.kind = "code" /\ c.page = p
        BY <1>2, <1>3, AuthAsked
  <2>4. g \in AuthPage /\ g.status = page[p].status /\ g.token = page[p].token /\ g.boot = page[p].boot
          /\ g.loading = page[p].loading
        BY <1>2 DEF AuthPage
  <2> HIDE DEF g, c
  <2>5. AuthTyped'
        BY <1>2, <2>1, <2>2, <2>3, <2>4, AuthSpends DEF AuthTyped
  <2> QED BY <1>2, <2>1, <2>2, <2>3, <2>4, <2>5, AuthSpends, AuthQuiet
<1>6. CASE Auth!CountdownEnds(p)
  <2> DEFINE g == [page[p] EXCEPT !.countdown = no]
  <2>1. page' = [page EXCEPT ![p] = g]
        BY <1>1, <1>2, <1>6 DEF Auth!CountdownEnds
  <2>2. pageKept' = pageKept /\ authCalls' = authCalls /\ authServer' = authServer
        BY <1>6 DEF Auth!CountdownEnds
  <2>4. g \in AuthPage /\ g.status = page[p].status /\ g.token = page[p].token /\ g.boot = page[p].boot
          /\ g.loading = page[p].loading
        BY <1>2 DEF AuthPage
  <2> HIDE DEF g
  <2>5. AuthTyped'
        BY <1>2, <2>1, <2>2, <2>4 DEF AuthTyped
  <2> QED BY <1>2, <2>1, <2>2, <2>4, <2>5, AuthQuiet
<1>7. CASE Auth!Send(p)
  <2> DEFINE c == Auth!Call(p, "request", page[p].token)
  <2>1. page' = page /\ authServer' = Auth!Spend /\ Auth!Budget
        BY <1>7 DEF Auth!Send
  <2>2. pageKept' = pageKept /\ authCalls' = authCalls \cup {c} /\ page[p].status = "authed"
        BY <1>7 DEF Auth!Send
  <2>3. c \in AuthCall /\ c.kind = "request" /\ c.page = p
        BY <1>2, <1>3, AuthAsked
  <2> HIDE DEF c
  <2>5. AuthTyped'
        BY <1>2, <2>1, <2>2, <2>3, AuthSpends DEF AuthTyped
  <2> QED BY <1>2, <2>1, <2>2, <2>3, <2>5, AuthSpends, AuthQuiet
<1>8. CASE Auth!HandleLogout(p)
  <2> DEFINE g == [page[p] EXCEPT !.leaving = yes]
             c == Auth!Call(p, "logout", page[p].token)
  <2>1. page' = [page EXCEPT ![p] = g] /\ authServer' = [Auth!Spend EXCEPT !.excuse = TRUE] /\ Auth!Budget
        BY <1>1, <1>2, <1>8 DEF Auth!HandleLogout
  <2>2. pageKept' = pageKept /\ authCalls' = authCalls \cup {c}
        BY <1>8 DEF Auth!HandleLogout
  <2>3. c \in AuthCall
        BY <1>2, <1>3, AuthAsked
  <2>4. g \in AuthPage
        BY <1>2 DEF AuthPage
  <2> HIDE DEF g, c
  <2>5. authServer' \in AuthServer /\ authServer'.issued = authServer.issued /\ authServer'.refresh = authServer.refresh
          /\ authServer'.excuse
        BY <1>2, <2>1, AuthExcusing
  <2>6. AuthTyped'
        BY <1>2, <2>1, <2>2, <2>3, <2>4, <2>5 DEF AuthTyped
  <2> QED BY <2>5, <2>6, AuthExcused
<1> QED BY <1>4, <1>5, <1>6, <1>7, <1>8

LEMMA AuthEnds ==
  ASSUME AuthInv, NEW c \in authCalls, Auth!CodeAnswered(c) \/ Auth!RequestEnds(c)
  PROVE  AuthInv'
<1>1. PICK no \in BOOLEAN : no = FALSE
      OBVIOUS
<1>2. AuthTyped /\ page \in [AuthPages -> AuthPage] /\ c \in AuthCall /\ c.page \in AuthPages /\ page[c.page] \in AuthPage
      BY DEF AuthInv, AuthTyped, AuthCall
<1>3. CASE Auth!CodeAnswered(c)
  <2>1. PICK went \in BOOLEAN : page' = [page EXCEPT ![c.page].sending = no, ![c.page].countdown = went]
        BY <1>1, <1>3 DEF Auth!CodeAnswered
  <2> DEFINE g == [page[c.page] EXCEPT !.sending = no, !.countdown = went]
  <2>2. page' = [page EXCEPT ![c.page] = g]
        BY <1>2, <2>1
  <2>3. pageKept' = pageKept /\ authServer' = authServer /\ authCalls' = authCalls \ {c} /\ c.kind = "code"
        BY <1>3 DEF Auth!CodeAnswered
  <2>4. g \in AuthPage /\ g.status = page[c.page].status /\ g.token = page[c.page].token /\ g.boot = page[c.page].boot
          /\ g.loading = page[c.page].loading
        BY <1>2 DEF AuthPage
  <2> HIDE DEF g
  <2>5. AuthTyped'
        BY <1>2, <2>2, <2>3, <2>4 DEF AuthTyped
  <2> QED BY <1>2, <2>2, <2>3, <2>4, <2>5, AuthQuiet
<1>4. CASE Auth!RequestEnds(c)
  <2>1. page' = page /\ pageKept' = pageKept /\ authServer' = authServer /\ authCalls' = authCalls \ {c}
          /\ c.kind = "request"
        BY <1>4 DEF Auth!RequestEnds, Auth!Settled
  <2>2. AuthTyped'
        BY <1>2, <2>1 DEF AuthTyped
  <2> QED BY <1>2, <2>1, <2>2, AuthQuiet
<1> QED BY <1>3, <1>4

(* A call that goes on to another step is still the call of its page       *)
LEMMA AuthGoesOn ==
  ASSUME AuthInv, AuthTyped', page' = page, pageKept' = pageKept, NEW c \in authCalls, NEW d,
         d.kind = c.kind, d.page = c.page, authCalls' = (authCalls \ {c}) \cup {d}, authServer'.excuse = authServer.excuse,
         AuthSole => AuthCallGood(d)' /\ KeptTaken',
         \A a \in authCalls : AuthSole /\ a # c /\ AuthCallGood(a) => AuthCallGood(a)',
         \A p \in AuthPages : AuthSole /\ ~Renewing /\ In(p) /\ Taken(page[p].token) => Taken(page[p].token)'
  PROVE  AuthInv'
<1> SUFFICES ASSUME ~authServer'.excuse PROVE AuthSole'
    BY DEF AuthInv
<1>1. AuthSole
      BY DEF AuthInv
<1>2. \A a \in authCalls' : a = d \/ (a \in authCalls /\ a # c)
      OBVIOUS
<1>3. OnePage' /\ Booted'
      BY <1>1 DEF AuthSole, OnePage, Booted
<1>4. OneCall'
      BY <1>1, <1>2 DEF AuthSole, OneCall
<1>5. MeOrRenewal'
      BY <1>1, <1>2 DEF AuthSole, MeOrRenewal
<1>6. Renewing' <=> Renewing
      BY DEF Renewing
<1>7. TokensTaken'
      BY <1>1, <1>6 DEF AuthSole, TokensTaken, In
<1>8. \A a \in authCalls' : AuthCallGood(a)'
      BY <1>1, <1>2 DEF AuthSole
<1> QED BY <1>1, <1>3, <1>4, <1>5, <1>7, <1>8 DEF AuthSole

LEMMA AuthChecks == ASSUME AuthInv, NEW c \in authCalls, Auth!ServerChecks(c) PROVE AuthInv'
<1>1. AuthTyped /\ c \in AuthCall /\ authServer \in AuthServer
      BY DEF AuthInv, AuthTyped
<1>2. page' = page /\ pageKept' = pageKept /\ c.kind \in {"me", "request", "logout"} /\ c.step = "out"
      BY DEF Auth!ServerChecks
<1>0. PICK step, d : step = (IF c.token \in authServer.access THEN "ok" ELSE "refused") /\ d = [c EXCEPT !.step = step]
      OBVIOUS
<1>3. authCalls' = (authCalls \ {c}) \cup {d}
      BY <1>0 DEF Auth!ServerChecks, Auth!Step
<1>4. authServer' = IF c.token \in authServer.access /\ c.kind = "logout" THEN [authServer EXCEPT !.refresh = {}] ELSE authServer
      BY DEF Auth!ServerChecks
<1>5. step \in AuthSteps /\ (step = "refused" => c.token \notin authServer.access)
      BY <1>0 DEF AuthSteps
<1>6. d \in AuthCall /\ d.kind = c.kind /\ d.page = c.page /\ d.token = c.token /\ d.step = step
      BY <1>0, <1>1, <1>5 DEF AuthCall
<1>7. authServer' \in AuthServer /\ authServer'.issued = authServer.issued /\ authServer'.excuse = authServer.excuse
        /\ authServer'.access = authServer.access
      BY <1>1, <1>4 DEF AuthServer
<1>8. \A n \in authServer'.refresh : n \in authServer.refresh
      BY <1>1, <1>4 DEF AuthServer
<1>9. AuthTyped'
      BY <1>1, <1>2, <1>3, <1>6, <1>7, <1>8 DEF AuthTyped
<1>10. AuthSole => authServer' = authServer /\ c.kind # "logout" /\ AuthCallGood(c)
      BY <1>4 DEF AuthSole, AuthCallGood
<1>11. AuthSole => AuthCallGood(d)' /\ KeptTaken'
      BY <1>2, <1>5, <1>6, <1>10 DEF AuthSole, AuthCallGood, KeptTaken, Taken, In
<1>12. \A a \in authCalls : AuthSole /\ a # c /\ AuthCallGood(a) => AuthCallGood(a)'
      BY <1>2, <1>10 DEF AuthCallGood, Taken, In
<1>13. \A p \in AuthPages : AuthSole /\ ~Renewing /\ In(p) /\ Taken(page[p].token) => Taken(page[p].token)'
      BY <1>2, <1>10 DEF Taken
<1> QED BY <1>2, <1>3, <1>6, <1>7, <1>9, <1>11, <1>12, <1>13, AuthGoesOn

(* A renewal takes the token it presents and none of another call's        *)
LEMMA AuthIssues == ASSUME AuthInv, NEW c \in authCalls, Auth!ServerIssues(c) PROVE AuthInv'
<1>1. AuthTyped /\ c \in AuthCall /\ authServer \in AuthServer /\ c.page \in AuthPages
      BY DEF AuthInv, AuthTyped, AuthCall
<1>2. page' = page /\ pageKept' = pageKept /\ c.kind \in {"login", "refresh"} /\ c.step = "out"
      BY DEF Auth!ServerIssues
<1>3. authServer.issued \in Nat /\ authServer.issued > 0 /\ authServer.refresh \in SUBSET Nat
        /\ authServer.access \in SUBSET Nat
      BY <1>1 DEF AuthTyped, AuthServer
<1>4. CASE c.kind = "login" \/ c.token \in authServer.refresh
  <2>0. PICK n, d : n = authServer.issued + 1 /\ d = [c EXCEPT !.step = "ok", !.token = n]
        BY Zenon
  <2> DEFINE s == [authServer EXCEPT !.refresh = @ \ {c.token}]
             t == [s EXCEPT !.issued = @ + 1, !.access = @ \cup {s.issued + 1}, !.refresh = @ \cup {s.issued + 1}]
  <2>1. authServer' = t /\ authCalls' = (authCalls \ {c}) \cup {d}
        BY <1>4, <2>0 DEF Auth!ServerIssues, Auth!Issued
  <2>2. n \in Nat /\ n > 1
        BY <1>3, <2>0
  <2>3. s \in AuthServer /\ s.issued = authServer.issued /\ s.access = authServer.access /\ s.excuse = authServer.excuse
          /\ s.refresh = authServer.refresh \ {c.token}
        BY <1>1, <1>3 DEF AuthServer
  <2> HIDE DEF s
  <2>4. t \in AuthServer /\ t.issued = n /\ t.access = authServer.access \cup {n} /\ t.excuse = authServer.excuse
          /\ t.refresh = (authServer.refresh \ {c.token}) \cup {n}
        BY <1>3, <2>0, <2>2, <2>3 DEF AuthServer
  <2>5. d \in AuthCall /\ d.kind = c.kind /\ d.page = c.page /\ d.token = n /\ d.step = "ok"
        BY <1>1, <2>0, <2>2 DEF AuthCall, AuthSteps
  <2> HIDE DEF t
  <2>6. AuthTyped'
        BY <1>1, <1>2, <2>1, <2>2, <2>4, <2>5 DEF AuthTyped
  <2>7. AuthSole => AuthCallGood(d)' /\ KeptTaken'
    <3> SUFFICES ASSUME AuthSole PROVE AuthCallGood(d)' /\ KeptTaken'
        OBVIOUS
    <3>1. AuthCallGood(c)
          BY DEF AuthSole
    <3>2. AuthCallGood(d)'
          BY <1>2, <2>1, <2>2, <2>4, <2>5, <3>1 DEF AuthCallGood, Taken, In
    <3>3. page[c.page].status # "closed"
          BY <3>1 DEF AuthCallGood
    <3> QED BY <1>1, <1>2, <3>2, <3>3 DEF KeptTaken
  <2>8. \A a \in authCalls : AuthSole /\ a # c /\ AuthCallGood(a) => AuthCallGood(a)'
    <3> SUFFICES ASSUME NEW a \in authCalls, AuthSole, a # c, AuthCallGood(a) PROVE AuthCallGood(a)'
        OBVIOUS
    <3>1. a.kind # c.kind /\ a.page \in AuthPages /\ AuthCallGood(c)
          BY <1>1, <1>2 DEF AuthSole, OneCall, AuthTyped, AuthCall
    <3>2. a.page = c.page
          BY <1>1, <3>1 DEF AuthSole, OnePage, AuthCallGood
    <3>3. a.kind \in {"login", "refresh"} => FALSE
          BY <1>2, <3>1, <3>2 DEF AuthCallGood, In
    <3>4. page' = page /\ authServer.access \in SUBSET authServer'.access
          BY <1>2, <2>1, <2>4
    <3> QED BY <3>3, <3>4 DEF AuthCallGood, In, AuthSole
  <2>9. \A p \in AuthPages : AuthSole /\ ~Renewing /\ In(p) /\ Taken(page[p].token) => Taken(page[p].token)'
    <3> SUFFICES ASSUME NEW p \in AuthPages, AuthSole, ~Renewing, In(p) PROVE FALSE
        OBVIOUS
    <3>1. c.kind = "login" /\ AuthCallGood(c)
          BY <1>2 DEF Renewing, AuthSole
    <3>2. page[c.page].status = "guest"
          BY <3>1 DEF AuthCallGood
    <3> QED BY <1>1, <3>2 DEF AuthSole, OnePage, In
  <2> QED BY <1>2, <2>1, <2>4, <2>5, <2>6, <2>7, <2>8, <2>9, AuthGoesOn
<1>5. CASE ~(c.kind = "login" \/ c.token \in authServer.refresh)
  <2> DEFINE d == [c EXCEPT !.step = "refused"]
  <2>1. authCalls' = (authCalls \ {c}) \cup {d} /\ authServer' = authServer
        BY <1>5 DEF Auth!ServerIssues, Auth!Step
  <2>2. d \in AuthCall /\ d.kind = c.kind /\ d.page = c.page
        BY <1>1 DEF AuthCall, AuthSteps
  <2> HIDE DEF d
  <2>3. AuthTyped'
        BY <1>1, <1>2, <2>1, <2>2 DEF AuthTyped
  <2>4. ~AuthSole
        BY <1>2, <1>5 DEF AuthSole, AuthCallGood, Taken
  <2> QED BY <2>1, <2>3, <2>4 DEF AuthInv
<1> QED BY <1>4, <1>5

(* The page that is open is the only one that asks                         *)
LEMMA AuthHere ==
  ASSUME AuthTyped, AuthSole, NEW p \in AuthPages, page[p].status # "closed"
  PROVE  /\ \A c \in authCalls : c.page = p
         /\ \A q \in AuthPages : q # p => page[q].status = "closed"
<1>1. \A c \in authCalls : c.page \in AuthPages /\ page[c.page].status # "closed"
      BY DEF AuthTyped, AuthCall, AuthSole, AuthCallGood
<1> QED BY <1>1 DEF AuthSole, OnePage

LEMMA AuthAt ==
  ASSUME AuthTyped', NEW p \in AuthPages, \A q \in AuthPages : q # p => page'[q].status = "closed" /\ page'[q].boot = 0,
         page'[p].status # "closed", page'[p].status # "checking" => page'[p].boot = 0,
         OneCall', MeOrRenewal', \A c \in authCalls' : c.page = p /\ AuthCallGood(c)',
         In(p)' /\ ~Renewing' => Taken(page[p].token)'
  PROVE  AuthSole'
<1>1. OnePage' /\ Booted' /\ KeptTaken'
      BY DEF OnePage, Booted, KeptTaken
<1>2. TokensTaken'
      BY DEF TokensTaken, In
<1> QED BY <1>1, <1>2 DEF AuthSole

LEMMA AuthBoots == ASSUME AuthInv, NEW p \in AuthPages, Auth!Boot(p) PROVE AuthInv'
<1>1. AuthTyped /\ page \in [AuthPages -> AuthPage] /\ page[p] \in AuthPage /\ page[p].status = "closed"
        /\ pageKept \in Nat /\ Auth!Budget /\ pageKept' = pageKept
      BY DEF AuthInv, AuthTyped, Auth!Boot
<1>2. PICK b \in BOOLEAN : b <=> (Auth!Spend.excuse \/ \E q \in AuthPages : page[q].status # "closed")
      OBVIOUS
<1>3. authServer' = [Auth!Spend EXCEPT !.excuse = b]
      BY <1>2, AuthSpends, <1>1 DEF Auth!Boot, AuthServer
<1>4. authServer' \in AuthServer /\ authServer'.issued = authServer.issued /\ authServer'.refresh = authServer.refresh
        /\ authServer'.excuse = b /\ authServer'.access = authServer.access
      BY <1>1, <1>3, AuthSpends DEF AuthServer
<1>5. ~b => AuthSole /\ authCalls = {} /\ \A q \in AuthPages : page[q].status = "closed" /\ page[q].boot = 0
  <2> SUFFICES ASSUME ~b PROVE AuthSole /\ authCalls = {} /\ \A q \in AuthPages : page[q].status = "closed" /\ page[q].boot = 0
      OBVIOUS
  <2>1. AuthSole /\ \A q \in AuthPages : page[q].status = "closed"
        BY <1>1, <1>2, AuthSpends DEF AuthInv
  <2>2. \A c \in authCalls : FALSE
        BY <1>1, <2>1 DEF AuthSole, AuthCallGood, AuthTyped, AuthCall
  <2> QED BY <2>1, <2>2 DEF AuthSole, Booted
<1>6. CASE pageKept = 0
  <2> DEFINE g == [page[p] EXCEPT !.status = "guest"]
  <2>1. page' = [page EXCEPT ![p] = g] /\ authCalls' = authCalls
        BY <1>1, <1>6 DEF Auth!Boot, Auth!None
  <2>2. g \in AuthPage /\ g.status = "guest" /\ g.boot = page[p].boot
        BY <1>1 DEF AuthPage
  <2> HIDE DEF g
  <2>3. AuthTyped'
        BY <1>1, <1>4, <2>1, <2>2 DEF AuthTyped
  <2>4. ASSUME ~b PROVE AuthSole'
    <3>1. authCalls' = {} /\ page'[p].status = "guest" /\ page'[p].boot = 0
          BY <1>1, <1>5, <2>1, <2>2, <2>4
    <3>2. \A q \in AuthPages : q # p => page'[q].status = "closed" /\ page'[q].boot = 0
          BY <1>1, <1>5, <2>1, <2>4
    <3>3. OneCall' /\ MeOrRenewal' /\ ~In(p)'
          BY <3>1 DEF OneCall, MeOrRenewal, In
    <3> QED BY <2>3, <3>1, <3>2, <3>3, AuthAt
  <2> QED BY <1>4, <2>3, <2>4 DEF AuthInv
<1>7. CASE pageKept # 0
  <2>0. PICK c : c = Auth!Call(p, "me", pageKept)
        OBVIOUS
  <2>1. c \in AuthCall /\ c.kind = "me" /\ c.page = p /\ c.token = pageKept /\ c.step = "out"
        BY <1>1, <2>0, AuthAsked DEF AuthKinds
  <2> DEFINE g == [page[p] EXCEPT !.status = "checking", !.token = pageKept, !.boot = 1]
  <2>2. page' = [page EXCEPT ![p] = g] /\ authCalls' = authCalls \cup {c}
        BY <1>1, <1>7, <2>0 DEF Auth!Boot, Auth!None
  <2>3. g \in AuthPage /\ g.status = "checking" /\ g.boot = 1 /\ g.token = pageKept
        BY <1>1 DEF AuthPage
  <2> HIDE DEF g
  <2>4. AuthTyped'
        BY <1>1, <1>4, <2>1, <2>2, <2>3 DEF AuthTyped
  <2>5. ASSUME ~b PROVE AuthSole'
    <3>1. authCalls' = {c} /\ page'[p].status = "checking" /\ page'[p].boot = 1 /\ page'[p].token = pageKept
          BY <1>1, <1>5, <2>2, <2>3, <2>5
    <3>2. \A q \in AuthPages : q # p => page'[q].status = "closed" /\ page'[q].boot = 0
          BY <1>1, <1>5, <2>2, <2>5
    <3>3. OneCall' /\ MeOrRenewal' /\ AuthCallGood(c)'
          BY <2>1, <3>1 DEF OneCall, MeOrRenewal, AuthCallGood, In
    <3>4. Taken(pageKept) /\ Taken(page[p].token)'
          BY <1>4, <1>5, <1>7, <2>5, <3>1 DEF AuthSole, KeptTaken, Taken
    <3> QED BY <2>1, <2>4, <3>1, <3>2, <3>3, <3>4, AuthAt
  <2> QED BY <1>4, <2>4, <2>5 DEF AuthInv
<1> QED BY <1>6, <1>7

(* clearSession: the page is a guest's, and nothing is kept                *)
LEMMA AuthGuest ==
  ASSUME AuthTyped, NEW p \in AuthPages, Auth!Guest(p)
  PROVE  page' \in [AuthPages -> AuthPage] /\ pageKept' \in Nat
<1> DEFINE g == [page[p] EXCEPT !.status = "guest", !.token = 0, !.boot = 0]
<1>1. page' = [page EXCEPT ![p] = g] /\ pageKept' = 0
      BY DEF Auth!Guest, Auth!None, AuthTyped
<1>2. g \in AuthPage
      BY ZenonT(60) DEF AuthTyped, AuthPage
<1> HIDE DEF g
<1> QED BY <1>1, <1>2 DEF AuthTyped

LEMMA AuthMe == ASSUME AuthInv, NEW c \in authCalls, Auth!MeAnswered(c) PROVE AuthInv'
<1>0. PICK p \in AuthPages : p = c.page
      BY DEF AuthInv, AuthTyped, AuthCall
<1>1. AuthTyped /\ page \in [AuthPages -> AuthPage] /\ page[p] \in AuthPage /\ c \in AuthCall /\ c.kind = "me"
      BY DEF AuthInv, AuthTyped, Auth!MeAnswered
<1>2. AuthSole => /\ AuthCallGood(c) /\ page[p].status = "checking" /\ (\A a \in authCalls : a.page = p)
                  /\ \A q \in AuthPages : q # p => page[q].status = "closed" /\ page[q].boot = 0
  <2> SUFFICES ASSUME AuthSole
               PROVE  /\ AuthCallGood(c) /\ page[p].status = "checking" /\ (\A a \in authCalls : a.page = p)
                      /\ \A q \in AuthPages : q # p => page[q].status = "closed" /\ page[q].boot = 0
      OBVIOUS
  <2>1. AuthCallGood(c) /\ page[p].status = "checking"
        BY <1>0, <1>1 DEF AuthSole, AuthCallGood
  <2> QED BY <1>1, <2>1, AuthHere DEF AuthSole, Booted
<1>3. CASE c.step = "ok" /\ authServer' = authServer
             /\ page' = [page EXCEPT ![p].status = "authed", ![p].boot = 0] /\ authCalls' = authCalls \ {c} /\ pageKept' = pageKept
  <2> DEFINE g == [page[p] EXCEPT !.status = "authed", !.boot = 0]
  <2>1. page' = [page EXCEPT ![p] = g]
        BY <1>1, <1>3
  <2>2. g \in AuthPage /\ g.status = "authed" /\ g.boot = 0 /\ g.token = page[p].token
        BY <1>1 DEF AuthPage
  <2> HIDE DEF g
  <2>3. AuthTyped'
        BY <1>1, <1>3, <2>1, <2>2 DEF AuthTyped
  <2>4. ASSUME AuthSole PROVE AuthSole'
    <3>1. page'[p].status = "authed" /\ page'[p].boot = 0 /\ page'[p].token = page[p].token
          BY <1>1, <2>1, <2>2
    <3>2. \A q \in AuthPages : q # p => page'[q].status = "closed" /\ page'[q].boot = 0
          BY <1>1, <1>2, <2>1, <2>4
    <3>3. \A a \in authCalls' : a.page = p /\ a.kind # "me" /\ AuthCallGood(a) /\ a \in authCalls
          BY <1>1, <1>2, <1>3, <2>4 DEF AuthSole, OneCall
    <3>4. \A a \in authCalls' : AuthCallGood(a)'
      <4> SUFFICES ASSUME NEW a \in authCalls' PROVE AuthCallGood(a)'
          OBVIOUS
      <4>1. a.page = p /\ a.kind # "me" /\ AuthCallGood(a) /\ a.kind # "login"
            BY <1>2, <2>4, <3>3 DEF AuthCallGood
      <4> QED BY <1>3, <3>1, <4>1 DEF AuthCallGood, In, Taken
    <3>5. OneCall' /\ MeOrRenewal'
          BY <1>3, <2>4, <3>3 DEF AuthSole, OneCall, MeOrRenewal
    <3>6. Renewing' <=> Renewing
          BY <1>1, <1>3 DEF Renewing
    <3>7. In(p)' /\ ~Renewing' => Taken(page[p].token)'
          BY <1>2, <1>3, <2>4, <3>1, <3>6 DEF AuthSole, TokensTaken, In, Taken
    <3> QED BY <2>3, <3>1, <3>2, <3>3, <3>4, <3>5, <3>7, AuthAt
  <2> QED BY <1>3, <2>3, <2>4 DEF AuthInv
<1>4. CASE /\ c.step = "refused" \/ (Auth!Budget /\ c.step = "out")
           /\ authServer' = IF c.step = "out" THEN [Auth!Spend EXCEPT !.excuse = TRUE] ELSE authServer
           /\ page[p].boot = 1
           /\ authCalls' = (authCalls \ {c}) \cup Auth!RefreshCalls(p)
           /\ page' = [page EXCEPT ![p].boot = 2] /\ pageKept' = pageKept
  <2> DEFINE g == [page[p] EXCEPT !.boot = 2]
  <2>1. page' = [page EXCEPT ![p] = g]
        BY <1>1, <1>4
  <2>2. g \in AuthPage /\ g.status = page[p].status /\ g.boot = 2 /\ g.token = page[p].token
        BY <1>1 DEF AuthPage
  <2> HIDE DEF g
  <2>3. authServer' \in AuthServer /\ authServer'.issued = authServer.issued /\ authServer'.refresh = authServer.refresh
        BY <1>1, <1>4, AuthExcusing DEF AuthTyped
  <2>4. AuthTyped'
        BY <1>1, <1>4, <2>1, <2>2, <2>3, AuthRenewals DEF AuthTyped
  <2>5. ~authServer'.excuse => authServer' = authServer /\ AuthSole
        BY <1>1, <1>4, AuthExcusing DEF AuthInv
  <2>6. ASSUME AuthSole, authServer' = authServer PROVE AuthSole'
    <3>1. page'[p].status = "checking" /\ page'[p].boot = 2 /\ page'[p].token = page[p].token
          BY <1>1, <1>2, <2>1, <2>2, <2>6
    <3>2. \A q \in AuthPages : q # p => page'[q].status = "closed" /\ page'[q].boot = 0
          BY <1>1, <1>2, <2>1, <2>6
    <3>3. \A a \in authCalls \ {c} : a.page = p /\ a.kind # "me" /\ AuthCallGood(a) /\ a \in authCalls
          BY <1>1, <1>2, <2>6 DEF AuthSole, OneCall
    <3>4. Auth!RefreshCalls(p) # {} => ~Renewing
          BY <1>1, <1>2, <2>6, AuthRenewals DEF Renewing
    <3>5. \A a \in Auth!RefreshCalls(p) :
            a.kind = "refresh" /\ a.page = p /\ a.token = page[p].token /\ a.step = "out" /\ Taken(a.token)
          BY <1>1, <1>2, <2>6, <3>4, AuthRenewals DEF AuthSole, TokensTaken, In
    <3>6. \A a \in authCalls' : a.page = p /\ a.kind # "me" /\ AuthCallGood(a)'
      <4> SUFFICES ASSUME NEW a \in authCalls' PROVE a.page = p /\ a.kind # "me" /\ AuthCallGood(a)'
          OBVIOUS
      <4>1. CASE a \in authCalls \ {c}
            BY <1>2, <2>6, <3>1, <3>3, <4>1 DEF AuthCallGood, In, Taken
      <4>2. CASE a \in Auth!RefreshCalls(p)
            BY <2>6, <3>1, <3>5, <4>2 DEF AuthCallGood, In, Taken
      <4> QED BY <1>4, <4>1, <4>2
    <3>7. OneCall'
      <4> SUFFICES ASSUME NEW a \in authCalls', NEW d \in authCalls', a.kind = d.kind, a.kind \in {"me", "refresh", "login"}
                   PROVE  a = d
          BY DEF OneCall
      <4>1. CASE a \in authCalls /\ d \in authCalls
            BY <2>6, <4>1 DEF AuthSole, OneCall
      <4>2. CASE Auth!RefreshCalls(p) # {} /\ (a \in Auth!RefreshCalls(p) \/ d \in Auth!RefreshCalls(p))
        <5>1. a.kind = "refresh" /\ d.kind = "refresh"
              BY <3>5, <4>2
        <5>2. a \in Auth!RefreshCalls(p) /\ d \in Auth!RefreshCalls(p)
              BY <1>4, <3>4, <4>2, <5>1 DEF Renewing
        <5> QED BY <1>1, <5>2, AuthRenewals
      <4> QED BY <1>4, <4>1, <4>2
    <3>8. MeOrRenewal'
          BY <3>6 DEF MeOrRenewal
    <3>9. Renewing'
      <4>1. CASE Auth!RefreshCalls(p) = {}
        <5>1. PICK a \in authCalls : a.kind = "refresh"
              BY <1>1, <4>1, AuthRenewals
        <5> QED BY <1>1, <1>4, <5>1 DEF Renewing
      <4>2. CASE Auth!RefreshCalls(p) # {}
            BY <1>4, <3>5, <4>2 DEF Renewing
      <4> QED BY <4>1, <4>2
    <3> QED BY <2>4, <3>1, <3>2, <3>6, <3>7, <3>8, <3>9, AuthAt
  <2> QED BY <2>4, <2>5, <2>6 DEF AuthInv
<1>5. CASE /\ c.step = "refused" \/ (Auth!Budget /\ c.step = "out")
           /\ authServer' = IF c.step = "out" THEN [Auth!Spend EXCEPT !.excuse = TRUE] ELSE authServer
           /\ page[p].boot # 1 /\ Auth!Guest(p) /\ authCalls' = authCalls \ {c}
  <2>1. authServer' \in AuthServer /\ authServer'.issued = authServer.issued /\ authServer'.refresh = authServer.refresh
        BY <1>1, <1>5, AuthExcusing DEF AuthTyped
  <2>2. AuthTyped'
        BY <1>1, <1>5, <2>1, AuthGuest DEF AuthTyped
  <2>3. AuthSole => c.step # "refused"
        BY <1>0, <1>1, <1>2, <1>5 DEF AuthCallGood
  <2>4. authServer'.excuse \/ authServer' = authServer
        BY <1>1, <1>5, AuthExcusing
  <2>5. c.step = "out" => authServer'.excuse
        BY <1>1, <1>5, AuthExcusing
  <2> QED BY <1>5, <2>2, <2>3, <2>4, <2>5 DEF AuthInv
<1> QED BY <1>0, <1>3, <1>4, <1>5 DEF Auth!MeAnswered

LEMMA AuthSubmits == ASSUME AuthInv, NEW p \in AuthPages, Auth!HandleSubmit(p) PROVE AuthInv'
<1>1. AuthTyped /\ page \in [AuthPages -> AuthPage] /\ page[p] \in AuthPage /\ page[p].status = "guest"
        /\ ~page[p].loading /\ Auth!Budget /\ authServer' = Auth!Spend /\ pageKept' = pageKept
      BY DEF AuthInv, AuthTyped, Auth!HandleSubmit
<1>2. PICK yes \in BOOLEAN : yes = TRUE
      OBVIOUS
<1>3. PICK c : c = Auth!Call(p, "login", 0)
      OBVIOUS
<1>4. c \in AuthCall /\ c.kind = "login" /\ c.page = p /\ c.token = 0 /\ c.step = "out"
      BY <1>1, <1>3, AuthAsked DEF AuthKinds
<1> DEFINE g == [page[p] EXCEPT !.loading = yes]
<1>5. page' = [page EXCEPT ![p] = g] /\ authCalls' = authCalls \cup {c}
      BY <1>1, <1>2, <1>3 DEF Auth!HandleSubmit, Auth!None
<1>6. g \in AuthPage /\ g.status = "guest" /\ g.boot = page[p].boot /\ g.loading = yes
      BY <1>1 DEF AuthPage
<1> HIDE DEF g
<1>7. AuthTyped'
      BY <1>1, <1>4, <1>5, <1>6, AuthSpends DEF AuthTyped
<1>8. ASSUME AuthSole PROVE AuthSole'
  <2>1. /\ \A a \in authCalls : a.page = p /\ AuthCallGood(a)
        /\ \A q \in AuthPages : q # p => page[q].status = "closed" /\ page[q].boot = 0
        /\ page[p].boot = 0
        BY <1>1, <1>8, AuthHere DEF AuthSole, Booted
  <2>2. page'[p].status = "guest" /\ page'[p].boot = 0 /\ page'[p].loading
        BY <1>1, <1>2, <1>5, <1>6, <2>1
  <2>3. \A q \in AuthPages : q # p => page'[q].status = "closed" /\ page'[q].boot = 0
        BY <1>1, <1>5, <2>1
  <2>4. \A a \in authCalls : a.kind \notin {"me", "refresh", "request", "login", "logout"}
        BY <1>1, <2>1 DEF AuthCallGood, In
  <2>5. \A a \in authCalls' : a.page = p /\ AuthCallGood(a)'
    <3> SUFFICES ASSUME NEW a \in authCalls' PROVE a.page = p /\ AuthCallGood(a)'
        OBVIOUS
    <3>1. CASE a = c
          BY <1>4, <2>2, <3>1 DEF AuthCallGood
    <3>2. CASE a \in authCalls
          BY <2>1, <2>2, <2>4, <3>2 DEF AuthCallGood
    <3> QED BY <1>5, <3>1, <3>2
  <2>6. OneCall' /\ MeOrRenewal' /\ ~In(p)'
        BY <1>4, <1>5, <2>2, <2>4 DEF OneCall, MeOrRenewal, In
  <2> QED BY <1>7, <2>2, <2>3, <2>5, <2>6, AuthAt
<1>9. authServer'.excuse = authServer.excuse
      BY <1>1, AuthSpends
<1> QED BY <1>7, <1>8, <1>9 DEF AuthInv

LEMMA AuthSignsIn == ASSUME AuthInv, NEW c \in authCalls, Auth!SignedIn(c) \/ Auth!SignInFails(c) PROVE AuthInv'
<1>0. PICK p \in AuthPages, no \in BOOLEAN : p = c.page /\ no = FALSE
      BY DEF AuthInv, AuthTyped, AuthCall
<1>1. AuthTyped /\ page \in [AuthPages -> AuthPage] /\ page[p] \in AuthPage /\ c \in AuthCall /\ c.kind = "login"
        /\ authCalls' = authCalls \ {c} /\ c.token \in Nat
      BY DEF AuthInv, AuthTyped, AuthCall, Auth!SignedIn, Auth!SignInFails
<1>2. AuthSole => /\ AuthCallGood(c) /\ page[p].status = "guest" /\ page[p].boot = 0
                  /\ \A a \in authCalls : a.page = p /\ AuthCallGood(a)
                  /\ \A q \in AuthPages : q # p => page[q].status = "closed" /\ page[q].boot = 0
                  /\ \A a \in authCalls' : a.kind \notin {"me", "refresh", "request", "login", "logout"}
  <2> SUFFICES ASSUME AuthSole
               PROVE  /\ AuthCallGood(c) /\ page[p].status = "guest" /\ page[p].boot = 0
                      /\ \A a \in authCalls : a.page = p /\ AuthCallGood(a)
                      /\ \A q \in AuthPages : q # p => page[q].status = "closed" /\ page[q].boot = 0
                      /\ \A a \in authCalls' : a.kind \notin {"me", "refresh", "request", "login", "logout"}
      OBVIOUS
  <2>1. AuthCallGood(c) /\ page[p].status = "guest"
        BY <1>0, <1>1 DEF AuthSole, AuthCallGood
  <2>2. /\ \A a \in authCalls : a.page = p /\ AuthCallGood(a)
        /\ \A q \in AuthPages : q # p => page[q].status = "closed" /\ page[q].boot = 0
        /\ page[p].boot = 0
        BY <1>1, <2>1, AuthHere DEF AuthSole, Booted
  <2>3. \A a \in authCalls' : a.kind # "login"
        BY <1>1 DEF AuthSole, OneCall
  <2>4. \A a \in authCalls' : a.kind \notin {"me", "refresh", "request", "logout"}
        BY <1>1, <2>1, <2>2 DEF AuthCallGood, In
  <2> QED BY <2>1, <2>2, <2>3, <2>4
<1>3. CASE Auth!SignedIn(c)
  <2> DEFINE g == [page[p] EXCEPT !.loading = no, !.status = "authed", !.token = c.token]
  <2>1. page' = [page EXCEPT ![p] = g] /\ pageKept' = c.token /\ authServer' = authServer /\ c.step = "ok"
        BY <1>0, <1>1, <1>3 DEF Auth!SignedIn
  <2>2. g \in AuthPage /\ g.status = "authed" /\ g.token = c.token /\ g.boot = page[p].boot
        BY <1>1 DEF AuthPage
  <2> HIDE DEF g
  <2>3. AuthTyped'
        BY <1>1, <2>1, <2>2 DEF AuthTyped
  <2>4. ASSUME AuthSole PROVE AuthSole'
    <3>1. page'[p].status = "authed" /\ page'[p].boot = 0 /\ page'[p].token = c.token
          BY <1>1, <1>2, <2>1, <2>2, <2>4
    <3>2. \A q \in AuthPages : q # p => page'[q].status = "closed" /\ page'[q].boot = 0
          BY <1>1, <1>2, <2>1, <2>4
    <3>3. Taken(c.token)
          BY <1>1, <1>2, <2>1, <2>4 DEF AuthCallGood
    <3>4. Taken(page[p].token)'
          BY <2>1, <3>1, <3>3 DEF Taken
    <3>5. \A a \in authCalls' : a.page = p /\ AuthCallGood(a)'
          BY <1>1, <1>2, <2>4, <3>1 DEF AuthCallGood
    <3>6. OneCall' /\ MeOrRenewal'
          BY <1>2, <2>4 DEF OneCall, MeOrRenewal
    <3> QED BY <2>3, <3>1, <3>2, <3>4, <3>5, <3>6, AuthAt
  <2> QED BY <2>1, <2>3, <2>4 DEF AuthInv
<1>4. CASE Auth!SignInFails(c)
  <2> DEFINE g == [page[p] EXCEPT !.loading = no]
  <2>1. page' = [page EXCEPT ![p] = g] /\ pageKept' = pageKept /\ authServer' = Auth!Spend /\ Auth!Budget
        BY <1>0, <1>1, <1>4 DEF Auth!SignInFails
  <2>2. g \in AuthPage /\ g.status = page[p].status /\ g.boot = page[p].boot
        BY <1>1 DEF AuthPage
  <2> HIDE DEF g
  <2>3. AuthTyped'
        BY <1>1, <2>1, <2>2, AuthSpends DEF AuthTyped
  <2>4. ASSUME AuthSole PROVE AuthSole'
    <3>1. page'[p].status = "guest" /\ page'[p].boot = 0
          BY <1>1, <1>2, <2>1, <2>2, <2>4
    <3>2. \A q \in AuthPages : q # p => page'[q].status = "closed" /\ page'[q].boot = 0
          BY <1>1, <1>2, <2>1, <2>4
    <3>3. \A a \in authCalls' : a.page = p /\ AuthCallGood(a)'
          BY <1>1, <1>2, <2>4, <3>1 DEF AuthCallGood
    <3>4. OneCall' /\ MeOrRenewal' /\ ~In(p)'
          BY <1>2, <2>4, <3>1 DEF OneCall, MeOrRenewal, In
    <3> QED BY <2>3, <3>1, <3>2, <3>3, <3>4, AuthAt
  <2>5. authServer'.excuse = authServer.excuse
        BY <1>1, <2>1, AuthSpends
  <2> QED BY <2>3, <2>4, <2>5 DEF AuthInv
<1> QED BY <1>3, <1>4

(* A request refused joins the renewal that is out, or starts it           *)
LEMMA AuthRefused == ASSUME AuthInv, NEW c \in authCalls, Auth!Unauthorised(c) PROVE AuthInv'
<1>0. PICK p \in AuthPages : p = c.page
      BY DEF AuthInv, AuthTyped, AuthCall
<1>1. AuthTyped /\ page \in [AuthPages -> AuthPage] /\ page[p] \in AuthPage /\ c \in AuthCall /\ c.kind = "request"
        /\ authServer' = authServer
      BY DEF AuthInv, AuthTyped, Auth!Unauthorised
<1>2. ASSUME AuthSole
      PROVE  /\ In(p) /\ page[p].status = "authed" /\ (\A a \in authCalls : a.page = p /\ AuthCallGood(a))
             /\ \A q \in AuthPages : q # p => page[q].status = "closed" /\ page[q].boot = 0
  <2>1. AuthCallGood(c) /\ page[p].status = "authed"
        BY <1>0, <1>1, <1>2 DEF AuthSole, AuthCallGood
  <2>2. In(p)
        BY <2>1 DEF In
  <2> QED BY <1>1, <1>2, <2>1, <2>2, AuthHere DEF AuthSole, Booted
<1>3. CASE page[p].token = 0 /\ Auth!CallsOf(p, "refresh") = {}
  <2>1. Auth!Guest(p) /\ authCalls' = authCalls \ {c}
        BY <1>0, <1>3 DEF Auth!Unauthorised, Auth!None
  <2>2. AuthTyped'
        BY <1>1, <2>1, AuthGuest DEF AuthTyped
  <2>3. ~AuthSole
    <3> SUFFICES ASSUME AuthSole PROVE FALSE
        OBVIOUS
    <3>1. ~Renewing
          BY <1>2, <1>3 DEF Renewing, Auth!CallsOf
    <3>2. Taken(page[p].token)
          BY <1>2, <3>1 DEF AuthSole, TokensTaken
    <3> QED BY <1>1, <1>3, <3>2 DEF Taken, AuthTyped
  <2> QED BY <1>1, <2>2, <2>3 DEF AuthInv
<1>4. CASE ~(page[p].token = 0 /\ Auth!CallsOf(p, "refresh") = {})
  <2>0. PICK d : d = [c EXCEPT !.step = "waiting"]
        OBVIOUS
  <2>1. authCalls' = (authCalls \ {c}) \cup {d} \cup Auth!RefreshCalls(p) /\ page' = page /\ pageKept' = pageKept
        BY <1>0, <1>4, <2>0 DEF Auth!Unauthorised, Auth!Step, Auth!None
  <2>2. d \in AuthCall /\ d.kind = "request" /\ d.page = p
        BY <1>0, <1>1, <2>0 DEF AuthCall, AuthSteps
  <2>3. AuthTyped'
        BY <1>1, <2>1, <2>2, AuthRenewals DEF AuthTyped
  <2>4. ASSUME AuthSole PROVE AuthSole'
    <3>1. Auth!RefreshCalls(p) # {} => ~Renewing
          BY <1>1, <1>2, <2>4, AuthRenewals DEF Renewing
    <3>2. \A a \in Auth!RefreshCalls(p) :
            a.kind = "refresh" /\ a.page = p /\ a.token = page[p].token /\ a.step = "out" /\ Taken(a.token)
          BY <1>1, <1>2, <2>4, <3>1, AuthRenewals DEF AuthSole, TokensTaken
    <3>3. \A a \in authCalls' : a.page = p /\ AuthCallGood(a)'
      <4> SUFFICES ASSUME NEW a \in authCalls' PROVE a.page = p /\ AuthCallGood(a)'
          OBVIOUS
      <4>1. CASE a \in authCalls
            BY <1>1, <1>2, <2>1, <2>4, <4>1 DEF AuthCallGood, In, Taken
      <4>2. CASE a = d
            BY <1>2, <2>1, <2>2, <2>4, <4>2 DEF AuthCallGood, In
      <4>3. CASE a \in Auth!RefreshCalls(p)
            BY <1>1, <1>2, <2>1, <2>4, <3>2, <4>3 DEF AuthCallGood, In, Taken
      <4> QED BY <2>1, <4>1, <4>2, <4>3
    <3>4. OneCall'
      <4> SUFFICES ASSUME NEW a \in authCalls', NEW b \in authCalls', a.kind = b.kind, a.kind \in {"me", "refresh", "login"}
                   PROVE  a = b
          BY DEF OneCall
      <4>1. CASE a \in authCalls /\ b \in authCalls
            BY <2>4, <4>1 DEF AuthSole, OneCall
      <4>2. CASE a \in Auth!RefreshCalls(p) \/ b \in Auth!RefreshCalls(p)
        <5>1. a.kind = "refresh" /\ b.kind = "refresh" /\ ~Renewing
              BY <3>1, <3>2, <4>2
        <5>2. a \in Auth!RefreshCalls(p) /\ b \in Auth!RefreshCalls(p)
              BY <2>1, <2>2, <5>1 DEF Renewing
        <5> QED BY <1>1, <5>2, AuthRenewals
      <4>3. a # d /\ b # d
            BY <2>2
      <4> QED BY <2>1, <4>1, <4>2, <4>3
    <3>5. MeOrRenewal'
      <4> SUFFICES ASSUME NEW a \in authCalls', NEW b \in authCalls', a.kind = "me", b.kind = "refresh"
                   PROVE  page[a.page].boot # 2
          BY <2>1 DEF MeOrRenewal
      <4>1. a \in authCalls
            BY <2>1, <2>2, <3>2
      <4> QED BY <1>2, <2>4, <4>1 DEF AuthCallGood
    <3>6. Renewing'
      <4>1. CASE Auth!RefreshCalls(p) = {}
        <5>1. PICK a \in authCalls : a.kind = "refresh"
              BY <1>1, <4>1, AuthRenewals
        <5> QED BY <1>1, <2>1, <5>1 DEF Renewing
      <4>2. CASE Auth!RefreshCalls(p) # {}
            BY <2>1, <3>2, <4>2 DEF Renewing
      <4> QED BY <4>1, <4>2
    <3>7. page'[p].status # "closed" /\ (page'[p].status # "checking" => page'[p].boot = 0)
          BY <1>2, <2>1, <2>4 DEF AuthSole, Booted
    <3>8. \A q \in AuthPages : q # p => page'[q].status = "closed" /\ page'[q].boot = 0
          BY <1>2, <2>1, <2>4
    <3> QED BY <2>3, <3>3, <3>4, <3>5, <3>6, <3>7, <3>8, AuthAt
  <2> QED BY <1>1, <2>3, <2>4 DEF AuthInv
<1> QED BY <1>3, <1>4

(* Whoever waited is sent again with the new token, the page takes it on   *)
LEMMA AuthRenews == ASSUME AuthInv, NEW c \in authCalls, Auth!Renewed(c) PROVE AuthInv'
<1>0. PICK p \in AuthPages, yes \in BOOLEAN : p = c.page /\ yes = TRUE
      BY DEF AuthInv, AuthTyped, AuthCall
<1>1. AuthTyped /\ page \in [AuthPages -> AuthPage] /\ page[p] \in AuthPage /\ c \in AuthCall /\ c.kind = "refresh"
        /\ c.step = "ok" /\ c.token \in Nat /\ pageKept' = c.token /\ authServer' = authServer
      BY Zenon DEF AuthInv, AuthTyped, AuthCall, Auth!Renewed
<1>2. PICK m : m = Auth!Call(p, "me", c.token)
      OBVIOUS
<1>3. m \in AuthCall /\ m.kind = "me" /\ m.page = p /\ m.token = c.token /\ m.step = "out"
      BY <1>1, <1>2, AuthAsked DEF AuthKinds
<1>4. PICK again : again = {[w EXCEPT !.step = "out", !.again = yes, !.token = c.token] : w \in Auth!Waiting(p)}
      BY Zenon
<1>5. authCalls' = (authCalls \ ({c} \cup Auth!Waiting(p))) \cup again \cup (IF page[p].boot = 2 THEN {m} ELSE {})
      BY Zenon, <1>0, <1>2, <1>4 DEF Auth!Renewed
<1>6. \A a \in again : a \in AuthCall /\ a.kind = "request" /\ a.page = p
  <2> SUFFICES ASSUME NEW a \in again PROVE a \in AuthCall /\ a.kind = "request" /\ a.page = p
      OBVIOUS
  <2>1. PICK w \in Auth!Waiting(p) : a = [w EXCEPT !.step = "out", !.again = yes, !.token = c.token]
        BY Zenon, <1>4
  <2>2. w \in AuthCall /\ w.kind = "request" /\ w.page = p
        BY <1>1 DEF Auth!Waiting, Auth!CallsOf, AuthTyped
  <2> QED BY <1>1, <2>1, <2>2 DEF AuthCall, AuthSteps
<1> DEFINE g == [page[p] EXCEPT !.token = c.token]
<1>7. page' = [page EXCEPT ![p] = g]
      BY Zenon, <1>0, <1>1 DEF Auth!Renewed
<1>8. g \in AuthPage /\ g.status = page[p].status /\ g.token = c.token /\ g.boot = page[p].boot
      BY <1>1 DEF AuthPage
<1> HIDE DEF g
<1>9. AuthTyped'
      BY <1>1, <1>3, <1>5, <1>6, <1>7, <1>8 DEF AuthTyped
<1>10. ASSUME AuthSole PROVE AuthSole'
  <2>1. AuthCallGood(c) /\ In(p) /\ page[p].status # "closed"
        BY <1>0, <1>1, <1>10 DEF AuthSole, AuthCallGood, In
  <2>2. (\A a \in authCalls : a.page = p /\ AuthCallGood(a))
          /\ \A q \in AuthPages : q # p => page[q].status = "closed" /\ page[q].boot = 0
        BY <1>1, <1>10, <2>1, AuthHere DEF AuthSole, Booted
  <2>3. page'[p].status = page[p].status /\ page'[p].boot = page[p].boot /\ page'[p].token = c.token
        BY <1>1, <1>7, <1>8
  <2>4. \A q \in AuthPages : q # p => page'[q].status = "closed" /\ page'[q].boot = 0
        BY <1>1, <1>7, <2>2
  <2>5. page[p].boot = 2 => page[p].status = "checking" /\ \A a \in authCalls : a.kind # "me"
        BY <1>0, <1>1, <1>10, <2>2 DEF AuthSole, Booted, MeOrRenewal
  <2>6. \A a \in again : page[p].status = "authed"
    <3>1. \A w \in Auth!Waiting(p) : w \in authCalls /\ w.kind = "request" /\ w.page = p
          BY DEF Auth!Waiting, Auth!CallsOf
    <3>2. Auth!Waiting(p) # {} => page[p].status = "authed"
          BY <2>2, <3>1 DEF AuthCallGood
    <3> QED BY Zenon, <1>4, <3>2
  <2>7. \A a \in authCalls : a.kind # "login" /\ (a.kind = "refresh" => a = c)
        BY <1>1, <1>10, <2>1, <2>2 DEF AuthSole, OneCall, AuthCallGood, In
  <2>8. \A a \in authCalls' : a.page = p /\ a.kind # "refresh" /\ a.kind # "login" /\ AuthCallGood(a)'
    <3> SUFFICES ASSUME NEW a \in authCalls'
                 PROVE  a.page = p /\ a.kind # "refresh" /\ a.kind # "login" /\ AuthCallGood(a)'
        OBVIOUS
    <3>1. CASE a \in authCalls /\ a # c
          BY <1>1, <2>2, <2>3, <2>7, <3>1 DEF AuthCallGood, In
    <3>2. CASE a \in again
          BY <1>6, <2>3, <2>6, <3>2 DEF AuthCallGood
    <3>3. CASE page[p].boot = 2 /\ a = m
      <4>1. c.token \in authServer.access /\ c.token # 1
            BY <1>0, <1>1, <2>1, <2>5, <3>3 DEF AuthCallGood
      <4> QED BY <1>1, <1>3, <2>3, <2>5, <3>3, <4>1 DEF AuthCallGood, In
    <3> QED BY <1>5, <3>1, <3>2, <3>3
  <2>9. OneCall'
    <3> SUFFICES ASSUME NEW a \in authCalls', NEW b \in authCalls', a.kind = "me", b.kind = "me"
                 PROVE  a = b
        BY <2>8 DEF OneCall
    <3>1. a \notin again /\ b \notin again
          BY <1>6
    <3>2. CASE page[p].boot = 2
          BY <1>5, <2>5, <3>1, <3>2
    <3>3. CASE page[p].boot # 2
          BY <1>5, <1>10, <3>1, <3>3 DEF AuthSole, OneCall
    <3> QED BY <3>2, <3>3
  <2>10. MeOrRenewal'
         BY <2>8 DEF MeOrRenewal
  <2>11. Taken(page[p].token)'
         BY <1>1, <2>1, <2>3 DEF AuthCallGood, Taken
  <2>12. page'[p].status # "closed" /\ (page'[p].status # "checking" => page'[p].boot = 0)
         BY <1>10, <2>1, <2>3 DEF AuthSole, Booted
  <2> QED BY <1>9, <2>4, <2>8, <2>9, <2>10, <2>11, <2>12, AuthAt
<1> QED BY <1>1, <1>9, <1>10 DEF AuthInv

(* A renewal is refused, and a sign-out asked for, only with an excuse     *)
LEMMA AuthExcuses ==
  ASSUME AuthInv, NEW c \in authCalls, Auth!RenewalFails(c) \/ Auth!LoggedOut(c)
  PROVE  AuthTyped' /\ authServer'.excuse
<1>0. PICK p \in AuthPages, no \in BOOLEAN : p = c.page /\ no = FALSE
      BY DEF AuthInv, AuthTyped, AuthCall
<1>1. AuthTyped /\ page \in [AuthPages -> AuthPage] /\ page[p] \in AuthPage
      BY DEF AuthInv, AuthTyped
<1>2. CASE Auth!RenewalFails(c)
  <2>1. c.kind = "refresh" /\ (c.step = "refused" \/ Auth!Budget) /\ Auth!Guest(p)
          /\ authCalls' = authCalls \ ({c} \cup Auth!Waiting(p))
          /\ authServer' = IF c.step = "refused" THEN authServer ELSE [Auth!Spend EXCEPT !.excuse = TRUE]
        BY <1>0, <1>2 DEF Auth!RenewalFails
  <2>2. authServer' \in AuthServer /\ authServer'.issued = authServer.issued /\ authServer'.refresh = authServer.refresh
          /\ (c.step # "refused" => authServer'.excuse)
        BY <1>1, <2>1, AuthExcusing DEF AuthTyped
  <2>3. AuthTyped'
        BY <1>1, <2>1, <2>2, AuthGuest DEF AuthTyped
  <2>4. AuthSole => c.step # "refused"
        BY <2>1 DEF AuthSole, AuthCallGood
  <2> QED BY <2>1, <2>2, <2>3, <2>4 DEF AuthInv
<1>3. CASE Auth!LoggedOut(c)
  <2> DEFINE g == [page[p] EXCEPT !.leaving = no, !.status = "guest", !.token = 0]
  <2>1. page' = [page EXCEPT ![p] = g] /\ pageKept' = 0 /\ authCalls' = authCalls \ {c} /\ c.kind = "logout"
          /\ (Auth!Answered(c) \/ Auth!Budget) /\ authServer' = IF Auth!Answered(c) THEN authServer ELSE Auth!Spend
        BY <1>0, <1>1, <1>3 DEF Auth!LoggedOut, Auth!None
  <2>2. g \in AuthPage
        BY <1>1 DEF AuthPage
  <2> HIDE DEF g
  <2>3. authServer' \in AuthServer /\ authServer'.issued = authServer.issued /\ authServer'.refresh = authServer.refresh
          /\ authServer'.excuse = authServer.excuse
        BY <1>1, <2>1, AuthSpends DEF AuthTyped
  <2>4. AuthTyped'
        BY <1>1, <2>1, <2>2, <2>3 DEF AuthTyped
  <2>5. ~AuthSole
        BY <2>1 DEF AuthSole, AuthCallGood
  <2> QED BY <2>3, <2>4, <2>5 DEF AuthInv
<1> QED BY <1>2, <1>3

(* What is needed while a page is checked is not what expires              *)
LEMMA AuthExpires == ASSUME AuthInv, NEW n, Auth!Expire(n) PROVE AuthInv'
<1>1. AuthTyped /\ page' = page /\ pageKept' = pageKept /\ authCalls' = authCalls /\ Auth!Budget
        /\ authServer' = [Auth!Spend EXCEPT !.access = @ \ {n}]
        /\ (n = 1 \/ \E q \in AuthPages : page[q].status = "authed" /\ page[q].token = n)
      BY DEF AuthInv, Auth!Expire
<1>2. authServer' \in AuthServer /\ authServer'.issued = authServer.issued /\ authServer'.refresh = authServer.refresh
        /\ authServer'.access = authServer.access \ {n} /\ authServer'.excuse = authServer.excuse
      BY <1>1, AuthSpends DEF AuthServer
<1>3. AuthTyped'
      BY <1>1, <1>2 DEF AuthTyped
<1>4. ASSUME AuthSole PROVE AuthSole'
  <2>1. OnePage' /\ OneCall' /\ MeOrRenewal' /\ TokensTaken' /\ KeptTaken' /\ Booted'
        BY <1>1, <1>2, <1>4
        DEF AuthSole, OnePage, OneCall, MeOrRenewal, TokensTaken, KeptTaken, Booted, In, Renewing, Taken
  <2>2. \A c \in authCalls : AuthCallGood(c)'
    <3> SUFFICES ASSUME NEW c \in authCalls PROVE AuthCallGood(c)'
        OBVIOUS
    <3>1. AuthCallGood(c) /\ c.page \in AuthPages
          BY <1>1, <1>4 DEF AuthSole, AuthTyped, AuthCall
    <3>2. page[c.page].status = "checking" => n = 1
          BY <1>1, <1>4, <3>1 DEF AuthSole, OnePage
    <3>3. page[c.page].status = "checking" /\ c.token # 1 /\ c.token \in authServer.access => c.token \in authServer'.access
          BY <1>2, <3>2
    <3> QED BY <1>1, <1>2, <3>1, <3>3 DEF AuthCallGood, In, Taken
  <2> QED BY <1>1, <2>1, <2>2 DEF AuthSole
<1> QED BY <1>2, <1>3, <1>4 DEF AuthInv

LEMMA AuthStep == AuthInv /\ [Auth!Next]_(Auth!authVars) => AuthInv'
<1> SUFFICES ASSUME AuthInv, [Auth!Next]_(Auth!authVars) PROVE AuthInv'
    OBVIOUS
<1>1. CASE UNCHANGED Auth!authVars
  <2>1. page' = page /\ pageKept' = pageKept /\ authServer' = authServer /\ authCalls' = authCalls
        BY <1>1 DEF Auth!authVars
  <2> QED BY <2>1
      DEF AuthInv, AuthTyped, AuthSole, OnePage, OneCall, MeOrRenewal, TokensTaken, KeptTaken, Booted, AuthCallGood, In,
          Renewing, Taken
<1>2. ASSUME NEW p \in AuthPages, Auth!Boot(p) PROVE AuthInv'
      BY <1>2, AuthBoots
<1>3. ASSUME NEW p \in AuthPages,
             Auth!SwitchTab(p) \/ Auth!HandleSendCode(p) \/ Auth!CountdownEnds(p) \/ Auth!Send(p) \/ Auth!HandleLogout(p)
      PROVE  AuthInv'
      BY <1>3, AuthForms
<1>4. ASSUME NEW p \in AuthPages, Auth!HandleSubmit(p) PROVE AuthInv'
      BY <1>4, AuthSubmits
<1>5. ASSUME NEW n, Auth!Expire(n) PROVE AuthInv'
      BY <1>5, AuthExpires
<1>6. ASSUME NEW c \in authCalls, Auth!MeAnswered(c) PROVE AuthInv'
      BY <1>6, AuthMe
<1>7. ASSUME NEW c \in authCalls, Auth!CodeAnswered(c) \/ Auth!RequestEnds(c) PROVE AuthInv'
      BY <1>7, AuthEnds
<1>8. ASSUME NEW c \in authCalls, Auth!SignedIn(c) \/ Auth!SignInFails(c) PROVE AuthInv'
      BY <1>8, AuthSignsIn
<1>9. ASSUME NEW c \in authCalls, Auth!Unauthorised(c) PROVE AuthInv'
      BY <1>9, AuthRefused
<1>10. ASSUME NEW c \in authCalls, Auth!Renewed(c) PROVE AuthInv'
       BY <1>10, AuthRenews
<1>11. ASSUME NEW c \in authCalls, Auth!RenewalFails(c) \/ Auth!LoggedOut(c) PROVE AuthInv'
       BY <1>11, AuthExcuses, AuthExcused
<1>12. ASSUME NEW c \in authCalls, Auth!ServerChecks(c) PROVE AuthInv'
       BY <1>12, AuthChecks
<1>13. ASSUME NEW c \in authCalls, Auth!ServerIssues(c) PROVE AuthInv'
       BY <1>13, AuthIssues
<1> QED BY <1>1, <1>2, <1>3, <1>4, <1>5, <1>6, <1>7, <1>8, <1>9, <1>10, <1>11, <1>12, <1>13 DEF Auth!Next

(* A page is a guest's again only with an excuse                           *)
LEMMA AuthStays ==
  ASSUME AuthInv, Auth!Next, NEW p \in AuthPages, In(p), page'[p].status = "guest"
  PROVE  authServer'.excuse
<1>1. AuthTyped /\ page \in [AuthPages -> AuthPage] /\ page[p].status # "guest" /\ page[p].status # "closed"
      BY DEF AuthInv, AuthTyped, In
<1>2. \A q \in AuthPages : page[q] \in AuthPage
      BY <1>1
<1>3. ASSUME NEW q \in AuthPages, Auth!Boot(q) PROVE FALSE
      BY <1>1, <1>2, <1>3 DEF Auth!Boot, AuthPage
<1>4. ASSUME NEW q \in AuthPages,
             \/ Auth!SwitchTab(q) \/ Auth!HandleSendCode(q) \/ Auth!CountdownEnds(q) \/ Auth!HandleSubmit(q)
             \/ Auth!Send(q) \/ Auth!HandleLogout(q)
      PROVE  FALSE
      BY <1>1, <1>2, <1>4
      DEF Auth!SwitchTab, Auth!HandleSendCode, Auth!CountdownEnds, Auth!HandleSubmit, Auth!Send, Auth!HandleLogout, AuthPage
<1>5. ASSUME NEW n, Auth!Expire(n) PROVE FALSE
      BY <1>1, <1>5 DEF Auth!Expire
<1>6. ASSUME NEW c \in authCalls, Auth!MeAnswered(c) PROVE authServer'.excuse
  <2>1. c.kind = "me" /\ c.page \in AuthPages /\ page[c.page] \in AuthPage
        BY <1>1, <1>6 DEF Auth!MeAnswered, AuthTyped, AuthCall
  <2>2. CASE c.step = "ok" /\ page' = [page EXCEPT ![c.page].status = "authed", ![c.page].boot = 0]
        BY <1>1, <1>2, <2>1, <2>2 DEF AuthPage
  <2>3. CASE page' = [page EXCEPT ![c.page].boot = 2]
        BY <1>1, <1>2, <2>1, <2>3 DEF AuthPage
  <2>4. CASE /\ c.step = "refused" \/ (Auth!Budget /\ c.step = "out")
             /\ page[c.page].boot # 1
             /\ authServer' = IF c.step = "out" THEN [Auth!Spend EXCEPT !.excuse = TRUE] ELSE authServer
    <3>1. CASE c.step = "out"
          BY <1>1, <2>4, <3>1, AuthExcusing
    <3>2. CASE c.step # "out"
          BY <2>1, <2>4, <3>2 DEF AuthInv, AuthSole, AuthCallGood
    <3> QED BY <3>1, <3>2
  <2> QED BY <1>6, <2>2, <2>3, <2>4 DEF Auth!MeAnswered
<1>7. ASSUME NEW c \in authCalls,
             Auth!CodeAnswered(c) \/ Auth!SignedIn(c) \/ Auth!SignInFails(c) \/ Auth!RequestEnds(c) \/ Auth!Renewed(c)
             \/ Auth!ServerChecks(c) \/ Auth!ServerIssues(c)
      PROVE  FALSE
  <2>1. c.page \in AuthPages /\ page[c.page] \in AuthPage
        BY <1>1, <1>2 DEF AuthTyped, AuthCall
  <2>2. CASE Auth!CodeAnswered(c)
        BY <1>1, <1>2, <2>1, <2>2 DEF Auth!CodeAnswered, AuthPage
  <2>3. CASE Auth!SignedIn(c)
    <3>1. page' = [page EXCEPT ![c.page] = [page[c.page] EXCEPT !.loading = FALSE, !.status = "authed", !.token = c.token]]
          BY <1>1, <2>1, <2>3 DEF Auth!SignedIn
    <3>2. [page[c.page] EXCEPT !.loading = FALSE, !.status = "authed", !.token = c.token].status = "authed"
          BY <2>1 DEF AuthPage
    <3>3. page'[p].status \in {"authed", page[p].status}
          BY <1>1, <2>1, <3>1, <3>2
    <3> QED BY <1>1, <3>3
  <2>4. CASE Auth!SignInFails(c)
        BY <1>1, <1>2, <2>1, <2>4 DEF Auth!SignInFails, AuthPage
  <2>5. CASE Auth!Renewed(c)
        BY Zenon, <1>1, <1>2, <2>1, <2>5 DEF Auth!Renewed, AuthPage
  <2>6. CASE Auth!RequestEnds(c) \/ Auth!ServerChecks(c) \/ Auth!ServerIssues(c)
        BY <1>1, <2>6 DEF Auth!RequestEnds, Auth!ServerChecks, Auth!ServerIssues
  <2> QED BY <1>7, <2>2, <2>3, <2>4, <2>5, <2>6
<1>8. ASSUME NEW c \in authCalls, Auth!Unauthorised(c) PROVE authServer'.excuse
  <2>1. c.kind = "request" /\ authServer' = authServer /\ c.page \in AuthPages
        BY <1>1, <1>8 DEF Auth!Unauthorised, AuthTyped, AuthCall
  <2>2. page[c.page].token = 0 /\ Auth!CallsOf(c.page, "refresh") = {}
        BY <1>1, <1>8 DEF Auth!Unauthorised, Auth!None
  <2>3. ~AuthSole
    <3> SUFFICES ASSUME AuthSole PROVE FALSE
        OBVIOUS
    <3>1. page[c.page].status = "authed" /\ In(c.page)
          BY <2>1 DEF AuthSole, AuthCallGood, In
    <3>2. \A a \in authCalls : a.page = c.page
          BY <1>1, <2>1, <3>1, AuthHere
    <3>3. ~Renewing
          BY <2>2, <3>2 DEF Renewing, Auth!CallsOf
    <3>4. Taken(page[c.page].token)
          BY <2>1, <3>1, <3>3 DEF AuthSole, TokensTaken
    <3> QED BY <1>1, <2>2, <3>4 DEF Taken, AuthTyped
  <2> QED BY <2>1, <2>3 DEF AuthInv
<1>9. ASSUME NEW c \in authCalls, Auth!RenewalFails(c) \/ Auth!LoggedOut(c) PROVE authServer'.excuse
      BY <1>9, AuthExcuses
<1> QED BY <1>3, <1>4, <1>5, <1>6, <1>7, <1>8, <1>9 DEF Auth!Next

(* ExpiryIsSurvived: a page alone in its browser stays signed in, through  *)
(* every expiry and however many requests it refuses, until it signs out   *)
(* or a request of its is lost (api-client refresh, auth-store).           *)
THEOREM SessionsOutliveTokens == AuthMaxEvents \in Nat => (Auth!Spec => Auth!ExpiryIsSurvived)
<1> SUFFICES ASSUME AuthMaxEvents \in Nat PROVE Auth!Spec => Auth!ExpiryIsSurvived
    OBVIOUS
<1>1. Auth!Init => AuthInv
      BY AuthStarts
<1>2. AuthInv /\ [Auth!Next]_(Auth!authVars) => AuthInv'
      BY AuthStep
<1>3. AuthInv /\ [Auth!Next]_(Auth!authVars)
        => [\A p \in AuthPages : page[p].status \in {"checking", "authed"} /\ page'[p].status = "guest"
              => authServer'.excuse]_(Auth!authVars)
      BY AuthStays DEF In
<1> QED BY <1>1, <1>2, <1>3, PTL DEF Auth!Spec, Auth!ExpiryIsSurvived

(* Who waits on a page is answered by a call of that page that is out.     *)
AuthAsks(p, kind) == \E c \in authCalls : c.page = p /\ c.kind = kind
AuthAnswers(p) ==
  /\ (\E c \in authCalls : c.page = p /\ c.kind = "request" /\ c.step = "waiting") => AuthAsks(p, "refresh")
  /\ page[p].status = "checking" =>
       (page[p].boot = 1 /\ AuthAsks(p, "me")) \/ (page[p].boot = 2 /\ (AuthAsks(p, "me") \/ AuthAsks(p, "refresh")))
  /\ page[p].loading => AuthAsks(p, "login")
  /\ page[p].leaving => AuthAsks(p, "logout")
AuthWoken == \A p \in AuthPages : AuthAnswers(p)

(* A step is of one page.                                                  *)
LEMMA AuthOfOne ==
  ASSUME AuthTyped, AuthTyped', AuthWoken, NEW p \in AuthPages, AuthAnswers(p)',
         \A q \in AuthPages : q # p => page'[q] = page[q],
         \A c : c \in authCalls \cup authCalls' /\ c.page # p => (c \in authCalls' <=> c \in authCalls)
  PROVE  AuthWoken'
<1>1. \A q \in AuthPages : q # p => AuthAnswers(q)'
  <2> SUFFICES ASSUME NEW q \in AuthPages, q # p PROVE AuthAnswers(q)'
      OBVIOUS
  <2>1. \A kind : AuthAsks(q, kind)' <=> AuthAsks(q, kind)
        BY DEF AuthAsks
  <2>2. (\E c \in authCalls' : c.page = q /\ c.kind = "request" /\ c.step = "waiting")
          => \E c \in authCalls : c.page = q /\ c.kind = "request" /\ c.step = "waiting"
        OBVIOUS
  <2> QED BY <2>1, <2>2 DEF AuthWoken, AuthAnswers
<1> QED BY <1>1 DEF AuthWoken

(* The page waits for no more than it did, and what it waits for is kept.  *)
LEMMA AuthWaitsOn ==
  ASSUME AuthTyped, AuthTyped', AuthWoken, NEW p \in AuthPages,
         \A q \in AuthPages : q # p => page'[q] = page[q],
         page'[p].status = "checking" => page[p].status = "checking" /\ page'[p].boot = page[p].boot,
         page'[p].loading => page[p].loading \/ AuthAsks(p, "login")',
         page'[p].leaving => page[p].leaving \/ AuthAsks(p, "logout")',
         \A c : c \in authCalls \cup authCalls' /\ c.page # p => (c \in authCalls' <=> c \in authCalls),
         \A c \in authCalls' : c.page = p /\ c.kind = "request" /\ c.step = "waiting" => c \in authCalls,
         AuthAsks(p, "refresh") => AuthAsks(p, "refresh")',
         AuthAsks(p, "me") /\ page'[p].status = "checking" => AuthAsks(p, "me")',
         AuthAsks(p, "login") /\ page'[p].loading => AuthAsks(p, "login")',
         AuthAsks(p, "logout") /\ page'[p].leaving => AuthAsks(p, "logout")'
  PROVE  AuthWoken'
<1>1. AuthAnswers(p)
      BY DEF AuthWoken
<1>2. (\E c \in authCalls' : c.page = p /\ c.kind = "request" /\ c.step = "waiting") => AuthAsks(p, "refresh")'
      BY <1>1 DEF AuthAnswers
<1>3. AuthAnswers(p)'
      BY <1>1, <1>2 DEF AuthAnswers
<1> QED BY <1>3, AuthOfOne

LEMMA AuthWokenStarts == Auth!Init => AuthWoken
<1> SUFFICES ASSUME Auth!Init PROVE AuthWoken
    OBVIOUS
<1>1. authCalls = {} /\ \A p \in AuthPages : page[p].status = "closed" /\ page[p].loading = FALSE /\ page[p].leaving = FALSE
      BY DEF Auth!Init, Auth!Closed
<1> QED BY <1>1 DEF AuthWoken, AuthAnswers, AuthAsks

(* A step that asks, and changes nothing else of what a page waits for.    *)
LEMMA AuthAsksMore ==
  ASSUME AuthTyped, AuthTyped', AuthWoken, NEW p \in AuthPages, NEW g, page' = [page EXCEPT ![p] = g],
         g.status = "checking" => page[p].status = "checking" /\ g.boot = page[p].boot,
         NEW more, \A c \in more : c.page = p /\ c.step = "out", authCalls' = authCalls \cup more,
         g.loading => page[p].loading \/ \E c \in more : c.kind = "login",
         g.leaving => page[p].leaving \/ \E c \in more : c.kind = "logout"
  PROVE  AuthWoken'
<1>1. page'[p] = g /\ \A q \in AuthPages : q # p => page'[q] = page[q]
      BY DEF AuthTyped
<1>2. \A kind : AuthAsks(p, kind) => AuthAsks(p, kind)'
      BY DEF AuthAsks
<1>3. /\ g.loading => page[p].loading \/ AuthAsks(p, "login")'
      /\ g.leaving => page[p].leaving \/ AuthAsks(p, "logout")'
      BY DEF AuthAsks
<1>4. \A c : c \in authCalls \cup authCalls' /\ c.page # p => (c \in authCalls' <=> c \in authCalls)
      OBVIOUS
<1>5. \A c \in authCalls' : c.page = p /\ c.kind = "request" /\ c.step = "waiting" => c \in authCalls
      OBVIOUS
<1> QED BY <1>1, <1>2, <1>3, <1>4, <1>5, AuthWaitsOn

LEMMA AuthWokenByPage ==
  ASSUME AuthTyped, AuthTyped', AuthWoken, NEW p \in AuthPages,
         \/ Auth!Boot(p) \/ Auth!SwitchTab(p) \/ Auth!HandleSendCode(p) \/ Auth!CountdownEnds(p)
         \/ Auth!HandleSubmit(p) \/ Auth!Send(p) \/ Auth!HandleLogout(p)
  PROVE  AuthWoken'
<1>1. page \in [AuthPages -> AuthPage] /\ page[p] \in AuthPage /\ page[p].token \in Nat /\ pageKept \in Nat /\ 0 \in Nat
      BY DEF AuthTyped, AuthPage
<1>2. {"me", "code", "login", "request", "logout"} \in SUBSET AuthKinds
      BY DEF AuthKinds
<1>3. CASE Auth!Boot(p) /\ pageKept # 0
  <2>1. PICK g, c : g = [page[p] EXCEPT !.status = "checking", !.token = pageKept, !.boot = 1]
                      /\ c = Auth!Call(p, "me", pageKept)
        OBVIOUS
  <2>2. page' = [page EXCEPT ![p] = g] /\ authCalls' = authCalls \cup {c} /\ page[p].status = "closed"
        BY <1>1, <1>3, <2>1 DEF Auth!Boot, Auth!None
  <2>3. g.boot = 1 /\ g.loading = page[p].loading /\ g.leaving = page[p].leaving
        BY <1>1, <2>1 DEF AuthPage
  <2>4. c.kind = "me" /\ c.page = p /\ c.step = "out"
        BY <1>1, <1>2, <2>1, AuthAsked
  <2>5. page'[p] = g /\ \A q \in AuthPages : q # p => page'[q] = page[q]
        BY <1>1, <2>2
  <2>6. AuthAsks(p, "me")' /\ \A kind : AuthAsks(p, kind) => AuthAsks(p, kind)'
        BY <2>2, <2>4 DEF AuthAsks
  <2>7. (\E a \in authCalls' : a.page = p /\ a.kind = "request" /\ a.step = "waiting") => AuthAsks(p, "refresh")'
        BY <2>2, <2>4, <2>6 DEF AuthWoken, AuthAnswers
  <2>8. AuthAnswers(p)'
        BY <2>3, <2>5, <2>6, <2>7 DEF AuthWoken, AuthAnswers
  <2>9. \A a : a \in authCalls \cup authCalls' /\ a.page # p => (a \in authCalls' <=> a \in authCalls)
        BY <2>2, <2>4
  <2> QED BY <2>5, <2>8, <2>9, AuthOfOne
<1>4. CASE Auth!Boot(p) /\ pageKept = 0
  <2>1. PICK g, more : more = {} /\ g = [page[p] EXCEPT !.status = "guest"]
        OBVIOUS
  <2>2. page' = [page EXCEPT ![p] = g] /\ authCalls' = authCalls \cup more
        BY <1>1, <1>4, <2>1 DEF Auth!Boot, Auth!None
  <2>3. g.status = "guest" /\ g.loading = page[p].loading /\ g.leaving = page[p].leaving
        BY <1>1, <2>1 DEF AuthPage
  <2>4. \A a \in more : FALSE
        BY <2>1
  <2>5. /\ g.loading => page[p].loading \/ \E a \in more : a.kind = "login"
        /\ g.leaving => page[p].leaving \/ \E a \in more : a.kind = "logout"
        BY <2>3
  <2> QED BY <2>2, <2>3, <2>4, <2>5, AuthAsksMore
<1>5. CASE Auth!SwitchTab(p) \/ Auth!CountdownEnds(p)
  <2>1. PICK g, more : more = {} /\
              (  \/ g = [page[p] EXCEPT !.tab = IF @ = "login" THEN "register" ELSE "login"] /\ Auth!SwitchTab(p)
                 \/ g = [page[p] EXCEPT !.countdown = FALSE] /\ Auth!CountdownEnds(p))
        BY <1>5
  <2>2. page' = [page EXCEPT ![p] = g] /\ authCalls' = authCalls \cup more
        BY <1>1, <2>1 DEF Auth!SwitchTab, Auth!CountdownEnds
  <2>3. g.status = page[p].status /\ g.boot = page[p].boot /\ g.loading = page[p].loading /\ g.leaving = page[p].leaving
        BY <1>1, <2>1 DEF AuthPage
  <2>4. \A a \in more : FALSE
        BY <2>1
  <2>5. /\ g.loading => page[p].loading \/ \E a \in more : a.kind = "login"
        /\ g.leaving => page[p].leaving \/ \E a \in more : a.kind = "logout"
        BY <2>3
  <2> QED BY <2>2, <2>3, <2>4, <2>5, AuthAsksMore
<1>6. CASE Auth!HandleSendCode(p)
  <2>1. PICK g, c, more : more = {c} /\ g = [page[p] EXCEPT !.sending = TRUE] /\ c = Auth!Call(p, "code", 0)
        OBVIOUS
  <2>2. page' = [page EXCEPT ![p] = g] /\ authCalls' = authCalls \cup more
        BY <1>1, <1>6, <2>1 DEF Auth!HandleSendCode, Auth!None
  <2>3. g.status = page[p].status /\ g.boot = page[p].boot /\ g.loading = page[p].loading /\ g.leaving = page[p].leaving
        BY <1>1, <2>1 DEF AuthPage
  <2>4. \A a \in more : a = c /\ a.page = p /\ a.step = "out"
        BY <1>1, <1>2, <2>1, AuthAsked
  <2>5. /\ g.loading => page[p].loading \/ \E a \in more : a.kind = "login"
        /\ g.leaving => page[p].leaving \/ \E a \in more : a.kind = "logout"
        BY <2>3, <2>4
  <2> QED BY <2>2, <2>3, <2>4, <2>5, AuthAsksMore
<1>7. CASE Auth!HandleSubmit(p)
  <2>1. PICK g, c, more : more = {c} /\ g = [page[p] EXCEPT !.loading = TRUE] /\ c = Auth!Call(p, "login", 0)
        OBVIOUS
  <2>2. page' = [page EXCEPT ![p] = g] /\ authCalls' = authCalls \cup more
        BY <1>1, <1>7, <2>1 DEF Auth!HandleSubmit, Auth!None
  <2>3. g.status = page[p].status /\ g.boot = page[p].boot /\ g.leaving = page[p].leaving
        BY <1>1, <2>1 DEF AuthPage
  <2>4. (\A a \in more : a = c /\ a.page = p /\ a.step = "out") /\ c \in more /\ c.kind = "login"
        BY <1>1, <1>2, <2>1, AuthAsked
  <2>5. /\ g.loading => page[p].loading \/ \E a \in more : a.kind = "login"
        /\ g.leaving => page[p].leaving \/ \E a \in more : a.kind = "logout"
        BY <2>3, <2>4
  <2> QED BY <2>2, <2>3, <2>4, <2>5, AuthAsksMore
<1>8. CASE Auth!Send(p)
  <2>1. PICK c, more : more = {c} /\ c = Auth!Call(p, "request", page[p].token)
        OBVIOUS
  <2>2. page' = [page EXCEPT ![p] = page[p]] /\ authCalls' = authCalls \cup more
        BY <1>1, <1>8, <2>1 DEF Auth!Send
  <2>3. \A a \in more : a = c /\ a.page = p /\ a.step = "out"
        BY <1>1, <1>2, <2>1, AuthAsked
  <2> QED BY <2>2, <2>3, AuthAsksMore
<1>9. CASE Auth!HandleLogout(p)
  <2>1. PICK g, c, more : more = {c} /\ g = [page[p] EXCEPT !.leaving = TRUE] /\ c = Auth!Call(p, "logout", page[p].token)
        OBVIOUS
  <2>2. page' = [page EXCEPT ![p] = g] /\ authCalls' = authCalls \cup more
        BY <1>1, <1>9, <2>1 DEF Auth!HandleLogout
  <2>3. g.status = page[p].status /\ g.boot = page[p].boot /\ g.loading = page[p].loading
        BY <1>1, <2>1 DEF AuthPage
  <2>4. (\A a \in more : a = c /\ a.page = p /\ a.step = "out") /\ c \in more /\ c.kind = "logout"
        BY <1>1, <1>2, <2>1, AuthAsked
  <2>5. /\ g.loading => page[p].loading \/ \E a \in more : a.kind = "login"
        /\ g.leaving => page[p].leaving \/ \E a \in more : a.kind = "logout"
        BY <2>3, <2>4
  <2> QED BY ZenonT(60), <2>2, <2>3, <2>4, <2>5, AuthAsksMore
<1> QED BY <1>3, <1>4, <1>5, <1>6, <1>7, <1>8, <1>9

(* A call is answered, and its page takes the answer.  Of the calls that   *)
(* others wait for, the one answered alone may be gone.                    *)
LEMMA AuthTakes ==
  ASSUME AuthTyped, AuthTyped', AuthWoken, NEW c \in authCalls, NEW p \in AuthPages, p = c.page,
         NEW g, page' = [page EXCEPT ![p] = g],
         NEW more, \A a \in more : a.page = p /\ a.step # "waiting", authCalls' = (authCalls \ {c}) \cup more,
         g.status = "checking" => page[p].status = "checking" /\ g.boot = page[p].boot,
         g.loading => page[p].loading /\ (c.kind = "login" => \E a \in more : a.kind = "login"),
         g.leaving => page[p].leaving /\ (c.kind = "logout" => \E a \in more : a.kind = "logout"),
         c.kind = "me" => g.status # "checking" \/ \E a \in more : a.kind = "me",
         c.kind = "refresh" => \E a \in more : a.kind = "refresh"
  PROVE  AuthWoken'
<1>1. page'[p] = g /\ \A q \in AuthPages : q # p => page'[q] = page[q]
      BY DEF AuthTyped
<1>2. \A kind : AuthAsks(p, kind) /\ (c.kind = kind => \E a \in more : a.kind = kind) => AuthAsks(p, kind)'
      BY DEF AuthAsks
<1>3. \A a : a \in authCalls \cup authCalls' /\ a.page # p => (a \in authCalls' <=> a \in authCalls)
      OBVIOUS
<1>4. \A a \in authCalls' : a.page = p /\ a.kind = "request" /\ a.step = "waiting" => a \in authCalls
      OBVIOUS
<1> QED BY <1>1, <1>2, <1>3, <1>4, AuthWaitsOn

LEMMA AuthWokenByAnswer ==
  ASSUME AuthTyped, AuthTyped', AuthWoken, NEW c \in authCalls,
         \/ Auth!MeAnswered(c) \/ Auth!CodeAnswered(c) \/ Auth!SignedIn(c) \/ Auth!SignInFails(c) \/ Auth!LoggedOut(c)
  PROVE  AuthWoken'
<1>1. page \in [AuthPages -> AuthPage] /\ c \in AuthCall
      BY DEF AuthTyped
<1>2. PICK p \in AuthPages : p = c.page
      BY <1>1 DEF AuthCall
<1>3. page[p] \in AuthPage
      BY <1>1
<1>4. PICK none : none = {}
      OBVIOUS
<1>5. \A a \in none : FALSE
      BY <1>4
<1>6. CASE /\ c.kind = "me" /\ page' = [page EXCEPT ![p].status = "authed", ![p].boot = 0] /\ authCalls' = authCalls \ {c}
  <2>1. PICK g : g = [page[p] EXCEPT !.status = "authed", !.boot = 0]
        OBVIOUS
  <2>2. page' = [page EXCEPT ![p] = g] /\ authCalls' = (authCalls \ {c}) \cup none
        BY <1>1, <1>4, <1>6, <2>1
  <2>3. g.status = "authed" /\ g.loading = page[p].loading /\ g.leaving = page[p].leaving
        BY <1>3, <2>1 DEF AuthPage
  <2>4. (g.loading => page[p].loading) /\ (g.leaving => page[p].leaving)
        BY <2>3
  <2> QED BY <1>2, <1>5, <1>6, <2>2, <2>3, <2>4, AuthTakes
<1>7. CASE /\ c.kind = "me" /\ page[p].boot = 1 /\ authCalls' = (authCalls \ {c}) \cup Auth!RefreshCalls(p)
           /\ page' = [page EXCEPT ![p].boot = 2]
  <2>1. PICK g : g = [page[p] EXCEPT !.boot = 2]
        OBVIOUS
  <2>2. page' = [page EXCEPT ![p] = g]
        BY <1>1, <1>7, <2>1
  <2>3. g.boot = 2 /\ g.status = page[p].status /\ g.loading = page[p].loading /\ g.leaving = page[p].leaving
        BY <1>3, <2>1 DEF AuthPage
  <2>4. page'[p] = g /\ \A q \in AuthPages : q # p => page'[q] = page[q]
        BY <1>1, <2>2
  <2>5. \A a \in Auth!RefreshCalls(p) : a.page = p /\ a.kind = "refresh" /\ a.step = "out"
        BY AuthRenewals
  <2>6. AuthAsks(p, "refresh")'
    <3>1. CASE Auth!RefreshCalls(p) = {}
      <4>1. PICK a \in authCalls : a.kind = "refresh" /\ a.page = p
            BY <3>1, AuthRenewals
      <4> QED BY <1>7, <4>1 DEF AuthAsks
    <3>2. CASE Auth!RefreshCalls(p) # {}
          BY <1>7, <2>5, <3>2 DEF AuthAsks
    <3> QED BY <3>1, <3>2
  <2>7. \A kind : kind # "me" /\ AuthAsks(p, kind) => AuthAsks(p, kind)'
        BY <1>7 DEF AuthAsks
  <2>8. (g.loading => AuthAsks(p, "login")') /\ (g.leaving => AuthAsks(p, "logout")')
        BY <2>3, <2>7 DEF AuthWoken, AuthAnswers
  <2>9. AuthAnswers(p)'
        BY <2>3, <2>4, <2>6, <2>8 DEF AuthAnswers
  <2>10. \A a : a \in authCalls \cup authCalls' /\ a.page # p => (a \in authCalls' <=> a \in authCalls)
         BY <1>2, <1>7, <2>5
  <2> QED BY <2>4, <2>9, <2>10, AuthOfOne
<1>8. CASE c.kind = "me" /\ Auth!Guest(p) /\ authCalls' = authCalls \ {c}
  <2>1. PICK g : g = [page[p] EXCEPT !.status = "guest", !.token = 0, !.boot = 0]
        OBVIOUS
  <2>2. page' = [page EXCEPT ![p] = g] /\ authCalls' = (authCalls \ {c}) \cup none
        BY <1>1, <1>4, <1>8, <2>1 DEF Auth!Guest, Auth!None
  <2>3. g.status = "guest" /\ g.loading = page[p].loading /\ g.leaving = page[p].leaving
        BY <1>3, <2>1 DEF AuthPage
  <2>4. (g.loading => page[p].loading) /\ (g.leaving => page[p].leaving)
        BY <2>3
  <2> QED BY <1>2, <1>5, <1>8, <2>2, <2>3, <2>4, AuthTakes
<1>9. CASE Auth!CodeAnswered(c)
  <2>1. PICK went \in BOOLEAN : page' = [page EXCEPT ![p].sending = FALSE, ![p].countdown = went]
        BY <1>2, <1>9 DEF Auth!CodeAnswered
  <2>2. PICK g : g = [page[p] EXCEPT !.sending = FALSE, !.countdown = went]
        OBVIOUS
  <2>3. page' = [page EXCEPT ![p] = g]
        BY <1>1, <2>1, <2>2
  <2>4. authCalls' = (authCalls \ {c}) \cup none /\ c.kind = "code"
        BY <1>4, <1>9 DEF Auth!CodeAnswered
  <2>5. g.status = page[p].status /\ g.boot = page[p].boot /\ g.loading = page[p].loading /\ g.leaving = page[p].leaving
        BY <1>3, <2>2 DEF AuthPage
  <2>6. (g.loading => page[p].loading) /\ (g.leaving => page[p].leaving)
        BY <2>5
  <2> QED BY <1>2, <1>5, <2>3, <2>4, <2>5, <2>6, AuthTakes
<1>10. CASE Auth!SignedIn(c)
  <2>1. PICK g : g = [page[p] EXCEPT !.loading = FALSE, !.status = "authed", !.token = c.token]
        OBVIOUS
  <2>2. page' = [page EXCEPT ![p] = g] /\ authCalls' = (authCalls \ {c}) \cup none /\ c.kind = "login"
        BY <1>1, <1>2, <1>4, <1>10, <2>1 DEF Auth!SignedIn
  <2>3. g.status = "authed" /\ g.loading = FALSE /\ g.leaving = page[p].leaving
        BY <1>3, <2>1 DEF AuthPage
  <2>4. ~g.loading /\ (g.leaving => page[p].leaving)
        BY <2>3
  <2> QED BY <1>2, <1>5, <2>2, <2>3, <2>4, AuthTakes
<1>11. CASE Auth!SignInFails(c)
  <2>1. PICK g : g = [page[p] EXCEPT !.loading = FALSE]
        OBVIOUS
  <2>2. page' = [page EXCEPT ![p] = g] /\ authCalls' = (authCalls \ {c}) \cup none /\ c.kind = "login"
        BY <1>1, <1>2, <1>4, <1>11, <2>1 DEF Auth!SignInFails
  <2>3. g.status = page[p].status /\ g.boot = page[p].boot /\ g.loading = FALSE /\ g.leaving = page[p].leaving
        BY <1>3, <2>1 DEF AuthPage
  <2>4. ~g.loading /\ (g.leaving => page[p].leaving)
        BY <2>3
  <2> QED BY <1>2, <1>5, <2>2, <2>3, <2>4, AuthTakes
<1>12. CASE Auth!LoggedOut(c)
  <2>1. PICK g : g = [page[p] EXCEPT !.leaving = FALSE, !.status = "guest", !.token = 0]
        OBVIOUS
  <2>2. page' = [page EXCEPT ![p] = g] /\ authCalls' = (authCalls \ {c}) \cup none /\ c.kind = "logout"
        BY <1>1, <1>2, <1>4, <1>12, <2>1 DEF Auth!LoggedOut, Auth!None
  <2>3. g.status = "guest" /\ g.loading = page[p].loading /\ g.leaving = FALSE
        BY <1>3, <2>1 DEF AuthPage
  <2>4. ~g.leaving /\ (g.loading => page[p].loading)
        BY <2>3
  <2> QED BY <1>2, <1>5, <2>2, <2>3, <2>4, AuthTakes
<1>13. Auth!MeAnswered(c) =>
         \/ c.kind = "me" /\ page' = [page EXCEPT ![p].status = "authed", ![p].boot = 0] /\ authCalls' = authCalls \ {c}
         \/ /\ c.kind = "me" /\ page[p].boot = 1 /\ authCalls' = (authCalls \ {c}) \cup Auth!RefreshCalls(p)
            /\ page' = [page EXCEPT ![p].boot = 2]
         \/ c.kind = "me" /\ Auth!Guest(p) /\ authCalls' = authCalls \ {c}
       BY <1>2 DEF Auth!MeAnswered
<1> QED BY <1>6, <1>7, <1>8, <1>9, <1>10, <1>11, <1>12, <1>13

(* Requests and renewals.                                                  *)
LEMMA AuthWokenByRequest ==
  ASSUME AuthTyped, AuthTyped', AuthWoken, NEW c \in authCalls,
         \/ Auth!RequestEnds(c) \/ Auth!Unauthorised(c) \/ Auth!ServerChecks(c) \/ Auth!ServerIssues(c)
  PROVE  AuthWoken'
<1>1. page \in [AuthPages -> AuthPage] /\ c \in AuthCall
      BY DEF AuthTyped
<1>2. PICK p \in AuthPages : p = c.page
      BY <1>1 DEF AuthCall
<1>3. page[p] \in AuthPage /\ page = [page EXCEPT ![p] = page[p]]
      BY <1>1
<1>4. CASE Auth!RequestEnds(c)
  <2>1. PICK none : none = {}
        OBVIOUS
  <2>2. (\A a \in none : FALSE) /\ authCalls' = (authCalls \ {c}) \cup none
        BY <1>4, <2>1 DEF Auth!RequestEnds
  <2>3. page' = [page EXCEPT ![p] = page[p]] /\ c.kind = "request"
        BY <1>3, <1>4 DEF Auth!RequestEnds, Auth!Settled
  <2> QED BY <1>2, <2>2, <2>3, AuthTakes
<1>5. CASE Auth!ServerChecks(c)
  <2>1. PICK step, more : step = (IF c.token \in authServer.access THEN "ok" ELSE "refused") /\ more = {[c EXCEPT !.step = step]}
        OBVIOUS
  <2>2. authCalls' = (authCalls \ {c}) \cup more /\ page' = [page EXCEPT ![p] = page[p]] /\ c.kind # "refresh"
        BY <1>3, <1>5, <2>1 DEF Auth!ServerChecks, Auth!Step
  <2>3. \A a \in more : a.page = p /\ a.step # "waiting" /\ a.kind = c.kind
        BY <1>1, <1>2, <2>1 DEF AuthCall
  <2>4. \E a \in more : TRUE
        BY <2>1
  <2>5. \E a \in more : a.kind = c.kind
        BY <2>3, <2>4
  <2>6. \A kind : c.kind = kind => \E a \in more : a.kind = kind
        BY <2>5
  <2>7. /\ page[p].loading => page[p].loading /\ (c.kind = "login" => \E a \in more : a.kind = "login")
        /\ page[p].leaving => page[p].leaving /\ (c.kind = "logout" => \E a \in more : a.kind = "logout")
        /\ c.kind = "me" => page[p].status # "checking" \/ \E a \in more : a.kind = "me"
        /\ c.kind = "refresh" => \E a \in more : a.kind = "refresh"
        BY <2>6
  <2> QED BY ZenonT(60), <1>2, <2>2, <2>3, <2>7, AuthTakes
<1>6. CASE Auth!ServerIssues(c)
  <2>1. PICK d : \/ d = [c EXCEPT !.step = "ok", !.token = authServer.issued + 1] /\ authCalls' = (authCalls \ {c}) \cup {d}
                 \/ d = [c EXCEPT !.step = "refused"] /\ authCalls' = (authCalls \ {c}) \cup {d}
        BY <1>6 DEF Auth!ServerIssues, Auth!Step
  <2>2. PICK more : more = {d}
        OBVIOUS
  <2>3. authCalls' = (authCalls \ {c}) \cup more /\ page' = [page EXCEPT ![p] = page[p]]
        BY <1>3, <1>6, <2>1, <2>2 DEF Auth!ServerIssues
  <2>4. d.page = p /\ d.step # "waiting" /\ d.kind = c.kind
        BY <1>1, <1>2, <2>1 DEF AuthCall
  <2>5. (\A a \in more : a.page = p /\ a.step # "waiting") /\ \E a \in more : a.kind = c.kind
        BY <2>2, <2>4
  <2>6. \A kind : c.kind = kind => \E a \in more : a.kind = kind
        BY <2>5
  <2>7. /\ page[p].loading => page[p].loading /\ (c.kind = "login" => \E a \in more : a.kind = "login")
        /\ page[p].leaving => page[p].leaving /\ (c.kind = "logout" => \E a \in more : a.kind = "logout")
        /\ c.kind = "me" => page[p].status # "checking" \/ \E a \in more : a.kind = "me"
        /\ c.kind = "refresh" => \E a \in more : a.kind = "refresh"
        BY <2>6
  <2> QED BY ZenonT(60), <1>2, <2>3, <2>5, <2>7, AuthTakes
<1>7. CASE Auth!Unauthorised(c) /\ Auth!Guest(p) /\ authCalls' = authCalls \ {c}
  <2>1. PICK g, none : g = [page[p] EXCEPT !.status = "guest", !.token = 0, !.boot = 0] /\ none = {}
        OBVIOUS
  <2>2. page' = [page EXCEPT ![p] = g] /\ authCalls' = (authCalls \ {c}) \cup none /\ c.kind = "request"
          /\ \A a \in none : FALSE
        BY <1>1, <1>7, <2>1 DEF Auth!Guest, Auth!None, Auth!Unauthorised
  <2>3. g.status = "guest" /\ g.loading = page[p].loading /\ g.leaving = page[p].leaving
        BY <1>3, <2>1 DEF AuthPage
  <2>4. (g.loading => page[p].loading) /\ (g.leaving => page[p].leaving)
        BY <2>3
  <2> QED BY <1>2, <2>2, <2>3, <2>4, AuthTakes
<1>8. CASE /\ c.kind = "request" /\ page' = page
           /\ authCalls' = Auth!Step(c, "waiting") \cup Auth!RefreshCalls(p)
  <2>1. PICK d : d = [c EXCEPT !.step = "waiting"]
        OBVIOUS
  <2>2. authCalls' = (authCalls \ {c}) \cup {d} \cup Auth!RefreshCalls(p)
        BY <1>8, <2>1 DEF Auth!Step
  <2>3. d.page = p /\ d.kind = "request"
        BY <1>1, <1>2, <1>8, <2>1 DEF AuthCall
  <2>4. \A a \in Auth!RefreshCalls(p) : a.page = p /\ a.kind = "refresh"
        BY AuthRenewals
  <2>5. AuthAsks(p, "refresh")'
    <3>1. CASE Auth!RefreshCalls(p) = {}
      <4>1. PICK a \in authCalls : a.kind = "refresh" /\ a.page = p
            BY <3>1, AuthRenewals
      <4> QED BY <1>8, <2>2, <4>1 DEF AuthAsks
    <3>2. CASE Auth!RefreshCalls(p) # {}
          BY <2>2, <2>4, <3>2 DEF AuthAsks
    <3> QED BY <3>1, <3>2
  <2>6. \A kind : kind # "request" /\ AuthAsks(p, kind) => AuthAsks(p, kind)'
        BY <1>8, <2>2 DEF AuthAsks
  <2>7. (page[p].loading => AuthAsks(p, "login")') /\ (page[p].leaving => AuthAsks(p, "logout")')
        BY <2>6 DEF AuthWoken, AuthAnswers
  <2>8. page[p].status = "checking" =>
          (page[p].boot = 1 /\ AuthAsks(p, "me")') \/ (page[p].boot = 2 /\ AuthAsks(p, "refresh")')
        BY <2>5, <2>6 DEF AuthWoken, AuthAnswers
  <2>9. AuthAnswers(p)'
        BY <1>8, <2>5, <2>7, <2>8 DEF AuthAnswers
  <2>10. \A a : a \in authCalls \cup authCalls' /\ a.page # p => (a \in authCalls' <=> a \in authCalls)
         BY <1>2, <2>2, <2>3, <2>4
  <2> QED BY <1>8, <2>9, <2>10, AuthOfOne
<1>9. Auth!Unauthorised(c) =>
        \/ Auth!Guest(p) /\ authCalls' = authCalls \ {c}
        \/ c.kind = "request" /\ page' = page /\ authCalls' = Auth!Step(c, "waiting") \cup Auth!RefreshCalls(p)
      BY <1>2 DEF Auth!Unauthorised
<1> QED BY <1>4, <1>5, <1>6, <1>7, <1>8, <1>9

(* The renewal is over: all who waited for it go on, or are gone.          *)
LEMMA AuthWokenByRenewal ==
  ASSUME AuthTyped, AuthTyped', AuthWoken, NEW c \in authCalls, Auth!Renewed(c) \/ Auth!RenewalFails(c)
  PROVE  AuthWoken'
<1>1. page \in [AuthPages -> AuthPage] /\ c \in AuthCall /\ c.token \in Nat
      BY DEF AuthTyped, AuthCall
<1>2. PICK p \in AuthPages : p = c.page
      BY <1>1 DEF AuthCall
<1>3. page[p] \in AuthPage
      BY <1>1
<1>4. \A a : a \in Auth!Waiting(p) <=> a \in authCalls /\ a.page = p /\ a.kind = "request" /\ a.step = "waiting"
      BY DEF Auth!Waiting, Auth!CallsOf
<1>5. \A kind : kind \notin {"refresh", "request"} /\ AuthAsks(p, kind)
                => \E a \in authCalls \ ({c} \cup Auth!Waiting(p)) : a.page = p /\ a.kind = kind
  <2>1. c.kind = "refresh"
        BY Zenon DEF Auth!Renewed, Auth!RenewalFails
  <2> QED BY <1>4, <2>1 DEF AuthAsks
<1>6. CASE Auth!Renewed(c)
  <2>0. PICK m : m = Auth!Call(p, "me", c.token)
        OBVIOUS
  <2>1. PICK again, more :
          /\ again = {[w EXCEPT !.step = "out", !.again = TRUE, !.token = c.token] : w \in Auth!Waiting(p)}
          /\ more = IF page[p].boot = 2 THEN {m} ELSE {}
        BY Zenon
  <2>2. authCalls' = (authCalls \ ({c} \cup Auth!Waiting(p))) \cup again \cup more
        BY Zenon, <1>2, <1>6, <2>0, <2>1 DEF Auth!Renewed
  <2>3. m.kind = "me" /\ m.page = p /\ m.step = "out"
        BY <1>1, <2>0, AuthAsked DEF AuthKinds
  <2>4. \A a \in again : a.page = p /\ a.step = "out"
    <3> SUFFICES ASSUME NEW w \in Auth!Waiting(p), NEW a, a = [w EXCEPT !.step = "out", !.again = TRUE, !.token = c.token]
                 PROVE  a.page = p /\ a.step = "out"
        BY Zenon, <2>1
    <3>1. w \in AuthCall /\ w.page = p
          BY <1>4 DEF AuthTyped
    <3> QED BY <3>1 DEF AuthCall
  <2>5. PICK g : g = [page[p] EXCEPT !.token = c.token]
        OBVIOUS
  <2>6. page' = [page EXCEPT ![p] = g]
        BY Zenon, <1>1, <1>2, <1>6, <2>5 DEF Auth!Renewed
  <2>7. g.status = page[p].status /\ g.boot = page[p].boot /\ g.loading = page[p].loading /\ g.leaving = page[p].leaving
        BY <1>3, <2>5 DEF AuthPage
  <2>8. page'[p] = g /\ \A q \in AuthPages : q # p => page'[q] = page[q]
        BY <1>1, <2>6
  <2>9. \A kind : kind \notin {"refresh", "request"} /\ AuthAsks(p, kind) => AuthAsks(p, kind)'
        BY <1>5, <2>2 DEF AuthAsks
  <2>10. (g.loading => AuthAsks(p, "login")') /\ (g.leaving => AuthAsks(p, "logout")')
         BY <2>7, <2>9 DEF AuthWoken, AuthAnswers
  <2>11. page[p].boot = 2 => AuthAsks(p, "me")'
         BY Zenon, <2>1, <2>2, <2>3 DEF AuthAsks
  <2>12. g.status = "checking" => (g.boot = 1 /\ AuthAsks(p, "me")') \/ (g.boot = 2 /\ AuthAsks(p, "me")')
         BY <2>7, <2>9, <2>11 DEF AuthWoken, AuthAnswers
  <2>13. ~\E a \in authCalls' : a.page = p /\ a.kind = "request" /\ a.step = "waiting"
         BY Zenon, <1>4, <2>1, <2>2, <2>3, <2>4
  <2>14. AuthAnswers(p)'
         BY <2>8, <2>10, <2>12, <2>13 DEF AuthAnswers
  <2>15. \A a : a \in authCalls \cup authCalls' /\ a.page # p => (a \in authCalls' <=> a \in authCalls)
         BY Zenon, <1>2, <1>4, <2>1, <2>2, <2>3, <2>4
  <2> QED BY <2>8, <2>14, <2>15, AuthOfOne
<1>7. CASE Auth!RenewalFails(c)
  <2>1. authCalls' = authCalls \ ({c} \cup Auth!Waiting(p))
        BY <1>2, <1>7 DEF Auth!RenewalFails
  <2>2. PICK g : g = [page[p] EXCEPT !.status = "guest", !.token = 0, !.boot = 0]
        OBVIOUS
  <2>3. page' = [page EXCEPT ![p] = g]
        BY <1>1, <1>2, <1>7, <2>2 DEF Auth!RenewalFails, Auth!Guest, Auth!None
  <2>4. g.status = "guest" /\ g.loading = page[p].loading /\ g.leaving = page[p].leaving
        BY <1>3, <2>2 DEF AuthPage
  <2>5. page'[p] = g /\ \A q \in AuthPages : q # p => page'[q] = page[q]
        BY <1>1, <2>3
  <2>6. \A kind : kind \notin {"refresh", "request"} /\ AuthAsks(p, kind) => AuthAsks(p, kind)'
        BY <1>5, <2>1 DEF AuthAsks
  <2>7. (g.loading => AuthAsks(p, "login")') /\ (g.leaving => AuthAsks(p, "logout")')
        BY <2>4, <2>6 DEF AuthWoken, AuthAnswers
  <2>8. ~\E a \in authCalls' : a.page = p /\ a.kind = "request" /\ a.step = "waiting"
        BY <1>4, <2>1
  <2>9. AuthAnswers(p)'
        BY <2>4, <2>5, <2>7, <2>8 DEF AuthAnswers
  <2>10. \A a : a \in authCalls \cup authCalls' /\ a.page # p => (a \in authCalls' <=> a \in authCalls)
         BY <1>2, <1>4, <2>1
  <2> QED BY <2>5, <2>9, <2>10, AuthOfOne
<1> QED BY <1>6, <1>7

LEMMA AuthWokenStep == AuthInv /\ AuthInv' /\ AuthWoken /\ [Auth!Next]_(Auth!authVars) => AuthWoken'
<1> SUFFICES ASSUME AuthTyped, AuthTyped', AuthWoken, [Auth!Next]_(Auth!authVars) PROVE AuthWoken'
    BY DEF AuthInv
<1>1. CASE UNCHANGED Auth!authVars
      BY <1>1 DEF Auth!authVars, AuthWoken, AuthAnswers, AuthAsks
<1>2. ASSUME NEW n, Auth!Expire(n) PROVE AuthWoken'
      BY <1>2 DEF Auth!Expire, AuthWoken, AuthAnswers, AuthAsks
<1>3. ASSUME NEW p \in AuthPages,
             \/ Auth!Boot(p) \/ Auth!SwitchTab(p) \/ Auth!HandleSendCode(p) \/ Auth!CountdownEnds(p)
             \/ Auth!HandleSubmit(p) \/ Auth!Send(p) \/ Auth!HandleLogout(p)
      PROVE  AuthWoken'
      BY <1>3, AuthWokenByPage
<1>4. ASSUME NEW c \in authCalls,
             \/ Auth!MeAnswered(c) \/ Auth!CodeAnswered(c) \/ Auth!SignedIn(c) \/ Auth!SignInFails(c) \/ Auth!LoggedOut(c)
      PROVE  AuthWoken'
      BY <1>4, AuthWokenByAnswer
<1>5. ASSUME NEW c \in authCalls,
             \/ Auth!RequestEnds(c) \/ Auth!Unauthorised(c) \/ Auth!ServerChecks(c) \/ Auth!ServerIssues(c)
      PROVE  AuthWoken'
      BY <1>5, AuthWokenByRequest
<1>6. ASSUME NEW c \in authCalls, Auth!Renewed(c) \/ Auth!RenewalFails(c) PROVE AuthWoken'
      BY <1>6, AuthWokenByRenewal
<1> QED BY <1>1, <1>2, <1>3, <1>4, <1>5, <1>6 DEF Auth!Next

(* WaitingIsWoken: a request refused waits only while a renewal of its     *)
(* page is out, the splash screen only while the session is checked, and   *)
(* each button only for its own request (auth-store, initAuth, AuthPage).  *)
THEOREM NobodyWaitsForNothing == AuthMaxEvents \in Nat => (Auth!Spec => []Auth!WaitingIsWoken)
<1> SUFFICES ASSUME AuthMaxEvents \in Nat PROVE Auth!Spec => []Auth!WaitingIsWoken
    OBVIOUS
<1>1. Auth!Init => AuthInv /\ AuthWoken
      BY AuthStarts, AuthWokenStarts
<1>2. AuthInv /\ AuthWoken /\ [Auth!Next]_(Auth!authVars) => AuthInv' /\ AuthWoken'
      BY AuthStep, AuthWokenStep
<1>3. AuthWoken => Auth!WaitingIsWoken
  <2> SUFFICES ASSUME AuthWoken, NEW p \in AuthPages
               PROVE  /\ Auth!Waiting(p) # {} => Auth!CallsOf(p, "refresh") # {}
                      /\ page[p].status = "checking" => Auth!CallsOf(p, "me") \cup Auth!CallsOf(p, "refresh") # {}
                      /\ page[p].loading => Auth!CallsOf(p, "login") # {}
                      /\ page[p].leaving => Auth!CallsOf(p, "logout") # {}
      BY DEF Auth!WaitingIsWoken
  <2>1. \A kind : AuthAsks(p, kind) => Auth!CallsOf(p, kind) # {}
        BY DEF AuthAsks, Auth!CallsOf
  <2>2. Auth!Waiting(p) # {} => AuthAsks(p, "refresh")
        BY DEF Auth!Waiting, Auth!CallsOf, AuthWoken, AuthAnswers
  <2> QED BY <2>1, <2>2 DEF AuthWoken, AuthAnswers
<1> QED BY <1>1, <1>2, <1>3, PTL DEF Auth!Spec

(* A lone page survives every expiry of its token, and its events are      *)
(* never cut off, for every number of pages, tokens, sockets and events    *)
(* (api-client, ws-client).                                                *)
THEOREM SignedInAndConnected == AuthMaxEvents \in Nat => (Auth!Spec /\ LinkSpec => StaysSignedInAndConnected)
<1> SUFFICES ASSUME AuthMaxEvents \in Nat PROVE Auth!Spec /\ LinkSpec => StaysSignedInAndConnected
    OBVIOUS
<1>1. Auth!Spec => Auth!ExpiryIsSurvived
      BY SessionsOutliveTokens
<1>2. LinkSpec => []NeverCutOff
      BY EventsAreNeverCutOff
<1> QED BY <1>1, <1>2 DEF StaysSignedInAndConnected
===============================================================================
