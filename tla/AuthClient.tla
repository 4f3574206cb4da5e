------------------------------- MODULE AuthClient -------------------------------
(***************************************************************************)
(* The session as the browser keeps it: booting from the tokens kept,      *)
(* signing in, the one renewal all requests refused with 401 wait for and  *)
(* their replay, signing out (api-client, auth-store, App, AuthPage).      *)
(* Two pages of one browser share what is kept and nothing else.  A pair   *)
(* of tokens is the number under which the server issued it.               *)
(***************************************************************************)
EXTENDS Naturals, FiniteSets

CONSTANTS Pages,      \* pages of the browser; the last to open shares its tokens with the first
          MaxEvents   \* bound: requests, sign-ins and outs, lost answers, expiries

VARIABLES page, pageKept, authServer, authCalls

authVars == <<page, pageKept, authServer, authCalls>>

None == 0
Closed == [status |-> "closed", token |-> None, boot |-> 0, tab |-> "login", loading |-> FALSE, sending |-> FALSE,
           countdown |-> FALSE, leaving |-> FALSE]

Init ==
  /\ page = [p \in Pages |-> Closed]
  /\ pageKept \in {None, 1}
  /\ authServer = [issued |-> 1, access |-> {1}, refresh |-> {1}, excuse |-> FALSE, asked |-> 0, left |-> MaxEvents]
  /\ authCalls = {}

Budget == authServer.left > 0
Spend == [authServer EXCEPT !.left = @ - 1, !.asked = @ + 1]
Call(p, kind, token) ==
  [kind |-> kind, page |-> p, id |-> authServer.asked + 1, token |-> token, step |-> "out", again |-> FALSE]
CallsOf(p, kind) == {c \in authCalls : c.page = p /\ c.kind = kind}
Step(c, step) == (authCalls \ {c}) \cup {[c EXCEPT !.step = step]}
Answered(c) == c.step \in {"ok", "refused"}

(* clearSession; persist writes every change of a page over what is kept   *)
Guest(p) == page' = [page EXCEPT ![p].status = "guest", ![p].token = None, ![p].boot = 0] /\ pageKept' = None
-----------------------------------------------------------------------------
(* initAuth                                                                *)
Boot(p) ==
  /\ page[p].status = "closed" /\ Budget
  /\ IF pageKept = None
       THEN page' = [page EXCEPT ![p].status = "guest"] /\ UNCHANGED authCalls
       ELSE /\ page' = [page EXCEPT ![p].status = "checking", ![p].token = pageKept, ![p].boot = 1]
            /\ authCalls' = authCalls \cup {Call(p, "me", pageKept)}
  /\ authServer' = [Spend EXCEPT !.excuse = @ \/ \E q \in Pages : page[q].status # "closed"]
  /\ UNCHANGED pageKept

(* mutant: every refused request renews the token                          *)
RefreshCallsEach(p) ==
  {[kind |-> "refresh", page |-> p, id |-> Cardinality(CallsOf(p, "refresh")), token |-> page[p].token,
    step |-> "out", again |-> FALSE]}

(* refresh: one at a time for a page; without a token it fails at once     *)
RefreshCalls(p) ==
  IF CallsOf(p, "refresh") # {} THEN {}
  ELSE {[kind |-> "refresh", page |-> p, id |-> 0, token |-> page[p].token, step |-> "out", again |-> FALSE]}

MeAnswered(c) ==
  /\ c.kind = "me"
  /\ \/ /\ c.step = "ok" /\ page' = [page EXCEPT ![c.page].status = "authed", ![c.page].boot = 0]
        /\ authCalls' = authCalls \ {c} /\ UNCHANGED <<pageKept, authServer>>
     \/ /\ c.step = "refused" \/ (Budget /\ c.step = "out")
        /\ IF page[c.page].boot = 1
             THEN /\ authCalls' = (authCalls \ {c}) \cup RefreshCalls(c.page)
                  /\ page' = [page EXCEPT ![c.page].boot = 2] /\ UNCHANGED pageKept
             ELSE Guest(c.page) /\ authCalls' = authCalls \ {c}
        /\ authServer' = IF c.step = "out" THEN [Spend EXCEPT !.excuse = TRUE] ELSE authServer
-----------------------------------------------------------------------------
(* The sign-in form                                                        *)
SwitchTab(p) ==
  /\ page[p].status = "guest" /\ Budget
  /\ page' = [page EXCEPT ![p].tab = IF @ = "login" THEN "register" ELSE "login"]
  /\ authServer' = Spend /\ UNCHANGED <<pageKept, authCalls>>

HandleSendCode(p) ==
  /\ page[p].status = "guest" /\ ~page[p].sending /\ ~page[p].countdown /\ Budget
  /\ page' = [page EXCEPT ![p].sending = TRUE]
  /\ authCalls' = authCalls \cup {Call(p, "code", None)}
  /\ authServer' = Spend /\ UNCHANGED pageKept

CodeAnswered(c) ==
  /\ c.kind = "code"
  /\ \E sent \in BOOLEAN : page' = [page EXCEPT ![c.page].sending = FALSE, ![c.page].countdown = sent]
  /\ authCalls' = authCalls \ {c} /\ UNCHANGED <<pageKept, authServer>>

CountdownEnds(p) ==
  /\ page[p].countdown /\ page' = [page EXCEPT ![p].countdown = FALSE] /\ UNCHANGED <<pageKept, authServer, authCalls>>

(* registering signs in too                                                *)
HandleSubmit(p) ==
  /\ page[p].status = "guest" /\ ~page[p].loading /\ Budget
  /\ page' = [page EXCEPT ![p].loading = TRUE]
  /\ authCalls' = authCalls \cup {Call(p, "login", None)}
  /\ authServer' = Spend /\ UNCHANGED pageKept

SignedIn(c) ==
  /\ c.kind = "login" /\ c.step = "ok"
  /\ page' = [page EXCEPT ![c.page].loading = FALSE, ![c.page].status = "authed", ![c.page].token = c.token]
  /\ pageKept' = c.token
  /\ authCalls' = authCalls \ {c} /\ UNCHANGED authServer

SignInFails(c) ==
  /\ c.kind = "login" /\ c.step = "out" /\ Budget
  /\ page' = [page EXCEPT ![c.page].loading = FALSE]
  /\ authCalls' = authCalls \ {c} /\ authServer' = Spend /\ UNCHANGED pageKept
-----------------------------------------------------------------------------
(* Requests of the application carry the page's token; refused, they wait  *)
(* for the renewal and are sent once more.                                 *)
Send(p) ==
  /\ page[p].status = "authed" /\ Budget
  /\ authCalls' = authCalls \cup {Call(p, "request", page[p].token)}
  /\ authServer' = Spend /\ UNCHANGED <<page, pageKept>>

Settled(c) == c.kind = "request" /\ (c.step = "ok" \/ (c.step = "refused" /\ c.again))
RequestEnds(c) == Settled(c) /\ authCalls' = authCalls \ {c} /\ UNCHANGED <<page, pageKept, authServer>>

Unauthorised(c) ==
  /\ c.kind = "request" /\ c.step = "refused" /\ ~c.again
  /\ IF page[c.page].token = None /\ CallsOf(c.page, "refresh") = {}
       THEN Guest(c.page) /\ authCalls' = authCalls \ {c}
       ELSE authCalls' = Step(c, "waiting") \cup RefreshCalls(c.page) /\ UNCHANGED <<page, pageKept>>
  /\ UNCHANGED authServer

(* doRefresh is over: whoever waits goes on                                *)
Waiting(p) == {c \in CallsOf(p, "request") : c.step = "waiting"}
Renewed(c) ==
  /\ c.kind = "refresh" /\ c.step = "ok"
  /\ page' = [page EXCEPT ![c.page].token = c.token]
  /\ pageKept' = c.token
  /\ authCalls' = (authCalls \ ({c} \cup Waiting(c.page)))
       \cup {[w EXCEPT !.step = "out", !.again = TRUE, !.token = c.token] : w \in Waiting(c.page)}
       \cup (IF page[c.page].boot = 2 THEN {Call(c.page, "me", c.token)} ELSE {})
  /\ UNCHANGED authServer

RenewalFails(c) ==
  /\ c.kind = "refresh" /\ (c.step = "refused" \/ (Budget /\ c.step \in {"out", "ok"}))
  /\ Guest(c.page)
  /\ authCalls' = authCalls \ ({c} \cup Waiting(c.page))
  /\ authServer' = IF c.step = "refused" THEN authServer ELSE [Spend EXCEPT !.excuse = TRUE]
-----------------------------------------------------------------------------
(* handleLogout: the server is told if it can be, the page forgets anyway  *)
HandleLogout(p) ==
  /\ page[p].status = "authed" /\ ~page[p].leaving /\ Budget
  /\ page' = [page EXCEPT ![p].leaving = TRUE]
  /\ authCalls' = authCalls \cup {Call(p, "logout", page[p].token)}
  /\ authServer' = [Spend EXCEPT !.excuse = TRUE] /\ UNCHANGED pageKept

LoggedOut(c) ==
  /\ c.kind = "logout" /\ (Answered(c) \/ Budget)
  /\ page' = [page EXCEPT ![c.page].leaving = FALSE, ![c.page].status = "guest", ![c.page].token = None]
  /\ pageKept' = None
  /\ authServer' = IF Answered(c) THEN authServer ELSE Spend
  /\ authCalls' = authCalls \ {c}
-----------------------------------------------------------------------------
(* The server: an access token is checked by itself and expires; a refresh *)
(* token is used up by its renewal; signing out ends every session.        *)
Issued(s) == [s EXCEPT !.issued = @ + 1, !.access = @ \cup {s.issued + 1}, !.refresh = @ \cup {s.issued + 1}]

ServerChecks(c) ==
  /\ c.kind \in {"me", "request", "logout"} /\ c.step = "out"
  /\ LET ok == c.token \in authServer.access
     IN /\ authCalls' = Step(c, IF ok THEN "ok" ELSE "refused")
        /\ authServer' = IF ok /\ c.kind = "logout" THEN [authServer EXCEPT !.refresh = {}] ELSE authServer
  /\ UNCHANGED <<page, pageKept>>

ServerIssues(c) ==
  /\ c.kind \in {"login", "refresh"} /\ c.step = "out"
  /\ IF c.kind = "login" \/ c.token \in authServer.refresh
       THEN /\ authServer' = Issued([authServer EXCEPT !.refresh = @ \ {c.token}])
            /\ authCalls' = (authCalls \ {c}) \cup {[c EXCEPT !.step = "ok", !.token = authServer.issued + 1]}
       ELSE authCalls' = Step(c, "refused") /\ UNCHANGED authServer
  /\ UNCHANGED <<page, pageKept>>

(* of a page in use, or of one closed long ago: not within a round trip    *)
Expire(n) ==
  /\ n \in authServer.access /\ Budget
  /\ n = 1 \/ \E p \in Pages : page[p].status = "authed" /\ page[p].token = n
  /\ authServer' = [Spend EXCEPT !.access = @ \ {n}] /\ UNCHANGED <<page, pageKept, authCalls>>

Next ==
  \/ \E p \in Pages :
       \/ Boot(p) \/ SwitchTab(p) \/ HandleSendCode(p) \/ CountdownEnds(p) \/ HandleSubmit(p) \/ Send(p) \/ HandleLogout(p)
  \/ \E n \in 1..(authServer.issued) : Expire(n)
  \/ \E c \in authCalls :
       \/ MeAnswered(c) \/ CodeAnswered(c) \/ SignedIn(c) \/ SignInFails(c) \/ RequestEnds(c) \/ Unauthorised(c)
       \/ Renewed(c) \/ RenewalFails(c) \/ LoggedOut(c) \/ ServerChecks(c) \/ ServerIssues(c)

Spec == Init /\ [][Next]_authVars
-----------------------------------------------------------------------------
(* Nobody waits for nothing: a request refused waits only while a renewal  *)
(* is out, so does the splash screen, and the form only while its request  *)
(* is (auth-store, the single flight and initAuth).                        *)
WaitingIsWoken ==
  \A p \in Pages :
    /\ Waiting(p) # {} => CallsOf(p, "refresh") # {}
    /\ page[p].status = "checking" => CallsOf(p, "me") \cup CallsOf(p, "refresh") # {}
    /\ page[p].loading => CallsOf(p, "login") # {}
    /\ page[p].leaving => CallsOf(p, "logout") # {}

(* However many requests an expiry refuses, and however late, one page     *)
(* alone stays signed in until it signs out or loses a request: a refresh  *)
(* token is never presented twice (api-client:83).                         *)
ExpiryIsSurvived ==
  [][\A p \in Pages : page[p].status \in {"checking", "authed"} /\ page'[p].status = "guest" => authServer'.excuse]_authVars
=============================================================================
