--------------------------------- MODULE Socket ---------------------------------
(***************************************************************************)
(* The browser's socket: one connection per access token, connected again  *)
(* whenever it is lost (ws-client, the effect of App).  The desktop shell  *)
(* connects without a token; a token is a number, 0 none.  The delay of    *)
(* the next attempt and the heartbeat, which does nothing, are left out.   *)
(* Where the token comes from is another matter, of the session beside it. *)
(***************************************************************************)
EXTENDS Naturals, Sequences

CONSTANTS MaxSockets,  \* bound: sockets ever opened
          MaxTokens,   \* bound: tokens there are
          AuthPages, AuthMaxEvents   \* those of the session, see AuthClient

VARIABLES link, sockets, page, pageKept, authServer, authCalls

linkVars == <<link, sockets>>
Auth == INSTANCE AuthClient WITH Pages <- AuthPages, MaxEvents <- AuthMaxEvents

NoSocket == 0
NoToken == 0

(* link.ws is the socket held; the others are the browser's to close.      *)
LinkInit ==
  /\ \E desktop \in BOOLEAN :
       link = [ws |-> NoSocket, url |-> NoToken, timer |-> FALSE, intentional |-> FALSE, token |-> NoToken,
               desktop |-> desktop, mounted |-> FALSE]
  /\ sockets = <<>>

Wanted(l) == l.mounted /\ (l.desktop \/ l.token # NoToken)

(* doConnect, of the link l with the sockets as they are then: nothing     *)
(* where the socket held is open.                                          *)
DoConnect(l, socks) ==
  IF l.ws # NoSocket /\ socks[l.ws].state = "open" THEN link' = l /\ sockets' = socks
  ELSE /\ Len(socks) < MaxSockets
       /\ link' = [l EXCEPT !.ws = Len(socks) + 1]
       /\ sockets' = Append(socks, [state |-> "connecting", url |-> l.url])

(* disconnect: the timer is cleared, the socket held is told to close      *)
Disconnected(l) == [l EXCEPT !.intentional = TRUE, !.timer = FALSE, !.ws = NoSocket]
Closing(l) ==
  [i \in DOMAIN sockets |-> IF i = l.ws /\ sockets[i].state # "closed" THEN [sockets[i] EXCEPT !.state = "closing"]
                            ELSE sockets[i]]

(* The effect: its cleanup, then a connection if there is to be one        *)
TokenChanges(t) ==
  /\ ~link.mounted \/ t # link.token
  /\ LET left == [IF Wanted(link) THEN Disconnected(link) ELSE link EXCEPT !.token = t, !.mounted = TRUE]
         shut == IF Wanted(link) THEN Closing(link) ELSE sockets
     IN IF Wanted(left) THEN DoConnect([left EXCEPT !.url = t, !.intentional = FALSE], shut)
        ELSE link' = left /\ sockets' = shut

Open(i) ==
  /\ sockets[i].state = "connecting"
  /\ sockets' = [sockets EXCEPT ![i].state = "open"] /\ UNCHANGED link

(* onclose of any socket, held or not                                      *)
Closed(i) ==
  /\ sockets[i].state # "closed"
  /\ sockets' = [sockets EXCEPT ![i].state = "closed"]
  /\ link' = [link EXCEPT !.timer = @ \/ ~link.intentional]

Reconnect == link.timer /\ DoConnect([link EXCEPT !.timer = FALSE], sockets)

LinkNext ==
  \/ Reconnect
  \/ \E t \in 0..MaxTokens : TokenChanges(t)
  \/ \E i \in DOMAIN sockets : Open(i) \/ Closed(i)

LinkSpec == LinkInit /\ [][LinkNext]_linkVars
-----------------------------------------------------------------------------
(* While a connection is wanted there is one, one being opened or closed,  *)
(* or the timer that opens the next: events are never missed for good.     *)
(* It is made with the token of the moment (App.tsx:72).                   *)
NeverCutOff ==
  Wanted(link) =>
    /\ link.ws # NoSocket /\ sockets[link.ws].url = link.token
    /\ link.timer \/ sockets[link.ws].state # "closed"

(* One page alone stays signed in through every expiry (api-client), and   *)
(* connected to the events: a socket with the token of the moment is open, *)
(* or on its way (ws-client).                                              *)
StaysSignedInAndConnected == Auth!ExpiryIsSurvived /\ []NeverCutOff

=============================================================================
