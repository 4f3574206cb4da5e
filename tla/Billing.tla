-------------------------------- MODULE Billing --------------------------------
(***************************************************************************)
(* The wallet and the membership dialogs: what they fetch when they open,  *)
(* buying a pack or a period (paid at once, the sandbox channel), and the  *)
(* refusal with 402 that opens them (token-store, subscription-store,      *)
(* TokenModal, SubscriptionModal, api-client).  A balance is the number of *)
(* packs paid, a subscription the number of periods; amounts, the lists    *)
(* of orders, the usage chart and the wording of statuses are left out.    *)
(***************************************************************************)
EXTENDS Naturals

CONSTANT MaxEvents  \* bound: what the user does

VARIABLES bill, billServer, billCalls

billVars == <<bill, billServer, billCalls>>

Ranges == {"day", "week", "month"}
Dialogs == {"token", "subscription"}
Nothing == 99  \* shown before anything was fetched

Init ==
  /\ bill = [open |-> [d \in Dialogs |-> FALSE], buying |-> [d \in Dialogs |-> FALSE],
             shown |-> [d \in Dialogs |-> Nothing], waiting |-> FALSE,
             range |-> "week", stats |-> "none", throttled |-> FALSE, told |-> "none", asked |-> 0, left |-> MaxEvents]
  /\ billServer = [paid |-> [d \in Dialogs |-> 0]]
  /\ billCalls = {}

User == bill.left > 0
Call(n, kind, d, rest) ==
  [kind |-> kind, dialog |-> d, id |-> bill.asked + n, read |-> FALSE, value |-> 0, buys |-> rest]
Spent(m) == [m EXCEPT !.left = @ - 1]
Asked(m, n) == [m EXCEPT !.asked = @ + n]
Done(c) == billCalls' = billCalls \ {c}
-----------------------------------------------------------------------------
(* At the start, and whenever a dialog opens                               *)
StartUp == {Call(1, "fetch", "token", FALSE), Call(2, "fetch", "subscription", FALSE)}
Mount ==
  /\ bill.asked = 0
  /\ bill' = Asked(bill, 2) /\ billCalls' = StartUp /\ UNCHANGED billServer

OpenCalls(d) ==
  {Call(1, "fetch", d, FALSE),
   IF d = "token" THEN [kind |-> "stats", range |-> bill.range, id |-> bill.asked + 2] ELSE Call(2, "records", d, FALSE)}

Open(d) ==
  /\ ~bill.open[d] /\ User /\ bill.asked > 0
  /\ bill' = Asked(Spent([bill EXCEPT !.open[d] = TRUE, !.waiting = @ \/ d = "subscription"]), 2)
  /\ billCalls' = billCalls \cup OpenCalls(d)
  /\ UNCHANGED billServer

Close(d) ==
  /\ bill.open[d]
  /\ bill' = [bill EXCEPT !.open[d] = FALSE] /\ UNCHANGED <<billServer, billCalls>>

(* 402: told at most once in three seconds, and the dialog opened          *)
NotifyPaymentRequired(d) ==
  /\ User /\ bill.asked > 0
  /\ IF bill.throttled THEN bill' = Spent(bill) /\ UNCHANGED billCalls
     ELSE /\ bill' = Asked(Spent([bill EXCEPT !.throttled = TRUE, !.open[d] = TRUE, !.told = "refused",
                                         !.waiting = @ \/ (d = "subscription" /\ ~bill.open[d])]), 2)
          /\ billCalls' = billCalls \cup (IF bill.open[d] THEN {} ELSE OpenCalls(d))
  /\ UNCHANGED billServer

ThrottleEnds == bill.throttled /\ bill' = [bill EXCEPT !.throttled = FALSE] /\ UNCHANGED <<billServer, billCalls>>

LoadStats(r) ==
  /\ bill.open["token"] /\ User
  /\ bill' = Asked(Spent([bill EXCEPT !.range = r]), 1)
  /\ billCalls' = billCalls \cup {[kind |-> "stats", range |-> r, id |-> bill.asked + 1]}
  /\ UNCHANGED billServer

(* whichever range was asked for                                           *)
StatsLoaded(c) ==
  /\ c.kind = "stats"
  /\ bill' = [bill EXCEPT !.stats = c.range] /\ Done(c) /\ UNCHANGED billServer
-----------------------------------------------------------------------------
ServerReads(c) ==
  /\ c.kind = "fetch" /\ ~c.read
  /\ billCalls' = (billCalls \ {c}) \cup {[c EXCEPT !.read = TRUE, !.value = billServer.paid[c.dialog]]}
  /\ UNCHANGED <<bill, billServer>>

(* the fetch that ends a purchase also ends its wait                       *)
Fetched(c) ==
  /\ c.kind = "fetch" /\ c.read
  /\ LET m == [bill EXCEPT !.shown[c.dialog] = c.value]
         orders == IF c.dialog = "token" THEN {} ELSE {Call(1, "records", c.dialog, FALSE)}
     IN IF c.buys THEN /\ bill' = Asked([m EXCEPT !.buying[c.dialog] = FALSE, !.told = "bought"], 1)
                       /\ billCalls' = (billCalls \ {c}) \cup orders
        ELSE bill' = m /\ Done(c)
  /\ UNCHANGED billServer

RecordsLoaded(c) ==
  /\ c.kind = "records"
  /\ bill' = [bill EXCEPT !.waiting = @ /\ c.dialog # "subscription"]
  /\ Done(c) /\ UNCHANGED billServer

(* silent, but in a purchase                                               *)
FetchFails(c) ==
  /\ c.kind \in {"fetch", "records", "stats"}
  /\ bill' = (IF c.kind = "stats" THEN bill
                   ELSE IF c.buys THEN [bill EXCEPT !.buying[c.dialog] = FALSE, !.told = "failed"]
                   ELSE [bill EXCEPT !.waiting = @ /\ ~(c.kind = "records" /\ c.dialog = "subscription")])
  /\ Done(c) /\ UNCHANGED billServer
-----------------------------------------------------------------------------
(* buyPack and subscribe                                                   *)
HandleBuy(d) ==
  /\ bill.open[d] /\ ~bill.buying[d] /\ User
  /\ bill' = Asked(Spent([bill EXCEPT !.buying[d] = TRUE]), 1)
  /\ billCalls' = billCalls \cup {Call(1, "order", d, TRUE)}
  /\ UNCHANGED billServer

ServerSells(c) ==
  /\ c.kind = "order" /\ ~c.read
  /\ billServer' = [billServer EXCEPT !.paid[c.dialog] = @ + 1]
  /\ billCalls' = (billCalls \ {c}) \cup {[c EXCEPT !.read = TRUE, !.value = billServer.paid[c.dialog] + 1]}
  /\ UNCHANGED bill

Ordered(c) ==
  /\ c.kind = "order" /\ c.read
  /\ bill' = Asked(bill, 1)
  /\ billCalls' = (billCalls \ {c}) \cup {Call(1, "fetch", c.dialog, TRUE)}
  /\ UNCHANGED billServer

OrderFails(c) ==
  /\ c.kind = "order"
  /\ bill' = [bill EXCEPT !.buying[c.dialog] = FALSE, !.told = "failed"]
  /\ Done(c) /\ UNCHANGED billServer

Next ==
  \/ Mount \/ ThrottleEnds
  \/ \E d \in Dialogs : Open(d) \/ Close(d) \/ NotifyPaymentRequired(d) \/ HandleBuy(d)
  \/ \E r \in Ranges : LoadStats(r)
  \/ \E c \in billCalls :
       \/ StatsLoaded(c) \/ ServerReads(c) \/ Fetched(c) \/ RecordsLoaded(c) \/ FetchFails(c)
       \/ ServerSells(c) \/ Ordered(c) \/ OrderFails(c)

Spec == Init /\ [][Next]_billVars
-----------------------------------------------------------------------------
(* The button waits only for a purchase that is under way, however it ends *)
(* and whichever other answers come first; there is one of them at a time. *)
BillBusyIsHonest ==
  \A d \in Dialogs :
    LET purchases == {c \in billCalls : c.kind # "stats" /\ c.dialog = d /\ c.buys}
    IN /\ bill.buying[d] <=> purchases # {}
       /\ \A c, e \in purchases : c = e

(* Whoever is told "bought" sees it: the amount shown at that moment was   *)
(* read after the order was paid (token-store, buyPack).                   *)
BoughtIsShown ==
  [][\A d \in Dialogs : bill.buying[d] /\ ~bill'.buying[d] /\ bill'.told = "bought"
                           => bill'.shown[d] = billServer.paid[d]]_billVars
=============================================================================
