------------------------------ MODULE Breaker -------------------------------
(***************************************************************************)
(* The circuit breaker (pkg/breaker/breaker.go) in front of the AI service *)
(* and of the task handlers.  Execute takes the mutex twice, once before   *)
(* and once after the call it guards, so a call may return to a breaker    *)
(* that is no longer in the state that let it pass.                        *)
(***************************************************************************)
EXTENDS Integers, FiniteSetTheorems, TLAPS

CONSTANTS
  Calls,     \* callers; each may call again after it has returned
  Window,    \* requests per window
  Threshold  \* percentage of failures that opens the circuit

ASSUME CallsAssumption  == IsFiniteSet(Calls)
ASSUME LimitsAssumption == Window \in Nat \ {0} /\ Threshold \in 0..100

VARIABLES
  state,     \* closed, open or half-open
  failures,  \* counters of the current window
  successes,
  elapsed,   \* whether the timeout has passed since the circuit opened
  call       \* out, or let through as a normal call or as the probe

vars == <<state, failures, successes, elapsed, call>>

Init ==
  /\ state = "closed"
  /\ failures = 0 /\ successes = 0
  /\ elapsed = FALSE
  /\ call = [c \in Calls |-> "out"]

InFlight == {c \in Calls : call[c] # "out"}

(* beforeRequest.  A refusal changes nothing.                              *)
Pass(c) ==
  /\ state = "closed"
  /\ call[c] = "out"
  /\ call' = [call EXCEPT ![c] = "normal"]
  /\ UNCHANGED <<state, failures, successes, elapsed>>

Probe(c) ==
  /\ state = "open" /\ elapsed
  /\ call[c] = "out"
  /\ state' = "half-open"
  /\ call' = [call EXCEPT ![c] = "probe"]
  /\ UNCHANGED <<failures, successes, elapsed>>

TimePasses ==
  /\ state = "open" /\ ~elapsed
  /\ elapsed' = TRUE
  /\ UNCHANGED <<state, failures, successes, call>>

Count(f, s) == failures' = f /\ successes' = s
BecomeOpen  == state' = "open" /\ elapsed' = FALSE
Total(f, s) == f + s

(* Mutant: a window that ends well is not cleared.                         *)
SettleKeeping(f, s) ==
  IF Total(f, s) >= Window /\ (f * 100) \div Total(f, s) >= Threshold
    THEN BecomeOpen /\ Count(0, 0)
    ELSE UNCHANGED <<state, elapsed>> /\ Count(f, s)

(* The closed case of afterRequest: a full window decides.                 *)
Settle(f, s) ==
  IF Total(f, s) < Window THEN UNCHANGED <<state, elapsed>> /\ Count(f, s)
  ELSE /\ Count(0, 0)
       /\ IF (f * 100) \div Total(f, s) >= Threshold
            THEN BecomeOpen ELSE UNCHANGED <<state, elapsed>>

(* Mutant: only the probe closes the circuit, and its failure is ignored.  *)
ReturnTolerant(c, failed) ==
  LET f == failures + (IF failed THEN 1 ELSE 0)
      s == successes + (IF failed THEN 0 ELSE 1) IN
  /\ call[c] # "out"
  /\ call' = [call EXCEPT ![c] = "out"]
  /\ CASE state = "half-open" ->
            IF failed \/ call[c] # "probe"
              THEN UNCHANGED <<state, elapsed>> /\ Count(f, s)
              ELSE state' = "closed" /\ UNCHANGED elapsed /\ Count(0, 0)
       [] state = "closed" -> Settle(f, s)
       [] OTHER -> UNCHANGED <<state, elapsed>> /\ Count(f, s)

(* afterRequest: in half-open whoever returns decides, the probe or a call *)
(* from before the circuit opened; in open the result is only counted.     *)
Return(c, failed) ==
  LET f == failures + (IF failed THEN 1 ELSE 0)
      s == successes + (IF failed THEN 0 ELSE 1) IN
  /\ call[c] # "out"
  /\ call' = [call EXCEPT ![c] = "out"]
  /\ CASE state = "half-open" ->
            /\ Count(0, 0)
            /\ IF failed THEN BecomeOpen
                         ELSE state' = "closed" /\ UNCHANGED elapsed
       [] state = "closed" -> Settle(f, s)
       [] OTHER -> UNCHANGED <<state, elapsed>> /\ Count(f, s)

Next ==
  \/ TimePasses
  \/ \E c \in Calls : \/ Pass(c) \/ Probe(c)
                      \/ \E failed \in BOOLEAN : Return(c, failed)

Spec == Init /\ [][Next]_vars

(* Time passes, requests keep coming, and every guarded call has a timeout *)
(* of its own.                                                             *)
FairSpec ==
  /\ Spec
  /\ WF_vars(TimePasses)
  /\ WF_vars(\E c \in Calls : Probe(c))
  /\ \A c \in Calls : WF_vars(\E failed \in BOOLEAN : Return(c, failed))

-----------------------------------------------------------------------------
TypeOK ==
  /\ state \in {"closed", "open", "half-open"}
  /\ failures \in 0..(Window + Cardinality(Calls))
  /\ successes \in 0..(Window + Cardinality(Calls))
  /\ elapsed \in BOOLEAN
  /\ call \in [Calls -> {"out", "normal", "probe"}]

(* A closed circuit never holds a full window, so a window is judged the   *)
(* moment it is full, and calls that outlived the closed state add no more *)
(* to the counters of an open one than there are callers.                  *)
WindowBounded ==
  /\ state = "closed" => failures + successes < Window
  /\ state = "open" => failures + successes + Cardinality(InFlight) <= Cardinality(Calls)

(* A half-open circuit refuses everybody, so it ends only by the return of *)
(* a call it let through before; that call always comes back (Execute).    *)
HalfOpenEnds == state = "half-open" ~> state # "half-open"

-----------------------------------------------------------------------------
(* Proofs, for any number of callers, any window and any threshold.        *)

(* A half-open breaker holds what the open one counted: at most one result *)
(* of each caller.                                                         *)
FewLateResults == state = "half-open" => failures + successes <= Cardinality(Calls)

BInv ==
  /\ state \in {"closed", "open", "half-open"}
  /\ failures \in Nat /\ successes \in Nat
  /\ elapsed \in BOOLEAN
  /\ call \in [Calls -> {"out", "normal", "probe"}]
  /\ WindowBounded
  /\ FewLateResults

LEMMA Limits == Window \in Nat \ {0} /\ Cardinality(Calls) \in Nat
BY CallsAssumption, LimitsAssumption, FS_CardinalityType

LEMMA FewInFlight ==
  /\ IsFiniteSet(InFlight)
  /\ Cardinality(InFlight) \in Nat
  /\ Cardinality(InFlight) <= Cardinality(Calls)
<1>1. InFlight \in SUBSET Calls
  BY DEF InFlight
<1> QED
  BY <1>1, CallsAssumption, FS_Subset, FS_CardinalityType

(* A caller that returns is in flight no more.                             *)
LEMMA OneFewer ==
  ASSUME call \in [Calls -> {"out", "normal", "probe"}], NEW c \in Calls,
         call[c] # "out", call' = [call EXCEPT ![c] = "out"]
  PROVE  Cardinality(InFlight)' = Cardinality(InFlight) - 1
<1>1. InFlight' = InFlight \ {c} /\ c \in InFlight
  BY DEF InFlight
<1> QED
  BY <1>1, FewInFlight, FS_RemoveElement

LEMMA InitBInv == Init => BInv
<1> SUFFICES ASSUME Init PROVE BInv
  OBVIOUS
<1>1. elapsed \in BOOLEAN
  BY Zenon DEF Init
<1>2. call \in [Calls -> {"out", "normal", "probe"}]
  BY Zenon DEF Init
<1>3. state = "closed" /\ failures = 0 /\ successes = 0
  BY DEF Init
<1> QED
  BY <1>1, <1>2, <1>3, Limits DEF BInv, WindowBounded, FewLateResults

(* A full window is judged at once, so that none is left full.             *)
LEMMA Judged ==
  ASSUME NEW f \in Nat, NEW s \in Nat, state = "closed", elapsed \in BOOLEAN, Settle(f, s)
  PROVE  /\ failures' \in Nat /\ successes' \in Nat /\ elapsed' \in BOOLEAN
         /\ \/ state' = "closed" /\ failures' + successes' < Window
            \/ state' = "open" /\ failures' = 0 /\ successes' = 0
<1>1. CASE f + s < Window
  <2>1. UNCHANGED <<state, elapsed>> /\ failures' = f /\ successes' = s
    BY <1>1 DEF Settle, Total, Count
  <2> QED
    BY <1>1, <2>1
<1>2. CASE ~(f + s < Window)
  <2>1. failures' = 0 /\ successes' = 0
    BY <1>2 DEF Settle, Total, Count
  <2>2. BecomeOpen \/ UNCHANGED <<state, elapsed>>
    BY <1>2 DEF Settle, Total
  <2>3. /\ elapsed' \in BOOLEAN
        /\ state' = "closed" \/ state' = "open"
    BY <2>2, Zenon DEF BecomeOpen
  <2> QED
    BY <2>1, <2>3, Limits
<1> QED
  BY <1>1, <1>2

LEMMA ReturnBInv ==
  ASSUME BInv, NEW c \in Calls, NEW failed \in BOOLEAN, Return(c, failed)
  PROVE  BInv'
<1> DEFINE f == failures + (IF failed THEN 1 ELSE 0)
           s == successes + (IF failed THEN 0 ELSE 1)
<1>1. /\ f \in Nat /\ s \in Nat
      /\ f + s = failures + successes + 1
  BY DEF BInv
<1>2. /\ call[c] # "out"
      /\ call' = [call EXCEPT ![c] = "out"]
      /\ call' \in [Calls -> {"out", "normal", "probe"}]
  BY DEF Return, BInv
<1>3. /\ Cardinality(InFlight) \in Nat
      /\ Cardinality(InFlight)' = Cardinality(InFlight) - 1
      /\ Cardinality(InFlight)' \in Nat
      /\ Cardinality(InFlight)' <= Cardinality(Calls)
  <2>1. Cardinality(InFlight)' = Cardinality(InFlight) - 1
    BY <1>2, OneFewer DEF BInv
  <2>2. c \in InFlight
    BY <1>2 DEF InFlight
  <2>3. Cardinality(InFlight) # 0
    BY <2>2, FewInFlight, FS_EmptySet
  <2> QED
    BY <2>1, <2>3, FewInFlight, Limits
<1>4. CASE state = "half-open"
  <2>1. /\ failures' = 0 /\ successes' = 0
        /\ \/ state' = "open" /\ elapsed' = FALSE
           \/ state' = "closed" /\ elapsed' = elapsed
    BY <1>4 DEF Return, Count, BecomeOpen
  <2>2. elapsed' \in BOOLEAN
    BY <2>1, Zenon DEF BInv
  <2>3. state' = "open" \/ state' = "closed"
    BY <2>1
  <2> QED
    BY <2>1, <2>2, <2>3, <1>2, <1>3, Limits DEF BInv, WindowBounded, FewLateResults
<1>5. CASE state = "closed"
  <2>1. Settle(f, s)
    BY <1>5 DEF Return
  <2> HIDE DEF f, s
  <2>2. /\ failures' \in Nat /\ successes' \in Nat /\ elapsed' \in BOOLEAN
        /\ \/ state' = "closed" /\ failures' + successes' < Window
           \/ state' = "open" /\ failures' = 0 /\ successes' = 0
    BY <2>1, <1>1, <1>5, Judged DEF BInv
  <2>3. WindowBounded'
    <3>1. CASE state' = "closed" /\ failures' + successes' < Window
      BY <3>1 DEF WindowBounded
    <3>2. CASE state' = "open" /\ failures' = 0 /\ successes' = 0
      <4>1. failures' + successes' + Cardinality(InFlight)' <= Cardinality(Calls)
        BY <3>2, <1>3, Limits
      <4> QED
        BY <3>2, <4>1 DEF WindowBounded
    <3> QED
      BY <2>2, <3>1, <3>2
  <2>4. FewLateResults'
    BY <2>2 DEF FewLateResults
  <2> QED
    BY <2>2, <2>3, <2>4, <1>2 DEF BInv
<1>6. CASE state = "open"
  <2>1. failures' = f /\ successes' = s /\ state' = state /\ elapsed' = elapsed
    BY <1>6 DEF Return, Count
  <2>2. failures + successes + Cardinality(InFlight) <= Cardinality(Calls)
    BY <1>6 DEF BInv, WindowBounded
  <2>3. failures \in Nat /\ successes \in Nat /\ elapsed \in BOOLEAN
    BY DEF BInv
  <2> HIDE DEF f, s
  <2>4. failures' + successes' + Cardinality(InFlight)' <= Cardinality(Calls)
    BY <2>1, <2>2, <2>3, <1>1, <1>3, Limits
  <2>5. failures' \in Nat /\ successes' \in Nat
    BY <2>1, <1>1
  <2>6. WindowBounded' /\ FewLateResults'
    BY <2>1, <2>4, <1>6 DEF WindowBounded, FewLateResults
  <2> QED
    BY <2>1, <2>3, <2>5, <2>6, <1>2, <1>6 DEF BInv
<1> QED
  BY <1>4, <1>5, <1>6 DEF BInv

LEMMA NextBInv == BInv /\ [Next]_vars => BInv'
<1> SUFFICES ASSUME BInv, [Next]_vars PROVE BInv'
  OBVIOUS
<1>1. CASE UNCHANGED vars
  BY <1>1 DEF vars, BInv, WindowBounded, FewLateResults, InFlight
<1>2. CASE TimePasses
  BY <1>2 DEF TimePasses, BInv, WindowBounded, FewLateResults, InFlight
<1>3. ASSUME NEW c \in Calls, Pass(c) PROVE BInv'
  BY <1>3 DEF Pass, BInv, WindowBounded, FewLateResults
<1>4. ASSUME NEW c \in Calls, Probe(c) PROVE BInv'
  <2>1. failures + successes <= Cardinality(Calls)
    BY <1>4, FewInFlight, Limits DEF Probe, BInv, WindowBounded
  <2> QED
    BY <2>1, <1>4 DEF Probe, BInv, WindowBounded, FewLateResults
<1>5. ASSUME NEW c \in Calls, NEW failed \in BOOLEAN, Return(c, failed) PROVE BInv'
  BY <1>5, ReturnBInv
<1> QED
  BY <1>1, <1>2, <1>3, <1>4, <1>5 DEF Next

(* Whatever calls return late, a closed circuit never holds a full window  *)
(* and an open one counts each caller at most once (breaker.go,            *)
(* afterRequest).                                                          *)
THEOREM WindowsAreBounded == Spec => []WindowBounded
<1>1. BInv => WindowBounded
  BY DEF BInv
<1> QED
  BY <1>1, InitBInv, NextBInv, PTL DEF Spec

(* The counters, in whatever state, never outgrow a window and one result  *)
(* of each caller, so that nothing in breaker.go can overflow them.        *)
THEOREM TypeCorrect == Spec => []TypeOK
<1>1. BInv => TypeOK
  <2> SUFFICES ASSUME BInv PROVE TypeOK
    OBVIOUS
  <2>1. failures + successes <= Window + Cardinality(Calls)
    BY Limits, FewInFlight DEF BInv, WindowBounded, FewLateResults
  <2> QED
    BY <2>1, Limits DEF BInv, TypeOK
<1> QED
  BY <1>1, InitBInv, NextBInv, PTL DEF Spec
=============================================================================
