--------------------------- MODULE CircuitBreaker ---------------------------
(* The circuit breaker in front of the mapping provider and the mail server
   (platform/resilience/circuit_breaker.go) and the calls that go through it. A
   breaker is closed, open, or half-open while one probe is on its way; the
   result of a call is recorded by the goroutine that made it, in whatever state
   the breaker is by then. *)
EXTENDS Naturals, FiniteSets

CONSTANTS Call,        \* goroutines that call the downstream, again and again
          Threshold,   \* FailureThreshold
          ResetAfter,  \* ResetAfter, in ticks
          None

ASSUME BreakerAssumption == Threshold \in Nat \ {0} /\ ResetAfter \in Nat \ {0} /\ None \notin Nat

VARIABLES
  failures,  \* counted up to Threshold: it is only ever compared with it
  opened,    \* ticks since openedAt, up to ResetAfter; None when openedAt is zero
  halfOpen,
  call,      \* per goroutine: "idle", "normal" or "probe", how it was admitted
  stray      \* history: a normal call reported while the breaker was open

vars == <<failures, opened, halfOpen, call, stray>>

TypeOK ==
  /\ failures \in 0 .. Threshold
  /\ opened \in (0 .. ResetAfter) \cup {None}
  /\ halfOpen \in BOOLEAN
  /\ call \in [Call -> {"idle", "normal", "probe"}]
  /\ stray \in BOOLEAN

Init ==
  /\ failures = 0 /\ opened = None /\ halfOpen = FALSE
  /\ call = [c \in Call |-> "idle"] /\ stray = FALSE

\* A failure is counted; it opens the breaker at the threshold and restarts an open one.
Trip ==
  LET counted == IF failures < Threshold THEN failures + 1 ELSE Threshold
  IN /\ failures' = counted
     /\ opened' = IF opened # None \/ counted >= Threshold THEN 0 ELSE opened

Opens == opened' # None

\* allow: everyone while closed, one probe once the wait is over. A refused call gets
\* ErrCircuitOpen and changes nothing.
Allow(c) ==
  IF opened = None THEN call' = [call EXCEPT ![c] = "normal"] /\ UNCHANGED <<opened, halfOpen>>
  ELSE /\ opened = ResetAfter /\ ~halfOpen
       /\ halfOpen' = TRUE /\ call' = [call EXCEPT ![c] = "probe"] /\ UNCHANGED opened

Do(c) ==
  /\ call[c] = "idle"
  /\ Allow(c)
  /\ UNCHANGED <<failures, stray>>

\* A call returns.
Returns(c) ==
  /\ call[c] # "idle"
  /\ call' = [call EXCEPT ![c] = "idle"]
  /\ stray' = (stray \/ (call[c] = "normal" /\ opened # None))

\* recordSuccess.
Succeed(c) ==
  /\ Returns(c)
  /\ failures' = 0 /\ opened' = None /\ halfOpen' = FALSE

\* recordFailure: an error, a timeout, a status or a body the provider should not send.
Fail(c) ==
  /\ Returns(c)
  /\ Trip
  /\ halfOpen' = IF Opens THEN FALSE ELSE halfOpen

\* recordPanic.
Panic(c) ==
  /\ Returns(c)
  /\ Trip
  /\ halfOpen' = FALSE

\* (mutant: a cancelled call leaves the breaker alone)
ReleaseNothing == UNCHANGED <<failures, opened, halfOpen>>

\* release.
Release == halfOpen' = FALSE /\ UNCHANGED <<failures, opened>>

\* The caller gave up: that says nothing about the downstream.
Cancel(c) ==
  /\ Returns(c)
  /\ Release

Tick ==
  /\ opened # None /\ opened < ResetAfter
  /\ opened' = opened + 1
  /\ UNCHANGED <<failures, halfOpen, call, stray>>

Reports(c) == Succeed(c) \/ Fail(c) \/ Panic(c) \/ Cancel(c)

Next == (\E c \in Call : Do(c) \/ Reports(c)) \/ Tick

Spec == Init /\ [][Next]_vars

\* Calls end: the provider's client and the mail client have timeouts. Time passes, and callers
\* keep arriving.
FairSpec ==
  /\ Spec /\ WF_vars(Tick) /\ WF_vars(\E c \in Call : Do(c))
  /\ \A c \in Call : WF_vars(Reports(c))

(***************************************************************************)
(* Properties                                                              *)
(***************************************************************************)

Probes == {c \in Call : call[c] = "probe"}

\* The breaker is half-open only while a probe is on its way, whatever late results arrive: it
\* never stays half-open with nobody left to close it.
HalfOpenHasProbe == halfOpen => opened = ResetAfter /\ Probes # {}

\* One probe at a time is let through, unless a call admitted before the breaker opened reported
\* while it was open.
OneProbeUnlessStray == ~stray => Cardinality(Probes) <= 1

\* Whatever calls overlap, fail, panic or report late, the breaker has the probe it waits for and no
\* second one.
ProbeHeld == TypeOK /\ HalfOpenHasProbe /\ OneProbeUnlessStray

\* An open breaker is closed or tries the downstream again, as long as callers come.
Retries == opened # None ~> (opened = None \/ halfOpen)

=============================================================================
