--------------------------- MODULE CircuitBreaker ---------------------------
(***************************************************************************)
(* The circuit breaker in front of redis-persistent                        *)
(* (internal/cache/circuit_breaker.go): sony/gobreaker with the settings   *)
(* of NewCircuitBreakerClient, and the wrapper that turns its refusals     *)
(* into ErrCircuitOpen.                                                    *)
(*                                                                         *)
(* gobreaker counts the requests of a generation. A state change and the   *)
(* end of the interval start a new generation; what a request of an        *)
(* earlier one reports is ignored. Instead of numbering the generations    *)
(* the module keeps the calls of the present one in counted.               *)
(***************************************************************************)
EXTENDS Integers, FiniteSets

CONSTANTS
    Reader,             \* the goroutines that use the breaker
    MaxRequests,        \* 3: probes in the half-open state
    ConsecutiveLimit,   \* 5: consecutive failures that trip the breaker
    VolumeLimit,        \* 10: requests from which the failure rate counts
    MaxInGeneration     \* model bound: requests of a closed generation

ASSUME CircuitBreakerAssumption ==
    /\ IsFiniteSet(Reader)
    /\ MaxRequests \in Nat \ {0}
    /\ ConsecutiveLimit \in Nat \ {0}
    /\ VolumeLimit \in Nat
    /\ MaxInGeneration \in Nat

VARIABLES
    breaker,    \* gobreaker's state
    counts,     \* gobreaker's Counts, of the present generation
    calling,    \* readers whose HGETALL is on its way
    counted     \* those of them whose request belongs to the present generation

breakerVars == <<breaker, counts, calling, counted>>

Counts == [requests : Nat, successes : Nat, failures : Nat,
           successesInRow : Nat, failuresInRow : Nat]

NoCounts == [requests |-> 0, successes |-> 0, failures |-> 0,
             successesInRow |-> 0, failuresInRow |-> 0]

BreakerTypeOK ==
    /\ breaker \in {"closed", "open", "halfOpen"}
    /\ counts \in Counts
    /\ calling \subseteq Reader
    /\ counted \subseteq calling

BreakerInit ==
    /\ breaker = "closed"
    /\ counts = NoCounts
    /\ calling = {}
    /\ counted = {}

-----------------------------------------------------------------------------
\* The ReadyToTrip of NewCircuitBreakerClient; the failure rate is compared
\* without the division.
ReadyToTrip(n) ==
    \/ n.failuresInRow >= ConsecutiveLimit
    \/ n.requests >= VolumeLimit /\ 2 * n.failures > n.requests

\* setState and toNewGeneration: the counts are cleared, and the calls on
\* their way no longer count.
SetStateOnly(state) ==
    /\ breaker' = state
    /\ counts' = NoCounts
    /\ UNCHANGED counted

SetState(state) ==
    /\ breaker' = state
    /\ counts' = NoCounts
    /\ counted' = {}

\* beforeRequest: open refuses, half-open admits MaxRequests in all.
AdmitsWhenClosed == breaker = "closed"

Admits ==
    \/ breaker = "closed"
    \/ breaker = "halfOpen" /\ counts.requests < MaxRequests

BeforeRequest(r) ==
    /\ r \notin calling
    /\ Admits
    /\ breaker = "closed" => counts.requests < MaxInGeneration
    /\ counts' = [counts EXCEPT !.requests = @ + 1]
    /\ calling' = calling \cup {r}
    /\ counted' = counted \cup {r}
    /\ UNCHANGED breaker

\* ErrOpenState or ErrTooManyRequests: ErrCircuitOpen for the caller.
Refuse(r) ==
    /\ r \notin calling
    /\ ~Admits
    /\ UNCHANGED breakerVars

Succeeded == [requests |-> counts.requests, successes |-> counts.successes + 1,
              failures |-> counts.failures,
              successesInRow |-> counts.successesInRow + 1, failuresInRow |-> 0]
Failed == [requests |-> counts.requests, successes |-> counts.successes,
           failures |-> counts.failures + 1, successesInRow |-> 0,
           failuresInRow |-> counts.failuresInRow + 1]

OnSuccessNeverCloses(r) ==
    /\ counts' = Succeeded
    /\ counted' = counted \ {r}
    /\ UNCHANGED breaker

OnSuccess(r) ==
    IF breaker = "halfOpen" /\ Succeeded.successesInRow >= MaxRequests
    THEN SetState("closed")
    ELSE /\ counts' = Succeeded
         /\ counted' = counted \ {r}
         /\ UNCHANGED breaker

OnFailure(r) ==
    IF breaker = "halfOpen" \/ ReadyToTrip(Failed)
    THEN SetState("open")
    ELSE /\ counts' = Failed
         /\ counted' = counted \ {r}
         /\ UNCHANGED breaker

\* afterRequest: a result of an earlier generation is ignored.
OfThisGenerationOrNot(r) == breaker # "open"
OfThisGeneration(r) == r \in counted

AfterRequest(r, ok) ==
    /\ r \in calling
    /\ calling' = calling \ {r}
    /\ IF OfThisGeneration(r)
       THEN IF ok THEN OnSuccess(r) ELSE OnFailure(r)
       ELSE UNCHANGED <<breaker, counts, counted>>

\* currentState, which every request evaluates first: the interval of a closed
\* breaker (60 s) or the timeout of an open one (30 s) is over. Nobody looks
\* at the state in between, so the change may as well come at once.
IntervalEnds ==
    /\ breaker = "closed"
    /\ counts # NoCounts
    /\ SetState("closed")
    /\ UNCHANGED calling

TimeoutEnds ==
    /\ breaker = "open"
    /\ SetState("halfOpen")
    /\ UNCHANGED calling

\* The API process dies and starts again with a new breaker.
Restart ==
    /\ SetState("closed")
    /\ calling' = {}

BreakerNext ==
    \/ \E r \in Reader : BeforeRequest(r) \/ \E ok \in BOOLEAN : AfterRequest(r, ok)
    \/ IntervalEnds
    \/ TimeoutEnds
    \/ Restart

BreakerSpec == BreakerInit /\ [][BreakerNext]_breakerVars

-----------------------------------------------------------------------------
(* What must hold                                                          *)

\* Every request the breaker counted is on its way or counted once as success
\* or failure; results that come in after a state change or the end of an
\* interval disturb no later count.
CountsAgree ==
    counts.requests = counts.successes + counts.failures + Cardinality(counted)

\* A half-open breaker that admits nobody any more still waits for the result
\* of a probe, which opens or closes it: it does not refuse for ever.
HalfOpenDecides == breaker = "halfOpen" /\ ~Admits => counted # {}
=============================================================================
