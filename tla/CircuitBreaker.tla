--------------------------- MODULE CircuitBreaker ---------------------------
(***************************************************************************)
(* internal/llm/circuit_breaker.go: CircuitBreakerLLM, the breaker that    *)
(* main.go puts between the prompt cache and the Bedrock backend.  Any     *)
(* number of goroutines call Complete at once; the mutex protects          *)
(* currentState, onSuccess and onFailure, but not the primary call made    *)
(* between them, so an outcome is recorded in whatever state the circuit   *)
(* has reached by then.                                                    *)
(*                                                                         *)
(* Abstractions: time is the age of the last state change, counted in      *)
(* ticks and no further than the cooldown, because the code only ever      *)
(* compares it with the cooldown; the two statistics successes and         *)
(* totalRejected, which no branch reads, are left out.                     *)
(***************************************************************************)
EXTENDS Naturals, FiniteSets

CONSTANTS
    Clients,     \* goroutines that call Complete, each one call at a time
    Threshold,   \* failureThreshold: consecutive failures that open the circuit
    Cooldown,    \* cooldownPeriod, in ticks
    MaxFailures  \* bound of the model: no failure is recorded past this count

ASSUME ThresholdAssumption == Threshold \in Nat \ {0}
ASSUME CooldownAssumption == Cooldown \in Nat \ {0}
ASSUME MaxFailuresAssumption == MaxFailures \in Nat

VARIABLES
    state,      \* cb.state
    failures,   \* cb.failures
    elapsed,    \* time.Since(cb.lastStateChange), no further than Cooldown
    pc,         \* where each caller is in Complete
    admitted,   \* the local variable `state` of each caller's Complete
    answer,     \* what the caller's last Complete returned
    primaryUp,  \* environment: does the primary backend answer?
    exposed,    \* environment: calls that an outage or their own context may fail
    streak,     \* history: failures recorded since the last recorded success
    openFor     \* history: ticks since the circuit last tripped

breaker == <<state, failures, elapsed>>
history == <<streak, openFor>>
breakerVars == <<state, failures, elapsed, pc, admitted, answer, primaryUp, exposed,
          streak, openFor>>

States  == {"CLOSED", "OPEN", "HALF_OPEN"}
Reasons == {"circuit_open", "primary_error"}
\* An answer of the fallback carries metadata["circuit_breaker"] = the reason.
Answers == {"none", "primary", "error"} \cup Reasons
Points  == {"idle", "primary", "fallback"}

BreakerTypeOK ==
    /\ state \in States
    /\ failures \in Nat
    /\ elapsed \in 0..Cooldown
    /\ pc \in [Clients -> Points]
    /\ admitted \in [Clients -> States]
    /\ answer \in [Clients -> Answers]
    /\ primaryUp \in BOOLEAN
    /\ exposed \subseteq Clients
    /\ streak \in Nat
    /\ openFor \in 0..Cooldown

BreakerInit ==
    /\ state = "CLOSED"
    /\ failures = 0
    /\ elapsed = 0
    /\ pc = [c \in Clients |-> "idle"]
    /\ admitted = [c \in Clients |-> "CLOSED"]
    /\ answer = [c \in Clients |-> "none"]
    /\ primaryUp = TRUE
    /\ exposed = {}
    /\ streak = 0
    /\ openFor = 0

-----------------------------------------------------------------------------
(* The three critical sections.                                            *)

\* The state a caller finds: OPEN turns into HALF_OPEN once the cooldown is over.
CurrentState ==
    IF state = "OPEN" /\ elapsed >= Cooldown THEN "HALF_OPEN" ELSE state

\* A variant that counts one failure down instead of forgetting them all.
OnSuccess_Decrements ==
    /\ state' = IF state = "HALF_OPEN" THEN "CLOSED" ELSE state
    /\ failures' = IF state = "OPEN" THEN failures ELSE failures - 1
    /\ elapsed' = IF state = "HALF_OPEN" THEN 0 ELSE elapsed

\* A variant that forgets the failures only while CLOSED.
OnSuccess_KeepsFailures ==
    /\ state' = IF state = "HALF_OPEN" THEN "CLOSED" ELSE state
    /\ failures' = IF state = "CLOSED" THEN 0 ELSE failures
    /\ elapsed' = IF state = "HALF_OPEN" THEN 0 ELSE elapsed

\* A variant that ignores a success which finds the circuit HALF_OPEN.
OnSuccess_IgnoresProbe ==
    /\ state' = state
    /\ failures' = IF state = "CLOSED" THEN 0 ELSE failures
    /\ elapsed' = elapsed

OnSuccess ==
    /\ state' = IF state = "HALF_OPEN" THEN "CLOSED" ELSE state
    /\ failures' = IF state = "OPEN" THEN failures ELSE 0
    /\ elapsed' = IF state = "HALF_OPEN" THEN 0 ELSE elapsed

\* A variant that opens the circuit one failure late.
OnFailure_OffByOne ==
    LET trips == state = "HALF_OPEN" \/ (state = "CLOSED" /\ failures >= Threshold)
    IN  /\ failures' = failures + 1
        /\ state' = IF trips THEN "OPEN" ELSE state
        /\ elapsed' = IF trips THEN 0 ELSE elapsed

\* A variant that does not stamp the change of state.
OnFailure_KeepsTimestamp ==
    LET trips == state = "HALF_OPEN" \/ (state = "CLOSED" /\ failures + 1 >= Threshold)
    IN  /\ failures' = failures + 1
        /\ state' = IF trips THEN "OPEN" ELSE state
        /\ elapsed' = elapsed

OnFailure ==
    LET trips == state = "HALF_OPEN" \/ (state = "CLOSED" /\ failures + 1 >= Threshold)
    IN  /\ failures' = failures + 1
        /\ state' = IF trips THEN "OPEN" ELSE state
        /\ elapsed' = IF trips THEN 0 ELSE elapsed

-----------------------------------------------------------------------------
(* Complete.                                                               *)

\* currentState, then the branch on it: reject to the fallback, or call the
\* primary.  A call made during an outage is exposed to it.
Begin(c) ==
    LET found == CurrentState
    IN  /\ pc[c] = "idle"
        /\ state' = found
        /\ elapsed' = IF found # state THEN 0 ELSE elapsed
        /\ admitted' = [admitted EXCEPT ![c] = found]
        /\ pc' = [pc EXCEPT ![c] = IF found = "OPEN" THEN "fallback" ELSE "primary"]
        /\ answer' = [answer EXCEPT ![c] = "none"]
        /\ exposed' = IF found = "OPEN" \/ primaryUp THEN exposed ELSE exposed \cup {c}
        /\ UNCHANGED <<failures, primaryUp, streak, openFor>>

\* The primary answered: onSuccess, and the answer goes out unlabelled.
PrimarySucceeds(c) ==
    /\ pc[c] = "primary"
    /\ OnSuccess
    /\ pc' = [pc EXCEPT ![c] = "idle"]
    /\ answer' = [answer EXCEPT ![c] = "primary"]
    /\ exposed' = exposed \ {c}
    /\ streak' = 0
    /\ UNCHANGED <<admitted, primaryUp, openFor>>

\* The primary failed, or the call's own context ended: onFailure, then the
\* fallback.
PrimaryFails(c) ==
    /\ pc[c] = "primary"
    /\ c \in exposed
    /\ failures < MaxFailures
    /\ OnFailure
    /\ pc' = [pc EXCEPT ![c] = "fallback"]
    /\ exposed' = exposed \ {c}
    /\ streak' = streak + 1
    /\ openFor' = IF state # "OPEN" /\ state' = "OPEN" THEN 0 ELSE openFor
    /\ UNCHANGED <<admitted, answer, primaryUp>>

PrimaryReturns(c) == PrimarySucceeds(c) \/ PrimaryFails(c)

\* invokeFallback: the fallback's answer is labelled with why it was asked.
FallbackReturns(c) ==
    /\ pc[c] = "fallback"
    /\ pc' = [pc EXCEPT ![c] = "idle"]
    /\ \E got \in {"ok", "error"} :
          answer' = [answer EXCEPT ![c] =
                        IF got = "error" THEN "error"
                        ELSE IF admitted[c] = "OPEN" THEN "circuit_open"
                        ELSE "primary_error"]
    /\ UNCHANGED <<breaker, admitted, primaryUp, exposed, history>>

-----------------------------------------------------------------------------
(* The environment.                                                        *)

\* One unit of time passes.
Tick ==
    /\ elapsed < Cooldown \/ openFor < Cooldown
    /\ elapsed' = IF elapsed < Cooldown THEN elapsed + 1 ELSE elapsed
    /\ openFor' = IF openFor < Cooldown THEN openFor + 1 ELSE openFor
    /\ UNCHANGED <<state, failures, pc, admitted, answer, primaryUp, exposed, streak>>

\* The primary goes down: every call in flight may fail.
Outage ==
    /\ primaryUp
    /\ primaryUp' = FALSE
    /\ exposed' = {c \in Clients : pc[c] = "primary"}
    /\ UNCHANGED <<breaker, pc, admitted, answer, history>>

Recover ==
    /\ ~primaryUp
    /\ primaryUp' = TRUE
    /\ UNCHANGED <<breaker, pc, admitted, answer, exposed, history>>

\* The deadline of one call passes, or its caller is shut down.
Expire(c) ==
    /\ pc[c] = "primary"
    /\ c \notin exposed
    /\ exposed' = exposed \cup {c}
    /\ UNCHANGED <<breaker, pc, admitted, answer, primaryUp, history>>

BreakerNext ==
    \/ \E c \in Clients :
          \/ Begin(c)
          \/ PrimarySucceeds(c)
          \/ PrimaryFails(c)
          \/ FallbackReturns(c)
          \/ Expire(c)
    \/ Tick
    \/ Outage
    \/ Recover

\* Time passes, and both backends return from every call they were given: each
\* LLM call of the handlers carries a deadline and the fallback is local.
BreakerFairness ==
    /\ WF_breakerVars(Tick)
    /\ \A c \in Clients : WF_breakerVars(PrimaryReturns(c)) /\ WF_breakerVars(FallbackReturns(c))

BreakerSpec == BreakerInit /\ [][BreakerNext]_breakerVars /\ BreakerFairness

-----------------------------------------------------------------------------
(* Safety.                                                                 *)

\* The two fields agree at every moment, whatever late outcomes calls of an
\* earlier state record: onSuccess and onFailure keep the circuit CLOSED exactly
\* as long as the failure count is below the threshold.
ClosedIffBelowThreshold == state = "CLOSED" <=> failures < Threshold

\* currentState never leaves the circuit waiting in HALF_OPEN with no call whose
\* outcome will decide it: some caller is then inside the primary.
ProbeInFlight == state = "HALF_OPEN" => \E c \in Clients : pc[c] = "primary"

\* "If the primary backend fails failureThreshold consecutive times, the circuit
\* OPENS": a CLOSED circuit opens in the step that records the threshold-th
\* failure in a row, and in no other, although successes and failures of
\* concurrent calls, some begun before the last opening, are recorded in between.
OpensExactlyOnStreak ==
    [][state = "CLOSED" => (state' = "OPEN" <=> streak' >= Threshold)]_breakerVars

\* "all subsequent calls fail fast to fallback ... for cooldownPeriod": a call is
\* kept from the primary exactly while the circuit is OPEN and tripped less than a
\* cooldown ago; late failures recorded meanwhile neither shorten nor extend that.
FailFastExactlyForCooldown ==
    [][\A c \in Clients :
          pc[c] = "idle" /\ pc'[c] # "idle"
            => (pc'[c] = "fallback" <=> state = "OPEN" /\ openFor < Cooldown)]_breakerVars

\* The comment of StateHalfOpen: "Cooldown elapsed: probing primary with 1 test
\* request".  currentState hands HALF_OPEN to every caller, so it does not hold.
OneTestRequest ==
    Cardinality({c \in Clients : pc[c] = "primary" /\ admitted[c] = "HALF_OPEN"}) <= 1

-----------------------------------------------------------------------------
(* Liveness.                                                               *)

Healthy == primaryUp /\ exposed = {}

\* Once the primary stays healthy and requests keep arriving, the circuit closes
\* for good: no interleaving of stale outcomes keeps it open.
RecoversWhenHealthy ==
    (<>[]Healthy /\ []<><<\E c \in Clients : Begin(c)>>_breakerVars) => <>[](state = "CLOSED")

=============================================================================
