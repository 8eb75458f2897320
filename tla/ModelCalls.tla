------------------------------ MODULE ModelCalls ------------------------------
(***************************************************************************)
(* The requests to OpenRouter: the ladder of one scoring batch and of one   *)
(* tailoring (src/scorer.py, src/tailor/generate.py), the sink that writes  *)
(* each attempt to the store (src/processor/llm_sink.py), the day's budget  *)
(* that stops the stages (src/jobstore/budget.py, processor/llm_stages.py), *)
(* and the guard that reports a day on which fallback models answered       *)
(* (src/llm_fallback.py).                                                   *)
(*                                                                         *)
(* The budget's day is UTC, the guard's is Rome's, which begins earlier:    *)
(* time is counted in half days.  An attempt is a step from its start to    *)
(* the start of the next one, the pause between them included.              *)
(***************************************************************************)
EXTENDS Integers

CONSTANTS
    Stop,         \* llm_stop_at_requests
    TickBatches,  \* batches of one tick of the processor
    Retries,      \* attempts for one batch
    Transient,    \* _TRANSIENT_ATTEMPTS of a tailoring
    Malformed,    \* _MALFORMED_ATTEMPTS of a tailoring
    MinCalls,     \* min_calls of the guard
    Percent,      \* its share, in percent
    MaxNow,       \* half days (bound)
    MaxUpsets     \* tailorings, kills, failures of the sink and of the watchdog (bound)

ModelCallsAssumption ==
    /\ {TickBatches, MinCalls, MaxNow, MaxUpsets} \subseteq Nat
    /\ {Stop, Retries, Transient, Malformed} \subseteq Nat \ {0} /\ Percent \in 1..100
    /\ TickBatches * Retries < Stop + Retries   \* a tick that runs over midnight stays below the stop

VARIABLES
    now,     \* half days
    run,     \* the processor: where it is, the start of its tick, batches left, attempt, its start
    tail,    \* a tailoring: where it is, attempt, malformed answers, start of the attempt
    rows,    \* llm_calls of the stage that were answered, by the start of the call and the model
    budget,  \* llm_budget: requests by UTC day
    sent,    \* the day of the guard's last alert, in kv_state
    made,    \* history: the stage's requests by UTC day, but for those a fault kept out of the budget
    told,    \* history: alerts by day of Rome, but for those a dying watchdog could not note
    upsets   \* so far

vars == <<now, run, tail, rows, budget, sent, made, told, upsets>>

-----------------------------------------------------------------------------
Utc(t) == t \div 2
Rome(t) == (t + 1) \div 2 + 1    \* from 1; 0 is never
Models == {"primary", "fallback"}
Answers == Models \cup {"none"}

Idle == [at |-> "idle", tick |-> 0, left |-> 0, n |-> 0, started |-> 0]
NoTailoring == [at |-> "idle", n |-> 0, bad |-> 0, started |-> 0]

Init ==
    /\ now = 0 /\ run = Idle /\ tail = NoTailoring
    /\ rows = [t \in 0..MaxNow |-> [who \in Models |-> 0]]
    /\ budget = [d \in 0..Utc(MaxNow) |-> 0]
    /\ sent = 0
    /\ made = [d \in 0..Utc(MaxNow) |-> 0] /\ told = [d \in 1..Rome(MaxNow) |-> 0]
    /\ upsets = 0

-----------------------------------------------------------------------------
(* The sink.                                                                *)

\* An autocommitted row, then the budget: a failure leaves neither, or the row alone.
Kept == {"all", "row", "nothing"}
Charged(who, kept) == kept = "all"
Charge(t, who, kept) ==
    budget' = IF Charged(who, kept) THEN [budget EXCEPT ![Utc(t)] = @ + 1] ELSE budget
Failing(kept) ==
    /\ kept # "all" => upsets < MaxUpsets
    /\ upsets' = IF kept = "all" THEN upsets ELSE upsets + 1

\* One attempt of the stage is over, with the requests the next step starts.
Record(who, kept, next) ==
    LET charged == [made EXCEPT ![Utc(run.started)] = IF kept = "all" THEN @ ELSE @ - 1] IN
    /\ run.at = "call"
    /\ Failing(kept) /\ Charge(run.started, who, kept)
    /\ rows' = IF kept = "nothing" \/ who = "none" THEN rows ELSE [rows EXCEPT ![run.started][who] = @ + 1]
    /\ made' = IF next THEN [charged EXCEPT ![Utc(now)] = @ + 1] ELSE charged
    /\ UNCHANGED <<now, tail, sent, told>>

-----------------------------------------------------------------------------
(* The stage.                                                               *)

\* budget_open: the day is that of the tick's start.
BudgetOpen == budget[Utc(run.tick)] < Stop

Tick ==
    /\ run.at = "idle"
    /\ run' = [Idle EXCEPT !.at = "check", !.tick = now, !.left = TickBatches]
    /\ UNCHANGED <<now, tail, rows, budget, sent, made, told, upsets>>

StartBatch ==
    /\ run.at = "check" /\ run.left > 0 /\ BudgetOpen
    /\ run' = [run EXCEPT !.at = "call", !.left = @ - 1, !.n = 1, !.started = now]
    /\ made' = [made EXCEPT ![Utc(now)] = @ + 1]
    /\ UNCHANGED <<now, tail, rows, budget, sent, told, upsets>>

\* No batch is due, the budget is closed, max_batches were done, or the last stage broke off.
EndTick ==
    /\ run.at = "check"
    /\ run' = Idle
    /\ UNCHANGED <<now, tail, rows, budget, sent, made, told, upsets>>

Answered(who, kept) ==
    /\ Record(who, kept, FALSE)
    /\ run' = [run EXCEPT !.at = "check"]

\* An empty answer of some model, a throttle, an outage: tried again on the ladder.
TriedAgain(who, kept) ==
    /\ run.n < Retries
    /\ Record(who, kept, TRUE)
    /\ run' = [run EXCEPT !.n = @ + 1, !.started = now]

\* The ladder is used up, the quota is exhausted, or the error is none of these: the jobs are deferred and the
\* next batch follows.  Scoring and the combined stage break off, which leaves the batches of the next
\* stage or EndTick; the remote check goes on.
GivenUp(who, kept) ==
    /\ run.n = Retries \/ who = "none"
    /\ Record(who, kept, FALSE)
    /\ run' = [run EXCEPT !.at = "check"]

Kill ==
    /\ run.at # "idle" /\ upsets < MaxUpsets
    /\ run' = Idle
    /\ made' = IF run.at = "call" THEN [made EXCEPT ![Utc(run.started)] = @ - 1] ELSE made
    /\ upsets' = upsets + 1
    /\ UNCHANGED <<now, tail, rows, budget, sent, told>>

-----------------------------------------------------------------------------
(* A tailoring, of another service: it asks no budget.                      *)

StartTailoring ==
    /\ tail.at = "idle" /\ upsets < MaxUpsets
    /\ tail' = [at |-> "call", n |-> 1, bad |-> 0, started |-> now]
    /\ upsets' = upsets + 1
    /\ UNCHANGED <<now, run, rows, budget, sent, made, told>>

\* generate: a second malformed answer and a last transient error are raised.
Tailoring(outcome, kept) ==
    LET bad == IF outcome = "malformed" THEN tail.bad + 1 ELSE tail.bad
        again == /\ outcome \in {"malformed", "transient"}
                 /\ bad < Malformed /\ tail.n < Transient
    IN
    /\ tail.at = "call"
    /\ Failing(kept) /\ Charge(tail.started, "none", kept)
    /\ tail' = IF again THEN [tail EXCEPT !.n = @ + 1, !.bad = bad, !.started = now]
               ELSE NoTailoring
    /\ UNCHANGED <<now, run, rows, sent, made, told>>

-----------------------------------------------------------------------------
(* The guard.                                                               *)

\* _day_bounds: the two half days of a day of Rome.
OfDay(day) == <<2 * day - 3, 2 * day - 2>>
Started(t, who) == IF t \in 0..MaxNow THEN rows[t][who] ELSE 0
Number(day, who) == Started(OfDay(day)[1], who) + Started(OfDay(day)[2], who)
OverThreshold(day) ==
    LET answered == Number(day, "primary") + Number(day, "fallback") IN
    answered > 0 /\ answered >= MinCalls /\ Number(day, "fallback") * 100 > Percent * answered

\* run_guard: the alert, then its day; a refused alert is tried by the next check, and a watchdog that
\* dies or loses the store in between repeats it.
RunGuard(heard) ==
    /\ OverThreshold(Rome(now)) /\ sent # Rome(now)
    /\ heard = "unnoted" => upsets < MaxUpsets
    /\ sent' = IF heard = "noted" THEN Rome(now) ELSE sent
    /\ told' = IF heard = "noted" THEN [told EXCEPT ![Rome(now)] = @ + 1] ELSE told
    /\ upsets' = IF heard = "unnoted" THEN upsets + 1 ELSE upsets
    /\ UNCHANGED <<now, run, tail, rows, budget, made>>

Later ==
    /\ now < MaxNow
    /\ now' = now + 1
    /\ UNCHANGED <<run, tail, rows, budget, sent, made, told, upsets>>

Next ==
    \/ Tick \/ StartBatch \/ EndTick \/ Kill \/ StartTailoring \/ Later
    \/ \E kept \in Kept :
          \/ \E who \in Answers : Answered(who, kept) \/ TriedAgain(who, kept) \/ GivenUp(who, kept)
          \/ \E outcome \in {"good", "malformed", "transient", "fatal"} : Tailoring(outcome, kept)
    \/ \E heard \in {"noted", "refused", "unnoted"} : RunGuard(heard)

Spec == Init /\ [][Next]_vars

-----------------------------------------------------------------------------
(* Properties.                                                              *)

TypeOK ==
    /\ now \in 0..MaxNow /\ upsets \in 0..MaxUpsets
    /\ run \in [at : {"idle", "check", "call"}, tick : 0..MaxNow, left : 0..TickBatches, n : 0..Retries,
                started : 0..MaxNow]
    /\ tail \in [at : {"idle", "call"}, n : 0..Transient, bad : 0..(Malformed - 1),
                 started : 0..MaxNow]
    /\ rows \in [0..MaxNow -> [Models -> Nat]] /\ budget \in [0..Utc(MaxNow) -> Nat]
    /\ sent \in 0..Rome(MaxNow)
    /\ made \in [0..Utc(MaxNow) -> Nat] /\ told \in [1..Rome(MaxNow) -> Nat]

\* The stages leave room for tailoring under the account's limit: on a UTC day they make at most one
\* ladder of attempts past the stop line, whatever the retries, the ticks that run over midnight and
\* the other services' requests, but for the attempts a fault kept out of the budget.
RoomIsLeft == \A d \in DOMAIN made : made[d] =< Stop - 1 + Retries

\* The guard reports a day once, and only a day of Rome on which a fallback model did answer.
AlertsAreOfTheirDay ==
    \A d \in DOMAIN told :
        /\ told[d] =< 1
        /\ told[d] = 1 => \E t \in 0..MaxNow : Rome(t) = d /\ rows[t]["fallback"] > 0
=============================================================================
