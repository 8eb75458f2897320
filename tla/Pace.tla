-------------------------------- MODULE Pace --------------------------------
(***************************************************************************)
(* The shared LinkedIn pace (src/linkedin/pace.py): one row of             *)
(* pace_budgets, one Postgres session advisory lock, and the services that *)
(* loop in PaceBudget.slot until they get a turn, give up, are stopped or  *)
(* find the gate shut.                                                     *)
(*                                                                         *)
(* Time is discrete and every deadline is kept as the time left until it,  *)
(* so that the state space is finite: next, wait and marker run down with  *)
(* Tick.  A poll of a busy lock and a yield both last one tick.  A tick    *)
(* passes only while nobody has a step to take, that is, the statements    *)
(* between two sleeps take no time but interleave in every order.          *)
(***************************************************************************)
EXTENDS Integers, FiniteSets

CONSTANTS
  Services,      \* the processes that share the pace
  KindOf,        \* the kind of request each of them asks for
  GiveUpAfter,   \* give_up_after of each, or NoBound
  NoBound,       \* a service that waits for ever
  Stoppable,     \* the services whose budget was given the stop event
  Spacings,      \* the jittered spacings the effective base can produce
  LongestStart,  \* the longest jittered spacing of the schedule's own base
  FirstWaits,    \* the jittered first refusal waits
  RetryAfters,   \* the Retry-After values LinkedIn may send
  MaxWait,       \* refusals.max_wait_seconds
  StreakCap,     \* refusals beyond this many in a row are counted as this many
  RunCap,        \* description_run_cap(description_turn_share)
  Lifetime,      \* how long a wanting marker counts as fresh
  Chunk,         \* the longest single sleep of a waiter
  MaxRequest,    \* the HTTP timeout: a request is answered within it
  WaitedCap,     \* elapsed waiting beyond this much is counted as this much
  Events         \* which of the environment's events happen

Kinds == {"search", "description", "packaging"}
EnvironmentEvents == {"stop", "window", "block", "crash", "session"}
Free == "nobody holds the lock"

ASSUME ServicesAssumption ==
  /\ Free \notin Services
  /\ KindOf \in [Services -> Kinds]
  /\ \A s, t \in Services : KindOf[s] = KindOf[t] => s = t
  /\ Stoppable \subseteq Services
  /\ Events \subseteq EnvironmentEvents

ASSUME DurationsAssumption ==
  /\ NoBound \notin Nat
  /\ GiveUpAfter \in [Services -> Nat \cup {NoBound}]
  /\ Spacings \subseteq Nat /\ Spacings # {}
  /\ FirstWaits \subseteq Nat \ {0} /\ RetryAfters \subseteq Nat
  /\ LongestStart \in Nat /\ MaxWait \in Nat /\ MaxRequest \in Nat
  /\ StreakCap \in Nat \ {0} /\ RunCap \in Nat \ {0}
  /\ Lifetime \in Nat /\ Chunk \in Nat \ {0} /\ WaitedCap \in Nat

\* A waiter's marker is still fresh when its sleep is over: it sleeps at most
\* WAIT_CHUNK_SECONDS = 15 and counts for WANTING_FRESH_SECONDS = 30.
ASSUME LifetimeAssumption == Chunk < Lifetime

VARIABLES
  pc,        \* where each service is in slot()
  timer,     \* time left of a sleep, or of the HTTP timeout of a request
  waited,    \* time since slot() was entered, for a service with a bound
  overdue,   \* the services that called slot(overdue=True)
  held,      \* the row and the markers a service loaded under the lock
  budget,    \* the stored row of pace_budgets, but for its wanting column
  marker,    \* the wanting column: how long each kind's marker stays fresh
  lock,      \* the session that holds the advisory lock
  severed,   \* the services whose database session dropped under a request
  stopping,  \* the services asked to stop
  shut,      \* the closed window is on
  passed     \* turns others finished while each service waits (observation)

\* What a call of slot() keeps, and what comes from outside the services.
call == <<waited, overdue, held, passed>>
env == <<severed, stopping, shut>>

vars == <<pc, timer, call, budget, marker, lock, env>>

-----------------------------------------------------------------------------
(* The stored row *)

Rows == [next: Nat, wait: 0..MaxWait, streak: 0..StreakCap, run: 0..(RunCap + 1),
         blocked: BOOLEAN]

FreshRow == [next |-> 0, wait |-> 0, streak |-> 0, run |-> 0, blocked |-> FALSE]

NoMarkers == [k \in Kinds |-> 0]

NothingLoaded == [row |-> FreshRow, markers |-> NoMarkers]

Lesser(a, b) == IF a < b THEN a ELSE b
Greater(a, b) == IF a < b THEN b ELSE a
Down(n) == IF n > 0 THEN n - 1 ELSE 0

\* A turn needs the spacing and the refusal wait to be over.
Remaining(row) == Greater(row.next, row.wait)

\* How long a refusal makes the host wait: Retry-After if there is one, else
\* a first wait doubled per refusal in a row, both capped.
RefusalWaits(streak) ==
  {w \in 0..MaxWait :
     \/ \E r \in RetryAfters : w = Lesser(r, MaxWait)
     \/ \E f \in FirstWaits : w = Lesser(f * 2^(streak - 1), MaxWait)}

\* A closed window or a paused day shuts the gate; the request count never does.
GateOpen(row) == ~row.blocked /\ ~shut

Fresh(markers, kind) == markers[kind] > 0

\* Mutant: packaging competes like any other kind.
YieldWithoutPackaging(row, markers, kind) ==
  \/ kind = "description" /\ Fresh(markers, "search") /\ row.run >= RunCap
  \/ kind = "search" /\ Fresh(markers, "description") /\ row.run < RunCap

\* Mutant: the run of descriptions is cut one turn late.
YieldOneTurnLate(row, markers, kind) ==
  /\ kind # "packaging"
  /\ \/ Fresh(markers, "packaging")
     \/ kind = "description" /\ Fresh(markers, "search") /\ row.run > RunCap
     \/ kind = "search" /\ Fresh(markers, "description") /\ row.run <= RunCap

\* Mutant: a search gives way whenever a description waits.
SearchAlwaysYields(row, markers, kind) ==
  /\ kind # "packaging"
  /\ \/ Fresh(markers, "packaging")
     \/ kind = "search" /\ Fresh(markers, "description")

\* Who gives way when several kinds wait.
MustYield(row, markers, kind) ==
  /\ kind # "packaging"
  /\ \/ Fresh(markers, "packaging")
     \/ /\ kind = "description"
        /\ Fresh(markers, "search")
        /\ row.run >= RunCap
     \/ /\ kind = "search"
        /\ Fresh(markers, "description")
        /\ row.run < RunCap

\* The longest a caller may spend waiting; packaging outlasts one spacing of
\* the schedule's own base plus two yields.
GiveUpBound(s) ==
  IF GiveUpAfter[s] = NoBound \/ KindOf[s] # "packaging"
  THEN GiveUpAfter[s]
  ELSE Greater(GiveUpAfter[s], LongestStart + 2)

\* What _record makes of the loaded row.
RunAfter(row, kind) ==
  CASE kind = "description" -> Lesser(row.run + 1, RunCap + 1)
    [] kind = "search"      -> 0
    [] kind = "packaging"   -> row.run

Recorded(row, kind, outcome, spacing, wait, blocks) ==
  [next    |-> spacing,
   wait    |-> CASE outcome = "clean"     -> 0
                 [] outcome = "throttled" -> wait
                 [] outcome = "neutral"   -> row.wait,
   streak  |-> CASE outcome = "clean"     -> 0
                 [] outcome = "throttled" -> Lesser(row.streak + 1, StreakCap)
                 [] outcome = "neutral"   -> row.streak,
   run     |-> RunAfter(row, kind),
   blocked |-> blocks]

-----------------------------------------------------------------------------
Init ==
  /\ pc = [s \in Services |-> "idle"]
  /\ timer = [s \in Services |-> 0]
  /\ waited = [s \in Services |-> 0]
  /\ overdue = {}
  /\ held = [s \in Services |-> NothingLoaded]
  /\ budget = FreshRow
  /\ marker = NoMarkers
  /\ lock = Free
  /\ severed = {}
  /\ stopping = {}
  /\ shut = FALSE
  /\ passed = [s \in Services |-> 0]

Goto(s, label) == pc' = [pc EXCEPT ![s] = label]

\* A sleep of n ticks, or a request answered within n.
For(s, n) == timer' = [timer EXCEPT ![s] = n]

DropMarker(s) == marker' = [marker EXCEPT ![KindOf[s]] = 0]

Unlock(s) == lock' = IF lock = s THEN Free ELSE lock

\* The call of slot() is over.  The caller deals with what came of it, or
\* idles, for at least a tick before it calls again.
Leave(s, label) ==
  /\ Goto(s, label)
  /\ For(s, 1)
  /\ waited' = [waited EXCEPT ![s] = 0]
  /\ overdue' = overdue \ {s}
  /\ held' = [held EXCEPT ![s] = NothingLoaded]
  /\ passed' = [passed EXCEPT ![s] = 0]

\* Mutant: the caller's marker stays behind.
QuitWanting(s) == Leave(s, "idle") /\ Unlock(s) /\ UNCHANGED <<budget, marker, env>>

\* Leave without a request, taking the marker and the lock along.
Quit(s) ==
  Leave(s, "idle") /\ DropMarker(s) /\ Unlock(s) /\ UNCHANGED <<budget, env>>

\* The lock is released first, and the marker still stands for a while.
UnlockFirst(s) ==
  Leave(s, "leaving") /\ Unlock(s) /\ UNCHANGED <<budget, marker, env>>

\* Somebody calls slot(kind, overdue=...).
Call(s) ==
  /\ pc[s] = "idle"
  /\ timer[s] = 0
  /\ Goto(s, "ask")
  /\ overdue' \in {overdue, overdue \cup {s}}
  /\ KindOf[s] # "description" => overdue' = overdue
  /\ UNCHANGED <<timer, waited, held, passed, budget, marker, lock, env>>

\* The head of the loop: a stop leaves, anything else declares the marker.
StopBeforeLock(s) == pc[s] = "ask" /\ s \in stopping /\ Quit(s)

DeclareWanting(s) ==
  /\ pc[s] = "ask"
  /\ s \notin stopping
  /\ Goto(s, "lock")
  /\ marker' = [marker EXCEPT ![KindOf[s]] = Lifetime]
  /\ UNCHANGED <<timer, call, budget, lock, env>>

LockBusy(s) ==
  /\ pc[s] = "lock"
  /\ lock # Free
  /\ Goto(s, "asleep")
  /\ For(s, 1)
  /\ UNCHANGED <<call, budget, marker, lock, env>>

\* Mutant: the answer of pg_try_advisory_lock is ignored.
AskedForLock(s) == pc[s] = "lock"

GotLock(s) == pc[s] = "lock" /\ lock = Free

\* The lock is taken and the row, its wanting column included, is loaded.
Acquire(s) ==
  /\ GotLock(s)
  /\ lock' = s
  /\ held' = [held EXCEPT ![s] = [row |-> budget, markers |-> marker]]
  /\ Goto(s, "turn")
  /\ UNCHANGED <<timer, waited, overdue, passed, budget, marker, env>>

GateShut(s) == pc[s] = "turn" /\ ~GateOpen(held[s].row) /\ Quit(s)

StopAtTurn(s) ==
  /\ pc[s] = "turn"
  /\ GateOpen(held[s].row)
  /\ s \in stopping
  /\ UnlockFirst(s)

AtTurn(s) ==
  /\ pc[s] = "turn"
  /\ GateOpen(held[s].row)
  /\ s \notin stopping

TurnIsMine(s) ==
  /\ Remaining(held[s].row) = 0
  /\ ~MustYield(held[s].row, held[s].markers, KindOf[s])

\* The lock is kept and the request goes out; of what was loaded and counted
\* only the row is used again.
TakeTurn(s) ==
  /\ AtTurn(s)
  /\ TurnIsMine(s)
  /\ Goto(s, "request")
  /\ For(s, MaxRequest)
  /\ held' = [held EXCEPT ![s].markers = NoMarkers]
  /\ waited' = [waited EXCEPT ![s] = 0]
  /\ overdue' = overdue \ {s}
  /\ UNCHANGED <<passed, budget, marker, lock, env>>

\* How long the waiter sleeps: the rest of the wait in chunks, or one yield.
Pause(s) ==
  IF Remaining(held[s].row) > 0 THEN Lesser(Remaining(held[s].row), Chunk) ELSE 1

NextInLine(s) == s \in overdue /\ held[s].row.run < RunCap

OutOfPatience(s) ==
  /\ GiveUpBound(s) # NoBound
  /\ IF NextInLine(s) THEN Remaining(held[s].row) > GiveUpBound(s)
                      ELSE waited[s] + Pause(s) > GiveUpBound(s)

GiveUp(s) == AtTurn(s) /\ ~TurnIsMine(s) /\ OutOfPatience(s) /\ UnlockFirst(s)

DropOut(s) == pc[s] = "leaving" /\ Quit(s)

WaitForTurn(s) ==
  /\ AtTurn(s)
  /\ ~TurnIsMine(s)
  /\ ~OutOfPatience(s)
  /\ Goto(s, "asleep")
  /\ For(s, Pause(s))
  /\ held' = [held EXCEPT ![s] = NothingLoaded]
  /\ Unlock(s)
  /\ UNCHANGED <<waited, overdue, passed, budget, marker, env>>

\* A sleep ends when it is over, or early when a stop is asked for.
SleepOver(s) == timer[s] = 0 \/ s \in stopping

Wake(s) ==
  /\ pc[s] = "asleep"
  /\ SleepOver(s)
  /\ Goto(s, "ask")
  /\ For(s, 0)
  /\ UNCHANGED <<call, budget, marker, lock, env>>

\* Observation: a turn s finishes passes every service already in the queue,
\* that is, every one that has declared its marker.
Waiting(s) == pc[s] \notin {"idle", "request", "leaving"} /\ Fresh(marker, KindOf[s])

PassedBy(s) ==
  passed' = [t \in Services |->
    IF t = s THEN 0
    ELSE IF Waiting(t) /\ KindOf[s] # "packaging"
         THEN Lesser(passed[t] + 1, RunCap + 2)
         ELSE passed[t]]

\* Mutant: the save writes an empty wanting column.
NoMarkersAfterSave(s) == NoMarkers

\* wanting - kinds: the save removes the caller's own marker and no other.
MarkersAfterSave(s) == [marker EXCEPT ![KindOf[s]] = 0]

\* The answer is recorded in the row that was loaded before the request, the
\* row is saved, and the lock is released.
Finish(s) ==
  /\ pc[s] = "request"
  /\ s \notin severed
  /\ \E outcome \in {"clean", "throttled", "neutral"}, spacing \in Spacings,
        wait \in RefusalWaits(held[s].row.streak + 1), blocks \in BOOLEAN :
       /\ blocks => outcome # "clean" /\ "block" \in Events
       /\ budget' = Recorded(held[s].row, KindOf[s], outcome, spacing, wait, blocks)
  /\ marker' = MarkersAfterSave(s)
  /\ Unlock(s)
  /\ Goto(s, "idle")
  /\ For(s, 1)
  /\ held' = [held EXCEPT ![s] = NothingLoaded]
  /\ PassedBy(s)
  /\ UNCHANGED <<waited, overdue, env>>

-----------------------------------------------------------------------------
(* The environment *)

\* The database session drops under a request: the server frees the lock, the
\* request is still out, and nobody notices before the save.
LoseSession(s) ==
  /\ "session" \in Events
  /\ pc[s] = "request"
  /\ s \notin severed
  /\ severed' = severed \cup {s}
  /\ Unlock(s)
  /\ UNCHANGED <<pc, timer, call, budget, marker, stopping, shut>>

\* The answer comes back, but the save fails on the closed connection.
FailSave(s) ==
  /\ pc[s] = "request"
  /\ s \in severed
  /\ severed' = severed \ {s}
  /\ Leave(s, "idle")
  /\ UNCHANGED <<budget, marker, lock, stopping, shut>>

\* The process dies, or a statement raises: the lock goes with the session and
\* the marker stays behind.
Crash(s) ==
  /\ "crash" \in Events
  /\ pc[s] # "idle"
  /\ Leave(s, "idle")
  /\ Unlock(s)
  /\ severed' = severed \ {s}
  /\ stopping' = stopping \ {s}
  /\ UNCHANGED <<budget, marker, shut>>

RequestStop(s) ==
  /\ "stop" \in Events
  /\ s \in Stoppable \ stopping
  /\ stopping' = stopping \cup {s}
  /\ UNCHANGED <<pc, timer, call, budget, marker, lock, severed, shut>>

Restart(s) ==
  /\ pc[s] = "idle"
  /\ s \in stopping
  /\ stopping' = stopping \ {s}
  /\ UNCHANGED <<pc, timer, call, budget, marker, lock, severed, shut>>

\* The closed window opens or closes.
Window ==
  /\ "window" \in Events
  /\ shut' = ~shut
  /\ UNCHANGED <<pc, timer, call, budget, marker, lock, severed, stopping>>

\* Midnight in Rome: a day paused by the ladder is over.
NewDay ==
  /\ budget.blocked
  /\ budget' = [budget EXCEPT !.blocked = FALSE]
  /\ UNCHANGED <<pc, timer, call, marker, lock, env>>

\* Time passes only while every service is idle, asleep or in a request.
AtRest(s) ==
  \/ pc[s] = "idle"
  \/ pc[s] = "asleep" /\ ~SleepOver(s)
  \/ pc[s] = "request" /\ timer[s] > 0

Tick ==
  /\ \A s \in Services : AtRest(s)
  /\ timer' = [s \in Services |-> Down(timer[s])]
  /\ waited' = [s \in Services |->
       IF pc[s] = "asleep" /\ GiveUpAfter[s] # NoBound
       THEN Lesser(waited[s] + 1, WaitedCap) ELSE waited[s]]
  /\ budget' = [budget EXCEPT !.next = Down(@), !.wait = Down(@)]
  /\ marker' = [k \in Kinds |-> Down(marker[k])]
  /\ UNCHANGED <<pc, overdue, held, passed, lock, env>>

Step(s) ==
  \/ StopBeforeLock(s) \/ DeclareWanting(s) \/ LockBusy(s) \/ Acquire(s)
  \/ GateShut(s) \/ StopAtTurn(s) \/ TakeTurn(s) \/ GiveUp(s) \/ DropOut(s)
  \/ WaitForTurn(s) \/ Wake(s) \/ Finish(s) \/ FailSave(s)

Next ==
  \/ Tick
  \/ Window
  \/ NewDay
  \/ \E s \in Services :
       Step(s) \/ Call(s) \/ LoseSession(s) \/ Crash(s) \/ RequestStop(s) \/ Restart(s)

Spec == Init /\ [][Next]_vars

-----------------------------------------------------------------------------
(* Properties *)

TypeOK ==
  /\ pc \in [Services -> {"idle", "ask", "lock", "turn", "asleep", "request", "leaving"}]
  /\ timer \in [Services -> Nat]
  /\ waited \in [Services -> Nat]
  /\ overdue \subseteq Services
  /\ held \in [Services -> [row: Rows, markers: [Kinds -> Nat]]]
  /\ budget \in Rows
  /\ marker \in [Kinds -> Nat]
  /\ lock \in Services \cup {Free}
  /\ severed \subseteq Services
  /\ stopping \subseteq Services
  /\ shut \in BOOLEAN
  /\ passed \in [Services -> 0..(RunCap + 2)]

Requesting == {s \in Services : pc[s] = "request"}

\* "The collector and the processor cannot have two LinkedIn requests in
\* flight" (module docstring): the lock is kept from the moment the row is read
\* until the answer is saved, whatever is interleaved with it.
OneRequest == \A s, t \in Requesting : s = t

\* Without the session's death in between: two requests are only ever out when
\* one of them lost the database session that held its lock.
OneLockedRequest == \A s, t \in Requesting \ severed : s = t

\* The inductive strengthening: whoever is between taking the lock and saving
\* the answer holds it, unless his session is gone, and what he loaded still is
\* what is stored.  Only midnight may reopen a stored gate behind his back.
LockFollowsTheTurn ==
  \A s \in Services :
    lock = s <=> pc[s] \in {"turn", "request"} /\ s \notin severed

SeveredRequest == \A s \in severed : pc[s] = "request"

LoadedIsStored ==
  \A s \in Services : pc[s] = "turn" =>
    /\ held[s].row.next = budget.next
    /\ held[s].row.wait = budget.wait
    /\ budget.blocked => held[s].row.blocked

IInv == TypeOK /\ LockFollowsTheTurn /\ SeveredRequest /\ LoadedIsStored

\* A request starts only when the row as it is stored at that moment, and not
\* merely the copy the service loaded, says that the spacing and the refusal
\* wait are over and that the ladder has not paused the day.
TurnsFollowTheRow ==
  [][\A s \in Services : pc[s] # "request" /\ pc'[s] = "request" =>
       Remaining(budget) = 0 /\ ~budget.blocked]_vars

\* Neither a save nor a give-up loses the marker another service has declared
\* meanwhile: a step of a service touches no marker but its own.
OthersMarkersSurvive ==
  [][\A s, t \in Services : s # t /\ pc'[s] # pc[s] =>
       marker'[KindOf[t]] = marker[KindOf[t]]]_vars

\* A waiting packaging request takes the next turn: at most the one request
\* that was already past its check goes before it (must_yield).
PackagingIsNext ==
  \A s \in Services : KindOf[s] = "packaging" => passed[s] <= 1

\* When both kinds wait, descriptions take at most RunCap turns before the
\* search gets one, and a search never goes twice past a description.
TurnsAreShared ==
  \A s \in Services :
    /\ KindOf[s] = "search" => passed[s] <= RunCap
    /\ KindOf[s] = "description" => passed[s] <= 1

\* Nobody yields to a service that left the queue: every way out of slot()
\* takes the caller's marker along.  Only a death leaves a marker behind.
NoGhostInTheQueue ==
  Events \cap {"crash", "session"} = {} =>
    \A s \in Services : pc[s] = "idle" => ~Fresh(marker, KindOf[s])

(* The pace keeps its promise to the outside. *)
Turn == INSTANCE PaceTurn
          WITH out  <- Requesting,
               gap  <- Remaining(budget),
               Gaps <- {Greater(n, w) : n \in Spacings, w \in 0..MaxWait},
               MayAbandon <- "crash" \in Events

\* One request at a time, and after each recorded one a full spacing or refusal
\* wait that no other service can shorten.
KeepsItsPromise == Turn!Spec

-----------------------------------------------------------------------------
(* A service that can run does run, and time passes.  The strong part says  *)
(* that a waiter is not for ever in step with the others' checks, so that   *)
(* every poll of the lock would hit the milliseconds in which somebody else *)
(* holds it to look at the row: sleeps are not synchronised and the lock is *)
(* held longer only for a request, which ends.                              *)
Fairness ==
  /\ WF_vars(Tick)
  /\ \A s \in Services :
       /\ WF_vars(Step(s))
       /\ SF_vars(Wake(s) /\ lock = Free)
       /\ SF_vars(DeclareWanting(s) /\ lock = Free)
       /\ SF_vars(Acquire(s))

FairSpec == Spec /\ Fairness

\* Every call of slot() comes back: no lock is kept, no two services yield to
\* each other for ever and no refusal shuts the host down.
EveryCallReturns == \A s \in Services : pc[s] # "idle" ~> pc[s] = "idle"

\* A caller without a bound gets its request when nobody stops it and the gate
\* stays open.
PatienceIsRewarded ==
  \A s \in Services :
    GiveUpAfter[s] = NoBound =>
      pc[s] = "ask" ~> pc[s] = "request" \/ s \in stopping
=============================================================================
