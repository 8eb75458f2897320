----------------------------- MODULE PaceProofs -----------------------------
(***************************************************************************)
(* What TLAPS proves of Pace, for every set of services, every duration    *)
(* and every subset of the environment's events.                           *)
(***************************************************************************)
EXTENDS Pace, TLAPS

USE ServicesAssumption, DurationsAssumption, LifetimeAssumption DEF Kinds, EnvironmentEvents,
    call, env, Goto, For

-----------------------------------------------------------------------------
(* Type correctness *)

\* The countdown operators stay within the natural numbers.
LEMMA CountdownType ==
  ASSUME NEW m \in Nat, NEW n \in Nat
  PROVE  /\ Down(n) \in Nat /\ Down(n) <= n
         /\ Lesser(m, n) \in Nat /\ Lesser(m, n) <= n /\ Lesser(m, n) <= m
         /\ Greater(m, n) \in Nat
  BY DEF Down, Lesser, Greater

\* Recording an answer keeps the row a row, so a refusal wait stays capped.
LEMMA RecordedType ==
  ASSUME NEW row \in Rows, NEW kind \in Kinds,
         NEW outcome \in {"clean", "throttled", "neutral"},
         NEW spacing \in Spacings, NEW wait \in 0..MaxWait, NEW blocks \in BOOLEAN
  PROVE  Recorded(row, kind, outcome, spacing, wait, blocks) \in Rows
<1>1. RunAfter(row, kind) \in 0..(RunCap + 1)
  BY DEF RunAfter, Rows, Lesser
<1>2. Lesser(row.streak + 1, StreakCap) \in 0..StreakCap
  BY DEF Rows, Lesser
<1>3. spacing \in Nat
  OBVIOUS
<1> QED
  BY <1>1, <1>2, <1>3 DEF Recorded, Rows

\* What a caller holds before it has loaded the row.
LEMMA NothingLoadedType ==
  /\ FreshRow \in Rows
  /\ NoMarkers \in [Kinds -> Nat]
  /\ NothingLoaded \in [row: Rows, markers: [Kinds -> Nat]]
  BY DEF FreshRow, Rows, NoMarkers, NothingLoaded

\* A fresh row and no callers.
LEMMA InitType == Init => TypeOK
<1> SUFFICES ASSUME Init PROVE TypeOK
  OBVIOUS
<1>1. passed \in [Services -> 0..(RunCap + 2)]
  <2>1. 0 \in 0..(RunCap + 2)
    OBVIOUS
  <2> QED
    BY <2>1 DEF Init
<1>2. held \in [Services -> [row: Rows, markers: [Kinds -> Nat]]]
  BY NothingLoadedType DEF Init
<1> QED
  BY <1>1, <1>2, NothingLoadedType DEF Init, TypeOK

\* Leaving slot() keeps the service's own variables well typed.
LEMMA LeaveType ==
  ASSUME TypeOK, NEW s \in Services, NEW label \in {"idle", "leaving"}, Leave(s, label)
  PROVE  /\ pc' \in [Services -> {"idle", "ask", "lock", "turn", "asleep", "request", "leaving"}]
         /\ timer' \in [Services -> Nat]
         /\ waited' \in [Services -> Nat]
         /\ overdue' \subseteq Services
         /\ held' \in [Services -> [row: Rows, markers: [Kinds -> Nat]]]
         /\ passed' \in [Services -> 0..(RunCap + 2)]
  BY NothingLoadedType DEF TypeOK, Leave

\* A statement of slot().
LEMMA StepType ==
  ASSUME TypeOK, NEW s \in Services, Step(s)
  PROVE  TypeOK'
<1> USE DEF TypeOK, DropMarker, Unlock
<1>1. CASE StopBeforeLock(s)
  BY <1>1, LeaveType DEF StopBeforeLock, Quit
<1>2. CASE DeclareWanting(s)
  BY <1>2 DEF DeclareWanting
<1>3. CASE LockBusy(s)
  BY <1>3 DEF LockBusy
<1>4. CASE Acquire(s)
  BY <1>4 DEF Acquire, GotLock
<1>5. CASE GateShut(s)
  BY <1>5, LeaveType DEF GateShut, Quit
<1>6. CASE StopAtTurn(s)
  BY <1>6, LeaveType DEF StopAtTurn, UnlockFirst
<1>7. CASE TakeTurn(s)
  <2>1. [held[s] EXCEPT !.markers = NoMarkers] \in [row: Rows, markers: [Kinds -> Nat]]
    BY NothingLoadedType, SMTT(60)
  <2> QED
    BY <1>7, <2>1 DEF TakeTurn
<1>8. CASE GiveUp(s)
  BY <1>8, LeaveType DEF GiveUp, UnlockFirst
<1>9. CASE WaitForTurn(s)
  <2>1. Remaining(held[s].row) \in Nat
    BY DEF Remaining, Greater, Rows
  <2>2. Pause(s) \in Nat
    BY <2>1, CountdownType DEF Pause
  <2> QED
    BY <1>9, <2>2, NothingLoadedType DEF WaitForTurn
<1>10. CASE Wake(s)
  BY <1>10 DEF Wake
<1>11. CASE Finish(s)
  <2>1. budget' \in Rows
    <3>1. PICK outcome \in {"clean", "throttled", "neutral"}, spacing \in Spacings,
               wait \in RefusalWaits(held[s].row.streak + 1), blocks \in BOOLEAN :
            budget' = Recorded(held[s].row, KindOf[s], outcome, spacing, wait, blocks)
      BY <1>11 DEF Finish
    <3>2. wait \in 0..MaxWait
      BY DEF RefusalWaits
    <3>3. held[s].row \in Rows /\ KindOf[s] \in Kinds
      OBVIOUS
    <3>4. Recorded(held[s].row, KindOf[s], outcome, spacing, wait, blocks) \in Rows
      BY <3>2, <3>3, RecordedType
    <3> QED
      BY <3>1, <3>4
  <2>2. passed' \in [Services -> 0..(RunCap + 2)]
    BY <1>11 DEF Finish, PassedBy, Lesser
  <2> QED
    BY <1>11, <2>1, <2>2, NothingLoadedType DEF Finish, MarkersAfterSave
<1>12. CASE FailSave(s)
  BY <1>12, LeaveType DEF FailSave
<1>13. CASE DropOut(s)
  BY <1>13, LeaveType DEF DropOut, Quit
<1> QED
  BY <1>1, <1>2, <1>3, <1>4, <1>5, <1>6, <1>7, <1>8, <1>9, <1>10, <1>11, <1>12,
     <1>13
  DEF Step

\* What happens to a caller from outside.
LEMMA EnvironmentType ==
  ASSUME TypeOK, NEW s \in Services,
         Call(s) \/ LoseSession(s) \/ Crash(s) \/ RequestStop(s) \/ Restart(s)
  PROVE  TypeOK'
<1> USE DEF TypeOK, Unlock
<1>1. CASE Call(s)
  BY <1>1 DEF Call
<1>2. CASE LoseSession(s)
  BY <1>2 DEF LoseSession
<1>3. CASE Crash(s)
  BY <1>3, LeaveType DEF Crash
<1>4. CASE RequestStop(s)
  BY <1>4 DEF RequestStop
<1>5. CASE Restart(s)
  BY <1>5 DEF Restart
<1> QED
  BY <1>1, <1>2, <1>3, <1>4, <1>5

\* Time passes.
LEMMA TickType == TypeOK /\ Tick => TypeOK'
<1> SUFFICES ASSUME TypeOK, Tick PROVE TypeOK'
  OBVIOUS
<1>1. timer' \in [Services -> Nat]
  BY DEF TypeOK, Tick, Down
<1>2. waited' \in [Services -> Nat]
  BY DEF TypeOK, Tick, Lesser
<1>3. budget' \in Rows
  <2>1. Down(budget.next) \in Nat /\ Down(budget.wait) \in 0..MaxWait
    BY DEF TypeOK, Rows, Down
  <2> QED
    BY <2>1 DEF TypeOK, Tick, Rows
<1>4. marker' \in [Kinds -> Nat]
  BY DEF TypeOK, Tick, Down
<1> QED
  BY <1>1, <1>2, <1>3, <1>4 DEF TypeOK, Tick

\* All of them keep the types.
LEMMA NextType == TypeOK /\ [Next]_vars => TypeOK'
<1> SUFFICES ASSUME TypeOK, [Next]_vars PROVE TypeOK'
  OBVIOUS
<1>1. CASE Window
  BY <1>1 DEF TypeOK, Window
<1>2. CASE NewDay
  BY <1>2 DEF TypeOK, NewDay, Rows
<1>3. CASE UNCHANGED vars
  BY <1>3 DEF TypeOK, vars
<1> QED
  BY <1>1, <1>2, <1>3, TickType, StepType, EnvironmentType DEF Next

\* Every variable keeps its type; in particular the stored refusal wait never
\* exceeds refusals.max_wait_seconds, whatever LinkedIn answers.
THEOREM TypeCorrect == Spec => []TypeOK
  BY InitType, NextType, PTL DEF Spec

-----------------------------------------------------------------------------
(* The inductive invariant *)

\* Nobody has the lock yet.
LEMMA InitInvariant == Init => IInv
<1> SUFFICES ASSUME Init PROVE IInv
  OBVIOUS
<1>1. LockFollowsTheTurn /\ SeveredRequest /\ LoadedIsStored
  BY DEF Init, LockFollowsTheTurn, SeveredRequest, LoadedIsStored, Free
<1> QED
  BY <1>1, InitType DEF IInv

\* One step of one service keeps the lock where it belongs and what the holder
\* loaded equal to what is stored.
LEMMA StepInvariant ==
  ASSUME IInv, NEW s \in Services, Step(s)
  PROVE  LockFollowsTheTurn' /\ SeveredRequest' /\ LoadedIsStored'
<1> USE DEF IInv, TypeOK, DropMarker, Unlock, Leave, Quit, UnlockFirst,
            LockFollowsTheTurn, SeveredRequest, LoadedIsStored
<1> HIDE DEF Free
<1>1. CASE StopBeforeLock(s)
  BY <1>1 DEF StopBeforeLock
<1>2. CASE DeclareWanting(s)
  BY <1>2 DEF DeclareWanting
<1>3. CASE LockBusy(s)
  BY <1>3 DEF LockBusy
<1>4. CASE Acquire(s)
  BY <1>4 DEF Acquire, GotLock
<1>5. CASE GateShut(s)
  BY <1>5 DEF GateShut
<1>6. CASE StopAtTurn(s)
  BY <1>6 DEF StopAtTurn
<1>7. CASE TakeTurn(s)
  BY <1>7 DEF TakeTurn, AtTurn
<1>8. CASE GiveUp(s)
  BY <1>8 DEF GiveUp, AtTurn
<1>9. CASE WaitForTurn(s)
  BY <1>9 DEF WaitForTurn, AtTurn
<1>10. CASE Wake(s)
  BY <1>10 DEF Wake
<1>11. CASE Finish(s)
  <2>1. lock = s /\ \A t \in Services : pc[t] = "turn" => t \notin severed /\ t = s
    BY <1>11 DEF Finish
  <2> QED
    BY <1>11, <2>1 DEF Finish
<1>12. CASE FailSave(s)
  BY <1>12 DEF FailSave
<1>13. CASE DropOut(s)
  BY <1>13 DEF DropOut, Quit
<1> QED
  BY <1>1, <1>2, <1>3, <1>4, <1>5, <1>6, <1>7, <1>8, <1>9, <1>10, <1>11, <1>12,
     <1>13
  DEF Step

\* A death or a lost session frees the lock with the caller's claim to it.
LEMMA EnvironmentInvariant ==
  ASSUME IInv, NEW s \in Services,
         Call(s) \/ LoseSession(s) \/ Crash(s) \/ RequestStop(s) \/ Restart(s)
  PROVE  LockFollowsTheTurn' /\ SeveredRequest' /\ LoadedIsStored'
<1> USE DEF IInv, TypeOK, Unlock, Leave,
            LockFollowsTheTurn, SeveredRequest, LoadedIsStored
<1>1. CASE Call(s)
  BY <1>1 DEF Call
<1>2. CASE LoseSession(s)
  BY <1>2 DEF LoseSession
<1>3. CASE Crash(s)
  BY <1>3 DEF Crash
<1>4. CASE RequestStop(s)
  BY <1>4 DEF RequestStop
<1>5. CASE Restart(s)
  BY <1>5 DEF Restart
<1> QED
  BY <1>1, <1>2, <1>3, <1>4, <1>5

\* Nobody is at "turn" while time passes, so a countdown never leaves a loaded
\* row behind.
LEMMA TickInvariant ==
  ASSUME IInv, Tick
  PROVE  LockFollowsTheTurn' /\ SeveredRequest' /\ LoadedIsStored'
<1>1. \A s \in Services : pc[s] # "turn"
  BY DEF Tick, AtRest
<1> QED
  BY <1>1 DEF IInv, Tick, LockFollowsTheTurn, SeveredRequest, LoadedIsStored

\* No step of anybody breaks the lock discipline.
LEMMA NextInvariant == IInv /\ [Next]_vars => IInv'
<1> SUFFICES ASSUME IInv, [Next]_vars PROVE IInv'
  OBVIOUS
<1>1. TypeOK'
  BY NextType DEF IInv
<1>2. LockFollowsTheTurn' /\ SeveredRequest' /\ LoadedIsStored'
  <2>1. CASE Tick
    BY <2>1, TickInvariant
  <2>2. CASE Window
    BY <2>2 DEF Window, IInv, LockFollowsTheTurn, SeveredRequest, LoadedIsStored
  <2>3. CASE NewDay
    <3>1. budget'.next = budget.next /\ budget'.wait = budget.wait /\ ~budget'.blocked
      BY <2>3 DEF NewDay, IInv, TypeOK, Rows
    <3> QED
      BY <2>3, <3>1 DEF NewDay, IInv, LockFollowsTheTurn, SeveredRequest, LoadedIsStored
  <2>4. CASE UNCHANGED vars
    BY <2>4 DEF vars, IInv, LockFollowsTheTurn, SeveredRequest, LoadedIsStored
  <2> QED
    BY <2>1, <2>2, <2>3, <2>4, StepInvariant, EnvironmentInvariant DEF Next
<1> QED
  BY <1>1, <1>2 DEF IInv

\* The lock belongs to the service between its check and its save, whatever
\* dies, drops, stops or closes meanwhile, and the row it loaded stays current.
THEOREM Invariance == Spec => []IInv
  BY InitInvariant, NextInvariant, PTL DEF Spec

-----------------------------------------------------------------------------
(* What follows from it *)

\* Two requests are out at a time only if a database session was lost.
THEOREM LockedRequestsAreAlone == Spec => []OneLockedRequest
<1>1. IInv => OneLockedRequest
  BY DEF IInv, OneLockedRequest, LockFollowsTheTurn, Requesting
<1> QED
  BY <1>1, Invariance, PTL

\* Without the event no session is lost.
LEMMA NothingSevered ==
  ASSUME "session" \notin Events
  PROVE  Spec => [](severed = {})
<1>1. Init => severed = {}
  BY DEF Init
<1>2. severed = {} /\ [Next]_vars => (severed = {})'
  BY DEF Next, vars, Tick, Window, NewDay, Step, Call, LoseSession, Crash,
         RequestStop, Restart, Quit, UnlockFirst, StopBeforeLock, DeclareWanting, LockBusy, Acquire,
         GateShut, StopAtTurn, TakeTurn, GiveUp, DropOut, WaitForTurn, Wake, Finish, FailSave
<1> QED
  BY <1>1, <1>2, PTL DEF Spec

\* While no database session is lost, at most one LinkedIn request is out, for
\* any number of services that may crash or be stopped at any statement.
THEOREM RequestsAreAlone ==
  ASSUME "session" \notin Events
  PROVE  Spec => []OneRequest
<1>1. OneLockedRequest /\ severed = {} => OneRequest
  BY DEF OneLockedRequest, OneRequest
<1> QED
  BY <1>1, LockedRequestsAreAlone, NothingSevered, PTL

\* A request starts only by TakeTurn.
LEMMA OnlyTakeTurnStarts ==
  ASSUME TypeOK, [Next]_vars, NEW s \in Services, pc[s] # "request", pc'[s] = "request"
  PROVE  TakeTurn(s)
<1>1. ASSUME NEW t \in Services, Step(t)
      PROVE  TakeTurn(s)
  BY <1>1 DEF TypeOK, Step, Leave, Quit, UnlockFirst, StopBeforeLock, DeclareWanting, LockBusy,
     Acquire, GotLock, GateShut, StopAtTurn, TakeTurn, GiveUp, DropOut, WaitForTurn, Wake, Finish, FailSave
<1>2. ASSUME NEW t \in Services,
             Call(t) \/ LoseSession(t) \/ Crash(t) \/ RequestStop(t) \/ Restart(t)
      PROVE  FALSE
  BY <1>2 DEF TypeOK, Leave, Call, LoseSession, Crash, RequestStop, Restart
<1>3. ~Tick /\ ~Window /\ ~NewDay /\ ~UNCHANGED vars
  BY DEF Tick, Window, NewDay, vars
<1> QED
  BY <1>1, <1>2, <1>3 DEF Next

\* Even when sessions drop, a request starts only if the row as stored at that
\* moment allows it: no service acts on a row somebody else has since advanced.
THEOREM TurnsFollowTheStoredRow == Spec => TurnsFollowTheRow
<1>1. ASSUME IInv, [Next]_vars, NEW s \in Services, pc[s] # "request", pc'[s] = "request"
      PROVE  Remaining(budget) = 0 /\ ~budget.blocked
  <2>1. TakeTurn(s)
    BY <1>1, OnlyTakeTurnStarts DEF IInv
  <2>2. pc[s] = "turn" /\ Remaining(held[s].row) = 0 /\ ~held[s].row.blocked
    BY <2>1 DEF TakeTurn, AtTurn, TurnIsMine, GateOpen
  <2> QED
    BY <1>1, <2>2 DEF IInv, LoadedIsStored, Remaining
<1>2. IInv /\ [Next]_vars =>
        [\A s \in Services : pc[s] # "request" /\ pc'[s] = "request" =>
           Remaining(budget) = 0 /\ ~budget.blocked]_vars
  BY <1>1
<1> QED
  BY <1>2, Invariance, PTL DEF Spec, TurnsFollowTheRow

-----------------------------------------------------------------------------
(* Markers *)

\* Different services ask for different kinds, so a marker has one owner.
LEMMA MarkerHasOneOwner ==
  ASSUME NEW s \in Services, NEW t \in Services, s # t
  PROVE  KindOf[s] # KindOf[t] /\ KindOf[s] \in Kinds /\ KindOf[t] \in Kinds
  OBVIOUS

\* What a statement of slot(), or what happens to it, does to the others: it
\* moves nobody else, and touches no marker but its own.
LEMMA OneActorMoves ==
  ASSUME TypeOK, NEW s \in Services, NEW t \in Services, s # t,
         Step(s) \/ Call(s) \/ LoseSession(s) \/ Crash(s) \/ RequestStop(s) \/ Restart(s)
  PROVE  pc'[t] = pc[t] /\ marker'[KindOf[t]] = marker[KindOf[t]]
<1> USE MarkerHasOneOwner DEF TypeOK, Leave, Quit, UnlockFirst, DropMarker
<1>1. CASE Finish(s) \/ FailSave(s)
  BY <1>1 DEF Finish, FailSave, MarkersAfterSave
<1>2. CASE StopBeforeLock(s) \/ DeclareWanting(s) \/ LockBusy(s) \/ Acquire(s)
  BY <1>2 DEF StopBeforeLock, DeclareWanting, LockBusy, Acquire
<1>3. CASE GateShut(s) \/ StopAtTurn(s) \/ TakeTurn(s) \/ GiveUp(s)
  BY <1>3 DEF GateShut, StopAtTurn, TakeTurn, GiveUp
<1>4. CASE DropOut(s) \/ WaitForTurn(s) \/ Wake(s)
  BY <1>4 DEF DropOut, WaitForTurn, Wake
<1>5. CASE Call(s) \/ LoseSession(s) \/ Crash(s) \/ RequestStop(s) \/ Restart(s)
  BY <1>5 DEF Call, LoseSession, Crash, RequestStop, Restart
<1> QED
  BY <1>1, <1>2, <1>3, <1>4, <1>5 DEF Step

\* No step of a service, its save and its give-up included, loses the marker
\* another service has declared.
THEOREM MarkersBelongToTheirOwners == Spec => OthersMarkersSurvive
<1>1. ASSUME TypeOK, [Next]_vars, NEW s \in Services, NEW t \in Services, s # t, pc'[s] # pc[s]
      PROVE  marker'[KindOf[t]] = marker[KindOf[t]]
  <2>1. ~Tick /\ ~Window /\ ~NewDay /\ ~UNCHANGED vars
    BY <1>1 DEF Tick, Window, NewDay, vars
  <2>2. PICK u \in Services :
          Step(u) \/ Call(u) \/ LoseSession(u) \/ Crash(u) \/ RequestStop(u) \/ Restart(u)
    BY <1>1, <2>1 DEF Next
  <2>3. u = s
    BY <1>1, <2>2, OneActorMoves
  <2> QED
    BY <1>1, <2>2, <2>3, OneActorMoves
<1>2. TypeOK /\ [Next]_vars =>
        [\A s, t \in Services : s # t /\ pc'[s] # pc[s] =>
           marker'[KindOf[t]] = marker[KindOf[t]]]_vars
  BY <1>1
<1> QED
  BY <1>2, TypeCorrect, PTL DEF Spec, OthersMarkersSurvive

\* Whoever is out of slot() has taken its marker along.
NoMarkerLeftBehind == \A s \in Services : pc[s] = "idle" => marker[KindOf[s]] = 0

\* The marker goes with every way out but a death or a save that failed.
LEMMA MarkersGoAlong ==
  ASSUME TypeOK, severed = {}, NoMarkerLeftBehind, [Next]_vars,
         Events \cap {"crash", "session"} = {}
  PROVE  NoMarkerLeftBehind'
<1> USE DEF NoMarkerLeftBehind, TypeOK
<1>1. CASE Tick
  BY <1>1 DEF Tick, Down
<1>2. CASE Window \/ NewDay \/ UNCHANGED vars
  BY <1>2 DEF Window, NewDay, vars
<1>3. ASSUME NEW s \in Services,
             Step(s) \/ Call(s) \/ LoseSession(s) \/ Crash(s) \/ RequestStop(s) \/ Restart(s),
             pc'[s] = "idle"
      PROVE  marker'[KindOf[s]] = 0
  BY <1>3 DEF Step, Leave, Quit, UnlockFirst, DropMarker, StopBeforeLock, DeclareWanting,
     LockBusy, Acquire, GateShut, StopAtTurn, TakeTurn, GiveUp, DropOut, WaitForTurn, Wake,
     Finish, MarkersAfterSave, FailSave, Call, LoseSession, Crash, RequestStop, Restart
<1>4. ASSUME NEW s \in Services,
             Step(s) \/ Call(s) \/ LoseSession(s) \/ Crash(s) \/ RequestStop(s) \/ Restart(s)
      PROVE  NoMarkerLeftBehind'
  BY <1>3, <1>4, OneActorMoves
<1> QED
  BY <1>1, <1>2, <1>4 DEF Next

\* Without deaths and lost sessions nobody ever yields to a service that is not
\* in the queue.
THEOREM TheQueueHasNoGhosts == Spec => []NoGhostInTheQueue
<1>1. CASE Events \cap {"crash", "session"} = {}
  <2>1. Init => NoMarkerLeftBehind
    BY DEF Init, NoMarkers, NoMarkerLeftBehind
  <2>2. TypeOK /\ severed = {} /\ NoMarkerLeftBehind /\ [Next]_vars => NoMarkerLeftBehind'
    BY <1>1, MarkersGoAlong
  <2>3. NoMarkerLeftBehind => NoGhostInTheQueue
    BY DEF NoMarkerLeftBehind, NoGhostInTheQueue, Fresh
  <2>4. "session" \notin Events
    BY <1>1
  <2>5. Spec => [](severed = {})
    BY <2>4, NothingSevered
  <2> QED
    BY <2>1, <2>2, <2>3, <2>5, TypeCorrect, PTL DEF Spec
<1>2. CASE Events \cap {"crash", "session"} # {}
  <2>1. NoGhostInTheQueue
    BY <1>2 DEF NoGhostInTheQueue
  <2> QED
    BY <2>1, PTL
<1> QED
  BY <1>1, <1>2

-----------------------------------------------------------------------------
(* The queue *)

Queued(s) == pc[s] \in {"ask", "lock", "turn", "asleep"}

Passed(s) == Queued(s) /\ passed[s] > 0

\* A marker outlasts every sleep of the service that declared it, so a service
\* that was passed is still seen when the next one looks at the row.
MarkersStand ==
  \A s \in Services :
    /\ pc[s] \in {"lock", "turn"} => marker[KindOf[s]] = Lifetime
    /\ pc[s] = "asleep" => marker[KindOf[s]] > timer[s]
    /\ Passed(s) => marker[KindOf[s]] > 0
    /\ passed[s] > 0 => Queued(s) \/ pc[s] = "request"

\* The run of descriptions the holder of the lock loaded is the stored one.
LoadedRun == \A s \in Services : lock = s => held[s].row.run = budget.run

\* Whoever was passed before the holder took the lock is in what it loaded.
PassedAreSeen ==
  \A s, t \in Services :
    lock = t /\ pc[t] = "turn" /\ s # t /\ Passed(s) => held[t].markers[KindOf[s]] > 0

\* A request goes past a passed service only as MustYield allows: packaging
\* past anybody, a description past a search while the run is short.
RequestMayPass ==
  \A s, t \in Services :
    lock = t /\ pc[t] = "request" /\ s # t /\ Passed(s) =>
      \/ KindOf[t] = "packaging"
      \/ KindOf[s] = "search" /\ held[t].row.run < RunCap

\* How often each kind has been passed, measured by the stored run: it counts
\* the descriptions since the last search, and the search resets it.
PassedBounds ==
  \A s \in Services :
    /\ KindOf[s] = "search" => passed[s] <= RunCap /\ passed[s] <= budget.run
    /\ KindOf[s] = "description" => passed[s] <= 1 /\ (passed[s] > 0 => budget.run = 0)
    /\ KindOf[s] = "packaging" => passed[s] <= 1

QueueInv == MarkersStand /\ LoadedRun /\ PassedAreSeen /\ RequestMayPass /\ PassedBounds

\* No pause is longer than a chunk, so every marker outlasts it.
LEMMA PauseIsShort ==
  ASSUME TypeOK, NEW s \in Services
  PROVE  Pause(s) \in Nat /\ Pause(s) <= Chunk
<1>1. Remaining(held[s].row) \in Nat
  BY DEF TypeOK, Remaining, Greater, Rows
<1> QED
  BY <1>1 DEF Pause, Lesser

\* Leaving slot(), by whatever way: the caller is passed by nobody any more.
LEMMA LeavingKeepsTheQueue ==
  ASSUME IInv, QueueInv, NEW s \in Services, NEW label \in {"idle", "leaving"},
         Leave(s, label), Unlock(s), UNCHANGED budget,
         \A t \in Services : t # s => marker'[KindOf[t]] = marker[KindOf[t]]
  PROVE  QueueInv'
<1> USE DEF IInv, TypeOK, Leave, Unlock, QueueInv
<1>1. MarkersStand'
  BY DEF MarkersStand, Passed, Queued
<1>2. LoadedRun'
  BY DEF LoadedRun, LockFollowsTheTurn
<1>3. PassedAreSeen'
  BY DEF PassedAreSeen, Passed, Queued
<1>4. RequestMayPass'
  BY DEF RequestMayPass, Passed, Queued
<1>5. PassedBounds'
  BY DEF PassedBounds, Rows
<1> QED
  BY <1>1, <1>2, <1>3, <1>4, <1>5

\* The turn is taken: whoever was passed already is not passed once too often.
LEMMA TurnKeepsTheQueue ==
  ASSUME IInv, QueueInv, NEW s \in Services, TakeTurn(s)
  PROVE  QueueInv'
<1> USE DEF IInv, TypeOK, QueueInv, TakeTurn, AtTurn
<1>1. MarkersStand'
  BY DEF MarkersStand, Passed, Queued
<1>2. LoadedRun'
  <2>1. \A t \in Services : held'[t].row = held[t].row
    OBVIOUS
  <2> QED
    BY <2>1 DEF LoadedRun
<1>3. lock = s
  BY DEF LockFollowsTheTurn, SeveredRequest
<1>4. PassedAreSeen'
  BY <1>3 DEF PassedAreSeen
<1>5. ASSUME NEW t \in Services, t # s, Passed(t)
      PROVE  \/ KindOf[s] = "packaging"
             \/ KindOf[t] = "search" /\ held[s].row.run < RunCap
  <2>1. Fresh(held[s].markers, KindOf[t])
    BY <1>3, <1>5 DEF PassedAreSeen, Fresh
  <2>2. ~MustYield(held[s].row, held[s].markers, KindOf[s])
    BY DEF TurnIsMine
  <2>3. KindOf[s] # KindOf[t] /\ KindOf[s] \in Kinds /\ KindOf[t] \in Kinds
    BY <1>5, MarkerHasOneOwner
  <2>4. KindOf[t] = "description" => held[s].row.run = 0
    BY <1>3, <1>5 DEF LoadedRun, PassedBounds, Passed
  <2>5. held[s].row.run \in 0..(RunCap + 1)
    BY DEF Rows
  <2> QED
    BY <2>1, <2>2, <2>3, <2>4, <2>5 DEF MustYield
<1>6. RequestMayPass'
  BY <1>3, <1>5 DEF RequestMayPass, Passed, Queued
<1>7. PassedBounds'
  BY DEF PassedBounds
<1> QED
  BY <1>1, <1>2, <1>4, <1>6, <1>7

\* The answer is saved: the run counts the turn, and so does everybody passed.
LEMMA AnswerKeepsTheQueue ==
  ASSUME IInv, QueueInv, NEW s \in Services, Finish(s)
  PROVE  QueueInv'
<1> USE DEF IInv, TypeOK, QueueInv
<1>1. pc[s] = "request" /\ lock = s
  BY DEF Finish, LockFollowsTheTurn
<1>2. budget'.run = RunAfter(budget, KindOf[s])
  <2>1. PICK outcome \in {"clean", "throttled", "neutral"}, spacing \in Spacings,
             wait \in RefusalWaits(held[s].row.streak + 1), blocks \in BOOLEAN :
          budget' = Recorded(held[s].row, KindOf[s], outcome, spacing, wait, blocks)
    BY DEF Finish
  <2>2. held[s].row.run = budget.run
    BY <1>1 DEF LoadedRun
  <2> QED
    BY <2>1, <2>2 DEF Recorded, RunAfter
<1>3. budget.run \in 0..(RunCap + 1) /\ held[s].row.run = budget.run
  BY <1>1 DEF Rows, LoadedRun
<1>4. ASSUME NEW t \in Services
      PROVE  passed'[t] = IF t = s THEN 0
                          ELSE IF Waiting(t) /\ KindOf[s] # "packaging"
                               THEN Lesser(passed[t] + 1, RunCap + 2)
                               ELSE passed[t]
  BY DEF Finish, PassedBy
<1>5. \A t \in Services : t # s => pc'[t] = pc[t] /\ timer'[t] = timer[t]
                                   /\ marker'[KindOf[t]] = marker[KindOf[t]]
  BY DEF Finish, MarkersAfterSave
<1>6. pc'[s] = "idle" /\ lock' = Free /\ passed'[s] = 0
  BY <1>1, <1>4 DEF Finish, Unlock
<1>7. MarkersStand'
  <2> SUFFICES ASSUME NEW t \in Services, t # s
               PROVE  /\ pc[t] \in {"lock", "turn"} => marker[KindOf[t]] = Lifetime
                      /\ pc[t] = "asleep" => marker[KindOf[t]] > timer[t]
                      /\ Queued(t) /\ passed'[t] > 0 => marker[KindOf[t]] > 0
                      /\ passed'[t] > 0 => Queued(t) \/ pc[t] = "request"
    BY <1>5, <1>6 DEF MarkersStand, Passed, Queued
  <2>1. Waiting(t) => Queued(t) /\ marker[KindOf[t]] > 0
    BY DEF Waiting, Queued, Fresh
  <2> QED
    BY <1>4, <2>1 DEF MarkersStand, Passed
<1>8. LoadedRun' /\ PassedAreSeen' /\ RequestMayPass'
  BY <1>6 DEF LoadedRun, PassedAreSeen, RequestMayPass, Free
<1>9. PassedBounds'
  <2> SUFFICES ASSUME NEW t \in Services, t # s
      PROVE
        /\ KindOf[t] = "search" => passed'[t] <= RunCap /\ passed'[t] <= budget'.run
        /\ KindOf[t] = "description" => passed'[t] <= 1 /\ (passed'[t] > 0 => budget'.run = 0)
        /\ KindOf[t] = "packaging" => passed'[t] <= 1
    BY <1>2, <1>3, <1>6 DEF PassedBounds, RunAfter, Lesser
  <2>1. KindOf[s] # KindOf[t] /\ KindOf[s] \in Kinds /\ KindOf[t] \in Kinds
    BY MarkerHasOneOwner
  <2>2. Waiting(t) => Queued(t)
    BY DEF Waiting, Queued
  <2>3. passed[t] \in Nat
    OBVIOUS
  <2>4. CASE Waiting(t) /\ KindOf[s] # "packaging" /\ passed[t] > 0
    <3>1. KindOf[t] = "search" /\ budget.run < RunCap /\ KindOf[s] = "description"
      BY <1>1, <1>3, <2>1, <2>2, <2>4 DEF RequestMayPass, Passed
    <3>2. passed[t] <= budget.run /\ passed'[t] = Lesser(passed[t] + 1, RunCap + 2)
      BY <1>4, <2>4, <3>1 DEF PassedBounds
    <3> QED
      BY <1>2, <1>3, <2>3, <3>1, <3>2 DEF RunAfter, Lesser
  <2>5. CASE Waiting(t) /\ KindOf[s] # "packaging" /\ passed[t] = 0
    BY <1>2, <1>3, <1>4, <2>1, <2>5 DEF RunAfter, Lesser
  <2>6. CASE ~(Waiting(t) /\ KindOf[s] # "packaging")
    <3>1. passed'[t] = passed[t]
      BY <1>4, <2>6
    <3>2. /\ KindOf[t] = "search" => passed[t] <= RunCap /\ passed[t] <= budget.run
          /\ KindOf[t] = "description" => passed[t] <= 1 /\ (passed[t] > 0 => budget.run = 0)
          /\ KindOf[t] = "packaging" => passed[t] <= 1
      BY DEF PassedBounds
    <3>3. CASE KindOf[s] = "search" /\ KindOf[t] # "description"
      BY <1>2, <1>3, <2>1, <3>1, <3>2, <3>3 DEF RunAfter, Lesser
    <3>4. CASE KindOf[s] # "search"
      BY <1>2, <1>3, <2>1, <3>1, <3>2, <3>4 DEF RunAfter, Lesser
    <3> QED
      BY <1>2, <1>3, <3>1, <3>2, <3>3, <3>4 DEF RunAfter
  <2> QED
    BY <2>3, <2>4, <2>5, <2>6
<1> QED
  BY <1>7, <1>8, <1>9

\* A statement of slot().
LEMMA StepKeepsTheQueue ==
  ASSUME IInv, QueueInv, NEW s \in Services, Step(s)
  PROVE  QueueInv'
<1> USE DEF IInv, TypeOK
<1>1. \A t \in Services : t # s => marker'[KindOf[t]] = marker[KindOf[t]]
  BY OneActorMoves
<1>2. CASE StopBeforeLock(s) \/ GateShut(s) \/ DropOut(s)
  BY <1>1, <1>2, LeavingKeepsTheQueue DEF StopBeforeLock, GateShut, DropOut, Quit
<1>3. CASE StopAtTurn(s) \/ GiveUp(s)
  BY <1>1, <1>3, LeavingKeepsTheQueue DEF StopAtTurn, GiveUp, UnlockFirst
<1>4. CASE FailSave(s)
  <2>1. lock # s
    BY <1>4 DEF FailSave, LockFollowsTheTurn
  <2> QED
    BY <1>1, <1>4, <2>1, LeavingKeepsTheQueue DEF FailSave, Unlock
<1>5. CASE TakeTurn(s)
  BY <1>5, TurnKeepsTheQueue
<1>6. CASE Finish(s)
  BY <1>6, AnswerKeepsTheQueue
<1>7. CASE Acquire(s)
  <2> USE <1>7 DEF Acquire, GotLock, QueueInv
  <2>1. MarkersStand' /\ PassedBounds'
    BY DEF MarkersStand, Passed, Queued, PassedBounds
  <2>2. LoadedRun' /\ RequestMayPass'
    BY DEF LoadedRun, RequestMayPass
  <2>3. PassedAreSeen'
    BY DEF PassedAreSeen, MarkersStand, Passed, Queued
  <2> QED
    BY <2>1, <2>2, <2>3
<1>8. CASE DeclareWanting(s)
  <2> USE <1>1, <1>8 DEF DeclareWanting, QueueInv
  <2>1. marker'[KindOf[s]] = Lifetime /\ Lifetime > 0
    OBVIOUS
  <2>2. MarkersStand'
    BY <2>1 DEF MarkersStand, Passed, Queued
  <2>3. LoadedRun' /\ PassedBounds'
    BY DEF LoadedRun, PassedBounds
  <2>4. PassedAreSeen' /\ RequestMayPass'
    BY DEF PassedAreSeen, RequestMayPass, Passed, Queued
  <2> QED
    BY <2>2, <2>3, <2>4
<1>9. CASE LockBusy(s)
  <2> USE <1>9 DEF LockBusy, QueueInv
  <2>1. MarkersStand'
    BY DEF MarkersStand, Passed, Queued
  <2>2. LoadedRun' /\ PassedBounds'
    BY DEF LoadedRun, PassedBounds
  <2>3. PassedAreSeen' /\ RequestMayPass'
    BY DEF PassedAreSeen, RequestMayPass, Passed, Queued
  <2> QED
    BY <2>1, <2>2, <2>3
<1>10. CASE WaitForTurn(s)
  <2> USE <1>10 DEF WaitForTurn, AtTurn, QueueInv
  <2>1. lock = s /\ lock' = Free
    BY DEF LockFollowsTheTurn, SeveredRequest, Unlock
  <2>2. Lifetime > Pause(s) /\ Pause(s) \in Nat
    BY PauseIsShort
  <2>3. MarkersStand'
    BY <2>2 DEF MarkersStand, Passed, Queued
  <2>4. LoadedRun' /\ PassedAreSeen' /\ RequestMayPass'
    BY <2>1, ZenonT(60) DEF LoadedRun, PassedAreSeen, RequestMayPass, Free
  <2>5. PassedBounds'
    BY DEF PassedBounds
  <2> QED
    BY <2>3, <2>4, <2>5
<1>11. CASE Wake(s)
  <2> USE <1>11 DEF Wake, QueueInv
  <2>1. MarkersStand'
    BY DEF MarkersStand, Passed, Queued
  <2>2. LoadedRun' /\ PassedBounds'
    BY DEF LoadedRun, PassedBounds
  <2>3. PassedAreSeen' /\ RequestMayPass'
    BY DEF PassedAreSeen, RequestMayPass, Passed, Queued
  <2> QED
    BY <2>1, <2>2, <2>3
<1> QED
  BY <1>2, <1>3, <1>4, <1>5, <1>6, <1>7, <1>8, <1>9, <1>10, <1>11 DEF Step

\* What happens to a caller from outside.
LEMMA EnvironmentKeepsTheQueue ==
  ASSUME IInv, QueueInv, NEW s \in Services,
         Call(s) \/ LoseSession(s) \/ Crash(s) \/ RequestStop(s) \/ Restart(s)
  PROVE  QueueInv'
<1> USE DEF IInv, TypeOK
<1>1. CASE Crash(s)
  BY <1>1, LeavingKeepsTheQueue DEF Crash
<1>2. CASE Call(s)
  <2> USE <1>2 DEF Call, QueueInv
  <2>1. passed[s] = 0
    BY SMTT(30) DEF MarkersStand, Queued
  <2>2. MarkersStand' /\ LoadedRun' /\ PassedBounds'
    BY <2>1 DEF MarkersStand, Passed, Queued, LoadedRun, PassedBounds
  <2>3. PassedAreSeen' /\ RequestMayPass'
    BY <2>1 DEF PassedAreSeen, RequestMayPass, Passed, Queued
  <2> QED
    BY <2>2, <2>3
<1>3. CASE LoseSession(s)
  BY <1>3 DEF LoseSession, Unlock, LockFollowsTheTurn, QueueInv, MarkersStand, Passed,
     Queued, LoadedRun, PassedBounds, PassedAreSeen, RequestMayPass
<1>4. CASE RequestStop(s) \/ Restart(s)
  BY <1>4 DEF RequestStop, Restart, QueueInv, MarkersStand, Passed, Queued, LoadedRun,
     PassedBounds, PassedAreSeen, RequestMayPass
<1> QED
  BY <1>1, <1>2, <1>3, <1>4

\* A tick shortens a sleep and its marker alike; nobody looks at the row then.
LEMMA TickKeepsTheQueue ==
  ASSUME IInv, QueueInv, Tick
  PROVE  QueueInv'
<1> USE DEF IInv, TypeOK, QueueInv, Tick
<1>1. \A s \in Services : pc[s] \in {"idle", "asleep", "request"}
                          /\ (pc[s] = "asleep" => timer[s] > 0)
  BY DEF AtRest, SleepOver
<1>2. \A s \in Services : /\ marker'[KindOf[s]] = Down(marker[KindOf[s]])
                          /\ timer'[s] = Down(timer[s])
  OBVIOUS
<1>3. MarkersStand'
  BY <1>1, <1>2 DEF MarkersStand, Passed, Queued, Down
<1>4. budget'.run = budget.run
  BY DEF Rows
<1>5. LoadedRun' /\ PassedBounds'
  BY <1>4 DEF LoadedRun, PassedBounds
<1>6. PassedAreSeen' /\ RequestMayPass'
  BY <1>1 DEF PassedAreSeen, RequestMayPass, Passed, Queued
<1> QED
  BY <1>3, <1>5, <1>6

\* No step of anybody upsets the queue.
LEMMA NextKeepsTheQueue == IInv /\ QueueInv /\ [Next]_vars => QueueInv'
<1> SUFFICES ASSUME IInv, QueueInv, [Next]_vars PROVE QueueInv'
  OBVIOUS
<1>1. CASE Window \/ NewDay \/ UNCHANGED vars
  <2>1. UNCHANGED <<pc, timer, held, marker, lock, passed>>
    BY <1>1 DEF Window, NewDay, vars
  <2>2. budget'.run = budget.run
    BY <1>1 DEF Window, NewDay, vars, IInv, TypeOK, Rows
  <2> QED
    BY <2>1, <2>2 DEF QueueInv, MarkersStand, Passed, Queued, LoadedRun, PassedBounds,
       PassedAreSeen, RequestMayPass
<1> QED
  BY <1>1, TickKeepsTheQueue, StepKeepsTheQueue, EnvironmentKeepsTheQueue DEF Next

\* Between two looks at the row nobody is passed unseen, and the stored run says
\* how often it has been.
LEMMA QueueInvariance == Spec => []QueueInv
<1>1. Init => QueueInv
  <2> SUFFICES ASSUME Init PROVE QueueInv
    OBVIOUS
  <2>1. \A s \in Services : pc[s] = "idle" /\ passed[s] = 0 /\ lock # s
    BY DEF Init
  <2>2. MarkersStand /\ LoadedRun /\ PassedAreSeen /\ RequestMayPass
    BY <2>1 DEF MarkersStand, Passed, Queued, LoadedRun, PassedAreSeen, RequestMayPass
  <2>3. PassedBounds
    BY <2>1 DEF Init, FreshRow, PassedBounds
  <2> QED
    BY <2>2, <2>3 DEF QueueInv
<1> QED
  BY <1>1, NextKeepsTheQueue, Invariance, PTL DEF Spec

\* A packaging request that waits is passed by at most the one request that was
\* out when it came.
THEOREM PackagingGoesNext == Spec => []PackagingIsNext
<1>1. QueueInv => PackagingIsNext
  BY DEF QueueInv, PassedBounds, PackagingIsNext
<1> QED
  BY <1>1, QueueInvariance, PTL

\* However the services interleave, die, drop out and come back: a waiting
\* search is passed by at most RunCap descriptions, a waiting description by
\* one search.
THEOREM TheTurnsAreShared == Spec => []TurnsAreShared
<1>1. QueueInv => TurnsAreShared
  BY DEF QueueInv, PassedBounds, TurnsAreShared
<1> QED
  BY <1>1, QueueInvariance, PTL

-----------------------------------------------------------------------------
(* Pace implements PaceTurn *)

Gaps == {Greater(n, w) : n \in Spacings, w \in 0..MaxWait}

\* The gap is a length of time.
LEMMA RemainingType ==
  ASSUME TypeOK
  PROVE  Remaining(budget) \in Nat
  BY DEF TypeOK, Rows, Remaining, Greater

\* What an answer leaves behind is one of the gaps of the abstract pace.
LEMMA AnswerOpensAGap ==
  ASSUME TypeOK, NEW s \in Services, Finish(s)
  PROVE  Remaining(budget)' \in Gaps
<1>1. PICK outcome \in {"clean", "throttled", "neutral"}, spacing \in Spacings,
           wait \in RefusalWaits(held[s].row.streak + 1), blocks \in BOOLEAN :
        budget' = Recorded(held[s].row, KindOf[s], outcome, spacing, wait, blocks)
  BY DEF Finish
<1>2. wait \in 0..MaxWait /\ held[s].row.wait \in 0..MaxWait
  BY DEF RefusalWaits, TypeOK, Rows
<1>3. budget'.next = spacing /\ budget'.wait \in 0..MaxWait
  BY <1>1, <1>2 DEF Recorded
<1> QED
  BY <1>3 DEF Remaining, Gaps

\* A step of a service sends, answers, abandons, or is invisible outside.
LEMMA StepImplements ==
  ASSUME IInv, severed = {}, NEW s \in Services, Step(s) \/ Crash(s)
  PROVE  \/ Turn!Send(s) \/ Turn!Answer(s) \/ Turn!Abandon(s)
         \/ UNCHANGED <<Requesting, Remaining(budget)>>
<1> USE DEF IInv, TypeOK, Leave, Quit, UnlockFirst, Requesting
<1>1. CASE TakeTurn(s)
  <2>1. pc[s] = "turn" /\ lock = s
    BY <1>1 DEF TakeTurn, AtTurn, LockFollowsTheTurn
  <2>2. \A t \in Services : pc[t] = "request" => lock = t
    BY DEF LockFollowsTheTurn
  <2>3. Requesting = {} /\ Requesting' = {s}
    BY <1>1, <2>1, <2>2 DEF TakeTurn
  <2>4. Remaining(held[s].row) = Remaining(budget)
    BY <2>1 DEF LoadedIsStored, Remaining
  <2>5. Remaining(budget) = 0 /\ UNCHANGED budget
    BY <1>1, <2>4 DEF TakeTurn, TurnIsMine
  <2> QED
    BY <2>3, <2>5 DEF Turn!Send, Remaining
<1>2. CASE Finish(s)
  <2>1. s \in Requesting /\ Requesting' = Requesting \ {s}
    BY <1>2 DEF Finish
  <2> QED
    BY <1>2, <2>1, AnswerOpensAGap DEF Turn!Answer, Gaps
<1>3. CASE Crash(s)
  <2>1. /\ "crash" \in Events
        /\ UNCHANGED Remaining(budget) /\ Requesting' = Requesting \ {s}
    BY <1>3 DEF Crash, Remaining
  <2> QED
    BY <2>1 DEF Turn!Abandon
<1>4. CASE FailSave(s)
  BY <1>4 DEF FailSave
<1>5. ASSUME Step(s), ~TakeTurn(s), ~Finish(s), ~FailSave(s)
      PROVE  UNCHANGED <<Requesting, Remaining(budget)>>
  <2>1. UNCHANGED budget /\ pc[s] # "request" /\ pc'[s] # "request"
        /\ \A t \in Services : t # s => pc'[t] = pc[t]
    BY <1>5 DEF Step, StopBeforeLock, DeclareWanting, LockBusy, Acquire,
       GotLock, GateShut, StopAtTurn, AtTurn, GiveUp, DropOut, WaitForTurn, Wake
  <2> QED
    BY <2>1 DEF Remaining
<1> QED
  BY <1>1, <1>2, <1>3, <1>4, <1>5

\* The gap closes by one tick.
LEMMA TickImplements ==
  ASSUME TypeOK, Tick
  PROVE  Turn!Tick \/ UNCHANGED <<Requesting, Remaining(budget)>>
<1>1. UNCHANGED Requesting
  BY DEF Tick, Requesting
<1>2. budget'.next = Down(budget.next) /\ budget'.wait = Down(budget.wait)
      /\ budget.next \in Nat /\ budget.wait \in Nat
  BY DEF Tick, TypeOK, Rows
<1>3. Remaining(budget)' = Down(Remaining(budget))
  BY <1>2 DEF Remaining, Greater, Down
<1> QED
  BY <1>1, <1>3, RemainingType DEF Turn!Tick, Down

\* Calls, stops and lost sessions do not show in the abstract pace.
LEMMA EnvironmentIsInvisible ==
  ASSUME TypeOK, NEW s \in Services,
         Call(s) \/ LoseSession(s) \/ RequestStop(s) \/ Restart(s)
  PROVE  UNCHANGED <<Requesting, Remaining(budget)>>
<1>1. UNCHANGED Requesting
  BY DEF TypeOK, Requesting, Call, LoseSession, RequestStop, Restart
<1>2. budget'.next = budget.next /\ budget'.wait = budget.wait
  BY DEF TypeOK, Rows, Call, LoseSession, RequestStop, Restart
<1> QED
  BY <1>1, <1>2 DEF Remaining

\* Seen from outside, the loop of slot() is the abstract pace: requests go out
\* one by one, each leaves a gap that only time shortens, and a death in a
\* request is the only way to leave none.
THEOREM PaceImplementsPaceTurn ==
  ASSUME "session" \notin Events
  PROVE  Spec => KeepsItsPromise
<1>1. Init => Turn!Init
  BY DEF Init, Turn!Init, Requesting, Remaining, Greater, FreshRow
<1>2. IInv /\ severed = {} /\ [Next]_vars => [Turn!Next]_(Turn!vars)
  <2> SUFFICES ASSUME IInv, severed = {}, [Next]_vars
               PROVE  Turn!Next \/ UNCHANGED <<Requesting, Remaining(budget)>>
    BY DEF Turn!vars
  <2>1. CASE Tick
    BY <2>1, TickImplements DEF IInv, Turn!Next
  <2>2. ASSUME NEW s \in Services, Step(s) \/ Crash(s)
        PROVE  Turn!Next \/ UNCHANGED <<Requesting, Remaining(budget)>>
    BY <2>2, StepImplements DEF Turn!Next
  <2>3. ASSUME NEW s \in Services,
               Call(s) \/ LoseSession(s) \/ RequestStop(s) \/ Restart(s)
        PROVE  UNCHANGED <<Requesting, Remaining(budget)>>
    BY <2>3, EnvironmentIsInvisible DEF IInv
  <2>4. CASE Window \/ NewDay
    <3>1. UNCHANGED Requesting
      BY <2>4 DEF Requesting, Window, NewDay
    <3>2. budget'.next = budget.next /\ budget'.wait = budget.wait
      BY <2>4 DEF IInv, TypeOK, Rows, Window, NewDay
    <3> QED
      BY <3>1, <3>2 DEF Remaining
  <2>5. CASE UNCHANGED vars
    BY <2>5 DEF vars, Requesting, Remaining
  <2> QED
    BY <2>1, <2>2, <2>3, <2>4, <2>5 DEF Next
<1> QED
  BY <1>1, <1>2, Invariance, NothingSevered, PTL DEF Spec, KeepsItsPromise, Turn!Spec
=============================================================================
