------------------------------- MODULE Watch --------------------------------
(***************************************************************************)
(* An always-on service and the watchdog outside it: the loop every        *)
(* service shares (connect, one instance, tick, beat, back off), started   *)
(* again by systemd and now and then twice by mistake, and the oneshot     *)
(* check that reads the heartbeat, keeps its ledger of alerts in the same  *)
(* store and, when the store is down, in a local file                      *)
(* (src/src/services/runner.py, pulse.py, watchdog.py,                     *)
(* src/src/jobstore/heartbeat.py, src/src/delivery/health.py).             *)
(***************************************************************************)
EXTENDS Integers

CONSTANTS
  Procs,     \* processes that run the service: the unit's and one started by hand
  Unit,      \* the one systemd starts again
  DownAfter, \* slots of silence a service may keep
  Repeat,    \* slots before an alert is repeated
  MaxUpsets  \* bound: restarts of the store, crashes, refused messages, ...

Nobody == "nobody"

WatchAssumption ==
  /\ Unit \in Procs /\ Nobody \notin Procs
  /\ {DownAfter, Repeat} \subseteq Nat \ {0} /\ MaxUpsets \in Nat

VARIABLES
  store,  \* the job store answers
  at,     \* where each process is in _loop
  conn,   \* its connection: none, open, open with the lock taken, or broken
  lock,   \* the session that holds the advisory lock of the service
  age,    \* slots since the last heartbeat
  ledger, \* slots since the alert on record was sent
  file,   \* slots since the store-down note in the local file was sent
  watch,  \* the check in progress and the ledger it is about to commit
  looked, \* the watchdog's timer has fired in this slot
  told,   \* what the operator was last told of the service
  toldOf, \* what the operator was last told of the store
  quiet,  \* slots since the last alert, Repeat when none counts
  upsets

loop == <<at, conn, lock>>
dog == <<ledger, file, watch, looked, told, toldOf, quiet>>
vars == <<store, loop, age, dog, upsets>>

None == -1
Live == {"open", "locked"}
Older(x, bound) == IF x = None \/ x >= bound THEN x ELSE x + 1

Init ==
  /\ store = TRUE
  /\ at = [p \in Procs |-> IF p = Unit THEN "loop" ELSE "off"]
  /\ conn = [p \in Procs |-> "none"] /\ lock = Nobody
  /\ age = 0
  /\ ledger = None /\ file = None
  /\ watch = [at |-> "idle", ledger |-> None] /\ looked = FALSE
  /\ told = "nothing" /\ toldOf = "nothing" /\ quiet = Repeat
  /\ upsets = 0

Upset == upsets < MaxUpsets /\ upsets' = upsets + 1

-----------------------------------------------------------------------------
(* The service loop.                                                       *)

Goto(p, place) == at' = [at EXCEPT ![p] = place]

\* The head of the loop: only a loop without a connection opens one.
Connect(p) ==
  /\ at[p] = "loop" /\ conn[p] = "none"
  /\ \/ store /\ Goto(p, "init") /\ conn' = [conn EXCEPT ![p] = "open"]
     \/ ~store /\ Goto(p, "failed") /\ UNCHANGED conn
  /\ UNCHANGED <<store, lock, age, dog, upsets>>

Again(p) ==
  /\ at[p] = "loop" /\ conn[p] # "none"
  /\ Goto(p, "tick")
  /\ UNCHANGED <<store, conn, lock, age, dog, upsets>>

InitStore(p) ==
  /\ at[p] = "init"
  /\ Goto(p, IF conn[p] = "open" THEN "lock" ELSE "failed")
  /\ UNCHANGED <<store, conn, lock, age, dog, upsets>>

\* The schema change of a deploy is chosen as the victim of a deadlock with a
\* running service: an exception on a connection that stays open.
SchemaDeadlock(p) ==
  /\ at[p] = "init" /\ conn[p] = "open"
  /\ Upset /\ Goto(p, "failed")
  /\ UNCHANGED <<store, conn, lock, age, dog>>

\* Mutant: the answer of pg_try_advisory_lock is not looked at.
TriedIsEnough(p) == TRUE
MayRun(p) == lock \in {Nobody, p}

AcquireLock(p) ==
  /\ at[p] = "lock"
  /\ \/ /\ conn[p] = "open" /\ MayRun(p)
        /\ lock' = IF lock = Nobody THEN p ELSE lock
        /\ age' = 0 /\ Goto(p, "tick") /\ conn' = [conn EXCEPT ![p] = "locked"]
     \/ /\ conn[p] = "open" /\ ~MayRun(p)
        /\ Goto(p, "off") /\ conn' = [conn EXCEPT ![p] = "none"]
        /\ UNCHANGED <<lock, age>>
     \/ conn[p] # "open" /\ Goto(p, "failed") /\ UNCHANGED <<conn, lock, age>>
  /\ UNCHANGED <<store, dog, upsets>>

\* A tick that ends, its beat and its commit.
TickDone(p) ==
  /\ at[p] = "tick"
  /\ IF conn[p] \in Live THEN age' = 0 /\ Goto(p, "loop") ELSE UNCHANGED age /\ Goto(p, "failed")
  /\ UNCHANGED <<store, conn, lock, dog, upsets>>

\* The tick makes progress and beats over a connection of its own.
Pulse(p) ==
  /\ at[p] = "tick" /\ store
  /\ age' = 0
  /\ UNCHANGED <<store, loop, dog, upsets>>

TickRaises(p) ==
  /\ at[p] = "tick"
  /\ Upset /\ Goto(p, "failed")
  /\ UNCHANGED <<store, conn, lock, age, dog>>

\* The error beat tells whether the connection still works; then the back-off.
Failed(p) ==
  /\ at[p] = "failed"
  /\ IF conn[p] \in Live THEN age' = 0 /\ UNCHANGED conn
     ELSE conn' = [conn EXCEPT ![p] = "none"] /\ UNCHANGED age
  /\ Goto(p, "loop")
  /\ UNCHANGED <<store, lock, dog, upsets>>

\* The process dies: the server frees the lock of its session.
Crash(p) ==
  /\ at[p] # "off" /\ Upset
  /\ Goto(p, "off") /\ conn' = [conn EXCEPT ![p] = "none"]
  /\ lock' = IF lock = p THEN Nobody ELSE lock
  /\ UNCHANGED <<store, age, dog>>

\* systemd's Restart=always; a second copy is started by mistake.
Restart ==
  /\ at[Unit] = "off" /\ Goto(Unit, "loop")
  /\ UNCHANGED <<store, conn, lock, age, dog, upsets>>

StartTwice(p) ==
  /\ p # Unit /\ at[p] = "off" /\ Upset /\ Goto(p, "loop")
  /\ UNCHANGED <<store, conn, lock, age, dog>>

\* A restart of the store breaks every session.
StoreFails ==
  /\ store /\ Upset
  /\ store' = FALSE
  /\ conn' = [p \in Procs |-> IF conn[p] \in Live THEN "broken" ELSE conn[p]]
  /\ lock' = Nobody
  /\ UNCHANGED <<at, age, dog>>

StoreReturns ==
  /\ ~store /\ store' = TRUE
  /\ UNCHANGED <<loop, age, dog, upsets>>

-----------------------------------------------------------------------------
(* The watchdog.                                                           *)

Silent == age > DownAfter

Due(since) == since = None \/ since >= Repeat

\* Mutant: the row of an alert that is repeated keeps its first time.
FirstTime == IF ledger = None THEN 0 ELSE ledger
Noted == 0

Cleared == None

Send(ok) == ok \/ upsets < MaxUpsets
Sent(ok) == upsets' = IF ok THEN upsets ELSE upsets + 1

\* run_health_check up to its commit.
Look ==
  /\ watch.at = "idle" /\ ~looked /\ store
  /\ looked' = TRUE
  /\ \/ /\ Silent /\ Due(ledger)
        /\ \E ok \in BOOLEAN :
             /\ Send(ok) /\ Sent(ok)
             /\ watch' = [at |-> "commit", ledger |-> IF ok THEN Noted ELSE ledger]
             /\ told' = IF ok THEN "alert" ELSE told
             /\ quiet' = IF ok THEN 0 ELSE quiet
     \/ /\ ~Silent /\ ledger # None
        /\ \E ok \in BOOLEAN :
             /\ Send(ok) /\ Sent(ok)
             /\ watch' = [at |-> "commit", ledger |-> IF ok THEN Cleared ELSE ledger]
             /\ told' = IF ok THEN "ok" ELSE told
             /\ quiet' = IF ok THEN Repeat ELSE quiet
     \/ /\ IF Silent THEN ~Due(ledger) ELSE ledger = None
        /\ watch' = [at |-> "commit", ledger |-> ledger]
        /\ UNCHANGED <<told, quiet, upsets>>
  /\ UNCHANGED <<store, loop, age, ledger, file, toldOf>>

\* The commit, then the store-down note: the file goes before the message does.
Commit ==
  /\ watch.at = "commit"
  /\ watch' = [at |-> "idle", ledger |-> None]
  /\ \/ /\ store /\ ledger' = watch.ledger
        /\ \/ file = None /\ UNCHANGED <<file, toldOf, upsets>>
           \/ /\ file # None /\ file' = None
              /\ \E ok \in BOOLEAN :
                   Send(ok) /\ Sent(ok) /\ toldOf' = IF ok THEN "ok" ELSE toldOf
        /\ UNCHANGED quiet
     \/ ~store /\ quiet' = Repeat /\ UNCHANGED <<ledger, file, toldOf, upsets>>
  /\ UNCHANGED <<store, loop, age, looked, told>>

\* The watchdog dies with messages sent and nothing committed.
WatchdogDies ==
  /\ watch.at = "commit" /\ Upset
  /\ watch' = [at |-> "idle", ledger |-> None]
  /\ quiet' = Repeat
  /\ UNCHANGED <<store, loop, age, ledger, file, looked, told, toldOf>>

\* The store is unreachable: only the file remembers that this was said.
LookWithoutStore ==
  /\ watch.at = "idle" /\ ~looked /\ ~store
  /\ looked' = TRUE
  /\ \/ ~Due(file) /\ UNCHANGED <<file, toldOf, upsets>>
     \/ /\ Due(file)
        /\ \E ok \in BOOLEAN :
             /\ Send(ok) /\ Sent(ok)
             /\ file' = IF ok THEN 0 ELSE file
             /\ toldOf' = IF ok THEN "alert" ELSE toldOf
  /\ UNCHANGED <<store, loop, age, ledger, watch, told, quiet>>

\* A slot passes; the watchdog's timer fires in each.
Tick ==
  /\ looked /\ watch.at = "idle"
  /\ looked' = FALSE
  /\ age' = Older(age, DownAfter + 1)
  /\ ledger' = Older(ledger, Repeat) /\ file' = Older(file, Repeat)
  /\ quiet' = Older(quiet, Repeat)
  /\ UNCHANGED <<store, loop, watch, told, toldOf, upsets>>

Loop(p) == Connect(p) \/ Again(p) \/ InitStore(p) \/ AcquireLock(p) \/ TickDone(p) \/ Failed(p)

Next ==
  \/ \E p \in Procs :
       Loop(p) \/ SchemaDeadlock(p) \/ Pulse(p) \/ TickRaises(p) \/ Crash(p) \/ StartTwice(p)
  \/ Restart \/ StoreFails \/ StoreReturns
  \/ Look \/ Commit \/ WatchdogDies \/ LookWithoutStore \/ Tick

Spec == Init /\ [][Next]_vars

\* systemd starts the watchdog every ten minutes and the unit again when it is
\* down; the loop goes on except in a tick, which may hang.
Fairness ==
  /\ WF_vars(Tick) /\ WF_vars(Look \/ LookWithoutStore) /\ WF_vars(Commit)
FairSpec == Spec /\ Fairness

-----------------------------------------------------------------------------
TypeOK ==
  /\ store \in BOOLEAN
  /\ at \in [Procs -> {"off", "loop", "init", "lock", "tick", "failed"}]
  /\ conn \in [Procs -> Live \cup {"none", "broken"}] /\ lock \in Procs \cup {Nobody}
  /\ age \in 0..DownAfter + 1 /\ {ledger, file} \subseteq None..Repeat
  /\ watch \in [at : {"idle", "commit"}, ledger : None..Repeat] /\ looked \in BOOLEAN
  /\ {told, toldOf} \subseteq {"nothing", "alert", "ok"} /\ quiet \in 0..Repeat
  /\ upsets \in 0..MaxUpsets

\* A second copy of a service exits instead of working in parallel
\* (acquire_single_instance, runner.py:57-62).
OneInstance ==
  \A p, q \in Procs : at[p] = "tick" /\ at[q] = "tick" /\ {conn[p], conn[q]} \subseteq Live => p = q

\* Copies that asked for the lock never work in parallel, through restarts of the
\* store, crashes and the units' restarts (acquire_single_instance).
LockedWork ==
  \A p, q \in Procs :
    at[p] = "tick" /\ at[q] = "tick" /\ conn[p] = "locked" /\ conn[q] = "locked" => p = q

\* The operator is not alerted again before the repeat time, unless the service
\* was reported healthy in between or a check could not save what it had sent
\* (run_health_check, health.py:286-310).
Spaced == told' = "alert" /\ quiet' = 0 /\ Look => quiet >= Repeat
AlertsAreSpaced == [][Spaced]_vars

\* A service that stays silent is reported, or the store is.
Reported == told = "alert" \/ toldOf = "alert" \/ ~Silent
SilenceIsReported == Silent ~> Reported

\* An alert on record is followed by the all-clear once the service is back.
Healthy == ~Silent /\ store
NoAlert == ledger = None
AllClear == <>[]Healthy => <>[]NoAlert
=============================================================================
