----------------------------- MODULE SourceDay ------------------------------
(***************************************************************************)
(* The oneshot runs of one daily source: the daily timer's drain of every  *)
(* due slice, the half-hourly resume runs that walk only unfinished ones,  *)
(* the lock that keeps them apart, and the heartbeat the watchdog reads    *)
(* between runs (src/src/sources/service.py with the timers of             *)
(* src/deploy/systemd).  A run may raise, or be killed by its unit's time  *)
(* limit or a reboot; the daily timer is persistent and may fire late.     *)
(***************************************************************************)
EXTENDS Integers

CONSTANTS
  Slices,    \* the slices of the source
  Day,       \* half-hour slots per day (the daily timer fires in the first one)
  ResumeAt,  \* the slots of the day in which the resume timer fires
  Slack,     \* DUE_SLACK_SECONDS in slots
  MaxSlots, MaxUpsets \* bounds: slots explored, runs that die or start late

SourceDayAssumption ==
  /\ Slices # {} /\ {Day, Slack, MaxSlots} \subseteq Nat \ {0} /\ MaxUpsets \in Nat
  /\ ResumeAt \subseteq 0..Day - 1 /\ Slack < Day
  \* OnCalendar: no resume run starts with the daily one, and what the last one of a day
  \* leaves is due when the next daily one starts
  /\ \A r \in ResumeAt : r > 0 /\ r + 2 <= Day /\ r + 1 + (Slack \div 2) <= Day

VARIABLES
  now,     \* slots since the start
  stop,    \* the stop reason of each slice's last recorded walk
  due,     \* the slot each slice is due at
  beat,    \* the heartbeat row of the source
  run,     \* the run that holds the source's lock
  owed,    \* the daily timer has fired and its unit has not run yet
  failing, \* slices that failed in a daily run and have not been walked since without error
  last,    \* the slot of the last sign of life of a daily run
  torn,    \* the last daily run was killed
  late,    \* 2: the last daily run began after its slot; 1: the one before it did
  upsets

vars == <<now, stop, due, beat, run, owed, failing, last, torn, late, upsets>>

Unfinished == {"rate_limited", "error"}
NoRun == [on |-> FALSE, daily |-> FALSE, since |-> 0, walked |-> {}, error |-> FALSE, recovered |-> FALSE]
Phase(slot) == slot % Day

Init ==
  /\ now = 0
  /\ stop = [s \in Slices |-> "new"] /\ due = [s \in Slices |-> 0]
  /\ beat = [at |-> 0, state |-> "none", crashed |-> FALSE]
  /\ run = NoRun /\ owed = TRUE
  /\ failing = {} /\ last = 0 /\ torn = FALSE /\ late = 0 /\ upsets = 0

-----------------------------------------------------------------------------
(* Starting a run: run_oneshot and the head of collect_due_slices.         *)

StartDaily ==
  /\ owed /\ ~run.on
  /\ Phase(now) = 0 \/ upsets < MaxUpsets
  /\ run' = [NoRun EXCEPT !.on = TRUE, !.daily = TRUE, !.since = now]
  /\ beat' = [at |-> now, state |-> "starting", crashed |-> FALSE]
  /\ owed' = FALSE /\ last' = now /\ torn' = FALSE
  /\ late' = IF Phase(now) # 0 THEN 2 ELSE IF late > 0 THEN late - 1 ELSE 0
  /\ upsets' = IF Phase(now) = 0 THEN upsets ELSE upsets + 1
  /\ UNCHANGED <<now, stop, due, failing>>

\* The lock is taken: the daily run exits and leaves no trace.
LockedOut ==
  /\ owed /\ run.on
  /\ owed' = FALSE
  /\ UNCHANGED <<now, stop, due, beat, run, failing, last, torn, late, upsets>>

StartResume ==
  /\ Phase(now) \in ResumeAt /\ ~run.on
  /\ run' = [NoRun EXCEPT !.on = TRUE, !.since = now]
  /\ UNCHANGED <<now, stop, due, beat, owed, failing, last, torn, late, upsets>>

-----------------------------------------------------------------------------
(* Walking: collect_source_once.                                           *)

Claimable == {s \in Slices : due[s] <= now /\ (run.daily \/ stop[s] \in Unfinished)}

\* Mutant: the next walk is a whole interval after the end of this one.
WholeInterval(outcome) ==
  IF outcome \in Unfinished THEN now + 1 ELSE now + Day

NextDue(outcome) ==
  IF outcome \in Unfinished THEN now + 1
  ELSE IF run.daily THEN now + Day - Slack
  ELSE now + (Slack \div 2)

BeatAfter(error) ==
  IF run.daily THEN [at |-> now, state |-> IF error THEN "error" ELSE "ok", crashed |-> FALSE]
  ELSE beat

WalkSlice ==
  /\ run.on
  /\ \E s \in Claimable, outcome \in {"finished"} \union Unfinished :
       LET error == run.error \/ outcome = "error"
       IN /\ stop' = [stop EXCEPT ![s] = outcome]
          /\ due' = [due EXCEPT ![s] = NextDue(outcome)]
          /\ run' = [run EXCEPT !.walked = @ \union {s}, !.error = error,
                                !.recovered = @ \/ outcome \notin Unfinished]
          /\ beat' = BeatAfter(error)
          /\ failing' = IF outcome # "error" THEN failing \ {s}
                        ELSE IF run.daily THEN failing \union {s} ELSE failing
          /\ last' = IF run.daily THEN now ELSE last
  /\ UNCHANGED <<now, owed, torn, late, upsets>>

-----------------------------------------------------------------------------
(* The end of a run: the tail of collect_due_slices.                       *)

ClearedBeat ==
  IF /\ run.recovered
     /\ beat.state = "error" /\ ~beat.crashed
     /\ \A s \in Slices : stop[s] # "error"
  THEN [beat EXCEPT !.state = "ok"] ELSE beat

End ==
  /\ run.on /\ Claimable = {}
  /\ beat' = IF ~run.daily THEN ClearedBeat
             ELSE IF run.walked = {} THEN [at |-> now, state |-> "idle", crashed |-> FALSE]
             ELSE beat
  /\ last' = IF run.daily /\ run.walked = {} THEN now ELSE last
  /\ run' = NoRun
  /\ UNCHANGED <<now, stop, due, owed, failing, torn, late, upsets>>

\* An exception nothing on the way catches; only a daily run beats.
Raise ==
  /\ run.on /\ upsets < MaxUpsets
  /\ beat' = IF run.daily THEN [at |-> now, state |-> "error", crashed |-> TRUE] ELSE beat
  /\ last' = IF run.daily THEN now ELSE last
  /\ run' = NoRun /\ upsets' = upsets + 1
  /\ UNCHANGED <<now, stop, due, owed, failing, torn, late>>

\* The unit's time limit or a reboot.
Kill ==
  /\ run.on /\ upsets < MaxUpsets
  /\ torn' = (torn \/ run.daily)
  /\ run' = NoRun /\ upsets' = upsets + 1
  /\ UNCHANGED <<now, stop, due, beat, owed, failing, last, late>>

\* A run lasts half an hour at most; the daily timer fires once a day.
Tick ==
  /\ now < MaxSlots
  /\ run.on => run.since = now
  /\ now' = now + 1
  /\ owed' = (owed \/ Phase(now + 1) = 0)
  /\ UNCHANGED <<stop, due, beat, run, failing, last, torn, late, upsets>>

Next ==
  \/ StartDaily \/ LockedOut \/ StartResume \/ WalkSlice \/ End \/ Raise \/ Kill \/ Tick

Spec == Init /\ [][Next]_vars

-----------------------------------------------------------------------------
TypeOK ==
  /\ now \in 0..MaxSlots
  /\ stop \in [Slices -> Unfinished \union {"new", "finished"}] /\ due \in [Slices -> 0..MaxSlots + Day]
  /\ beat \in [at : 0..MaxSlots, state : {"none", "starting", "ok", "idle", "error"}, crashed : BOOLEAN]
  /\ run \in [on : BOOLEAN, daily : BOOLEAN, since : 0..MaxSlots, walked : SUBSET Slices,
              error : BOOLEAN, recovered : BOOLEAN]
  /\ {owed, torn} \subseteq BOOLEAN /\ failing \subseteq Slices
  /\ last \in 0..MaxSlots /\ late \in 0..2 /\ upsets \in 0..MaxUpsets

\* A daily run that begins on time, after one that did, finds every slice due:
\* neither the length of a walk nor a resume run that finished a slice hours later
\* makes the timer skip a day (DUE_SLACK_SECONDS, service.py:38-41 and 63-66).
NoDaySkipped ==
  run.on /\ run.daily /\ run.walked = {} /\ now = run.since /\ Phase(now) = 0 /\ late = 0
    => \A s \in Slices : due[s] <= now

\* The beat between runs is truthful: it is ok or idle only when no slice is still
\* as a failed daily walk left it, unless the daily run was killed before it could
\* beat, or fired so late that it found the failed slice not due yet (service.py:85-90).
ErrorsStayVisible ==
  ~run.on /\ beat.state \in {"ok", "idle"} /\ ~torn /\ late = 0 => failing = {}

\* The age of the beat is the age of the last daily run, so a missed day is
\* reported although resume runs go on every half hour (service.py:88-90).
SilenceIsTheDailyRuns == beat.at = last

SourceDaySafe == NoDaySkipped /\ ErrorsStayVisible /\ SilenceIsTheDailyRuns
=============================================================================
