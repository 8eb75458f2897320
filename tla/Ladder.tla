------------------------------- MODULE Ladder -------------------------------
(***************************************************************************)
(* The adaptive pace ladder (src/linkedin/adaptive.py): review() runs once *)
(* per LinkedIn answer, under the lock of Pace, and moves between speed    *)
(* levels, the emergency brake and a pause for the rest of the Rome day.   *)
(*                                                                         *)
(* Time is discrete: a tick is the shortest span the ladder measures, any  *)
(* number of answers may come within it, and a stamp of the stored state   *)
(* is kept as its age or as the time left until it.  What the ladder reads *)
(* but does not decide (the signals of the database, the rolling 24 h      *)
(* count, the rates of successes) is an input of the review.               *)
(***************************************************************************)
EXTENDS Integers, Sequences, FiniteSets

CONSTANTS
  Top,             \* max_level
  ThreeX, FourX,   \* the last levels that are not above 3x and above 4x
  Window,          \* protect_window_requests
  MinRequests,     \* protect_min_requests
  DropPercent,     \* protect_drop_rate, in percent
  DropTwoPercent,  \* protect_drop_two_rate, in percent
  DropStreak,      \* protect_drop_streak
  ClimbAfter,      \* climb_min_requests
  ClimbAfterAbove, \* climb_min_requests_above_3x
  ClimbsPerDay,    \* above_3x_climbs_per_day
  Cautious,        \* the tallies <<requests, refusals>> whose Wilson bound allows a climb
  TallyCap,        \* requests at a level are counted up to this many
  MemoryFirst, MemoryMax,  \* the cooldown of a level that caused a drop
  HoldFor,         \* above_3x_hold_hours
  CleanDay,        \* clean_day_min_requests
  DemandHold, DemandEase, DemandMin,  \* thresholds on the waiting descriptions
  EaseAfter,       \* demand_ease_interval_seconds
  ClearAfter,      \* emergency_clear_requests
  ConnectionErrors, ConnectionWindow, \* emergency_connection_*
  PauseAfter,      \* pause_after_block_seconds
  DayLength,       \* ticks of a Rome day
  Signals          \* what a review may read beside the answer

Levels == 1..Top

\* What the request came to, and its block signal.  The review of a hard block
\* is the same for a refusal (a wait of the maximum) as for a neutral answer.
Answers == {<<"clean", "no">>, <<"refused", "no">>, <<"neutral", "no">>,
            <<"neutral", "connection">>, <<"neutral", "block">>}

ASSUME LadderAssumption ==
  /\ Top \in Nat \ {0} /\ ThreeX \in Levels /\ FourX \in Levels
  /\ Window \in Nat \ {0} /\ TallyCap \in Nat \ {0}
  /\ MemoryFirst \in Nat \ {0} /\ MemoryMax \in Nat /\ MemoryFirst <= MemoryMax
  /\ HoldFor \in Nat /\ EaseAfter \in Nat /\ DayLength \in Nat \ {0}
  /\ CleanDay \in Nat /\ ClimbsPerDay \in Nat
  /\ ClearAfter \in Nat \ {0} /\ PauseAfter \in Nat \ {0}
  /\ ConnectionErrors \in Nat \ {0} /\ ConnectionWindow \in Nat
  /\ Signals \subseteq [fresh: BOOLEAN, demand: Nat, llm: {"free", "above4x", "spent"},
                        ceiling: BOOLEAN, slower: BOOLEAN]

VARIABLES
  level,     \* the current level
  trailing,  \* whether each of the last answers was refused
  tally,     \* requests and refusals at this level since it was entered
  cooldown,  \* how long each level rests after the next drop from it
  rest,      \* time left until each level's blocked_until
  hold,      \* time left until above_3x_hold_until
  sinceEase, \* age of last_ease_at
  brake,     \* the emergency brake: on, age of since, clean answers
  errors,    \* ages of the connection errors
  paused,    \* the day LinkedIn is paused for: "no", "today" or "earlier"
  day,       \* the counters below: the day they count, requests, drops or brakes, climbs
  clock,     \* ticks since midnight in Rome
  seen       \* observation: what the properties remember

vars == <<level, trailing, tally, cooldown, rest, hold, sinceEase, brake, errors,
          paused, day, clock, seen>>

Lesser(a, b) == IF a < b THEN a ELSE b
Greater(a, b) == IF a < b THEN b ELSE a
Down(n) == IF n > 0 THEN n - 1 ELSE 0

NoTally == [requests |-> 0, refusals |-> 0]
NoBrake == [on |-> FALSE, age |-> 0, clean |-> 0]
Brakes == [on: BOOLEAN, age: 0..PauseAfter, clean: 0..ClearAfter]
Days == [on: {"never", "today", "earlier"}, requests: 0..CleanDay, bad: BOOLEAN, climbs: Nat]
CleanStretch == Greater(1, ClearAfter \div 2)

Refused(trail) == Cardinality({i \in DOMAIN trail : trail[i]})
ShareReaches(trail, percent) ==
  Len(trail) > 0 /\ 100 * Refused(trail) >= percent * Len(trail)

-----------------------------------------------------------------------------
(* The head of review(): what every answer does before anything is decided.  *)
(* The operators give the values that the rest of the review works with.     *)

Resumes == paused = "earlier"

\* A paused day that is over leaves neither its brake nor its trailing window.
BrakeNow == IF Resumes THEN NoBrake ELSE brake

DayWasClean ==
  day.on = "earlier" /\ day.requests >= CleanDay /\ ~day.bad

CooldownNow ==
  [l \in Levels |-> IF DayWasClean THEN Greater(MemoryFirst, cooldown[l] \div 2)
                    ELSE cooldown[l]]

\* Mutant: the new day keeps the count of climbs.
DayKeepsClimbs ==
  IF day.on = "today"
  THEN [day EXCEPT !.requests = Lesser(@ + 1, CleanDay)]
  ELSE [on |-> "today", requests |-> Lesser(1, CleanDay), bad |-> FALSE,
        climbs |-> day.climbs]

DayNow ==
  IF day.on = "today"
  THEN [day EXCEPT !.requests = Lesser(@ + 1, CleanDay)]
  ELSE [on |-> "today", requests |-> Lesser(1, CleanDay), bad |-> FALSE, climbs |-> 0]

TrailingNow(refused) ==
  LET longer == Append(IF Resumes THEN <<>> ELSE trailing, refused)
  IN IF Len(longer) > Window THEN Tail(longer) ELSE longer

\* Under the brake nothing is counted.  Beyond TallyCap requests a clean
\* answer outweighs one refusal.
TallyNow(outcome) ==
  LET t == IF Resumes THEN NoTally ELSE tally
  IN IF BrakeNow.on THEN t
     ELSE [requests |-> Lesser(t.requests + 1, TallyCap),
           refusals |-> CASE outcome = "refused" -> Lesser(t.refusals + 1, TallyCap)
                          [] outcome = "clean" /\ t.requests = TallyCap -> Down(t.refusals)
                          [] OTHER -> t.refusals]

\* The connection errors still within the window, of which the newest matter.
ErrorsNow(block) ==
  LET recent == SelectSeq(Append(errors, 0), LAMBDA age : age <= ConnectionWindow)
  IN IF block # "connection" THEN errors
     ELSE IF Len(recent) > ConnectionErrors THEN Tail(recent) ELSE recent

\* A hard block signal, or enough connection errors within the window.
IsBlock(block) ==
  \/ block = "block"
  \/ block = "connection" /\ Len(ErrorsNow(block)) >= ConnectionErrors

LevelNow == IF Resumes THEN 1 ELSE level

-----------------------------------------------------------------------------
(* What the review decides: the first of these that applies. *)

\* Mutant: entering a level keeps the trailing window of the one left.
EnterWithTrailing(target) ==
  /\ level' = target
  /\ tally' = NoTally
  /\ trailing' = trailing
  /\ rest' = [rest EXCEPT ![target] = 0]

\* Mutant: entering a level forgives every level that caused a drop.
EnterForgiving(target) ==
  /\ level' = target
  /\ tally' = NoTally
  /\ trailing' = <<>>
  /\ rest' = [l \in Levels |-> 0]

\* A level is entered with a blank stint and an empty trailing window.
Enter(target) ==
  /\ level' = target
  /\ tally' = NoTally
  /\ trailing' = <<>>
  /\ rest' = [rest EXCEPT ![target] = 0]

Remain(outcome) ==
  /\ level' = LevelNow
  /\ tally' = TallyNow(outcome)
  /\ trailing' = TrailingNow(outcome = "refused")
  /\ UNCHANGED rest

\* Nothing but the level moves.
Move(target) ==
  /\ Enter(target)
  /\ brake' = BrakeNow
  /\ cooldown' = CooldownNow
  /\ paused' = "no"

\* A level that causes a drop again rests twice as long, up to a limit.
Doubled(wait) == Lesser(MemoryMax, 2 * wait)

\* Mutant: an episode goes on whatever was answered since its last block.
NeverOver == FALSE

\* Enough clean answers since the last block or refusal end the episode.
EpisodeOver == BrakeNow.on /\ BrakeNow.clean >= CleanStretch

\* Mutant: leaving a level above 3x by the brake does not hold the ladder.
HoldAfterDrops(from) == hold

HoldAfter(from) == IF from > ThreeX THEN HoldFor ELSE hold

\* A block signal enters the brake at level 1, or extends the episode; a
\* block that persists for PauseAfter pauses the rest of the day.
EnterBrake(block, persisted) ==
  LET starts == ~BrakeNow.on \/ EpisodeOver
      age == IF starts THEN 0 ELSE BrakeNow.age
  IN /\ IsBlock(block)
     /\ persisted <=> age >= PauseAfter /\ BrakeNow.clean < CleanStretch
     /\ Enter(1)
     /\ brake' = [on |-> TRUE, age |-> age, clean |-> 0]
     /\ hold' = HoldAfter(LevelNow)
     /\ day' = [DayNow EXCEPT !.bad = @ \/ starts]
     /\ cooldown' = CooldownNow
     /\ UNCHANGED sinceEase

Brake(block) == EnterBrake(block, FALSE) /\ paused' = "no"

PauseDay(block) == EnterBrake(block, TRUE) /\ paused' = "today"

\* Under the brake only clean answers count, and a refusal starts them over.
CleanNow(outcome) ==
  CASE outcome = "clean"   -> Lesser(BrakeNow.clean + 1, ClearAfter)
    [] outcome = "refused" -> 0
    [] outcome = "neutral" -> BrakeNow.clean

BrakeOver(outcome) ==
  /\ CleanNow(outcome) >= ClearAfter
  /\ ~ShareReaches(TrailingNow(outcome = "refused"), DropPercent)

StayBraked(outcome) ==
  /\ BrakeNow.on
  /\ ~BrakeOver(outcome)
  /\ Remain(outcome)
  /\ brake' = [BrakeNow EXCEPT !.clean = CleanNow(outcome)]
  /\ paused' = "no"
  /\ day' = DayNow
  /\ cooldown' = CooldownNow
  /\ UNCHANGED <<hold, sinceEase>>

ClearBrake(outcome) ==
  /\ BrakeNow.on
  /\ BrakeOver(outcome)
  /\ Enter(1)
  /\ brake' = NoBrake
  /\ paused' = "no"
  /\ day' = DayNow
  /\ cooldown' = CooldownNow
  /\ UNCHANGED <<hold, sinceEase>>

\* The last DropStreak answers were all refused.
Streak(trail) ==
  /\ Len(trail) >= DropStreak
  /\ \A i \in DOMAIN trail : i > Len(trail) - DropStreak => trail[i]

Reaches(trail, percent) == Len(trail) >= MinRequests /\ ShareReaches(trail, percent)

\* How many levels the refusals of the trailing window cost.
StepsDown(trail) ==
  IF level = 1 THEN 0
  ELSE IF Streak(trail) \/ Reaches(trail, DropTwoPercent) THEN 2
  ELSE IF Reaches(trail, DropPercent) THEN 1 ELSE 0

\* A drop that starts above 3x never lands above 3x.
Landing(steps) ==
  LET below == Greater(1, level - steps)
  IN IF level > ThreeX THEN Lesser(below, ThreeX) ELSE below

Drop(outcome) ==
  LET steps == StepsDown(TrailingNow(outcome = "refused"))
  IN /\ ~BrakeNow.on
     /\ steps > 0
     /\ level' = Landing(steps)
     /\ tally' = NoTally
     /\ trailing' = <<>>
     /\ rest' = [rest EXCEPT ![level] = CooldownNow[level], ![Landing(steps)] = 0]
     /\ cooldown' = [CooldownNow EXCEPT ![level] = Doubled(@)]
     /\ hold' = HoldAfter(level)
     /\ day' = [DayNow EXCEPT !.bad = TRUE]
     /\ brake' = BrakeNow
     /\ paused' = "no"
     /\ UNCHANGED sinceEase

\* Nothing protective applies: no brake, no drop.
Unprotected(outcome) ==
  ~BrakeNow.on /\ StepsDown(TrailingNow(outcome = "refused")) = 0

\* Above 3x an empty queue or the rolling ceiling sends the ladder to 3x.
Overreaches(signals) ==
  /\ LevelNow > ThreeX
  /\ signals.ceiling \/ (signals.fresh /\ signals.demand < DemandHold)

FallToThreeX(signals) ==
  /\ Overreaches(signals)
  /\ Move(ThreeX)
  /\ day' = DayNow
  /\ UNCHANGED <<hold, sinceEase>>

DemandFell(signals) ==
  /\ signals.fresh /\ LevelNow > 1
  /\ signals.demand < DemandEase
  /\ sinceEase >= EaseAfter

Ease(signals) ==
  /\ ~Overreaches(signals)
  /\ DemandFell(signals)
  /\ Move(level - 1)
  /\ sinceEase' = 0
  /\ day' = DayNow
  /\ UNCHANGED hold

\* No refusal pressure: a small share, and none among the last answers.
WindowCalm(trail) ==
  /\ ~ShareReaches(trail, DropPercent)
  /\ \A i \in DOMAIN trail : i > Len(trail) - DropStreak => ~trail[i]

ClimbsAfter(target) == IF target > ThreeX THEN DayNow.climbs + 1 ELSE DayNow.climbs

\* What a climb into or within the levels above 3x needs besides.
MayClimbAbove(t, signals) ==
  /\ ~signals.ceiling
  /\ DayNow.climbs < ClimbsPerDay
  /\ hold = 0
  /\ t.requests >= ClimbAfterAbove
  /\ LevelNow + 1 > FourX => signals.llm = "free"

MayClimb(outcome, signals) ==
  LET t == TallyNow(outcome)
  IN /\ outcome = "clean"
     /\ LevelNow < Top
     /\ LevelNow + 1 > ThreeX => MayClimbAbove(t, signals)
     /\ t.requests >= ClimbAfter
     /\ rest[LevelNow + 1] = 0
     /\ signals.fresh
     /\ <<t.requests, t.refusals>> \in Cautious
     /\ WindowCalm(TrailingNow(FALSE))
     /\ signals.demand >= DemandMin
     /\ signals.llm # "spent"
     /\ LevelNow > 1 => ~signals.slower

Climb(outcome, signals) ==
  /\ ~Overreaches(signals)
  /\ ~DemandFell(signals)
  /\ MayClimb(outcome, signals)
  /\ Move(LevelNow + 1)
  /\ day' = [DayNow EXCEPT !.climbs = ClimbsAfter(LevelNow + 1)]
  /\ UNCHANGED <<hold, sinceEase>>

Stay(outcome, signals) ==
  /\ ~Overreaches(signals)
  /\ ~DemandFell(signals)
  /\ ~MayClimb(outcome, signals)
  /\ Remain(outcome)
  /\ brake' = BrakeNow
  /\ paused' = "no"
  /\ cooldown' = CooldownNow
  /\ day' = DayNow
  /\ UNCHANGED <<hold, sinceEase>>

-----------------------------------------------------------------------------
(* What the properties remember, independently of what the ladder stores *)

Remember(outcome, block, falls, drops) ==
  LET blocked == IsBlock(block)
      run == IF blocked \/ outcome = "refused" THEN 0
             ELSE IF outcome = "clean" THEN Lesser(seen.run + 1, CleanStretch) ELSE seen.run
      above == level > ThreeX
  IN seen' = [braked  |-> IF /\ BrakeNow.on /\ brake'.on
                             /\ ~(blocked /\ seen.run = CleanStretch)
                          THEN seen.braked ELSE 0,
              run     |-> run,
              fall    |-> IF falls /\ above THEN 0 ELSE seen.fall,
              climbs  |-> IF level' > level /\ level' > ThreeX
                          THEN Lesser(seen.climbs + 1, ClimbsPerDay + 1) ELSE seen.climbs,
              dropped |-> IF drops THEN level ELSE seen.dropped,
              since   |-> IF drops THEN 0 ELSE seen.since]

-----------------------------------------------------------------------------
Init ==
  /\ level = 1
  /\ trailing = <<>>
  /\ tally = NoTally
  /\ cooldown = [l \in Levels |-> MemoryFirst]
  /\ rest = [l \in Levels |-> 0]
  /\ hold = 0
  /\ sinceEase = EaseAfter
  /\ brake = NoBrake
  /\ errors = <<>>
  /\ paused = "no"
  /\ day = [on |-> "never", requests |-> 0, bad |-> FALSE, climbs |-> 0]
  /\ clock = 0
  /\ seen = [braked |-> 0, run |-> 0, fall |-> HoldFor, climbs |-> 0,
             dropped |-> 0, since |-> 0]

\* One answer is recorded.  The gate of Pace lets no request out on the day
\* that is paused, so the review that would find it paused never comes.
Record(block) ==
  /\ paused # "today"
  /\ errors' = ErrorsNow(block)
  /\ UNCHANGED clock

\* The protections come first: the brake, and the drop.
Protect(outcome, block) ==
  /\ Record(block)
  /\ \/ (Brake(block) \/ PauseDay(block)) /\ Remember(outcome, block, TRUE, FALSE)
     \/ ~IsBlock(block) /\ Drop(outcome) /\ Remember(outcome, block, TRUE, TRUE)
     \/ /\ ~IsBlock(block)
        /\ StayBraked(outcome) \/ ClearBrake(outcome)
        /\ Remember(outcome, block, FALSE, FALSE)

\* Then the ladder adjusts to the signals.
Adjust(outcome, block, signals) ==
  /\ Record(block)
  /\ ~IsBlock(block)
  /\ Unprotected(outcome)
  /\ \/ FallToThreeX(signals) \/ Ease(signals)
     \/ Climb(outcome, signals) \/ Stay(outcome, signals)
  /\ Remember(outcome, block, FALSE, FALSE)

Review(outcome, block, signals) ==
  Protect(outcome, block) \/ Adjust(outcome, block, signals)

Older(age, limit) == Lesser(age + 1, limit)

\* What midnight makes of a stamp that names the day.
Yesterday(stamp) == IF stamp = "today" THEN "earlier" ELSE stamp

Tick ==
  LET midnight == clock + 1 = DayLength
  IN /\ clock' = IF midnight THEN 0 ELSE clock + 1
     /\ rest' = [l \in Levels |-> Down(rest[l])]
     /\ hold' = Down(hold)
     /\ sinceEase' = Older(sinceEase, EaseAfter)
     /\ brake' = IF brake.on THEN [brake EXCEPT !.age = Older(@, PauseAfter)] ELSE brake
     /\ errors' = [i \in DOMAIN errors |-> Older(errors[i], ConnectionWindow + 1)]
     /\ paused' = IF midnight THEN Yesterday(paused) ELSE paused
     /\ day' = IF midnight THEN [day EXCEPT !.on = Yesterday(@)] ELSE day
     /\ seen' = [seen EXCEPT !.braked = Older(@, PauseAfter), !.fall = Older(@, HoldFor),
                             !.since = Older(@, MemoryFirst),
                             !.climbs = IF midnight THEN 0 ELSE @]
     /\ UNCHANGED <<level, trailing, tally, cooldown>>

Next ==
  \/ Tick
  \/ \E answer \in Answers :
       \/ Protect(answer[1], answer[2])
       \/ \E signals \in Signals : Adjust(answer[1], answer[2], signals)

Spec == Init /\ [][Next]_vars

-----------------------------------------------------------------------------
(* Properties *)

StampTypes ==
  /\ level \in Levels
  /\ cooldown \in [Levels -> MemoryFirst..MemoryMax]
  /\ rest \in [Levels -> 0..MemoryMax]
  /\ hold \in 0..HoldFor
  /\ brake \in Brakes
  /\ paused \in {"no", "today", "earlier"}
  /\ day \in Days

TypeOK ==
  /\ StampTypes
  /\ trailing \in Seq(BOOLEAN)
  /\ tally \in [requests: 0..TallyCap, refusals: 0..TallyCap]
  /\ sinceEase \in 0..EaseAfter
  /\ errors \in Seq(0..(ConnectionWindow + 1))
  /\ clock \in 0..(DayLength - 1)

\* A brake freezes the ladder at level 1 until it clears, and LinkedIn is only
\* ever paused under the brake: no path leaves a fast level behind either.
BrakedAtLevelOne ==
  /\ brake.on => level = 1
  /\ paused # "no" => brake.on

\* The refusals that can cost a level were all met at that level: whichever way
\* a level was entered, its window and its stint started empty together.
EvidenceIsOfThisLevel ==
  ~brake.on =>
    /\ Len(trailing) <= Window
    /\ tally.requests < TallyCap => Refused(trailing) <= tally.refusals

\* A block pauses the day only if it recurs: since PauseAfter or longer no two
\* signals were parted by a clean stretch, whose count a refusal starts over
\* ("two stray block signals an hour apart", _brake_persisted).
OnlyPersistentBlocksPause ==
  [][paused # "today" /\ paused' = "today" =>
       seen.braked >= PauseAfter /\ seen.run < CleanStretch]_vars

\* A protect drop or brake from above 3x lands at 3x or below, and the ladder
\* stays there for the whole hold (module docstring), whatever clears, drops,
\* resumes or rolls the day meanwhile.
FallsAreHeld == seen.fall < HoldFor => level <= ThreeX

\* At most ClimbsPerDay climbs into or within the levels above 3x between two
\* midnights, although the stored counter is reset by the day's first answer.
FewClimbsAbove == seen.climbs <= ClimbsPerDay

\* The inductive strengthening: the stored hold outlasts the fall it is for and
\* is over while the ladder is above 3x, and the stored counter, once the day's
\* first answer has reset it, has every climb since midnight.
HoldCoversTheFall ==
  /\ seen.fall \in 0..HoldFor
  /\ seen.fall + hold >= HoldFor
  /\ level > ThreeX => hold = 0

CountCoversTheDay ==
  /\ seen.climbs \in Nat
  /\ day.climbs <= ClimbsPerDay
  /\ IF day.on = "today" THEN seen.climbs <= day.climbs ELSE seen.climbs = 0

\* The stored brake has the age of its episode and the clean answers since its
\* last block or refusal.
EpisodeIsStored ==
  /\ seen.run \in 0..CleanStretch /\ seen.braked \in Nat
  /\ brake.on => seen.run = Lesser(brake.clean, CleanStretch) /\ brake.age <= seen.braked

IInv ==
  /\ StampTypes /\ BrakedAtLevelOne
  /\ HoldCoversTheFall /\ CountCoversTheDay /\ EpisodeIsStored

\* A level that caused a drop is not entered again before its first cooldown
\* is over, even when a brake or other drops come in between.
DroppedLevelsRest ==
  [][level' > level /\ level' = seen.dropped => seen.since >= MemoryFirst]_vars

-----------------------------------------------------------------------------
(* Recovery *)

\* LinkedIn answers cleanly while plenty of work waits: nothing else happens.
Ideal == {s \in Signals : s.fresh /\ s.demand >= DemandMin /\ s.llm = "free"
                          /\ ~s.ceiling /\ ~s.slower}
CleanReview == \E s \in Ideal : Review("clean", "no", s)

\* The services keep asking while the gate is open, and time passes.
FairSpec == Spec /\ WF_vars(Tick) /\ WF_vars(CleanReview)

\* Once LinkedIn stops refusing, the ladder finds its way back to its ceiling
\* from any brake, pause, hold and cooldown it had got itself into.
Recovers ==
  <>[][Tick \/ CleanReview]_vars => <>[](level = Top /\ ~brake.on)
=============================================================================
