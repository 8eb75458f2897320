---------------------------- MODULE LadderProofs ----------------------------
(***************************************************************************)
(* What TLAPS proves of Ladder: for any ladder, any thresholds and any     *)
(* sequence of answers, signals and midnights, the holds and the counters  *)
(* that limit the levels above 3x do what they are for.                    *)
(***************************************************************************)
EXTENDS Ladder, FiniteSetTheorems, TLAPS

USE LadderAssumption DEF Levels

-----------------------------------------------------------------------------
(* What the head of the review hands to the decisions *)

\* The smaller and the greater of two numbers.
LEMMA CountdownType ==
  ASSUME NEW m \in Int, NEW n \in Int
  PROVE  /\ Lesser(m, n) \in Int /\ Lesser(m, n) <= m /\ Lesser(m, n) <= n
         /\ Lesser(m, n) = m \/ Lesser(m, n) = n
         /\ Greater(m, n) \in Int /\ Greater(m, n) >= m /\ Greater(m, n) >= n
         /\ Greater(m, n) = m \/ Greater(m, n) = n
  BY DEF Lesser, Greater

\* A resumed day starts at level 1 without a brake, where the pause left it.
LEMMA BrakeNowType ==
  ASSUME IInv
  PROVE  BrakeNow \in Brakes /\ (BrakeNow.on => level = 1)
  BY DEF IInv, StampTypes, BrakedAtLevelOne, BrakeNow, NoBrake, Brakes

\* A pause leaves the ladder at level 1, where a resumed day starts.
LEMMA LevelNowIsLevel ==
  ASSUME IInv
  PROVE  LevelNow = level
  BY DEF IInv, StampTypes, BrakedAtLevelOne, LevelNow, Resumes

\* Cooldowns stay within their bounds when a day resumes.
LEMMA CooldownNowType ==
  ASSUME IInv
  PROVE  CooldownNow \in [Levels -> MemoryFirst..MemoryMax]
<1>1. \A c \in MemoryFirst..MemoryMax : Greater(MemoryFirst, c \div 2) \in MemoryFirst..MemoryMax
  BY DEF Greater
<1> QED
  BY <1>1 DEF IInv, StampTypes, CooldownNow

\* The day's first answer resets its counters before anything is decided.
LEMMA DayNowType ==
  ASSUME IInv
  PROVE  /\ DayNow \in Days /\ DayNow.on = "today"
         /\ DayNow.climbs <= ClimbsPerDay
         /\ seen.climbs <= DayNow.climbs
<1>1. Lesser(1, CleanDay) \in 0..CleanDay /\ Lesser(day.requests + 1, CleanDay) \in 0..CleanDay
  BY DEF IInv, StampTypes, Days, Lesser
<1>2. CASE day.on = "today"
  <2>1. DayNow = [day EXCEPT !.requests = Lesser(day.requests + 1, CleanDay)]
    BY <1>2 DEF DayNow
  <2>2. DayNow \in Days /\ DayNow.on = "today" /\ DayNow.climbs = day.climbs
    BY <1>1, <1>2, <2>1 DEF IInv, StampTypes, Days
  <2> QED
    BY <1>2, <2>2 DEF IInv, CountCoversTheDay
<1>3. CASE day.on # "today"
  <2>1. DayNow = [on |-> "today", requests |-> Lesser(1, CleanDay), bad |-> FALSE,
                  climbs |-> 0]
    BY <1>3 DEF DayNow
  <2>2. DayNow \in Days /\ DayNow.on = "today" /\ DayNow.climbs = 0
    BY <1>1, <2>1 DEF Days
  <2>3. seen.climbs = 0
    BY <1>3 DEF IInv, CountCoversTheDay
  <2> QED
    BY <2>2, <2>3
<1> QED
  BY <1>2, <1>3

-----------------------------------------------------------------------------
(* What is remembered *)

\* A review that does not climb counts nothing above 3x.
LEMMA NothingCounted ==
  ASSUME IInv, NEW outcome, NEW block, NEW falls, NEW drops,
         Remember(outcome, block, falls, drops),
         level' \in Levels, level' <= level,
         day' \in Days, day'.on = "today", day'.climbs = DayNow.climbs
  PROVE  CountCoversTheDay'
<1>1. seen'.climbs = seen.climbs
  BY DEF Remember, IInv, StampTypes
<1>2. seen.climbs \in Nat
  BY DEF IInv, CountCoversTheDay
<1> QED
  BY <1>1, <1>2, DayNowType DEF CountCoversTheDay

\* A review that neither falls nor climbs leaves the hold as it was.
LEMMA HoldStands ==
  ASSUME IInv, NEW outcome, NEW block, Remember(outcome, block, FALSE, FALSE),
         level' \in Levels, level' <= level, hold' = hold
  PROVE  HoldCoversTheFall'
<1>1. seen'.fall = seen.fall
  BY DEF Remember
<1> QED
  BY <1>1 DEF IInv, StampTypes, HoldCoversTheFall

\* A brake or drop from above 3x starts a whole hold.
LEMMA HoldStarts ==
  ASSUME IInv, NEW outcome, NEW block, NEW drops, Remember(outcome, block, TRUE, drops),
         level' \in Levels, level' <= level, level' <= ThreeX \/ level <= ThreeX,
         hold' = HoldAfter(level)
  PROVE  HoldCoversTheFall'
<1>1. seen'.fall = IF level > ThreeX THEN 0 ELSE seen.fall
  BY DEF Remember
<1> QED
  BY <1>1 DEF IInv, StampTypes, HoldCoversTheFall, HoldAfter

\* Entering a level sets it and, at most, starts a rest.
LEMMA EnterType ==
  ASSUME IInv, NEW target \in Levels, Enter(target)
  PROVE  level' = target /\ rest' \in [Levels -> 0..MemoryMax]
  BY DEF IInv, StampTypes, Enter

\* A clean stretch is at least one answer, at most the clearing length.
LEMMA StretchIsPositive == CleanStretch \in 1..ClearAfter
  BY DEF CleanStretch, Greater

\* A brake that is not on any more, or was not on before, starts over.
LEMMA EpisodeWithoutBrake ==
  ASSUME IInv, NEW outcome \in {"clean", "refused", "neutral"}, NEW block,
         NEW falls, NEW drops, Remember(outcome, block, falls, drops), ~brake'.on
  PROVE  EpisodeIsStored'
<1>1. seen'.run \in 0..CleanStretch
  BY StretchIsPositive DEF Remember, IInv, EpisodeIsStored, Lesser
<1>2. seen'.braked = 0
  BY DEF Remember
<1> QED
  BY <1>1, <1>2 DEF EpisodeIsStored

-----------------------------------------------------------------------------
(* The protections *)

\* A block finds the episode as old as it is remembered to be, unless a clean
\* stretch has ended it.
LEMMA EpisodeAtBlock ==
  ASSUME IInv, NEW outcome, NEW block, NEW persisted, EnterBrake(block, persisted),
         Remember(outcome, block, TRUE, FALSE)
  PROVE  EpisodeIsStored'
<1>1. brake' = [on |-> TRUE, clean |-> 0,
                age |-> IF ~BrakeNow.on \/ EpisodeOver THEN 0 ELSE BrakeNow.age]
  BY DEF EnterBrake
<1>2. IsBlock(block)
  BY DEF EnterBrake
<1>3. seen'.run = 0
      /\ seen'.braked = IF BrakeNow.on /\ brake'.on /\ ~(IsBlock(block) /\ seen.run = CleanStretch)
                        THEN seen.braked ELSE 0
  BY <1>2 DEF Remember
<1>4. Lesser(0, CleanStretch) = 0 /\ 0 \in 0..CleanStretch
  BY StretchIsPositive DEF Lesser
<1>5. ASSUME BrakeNow.on
      PROVE  brake.on /\ BrakeNow = brake
  BY <1>5 DEF BrakeNow, NoBrake
<1>6. ASSUME BrakeNow.on
      PROVE  seen.run = CleanStretch <=> EpisodeOver
  <2>1. seen.run = Lesser(brake.clean, CleanStretch) /\ brake.clean \in Nat
    BY <1>5, <1>6 DEF IInv, EpisodeIsStored, StampTypes, Brakes
  <2>2. EpisodeOver <=> brake.clean >= CleanStretch
    BY <1>5, <1>6 DEF EpisodeOver
  <2> QED
    BY <2>1, <2>2, StretchIsPositive DEF Lesser
<1>7. seen'.braked \in Nat /\ brake'.age <= seen'.braked
  <2>1. seen.braked \in Nat
    BY DEF IInv, EpisodeIsStored
  <2>2. CASE BrakeNow.on /\ ~EpisodeOver
    <3>1. brake'.age = brake.age /\ brake.age <= seen.braked /\ brake'.on
      BY <1>1, <1>5, <2>2 DEF IInv, EpisodeIsStored
    <3>2. seen'.braked = seen.braked
      BY <1>3, <1>6, <2>2, <3>1
    <3> QED
      BY <2>1, <3>1, <3>2
  <2>3. CASE ~(BrakeNow.on /\ ~EpisodeOver)
    <3>1. brake'.age = 0
      BY <1>1, <2>3
    <3>2. seen'.braked = 0
      BY <1>2, <1>3, <1>6, <2>3
    <3> QED
      BY <3>1, <3>2
  <2> QED
    BY <2>2, <2>3
<1> QED
  BY <1>1, <1>3, <1>4, <1>7 DEF EpisodeIsStored

\* A block brakes the ladder, or pauses the day.
LEMMA BrakePreserves ==
  ASSUME IInv, NEW outcome, NEW block, Record(block), Brake(block) \/ PauseDay(block),
         Remember(outcome, block, TRUE, FALSE)
  PROVE  IInv'
<1>1. PICK persisted \in BOOLEAN :
        EnterBrake(block, persisted) /\ paused' = IF persisted THEN "today" ELSE "no"
  BY DEF Brake, PauseDay
<1>2. level' = 1 /\ rest' \in [Levels -> 0..MemoryMax]
  <2>1. 1 \in Levels /\ Enter(1)
    BY <1>1 DEF EnterBrake
  <2> QED
    BY <2>1, EnterType
<1>3. brake' \in Brakes /\ brake'.on
  <2>1. BrakeNow.age \in 0..PauseAfter
    BY BrakeNowType DEF Brakes
  <2> QED
    BY <1>1, <2>1 DEF EnterBrake, Brakes
<1>4. day' \in Days /\ day'.on = "today" /\ day'.climbs = DayNow.climbs
  BY <1>1, DayNowType DEF EnterBrake, Days
<1>5. hold' = HoldAfter(level) /\ hold' \in 0..HoldFor
  <2>1. hold' = HoldAfter(LevelNow)
    BY <1>1 DEF EnterBrake
  <2>2. hold' = HoldAfter(level)
    BY <2>1, LevelNowIsLevel
  <2> QED
    BY <2>2 DEF HoldAfter, IInv, StampTypes
<1>6. cooldown' \in [Levels -> MemoryFirst..MemoryMax]
  BY <1>1, CooldownNowType DEF EnterBrake
<1>7. StampTypes' /\ BrakedAtLevelOne'
  BY <1>1, <1>2, <1>3, <1>4, <1>5, <1>6 DEF StampTypes, BrakedAtLevelOne
<1>8. level' \in Levels /\ level' <= level /\ level' <= ThreeX
  BY <1>2 DEF IInv, StampTypes
<1>9. EpisodeIsStored'
  BY <1>1, EpisodeAtBlock
<1> QED
  BY <1>4, <1>5, <1>7, <1>8, <1>9, NothingCounted, HoldStarts DEF IInv

\* Refusals drop it a level.
LEMMA DropPreserves ==
  ASSUME IInv, NEW outcome \in {"clean", "refused", "neutral"}, NEW block, Record(block), Drop(outcome),
         Remember(outcome, block, TRUE, TRUE)
  PROVE  IInv'
<1> DEFINE steps == StepsDown(TrailingNow(outcome = "refused"))
<1>1. steps \in 1..2 /\ level > 1
  <2>1. steps > 0
    BY DEF Drop
  <2>2. steps \in {0, 1, 2} /\ (level = 1 => steps = 0)
    BY Zenon DEF StepsDown
  <2>3. level \in Levels
    BY DEF IInv, StampTypes
  <2> HIDE DEF steps
  <2> QED
    BY <2>1, <2>2, <2>3
<1> HIDE DEF steps
<1>2. Landing(steps) \in Levels /\ Landing(steps) < level
      /\ (Landing(steps) <= ThreeX \/ level <= ThreeX)
  BY <1>1 DEF Landing, Lesser, Greater, IInv, StampTypes
<1>3. level' = Landing(steps) /\ hold' = HoldAfter(level)
      /\ rest' = [rest EXCEPT ![level] = CooldownNow[level], ![Landing(steps)] = 0]
      /\ cooldown' = [CooldownNow EXCEPT ![level] = Doubled(CooldownNow[level])]
  BY DEF Drop, steps
<1>4. day' \in Days /\ day'.on = "today" /\ day'.climbs = DayNow.climbs
  BY DayNowType DEF Drop, Days
<1>5. CooldownNow[level] \in MemoryFirst..MemoryMax
      /\ Doubled(CooldownNow[level]) \in MemoryFirst..MemoryMax
  <2>1. CooldownNow[level] \in MemoryFirst..MemoryMax
    BY CooldownNowType DEF IInv, StampTypes
  <2>2. \A c \in MemoryFirst..MemoryMax : Doubled(c) \in MemoryFirst..MemoryMax
    BY DEF Doubled, Lesser
  <2> QED
    BY <2>1, <2>2
<1>6. rest' \in [Levels -> 0..MemoryMax] /\ cooldown' \in [Levels -> MemoryFirst..MemoryMax]
  <2>1. CooldownNow[level] \in 0..MemoryMax
    BY <1>5
  <2>2. rest \in [Levels -> 0..MemoryMax] /\ 0 \in 0..MemoryMax
    BY DEF IInv, StampTypes
  <2> QED
    BY <1>3, <1>5, <2>1, <2>2, CooldownNowType
<1>7. brake' \in Brakes /\ ~brake'.on /\ paused' = "no"
  BY BrakeNowType DEF Drop
<1>8. hold' \in 0..HoldFor
  BY <1>3 DEF HoldAfter, IInv, StampTypes
<1>9. StampTypes' /\ BrakedAtLevelOne'
  BY <1>2, <1>3, <1>4, <1>6, <1>7, <1>8 DEF StampTypes, BrakedAtLevelOne
<1>10. level' \in Levels /\ level' <= level /\ (level' <= ThreeX \/ level <= ThreeX)
  BY <1>2, <1>3 DEF IInv, StampTypes
<1>11. EpisodeIsStored'
  BY <1>7, EpisodeWithoutBrake
<1> QED
  BY <1>3, <1>4, <1>9, <1>10, <1>11, NothingCounted, HoldStarts DEF IInv

\* An answer under the brake is counted alike in the brake and in memory.
LEMMA EpisodeUnderBrake ==
  ASSUME IInv, NEW outcome \in {"clean", "refused", "neutral"}, NEW block, ~IsBlock(block),
         StayBraked(outcome), Remember(outcome, block, FALSE, FALSE)
  PROVE  EpisodeIsStored'
<1>1. BrakeNow.on /\ brake.on /\ BrakeNow = brake
  BY DEF StayBraked, BrakeNow, NoBrake
<1>2. brake' = [brake EXCEPT !.clean = CleanNow(outcome)] /\ brake \in Brakes
  BY <1>1 DEF StayBraked, IInv, StampTypes
<1>3. brake'.on /\ brake'.age = brake.age /\ brake'.clean = CleanNow(outcome)
  BY <1>1, <1>2 DEF Brakes
<1>4. seen'.braked = seen.braked
  BY <1>1, <1>3 DEF Remember
<1>5. seen'.run = IF outcome = "refused" THEN 0
                  ELSE IF outcome = "clean" THEN Lesser(seen.run + 1, CleanStretch) ELSE seen.run
  BY DEF Remember
<1>6. /\ seen.run = Lesser(brake.clean, CleanStretch) /\ brake.clean \in 0..ClearAfter
      /\ seen.braked \in Nat /\ brake.age <= seen.braked
  BY <1>1 DEF IInv, EpisodeIsStored, StampTypes, Brakes
<1>7. seen'.run = Lesser(CleanNow(outcome), CleanStretch)
  BY <1>1, <1>5, <1>6, StretchIsPositive DEF CleanNow, Lesser
<1>8. seen'.run \in 0..CleanStretch
  BY <1>5, <1>6, StretchIsPositive DEF Lesser
<1> QED
  BY <1>3, <1>4, <1>6, <1>7, <1>8 DEF EpisodeIsStored

\* An answer while the brake is on clears it in the end.
LEMMA BrakedAnswerPreserves ==
  ASSUME IInv, NEW outcome \in {"clean", "refused", "neutral"}, NEW block, ~IsBlock(block),
         StayBraked(outcome) \/ ClearBrake(outcome),
         CleanNow(outcome) \in 0..ClearAfter, Remember(outcome, block, FALSE, FALSE)
  PROVE  IInv'
<1>1. level = 1 /\ 1 \in Levels
  BY BrakeNowType DEF StayBraked, ClearBrake
<1>2. level' = 1 /\ rest' \in [Levels -> 0..MemoryMax]
  <2>1. CASE StayBraked(outcome)
    BY <1>1, <2>1, LevelNowIsLevel DEF StayBraked, Remain, IInv, StampTypes
  <2>2. CASE ClearBrake(outcome)
    BY <1>1, <2>2, EnterType DEF ClearBrake
  <2> QED
    BY <2>1, <2>2
<1>3. brake' \in Brakes
  <2>1. CASE StayBraked(outcome)
    BY <2>1, BrakeNowType DEF StayBraked, Brakes
  <2>2. CASE ClearBrake(outcome)
    BY <2>2 DEF ClearBrake, NoBrake, Brakes
  <2> QED
    BY <2>1, <2>2
<1>4. /\ hold' = hold /\ day' = DayNow /\ cooldown' = CooldownNow /\ paused' = "no"
  BY DEF StayBraked, ClearBrake
<1>5. StampTypes' /\ BrakedAtLevelOne'
  BY <1>1, <1>2, <1>3, <1>4, DayNowType, CooldownNowType
  DEF StampTypes, BrakedAtLevelOne, IInv
<1>6. level' \in Levels /\ level' <= level
  BY <1>1, <1>2
<1>7. CountCoversTheDay'
  BY <1>4, <1>6, DayNowType, NothingCounted
<1>8. HoldCoversTheFall'
  BY <1>4, <1>6, HoldStands
<1>9. EpisodeIsStored'
  <2>1. CASE StayBraked(outcome)
    BY <2>1, EpisodeUnderBrake
  <2>2. CASE ClearBrake(outcome)
    <3>1. ~brake'.on
      BY <2>2 DEF ClearBrake, NoBrake
    <3> QED
      BY <3>1, EpisodeWithoutBrake
  <2> QED
    BY <2>1, <2>2
<1> QED
  BY <1>5, <1>7, <1>8, <1>9 DEF IInv

-----------------------------------------------------------------------------
(* The adjustments *)

\* What the four adjustments share, the day's counter apart.
LEMMA AdjustedType ==
  ASSUME IInv, ~BrakeNow.on, brake' = BrakeNow, cooldown' = CooldownNow, paused' = "no",
         hold' = hold, level' \in Levels, rest' \in [Levels -> 0..MemoryMax], day' \in Days
  PROVE  StampTypes' /\ BrakedAtLevelOne'
  BY BrakeNowType, CooldownNowType DEF IInv, StampTypes, BrakedAtLevelOne

\* A move changes the level and little else.
LEMMA MoveType ==
  ASSUME IInv, NEW target \in Levels, Move(target)
  PROVE  /\ level' = target /\ rest' \in [Levels -> 0..MemoryMax]
         /\ brake' = BrakeNow /\ cooldown' = CooldownNow /\ paused' = "no"
  BY EnterType DEF Move

\* Falling to 3x, easing back and staying never raise the level.
LEMMA LoweringPreserves ==
  ASSUME IInv, NEW outcome \in {"clean", "refused", "neutral"}, NEW block, NEW signals,
         ~BrakeNow.on,
         FallToThreeX(signals) \/ Ease(signals) \/ Stay(outcome, signals),
         Remember(outcome, block, FALSE, FALSE)
  PROVE  IInv'
<1>1. /\ level' \in Levels /\ level' <= level /\ rest' \in [Levels -> 0..MemoryMax]
      /\ brake' = BrakeNow /\ cooldown' = CooldownNow /\ paused' = "no"
  <2>1. CASE FallToThreeX(signals)
    <3>1. ThreeX \in Levels /\ ThreeX < level
      BY <2>1, LevelNowIsLevel DEF FallToThreeX, Overreaches, IInv, StampTypes
    <3>2. Move(ThreeX) /\ level \in Levels
      BY <2>1 DEF FallToThreeX, IInv, StampTypes
    <3> QED
      BY <3>1, <3>2, MoveType
  <2>2. CASE Ease(signals)
    <3>1. level \in Levels /\ level > 1 /\ level - 1 \in Levels
      BY <2>2, LevelNowIsLevel DEF Ease, DemandFell, IInv, StampTypes
    <3>2. Move(level - 1)
      BY <2>2 DEF Ease
    <3> QED
      BY <3>1, <3>2, MoveType
  <2>3. CASE Stay(outcome, signals)
    <3>1. level' = LevelNow /\ rest' = rest /\ brake' = BrakeNow
          /\ cooldown' = CooldownNow /\ paused' = "no"
      BY <2>3 DEF Stay, Remain
    <3>2. level \in Levels /\ rest \in [Levels -> 0..MemoryMax] /\ level <= level
      BY DEF IInv, StampTypes
    <3> QED
      BY <3>1, <3>2, LevelNowIsLevel
  <2> QED
    BY <2>1, <2>2, <2>3
<1>2. hold' = hold /\ day' = DayNow
  BY DEF FallToThreeX, Ease, Stay
<1>3. StampTypes' /\ BrakedAtLevelOne'
  BY <1>1, <1>2, DayNowType, AdjustedType
<1>4. EpisodeIsStored'
  BY <1>1, EpisodeWithoutBrake
<1> QED
  BY <1>1, <1>2, <1>3, <1>4, DayNowType, NothingCounted, HoldStands DEF IInv

\* A climb above 3x needs the hold to be over and is counted.
LEMMA ClimbPreserves ==
  ASSUME IInv, NEW outcome \in {"clean", "refused", "neutral"}, NEW block, NEW signals,
         ~BrakeNow.on,
         Climb(outcome, signals), Remember(outcome, block, FALSE, FALSE)
  PROVE  IInv'
<1>1. /\ level' = level + 1 /\ level' \in Levels /\ rest' \in [Levels -> 0..MemoryMax]
      /\ brake' = BrakeNow /\ cooldown' = CooldownNow /\ paused' = "no" /\ hold' = hold
  <2>1. level < Top /\ level + 1 \in Levels /\ Move(level + 1) /\ hold' = hold
    <3>1. LevelNow < Top /\ Move(LevelNow + 1) /\ hold' = hold
      BY DEF Climb, MayClimb
    <3> QED
      BY <3>1, LevelNowIsLevel DEF IInv, StampTypes
  <2> QED
    BY <2>1, MoveType
<1>2. day' \in Days /\ day'.on = "today"
      /\ day'.climbs = IF level + 1 > ThreeX THEN DayNow.climbs + 1 ELSE DayNow.climbs
  <2>1. day' = [DayNow EXCEPT !.climbs = ClimbsAfter(level + 1)]
    BY LevelNowIsLevel DEF Climb
  <2>2. ClimbsAfter(level + 1) \in Nat
    BY DayNowType DEF ClimbsAfter, Days
  <2> QED
    BY <2>1, <2>2, DayNowType DEF Days, ClimbsAfter
<1>3. level + 1 > ThreeX => hold = 0 /\ DayNow.climbs < ClimbsPerDay
  BY LevelNowIsLevel DEF Climb, MayClimb, MayClimbAbove
<1>4. StampTypes' /\ BrakedAtLevelOne'
  BY <1>1, <1>2, AdjustedType
<1>5. seen'.fall = seen.fall
      /\ seen'.climbs = IF level' > level /\ level' > ThreeX
                        THEN Lesser(seen.climbs + 1, ClimbsPerDay + 1) ELSE seen.climbs
  BY DEF Remember
<1>6. HoldCoversTheFall'
  BY <1>1, <1>3, <1>5 DEF IInv, HoldCoversTheFall
<1>7. CountCoversTheDay'
  <2>1. seen.climbs \in Nat /\ DayNow.climbs \in Nat /\ level \in Nat
    BY DayNowType, SMTT(30) DEF IInv, CountCoversTheDay, Days, StampTypes
  <2> QED
    BY <1>1, <1>2, <1>3, <1>5, <2>1, DayNowType, SMTT(30) DEF CountCoversTheDay, Lesser
<1>8. EpisodeIsStored'
  BY <1>1, EpisodeWithoutBrake
<1> QED
  BY <1>4, <1>6, <1>7, <1>8 DEF IInv

-----------------------------------------------------------------------------
(* Time *)

\* A tick takes from the stored hold no more than it adds to the time since the
\* fall.
LEMMA HoldRunsWithTheFall ==
  ASSUME NEW limit \in Nat, NEW f \in 0..limit, NEW h \in 0..limit, f + h >= limit
  PROVE  /\ Older(f, limit) \in 0..limit
         /\ Older(f, limit) + Down(h) >= limit
<1>1. CASE f < limit
  <2>1. Older(f, limit) = f + 1 /\ Down(h) >= h - 1
    BY <1>1 DEF Older, Lesser, Down
  <2> QED
    BY <1>1, <2>1 DEF Down
<1>2. CASE f = limit
  BY <1>2 DEF Older, Lesser, Down
<1> QED
  BY <1>1, <1>2

\* Time passes, and with it perhaps midnight.
LEMMA TickPreserves == IInv /\ Tick => IInv'
<1> SUFFICES ASSUME IInv, Tick PROVE IInv'
  OBVIOUS
<1> USE DEF IInv, StampTypes
<1>1. /\ rest' \in [Levels -> 0..MemoryMax] /\ hold' = Down(hold) /\ hold' \in 0..HoldFor
      /\ level' = level /\ cooldown' = cooldown
  <2>1. \A n \in 0..MemoryMax : Down(n) \in 0..MemoryMax
    BY DEF Down
  <2>2. Down(hold) \in 0..HoldFor
    BY DEF Down
  <2>3. rest' = [l \in Levels |-> Down(rest[l])] /\ hold' = Down(hold)
        /\ level' = level /\ cooldown' = cooldown
    BY DEF Tick
  <2> QED
    BY <2>1, <2>2, <2>3
<1>2. brake' \in Brakes /\ brake'.on = brake.on
  <2>1. Older(brake.age, PauseAfter) \in 0..PauseAfter
    BY DEF Brakes, Older, Lesser
  <2>2. brake' = IF brake.on THEN [brake EXCEPT !.age = Older(brake.age, PauseAfter)] ELSE brake
    BY DEF Tick
  <2> QED
    BY <2>1, <2>2 DEF Brakes
<1>3. paused' \in {"no", "today", "earlier"} /\ (paused' # "no" => paused # "no")
  BY DEF Tick, Yesterday
<1>4. day' \in Days /\ day'.climbs = day.climbs
      /\ (day'.on = "today" => day.on = "today" /\ clock + 1 # DayLength)
  BY DEF Tick, Yesterday, Days
<1>5. seen'.fall = Older(seen.fall, HoldFor)
      /\ seen'.climbs = IF clock + 1 = DayLength THEN 0 ELSE seen.climbs
  BY DEF Tick
<1>6. clock + 1 # DayLength => day' = day
  BY DEF Tick
<1>7. HoldCoversTheFall'
  <2>1. seen.fall \in 0..HoldFor /\ seen.fall + hold >= HoldFor /\ (level > ThreeX => hold = 0)
    BY DEF HoldCoversTheFall
  <2>2. Older(seen.fall, HoldFor) \in 0..HoldFor
        /\ Older(seen.fall, HoldFor) + Down(hold) >= HoldFor
    <3>1. HoldFor \in Nat /\ hold \in 0..HoldFor
      BY LadderAssumption
    <3> HIDE DEF IInv, StampTypes
    <3> QED
      BY <2>1, <3>1, HoldRunsWithTheFall
  <2>3. level > ThreeX => Down(hold) = 0
    BY <2>1 DEF Down
  <2> QED
    BY <1>1, <1>5, <2>2, <2>3 DEF HoldCoversTheFall
<1>8. CountCoversTheDay'
  BY <1>4, <1>5, <1>6 DEF CountCoversTheDay, Days
<1>9. EpisodeIsStored'
  <2>1. seen'.run = seen.run /\ seen'.braked = Older(seen.braked, PauseAfter)
    BY DEF Tick
  <2>2. brake.on => brake'.clean = brake.clean /\ brake'.age = Older(brake.age, PauseAfter)
    BY DEF Tick, Brakes
  <2>3. seen.braked \in Nat /\ brake.age \in Nat
    BY DEF EpisodeIsStored, Brakes
  <2>4. ASSUME NEW a \in Nat, NEW b \in Nat, a <= b
        PROVE  Older(a, PauseAfter) <= Older(b, PauseAfter)
    BY <2>4 DEF Older, Lesser
  <2>5. ASSUME NEW b \in Nat
        PROVE  Older(b, PauseAfter) \in Nat
    BY DEF Older, Lesser
  <2> QED
    <3>1. seen'.run \in 0..CleanStretch /\ seen'.braked \in Nat
      BY <2>1, <2>3, <2>5 DEF EpisodeIsStored
    <3>2. ASSUME brake.on
          PROVE  seen'.run = Lesser(brake'.clean, CleanStretch)
      BY <2>1, <2>2, <3>2 DEF EpisodeIsStored
    <3>3. ASSUME brake.on
          PROVE  brake'.age <= seen'.braked
      <4>1. brake.age <= seen.braked
        BY <3>3 DEF EpisodeIsStored
      <4> QED
        BY <2>1, <2>2, <2>3, <2>4, <3>3, <4>1
    <3> QED
      BY <1>2, <3>1, <3>2, <3>3 DEF EpisodeIsStored
<1> QED
  BY <1>1, <1>2, <1>3, <1>4, <1>7, <1>8, <1>9 DEF BrakedAtLevelOne

-----------------------------------------------------------------------------
(* The invariant and what follows from it *)

\* A ladder that has seen no answer.
LEMMA InitInvariant == Init => IInv
<1> SUFFICES ASSUME Init PROVE IInv
  OBVIOUS
<1>1. StampTypes
  BY DEF Init, StampTypes, NoBrake, Brakes, Days
<1>2. BrakedAtLevelOne /\ HoldCoversTheFall /\ CountCoversTheDay /\ EpisodeIsStored
  BY StretchIsPositive DEF Init, NoBrake, BrakedAtLevelOne, HoldCoversTheFall,
     CountCoversTheDay, EpisodeIsStored
<1> QED
  BY <1>1, <1>2 DEF IInv

\* The protections of review: the brake, and the drop.
LEMMA ProtectPreserves ==
  ASSUME IInv, NEW answer \in Answers, Protect(answer[1], answer[2])
  PROVE  IInv'
<1>1. CleanNow(answer[1]) \in 0..ClearAfter
  <2>1. BrakeNow.clean \in 0..ClearAfter
    BY BrakeNowType DEF Brakes
  <2>2. answer[1] \in {"clean", "refused", "neutral"}
    BY DEF Answers
  <2> QED
    BY <2>1, <2>2 DEF CleanNow, Lesser
<1>2. answer[1] \in {"clean", "refused", "neutral"}
  BY DEF Answers
<1> QED
  BY <1>1, <1>2, BrakePreserves, DropPreserves, BrakedAnswerPreserves DEF Protect

\* What review does with signals when no protection applies.
LEMMA AdjustPreserves ==
  ASSUME IInv, NEW outcome \in {"clean", "refused", "neutral"}, NEW block, NEW signals,
         Adjust(outcome, block, signals)
  PROVE  IInv'
  BY LoweringPreserves, ClimbPreserves DEF Adjust, Unprotected

\* Every review and every tick.
LEMMA NextInvariant == IInv /\ [Next]_vars => IInv'
<1> SUFFICES ASSUME IInv, [Next]_vars PROVE IInv'
  OBVIOUS
<1>1. CASE UNCHANGED vars
  BY <1>1 DEF vars, IInv, StampTypes, BrakedAtLevelOne, HoldCoversTheFall, CountCoversTheDay,
     EpisodeIsStored
<1>2. \A answer \in Answers : answer[1] \in {"clean", "refused", "neutral"}
  BY DEF Answers
<1> QED
  BY <1>1, <1>2, TickPreserves, ProtectPreserves, AdjustPreserves DEF Next

\* The brake freezes the ladder at level 1, the stored hold covers every fall
\* from above 3x, and the stored counter covers every climb of the Rome day.
THEOREM Invariance == Spec => []IInv
  BY InitInvariant, NextInvariant, PTL DEF Spec

\* After a drop or a brake from above 3x the ladder stays at 3x or below for
\* the whole hold, through clears, further drops, pauses and midnights.
THEOREM FallsStayHeld == Spec => []FallsAreHeld
<1>1. IInv => FallsAreHeld
  BY DEF IInv, StampTypes, HoldCoversTheFall, FallsAreHeld
<1> QED
  BY <1>1, Invariance, PTL

\* Between two midnights at most ClimbsPerDay climbs lead into or within the
\* levels above 3x, although the stored counter is reset lazily.
THEOREM ClimbsAreFew == Spec => []FewClimbsAbove
<1>1. IInv => FewClimbsAbove
  BY DEF IInv, StampTypes, Days, CountCoversTheDay, FewClimbsAbove
<1> QED
  BY <1>1, Invariance, PTL

\* A brake or a pause never leaves a fast level behind it.
THEOREM BrakesFreeze == Spec => []BrakedAtLevelOne
<1>1. IInv => BrakedAtLevelOne
  BY DEF IInv
<1> QED
  BY <1>1, Invariance, PTL

\* Only EnterBrake pauses a day.
LEMMA OnlyBlocksPause ==
  ASSUME IInv, [Next]_vars, paused # "today", paused' = "today"
  PROVE  \E block : EnterBrake(block, TRUE)
<1>1. ~Tick /\ ~UNCHANGED vars
  BY DEF Tick, Yesterday, vars, IInv, StampTypes
<1>2. ASSUME NEW outcome, NEW block, NEW signals, Adjust(outcome, block, signals)
      PROVE  FALSE
  BY <1>2 DEF Adjust, FallToThreeX, Ease, Climb, Stay, Move
<1>3. ASSUME NEW outcome, NEW block, Protect(outcome, block)
      PROVE  EnterBrake(block, TRUE)
  BY <1>3 DEF Protect, Brake, PauseDay, Drop, StayBraked, ClearBrake
<1> QED
  BY <1>1, <1>2, <1>3 DEF Next

\* LinkedIn is paused for a day only by a block that comes PauseAfter or more
\* after the first one of an episode that no clean stretch has interrupted.
THEOREM PausesNeedPersistence == Spec => OnlyPersistentBlocksPause
<1>1. ASSUME IInv, [Next]_vars, paused # "today", paused' = "today"
      PROVE  seen.braked >= PauseAfter /\ seen.run < CleanStretch
  <2>1. PICK block : EnterBrake(block, TRUE)
    BY <1>1, OnlyBlocksPause
  <2>2. /\ (IF ~BrakeNow.on \/ EpisodeOver THEN 0 ELSE BrakeNow.age) >= PauseAfter
        /\ BrakeNow.clean < CleanStretch
    BY <2>1 DEF EnterBrake
  <2>3. BrakeNow.on /\ BrakeNow.age >= PauseAfter
    BY <2>2
  <2>4. BrakeNow = brake
    BY <2>3 DEF BrakeNow, NoBrake
  <2>5. /\ brake.age <= seen.braked /\ seen.run = Lesser(brake.clean, CleanStretch)
        /\ brake.age \in Nat /\ seen.braked \in Nat /\ brake.clean \in Nat
    BY <1>1, <2>3, <2>4 DEF IInv, EpisodeIsStored, StampTypes, Brakes
  <2> QED
    BY <2>2, <2>3, <2>4, <2>5, StretchIsPositive DEF Lesser
<1>2. IInv /\ [Next]_vars =>
        [paused # "today" /\ paused' = "today" =>
           seen.braked >= PauseAfter /\ seen.run < CleanStretch]_vars
  BY <1>1
<1> QED
  BY <1>2, Invariance, PTL DEF Spec, OnlyPersistentBlocksPause

-----------------------------------------------------------------------------
(* The refusals that can cost a level *)

\* The places of the refusals in a trailing window.
Refusals(trail) == {i \in DOMAIN trail : trail[i]}

\* They are finitely many.
LEMMA RefusedType ==
  ASSUME NEW trail \in Seq(BOOLEAN)
  PROVE  IsFiniteSet(Refusals(trail)) /\ Refused(trail) = Cardinality(Refusals(trail))
         /\ Refused(trail) \in Nat
<1>1. DOMAIN trail = 1..Len(trail) /\ Len(trail) \in Nat
  OBVIOUS
<1>2. IsFiniteSet(1..Len(trail))
  BY <1>1, FS_Interval
<1>3. Refusals(trail) \in SUBSET (1..Len(trail))
  BY <1>1 DEF Refusals
<1>4. IsFiniteSet(Refusals(trail))
  BY <1>2, <1>3, FS_Subset
<1> QED
  BY <1>4, FS_CardinalityType DEF Refused, Refusals

\* An answer adds itself to the window, and nothing else.
LEMMA RefusedAppend ==
  ASSUME NEW trail \in Seq(BOOLEAN), NEW refused \in BOOLEAN
  PROVE  /\ Append(trail, refused) \in Seq(BOOLEAN)
         /\ Refused(Append(trail, refused)) = IF refused THEN Refused(trail) + 1
                                              ELSE Refused(trail)
<1> DEFINE longer == Append(trail, refused)
           n == Len(trail) + 1
<1>1. longer \in Seq(BOOLEAN)
  OBVIOUS
<1>2. DOMAIN trail = 1..(n - 1) /\ DOMAIN longer = 1..n /\ n \in Nat
  OBVIOUS
<1>3. longer[n] = refused /\ \A i \in 1..(n - 1) : longer[i] = trail[i]
  OBVIOUS
<1>4. n \notin Refusals(trail)
  BY <1>2 DEF Refusals
<1>5. CASE refused
  <2>1. Refusals(longer) = Refusals(trail) \cup {n}
    BY <1>2, <1>3, <1>5 DEF Refusals
  <2>2. Cardinality(Refusals(longer)) = Cardinality(Refusals(trail)) + 1
    BY <1>4, <2>1, RefusedType, FS_AddElement, ZenonT(60)
  <2>3. Refused(longer) = Refused(trail) + 1
    <3> HIDE DEF longer
    <3> QED
      BY <1>1, <2>2, RefusedType
  <2> QED
    BY <1>1, <1>5, <2>3
<1>6. CASE ~refused
  <2>1. Refusals(longer) = Refusals(trail)
    BY <1>2, <1>3, <1>6 DEF Refusals
  <2> QED
    BY <1>1, <1>6, <2>1, RefusedType
<1> QED
  BY <1>1, <1>5, <1>6

\* Dropping the oldest answer of a window loses refusals, if anything.
LEMMA RefusedTail ==
  ASSUME NEW trail \in Seq(BOOLEAN), Len(trail) > 0
  PROVE  Tail(trail) \in Seq(BOOLEAN) /\ Refused(Tail(trail)) <= Refused(trail)
<1>1. Tail(trail) \in Seq(BOOLEAN) /\ DOMAIN Tail(trail) = 1..(Len(trail) - 1)
      /\ DOMAIN trail = 1..Len(trail) /\ Len(trail) \in Nat
  OBVIOUS
<1>2. \A i \in 1..(Len(trail) - 1) : Tail(trail)[i] = trail[i + 1]
  OBVIOUS
<1> DEFINE shift == [i \in Refusals(Tail(trail)) |-> i + 1]
<1>3. \A i \in Refusals(Tail(trail)) : i \in Int /\ i + 1 \in Refusals(trail)
  BY <1>1, <1>2 DEF Refusals
<1>4. shift \in Injection(Refusals(Tail(trail)), Refusals(trail))
  BY <1>3 DEF Injection, IsInjective
<1>5. Cardinality(Refusals(Tail(trail))) <= Cardinality(Refusals(trail))
  BY <1>4, RefusedType, FS_Injection
<1> QED
  BY <1>1, <1>5, RefusedType

\* The types that the share of refusals is computed from.
StintIsTyped ==
  /\ trailing \in Seq(BOOLEAN)
  /\ tally \in [requests: 0..TallyCap, refusals: 0..TallyCap]
  /\ tally.refusals <= tally.requests

\* The head of the review keeps window and stint together: each answer is
\* added to both, and a day that resumes starts both from nothing.
LEMMA HeadKeepsEvidence ==
  ASSUME IInv, StintIsTyped, EvidenceIsOfThisLevel,
         NEW outcome \in {"clean", "refused", "neutral"}
  PROVE  LET trail == TrailingNow(outcome = "refused")
             stint == TallyNow(outcome)
         IN /\ trail \in Seq(BOOLEAN)
            /\ stint \in [requests: 0..TallyCap, refusals: 0..TallyCap]
            /\ stint.refusals <= stint.requests
            /\ ~BrakeNow.on =>
                 /\ Len(trail) <= Window
                 /\ stint.requests < TallyCap => Refused(trail) <= stint.refusals
<1> DEFINE before == IF Resumes THEN <<>> ELSE trailing
           refused == outcome = "refused"
           longer == Append(before, refused)
           trail == TrailingNow(refused)
           t == IF Resumes THEN NoTally ELSE tally
           stint == TallyNow(outcome)
<1>1. before \in Seq(BOOLEAN) /\ refused \in BOOLEAN
  <2>1. refused \in BOOLEAN
    BY Zenon
  <2>2. before = <<>> \/ before = trailing
    BY Zenon
  <2>3. <<>> \in Seq(BOOLEAN) /\ trailing \in Seq(BOOLEAN)
    BY DEF StintIsTyped
  <2> QED
    BY <2>1, <2>2, <2>3, Zenon
<1>2. longer \in Seq(BOOLEAN) /\ Len(longer) = Len(before) + 1
      /\ Refused(longer) = IF refused THEN Refused(before) + 1 ELSE Refused(before)
  <2> HIDE DEF before, refused
  <2> QED
    BY <1>1, RefusedAppend
<1>3. trail = IF Len(longer) > Window THEN Tail(longer) ELSE longer
  BY DEF TrailingNow
<1>4. /\ trail \in Seq(BOOLEAN) /\ Refused(trail) <= Refused(longer)
      /\ Len(before) <= Window => Len(trail) <= Window
  <2> HIDE DEF before, refused, longer, trail
  <2>1. Refused(longer) \in Nat /\ Len(longer) \in Nat /\ Len(before) \in Nat
    BY <1>1, <1>2, RefusedType
  <2>2. CASE Len(longer) > Window
    <3>1. Len(longer) > 0 /\ trail = Tail(longer)
      BY <1>2, <1>3, <2>2
    <3>2. Len(Tail(longer)) = Len(longer) - 1
      BY <1>2, <3>1
    <3> QED
      BY <1>1, <1>2, <2>1, <3>1, <3>2, RefusedTail
  <2>3. CASE ~(Len(longer) > Window)
    BY <1>2, <1>3, <2>1, <2>3
  <2> QED
    BY <2>2, <2>3
<1>5. /\ t \in [requests: 0..TallyCap, refusals: 0..TallyCap]
      /\ t.refusals <= t.requests
  BY DEF StintIsTyped, NoTally
<1>6. stint = IF BrakeNow.on THEN t
              ELSE [requests |-> Lesser(t.requests + 1, TallyCap),
                    refusals |-> CASE outcome = "refused" -> Lesser(t.refusals + 1, TallyCap)
                                   [] outcome = "clean" /\ t.requests = TallyCap -> Down(t.refusals)
                                   [] OTHER -> t.refusals]
  BY DEF TallyNow
<1>7. /\ stint \in [requests: 0..TallyCap, refusals: 0..TallyCap]
      /\ stint.refusals <= stint.requests
      /\ ~BrakeNow.on /\ stint.requests < TallyCap =>
           /\ t.requests < TallyCap
           /\ stint.refusals = IF refused THEN t.refusals + 1 ELSE t.refusals
  <2> HIDE DEF t, stint
  <2> QED
    BY <1>5, <1>6 DEF Lesser, Down
<1>8. ASSUME ~BrakeNow.on
      PROVE  /\ Len(before) <= Window
             /\ t.requests < TallyCap => Refused(before) <= t.refusals
  <2>1. CASE Resumes
    <3>1. Refusals(<<>>) = {}
      BY DEF Refusals
    <3>2. <<>> \in Seq(BOOLEAN) /\ Len(<<>>) = 0
      OBVIOUS
    <3>3. Refused(<<>>) = 0
      BY <3>1, <3>2, RefusedType, FS_EmptySet
    <3> QED
      BY <2>1, <3>2, <3>3 DEF NoTally
  <2>2. CASE ~Resumes
    <3>1. ~brake.on
      BY <1>8, <2>2 DEF BrakeNow
    <3> QED
      BY <2>2, <3>1 DEF EvidenceIsOfThisLevel
  <2> QED
    BY <2>1, <2>2
<1>9. Refused(before) \in Nat /\ Refused(trail) \in Nat /\ Refused(longer) \in Nat
  BY <1>1, <1>2, <1>4, RefusedType
<1>10. ~BrakeNow.on /\ stint.requests < TallyCap => Refused(trail) <= stint.refusals
  <2> HIDE DEF t, stint, trail, longer, before
  <2> QED
    BY <1>2, <1>4, <1>5, <1>7, <1>8, <1>9
<1> QED
  BY <1>4, <1>7, <1>8, <1>10

\* A level that is entered has no evidence against it yet.
LEMMA BlankStint ==
  ASSUME tally' = NoTally, trailing' = <<>>
  PROVE  StintIsTyped' /\ EvidenceIsOfThisLevel'
<1>1. Refusals(<<>>) = {} /\ <<>> \in Seq(BOOLEAN) /\ Len(<<>>) = 0
  BY DEF Refusals
<1>2. Refused(<<>>) = 0
  BY <1>1, RefusedType, FS_EmptySet
<1> QED
  BY <1>1, <1>2 DEF StintIsTyped, EvidenceIsOfThisLevel, NoTally

\* A review that stays where it was adds its answer, unless the brake is on.
LEMMA StayingKeepsEvidence ==
  ASSUME IInv, StintIsTyped, EvidenceIsOfThisLevel,
         NEW outcome \in {"clean", "refused", "neutral"},
         Remain(outcome), brake'.on = BrakeNow.on
  PROVE  StintIsTyped' /\ EvidenceIsOfThisLevel'
<1>1. trailing' = TrailingNow(outcome = "refused") /\ tally' = TallyNow(outcome)
  BY DEF Remain
<1> QED
  BY <1>1, HeadKeepsEvidence DEF StintIsTyped, EvidenceIsOfThisLevel

\* A review with its answer either enters a level or stays at one.
LEMMA ReviewKeepsEvidence ==
  ASSUME IInv, StintIsTyped, EvidenceIsOfThisLevel,
         NEW outcome \in {"clean", "refused", "neutral"}, NEW block,
         Protect(outcome, block) \/ \E signals \in Signals : Adjust(outcome, block, signals)
  PROVE  StintIsTyped' /\ EvidenceIsOfThisLevel'
<1>1. ASSUME NEW target, Enter(target)
      PROVE  StintIsTyped' /\ EvidenceIsOfThisLevel'
  BY <1>1, BlankStint DEF Enter
<1>2. CASE Protect(outcome, block)
  <2>1. CASE Brake(block) \/ PauseDay(block) \/ ClearBrake(outcome)
    BY <1>1, <2>1 DEF Brake, PauseDay, EnterBrake, ClearBrake
  <2>2. CASE Drop(outcome)
    BY <2>2, BlankStint DEF Drop
  <2>3. CASE StayBraked(outcome)
    <3>1. brake' = [BrakeNow EXCEPT !.clean = CleanNow(outcome)]
      BY <2>3 DEF StayBraked
    <3>2. brake'.on = BrakeNow.on
      BY <3>1, BrakeNowType DEF Brakes
    <3> QED
      BY <2>3, <3>2, StayingKeepsEvidence DEF StayBraked
  <2> QED
    BY <1>2, <2>1, <2>2, <2>3 DEF Protect
<1>3. ASSUME NEW signals, Adjust(outcome, block, signals)
      PROVE  StintIsTyped' /\ EvidenceIsOfThisLevel'
  <2>1. CASE Stay(outcome, signals)
    BY <2>1, StayingKeepsEvidence DEF Stay
  <2>2. CASE FallToThreeX(signals) \/ Ease(signals) \/ Climb(outcome, signals)
    BY <1>1, <2>2 DEF FallToThreeX, Ease, Climb, Move
  <2> QED
    BY <1>3, <2>1, <2>2 DEF Adjust
<1> QED
  BY <1>2, <1>3

\* Window and stint of a level always started empty together, so no refusal met
\* at another level, under the brake or before a pause ever costs one.
THEOREM EvidenceIsLocal == Spec => []EvidenceIsOfThisLevel
<1>1. Init => StintIsTyped /\ EvidenceIsOfThisLevel
  <2>1. Refusals(<<>>) = {} /\ <<>> \in Seq(BOOLEAN) /\ Len(<<>>) = 0
    BY DEF Refusals
  <2>2. Refused(<<>>) = 0
    BY <2>1, RefusedType, FS_EmptySet
  <2> QED
    BY <2>1, <2>2 DEF Init, StintIsTyped, EvidenceIsOfThisLevel, NoTally
<1>2. IInv /\ StintIsTyped /\ EvidenceIsOfThisLevel /\ [Next]_vars =>
        StintIsTyped' /\ EvidenceIsOfThisLevel'
  <2> SUFFICES ASSUME IInv, StintIsTyped, EvidenceIsOfThisLevel, [Next]_vars
               PROVE  StintIsTyped' /\ EvidenceIsOfThisLevel'
    OBVIOUS
  <2>1. CASE Tick \/ UNCHANGED vars
    <3>1. trailing' = trailing /\ tally' = tally
      BY <2>1 DEF Tick, vars
    <3>2. brake'.on = brake.on
      BY <2>1 DEF Tick, vars, IInv, StampTypes, Brakes
    <3> QED
      BY <3>1, <3>2 DEF StintIsTyped, EvidenceIsOfThisLevel
  <2>2. \A answer \in Answers : answer[1] \in {"clean", "refused", "neutral"}
    BY DEF Answers
  <2> QED
    BY <2>1, <2>2, ReviewKeepsEvidence DEF Next
<1> QED
  BY <1>1, <1>2, Invariance, PTL DEF Spec

-----------------------------------------------------------------------------
(* The rest of a level that caused a drop *)

\* Until its first cooldown is over, the level last dropped from is above the
\* ladder, and what is left of its rest covers what is left of the cooldown.
DroppedIsResting ==
  /\ seen.dropped \in 0..Top /\ seen.since \in 0..MemoryFirst
  /\ seen.dropped > 0 =>
       \/ seen.since = MemoryFirst
       \/ level < seen.dropped /\ rest[seen.dropped] + seen.since >= MemoryFirst

\* A drop starts a rest of at least the first cooldown.
LEMMA DropStartsTheRest ==
  ASSUME IInv, NEW outcome, NEW block, Drop(outcome), Remember(outcome, block, TRUE, TRUE)
  PROVE  DroppedIsResting'
<1> DEFINE landing == Landing(StepsDown(TrailingNow(outcome = "refused")))
<1>1. level \in Levels /\ landing \in Levels /\ landing < level
  <2>1. StepsDown(TrailingNow(outcome = "refused")) \in {0, 1, 2}
        /\ (level = 1 => StepsDown(TrailingNow(outcome = "refused")) = 0)
    BY Zenon DEF StepsDown
  <2>2. StepsDown(TrailingNow(outcome = "refused")) > 0 /\ level \in Levels
    BY DEF Drop, IInv, StampTypes
  <2> QED
    BY <2>1, <2>2 DEF Landing, Lesser, Greater
<1>2. level' = landing
      /\ rest' = [rest EXCEPT ![level] = CooldownNow[level], ![landing] = 0]
  BY DEF Drop
<1>3. rest'[level] = CooldownNow[level] /\ CooldownNow[level] \in MemoryFirst..MemoryMax
  <2> HIDE DEF landing
  <2> QED
    BY <1>1, <1>2, CooldownNowType, SMTT(30) DEF IInv, StampTypes
<1>4. seen'.dropped = level /\ seen'.since = 0
  BY DEF Remember
<1> QED
  BY <1>1, <1>2, <1>3, <1>4 DEF DroppedIsResting

\* Any other answer leaves the dropped level its rest, unless it enters it: and
\* to climb back to it the rest must be over.
LEMMA OthersLeaveTheRest ==
  ASSUME IInv, DroppedIsResting, level' \in Levels,
         seen'.dropped = seen.dropped, seen'.since = seen.since,
         \A l \in Levels : l # level' => rest'[l] = rest[l],
         level' > level => rest[level'] = 0 /\ level' = level + 1
  PROVE  DroppedIsResting'
<1>1. level \in Levels /\ rest \in [Levels -> 0..MemoryMax]
  BY DEF IInv, StampTypes
<1>2. CASE seen.dropped = 0 \/ seen.since = MemoryFirst
  BY <1>2 DEF DroppedIsResting
<1>3. CASE seen.dropped > 0 /\ seen.since < MemoryFirst
  <2>1. /\ seen.dropped \in Levels /\ level < seen.dropped /\ seen.since \in Nat
        /\ rest[seen.dropped] + seen.since >= MemoryFirst
    BY <1>3 DEF DroppedIsResting
  <2>2. level' # seen.dropped
    BY <1>1, <1>3, <2>1
  <2>3. level' < seen.dropped
    BY <1>1, <2>1, <2>2
  <2> QED
    BY <2>1, <2>2, <2>3 DEF DroppedIsResting
<1> QED
  BY <1>2, <1>3 DEF DroppedIsResting

\* Where each other review lets the ladder go, and which rests it touches.
LEMMA WhereOthersGo ==
  ASSUME IInv, NEW outcome \in {"clean", "refused", "neutral"}, NEW block, NEW signals,
         \/ Brake(block) \/ PauseDay(block)
         \/ StayBraked(outcome) \/ ClearBrake(outcome)
         \/ FallToThreeX(signals) \/ Ease(signals)
         \/ Climb(outcome, signals) \/ Stay(outcome, signals)
  PROVE  /\ level' \in Levels
         /\ \A l \in Levels : l # level' => rest'[l] = rest[l]
         /\ level' > level => rest[level'] = 0 /\ level' = level + 1
<1>1. level \in Levels /\ LevelNow = level /\ rest \in [Levels -> 0..MemoryMax]
  BY LevelNowIsLevel DEF IInv, StampTypes
<1>2. ASSUME NEW target \in Levels, Enter(target), target <= level
      PROVE  /\ level' \in Levels /\ level' <= level
             /\ \A l \in Levels : l # level' => rest'[l] = rest[l]
  BY <1>1, <1>2 DEF Enter
<1>3. CASE Brake(block) \/ PauseDay(block) \/ ClearBrake(outcome)
  <2>1. Brake(block) \/ PauseDay(block) => Enter(1)
    BY Zenon DEF Brake, PauseDay, EnterBrake
  <2>2. ClearBrake(outcome) => Enter(1)
    BY Zenon DEF ClearBrake
  <2>3. Enter(1)
    BY <1>3, <2>1, <2>2
  <2>4. 1 \in Levels /\ 1 <= level
    BY <1>1, LadderAssumption DEF Levels
  <2> QED
    BY <1>1, <1>2, <2>3, <2>4
<1>4. CASE StayBraked(outcome) \/ Stay(outcome, signals)
  <2>1. level' = LevelNow /\ rest' = rest
    BY <1>4 DEF StayBraked, Stay, Remain
  <2> QED
    BY <1>1, <2>1
<1>5. CASE FallToThreeX(signals)
  <2>1. Enter(ThreeX) /\ ThreeX \in Levels /\ ThreeX <= level
    BY <1>1, <1>5 DEF FallToThreeX, Overreaches, Move
  <2> QED
    BY <1>1, <1>2, <2>1
<1>6. CASE Ease(signals)
  <2>1. Enter(level - 1) /\ level - 1 \in Levels /\ level - 1 <= level
    BY <1>1, <1>6 DEF Ease, DemandFell, Move
  <2> QED
    BY <1>1, <1>2, <2>1
<1>7. CASE Climb(outcome, signals)
  <2>1. Enter(level + 1) /\ level + 1 \in Levels /\ rest[level + 1] = 0
    <3>1. Enter(LevelNow + 1) /\ LevelNow < Top /\ rest[LevelNow + 1] = 0
      BY <1>7 DEF Climb, MayClimb, Move
    <3> QED
      BY <1>1, <3>1
  <2> QED
    BY <1>1, <2>1 DEF Enter
<1> QED
  BY <1>3, <1>4, <1>5, <1>6, <1>7

\* One answer, whatever the review makes of it.
LEMMA ReviewKeepsTheRest ==
  ASSUME IInv, DroppedIsResting, NEW outcome \in {"clean", "refused", "neutral"}, NEW block,
         NEW signals, Review(outcome, block, signals)
  PROVE  DroppedIsResting'
<1>1. CASE Drop(outcome) /\ Remember(outcome, block, TRUE, TRUE)
  BY <1>1, DropStartsTheRest
<1>2. ASSUME NEW falls, Remember(outcome, block, falls, FALSE)
      PROVE  seen'.dropped = seen.dropped /\ seen'.since = seen.since
  BY <1>2 DEF Remember
<1>3. CASE \/ (Brake(block) \/ PauseDay(block)) /\ Remember(outcome, block, TRUE, FALSE)
           \/ /\ StayBraked(outcome) \/ ClearBrake(outcome)
              /\ Remember(outcome, block, FALSE, FALSE)
           \/ Adjust(outcome, block, signals)
  <2>1. seen'.dropped = seen.dropped /\ seen'.since = seen.since
    BY <1>2, <1>3 DEF Adjust
  <2>2. \/ Brake(block) \/ PauseDay(block)
        \/ StayBraked(outcome) \/ ClearBrake(outcome)
        \/ FallToThreeX(signals) \/ Ease(signals)
        \/ Climb(outcome, signals) \/ Stay(outcome, signals)
    BY <1>3 DEF Adjust
  <2> QED
    BY <2>1, <2>2, WhereOthersGo, OthersLeaveTheRest
<1> QED
  BY <1>1, <1>3 DEF Review, Protect

\* A tick takes from the rest no more than it adds to the time since the drop.
LEMMA TickKeepsTheRest ==
  ASSUME IInv, DroppedIsResting, Tick
  PROVE  DroppedIsResting'
<1>1. /\ seen'.dropped = seen.dropped /\ seen'.since = Older(seen.since, MemoryFirst)
      /\ level' = level /\ \A l \in Levels : rest'[l] = Down(rest[l])
  BY DEF Tick
<1>2. rest \in [Levels -> 0..MemoryMax]
  BY DEF IInv, StampTypes
<1>3. ASSUME NEW f \in 0..MemoryFirst, NEW h \in Nat, f + h >= MemoryFirst
      PROVE  Older(f, MemoryFirst) + Down(h) >= MemoryFirst
  BY <1>3 DEF Older, Lesser, Down
<1>4. seen.since \in 0..MemoryFirst /\ Older(seen.since, MemoryFirst) \in 0..MemoryFirst
      /\ (seen.since = MemoryFirst => Older(seen.since, MemoryFirst) = MemoryFirst)
  BY DEF DroppedIsResting, Older, Lesser
<1>5. CASE seen.dropped > 0 /\ seen.since # MemoryFirst
  <2>1. /\ seen.dropped \in Levels /\ level < seen.dropped
        /\ rest[seen.dropped] \in Nat /\ seen.since + rest[seen.dropped] >= MemoryFirst
    BY <1>2, <1>4, <1>5 DEF DroppedIsResting
  <2>2. Older(seen.since, MemoryFirst) + Down(rest[seen.dropped]) >= MemoryFirst
    BY <1>3, <1>4, <2>1
  <2> QED
    BY <1>1, <1>4, <2>1, <2>2 DEF DroppedIsResting, Down
<1>6. CASE ~(seen.dropped > 0 /\ seen.since # MemoryFirst)
  BY <1>1, <1>4, <1>6 DEF DroppedIsResting
<1> QED
  BY <1>5, <1>6

\* Rest and remembrance run down together from the drop on.
LEMMA RestInvariance == Spec => []DroppedIsResting
<1>1. Init => DroppedIsResting
  BY DEF Init, DroppedIsResting
<1>2. IInv /\ DroppedIsResting /\ [Next]_vars => DroppedIsResting'
  <2> SUFFICES ASSUME IInv, DroppedIsResting, [Next]_vars PROVE DroppedIsResting'
    OBVIOUS
  <2>1. CASE UNCHANGED vars
    BY <2>1 DEF vars, DroppedIsResting
  <2>2. \A answer \in Answers : answer[1] \in {"clean", "refused", "neutral"}
    BY DEF Answers
  <2> QED
    BY <2>1, <2>2, TickKeepsTheRest, ReviewKeepsTheRest DEF Next, Review
<1> QED
  BY <1>1, <1>2, Invariance, PTL DEF Spec

\* A level that caused a drop is not climbed to again before its first cooldown
\* is over, whatever brakes, clears, pauses and lesser drops come in between.
THEOREM DroppedLevelsDoRest == Spec => DroppedLevelsRest
<1>1. ASSUME IInv, DroppedIsResting, [Next]_vars, level' > level, level' = seen.dropped
      PROVE  seen.since >= MemoryFirst
  <2>1. level \in Levels
    BY <1>1 DEF IInv, StampTypes
  <2>2. ~Tick /\ ~UNCHANGED vars
    <3>1. level' # level
      BY <1>1, <2>1 DEF DroppedIsResting, Levels
    <3>2. Tick => level' = level
      BY Zenon DEF Tick
    <3>3. UNCHANGED vars => level' = level
      BY Zenon DEF vars
    <3> QED
      BY <3>1, <3>2, <3>3
  <2>3. PICK answer \in Answers :
          Protect(answer[1], answer[2]) \/ \E signals \in Signals : Adjust(answer[1], answer[2], signals)
    BY <1>1, <2>2 DEF Next
  <2>4. ASSUME Drop(answer[1]), Remember(answer[1], answer[2], TRUE, TRUE)
        PROVE  FALSE
    <3>1. DroppedIsResting' /\ seen'.dropped = level
      BY <1>1, <2>4, DropStartsTheRest DEF Remember
    <3>2. seen'.since = 0
      BY <2>4 DEF Remember
    <3> QED
      BY <1>1, <2>1, <3>1, <3>2 DEF DroppedIsResting
  <2>5. /\ level' \in Levels
        /\ level' > level => rest[level'] = 0 /\ level' = level + 1
    <3>1. answer[1] \in {"clean", "refused", "neutral"}
      BY DEF Answers
    <3>2. CASE Protect(answer[1], answer[2])
      BY <1>1, <2>4, <3>1, <3>2, WhereOthersGo DEF Protect
    <3>3. ASSUME NEW signals \in Signals, Adjust(answer[1], answer[2], signals)
          PROVE  level' \in Levels /\ (level' > level => rest[level'] = 0 /\ level' = level + 1)
      BY <1>1, <3>1, <3>3, WhereOthersGo DEF Adjust
    <3> QED
      BY <2>3, <3>2, <3>3
  <2> QED
    BY <1>1, <2>1, <2>5 DEF DroppedIsResting
<1>2. IInv /\ DroppedIsResting /\ [Next]_vars =>
        [level' > level /\ level' = seen.dropped => seen.since >= MemoryFirst]_vars
  BY <1>1
<1> QED
  BY <1>2, Invariance, RestInvariance, PTL DEF Spec, DroppedLevelsRest
=============================================================================
