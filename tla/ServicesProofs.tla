--------------------------- MODULE ServicesProofs ---------------------------
(***************************************************************************)
(* What the modules of proofs prove of their parts, for any constants,     *)
(* holds of the parts side by side (Services): the part at work never      *)
(* changes, and a behaviour of Services is one of its part.                *)
(***************************************************************************)
EXTENDS Services, TLAPS

-----------------------------------------------------------------------------
(* A behaviour is one of its part from its first state to its last.         *)

\* The variables, one by one.
LEMMA Still ==
  UNCHANGED vars <=>
    /\ part' = part /\ v1' = v1 /\ v2' = v2 /\ v3' = v3 /\ v4' = v4 /\ v5' = v5 /\ v6' = v6 /\ v7' = v7
    /\ v8' = v8 /\ v9' = v9 /\ v10' = v10 /\ v11' = v11 /\ v12' = v12 /\ v13' = v13
BY DEF vars, from5, from8, from9, from10, from11, from12

LEMMA JobsOnly ==
  Spec => (J!Spec /\ [](part = "jobs")) \/ [](~(part = "jobs"))
<1>1. Init /\ part = "jobs" => J!Init
  BY DEF Init
<1>2. part = "jobs" /\ [Next]_vars => [J!Next]_(J!vars) /\ (part = "jobs")'
  BY DEF Next, vars, J!vars, from5, from8, from9, from10, from11
<1>3. ~(part = "jobs") /\ [Next]_vars => ~(part = "jobs")'
  BY DEF Next, vars
<1> QED
  BY <1>1, <1>2, <1>3, PTL DEF Spec, J!Spec

LEMMA ModelsOnly ==
  Spec => (J!M!Spec /\ [](part = "models")) \/ [](~(part = "models"))
<1>1. Init /\ part = "models" => J!M!Init
  BY DEF Init
<1>2. part = "models" /\ [Next]_vars => [J!M!Next]_(J!M!vars) /\ (part = "models")'
  BY DEF Next, vars, J!M!vars, from5, from8, from9, from10, from11
<1>3. ~(part = "models") /\ [Next]_vars => ~(part = "models")'
  BY DEF Next, vars
<1> QED
  BY <1>1, <1>2, <1>3, PTL DEF Spec, J!M!Spec

LEMMA UpkeepOnly ==
  Spec => (J!U!Spec /\ [](part = "upkeep")) \/ [](~(part = "upkeep"))
<1>1. Init /\ part = "upkeep" => J!U!Init
  BY DEF Init
<1>2. part = "upkeep" /\ [Next]_vars => [J!U!Next]_(J!U!vars) /\ (part = "upkeep")'
  BY DEF Next, vars, J!U!vars, from5, from8, from9, from10, from11
<1>3. ~(part = "upkeep") /\ [Next]_vars => ~(part = "upkeep")'
  BY DEF Next, vars
<1> QED
  BY <1>1, <1>2, <1>3, PTL DEF Spec, J!U!Spec

LEMMA DailyOnly ==
  Spec => (G!Spec /\ [](part = "daily")) \/ [](~(part = "daily"))
<1>1. Init /\ part = "daily" => G!Init
  BY DEF Init
<1>2. part = "daily" /\ [Next]_vars => [G!Next]_(G!vars) /\ (part = "daily")'
  BY DEF Next, vars, G!vars, from5, from8, from9, from10, from11
<1>3. ~(part = "daily") /\ [Next]_vars => ~(part = "daily")'
  BY DEF Next, vars
<1> QED
  BY <1>1, <1>2, <1>3, PTL DEF Spec, G!Spec

LEMMA VerifyOnly ==
  Spec => (G!V!Spec /\ [](part = "verify")) \/ [](~(part = "verify"))
<1>1. Init /\ part = "verify" => G!V!Init
  BY DEF Init
<1>2. part = "verify" /\ [Next]_vars => [G!V!Next]_(G!V!vars) /\ (part = "verify")'
  BY DEF Next, vars, G!V!vars, from5, from8, from9, from10, from11
<1>3. ~(part = "verify") /\ [Next]_vars => ~(part = "verify")'
  BY DEF Next, vars
<1> QED
  BY <1>1, <1>2, <1>3, PTL DEF Spec, G!V!Spec

LEMMA LogOnly ==
  Spec => (G!L!Spec /\ [](part = "log")) \/ [](~(part = "log"))
<1>1. Init /\ part = "log" => G!L!Init
  BY DEF Init
<1>2. part = "log" /\ [Next]_vars => [G!L!Next]_(G!L!vars) /\ (part = "log")'
  BY DEF Next, vars, G!L!vars, from5, from8, from9, from10, from11
<1>3. ~(part = "log") /\ [Next]_vars => ~(part = "log")'
  BY DEF Next, vars
<1> QED
  BY <1>1, <1>2, <1>3, PTL DEF Spec, G!L!Spec

LEMMA ScrapeOnly ==
  Spec => (G!S!Spec /\ [](part = "scrape")) \/ [](~(part = "scrape"))
<1>1. Init /\ part = "scrape" => G!S!Init
  BY DEF Init
<1>2. part = "scrape" /\ [Next]_vars => [G!S!Next]_(G!S!vars) /\ (part = "scrape")'
  BY DEF Next, vars, G!S!vars, from5, from8, from9, from10, from11
<1>3. ~(part = "scrape") /\ [Next]_vars => ~(part = "scrape")'
  BY DEF Next, vars
<1> QED
  BY <1>1, <1>2, <1>3, PTL DEF Spec, G!S!Spec

LEMMA ExcerptOnly ==
  Spec => (G!X!Spec /\ [](part = "excerpt")) \/ [](~(part = "excerpt"))
<1>1. Init /\ part = "excerpt" => G!X!Init
  BY DEF Init
<1>2. part = "excerpt" /\ [Next]_vars => [G!X!Next]_(G!X!vars) /\ (part = "excerpt")'
  BY DEF Next, vars, G!X!vars, from5, from8, from9, from10, from11
<1>3. ~(part = "excerpt") /\ [Next]_vars => ~(part = "excerpt")'
  BY DEF Next, vars
<1> QED
  BY <1>1, <1>2, <1>3, PTL DEF Spec, G!X!Spec

LEMMA PicksOnly ==
  Spec => (J!P!Spec /\ [](part = "picks")) \/ [](~(part = "picks"))
<1>1. Init /\ part = "picks" => J!P!Init
  BY DEF Init
<1>2. part = "picks" /\ [Next]_vars => [J!P!Next]_(J!P!vars) /\ (part = "picks")'
  BY DEF Next, vars, J!P!vars, from5, from8, from9, from10, from11
<1>3. ~(part = "picks") /\ [Next]_vars => ~(part = "picks")'
  BY DEF Next, vars
<1> QED
  BY <1>1, <1>2, <1>3, PTL DEF Spec, J!P!Spec

LEMMA SourceOnly ==
  Spec => (W!Spec /\ [](part = "source")) \/ [](~(part = "source"))
<1>1. Init /\ part = "source" => W!Init
  BY DEF Init
<1>2. part = "source" /\ [Next]_vars => [W!Next]_(W!vars) /\ (part = "source")'
  BY DEF Next, vars, W!vars, from5, from8, from9, from10, from11, from12
<1>3. ~(part = "source") /\ [Next]_vars => ~(part = "source")'
  BY DEF Next, vars
<1> QED
  BY <1>1, <1>2, <1>3, PTL DEF Spec, W!Spec

LEMMA DayOnly ==
  Spec => (W!T!Spec /\ [](part = "day")) \/ [](~(part = "day"))
<1>1. Init /\ part = "day" => W!T!Init
  BY DEF Init
<1>2. part = "day" /\ [Next]_vars => [W!T!Next]_(W!T!vars) /\ (part = "day")'
  BY DEF Next, vars, W!T!vars, from5, from8, from9, from10, from11, from12
<1>3. ~(part = "day") /\ [Next]_vars => ~(part = "day")'
  BY DEF Next, vars
<1> QED
  BY <1>1, <1>2, <1>3, PTL DEF Spec, W!T!Spec

LEMMA WatchOnly ==
  Spec => (W!H!Spec /\ [](part = "watch")) \/ [](~(part = "watch"))
<1>1. Init /\ part = "watch" => W!H!Init
  BY DEF Init
<1>2. UNCHANGED vars => UNCHANGED W!H!vars /\ part' = part
  BY Still DEF W!H!vars, W!H!loop, W!H!dog
<1>3. part = "watch" /\ Next => W!H!Next /\ part' = part
  BY DEF Next
<1>4. part = "watch" /\ [Next]_vars => [W!H!Next]_(W!H!vars) /\ (part = "watch")'
  BY <1>2, <1>3
<1>5. ~(part = "watch") /\ [Next]_vars => ~(part = "watch")'
  BY Still DEF Next
<1> QED
  BY <1>1, <1>4, <1>5, PTL DEF Spec, W!H!Spec

-----------------------------------------------------------------------------
(* What Services promises.                                                  *)

\* No job falls between the stages, a paid verdict stays with its posting and every sighting has
\* its job (JobLife: processor/describe.py, jobstore/merge.py).
THEOREM JobsStayHeld == Spec => []JobsAreHeld
<1>1. J!Spec => []J!Attended
  BY J!NoJobIsLost, PartsAssumption
<1>2. J!Spec => [](J!PaidIsKept /\ J!SightingsAreHeld)
  BY J!MergesLoseNothing, PartsAssumption
<1>3. J!Attended /\ (J!PaidIsKept /\ J!SightingsAreHeld) => JobsAreHeld
  BY DEF JobsAreHeld
<1>4. ~(part = "jobs") => JobsAreHeld
  BY DEF JobsAreHeld
<1> QED
  BY <1>1, <1>2, <1>3, <1>4, JobsOnly, PTL

\* No step of the pipeline moves a posting back (JobLife: merge_jobs, set_stage, age_out).
THEOREM NothingGoesBack == Spec => ProgressIsKept
<1>1. J!Spec => [][J!Progress]_(J!vars)
  BY J!PostingsProgress, PartsAssumption DEF J!ProgressIsKept
<1>2. [J!Progress]_(J!vars) /\ [Next]_vars /\ part = "jobs" => [part = "jobs" => J!Progress]_vars
  BY DEF Next, vars, J!vars
<1>3. ~(part = "jobs") /\ [Next]_vars => [part = "jobs" => J!Progress]_vars
  OBVIOUS
<1> QED
  BY <1>1, <1>2, <1>3, JobsOnly, PTL DEF Spec, ProgressIsKept

\* An offer that is in the dedup log was handled, and none is both there and queued
\* (DailyRun: main.py, retry_queue.py).
THEOREM SeenStaysHandled == Spec => []SeenIsHandled
<1>1. G!Spec => [](G!SeenIsHandled /\ G!SeenIsNotQueued)
  BY G!HandledBeforeSeen, PartsAssumption
<1>2. G!SeenIsHandled /\ G!SeenIsNotQueued => SeenIsHandled
  BY DEF SeenIsHandled
<1>3. ~(part = "daily") => SeenIsHandled
  BY DEF SeenIsHandled
<1> QED
  BY <1>1, <1>2, <1>3, DailyOnly, PTL

\* The clock of an offer runs from its first deferral, and the end of a run drops no offer
\* (DailyRun: retry_queue.py).
THEOREM OffersStayKept == Spec => OffersAreKept
<1>1. G!Spec => [][G!ClockRuns]_(G!vars)
  BY G!TheFirstDeferralCounts, PartsAssumption DEF G!ClockIsKept
<1>2. G!Spec => [][G!EachHasAPlace]_(G!vars)
  BY G!NothingFallsBetween, PartsAssumption DEF G!Accounted
<1>3. [G!ClockRuns]_(G!vars) /\ [G!EachHasAPlace]_(G!vars) /\ [Next]_vars /\ part = "daily"
        => [part = "daily" => G!ClockRuns /\ G!EachHasAPlace]_vars
  <2>1. part = "daily" /\ Next => part' = part /\ UNCHANGED from9
    BY DEF Next
  <2>2. UNCHANGED G!vars /\ UNCHANGED from9 /\ part' = part => UNCHANGED vars
    BY DEF vars, G!vars, from5, from8
  <2> QED
    BY <2>1, <2>2
<1>4. ~(part = "daily") /\ [Next]_vars => [part = "daily" => G!ClockRuns /\ G!EachHasAPlace]_vars
  OBVIOUS
<1> QED
  BY <1>1, <1>2, <1>3, <1>4, DailyOnly, PTL DEF Spec, OffersAreKept

\* A run the database calls complete is, no record is lost by a flush, and the days the guard
\* reports are days with fallback answers (RunLog: telemetry; ModelCalls: llm_fallback.py).
THEOREM LogStaysHonest == Spec => []LogIsHonest
<1>1. G!L!Spec => [](G!L!OkMeansComplete /\ G!L!RecordsAreKept)
  BY G!CompleteMeansComplete, PartsAssumption
<1>2. J!M!Spec => []J!M!AlertsAreOfTheirDay
  BY J!AlertsAreTrue, PartsAssumption
<1>3. part = "log" /\ G!L!OkMeansComplete /\ G!L!RecordsAreKept => LogIsHonest
  BY DEF LogIsHonest
<1>4. part = "models" /\ J!M!AlertsAreOfTheirDay => LogIsHonest
  BY DEF LogIsHonest
<1>5. ~(part = "log") /\ ~(part = "models") => LogIsHonest
  BY DEF LogIsHonest
<1> QED
  BY <1>1, <1>2, <1>3, <1>4, <1>5, LogOnly, ModelsOnly, PTL

\* The scrape skips no card, spends one ladder per text and stops when it is refused (Scrape:
\* scraper.py).
THEOREM ScrapeStaysSparing == Spec => []ScrapeIsSparing
<1>1. G!S!Spec => [](G!S!NothingIsSkipped /\ G!S!OneLadderPerText /\ G!S!RefusalsStopTheRun)
  BY G!ScrapingIsSparing, PartsAssumption
<1>2. G!S!NothingIsSkipped /\ G!S!OneLadderPerText /\ G!S!RefusalsStopTheRun => ScrapeIsSparing
  BY DEF ScrapeIsSparing
<1>3. ~(part = "scrape") => ScrapeIsSparing
  BY DEF ScrapeIsSparing
<1> QED
  BY <1>1, <1>2, <1>3, ScrapeOnly, PTL

\* A complete walk stored what was listed when it began at the top, the next window has what is still
\* missing, and no day of a source is left out or falls silent unseen (SourceWalk, SourceDay:
\* sources/base.py, freehire.py, service.py).
THEOREM SourcesStayComplete == Spec => []SourcesAreComplete
<1>1. W!Spec => [](W!CompleteMeansStored /\ W!WindowHasTheRest)
  BY W!NoPostingIsLost, PartsAssumption
<1>2. W!T!Spec => []W!T!SourceDaySafe
  BY W!DaysAreKept, PartsAssumption
<1>3. part = "source" /\ W!CompleteMeansStored /\ W!WindowHasTheRest => SourcesAreComplete
  BY DEF SourcesAreComplete
<1>4. part = "day" /\ W!T!SourceDaySafe => SourcesAreComplete
  BY DEF SourcesAreComplete
<1>5. ~(part = "source") /\ ~(part = "day") => SourcesAreComplete
  BY DEF SourcesAreComplete
<1> QED
  BY <1>1, <1>2, <1>3, <1>4, <1>5, SourceOnly, DayOnly, PTL

\* archived_at is set only on jobs that the archive has as they are (Upkeep: archive.py).
THEOREM CopiesStayCurrent == Spec => []CopyIsCurrent
<1>1. J!U!Spec => []J!U!CopyIsCurrent
  BY J!CopyStaysCurrent
<1>2. J!U!CopyIsCurrent => CopyIsCurrent
  BY DEF CopyIsCurrent
<1>3. ~(part = "upkeep") => CopyIsCurrent
  BY DEF CopyIsCurrent
<1> QED
  BY <1>1, <1>2, <1>3, UpkeepOnly, PTL

\* Copies of a service that asked for its lock never work in parallel (Watch: runner.py).
THEOREM WorkStaysLocked == Spec => []LockedWork
<1>1. W!H!Spec => []W!H!LockedWork
  BY W!LockKeepsApart, PartsAssumption
<1>2. W!H!LockedWork => LockedWork
  BY DEF LockedWork
<1>3. ~(part = "watch") => LockedWork
  BY DEF LockedWork
<1> QED
  BY <1>1, <1>2, <1>3, WatchOnly, PTL

\* The operator is not alerted twice within the repeat time (Watch: health.py).
THEOREM AlertsKeepSpaced == Spec => AlertsAreSpaced
<1>1. W!H!Spec => [][W!H!Spaced]_(W!H!vars)
  BY W!AlertsStaySpaced, PartsAssumption DEF W!H!AlertsAreSpaced
<1>2. [W!H!Spaced]_(W!H!vars) /\ [Next]_vars /\ part = "watch" => [part = "watch" => W!H!Spaced]_vars
  <2>1. [Next]_vars => part' = part
    BY Still DEF Next
  <2>2. UNCHANGED W!H!vars /\ part' = part => UNCHANGED vars
    BY Still DEF W!H!vars, W!H!loop, W!H!dog
  <2> QED
    BY <2>1, <2>2
<1>3. ~(part = "watch") /\ [Next]_vars => [part = "watch" => W!H!Spaced]_vars
  OBVIOUS
<1> QED
  BY <1>1, <1>2, <1>3, WatchOnly, PTL DEF Spec, AlertsAreSpaced

\* Verification stays within its share, what it sends has the last word about the place of work,
\* and the stages stop in time to leave room for tailoring (Verify: main.py; Excerpt:
\* remote_verifier.py; ModelCalls: llm_stages.py).
THEOREM VerificationStaysSound == Spec => []VerificationIsSound
<1>1. G!V!Spec => []G!V!ShareIsKept
  BY G!TheShareIsKept, PartsAssumption
<1>2. G!X!Spec => []G!X!LateSentenceIsShown
  BY G!LastWordIsShown, PartsAssumption
<1>3. J!M!Spec => []J!M!RoomIsLeft
  BY J!RoomForTailoring, PartsAssumption
<1>4. part = "verify" /\ G!V!ShareIsKept => VerificationIsSound
  BY DEF VerificationIsSound
<1>5. part = "excerpt" /\ G!X!LateSentenceIsShown => VerificationIsSound
  BY DEF VerificationIsSound
<1>6. part = "models" /\ J!M!RoomIsLeft => VerificationIsSound
  BY DEF VerificationIsSound
<1>7. ~(part = "verify") /\ ~(part = "excerpt") /\ ~(part = "models") => VerificationIsSound
  BY DEF VerificationIsSound
<1> QED
  BY <1>1, <1>2, <1>3, <1>4, <1>5, <1>6, <1>7, VerifyOnly, ExcerptOnly, ModelsOnly, PTL

\* The failed batches a verification reports are those no provider replied to (Verify:
\* remote_verifier.py).
THEOREM FailuresStayTold == Spec => []FailuresAreTold
<1>1. G!V!Spec => []G!V!FailuresAreCounted
  BY G!FailuresAreTold, PartsAssumption
<1>2. G!V!FailuresAreCounted => FailuresAreTold
  BY DEF FailuresAreTold
<1>3. ~(part = "verify") => FailuresAreTold
  BY DEF FailuresAreTold
<1> QED
  BY <1>1, <1>2, <1>3, VerifyOnly, PTL

\* The fetches of descriptions are shared: an urgent job gets one within a floor period of every
\* tier, no waiting tier misses its turn for longer, and every class of a list is used (Picks:
\* processor/describe.py, fetch_order.py).
THEOREM PicksStayFair == Spec => []PicksAreFair
<1>1. J!P!Spec => []J!P!PickSafe
  BY J!PicksStayFair, PartsAssumption
<1>2. J!P!PickSafe => PicksAreFair
  BY DEF PicksAreFair
<1>3. ~(part = "picks") => PicksAreFair
  BY DEF PicksAreFair
<1> QED
  BY <1>1, <1>2, <1>3, PicksOnly, PTL

\* Whatever part is at work, its variables keep their types: counters stay within the limits of the
\* code, a time or a state is one it can store.
THEOREM TypesStayKept == Spec => []TypesAreKept
<1>1. J!Spec => []J!IInv
  BY J!Invariance, PartsAssumption
<1>2. J!M!Spec => []J!M!TypeOK
  BY J!CallsKeepTypes, PartsAssumption
<1>3. J!U!Spec => []J!U!TypeOK
  BY J!UpkeepTypes, PartsAssumption
<1>4. G!Spec => []G!IInv
  BY G!Invariance, PartsAssumption
<1>5. G!V!Spec => []G!V!TypeOK
  BY G!VerifyTypes, PartsAssumption
<1>6. G!L!Spec => []G!L!TypeOK
  BY G!LogTypes, PartsAssumption
<1>7. G!S!Spec => []G!S!TypeOK
  BY G!ScrapeTypesHold, PartsAssumption
<1>8. G!X!Spec => []G!X!TypeOK
  BY G!PromptTypes, PartsAssumption
<1>9. J!P!Spec => []J!P!TypeOK
  BY J!PickTypes, PartsAssumption
<1>10. W!Spec => []W!TypeOK
  BY W!SourceWalkTypes, PartsAssumption
<1>11. W!T!Spec => []W!T!TypeOK
  BY W!DayTypes, PartsAssumption
<1>12. W!H!Spec => []W!H!TypeOK
  BY W!WatchTypes, PartsAssumption
<1>13. J!IInv => J!TypeOK
  BY DEF J!IInv
<1>14. G!IInv => G!TypeOK
  BY DEF G!IInv
<1> DEFINE Jobs == part = "jobs" => J!TypeOK
           Models == part = "models" => J!M!TypeOK
           Upkeep == part = "upkeep" => J!U!TypeOK
           Daily == part = "daily" => G!TypeOK
           Verify == part = "verify" => G!V!TypeOK
           Log == part = "log" => G!L!TypeOK
           Scrape == part = "scrape" => G!S!TypeOK
           Excerpt == part = "excerpt" => G!X!TypeOK
           Picks == part = "picks" => J!P!TypeOK
           Source == part = "source" => W!TypeOK
           Day == part = "day" => W!T!TypeOK
           Watch == part = "watch" => W!H!TypeOK
<1>15. Spec => [](Jobs /\ Models /\ Upkeep)
  BY <1>1, <1>2, <1>3, <1>13, JobsOnly, ModelsOnly, UpkeepOnly, PTL
<1>16. Spec => [](Daily /\ Verify /\ Log)
  BY <1>4, <1>5, <1>6, <1>14, DailyOnly, VerifyOnly, LogOnly, PTL
<1>17. Spec => [](Scrape /\ Excerpt /\ Picks)
  BY <1>7, <1>8, <1>9, ScrapeOnly, ExcerptOnly, PicksOnly, PTL
<1>18. Spec => [](Source /\ Day /\ Watch)
  BY <1>10, <1>11, <1>12, SourceOnly, DayOnly, WatchOnly, PTL
<1>19. /\ Jobs /\ Models /\ Upkeep /\ Daily /\ Verify /\ Log
       /\ Scrape /\ Excerpt /\ Picks /\ Source /\ Day /\ Watch
       => TypesAreKept
  BY DEF TypesAreKept
<1> HIDE DEF Jobs, Models, Upkeep, Daily, Verify, Log, Scrape, Excerpt, Picks, Source, Day, Watch
<1>20. Spec => [](Jobs /\ Models /\ Upkeep /\ Daily /\ Verify /\ Log)
  BY <1>15, <1>16, PTL
<1>21. Spec => [](Scrape /\ Excerpt /\ Picks /\ Source /\ Day /\ Watch)
  BY <1>17, <1>18, PTL
<1>22. Spec => [](/\ Jobs /\ Models /\ Upkeep /\ Daily /\ Verify /\ Log
                 /\ Scrape /\ Excerpt /\ Picks /\ Source /\ Day /\ Watch)
  BY <1>20, <1>21, PTL
<1> QED
  BY <1>19, <1>22, PTL
=============================================================================
