------------------------------ MODULE Services ------------------------------
(***************************************************************************)
(* The parts that turn postings into verdicts and look after them, side by *)
(* side: a behaviour is one of the modules below, `part` says which, and   *)
(* only one is at work in it, so they share the variables v1 to v13.       *)
(* Those a part does not use stay at rest.  The constants of a part are    *)
(* the fields of a record.  The instances are of the modules that hold the *)
(* proofs, which extend or instantiate the parts.                          *)
(***************************************************************************)
EXTENDS Integers, Sequences, FiniteSets

CONSTANTS jobs, models, upkeep, daily, verify, log, scrape, excerpt, picks, source, day, watch

VARIABLES part, v1, v2, v3, v4, v5, v6, v7, v8, v9, v10, v11, v12, v13

from12 == <<v12, v13>>
from11 == <<v11, from12>>
from10 == <<v10, from11>>
from9 == <<v9, from10>>
from8 == <<v8, from9>>
from5 == <<v5, v6, v7, from8>>
vars == <<part, v1, v2, v3, v4, from5>>

-----------------------------------------------------------------------------
\* J is JobLife, J!M ModelCalls, J!U Upkeep and J!P Picks.
J == INSTANCE JobLifeProofs WITH
  row <- v1, owner <- v2, at <- v3, bought <- v4,
  Cards <- jobs.Cards, SourceOf <- jobs.SourceOf, Paged <- jobs.Paged, AgeOut <- jobs.AgeOut,
  RefusalExpiry <- jobs.RefusalExpiry, MaxAge <- jobs.MaxAge,
  UnreadableAttempts <- jobs.UnreadableAttempts, BatchSize <- jobs.BatchSize,
  now <- v1, run <- v2, tail <- v3, rows <- v4, budget <- v5, sent <- v6, made <- v7, told <- v9,
  upsets <- v8,
  Stop <- models.Stop, TickBatches <- models.Batches, Retries <- models.Retries,
  Transient <- models.Transient, Malformed <- models.Malformed, MinCalls <- models.MinCalls,
  Percent <- models.Percent, MaxNow <- models.MaxNow, MaxUpsets <- models.MaxUpsets,
  store <- v1, stamped <- v2, old <- v3, fails <- v4, neon <- v5, batch <- v6, pass <- v7,
  Jobs <- upkeep.Jobs, OnLinkedIn <- upkeep.OnLinkedIn, MaxAttempts <- upkeep.MaxAttempts,
  CopyBatch <- upkeep.BatchSize, CopyUpsets <- upkeep.MaxUpsets,
  mode <- v1, order <- v2, line <- v3, older <- v4, picks <- v5, owed <- v6, since <- v7,
  Tiers <- picks.Tiers, Orders <- picks.Orders, PickPlaces <- picks.Places, OneIn <- picks.OneIn,
  AgeOutTiers <- picks.AgeOutTiers, MinClass <- picks.MinClass, Room <- picks.Room

\* G is DailyRun, G!V Verify, G!L RunLog, G!S Scrape and G!X Excerpt.
G == INSTANCE LegacyProofs WITH
  queue <- v1, seen <- v2, at <- v3, fate <- v4, clock <- v5, attempt <- v6, told <- v7, worn <- v8,
  Offers <- daily.Offers, MaxAge <- daily.MaxAge, RateLimitMaxAge <- daily.RateLimitMaxAge,
  MaxAttempts <- daily.MaxAttempts, Faults <- daily.Faults,
  run <- v1, logged <- v2, verdicts <- v4, collected <- v5, calls <- v6, sent <- v7, lost <- v8,
  replied <- v9, blank <- v10,
  Batches <- verify.Batches, BatchChunks <- verify.BatchChunks, Share <- verify.Share,
  GroqCeiling <- verify.GroqCeiling, MaxRetries <- verify.MaxRetries, MaxCalls <- verify.MaxCalls,
  file <- v1, db <- v2, session <- v4, ok <- v5, started <- v6, made <- v7, dropped <- v8, cut <- v9,
  torn <- v10,
  Runs <- log.Runs, Records <- log.Records,
  walk <- v1, try <- v2, texts <- v4, breaker <- v5, factor <- v6, offers <- v7, asked <- v8,
  why <- v9,
  Searches <- scrape.Searches, Hidden <- scrape.Hidden, PageSize <- scrape.PageSize,
  MaxPages <- scrape.MaxPages, SearchRetries <- scrape.SearchRetries,
  PageRetries <- scrape.PageRetries, TextRetries <- scrape.TextRetries, BreakAt <- scrape.BreakAt,
  MaxFactor <- scrape.MaxFactor,
  length <- v1, keywords <- v2, budget <- v4, radius <- v5, step <- v6, passages <- v7, shown <- v8,
  MaxLength <- excerpt.MaxLength, Window <- excerpt.Window, Intro <- excerpt.Intro,
  Joiner <- excerpt.Joiner, Budgets <- excerpt.Budgets, Appendix <- excerpt.Appendix

\* W is SourceWalk, W!T SourceDay and W!H Watch.
W == INSTANCE SourceProofs WITH
  posts <- v1, gone <- v2, stored <- v3, clock <- v4, slice <- v5, walk <- v6, top <- v7,
  excused <- v8, news <- v9, upsets <- v10, covered <- v11,
  PageSize <- source.PageSize, KnownPages <- source.KnownPages, MaxPages <- source.MaxPages,
  MaxOffset <- source.MaxOffset, DayLength <- source.DayLength, FirstPull <- source.FirstPull,
  Slack <- source.Slack, Retries <- source.Retries, Throttles <- source.Throttles,
  RunBudget <- source.RunBudget, Skipped <- source.Skipped, Initially <- source.Initially,
  MaxPosts <- source.MaxPosts, MaxTime <- source.MaxTime, Burst <- source.Burst,
  MaxPause <- source.MaxPause, MaxUpsets <- source.MaxUpsets,
  now <- v1, stop <- v2, due <- v3, beat <- v4, run <- v5, owed <- v6, failing <- v7, last <- v8,
  torn <- v9, late <- v11,
  Slices <- day.Slices, Day <- day.Day, ResumeAt <- day.ResumeAt, DaySlack <- day.Slack,
  MaxSlots <- day.MaxSlots, DayUpsets <- day.MaxUpsets,
  store <- v1, at <- v2, conn <- v3, lock <- v4, age <- v5, ledger <- v6, file <- v7, watch <- v8,
  looked <- v9, told <- v11, toldOf <- v12, quiet <- v13,
  Procs <- watch.Procs, Unit <- watch.Unit, DownAfter <- watch.DownAfter, Repeat <- watch.Repeat,
  WatchUpsets <- watch.MaxUpsets

ASSUME PartsAssumption ==
  /\ J!JobLifeAssumption /\ J!M!ModelCallsAssumption /\ J!U!UpkeepAssumption
  /\ G!DailyRunAssumption /\ G!V!VerifyAssumption /\ G!L!RunLogAssumption /\ G!S!ScrapeAssumption
  /\ G!X!ExcerptAssumption /\ J!P!PicksAssumption
  /\ W!SourceWalkAssumption /\ W!FewNews /\ W!ShortPauses /\ W!T!SourceDayAssumption /\ W!H!WatchAssumption

-----------------------------------------------------------------------------
Rest12 == v12 = "rest" /\ v13 = "rest"
Rest11 == v11 = "rest" /\ Rest12
Rest10 == v10 = "rest" /\ Rest11
Rest9 == v9 = "rest" /\ Rest10
Rest8 == v8 = "rest" /\ Rest9
Rest5 == v5 = "rest" /\ v6 = "rest" /\ v7 = "rest" /\ Rest8

Init ==
  \/ part = "jobs" /\ J!Init /\ Rest5
  \/ part = "models" /\ J!M!Init /\ Rest10
  \/ part = "upkeep" /\ J!U!Init /\ Rest9
  \/ part = "daily" /\ G!Init /\ Rest9
  \/ part = "verify" /\ G!V!Init /\ Rest11
  \/ part = "log" /\ G!L!Init /\ Rest11
  \/ part = "scrape" /\ G!S!Init /\ Rest10
  \/ part = "excerpt" /\ G!X!Init /\ Rest9
  \/ part = "picks" /\ J!P!Init /\ Rest8
  \/ part = "source" /\ W!Init /\ Rest12
  \/ part = "day" /\ W!T!Init /\ Rest12
  \/ part = "watch" /\ W!H!Init

Next ==
  /\ UNCHANGED part
  /\ \/ part = "jobs" /\ J!Next /\ UNCHANGED from5
     \/ part = "models" /\ J!M!Next /\ UNCHANGED from10
     \/ part = "upkeep" /\ J!U!Next /\ UNCHANGED from9
     \/ part = "daily" /\ G!Next /\ UNCHANGED from9
     \/ part = "verify" /\ G!V!Next /\ UNCHANGED from11
     \/ part = "log" /\ G!L!Next /\ UNCHANGED from11
     \/ part = "scrape" /\ G!S!Next /\ UNCHANGED from10
     \/ part = "excerpt" /\ G!X!Next /\ UNCHANGED from9
     \/ part = "picks" /\ J!P!Next /\ UNCHANGED from8
     \/ part = "source" /\ W!Next /\ UNCHANGED from12
     \/ part = "day" /\ W!T!Next /\ UNCHANGED from12
     \/ part = "watch" /\ W!H!Next

Spec == Init /\ [][Next]_vars

-----------------------------------------------------------------------------
\* The variables of each part keep their types; the counters, factors and ladders among them
\* keep their bounds.
TypesAreKept ==
  /\ part = "jobs" => J!TypeOK
  /\ part = "daily" => G!TypeOK
  /\ part = "verify" => G!V!TypeOK
  /\ part = "excerpt" => G!X!TypeOK
  /\ part = "log" => G!L!TypeOK
  /\ part = "models" => J!M!TypeOK
  /\ part = "scrape" => G!S!TypeOK
  /\ part = "picks" => J!P!TypeOK
  /\ part = "source" => W!TypeOK
  /\ part = "day" => W!T!TypeOK
  /\ part = "upkeep" => J!U!TypeOK
  /\ part = "watch" => W!H!TypeOK

\* A job is always where some stage will look for it, whatever its cards, merges and
\* failures were; a verdict that was paid for stays with its posting; every sighting
\* belongs to a job that exists (JobLife: processor/describe.py, jobstore/merge.py).
JobsAreHeld == part = "jobs" => J!Attended /\ J!PaidIsKept /\ J!SightingsAreHeld

\* A merge, a retry, a restart or an undo never moves a posting back (JobLife).
ProgressIsKept == [][part = "jobs" => J!Progress]_vars

\* An offer enters the dedup log only when it was handled, and none is both handled and
\* waiting, wherever a run raises or dies (DailyRun: main.py, retry_queue.py).
SeenIsHandled == part = "daily" => G!SeenIsHandled /\ G!SeenIsNotQueued

\* The clock of a deferral runs from the first one, and a run that ends leaves every offer it
\* took in either in the dedup log or in the queue (DailyRun: retry_queue.py:22-24).
OffersAreKept == [][part = "daily" => G!ClockRuns /\ G!EachHasAPlace]_vars

\* Verification stays within its share of the day's requests (Verify: main.py:403-428), the
\* deciding sentence at the end of a posting is in the text that is sent (Excerpt:
\* remote_verifier.py:238-275), and the stages stop in time to leave room for tailoring (ModelCalls:
\* llm_stages.py:35-38).
VerificationIsSound ==
  /\ part = "verify" => G!V!ShareIsKept
  /\ part = "excerpt" => G!X!LateSentenceIsShown
  /\ part = "models" => J!M!RoomIsLeft

\* The failed batches by which main.py tells a degraded verification are those no provider replied
\* to, each counted once, and none of them gave an offer a verdict (Verify:
\* remote_verifier.py:868-886).
FailuresAreTold == part = "verify" => G!V!FailuresAreCounted

\* A run the database calls complete is, and no drain, flush or kill loses a record (RunLog); a day
\* reported for its fallback answers had some, and is reported once (ModelCalls: llm_fallback.py).
LogIsHonest ==
  /\ part = "log" => G!L!OkMeansComplete /\ G!L!RecordsAreKept
  /\ part = "models" => J!M!AlertsAreOfTheirDay

\* No card is skipped by the paging, no posting costs two ladders of requests, refusals stop the
\* requests, and every card in scope is an offer all the same (Scrape).
ScrapeIsSparing == part = "scrape" => G!S!NothingIsSkipped /\ G!S!OneLadderPerText /\ G!S!RefusalsStopTheRun

\* The pace's description requests are shared: urgent jobs get theirs, no tier and no class of
\* a valid config is left out (Picks: processor/describe.py, fetch_order.py).
PicksAreFair == part = "picks" => J!P!PickSafe

\* A complete walk of an extra source stored every posting there was when it began at the top of the
\* list, and the window of the next walk has every one that is still missing, those that
\* appeared while the walk was unfinished included (SourceWalk: sources/base.py, freehire.py). No
\* day of the source is left out, and its errors and its silence reach the heartbeat the watchdog
\* reads (SourceDay: sources/service.py).
SourcesAreComplete ==
  /\ part = "source" => W!CompleteMeansStored /\ W!WindowHasTheRest
  /\ part = "day" => W!T!SourceDaySafe

\* archived_at is set only on jobs the archive has as they are, at whatever point of a copy, an
\* alert, a digest or a crash (Upkeep).
CopyIsCurrent == part = "upkeep" => J!U!CopyIsCurrent

\* Copies of a service that asked for its lock never work in parallel (Watch).
LockedWork == part = "watch" => W!H!LockedWork

\* The operator is not alerted twice within the repeat time (Watch).
AlertsAreSpaced == [][part = "watch" => W!H!Spaced]_vars
=============================================================================
