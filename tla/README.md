# jd-scraper in TLA+

Specifications, model-checking runs and proofs for the job pipeline of this
repository (`src/`): three long-running services that walk LinkedIn's guest
search, fetch descriptions, score jobs with language models, deliver digests and
tailored packages, and share one Postgres store and one pace for every LinkedIn
request.

Paths below are relative to the repository root `src/`; the Python packages are
under `src/src/`, which is left out (`linkedin/pace.py` is
`src/src/linkedin/pace.py`).

## The system

Three services run as separate processes, each a tick of `run_service`
(`services/runner.py`) over its own database connection:

| service | tick | LinkedIn requests |
|---|---|---|
| collector (`linkedin/collector.py`) | claim a due slice, walk its result pages | `search` |
| processor (`processor/runner.py`) | expiry, cheap filters, language-model stages, descriptions | `description` |
| deliver (`delivery/service.py`) | alerts, daily digests, packages, archive copy | `packaging` |

A watchdog process reads the heartbeats, and one-shot sources (`sources/`) are
started by timers. Nothing is shared in memory: the processes meet in the
database rows, in the Postgres advisory lock of the pace, and in the files of
the delivery folders.

### Components

| component | state it keeps | operations | interacts with | what makes it correct |
|---|---|---|---|---|
| **LinkedIn pace** `linkedin/pace.py` | row of `pace_budgets` (next slot, refusal wait, streak, description run, paused day, `wanting` markers); session advisory lock | `slot()`: declare the marker, try the lock, load, gate, wait, yield, give up, stop, request, record, save | every LinkedIn request; the ladder's `review` runs inside the save | one request in flight, spacing and refusal waits kept, turns shared, nobody starved, no lock or marker leaked |
| **Speed ladder** `linkedin/adaptive.py` | `pace_controller` JSON: level, trailing answers, stints, cooldowns, hold, brake, day counters | `review` once per answer | called by the pace, reads queue sizes and budgets | falls are held, drops rest, brakes freeze, a stray block does not pause a day, the ladder recovers |
| **LinkedIn schedule** `linkedin/schedule.py` | none (configuration) | closed windows, paused day | gate of the pace | requests only when the gate is open |
| **Slice walk** `linkedin/walk.py`, `windows.py`, `search.py`, `collector.py` | row of `slices` (stored offset, last finished walk, due time, interval), `slice_walks`, sightings | page loop, finish, claim | the pace, sightings | no result missed, resume after a restart, refusals do not end a list early |
| **Slice catalogue** `linkedin/catalog.py` | `slices` rows | `sync_slices`, `clamp_cadence` at start | the walk | cadences stay within their bounds |
| **Description stage** `processor/describe.py` | turn stamps and counters per tier in `kv`, attempts | floor and value picks, outcome of a fetch, expiry | the pace, the jobs | no class of job starves or expires unseen |
| **Job lifecycle** `processor/*.py` | `jobs.stage`, attempts, defer times, budgets | cheap filter, rules, remote verdict, scoring, retry, expiry | models, delivery | a job moves forward only, is retried a bounded number of times, never lost |
| **Sightings and merging** `jobstore/sightings.py`, `merge.py`, `identity.py` | `sightings`, `jobs`, identity keys | record a card, merge twins | collector and processor at once | a posting has one job |
| **Delivery** `delivery/service.py`, `daily.py`, `alerts.py` | `jobs` columns, `delivery_runs`, `kv`, files | alert, deliver a tier, send digests and summaries | Telegram, files | a job is delivered once, and what is said of it is true |
| **Packaging** `delivery/autopackage.py`, `autoapply/` | `packages` rows, files | pick, fetch, tailor, record, notify | the pace, tailoring | bounded retries, no duplicates |
| **Archive copy** `delivery/archive.py` | `archived_at`, a second database | copy changed jobs | all writers of a job | the copy catches up |
| **Service loop** `services/runner.py`, `pulse.py`, `jobstore/heartbeat.py` | heartbeats, stop event, single-instance lock | tick, back-off, stop | systemd | a failed tick is retried, a stop is obeyed |
| **Watchdog and health** `services/watchdog.py`, `delivery/health.py` | ledger of alerts, store-down file | check, alert, recover | heartbeats, Telegram | a silence is told once per episode and repeated |
| **Extra sources** `sources/` | error beats | one-shot collection | sightings | an error is cleared only by a success |
| **Language-model clients** `scorer.py`, `remote_verifier.py`, `llm_fallback.py`, `processor/llm_sink.py`, `jobstore/budget.py` | `llm_calls`, `llm_budget`, guard alerts in `kv_state`, the usage log | ladders of attempts per batch, fallback between providers, the day's shares | the stages, tailoring, the watchdog | a share of a day is kept, failures are counted, the deciding sentence is shown |
| **Run record** `telemetry.py` | a buffer file per run, `runs` and `llm_calls` rows | append, flush, drain, close | the daily pipeline, the morning report | a run that is called complete is |
| **Legacy daily pipeline** `main.py`, `orchestrator.py`, `retry_queue.py`, `dedup.py`, `scraper.py` | dedup log, queue of deferred offers, caches of a run | fetch, verify, score, requeue, mark seen, retry | LinkedIn, models, Telegram | an offer is handled once or still waiting |
| **Tailoring**, **status and reports**, **text rules**, **migration and labels** | none, or files of their own | conversions and single calls | inputs of the parts above | see the end |

### What is hard here

* Interleaving: three processes poll one advisory lock, read one row and write
  markers in it *without* the lock (`pace.py:287`, `:453`).
* Time: spacings, refusal waits, marker lifetimes, patience, cooldowns, holds,
  midnights in Rome, lazily reset counters.
* Failure: a process killed at any statement, a session lost under a request,
  a page refused, an empty page that may be a refusal, a Telegram send that
  fails between a file and a row.
* Ordering: a list that grows at its head while its tail is being paged; a job
  scored between two stages of one delivery tick.

`PROJECT.json` lists these hazards line by line and the property that would
catch each of them going wrong.

## Modules

| component | modules | state machine or proof |
|---|---|---|
| pace, schedule | `PaceTurn`, `Pace`, `PaceProofs` | abstract pace, `slot()`, refinement proved |
| speed ladder | `Ladder`, `LadderProofs` | `review()` |
| slice walk, catalogue | `Walk`, `WalkProofs`, `Rotation` | one slice; the turns of all |
| job lifecycle, sightings, descriptions | `JobLife`, `Picks`, `JobLifeProofs` | what happens to a job; which job is next |
| delivery | `Delivery`, `DeliveryProofs` | a tick up to packaging |
| packaging, archive | `Upkeep`; proofs in `JobLifeProofs` | the rest of the tick |
| service loop, heartbeats, watchdog | `Watch`; proofs in `SourceProofs` | two processes and their observer |
| extra sources | `SourceWalk`, `SourceDay`, `SourceProofs` | one walk; the runs of a day |
| language-model clients | `Verify`, `Excerpt` (proofs in `LegacyProofs`), `ModelCalls` (in `JobLifeProofs`) | a day's verification; the text shown; requests and budget |
| legacy pipeline, run record | `DailyRun`, `Scrape`, `RunLog`, `LegacyProofs` | the run; its scraper; its record |
| all the parts side by side | `Services`, `ServicesProofs`, `MCServices`; `MCProgress` | what they promise together, proved and checked |

Composition: `Services` puts twelve modules side by side in one specification, and
`MCProgress` does so for liveness: `part` says which of them a behaviour belongs to, the
variables `v1` to `v13` are handed to each through `INSTANCE ... WITH`, and the
properties are the conjunction of what each part promises. `Services` takes the
constants of a part as the fields of a record and `MCServices` gives them their
values. The parts take no steps together. Where two components do
meet in the code, the meeting is inside one module: the pace's services in
`Pace`, source cards against the processor and merges in `JobLife`, the processor
and the archive copy against packaging in `Upkeep`, loop, store and watchdog in `Watch`,
timers, lock and heartbeat in `SourceDay`, processor, tailoring and guard in
`ModelCalls`.

### Runs

| run | what it checks | about |
|---|---|---|
| `pace_turns`, `pace_fair`, `pace_faults` | `Pace` | see Pace |
| `ladder` | `Ladder` | see Ladder |
| `walk`, `walk_pause` (violation) | `Walk` | see Walk |
| `delivery`, `delivery_race` (violation) | `Delivery` | see Delivery |
| `services` (`MCServices`, of `Services`) | safety of twelve parts, 1.6 million states | the sections below |
| `progress` | liveness of `JobLife`, `DailyRun`, `Rotation`, `Upkeep`, `Watch` | the sections below |
| `daily_clock` (violation) | `DailyRun` | see DailyRun |
| `service_lock` (violation) | `Watch` | see Watch |

## Pace

`Pace.tla` models `PaceBudget.slot` (`pace.py:425`) and everything it calls that
changes state, for any set of services. Its state and the code's:

| variable | code |
|---|---|
| `budget` | row of `pace_budgets`: `next` is `next_slot_at`, `wait` is `refusal_wait_until`, `streak`, `run` (`description_run`), `blocked` is the day the ladder paused |
| `marker` | the `wanting` column: time left of each kind's marker |
| `lock` | holder of `pg_try_advisory_lock` |
| `pc`, `timer`, `waited`, `overdue` | where each caller is in the loop, and its locals |
| `held` | the `_Budget` it loaded under the lock |
| `severed` | callers whose session dropped during a request |
| `stopping`, `shut` | the stop event, the closed window |
| `passed` | observation: turns others finished while a service waited |

Actions follow the loop: `Call`, `StopBeforeLock` or `DeclareWanting`,
`LockBusy` or `Acquire` (load included), `GateShut`, `StopAtTurn`, `TakeTurn`,
`GiveUp` and `DropOut` (the lock is released first, the marker a statement
later), `WaitForTurn`, `Wake`, `Finish` (record, save, release in the one
transaction that ends the turn). The environment: `Tick`, `Crash` at any
statement, `LoseSession` and `FailSave`, `RequestStop` and `Restart`, `Window`,
`NewDay`.

Time is discrete. Stamps are kept as the time left, so the space is finite; a
tick passes only when nobody has a statement to execute, so statements take no
time but interleave in every order. A poll of a busy lock and a yield each take
one tick (the code sleeps 1 to 2 s). The request count of the day and the kind of
the last request are only reported, and are left out. What the ladder decides
reaches the pace as a spacing out of `Spacings` and the flag `blocked`.

`PaceTurn.tla` is what the pace promises the outside: one request at a time, and
after each answer a gap nobody shortens. `Pace` implements it under the mapping
`out <- Requesting`, `gap <- Remaining(budget)`.

### Runs

| run | instance | shows |
|---|---|---|
| `pace_turns` | all three services, deaths at every statement | exclusion, two-to-one turns, packaging next, no marker lost or left, `PaceTurn` implemented |
| `pace_fair` | collector and processor, stops, fairness | every call returns, the collector, which has no bound, gets its request, no marker outlives its caller |
| `pace_faults` | collector and processor; blocks, windows, stops, deaths and lost sessions at every statement | two requests are out only if one lost its session |

Two sentences of the module's docstring do not survive the code. Neither has a
violation run; both follow from the model with the constants named.

* "cannot have two LinkedIn requests in flight" (`pace.py:3`): the lock lives in
  the session, and a session that drops during a request (`Events` with
  `"session"`) frees it; `OneRequest` fails, `OneLockedRequest` is what holds.
* "the previous request's spacing can never make it give up" (`pace.py:29`):
  `_give_up_bound` reads the schedule's start spacing, not the one in effect,
  so a longer spacing under the brake makes packaging raise `PaceBusy`.

Bounds: a run of two descriptions (`RunCap`, the shipped share is two), spacings
of one and two ticks, one doubling of the refusal wait up to its cap
(`StreakCap`, `MaxWait`), patience of two ticks, waiting counted to
`WaitedCap`. Two of each is what separates "the first" from "the next", and
every branch of the loop fires. Three services are all there are.

Fairness: `WF(Tick)` and `WF(Step(s))`: a process that can run does run. The
strong part, on the wake-up, the marker and the lock, says that a poller is
not for ever in step with the milliseconds in which somebody else holds the lock
to look at the row: sleeps are jittered and not synchronised. Liveness is
checked without closed windows (a closed gate makes every call leave, by design)
and without packaging: packaging never yields, so an endless demand for it
would starve the others; the code bounds it by the few jobs worth a package.

### Proofs

`PaceProofs.tla`, for any services, durations and events. The invariant is
`IInv`: types; whoever is between the lock and the save holds the lock unless
his session is gone (`LockFollowsTheTurn`); a lost session belongs to a request
in flight; and what a service loaded is what is stored (`LoadedIsStored`). The
last part is not implied by exclusion alone: midnight may open the stored gate
behind a reader, and nothing else may touch the row. From it:

* `TypeCorrect`, `Invariance`;
* `LockedRequestsAreAlone`: two requests are out only if one lost its session;
* `RequestsAreAlone`: without lost sessions, one request at a time;
* `TurnsFollowTheStoredRow`: a request starts only on a stored row that allows it,
  lost sessions included;
* `PaceImplementsPaceTurn`: the refinement, step by step.

The sharing of turns rests on a second invariant, `QueueInv`, on top of `IInv`. The
yield rule looks at markers, and they are written without the lock: the proof has to
say that whoever was passed is still visible to the next one who decides. Its parts:
a marker outlives every sleep of its owner (`MarkersStand`), which needs
`LifetimeAssumption` (`WAIT_CHUNK_SECONDS` 15 against `WANTING_FRESH_SECONDS` 30); the
description run that the holder of the lock loaded is the stored one (`LoadedRun`); a
service passed before the lock was taken is in what was loaded under it
(`PassedAreSeen`); a request therefore passes another only as `must_yield` allows
(`RequestMayPass`), and the stored run measures how often each kind was passed
(`PassedBounds`). From it:

* `PackagingGoesNext`: one request at most goes before a waiting packaging request;
* `TheTurnsAreShared`: at most `RunCap` descriptions before a waiting search, never
  two searches past a waiting description.

Both hold with deaths, stops and lost sessions, for any number of services of each
kind. `MarkersBelongToTheirOwners` and `TheQueueHasNoGhosts` follow from the markers'
ownership alone. Liveness is not proved. That no request starts once the stop was seen
has no property: the check of the event (`pace.py:464`) and the start of the request are
one step of the model, which makes it true by its shape. What a stop has to give back is in
`NoGhostInTheQueue` and `EveryCallReturns`.

## Ladder

`Ladder.tla` models `review()` (`adaptive.py:565`) whole: record, resume after a
pause, brake, pause, drop, fall to 3x, ease, climb, stay. The order of the code
is the order of the guards. The answer (clean, refused, neutral, with or without
a block signal) and the signals (fresh, demand, model budget, the rolling
ceiling, "slower than before") are chosen anew at every review. Stamps are
ages or times left; any number of answers comes within a tick. A day stamp is
`never`, `today` or `earlier`, so a midnight without an answer is there: the
day counters are reset by the first answer of the day, as in the code. The
Wilson bound is a pure formula of two counts: the constant `Cautious` is the set
of tallies it accepts.
Not in the model: the switch that turns the controller off while a service runs,
the repair of a hand-edited state, and replaying the event log on the first start.

`seen` is an observation: it remembers what happened (age of the episode,
clean answers since the last block or refusal, the last fall, climbs since
midnight, the last drop) independently of what the ladder stores.

| run | instance | shows |
|---|---|---|
| `ladder` | three levels, 3x and 4x at the second, five signals, fairness | falls held, dropped levels rest, only a persistent block pauses, evidence belongs to its level; once LinkedIn is clean and work waits, back to the ceiling |

A docstring the code does not keep, without a run: "A clean stretch of at least half
the clearing length ends the episode" (`adaptive.py:499`). A refused answer
after the stretch resets `brake['clean']`, so the next stray block finds the old
episode and pauses the day.

Bounds: windows of three answers, drops on two, tallies to three, two ticks a day
and a hold as long as a day, so a hold, a cooldown and an episode each cross a
midnight. Fairness of `Recovers`: time passes and the services keep asking
(`WF(Tick)`, `WF(CleanReview)`); its hypothesis is that from some moment all
answers are clean. `Recovers` needs the day counter to be reset, the hold and the
cooldowns to run out and the brake to clear.

`LadderProofs.tla` proves, for every ladder, `FallsStayHeld`, `ClimbsAreFew`,
`BrakesFreeze` and `PausesNeedPersistence`. `IInv` ties the observation to the
stored state: the stored hold plus the time since the fall make a full hold, and
the hold is over above 3x (`HoldCoversTheFall`); once the first answer of the
day has reset it, the stored counter has every climb since midnight, and before
that there was none (`CountCoversTheDay`); the stored episode has the real age and
the real count of clean answers (`EpisodeIsStored`). None is implied by the
others: a climb is stopped by the hold, not by the level; the count is lazily
reset.

Two more theorems have invariants of their own. `EvidenceIsLocal` counts: the refused
answers of the trailing window are no more than the tally of the stint, as long as the
tally is not full. It is inductive with `StintIsTyped`, because every review adds the
answer to both and every change of level empties both; the lemmas on a window that
drops its oldest answer are in that section. `DroppedLevelsDoRest` needs
`DroppedIsResting`: until the first cooldown is over the ladder is below the level it
was last dropped from, and what is left of that level's rest covers what is left of the
cooldown. `DroppedLevelsRest` is about the first cooldown after a drop, under brakes and
other drops; that a later one doubles, and that a clean day forgives it once, are in
`Ladder` and stated by no property. Only `Recovers` is model-checked only.

## Walk

`Walk.tla` models one search slice: `walk_slice` and `finish_walk`
(`linkedin/walk.py`), the windows and cadence of `linkedin/windows.py`, the outcome of
`fetch_page` (`linkedin/search.py`) and what `collect_once`
(`linkedin/collector.py`) does with an exception.

| variable | code |
|---|---|
| `slice` | the row of `slices`: `walked` and `last` are `last_walked_at` as an age, `offset` is `resume_start`, the interval, the empty streak, the time until due |
| `walk` | the locals of `walk_slice`: where it reads, its window, pages read, cards known, refusals in a row, `distrust`, the reason it ends |
| `posted`, `age` | LinkedIn's list, newest first: posting `i` is at offset `posted - i` |
| `sighted` | rows of `sightings` |
| `list` | observation: size, age and spread of the list the stored offset belongs to, and the postings a page cap has cut off (`cut`) |

Actions: `Post` (LinkedIn), `Claim`, `ReadPage` (fetch, record the sightings,
move the offset, one commit), `ReadEnd` (an empty page, believed or not),
`Refused`, `Interrupt` (stop, closed gate, a pace that is busy), `Break` (any other
exception), `LastPage`, `Finish`, `Crash` at every page, `Tick`.

| run | instance | shows |
|---|---|---|
| `walk` | five postings, three of them there at the start, pages of two, a page cap of two, one posting while a list is read, a margin of one tick, a maximal window of two, refusals and empty pages that hide results, fairness | no posting slips past the next window while interruptions stay within the margin; no walk ends before its list does; the stored offset has only sighted postings before it and is given up only by finished walks; walks that are interrupted for ever still reach the end |
| `walk_pause` (violation) | a window larger than the run | "so a restart or a pause leaves no gap" (`windows.py:34`): a walk resumed after a long pause is stamped with its resumption, and what was posted after its first page is in no later window |

Bounds: two pages and a page that grows under the walk are the least in which an
offset can be wrong in both directions; every reason of `finish_walk` is
reached. `NoGap` is conditional on what the code cannot help: a walk, or an
interruption of it, longer than the margin, a window cut by `MAX_WINDOW_SECONDS`,
and results beyond the page cap, which the code gives up by design (`list.cut`);
`Burst < PageSize` in that run, because three known pages end a walk and a list
that grows faster than it is read hides itself. Not modelled: postings
that LinkedIn removes, and sightings that come from another slice.

Fairness: time passes, a due slice is claimed, a page is read again and again
without refusal, and the process does not die each time just before the commit
of a finished walk (strong fairness on `LastPage`, the finished `Finish`, and the
reading of a page; interruptions and deaths at pages are unlimited).

One comment disagrees with the code without a run: an empty page "asked right
after a refusal" is "counted as a refusal too and not trusted as the end of the
results" (`search.py:8`), but `distrust` is a local of `walk_slice` (`walk.py:101`):
when the refusal ended the walk, the first page of the next one is trusted.
`MasksOutlast` lets the model's LinkedIn hide results there too; `HonestEnd` is
checked with what it hides within one walk.

`WalkProofs.tla`, for lists, pages, windows and intervals of any size: `IInv`
(the list is ordered by age, a walk stands where its slice says, offset and
sightings agree) is inductive and gives `OffsetsFollow` and `OffsetsAreKept`. The lemma
that carries it, `PageHasNoHoles`, says that the postings between two offsets that are
young enough for the window are all on the page: without `NewestFirst` a page could
skip one.

`NothingSlipsThrough` ([]`NoGap`) and `EndsAreHonest` (`HonestEnd`) are proved under
`SteadyList`, which names what the run fixes as well: LinkedIn sends full pages while it
has cards, hides nothing for longer than a walk, and the list grows by less than a page
while it is read. Otherwise an early end cannot be told from a real one: the cards of a list that grew by a
page while it was read are those the walk already has, and end it. `MarginAssumption` (two margins fit into
the maximal window, 2 hours against 7 days) is needed because a walk that starts at the
edge of the last one's window must still see back to it. `ReadInv` says what a walk has read: a list that is being read has grown by at most
`Burst`, the walk's pages are sighted and lie before the offset (`PagesAreBefore`), where
the code takes the list to have ended it has (`EndsAreReal`), and what came after the
head was read is younger than that reading. `GapInv`, while time does not strain the
windows: the window reaches back to the last walk and the margin beyond it
(`WindowReaches`); a posting neither sighted nor cut off appeared after the head of the
last list was read (`UnknownIsYoung`); one that is older than a sighted posting is still ahead
of the walk (`HolesAreAhead`); a list read to its end has none (`EndsAreKnown`). `WalksFinish` is model-checked only.

## Delivery

`Delivery.tla` models a tick of the deliver service up to packaging:
`run_alerts`, `deliver_tier`, the digest messages and the day summary
(`delivery/service.py`, `alerts.py`, `daily.py`), statement by statement where a
death or another process can tell the difference.

| variable | code |
|---|---|
| `stage`, `alerted`, `noteDay`, `deliveryDay` | columns of `jobs` |
| `strong` | score and verdict satisfy the condition of `due_alerts` |
| `runs` | `delivery_runs`: no row, `telegram_sent_at` empty, set |
| `summaries` | the `summary:<day>` keys of `kv_state` |
| `notes`, `digest`, `rejects` | note files, `digest.md`, `rejected.md` by day folder |
| `pc`, `now`, `todo`, `cur`, `left`, `batch`, `out`, `made`, `brought` | where the tick is and its locals |
| `received`, `messages`, `faults` | observations: what reached the reader, and what went wrong |

The clock counts half days, an even one before the delivery time; the tick keeps
the `now` it started with while midnight or the delivery time passes. A digest is
the set of jobs it is rendered from, with the folder each one's links point to;
that jobs below the threshold are only counted and a section is cut at 20
is layout. `Score` and `Reject` are the processor's commits and come at any point.
`Die` is a crash or an exception at any statement; `AlertRefused` and `DigestRefused`
are Telegram's refusals, `AlertAnswerLost` a message that arrived though the call
failed.

| run | instance | shows |
|---|---|---|
| `delivery` | two jobs of one tier, a second tier, two days, two deaths or lost answers, a Telegram that may refuse everything, fairness | digests, notes, rows and messages agree after every step; nothing is delivered twice; every scored job is delivered |
| `delivery_race` (violation) | the same without any failure | "gets, within a minute of scoring" its alert (`alerts.py:3`): a job scored between the alert round and the delivery of one tick goes into the digest unalerted, for ever |

Bounds: two days are a digest and one after it; two jobs of one tier are a
batch and the job that misses it; two faults let a death in the files be
followed by one in the messages. Jobs stop being scored on the last day, so each
has a delivery left; at most one boundary passes during a tick (a tick takes
minutes). Fairness: the service runs and time passes (`WF(TickStep)`,
`WF(Pass)`); nothing is assumed of Telegram, which is the point of
`ScoredIsDelivered`.

`DeliveryProofs.tla`, for any jobs, tiers, days and faults, proves `DigestIsExact`,
`NotesAreThere`, `MessageIsTheDigest`, `SummaryComesLast`, `RepeatedOnlyByFaults`
and `DeliveredForGood`. The invariant `IInv` adds where the tick stands: a
delivered job has a row in `delivery_runs` (`DeliveryIsRecorded`), an alert round
holds only unalerted jobs and has the note of the one it sends (`RoundIsSound`),
between the files and the commit the digest on disk is the batch in memory, still
scored, of a tier without a row (`DeliveryIsSound`), and a message is
made from what the store says (`TellingIsSound`). `ScoredIsDelivered` is
model-checked only. Packaging and the Neon copy, which end the tick, are in
`Upkeep`.

## JobLife

`JobLife.tla` models what happens to a row of `jobs` from its first sighting to
a score or a reason why not, every commit of the processor's tick an action
(`processor/*.py`, `jobstore/sightings.py`, `jobstore/merge.py`). Two cards of
one posting make two jobs, which the cheap checks may merge.

| variable | code |
|---|---|
| `row` | a row of `jobs`: stage, tier or none, text (`description_status`), remote verdict, scored, attempts, `next_attempt_at` as the flag `due`, ages of `first_seen_at` and `first_refused_at` in days |
| `owner` | `sightings.job_id` |
| `at` | the stage of `process_once` that runs next |
| `bought` | observation: the cards whose job a model has given a verdict |

Actions: `Sight`, `ExpireStale` (its four statements in their order), `CheckOne`
(merge, tier, language), `Rules`, `RemoteBatch` or `CombinedBatch`,
`ScoringBatch`, `DescribeNext` with every outcome of a fetch, `Deliver`, the age-out's
`Undo`, `Restart` between any two commits, delays and days that pass.

* `JobsAreHeld`: no combination of columns is selected by no stage; a verdict
  that was paid for stays with its posting; no sighting is lost with the row a
  merge deletes.
* `ProgressIsKept`: the job a sighting belongs to never moves back.
* `EveryJobEnds` (run `progress`): whatever the hosts and models answer, no job waits
  for ever. It rests on expiry: fairness is that the tick's stages are bounded
  (`WF` of `Expire`, `Rule`, `Ends`) and that days pass.

Bounds: two cards, one of LinkedIn whose text is fetched and one that comes with
its text, are a merge in both directions; limits of none and
one day have days on either side of them. `pick_survivor` ends in a comparison of ids, which
is a choice here. Of `WINDOW_DAYS`, the distance in time within which two jobs may be merged
(`merge.py:11`), the model keeps what the expiry of the same tick leaves of it: two unfinished
jobs are always near each other, since `posting_max_age_days` is 30 as well, and so is an expired
one that is no older (`Recent`); any other finished job may be near or too far (`near` of `CheckOne`).
The attempts of a job that has its text only lengthen its delay (`retry_delay`) and are not counted.

`JobLifeProofs.tla` proves the safety half for any cards, sources, ages and batch sizes:
`NoJobIsLost` ([]`Attended`), `MergesLoseNothing` ([]`PaidIsKept` and
[]`SightingsAreHeld`) and `PostingsProgress` (`ProgressIsKept`). `Attended` is not
inductive: whether an expired job that is undone, or a row that survives a merge, is one
that some stage selects depends on columns no stage reads at that moment. `Sound` says it of one
row in every stage (an expired row has no score, one that may be undone has a text
that can still be fetched or is there), and `IInv` is `Sound` for every row, the types and the two
properties. The actions that write one row are covered by one lemma each about the row (`Follows`: the
new row is sound, keeps the verdict and does not move back) and one about
the table; merging and the first sighting, which touch two rows and the
owners of many sightings, have proofs of their own. `EveryJobEnds` stays with TLC.
The sections after it hold the proofs about `ModelCalls`, `Upkeep` and `Picks`.

## Picks

`Picks.tla` is the order of the description queue (`processor/describe.py`,
`fetch_order.py`): urgent jobs, floor picks, value picks, the tier whose last
attempt is oldest, the counters in `kv_state`, and the validation of the class lists.
`line` is the waiting jobs, oldest first; `older` is the order of the `description_turn:`
stamps, as pairs of tiers; `picks` the `description_pick_count:` of each tier, modulo
`quota_one_in`; `owed` and `since` observe how many fetches an urgent job and each tier have
waited. `PicksAreFair` says that while jobs past the 60-hour rule wait one of them gets every
floor period's fetch; that the turn of each tier with a waiting job comes within a
floor period of each of the others and its own; and that an accepted list gives each
card one class and has no class that no card can have. Bounds: two tiers, two
waiting jobs, one floor pick in two, a valid list and two that must be refused; as fetched jobs
make room for new ones, an urgent job waits for as many fetches as it may, and a third
waiting job changes neither maximum.

With three or more tiers a tier whose value picks keep stamping it never becomes
head, so its old AI titles get no floor pick before they are urgent. No document
promises otherwise.

`PicksStayFair` and `PickTypes` (`JobLifeProofs`) are for any tiers, lists and quota.
The bounds hold because waiting uses something up, and the invariant counts what is
left. `DueOf(t)` is the set of fetches that may still come before the turn of tier `t`: for
each tier before it, those that tier has until the floor pick that ends its turn. A fetch
that leaves `t` waiting takes one member away, since the head came before `t`, and the
tiers it served are behind `t` now; so `since[t]` and the size of `DueOf(t)` together stay under
`quota_one_in` times the number of tiers (`CountersFit`). `Off`, the value picks left until
every tier's next floor pick, does the same for `owed`: a floor pick with an urgent
job waiting is of an urgent job. Both need the stamps to be ordered but for ties
(`TurnsAreOrdered`), which a fetch that stamps two tiers must keep. That each class is used
is counting again: a list of as many entries as there are classes, with all of them in it, has
none twice (`ClassesDiffer`). `PicksAssumption` asks for finitely many tiers, numbers as
tiers, a quota of at least one, and location kinds the lists know.

## Rotation

`Rotation.tla` is `claim_due_slice` over the slices of all tiers, a walk that is
recorded or dies without a trace, and a start with another configuration
(`sync_slices`, `clamp_cadence`). Due times count by their order. The run
`progress` checks `TiersTakeTurns` (no tier has two walks claimed ahead of
one that waits) and that every due slice is walked in the end, one death and one deploy
included; the fairness is that the service loop claims and a walk ends. A walk that
dies of a lost connection records nothing and is claimed again at once
(`collector.py:81`): deaths are bounded in the model because a database that never
stays up walks nothing. A finished slice is taken to be due later than those that
were due at its claim.

`TurnsAreTaken` (the last section of `WalkProofs`) proves `TiersTakeTurns` for any slices, tiers
and configurations. A count of walks alone is not inductive: that a tier was passed once must
say why it is not passed again. `PassedAreNext` says so: a tier that another has passed
since it began to wait was last walked before the other, hence comes before it in the query's
order. `OldestIsWalked` carries that over a walk: the tier of the walk under way was
walked no later than the tiers that waited when it was claimed, though rows fall due meanwhile and
join the line behind them. Of `slice_walks` the model
keeps the latest walk of each slice, so a recorded walk moves its slice to the end of `walked`; that this leaves the order of all other tiers'
last walks alone, and makes the walked tier the latest, are lemmas about `RemoveAt` and
`LastWalk`. A deploy, which may move rows to another tier, starts the counts anew.
`TurnTypesHold` gives the types: no slice is twice in the line or among the walked rows.

## Upkeep

`Upkeep.tla` is the end of the deliver service's tick: packaging
(`delivery/autopackage.py`) and the copy to the archive (`delivery/archive.py`),
against the processor's stage changes, the age-out's undo, a merge that revives a job,
alerts and digests, failures of Neon and crashes. `store` is a job as a copy tells it
apart, `stamped` is `archived_at`, `neon` what the archive has, `batch` the copy under way
(read and locked, sent, stamped), `pass` the packaging under way, `fails` the
retry entries of `kv_state`.

* `CopyIsCurrent`: `archived_at` on an alerted or delivered job says the archive has it
  as it is. It does not extend to the other stages: `set_stage` and a merge leave
  `archived_at` alone, so an expired job that comes back keeps its stamp until an alert
  or a digest clears it (`merge.py:96`).
* `NothingIsForgotten`: an alerted job is packaged, given up after its attempts, or too
  old. Strong fairness of `StartPass` and `Packaging`: what LinkedIn and the provider
  refuse now they grant in the end; without it a host that always refuses would
  postpone for ever, as it should.

`JobLifeProofs.tla` proves `CopyStaysCurrent` for any jobs, batch size and number of
faults, and `UpkeepTypes`. The invariant adds that a job which may still come back to the queue was never
alerted (`AlertedIsScored`: this is why the missing resets do no harm) and that what a
batch read is still so while its rows are locked, and is what Neon has once sent
(`BatchIsCurrent`). For the types it adds that a pass holds only packages that were not given up
(`PackagingFits`): that is why no failure is counted past the last attempt.

Bounds: safety with two jobs and one fault, liveness with one job and two. Noticed, with
no property: `_notify_failure_once` commits its key before it sends
(`delivery/service.py:145`); a crash after the package's row loses its notice; the third
delay of `PACKAGE_RETRY_DELAYS` is never used with three attempts; one row that Neon
refuses stops every batch that contains it.

## Watch

`Watch.tla` is the loop that every service shares (`services/runner.py`), run by the
unit's process and by one started by hand, its heartbeat, and the watchdog
(`services/watchdog.py`, `delivery/health.py`): the ledger in the store and the file for
when the store is down.

* `LockedWork`: processes whose connection is alive and that asked for the lock of their name are never in their ticks
  together, through restarts of the store and crashes.
* `OneInstance` (violation, run `service_lock`): all processes in a tick with a live
  connection. A start that fails in `init_store` keeps the connection and the next round
  skips the lock, since it is taken only when `conn` is `None` or closed.
* `AlertsAreSpaced`: the operator is not alerted again within the repeat time unless the
  service was reported healthy or a check could not save what it had sent.
* `NothingIsForgotten`: a silent service is reported, or the store is; once it is back for
  good no alert stays on record. Fairness: the watchdog's timer fires and its check ends.
  Nothing is assumed of the service.

`SourceProofs.tla` proves `LockKeepsApart`, `AlertsStaySpaced` and `WatchTypes` for any processes and
limits. `LockIsHeld` says that a live session in which the lock was taken has it, and
`OnRecord` that an alert which counts is in the ledger, or about to be, with an age no
greater than the time since it was sent. Bounds: a silence of one slot, a repeat of two,
two upsets. Noticed: `_forget_store_down` removes the file before "OK again" is sent, and
a send that is refused is not tried again, unlike the ledger's.

## SourceWalk and SourceDay

`SourceWalk.tla` is one slice of a daily source (`sources/base.py`, `freehire.py`,
`himalayas.py`): a list that grows at its head and loses postings, pages with bounded
retries and 429 waits, the stop rules, an unfinished walk that resumes in a later run.

| variable | code |
|---|---|
| `slice` | the row of `slices`: `last_walked_at`, `resume_start`, `stop_reason` |
| `walk` | the locals of `walk_slice` and of the client: window, offset, pages, known pages in a row, attempts, 429 waits and what is left of them |
| `posts`, `gone`, `clock` | the source's list: when each posting appeared, which were withdrawn, the time |
| `stored` | sightings |
| `top`, `covered` | observations: what was listed when the walk began at the top of the list, and when; the same of the last walk that was complete |
| `excused`, `news`, `upsets` | observation of what the code may miss (below), and bounds |

`SourcesAreComplete` says two things of it.

* `CompleteMeansStored`: what was listed when a complete walk began at the top is in the store,
  over however many runs and days the walk was spread. Nothing is cut off by a stamp: `covered`
  counts every posting there was.
* `WindowHasTheRest`: a posting that is not in the store yet, one that appeared while the walk was
  unfinished included, is in the window of the next walk. This is the one that depends on
  time. A walk is stamped with the start of its *last* run (`service.py:37`, `base.py:204`);
  what appeared since its *first* run may be above the offset it went on from, so it has to be within what
  the next window reaches back beyond the stamp. `posted_window_days` (`freehire.py:127`)
  is the whole days since the stamp plus two; as the days are rounded down, one day of the two
  is sure.

So both hold under two conditions, assumptions of the run and hypotheses of the theorem:
`FewNews` (one page of known cards does not end a walk, and no more postings appear while a
walk is unfinished than a page holds) and `ShortPauses` (a walk is unfinished for no
longer than the window has to spare). The second is not one the code enforces: a source that
stays throttled or broken for more than a day makes freehire lose what was posted meanwhile. With
`MaxPause` one more than the bound TLC finds `WindowHasTheRest` violated. No document promises
otherwise (`finish_source_walk` speaks of "the last complete walk"), so there is no violation
run. Himalayas asks for no window: its walks are those with `FirstPull` and `Slack` larger than
the time there is.

Excused are: a posting that was withdrawn, and the one that slides past the walk's place by a withdrawal; what a run
that ended at its cap had yet to reach, a normal end, after which the known pages end the next walk
too; and what a run that was killed, or raised on ignored parameters, had yet to reach if
it had recorded pages. `resume_start` is still the old place then, the next walk takes the recorded
pages for known and may stamp the slice complete with the rest unread (`base.py:195-205`,
`freehire.py:151-173`). A kill excuses only the postings behind the walk's place. It is
the weakest spot of this component.

Bounds: three postings at first and one more, one of them no card, pages of two, four pages deep
at most and two pages a run, so that a walk takes several runs and ends at its cap or at the end of the
list; two units of time to a day, a window of a day and a half more than the whole days, four moments,
so a walk may be resumed in another unit, and a whole day may pass between two walks; one run
lost or posting withdrawn.

`SourceDay.tla` has the daily and the resume timers, the lock that keeps them apart, the
due times and the heartbeat: no day is skipped, a failed slice keeps the beat at error,
and the age of the beat is that of the last daily run. Excepted are a daily run that was
killed before its beat (`torn`) and a persistent timer that fires late (`late`), after
which the next run finds slices not due yet. Bounds: a day of seven slots with two resume
slots, a little over two days, one run that dies or is late.

`SourceProofs.tla` proves the safety of both for any constants that satisfy their assumptions.

* `NoPostingIsLost`: [](`CompleteMeansStored` /\ `WindowHasTheRest`), under `FewNews` and `ShortPauses`. The
  properties speak of complete walks; the invariant of every posting that is still open, at any
  moment. While the walk, or the one to come, is at the top of the list, nothing was stored before an
  open posting (`AtTheTop`). Further down, an open posting that was there when the walk began at
  the top is ahead of the walk's place, and what was stored before it is above that place or appeared since
  (`FurtherDown`): a page of known cards therefore never stands between the walk and an open
  posting for `KnownPages` pages in a row. `Reaches` has the window reach back beyond the stamp by
  more than `Slack - DayLength`, and `Tops` has what appeared since the top no older than that moment;
  with `ShortPauses` the two meet.
* `DaysAreKept`: []`SourceDaySafe`. Runs are short against the distance of the timers
  (`RunsAreShort`, the calendar's part of `SourceDayAssumption`), so that every slice is due when
  a punctual daily run starts (`DueInTime`) and that run walks it (`Unwalked`);
  a slice that failed is known by its stop reason and by the heartbeat of the
  daily run at work (`FailureIsRecorded`, `ErrorIsShown`).
* `SourceWalkTypes`, `DayTypes`.

## Verify, Excerpt, ModelCalls

`Verify.tla` is `verify_offers` (`remote_verifier.py`): batches to OpenRouter, then chunks
to Groq, each with its ladder, its quota and its budget of the day. `ShareIsKept`: what
verification sends stays within its share, except what a killed process sent.

`FailuresAreCounted` (the run's `FailuresAreTold`) is about the count that makes a run degraded.
`verdicts` of the model is that of the code: None until a provider replies, then a mapping,
which may be empty. Two places count a failed batch: the end of Groq's ladder, which also
leaves an empty mapping so that the batch is not counted again (`remote_verifier.py:872`, `:877`), and the
end of the batch when nobody replied (`:883`): no key, a spent quota, share or ceiling.
The property compares the count with the batches that a provider did reply to (`replied`) and
with those all of whose offers stayed not stated (`blank`), which are observed elsewhere: a batch
nobody replied to is counted, once, and a counted batch gave no verdict. The converse is not
true. Answers of unknown shape, and at Groq an empty list, are a reply with an empty mapping: the batch is
not counted, though a comment (`remote_verifier.py:430`) says that such an offer "counts toward
the degraded ratio". The mapping of one answer to a verdict (`_resolve_verdict`) is a
conversion and not modelled.

`Excerpt.tla` is the text a model sees: windows around keywords that shrink, merge, and
are strided. A text is its length and the places of its keywords, so every placement up to
eight characters is checked: the last keyword, the sentence that decides, is always
shown within the budget.

`ModelCalls.tla` is the ladder of a scoring batch and of a tailoring, the sink that writes
each attempt, the budget that stops the stages, and the guard that reports fallback answers. The
budget's day is UTC, the guard's Rome's; time counts in half days. `RoomIsLeft`: on a
day the stages make at most one ladder past the stop line; `AlertsAreOfTheirDay`: a day is
reported once and only if a fallback did answer. A batch that is given up leaves its jobs deferred and the tick goes on (`remote.py:158`); scoring
and the combined stage break off, which is the tick's end or the next stage's batch. Bounds: a stop
line of two, one batch a tick, two attempts, three half days, one upset; two batches and a stop
line of three are a million states, checked once and left out of the run. `RoomForTailoring` is for any
number of batches. An attempt is one request here: `scorer.py:168`
sets no `max_retries` while the other chains set 0, so the SDK may send more than the
sink counts.

What they promise is proved for any values of the constants:

* `TheShareIsKept`, `FailuresAreTold` and `VerifyTypes` (`LegacyProofs`): what was sent is in the log, in the
  counters of the call at hand, or in those of a call that was killed (`RequestsBalance`); of the batches that are
  behind, each was replied to or counted, and one that was counted at Groq's ladder waits with an empty mapping
  to be settled (`BatchesBalance`).
* `LastWordIsShown` and `PromptTypes` (`LegacyProofs`): the passages that a prompt is made of
  fit the space and hold the last keyword if its passage alone fits (`Ready`); the
  shrinking of the windows and the last cut each keep this, whatever the text's length.
* `RoomForTailoring`, `AlertsAreTrue` and `CallsKeepTypes` (`JobLifeProofs`): what was made on a day
  is in its budget but for the request under way (`InBudget`), a batch begins below the stop line
  (`OneLadder`), and the requests a tick makes after midnight are among those it asked for
  at all (`AfterMidnight`). The last needs `TickBatches * Retries < Stop + Retries`: a tick that
  runs over midnight could otherwise pass the new day's line without having looked at it. The guard reports the
  days in their order (`InOrder`).

The three are in the run `services`, as `VerificationIsSound`, `FailuresAreTold` and `LogIsHonest`.

## DailyRun, Scrape, RunLog

`DailyRun.tla` is the daily run of one tier (`main.py`, `retry_queue.py`, `dedup.py`)
under `run_with_backoff`. `queue` and `seen` are the two files, `at` the next statement,
`fate` and `clock` its locals; `told` and `worn` observe what was really handled.
`Raise` and `Die` come between any two statements.

* `SeenIsHandled`: what is in the dedup log was handled, and nothing is both there and queued.
* `OffersAreKept`: the clock of a deferral is not turned back while the offer stays in
  the queue, and a run that ends leaves every offer in one of the two files.
* `NothingIsForgotten`: every attempt ends.
* `DeferralEnds` (violation, run `daily_clock`): "or it can be re-scraped and re-deferred
  forever" (`main.py:289`) happens to a scoring deferral: it is dropped at load when expired,
  not marked seen, scraped again and given a new clock.

A crash between the queue's rewrite and the last `mark_seen` drops carried offers
that were scored but not yet published; they are in neither file, and are seen again only if LinkedIn
returns them. That every offer has a place is therefore stated of runs that end. An offer whose scoring days
are over (`ScoringExpired`) is exempt from the first property about clocks, since its clock does start over: that
is what `DeferralEnds` shows.

`Scrape.tla` is `fetch_offers` (`scraper.py`): paging by the cards that came, ladders for
searches, throttled pages and texts, the breaker, the pace's factor. No card before the
offset is unhandled, one text costs one ladder per run, refusals stop the requests, and every
card in scope that was handled is an offer, those among them whose text was never asked for. Bounds: two
searches that share cards, pages of two, ladders of two.

`RunLog.tla` is the record of a run (`telemetry.py`): buffer file, flush, drain, close,
with appends and transactions that fail and kills. An append that fails leaves nothing or a part of
its line; the next line then runs on behind the part, and `_read_buffer` skips both (`torn`). A run
whose opening did not get through flushes its file early, more than once (`ensure_run_id`). `telemetry_ok` in
the database means that every record the run meant to keep arrived: the line a torn one takes along
raises nothing itself, but the flag is down by then. No record whose line the file took is lost but by a
rewrite that fails.

`LegacyProofs.tla` has the proofs of this pipeline, one section per module, for any
values of the constants:

* `HandledBeforeSeen`, `TheFirstDeferralCounts`, `NothingFallsBetween` (`DailyRun`). The
  invariant follows the statements of the run: which fates an offer can have at each
  (`FatesFit`), that the clocks in memory agree with the file until it is rewritten
  (`ClocksAgree`), that the rewritten file has what the run leaves open and no more
  (`Sorted`), and that what is about to be marked was told (`TellingComes`).
  It needs `RateLimitMaxAge <= MaxAge` (2 and 3 days, `retry_queue.py:43`): otherwise a
  text could be dropped as too old for scoring before its own days of refusals are over.
* `CompleteMeansComplete` (`RunLog`): a *file* that says ok has, with the database, every
  record (`OkFiles`), which is what a drain by another process relies on.
* `ScrapingIsSparing` (`Scrape`): every card before the offset was handled or is on the
  page at hand (`InPlace`) and is an offer if it is in scope (`Taken`), a text without an answer has cost no ladder (`LaddersMatch`), and
  nobody asks once the breaker has its refusals (`BreakerHolds`).
* `LogTypes`, `ScrapeTypesHold`: the types, with the bounds of the breaker, the ladders and
  the widening factor.

The sections about `Verify` and `Excerpt` are in the same module.

## What is proved, and how

Eight modules hold proofs, and `PROJECT.json` lists sixty of their theorems. Each follows the same
argument: the invariant holds at the start, one lemma per action or group of actions says that
a step keeps it, one step puts the actions together
(`IInv /\ [Next]_vars => IInv'`), and the theorem follows by `PTL`. `IInv`, or its
name in a section (`DayInv`, `CallsInv`, `PicksFit`, ...), is the property
strengthened with what it rests on; the sections above say with what, and why.

The theorems of a component are about its own module. `ServicesProofs.tla` carries them to the
composition that the run `services` checks, for any values of the constants: a
behaviour of `Services` never changes its `part`, so if it begins
with a part it is a behaviour of that part's module (`JobsOnly` and its eleven fellows), and what
is proved of the module holds of it. If it begins with another, the implication in the property is true. `JobsStayHeld`,
`NothingGoesBack`, `SeenStaysHandled`, `OffersStayKept`, `LogStaysHonest`, `ScrapeStaysSparing`,
`SourcesStayComplete`, `CopiesStayCurrent`, `WorkStaysLocked`, `AlertsKeepSpaced`,
`VerificationStaysSound`, `FailuresStayTold`, `PicksStayFair` and `TypesStayKept` are the
properties of that run, one by one; `TypesStayKept` gathers the type theorems of the twelve parts, which
are proved in the sections of their modules and not listed each. Of what the run `progress`
checks, `TurnsAreTaken` is the safety part.

The assumptions on constants are named, in the modules that declare them, and as weak as the
proofs allow; TLC evaluates each in a passing run (`PartsAssumption` of `Services` and
`ProgressAssumption` of `MCProgress` for those of the parts). Some say more than types, and the code's numbers
satisfy them: `LifetimeAssumption` (a marker outlives a sleep), `MarginAssumption` of `Walk`,
`RateLimitMaxAge <= MaxAge` (the days of a refused text are no more than those of
scoring), `TickBatches * Retries < Stop + Retries` (a tick is small against the day's line),
the timers' distance in `SourceDayAssumption`, and `FewNews` and
`ShortPauses` (a source's list grows slower than it is read, and its walks end in time), which are
conditions on the source. `SteadyList`, which two theorems about `Walk` need, is a hypothesis of theirs and not
an assumption of the module.

Every invariant and every action property that a passing run checks is stated by a listed theorem.
With TLC alone stay:

* liveness: `EveryCallReturns`, `PatienceIsRewarded`, `Recovers`, `ScoredIsDelivered`, `WalksFinish`,
  `EveryJobEnds`, `NothingIsForgotten`. Fairness leads to `ENABLED`, which the provers
  do not expand;
* what a recursive definition computes, since an induction over data cannot be instantiated here.
  The modules that are proved about use none.

## Not modelled, and why

* Status and reports, the text rules, the parsers of pages and items: conversions without
  state; a model would restate them. Their answers are inputs, every value allowed.
* Tailoring's documents and `autoapply/`: files of one process. Packaging sees success,
  failure or a quota; the ladder of requests is in `ModelCalls`.
* Migration, labels and the archive's schema: one-time or interactive commands. That
  `init_store` can fail at a start is in `Watch`.
* The other checks of `health.py` (queues, pace, disk, sources): read-only conditions that
  go through the ledger modelled for one of them.
* The files that `storage.py` and `writer.py` write, and the pipeline after them: each
  is written once per run and read by people.
* In the pace: the event log and the counters of the day, which `slot()` does not read;
  `_load` raising in a live session after the lock was taken (`pace.py:458`), which leaves the
  lock held until the process restarts and is a hazard without a property.
* In the walk: postings known from another slice (`walk.py:164`), also a hazard without a
  property.
