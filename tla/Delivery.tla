------------------------------ MODULE Delivery ------------------------------
(***************************************************************************)
(* The deliver service (src/delivery/service.py, alerts.py, daily.py): once *)
(* a minute a tick sends an alert for every strong match, after the         *)
(* delivery time writes each tier's digest of the day, and sends digests    *)
(* and the day summary to Telegram.  Files, store and Telegram are changed  *)
(* one after the other; the process may die between any two of them, the    *)
(* processor scores jobs at any moment and midnight may pass during a tick. *)
(*                                                                          *)
(* The clock counts half days: an even one is before the delivery time.     *)
(* A digest is the set of jobs it is rendered from: those below the         *)
(* threshold are counted there, not listed, and a section has at most 20.   *)
(* Packaging and the Neon copy, which end a tick, are not modelled here.    *)
(***************************************************************************)
EXTENDS Integers

CONSTANTS
  Jobs,       \* jobs on their way to a score
  NoJob,      \* no job
  Tiers,      \* the tiers of the policy
  TierOf,     \* the tier of each job
  Checked,    \* the tiers with remote_check_enabled
  LastDay,    \* the days are 0..LastDay
  MaxFaults,  \* how often a tick dies or a Telegram answer is lost
  Refusals    \* whether Telegram may refuse a message

ASSUME DeliveryAssumption ==
  /\ NoJob \notin Jobs
  /\ Tiers \subseteq Nat
  /\ TierOf \in [Jobs -> Tiers] /\ Checked \subseteq Tiers
  /\ LastDay \in Nat /\ MaxFaults \in Nat /\ Refusals \in BOOLEAN

VARIABLES
  clock,        \* half days gone
  stage,        \* jobs.stage
  strong,       \* whether score and verdict ask for an alert
  alerted,      \* jobs.alerted_at is set
  noteDay,      \* jobs.note_day
  deliveryDay,  \* jobs.delivery_day
  runs,         \* delivery_runs: no row, unsent, sent
  summaries,    \* the days whose summary is marked in kv_state
  notes,        \* the note files, by day folder and job
  digest,       \* digest.md: the jobs it is made from, and the folder of each one's links
  rejects,      \* rejected.md: the jobs it is made from
  pc,           \* where the tick is
  now,          \* the tick's `now`
  todo,         \* alerts the round still has to send
  cur,          \* the job being alerted
  left,         \* tiers the running loop has not come to
  batch,        \* the scored jobs deliver_tier loaded
  out,          \* the rejected jobs deliver_tier loaded
  made,         \* tiers delivered in this tick, the keys of `deliveries`
  brought,      \* the jobs of their TierDelivery
  received,     \* observation: how often the reader got each alert
  messages,     \* observation: the jobs of the last digest message the reader got
  faults        \* observation: deaths and lost answers

table == <<stage, strong, alerted, noteDay, deliveryDay, runs, summaries>>
disk == <<notes, digest, rejects>>
locals == <<now, todo, cur, left, batch, out, made, brought>>
reader == <<received, messages>>
vars == <<clock, table, disk, pc, locals, reader, faults>>

Days == 0..LastDay
Never == -1
Clocks == 0..(2 * LastDay + 1)

Day(c) == c \div 2
DeliveryStarted(c) == c % 2 = 1
Today == Day(now)
First(S) == CHOOSE t \in S : \A u \in S : t <= u

-----------------------------------------------------------------------------
(* What the service asks the store.                                         *)

DueAlerts == {j \in Jobs : stage[j] = "scored" /\ strong[j] /\ ~alerted[j]}

\* Mutant: a job with a note counts as delivered.
ScoredWithoutNote(t) ==
  {j \in Jobs : TierOf[j] = t /\ stage[j] = "scored" /\ noteDay[j] = Never}

ScoredIn(t) == {j \in Jobs : TierOf[j] = t /\ stage[j] = "scored"}

\* Mutant: rejected jobs are loaded whether they were listed or not.
EverRejectedIn(t) == {j \in Jobs : TierOf[j] = t /\ stage[j] = "rejected"}

RejectedIn(t) ==
  {j \in Jobs : TierOf[j] = t /\ stage[j] = "rejected" /\ deliveryDay[j] = Never}

\* Mutant: the message has whatever the tier ever delivered.
EverDelivered(d, t) == {j \in Jobs : TierOf[j] = t /\ stage[j] = "delivered"}

DeliveredJobs(d, t) ==
  {j \in Jobs : TierOf[j] = t /\ stage[j] = "delivered" /\ deliveryDay[j] = d}

Undelivered(d) == {t \in Tiers : runs[d][t] = "none"}
UnsentTelegram(d) == {t \in Tiers : runs[d][t] = "unsent"}

SummaryDue ==
  /\ DeliveryStarted(now)
  /\ Undelivered(Today) = {}
  /\ UnsentTelegram(Today) = {}
  /\ Today \notin summaries

\* Mutant: deliver_tier writes a note only for a job without one.
LacksNote(j) == noteDay[j] = Never

NeedsNote(j) == ~alerted[j] \/ noteDay[j] = Never

\* The folder a digest entry links to (_mark_alerted_entry).
LinkDay(j) == IF alerted[j] /\ noteDay[j] # Never THEN noteDay[j] ELSE Today

-----------------------------------------------------------------------------
Init ==
  /\ clock = 0
  /\ stage = [j \in Jobs |-> "waiting"]
  /\ strong = [j \in Jobs |-> FALSE]
  /\ alerted = [j \in Jobs |-> FALSE]
  /\ noteDay = [j \in Jobs |-> Never]
  /\ deliveryDay = [j \in Jobs |-> Never]
  /\ runs = [d \in Days |-> [t \in Tiers |-> "none"]]
  /\ summaries = {}
  /\ notes = {}
  /\ digest = [d \in Days |-> [t \in Tiers |-> {}]]
  /\ rejects = [d \in Days |-> [t \in Tiers |-> {}]]
  /\ pc = "idle"
  /\ now = 0 /\ todo = {} /\ cur = NoJob /\ left = {} /\ batch = {} /\ out = {}
  /\ made = {} /\ brought = [t \in Tiers |-> {}]
  /\ received = [j \in Jobs |-> 0]
  /\ messages = [d \in Days |-> [t \in Tiers |-> {}]]
  /\ faults = 0

(* The processor and the clock.                                             *)

\* A job gets its score; no job does on the last day, so that each has a
\* delivery left.
Score(j) ==
  /\ stage[j] = "waiting" /\ Day(clock) < LastDay
  /\ stage' = [stage EXCEPT ![j] = "scored"]
  /\ strong' \in {[strong EXCEPT ![j] = b] : b \in BOOLEAN}
  /\ UNCHANGED <<clock, alerted, noteDay, deliveryDay, runs, summaries, disk, pc,
                 locals, reader, faults>>

\* The remote check drops a job: filtered_out, remote_rejected.
Reject(j) ==
  /\ stage[j] = "waiting" /\ TierOf[j] \in Checked /\ Day(clock) < LastDay
  /\ stage' = [stage EXCEPT ![j] = "rejected"]
  /\ UNCHANGED <<clock, strong, alerted, noteDay, deliveryDay, runs, summaries, disk,
                 pc, locals, reader, faults>>

\* The delivery time or midnight passes, at most once during a tick.
Pass ==
  /\ clock + 1 \in Clocks
  /\ pc = "idle" \/ clock = now
  /\ clock' = clock + 1
  /\ UNCHANGED <<table, disk, pc, locals, reader, faults>>

-----------------------------------------------------------------------------
(* run_alerts                                                               *)

Begin ==
  /\ pc = "idle"
  /\ pc' = "alerts"
  /\ now' = clock
  /\ todo' = DueAlerts
  /\ UNCHANGED <<clock, table, disk, cur, left, batch, out, made, brought, reader, faults>>

NextAlert(j) ==
  /\ pc = "alerts" /\ j \in todo
  /\ cur' = j
  /\ pc' = IF noteDay[j] = Never THEN "note" ELSE "send"
  /\ UNCHANGED <<clock, table, disk, now, todo, left, batch, out, made, brought, reader,
                 faults>>

WriteNote ==
  /\ pc = "note"
  /\ pc' = "note row"
  /\ notes' = notes \cup {<<Today, cur>>}
  /\ UNCHANGED <<clock, table, digest, rejects, locals, reader, faults>>

CommitNote ==
  /\ pc = "note row"
  /\ pc' = "send"
  /\ noteDay' = [noteDay EXCEPT ![cur] = Today]
  /\ UNCHANGED <<clock, stage, strong, alerted, deliveryDay, runs, summaries, disk,
                 locals, reader, faults>>

SendAlert ==
  /\ pc = "send"
  /\ pc' = "alert row"
  /\ received' = [received EXCEPT ![cur] = @ + 1]
  /\ UNCHANGED <<clock, table, disk, locals, messages, faults>>

\* Telegram refuses, or takes the message and its answer is lost: either way
\* the round ends here.
BreakRound ==
  /\ pc = "send"
  /\ pc' = "daily"
  /\ todo' = {} /\ cur' = NoJob
  /\ UNCHANGED <<clock, table, disk, now, left, batch, out, made, brought, messages>>

AlertRefused ==
  /\ Refusals
  /\ BreakRound
  /\ UNCHANGED <<received, faults>>

AlertAnswerLost ==
  /\ faults < MaxFaults
  /\ BreakRound
  /\ faults' = faults + 1
  /\ received' = [received EXCEPT ![cur] = @ + 1]

MarkAlerted ==
  /\ pc = "alert row"
  /\ pc' = "alerts"
  /\ alerted' = [alerted EXCEPT ![cur] = TRUE]
  /\ todo' = todo \ {cur} /\ cur' = NoJob
  /\ UNCHANGED <<clock, stage, strong, noteDay, deliveryDay, runs, summaries, disk,
                 now, left, batch, out, made, brought, reader, faults>>

AlertsDone ==
  /\ pc = "alerts" /\ todo = {}
  /\ pc' = "daily"
  /\ UNCHANGED <<clock, table, disk, locals, reader, faults>>

-----------------------------------------------------------------------------
(* _daily: delivery_pending and deliver_tier                                *)

DeliveryPending ==
  /\ pc = "daily"
  /\ pc' = "tiers"
  /\ left' = IF DeliveryStarted(now) THEN Undelivered(Today) ELSE {}
  /\ UNCHANGED <<clock, table, disk, now, todo, cur, batch, out, made, brought, reader,
                 faults>>

LoadTier ==
  /\ pc = "tiers" /\ left # {}
  /\ pc' = "files"
  /\ batch' = ScoredIn(First(left))
  /\ out' = RejectedIn(First(left))
  /\ UNCHANGED <<clock, table, disk, now, todo, cur, left, made, brought, reader, faults>>

WriteFiles ==
  LET t == First(left) IN
  /\ pc = "files"
  /\ pc' = "commit"
  /\ notes' = notes \cup {<<Today, j>> : j \in {k \in batch : NeedsNote(k)}}
  /\ digest' = [digest EXCEPT ![Today][t] = {<<j, LinkDay(j)>> : j \in batch}]
  /\ rejects' = IF t \in Checked THEN [rejects EXCEPT ![Today][t] = out] ELSE rejects
  /\ UNCHANGED <<clock, table, locals, reader, faults>>

\* Mutant: the transaction delivers whatever is scored by now.
ScoredByNow == ScoredIn(First(left))

Delivered == batch

CommitTier ==
  LET t == First(left) IN
  /\ pc = "commit"
  /\ pc' = "tiers"
  /\ stage' = [j \in Jobs |-> IF j \in Delivered THEN "delivered" ELSE stage[j]]
  /\ deliveryDay' = [j \in Jobs |-> IF j \in Delivered \cup out THEN Today
                                    ELSE deliveryDay[j]]
  /\ noteDay' = [j \in Jobs |-> IF j \in Delivered /\ noteDay[j] = Never THEN Today
                                ELSE noteDay[j]]
  /\ runs' = [runs EXCEPT ![Today][t] = "unsent"]
  /\ left' = left \ {t}
  /\ made' = made \cup {t}
  /\ brought' = [brought EXCEPT ![t] = batch]
  /\ batch' = {} /\ out' = {}
  /\ UNCHANGED <<clock, strong, alerted, summaries, disk, now, todo, cur, reader, faults>>

TiersDone ==
  /\ pc = "tiers" /\ left = {}
  /\ pc' = "digests"
  /\ left' = UnsentTelegram(Today)
  /\ UNCHANGED <<clock, table, disk, now, todo, cur, batch, out, made, brought, reader,
                 faults>>

-----------------------------------------------------------------------------
(* _daily: the messages                                                     *)

\* What a tier's digest message is made from: the delivery of this tick, or what the
\* store says the day delivered.
MessageOf(t) == IF t \in made THEN brought[t] ELSE DeliveredJobs(Today, t)

SendDigest ==
  /\ pc = "digests" /\ left # {}
  /\ pc' = "digest row"
  /\ messages' = [messages EXCEPT ![Today][First(left)] = MessageOf(First(left))]
  /\ UNCHANGED <<clock, table, disk, locals, received, faults>>

DigestRefused ==
  /\ Refusals
  /\ pc = "digests" /\ left # {}
  /\ left' = left \ {First(left)}
  /\ UNCHANGED <<clock, table, disk, pc, now, todo, cur, batch, out, made, brought, reader,
                 faults>>

MarkTelegramSent ==
  /\ pc = "digest row"
  /\ pc' = "digests"
  /\ runs' = [runs EXCEPT ![Today][First(left)] = "sent"]
  /\ left' = left \ {First(left)}
  /\ UNCHANGED <<clock, stage, strong, alerted, noteDay, deliveryDay, summaries, disk,
                 now, todo, cur, batch, out, made, brought, reader, faults>>

\* The summary's messages are sent; it is marked only if all were taken.
SendSummary ==
  /\ pc = "digests" /\ left = {} /\ SummaryDue
  /\ pc' = "summary row"
  /\ UNCHANGED <<clock, table, disk, locals, reader, faults>>

Forget ==
  /\ pc' = "idle"
  /\ todo' = {} /\ cur' = NoJob /\ left' = {} /\ batch' = {} /\ out' = {}
  /\ made' = {} /\ brought' = [t \in Tiers |-> {}]

\* No summary is due, or one of its messages is refused.
EndTick ==
  /\ pc = "digests" /\ left = {} /\ (SummaryDue => Refusals)
  /\ Forget
  /\ UNCHANGED <<clock, table, disk, now, reader, faults>>

MarkSummarySent ==
  /\ pc = "summary row"
  /\ Forget
  /\ summaries' = summaries \cup {Today}
  /\ UNCHANGED <<clock, stage, strong, alerted, noteDay, deliveryDay, runs, disk, now,
                 reader, faults>>

\* The process dies, or an exception ends the tick: what was committed stays.
Die ==
  /\ faults < MaxFaults
  /\ pc # "idle"
  /\ Forget
  /\ faults' = faults + 1
  /\ UNCHANGED <<clock, table, disk, now, reader>>

-----------------------------------------------------------------------------
Alerting ==
  \/ \E j \in Jobs : NextAlert(j)
  \/ WriteNote \/ CommitNote \/ SendAlert \/ AlertRefused \/ AlertAnswerLost
  \/ MarkAlerted \/ AlertsDone

Delivering ==
  DeliveryPending \/ LoadTier \/ WriteFiles \/ CommitTier \/ TiersDone

Telling ==
  SendDigest \/ DigestRefused \/ MarkTelegramSent \/ SendSummary \/ EndTick
  \/ MarkSummarySent

TickStep == Begin \/ Alerting \/ Delivering \/ Telling

Next ==
  \/ TickStep \/ Die \/ Pass
  \/ \E j \in Jobs : Score(j) \/ Reject(j)

Spec == Init /\ [][Next]_vars

-----------------------------------------------------------------------------
(* Safety.                                                                  *)

TypeOK ==
  /\ clock \in Clocks /\ now \in Clocks
  /\ stage \in [Jobs -> {"waiting", "scored", "rejected", "delivered"}]
  /\ strong \in [Jobs -> BOOLEAN] /\ alerted \in [Jobs -> BOOLEAN]
  /\ noteDay \in [Jobs -> Days \cup {Never}]
  /\ deliveryDay \in [Jobs -> Days \cup {Never}]
  /\ runs \in [Days -> [Tiers -> {"none", "unsent", "sent"}]]
  /\ summaries \subseteq Days
  /\ notes \subseteq Days \X Jobs
  /\ digest \in [Days -> [Tiers -> SUBSET (Jobs \X Days)]]
  /\ rejects \in [Days -> [Tiers -> SUBSET Jobs]]
  /\ pc \in {"idle", "alerts", "note", "note row", "send", "alert row", "daily", "tiers",
             "files", "commit", "digests", "digest row", "summary row"}
  /\ todo \subseteq Jobs /\ cur \in Jobs \cup {NoJob}
  /\ left \subseteq Tiers /\ made \subseteq Tiers
  /\ batch \subseteq Jobs /\ out \subseteq Jobs
  /\ brought \in [Tiers -> SUBSET Jobs]
  /\ received \in [Jobs -> Nat] /\ faults \in 0..MaxFaults
  /\ messages \in [Days -> [Tiers -> SUBSET Jobs]]

Listed(d, t) == {e[1] : e \in digest[d][t]}

RejectedOn(d, t) ==
  {j \in Jobs : TierOf[j] = t /\ stage[j] = "rejected" /\ deliveryDay[j] = d}

\* A digest whose delivery is recorded is made from exactly the jobs the store says
\* were delivered by it, and rejected.md from exactly those it rejected, whatever
\* was scored, or died, between loading, writing and committing.
DigestIsExact ==
  \A d \in Days, t \in Tiers : runs[d][t] # "none" =>
    /\ Listed(d, t) = DeliveredJobs(d, t)
    /\ t \in Checked => rejects[d][t] = RejectedOn(d, t)

\* Every note the store, a recorded digest or an alert speaks of is on disk: the
\* one at note_day, which packaging reads, and the one each entry links to.
NotesAreThere ==
  /\ \A j \in Jobs : noteDay[j] # Never => <<noteDay[j], j>> \in notes
  /\ \A j \in Jobs : received[j] > 0 => noteDay[j] # Never
  /\ \A d \in Days, t \in Tiers : runs[d][t] # "none" =>
       \A e \in digest[d][t] : <<e[2], e[1]>> \in notes

\* A digest message that counts as sent, in the tick of the delivery or hours
\* later from the store, is made from the jobs of digest.md.
MessageIsTheDigest ==
  \A d \in Days, t \in Tiers :
    runs[d][t] = "sent" => messages[d][t] = Listed(d, t)

\* The reader gets an alert again only for a death or a lost answer.
RepeatedOnlyByFaults == \A j \in Jobs : received[j] <= 1 + faults

\* The day summary is marked sent only after every tier's digest.
SummaryComesLast ==
  \A d \in summaries : \A t \in Tiers : runs[d][t] = "sent"

\* No job is delivered, or listed as rejected, on a second day, and no digest
\* whose delivery is recorded is written again.
DeliveredForGood ==
  [][/\ \A j \in Jobs : deliveryDay[j] # Never => deliveryDay'[j] = deliveryDay[j]
     /\ \A d \in Days, t \in Tiers : runs[d][t] # "none" =>
          digest'[d][t] = digest[d][t] /\ rejects'[d][t] = rejects[d][t]]_vars

\* The inductive strengthening: where the tick stands, what it holds and what it
\* has already written.
DeliveryIsRecorded ==
  /\ \A j \in Jobs : deliveryDay[j] # Never => runs[deliveryDay[j]][TierOf[j]] # "none"
  /\ \A j \in Jobs : stage[j] \in {"waiting", "scored"} => deliveryDay[j] = Never

RoundIsSound ==
  /\ pc \in {"note", "note row", "send", "alert row"} => cur \in todo
  /\ pc = "idle" => todo = {} /\ made = {}
  /\ \A j \in todo : ~alerted[j]
  /\ pc = "note row" => <<Today, cur>> \in notes
  /\ pc \in {"send", "alert row"} => noteDay[cur] # Never
  /\ \A j \in Jobs :
       ~alerted[j] /\ ~(pc = "alert row" /\ cur = j) => received[j] <= faults

DeliveryIsSound ==
  /\ pc \in {"tiers", "files", "commit"} => left \subseteq Undelivered(Today)
  /\ pc \in {"files", "commit"} =>
       /\ left # {}
       /\ batch \subseteq ScoredIn(First(left)) /\ out \subseteq RejectedIn(First(left))
  /\ pc = "commit" =>
       /\ Listed(Today, First(left)) = batch
       /\ First(left) \in Checked => rejects[Today][First(left)] = out
       /\ \A e \in digest[Today][First(left)] : <<e[2], e[1]>> \in notes
       /\ \A j \in batch : noteDay[j] = Never => <<Today, j>> \in notes

TellingIsSound ==
  /\ \A t \in made : runs[Today][t] # "none" /\ brought[t] = DeliveredJobs(Today, t)
  /\ pc \in {"digests", "digest row"} => left \subseteq UnsentTelegram(Today)
  /\ pc = "digest row" =>
       left # {} /\ messages[Today][First(left)] = Listed(Today, First(left))
  /\ pc = "summary row" => \A t \in Tiers : runs[Today][t] = "sent"

IInv ==
  /\ TypeOK
  /\ DigestIsExact /\ NotesAreThere /\ MessageIsTheDigest
  /\ RepeatedOnlyByFaults /\ SummaryComesLast
  /\ DeliveryIsRecorded /\ RoundIsSound /\ DeliveryIsSound /\ TellingIsSound

\* "A scored job at or above its tier's threshold gets, within a minute of
\* scoring" its alert (docstring of alerts.py): the digest never overtakes it.
AlertBeforeDigest ==
  \A j \in Jobs : stage[j] = "delivered" /\ strong[j] => received[j] > 0

-----------------------------------------------------------------------------
(* The service runs and time passes.  Nothing is assumed of Telegram.       *)
Fairness == WF_vars(TickStep) /\ WF_vars(Pass)

FairSpec == Spec /\ Fairness

\* Every scored job gets into a digest, although ticks die, Telegram refuses
\* every message and whole days pass without a delivery.
ScoredIsDelivered ==
  \A j \in Jobs : stage[j] = "scored" ~> stage[j] = "delivered"
=============================================================================
