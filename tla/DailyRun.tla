------------------------------- MODULE DailyRun -------------------------------
(***************************************************************************)
(* The daily run of one tier (main.py) over its two files: the dedup log of *)
(* offers that were handled and the queue of offers that were not          *)
(* (src/retry_queue.py).  A run fetches, verifies, scores, rewrites the     *)
(* queue, marks what it gave up, publishes and marks the rest.  An          *)
(* exception anywhere makes run_with_backoff start over, a kill leaves the  *)
(* files as they are until the next day.                                    *)
(*                                                                         *)
(* An offer is its link: the dedup log and the queue know nothing else of   *)
(* it.  The four tiers have files of their own, so one tier is modelled.  *)
(***************************************************************************)
EXTENDS Integers

CONSTANTS
    Offers,           \* the links of the tier
    MaxAge,           \* MAX_AGE_DAYS
    RateLimitMaxAge,  \* RATE_LIMIT_MAX_AGE_DAYS
    MaxAttempts,      \* DEFAULT_MAX_ATTEMPTS
    Faults            \* whether runs raise and die

DailyRunAssumption ==
    /\ {MaxAge, RateLimitMaxAge, MaxAttempts} \subseteq Nat \ {0}
    /\ RateLimitMaxAge <= MaxAge
    /\ Faults \in BOOLEAN

VARIABLES
    queue,    \* the file of deferred offers: what is missing (a score or a text), days since queued_at
    seen,     \* the dedup log
    at,       \* the next statement of the handler, "idle" between runs
    fate,     \* fate[o]: what the run at hand has made of an offer
    clock,    \* clock[o]: the age `previous` has for it
    attempt,  \* the attempt of run_with_backoff
    told,     \* history: offers that are in a digest or among the rejected ones
    worn      \* history: offers whose text was still missing RateLimitMaxAge days after the first deferral

vars == <<queue, seen, at, fate, clock, attempt, told, worn>>

-----------------------------------------------------------------------------
Never == -1
Out == [o \in Offers |-> "out"]
NoClock == [o \in Offers |-> Never]
Absent == [lacks |-> "nothing", age |-> 0]
Places == {"idle", "fetch", "clear", "verify", "write_rejected", "score", "persist", "give_up", "publish", "mark"}
Fates == {"out", "verify", "ready", "pending", "expired", "given_up", "rejected", "scored", "unscored"}

Queued(o) == queue[o].lacks # "nothing"
With(f) == {o \in Offers : fate[o] = f}

RateLimitExpired(age) == age >= RateLimitMaxAge
ExpiredTexts == {o \in Offers : queue[o].lacks = "text" /\ RateLimitExpired(queue[o].age)}
\* A scoring deferral past its days is dropped on load, and is in no list of the run.
ScoringExpired(o) == queue[o].lacks = "score" /\ queue[o].age > MaxAge
\* read_deferred
Live == {o \in Offers : Queued(o) /\ o \notin ExpiredTexts /\ queue[o].age <= MaxAge}
Previous == [o \in Offers |-> IF o \in Live \cup ExpiredTexts THEN queue[o].age ELSE Never]

Init ==
    /\ queue = [o \in Offers |-> Absent]
    /\ seen = {}
    /\ at = "idle"
    /\ fate = Out
    /\ clock = NoClock
    /\ attempt = 0
    /\ told = {}
    /\ worn = {}

-----------------------------------------------------------------------------
(* Faults of the kind the two files invite.                                 *)

EverythingFetched == Offers \ With("out")
PendingOnly == With("pending")

-----------------------------------------------------------------------------
(* The handler.                                                             *)

\* The orchestrator starts one process per tier; run_tier_with_retry makes the first attempt.
Start ==
    /\ at = "idle"
    /\ at' = "fetch" /\ attempt' = 1
    /\ UNCHANGED <<queue, seen, fate, clock, told, worn>>

\* Scrape, language filter, dedup, queue: what each offer is for this run.  `fetched` are the offers of the
\* scrape in an accepted language, `throttled` those without a text; `texts` are the queued ones whose text
\* came at last (the first failure stops the rest), `foreign` those among them in another language.
Fetch(fetched, throttled, texts, foreign) ==
    LET new == fetched \ seen
        fresh == {o \in new : ~(o \in throttled /\ o \in Live /\ queue[o].lacks = "score")}
        carried == Live \ fresh
        waiting == {o \in carried : queue[o].lacks = "text"}
    IN
    /\ at = "fetch"
    /\ throttled \subseteq fetched /\ foreign \subseteq texts /\ texts \subseteq waiting
    /\ fate' = [o \in Offers |->
          CASE o \in fresh \cap throttled -> "pending"
            [] o \in fresh \ throttled -> "verify"
            [] o \in texts \ foreign -> "verify"
            [] o \in waiting \ texts -> "pending"
            [] o \in carried \ waiting -> "ready"
            [] o \in ExpiredTexts \ fresh -> "expired"
            [] OTHER -> "out"]
    /\ clock' = Previous
    /\ at' = IF new = {} /\ Live = {} THEN "clear" ELSE "verify"
    /\ UNCHANGED <<queue, seen, attempt, told, worn>>

\* No new offers: the file is removed first, then the expired texts are marked.
Clear ==
    /\ at = "clear"
    /\ queue' = [o \in Offers |-> Absent]
    /\ fate' = [o \in Offers |-> IF fate[o] = "expired" THEN "given_up" ELSE fate[o]]
    /\ at' = "give_up"
    /\ UNCHANGED <<seen, clock, attempt, told, worn>>

\* Verification (Verify models it); a tier that verifies nothing rejects nothing.
VerifyOffers(rejected) ==
    /\ at = "verify"
    /\ rejected \subseteq With("verify")
    /\ fate' = [o \in Offers |-> IF o \in rejected THEN "rejected"
                                  ELSE IF fate[o] = "verify" THEN "ready" ELSE fate[o]]
    /\ at' = "write_rejected"
    /\ UNCHANGED <<queue, seen, clock, attempt, told, worn>>

WriteRejected ==
    /\ at = "write_rejected"
    /\ told' = told \cup With("rejected")
    /\ at' = IF With("ready") = {} THEN "persist" ELSE "score"
    /\ UNCHANGED <<queue, seen, fate, clock, attempt, worn>>

\* score_offers stops at the first batch that dies; what it did not reach is not handled.
ScoreOffers(scored) ==
    /\ at = "score"
    /\ scored \subseteq With("ready")
    /\ fate' = [o \in Offers |-> IF o \in scored THEN "scored"
                                  ELSE IF fate[o] = "ready" THEN "unscored" ELSE fate[o]]
    /\ at' = "persist"
    /\ UNCHANGED <<queue, seen, clock, attempt, told, worn>>

\* build_deferred: the first deferral's time stays; a text that had its days does not enter again.
Unfinished == With("unscored") \cup With("pending")
Entry(o) ==
    IF o \notin Unfinished \/ (fate[o] = "pending" /\ RateLimitExpired(clock[o])) THEN Absent
    ELSE [lacks |-> IF fate[o] = "pending" THEN "text" ELSE "score",
          age |-> IF clock[o] = Never THEN 0 ELSE clock[o]]

\* _persist_unfinished rewrites the file, then marks the offers it gives up.
Persist ==
    /\ at = "persist"
    /\ queue' = [o \in Offers |-> Entry(o)]
    /\ fate' = [o \in Offers |-> IF fate[o] = "expired" \/ (fate[o] = "pending" /\ Entry(o) = Absent)
                                  THEN "given_up" ELSE fate[o]]
    /\ at' = "give_up"
    /\ UNCHANGED <<seen, clock, attempt, told, worn>>

MarkGivenUp ==
    /\ at = "give_up"
    /\ seen' = seen \cup With("given_up")
    /\ at' = "publish"
    /\ UNCHANGED <<queue, fate, clock, attempt, told, worn>>

\* save_offers, write_notes and write_digest.
Publish ==
    /\ at = "publish"
    /\ told' = told \cup With("scored")
    /\ at' = "mark"
    /\ UNCHANGED <<queue, seen, fate, clock, attempt, worn>>

\* The application packages and the summary are guarded and change neither file; then mark_seen.
Handled == With("rejected") \cup With("scored")
MarkSeen ==
    /\ at = "mark"
    /\ seen' = seen \cup Handled
    /\ at' = "idle" /\ attempt' = 0 /\ fate' = Out /\ clock' = NoClock
    /\ UNCHANGED <<queue, told, worn>>

-----------------------------------------------------------------------------
(* What goes wrong, and time.                                               *)

\* An exception that is not a quota: the handler runs again after a delay, at most MaxAttempts times.
NextAttempt == attempt + 1
Raise ==
    /\ Faults /\ at # "idle" /\ attempt < MaxAttempts
    /\ at' = "fetch" /\ attempt' = NextAttempt /\ fate' = Out /\ clock' = NoClock
    /\ UNCHANGED <<queue, seen, told, worn>>

\* A spent quota, the last attempt or a kill: the tier is over for the day.
Die ==
    /\ Faults /\ at # "idle"
    /\ at' = "idle" /\ attempt' = 0 /\ fate' = Out /\ clock' = NoClock
    /\ UNCHANGED <<queue, seen, told, worn>>

\* Midnight, also in the middle of a run.  Ages past MaxAge are all the same.
OneMore(age) == IF age > MaxAge THEN age ELSE age + 1
NewDay ==
    /\ queue' = [o \in Offers |-> IF Queued(o) THEN [queue[o] EXCEPT !.age = OneMore(@)] ELSE Absent]
    /\ clock' = [o \in Offers |-> IF clock[o] = Never THEN Never ELSE OneMore(clock[o])]
    /\ worn' = worn \cup {o \in Offers : queue[o].lacks = "text" /\ RateLimitExpired(queue[o].age + 1)}
    /\ UNCHANGED <<seen, at, fate, attempt, told>>

Scrape == at = "fetch" /\ \E fetched, texts \in SUBSET Offers :
             \E throttled \in SUBSET fetched, foreign \in SUBSET texts : Fetch(fetched, throttled, texts, foreign)
Verification == at = "verify" /\ \E rejected \in SUBSET Offers : VerifyOffers(rejected)
Scoring == at = "score" /\ \E scored \in SUBSET Offers : ScoreOffers(scored)
Handler == Scrape \/ Clear \/ Verification \/ WriteRejected \/ Scoring \/ Persist \/ MarkGivenUp \/ Publish \/ MarkSeen

Next == Start \/ Handler \/ Raise \/ Die \/ NewDay

Spec == Init /\ [][Next]_vars

\* cron starts the run every day and every call of the handler returns or raises.
FairSpec == Spec /\ WF_vars(Start) /\ WF_vars(Handler) /\ WF_vars(NewDay)

-----------------------------------------------------------------------------
(* Properties.                                                              *)

TypeOK ==
    /\ queue \in [Offers -> [lacks : {"nothing", "score", "text"}, age : Nat]]
    /\ seen \subseteq Offers /\ told \subseteq Offers /\ worn \subseteq Offers
    /\ at \in Places
    /\ fate \in [Offers -> Fates]
    /\ clock \in [Offers -> Nat \cup {Never}]
    /\ attempt \in 0..MaxAttempts

\* An offer in the dedup log was handled: it is in a digest or among the rejected ones, or its text was
\* refused for all the days it is given (dedup.py: "HANDLED, not merely fetched").  An entry of that log is
\* permanent, so an offer that enters it too early is lost for good.
SeenIsHandled == seen \subseteq told \cup worn

\* No offer is both handled and waiting, wherever a run raises or dies: the queue is rewritten before
\* anything is marked, so a handled offer is never scored again from the queue.
SeenIsNotQueued == \A o \in seen : ~Queued(o)

\* The clock of a deferral runs from the first one: a later copy of a waiting offer, a refused refetch or a
\* run that died does not turn it back while the offer stays in the queue.
ClockRuns == \A o \in Offers : Queued(o) /\ Queued(o)' => ScoringExpired(o) \/ queue'[o].age >= queue[o].age
ClockIsKept == [][ClockRuns]_vars

\* A run that ends leaves nothing in between: every offer it took in is in the dedup log or in the queue.
EachHasAPlace == MarkSeen => \A o \in Offers : fate[o] # "out" => o \in seen' \/ Queued(o)
Accounted == [][EachHasAPlace]_vars

\* Every attempt ends and so do the attempts.
RunEnds == at # "idle" ~> at = "idle"

\* retry_queue.py and main.py: the expiry runs from the first deferral, "or it can be re-scraped and
\* re-deferred forever": every deferral ends.
DeferralEnds == \A o \in Offers : Queued(o) ~> ~Queued(o)
=============================================================================
