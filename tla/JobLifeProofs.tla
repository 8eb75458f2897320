---------------------------- MODULE JobLifeProofs ----------------------------
(***************************************************************************)
(* A posting is never lost between the stages of the processor, for any    *)
(* number of cards, sources and limits: Attended, PaidIsKept,              *)
(* SightingsAreHeld and Progress.  Whatever a statement of the code writes *)
(* into a row that no stage would miss is again such a row (Follows); only *)
(* a merge and a first sighting do more than that.  Below them, what       *)
(* serves the jobs: the requests to the language model (ModelCalls), the   *)
(* archive copy (Upkeep) and the order of the description queue (Picks).   *)
(***************************************************************************)
EXTENDS JobLife, FiniteSetTheorems, SequenceTheorems, WellFoundedInduction, TLAPS

\* A row that some stage attends to: what Attended says of it, and what a later
\* stage, a merge or an undo of its expiry relies on.
Sound(r) ==
    /\ r.stage = "unseen" => r.verdict = None
    /\ r.stage = "seen" => r.text # "failed" /\ ~r.scored
    /\ r.stage = "described" => r.tiered /\ r.text = "ok" /\ ~r.scored
    /\ r.stage = "expired" => ~r.scored
    /\ r.stage \in {"scored", "delivered"} => r.text = "ok" /\ r.verdict = "confirmed" /\ r.scored
    /\ r.verdict = "rejected" => r.stage = "filtered_out"
    /\ r.aged => r.stage = "expired" /\ r.text # "failed"

Good(r) == r \in Rows /\ Sound(r)

\* Where a posting may go from one stage.
Forward(was, is) == StageRank(is) >= StageRank(was) \/ (was \in Unfinished /\ is = "expired")

Lost == {"unseen", "merged"}

\* A row that was written over a good one, without a merge.
Follows(q, r) ==
    /\ Good(q)
    /\ r.stage \in Lost => q = r
    /\ r.stage \notin Lost => q.stage \notin Lost
    /\ r.verdict # None => q.verdict # None
    /\ Forward(r.stage, q.stage)

OwnersHold == \A s \in Cards : row[s].stage = "unseen" => owner[s] = s

IInv ==
    /\ TypeOK
    /\ \A j \in Cards : Sound(row[j])
    /\ OwnersHold
    /\ PaidIsKept
    /\ SightingsAreHeld

-----------------------------------------------------------------------------
(* Rows.                                                                    *)

LEMMA LeastOfTwo ==
    ASSUME NEW a \in Int, NEW b \in Int
    PROVE  Min({a, b}) \in {a, b} /\ Min({a, b}) <= a /\ Min({a, b}) <= b
<1>1. \E x \in {a, b} : \A y \in {a, b} : x <= y
    <2>1. CASE a <= b
        BY <2>1
    <2>2. CASE ~(a <= b)
        BY <2>2
    <2> QED
        BY <2>1, <2>2
<1> QED
    BY <1>1 DEF Min

LEMMA GreatestOfTwo ==
    ASSUME NEW a \in Int, NEW b \in Int
    PROVE  Max({a, b}) \in {a, b}
<1>1. \E x \in {a, b} : \A y \in {a, b} : x >= y
    <2>1. CASE a >= b
        BY <2>1
    <2>2. CASE ~(a >= b)
        BY <2>2
    <2> QED
        BY <2>1, <2>2
<1> QED
    BY <1>1 DEF Max

\* A stage is left for one further on, or by expiry.
LEMMA StagesGoForward ==
    /\ \A stage \in Stages : Forward(stage, stage)
    /\ \A stage \in Unfinished : Forward(stage, "expired") /\ Forward(stage, "filtered_out")
                                 /\ Forward(stage, "described") /\ Forward(stage, "scored")
    /\ Forward("scored", "delivered") /\ Forward("expired", "seen")
BY DEF Forward, Stages, Unfinished, Settled, StageRank

\* What set_stage leaves of a row.
LEMMA StagedRow ==
    ASSUME JobLifeAssumption, NEW r \in Rows, NEW stage \in Stages
    PROVE  LET q == Staged(r, stage)
           IN /\ q \in Rows /\ q.stage = stage /\ q.text = r.text /\ q.verdict = r.verdict
              /\ q.scored = r.scored /\ ~q.aged
              /\ stage \in Unfinished => q.tiered = r.tiered
<1>1. CASE stage \in Unfinished
    BY <1>1 DEF Staged, Rows
<1>2. CASE stage \notin Unfinished
    <2> DEFINE age == IF stage = "expired" THEN r.age ELSE 0
    <2>1. age \in 0..(MaxAge + 1) /\ 0 \in 0..UnreadableAttempts /\ Never \in Never..(RefusalExpiry + 1)
        BY DEF JobLifeAssumption, Rows, Never
    <2>2. Staged(r, stage) = [Unseen EXCEPT !.stage = stage, !.place = r.place, !.text = r.text,
                              !.verdict = r.verdict, !.scored = r.scored, !.age = age]
        BY <1>2 DEF Staged
    <2> HIDE DEF age
    <2> QED
        BY <1>2, <2>1, <2>2, ZenonT(60) DEF Rows, Unseen
<1> QED
    BY <1>1, <1>2

\* Dropping, describing and expiring an unfinished job.
LEMMA LeavingFollows ==
    ASSUME JobLifeAssumption, NEW r, Good(r), r.stage \in Unfinished, r.verdict # "rejected",
           NEW stage \in {"filtered_out", "expired"}
    PROVE  Follows(Staged(r, stage), r)
<1>1. r \in Rows /\ Sound(r) /\ stage \in Stages /\ stage \notin Unfinished
    BY DEF Good, Stages, Settled, Unfinished
<1> DEFINE q == Staged(r, stage)
<1>2. q \in Rows /\ q.stage = stage /\ q.text = r.text /\ q.verdict = r.verdict /\ q.scored = r.scored /\ ~q.aged
    BY <1>1, StagedRow
<1> HIDE DEF q
<1>3. ~r.scored
    BY <1>1 DEF Sound, Unfinished
<1>4. Sound(q)
    BY <1>1, <1>2, <1>3 DEF Sound, Unfinished
<1>5. Forward(r.stage, q.stage)
    BY <1>2, StagesGoForward
<1> QED
    BY <1>1, <1>2, <1>4, <1>5 DEF Follows, Good, Lost, Unfinished, q

\* An unfinished job is never rejected.
LEMMA UnfinishedIsOpen ==
    ASSUME NEW r, Good(r), r.stage \in Unfinished
    PROVE  r.verdict # "rejected" /\ r.verdict \in {None, "confirmed"} /\ ~r.scored /\ ~r.aged
           /\ r.text # "failed" /\ r.stage \notin Lost
BY DEF Good, Sound, Rows, Unfinished, Lost

LEMMA SameFollows ==
    ASSUME NEW r, Good(r)
    PROVE  Follows(r, r)
BY StagesGoForward DEF Follows, Good, Rows

\* Columns that no stage's attention rests on: the delay, the attempts, the ages,
\* a refusal of a text that is not there yet.
LEMMA DelayFollows ==
    ASSUME NEW r, Good(r), r.stage \notin Lost, NEW attempts \in 0..UnreadableAttempts, NEW due \in BOOLEAN
    PROVE  Follows([r EXCEPT !.attempts = attempts, !.due = due], r)
<1> DEFINE q == [r EXCEPT !.attempts = attempts, !.due = due]
<1>1. q \in Rows /\ q.stage = r.stage /\ q.text = r.text /\ q.verdict = r.verdict /\ q.scored = r.scored
      /\ q.aged = r.aged /\ q.tiered = r.tiered
    BY DEF Good, Rows
<1>2. r.stage \in Stages
    BY DEF Good, Rows
<1> HIDE DEF q
<1> QED
    BY <1>1, <1>2, StagesGoForward DEF Follows, Good, Sound, q

LEMMA DeferredFollows ==
    ASSUME JobLifeAssumption, NEW r, Good(r), r.stage \notin Lost
    PROVE  Follows(Deferred(r), r)
<1>1. r.attempts \in 0..UnreadableAttempts /\ UnreadableAttempts \in Nat \ {0} /\ r.attempts + 1 \in Int
    BY DEF Good, Rows, JobLifeAssumption
<1> DEFINE n == r.attempts + 1
           least == Min({n, UnreadableAttempts})
           attempts == IF r.stage = "seen" THEN least ELSE r.attempts
<1>2. attempts \in 0..UnreadableAttempts
    <2>1. n \in Int /\ UnreadableAttempts \in Int
        BY <1>1
    <2>2. least \in {n, UnreadableAttempts} /\ least <= UnreadableAttempts
        <3> HIDE DEF n
        <3> QED
            BY <2>1, LeastOfTwo
    <2> HIDE DEF least
    <2> QED
        BY <1>1, <2>2
<1> HIDE DEF attempts
<1>3. Deferred(r) = [r EXCEPT !.attempts = attempts, !.due = FALSE]
    BY DEF Deferred, attempts
<1> QED
    BY <1>2, <1>3, DelayFollows

\* expire_stale
LEMMA ExpiredFollows ==
    ASSUME JobLifeAssumption, NEW r, Good(r), NEW tooOld \in BOOLEAN
    PROVE  Follows(Expired(r, tooOld), r)
<1>1. CASE Stale(r, tooOld)
    <2>1. r.stage \in Unfinished
        BY <1>1 DEF Stale, Unfinished
    <2> QED
        BY <1>1, <2>1, UnfinishedIsOpen, LeavingFollows DEF Expired
<1>2. CASE ~Stale(r, tooOld) /\ AgedOut(r)
    <2> DEFINE q == [r EXCEPT !.stage = "expired", !.aged = TRUE]
    <2>1. Expired(r, tooOld) = q
        BY <1>2 DEF Expired
    <2>2. r.stage = "seen" /\ r.stage \in Unfinished
        BY <1>2 DEF AgedOut, Waiting, Unfinished
    <2>3. q \in Rows /\ q.stage = "expired" /\ q.text = r.text /\ q.verdict = r.verdict /\ q.scored = r.scored
        BY DEF Good, Rows, Stages
    <2>4. r.verdict # "rejected" /\ ~r.scored /\ r.text # "failed" /\ r.stage \notin Lost
        BY <2>2, UnfinishedIsOpen
    <2> HIDE DEF q
    <2>5. Sound(q)
        BY <2>3, <2>4 DEF Sound
    <2> QED
        BY <2>1, <2>2, <2>3, <2>4, <2>5, StagesGoForward DEF Follows, Good, Lost
<1>3. CASE ~Stale(r, tooOld) /\ ~AgedOut(r)
    BY <1>3, SameFollows DEF Expired
<1> QED
    BY <1>1, <1>2, <1>3

\* A text that is there: the language check makes the job described or drops it.
LEMMA FinishedFollows ==
    ASSUME JobLifeAssumption, NEW r, Good(r), r.stage = "seen", NEW passes \in BOOLEAN,
           NEW p \in Rows, p.text = "ok", p.tiered, p.stage = "seen", p.verdict = r.verdict, p.scored = r.scored
    PROVE  Follows(Finished(p, passes), r)
<1> DEFINE stage == IF passes THEN "described" ELSE "filtered_out"
           q == Staged(p, stage)
<1>1. stage \in Stages /\ stage \in {"described", "filtered_out"} /\ (stage = "described" => stage \in Unfinished)
    BY DEF Stages, Settled, Unfinished
<1>2. Finished(p, passes) = q
    BY DEF Finished
<1> HIDE DEF stage
<1>3. q \in Rows /\ q.stage = stage /\ q.text = "ok" /\ q.verdict = r.verdict /\ q.scored = r.scored /\ ~q.aged
      /\ (stage = "described" => q.tiered)
    BY <1>1, StagedRow
<1>4. r.verdict # "rejected" /\ ~r.scored /\ r.stage \in Unfinished /\ r.stage \notin Lost
    <2>1. r.stage \in Unfinished
        BY DEF Unfinished
    <2> QED
        BY <2>1, UnfinishedIsOpen
<1> HIDE DEF q
<1>5. Sound(q)
    BY <1>1, <1>3, <1>4 DEF Sound
<1>6. Forward(r.stage, q.stage)
    BY <1>1, <1>3, <1>4, StagesGoForward
<1> QED
    BY <1>1, <1>2, <1>3, <1>4, <1>5, <1>6 DEF Follows, Good, Lost

\* The tier and the title of a job that has just been looked at.
LEMMA TieredFollows ==
    ASSUME JobLifeAssumption, NEW r, Good(r), r.stage = "seen", NEW dropped \in BOOLEAN, NEW passes \in BOOLEAN
    PROVE  Follows(Tiered(r, dropped, passes), r) /\ Tiered(r, dropped, passes).stage # "expired"
<1> DEFINE p == [r EXCEPT !.tiered = TRUE]
<1>1. /\ p \in Rows /\ p.tiered /\ p.stage = r.stage /\ p.text = r.text /\ p.verdict = r.verdict
      /\ p.scored = r.scored /\ p.aged = r.aged
    BY DEF Good, Rows
<1>2. r.stage \in Unfinished /\ r.stage \in Stages /\ r.stage \notin Lost
    BY DEF Unfinished, Stages, Lost
<1> HIDE DEF p
<1>3. CASE dropped
    <2>1. Follows(Tiered(r, dropped, passes), r)
        BY <1>2, <1>3, UnfinishedIsOpen, LeavingFollows DEF Tiered
    <2>2. Staged(r, "filtered_out").stage = "filtered_out"
        BY StagedRow DEF Good, Stages, Settled
    <2> QED
        BY <1>3, <2>1, <2>2 DEF Tiered
<1>4. CASE ~dropped /\ r.text = "ok"
    <2>1. Follows(Finished(p, passes), r)
        BY <1>1, <1>4, FinishedFollows
    <2>2. Finished(p, passes).stage # "expired"
        BY <1>1, StagedRow DEF Finished, Stages, Settled, Unfinished
    <2> QED
        BY <1>4, <2>1, <2>2 DEF Tiered, p
<1>5. CASE ~dropped /\ r.text # "ok"
    <2>1. Tiered(r, dropped, passes) = p
        BY <1>5 DEF Tiered, p
    <2>2. Sound(p)
        BY <1>1 DEF Good, Sound
    <2> QED
        BY <1>1, <1>2, <2>1, <2>2, StagesGoForward DEF Follows, Good, Lost
<1> QED
    BY <1>3, <1>4, <1>5

\* A verdict, from a rule or a model, on a job that waits for one.
LEMMA WithVerdictFollows ==
    ASSUME JobLifeAssumption, NEW r, Good(r), r.stage = "described", NEW verdict \in {"confirmed", "rejected"}
    PROVE  Follows(WithVerdict(r, verdict), r) /\ WithVerdict(r, verdict).verdict # None
<1> DEFINE v == [r EXCEPT !.verdict = verdict]
           q == Staged(v, "filtered_out")
<1>1. /\ v \in Rows /\ v.verdict = verdict /\ v.stage = r.stage /\ v.text = r.text
      /\ v.scored = r.scored /\ v.aged = r.aged /\ v.tiered = r.tiered
    BY DEF Good, Rows
<1>2. r.stage \in Unfinished /\ r.stage \in Stages /\ r.stage \notin Lost /\ verdict # None
      /\ "filtered_out" \in Stages
    BY DEF Unfinished, Settled, Stages, Lost, None
<1>3. WithVerdict(r, verdict) = IF verdict = "rejected" THEN q ELSE v
    BY DEF WithVerdict
<1> HIDE DEF v
<1>4. CASE verdict = "rejected"
    <2>1. q \in Rows /\ q.stage = "filtered_out" /\ q.verdict = verdict /\ ~q.aged
        BY <1>1, <1>2, StagedRow
    <2> HIDE DEF q
    <2>2. Sound(q)
        BY <2>1 DEF Sound
    <2> QED
        BY <1>2, <1>3, <1>4, <2>1, <2>2, StagesGoForward DEF Follows, Good, Lost
<1>5. CASE verdict = "confirmed"
    <2>1. Sound(v)
        BY <1>1, <1>5 DEF Good, Sound
    <2> QED
        BY <1>1, <1>2, <1>3, <1>5, <2>1, StagesGoForward DEF Follows, Good
<1> QED
    BY <1>4, <1>5

\* A score, together with the verdict or after it.
LEMMA ScoredFollows ==
    ASSUME JobLifeAssumption, NEW r, Good(r), r.stage = "described", NEW verdict \in {"confirmed", "rejected"}
    PROVE  LET q == [Staged(r, IF verdict = "rejected" THEN "filtered_out" ELSE "scored")
                       EXCEPT !.verdict = verdict, !.scored = TRUE]
           IN Follows(q, r) /\ q.verdict # None
<1> DEFINE stage == IF verdict = "rejected" THEN "filtered_out" ELSE "scored"
           p == Staged(r, stage)
           q == [p EXCEPT !.verdict = verdict, !.scored = TRUE]
<1>1. stage \in Stages /\ r.stage \in Unfinished /\ r.stage \notin Lost /\ verdict # None
    BY DEF Unfinished, Settled, Stages, Lost, None
<1>2. p \in Rows /\ p.stage = stage /\ p.text = r.text /\ ~p.aged
    <2> HIDE DEF stage
    <2> QED
        BY <1>1, StagedRow DEF Good
<1> HIDE DEF p
<1>3. q \in Rows /\ q.stage = stage /\ q.text = r.text /\ ~q.aged /\ q.verdict = verdict /\ q.scored
    BY <1>2 DEF Rows
<1>4. r.text = "ok"
    BY DEF Good, Sound
<1> HIDE DEF q
<1>5. Sound(q)
    BY <1>3, <1>4 DEF Sound
<1> QED
    BY <1>1, <1>3, <1>5, StagesGoForward DEF Follows, Good, Lost, q, p

LEMMA ScoredAfterFollows ==
    ASSUME JobLifeAssumption, NEW r, Good(r), r.stage = "described", r.verdict = "confirmed"
    PROVE  Follows([Staged(r, "scored") EXCEPT !.scored = TRUE], r)
<1> DEFINE p == Staged(r, "scored")
           q == [p EXCEPT !.scored = TRUE]
<1>1. "scored" \in Stages /\ r.stage \in Unfinished /\ r.stage \notin Lost
    BY DEF Unfinished, Settled, Stages, Lost
<1>2. p \in Rows /\ p.stage = "scored" /\ p.text = r.text /\ p.verdict = r.verdict /\ ~p.aged
    BY <1>1, StagedRow DEF Good
<1> HIDE DEF p
<1>3. q \in Rows /\ q.stage = "scored" /\ q.text = r.text /\ ~q.aged /\ q.verdict = r.verdict /\ q.scored
    BY <1>2 DEF Rows
<1>4. r.text = "ok"
    BY DEF Good, Sound
<1> HIDE DEF q
<1>5. Sound(q)
    BY <1>3, <1>4 DEF Sound
<1> QED
    BY <1>1, <1>3, <1>5, StagesGoForward DEF Follows, Good, Lost, q, p

\* The outcomes of a fetched description.
LEMMA RefusedFollows ==
    ASSUME JobLifeAssumption, NEW r, Good(r), r.stage = "seen", r.tiered
    PROVE  Follows(Refused(r), r) /\ Refused(r).stage = "seen"
<1> DEFINE refused == IF r.refused = Never THEN 0 ELSE r.refused
           q == [r EXCEPT !.text = "rate_limited", !.refused = refused]
<1>1. refused \in Never..(RefusalExpiry + 1)
    BY DEF Good, Rows, JobLifeAssumption, Never
<1>2. Refused(r) = q
    BY DEF Refused
<1> HIDE DEF refused
<1>3. /\ q \in Rows /\ q.stage = r.stage /\ q.text = "rate_limited" /\ q.verdict = r.verdict
      /\ q.scored = r.scored /\ q.aged = r.aged
    BY <1>1 DEF Good, Rows
<1> HIDE DEF q
<1>4. Sound(q)
    BY <1>3 DEF Good, Sound
<1> QED
    BY <1>2, <1>3, <1>4, StagesGoForward DEF Follows, Good, Lost, Stages, Unfinished

LEMMA GoneFollows ==
    ASSUME JobLifeAssumption, NEW r, Good(r), r.stage = "seen"
    PROVE  Follows(Gone(r), r)
<1> DEFINE p == Staged(r, "expired")
           q == [p EXCEPT !.text = "failed"]
<1>1. "expired" \in Stages /\ r.stage \in Unfinished /\ r.stage \notin Lost
    BY DEF Unfinished, Settled, Stages, Lost
<1>2. p \in Rows /\ p.stage = "expired" /\ p.verdict = r.verdict /\ p.scored = r.scored /\ ~p.aged
    BY <1>1, StagedRow DEF Good
<1> HIDE DEF p
<1>3. q \in Rows /\ q.stage = "expired" /\ q.verdict = r.verdict /\ q.scored = r.scored /\ ~q.aged
    BY <1>2 DEF Rows
<1>4. r.verdict # "rejected" /\ ~r.scored
    BY <1>1, UnfinishedIsOpen
<1> HIDE DEF q
<1>5. Sound(q)
    BY <1>3, <1>4 DEF Sound
<1> QED
    BY <1>1, <1>3, <1>5, StagesGoForward DEF Follows, Good, Lost, Gone, q, p

\* What follows a row that keeps its stage and its verdict follows the row.
LEMMA FollowsTwice ==
    ASSUME NEW r, NEW q, NEW p, Follows(q, r), q.stage = r.stage, Follows(p, q)
    PROVE  Follows(p, r)
BY DEF Follows

LEMMA DescribedFollows ==
    ASSUME JobLifeAssumption, NEW r, Good(r), r.stage = "seen", r.tiered, NEW passes \in BOOLEAN,
           NEW q \in {Staged(r, "expired"), Described(r, passes), Refused(r), Deferred(Refused(r)),
                      Gone(r), Unreadable(r)}
    PROVE  Follows(q, r)
<1>1. r.stage \in Unfinished /\ r.stage \notin Lost /\ r.verdict # "rejected"
    <2>1. r.stage \in Unfinished
        BY DEF Unfinished
    <2> QED
        BY <2>1, UnfinishedIsOpen
<1>2. Follows(Staged(r, "expired"), r)
    BY <1>1, LeavingFollows
<1>3. Follows(Described(r, passes), r)
    <2> DEFINE p == [r EXCEPT !.text = "ok", !.refused = Never, !.attempts = 0]
    <2>0. Never \in Never..(RefusalExpiry + 1) /\ 0 \in 0..UnreadableAttempts
        BY DEF Never, JobLifeAssumption
    <2>1. /\ p \in Rows /\ p.text = "ok" /\ p.tiered /\ p.stage = "seen"
          /\ p.verdict = r.verdict /\ p.scored = r.scored
        BY <2>0 DEF Good, Rows
    <2> HIDE DEF p
    <2>2. Follows(Finished(p, passes), r)
        BY <2>1, FinishedFollows
    <2> QED
        BY <2>2 DEF Described, p
<1>4. Follows(Refused(r), r) /\ Refused(r).stage = "seen"
    BY RefusedFollows
<1>5. Follows(Deferred(Refused(r)), r)
    <2>1. Good(Refused(r)) /\ Refused(r).stage \notin Lost
        BY <1>4 DEF Follows, Lost
    <2>2. Follows(Deferred(Refused(r)), Refused(r))
        BY <2>1, DeferredFollows
    <2> QED
        BY <1>4, <2>2, FollowsTwice
<1>6. Follows(Gone(r), r)
    BY GoneFollows
<1>7. Follows(Unreadable(r), r)
    <2> DEFINE p == [r EXCEPT !.attempts = UnreadableAttempts]
    <2>1. p = [r EXCEPT !.attempts = UnreadableAttempts, !.due = r.due] /\ p.stage = r.stage
          /\ r.due \in BOOLEAN /\ UnreadableAttempts \in 0..UnreadableAttempts
        <3>1. UnreadableAttempts \in 0..UnreadableAttempts
            BY DEF JobLifeAssumption
        <3>2. p = [r EXCEPT !.attempts = UnreadableAttempts, !.due = r.due] /\ p.stage = r.stage
              /\ r.due \in BOOLEAN
            BY DEF Good, Rows
        <3> QED
            BY <3>1, <3>2
    <2>2. Follows(p, r)
        BY <1>1, <2>1, DelayFollows
    <2> HIDE DEF p
    <2>3. Follows(Gone(p), r)
        BY <2>1, <2>2, GoneFollows, FollowsTwice, ZenonT(60) DEF Follows
    <2>4. Follows(Deferred(r), r)
        BY <1>1, DeferredFollows
    <2> QED
        BY <2>3, <2>4 DEF Unreadable, p
<1> QED
    BY <1>2, <1>3, <1>4, <1>5, <1>6, <1>7

\* A delivery, the undo of an expiry by age, and a day.
LEMMA DeliveredFollows ==
    ASSUME JobLifeAssumption, NEW r, Good(r), r.stage = "scored"
    PROVE  Follows(Staged(r, "delivered"), r)
<1> DEFINE q == Staged(r, "delivered")
<1>1. "delivered" \in Stages /\ r.stage \notin Lost
    BY DEF Settled, Stages, Lost
<1>2. q \in Rows /\ q.stage = "delivered" /\ q.text = r.text /\ q.verdict = r.verdict
      /\ q.scored = r.scored /\ ~q.aged
    BY <1>1, StagedRow DEF Good
<1> HIDE DEF q
<1>3. Sound(q)
    BY <1>2 DEF Good, Sound
<1> QED
    BY <1>1, <1>2, <1>3, StagesGoForward DEF Follows, Good, Lost, q

LEMMA UndoneFollows ==
    ASSUME JobLifeAssumption, NEW r, Good(r), r.aged
    PROVE  Follows(Staged(r, "seen"), r)
<1> DEFINE q == Staged(r, "seen")
<1>1. "seen" \in Stages /\ r.stage = "expired" /\ r.text # "failed" /\ ~r.scored /\ r.verdict # "rejected"
    BY DEF Unfinished, Stages, Good, Sound
<1>2. q \in Rows /\ q.stage = "seen" /\ q.text = r.text /\ q.verdict = r.verdict
      /\ q.scored = r.scored /\ ~q.aged
    BY <1>1, StagedRow DEF Good
<1> HIDE DEF q
<1>3. Sound(q)
    BY <1>1, <1>2 DEF Sound
<1> QED
    BY <1>1, <1>2, <1>3, StagesGoForward DEF Follows, Good, Lost, q

LEMMA OlderStays ==
    ASSUME NEW limit \in Nat, NEW n \in Never..(limit + 1)
    PROVE  Older(n, limit) \in Never..(limit + 1) /\ (n \in 0..(limit + 1) => Older(n, limit) \in 0..(limit + 1))
<1> DEFINE a == n + 1
           b == limit + 1
           m == Min({a, b})
<1>1. a \in Int /\ b \in Int /\ (n # Never => a >= 0) /\ b >= 0
    BY DEF Never
<1>2. m \in {a, b} /\ m <= b
    <2> HIDE DEF a, b
    <2> QED
        BY <1>1, LeastOfTwo
<1> HIDE DEF m
<1>3. Older(n, limit) = IF n = Never THEN Never ELSE m
    BY DEF Older, m
<1> QED
    BY <1>1, <1>2, <1>3 DEF Never

LEMMA AgedFollows ==
    ASSUME JobLifeAssumption, NEW r, Good(r)
    PROVE  Follows(Aged(r), r)
<1> DEFINE age == Older(r.age, MaxAge)
           refused == IF r.stage \in Unfinished \/ r.aged THEN Older(r.refused, RefusalExpiry) ELSE r.refused
           q == [r EXCEPT !.age = age, !.refused = refused]
<1>1. age \in 0..(MaxAge + 1)
    <2>1. MaxAge \in Nat /\ r.age \in 0..(MaxAge + 1) /\ r.age \in Never..(MaxAge + 1)
        BY DEF Good, Rows, JobLifeAssumption, Never
    <2> QED
        BY <2>1, OlderStays
<1>2. refused \in Never..(RefusalExpiry + 1)
    <2>1. RefusalExpiry \in Nat /\ r.refused \in Never..(RefusalExpiry + 1)
        BY DEF Good, Rows, JobLifeAssumption
    <2> QED
        BY <2>1, OlderStays
<1>3. Aged(r) = r \/ Aged(r) = q
    BY DEF Aged
<1> HIDE DEF age, refused
<1>4. q \in Rows /\ q.stage = r.stage /\ q.text = r.text /\ q.verdict = r.verdict /\ q.scored = r.scored
      /\ q.aged = r.aged /\ q.tiered = r.tiered /\ r.stage \in Stages
    BY <1>1, <1>2 DEF Good, Rows
<1>5. r.stage \in Lost => Aged(r) = r
    BY DEF Aged, Lost
<1> HIDE DEF q
<1>6. r.stage \notin Lost => Follows(q, r)
    BY <1>4, StagesGoForward DEF Follows, Good, Sound
<1> QED
    BY <1>3, <1>5, <1>6, SameFollows

-----------------------------------------------------------------------------
(* Steps.                                                                   *)

StepNames == {Steps[i] : i \in 1..Len(Steps)}

LEMMA TypeFacts ==
    ASSUME IInv
    PROVE  /\ row \in [Cards -> Rows] /\ owner \in [Cards -> Cards] /\ bought \subseteq Cards
           /\ \A j \in Cards : Good(row[j]) /\ row[j].stage \in Stages
BY DEF IInv, TypeOK, Good, Rows

\* A step that writes rows and merges none of them.
LEMMA RowsMove ==
    ASSUME JobLifeAssumption, IInv, owner' = owner, at' \in StepNames,
           row' = [j \in Cards |-> row'[j]],
           \A j \in Cards : Follows(row'[j], row[j]),
           bought' \subseteq Cards,
           \A s \in bought' \ bought : row'[owner[s]].verdict # None
    PROVE  IInv' /\ Progress
<1>1. /\ row \in [Cards -> Rows] /\ owner \in [Cards -> Cards] /\ bought \subseteq Cards
      /\ \A j \in Cards : Good(row[j]) /\ row[j].stage \in Stages
    BY TypeFacts
<1>2. \A j \in Cards : Good(row'[j])
    BY DEF Follows
<1>3. TypeOK' /\ \A j \in Cards : Sound(row'[j])
    BY <1>1, <1>2 DEF TypeOK, Good, StepNames
<1>4. OwnersHold'
    BY <1>1 DEF IInv, OwnersHold, Follows, Lost
<1>5. PaidIsKept'
    BY <1>1 DEF IInv, PaidIsKept, Follows
<1>6. SightingsAreHeld'
    BY <1>1 DEF IInv, SightingsAreHeld, Alive, Follows, Lost
<1>7. Progress
    BY <1>1 DEF Progress, Follows, Forward
<1> QED
    BY <1>3, <1>4, <1>5, <1>6, <1>7 DEF IInv

\* One row written.
LEMMA RowMoves ==
    ASSUME JobLifeAssumption, IInv, NEW j \in Cards, NEW q, Follows(q, row[j]),
           row' = [row EXCEPT ![j] = q], UNCHANGED <<owner, at, bought>>
    PROVE  IInv' /\ Progress
<1>1. row \in [Cards -> Rows] /\ \A k \in Cards : Good(row[k])
    BY TypeFacts
<1>2. \A k \in Cards : row'[k] = (IF k = j THEN q ELSE row[k])
    BY <1>1
<1>3. \A k \in Cards : Follows(row'[k], row[k])
    BY <1>1, <1>2, SameFollows
<1>4. row' = [k \in Cards |-> row'[k]] /\ at' \in StepNames /\ bought' \subseteq Cards
    BY <1>1 DEF IInv, TypeOK, StepNames
<1> QED
    BY <1>3, <1>4, RowsMove

\* record_sighting makes a job of its own, which no earlier sighting points to.
LEMMA SightKeeps ==
    ASSUME JobLifeAssumption, IInv, NEW s \in Cards, NEW place \in Places, NEW text \in {"pending", "ok"},
           Sight(s, place, text)
    PROVE  IInv' /\ Progress
<1> DEFINE new == NewRow(place, text)
<1>1. /\ row \in [Cards -> Rows] /\ owner \in [Cards -> Cards] /\ bought \subseteq Cards
      /\ \A j \in Cards : Good(row[j]) /\ row[j].stage \in Stages
    BY TypeFacts
<1>2. new \in Rows /\ new.stage = "seen" /\ Sound(new)
    <2>1. Never \in Never..(RefusalExpiry + 1) /\ 0 \in 0..UnreadableAttempts /\ 0 \in 0..(MaxAge + 1)
        BY DEF JobLifeAssumption, Never
    <2>2. Unseen \in Rows /\ ~Unseen.scored /\ ~Unseen.aged /\ Unseen.verdict = None
        BY <2>1 DEF Rows, Unseen, Stages, Places, None
    <2>3. new \in Rows /\ new.stage = "seen" /\ new.text = text /\ ~new.scored /\ ~new.aged /\ new.verdict = None
        BY <2>2 DEF NewRow, Rows, Stages, Unfinished
    <2> QED
        BY <2>3 DEF Sound, None
<1> HIDE DEF new
<1>3. row[s].stage = "unseen" /\ row' = [row EXCEPT ![s] = new] /\ owner' = [owner EXCEPT ![s] = s]
      /\ UNCHANGED <<at, bought>>
    BY DEF Sight, new
<1>4. \A j \in Cards : row'[j] = (IF j = s THEN new ELSE row[j]) /\ owner'[j] = IF j = s THEN s ELSE owner[j]
    BY <1>1, <1>3
<1>5. \A t \in Cards : row[t].stage # "unseen" => owner[t] # s /\ t # s
    BY <1>3 DEF IInv, SightingsAreHeld, Alive
<1>6. row[s].verdict = None /\ owner[s] = s
    BY <1>1, <1>3 DEF Good, Sound, IInv, OwnersHold
<1>7. TypeOK'
    BY <1>1, <1>2, <1>3 DEF IInv, TypeOK
<1>8. (\A j \in Cards : Sound(row'[j])) /\ OwnersHold'
    BY <1>2, <1>4 DEF IInv, OwnersHold
<1>9. PaidIsKept'
    BY <1>1, <1>3, <1>4, <1>6 DEF IInv, PaidIsKept
<1>10. SightingsAreHeld'
    BY <1>1, <1>2, <1>4, <1>5 DEF IInv, SightingsAreHeld, Alive
<1>11. Progress
    BY <1>1, <1>4, <1>5, StagesGoForward DEF Progress, Forward
<1> QED
    BY <1>7, <1>8, <1>9, <1>10, <1>11 DEF IInv

\* The survivor of a merge with what it takes over is a row that follows it, and
\* it keeps a verdict that either of the two had.
LEMMA FoldedFollows ==
    ASSUME JobLifeAssumption, NEW keep, NEW drop, Good(keep), Good(drop),
           keep.stage \notin Lost \cup {"expired"}, drop.stage \notin Lost,
           StageRank(keep.stage) >= StageRank(drop.stage)
    PROVE  LET one == Folded(keep, drop)
           IN /\ Follows(one, keep) /\ one.stage = keep.stage
              /\ drop.verdict # None => one.verdict # None
<1> DEFINE a == Adopted(keep, drop)
           c == Carried(a, drop)
           age == Max({c.age, drop.age})
           one == [c EXCEPT !.age = age]
<1>1. /\ a \in Rows /\ a.stage = keep.stage /\ a.text \in {keep.text, "ok"} /\ a.verdict = keep.verdict
      /\ a.scored = keep.scored /\ a.aged = keep.aged /\ a.tiered = keep.tiered
    <2>1. Never \in Never..(RefusalExpiry + 1)
        BY DEF JobLifeAssumption, Never
    <2>2. CASE keep.text = "ok" \/ drop.text # "ok"
        BY <2>2 DEF Adopted, Good
    <2>3. CASE ~(keep.text = "ok" \/ drop.text # "ok")
        <3>1. a = [keep EXCEPT !.text = "ok", !.refused = Never]
            BY <2>3 DEF Adopted
        <3> QED
            BY <2>1, <3>1 DEF Good, Rows
    <2> QED
        BY <2>2, <2>3
<1> HIDE DEF a
<1>2. /\ c \in Rows /\ c.stage = a.stage /\ c.text = a.text /\ c.aged = a.aged /\ c.tiered = a.tiered
      /\ c.verdict = (IF a.verdict = None THEN drop.verdict ELSE a.verdict)
      /\ c.scored = (a.scored \/ drop.scored)
    BY <1>1, ZenonT(60) DEF Carried, Good, Rows
<1> HIDE DEF c
<1>3. age \in 0..(MaxAge + 1)
    <2>1. c.age \in 0..(MaxAge + 1) /\ drop.age \in 0..(MaxAge + 1) /\ c.age \in Int /\ drop.age \in Int
        BY <1>2 DEF Good, Rows
    <2>2. age \in {c.age, drop.age}
        BY <2>1, GreatestOfTwo
    <2> QED
        BY <2>1, <2>2
<1>4. Folded(keep, drop) = one
    BY DEF Folded, c, a
<1> HIDE DEF age
<1>5. /\ one \in Rows /\ one.stage = keep.stage /\ one.text \in {keep.text, "ok"} /\ one.aged = keep.aged
      /\ one.verdict = (IF keep.verdict = None THEN drop.verdict ELSE keep.verdict)
      /\ one.scored = (keep.scored \/ drop.scored) /\ one.tiered = keep.tiered
    <2>1. /\ one \in Rows /\ one.stage = c.stage /\ one.text = c.text /\ one.aged = c.aged
          /\ one.verdict = c.verdict /\ one.scored = c.scored /\ one.tiered = c.tiered
        BY <1>2, <1>3 DEF Rows
    <2> HIDE DEF one
    <2> QED
        BY <1>1, <1>2, <2>1
<1> HIDE DEF one
<1>6. /\ keep.stage \in {"seen", "described", "filtered_out", "scored", "delivered"}
      /\ keep.stage \in {"seen", "described"} => drop.stage \in {"seen", "described", "expired"}
      /\ drop.stage = "filtered_out" => keep.stage \in {"filtered_out", "scored", "delivered"}
    BY DEF Good, Rows, Stages, Unfinished, Settled, Lost, StageRank
<1>7. Sound(one)
    <2>1. keep.stage \in {"seen", "described"} => ~one.scored
        <3>1. keep.stage \in {"seen", "described"} => ~keep.scored /\ ~drop.scored
            BY <1>6 DEF Good, Sound
        <3> QED
            BY <1>5, <3>1
    <2>2. one.verdict = "rejected" => one.stage = "filtered_out"
        <3>1. keep.verdict = None /\ drop.verdict = "rejected" => keep.stage = "filtered_out"
            BY <1>6 DEF Good, Sound, None
        <3>2. keep.verdict = "rejected" => keep.stage = "filtered_out"
            BY DEF Good, Sound
        <3> QED
            BY <1>5, <3>1, <3>2
    <2>3. ~one.aged
        BY <1>5, <1>6 DEF Good, Sound
    <2>4. keep.stage \in {"scored", "delivered"} => one.text = "ok" /\ one.verdict = "confirmed" /\ one.scored
        BY <1>5 DEF Good, Sound, None
    <2>5. (one.stage = "seen" => one.text # "failed") /\ (one.stage = "described" => one.tiered /\ one.text = "ok")
        BY <1>5 DEF Good, Sound
    <2> QED
        BY <1>5, <1>6, <2>1, <2>2, <2>3, <2>4, <2>5 DEF Sound
<1>8. Follows(one, keep)
    <2>1. keep.stage \in Stages /\ keep.stage \notin Lost
        BY DEF Good, Rows
    <2> QED
        BY <1>5, <1>7, <2>1, StagesGoForward DEF Follows, Good, Lost
<1> QED
    BY <1>4, <1>5, <1>8

\* merge_jobs moves every sighting of the dropped job to the survivor.
LEMMA MergeMoves ==
    ASSUME JobLifeAssumption, IInv, NEW keep \in Cards, NEW drop \in Cards, keep # drop,
           Alive(keep), Alive(drop), StageRank(row[keep].stage) >= StageRank(row[drop].stage),
           NEW q, Follows(q, row[keep]), q.stage # "expired", row[drop].verdict # None => q.verdict # None,
           row' = [row EXCEPT ![drop] = Staged(Unseen, "merged"), ![keep] = q],
           owner' = Moved(keep, drop), UNCHANGED <<at, bought>>
    PROVE  IInv' /\ Progress
<1> DEFINE gone == Staged(Unseen, "merged")
<1>1. /\ row \in [Cards -> Rows] /\ owner \in [Cards -> Cards] /\ bought \subseteq Cards
      /\ \A j \in Cards : Good(row[j]) /\ row[j].stage \in Stages
    BY TypeFacts
<1>2. gone \in Rows /\ gone.stage = "merged" /\ Sound(gone)
    <2>1. Never \in Never..(RefusalExpiry + 1) /\ 0 \in 0..UnreadableAttempts /\ 0 \in 0..(MaxAge + 1)
        BY DEF JobLifeAssumption, Never
    <2>2. Unseen \in Rows /\ ~Unseen.scored /\ Unseen.verdict = None
        BY <2>1 DEF Rows, Unseen, Stages, Places, None
    <2>3. gone \in Rows /\ gone.stage = "merged" /\ ~gone.scored /\ ~gone.aged /\ gone.verdict = None
        BY <2>2, StagedRow DEF Stages
    <2> HIDE DEF gone
    <2> QED
        BY <2>3 DEF Sound, None
<1> HIDE DEF gone
<1>3. \A j \in Cards : /\ row'[j] = (IF j = keep THEN q ELSE IF j = drop THEN gone ELSE row[j])
                       /\ owner'[j] = IF owner[j] = drop THEN keep ELSE owner[j]
    BY <1>1 DEF Moved, gone
<1>4. q \in Rows /\ Sound(q) /\ q.stage \notin Lost /\ row[keep].stage \notin Lost /\ row[drop].stage \notin Lost
    BY DEF Follows, Good, Alive, Lost
<1>5. \A s \in Cards : row[s].stage = "unseen" => s # keep /\ s # drop /\ owner[s] = s
    BY <1>4 DEF IInv, OwnersHold, Lost
<1>6. TypeOK'
    <2>1. row' = [row EXCEPT ![drop] = gone, ![keep] = q] /\ owner' \in [Cards -> Cards]
        BY <1>1 DEF gone, Moved
    <2> QED
        BY <1>1, <1>2, <1>4, <2>1 DEF IInv, TypeOK
<1>7. \A j \in Cards : Sound(row'[j])
    BY <1>1, <1>2, <1>3, <1>4 DEF Good
<1>8. \A s \in Cards : row'[s].stage = "unseen" => row[s].stage = "unseen"
    BY <1>2, <1>3, <1>4 DEF Lost
<1>9. OwnersHold'
    BY <1>3, <1>5, <1>8 DEF OwnersHold
<1>10. PaidIsKept'
    BY <1>1, <1>3 DEF IInv, PaidIsKept, Follows
<1>11. SightingsAreHeld'
    <2>1. SUFFICES ASSUME NEW s \in Cards, row'[s].stage # "unseen" PROVE row'[owner'[s]].stage \notin Lost
        BY DEF SightingsAreHeld, Alive, Lost
    <2>2. row[s].stage # "unseen"
        BY <1>2, <1>3, <1>4, <2>1 DEF Lost
    <2>3. row[owner[s]].stage \notin Lost /\ owner[s] \in Cards
        BY <1>1, <2>2 DEF IInv, SightingsAreHeld, Alive, Lost
    <2> QED
        BY <1>3, <1>4, <2>3, ZenonT(60)
<1>12. Progress
    <2>1. SUFFICES ASSUME NEW s \in Cards, row[s].stage # "unseen"
                   PROVE  Forward(row[owner[s]].stage, row'[owner'[s]].stage)
        BY DEF Progress, Forward
    <2>2. StageRank(q.stage) >= StageRank(row[keep].stage)
        BY DEF Follows, Forward
    <2>3. CASE owner[s] = drop
        <3>1. \A stage \in Stages : StageRank(stage) \in Nat
            BY DEF Stages, Unfinished, Settled, StageRank
        <3>2. q.stage \in Stages
            BY <1>4 DEF Rows
        <3>3. StageRank(q.stage) >= StageRank(row[drop].stage)
            BY <1>1, <2>2, <3>1, <3>2
        <3> QED
            BY <1>1, <1>3, <2>3, <3>3 DEF Forward
    <2>4. CASE owner[s] = keep
        BY <1>1, <1>3, <2>4 DEF Follows
    <2>5. CASE owner[s] \notin {keep, drop}
        BY <1>1, <1>3, <2>5, StagesGoForward
    <2> QED
        BY <2>3, <2>4, <2>5
<1> QED
    BY <1>6, <1>7, <1>9, <1>10, <1>11, <1>12 DEF IInv

\* check_one
LEMMA CheckOneKeeps ==
    ASSUME JobLifeAssumption, IInv, NEW j \in Cards, NEW near \in SUBSET Cards, NEW seenBefore \in BOOLEAN,
           NEW dropped \in BOOLEAN,
           NEW passes \in BOOLEAN, CheckOne(j, near, seenBefore, dropped, passes)
    PROVE  IInv' /\ Progress
<1> DEFINE twin == Twin(j, near)
<1>1. Good(row[j]) /\ row[j].stage = "seen" /\ row[j].stage \in Unfinished /\ UNCHANGED <<at, bought>>
    BY TypeFacts DEF CheckOne, NeedsCheck, Unfinished
<1>2. CASE seenBefore /\ row' = [row EXCEPT ![j] = Staged(@, "filtered_out")] /\ UNCHANGED owner
    <2>1. Follows(Staged(row[j], "filtered_out"), row[j])
        BY <1>1, UnfinishedIsOpen, LeavingFollows
    <2>2. row' = [row EXCEPT ![j] = Staged(row[j], "filtered_out")]
        BY <1>2
    <2> QED
        BY <1>1, <1>2, <2>1, <2>2, RowMoves
<1>3. CASE ~seenBefore /\ row' = [row EXCEPT ![j] = Tiered(@, dropped, passes)] /\ UNCHANGED owner
    <2>1. Follows(Tiered(row[j], dropped, passes), row[j])
        BY <1>1, TieredFollows
    <2>2. row' = [row EXCEPT ![j] = Tiered(row[j], dropped, passes)]
        BY <1>3
    <2> QED
        BY <1>1, <1>3, <2>1, <2>2, RowMoves
<1>4. ASSUME twin # j,
             NEW keep \in Survivors(j, twin), NEW drop, drop = (IF keep = j THEN twin ELSE j),
             NEW one, one = Folded(row[keep], row[drop]),
             row' = [row EXCEPT ![drop] = Staged(Unseen, "merged"),
                                ![keep] = IF keep = j THEN Tiered(one, dropped, passes) ELSE one],
             owner' = Moved(keep, drop)
      PROVE  IInv' /\ Progress
    <2>1. SamePosting(j, twin) /\ twin \in Cards
        <3>1. Candidates(j, near) # {}
            <4>1. Cardinality(Candidates(j, near)) = 1
                BY <1>4 DEF Twin
            <4>2. Cardinality({}) = 0
                BY FS_EmptySet
            <4> QED
                BY <4>1, <4>2
        <3>2. twin \in Candidates(j, near)
            BY <1>4, <3>1 DEF Twin
        <3> QED
            BY <3>2 DEF Candidates
    <2> HIDE DEF twin
    <2>2. keep \in {j, twin} /\ drop \in {j, twin} /\ keep # drop /\ Alive(keep) /\ Alive(drop)
          /\ keep \in Cards /\ drop \in Cards
        BY <1>4, <2>1 DEF Survivors, SamePosting
    <2>3. Outranks(keep, drop)
        BY <1>4, <2>1 DEF Survivors
    <2>4. Good(row[keep]) /\ Good(row[drop]) /\ row[keep].stage \in Stages /\ row[drop].stage \in Stages
        BY <2>2, TypeFacts
    <2>5. \A stage \in Stages : StageRank(stage) \in Nat
        BY DEF Stages, Unfinished, Settled, StageRank
    <2>6. StageRank(row[keep].stage) >= StageRank(row[drop].stage)
        <3>1. StageRank(row[keep].stage) > StageRank(row[drop].stage) \/ row[keep].stage = row[drop].stage
            BY <2>3 DEF Outranks
        <3> QED
            BY <2>4, <2>5, <3>1
    <2>7. row[keep].stage \notin Lost \cup {"expired"} /\ row[drop].stage \notin Lost
        <3>1. row[keep].stage \notin Lost /\ row[drop].stage \notin Lost
            BY <2>2 DEF Alive, Lost
        <3>2. row[keep].stage # "expired"
            BY <1>1, <2>2, <2>6 DEF StageRank
        <3> QED
            BY <3>1, <3>2
    <2>8. /\ Follows(one, row[keep]) /\ one.stage = row[keep].stage
          /\ row[drop].verdict # None => one.verdict # None
        BY <1>4, <2>4, <2>6, <2>7, FoldedFollows
    <2> DEFINE q == IF keep = j THEN Tiered(one, dropped, passes) ELSE one
    <2>9. Follows(q, row[keep]) /\ q.stage # "expired" /\ (row[drop].verdict # None => q.verdict # None)
        <3>1. CASE keep = j
            <4>1. Good(one) /\ one.stage = "seen"
                BY <1>1, <2>8, <3>1 DEF Follows
            <4>2. Follows(Tiered(one, dropped, passes), one) /\ Tiered(one, dropped, passes).stage # "expired"
                BY <4>1, TieredFollows
            <4>3. Follows(Tiered(one, dropped, passes), row[keep])
                BY <2>8, <4>2, FollowsTwice
            <4> QED
                BY <2>8, <3>1, <4>2, <4>3 DEF Follows
        <3>2. CASE keep # j
            BY <2>7, <2>8, <3>2
        <3> QED
            BY <3>1, <3>2
    <2>10. row' = [row EXCEPT ![drop] = Staged(Unseen, "merged"), ![keep] = q] /\ owner' = Moved(keep, drop)
        BY <1>4
    <2> HIDE DEF q
    <2> QED
        BY <1>1, <2>2, <2>6, <2>9, <2>10, MergeMoves
<1>5. \/ seenBefore /\ row' = [row EXCEPT ![j] = Staged(@, "filtered_out")] /\ UNCHANGED owner
      \/ ~seenBefore /\ row' = [row EXCEPT ![j] = Tiered(@, dropped, passes)] /\ UNCHANGED owner
      \/ /\ twin # j
         /\ \E keep \in Survivors(j, twin) : LET drop == IF keep = j THEN twin ELSE j
                                                 one == Folded(row[keep], row[drop]) IN
                /\ row' = [row EXCEPT ![drop] = Staged(Unseen, "merged"),
                                      ![keep] = IF keep = j THEN Tiered(one, dropped, passes) ELSE one]
                /\ owner' = Moved(keep, drop)
    <2> HIDE DEF Staged, Tiered, Folded, Moved, Survivors
    <2> QED
        BY DEF CheckOne
<1> HIDE DEF twin
<1> QED
    BY <1>2, <1>3, <1>4, <1>5

\* The stages of a tick follow each other.
LEMMA AfterIsAStep ==
    ASSUME NEW step \in StepNames
    PROVE  After(step) \in StepNames
<1>1. Len(Steps) = 6 /\ \A i \in 1..6 : Steps[(i % 6) + 1] \in StepNames
    <2>1. Len(Steps) = 6
        BY DEF Steps
    <2>2. \A i \in 1..6 : (i % 6) + 1 \in 1..6
        OBVIOUS
    <2> QED
        BY <2>1, <2>2 DEF StepNames
<1>2. \E i \in 1..Len(Steps) : Steps[i] = step
    BY DEF StepNames
<1> DEFINE n == CHOOSE i \in 1..Len(Steps) : Steps[i] = step
<1>3. n \in 1..6
    BY <1>1, <1>2
<1> HIDE DEF n
<1>4. NextStep[n] = Steps[(n % 6) + 1]
    BY <1>1, <1>3 DEF NextStep
<1> QED
    BY <1>1, <1>3, <1>4 DEF After, n

LEMMA NamesAreSteps == {"expire", "cheap", "rules", "check", "score", "describe"} \subseteq StepNames
<1>1. /\ Len(Steps) = 6 /\ Steps[1] = "expire" /\ Steps[2] = "cheap" /\ Steps[3] = "rules"
      /\ Steps[4] = "check" /\ Steps[5] = "score" /\ Steps[6] = "describe"
    BY DEF Steps
<1>2. 1 \in 1..6 /\ 2 \in 1..6 /\ 3 \in 1..6 /\ 4 \in 1..6 /\ 5 \in 1..6 /\ 6 \in 1..6
    OBVIOUS
<1>3. \A i \in 1..6 : Steps[i] \in StepNames
    BY <1>1 DEF StepNames
<1> QED
    BY <1>1, <1>2, <1>3

\* The steps that only move the processor on.
LEMMA TickMoves ==
    ASSUME JobLifeAssumption, IInv, at' \in StepNames, UNCHANGED <<row, owner, bought>>
    PROVE  IInv' /\ Progress
<1>1. row \in [Cards -> Rows] /\ bought \subseteq Cards /\ \A k \in Cards : Good(row[k])
    BY TypeFacts
<1>2. \A k \in Cards : Follows(row'[k], row[k])
    BY <1>1, SameFollows
<1>3. row' = [k \in Cards |-> row'[k]]
    BY <1>1
<1> QED
    BY <1>1, <1>2, <1>3, RowsMove

LEMMA ExpireKeeps ==
    ASSUME JobLifeAssumption, IInv, Expire
    PROVE  IInv' /\ Progress
<1>1. PICK old \in SUBSET {j \in Cards : row[j].stage \in Unfinished} : ExpireStale(old)
    BY DEF Expire
<1>2. row' = [j \in Cards |-> Expired(row[j], j \in old)] /\ at' = "cheap" /\ UNCHANGED <<owner, bought>>
    BY <1>1 DEF ExpireStale
<1>3. \A j \in Cards : Good(row[j])
    BY TypeFacts
<1>4. ASSUME NEW j \in Cards PROVE Follows(row'[j], row[j])
    <2>1. row'[j] = Expired(row[j], j \in old)
        BY <1>2
    <2>2. (j \in old) \in BOOLEAN
        OBVIOUS
    <2> QED
        BY <1>3, <2>1, <2>2, ExpiredFollows
<1>5. row' = [j \in Cards |-> row'[j]] /\ at' \in StepNames /\ bought' \subseteq Cards
    BY <1>2, NamesAreSteps, TypeFacts
<1> QED
    BY <1>2, <1>4, <1>5, RowsMove

LEMMA RuleKeeps ==
    ASSUME JobLifeAssumption, IInv, Rule
    PROVE  IInv' /\ Progress
<1>1. PICK ruled \in [{j \in Cards : ToVerify(j)} -> Answers] :
            Rules([j \in Cards |-> IF ToVerify(j) THEN ruled[j] ELSE None])
    BY DEF Rule
<1> DEFINE all == [j \in Cards |-> IF ToVerify(j) THEN ruled[j] ELSE None]
<1>2. /\ row' = [j \in Cards |-> IF ToVerify(j) /\ all[j] # None THEN WithVerdict(row[j], all[j]) ELSE row[j]]
      /\ at' = "check" /\ UNCHANGED <<owner, bought>>
    BY <1>1 DEF Rules
<1>3. \A j \in Cards : Good(row[j])
    BY TypeFacts
<1>4. ASSUME NEW j \in Cards PROVE Follows(row'[j], row[j])
    <2>1. CASE ToVerify(j) /\ all[j] # None
        <3>1. row'[j] = WithVerdict(row[j], all[j])
            BY <1>2, <2>1
        <3>2. row[j].stage = "described" /\ all[j] \in {"confirmed", "rejected"}
            BY <2>1 DEF ToVerify, DueNow, Answers
        <3> QED
            BY <1>3, <3>1, <3>2, WithVerdictFollows
    <2>2. CASE ~(ToVerify(j) /\ all[j] # None)
        <3>1. row'[j] = row[j]
            BY <1>2, <2>2
        <3> QED
            BY <1>3, <3>1, SameFollows
    <2> QED
        BY <2>1, <2>2
<1>5. row' = [j \in Cards |-> row'[j]] /\ at' \in StepNames /\ bought' \subseteq Cards
    BY <1>2, NamesAreSteps, TypeFacts
<1> HIDE DEF all
<1> QED
    BY <1>2, <1>4, <1>5, RowsMove

\* A batch of verdicts, alone or with the scores: what was paid for is in the row.
LEMMA BatchMoves ==
    ASSUME JobLifeAssumption, IInv, NEW batch \in SUBSET {j \in Cards : ToVerify(j)},
           NEW answer \in [Cards -> Answers],
           RemoteBatch(batch, answer) \/ CombinedBatch(batch, answer)
    PROVE  IInv' /\ Progress
<1>1. /\ bought' = bought \cup {s \in Cards : owner[s] \in batch /\ answer[owner[s]] # None}
      /\ UNCHANGED <<owner, at>> /\ row' = [j \in Cards |-> row'[j]]
      /\ \A j \in Cards :
           \/ j \notin batch /\ row'[j] = row[j]
           \/ j \in batch /\ answer[j] = None /\ row'[j] = Deferred(row[j])
           \/ j \in batch /\ answer[j] # None /\ row'[j] = WithVerdict(row[j], answer[j])
           \/ j \in batch /\ answer[j] # None
              /\ row'[j] = [Staged(row[j], IF answer[j] = "rejected" THEN "filtered_out" ELSE "scored")
                              EXCEPT !.verdict = answer[j], !.scored = TRUE]
    BY DEF RemoteBatch, CombinedBatch
<1>2. owner \in [Cards -> Cards] /\ bought \subseteq Cards /\ \A j \in Cards : Good(row[j])
    BY TypeFacts
<1>3. ASSUME NEW j \in Cards
      PROVE  Follows(row'[j], row[j]) /\ (j \in batch /\ answer[j] # None => row'[j].verdict # None)
    <2>1. CASE j \notin batch
        BY <1>1, <1>2, <2>1, SameFollows
    <2>2. CASE j \in batch /\ answer[j] = None
        <3>1. row[j].stage = "described" /\ row[j].stage \notin Lost
            BY <2>2 DEF ToVerify, DueNow, Lost
        <3>2. row'[j] = Deferred(row[j])
            BY <1>1, <2>2
        <3> QED
            BY <1>2, <2>2, <3>1, <3>2, DeferredFollows
    <2>3. CASE j \in batch /\ answer[j] # None
        <3>1. row[j].stage = "described" /\ answer[j] \in {"confirmed", "rejected"}
            BY <2>3 DEF ToVerify, DueNow, Answers
        <3>2. CASE row'[j] = WithVerdict(row[j], answer[j])
            BY <1>2, <3>1, <3>2, WithVerdictFollows
        <3>3. CASE row'[j] = [Staged(row[j], IF answer[j] = "rejected" THEN "filtered_out" ELSE "scored")
                                EXCEPT !.verdict = answer[j], !.scored = TRUE]
            <4> DEFINE q == [Staged(row[j], IF answer[j] = "rejected" THEN "filtered_out" ELSE "scored")
                               EXCEPT !.verdict = answer[j], !.scored = TRUE]
            <4>1. Follows(q, row[j]) /\ q.verdict # None
                BY <1>2, <3>1, ScoredFollows
            <4>2. row'[j] = q
                BY <3>3
            <4> HIDE DEF q
            <4> QED
                BY <4>1, <4>2
        <3> QED
            BY <1>1, <2>3, <3>2, <3>3
    <2> QED
        BY <2>1, <2>2, <2>3
<1>4. bought' \subseteq Cards /\ (\A s \in bought' \ bought : row'[owner[s]].verdict # None) /\ at' \in StepNames
    BY <1>1, <1>2, <1>3 DEF IInv, TypeOK, StepNames
<1>5. \A j \in Cards : Follows(row'[j], row[j])
    BY <1>3
<1> QED
    BY <1>1, <1>4, <1>5, RowsMove

LEMMA CheckKeeps ==
    ASSUME JobLifeAssumption, IInv, Check \/ CheckMerged
    PROVE  IInv' /\ Progress
<1>1. PICK b \in Batches({j \in Cards : ToVerify(j)}) : \E a \in [b -> Answers] :
          \/ RemoteBatch(b, [j \in Cards |-> IF j \in b THEN a[j] ELSE None])
          \/ CombinedBatch(b, [j \in Cards |-> IF j \in b THEN a[j] ELSE None])
    BY DEF Check, CheckMerged
<1> PICK a \in [b -> Answers] :
          \/ RemoteBatch(b, [j \in Cards |-> IF j \in b THEN a[j] ELSE None])
          \/ CombinedBatch(b, [j \in Cards |-> IF j \in b THEN a[j] ELSE None])
    BY <1>1
<1>2. b \in SUBSET {j \in Cards : ToVerify(j)}
    BY DEF Batches
<1>3. [j \in Cards |-> IF j \in b THEN a[j] ELSE None] \in [Cards -> Answers]
    BY DEF Answers
<1> QED
    BY <1>1, <1>2, <1>3, BatchMoves

LEMMA ScoreKeeps ==
    ASSUME JobLifeAssumption, IInv, Score
    PROVE  IInv' /\ Progress
<1>1. PICK batch \in Batches({j \in Cards : ToScore(j)}) : \E reached \in SUBSET batch : ScoringBatch(batch, reached)
    BY DEF Score
<1>2. PICK reached \in SUBSET batch : ScoringBatch(batch, reached)
    BY <1>1
<1>3. batch \subseteq {j \in Cards : ToScore(j)}
    BY DEF Batches
<1>4. /\ row' = [j \in Cards |-> IF j \notin batch THEN row[j]
                                 ELSE IF j \notin reached THEN Deferred(row[j])
                                 ELSE [Staged(row[j], "scored") EXCEPT !.scored = TRUE]]
      /\ UNCHANGED <<owner, at, bought>>
    BY <1>2 DEF ScoringBatch
<1>5. bought \subseteq Cards /\ \A j \in Cards : Good(row[j])
    BY TypeFacts
<1>6. ASSUME NEW j \in Cards PROVE Follows(row'[j], row[j])
    <2>1. CASE j \notin batch
        <3>1. row'[j] = row[j]
            BY <1>4, <2>1
        <3> QED
            BY <1>5, <3>1, SameFollows
    <2>2. CASE j \in batch
        <3>1. row[j].stage = "described" /\ row[j].stage \notin Lost /\ row[j].verdict = "confirmed"
            BY <1>3, <1>5, <2>2 DEF ToScore, DueNow, Lost, Good, Rows
        <3>2. Follows(Deferred(row[j]), row[j])
            BY <1>5, <3>1, DeferredFollows
        <3>3. Follows([Staged(row[j], "scored") EXCEPT !.scored = TRUE], row[j])
            BY <1>5, <3>1, ScoredAfterFollows
        <3>4. row'[j] \in {Deferred(row[j]), [Staged(row[j], "scored") EXCEPT !.scored = TRUE]}
            BY <1>4, <2>2
        <3> QED
            BY <3>2, <3>3, <3>4
    <2> QED
        BY <2>1, <2>2
<1>7. row' = [j \in Cards |-> row'[j]] /\ at' \in StepNames /\ bought' \subseteq Cards
    BY <1>4, <1>5 DEF IInv, TypeOK, StepNames
<1> QED
    BY <1>4, <1>6, <1>7, RowsMove

LEMMA DescribeKeeps ==
    ASSUME JobLifeAssumption, IInv, Describe
    PROVE  IInv' /\ Progress
<1>1. PICK j \in Cards, passes \in BOOLEAN, result \in {"ok", "throttled", "refused", "gone", "failed"} :
          DescribeNext(j, result, passes)
    BY DEF Describe
<1> DEFINE q == CASE SourcesOf(j) \cap Paged = {} -> Staged(row[j], "expired")
                  [] OTHER -> CASE result = "ok" -> Described(row[j], passes)
                                [] result = "throttled" -> Refused(row[j])
                                [] result = "refused" -> Deferred(Refused(row[j]))
                                [] result = "gone" -> Gone(row[j])
                                [] result = "failed" -> Unreadable(row[j])
<1>2. Good(row[j]) /\ row[j].stage = "seen" /\ row[j].tiered
    BY <1>1, TypeFacts DEF DescribeNext, Waiting
<1>3. row' = [row EXCEPT ![j] = q] /\ UNCHANGED <<owner, at, bought>>
    BY <1>1 DEF DescribeNext
<1>4. q \in {Staged(row[j], "expired"), Described(row[j], passes), Refused(row[j]), Deferred(Refused(row[j])),
             Gone(row[j]), Unreadable(row[j])}
    OBVIOUS
<1> HIDE DEF q
<1>5. Follows(q, row[j])
    BY <1>2, <1>4, DescribedFollows
<1> QED
    BY <1>3, <1>5, RowMoves

LEMMA RestKeeps ==
    ASSUME JobLifeAssumption, IInv,
           \/ \E j \in Cards : Deliver(j) \/ DelayOver(j)
           \/ Undo \/ Restart \/ NewDay \/ Skip \/ UNCHANGED vars
    PROVE  IInv' /\ Progress
<1>1. row \in [Cards -> Rows] /\ bought \subseteq Cards /\ \A k \in Cards : Good(row[k])
    BY TypeFacts
<1>2. ASSUME NEW j \in Cards, Deliver(j) PROVE IInv' /\ Progress
    <2>1. Follows(Staged(row[j], "delivered"), row[j])
        BY <1>1, <1>2, DeliveredFollows DEF Deliver
    <2>2. row' = [row EXCEPT ![j] = Staged(row[j], "delivered")] /\ UNCHANGED <<owner, at, bought>>
        BY <1>2 DEF Deliver
    <2> QED
        BY <2>1, <2>2, RowMoves
<1>3. ASSUME NEW j \in Cards, DelayOver(j) PROVE IInv' /\ Progress
    <2> DEFINE q == [row[j] EXCEPT !.attempts = row[j].attempts, !.due = TRUE]
    <2>1. row[j] \in Rows /\ row[j].stage \notin Lost /\ row[j].attempts \in 0..UnreadableAttempts
        BY <1>1, <1>3 DEF DelayOver, Good, Sound, Rows, Lost, Unfinished
    <2>2. Follows(q, row[j])
        BY <1>1, <2>1, DelayFollows
    <2>3. q = [row[j] EXCEPT !.due = TRUE]
        BY <2>1 DEF Rows
    <2>4. row' = [row EXCEPT ![j] = q] /\ UNCHANGED <<owner, at, bought>>
        BY <1>1, <1>3, <2>3 DEF DelayOver
    <2> HIDE DEF q
    <2> QED
        BY <2>2, <2>4, RowMoves
<1>4. CASE Undo
    <2>1. row' = [j \in Cards |-> IF row[j].aged THEN Staged(row[j], "seen") ELSE row[j]]
          /\ UNCHANGED <<owner, at, bought>>
        BY <1>4 DEF Undo
    <2>2. \A j \in Cards : Follows(row'[j], row[j])
        BY <1>1, <2>1, UndoneFollows, SameFollows
    <2>3. row' = [j \in Cards |-> row'[j]] /\ at' \in StepNames /\ bought' \subseteq Cards
        BY <1>1, <2>1 DEF IInv, TypeOK, StepNames
    <2> QED
        BY <2>1, <2>2, <2>3, RowsMove
<1>5. CASE NewDay
    <2>1. row' = [j \in Cards |-> Aged(row[j])] /\ UNCHANGED <<owner, at, bought>>
        BY <1>5 DEF NewDay
    <2>2. \A j \in Cards : Follows(row'[j], row[j])
        BY <1>1, <2>1, AgedFollows
    <2>3. row' = [j \in Cards |-> row'[j]] /\ at' \in StepNames /\ bought' \subseteq Cards
        BY <1>1, <2>1 DEF IInv, TypeOK, StepNames
    <2> QED
        BY <2>1, <2>2, <2>3, RowsMove
<1>6. CASE Restart \/ Skip \/ UNCHANGED vars
    <2>1. at' \in StepNames
        <3>1. at \in StepNames
            BY DEF IInv, TypeOK, StepNames
        <3> QED
            BY <1>6, <3>1, NamesAreSteps, AfterIsAStep DEF Restart, Skip, Ends, vars
    <2>2. UNCHANGED <<row, owner, bought>>
        BY <1>6 DEF Restart, Skip, Ends, vars
    <2> QED
        BY <2>1, <2>2, TickMoves
<1> QED
    BY <1>2, <1>3, <1>4, <1>5, <1>6

-----------------------------------------------------------------------------
LEMMA InitHolds ==
    ASSUME JobLifeAssumption, Init
    PROVE  IInv
<1>1. Unseen \in Rows /\ Sound(Unseen)
    <2>1. Never \in Never..(RefusalExpiry + 1) /\ 0 \in 0..UnreadableAttempts /\ 0 \in 0..(MaxAge + 1)
        BY DEF JobLifeAssumption, Never
    <2>2. Unseen \in Rows
        BY <2>1 DEF Rows, Unseen, Stages, Places, None
    <2>3. Sound(Unseen)
        BY DEF Sound, Unseen, None
    <2> QED
        BY <2>2, <2>3
<1>2. Unseen.stage = "unseen" /\ at \in StepNames
    BY NamesAreSteps DEF Unseen, Init
<1> QED
    BY <1>1, <1>2 DEF Init, IInv, TypeOK, OwnersHold, PaidIsKept, SightingsAreHeld, StepNames

LEMMA StepHolds ==
    ASSUME JobLifeAssumption, IInv, [Next]_vars
    PROVE  IInv' /\ Progress
<1>1. ASSUME NEW s \in Cards, NEW place \in Places, NEW text \in {"pending", "ok"}, Sight(s, place, text)
      PROVE  IInv' /\ Progress
    BY <1>1, SightKeeps
<1>2. ASSUME Cheap PROVE IInv' /\ Progress
    BY <1>2, CheckOneKeeps DEF Cheap
<1>3. ASSUME Processor PROVE IInv' /\ Progress
    BY <1>2, <1>3, ExpireKeeps, RuleKeeps, CheckKeeps, ScoreKeeps, DescribeKeeps, RestKeeps DEF Processor
<1> QED
    BY <1>1, <1>3, RestKeeps DEF Next

-----------------------------------------------------------------------------
\* The inductive invariant: well-typed rows that some stage attends to, sightings
\* and paid verdicts that follow the merges.
THEOREM Invariance ==
    ASSUME JobLifeAssumption
    PROVE  Spec => []IInv
<1>1. Init => IInv
    BY InitHolds
<1>2. IInv /\ [Next]_vars => IInv'
    BY StepHolds
<1> QED
    BY <1>1, <1>2, PTL DEF Spec

\* No job falls between the stages, whatever merges, failures, restarts and
\* undone expiries write into its row (waiting_rows, run_cheap_checks, merge_jobs).
THEOREM NoJobIsLost ==
    ASSUME JobLifeAssumption
    PROVE  Spec => []Attended
<1>1. IInv => Attended
    <2>1. SUFFICES ASSUME IInv, NEW j \in Cards, Good(row[j])
                   PROVE  LET r == row[j] IN
                          /\ r.stage = "seen" => ~r.tiered \/ r.text \in {"pending", "rate_limited", "ok"}
                          /\ r.stage = "described" => r.tiered /\ r.text = "ok" /\ r.verdict # "rejected" /\ ~r.scored
                          /\ r.stage \in {"scored", "delivered"} =>
                                r.text = "ok" /\ r.verdict \notin {None, "rejected"} /\ r.scored
                          /\ r.verdict = "rejected" => r.stage = "filtered_out"
        BY TypeFacts DEF Attended
    <2> QED
        BY <2>1 DEF Good, Sound, Rows, None
<1> QED
    BY <1>1, Invariance, PTL

\* Merges lose neither a verdict that was paid for nor a sighting (merge_jobs).
THEOREM MergesLoseNothing ==
    ASSUME JobLifeAssumption
    PROVE  Spec => [](PaidIsKept /\ SightingsAreHeld)
<1>1. IInv => PaidIsKept /\ SightingsAreHeld
    BY DEF IInv
<1> QED
    BY <1>1, Invariance, PTL

\* A posting never goes back to an earlier stage, except that an unfinished one
\* expires (merge_jobs, set_stage, age_out).
THEOREM PostingsProgress ==
    ASSUME JobLifeAssumption
    PROVE  Spec => ProgressIsKept
<1>1. IInv /\ [Next]_vars => [Progress]_vars
    BY StepHolds
<1> QED
    BY <1>1, Invariance, PTL DEF Spec, ProgressIsKept

-----------------------------------------------------------------------------
(* The requests of the stages to the language model, and their alerts.      *)

CONSTANTS Stop, TickBatches, Retries, Transient, Malformed, MinCalls, Percent, MaxNow, MaxUpsets
VARIABLES now, run, tail, rows, budget, sent, made, told, upsets

M == INSTANCE ModelCalls

\* The step of the run: its tick began no later than its attempt, and neither is to come.
Times ==
  /\ run.tick <= now
  /\ run.at = "call" => run.tick <= run.started /\ run.started <= now /\ run.n > 0
  /\ sent <= M!Rome(now)

\* Nothing is known of a day to come.
NothingYet == \A d \in 0..M!Utc(MaxNow) : d > M!Utc(now) => made[d] = 0

\* The request under way is not in the budget yet.
UnderWay(d) == IF run.at = "call" /\ M!Utc(run.started) = d THEN 1 ELSE 0
InBudget ==
  /\ \A d \in 0..M!Utc(MaxNow) : made[d] <= budget[d] + UnderWay(d)
  /\ run.at = "call" => made[M!Utc(run.started)] > 0

\* What the tick has asked for: the batches that ended, on the whole ladder, and the one under way.
Asked == (TickBatches - run.left) * Retries - (IF run.at = "call" THEN Retries - run.n ELSE 0)
AfterMidnight ==
  run.at # "idle" => \A d \in 0..M!Utc(MaxNow) : d > M!Utc(run.tick) => made[d] <= Asked

\* A batch begins below the stop line.
OneLadder == run.at = "call" => made[M!Utc(run.tick)] <= Stop - 1 + run.n

\* The guard notes the days it reports, one after the other.
InOrder == \A d \in 1..M!Rome(MaxNow) : told[d] > 0 => d <= sent

CallsInv == M!TypeOK /\ Times /\ NothingYet /\ InBudget /\ AfterMidnight /\ OneLadder /\ M!RoomIsLeft /\ InOrder
        /\ M!AlertsAreOfTheirDay

-----------------------------------------------------------------------------
\* The days follow the half days.
LEMMA Days ==
  ASSUME NEW t \in Nat, NEW u \in Nat, t <= u
  PROVE  M!Utc(t) \in Nat /\ M!Utc(t) <= M!Utc(u) /\ M!Rome(t) \in Nat /\ M!Rome(t) > 0 /\ M!Rome(t) <= M!Rome(u)
BY DEF M!Utc, M!Rome

LEMMA Products ==
  ASSUME NEW a \in Nat, NEW b \in Nat, NEW r \in Nat, b <= a
  PROVE  (a - b) * r \in Nat /\ (a - b) * r = a * r - b * r /\ b * r \in Nat /\ b * r <= a * r
<1>1. (a - b) * r = a * r - b * r
  OBVIOUS
<1>2. b * r \in Nat /\ a * r \in Nat
  OBVIOUS
<1>3. a - b \in Nat
  OBVIOUS
<1>4. (a - b) * r \in Nat
  BY <1>3
<1> QED
  BY <1>1, <1>2, <1>4

LEMMA Constants ==
  ASSUME M!ModelCallsAssumption
  PROVE  /\ Stop \in Nat /\ Stop > 0 /\ TickBatches \in Nat /\ Retries \in Nat /\ Retries > 0
         /\ Transient \in Nat /\ Transient > 0 /\ Malformed \in Nat /\ Malformed > 0
         /\ MaxNow \in Nat /\ MaxUpsets \in Nat /\ Percent \in Nat /\ MinCalls \in Nat
         /\ TickBatches * Retries \in Nat /\ TickBatches * Retries <= Stop - 1 + Retries
         /\ M!Utc(MaxNow) \in Nat /\ M!Rome(MaxNow) \in Nat /\ M!Rome(MaxNow) > 0
<1>1. /\ TickBatches \in Nat /\ MinCalls \in Nat /\ MaxNow \in Nat /\ MaxUpsets \in Nat
      /\ Stop \in Nat /\ Stop > 0 /\ Retries \in Nat /\ Retries > 0 /\ Percent \in Nat
      /\ Transient \in Nat /\ Transient > 0 /\ Malformed \in Nat /\ Malformed > 0
      /\ TickBatches * Retries < Stop + Retries
  BY DEF M!ModelCallsAssumption
<1>2. TickBatches * Retries \in Nat
  BY <1>1
<1>3. TickBatches * Retries <= Stop - 1 + Retries
  <2> DEFINE all == TickBatches * Retries
  <2>1. all \in Nat /\ all < Stop + Retries /\ Stop \in Nat /\ Retries \in Nat
    BY <1>1, <1>2
  <2> HIDE DEF all
  <2>2. all <= Stop - 1 + Retries
    BY <2>1
  <2> QED
    BY <2>2 DEF all
<1>4. M!Utc(MaxNow) \in Nat /\ M!Rome(MaxNow) \in Nat /\ M!Rome(MaxNow) > 0
  BY <1>1, Days
<1> QED
  BY <1>1, <1>2, <1>3, <1>4

\* What the steps below need of the run's record.
LEMMA Runs ==
  ASSUME M!ModelCallsAssumption, CallsInv
  PROVE  /\ now \in Nat /\ now <= MaxNow
         /\ run.at \in {"idle", "check", "call"} /\ run.tick \in Nat /\ run.tick <= now
         /\ run.left \in Nat /\ run.left <= TickBatches /\ run.n \in Nat /\ run.n <= Retries
         /\ run.started \in Nat /\ run.started <= MaxNow
         /\ M!Utc(now) \in 0..M!Utc(MaxNow) /\ M!Utc(run.tick) \in 0..M!Utc(MaxNow) /\ M!Utc(run.tick) <= M!Utc(now)
         /\ M!Utc(run.started) \in 0..M!Utc(MaxNow) /\ M!Rome(now) \in 1..M!Rome(MaxNow)
         /\ run.at = "call" => /\ run.n > 0 /\ run.started <= now
                               /\ M!Utc(run.tick) <= M!Utc(run.started) /\ M!Utc(run.started) <= M!Utc(now)
<1>1. /\ now \in 0..MaxNow /\ run.at \in {"idle", "check", "call"} /\ run.tick \in 0..MaxNow
      /\ run.left \in 0..TickBatches /\ run.n \in 0..Retries /\ run.started \in 0..MaxNow
  BY DEF CallsInv, M!TypeOK
<1>2. /\ run.tick <= now
      /\ run.at = "call" => run.tick <= run.started /\ run.started <= now /\ run.n > 0
  BY DEF CallsInv, Times
<1>3. MaxNow \in Nat /\ TickBatches \in Nat /\ Retries \in Nat
  BY Constants
<1>4. M!Utc(now) \in Nat /\ M!Utc(now) <= M!Utc(MaxNow) /\ M!Utc(run.tick) \in Nat /\ M!Utc(run.tick) <= M!Utc(now)
      /\ M!Utc(run.started) \in Nat /\ M!Utc(run.started) <= M!Utc(MaxNow)
      /\ M!Rome(now) \in Nat /\ M!Rome(now) > 0 /\ M!Rome(now) <= M!Rome(MaxNow)
  BY <1>1, <1>2, <1>3, Days
<1>5. run.at = "call" => M!Utc(run.tick) <= M!Utc(run.started) /\ M!Utc(run.started) <= M!Utc(now)
  BY <1>1, <1>2, <1>3, Days
<1> QED
  BY <1>1, <1>2, <1>3, <1>4, <1>5, Constants

LEMMA CallsInit == ASSUME M!ModelCallsAssumption PROVE M!Init => CallsInv
<1> SUFFICES ASSUME M!Init PROVE CallsInv
  OBVIOUS
<1>1. /\ now = 0 /\ sent = 0 /\ upsets = 0 /\ run = M!Idle /\ tail = M!NoTailoring
      /\ rows = [t \in 0..MaxNow |-> [who \in M!Models |-> 0]]
      /\ budget = [d \in 0..M!Utc(MaxNow) |-> 0] /\ made = [d \in 0..M!Utc(MaxNow) |-> 0]
      /\ told = [d \in 1..M!Rome(MaxNow) |-> 0]
  BY DEF M!Init
<1>2. 0 \in Nat /\ 0 \in 0..MaxNow /\ 0 \in 0..MaxUpsets /\ 0 \in 0..TickBatches /\ 0 \in 0..Retries
      /\ 0 \in 0..Transient /\ 0 \in 0..(Malformed - 1) /\ 0 \in 0..M!Rome(MaxNow)
  BY Constants
<1>3. /\ run \in [at : {"idle", "check", "call"}, tick : 0..MaxNow, left : 0..TickBatches, n : 0..Retries,
                  started : 0..MaxNow]
      /\ tail \in [at : {"idle", "call"}, n : 0..Transient, bad : 0..(Malformed - 1), started : 0..MaxNow]
      /\ run.at = "idle" /\ run.tick = 0
  BY <1>1, <1>2 DEF M!Idle, M!NoTailoring
<1>4. M!TypeOK
  BY <1>1, <1>2, <1>3 DEF M!TypeOK
<1>5. Times /\ NothingYet /\ AfterMidnight /\ OneLadder
  BY <1>1, <1>2, <1>3, Days DEF Times, NothingYet, AfterMidnight, OneLadder
<1>6. InBudget
  BY <1>1, <1>3 DEF InBudget, UnderWay
<1>7. M!RoomIsLeft /\ InOrder /\ M!AlertsAreOfTheirDay
  BY <1>1, Constants, SMTT(30) DEF M!RoomIsLeft, InOrder, M!AlertsAreOfTheirDay
<1> QED
  BY <1>4, <1>5, <1>6, <1>7 DEF CallsInv

\* The sink leaves no request out of the budget but the ones made does not count.
LEMMA RecordFacts ==
  ASSUME M!ModelCallsAssumption, CallsInv, NEW who \in M!Answers, NEW kept \in M!Kept, NEW next \in BOOLEAN,
         M!Record(who, kept, next)
  PROVE  /\ run.at = "call" /\ UNCHANGED <<now, tail, sent, told>> /\ upsets' \in 0..MaxUpsets
         /\ made' \in [0..M!Utc(MaxNow) -> Nat] /\ budget' \in [0..M!Utc(MaxNow) -> Nat]
         /\ rows' \in [0..MaxNow -> [M!Models -> Nat]]
         /\ \A d \in 0..M!Utc(MaxNow) :
              /\ made'[d] <= made[d] + (IF next /\ d = M!Utc(now) THEN 1 ELSE 0)
              /\ made'[d] <= budget'[d] + (IF next /\ d = M!Utc(now) THEN 1 ELSE 0)
         /\ next => made'[M!Utc(now)] > 0
         /\ \A t \in 0..MaxNow : rows'[t]["fallback"] >= rows[t]["fallback"]
<1> DEFINE s == M!Utc(run.started)
           charged == [made EXCEPT ![s] = IF kept = "all" THEN @ ELSE @ - 1]
<1>1. /\ run.at = "call" /\ M!Failing(kept) /\ M!Charge(run.started, who, kept)
      /\ rows' = IF kept = "nothing" \/ who = "none" THEN rows ELSE [rows EXCEPT ![run.started][who] = @ + 1]
      /\ made' = IF next THEN [charged EXCEPT ![M!Utc(now)] = @ + 1] ELSE charged
      /\ UNCHANGED <<now, tail, sent, told>>
  BY DEF M!Record
<1>2. s \in 0..M!Utc(MaxNow) /\ M!Utc(now) \in 0..M!Utc(MaxNow) /\ run.started \in 0..MaxNow
      /\ MaxUpsets \in Nat
  BY Runs, Constants
<1>3. /\ made \in [0..M!Utc(MaxNow) -> Nat] /\ budget \in [0..M!Utc(MaxNow) -> Nat]
      /\ rows \in [0..MaxNow -> [M!Models -> Nat]] /\ upsets \in 0..MaxUpsets
  BY DEF CallsInv, M!TypeOK
<1>4. upsets' \in 0..MaxUpsets
  BY <1>1, <1>2, <1>3 DEF M!Failing
<1>5. made[s] > 0 /\ \A d \in 0..M!Utc(MaxNow) : made[d] <= budget[d] + (IF d = s THEN 1 ELSE 0)
  BY <1>1, <1>2 DEF CallsInv, InBudget, UnderWay
<1>6. budget' = IF kept = "all" THEN [budget EXCEPT ![s] = @ + 1] ELSE budget
  BY <1>1 DEF M!Charge, M!Charged
<1> HIDE DEF s
<1>7. charged \in [0..M!Utc(MaxNow) -> Nat] /\ budget' \in [0..M!Utc(MaxNow) -> Nat]
  BY <1>2, <1>3, <1>5, <1>6
<1>8. \A d \in 0..M!Utc(MaxNow) : charged[d] <= made[d] /\ charged[d] <= budget'[d]
  BY <1>2, <1>3, <1>5, <1>6
<1> HIDE DEF charged
<1>9. made' \in [0..M!Utc(MaxNow) -> Nat] /\ (next => made'[M!Utc(now)] > 0)
  BY <1>1, <1>2, <1>7
<1>10. ASSUME NEW d \in 0..M!Utc(MaxNow)
       PROVE  /\ made'[d] <= made[d] + (IF next /\ d = M!Utc(now) THEN 1 ELSE 0)
              /\ made'[d] <= budget'[d] + (IF next /\ d = M!Utc(now) THEN 1 ELSE 0)
  BY <1>1, <1>2, <1>3, <1>7, <1>8
<1>11. rows' \in [0..MaxNow -> [M!Models -> Nat]]
       /\ \A t \in 0..MaxNow : rows'[t]["fallback"] >= rows[t]["fallback"]
  <2>1. CASE kept = "nothing" \/ who = "none"
    BY <1>1, <1>3, <2>1 DEF M!Models
  <2>2. CASE ~(kept = "nothing" \/ who = "none")
    <3> DEFINE newRow == [rows[run.started] EXCEPT ![who] = rows[run.started][who] + 1]
    <3>1. rows' = [rows EXCEPT ![run.started] = newRow]
      BY <1>1, <2>2
    <3>2. who \in M!Models /\ rows[run.started] \in [M!Models -> Nat]
      BY <1>2, <1>3, <2>2 DEF M!Answers
    <3>3. newRow \in [M!Models -> Nat] /\ newRow["fallback"] >= rows[run.started]["fallback"]
      BY <3>2 DEF M!Models
    <3> HIDE DEF newRow
    <3>4. rows' \in [0..MaxNow -> [M!Models -> Nat]]
      BY <1>2, <1>3, <3>1, <3>3
    <3>5. ASSUME NEW t \in 0..MaxNow PROVE rows'[t]["fallback"] >= rows[t]["fallback"]
      <4>1. CASE t = run.started
        BY <1>3, <3>1, <3>3, <4>1
      <4>2. CASE t # run.started
        <5>1. rows'[t] = rows[t] /\ rows[t] \in [M!Models -> Nat]
          BY <1>3, <3>1, <4>2
        <5>2. rows[t]["fallback"] \in Nat
          BY <5>1 DEF M!Models
        <5> QED
          BY <5>1, <5>2
      <4> QED
        BY <4>1, <4>2
    <3> QED
      BY <3>4, <3>5
  <2> QED
    BY <2>1, <2>2
<1> QED
  BY <1>1, <1>4, <1>7, <1>9, <1>10, <1>11

\* What a step of the calls leaves alone: the guard.
LEMMA GuardKeeps ==
  ASSUME M!ModelCallsAssumption, CallsInv, UNCHANGED <<now, sent, told>>,
         rows' \in [0..MaxNow -> [M!Models -> Nat]],
         \A t \in 0..MaxNow : rows'[t]["fallback"] >= rows[t]["fallback"]
  PROVE  InOrder' /\ M!AlertsAreOfTheirDay'
<1>1. told \in [1..M!Rome(MaxNow) -> Nat] /\ rows \in [0..MaxNow -> [M!Models -> Nat]]
  BY DEF CallsInv, M!TypeOK
<1>2. \A t \in 0..MaxNow : rows[t]["fallback"] \in Nat /\ rows'[t]["fallback"] \in Nat
  BY <1>1 DEF M!Models
<1>3. ASSUME NEW d \in DOMAIN told, told[d] = 1
      PROVE  \E t \in 0..MaxNow : M!Rome(t) = d /\ rows'[t]["fallback"] > 0
  <2>1. PICK t \in 0..MaxNow : M!Rome(t) = d /\ rows[t]["fallback"] > 0
    BY <1>3 DEF CallsInv, M!AlertsAreOfTheirDay
  <2>2. rows'[t]["fallback"] > 0
    BY <1>2, <2>1
  <2> QED
    BY <2>1, <2>2
<1> QED
  BY <1>3 DEF CallsInv, InOrder, M!AlertsAreOfTheirDay

RunType == [at : {"idle", "check", "call"}, tick : 0..MaxNow, left : 0..TickBatches, n : 0..Retries,
            started : 0..MaxNow]

\* The run is over, whatever ended it.
LEMMA OverKeeps ==
  ASSUME M!ModelCallsAssumption, CallsInv, run' = M!Idle, now' = now, sent' = sent,
         made' \in [0..M!Utc(MaxNow) -> Nat], budget' \in [0..M!Utc(MaxNow) -> Nat],
         \A d \in 0..M!Utc(MaxNow) : made'[d] <= made[d] /\ made'[d] <= budget'[d]
  PROVE  /\ run' \in RunType
         /\ Times' /\ NothingYet' /\ InBudget' /\ AfterMidnight' /\ OneLadder' /\ M!RoomIsLeft'
<1>1. run'.at = "idle" /\ run'.tick = 0 /\ run' \in RunType
  BY Constants DEF M!Idle, RunType
<1>2. now \in Nat /\ made \in [0..M!Utc(MaxNow) -> Nat] /\ budget' \in [0..M!Utc(MaxNow) -> Nat]
      /\ Stop \in Nat /\ Retries \in Nat
  BY Runs, Constants DEF CallsInv, M!TypeOK
<1>3. Times'
  BY <1>1, <1>2 DEF CallsInv, Times
<1>4. NothingYet'
  <2>1. ASSUME NEW d \in 0..M!Utc(MaxNow), d > M!Utc(now) PROVE made'[d] = 0
    <3>1. made[d] = 0 /\ made'[d] \in Nat /\ made'[d] <= made[d]
      BY <2>1 DEF CallsInv, NothingYet
    <3> QED
      BY <3>1
  <2> QED
    BY <2>1 DEF NothingYet
<1>5. InBudget'
  <2>1. ASSUME NEW d \in 0..M!Utc(MaxNow) PROVE made'[d] <= budget'[d] + 0
    BY <1>2
  <2> QED
    BY <1>1, <2>1 DEF InBudget, UnderWay
<1>6. M!RoomIsLeft'
  <2>1. ASSUME NEW d \in 0..M!Utc(MaxNow) PROVE made'[d] <= Stop - 1 + Retries
    <3>1. made[d] <= Stop - 1 + Retries /\ made'[d] <= made[d] /\ made[d] \in Nat /\ made'[d] \in Nat
      BY <1>2 DEF CallsInv, M!RoomIsLeft
    <3> QED
      BY <1>2, <3>1
  <2> QED
    BY <2>1 DEF M!RoomIsLeft
<1> QED
  BY <1>1, <1>3, <1>4, <1>5, <1>6 DEF AfterMidnight, OneLadder

LEMMA EndsKeep ==
  ASSUME M!ModelCallsAssumption, CallsInv, M!EndTick \/ M!Kill
  PROVE  CallsInv'
<1>1. /\ run' = M!Idle /\ UNCHANGED <<now, tail, rows, budget, sent, told>>
      /\ made' = IF run.at = "call" THEN [made EXCEPT ![M!Utc(run.started)] = @ - 1] ELSE made
      /\ upsets' \in 0..MaxUpsets
  <2>1. CASE M!EndTick
    BY <2>1 DEF M!EndTick, CallsInv, M!TypeOK
  <2>2. CASE M!Kill
    <3>1. /\ run' = M!Idle /\ UNCHANGED <<now, tail, rows, budget, sent, told>>
          /\ made' = IF run.at = "call" THEN [made EXCEPT ![M!Utc(run.started)] = @ - 1] ELSE made
          /\ upsets < MaxUpsets /\ upsets' = upsets + 1
      BY <2>2 DEF M!Kill
    <3>2. upsets' \in 0..MaxUpsets
      <4>1. upsets \in 0..MaxUpsets /\ MaxUpsets \in Nat
        BY Constants DEF CallsInv, M!TypeOK
      <4> QED
        BY <3>1, <4>1
    <3> QED
      BY <3>1, <3>2
  <2> QED
    BY <2>1, <2>2
<1>2. made \in [0..M!Utc(MaxNow) -> Nat] /\ budget \in [0..M!Utc(MaxNow) -> Nat]
      /\ M!Utc(run.started) \in 0..M!Utc(MaxNow)
  BY Runs DEF CallsInv, M!TypeOK
<1> DEFINE s == M!Utc(run.started)
<1>3. \A d \in 0..M!Utc(MaxNow) : made[d] <= budget[d] + (IF run.at = "call" /\ d = s THEN 1 ELSE 0)
  BY <1>2 DEF CallsInv, InBudget, UnderWay
<1>4. run.at = "call" => made[s] > 0
  BY DEF CallsInv, InBudget
<1> HIDE DEF s
<1>5. made' \in [0..M!Utc(MaxNow) -> Nat]
      /\ \A d \in 0..M!Utc(MaxNow) : made'[d] <= made[d] /\ made'[d] <= budget'[d]
  BY <1>1, <1>2, <1>3, <1>4 DEF s
<1>6. /\ run' \in RunType
      /\ Times' /\ NothingYet' /\ InBudget' /\ AfterMidnight' /\ OneLadder' /\ M!RoomIsLeft'
  BY <1>1, <1>2, <1>5, OverKeeps
<1>7. M!TypeOK'
  BY <1>1, <1>5, <1>6 DEF CallsInv, M!TypeOK, RunType
<1>8. InOrder' /\ M!AlertsAreOfTheirDay'
  BY <1>1 DEF CallsInv, InOrder, M!AlertsAreOfTheirDay
<1> QED
  BY <1>6, <1>7, <1>8 DEF CallsInv

\* The next batch is checked against the budget.
LEMMA AnsweredKeeps ==
  ASSUME M!ModelCallsAssumption, CallsInv, NEW who \in M!Answers, NEW kept \in M!Kept, M!Answered(who, kept)
  PROVE  CallsInv'
<1>1. run' = [run EXCEPT !.at = "check"] /\ M!Record(who, kept, FALSE)
  BY DEF M!Answered
<1>2. /\ run.at = "call"
      /\ UNCHANGED <<now, tail, sent, told>> /\ upsets' \in 0..MaxUpsets
      /\ made' \in [0..M!Utc(MaxNow) -> Nat] /\ budget' \in [0..M!Utc(MaxNow) -> Nat]
      /\ rows' \in [0..MaxNow -> [M!Models -> Nat]]
      /\ \A d \in 0..M!Utc(MaxNow) : made'[d] <= made[d] + 0 /\ made'[d] <= budget'[d] + 0
      /\ \A t \in 0..MaxNow : rows'[t]["fallback"] >= rows[t]["fallback"]
  BY <1>1, RecordFacts
<1>3. made \in [0..M!Utc(MaxNow) -> Nat] /\ Stop \in Nat /\ Retries \in Nat
  BY Constants DEF CallsInv, M!TypeOK
<1>4. \A d \in 0..M!Utc(MaxNow) : made'[d] <= made[d] /\ made'[d] <= budget'[d]
  BY <1>2, <1>3
<1>5. /\ run' \in RunType /\ run'.at = "check" /\ run'.tick = run.tick /\ run'.left = run.left
      /\ run.left \in 0..TickBatches /\ run.n \in 0..Retries
  BY <1>1 DEF CallsInv, M!TypeOK, RunType
<1>6. M!TypeOK'
  BY <1>2, <1>5 DEF CallsInv, M!TypeOK, RunType
<1>7. Times' /\ OneLadder'
  BY <1>2, <1>5 DEF CallsInv, Times, OneLadder
<1>8. NothingYet'
  <2>1. ASSUME NEW d \in 0..M!Utc(MaxNow), d > M!Utc(now) PROVE made'[d] = 0
    <3>1. made[d] = 0 /\ made'[d] \in Nat /\ made'[d] <= made[d]
      BY <1>2, <1>4, <2>1 DEF CallsInv, NothingYet
    <3> QED
      BY <3>1
  <2> QED
    BY <1>2, <2>1 DEF NothingYet
<1>9. InBudget'
  <2>1. ASSUME NEW d \in 0..M!Utc(MaxNow) PROVE made'[d] <= budget'[d] + 0
    BY <1>2, <1>4
  <2> QED
    BY <1>5, <2>1 DEF InBudget, UnderWay
<1>10. AfterMidnight'
  <2>1. Asked \in Int /\ Asked' \in Int /\ Asked <= Asked'
    <3>1. TickBatches - run.left \in Nat /\ Retries \in Nat /\ run.n \in Nat /\ run.n <= Retries
      BY <1>5, Constants
    <3>2. (TickBatches - run.left) * Retries \in Nat
      BY <3>1
    <3> QED
      BY <1>2, <1>5, <3>1, <3>2 DEF Asked
  <2>2. ASSUME NEW d \in 0..M!Utc(MaxNow), d > M!Utc(run.tick) PROVE made'[d] <= Asked'
    <3>1. made[d] <= Asked /\ made'[d] <= made[d] /\ made[d] \in Nat /\ made'[d] \in Nat
      BY <1>2, <1>3, <1>4, <2>2 DEF CallsInv, AfterMidnight
    <3> QED
      BY <2>1, <3>1
  <2> QED
    BY <1>5, <2>2 DEF AfterMidnight
<1>11. M!RoomIsLeft'
  <2>1. ASSUME NEW d \in 0..M!Utc(MaxNow) PROVE made'[d] <= Stop - 1 + Retries
    <3>1. made[d] <= Stop - 1 + Retries /\ made'[d] <= made[d] /\ made[d] \in Nat /\ made'[d] \in Nat
      BY <1>2, <1>3, <1>4 DEF CallsInv, M!RoomIsLeft
    <3> QED
      BY <1>3, <3>1
  <2> QED
    BY <1>2, <2>1 DEF M!RoomIsLeft
<1> QED
  BY <1>2, <1>6, <1>7, <1>8, <1>9, <1>10, <1>11, GuardKeeps DEF CallsInv

\* So is the one after a batch that was given up.
LEMMA GivenUpKeeps ==
  ASSUME M!ModelCallsAssumption, CallsInv, NEW who \in M!Answers, NEW kept \in M!Kept, M!GivenUp(who, kept)
  PROVE  CallsInv'
<1>1. M!Answered(who, kept)
  BY DEF M!GivenUp, M!Answered
<1> QED
  BY <1>1, AnsweredKeeps

\* A request starts, of the batch at work or of the next one.
LEMMA CallKeeps ==
  ASSUME M!ModelCallsAssumption, CallsInv, run.at # "idle", UNCHANGED <<now, sent>>,
         run' \in RunType, run'.at = "call", run'.tick = run.tick, run'.started = now, run'.n > 0,
         made' \in [0..M!Utc(MaxNow) -> Nat], budget' \in [0..M!Utc(MaxNow) -> Nat],
         \A d \in 0..M!Utc(MaxNow) : /\ made'[d] <= made[d] + (IF d = M!Utc(now) THEN 1 ELSE 0)
                                   /\ made'[d] <= budget'[d] + (IF d = M!Utc(now) THEN 1 ELSE 0),
         made'[M!Utc(now)] > 0, made'[M!Utc(run.tick)] <= Stop - 1 + run'.n, Asked' = Asked + 1
  PROVE  Times' /\ NothingYet' /\ InBudget' /\ AfterMidnight' /\ OneLadder' /\ M!RoomIsLeft'
<1>1. /\ made \in [0..M!Utc(MaxNow) -> Nat] /\ Stop \in Nat /\ Retries \in Nat /\ Retries > 0 /\ TickBatches \in Nat
      /\ TickBatches * Retries \in Nat /\ TickBatches * Retries <= Stop - 1 + Retries
  BY Constants DEF CallsInv, M!TypeOK
<1>2. /\ M!Utc(now) \in 0..M!Utc(MaxNow) /\ M!Utc(run.tick) \in 0..M!Utc(MaxNow) /\ M!Utc(run.tick) <= M!Utc(now)
      /\ run.left \in Nat /\ run.left <= TickBatches /\ run.n \in Nat /\ run.n <= Retries
      /\ run'.left \in Nat /\ run'.left <= TickBatches /\ run'.n \in Nat /\ run'.n <= Retries
  BY Runs, Constants DEF RunType
<1>3. Times' /\ OneLadder'
  BY Runs DEF CallsInv, Times, OneLadder
<1>4. NothingYet'
  <2>1. ASSUME NEW d \in 0..M!Utc(MaxNow), d > M!Utc(now) PROVE made'[d] = 0
    <3>1. made[d] = 0 /\ d # M!Utc(now)
      BY <1>2, <2>1 DEF CallsInv, NothingYet
    <3>2. made'[d] \in Nat /\ made'[d] <= made[d] + 0
      BY <3>1
    <3> QED
      BY <3>1, <3>2
  <2> QED
    BY <2>1 DEF NothingYet
<1>5. InBudget'
  BY DEF InBudget, UnderWay
<1>6. Asked \in Int /\ Asked' <= TickBatches * Retries
  <2> DEFINE l == run.left
             k == run'.left
             p == (TickBatches - l) * Retries
             q == (TickBatches - k) * Retries
  <2>1. l \in Nat /\ l <= TickBatches /\ k \in Nat /\ k <= TickBatches
    BY <1>2
  <2>2. Asked = p - (IF run.at = "call" THEN Retries - run.n ELSE 0) /\ Asked' = q - (Retries - run'.n)
    BY DEF Asked
  <2> HIDE DEF l, k
  <2>3. p \in Nat /\ q \in Nat /\ q <= TickBatches * Retries
    <3>1. p \in Nat
      BY <1>1, <2>1, Products
    <3>2. /\ q \in Nat /\ k * Retries \in Nat /\ q = TickBatches * Retries - k * Retries
      BY <1>1, <2>1, Products
    <3> QED
      BY <1>1, <3>1, <3>2
  <2> HIDE DEF p, q
  <2> DEFINE u == Retries - run.n
             v == Retries - run'.n
  <2>4. u \in Nat /\ v \in Nat
    <3>1. Retries \in Nat /\ run.n \in Nat /\ run.n <= Retries /\ run'.n \in Nat /\ run'.n <= Retries
      BY <1>1, <1>2
    <3> QED
      BY <3>1
  <2>5. Asked = p - (IF run.at = "call" THEN u ELSE 0) /\ Asked' = q - v
    BY <2>2
  <2> HIDE DEF u, v
  <2>6. Asked \in Int /\ Asked' <= q
    BY <2>3, <2>4, <2>5
  <2> QED
    BY <1>1, <2>3, <2>6
<1>7. ASSUME NEW d \in 0..M!Utc(MaxNow), d > M!Utc(run.tick) PROVE made'[d] <= Asked'
  <2>1. made[d] <= Asked
    BY <1>7 DEF CallsInv, AfterMidnight
  <2> QED
    BY <1>1, <1>6, <2>1
<1>8. AfterMidnight'
  BY <1>7 DEF AfterMidnight
<1>9. ASSUME NEW d \in 0..M!Utc(MaxNow) PROVE made'[d] <= Stop - 1 + Retries
  <2>1. CASE d # M!Utc(now)
    <3>1. made[d] <= Stop - 1 + Retries
      BY DEF CallsInv, M!RoomIsLeft, M!TypeOK
    <3>2. made'[d] <= made[d] + 0
      BY <2>1
    <3> QED
      BY <1>1, <3>1, <3>2
  <2>2. CASE d = M!Utc(run.tick)
    BY <1>1, <1>2, <2>2, SMTT(30)
  <2>3. CASE d > M!Utc(run.tick)
    BY <1>1, <1>6, <1>7, <2>3
  <2> QED
    BY <1>2, <2>1, <2>2, <2>3
<1>10. M!RoomIsLeft'
  BY <1>9 DEF M!RoomIsLeft
<1> QED
  BY <1>3, <1>4, <1>5, <1>8, <1>10

LEMMA TriedAgainKeeps ==
  ASSUME M!ModelCallsAssumption, CallsInv, NEW who \in M!Answers, NEW kept \in M!Kept, M!TriedAgain(who, kept)
  PROVE  CallsInv'
<1>1. run' = [run EXCEPT !.n = @ + 1, !.started = now] /\ M!Record(who, kept, TRUE) /\ run.n < Retries
  BY DEF M!TriedAgain
<1>2. /\ run.at = "call"
      /\ UNCHANGED <<now, tail, sent, told>> /\ upsets' \in 0..MaxUpsets
      /\ made' \in [0..M!Utc(MaxNow) -> Nat] /\ budget' \in [0..M!Utc(MaxNow) -> Nat]
      /\ rows' \in [0..MaxNow -> [M!Models -> Nat]]
      /\ \A d \in 0..M!Utc(MaxNow) : /\ made'[d] <= made[d] + (IF d = M!Utc(now) THEN 1 ELSE 0)
                                   /\ made'[d] <= budget'[d] + (IF d = M!Utc(now) THEN 1 ELSE 0)
      /\ made'[M!Utc(now)] > 0
      /\ \A t \in 0..MaxNow : rows'[t]["fallback"] >= rows[t]["fallback"]
  BY <1>1, RecordFacts
<1>3. run.n \in 0..Retries /\ run.left \in 0..TickBatches /\ Retries \in Nat /\ TickBatches \in Nat /\ now \in 0..MaxNow
      /\ Stop \in Nat /\ made \in [0..M!Utc(MaxNow) -> Nat]
  BY Constants DEF CallsInv, M!TypeOK
<1>4. /\ run' \in RunType /\ run'.at = "call" /\ run'.tick = run.tick /\ run'.started = now
      /\ run'.n = run.n + 1 /\ run'.left = run.left
  <2>1. run.n + 1 \in 0..Retries
    BY <1>1, <1>3
  <2> QED
    BY <1>1, <1>2, <1>3, <2>1 DEF CallsInv, M!TypeOK, RunType
<1>5. Asked' = Asked + 1
  <2>1. (TickBatches - run.left) * Retries \in Int
    BY <1>3
  <2> QED
    BY <1>2, <1>3, <1>4, <2>1 DEF Asked
<1>6. made'[M!Utc(run.tick)] <= Stop - 1 + run'.n
  <2>1. made[M!Utc(run.tick)] <= Stop - 1 + run.n /\ M!Utc(run.tick) \in 0..M!Utc(MaxNow)
    BY <1>2, Runs DEF CallsInv, OneLadder
  <2>2. made'[M!Utc(run.tick)] <= made[M!Utc(run.tick)] + 1
    BY <1>2, <1>3, <2>1
  <2> QED
    BY <1>2, <1>3, <1>4, <2>1, <2>2
<1>7. Times' /\ NothingYet' /\ InBudget' /\ AfterMidnight' /\ OneLadder' /\ M!RoomIsLeft'
  BY <1>2, <1>3, <1>4, <1>5, <1>6, CallKeeps
<1>8. M!TypeOK'
  BY <1>2, <1>4 DEF CallsInv, M!TypeOK, RunType
<1> QED
  BY <1>2, <1>7, <1>8, GuardKeeps DEF CallsInv

LEMMA StartBatchKeeps ==
  ASSUME M!ModelCallsAssumption, CallsInv, M!StartBatch
  PROVE  CallsInv'
<1>1. /\ run.at = "check" /\ run.left > 0 /\ budget[M!Utc(run.tick)] < Stop
      /\ run' = [run EXCEPT !.at = "call", !.left = @ - 1, !.n = 1, !.started = now]
      /\ made' = [made EXCEPT ![M!Utc(now)] = @ + 1]
      /\ UNCHANGED <<now, tail, rows, budget, sent, told, upsets>>
  BY DEF M!StartBatch, M!BudgetOpen
<1>2. run.left \in 0..TickBatches /\ Retries \in Nat /\ Retries > 0 /\ TickBatches \in Nat /\ now \in 0..MaxNow
      /\ Stop \in Nat /\ made \in [0..M!Utc(MaxNow) -> Nat] /\ budget \in [0..M!Utc(MaxNow) -> Nat]
  BY Constants DEF CallsInv, M!TypeOK
<1>3. M!Utc(now) \in 0..M!Utc(MaxNow) /\ M!Utc(run.tick) \in 0..M!Utc(MaxNow)
  BY Runs
<1>4. /\ run' \in RunType /\ run'.at = "call" /\ run'.tick = run.tick /\ run'.started = now
      /\ run'.n = 1 /\ run'.left = run.left - 1
  <2>1. run.left - 1 \in 0..TickBatches /\ 1 \in 0..Retries
    BY <1>1, <1>2
  <2> QED
    BY <1>1, <1>2, <2>1 DEF CallsInv, M!TypeOK, RunType
<1>5. Asked' = Asked + 1
  <2>1. (TickBatches - run'.left) * Retries = (TickBatches - run.left) * Retries + Retries
        /\ (TickBatches - run.left) * Retries \in Int
    <3>1. /\ run.left \in Nat /\ run.left <= TickBatches /\ run'.left = run.left - 1
      BY <1>1, <1>2, <1>4
    <3>2. /\ (TickBatches - run.left) * Retries = TickBatches * Retries - run.left * Retries
          /\ (TickBatches - run.left) * Retries \in Nat
      BY <1>2, <3>1, Products
    <3>3. TickBatches - run'.left = (TickBatches - run.left) + 1 /\ TickBatches - run.left \in Nat
      BY <1>2, <3>1
    <3>4. \A x \in Nat : (x + 1) * Retries = x * Retries + Retries
      BY <1>2
    <3> QED
      BY <3>2, <3>3, <3>4
  <2>2. Asked = (TickBatches - run.left) * Retries
    BY <1>1, <2>1 DEF Asked
  <2>3. Asked' = (TickBatches - run'.left) * Retries - (Retries - 1)
    BY <1>4 DEF Asked
  <2> QED
    BY <1>2, <2>1, <2>2, <2>3
<1>6. \A d \in 0..M!Utc(MaxNow) : made[d] <= budget[d]
  <2>1. \A d \in 0..M!Utc(MaxNow) : made[d] <= budget[d] + 0
    BY <1>1 DEF CallsInv, InBudget, UnderWay
  <2> QED
    BY <1>2, <2>1
<1>7. /\ made' \in [0..M!Utc(MaxNow) -> Nat] /\ made'[M!Utc(now)] > 0
      /\ \A d \in 0..M!Utc(MaxNow) : made'[d] = made[d] + (IF d = M!Utc(now) THEN 1 ELSE 0)
  BY <1>1, <1>2, <1>3, SMTT(30)
<1>8. \A d \in 0..M!Utc(MaxNow) : /\ made'[d] <= made[d] + (IF d = M!Utc(now) THEN 1 ELSE 0)
                                /\ made'[d] <= budget'[d] + (IF d = M!Utc(now) THEN 1 ELSE 0)
  BY <1>1, <1>2, <1>6, <1>7
<1>9. made'[M!Utc(run.tick)] <= Stop - 1 + run'.n
  BY <1>1, <1>2, <1>3, <1>4, <1>6, <1>7
<1>10. Times' /\ NothingYet' /\ InBudget' /\ AfterMidnight' /\ OneLadder' /\ M!RoomIsLeft'
  BY <1>1, <1>2, <1>4, <1>5, <1>7, <1>8, <1>9, CallKeeps
<1>11. M!TypeOK'
  BY <1>1, <1>4, <1>7 DEF CallsInv, M!TypeOK, RunType
<1>12. InOrder' /\ M!AlertsAreOfTheirDay'
  BY <1>1 DEF CallsInv, InOrder, M!AlertsAreOfTheirDay
<1> QED
  BY <1>10, <1>11, <1>12 DEF CallsInv

LEMMA TickKeeps ==
  ASSUME M!ModelCallsAssumption, CallsInv, M!Tick
  PROVE  CallsInv'
<1>1. /\ run' = [M!Idle EXCEPT !.at = "check", !.tick = now, !.left = TickBatches] /\ run.at = "idle"
      /\ UNCHANGED <<now, tail, rows, budget, sent, made, told, upsets>>
  BY DEF M!Tick
<1>2. now \in 0..MaxNow /\ TickBatches \in Nat /\ Retries \in Nat
  BY Constants DEF CallsInv, M!TypeOK
<1>3. run' \in RunType /\ run'.at = "check" /\ run'.tick = now /\ run'.left = TickBatches
  <2>1. 0 \in 0..Retries /\ 0 \in 0..MaxNow /\ TickBatches \in 0..TickBatches
    BY Constants
  <2>2. run' = [at |-> "check", tick |-> now, left |-> TickBatches, n |-> 0, started |-> 0]
    BY <1>1 DEF M!Idle
  <2> QED
    BY <1>2, <2>1, <2>2 DEF RunType
<1>4. M!TypeOK'
  BY <1>1, <1>3 DEF CallsInv, M!TypeOK, RunType
<1>5. Times' /\ NothingYet' /\ OneLadder' /\ M!RoomIsLeft' /\ InOrder' /\ M!AlertsAreOfTheirDay'
  BY <1>1, <1>2, <1>3 DEF CallsInv, Times, NothingYet, OneLadder, M!RoomIsLeft, InOrder, M!AlertsAreOfTheirDay
<1>6. InBudget'
  BY <1>1, <1>3 DEF CallsInv, InBudget, UnderWay
<1>7. AfterMidnight'
  <2>1. (TickBatches - TickBatches) * Retries = 0
    BY <1>2
  <2>2. Asked' = 0
    BY <1>3, <2>1 DEF Asked
  <2>3. \A d \in 0..M!Utc(MaxNow) : d > M!Utc(now) => made[d] <= 0
    BY DEF CallsInv, NothingYet
  <2> QED
    BY <1>1, <1>3, <2>2, <2>3 DEF AfterMidnight
<1> QED
  BY <1>4, <1>5, <1>6, <1>7 DEF CallsInv

\* A tailoring is charged to the budget, and to nothing else.
LEMMA BudgetGrows ==
  ASSUME M!ModelCallsAssumption, CallsInv, UNCHANGED <<now, run, rows, sent, made, told>>,
         budget' \in [0..M!Utc(MaxNow) -> Nat], \A d \in 0..M!Utc(MaxNow) : budget[d] <= budget'[d]
  PROVE  /\ Times' /\ NothingYet' /\ InBudget' /\ AfterMidnight' /\ OneLadder' /\ M!RoomIsLeft'
         /\ InOrder' /\ M!AlertsAreOfTheirDay'
<1>1. InBudget'
  <2>1. ASSUME NEW d \in 0..M!Utc(MaxNow) PROVE made[d] <= budget'[d] + UnderWay(d)
    <3>1. made[d] <= budget[d] + UnderWay(d) /\ UnderWay(d) \in {0, 1}
      BY DEF CallsInv, InBudget, UnderWay
    <3>2. made[d] \in Nat /\ budget[d] \in Nat /\ budget'[d] \in Nat /\ budget[d] <= budget'[d]
      BY DEF CallsInv, M!TypeOK
    <3> QED
      BY <3>1, <3>2
  <2>2. run.at = "call" => made[M!Utc(run.started)] > 0
    BY DEF CallsInv, InBudget
  <2> QED
    BY <2>1, <2>2 DEF InBudget, UnderWay
<1> QED
  BY <1>1 DEF CallsInv, Times, NothingYet, AfterMidnight, Asked, OneLadder, M!RoomIsLeft, InOrder, M!AlertsAreOfTheirDay

LEMMA StartTailoringKeeps ==
  ASSUME M!ModelCallsAssumption, CallsInv, M!StartTailoring
  PROVE  CallsInv'
<1>1. /\ tail' = [at |-> "call", n |-> 1, bad |-> 0, started |-> now]
      /\ upsets < MaxUpsets /\ upsets' = upsets + 1
      /\ UNCHANGED <<now, run, rows, budget, sent, made, told>>
  BY DEF M!StartTailoring
<1>2. now \in 0..MaxNow /\ upsets \in 0..MaxUpsets /\ MaxUpsets \in Nat /\ budget \in [0..M!Utc(MaxNow) -> Nat]
  BY Constants DEF CallsInv, M!TypeOK
<1>3. upsets' \in 0..MaxUpsets /\ 1 \in 0..Transient /\ 0 \in 0..(Malformed - 1)
  BY <1>1, <1>2, Constants, SMTT(30)
<1>4. tail' \in [at : {"idle", "call"}, n : 0..Transient, bad : 0..(Malformed - 1), started : 0..MaxNow]
  BY <1>1, <1>2, <1>3
<1>5. M!TypeOK'
  BY <1>1, <1>3, <1>4 DEF CallsInv, M!TypeOK
<1>6. \A d \in 0..M!Utc(MaxNow) : budget[d] <= budget'[d]
  BY <1>1, <1>2
<1> QED
  BY <1>1, <1>2, <1>5, <1>6, BudgetGrows DEF CallsInv

LEMMA TailoringKeeps ==
  ASSUME M!ModelCallsAssumption, CallsInv, NEW outcome \in {"good", "malformed", "transient", "fatal"},
         NEW kept \in M!Kept, M!Tailoring(outcome, kept)
  PROVE  CallsInv'
<1> DEFINE bad == IF outcome = "malformed" THEN tail.bad + 1 ELSE tail.bad
           again == outcome \in {"malformed", "transient"} /\ bad < Malformed /\ tail.n < Transient
<1>1. /\ M!Failing(kept) /\ M!Charge(tail.started, "none", kept)
      /\ tail' = IF again THEN [tail EXCEPT !.n = @ + 1, !.bad = bad, !.started = now] ELSE M!NoTailoring
      /\ UNCHANGED <<now, run, rows, sent, made, told>>
  BY DEF M!Tailoring
<1>2. now \in 0..MaxNow /\ upsets \in 0..MaxUpsets /\ MaxUpsets \in Nat /\ budget \in [0..M!Utc(MaxNow) -> Nat]
      /\ tail \in [at : {"idle", "call"}, n : 0..Transient, bad : 0..(Malformed - 1), started : 0..MaxNow]
      /\ MaxNow \in Nat
  BY Constants DEF CallsInv, M!TypeOK
<1>3. upsets' \in 0..MaxUpsets
  BY <1>1, <1>2 DEF M!Failing
<1>4. tail' \in [at : {"idle", "call"}, n : 0..Transient, bad : 0..(Malformed - 1), started : 0..MaxNow]
  <2>1. M!NoTailoring \in [at : {"idle", "call"}, n : 0..Transient, bad : 0..(Malformed - 1), started : 0..MaxNow]
    BY Constants DEF M!NoTailoring
  <2>2. ASSUME again PROVE tail.n + 1 \in 0..Transient /\ bad \in 0..(Malformed - 1)
    <3>1. tail.n \in 0..Transient /\ tail.bad \in 0..(Malformed - 1) /\ Transient \in Nat /\ Malformed \in Nat
      BY <1>2, Constants
    <3>2. bad \in Nat
      BY <3>1
    <3> QED
      BY <2>2, <3>1, <3>2
  <2> HIDE DEF bad
  <2>3. CASE again
    BY <1>1, <1>2, <2>2, <2>3
  <2> HIDE DEF again
  <2> QED
    BY <1>1, <2>1, <2>3
<1>5. budget' \in [0..M!Utc(MaxNow) -> Nat] /\ \A d \in 0..M!Utc(MaxNow) : budget[d] <= budget'[d]
  <2>1. tail.started \in Nat /\ tail.started <= MaxNow
    BY <1>2
  <2>2. M!Utc(tail.started) \in 0..M!Utc(MaxNow)
    <3>1. M!Utc(tail.started) \in Nat /\ M!Utc(tail.started) <= M!Utc(MaxNow) /\ M!Utc(MaxNow) \in Nat
      BY <1>2, <2>1, Days
    <3> QED
      BY <3>1
  <2>3. budget' = IF kept = "all" THEN [budget EXCEPT ![M!Utc(tail.started)] = @ + 1] ELSE budget
    BY <1>1 DEF M!Charge, M!Charged
  <2> QED
    BY <1>2, <2>2, <2>3
<1>6. M!TypeOK'
  BY <1>1, <1>3, <1>4, <1>5 DEF CallsInv, M!TypeOK
<1> QED
  BY <1>1, <1>5, <1>6, BudgetGrows DEF CallsInv

\* A day over the threshold has an answer of a fallback model.
LEMMA SomeFallback ==
  ASSUME M!ModelCallsAssumption, M!TypeOK, NEW day \in 1..M!Rome(MaxNow), M!OverThreshold(day)
  PROVE  \E t \in 0..MaxNow : M!Rome(t) = day /\ rows[t]["fallback"] > 0
<1>1. \A t \in 0..MaxNow : rows[t]["primary"] \in Nat /\ rows[t]["fallback"] \in Nat
  BY DEF M!TypeOK, M!Models
<1>2. \A t \in Int : M!Started(t, "primary") \in Nat /\ M!Started(t, "fallback") \in Nat
  BY <1>1 DEF M!Started
<1>3. day \in Nat /\ day > 0 /\ MaxNow \in Nat
  BY Constants
<1>4. M!Number(day, "primary") \in Nat /\ M!Number(day, "fallback") \in Nat
  BY <1>2, <1>3 DEF M!Number, M!OfDay
<1>5. Percent * (M!Number(day, "primary") + M!Number(day, "fallback")) \in Nat
  BY <1>4, Constants
<1>6. M!Number(day, "fallback") > 0
  BY <1>4, <1>5 DEF M!OverThreshold
<1>7. PICK t \in {2 * day - 3, 2 * day - 2} : M!Started(t, "fallback") > 0
  <2>1. M!Started(2 * day - 3, "fallback") \in Nat /\ M!Started(2 * day - 2, "fallback") \in Nat
    BY <1>2, <1>3
  <2>2. M!Number(day, "fallback") = M!Started(2 * day - 3, "fallback") + M!Started(2 * day - 2, "fallback")
    BY DEF M!Number, M!OfDay
  <2> QED
    BY <1>6, <2>1, <2>2
<1>8. t \in 0..MaxNow /\ rows[t]["fallback"] > 0
  BY <1>7 DEF M!Started
<1>9. M!Rome(t) = day
  BY <1>3, <1>7 DEF M!Rome
<1> QED
  BY <1>8, <1>9

LEMMA RunGuardKeeps ==
  ASSUME M!ModelCallsAssumption, CallsInv, NEW heard \in {"noted", "refused", "unnoted"}, M!RunGuard(heard)
  PROVE  CallsInv'
<1> DEFINE today == M!Rome(now)
<1>1. /\ M!OverThreshold(today) /\ sent # today
      /\ (heard = "unnoted" => upsets < MaxUpsets)
      /\ sent' = IF heard = "noted" THEN today ELSE sent
      /\ told' = IF heard = "noted" THEN [told EXCEPT ![today] = @ + 1] ELSE told
      /\ upsets' = IF heard = "unnoted" THEN upsets + 1 ELSE upsets
      /\ UNCHANGED <<now, run, tail, rows, budget, made>>
  BY DEF M!RunGuard
<1>2. today \in 1..M!Rome(MaxNow) /\ M!Rome(MaxNow) \in Nat /\ sent \in Nat /\ sent <= today /\ sent \in 0..M!Rome(MaxNow)
      /\ MaxUpsets \in Nat /\ upsets \in 0..MaxUpsets /\ told \in [1..M!Rome(MaxNow) -> Nat]
  <2>1. sent \in 0..M!Rome(MaxNow) /\ sent <= M!Rome(now) /\ upsets \in 0..MaxUpsets /\ told \in [1..M!Rome(MaxNow) -> Nat]
    BY DEF CallsInv, M!TypeOK, Times
  <2> QED
    BY <2>1, Runs, Constants
<1>3. PICK t \in 0..MaxNow : M!Rome(t) = today /\ rows[t]["fallback"] > 0
  BY <1>1, <1>2, SomeFallback DEF CallsInv
<1> HIDE DEF today
<1>4. told[today] = 0
  <2>1. told[today] > 0 => today <= sent
    BY <1>2 DEF CallsInv, InOrder
  <2> QED
    BY <1>1, <1>2, <2>1
<1>5. M!TypeOK'
  <2>1. sent' \in 0..M!Rome(MaxNow) /\ told' \in [1..M!Rome(MaxNow) -> Nat] /\ upsets' \in 0..MaxUpsets
    BY <1>1, <1>2
  <2> QED
    BY <1>1, <2>1 DEF CallsInv, M!TypeOK
<1>6. Times'
  BY <1>1, <1>2 DEF CallsInv, Times, today
<1>7. InOrder'
  <2>1. ASSUME NEW d \in 1..M!Rome(MaxNow), told'[d] > 0 PROVE d <= sent'
    <3>1. CASE d = today /\ heard = "noted"
      BY <1>1, <1>2, <3>1
    <3>2. CASE ~(d = today /\ heard = "noted")
      <4>1. told'[d] = told[d]
        BY <1>1, <1>2, <3>2
      <4>2. d <= sent
        BY <2>1, <4>1 DEF CallsInv, InOrder
      <4> QED
        BY <1>1, <1>2, <4>2
    <3> QED
      BY <3>1, <3>2
  <2> QED
    BY <2>1 DEF InOrder
<1>8. M!AlertsAreOfTheirDay'
  <2>1. ASSUME NEW d \in 1..M!Rome(MaxNow)
        PROVE  told'[d] <= 1 /\ (told'[d] = 1 => \E x \in 0..MaxNow : M!Rome(x) = d /\ rows[x]["fallback"] > 0)
    <3>1. CASE d = today /\ heard = "noted"
      BY <1>1, <1>2, <1>3, <1>4, <3>1
    <3>2. CASE ~(d = today /\ heard = "noted")
      <4>1. told'[d] = told[d] /\ d \in DOMAIN told
        BY <1>1, <1>2, <3>2
      <4> QED
        BY <4>1 DEF CallsInv, M!AlertsAreOfTheirDay
    <3> QED
      BY <3>1, <3>2
  <2>2. DOMAIN told' = 1..M!Rome(MaxNow)
    BY <1>1, <1>2
  <2> QED
    BY <1>1, <2>1, <2>2 DEF M!AlertsAreOfTheirDay
<1> QED
  BY <1>1, <1>5, <1>6, <1>7, <1>8 DEF CallsInv, NothingYet, InBudget, UnderWay, AfterMidnight, Asked, OneLadder,
     M!RoomIsLeft

LEMMA LaterKeeps ==
  ASSUME M!ModelCallsAssumption, CallsInv, M!Later
  PROVE  CallsInv'
<1>1. /\ now < MaxNow /\ now' = now + 1
      /\ UNCHANGED <<run, tail, rows, budget, sent, made, told, upsets>>
  BY DEF M!Later
<1>2. now \in Nat /\ MaxNow \in Nat /\ now' \in 0..MaxNow /\ sent \in Nat /\ run.tick \in Nat /\ run.started \in Nat
  <2>1. sent \in 0..M!Rome(MaxNow)
    BY DEF CallsInv, M!TypeOK
  <2> QED
    BY <1>1, <2>1, Runs, Constants
<1>3. M!TypeOK'
  BY <1>1, <1>2 DEF CallsInv, M!TypeOK
<1>4. M!Utc(now) \in Nat /\ M!Utc(now') \in Nat /\ M!Utc(now) <= M!Utc(now')
      /\ M!Rome(now) \in Nat /\ M!Rome(now') \in Nat /\ M!Rome(now) <= M!Rome(now')
  BY <1>1, <1>2, Days
<1>5. Times'
  BY <1>1, <1>2, <1>4 DEF CallsInv, Times
<1>6. NothingYet'
  BY <1>1, <1>4 DEF CallsInv, NothingYet
<1> QED
  BY <1>1, <1>3, <1>5, <1>6 DEF CallsInv, InBudget, UnderWay, AfterMidnight, Asked, OneLadder,
     M!RoomIsLeft, InOrder, M!AlertsAreOfTheirDay

LEMMA CallsStep == ASSUME M!ModelCallsAssumption, CallsInv, [M!Next]_(M!vars) PROVE CallsInv'
<1>1. CASE UNCHANGED M!vars
  BY <1>1 DEF M!vars, CallsInv, M!TypeOK, Times, NothingYet, InBudget, UnderWay, AfterMidnight, Asked, OneLadder,
     M!RoomIsLeft, InOrder, M!AlertsAreOfTheirDay
<1>2. CASE \E kept \in M!Kept, who \in M!Answers : M!Answered(who, kept) \/ M!TriedAgain(who, kept) \/ M!GivenUp(who, kept)
  BY <1>2, AnsweredKeeps, TriedAgainKeeps, GivenUpKeeps
<1>3. CASE \E kept \in M!Kept, outcome \in {"good", "malformed", "transient", "fatal"} : M!Tailoring(outcome, kept)
  BY <1>3, TailoringKeeps
<1> QED
  BY <1>1, <1>2, <1>3, TickKeeps, StartBatchKeeps, EndsKeep, StartTailoringKeeps, LaterKeeps, RunGuardKeeps
     DEF M!Next

LEMMA CallsInvariance == ASSUME M!ModelCallsAssumption PROVE M!Spec => []CallsInv
BY CallsInit, CallsStep, PTL DEF M!Spec

\* On a day of the budget the stages make at most one ladder of requests past the stop line, but
\* for those a fault kept out of the budget (llm_stages.py, jobstore/budget.py).
THEOREM RoomForTailoring == ASSUME M!ModelCallsAssumption PROVE M!Spec => []M!RoomIsLeft
<1>1. CallsInv => M!RoomIsLeft
  BY DEF CallsInv
<1> QED
  BY <1>1, CallsInvariance, PTL

\* A day that the guard reports is one on which a fallback model did answer, and each day is
\* reported once, whatever fails or dies around its alert (llm_fallback.py run_guard).
THEOREM AlertsAreTrue == ASSUME M!ModelCallsAssumption PROVE M!Spec => []M!AlertsAreOfTheirDay
<1>1. CallsInv => M!AlertsAreOfTheirDay
  BY DEF CallsInv
<1> QED
  BY <1>1, CallsInvariance, PTL

\* The variables keep their types: attempts on their ladders, requests within the days explored
\* (llm_stages.py, tailor/client.py).
THEOREM CallsKeepTypes == ASSUME M!ModelCallsAssumption PROVE M!Spec => []M!TypeOK
<1>1. CallsInv => M!TypeOK
  BY DEF CallsInv
<1> QED
  BY <1>1, CallsInvariance, PTL

-----------------------------------------------------------------------------
(* The archive never takes an outdated copy for a current one.              *)

CONSTANTS Jobs, OnLinkedIn, MaxAttempts, CopyBatch, CopyUpsets
VARIABLES store, stamped, old, fails, neon, batch, pass

U == INSTANCE Upkeep WITH BatchSize <- CopyBatch, MaxUpsets <- CopyUpsets

\* The types the proof needs.
Shapes ==
  /\ store \in [Jobs -> U!Rows] /\ stamped \subseteq Jobs
  /\ neon \in [Jobs -> U!Rows \cup {U!NoCopy}]
  /\ batch \in [jobs : SUBSET Jobs, read : [Jobs -> U!Rows \cup {U!NoCopy}], sent : BOOLEAN]

\* A job that may still come back to the queue was never alerted.
AlertedIsScored == \A j \in Jobs : store[j].stage \in {"seen", "expired"} => ~store[j].alerted

\* What a batch read is still so, and is what Neon has once it was sent.
BatchIsCurrent ==
  \A j \in batch.jobs : batch.read[j] = store[j] /\ (batch.sent => neon[j] = batch.read[j])

CopyInv == Shapes /\ AlertedIsScored /\ BatchIsCurrent /\ U!CopyIsCurrent

-----------------------------------------------------------------------------
LEMMA CopyInit == U!Init => CopyInv
BY DEF U!Init, CopyInv, Shapes, AlertedIsScored, BatchIsCurrent, U!CopyIsCurrent, U!Rows, U!NoBatch, U!NoCopy

\* What the processor and the operator write is neither alerted nor locked.
LEMMA StageKeeps ==
  ASSUME CopyInv, NEW j \in Jobs, U!Score(j) \/ U!Expire(j) \/ U!Undo(j) \/ U!Revive(j)
  PROVE  CopyInv'
<1>1. /\ store[j].stage \in {"seen", "expired"} /\ j \notin batch.jobs
      /\ \E stage \in {"seen", "scored", "expired"} : store' = [store EXCEPT ![j].stage = stage]
      /\ stamped' \subseteq stamped /\ UNCHANGED <<neon, batch>>
  BY DEF U!Score, U!Expire, U!Undo, U!Revive, U!Writable, U!SetStage
<1>2. PICK stage \in {"seen", "scored", "expired"} : store' = [store EXCEPT ![j].stage = stage]
  BY <1>1
<1>3. store'[j] = [store[j] EXCEPT !.stage = stage] /\ ~store'[j].alerted
  BY <1>1, <1>2 DEF CopyInv, Shapes, U!Rows, AlertedIsScored
<1>4. \A k \in Jobs \ {j} : store'[k] = store[k]
  BY <1>2 DEF CopyInv, Shapes
<1>5. Shapes'
  BY <1>1, <1>2 DEF CopyInv, Shapes, U!Rows
<1>6. store'[j].stage = stage
  BY <1>3 DEF CopyInv, Shapes, U!Rows
<1> QED
  BY <1>1, <1>3, <1>4, <1>5, <1>6 DEF CopyInv, Shapes, AlertedIsScored, BatchIsCurrent, U!CopyIsCurrent

\* An alert, a digest and a package clear archived_at of what they write.
LEMMA DeliveryKeeps ==
  ASSUME CopyInv, NEW j \in Jobs, U!Alert(j) \/ U!Deliver \/ U!Package(j)
  PROVE  CopyInv'
<1>1. CASE U!Alert(j)
  <2>1. /\ batch.jobs = {} /\ store[j].stage = "scored" /\ store' = [store EXCEPT ![j].alerted = TRUE]
        /\ stamped' = stamped \ {j} /\ UNCHANGED <<neon, batch>>
    BY <1>1 DEF U!Alert, U!Free, U!NoBatch
  <2>2. store'[j].stage = "scored" /\ \A k \in Jobs \ {j} : store'[k] = store[k]
    BY <2>1 DEF CopyInv, Shapes, U!Rows
  <2> QED
    BY <2>1, <2>2, ZenonT(60) DEF CopyInv, Shapes, U!Rows, AlertedIsScored, BatchIsCurrent, U!CopyIsCurrent
<1>2. CASE U!Deliver
  <2> DEFINE due == {k \in Jobs : store[k].stage = "scored"}
  <2>1. /\ batch.jobs = {} /\ stamped' = stamped \ due /\ UNCHANGED <<neon, batch>>
        /\ store' = [k \in Jobs |-> IF k \in due THEN [store[k] EXCEPT !.stage = "delivered"] ELSE store[k]]
    BY <1>2 DEF U!Deliver, U!Free, U!NoBatch
  <2>2. \A k \in Jobs : IF k \in due THEN store'[k].stage = "delivered" ELSE store'[k] = store[k]
    BY <2>1 DEF CopyInv, Shapes, U!Rows
  <2>3. Shapes'
    BY <2>1 DEF CopyInv, Shapes, U!Rows
  <2> QED
    BY <2>1, <2>2, <2>3 DEF CopyInv, Shapes, AlertedIsScored, BatchIsCurrent, U!CopyIsCurrent
<1>3. CASE U!Package(j)
  <2>1. /\ j \notin batch.jobs /\ store' = [store EXCEPT ![j].packaged = TRUE]
        /\ stamped' = stamped \ {j} /\ UNCHANGED <<neon, batch>>
    BY <1>3 DEF U!Package, U!Writable, U!Unstamped
  <2>2. /\ store'[j].stage = store[j].stage /\ store'[j].alerted = store[j].alerted
        /\ \A k \in Jobs \ {j} : store'[k] = store[k]
    BY <2>1 DEF CopyInv, Shapes, U!Rows
  <2>3. Shapes'
    BY <2>1 DEF CopyInv, Shapes, U!Rows
  <2> QED
    BY <2>1, <2>2, <2>3 DEF CopyInv, Shapes, AlertedIsScored, BatchIsCurrent, U!CopyIsCurrent
<1> QED
  BY <1>1, <1>2, <1>3

\* A copy stamps what Neon has, and what it sends is as it is in the store.
LEMMA CopyKeeps == ASSUME CopyInv, U!Copy PROVE CopyInv'
<1>1. CASE U!ReadBatch
  <2>1. PICK jobs \in SUBSET Jobs : batch' = [jobs |-> jobs, read |-> store, sent |-> FALSE]
    BY <1>1 DEF U!ReadBatch
  <2>2. UNCHANGED <<store, stamped, neon>>
    BY <1>1 DEF U!ReadBatch
  <2> QED
    BY <2>1, <2>2 DEF CopyInv, Shapes, AlertedIsScored, BatchIsCurrent, U!CopyIsCurrent
<1>2. CASE U!SendBatch
  <2>1. /\ UNCHANGED <<store, stamped>> /\ batch' = [batch EXCEPT !.sent = TRUE]
        /\ neon' = [j \in Jobs |-> IF j \in batch.jobs THEN batch.read[j] ELSE neon[j]]
    BY <1>2 DEF U!SendBatch
  <2>2. batch'.jobs = batch.jobs /\ batch'.read = batch.read /\ Shapes'
    BY <2>1 DEF CopyInv, Shapes
  <2>3. \A j \in Jobs : neon'[j] = IF j \in batch.jobs THEN batch.read[j] ELSE neon[j]
    BY <2>1
  <2> QED
    BY <2>1, <2>2, <2>3 DEF CopyInv, Shapes, AlertedIsScored, BatchIsCurrent, U!CopyIsCurrent
<1>3. CASE U!StampBatch
  <2>1. batch.sent /\ stamped' = stamped \cup batch.jobs /\ batch' = U!NoBatch /\ UNCHANGED <<store, neon>>
    BY <1>3 DEF U!StampBatch
  <2> QED
    BY <2>1 DEF CopyInv, Shapes, AlertedIsScored, BatchIsCurrent, U!CopyIsCurrent, U!NoBatch
<1> QED
  BY <1>1, <1>2, <1>3 DEF U!Copy

\* The other steps touch neither the store nor the archive, and at most drop a batch.
LEMMA OthersKeep ==
  ASSUME CopyInv, UNCHANGED <<store, stamped, neon>>, batch' = batch \/ batch' = U!NoBatch
  PROVE  CopyInv'
<1>1. CASE batch' = batch
  BY <1>1 DEF CopyInv, Shapes, AlertedIsScored, BatchIsCurrent, U!CopyIsCurrent
<1>2. CASE batch' = U!NoBatch
  <2>1. batch'.jobs = {} /\ batch' \in [jobs : SUBSET Jobs, read : [Jobs -> U!Rows \cup {U!NoCopy}], sent : BOOLEAN]
    BY <1>2 DEF U!NoBatch
  <2> QED
    BY <2>1 DEF CopyInv, Shapes, AlertedIsScored, BatchIsCurrent, U!CopyIsCurrent
<1> QED
  BY <1>1, <1>2

LEMMA CopyStep == CopyInv /\ [U!Next]_(U!vars) => CopyInv'
<1> SUFFICES ASSUME CopyInv, [U!Next]_(U!vars) PROVE CopyInv'
  OBVIOUS
<1>1. ASSUME NEW j \in Jobs, U!Defer(j) \/ U!PackageFails(j) \/ U!Ages(j) \/ U!RetryDue(j) PROVE CopyInv'
  BY <1>1, OthersKeep DEF U!Defer, U!PackageFails, U!Ages, U!RetryDue
<1>2. CASE U!StartPass \/ U!GiveUpPass \/ U!NeonFails \/ U!Crash
  BY <1>2, OthersKeep DEF U!StartPass, U!GiveUpPass, U!NeonFails, U!Crash
<1>3. CASE UNCHANGED U!vars
  BY <1>3, OthersKeep DEF U!vars
<1>4. ASSUME NEW j \in Jobs, U!Score(j) \/ U!Expire(j) \/ U!Undo(j) \/ U!Revive(j) PROVE CopyInv'
  BY <1>4, StageKeeps
<1>5. ASSUME NEW j \in Jobs, U!Alert(j) \/ U!Package(j) PROVE CopyInv'
  BY <1>5, DeliveryKeeps
<1>6. CASE U!Deliver
  <2>1. CASE Jobs = {}
    BY <1>6, <2>1 DEF U!Deliver
  <2>2. ASSUME NEW j \in Jobs PROVE CopyInv'
    BY <1>6, DeliveryKeeps
  <2> QED
    BY <2>1, <2>2
<1> QED
  BY <1>1, <1>2, <1>3, <1>4, <1>5, <1>6, CopyKeeps DEF U!Next, U!Packaging

-----------------------------------------------------------------------------
\* archived_at set on an alerted or delivered job says that the archive has the job as it is
\* (archive.py:104-149, and the statements that clear archived_at), whatever the processor, the
\* operator, Neon or a crash does between the steps of a copy.
THEOREM CopyStaysCurrent == U!Spec => []U!CopyIsCurrent
<1>1. CopyInv => U!CopyIsCurrent
  BY DEF CopyInv
<1> QED
  BY <1>1, CopyInit, CopyStep, PTL DEF U!Spec

-----------------------------------------------------------------------------
\* A packaging that is left alone has had its attempts, one that is tried has some left.
Tries == [attempts : 0..MaxAttempts, waits : BOOLEAN, stopped : BOOLEAN]
Passes == [todo : SUBSET Jobs, waits : BOOLEAN]
HasTries(f) == f \in Tries /\ (~f.stopped => f.attempts < MaxAttempts)
PackagingFits ==
  /\ old \subseteq Jobs /\ upsets \in 0..CopyUpsets
  /\ fails \in [Jobs -> Tries] /\ \A j \in Jobs : HasTries(fails[j])
  /\ pass \in Passes /\ \A j \in pass.todo : ~fails[j].stopped

LEMMA PackagingBegins == ASSUME U!UpkeepAssumption, U!Init PROVE PackagingFits
BY DEF U!UpkeepAssumption, U!Init, PackagingFits, HasTries, Tries, Passes, U!NoFailure, U!NoPass

\* A pass goes on with what is left of it, or ends.
LEMMA PassGoesOn ==
  ASSUME PackagingFits, NEW j \in pass.todo, NEW waits \in BOOLEAN,
         pass' = U!EndOf([U!Done(j) EXCEPT !.waits = waits]) \/ pass' = U!EndOf(U!Done(j))
  PROVE  pass' \in Passes /\ pass'.todo \subseteq pass.todo \ {j}
<1> DEFINE rest == pass.todo \ {j}
<1>1. pass \in Passes
  BY DEF PackagingFits
<1>2. rest \in SUBSET Jobs /\ pass.waits \in BOOLEAN
  BY <1>1 DEF Passes
<1>3. /\ U!Done(j) = [todo |-> rest, waits |-> pass.waits]
      /\ [U!Done(j) EXCEPT !.waits = waits] = [todo |-> rest, waits |-> waits]
  <2> DEFINE held == pass.todo
             kept == pass.waits
  <2>1. pass = [todo |-> held, waits |-> kept]
    BY <1>1 DEF Passes
  <2>2. U!Done(j) = [pass EXCEPT !.todo = rest]
    BY DEF U!Done
  <2> HIDE DEF rest, held, kept
  <2>3. U!Done(j) = [todo |-> rest, waits |-> kept]
    BY ONLY <2>1, <2>2
  <2>4. [U!Done(j) EXCEPT !.waits = waits] = [todo |-> rest, waits |-> waits]
    BY ONLY <2>3
  <2> QED
    BY <2>3, <2>4 DEF kept
<1>4. \E w \in BOOLEAN : pass' = U!EndOf([todo |-> rest, waits |-> w])
  BY <1>2, <1>3
<1>5. PICK w \in BOOLEAN : pass' = U!EndOf([todo |-> rest, waits |-> w])
  BY <1>4
<1> DEFINE left == [todo |-> rest, waits |-> w]
<1>6. left \in Passes /\ left.todo = rest
  BY <1>2 DEF Passes
<1>7. U!NoPass \in Passes /\ U!NoPass.todo = {}
  BY DEF Passes, U!NoPass
<1>8. pass' = left \/ pass' = U!NoPass
  BY <1>5 DEF U!EndOf
<1> QED
  BY <1>6, <1>7, <1>8

LEMMA PackagingGoesOn ==
  ASSUME U!UpkeepAssumption, PackagingFits, NEW j \in Jobs, U!Defer(j) \/ U!Packaging(j) \/ U!RetryDue(j)
  PROVE  PackagingFits'
<1>1. CASE U!Defer(j) \/ U!Package(j)
  <2>1. j \in pass.todo /\ UNCHANGED <<old, fails, upsets>>
    BY <1>1 DEF U!Defer, U!Package, U!MayTry
  <2>2. pass' = U!EndOf([U!Done(j) EXCEPT !.waits = TRUE]) \/ pass' = U!EndOf(U!Done(j))
    BY <1>1 DEF U!Defer, U!Package
  <2>3. pass' \in Passes /\ pass'.todo \subseteq pass.todo \ {j}
    BY <2>1, <2>2, PassGoesOn
  <2> QED
    BY <2>1, <2>3 DEF PackagingFits
<1>2. CASE U!PackageFails(j)
  <2>1. j \in pass.todo /\ UNCHANGED <<old, upsets>> /\ fails' = [fails EXCEPT ![j] = U!Failed(fails[j])]
    BY <1>2 DEF U!PackageFails, U!MayTry
  <2>2. pass' \in Passes /\ pass'.todo \subseteq pass.todo \ {j}
    BY <1>2, <2>1, PassGoesOn DEF U!PackageFails
  <2>3. HasTries(U!Failed(fails[j]))
    <3> DEFINE f == fails[j]
    <3>1. f \in Tries /\ f.attempts < MaxAttempts /\ MaxAttempts \in Nat
      BY <2>1 DEF PackagingFits, HasTries, U!UpkeepAssumption
    <3>2. f.attempts \in Nat
      BY <3>1 DEF Tries
    <3> QED
      BY <3>1, <3>2 DEF HasTries, Tries, U!Failed
  <2>4. fails' \in [Jobs -> Tries] /\ fails'[j] = U!Failed(fails[j]) /\ \A k \in Jobs \ {j} : fails'[k] = fails[k]
    BY <2>1, <2>3 DEF PackagingFits, HasTries
  <2>5. \A k \in pass'.todo : ~fails'[k].stopped
    BY <2>2, <2>4 DEF PackagingFits, Passes
  <2> QED
    BY <2>1, <2>2, <2>3, <2>4, <2>5 DEF PackagingFits
<1>3. CASE U!RetryDue(j)
  <2>1. UNCHANGED <<old, upsets, pass>> /\ fails' = [fails EXCEPT ![j].waits = FALSE]
    BY <1>3 DEF U!RetryDue
  <2>2. /\ fails' \in [Jobs -> Tries] /\ fails'[j].stopped = fails[j].stopped
        /\ fails'[j].attempts = fails[j].attempts /\ \A k \in Jobs \ {j} : fails'[k] = fails[k]
    BY <2>1 DEF PackagingFits, Tries
  <2> QED
    BY <2>1, <2>2 DEF PackagingFits, HasTries, Passes
<1> QED
  BY <1>1, <1>2, <1>3 DEF U!Packaging

LEMMA PackagingStays == U!UpkeepAssumption /\ PackagingFits /\ [U!Next]_(U!vars) => PackagingFits'
<1> SUFFICES ASSUME U!UpkeepAssumption, PackagingFits, [U!Next]_(U!vars) PROVE PackagingFits'
  OBVIOUS
<1>1. ASSUME UNCHANGED fails, upsets' = upsets \/ (upsets < CopyUpsets /\ upsets' = upsets + 1),
             old' \subseteq Jobs, pass' = pass \/ pass' = U!NoPass
      PROVE  PackagingFits'
  <2>1. U!NoPass \in Passes /\ U!NoPass.todo = {}
    BY DEF Passes, U!NoPass
  <2>2. pass' \in Passes /\ pass'.todo \subseteq pass.todo
    BY <1>1, <2>1 DEF PackagingFits
  <2>3. upsets' \in 0..CopyUpsets
    BY <1>1 DEF PackagingFits, U!UpkeepAssumption
  <2> QED
    BY <1>1, <2>2, <2>3 DEF PackagingFits
<1>2. old \subseteq Jobs
  BY DEF PackagingFits
<1>3. CASE UNCHANGED U!vars
  BY <1>1, <1>2, <1>3 DEF U!vars
<1>4. ASSUME NEW j \in Jobs, U!Score(j) \/ U!Expire(j) \/ U!Undo(j) \/ U!Revive(j) \/ U!Alert(j) \/ U!Ages(j)
      PROVE  PackagingFits'
  BY <1>1, <1>2, <1>4 DEF U!Score, U!Expire, U!Undo, U!Revive, U!Alert, U!Ages
<1>5. ASSUME NEW j \in Jobs, U!Defer(j) \/ U!Packaging(j) \/ U!RetryDue(j) PROVE PackagingFits'
  BY <1>5, PackagingGoesOn
<1>6. CASE U!Deliver \/ U!GiveUpPass \/ U!NeonFails \/ U!Crash
  BY <1>1, <1>2, <1>6 DEF U!Deliver, U!GiveUpPass, U!NeonFails, U!Crash
<1>7. CASE U!Copy
  BY <1>1, <1>2, <1>7 DEF U!Copy, U!ReadBatch, U!SendBatch, U!StampBatch
<1>8. CASE U!StartPass
  <2>1. UNCHANGED <<old, fails, upsets>> /\ pass' = [U!NoPass EXCEPT !.todo = U!Candidates]
    BY <1>8 DEF U!StartPass
  <2>2. pass' \in Passes /\ pass'.todo = U!Candidates
    BY <2>1 DEF Passes, U!NoPass, U!Candidates
  <2>3. \A j \in U!Candidates : ~fails[j].stopped
    BY DEF U!Candidates, U!Gated
  <2> QED
    BY <2>1, <2>2, <2>3 DEF PackagingFits
<1> QED
  BY <1>3, <1>4, <1>5, <1>6, <1>7, <1>8 DEF U!Next

\* The failures of a package never exceed its attempts (autopackage.py); the store, the archive,
\* the copy under way and the pass over the packages keep their types.
THEOREM UpkeepTypes == ASSUME U!UpkeepAssumption PROVE U!Spec => []U!TypeOK
<1>1. U!Init => CopyInv /\ PackagingFits
  BY CopyInit, PackagingBegins
<1>2. (CopyInv /\ PackagingFits) /\ [U!Next]_(U!vars) => (CopyInv /\ PackagingFits)'
  BY CopyStep, PackagingStays
<1>3. CopyInv /\ PackagingFits => U!TypeOK
  BY DEF CopyInv, Shapes, PackagingFits, Tries, Passes, U!TypeOK
<1> QED
  BY <1>1, <1>2, <1>3, PTL DEF U!Spec

-----------------------------------------------------------------------------
(* The order of the description queue is fair.                              *)

CONSTANTS Tiers, Orders, PickPlaces, OneIn, AgeOutTiers, MinClass, Room
VARIABLES mode, order, line, older, picks, owed, since

P == INSTANCE Picks WITH Places <- PickPlaces

\* Counting, in the terms of the module.
LEMMA PicksCount ==
  /\ \A S : P!IsFiniteSet(S) <=> IsFiniteSet(S)
  /\ \A S : P!Cardinality(S) = Cardinality(S)
<1>1. \A S : P!IsFiniteSet(S) <=> IsFiniteSet(S)
  BY DEF IsFiniteSet, P!IsFiniteSet
<1>2. ASSUME NEW S PROVE P!Cardinality(S) = Cardinality(S)
  BY DEF Cardinality, P!Cardinality
<1> QED
  BY <1>1, <1>2

LEMMA TiersAreFinite ==
  ASSUME P!PicksAssumption
  PROVE  IsFiniteSet(Tiers) /\ Cardinality(Tiers) \in Nat
<1>1. IsFiniteSet(Tiers)
  BY PicksCount DEF P!PicksAssumption
<1> QED
  BY <1>1, FS_CardinalityType

LEMMA Modulo ==
  ASSUME NEW n \in Nat \ {0}, NEW a \in 0..n
  PROVE  a % n = IF a = n THEN 0 ELSE a
<1> DEFINE q == a \div n
           r == a % n
<1>1. q \in Int /\ r \in 0..(n - 1) /\ a = n * q + r
  OBVIOUS
<1> HIDE DEF q, r
<1>2. q >= 2 => n * q >= n + n
  BY <1>1
<1>3. q <= -1 => n * q <= -n
  BY <1>1
<1>4. q = 0 => n * q = 0
  OBVIOUS
<1>5. q = 1 => n * q = n
  OBVIOUS
<1>6. q \in {0, 1}
  <2>1. ~(q >= 2) /\ ~(q <= -1)
    BY <1>1, <1>2, <1>3
  <2> QED
    BY <1>1, <2>1
<1> QED
  BY <1>1, <1>4, <1>5, <1>6 DEF r

\* A set of numbers has a least one.
Smaller == {pair \in Nat \X Nat : pair[1] < pair[2]}
LEMMA LeastNumber ==
  ASSUME NEW set \in SUBSET Nat, set # {}
  PROVE  \E m \in set : \A x \in set : m <= x
<1>1. IsWellFoundedOn(Smaller, Nat)
  BY NatLessThanWellFounded DEF OpToRel, Smaller
<1>2. PICK m \in set : \A x \in set : ~(<<x, m>> \in Smaller)
  BY <1>1, WFMin
<1>3. \A x \in set : ~(x < m)
  BY <1>2 DEF Smaller
<1> QED
  BY <1>3

-----------------------------------------------------------------------------
(* The turns.                                                               *)

\* The last turns are ordered, but for ties.
TurnsAreOrdered ==
  /\ older \subseteq Tiers \X Tiers
  /\ \A t \in Tiers : ~P!Older(t, t)
  /\ \A t, u, v \in Tiers : P!Older(t, u) /\ P!Older(u, v) => P!Older(t, v)
  /\ \A t, u, v \in Tiers : P!Older(t, v) => P!Older(t, u) \/ P!Older(u, v)

\* So every two tiers are, one before the other.
LEMMA BeforeOrders ==
  ASSUME P!PicksAssumption, TurnsAreOrdered
  PROVE  /\ \A t \in Tiers : P!Before(t, t)
         /\ \A t, u \in Tiers : P!Before(t, u) \/ P!Before(u, t)
         /\ \A t, u \in Tiers : P!Before(t, u) /\ P!Before(u, t) => t = u
         /\ \A t, u, v \in Tiers : P!Before(t, u) /\ P!Before(u, v) => P!Before(t, v)
<1>1. Tiers \subseteq Nat
  BY DEF P!PicksAssumption
<1>2. ASSUME NEW t \in Tiers, NEW u \in Tiers
      PROVE  /\ P!Before(t, t) /\ (P!Before(t, u) \/ P!Before(u, t))
             /\ (P!Before(t, u) /\ P!Before(u, t) => t = u)
  BY <1>1, <1>2 DEF P!Before, TurnsAreOrdered
<1>3. ASSUME NEW t \in Tiers, NEW u \in Tiers, NEW v \in Tiers, P!Before(t, u), P!Before(u, v)
      PROVE  P!Before(t, v)
  BY <1>1, <1>3 DEF P!Before, TurnsAreOrdered
<1> QED
  BY <1>2, <1>3

\* Some tier of a set comes before the others.
LEMMA SomeTierIsFirst ==
  ASSUME P!PicksAssumption, TurnsAreOrdered, NEW waiting \in SUBSET Tiers, waiting # {}
  PROVE  \E t \in waiting : \A u \in waiting : P!Before(t, u)
<1> DEFINE Earlier(t) == {u \in Tiers : P!Before(u, t) /\ u # t}
           ranks == {Cardinality(Earlier(t)) : t \in waiting}
<1>1. \A t \in Tiers : IsFiniteSet(Earlier(t)) /\ Cardinality(Earlier(t)) \in Nat
  BY FS_Subset, FS_CardinalityType, TiersAreFinite DEF P!PicksAssumption
<1>2. ranks \in SUBSET Nat /\ ranks # {}
  BY <1>1
<1>3. PICK m \in ranks : \A x \in ranks : m <= x
  BY <1>2, LeastNumber
<1>4. PICK t \in waiting : m = Cardinality(Earlier(t))
  BY <1>3
<1>5. ASSUME NEW u \in waiting PROVE P!Before(t, u)
  <2>1. CASE u = t
    BY <2>1, BeforeOrders
  <2>2. CASE u # t /\ ~P!Before(t, u)
    <3>1. P!Before(u, t) /\ u \in Earlier(t)
      BY <2>2, BeforeOrders
    <3>2. Earlier(u) \subseteq Earlier(t)
      BY <2>2, <3>1, BeforeOrders
    <3>3. u \notin Earlier(u)
      OBVIOUS
    <3>4. Earlier(u) # Earlier(t)
      BY <3>1, <3>3
    <3>5. Cardinality(Earlier(u)) <= Cardinality(Earlier(t)) /\ Cardinality(Earlier(u)) # Cardinality(Earlier(t))
      BY <1>1, <3>2, <3>4, FS_Subset
    <3>6. Cardinality(Earlier(t)) <= Cardinality(Earlier(u))
      <4>1. Cardinality(Earlier(u)) \in ranks
        OBVIOUS
      <4> QED
        BY ONLY <1>3, <1>4, <4>1
    <3> HIDE DEF Earlier
    <3> QED
      BY <1>1, <3>5, <3>6
  <2> QED
    BY <2>1, <2>2
<1> QED
  BY <1>5

\* The head of the waiting tiers.
LEMMA HeadIsFirst ==
  ASSUME P!PicksAssumption, TurnsAreOrdered, \A i \in 1..Len(line) : line[i].tier \in Tiers, P!Ready # {}
  PROVE  /\ P!HeadTier \in Tiers
         /\ \E i \in P!Ready : line[i].tier = P!HeadTier
         /\ \A i \in P!Ready : P!Before(P!HeadTier, line[i].tier)
<1> DEFINE waiting == {line[i].tier : i \in P!Ready}
<1>1. waiting \subseteq Tiers /\ waiting # {}
  BY DEF P!Ready
<1>2. \E t \in waiting : \A u \in waiting : P!Before(t, u)
  BY <1>1, SomeTierIsFirst
<1>3. P!HeadTier = CHOOSE t \in waiting : \A u \in waiting : P!Before(t, u)
  BY DEF P!HeadTier
<1>4. P!HeadTier \in waiting /\ \A u \in waiting : P!Before(P!HeadTier, u)
  BY <1>2, <1>3
<1> QED
  BY <1>1, <1>4

\* A fetch leaves the turns ordered, those of the tiers it was not a turn of as they were, and the
\* others behind them.
LEMMA TurnsStayOrdered ==
  ASSUME TurnsAreOrdered, NEW job \in Tiers, NEW head \in Tiers, NEW served \in SUBSET {job, head},
         older' = P!Turns(served, job, head)
  PROVE  /\ TurnsAreOrdered'
         /\ \A t, u \in Tiers \ served : P!Before(t, u)' <=> P!Before(t, u)
         /\ \A t \in Tiers \ served, u \in served : ~P!Before(u, t)'
<1>1. \A t, u \in Tiers : P!Older(t, u)' <=> \/ t \notin served /\ (u \in served \/ P!Older(t, u))
                                             \/ t = job /\ u = head /\ job \in served /\ head \in served /\ job # head
  BY DEF P!Turns, P!Older
<1>2. older' \subseteq Tiers \X Tiers
  BY DEF P!Turns
<1>3. \A t \in Tiers : ~P!Older(t, t)'
  BY <1>1 DEF TurnsAreOrdered
<1>4. ASSUME NEW t \in Tiers, NEW u \in Tiers, NEW v \in Tiers, P!Older(t, u)', P!Older(u, v)' PROVE P!Older(t, v)'
  BY <1>1, <1>4 DEF TurnsAreOrdered
<1>5. ASSUME NEW t \in Tiers, NEW u \in Tiers, NEW v \in Tiers, P!Older(t, v)' PROVE P!Older(t, u)' \/ P!Older(u, v)'
  BY <1>1, <1>5 DEF TurnsAreOrdered
<1>6. TurnsAreOrdered'
  BY <1>2, <1>3, <1>4, <1>5 DEF TurnsAreOrdered
<1>7. \A t, u \in Tiers \ served : P!Before(t, u)' <=> P!Before(t, u)
  BY <1>1 DEF P!Before
<1>8. \A t \in Tiers \ served, u \in served : ~P!Before(u, t)'
  BY <1>1 DEF P!Before
<1> QED
  BY <1>6, <1>7, <1>8

-----------------------------------------------------------------------------
(* The line.                                                                *)

PickRows == [tier : Tiers, title : P!Titles, location : P!Locations, class : Nat, held : BOOLEAN, age : 0..2]
LineFits ==
  /\ mode \in {"starting", "running", "refused"} /\ order \in Orders
  /\ line \in Seq(PickRows) /\ Len(line) <= Room

LEMMA LineIs ==
  ASSUME line \in Seq(PickRows)
  PROVE  /\ Len(line) \in Nat /\ DOMAIN line = 1..Len(line)
         /\ \A i \in 1..Len(line) : line[i] \in PickRows /\ line[i].tier \in Tiers
<1>1. Len(line) \in Nat /\ DOMAIN line = 1..Len(line)
  BY LenProperties
<1>2. \A i \in 1..Len(line) : line[i] \in PickRows
  BY ElementOfSeq
<1> QED
  BY <1>1, <1>2 DEF PickRows

\* The line without a job.
LEMMA Removed ==
  ASSUME line \in Seq(PickRows), NEW i \in 1..Len(line)
  PROVE  /\ P!RemoveAt(line, i) \in Seq(PickRows) /\ Len(P!RemoveAt(line, i)) = Len(line) - 1
         /\ \A n \in 1..Len(P!RemoveAt(line, i)) : \E m \in 1..Len(line) : P!RemoveAt(line, i)[n] = line[m]
<1> DEFINE len == Len(line)
           front == SubSeq(line, 1, i - 1)
           back == SubSeq(line, i + 1, len)
<1>1. len \in Nat /\ \A n \in 1..len : line[n] \in PickRows
  BY LineIs
<1>2. /\ front \in Seq(PickRows) /\ Len(front) = i - 1
      /\ \A n \in 1..i - 1 : front[n] = line[n]
  <2>1. 1 \in Int /\ i - 1 \in Int /\ \A n \in 1..i - 1 : line[n] \in PickRows
    BY <1>1
  <2>2. /\ front \in Seq(PickRows) /\ Len(front) = IF 1 <= i - 1 THEN i - 1 - 1 + 1 ELSE 0
        /\ \A n \in 1..i - 1 - 1 + 1 : front[n] = line[1 + n - 1]
    BY <2>1, SubSeqProperties
  <2>3. (IF 1 <= i - 1 THEN i - 1 - 1 + 1 ELSE 0) = i - 1 /\ i - 1 - 1 + 1 = i - 1 /\ \A n \in 1..i - 1 : 1 + n - 1 = n
    BY <1>1
  <2> HIDE DEF front
  <2> QED
    BY <2>2, <2>3
<1>3. /\ back \in Seq(PickRows) /\ Len(back) = len - i
      /\ \A n \in 1..len - i : back[n] = line[i + n]
  <2>1. i + 1 \in Int /\ len \in Int /\ \A n \in i + 1..len : line[n] \in PickRows
    BY <1>1
  <2> HIDE DEF len
  <2>2. /\ back \in Seq(PickRows) /\ Len(back) = IF i + 1 <= len THEN len - (i + 1) + 1 ELSE 0
        /\ \A n \in 1..len - (i + 1) + 1 : back[n] = line[i + 1 + n - 1]
    BY <2>1, SubSeqProperties
  <2>3. (IF i + 1 <= len THEN len - (i + 1) + 1 ELSE 0) = len - i /\ len - (i + 1) + 1 = len - i
        /\ \A n \in 1..len - i : i + 1 + n - 1 = i + n
    BY <1>1 DEF len
  <2> HIDE DEF back
  <2> QED
    BY <2>2, <2>3
<1>4. P!RemoveAt(line, i) = front \o back
  BY DEF P!RemoveAt
<1> HIDE DEF front, back, len
<1>5. /\ front \o back \in Seq(PickRows) /\ Len(front \o back) = Len(front) + Len(back)
      /\ \A n \in 1..Len(front) + Len(back) :
           (front \o back)[n] = IF n <= Len(front) THEN front[n] ELSE back[n - Len(front)]
  BY <1>2, <1>3, ConcatProperties
<1>6. Len(front) + Len(back) = len - 1
  BY <1>1, <1>2, <1>3 DEF len
<1>7. ASSUME NEW n \in 1..len - 1 PROVE \E m \in 1..len : (front \o back)[n] = line[m]
  <2>1. CASE n <= i - 1
    BY <1>1, <1>2, <1>5, <1>6, <2>1 DEF len
  <2>2. CASE ~(n <= i - 1)
    <3>1. n - (i - 1) \in 1..len - i /\ i + (n - (i - 1)) = n + 1 /\ n + 1 \in 1..len
      BY <1>1, <2>2 DEF len
    <3>2. (front \o back)[n] = back[n - (i - 1)]
      BY <1>2, <1>5, <1>6, <2>2
    <3> QED
      BY <1>3, <3>1, <3>2
  <2> QED
    BY <2>1, <2>2
<1> QED
  BY <1>4, <1>5, <1>6, <1>7 DEF len

\* The first of some places.
LEMMA OldestIs ==
  ASSUME NEW places \in SUBSET Nat, places # {}
  PROVE  P!Oldest(places) \in places
<1>1. \E i \in places : \A j \in places : i <= j
  BY LeastNumber
<1> QED
  BY <1>1 DEF P!Oldest

LEMMA LowestIs ==
  ASSUME NEW numbers \in SUBSET Nat, numbers # {}
  PROVE  P!Min(numbers) \in numbers
<1>1. \E i \in numbers : \A j \in numbers : i <= j
  BY LeastNumber
<1> QED
  BY <1>1 DEF P!Min

\* A pick is a job that is ready, and an urgent one on a floor turn if there is any.
LEMMA PickIsReady ==
  ASSUME P!PicksAssumption, LineFits, NEW head, P!Ready # {}
  PROVE  /\ P!Ready \subseteq 1..Len(line)
         /\ P!Pick(head) \in P!Ready
         /\ P!FloorTurn(head) /\ P!Urgent # {} => P!Pick(head) \in P!Urgent
<1>1. Len(line) \in Nat
  BY LineIs DEF LineFits
<1>2. P!Ready \subseteq 1..Len(line) /\ P!Ready \in SUBSET Nat
  BY <1>1 DEF P!Ready
<1>3. P!Urgent \subseteq P!Ready /\ P!Important(head) \subseteq P!Ready
  BY DEF P!Urgent, P!Important, P!AtTier
<1>4. P!ByValue \in P!Ready
  <2> DEFINE ranks == {P!Rank(line[i]) : i \in P!Ready}
             best == P!Min(ranks)
  <2>1. \A i \in P!Ready : P!Rank(line[i]) \in Nat
    BY DEF P!Rank, P!ValueRank, P!Unranked
  <2>2. best \in ranks
    BY <2>1, LowestIs
  <2>3. {i \in P!Ready : P!Rank(line[i]) = best} \in SUBSET Nat /\ {i \in P!Ready : P!Rank(line[i]) = best} # {}
    <3> HIDE DEF best
    <3> QED
      BY <1>2, <2>2
  <2>4. P!Oldest({i \in P!Ready : P!Rank(line[i]) = best}) \in P!Ready
    BY <2>3, OldestIs
  <2>5. P!ByValue = P!Oldest({i \in P!Ready : P!Rank(line[i]) = best})
    BY DEF P!ByValue
  <2> QED
    BY <2>4, <2>5
<1>5. P!Urgent # {} => P!Oldest(P!Urgent) \in P!Urgent
  BY <1>2, <1>3, OldestIs
<1>6. P!Important(head) # {} => P!Oldest(P!Important(head)) \in P!Important(head)
  BY <1>2, <1>3, OldestIs
<1>7. P!Pick(head) = IF ~P!FloorTurn(head) THEN P!ByValue
                   ELSE IF P!Urgent # {} THEN P!Oldest(P!Urgent)
                   ELSE IF P!Important(head) # {} THEN P!Oldest(P!Important(head))
                   ELSE P!ByValue
  BY DEF P!Pick
<1> QED
  BY <1>2, <1>3, <1>4, <1>5, <1>6, <1>7

-----------------------------------------------------------------------------
(* The counters.                                                            *)

\* The fetches that may still come before a tier's turn: for each tier before it, in its turn,
\* those up to the floor pick that ends the turn, and that floor pick but for the tier's own.
DueOf(t) == {p \in Tiers \X (1..OneIn) :
                /\ P!Before(p[1], t)
                /\ IF p[2] = 1 THEN p[1] # t ELSE picks[p[1]] > 0 /\ p[2] > picks[p[1]]}
\* The fetches that are no floor pick, until every tier's next one is.
Off == {p \in Tiers \X (1..(OneIn - 1)) : picks[p[1]] > 0 /\ p[2] >= picks[p[1]]}

CountersFit ==
  /\ picks \in [Tiers -> 0..(OneIn - 1)] /\ owed \in Nat /\ since \in [Tiers -> Nat]
  /\ owed + Cardinality(Off) <= (OneIn - 1) * Cardinality(Tiers)
  /\ \A t \in Tiers : since[t] + Cardinality(DueOf(t)) <= OneIn * Cardinality(Tiers) - 1

\* How many they can be.
LEMMA DueBounds ==
  ASSUME P!PicksAssumption, NEW t \in Tiers, NEW due \in SUBSET ((Tiers \X (1..OneIn)) \ {<<t, 1>>})
  PROVE  /\ IsFiniteSet(due) /\ Cardinality(due) \in Nat
         /\ Cardinality(due) <= OneIn * Cardinality(Tiers) - 1
<1> DEFINE all == Tiers \X (1..OneIn)
           rest == all \ {<<t, 1>>}
<1>1. IsFiniteSet(Tiers) /\ Cardinality(Tiers) \in Nat /\ OneIn \in Nat \ {0}
  BY FS_CardinalityType, TiersAreFinite DEF P!PicksAssumption
<1>2. IsFiniteSet(1..OneIn) /\ Cardinality(1..OneIn) = OneIn
  BY <1>1, FS_Interval, SMTT(60)
<1>3. IsFiniteSet(all) /\ Cardinality(all) = Cardinality(Tiers) * OneIn
  BY <1>1, <1>2, FS_Product
<1>4. <<t, 1>> \in all
  BY <1>1
<1>5. IsFiniteSet(rest) /\ Cardinality(rest) = Cardinality(Tiers) * OneIn - 1
  BY ONLY <1>3, <1>4, FS_RemoveElement
<1>6. due \in SUBSET rest
  OBVIOUS
<1>7. IsFiniteSet(due) /\ Cardinality(due) <= Cardinality(rest)
  BY <1>5, <1>6, FS_Subset
<1>8. Cardinality(due) \in Nat
  BY <1>7, FS_CardinalityType
<1> HIDE DEF all, rest
<1>9. Cardinality(Tiers) * OneIn = OneIn * Cardinality(Tiers)
  BY <1>1
<1> QED
  BY <1>5, <1>7, <1>8, <1>9

LEMMA OffBounds ==
  ASSUME P!PicksAssumption, NEW off \in SUBSET (Tiers \X (1..(OneIn - 1)))
  PROVE  /\ IsFiniteSet(off) /\ Cardinality(off) \in Nat
         /\ Cardinality(off) <= (OneIn - 1) * Cardinality(Tiers)
<1> DEFINE all == Tiers \X (1..(OneIn - 1))
<1>1. IsFiniteSet(Tiers) /\ Cardinality(Tiers) \in Nat /\ OneIn \in Nat \ {0}
  BY FS_CardinalityType, TiersAreFinite DEF P!PicksAssumption
<1>2. IsFiniteSet(1..(OneIn - 1)) /\ Cardinality(1..(OneIn - 1)) = OneIn - 1
  BY <1>1, FS_Interval, SMTT(30)
<1>3. IsFiniteSet(all) /\ Cardinality(all) = Cardinality(Tiers) * (OneIn - 1)
  BY <1>1, <1>2, FS_Product
<1>4. off \in SUBSET all
  OBVIOUS
<1>5. IsFiniteSet(off) /\ Cardinality(off) <= Cardinality(all)
  BY <1>3, <1>4, FS_Subset
<1>6. Cardinality(off) \in Nat
  BY <1>5, FS_CardinalityType
<1> HIDE DEF all
<1>7. Cardinality(Tiers) * (OneIn - 1) = (OneIn - 1) * Cardinality(Tiers)
  BY <1>1
<1> QED
  BY <1>3, <1>5, <1>6, <1>7

\* A set that lost a member and gained none is smaller.
LEMMA OneLess ==
  ASSUME NEW before, IsFiniteSet(before), NEW after \in SUBSET before, NEW x \in before, x \notin after
  PROVE  Cardinality(after) <= Cardinality(before) - 1
<1>1. IsFiniteSet(before \ {x}) /\ Cardinality(before \ {x}) = Cardinality(before) - 1
  BY FS_RemoveElement
<1>2. after \in SUBSET (before \ {x})
  OBVIOUS
<1> QED
  BY <1>1, <1>2, FS_Subset

-----------------------------------------------------------------------------
(* The steps.                                                               *)

\* A queue a step leaves, when its jobs that are not held were in the line.
Leaves(queue) ==
  /\ queue \in Seq(PickRows) /\ Len(queue) <= Len(line)
  /\ \A n \in 1..Len(queue) : queue[n].held \/ \E m \in 1..Len(line) : queue[n] = line[m]

\* A fetch, whatever its outcome.
LEMMA FetchLeaves ==
  ASSUME line \in Seq(PickRows), NEW i \in 1..Len(line)
  PROVE  Leaves(line) /\ Leaves([line EXCEPT ![i].held = TRUE]) /\ Leaves(P!RemoveAt(line, i))
<1>1. /\ Len(line) \in Nat /\ DOMAIN line = 1..Len(line)
      /\ \A n \in 1..Len(line) : line[n] \in PickRows
  BY LineIs
<1>2. Leaves(line)
  BY <1>1 DEF Leaves
<1>3. Leaves(P!RemoveAt(line, i))
  <2> DEFINE queue == P!RemoveAt(line, i)
  <2>1. /\ queue \in Seq(PickRows) /\ Len(queue) = Len(line) - 1
        /\ \A n \in 1..Len(queue) : \E m \in 1..Len(line) : queue[n] = line[m]
    BY Removed
  <2> HIDE DEF queue
  <2>2. Leaves(queue)
    BY <1>1, <2>1 DEF Leaves
  <2> QED
    BY <2>2 DEF queue
<1>4. Leaves([line EXCEPT ![i].held = TRUE])
  <2> DEFINE queue == [line EXCEPT ![i].held = TRUE]
  <2>1. line[i] \in PickRows
    BY <1>1
  <2>2. [line[i] EXCEPT !.held = TRUE] \in PickRows /\ [line[i] EXCEPT !.held = TRUE].held = TRUE
    BY <2>1 DEF PickRows
  <2>3. queue = [line EXCEPT ![i] = [line[i] EXCEPT !.held = TRUE]]
    OBVIOUS
  <2>4. queue \in Seq(PickRows) /\ Len(queue) = Len(line)
    BY <2>2, <2>3, ExceptSeq
  <2>5. \A n \in 1..Len(queue) : queue[n] = IF n = i THEN [line[i] EXCEPT !.held = TRUE] ELSE line[n]
    BY <1>1, <2>3, <2>4
  <2> HIDE DEF queue
  <2>6. \A n \in 1..Len(queue) : queue[n].held \/ \E m \in 1..Len(line) : queue[n] = line[m]
    BY <2>2, <2>4, <2>5
  <2>7. Len(queue) <= Len(line)
    BY <1>1, <2>4
  <2>8. Leaves(queue)
    BY <2>4, <2>6, <2>7 DEF Leaves
  <2> QED
    BY <2>8 DEF queue
<1> QED
  BY <1>2, <1>3, <1>4

\* What waits in the queue waited in the line.
LEMMA LeftWaited ==
  ASSUME LineFits, NEW queue, Leaves(queue)
  PROVE  /\ P!UrgentIn(queue) => P!Urgent # {}
         /\ \A t \in Tiers : P!WaitsIn(t, queue) => \E i \in P!Ready : line[i].tier = t
<1>1. ASSUME P!UrgentIn(queue) PROVE P!Urgent # {}
  <2>1. PICK n \in 1..Len(queue) : queue[n].age >= 1 /\ ~queue[n].held /\ ~P!Covered(queue[n])
    BY <1>1 DEF P!UrgentIn
  <2>2. PICK m \in 1..Len(line) : queue[n] = line[m]
    BY <2>1 DEF Leaves
  <2> QED
    BY <2>1, <2>2 DEF P!Urgent, P!Ready
<1>2. ASSUME NEW t \in Tiers, P!WaitsIn(t, queue) PROVE \E i \in P!Ready : line[i].tier = t
  <2>1. PICK n \in 1..Len(queue) : queue[n].tier = t /\ ~queue[n].held
    BY <1>2 DEF P!WaitsIn
  <2>2. PICK m \in 1..Len(line) : queue[n] = line[m]
    BY <2>1 DEF Leaves
  <2> QED
    BY <2>1, <2>2 DEF P!Ready
<1> QED
  BY <1>1, <1>2

\* A fetch, made of the pick of the head.
LEMMA FetchKeeps ==
  ASSUME P!PicksAssumption, LineFits, TurnsAreOrdered, CountersFit, P!Ready # {},
         NEW head, head = P!HeadTier, NEW i, i = P!Pick(head), P!Fetch(i, head)
  PROVE  LineFits' /\ TurnsAreOrdered' /\ CountersFit'
<1> DEFINE job == line[i].tier
           served == P!Stamped(job, head, P!FloorTurn(head))
<1>1. /\ P!Ready \subseteq 1..Len(line) /\ i \in P!Ready /\ i \in 1..Len(line)
      /\ P!FloorTurn(head) /\ P!Urgent # {} => i \in P!Urgent
  BY PickIsReady
<1>2. line \in Seq(PickRows) /\ Len(line) \in Nat /\ \A n \in 1..Len(line) : line[n].tier \in Tiers
  BY LineIs DEF LineFits
<1>3. /\ head \in Tiers /\ job \in Tiers
      /\ \A n \in P!Ready : P!Before(head, line[n].tier)
  BY <1>1, <1>2, HeadIsFirst
<1>4. /\ served \in SUBSET {job, head} /\ job \in served
      /\ P!FloorTurn(head) => head \in served
      /\ ~P!FloorTurn(head) => served = {job}
  BY DEF P!Stamped
<1>5. /\ Leaves(line')
      /\ older' = P!Turns(served, job, head)
      /\ picks' = [picks EXCEPT ![head] = (@ + 1) % OneIn]
      /\ P!Histories(IF P!FloorTurn(head) /\ i \in P!Urgent THEN "urgent" ELSE "other", served, line')
      /\ UNCHANGED <<mode, order>>
  BY <1>1, <1>2, FetchLeaves DEF P!Fetch, P!Counted
<1> HIDE DEF served, job
<1>6. LineFits'
  <2>1. Len(line') \in Nat /\ Len(line') <= Len(line) /\ line' \in Seq(PickRows)
    BY <1>5, LenProperties DEF Leaves
  <2>2. Room \in Nat
    BY DEF P!PicksAssumption
  <2> QED
    BY <1>2, <1>5, <2>1, <2>2 DEF LineFits
<1>7. /\ TurnsAreOrdered'
      /\ \A t, u \in Tiers \ served : P!Before(t, u)' <=> P!Before(t, u)
      /\ \A t \in Tiers \ served, u \in served : ~P!Before(u, t)'
  BY <1>3, <1>4, <1>5, TurnsStayOrdered
<1>8. /\ OneIn \in Nat \ {0} /\ picks \in [Tiers -> 0..(OneIn - 1)] /\ picks[head] \in 0..(OneIn - 1)
      /\ picks[head] + 1 \in 0..OneIn
      /\ owed \in Nat /\ since \in [Tiers -> Nat]
  BY <1>3 DEF CountersFit, P!PicksAssumption
<1>9. P!FloorTurn(head) <=> picks[head] = 0
  <2>1. picks[head] \in 0..OneIn /\ picks[head] # OneIn
    BY <1>8
  <2> QED
    BY <1>8, <2>1, Modulo DEF P!FloorTurn
<1>10. (picks[head] + 1) % OneIn = IF picks[head] + 1 = OneIn THEN 0 ELSE picks[head] + 1
  BY <1>8, Modulo
<1>11. /\ picks' \in [Tiers -> 0..(OneIn - 1)]
       /\ picks'[head] = (IF picks[head] + 1 = OneIn THEN 0 ELSE picks[head] + 1)
       /\ \A t \in Tiers : t # head => picks'[t] = picks[t]
  BY <1>3, <1>5, <1>8, <1>10
<1>12. /\ owed' = IF ~P!UrgentIn(line') \/ (P!FloorTurn(head) /\ i \in P!Urgent) THEN 0 ELSE owed + 1
       /\ since' = [t \in Tiers |-> IF ~P!WaitsIn(t, line') \/ t \in served THEN 0 ELSE since[t] + 1]
  BY <1>5 DEF P!Histories
<1>13. /\ P!UrgentIn(line') => P!Urgent # {}
       /\ \A t \in Tiers : P!WaitsIn(t, line') => P!Before(head, t)
  BY <1>3, <1>5, LeftWaited
<1>14. /\ IsFiniteSet(Off) /\ Cardinality(Off) \in Nat /\ Cardinality(Off)' \in Nat
       /\ Cardinality(Off)' <= (OneIn - 1) * Cardinality(Tiers)
  <2>1. Off \in SUBSET (Tiers \X (1..(OneIn - 1))) /\ Off' \in SUBSET (Tiers \X (1..(OneIn - 1)))
    BY DEF Off
  <2> QED
    BY <2>1, OffBounds
<1>15. owed' \in Nat /\ owed' + Cardinality(Off)' <= (OneIn - 1) * Cardinality(Tiers)
  <2>1. CASE owed' = 0
    BY <1>14, <2>1
  <2>2. CASE owed' # 0
    <3>1. ~P!FloorTurn(head) /\ owed' = owed + 1
      BY <1>1, <1>12, <1>13, <2>2
    <3>2. picks[head] \in 1..(OneIn - 1)
      BY <1>8, <1>9, <3>1
    <3>3. <<head, picks[head]>> \in Off
      BY <1>3, <3>2 DEF Off
    <3>4. <<head, picks[head]>> \notin Off'
      BY <1>3, <1>11, <3>2 DEF Off
    <3>5. Off' \in SUBSET Off
      <4> SUFFICES ASSUME NEW p \in Off' PROVE p \in Off
        OBVIOUS
      <4>1. p \in Tiers \X (1..(OneIn - 1)) /\ picks'[p[1]] > 0 /\ p[2] >= picks'[p[1]]
        BY DEF Off
      <4>2. picks[p[1]] > 0 /\ p[2] >= picks[p[1]]
        BY <1>8, <1>11, <3>2, <4>1
      <4> QED
        BY <4>1, <4>2 DEF Off
    <3>6. Cardinality(Off') <= Cardinality(Off) - 1
      BY <1>14, <3>3, <3>4, <3>5, OneLess
    <3>7. owed + Cardinality(Off) <= (OneIn - 1) * Cardinality(Tiers)
      BY DEF CountersFit
    <3> DEFINE bound == (OneIn - 1) * Cardinality(Tiers)
               off == Cardinality(Off)
               next == Cardinality(Off')
    <3>8. bound \in Int /\ off \in Nat /\ next \in Nat
      BY <1>8, <1>14, FS_CardinalityType, TiersAreFinite DEF P!PicksAssumption
    <3>9. next <= off - 1 /\ owed + off <= bound
      BY <3>6, <3>7
    <3>10. owed' \in Nat /\ owed' + next <= bound
      <4> HIDE DEF bound, off, next
      <4> QED
        BY <1>8, <3>1, <3>8, <3>9
    <3> QED
      BY <3>10
  <2> QED
    BY <2>1, <2>2
<1>16. ASSUME NEW t \in Tiers
       PROVE  since'[t] \in Nat /\ since'[t] + Cardinality(DueOf(t))' <= OneIn * Cardinality(Tiers) - 1
  <2>1. /\ IsFiniteSet(DueOf(t)) /\ Cardinality(DueOf(t)) \in Nat /\ Cardinality(DueOf(t))' \in Nat
        /\ Cardinality(DueOf(t))' <= OneIn * Cardinality(Tiers) - 1
    <3>1. /\ DueOf(t) \in SUBSET ((Tiers \X (1..OneIn)) \ {<<t, 1>>})
          /\ DueOf(t)' \in SUBSET ((Tiers \X (1..OneIn)) \ {<<t, 1>>})
      BY DEF DueOf
    <3> QED
      BY <3>1, DueBounds
  <2>2. CASE since'[t] = 0
    BY <2>1, <2>2
  <2>3. CASE since'[t] # 0
    <3>1. P!Before(head, t) /\ t \notin served /\ since'[t] = since[t] + 1
      BY <1>12, <1>13, <2>3
    <3>2. \A u \in Tiers : P!Before(u, t)' => u \notin served /\ P!Before(u, t)
      BY <1>7, <3>1
    <3> DEFINE over == <<head, picks[head] + 1>>
    <3>3. over \in DueOf(t)
      <4>1. over \in Tiers \X (1..OneIn) /\ over[1] = head /\ over[2] = picks[head] + 1
        BY <1>3, <1>8
      <4>2. picks[head] = 0 => head # t
        BY <1>4, <1>9, <3>1
      <4>3. IF over[2] = 1 THEN over[1] # t ELSE picks[over[1]] > 0 /\ over[2] > picks[over[1]]
        BY <1>8, <4>1, <4>2
      <4> QED
        BY <3>1, <4>1, <4>3 DEF DueOf
    <3>4. over \notin DueOf(t)'
      <4>1. over[1] = head /\ over[2] = picks[head] + 1
        OBVIOUS
      <4>2. CASE picks[head] = 0
        <5>1. ~P!Before(head, t)'
          BY <1>3, <1>4, <1>9, <3>2, <4>2
        <5> QED
          BY <4>1, <5>1 DEF DueOf
      <4>3. CASE picks[head] # 0
        <5>1. over[2] # 1 /\ ~(picks'[head] > 0 /\ over[2] > picks'[head])
          BY <1>8, <1>11, <4>1, <4>3
        <5> QED
          BY <4>1, <5>1 DEF DueOf
      <4> QED
        BY <4>2, <4>3
    <3>5. DueOf(t)' \in SUBSET DueOf(t)
      <4> SUFFICES ASSUME NEW p \in DueOf(t)' PROVE p \in DueOf(t)
        OBVIOUS
      <4>1. /\ p \in Tiers \X (1..OneIn) /\ P!Before(p[1], t)'
            /\ IF p[2] = 1 THEN p[1] # t ELSE picks'[p[1]] > 0 /\ p[2] > picks'[p[1]]
        BY DEF DueOf
      <4>2. p[1] \in Tiers /\ p[2] \in 1..OneIn /\ p[1] \notin served /\ P!Before(p[1], t)
        BY <3>2, <4>1
      <4>3. p[1] = head => picks[head] # 0
        BY <1>4, <1>9, <4>2
      <4>4. IF p[2] = 1 THEN p[1] # t ELSE picks[p[1]] > 0 /\ p[2] > picks[p[1]]
        BY <1>8, <1>11, <4>1, <4>2, <4>3
      <4> QED
        BY <4>1, <4>2, <4>4 DEF DueOf
    <3>6. Cardinality(DueOf(t)') <= Cardinality(DueOf(t)) - 1
      BY <2>1, <3>3, <3>4, <3>5, OneLess
    <3>7. since[t] \in Nat /\ since[t] + Cardinality(DueOf(t)) <= OneIn * Cardinality(Tiers) - 1
      BY <1>8 DEF CountersFit
    <3> DEFINE bound == OneIn * Cardinality(Tiers)
               due == Cardinality(DueOf(t))
               next == Cardinality(DueOf(t)')
    <3>8. bound \in Int /\ due \in Nat /\ next \in Nat
      BY <1>8, <2>1, FS_CardinalityType, TiersAreFinite, SMTT(60) DEF P!PicksAssumption
    <3>9. next <= due - 1 /\ since[t] + due <= bound - 1 /\ since'[t] = since[t] + 1
      BY <3>1, <3>6, <3>7
    <3>10. since'[t] \in Nat /\ since'[t] + next <= bound - 1
      <4> HIDE DEF bound, due, next
      <4> QED
        BY <3>7, <3>8, <3>9
    <3> QED
      BY <3>10
  <2> QED
    BY <2>2, <2>3
<1>17. since' \in [Tiers -> Nat]
  BY <1>8, <1>12
<1>18. CountersFit'
  BY <1>11, <1>15, <1>16, <1>17 DEF CountersFit
<1> QED
  BY <1>6, <1>7, <1>18

\* A function on the places 1 to n is a line of n jobs.
LEMMA LineOf ==
  ASSUME NEW n \in Nat, NEW f \in [1..n -> PickRows]
  PROVE  f \in Seq(PickRows) /\ Len(f) = n
<1>1. f \in Seq(PickRows)
  BY SeqDef
<1>2. Len(f) \in Nat /\ DOMAIN f = 1..Len(f) /\ DOMAIN f = 1..n
  BY <1>1, LenProperties
<1> QED
  BY <1>1, <1>2

\* A step of the queue alone: no turn is over.
LEMMA QueueKeeps ==
  ASSUME P!PicksAssumption, LineFits, TurnsAreOrdered, CountersFit,
         NEW queue \in Seq(PickRows), Len(queue) <= Room, P!Queue(queue)
  PROVE  LineFits' /\ TurnsAreOrdered' /\ CountersFit'
<1>1. line' = queue /\ UNCHANGED <<mode, order, older, picks>>
  BY DEF P!Queue
<1>2. LineFits'
  BY <1>1 DEF LineFits
<1>3. TurnsAreOrdered'
  BY <1>1 DEF TurnsAreOrdered, P!Older
<1>4. Off' = Off /\ \A t \in Tiers : DueOf(t)' = DueOf(t)
  BY <1>1 DEF Off, DueOf, P!Before, P!Older
<1>5. /\ owed' = IF ~P!UrgentIn(queue) THEN 0 ELSE owed
      /\ since' = [t \in Tiers |-> IF ~P!WaitsIn(t, queue) THEN 0 ELSE since[t]]
  BY DEF P!Queue, P!Histories
<1>6. owed \in Nat /\ since \in [Tiers -> Nat]
  BY DEF CountersFit
<1>7. owed' \in 0..owed
  BY <1>5, <1>6
<1>7a. owed' \in Nat /\ owed' <= owed
  BY <1>6, <1>7
<1>8. since' \in [Tiers -> Nat] /\ \A t \in Tiers : since'[t] \in 0..since[t]
  BY <1>5, <1>6
<1>9. owed' + Cardinality(Off) <= (OneIn - 1) * Cardinality(Tiers)
  <2> DEFINE bound == (OneIn - 1) * Cardinality(Tiers)
             off == Cardinality(Off)
             before == owed
             after == owed'
  <2>1. before + off <= bound /\ off \in Nat /\ bound \in Int
    <3>1. Off \in SUBSET (Tiers \X (1..(OneIn - 1)))
      BY DEF Off
    <3> QED
      BY <3>1, OffBounds, FS_CardinalityType, TiersAreFinite DEF CountersFit, P!PicksAssumption
  <2>2. before \in Nat /\ after \in Nat /\ after <= before
    BY <1>6, <1>7a
  <2> HIDE DEF bound, off, before, after
  <2>3. after + off <= bound
    BY ONLY <2>1, <2>2
  <2> QED
    BY <2>3 DEF bound, off, after
<1>10. ASSUME NEW t \in Tiers
       PROVE  since'[t] + Cardinality(DueOf(t)) <= OneIn * Cardinality(Tiers) - 1
  <2> DEFINE bound == OneIn * Cardinality(Tiers)
             due == Cardinality(DueOf(t))
  <2>1. since[t] + due <= bound - 1 /\ due \in Nat /\ bound \in Int
    <3>1. DueOf(t) \in SUBSET ((Tiers \X (1..OneIn)) \ {<<t, 1>>})
      BY DEF DueOf
    <3>2. Cardinality(Tiers) \in Nat /\ OneIn \in Nat
      BY TiersAreFinite DEF P!PicksAssumption
    <3>3. due \in Nat
      BY <3>1, DueBounds
    <3>4. bound \in Int
      BY <3>2
    <3>5. since[t] + due <= bound - 1
      BY DEF CountersFit
    <3> QED
      BY ONLY <3>3, <3>4, <3>5
  <2> HIDE DEF bound, due
  <2>2. since'[t] + due <= bound - 1
    BY <1>6, <1>8, <2>1
  <2> QED
    BY <2>2 DEF bound, due
<1>11. picks' \in [Tiers -> 0..(OneIn - 1)]
  BY <1>1 DEF CountersFit
<1>12. CountersFit'
  BY <1>4, <1>7, <1>8, <1>9, <1>10, <1>11 DEF CountersFit
<1> QED
  BY <1>2, <1>3, <1>12

-----------------------------------------------------------------------------
(* The class lists.                                                         *)

\* A card of a job has its class.
LEMMA CardHasClass ==
  ASSUME NEW list \in Seq(P!Class), P!Accepted(list),
         NEW job, job.title \in P!Titles, job.location \in P!Locations
  PROVE  \E i \in 1..Len(list) : P!Fits(list[i], job) /\ P!Classify(list, job) = i - 1
<1> DEFINE fits == {i \in 1..Len(list) : P!Fits(list[i], job)}
<1>1. PICK places \in {P!Locations, {"any"}} :
         {list[i] : i \in 1..Len(list)} = [title : P!Titles, location : places]
  BY DEF P!Accepted
<1>2. \E place \in places : place \in {"any", job.location}
  BY DEF P!Locations
<1>3. PICK place \in places : place \in {"any", job.location}
  BY <1>2
<1>4. PICK i \in 1..Len(list) : list[i] = [title |-> job.title, location |-> place]
  BY <1>1
<1>5. i \in fits
  BY <1>3, <1>4 DEF P!Fits
<1>6. Len(list) \in Nat
  BY LenProperties
<1>7. PICK m \in fits : \A k \in fits : m <= k
  <2>1. fits \in SUBSET Nat /\ fits # {}
    BY <1>5, <1>6
  <2> HIDE DEF fits
  <2> QED
    BY <2>1, LeastNumber
<1>8. m \in 1..Len(list) /\ P!Fits(list[m], job) /\ \A k \in 1..(m - 1) : ~P!Fits(list[k], job)
  BY <1>6, <1>7
<1> DEFINE First(j) == P!Fits(list[j], job) /\ \A k \in 1..(j - 1) : ~P!Fits(list[k], job)
<1>9. \E j \in 1..Len(list) : First(j)
  BY <1>8
<1>10. P!Classify(list, job) = (CHOOSE j \in 1..Len(list) : First(j)) - 1
  BY DEF P!Classify
<1> DEFINE j == CHOOSE j \in 1..Len(list) : First(j)
<1>11. j \in 1..Len(list) /\ First(j)
  BY <1>9
<1> QED
  BY <1>10, <1>11

\* A list names a class once.
LEMMA ClassesDiffer ==
  ASSUME NEW list \in Seq(P!Class), P!Accepted(list)
  PROVE  \A i, j \in 1..Len(list) : list[i] = list[j] => i = j
<1>1. PICK places \in {P!Locations, {"any"}} :
         /\ {list[i] : i \in 1..Len(list)} = [title : P!Titles, location : places]
         /\ Len(list) = Cardinality([title : P!Titles, location : places])
  BY PicksCount DEF P!Accepted
<1> DEFINE all == [title : P!Titles, location : places]
<1>2. Len(list) \in Nat /\ list \in [1..Len(list) -> P!Class]
  BY LenProperties
<1>3. list \in [1..Len(list) -> all]
  BY <1>1, <1>2
<1>4. \A c \in all : \E i \in 1..Len(list) : list[i] = c
  BY <1>1
<1>5. IsFiniteSet(1..Len(list)) /\ Cardinality(1..Len(list)) = Len(list)
  BY <1>2, FS_Interval, SMTT(60)
<1> HIDE DEF all
<1>6. list \in Surjection(1..Len(list), all)
  BY <1>3, <1>4 DEF Surjection
<1>7. Cardinality(1..Len(list)) = Cardinality(all)
  BY <1>1, <1>5 DEF all
<1>8. list \in Injection(1..Len(list), all)
  BY ONLY <1>5, <1>6, <1>7, FS_SurjSameCardinalityImpliesInj
<1> QED
  BY <1>2, <1>8 DEF Injection, IsInjective

\* Every class of a list is a card's.
LEMMA ClassHasCard ==
  ASSUME NEW list \in Seq(P!Class), P!Accepted(list)
  PROVE  {P!Classify(list, job) : job \in [title : P!Titles, location : P!Locations]} = 0..(Len(list) - 1)
<1> DEFINE cards == [title : P!Titles, location : P!Locations]
<1>1. Len(list) \in Nat
  BY LenProperties
<1>2. ASSUME NEW job \in cards PROVE P!Classify(list, job) \in 0..(Len(list) - 1)
  <2>1. job.title \in P!Titles /\ job.location \in P!Locations
    OBVIOUS
  <2>2. PICK i \in 1..Len(list) : P!Classify(list, job) = i - 1
    BY <2>1, CardHasClass
  <2> QED
    BY <1>1, <2>2
<1>3. ASSUME NEW k \in 0..(Len(list) - 1) PROVE \E job \in cards : P!Classify(list, job) = k
  <2> DEFINE c == list[k + 1]
             place == IF c.location = "any" THEN "country_only" ELSE c.location
             job == [title |-> c.title, location |-> place]
  <2>1. PICK places \in {P!Locations, {"any"}} :
           {list[i] : i \in 1..Len(list)} = [title : P!Titles, location : places]
    BY DEF P!Accepted
  <2>2. k + 1 \in 1..Len(list)
    BY <1>1
  <2>3. \A i \in 1..Len(list) : list[i] \in [title : P!Titles, location : places]
    BY <2>1
  <2>4. c \in [title : P!Titles, location : places]
    BY <2>2, <2>3
  <2>5. place \in P!Locations /\ c.title \in P!Titles
    BY <2>4 DEF P!Locations
  <2>6. job \in cards /\ job.title = c.title /\ job.location = place
    BY <2>5
  <2>7. PICK i \in 1..Len(list) : P!Fits(list[i], job) /\ P!Classify(list, job) = i - 1
    <3> HIDE DEF job
    <3> QED
      BY <2>5, <2>6, CardHasClass
  <2>8. list[i] \in [title : P!Titles, location : places]
    BY <2>3
  <2>9. list[i].title = c.title /\ list[i].location \in {"any", place}
    BY <2>6, <2>7 DEF P!Fits
  <2>10. list[i].location = c.location
    BY <2>4, <2>8, <2>9 DEF P!Locations
  <2>11. list[i] = c
    BY <2>4, <2>8, <2>9, <2>10
  <2>12. i = k + 1
    BY <2>2, <2>11, ClassesDiffer
  <2>13. P!Classify(list, job) = k
    BY <1>1, <2>7, <2>12
  <2> QED
    BY <2>6, <2>13
<1> QED
  BY <1>2, <1>3

-----------------------------------------------------------------------------
(* The invariant.                                                           *)

ListsFit == mode = "running" => \A t \in Tiers : P!Accepted(order[t])
PicksFit == LineFits /\ TurnsAreOrdered /\ CountersFit /\ ListsFit

LEMMA JobIsRow ==
  ASSUME NEW t \in Tiers, NEW title \in P!Titles, NEW place \in P!Locations, NEW class \in Nat
  PROVE  P!Job(t, title, place, class) \in PickRows
BY DEF P!Job, PickRows

LEMMA PicksStart == P!PicksAssumption /\ P!Init => PicksFit
<1> SUFFICES ASSUME P!PicksAssumption, P!Init PROVE PicksFit
  OBVIOUS
<1>1. OneIn \in Nat \ {0} /\ Room \in Nat \ {0} /\ Cardinality(Tiers) \in Nat
  BY FS_CardinalityType, TiersAreFinite DEF P!PicksAssumption
<1>2. line \in Seq(PickRows) /\ Len(line) <= Room
  <2>1. CASE line = <<>>
    BY <1>1, <2>1
  <2>2. CASE \E t \in Tiers : line = <<P!Job(t, "ai", "other", P!Unclassified)>>
    <3>1. PICK t \in Tiers : line = <<P!Job(t, "ai", "other", P!Unclassified)>>
      BY <2>2
    <3>2. P!Job(t, "ai", "other", P!Unclassified) \in PickRows
      BY JobIsRow DEF P!Titles, P!Locations, P!Unclassified
    <3>3. line \in Seq(PickRows) /\ Len(line) = 1
      BY <3>1, <3>2
    <3> QED
      BY <1>1, <3>3
  <2> QED
    BY <2>1, <2>2 DEF P!Init
<1>3. LineFits
  BY <1>2 DEF P!Init, LineFits
<1>4. TurnsAreOrdered
  BY DEF P!Init, TurnsAreOrdered, P!Older
<1>5. picks = [t \in Tiers |-> 0] /\ owed = 0 /\ since = [t \in Tiers |-> 0]
  BY DEF P!Init
<1>6. Cardinality(Off) \in Nat /\ Cardinality(Off) <= (OneIn - 1) * Cardinality(Tiers)
  <2>1. Off \in SUBSET (Tiers \X (1..(OneIn - 1)))
    BY DEF Off
  <2> QED
    BY <2>1, OffBounds
<1>7. ASSUME NEW t \in Tiers
      PROVE  Cardinality(DueOf(t)) \in Nat /\ Cardinality(DueOf(t)) <= OneIn * Cardinality(Tiers) - 1
  <2>1. DueOf(t) \in SUBSET ((Tiers \X (1..OneIn)) \ {<<t, 1>>})
    BY DEF DueOf
  <2> QED
    BY <2>1, DueBounds
<1>8. picks \in [Tiers -> 0..(OneIn - 1)] /\ since \in [Tiers -> Nat] /\ owed \in Nat
  BY <1>1, <1>5
<1>9. owed + Cardinality(Off) <= (OneIn - 1) * Cardinality(Tiers)
  BY <1>5, <1>6
<1>10. \A t \in Tiers : since[t] + Cardinality(DueOf(t)) <= OneIn * Cardinality(Tiers) - 1
  BY <1>5, <1>7
<1>11. CountersFit
  BY <1>8, <1>9, <1>10 DEF CountersFit
<1>12. ListsFit
  BY DEF P!Init, ListsFit
<1> QED
  BY <1>3, <1>4, <1>11, <1>12 DEF PicksFit

\* What each step of the queue leaves.
LEMMA ArriveKeeps ==
  ASSUME P!PicksAssumption, PicksFit, P!Arrive
  PROVE  \E queue \in Seq(PickRows) : Len(queue) <= Room /\ P!Queue(queue)
<1>1. PICK t \in Tiers, title \in P!Titles, place \in PickPlaces :
         P!Queue(Append(line, P!Job(t, title, place, P!Classify(order[t], [title |-> title, location |-> place]))))
  BY DEF P!Arrive
<1> DEFINE card == [title |-> title, location |-> place]
           job == P!Job(t, title, place, P!Classify(order[t], card))
<1>2. order[t] \in Seq(P!Class) /\ P!Accepted(order[t]) /\ place \in P!Locations
  BY DEF P!PicksAssumption, PicksFit, LineFits, ListsFit, P!Arrive, P!Running
<1>3. card.title \in P!Titles /\ card.location \in P!Locations
  BY <1>2
<1>4. PICK i \in 1..Len(order[t]) : P!Classify(order[t], card) = i - 1
  <2> HIDE DEF card
  <2> QED
    BY <1>2, <1>3, CardHasClass
<1>5. P!Classify(order[t], card) \in Nat
  <2>1. Len(order[t]) \in Nat
    BY <1>2, LenProperties
  <2> QED
    BY <1>4, <2>1
<1>6. job \in PickRows
  <2> HIDE DEF card
  <2> QED
    BY <1>2, <1>5, JobIsRow
<1>7. line \in Seq(PickRows) /\ Len(line) \in Nat /\ Len(line) < Room /\ Room \in Nat
  BY LineIs DEF P!Arrive, PicksFit, LineFits, P!PicksAssumption
<1> HIDE DEF job
<1>8. Append(line, job) \in Seq(PickRows) /\ Len(Append(line, job)) = Len(line) + 1
  BY <1>6, <1>7, AppendProperties
<1>9. Len(Append(line, job)) <= Room
  BY <1>7, <1>8
<1>10. P!Queue(Append(line, job))
  BY <1>1 DEF job
<1> QED
  BY <1>8, <1>9, <1>10

LEMMA ClassifyKeeps ==
  ASSUME P!PicksAssumption, PicksFit, P!ClassifyWaiting
  PROVE  \E queue \in Seq(PickRows) : Len(queue) <= Room /\ P!Queue(queue)
<1> DEFINE Reclassed(i) == IF i \in P!Ready /\ line[i].class = P!Unclassified
                           THEN [line[i] EXCEPT !.class = P!Classify(order[line[i].tier], line[i])]
                           ELSE line[i]
           queue == [i \in 1..Len(line) |-> Reclassed(i)]
<1>1. P!Queue(queue)
  BY DEF P!ClassifyWaiting
<1>2. /\ line \in Seq(PickRows) /\ Len(line) \in Nat /\ Len(line) <= Room
      /\ \A i \in 1..Len(line) : line[i] \in PickRows /\ line[i].tier \in Tiers
  BY LineIs DEF PicksFit, LineFits
<1>3. ASSUME NEW i \in 1..Len(line) PROVE Reclassed(i) \in PickRows
  <2>1. line[i] \in PickRows /\ line[i].tier \in Tiers
    BY <1>2
  <2>2. line[i].title \in P!Titles /\ line[i].location \in P!Locations
    BY <2>1 DEF PickRows
  <2>3. order[line[i].tier] \in Seq(P!Class) /\ P!Accepted(order[line[i].tier])
    BY <2>1 DEF P!PicksAssumption, PicksFit, LineFits, ListsFit, P!ClassifyWaiting, P!Running
  <2>4. PICK k \in 1..Len(order[line[i].tier]) : P!Classify(order[line[i].tier], line[i]) = k - 1
    BY <2>2, <2>3, CardHasClass
  <2>5. P!Classify(order[line[i].tier], line[i]) \in Nat
    <3>1. Len(order[line[i].tier]) \in Nat
      BY <2>3, LenProperties
    <3> QED
      BY <2>4, <3>1
  <2>6. [line[i] EXCEPT !.class = P!Classify(order[line[i].tier], line[i])] \in PickRows
    BY ONLY <2>1, <2>5 DEF PickRows
  <2> QED
    BY <2>1, <2>6
<1>4. queue \in [1..Len(line) -> PickRows]
  <2> HIDE DEF Reclassed
  <2> QED
    BY <1>3
<1> HIDE DEF queue
<1>5. queue \in Seq(PickRows) /\ Len(queue) = Len(line)
  BY <1>2, <1>4, LineOf
<1> QED
  BY <1>1, <1>2, <1>5

LEMMA AgesKeep ==
  ASSUME P!PicksAssumption, PicksFit, P!Ripen \/ P!Release
  PROVE  \E queue \in Seq(PickRows) : Len(queue) <= Room /\ P!Queue(queue)
<1>1. /\ line \in Seq(PickRows) /\ Len(line) \in Nat /\ Len(line) <= Room
      /\ \A i \in 1..Len(line) : line[i] \in PickRows
  BY LineIs DEF PicksFit, LineFits
<1>2. CASE P!Ripen
  <2>1. PICK i \in 1..Len(line) : line[i].age < 2 /\ P!Queue([line EXCEPT ![i].age = @ + 1])
    BY <1>2 DEF P!Ripen
  <2> DEFINE job == [line[i] EXCEPT !.age = @ + 1]
  <2>2. job \in PickRows
    BY <1>1, <2>1 DEF PickRows
  <2>3. P!Queue([line EXCEPT ![i] = job])
    BY <2>1
  <2> HIDE DEF job
  <2>4. [line EXCEPT ![i] = job] \in Seq(PickRows) /\ Len([line EXCEPT ![i] = job]) = Len(line)
    BY <1>1, <2>2, ExceptSeq
  <2> QED
    BY <1>1, <2>3, <2>4
<1>3. CASE P!Release
  <2>1. PICK i \in 1..Len(line) : P!Queue([line EXCEPT ![i].held = FALSE])
    BY <1>3 DEF P!Release
  <2> DEFINE job == [line[i] EXCEPT !.held = FALSE]
  <2>2. job \in PickRows
    BY <1>1, <2>1 DEF PickRows
  <2>3. P!Queue([line EXCEPT ![i] = job])
    BY <2>1
  <2> HIDE DEF job
  <2>4. [line EXCEPT ![i] = job] \in Seq(PickRows) /\ Len([line EXCEPT ![i] = job]) = Len(line)
    BY <1>1, <2>2, ExceptSeq
  <2> QED
    BY <1>1, <2>3, <2>4
<1> QED
  BY <1>2, <1>3

LEMMA AgeOutKeeps ==
  ASSUME P!PicksAssumption, PicksFit, P!AgeOut
  PROVE  \E queue \in Seq(PickRows) : Len(queue) <= Room /\ P!Queue(queue)
<1> DEFINE places == {i \in 1..Len(line) : ~P!Stale(i)}
<1>1. PICK kept \in P!InOrder(places) : P!Queue([n \in DOMAIN kept |-> line[kept[n]]])
  BY DEF P!AgeOut
<1> DEFINE queue == [n \in DOMAIN kept |-> line[kept[n]]]
<1>2. /\ line \in Seq(PickRows) /\ Len(line) \in Nat /\ Len(line) <= Room
      /\ \A i \in 1..Len(line) : line[i] \in PickRows
  BY LineIs DEF PicksFit, LineFits
<1>3. IsFiniteSet(1..Len(line)) /\ Cardinality(1..Len(line)) = Len(line)
  <2> DEFINE len == Len(line)
  <2>1. len \in Nat
    BY <1>2
  <2> HIDE DEF len
  <2>2. IsFiniteSet(1..len) /\ Cardinality(1..len) = len
    BY ONLY <2>1, FS_Interval
  <2> QED
    BY <2>2 DEF len
<1>4. places \in SUBSET (1..Len(line))
  OBVIOUS
<1>5. kept \in [1..Cardinality(places) -> places]
  BY PicksCount DEF P!InOrder
<1> HIDE DEF places
<1>6. Cardinality(places) \in Nat /\ Cardinality(places) <= Len(line)
  BY <1>3, <1>4, FS_Subset, FS_CardinalityType
<1>7. queue \in [1..Cardinality(places) -> PickRows]
  BY <1>2, <1>4, <1>5
<1>8. P!Queue(queue)
  BY <1>1
<1> HIDE DEF queue
<1>9. queue \in Seq(PickRows) /\ Len(queue) = Cardinality(places)
  BY <1>6, <1>7, LineOf
<1>10. Room \in Nat
  BY DEF P!PicksAssumption
<1>11. Len(queue) <= Room
  BY <1>2, <1>6, <1>9, <1>10
<1> QED
  BY <1>8, <1>9, <1>11

LEMMA DescribeNextKeeps ==
  ASSUME P!PicksAssumption, PicksFit, P!DescribeNext
  PROVE  LineFits' /\ TurnsAreOrdered' /\ CountersFit'
<1> DEFINE head == P!HeadTier
           i == P!Pick(head)
<1>1. P!Ready # {} /\ (P!WithoutPage(i) \/ P!Fetch(i, head))
  BY DEF P!DescribeNext
<1>2. LineFits /\ TurnsAreOrdered /\ CountersFit
  BY DEF PicksFit
<1>3. CASE P!WithoutPage(i)
  <2>1. i \in 1..Len(line)
    BY <1>1, <1>2, PickIsReady
  <2>2. line \in Seq(PickRows) /\ Len(line) \in Nat /\ Len(line) <= Room /\ Room \in Nat
    BY <1>2, LineIs DEF LineFits, P!PicksAssumption
  <2> HIDE DEF i
  <2> DEFINE queue == P!RemoveAt(line, i)
  <2>3. queue \in Seq(PickRows) /\ Len(queue) = Len(line) - 1
    BY <2>1, <2>2, Removed
  <2>4. P!Queue(queue)
    BY <1>3 DEF P!WithoutPage
  <2> HIDE DEF queue
  <2>5. Len(queue) <= Room
    BY <2>2, <2>3
  <2> QED
    BY <1>2, <2>3, <2>4, <2>5, QueueKeeps
<1>4. CASE P!Fetch(i, head)
  BY <1>1, <1>2, <1>4, FetchKeeps
<1> QED
  BY <1>1, <1>3, <1>4

LEMMA PicksStep == P!PicksAssumption /\ PicksFit /\ [P!Next]_(P!vars) => PicksFit'
<1> SUFFICES ASSUME P!PicksAssumption, PicksFit, [P!Next]_(P!vars) PROVE PicksFit'
  OBVIOUS
<1>1. LineFits /\ TurnsAreOrdered /\ CountersFit /\ ListsFit
  BY DEF PicksFit
<1>2. CASE P!Load
  <2>1. UNCHANGED <<order, line, older, picks, owed, since>>
        /\ mode' = IF \A t \in Tiers : P!Accepted(order[t]) THEN "running" ELSE "refused"
    BY <1>2 DEF P!Load
  <2>2. LineFits' /\ ListsFit'
    BY <1>1, <2>1 DEF LineFits, ListsFit
  <2>3. TurnsAreOrdered' /\ CountersFit'
    BY <1>1, <2>1 DEF TurnsAreOrdered, CountersFit, Off, DueOf, P!Before, P!Older
  <2> QED
    BY <2>2, <2>3 DEF PicksFit
<1>3. CASE P!Arrive \/ P!ClassifyWaiting \/ P!Ripen \/ P!Release \/ P!AgeOut
  <2>1. PICK queue \in Seq(PickRows) : Len(queue) <= Room /\ P!Queue(queue)
    BY <1>3, ArriveKeeps, ClassifyKeeps, AgesKeep, AgeOutKeeps
  <2>2. LineFits' /\ TurnsAreOrdered' /\ CountersFit'
    BY <1>1, <2>1, QueueKeeps
  <2>3. ListsFit'
    BY <1>1, <2>1 DEF P!Queue, ListsFit
  <2> QED
    BY <2>2, <2>3 DEF PicksFit
<1>4. CASE P!DescribeNext
  <2>1. UNCHANGED <<mode, order>>
    BY <1>4 DEF P!DescribeNext, P!WithoutPage, P!Queue, P!Fetch
  <2>2. ListsFit'
    BY <1>1, <2>1 DEF ListsFit
  <2> QED
    BY <1>4, <2>2, DescribeNextKeeps DEF PicksFit
<1>5. CASE UNCHANGED P!vars
  <2>1. UNCHANGED <<mode, order, line, older, picks, owed, since>>
    BY <1>5 DEF P!vars
  <2>2. LineFits' /\ ListsFit'
    BY <1>1, <2>1 DEF LineFits, ListsFit
  <2>3. TurnsAreOrdered' /\ CountersFit'
    BY <1>1, <2>1 DEF TurnsAreOrdered, CountersFit, Off, DueOf, P!Before, P!Older
  <2> QED
    BY <2>2, <2>3 DEF PicksFit
<1> QED
  BY <1>2, <1>3, <1>4, <1>5 DEF P!Next

LEMMA PicksStayFit == ASSUME P!PicksAssumption PROVE P!Spec => []PicksFit
<1>1. P!Init => PicksFit
  BY PicksStart
<1>2. PicksFit /\ [P!Next]_(P!vars) => PicksFit'
  BY PicksStep
<1> QED
  BY <1>1, <1>2, PTL DEF P!Spec

LEMMA FitIsSafe == P!PicksAssumption /\ PicksFit => P!PickSafe
<1> SUFFICES ASSUME P!PicksAssumption, PicksFit PROVE P!PickSafe
  OBVIOUS
<1>1. OneIn \in Nat \ {0} /\ Cardinality(Tiers) \in Nat
  BY FS_CardinalityType, TiersAreFinite DEF P!PicksAssumption
<1>2. P!UrgentIsShared
  <2> DEFINE bound == (OneIn - 1) * Cardinality(Tiers)
             off == Cardinality(Off)
  <2>1. Off \in SUBSET (Tiers \X (1..(OneIn - 1)))
    BY DEF Off
  <2>2. off \in Nat /\ bound \in Int /\ owed \in Nat /\ owed + off <= bound
    BY <1>1, <2>1, OffBounds DEF PicksFit, CountersFit
  <2> HIDE DEF bound, off
  <2>3. owed <= bound
    BY <2>2
  <2> QED
    BY <2>3, PicksCount DEF P!UrgentIsShared, bound
<1>3. P!NoTierIsForgotten
  <2> DEFINE bound == OneIn * Cardinality(Tiers)
  <2>1. ASSUME NEW t \in Tiers PROVE since[t] < bound
    <3> DEFINE due == Cardinality(DueOf(t))
    <3>1. DueOf(t) \in SUBSET ((Tiers \X (1..OneIn)) \ {<<t, 1>>})
      BY DEF DueOf
    <3>2. due \in Nat /\ bound \in Int /\ since[t] \in Nat /\ since[t] + due <= bound - 1
      BY <1>1, <3>1, DueBounds DEF PicksFit, CountersFit
    <3> HIDE DEF bound, due
    <3> QED
      BY <3>2
  <2> QED
    BY <2>1, PicksCount DEF P!NoTierIsForgotten
<1>4. P!EveryClassIsUsed
  <2> SUFFICES ASSUME P!Running, NEW t \in Tiers
               PROVE  {P!Classify(order[t], job) : job \in [title : P!Titles, location : P!Locations]}
                        = 0..(Len(order[t]) - 1)
    BY DEF P!EveryClassIsUsed
  <2>1. order[t] \in Seq(P!Class) /\ P!Accepted(order[t])
    BY DEF P!Running, PicksFit, LineFits, ListsFit, P!PicksAssumption
  <2> QED
    BY <2>1, ClassHasCard
<1> QED
  BY <1>2, <1>3, <1>4 DEF P!PickSafe

LEMMA FitIsTyped == PicksFit => P!TypeOK
<1> SUFFICES ASSUME PicksFit PROVE P!TypeOK
  OBVIOUS
<1>1. line \in Seq(PickRows) /\ Len(line) <= Room
  BY DEF PicksFit, LineFits
<1>2. P!ToSet(line) \subseteq PickRows
  <2>1. \A i \in 1..Len(line) : line[i] \in PickRows
    BY <1>1, ElementOfSeq
  <2>2. DOMAIN line = 1..Len(line)
    BY <1>1, LenProperties
  <2> QED
    BY <2>1, <2>2 DEF P!ToSet
<1>3. older \subseteq Tiers \X Tiers
  BY DEF PicksFit, TurnsAreOrdered
<1> QED
  BY <1>1, <1>2, <1>3 DEF P!TypeOK, PicksFit, LineFits, CountersFit, PickRows

\* The shares of the fetch order hold, for every store, class lists and quota: an urgent job that
\* waits is given a fetch within one floor period of every tier (describe.py, the 60-hour rule), no
\* waiting tier misses its turn for longer, and a list the service starts with names each class of
\* its cards once (fetch_order.py).
THEOREM PicksStayFair == ASSUME P!PicksAssumption PROVE P!Spec => []P!PickSafe
<1>1. PicksFit => P!PickSafe
  BY FitIsSafe
<1> QED
  BY <1>1, PicksStayFit, PTL

\* The queue, the turns and the counters of the description stage keep their types, the counters
\* within the quota.
THEOREM PickTypes == ASSUME P!PicksAssumption PROVE P!Spec => []P!TypeOK
<1>1. PicksFit => P!TypeOK
  BY FitIsTyped
<1> QED
  BY <1>1, PicksStayFit, PTL
==============================================================================
