--------------------------- MODULE DeliveryProofs ---------------------------
(* Proofs about Delivery for any jobs, tiers, days and number of faults: one   *)
(* lemma per action shows that it keeps the inductive invariant IInv.          *)
EXTENDS Delivery, WellFoundedInduction, TLAPS

\* The loop over tiers takes the lowest that is left: there is one.
LEMMA FirstIsThere ==
  ASSUME NEW S \in SUBSET Tiers, S # {}
  PROVE  First(S) \in S
<1>1. S \subseteq Nat
  BY DeliveryAssumption
<1>2. PICK t \in S : \A u \in S : ~ (<<u, t>> \in OpToRel(<, Nat))
  BY <1>1, WFMin, NatLessThanWellFounded
<1>3. \A u \in S : ~ (u < t)
  <2> SUFFICES ASSUME NEW u \in S, u < t PROVE FALSE
    OBVIOUS
  <2>1. <<u, t>> \in OpToRel(<, Nat)
    BY <1>1 DEF OpToRel
  <2> QED
    BY <1>2, <2>1
<1>4. \A u \in S : t <= u
  BY <1>1, <1>3
<1> QED
  BY <1>4 DEF First

\* The day of the tick is one of the days.
LEMMA TodayIsADay ==
  ASSUME TypeOK
  PROVE  Today \in Days /\ Today # Never
<1>1. now \in 0..(2 * LastDay + 1)
  BY DEF TypeOK, Clocks
<1>2. LastDay \in Nat
  BY DeliveryAssumption
<1>3. now \div 2 \in 0..LastDay
  BY <1>1, <1>2
<1> QED
  BY <1>3 DEF Today, Day, Days, Never

\* Faults and alerts are counted with natural numbers.
LEMMA FaultsAreCounted ==
  ASSUME IInv
  PROVE  faults \in 0..MaxFaults /\ faults \in Nat
         /\ \A j \in Jobs : received[j] \in Nat /\ received[j] <= 1 + faults
<1>1. faults \in 0..MaxFaults /\ received \in [Jobs -> Nat]
  BY DEF IInv, TypeOK
<1>2. MaxFaults \in Nat
  BY DeliveryAssumption
<1> QED
  BY <1>1, <1>2 DEF IInv, RepeatedOnlyByFaults

\* While a tier is left, the lowest is a tier of the policy, and the tick has
\* a day.
LEMMA TierInHand ==
  ASSUME IInv, left # {}
  PROVE  /\ First(left) \in left /\ First(left) \in Tiers
         /\ Today \in Days /\ Today # Never
<1>1. TypeOK /\ left \in SUBSET Tiers
  BY DEF IInv, TypeOK
<1> QED
  BY <1>1, TodayIsADay, FirstIsThere

\* What a digest says and what the store says of it change together or not at
\* all.
LEMMA DigestsStay ==
  ASSUME DigestIsExact, UNCHANGED <<stage, deliveryDay, runs, digest, rejects>>
  PROVE  DigestIsExact'
  BY DEF DigestIsExact, Listed, DeliveredJobs, RejectedOn

\* What deliver_tier's transaction does to the store: the batch it loaded is
\* still scored, the tier had no row, and its jobs of the day become exactly
\* that batch.
LEMMA Committed ==
  ASSUME IInv, CommitTier
  PROVE  LET t == First(left) IN
         /\ t \in left /\ t \in Tiers /\ Today \in Days /\ Today # Never /\ Today' = Today
         /\ batch \subseteq Jobs /\ out \subseteq Jobs
         /\ \A j \in batch : stage[j] = "scored" /\ deliveryDay[j] = Never
         /\ \A j \in out : stage[j] = "rejected" /\ deliveryDay[j] = Never
         /\ \A j \in batch \cup out : TierOf[j] = t
         /\ runs[Today][t] = "none" /\ runs'[Today][t] = "unsent"
         /\ \A d \in Days, u \in Tiers : d # Today \/ u # t => runs'[d][u] = runs[d][u]
         /\ \A d \in Days, u \in Tiers : d = Today /\ u = t =>
              DeliveredJobs(d, u)' = batch /\ RejectedOn(d, u)' = out
<1> DEFINE t == First(left)
<1>1. left # {} /\ batch \subseteq ScoredIn(t) /\ out \subseteq RejectedIn(t) /\ left \subseteq Undelivered(Today)
  BY DEF IInv, DeliveryIsSound, CommitTier
<1>2. t \in left /\ t \in Tiers /\ Today \in Days /\ Today # Never
  BY <1>1, TierInHand
<1>3. runs[Today][t] = "none"
  BY <1>1, <1>2 DEF Undelivered
<1>4. runs'[Today][t] = "unsent" /\ \A d \in Days, u \in Tiers : d # Today \/ u # t => runs'[d][u] = runs[d][u]
  BY <1>2 DEF IInv, TypeOK, CommitTier
<1>5. /\ \A j \in batch : j \in Jobs /\ stage[j] = "scored" /\ TierOf[j] = t
      /\ \A j \in out : j \in Jobs /\ stage[j] = "rejected" /\ deliveryDay[j] = Never /\ TierOf[j] = t
  BY <1>1 DEF ScoredIn, RejectedIn
<1>6. \A j \in batch : deliveryDay[j] = Never
  BY <1>5 DEF IInv, DeliveryIsRecorded
<1>7. \A j \in Jobs : deliveryDay[j] = Today => TierOf[j] # t
  BY <1>2, <1>3 DEF IInv, DeliveryIsRecorded
<1>8. Today' = Today
  BY DEF CommitTier, Today
<1>9. \A j \in Jobs : /\ stage'[j] = IF j \in batch THEN "delivered" ELSE stage[j]
                      /\ deliveryDay'[j] = IF j \in batch \cup out THEN Today ELSE deliveryDay[j]
  BY DEF CommitTier, Delivered
<1>10. \A d \in Days, u \in Tiers : d = Today /\ u = t => DeliveredJobs(d, u)' = batch
  <2> SUFFICES ASSUME NEW d \in Days, NEW u \in Tiers, d = Today, u = t
               PROVE  DeliveredJobs(d, u)' = batch
    OBVIOUS
  <2>1. \A j \in batch : j \in Jobs /\ TierOf[j] = t /\ stage'[j] = "delivered" /\ deliveryDay'[j] = Today
    BY <1>5, <1>9
  <2>2. \A j \in Jobs \ batch : ~(TierOf[j] = t /\ stage'[j] = "delivered" /\ deliveryDay'[j] = Today)
    BY <1>5, <1>7, <1>9
  <2>3. DeliveredJobs(d, u)' = {j \in Jobs : TierOf[j] = u /\ stage'[j] = "delivered" /\ deliveryDay'[j] = d}
    BY DEF DeliveredJobs
  <2> QED
    BY <2>1, <2>2, <2>3
<1>11. \A d \in Days, u \in Tiers : d = Today /\ u = t => RejectedOn(d, u)' = out
  <2> SUFFICES ASSUME NEW d \in Days, NEW u \in Tiers, d = Today, u = t
               PROVE  RejectedOn(d, u)' = out
    OBVIOUS
  <2>1. \A j \in out : j \in Jobs /\ TierOf[j] = t /\ stage'[j] = "rejected" /\ deliveryDay'[j] = Today
    BY <1>5, <1>9
  <2>2. \A j \in Jobs \ out : ~(TierOf[j] = t /\ stage'[j] = "rejected" /\ deliveryDay'[j] = Today)
    BY <1>5, <1>7, <1>9
  <2>3. RejectedOn(d, u)' = {j \in Jobs : TierOf[j] = u /\ stage'[j] = "rejected" /\ deliveryDay'[j] = d}
    BY DEF RejectedOn
  <2> QED
    BY <2>1, <2>2, <2>3
<1> QED
  BY <1>2, <1>3, <1>4, <1>5, <1>6, <1>8, <1>10, <1>11


\* The processor scores a job, at any point of a tick.
LEMMA ScoreKeeps ==
  ASSUME IInv, NEW j \in Jobs, Score(j)
  PROVE  IInv'
<1>1. TypeOK'
  BY DEF IInv, TypeOK, Score, disk, locals, reader
<1>2. DigestIsExact'
  <2>1. \A k \in Jobs : deliveryDay[k] # Never => stage'[k] = stage[k]
    BY DEF IInv, TypeOK, DeliveryIsRecorded, Score
  <2>2. \A d \in Days : d # Never
    BY DEF Days, Never
  <2>3. \A d \in Days, t \in Tiers : /\ DeliveredJobs(d, t)' = DeliveredJobs(d, t)
                                     /\ RejectedOn(d, t)' = RejectedOn(d, t)
    BY <2>1, <2>2 DEF DeliveredJobs, RejectedOn, Score
  <2> QED
    BY <2>3 DEF IInv, DigestIsExact, Listed, Score, disk
<1>3. NotesAreThere'
  BY DEF IInv, NotesAreThere, Score, disk, reader
<1>4. MessageIsTheDigest'
  BY DEF IInv, MessageIsTheDigest, Listed, Score, disk, reader
<1>5. RepeatedOnlyByFaults'
  BY DEF IInv, RepeatedOnlyByFaults, Score, reader
<1>6. SummaryComesLast'
  BY DEF IInv, SummaryComesLast, Score
<1>7. DeliveryIsRecorded'
  BY DEF IInv, DeliveryIsRecorded, Score
<1>8. RoundIsSound'
  BY DEF IInv, RoundIsSound, Today, Score, disk, locals, reader
<1>9. DeliveryIsSound'
  BY DEF IInv, DeliveryIsSound, Undelivered, ScoredIn, RejectedIn, Listed, Today,
       Score, disk, locals
<1>10. TellingIsSound'
  BY DEF IInv, TellingIsSound, UnsentTelegram, DeliveredJobs, Listed, Today,
       Score, disk, locals, reader, TypeOK
<1> QED
  BY <1>1, <1>2, <1>3, <1>4, <1>5, <1>6, <1>7, <1>8, <1>9, <1>10 DEF IInv

\* The remote check rejects a job, at any point of a tick.
LEMMA RejectKeeps ==
  ASSUME IInv, NEW j \in Jobs, Reject(j)
  PROVE  IInv'
<1>1. TypeOK'
  BY DEF IInv, TypeOK, Reject, disk, locals, reader
<1>2. DigestIsExact'
  <2>1. \A k \in Jobs : deliveryDay[k] # Never => stage'[k] = stage[k]
    BY DEF IInv, TypeOK, DeliveryIsRecorded, Reject
  <2>2. \A d \in Days : d # Never
    BY DEF Days, Never
  <2>3. \A d \in Days, t \in Tiers : /\ DeliveredJobs(d, t)' = DeliveredJobs(d, t)
                                     /\ RejectedOn(d, t)' = RejectedOn(d, t)
    BY <2>1, <2>2 DEF DeliveredJobs, RejectedOn, Reject
  <2> QED
    BY <2>3 DEF IInv, DigestIsExact, Listed, Reject, disk
<1>3. NotesAreThere'
  BY DEF IInv, NotesAreThere, Reject, disk, reader
<1>4. MessageIsTheDigest'
  BY DEF IInv, MessageIsTheDigest, Listed, Reject, disk, reader
<1>5. RepeatedOnlyByFaults'
  BY DEF IInv, RepeatedOnlyByFaults, Reject, reader
<1>6. SummaryComesLast'
  BY DEF IInv, SummaryComesLast, Reject
<1>7. DeliveryIsRecorded'
  BY DEF IInv, DeliveryIsRecorded, Reject
<1>8. RoundIsSound'
  BY DEF IInv, RoundIsSound, Today, Reject, disk, locals, reader
<1>9. DeliveryIsSound'
  BY DEF IInv, DeliveryIsSound, Undelivered, ScoredIn, RejectedIn, Listed, Today,
       Reject, disk, locals
<1>10. TellingIsSound'
  BY DEF IInv, TellingIsSound, UnsentTelegram, DeliveredJobs, Listed, Today,
       Reject, disk, locals, reader, TypeOK
<1> QED
  BY <1>1, <1>2, <1>3, <1>4, <1>5, <1>6, <1>7, <1>8, <1>9, <1>10 DEF IInv

\* The delivery time or midnight passes; the tick keeps its day.
LEMMA PassKeeps ==
  ASSUME IInv, Pass
  PROVE  IInv'
<1>1. TypeOK'
  BY DEF IInv, TypeOK, Pass, table, disk, locals, reader
<1>2. DigestIsExact'
  BY DigestsStay DEF IInv, Pass, table, disk
<1>3. NotesAreThere'
  BY DEF IInv, NotesAreThere, Pass, table, disk, reader
<1>4. MessageIsTheDigest'
  BY DEF IInv, MessageIsTheDigest, Listed, Pass, table, disk, reader
<1>5. RepeatedOnlyByFaults'
  BY DEF IInv, RepeatedOnlyByFaults, Pass, reader
<1>6. SummaryComesLast'
  BY DEF IInv, SummaryComesLast, Pass, table
<1>7. DeliveryIsRecorded'
  BY DEF IInv, DeliveryIsRecorded, Pass, table
<1>8. RoundIsSound'
  BY DEF IInv, RoundIsSound, Today, Pass, table, disk, locals, reader
<1>9. DeliveryIsSound'
  BY DEF IInv, DeliveryIsSound, Undelivered, ScoredIn, RejectedIn, Listed, Today,
       Pass, table, disk, locals
<1>10. TellingIsSound'
  BY DEF IInv, TellingIsSound, UnsentTelegram, DeliveredJobs, Listed, Today,
       Pass, table, disk, locals, reader
<1> QED
  BY <1>1, <1>2, <1>3, <1>4, <1>5, <1>6, <1>7, <1>8, <1>9, <1>10 DEF IInv

\* A tick starts and reads the due alerts.
LEMMA BeginKeeps ==
  ASSUME IInv, Begin
  PROVE  IInv'
<1>1. TypeOK'
  BY DEF IInv, TypeOK, Begin, DueAlerts, table, disk, reader
<1>2. DigestIsExact'
  BY DEF IInv, DigestIsExact, Listed, DeliveredJobs, RejectedOn, Begin, table, disk
<1>3. NotesAreThere'
  BY DEF IInv, NotesAreThere, Begin, table, disk, reader
<1>4. MessageIsTheDigest'
  BY DEF IInv, MessageIsTheDigest, Listed, Begin, table, disk, reader
<1>5. RepeatedOnlyByFaults'
  BY DEF IInv, RepeatedOnlyByFaults, Begin, reader
<1>6. SummaryComesLast'
  BY DEF IInv, SummaryComesLast, Begin, table
<1>7. DeliveryIsRecorded'
  BY DEF IInv, DeliveryIsRecorded, Begin, table
<1>8. RoundIsSound'
  BY DEF IInv, RoundIsSound, Begin, DueAlerts, TypeOK, table, reader
<1>9. DeliveryIsSound'
  BY DEF IInv, DeliveryIsSound, Undelivered, ScoredIn, RejectedIn, Listed, Today,
       Begin, table, disk
<1>10. TellingIsSound'
  BY DEF IInv, TellingIsSound, RoundIsSound, Begin
<1> QED
  BY <1>1, <1>2, <1>3, <1>4, <1>5, <1>6, <1>7, <1>8, <1>9, <1>10 DEF IInv

\* run_alerts takes its next job.
LEMMA NextAlertKeeps ==
  ASSUME IInv, NEW j \in Jobs, NextAlert(j)
  PROVE  IInv'
<1>1. TypeOK'
  BY DEF IInv, TypeOK, NextAlert, table, disk, reader
<1>2. DigestIsExact'
  BY DEF IInv, DigestIsExact, Listed, DeliveredJobs, RejectedOn, NextAlert,
       table, disk
<1>3. NotesAreThere'
  BY DEF IInv, NotesAreThere, NextAlert, table, disk, reader
<1>4. MessageIsTheDigest'
  BY DEF IInv, MessageIsTheDigest, Listed, NextAlert, table, disk, reader
<1>5. RepeatedOnlyByFaults'
  BY DEF IInv, RepeatedOnlyByFaults, NextAlert, reader
<1>6. SummaryComesLast'
  BY DEF IInv, SummaryComesLast, NextAlert, table
<1>7. DeliveryIsRecorded'
  BY DEF IInv, DeliveryIsRecorded, NextAlert, table
<1>8. RoundIsSound'
  BY DEF IInv, RoundIsSound, Today, NextAlert, table, disk, reader
<1>9. DeliveryIsSound'
  BY DEF IInv, DeliveryIsSound, Undelivered, ScoredIn, RejectedIn, Listed, Today,
       NextAlert, table, disk
<1>10. TellingIsSound'
  BY DEF IInv, TellingIsSound, UnsentTelegram, DeliveredJobs, Listed, Today,
       NextAlert, table, disk, reader
<1> QED
  BY <1>1, <1>2, <1>3, <1>4, <1>5, <1>6, <1>7, <1>8, <1>9, <1>10 DEF IInv

\* run_alerts writes the note.
LEMMA WriteNoteKeeps ==
  ASSUME IInv, WriteNote
  PROVE  IInv'
<1>1. TypeOK'
  <2>1. <<Today, cur>> \in Days \X Jobs
    BY TodayIsADay DEF IInv, TypeOK, RoundIsSound, WriteNote
  <2> QED
    BY <2>1 DEF IInv, TypeOK, WriteNote, table, locals, reader
<1>2. DigestIsExact'
  BY DigestsStay DEF IInv, WriteNote, table, disk
<1>3. NotesAreThere'
  BY DEF IInv, NotesAreThere, WriteNote, table, reader
<1>4. MessageIsTheDigest'
  BY DEF IInv, MessageIsTheDigest, Listed, WriteNote, table, reader
<1>5. RepeatedOnlyByFaults'
  BY DEF IInv, RepeatedOnlyByFaults, WriteNote, reader
<1>6. SummaryComesLast'
  BY DEF IInv, SummaryComesLast, WriteNote, table
<1>7. DeliveryIsRecorded'
  BY DEF IInv, DeliveryIsRecorded, WriteNote, table
<1>8. RoundIsSound'
  BY DEF IInv, RoundIsSound, Today, WriteNote, table, locals, reader
<1>9. DeliveryIsSound'
  BY DEF IInv, DeliveryIsSound, Undelivered, ScoredIn, RejectedIn, Listed, Today,
       WriteNote, table, locals
<1>10. TellingIsSound'
  BY DEF IInv, TellingIsSound, UnsentTelegram, DeliveredJobs, Listed, Today,
       WriteNote, table, locals, reader
<1> QED
  BY <1>1, <1>2, <1>3, <1>4, <1>5, <1>6, <1>7, <1>8, <1>9, <1>10 DEF IInv

\* run_alerts commits note_day, with the note on disk.
LEMMA CommitNoteKeeps ==
  ASSUME IInv, CommitNote
  PROVE  IInv'
<1>1. TypeOK'
  BY TodayIsADay DEF IInv, TypeOK, RoundIsSound, CommitNote, disk, locals, reader
<1>2. DigestIsExact'
  BY DigestsStay DEF IInv, CommitNote, table, disk
<1>3. NotesAreThere'
  <2>1. cur \in Jobs /\ <<Today, cur>> \in notes
    BY DEF IInv, TypeOK, RoundIsSound, CommitNote
  <2>2. Today # Never
    BY TodayIsADay DEF IInv, Days, Never
  <2> QED
    BY <2>1, <2>2 DEF IInv, TypeOK, NotesAreThere, CommitNote, disk, reader
<1>4. MessageIsTheDigest'
  BY DEF IInv, MessageIsTheDigest, Listed, CommitNote, disk, reader
<1>5. RepeatedOnlyByFaults'
  BY DEF IInv, RepeatedOnlyByFaults, CommitNote, reader
<1>6. SummaryComesLast'
  BY DEF IInv, SummaryComesLast, CommitNote
<1>7. DeliveryIsRecorded'
  BY DEF IInv, DeliveryIsRecorded, CommitNote
<1>8. RoundIsSound'
  <2>1. Today # Never
    BY TodayIsADay DEF IInv, Days, Never
  <2> QED
    BY <2>1 DEF IInv, TypeOK, RoundIsSound, CommitNote, locals, reader
<1>9. DeliveryIsSound'
  BY DEF IInv, DeliveryIsSound, Undelivered, ScoredIn, RejectedIn, Listed, Today,
       CommitNote, disk, locals
<1>10. TellingIsSound'
  BY DEF IInv, TellingIsSound, UnsentTelegram, DeliveredJobs, Listed, Today,
       CommitNote, disk, locals, reader
<1> QED
  BY <1>1, <1>2, <1>3, <1>4, <1>5, <1>6, <1>7, <1>8, <1>9, <1>10 DEF IInv

\* The alert reaches the reader.
LEMMA SendAlertKeeps ==
  ASSUME IInv, SendAlert
  PROVE  IInv'
<1>1. TypeOK'
  <2>1. cur \in Jobs
    BY DEF IInv, TypeOK, RoundIsSound, SendAlert
  <2>2. received[cur] + 1 \in Nat
    BY <2>1, FaultsAreCounted
  <2> QED
    BY <2>1, <2>2 DEF IInv, TypeOK, SendAlert, table, disk, locals
<1>2. DigestIsExact'
  BY DigestsStay DEF IInv, SendAlert, table, disk
<1>3. NotesAreThere'
  BY DEF IInv, TypeOK, RoundIsSound, NotesAreThere, SendAlert, table, disk
<1>4. MessageIsTheDigest'
  BY DEF IInv, MessageIsTheDigest, Listed, SendAlert, table, disk
<1>5. RepeatedOnlyByFaults'
  <2>1. cur \in Jobs /\ received[cur] <= faults
    BY DEF IInv, TypeOK, RoundIsSound, SendAlert
  <2>2. \A j \in Jobs : received'[j] = IF j = cur THEN received[j] + 1 ELSE received[j]
    BY DEF IInv, TypeOK, SendAlert
  <2>3. \A j \in Jobs : received'[j] <= 1 + faults
    BY <2>1, <2>2, FaultsAreCounted
  <2> QED
    BY <2>3 DEF RepeatedOnlyByFaults, SendAlert
<1>6. SummaryComesLast'
  BY DEF IInv, SummaryComesLast, SendAlert, table
<1>7. DeliveryIsRecorded'
  BY DEF IInv, DeliveryIsRecorded, SendAlert, table
<1>8. RoundIsSound'
  BY DEF IInv, RoundIsSound, Today, SendAlert, table, disk, locals, TypeOK
<1>9. DeliveryIsSound'
  BY DEF IInv, DeliveryIsSound, Undelivered, ScoredIn, RejectedIn, Listed, Today,
       SendAlert, table, disk, locals
<1>10. TellingIsSound'
  BY DEF IInv, TellingIsSound, UnsentTelegram, DeliveredJobs, Listed, Today,
       SendAlert, table, disk, locals
<1> QED
  BY <1>1, <1>2, <1>3, <1>4, <1>5, <1>6, <1>7, <1>8, <1>9, <1>10 DEF IInv

\* Telegram refuses the alert; the round ends.
LEMMA AlertRefusedKeeps ==
  ASSUME IInv, AlertRefused
  PROVE  IInv'
<1>1. TypeOK'
  BY DEF IInv, TypeOK, AlertRefused, BreakRound, table, disk
<1>2. DigestIsExact'
  BY DEF IInv, DigestIsExact, Listed, DeliveredJobs, RejectedOn, AlertRefused,
       BreakRound, table, disk
<1>3. NotesAreThere'
  BY DEF IInv, NotesAreThere, AlertRefused, BreakRound, table, disk
<1>4. MessageIsTheDigest'
  BY DEF IInv, MessageIsTheDigest, Listed, AlertRefused, BreakRound, table, disk
<1>5. RepeatedOnlyByFaults'
  BY DEF IInv, RepeatedOnlyByFaults, AlertRefused, BreakRound
<1>6. SummaryComesLast'
  BY DEF IInv, SummaryComesLast, AlertRefused, BreakRound, table
<1>7. DeliveryIsRecorded'
  BY DEF IInv, DeliveryIsRecorded, AlertRefused, BreakRound, table
<1>8. RoundIsSound'
  BY DEF IInv, RoundIsSound, Today, AlertRefused, BreakRound, table, disk
<1>9. DeliveryIsSound'
  BY DEF IInv, DeliveryIsSound, Undelivered, ScoredIn, RejectedIn, Listed, Today,
       AlertRefused, BreakRound, table, disk
<1>10. TellingIsSound'
  BY DEF IInv, TellingIsSound, UnsentTelegram, DeliveredJobs, Listed, Today,
       AlertRefused, BreakRound, table, disk
<1> QED
  BY <1>1, <1>2, <1>3, <1>4, <1>5, <1>6, <1>7, <1>8, <1>9, <1>10 DEF IInv

\* The alert arrives and its answer is lost; the round ends.
LEMMA AlertAnswerLostKeeps ==
  ASSUME IInv, AlertAnswerLost
  PROVE  IInv'
<1>1. TypeOK'
  BY DeliveryAssumption DEF IInv, TypeOK, RoundIsSound, AlertAnswerLost,
       BreakRound, table, disk
<1>2. DigestIsExact'
  BY DEF IInv, DigestIsExact, Listed, DeliveredJobs, RejectedOn, AlertAnswerLost,
       BreakRound, table, disk
<1>3. NotesAreThere'
  BY DEF IInv, TypeOK, RoundIsSound, NotesAreThere, AlertAnswerLost, BreakRound,
       table, disk
<1>4. MessageIsTheDigest'
  BY DEF IInv, MessageIsTheDigest, Listed, AlertAnswerLost, BreakRound, table, disk
<1>5. RepeatedOnlyByFaults'
  BY DEF IInv, RepeatedOnlyByFaults, AlertAnswerLost, BreakRound, TypeOK
<1>6. SummaryComesLast'
  BY DEF IInv, SummaryComesLast, AlertAnswerLost, BreakRound, table
<1>7. DeliveryIsRecorded'
  BY DEF IInv, DeliveryIsRecorded, AlertAnswerLost, BreakRound, table
<1>8. RoundIsSound'
  BY DEF IInv, RoundIsSound, Today, AlertAnswerLost, BreakRound, table, disk, TypeOK
<1>9. DeliveryIsSound'
  BY DEF IInv, DeliveryIsSound, Undelivered, ScoredIn, RejectedIn, Listed, Today,
       AlertAnswerLost, BreakRound, table, disk
<1>10. TellingIsSound'
  BY DEF IInv, TellingIsSound, UnsentTelegram, DeliveredJobs, Listed, Today,
       AlertAnswerLost, BreakRound, table, disk
<1> QED
  BY <1>1, <1>2, <1>3, <1>4, <1>5, <1>6, <1>7, <1>8, <1>9, <1>10 DEF IInv

\* run_alerts commits alerted_at.
LEMMA MarkAlertedKeeps ==
  ASSUME IInv, MarkAlerted
  PROVE  IInv'
<1>1. TypeOK'
  BY DEF IInv, TypeOK, MarkAlerted, disk, reader
<1>2. DigestIsExact'
  BY DigestsStay DEF IInv, MarkAlerted, table, disk
<1>3. NotesAreThere'
  BY DEF IInv, NotesAreThere, MarkAlerted, disk, reader
<1>4. MessageIsTheDigest'
  BY DEF IInv, MessageIsTheDigest, Listed, MarkAlerted, disk, reader
<1>5. RepeatedOnlyByFaults'
  BY DEF IInv, RepeatedOnlyByFaults, MarkAlerted, reader
<1>6. SummaryComesLast'
  BY DEF IInv, SummaryComesLast, MarkAlerted
<1>7. DeliveryIsRecorded'
  BY DEF IInv, DeliveryIsRecorded, MarkAlerted
<1>8. RoundIsSound'
  BY DEF IInv, RoundIsSound, Today, MarkAlerted, disk, reader, TypeOK
<1>9. DeliveryIsSound'
  BY DEF IInv, DeliveryIsSound, Undelivered, ScoredIn, RejectedIn, Listed, Today,
       MarkAlerted, disk
<1>10. TellingIsSound'
  BY DEF IInv, TellingIsSound, UnsentTelegram, DeliveredJobs, Listed, Today,
       MarkAlerted, disk, reader
<1> QED
  BY <1>1, <1>2, <1>3, <1>4, <1>5, <1>6, <1>7, <1>8, <1>9, <1>10 DEF IInv

\* The alert round is over.
LEMMA AlertsDoneKeeps ==
  ASSUME IInv, AlertsDone
  PROVE  IInv'
<1>1. TypeOK'
  BY DEF IInv, TypeOK, AlertsDone, table, disk, locals, reader
<1>2. DigestIsExact'
  BY DEF IInv, DigestIsExact, Listed, DeliveredJobs, RejectedOn, AlertsDone,
       table, disk
<1>3. NotesAreThere'
  BY DEF IInv, NotesAreThere, AlertsDone, table, disk, reader
<1>4. MessageIsTheDigest'
  BY DEF IInv, MessageIsTheDigest, Listed, AlertsDone, table, disk, reader
<1>5. RepeatedOnlyByFaults'
  BY DEF IInv, RepeatedOnlyByFaults, AlertsDone, reader
<1>6. SummaryComesLast'
  BY DEF IInv, SummaryComesLast, AlertsDone, table
<1>7. DeliveryIsRecorded'
  BY DEF IInv, DeliveryIsRecorded, AlertsDone, table
<1>8. RoundIsSound'
  BY DEF IInv, RoundIsSound, Today, AlertsDone, table, disk, locals, reader
<1>9. DeliveryIsSound'
  BY DEF IInv, DeliveryIsSound, Undelivered, ScoredIn, RejectedIn, Listed, Today,
       AlertsDone, table, disk, locals
<1>10. TellingIsSound'
  BY DEF IInv, TellingIsSound, UnsentTelegram, DeliveredJobs, Listed, Today,
       AlertsDone, table, disk, locals, reader
<1> QED
  BY <1>1, <1>2, <1>3, <1>4, <1>5, <1>6, <1>7, <1>8, <1>9, <1>10 DEF IInv

\* The tiers still to deliver today.
LEMMA DeliveryPendingKeeps ==
  ASSUME IInv, DeliveryPending
  PROVE  IInv'
<1>1. TypeOK'
  BY DEF IInv, TypeOK, DeliveryPending, Undelivered, table, disk, reader
<1>2. DigestIsExact'
  BY DEF IInv, DigestIsExact, Listed, DeliveredJobs, RejectedOn, DeliveryPending,
       table, disk
<1>3. NotesAreThere'
  BY DEF IInv, NotesAreThere, DeliveryPending, table, disk, reader
<1>4. MessageIsTheDigest'
  BY DEF IInv, MessageIsTheDigest, Listed, DeliveryPending, table, disk, reader
<1>5. RepeatedOnlyByFaults'
  BY DEF IInv, RepeatedOnlyByFaults, DeliveryPending, reader
<1>6. SummaryComesLast'
  BY DEF IInv, SummaryComesLast, DeliveryPending, table
<1>7. DeliveryIsRecorded'
  BY DEF IInv, DeliveryIsRecorded, DeliveryPending, table
<1>8. RoundIsSound'
  BY DEF IInv, RoundIsSound, Today, DeliveryPending, table, disk, reader
<1>9. DeliveryIsSound'
  BY DEF IInv, DeliveryIsSound, Undelivered, ScoredIn, RejectedIn, Listed, Today,
       DeliveryPending, table, disk
<1>10. TellingIsSound'
  BY DEF IInv, TellingIsSound, UnsentTelegram, DeliveredJobs, Listed, Today,
       DeliveryPending, table, disk, reader
<1> QED
  BY <1>1, <1>2, <1>3, <1>4, <1>5, <1>6, <1>7, <1>8, <1>9, <1>10 DEF IInv

\* deliver_tier loads its jobs.
LEMMA LoadTierKeeps ==
  ASSUME IInv, LoadTier
  PROVE  IInv'
<1>1. TypeOK'
  BY DEF IInv, TypeOK, LoadTier, ScoredIn, RejectedIn, table, disk, reader
<1>2. DigestIsExact'
  BY DEF IInv, DigestIsExact, Listed, DeliveredJobs, RejectedOn, LoadTier, table,
       disk
<1>3. NotesAreThere'
  BY DEF IInv, NotesAreThere, LoadTier, table, disk, reader
<1>4. MessageIsTheDigest'
  BY DEF IInv, MessageIsTheDigest, Listed, LoadTier, table, disk, reader
<1>5. RepeatedOnlyByFaults'
  BY DEF IInv, RepeatedOnlyByFaults, LoadTier, reader
<1>6. SummaryComesLast'
  BY DEF IInv, SummaryComesLast, LoadTier, table
<1>7. DeliveryIsRecorded'
  BY DEF IInv, DeliveryIsRecorded, LoadTier, table
<1>8. RoundIsSound'
  BY DEF IInv, RoundIsSound, Today, LoadTier, table, disk, reader
<1>9. DeliveryIsSound'
  BY DEF IInv, DeliveryIsSound, Undelivered, ScoredIn, RejectedIn, Listed, Today,
       LoadTier, table, disk
<1>10. TellingIsSound'
  BY DEF IInv, TellingIsSound, UnsentTelegram, DeliveredJobs, Listed, Today,
       LoadTier, table, disk, reader
<1> QED
  BY <1>1, <1>2, <1>3, <1>4, <1>5, <1>6, <1>7, <1>8, <1>9, <1>10 DEF IInv

\* deliver_tier writes notes, digest and rejected list of a tier without a
\* row.
LEMMA WriteFilesKeeps ==
  ASSUME IInv, WriteFiles
  PROVE  IInv'
<1>1. TypeOK'
  <2>1. First(left) \in left /\ First(left) \in Tiers /\ Today \in Days /\ runs[Today][First(left)] = "none"
    BY TodayIsADay, FirstIsThere DEF IInv, TypeOK, DeliveryIsSound, Undelivered,
         WriteFiles
  <2>2. \A j \in batch : LinkDay(j) \in Days
    BY <2>1 DEF IInv, TypeOK, LinkDay
  <2>3. notes' \subseteq Days \X Jobs
    BY <2>1 DEF IInv, TypeOK, WriteFiles
  <2>4. {<<j, LinkDay(j)>> : j \in batch} \in SUBSET (Jobs \X Days)
    <3>1. \A j \in batch : <<j, LinkDay(j)>> \in Jobs \X Days
      BY <2>2 DEF IInv, TypeOK
    <3> QED
      BY <3>1
  <2>5. digest' \in [Days -> [Tiers -> SUBSET (Jobs \X Days)]]
    BY <2>1, <2>4 DEF IInv, TypeOK, WriteFiles
  <2>6. rejects' \in [Days -> [Tiers -> SUBSET Jobs]]
    BY <2>1 DEF IInv, TypeOK, WriteFiles
  <2> QED
    BY <2>3, <2>5, <2>6 DEF IInv, TypeOK, WriteFiles, table, locals, reader
<1>2. DigestIsExact'
  <2>1. First(left) \in left /\ First(left) \in Tiers /\ Today \in Days /\ runs[Today][First(left)] = "none"
    BY TodayIsADay, FirstIsThere DEF IInv, TypeOK, DeliveryIsSound, Undelivered,
         WriteFiles
  <2>2. \A d \in Days, t \in Tiers : runs[d][t] # "none" =>
          digest'[d][t] = digest[d][t] /\ rejects'[d][t] = rejects[d][t]
    BY <2>1 DEF IInv, TypeOK, WriteFiles
  <2> QED
    <3>1. \A d \in Days, t \in Tiers : /\ DeliveredJobs(d, t)' = DeliveredJobs(d, t)
                                       /\ RejectedOn(d, t)' = RejectedOn(d, t)
      BY DEF DeliveredJobs, RejectedOn, WriteFiles, table
    <3>2. UNCHANGED runs
      BY DEF WriteFiles, table
    <3> QED
      BY <3>1, <3>2, <2>2 DEF IInv, DigestIsExact, Listed
<1>3. NotesAreThere'
  <2>1. First(left) \in left /\ First(left) \in Tiers /\ Today \in Days /\ runs[Today][First(left)] = "none"
    BY TodayIsADay, FirstIsThere DEF IInv, TypeOK, DeliveryIsSound, Undelivered,
         WriteFiles
  <2>2. \A d \in Days, t \in Tiers : runs[d][t] # "none" =>
          digest'[d][t] = digest[d][t] /\ rejects'[d][t] = rejects[d][t]
    BY <2>1 DEF IInv, TypeOK, WriteFiles
  <2>3. notes \subseteq notes'
    BY DEF WriteFiles
  <2> QED
    BY <2>2, <2>3 DEF IInv, NotesAreThere, WriteFiles, table, reader
<1>4. MessageIsTheDigest'
  <2>1. First(left) \in left /\ First(left) \in Tiers /\ Today \in Days /\ runs[Today][First(left)] = "none"
    BY TodayIsADay, FirstIsThere DEF IInv, TypeOK, DeliveryIsSound, Undelivered,
         WriteFiles
  <2>2. \A d \in Days, t \in Tiers : runs[d][t] # "none" =>
          digest'[d][t] = digest[d][t] /\ rejects'[d][t] = rejects[d][t]
    BY <2>1 DEF IInv, TypeOK, WriteFiles
  <2> QED
    BY <2>2 DEF IInv, MessageIsTheDigest, Listed, WriteFiles, table, reader
<1>5. RepeatedOnlyByFaults'
  BY DEF IInv, RepeatedOnlyByFaults, WriteFiles, reader
<1>6. SummaryComesLast'
  BY DEF IInv, SummaryComesLast, WriteFiles, table
<1>7. DeliveryIsRecorded'
  BY DEF IInv, DeliveryIsRecorded, WriteFiles, table
<1>8. RoundIsSound'
  BY DEF IInv, RoundIsSound, Today, WriteFiles, table, locals, reader
<1>9. DeliveryIsSound'
  <2>1. First(left) \in left /\ First(left) \in Tiers /\ Today \in Days /\ runs[Today][First(left)] = "none"
    BY TodayIsADay, FirstIsThere DEF IInv, TypeOK, DeliveryIsSound, Undelivered,
         WriteFiles
  <2>2. digest'[Today][First(left)] = {<<j, LinkDay(j)>> : j \in batch}
    BY <2>1 DEF IInv, TypeOK, WriteFiles
  <2>3. Listed(Today, First(left))' = batch
    <3> DEFINE entries == {<<j, LinkDay(j)>> : j \in batch}
    <3>1. Listed(Today, First(left))' = {e[1] : e \in entries}
      BY <2>2 DEF Listed, WriteFiles, Today, locals
    <3>2. (\A e \in entries : e[1] \in batch) /\ \A j \in batch : <<j, LinkDay(j)>> \in entries
      OBVIOUS
    <3>3. \A j \in batch : \E e \in entries : e[1] = j
      BY <3>2
    <3> QED
      BY <3>1, <3>2, <3>3
  <2>4. First(left) \in Checked => rejects'[Today][First(left)] = out
    BY <2>1 DEF IInv, TypeOK, WriteFiles
  <2>5. \A j \in batch : NeedsNote(j) => <<Today, j>> \in notes'
    BY DEF WriteFiles
  <2>6. \A j \in batch : <<LinkDay(j), j>> \in notes'
    BY <2>5 DEF IInv, TypeOK, NotesAreThere, LinkDay, NeedsNote, WriteFiles
  <2>7. \A e \in digest'[Today][First(left)] : <<e[2], e[1]>> \in notes'
    BY <2>2, <2>6
  <2>8. \A j \in batch : noteDay[j] = Never => <<Today, j>> \in notes'
    BY <2>5 DEF NeedsNote
  <2> QED
    BY <2>1, <2>3, <2>4, <2>7, <2>8 DEF IInv, DeliveryIsSound, Undelivered,
         ScoredIn, RejectedIn, WriteFiles, Today, table, locals
<1>10. TellingIsSound'
  BY DEF IInv, TellingIsSound, UnsentTelegram, DeliveredJobs, Listed, Today,
       WriteFiles, table, locals, reader
<1> QED
  BY <1>1, <1>2, <1>3, <1>4, <1>5, <1>6, <1>7, <1>8, <1>9, <1>10 DEF IInv

\* deliver_tier's transaction.
LEMMA CommitTierKeeps ==
  ASSUME IInv, CommitTier
  PROVE  IInv'
<1>1. TypeOK'
  <2>1. First(left) \in Tiers /\ Today \in Days
    BY Committed
  <2>4. /\ stage' \in [Jobs -> {"waiting", "scored", "rejected", "delivered"}]
        /\ deliveryDay' \in [Jobs -> Days \cup {Never}] /\ noteDay' \in [Jobs -> Days \cup {Never}]
    BY <2>1 DEF IInv, TypeOK, CommitTier
  <2>5. runs' \in [Days -> [Tiers -> {"none", "unsent", "sent"}]]
    BY <2>1 DEF IInv, TypeOK, CommitTier
  <2>6. brought' \in [Tiers -> SUBSET Jobs] /\ left' \subseteq Tiers /\ made' \subseteq Tiers
    BY <2>1 DEF IInv, TypeOK, CommitTier
  <2> QED
    BY <2>4, <2>5, <2>6 DEF IInv, TypeOK, CommitTier, disk, reader
<1>2. DigestIsExact'
  <2> DEFINE t0 == First(left)
  <2>1. Today' = Today /\ digest' = digest /\ rejects' = rejects /\ Listed(Today, t0) = batch
        /\ (t0 \in Checked => rejects[Today][t0] = out)
    BY Committed DEF IInv, DeliveryIsSound, CommitTier, disk
  <2>8. ASSUME NEW d \in Days, NEW t \in Tiers, d # Today \/ t # t0
        PROVE  /\ DeliveredJobs(d, t)' = DeliveredJobs(d, t)
               /\ RejectedOn(d, t)' = RejectedOn(d, t)
    BY <2>8, Committed DEF DeliveredJobs, RejectedOn, CommitTier, Delivered,
         Days, Never
  <2> SUFFICES ASSUME NEW d \in Days, NEW t \in Tiers, runs'[d][t] # "none"
               PROVE  /\ Listed(d, t)' = DeliveredJobs(d, t)'
                      /\ t \in Checked => rejects'[d][t] = RejectedOn(d, t)'
    BY DEF DigestIsExact
  <2>9. Listed(d, t)' = Listed(d, t)
    BY <2>1 DEF Listed
  <2>10. CASE d = Today /\ t = t0
    <3>1. DeliveredJobs(d, t)' = batch /\ RejectedOn(d, t)' = out
      BY <2>10, Committed
    <3> QED
      BY <3>1, <2>1, <2>9, <2>10
  <2>11. CASE d # Today \/ t # t0
    <3>1. runs[d][t] # "none"
      BY <2>11, Committed
    <3> QED
      BY <3>1, <2>1, <2>8, <2>9, <2>11 DEF IInv, DigestIsExact
  <2> QED
    BY <2>10, <2>11
<1>3. NotesAreThere'
  <2> DEFINE t0 == First(left)
  <2>4. \A j \in Jobs : noteDay'[j] # Never => <<noteDay'[j], j>> \in notes
    BY DEF IInv, NotesAreThere, DeliveryIsSound, Delivered, CommitTier
  <2>5. \A j \in Jobs : noteDay[j] # Never => noteDay'[j] # Never
    BY DEF IInv, TypeOK, Delivered, CommitTier
  <2>6. \A e \in digest[Today][t0] : <<e[2], e[1]>> \in notes
    BY DEF IInv, DeliveryIsSound, CommitTier
  <2>7. \A d \in Days, t \in Tiers : runs'[d][t] # "none" => runs[d][t] # "none" \/ (d = Today /\ t = t0)
    BY Committed
  <2> QED
    BY <2>4, <2>5, <2>6, <2>7 DEF IInv, NotesAreThere, CommitTier, disk, reader
<1>4. MessageIsTheDigest'
  <2>4. \A d \in Days, t \in Tiers : runs'[d][t] = "sent" => runs[d][t] = "sent"
    BY Committed
  <2> QED
    BY <2>4 DEF IInv, MessageIsTheDigest, Listed, CommitTier, disk, reader
<1>5. RepeatedOnlyByFaults'
  BY DEF IInv, RepeatedOnlyByFaults, CommitTier, reader
<1>6. SummaryComesLast'
  <2>4. Today \notin summaries
    BY Committed DEF IInv, SummaryComesLast
  <2>5. \A d \in Days \ {Today}, t \in Tiers : runs'[d][t] = runs[d][t]
    BY Committed
  <2> QED
    BY <2>4, <2>5 DEF IInv, TypeOK, SummaryComesLast, CommitTier
<1>7. DeliveryIsRecorded'
  <2> DEFINE t0 == First(left)
  <2>4. \A d \in Days, t \in Tiers : runs[d][t] # "none" => runs'[d][t] # "none"
    BY Committed
  <2>5. /\ \A j \in batch \cup out : deliveryDay'[j] = Today /\ TierOf[j] = t0 /\ runs'[Today][t0] # "none"
        /\ \A j \in Jobs \ (batch \cup out) : deliveryDay'[j] = deliveryDay[j]
    BY Committed DEF CommitTier, Delivered
  <2>6. deliveryDay \in [Jobs -> Days \cup {Never}] /\ TierOf \in [Jobs -> Tiers]
    BY DeliveryAssumption DEF IInv, TypeOK
  <2>7. \A j \in Jobs : deliveryDay'[j] # Never => runs'[deliveryDay'[j]][TierOf[j]] # "none"
    BY <2>4, <2>5, <2>6 DEF IInv, DeliveryIsRecorded
  <2>8. \A j \in Jobs : stage'[j] \in {"waiting", "scored"} => deliveryDay'[j] = Never
    BY Committed DEF IInv, DeliveryIsRecorded, Delivered, CommitTier
  <2> QED
    BY <2>7, <2>8 DEF DeliveryIsRecorded
<1>8. RoundIsSound'
  BY DEF IInv, RoundIsSound, Today, CommitTier, disk, reader
<1>9. DeliveryIsSound'
  BY DEF IInv, DeliveryIsSound, Undelivered, ScoredIn, RejectedIn, Listed, Today,
       CommitTier, disk
<1>10. TellingIsSound'
  <2> DEFINE t0 == First(left)
  <2>1. Today' = Today /\ made' = made \cup {t0} /\ pc' = "tiers"
    BY Committed DEF CommitTier
  <2>2. runs'[Today][t0] # "none" /\ brought'[t0] = batch
    BY Committed DEF IInv, TypeOK, CommitTier
  <2>4. \A t \in Tiers : runs[Today][t] # "none" => runs'[Today][t] # "none"
    BY Committed
  <2>5. \A t \in Tiers \ {t0} : brought'[t] = brought[t]
    BY DEF IInv, TypeOK, CommitTier
  <2>6. ASSUME NEW t \in made'
        PROVE  /\ runs'[Today][t] # "none"
               /\ brought'[t] = {j \in Jobs : /\ TierOf[j] = t /\ stage'[j] = "delivered"
                                              /\ deliveryDay'[j] = Today}
    <3>1. CASE t = t0
      <4>1. PICK d \in Days, u \in Tiers : d = Today /\ u = t0
        BY Committed
      <4>2. DeliveredJobs(d, u)' = batch
        BY <4>1, Committed
      <4> QED
        BY <3>1, <4>1, <4>2, <2>2 DEF DeliveredJobs
    <3>2. CASE t # t0
      <4>1. t \in made /\ t \in Tiers
        BY <3>2, <2>1 DEF IInv, TypeOK
      <4>2. \A j \in Jobs : TierOf[j] = t => stage'[j] = stage[j] /\ deliveryDay'[j] = deliveryDay[j]
        BY <3>2, Committed DEF CommitTier, Delivered
      <4>3. runs[Today][t] # "none" /\ brought[t] = DeliveredJobs(Today, t)
        BY <4>1 DEF IInv, TellingIsSound
      <4> QED
        BY <3>2, <4>1, <4>2, <4>3, <2>4, <2>5 DEF DeliveredJobs
    <3> QED
      BY <3>1, <3>2
  <2> QED
    BY <2>1, <2>6 DEF TellingIsSound, DeliveredJobs
<1> QED
  BY <1>1, <1>2, <1>3, <1>4, <1>5, <1>6, <1>7, <1>8, <1>9, <1>10 DEF IInv

\* The tiers whose digest message is unsent.
LEMMA TiersDoneKeeps ==
  ASSUME IInv, TiersDone
  PROVE  IInv'
<1>1. TypeOK'
  BY DEF IInv, TypeOK, TiersDone, UnsentTelegram, table, disk, reader
<1>2. DigestIsExact'
  BY DEF IInv, DigestIsExact, Listed, DeliveredJobs, RejectedOn, TiersDone,
       table, disk
<1>3. NotesAreThere'
  BY DEF IInv, NotesAreThere, TiersDone, table, disk, reader
<1>4. MessageIsTheDigest'
  BY DEF IInv, MessageIsTheDigest, Listed, TiersDone, table, disk, reader
<1>5. RepeatedOnlyByFaults'
  BY DEF IInv, RepeatedOnlyByFaults, TiersDone, reader
<1>6. SummaryComesLast'
  BY DEF IInv, SummaryComesLast, TiersDone, table
<1>7. DeliveryIsRecorded'
  BY DEF IInv, DeliveryIsRecorded, TiersDone, table
<1>8. RoundIsSound'
  BY DEF IInv, RoundIsSound, Today, TiersDone, table, disk, reader
<1>9. DeliveryIsSound'
  BY DEF IInv, DeliveryIsSound, Undelivered, ScoredIn, RejectedIn, Listed, Today,
       TiersDone, table, disk
<1>10. TellingIsSound'
  BY DEF IInv, TellingIsSound, UnsentTelegram, DeliveredJobs, Listed, Today,
       TiersDone, table, disk, reader
<1> QED
  BY <1>1, <1>2, <1>3, <1>4, <1>5, <1>6, <1>7, <1>8, <1>9, <1>10 DEF IInv

\* A digest message reaches the reader.
LEMMA SendDigestKeeps ==
  ASSUME IInv, SendDigest
  PROVE  IInv'
<1>1. TypeOK'
  <2>1. First(left) \in Tiers /\ Today \in Days
    BY TodayIsADay, FirstIsThere DEF IInv, TypeOK, SendDigest
  <2>2. MessageOf(First(left)) \subseteq Jobs
    BY <2>1 DEF IInv, TypeOK, MessageOf, DeliveredJobs
  <2> QED
    BY <2>1, <2>2 DEF IInv, TypeOK, SendDigest, table, disk, locals
<1>2. DigestIsExact'
  BY DigestsStay DEF IInv, SendDigest, table, disk
<1>3. NotesAreThere'
  BY DEF IInv, NotesAreThere, SendDigest, table, disk
<1>4. MessageIsTheDigest'
  <2>1. First(left) \in Tiers /\ Today \in Days /\ runs[Today][First(left)] # "sent"
    BY TodayIsADay, FirstIsThere DEF IInv, TypeOK, TellingIsSound,
         UnsentTelegram, SendDigest
  <2> QED
    BY <2>1 DEF IInv, TypeOK, MessageIsTheDigest, Listed, SendDigest, table, disk
<1>5. RepeatedOnlyByFaults'
  BY DEF IInv, RepeatedOnlyByFaults, SendDigest
<1>6. SummaryComesLast'
  BY DEF IInv, SummaryComesLast, SendDigest, table
<1>7. DeliveryIsRecorded'
  BY DEF IInv, DeliveryIsRecorded, SendDigest, table
<1>8. RoundIsSound'
  BY DEF IInv, RoundIsSound, Today, SendDigest, table, disk, locals
<1>9. DeliveryIsSound'
  BY DEF IInv, DeliveryIsSound, Undelivered, ScoredIn, RejectedIn, Listed, Today,
       SendDigest, table, disk, locals
<1>10. TellingIsSound'
  <2>1. First(left) \in Tiers /\ Today \in Days /\ runs[Today][First(left)] # "none"
    BY TodayIsADay, FirstIsThere DEF IInv, TypeOK, TellingIsSound,
         UnsentTelegram, SendDigest
  <2>2. MessageOf(First(left)) = Listed(Today, First(left))
    BY <2>1 DEF IInv, TellingIsSound, DigestIsExact, MessageOf
  <2>3. messages'[Today][First(left)] = Listed(Today, First(left))
    BY <2>1, <2>2 DEF IInv, TypeOK, SendDigest
  <2> QED
    BY <2>3 DEF IInv, TellingIsSound, SendDigest, DeliveredJobs, UnsentTelegram,
         Listed, Today, table, disk, locals
<1> QED
  BY <1>1, <1>2, <1>3, <1>4, <1>5, <1>6, <1>7, <1>8, <1>9, <1>10 DEF IInv

\* Telegram refuses a digest message; its row stays unsent.
LEMMA DigestRefusedKeeps ==
  ASSUME IInv, DigestRefused
  PROVE  IInv'
<1>1. TypeOK'
  BY DEF IInv, TypeOK, DigestRefused, table, disk, reader
<1>2. DigestIsExact'
  BY DEF IInv, DigestIsExact, Listed, DeliveredJobs, RejectedOn, DigestRefused,
       table, disk
<1>3. NotesAreThere'
  BY DEF IInv, NotesAreThere, DigestRefused, table, disk, reader
<1>4. MessageIsTheDigest'
  BY DEF IInv, MessageIsTheDigest, Listed, DigestRefused, table, disk, reader
<1>5. RepeatedOnlyByFaults'
  BY DEF IInv, RepeatedOnlyByFaults, DigestRefused, reader
<1>6. SummaryComesLast'
  BY DEF IInv, SummaryComesLast, DigestRefused, table
<1>7. DeliveryIsRecorded'
  BY DEF IInv, DeliveryIsRecorded, DigestRefused, table
<1>8. RoundIsSound'
  BY DEF IInv, RoundIsSound, Today, DigestRefused, table, disk, reader
<1>9. DeliveryIsSound'
  BY DEF IInv, DeliveryIsSound, Undelivered, ScoredIn, RejectedIn, Listed, Today,
       DigestRefused, table, disk
<1>10. TellingIsSound'
  BY DEF IInv, TellingIsSound, UnsentTelegram, DeliveredJobs, Listed, Today,
       DigestRefused, table, disk, reader
<1> QED
  BY <1>1, <1>2, <1>3, <1>4, <1>5, <1>6, <1>7, <1>8, <1>9, <1>10 DEF IInv

\* The row of a sent digest message is marked.
LEMMA MarkTelegramSentKeeps ==
  ASSUME IInv, MarkTelegramSent
  PROVE  IInv'
<1>1. TypeOK'
  BY DEF IInv, TypeOK, MarkTelegramSent, disk, reader
<1>2. DigestIsExact'
  <2>1. First(left) \in left /\ Today \in Days /\ left \subseteq UnsentTelegram(Today)
    BY TodayIsADay, FirstIsThere DEF IInv, TypeOK, TellingIsSound, MarkTelegramSent
  <2>2. \A d \in Days, t \in Tiers : runs'[d][t] # "none" => runs[d][t] # "none"
    BY <2>1 DEF IInv, TypeOK, UnsentTelegram, MarkTelegramSent
  <2> QED
    <3>1. \A d \in Days, t \in Tiers : /\ DeliveredJobs(d, t)' = DeliveredJobs(d, t)
                                       /\ RejectedOn(d, t)' = RejectedOn(d, t)
      BY DEF DeliveredJobs, RejectedOn, MarkTelegramSent
    <3> QED
      BY <3>1, <2>2 DEF IInv, DigestIsExact, Listed, MarkTelegramSent, disk
<1>3. NotesAreThere'
  <2>1. First(left) \in left /\ Today \in Days /\ left \subseteq UnsentTelegram(Today)
    BY TodayIsADay, FirstIsThere DEF IInv, TypeOK, TellingIsSound, MarkTelegramSent
  <2>2. \A d \in Days, t \in Tiers : runs'[d][t] # "none" => runs[d][t] # "none"
    BY <2>1 DEF IInv, TypeOK, UnsentTelegram, MarkTelegramSent
  <2> QED
    BY <2>2 DEF IInv, NotesAreThere, MarkTelegramSent, disk, reader
<1>4. MessageIsTheDigest'
  <2>1. First(left) \in left /\ Today \in Days /\ left \subseteq UnsentTelegram(Today)
    BY TodayIsADay, FirstIsThere DEF IInv, TypeOK, TellingIsSound, MarkTelegramSent
  <2>2. messages[Today][First(left)] = Listed(Today, First(left))
    BY DEF IInv, TellingIsSound, MarkTelegramSent
  <2> QED
    BY <2>1, <2>2 DEF IInv, TypeOK, MessageIsTheDigest, Listed, MarkTelegramSent,
         disk, reader
<1>5. RepeatedOnlyByFaults'
  BY DEF IInv, RepeatedOnlyByFaults, MarkTelegramSent, reader
<1>6. SummaryComesLast'
  <2>1. First(left) \in left /\ Today \in Days /\ left \subseteq UnsentTelegram(Today)
    BY TodayIsADay, FirstIsThere DEF IInv, TypeOK, TellingIsSound, MarkTelegramSent
  <2>2. \A d \in Days, t \in Tiers : runs[d][t] = "sent" => runs'[d][t] = "sent"
    BY <2>1 DEF IInv, TypeOK, MarkTelegramSent
  <2>3. UNCHANGED summaries /\ summaries \subseteq Days
    BY DEF IInv, TypeOK, MarkTelegramSent
  <2> QED
    BY <2>2, <2>3 DEF IInv, SummaryComesLast
<1>7. DeliveryIsRecorded'
  BY DeliveryAssumption, FirstIsThere DEF IInv, DeliveryIsRecorded,
       MarkTelegramSent, Today, TypeOK
<1>8. RoundIsSound'
  BY DEF IInv, RoundIsSound, Today, MarkTelegramSent, disk, reader
<1>9. DeliveryIsSound'
  BY DEF IInv, DeliveryIsSound, Undelivered, ScoredIn, RejectedIn, Listed, Today,
       MarkTelegramSent, disk
<1>10. TellingIsSound'
  <2>1. First(left) \in left /\ Today \in Days /\ left \subseteq UnsentTelegram(Today)
    BY TodayIsADay, FirstIsThere DEF IInv, TypeOK, TellingIsSound, MarkTelegramSent
  <2>2. \A t \in Tiers : runs[Today][t] # "none" => runs'[Today][t] # "none"
    BY <2>1 DEF IInv, TypeOK, MarkTelegramSent
  <2>3. \A t \in left \ {First(left)} : runs'[Today][t] = "unsent"
    BY <2>1 DEF IInv, TypeOK, UnsentTelegram, MarkTelegramSent
  <2> QED
    BY <2>1, <2>2, <2>3 DEF IInv, TypeOK, TellingIsSound, MarkTelegramSent,
         DeliveredJobs, UnsentTelegram, Today
<1> QED
  BY <1>1, <1>2, <1>3, <1>4, <1>5, <1>6, <1>7, <1>8, <1>9, <1>10 DEF IInv

\* The day summary is sent.
LEMMA SendSummaryKeeps ==
  ASSUME IInv, SendSummary
  PROVE  IInv'
<1>1. TypeOK'
  BY DEF IInv, TypeOK, SendSummary, table, disk, locals, reader
<1>2. DigestIsExact'
  BY DigestsStay DEF IInv, SendSummary, table, disk
<1>3. NotesAreThere'
  BY DEF IInv, NotesAreThere, SendSummary, table, disk, reader
<1>4. MessageIsTheDigest'
  BY DEF IInv, MessageIsTheDigest, Listed, SendSummary, table, disk, reader
<1>5. RepeatedOnlyByFaults'
  BY DEF IInv, RepeatedOnlyByFaults, SendSummary, reader
<1>6. SummaryComesLast'
  BY DEF IInv, SummaryComesLast, SendSummary, table
<1>7. DeliveryIsRecorded'
  BY DEF IInv, DeliveryIsRecorded, SendSummary, table
<1>8. RoundIsSound'
  BY DEF IInv, RoundIsSound, Today, SendSummary, table, disk, locals, reader
<1>9. DeliveryIsSound'
  BY DEF IInv, DeliveryIsSound, Undelivered, ScoredIn, RejectedIn, Listed, Today,
       SendSummary, table, disk, locals
<1>10. TellingIsSound'
  <2>1. Today \in Days
    BY TodayIsADay DEF IInv
  <2>2. \A t \in Tiers : runs[Today][t] \in {"none", "unsent", "sent"}
    BY <2>1 DEF IInv, TypeOK
  <2>3. \A t \in Tiers : runs[Today][t] = "sent"
    BY <2>2 DEF SendSummary, SummaryDue, Undelivered, UnsentTelegram
  <2> QED
    BY <2>3 DEF IInv, TellingIsSound, SendSummary, DeliveredJobs, UnsentTelegram,
         Listed, Today, table, disk, locals, reader
<1> QED
  BY <1>1, <1>2, <1>3, <1>4, <1>5, <1>6, <1>7, <1>8, <1>9, <1>10 DEF IInv

\* The tick ends without a summary.
LEMMA EndTickKeeps ==
  ASSUME IInv, EndTick
  PROVE  IInv'
<1>1. TypeOK'
  BY DEF IInv, TypeOK, EndTick, Forget, table, disk, reader
<1>2. DigestIsExact'
  BY DEF IInv, DigestIsExact, Listed, DeliveredJobs, RejectedOn, EndTick, Forget,
       table, disk
<1>3. NotesAreThere'
  BY DEF IInv, NotesAreThere, EndTick, Forget, table, disk, reader
<1>4. MessageIsTheDigest'
  BY DEF IInv, MessageIsTheDigest, Listed, EndTick, Forget, table, disk, reader
<1>5. RepeatedOnlyByFaults'
  BY DEF IInv, RepeatedOnlyByFaults, EndTick, Forget, reader
<1>6. SummaryComesLast'
  BY DEF IInv, SummaryComesLast, EndTick, Forget, table
<1>7. DeliveryIsRecorded'
  BY DEF IInv, DeliveryIsRecorded, EndTick, Forget, table
<1>8. RoundIsSound'
  BY DEF IInv, RoundIsSound, Today, EndTick, Forget, table, disk, reader
<1>9. DeliveryIsSound'
  BY DEF IInv, DeliveryIsSound, Undelivered, ScoredIn, RejectedIn, Listed, Today,
       EndTick, Forget, table, disk
<1>10. TellingIsSound'
  BY DEF IInv, TellingIsSound, UnsentTelegram, DeliveredJobs, Listed, Today,
       EndTick, Forget, table, disk, reader
<1> QED
  BY <1>1, <1>2, <1>3, <1>4, <1>5, <1>6, <1>7, <1>8, <1>9, <1>10 DEF IInv

\* The day summary is marked.
LEMMA MarkSummarySentKeeps ==
  ASSUME IInv, MarkSummarySent
  PROVE  IInv'
<1>1. TypeOK'
  BY TodayIsADay DEF IInv, TypeOK, MarkSummarySent, Forget, disk, reader
<1>2. DigestIsExact'
  BY DigestsStay DEF IInv, MarkSummarySent, table, disk
<1>3. NotesAreThere'
  BY DEF IInv, NotesAreThere, MarkSummarySent, Forget, disk, reader
<1>4. MessageIsTheDigest'
  BY DEF IInv, MessageIsTheDigest, Listed, MarkSummarySent, Forget, disk, reader
<1>5. RepeatedOnlyByFaults'
  BY DEF IInv, RepeatedOnlyByFaults, MarkSummarySent, Forget, reader
<1>6. SummaryComesLast'
  BY DEF IInv, TellingIsSound, SummaryComesLast, MarkSummarySent
<1>7. DeliveryIsRecorded'
  BY DEF IInv, DeliveryIsRecorded, MarkSummarySent, Forget
<1>8. RoundIsSound'
  BY DEF IInv, RoundIsSound, Today, MarkSummarySent, Forget, disk, reader
<1>9. DeliveryIsSound'
  BY DEF IInv, DeliveryIsSound, Undelivered, ScoredIn, RejectedIn, Listed, Today,
       MarkSummarySent, Forget, disk
<1>10. TellingIsSound'
  BY DEF IInv, TellingIsSound, UnsentTelegram, DeliveredJobs, Listed, Today,
       MarkSummarySent, Forget, disk, reader
<1> QED
  BY <1>1, <1>2, <1>3, <1>4, <1>5, <1>6, <1>7, <1>8, <1>9, <1>10 DEF IInv

\* A death or an exception forgets what the tick held.
LEMMA DieKeeps ==
  ASSUME IInv, Die
  PROVE  IInv'
<1>1. TypeOK'
  <2>1. faults + 1 \in 0..MaxFaults
    BY FaultsAreCounted, DeliveryAssumption DEF Die
  <2> QED
    BY <2>1 DEF IInv, TypeOK, Die, Forget, table, disk, reader
<1>2. DigestIsExact'
  BY DigestsStay DEF IInv, Die, table, disk
<1>3. NotesAreThere'
  BY DEF IInv, NotesAreThere, Die, Forget, table, disk, reader
<1>4. MessageIsTheDigest'
  BY DEF IInv, MessageIsTheDigest, Listed, Die, Forget, table, disk, reader
<1>5. RepeatedOnlyByFaults'
  BY FaultsAreCounted DEF RepeatedOnlyByFaults, Die, reader
<1>6. SummaryComesLast'
  BY DEF IInv, SummaryComesLast, Die, Forget, table
<1>7. DeliveryIsRecorded'
  BY DEF IInv, DeliveryIsRecorded, Die, Forget, table
<1>8. RoundIsSound'
  <2>1. \A j \in Jobs : received'[j] <= faults'
    BY FaultsAreCounted DEF Die, reader
  <2> QED
    BY <2>1 DEF RoundIsSound, Die, Forget
<1>9. DeliveryIsSound'
  BY DEF IInv, DeliveryIsSound, Undelivered, ScoredIn, RejectedIn, Listed, Today,
       Die, Forget, table, disk
<1>10. TellingIsSound'
  BY DEF IInv, TellingIsSound, UnsentTelegram, DeliveredJobs, Listed, Today, Die,
       Forget, table, disk, reader
<1> QED
  BY <1>1, <1>2, <1>3, <1>4, <1>5, <1>6, <1>7, <1>8, <1>9, <1>10 DEF IInv


\* An empty store and empty folders.
LEMMA InitEstablishes ==
  ASSUME Init
  PROVE  IInv
<1>1. TypeOK
  BY DeliveryAssumption DEF Init, TypeOK, Clocks, Days
<1> QED
  BY <1>1 DEF Init, IInv, DigestIsExact, NotesAreThere, MessageIsTheDigest,
       RepeatedOnlyByFaults,
              SummaryComesLast, DeliveryIsRecorded, RoundIsSound, DeliveryIsSound, TellingIsSound

\* A step of something else.
LEMMA StutterKeeps ==
  ASSUME IInv, UNCHANGED vars
  PROVE  IInv'
<1>1. TypeOK'
  BY DEF IInv, TypeOK, vars, table, disk, locals, reader
<1>2. DigestIsExact'
  BY DigestsStay DEF IInv, vars, table, disk
<1>3. NotesAreThere'
  BY DEF IInv, NotesAreThere, vars, table, disk, reader
<1>4. MessageIsTheDigest'
  BY DEF IInv, MessageIsTheDigest, Listed, vars, table, disk, reader
<1>5. RepeatedOnlyByFaults'
  BY DEF IInv, RepeatedOnlyByFaults, vars, reader
<1>6. SummaryComesLast'
  BY DEF IInv, SummaryComesLast, vars, table
<1>7. DeliveryIsRecorded'
  BY DEF IInv, DeliveryIsRecorded, vars, table
<1>8. RoundIsSound'
  BY DEF IInv, RoundIsSound, Today, vars, table, disk, locals, reader
<1>9. DeliveryIsSound'
  BY DEF IInv, DeliveryIsSound, Undelivered, ScoredIn, RejectedIn, Listed, Today,
       vars, table,
         disk, locals
<1>10. TellingIsSound'
  BY DEF IInv, TellingIsSound, UnsentTelegram, DeliveredJobs, Listed, Today,
       vars, table,
         disk, locals, reader
<1> QED
  BY <1>1, <1>2, <1>3, <1>4, <1>5, <1>6, <1>7, <1>8, <1>9, <1>10 DEF IInv

\* Every step of the service, the processor and the clock keeps the invariant.
LEMMA StepKeeps ==
  ASSUME IInv, [Next]_vars
  PROVE  IInv'
<1>1. ASSUME NEW j \in Jobs, Score(j) PROVE IInv'
  BY <1>1, ScoreKeeps
<1>2. ASSUME NEW j \in Jobs, Reject(j) PROVE IInv'
  BY <1>2, RejectKeeps
<1>3. CASE Pass
  BY <1>3, PassKeeps
<1>4. CASE Begin
  BY <1>4, BeginKeeps
<1>5. ASSUME NEW j \in Jobs, NextAlert(j) PROVE IInv'
  BY <1>5, NextAlertKeeps
<1>6. CASE WriteNote
  BY <1>6, WriteNoteKeeps
<1>7. CASE CommitNote
  BY <1>7, CommitNoteKeeps
<1>8. CASE SendAlert
  BY <1>8, SendAlertKeeps
<1>9. CASE AlertRefused
  BY <1>9, AlertRefusedKeeps
<1>10. CASE AlertAnswerLost
  BY <1>10, AlertAnswerLostKeeps
<1>11. CASE MarkAlerted
  BY <1>11, MarkAlertedKeeps
<1>12. CASE AlertsDone
  BY <1>12, AlertsDoneKeeps
<1>13. CASE DeliveryPending
  BY <1>13, DeliveryPendingKeeps
<1>14. CASE LoadTier
  BY <1>14, LoadTierKeeps
<1>15. CASE WriteFiles
  BY <1>15, WriteFilesKeeps
<1>16. CASE CommitTier
  BY <1>16, CommitTierKeeps
<1>17. CASE TiersDone
  BY <1>17, TiersDoneKeeps
<1>18. CASE SendDigest
  BY <1>18, SendDigestKeeps
<1>19. CASE DigestRefused
  BY <1>19, DigestRefusedKeeps
<1>20. CASE MarkTelegramSent
  BY <1>20, MarkTelegramSentKeeps
<1>21. CASE SendSummary
  BY <1>21, SendSummaryKeeps
<1>22. CASE EndTick
  BY <1>22, EndTickKeeps
<1>23. CASE MarkSummarySent
  BY <1>23, MarkSummarySentKeeps
<1>24. CASE Die
  BY <1>24, DieKeeps
<1>25. CASE UNCHANGED vars
  BY <1>25, StutterKeeps
<1> QED
  BY <1>1, <1>2, <1>3, <1>4, <1>5, <1>6, <1>7, <1>8, <1>9, <1>10, <1>11, <1>12,
       <1>13, <1>14, <1>15, <1>16, <1>17, <1>18, <1>19, <1>20, <1>21, <1>22,
       <1>23, <1>24, <1>25 DEF Next, TickStep, Alerting, Delivering, Telling

\* Where the tick stands, what it holds and what it has already written agree
\* with the store, the files and the reader, in every reachable state.
THEOREM Invariance == Spec => []IInv
<1>1. Init => IInv
  BY InitEstablishes
<1>2. IInv /\ [Next]_vars => IInv'
  BY StepKeeps
<1> QED
  BY <1>1, <1>2, PTL DEF Spec

\* A digest whose delivery is recorded is made from exactly the jobs
\* deliver_tier committed with it (daily.py:81), whatever was scored or died
\* in between.
THEOREM DigestsAreExact == Spec => []DigestIsExact
<1>1. IInv => DigestIsExact
  BY DEF IInv
<1> QED
  BY <1>1, Invariance, PTL

\* Every note that a row, a recorded digest or an alert speaks of was written
\* before it (alerts.py:57, daily.py:72).
THEOREM NotesAreOnDisk == Spec => []NotesAreThere
<1>1. IInv => NotesAreThere
  BY DEF IInv
<1> QED
  BY <1>1, Invariance, PTL

\* The digest message that counts as sent, rebuilt from the store or not
\* (service.py:109), is the digest on disk.
THEOREM MessagesAreDigests == Spec => []MessageIsTheDigest
<1>1. IInv => MessageIsTheDigest
  BY DEF IInv
<1> QED
  BY <1>1, Invariance, PTL

\* The day summary is marked only after every tier's digest of the day
\* (service.py:115).
THEOREM SummariesComeLast == Spec => []SummaryComesLast
<1>1. IInv => SummaryComesLast
  BY DEF IInv
<1> QED
  BY <1>1, Invariance, PTL

\* An alert is repeated only by a death or a lost answer between the send and
\* the row (alerts.py:64).
THEOREM OnlyFaultsRepeat == Spec => []RepeatedOnlyByFaults
<1>1. IInv => RepeatedOnlyByFaults
  BY DEF IInv
<1> QED
  BY <1>1, Invariance, PTL

\* deliver_tier only touches jobs and digests that no delivery is recorded
\* for.
LEMMA StepDeliversForGood ==
  ASSUME IInv, Next
  PROVE  /\ \A j \in Jobs : deliveryDay[j] # Never => deliveryDay'[j] = deliveryDay[j]
         /\ \A d \in Days, t \in Tiers : runs[d][t] # "none" =>
              digest'[d][t] = digest[d][t] /\ rejects'[d][t] = rejects[d][t]
<1>1. CASE CommitTier
  BY <1>1, Committed DEF CommitTier, Delivered, disk
<1>2. CASE WriteFiles
  <2>1. First(left) \in left /\ Today \in Days /\ left \subseteq Undelivered(Today)
    BY <1>2, TierInHand DEF IInv, DeliveryIsSound, WriteFiles
  <2>2. runs[Today][First(left)] = "none"
    BY <2>1 DEF Undelivered
  <2> QED
    BY <1>2, <2>1, <2>2 DEF IInv, TypeOK, WriteFiles, table
<1>3. CASE UNCHANGED <<deliveryDay, digest, rejects>>
  BY <1>3
<1>4. CASE Next /\ ~CommitTier /\ ~WriteFiles
  <2>1. UNCHANGED <<deliveryDay, digest, rejects>>
    BY <1>4 DEF Next, TickStep, Alerting, Delivering, Telling, Score, Reject, Pass,
         Begin, NextAlert, WriteNote, CommitNote, SendAlert, AlertRefused,
         AlertAnswerLost, BreakRound, MarkAlerted, AlertsDone, DeliveryPending,
         LoadTier, TiersDone, SendDigest, DigestRefused, MarkTelegramSent,
         SendSummary, EndTick, MarkSummarySent, Die, table, disk
  <2> QED
    BY <2>1, <1>3
<1> QED
  BY <1>1, <1>2, <1>4

\* No job is delivered or listed as rejected on a second day, and no recorded
\* digest is rewritten (daily.py:63).
THEOREM DeliveriesAreForGood == Spec => DeliveredForGood
<1>1. IInv /\ [Next]_vars =>
        [/\ \A j \in Jobs : deliveryDay[j] # Never => deliveryDay'[j] = deliveryDay[j]
         /\ \A d \in Days, t \in Tiers : runs[d][t] # "none" =>
              digest'[d][t] = digest[d][t] /\ rejects'[d][t] = rejects[d][t]]_vars
  BY StepDeliversForGood
<1> QED
  BY <1>1, Invariance, PTL DEF Spec, DeliveredForGood

=============================================================================
