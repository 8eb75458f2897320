----------------------------- MODULE WalkProofs -----------------------------
(* Proofs about the slice walk: the stored offset never runs ahead of the    *)
(* sightings and is only given up when a walk finishes, for lists, pages and *)
(* windows of any size and interruptions at any moment.  And about the order *)
(* in which slices are claimed: the tiers take turns (Rotation).             *)
EXTENDS Walk, FiniteSetTheorems, SequenceTheorems, WellFoundedInduction, TLAPS

\* What TypeOK says of records, as far as the proofs need it.
RecordTypes ==
  /\ slice = [offset |-> slice.offset, walked |-> slice.walked, last |-> slice.last,
              due |-> slice.due, interval |-> slice.interval, empties |-> slice.empties]
  /\ walk = [on |-> walk.on, start |-> walk.start, window |-> walk.window, age |-> walk.age,
             pages |-> walk.pages, cards |-> walk.cards, seen |-> walk.seen,
             widest |-> walk.widest, full |-> walk.full, streak |-> walk.streak,
             refusals |-> walk.refusals, distrust |-> walk.distrust, ends |-> walk.ends]
  /\ list = [age |-> list.age, size |-> list.size, spread |-> list.spread, cut |-> list.cut,
             cold |-> list.cold, strained |-> list.strained]
  /\ walk.age \in Nat

Inductive == IInv /\ RecordTypes

\* An interval of n numbers has n elements.
LEMMA LastOnes ==
  ASSUME NEW b \in Int, NEW n \in Nat
  PROVE  IsFiniteSet((b - n + 1)..b) /\ Cardinality((b - n + 1)..b) = n
<1> DEFINE a == b - n + 1
<1>1. a \in Int /\ b - a + 1 = n /\ (a > b <=> n = 0)
  OBVIOUS
<1> HIDE DEF a
<1>2. IsFiniteSet(a..b) /\ Cardinality(a..b) = IF a > b THEN 0 ELSE b - a + 1
  BY <1>1, FS_Interval
<1>3. IsFiniteSet(a..b) /\ Cardinality(a..b) = n
  BY <1>1, <1>2
<1> QED
  BY <1>3 DEF a

\* The pages of a list have no holes: what lies between an offset and the next
\* offset, and is in the list at all, is on the page.
LEMMA PageHasNoHoles ==
  ASSUME IInv, NEW n \in Nat, NEW i \in 1..posted,
         posted - i >= walk.start, posted - i < NextStart(Page(walk.start, n))
  PROVE  i \in Page(walk.start, n)
<1> DEFINE page == Page(walk.start, n)
           top == posted - walk.start
<1>0. posted \in Nat /\ walk.start \in Nat /\ walk.window \in Nat /\ top \in Int /\ 1..posted \subseteq Ids
  BY WalkAssumption DEF IInv, WalkIsStored, Ids
<1>1. page \subseteq 1..posted /\ IsFiniteSet(page) /\ Cardinality(page) \in Nat
  <2>1. page \subseteq 1..posted
    BY DEF Page, Listed
  <2>2. IsFiniteSet(1..posted)
    BY <1>0, FS_Interval
  <2> QED
    BY <2>1, <2>2, FS_Subset, FS_CardinalityType
<1>2. page \subseteq (top - n + 1)..top
  BY <1>0 DEF Page, Listed
<1>3. IsFiniteSet((top - n + 1)..top) /\ Cardinality((top - n + 1)..top) = n
  <2> HIDE DEF top
  <2> QED
    BY <1>0, LastOnes
<1>4. Cardinality(page) <= n
  <2> HIDE DEF page, top
  <2> QED
    BY <1>2, <1>3, FS_Subset
<1>5. posted - i \in walk.start..(walk.start + n - 1)
  BY <1>0, <1>1, <1>4 DEF NextStart
<1>6. SUFFICES ASSUME i \notin Listed PROVE FALSE
  BY <1>5 DEF Page
<1>7. page \subseteq (i + 1)..top
  <2>1. SUFFICES ASSUME NEW j \in page PROVE j \in (i + 1)..top
    OBVIOUS
  <2>2. j \in 1..posted /\ j \in Ids /\ i \in Ids /\ age[j] <= walk.window /\ j <= top
    BY <1>0, <1>1, <1>2 DEF Page, Listed
  <2>3. j # i /\ ~(age[i] <= walk.window)
    BY <1>6, <2>2 DEF Listed
  <2>4. age[i] \in Nat /\ age[j] \in Nat /\ (j < i => age[i] <= age[j])
    BY <2>2 DEF IInv, NewestFirst
  <2>5. ~(j < i)
    <3>1. SUFFICES ASSUME j < i PROVE FALSE
      OBVIOUS
    <3> QED
      BY <1>0, <2>2, <2>3, <2>4, <3>1
  <2> QED
    BY <1>0, <2>2, <2>3, <2>5 DEF Ids
<1>8. IsFiniteSet((i + 1)..top) /\ Cardinality((i + 1)..top) = top - i
  <2>1. top - i \in Nat /\ top - (top - i) + 1 = i + 1
    BY <1>0, <1>5
  <2> HIDE DEF top
  <2> QED
    BY <1>0, <2>1, LastOnes
<1>9. Cardinality(page) <= top - i
  <2> HIDE DEF page, top
  <2>1. Cardinality(page) <= Cardinality((i + 1)..top)
    BY <1>7, <1>8, FS_Subset
  <2> QED
    BY <2>1, <1>8
<1> QED
  BY <1>0, <1>1, <1>9 DEF NextStart
\* A page is no longer than what was asked for, and what is on it lies before the
\* next offset.
LEMMA PageReaches ==
  ASSUME IInv, NEW n \in Nat, n > 0
  PROVE  LET page == Page(walk.start, n)
         IN /\ page \subseteq 1..posted
            /\ Cardinality(page) \in 0..n
            /\ page # {} => Cardinality(page) > 0
            /\ \A j \in page : walk.start <= posted - j /\ posted - j < NextStart(page)
<1> DEFINE page == Page(walk.start, n)
           top == posted - walk.start
<1>0. posted \in Nat /\ walk.start \in Nat /\ walk.window \in Nat /\ top \in Int /\ 1..posted \subseteq Ids
  BY WalkAssumption DEF IInv, WalkIsStored, Ids
<1>1. page \subseteq 1..posted /\ IsFiniteSet(page) /\ Cardinality(page) \in Nat
  <2>1. page \subseteq 1..posted
    BY DEF Page, Listed
  <2>2. IsFiniteSet(1..posted)
    BY <1>0, FS_Interval
  <2> QED
    BY <2>1, <2>2, FS_Subset, FS_CardinalityType
<1>2. page \subseteq (top - n + 1)..top
  BY <1>0 DEF Page, Listed
<1>3. Cardinality(page) <= n
  <2>1. IsFiniteSet((top - n + 1)..top) /\ Cardinality((top - n + 1)..top) = n
    <3> HIDE DEF top
    <3> QED
      BY <1>0, LastOnes
  <2> HIDE DEF page, top
  <2> QED
    BY <1>2, <2>1, FS_Subset
<1>4. ASSUME NEW j \in page
      PROVE  walk.start <= posted - j /\ posted - j < NextStart(page)
  <2>1. j \in 1..posted /\ j \in Ids /\ age[j] <= walk.window
        /\ posted - j \in walk.start..(walk.start + n - 1)
    BY <1>0, <1>1 DEF Page, Listed
  <2>2. j..top \subseteq page
    <3>1. SUFFICES ASSUME NEW k \in j..top PROVE k \in page
      OBVIOUS
    <3>2. k \in 1..posted /\ k \in Ids /\ posted - k \in walk.start..(walk.start + n - 1)
      BY <1>0, <2>1
    <3>3. age[k] <= walk.window
      BY <1>0, <2>1, <3>1, <3>2, SMTT(30) DEF IInv, NewestFirst, Ids
    <3> QED
      BY <3>2, <3>3 DEF Page, Listed
  <2>3. Cardinality(j..top) = top - j + 1
    <3>1. top - j + 1 \in Nat /\ top - (top - j + 1) + 1 = j
      BY <1>0, <2>1
    <3> HIDE DEF top
    <3> QED
      BY <1>0, <3>1, LastOnes
  <2>4. Cardinality(j..top) <= Cardinality(page)
    <3> HIDE DEF page, top
    <3> QED
      BY <1>1, <2>2, FS_Subset
  <2> QED
    BY <1>0, <1>1, <2>1, <2>3, <2>4, SMTT(30) DEF NextStart
<1>5. page # {} => Cardinality(page) > 0
  <2>1. SUFFICES ASSUME NEW j \in page PROVE Cardinality(page) > 0
    BY <1>1
  <2> QED
    BY <1>0, <1>1, <1>4 DEF NextStart
<1> QED
  BY <1>1, <1>3, <1>4, <1>5

\* After a page that is shorter than what was asked for, the list has nothing more.
LEMMA ShortPageIsTheLast ==
  ASSUME IInv, NEW n \in Nat, n > 0, Cardinality(Page(walk.start, n)) < n,
         NEW i \in 1..posted, age[i] <= walk.window
  PROVE  posted - i < NextStart(Page(walk.start, n))
<1> DEFINE page == Page(walk.start, n)
           size == Cardinality(page)
           k == posted - walk.start - size
<1>0. posted \in Nat /\ walk.start \in Nat /\ walk.window \in Nat /\ size \in 0..n
      /\ 1..posted \subseteq Ids
  BY WalkAssumption, PageReaches DEF IInv, WalkIsStored, Ids
<1>1. SUFFICES ASSUME posted - i >= walk.start + size PROVE FALSE
  BY <1>0 DEF NextStart
<1>2. k \in 1..posted /\ i <= k /\ k \in Ids /\ posted - k = walk.start + size
  BY <1>0, <1>1
<1>3. age[k] <= walk.window
  <2> HIDE DEF k, size
  <2>1. i \in Ids /\ age[i] \in Nat /\ age[k] \in Nat /\ (i < k => age[k] <= age[i])
    BY <1>0, <1>2 DEF IInv, NewestFirst
  <2> QED
    BY <1>0, <1>2, <2>1
<1>4. k \in page
  <2> HIDE DEF k, size
  <2>1. posted - k \in walk.start..(walk.start + n - 1)
    BY <1>0, <1>2 DEF size
  <2> QED
    BY <1>2, <1>3, <2>1 DEF Page, Listed
<1>5. posted - k < NextStart(page)
  <2> HIDE DEF k
  <2> QED
    BY <1>4, PageReaches
<1> QED
  BY <1>0, <1>2, <1>5 DEF NextStart
-----------------------------------------------------------------------------
\* A page moves the offset over what it records, and nothing else.
LEMMA ReadPageKeeps ==
  ASSUME Inductive, NEW n \in Lengths, ReadPage(n)
  PROVE  Inductive'
<1> DEFINE page == Page(walk.start, n)
<1>1. n \in Nat
  BY WalkAssumption DEF Lengths
<1>2. posted \in Nat /\ walk.start \in Nat /\ page \subseteq 1..posted
      /\ walk.on /\ walk.start = slice.offset /\ list.size \in 0..posted
  BY WalkAssumption DEF Inductive, IInv, WalkIsStored, ReadPage, Paging, Walking, Page, Listed
<1>3. Cardinality(page) \in Nat /\ NextStart(page) \in Nat
  <2>1. IsFiniteSet(1..posted)
    BY <1>2, FS_Interval
  <2>2. Cardinality(page) \in Nat
    BY <1>2, <2>1, FS_Subset, FS_CardinalityType
  <2> QED
    BY <1>2, <2>2 DEF NextStart
<1>4. /\ slice' = [slice EXCEPT !.offset = NextStart(page)]
      /\ sighted' = sighted \cup page
      /\ UNCHANGED <<posted, age>>
  BY DEF ReadPage
<1>5. slice'.offset = NextStart(page) /\ walk'.start = NextStart(page)
      /\ walk'.window = walk.window /\ slice'.last = slice.last
  BY DEF ReadPage, Inductive, RecordTypes
<1>6. list'.size \in 0..posted
      /\ list'.size = IF walk.start = 0 THEN posted ELSE list.size
  BY <1>2 DEF ReadPage, Answered, Inductive, RecordTypes
<1>7. WalkIsStored' /\ NewestFirst'
  BY <1>2, <1>3, <1>4, <1>5, <1>6 DEF Inductive, IInv, WalkIsStored, NewestFirst
<1>8. OffsetFollowsSightings'
  <2>1. SUFFICES ASSUME NEW i \in 1..list'.size, posted - i < NextStart(page)
                 PROVE  i \in sighted \cup page
    BY <1>4, <1>5 DEF OffsetFollowsSightings
  <2>2. i \in 1..posted
    BY <1>2, <1>6, <2>1
  <2>3. CASE posted - i >= walk.start
    BY <1>1, <2>1, <2>2, <2>3, PageHasNoHoles DEF Inductive
  <2>4. CASE posted - i < walk.start
    <3>1. walk.start # 0 /\ i \in 1..list.size
      BY <1>2, <1>6, <2>1, <2>2, <2>4
    <3> QED
      BY <1>2, <2>4, <3>1 DEF Inductive, IInv, OffsetFollowsSightings
  <2> QED
    BY <1>2, <2>2, <2>3, <2>4
<1>9. RecordTypes'
  BY DEF ReadPage, Answered, Inductive, RecordTypes
<1> QED
  BY <1>7, <1>8, <1>9 DEF Inductive, IInv

\* New postings push the list, and what was read with it, down.
LEMMA PostKeeps ==
  ASSUME Inductive, Post
  PROVE  Inductive'
<1>1. posted \in Nat /\ list.size \in 0..posted /\ posted' = posted + 1 /\ posted' \in 0..Postings
  BY WalkAssumption DEF Inductive, IInv, WalkIsStored, Post
<1>2. NewestFirst' /\ WalkIsStored' /\ RecordTypes'
  BY <1>1 DEF Inductive, IInv, NewestFirst, WalkIsStored, RecordTypes, Post, Ids
<1>3. OffsetFollowsSightings'
  <2>1. SUFFICES ASSUME NEW i \in 1..list.size, posted + 1 - i < slice.offset
                 PROVE  i \in sighted
    BY <1>1 DEF OffsetFollowsSightings, Post
  <2>2. posted - i < slice.offset
    BY <1>1, <2>1 DEF Inductive, IInv, WalkIsStored
  <2> QED
    BY <2>2 DEF Inductive, IInv, OffsetFollowsSightings
<1> QED
  BY <1>2, <1>3 DEF Inductive, IInv

LEMMA TickKeeps ==
  ASSUME Inductive, Tick
  PROVE  Inductive'
<1>1. posted \in Nat /\ AgeCap \in Nat
  BY WalkAssumption DEF Inductive, IInv, WalkIsStored, AgeCap
<1>2. \A m, k \in Nat : Older(m) \in Nat /\ (m <= k => Older(m) <= Older(k))
  BY <1>1 DEF Older, Lesser
<1>3. NewestFirst'
  BY <1>1, <1>2 DEF Inductive, IInv, NewestFirst, Tick, Ids
<1>4. slice'.offset = slice.offset /\ slice'.last = Older(slice.last)
      /\ walk'.start = walk.start /\ walk'.window = walk.window /\ walk'.on = walk.on
      /\ list'.size = list.size /\ UNCHANGED <<posted, sighted>>
  BY DEF Tick, Inductive, RecordTypes
<1>5. WalkIsStored' /\ OffsetFollowsSightings'
  BY <1>2, <1>4 DEF Inductive, IInv, WalkIsStored, OffsetFollowsSightings
<1>6. RecordTypes'
  BY <1>2 DEF Tick, Inductive, RecordTypes
<1> QED
  BY <1>3, <1>5, <1>6 DEF Inductive, IInv

\* A finished walk gives the offset up, an unfinished one keeps it.
LEMMA FinishKeeps ==
  ASSUME Inductive, Finish
  PROVE  Inductive' /\ (slice'.offset < slice.offset => walk.ends \in Finished)
<1>1. slice'.offset = ResumeStart /\ slice'.last \in {walk.age, slice.last} /\ walk' = NoWalk
      /\ list'.size = list.size /\ UNCHANGED <<posted, age, sighted>>
  BY DEF Finish, Inductive, RecordTypes, StampedAtStart
<1>2. walk.start = slice.offset /\ slice.offset \in Nat /\ ResumeStart \in {0, slice.offset}
      /\ (walk.ends \notin Finished => ResumeStart = slice.offset)
  BY DEF Finish, Inductive, IInv, WalkIsStored, ResumeStart
<1>3. \A i \in 1..list.size : ~(posted - i < 0)
  BY WalkAssumption DEF Inductive, IInv, WalkIsStored
<1>4. OffsetFollowsSightings'
  BY <1>1, <1>2, <1>3 DEF Inductive, IInv, OffsetFollowsSightings
<1>5. slice'.last \in Nat
  BY <1>1 DEF Inductive, IInv, WalkIsStored, RecordTypes
<1>6. NewestFirst' /\ WalkIsStored'
  BY <1>1, <1>2, <1>5 DEF Inductive, IInv, NewestFirst, WalkIsStored, NoWalk, WalkFrom
<1>7. RecordTypes'
  BY DEF Finish, Inductive, RecordTypes, NoWalk, WalkFrom
<1> QED
  BY <1>1, <1>2, <1>4, <1>6, <1>7 DEF Inductive, IInv

\* The steps that neither record nor schedule anything.
LEMMA WalkStepKeeps ==
  ASSUME Inductive,
         \/ Claim \/ Break \/ LastPage \/ Crash
         \/ \E n \in Lengths : ReadEnd(n)
         \/ \E reason \in {"rate_limited", "throttled_empty"} : Refused(reason)
         \/ \E reason \in {"stopped", "rate_limited", "error"} : Interrupt(reason)
  PROVE  Inductive' /\ slice' = slice
<1>1. /\ UNCHANGED <<posted, age, sighted, slice>>
      /\ walk'.start \in {walk.start, slice.offset, 0}
      /\ walk'.window \in {walk.window, WindowSeconds, 0}
      /\ walk'.on => walk'.start = slice.offset
  <2>1. CASE Claim \/ Crash
    BY <2>1 DEF Claim, Crash, NoWalk, WalkFrom
  <2>2. CASE Break
    BY <2>2 DEF Break, Inductive, RecordTypes
  <2>3. ASSUME ~Claim, ~Crash, ~Break
        PROVE  /\ UNCHANGED <<posted, age, sighted, slice>>
               /\ walk'.start = walk.start /\ walk'.window = walk.window
               /\ walk'.on = walk.on
    <3>1. CASE LastPage
      BY <3>1 DEF Inductive, RecordTypes, LastPage
    <3>2. CASE \E n \in Lengths : ReadEnd(n)
      BY <3>2 DEF Inductive, RecordTypes, ReadEnd
    <3>3. CASE \E reason \in {"rate_limited", "throttled_empty"} : Refused(reason)
      BY <3>3 DEF Inductive, RecordTypes, Refused
    <3>4. CASE \E reason \in {"stopped", "rate_limited", "error"} : Interrupt(reason)
      BY <3>4 DEF Inductive, RecordTypes, Interrupt
    <3> QED
      BY <2>3, <3>1, <3>2, <3>3, <3>4
  <2> QED
    BY <2>1, <2>2, <2>3 DEF Inductive, IInv, WalkIsStored
<1>2. WindowSeconds \in Nat
  BY WalkAssumption DEF WindowSeconds, Lesser, Inductive, IInv, WalkIsStored
<1>3. list'.size = list.size \/ (list'.size = posted /\ slice.offset = 0)
  BY DEF Inductive, RecordTypes, IInv, WalkIsStored, Claim, Break, LastPage, Crash,
     ReadEnd, Refused, Interrupt, Paging, Walking, Answered
<1>4. posted \in Nat /\ list'.size \in 0..posted
  BY <1>3, WalkAssumption DEF Inductive, IInv, WalkIsStored
<1>5. NewestFirst' /\ WalkIsStored'
  BY <1>1, <1>2, <1>4 DEF Inductive, IInv, NewestFirst, WalkIsStored
<1>6. OffsetFollowsSightings'
  BY <1>1, <1>3, <1>4 DEF Inductive, IInv, OffsetFollowsSightings
<1>7. RecordTypes'
  <2>1. CASE Claim \/ Crash
    BY <2>1 DEF Claim, Crash, NoWalk, WalkFrom, Inductive, RecordTypes
  <2>2. CASE Break
    BY <2>2 DEF Break, Inductive, RecordTypes
  <2>3. CASE LastPage
    <3>1. PICK reason \in Finished : walk' = [walk EXCEPT !.ends = reason]
      BY <2>3 DEF LastPage, Finished
    <3> QED
      BY <2>3, <3>1 DEF LastPage, Inductive, RecordTypes
  <2>4. CASE \E n \in Lengths : ReadEnd(n)
    BY <2>4 DEF ReadEnd, Answered, Inductive, RecordTypes
  <2>5. ASSUME NEW reason, Refused(reason) PROVE RecordTypes'
    BY <2>5 DEF Refused, Inductive, RecordTypes
  <2>6. ASSUME NEW reason, Interrupt(reason) PROVE RecordTypes'
    BY <2>6 DEF Interrupt, Inductive, RecordTypes
  <2> QED
    BY <2>1, <2>2, <2>3, <2>4, <2>5, <2>6
<1> QED
  BY <1>1, <1>5, <1>6, <1>7 DEF Inductive, IInv

\* A new slice, in a list that nobody has read.
LEMMA InitHolds == Init => Inductive
<1>1. Initially \in Nat
  BY WalkAssumption
<1>2. Init => \A i \in 1..list.size : ~(posted - i < slice.offset)
  BY DEF Init
<1> QED
  BY <1>1, <1>2, WalkAssumption DEF Init, Inductive, IInv, NewestFirst, WalkIsStored,
     OffsetFollowsSightings, RecordTypes, NoWalk, WalkFrom, Ids

\* Every step keeps the invariant, and only a walk that finished gives up the
\* offset.
LEMMA StepHolds ==
  ASSUME Inductive, [Next]_vars
  PROVE  Inductive' /\ (slice'.offset < slice.offset => Finish /\ walk.ends \in Finished)
<1> DEFINE Kept == ~(slice'.offset < slice.offset)
<1>0. slice.offset \in Nat /\ (slice'.offset = slice.offset => Kept)
  BY DEF Inductive, IInv, WalkIsStored
<1>1. CASE Tick
  BY <1>0, <1>1, TickKeeps DEF Tick, Inductive, RecordTypes
<1>2. CASE Post
  BY <1>0, <1>2, PostKeeps DEF Post
<1>3. CASE Finish
  BY <1>3, FinishKeeps
<1>4. CASE \E n \in Lengths : ReadPage(n)
  <2>1. PICK n \in Lengths : ReadPage(n)
    BY <1>4
  <2>2. slice'.offset = NextStart(Page(walk.start, n)) /\ walk.start = slice.offset
    BY <2>1 DEF ReadPage, Paging, Walking, Inductive, RecordTypes, IInv, WalkIsStored
  <2>3. Cardinality(Page(walk.start, n)) \in Nat
    <3>1. Page(walk.start, n) \subseteq 1..posted /\ posted \in Nat
      BY WalkAssumption DEF Page, Listed, Inductive, IInv, WalkIsStored
    <3>2. IsFiniteSet(1..posted)
      BY <3>1, FS_Interval
    <3> QED
      BY <3>1, <3>2, FS_Subset, FS_CardinalityType
  <2>4. Kept
    BY <1>0, <2>2, <2>3 DEF NextStart
  <2> QED
    BY <2>1, <2>4, ReadPageKeeps
<1>5. CASE \/ Claim \/ Break \/ LastPage \/ Crash
           \/ \E n \in Lengths : ReadEnd(n)
           \/ \E reason \in {"rate_limited", "throttled_empty"} : Refused(reason)
           \/ \E reason \in {"stopped", "rate_limited", "error"} : Interrupt(reason)
  BY <1>0, <1>5, WalkStepKeeps
<1>6. CASE UNCHANGED vars
  BY <1>0, <1>6 DEF vars, Inductive, IInv, NewestFirst, WalkIsStored, OffsetFollowsSightings,
     RecordTypes
<1> QED
  BY <1>1, <1>2, <1>3, <1>4, <1>5, <1>6 DEF Next

-----------------------------------------------------------------------------
\* The types of the records, which the proof needs, come with the invariant.
LEMMA Invariant == Spec => []Inductive
  BY InitHolds, StepHolds, PTL DEF Spec

\* The stored offset, the list and its postings always fit each other
\* (walk_slice, finish_walk).
THEOREM Invariance == Spec => []IInv
<1>1. Inductive => IInv
  BY DEF Inductive
<1> QED
  BY <1>1, Invariant, PTL

\* Whatever kills a walk, the stored offset has only sighted postings before it.
THEOREM OffsetsFollow == Spec => []OffsetFollowsSightings
<1>1. IInv => OffsetFollowsSightings
  BY DEF IInv
<1> QED
  BY <1>1, Invariance, PTL

\* No refusal, stop, failure or death makes the next walk read a page again.
THEOREM OffsetsAreKept == Spec => OffsetIsKept
<1>1. Inductive /\ [Next]_vars =>
        [slice'.offset < slice.offset => Finish /\ walk.ends \in Finished]_vars
  BY StepHolds
<1> QED
  BY <1>1, Invariant, PTL DEF Spec, OffsetIsKept

-----------------------------------------------------------------------------
(* What a walk has read of its list *)

\* What the proofs below are about: LinkedIn sends full pages as long as it has
\* cards, believes no refusal of the last walk, and a list grows by less than a
\* page while it is being read.
SteadyList == ~ShortPages /\ ~MasksOutlast /\ Burst < PageSize

AllRead == \A i \in 1..list.size : age[i] <= walk.window => i \in sighted

\* The types the proofs below need on top of RecordTypes.
ReadTypes ==
  /\ age \in [Ids -> 0..AgeCap]
  /\ list.age \in Nat /\ list.spread \in Nat /\ list.strained \in BOOLEAN
  /\ walk.on \in BOOLEAN /\ walk.full \in BOOLEAN /\ walk.pages \in Nat /\ walk.widest \in Nat
  /\ slice.walked \in BOOLEAN
  /\ sighted \subseteq 1..posted

\* A list that is being read has not grown by a page.
GrowthIsSmall == slice.offset > 0 => posted - list.size <= Burst

\* The pages of this walk are sighted, lie before the offset, and were not too wide.
PagesAreBefore ==
  walk.on =>
    /\ walk.seen \subseteq sighted
    /\ \A j \in walk.seen : j <= list.size => list.size - j < slice.offset
    /\ walk.seen # {} => slice.offset > 0
    /\ walk.widest <= PageSize

\* Where the code takes the list to have ended, it has.
EndsAreReal ==
  walk.on =>
    /\ walk.pages > 0 /\ walk.ends = "no" /\ ~walk.full => AllRead
    /\ walk.ends = "end_of_results" => AllRead

\* What appeared after the head was read is younger than that reading.
HeadIsYoung == \A i \in 1..posted : i > list.size => age[i] <= list.age

ReadInv == ReadTypes /\ GrowthIsSmall /\ PagesAreBefore /\ EndsAreReal /\ HeadIsYoung

\* The pages are of one size, and only an empty or a repeated page ends a list.
LEMMA FullLengths ==
  ASSUME SteadyList
  PROVE  Lengths = {PageSize} /\ ~HiddenAndBelieved /\ PageSize \in Nat /\ PageSize > 0
         /\ Burst \in Nat /\ AgeCap \in Nat
  BY WalkAssumption DEF SteadyList, Lengths, HiddenAndBelieved, AgeCap

\* The steps that read nothing: what they leave alone.
LEMMA QuietStep ==
  ASSUME RecordTypes, WalkIsStored, ReadTypes,
         \/ Claim \/ Break \/ Crash
         \/ \E reason \in {"rate_limited", "throttled_empty"} : Refused(reason)
         \/ \E reason \in {"stopped", "rate_limited", "error"} : Interrupt(reason)
  PROVE  /\ UNCHANGED <<posted, age, sighted, slice, list.age, list.size, list.spread, list.cut,
                        list.strained>>
         /\ \/ walk' = NoWalk
            \/ Claim /\ walk' = WalkFrom(TRUE, slice.offset, WindowSeconds)
            \/ /\ walk.on /\ walk.ends = "no" /\ walk'.ends \in Unfinished \cup {"no"}
               /\ UNCHANGED <<walk.on, walk.seen, walk.widest, walk.window, walk.pages, walk.age,
                              walk.full>>
<1>1. CASE Claim \/ Crash
  BY <1>1 DEF Claim, Crash
<1>2. CASE Break
  BY <1>2 DEF Break, Walking, RecordTypes, Unfinished
<1>3. ASSUME NEW reason \in {"rate_limited", "throttled_empty"}, Refused(reason)
      PROVE  /\ UNCHANGED <<posted, age, sighted, slice, list.age, list.size, list.spread, list.cut,
                            list.strained>>
             /\ walk.on /\ walk.ends = "no" /\ walk'.ends \in Unfinished \cup {"no"}
             /\ UNCHANGED <<walk.on, walk.seen, walk.widest, walk.window, walk.pages, walk.age,
                            walk.full>>
  BY <1>3 DEF Refused, Paging, Walking, RecordTypes, Unfinished
<1>4. ASSUME NEW reason \in {"stopped", "rate_limited", "error"}, Interrupt(reason)
      PROVE  /\ UNCHANGED <<posted, age, sighted, slice, list.age, list.size, list.spread, list.cut,
                            list.strained>>
             /\ walk.on /\ walk.ends = "no" /\ walk'.ends \in Unfinished \cup {"no"}
             /\ UNCHANGED <<walk.on, walk.seen, walk.widest, walk.window, walk.pages, walk.age,
                            walk.full>>
  BY <1>4 DEF Interrupt, Paging, Walking, RecordTypes, Unfinished
<1> QED
  BY <1>1, <1>2, <1>3, <1>4

LEMMA QuietKeepsReading ==
  ASSUME SteadyList, Inductive, ReadInv,
         \/ Claim \/ Break \/ Crash
         \/ \E reason \in {"rate_limited", "throttled_empty"} : Refused(reason)
         \/ \E reason \in {"stopped", "rate_limited", "error"} : Interrupt(reason)
  PROVE  ReadInv'
<1>1. /\ UNCHANGED <<posted, age, sighted, slice, list.age, list.size, list.spread, list.cut,
                     list.strained>>
      /\ \/ walk' = NoWalk
         \/ Claim /\ walk' = WalkFrom(TRUE, slice.offset, WindowSeconds)
         \/ /\ walk.on /\ walk.ends = "no" /\ walk'.ends \in Unfinished \cup {"no"}
            /\ UNCHANGED <<walk.on, walk.seen, walk.widest, walk.window, walk.pages, walk.age,
                           walk.full>>
  BY QuietStep DEF Inductive, IInv, ReadInv
<1>2. GrowthIsSmall' /\ HeadIsYoung'
  BY <1>1 DEF ReadInv, GrowthIsSmall, HeadIsYoung
<1>3. CASE walk' = NoWalk \/ walk' = WalkFrom(TRUE, slice.offset, WindowSeconds)
  <2>1. walk'.seen = {} /\ walk'.widest = 0 /\ walk'.pages = 0 /\ walk'.ends = "no"
        /\ walk'.full \in BOOLEAN /\ walk'.on \in BOOLEAN
    <3>1. CASE walk' = NoWalk
      BY <3>1 DEF NoWalk, WalkFrom
    <3>2. CASE walk' = WalkFrom(TRUE, slice.offset, WindowSeconds)
      BY <3>2 DEF WalkFrom
    <3> QED
      BY <1>3, <3>1, <3>2
  <2> QED
    BY <1>1, <1>2, <2>1, FullLengths DEF ReadInv, ReadTypes, PagesAreBefore, EndsAreReal
<1>4. CASE /\ walk.on /\ walk.ends = "no" /\ walk'.ends \in Unfinished \cup {"no"}
           /\ UNCHANGED <<walk.on, walk.seen, walk.widest, walk.window, walk.pages, walk.age,
                          walk.full>>
  <2>1. AllRead' = AllRead /\ walk'.ends # "end_of_results"
    BY <1>1, <1>4 DEF AllRead, Unfinished
  <2> QED
    BY <1>1, <1>2, <1>4, <2>1 DEF ReadInv, ReadTypes, PagesAreBefore, EndsAreReal
<1> QED
  BY <1>1, <1>3, <1>4

LEMMA PostKeepsReading ==
  ASSUME SteadyList, Inductive, ReadInv, Post
  PROVE  ReadInv'
<1>1. posted \in 0..Postings /\ list.size \in 0..posted /\ posted' = posted + 1 /\ posted < Postings
      /\ UNCHANGED <<age, sighted, slice, walk, list>>
  BY DEF Inductive, IInv, WalkIsStored, Post
<1>2. Postings \in Nat /\ Burst \in Nat
  BY WalkAssumption
<1>3. GrowthIsSmall'
  BY <1>1, <1>2 DEF GrowthIsSmall, Post
<1>4. HeadIsYoung'
  <2>1. posted + 1 \in Ids /\ age[posted + 1] = 0
    BY <1>1, <1>2 DEF Inductive, IInv, NewestFirst, Ids
  <2> QED
    BY <1>1, <1>2, <2>1 DEF ReadInv, ReadTypes, HeadIsYoung
<1>5. ReadTypes'
  BY <1>1, <1>2 DEF ReadInv, ReadTypes
<1>6. PagesAreBefore' /\ EndsAreReal'
  BY <1>1 DEF ReadInv, PagesAreBefore, EndsAreReal, AllRead
<1> QED
  BY <1>3, <1>4, <1>5, <1>6 DEF ReadInv

\* Time makes nothing younger and keeps the order of ages.
LEMMA OlderIsOlder ==
  ASSUME NEW m \in Nat
  PROVE  /\ Older(m) \in 0..AgeCap /\ Older(m) \in Nat /\ Older(m) <= m + 1
         /\ m <= AgeCap => m <= Older(m)
         /\ m + 1 <= AgeCap => Older(m) = m + 1
  BY WalkAssumption DEF Older, Lesser, AgeCap

LEMMA OlderIsMonotone ==
  ASSUME NEW m \in Nat, NEW k \in Nat, NEW s \in Nat, m <= k + s
  PROVE  Older(m) <= Older(k) + s
  BY WalkAssumption DEF Older, Lesser, AgeCap

LEMMA TickKeepsReading ==
  ASSUME SteadyList, Inductive, ReadInv, Tick
  PROVE  ReadInv'
<1>1. /\ UNCHANGED <<posted, sighted, slice.offset, slice.walked, list.size, list.spread, walk.on,
                     walk.seen, walk.widest, walk.pages, walk.full, walk.window, walk.ends>>
      /\ age' = [i \in Ids |-> IF i <= posted THEN Older(age[i]) ELSE 0]
      /\ list'.age = Older(list.age) /\ list'.strained = (list.strained \/ Strains)
  BY DEF Tick, Inductive, RecordTypes
<1>2. posted \in Nat /\ list.size \in 0..posted /\ 1..posted \subseteq Ids /\ AgeCap \in Nat
  BY WalkAssumption DEF Inductive, IInv, WalkIsStored, Ids, AgeCap
<1>3. \A i \in 1..posted : age'[i] = Older(age[i]) /\ age[i] \in 0..AgeCap
  BY <1>1, <1>2 DEF ReadInv, ReadTypes
<1>4. ASSUME NEW i \in 1..posted
      PROVE  age[i] <= age'[i] /\ age[i] \in Nat /\ age'[i] \in Nat
  <2>1. age'[i] = Older(age[i]) /\ age[i] \in Nat /\ age[i] <= AgeCap
    BY <1>2, <1>3
  <2> QED
    BY <2>1, OlderIsOlder
<1>5. walk.window \in Nat
  BY DEF Inductive, IInv, WalkIsStored
<1>6. AllRead => AllRead'
  <2>1. SUFFICES ASSUME AllRead, NEW i \in 1..list.size, age'[i] <= walk.window
                 PROVE  i \in sighted
    BY <1>1 DEF AllRead
  <2>2. age[i] <= walk.window
    BY <1>2, <1>4, <1>5, <2>1
  <2> QED
    BY <2>1, <2>2 DEF AllRead
<1>7. HeadIsYoung'
  <2>1. SUFFICES ASSUME NEW i \in 1..posted, i > list.size PROVE Older(age[i]) <= Older(list.age)
    BY <1>1, <1>3 DEF HeadIsYoung
  <2>2. age[i] \in Nat /\ list.age \in Nat /\ age[i] <= list.age
    BY <1>2, <1>3, <2>1 DEF ReadInv, ReadTypes, HeadIsYoung
  <2>3. age[i] <= list.age + 0 /\ Older(age[i]) \in Nat /\ Older(list.age) \in Nat
    BY <2>2, OlderIsOlder
  <2> QED
    BY <2>2, <2>3, OlderIsMonotone
<1>8. ReadTypes'
  <2>1. list'.age \in Nat /\ age' \in [Ids -> 0..AgeCap]
    <3>1. ASSUME NEW i \in Ids PROVE Older(age[i]) \in 0..AgeCap
      BY <1>2, OlderIsOlder DEF ReadInv, ReadTypes
    <3>2. Older(list.age) \in Nat
      BY OlderIsOlder, <1>2 DEF ReadInv, ReadTypes
    <3> QED
      BY <1>1, <1>2, <3>1, <3>2
  <2>2. list'.strained \in BOOLEAN
    BY <1>1 DEF ReadInv, ReadTypes
  <2> QED
    BY <1>1, <2>1, <2>2 DEF ReadInv, ReadTypes
<1>9. GrowthIsSmall' /\ PagesAreBefore' /\ EndsAreReal'
  BY <1>1, <1>6 DEF ReadInv, GrowthIsSmall, PagesAreBefore, EndsAreReal
<1> QED
  BY <1>7, <1>8, <1>9 DEF ReadInv

LEMMA FinishKeepsReading ==
  ASSUME SteadyList, Inductive, ReadInv, Finish
  PROVE  ReadInv'
<1>1. /\ slice'.offset = ResumeStart /\ slice'.walked = (slice.walked \/ Stamps(walk.ends))
      /\ walk' = NoWalk /\ list'.size = list.size /\ list'.age = list.age
      /\ UNCHANGED <<posted, age, sighted>>
  BY DEF Finish, Inductive, RecordTypes
<1>2. ResumeStart \in {0, slice.offset} /\ slice.offset \in Nat
  BY DEF Finish, Inductive, IInv, WalkIsStored, ResumeStart
<1>3. list'.spread \in {list.spread, Spread} /\ list'.strained \in {list.strained, SpreadStrains}
  BY DEF Finish, Inductive, RecordTypes
<1>4. Spread \in Nat /\ SpreadStrains \in BOOLEAN
  BY WalkAssumption DEF Spread, SpreadStrains, Inductive, RecordTypes, ReadInv, ReadTypes
<1>5. ReadTypes'
  BY <1>1, <1>3, <1>4 DEF ReadInv, ReadTypes, NoWalk, WalkFrom, Stamps
<1>6. GrowthIsSmall' /\ HeadIsYoung'
  BY <1>1, <1>2 DEF ReadInv, GrowthIsSmall, HeadIsYoung
<1>7. PagesAreBefore' /\ EndsAreReal'
  BY <1>1 DEF PagesAreBefore, EndsAreReal, NoWalk, WalkFrom
<1> QED
  BY <1>5, <1>6, <1>7 DEF ReadInv

LEMMA LastPageKeepsReading ==
  ASSUME SteadyList, Inductive, ReadInv, LastPage
  PROVE  ReadInv'
<1>1. /\ UNCHANGED <<posted, age, sighted, slice, list.age, list.size, list.spread, list.strained,
                     walk.on, walk.seen, walk.widest, walk.pages, walk.full, walk.window>>
      /\ walk.on /\ walk.ends = "no" /\ walk.pages >= MaxPages
      /\ walk'.ends \in {"end_of_results", "area_cap", "cap_hit"}
      /\ walk'.ends = "end_of_results" => ~walk.full
  BY DEF LastPage, Walking, Inductive, RecordTypes
<1>2. walk.pages > 0
  BY <1>1, WalkAssumption DEF ReadInv, ReadTypes
<1>3. AllRead' = AllRead /\ (walk'.ends = "end_of_results" => AllRead)
  BY <1>1, <1>2 DEF AllRead, ReadInv, EndsAreReal
<1> QED
  BY <1>1, <1>3 DEF ReadInv, ReadTypes, GrowthIsSmall, PagesAreBefore, EndsAreReal, HeadIsYoung

\* An empty page, or one of which this walk has seen every card, is the end of
\* the list: of a full page that was all seen, the last card would lie further
\* back than anything the walk has read.
LEMMA EndMeansEnd ==
  ASSUME SteadyList, Inductive, ReadInv, walk.on, Page(walk.start, PageSize) \subseteq walk.seen,
         NEW i \in 1..posted, age[i] <= walk.window, i <= list.size \/ walk.start = 0
  PROVE  i \in sighted
<1> DEFINE page == Page(walk.start, PageSize)
           size == Cardinality(page)
<1>0. /\ posted \in Nat /\ walk.start \in Nat /\ list.size \in 0..posted /\ walk.start = slice.offset
      /\ PageSize \in Nat /\ PageSize > 0 /\ Burst \in Nat /\ Burst < PageSize
  BY FullLengths, WalkAssumption DEF Inductive, IInv, WalkIsStored, SteadyList
<1>1. /\ page \subseteq 1..posted /\ size \in 0..PageSize
      /\ \A j \in page : walk.start <= posted - j /\ posted - j < walk.start + size
  BY <1>0, PageReaches DEF Inductive, NextStart
<1>2. page \subseteq walk.seen
  OBVIOUS
<1> HIDE DEF page
<1>3. size < PageSize
  <2>1. SUFFICES ASSUME size = PageSize PROVE FALSE
    BY <1>0, <1>1
  <2>2. page # {}
    <3>1. Cardinality({}) = 0
      BY FS_EmptySet
    <3> QED
      BY <1>0, <2>1, <3>1
  <2>3. walk.start > 0 /\ posted - list.size <= Burst
    BY <1>0, <1>2, <2>2 DEF ReadInv, PagesAreBefore, GrowthIsSmall
  <2> DEFINE b == posted - walk.start - PageSize + 1
  <2>4. \A j \in page : j >= b /\ j <= posted - walk.start
    BY <1>0, <1>1, <2>1
  <2>5. b \in page
    <3>1. SUFFICES ASSUME b \notin page PROVE FALSE
      OBVIOUS
    <3>2. page \subseteq (b + 1)..(posted - walk.start)
      <4>1. SUFFICES ASSUME NEW j \in page PROVE j \in (b + 1)..(posted - walk.start)
        OBVIOUS
      <4>2. j # b /\ j \in Int /\ j >= b /\ j <= posted - walk.start /\ b \in Int
        BY <1>0, <1>1, <2>4, <3>1
      <4> HIDE DEF b
      <4> QED
        BY <1>0, <4>2
    <3>3. LET top == posted - walk.start
          IN IsFiniteSet((top - (PageSize - 1) + 1)..top)
             /\ Cardinality((top - (PageSize - 1) + 1)..top) = PageSize - 1
      <4>1. posted - walk.start \in Int /\ PageSize - 1 \in Nat
        BY <1>0
      <4> QED
        BY <4>1, LastOnes
    <3>4. (posted - walk.start) - (PageSize - 1) + 1 = b + 1
      BY <1>0
    <3>5. IsFiniteSet((b + 1)..(posted - walk.start))
          /\ Cardinality((b + 1)..(posted - walk.start)) = PageSize - 1
      BY <3>3, <3>4
    <3>6. size <= PageSize - 1
      <4> HIDE DEF b
      <4> QED
        BY <3>2, <3>5, FS_Subset, ZenonT(60)
    <3> QED
      BY <1>0, <2>1, <3>6
  <2>6. b \in walk.seen /\ b <= list.size
    BY <1>0, <1>1, <1>2, <2>3, <2>5
  <2>7. list.size - b < slice.offset
    BY <2>6 DEF ReadInv, PagesAreBefore
  <2> QED
    BY <1>0, <2>3, <2>7
<1>4. posted - i < walk.start + size
  BY <1>0, <1>3, ShortPageIsTheLast DEF Inductive, NextStart, page
<1>5. CASE posted - i >= walk.start
  <2>1. i \in page
    BY <1>0, <1>4, <1>5, PageHasNoHoles DEF Inductive, NextStart, page
  <2> QED
    BY <1>2, <2>1 DEF ReadInv, PagesAreBefore
<1>6. CASE posted - i < walk.start
  <2>1. i \in 1..list.size
    BY <1>0, <1>6
  <2> QED
    BY <1>0, <1>6, <2>1 DEF Inductive, IInv, OffsetFollowsSightings
<1> QED
  BY <1>0, <1>5, <1>6

\* Reading from the head makes the whole list the one that is being read.
LEMMA HeadIsRead ==
  ASSUME Inductive, ReadInv, Answered
  PROVE  /\ list'.size = (IF walk.start = 0 THEN posted ELSE list.size)
         /\ list'.age = (IF walk.start = 0 THEN 0 ELSE list.age)
         /\ UNCHANGED <<list.spread, list.cut, list.strained>>
  BY DEF Answered, Inductive, RecordTypes

LEMMA ReadEndKeepsReading ==
  ASSUME SteadyList, Inductive, ReadInv, NEW n \in Lengths, ReadEnd(n)
  PROVE  ReadInv'
<1>1. /\ UNCHANGED <<posted, age, sighted, slice, walk.on, walk.seen, walk.widest, walk.window,
                     walk.start, walk.full, walk.age>>
      /\ walk.on /\ walk'.ends = "end_of_results" /\ walk'.pages = walk.pages + 1
      /\ Page(walk.start, PageSize) \subseteq walk.seen /\ Answered
  BY FullLengths DEF ReadEnd, Paging, Walking, Inductive, RecordTypes
<1>2. /\ list'.size = (IF walk.start = 0 THEN posted ELSE list.size)
      /\ list'.age = (IF walk.start = 0 THEN 0 ELSE list.age)
      /\ UNCHANGED <<list.spread, list.cut, list.strained>>
  BY <1>1, HeadIsRead
<1>3. posted \in Nat /\ list.size \in 0..posted /\ walk.start \in Nat /\ walk.start = slice.offset
      /\ Burst \in Nat
  BY <1>1, WalkAssumption DEF Inductive, IInv, WalkIsStored
<1>4. AllRead'
  <2>1. SUFFICES ASSUME NEW i \in 1..list'.size, age[i] <= walk.window PROVE i \in sighted
    BY <1>1 DEF AllRead
  <2>2. i \in 1..posted /\ (i <= list.size \/ walk.start = 0)
    BY <1>2, <1>3, <2>1
  <2> QED
    BY <1>1, <2>1, <2>2, EndMeansEnd
<1>5. ReadTypes'
  BY <1>1, <1>2 DEF ReadInv, ReadTypes
<1>6. GrowthIsSmall'
  BY <1>1, <1>2, <1>3 DEF ReadInv, GrowthIsSmall
<1>7. PagesAreBefore'
  BY <1>1, <1>2, <1>3 DEF ReadInv, PagesAreBefore
<1>8. HeadIsYoung'
  BY <1>1, <1>2, <1>3 DEF ReadInv, HeadIsYoung
<1>9. EndsAreReal'
  BY <1>1, <1>4 DEF EndsAreReal
<1> QED
  BY <1>5, <1>6, <1>7, <1>8, <1>9 DEF ReadInv

\* What a page of new results changes.
LEMMA PageStep ==
  ASSUME SteadyList, Inductive, ReadInv, NEW n \in Lengths, ReadPage(n)
  PROVE  LET page == Page(walk.start, PageSize)
         IN /\ n = PageSize /\ walk.on /\ walk.ends = "no" /\ walk.start = slice.offset
            /\ posted \in Nat /\ list.size \in 0..posted /\ walk.start \in Nat
            /\ page \subseteq 1..posted /\ Cardinality(page) \in 1..PageSize
            /\ \A j \in page : walk.start <= posted - j /\ posted - j < slice'.offset
            /\ sighted' = sighted \cup page
            /\ slice'.offset = walk.start + Cardinality(page)
            /\ UNCHANGED <<posted, age, slice.walked, slice.last, walk.on, walk.window, walk.age>>
            /\ walk'.pages = walk.pages + 1 /\ walk'.seen = walk.seen \cup page
            /\ walk'.widest = Greater(walk.widest, Cardinality(page))
            /\ walk'.full = (Cardinality(page) >= walk.widest)
            /\ walk'.ends = IF KnownStreak(page) >= KnownPages THEN "known_page" ELSE "no"
            /\ list'.size = (IF walk.start = 0 THEN posted ELSE list.size)
            /\ list'.age = (IF walk.start = 0 THEN 0 ELSE list.age)
            /\ UNCHANGED <<list.spread, list.cut, list.strained>>
<1> DEFINE page == Page(walk.start, PageSize)
<1>1. n = PageSize /\ PageSize \in Nat /\ PageSize > 0
  BY FullLengths
<1>2. walk.on /\ walk.ends = "no" /\ ~(page \subseteq walk.seen) /\ Answered
      /\ sighted' = sighted \cup page /\ UNCHANGED <<posted, age>>
  BY <1>1 DEF ReadPage, Paging, Walking
<1>3. walk.start = slice.offset /\ posted \in Nat /\ list.size \in 0..posted /\ walk.start \in Nat
  BY <1>2, WalkAssumption DEF Inductive, IInv, WalkIsStored
<1>4. slice' = [slice EXCEPT !.offset = NextStart(page)]
      /\ walk' = [walk EXCEPT
          !.start = NextStart(page), !.pages = @ + 1, !.cards = TRUE,
          !.seen = @ \cup page,
          !.widest = Greater(@, Cardinality(page)), !.full = Cardinality(page) >= walk.widest,
          !.streak = KnownStreak(page), !.refusals = 0, !.distrust = FALSE,
          !.ends = IF KnownStreak(page) >= KnownPages THEN "known_page" ELSE "no"]
  BY <1>1 DEF ReadPage
<1>5. /\ page \subseteq 1..posted /\ Cardinality(page) \in 0..PageSize
      /\ page # {} => Cardinality(page) > 0
      /\ \A j \in page : walk.start <= posted - j /\ posted - j < NextStart(page)
  BY <1>1, PageReaches DEF Inductive
<1> HIDE DEF page
<1>6. Cardinality(page) \in 1..PageSize
  BY <1>1, <1>2, <1>5
<1>7. slice'.offset = NextStart(page) /\ UNCHANGED <<slice.walked, slice.last>>
  BY <1>4 DEF Inductive, RecordTypes
<1>8. /\ UNCHANGED <<walk.on, walk.window, walk.age>>
      /\ walk'.pages = walk.pages + 1 /\ walk'.seen = walk.seen \cup page
      /\ walk'.widest = Greater(walk.widest, Cardinality(page))
      /\ walk'.full = (Cardinality(page) >= walk.widest)
      /\ walk'.ends = IF KnownStreak(page) >= KnownPages THEN "known_page" ELSE "no"
  BY <1>4 DEF Inductive, RecordTypes
<1>9. /\ list'.size = (IF walk.start = 0 THEN posted ELSE list.size)
      /\ list'.age = (IF walk.start = 0 THEN 0 ELSE list.age)
      /\ UNCHANGED <<list.spread, list.cut, list.strained>>
  BY <1>2, HeadIsRead
<1> QED
  BY <1>1, <1>2, <1>3, <1>5, <1>6, <1>7, <1>8, <1>9 DEF NextStart, page

LEMMA ReadPageKeepsReading ==
  ASSUME SteadyList, Inductive, ReadInv, NEW n \in Lengths, ReadPage(n)
  PROVE  ReadInv'
<1> DEFINE page == Page(walk.start, PageSize)
           size == Cardinality(page)
<1>1. /\ n = PageSize /\ walk.on /\ walk.ends = "no" /\ walk.start = slice.offset
      /\ posted \in Nat /\ list.size \in 0..posted /\ walk.start \in Nat
      /\ page \subseteq 1..posted /\ size \in 1..PageSize
      /\ \A j \in page : walk.start <= posted - j /\ posted - j < slice'.offset
      /\ sighted' = sighted \cup page
      /\ slice'.offset = walk.start + size
      /\ UNCHANGED <<posted, age, slice.walked, slice.last, walk.on, walk.window, walk.age>>
      /\ walk'.pages = walk.pages + 1 /\ walk'.seen = walk.seen \cup page
      /\ walk'.widest = Greater(walk.widest, size)
      /\ walk'.full = (size >= walk.widest)
      /\ walk'.ends = IF KnownStreak(page) >= KnownPages THEN "known_page" ELSE "no"
      /\ list'.size = (IF walk.start = 0 THEN posted ELSE list.size)
      /\ list'.age = (IF walk.start = 0 THEN 0 ELSE list.age)
      /\ UNCHANGED <<list.spread, list.cut, list.strained>>
  BY PageStep
<1>2. PageSize \in Nat /\ PageSize > 0 /\ Burst \in Nat
  BY FullLengths
<1>3. Inductive'
  BY ReadPageKeeps
<1>4. ~walk'.full => AllRead'
  <2>1. SUFFICES ASSUME ~walk'.full, NEW i \in 1..list'.size, age[i] <= walk.window,
                        posted - i >= slice'.offset
                 PROVE  FALSE
    BY <1>1, <1>3 DEF AllRead, Inductive, IInv, OffsetFollowsSightings
  <2>2. size < PageSize
    <3> HIDE DEF page, size
    <3>1. ~(size >= walk.widest)
      BY <1>1, <2>1
    <3>2. walk.widest \in Nat /\ walk.widest <= PageSize /\ size \in Nat
      BY <1>1, <1>2 DEF ReadInv, ReadTypes, PagesAreBefore
    <3> QED
      BY <1>2, <3>1, <3>2
  <2>3. i \in 1..posted
    BY <1>1, <2>1
  <2>4. posted - i < NextStart(page)
    BY <1>2, <2>1, <2>2, <2>3, ShortPageIsTheLast DEF Inductive
  <2> QED
    BY <1>1, <2>1, <2>3, <2>4 DEF NextStart
<1> HIDE DEF page, size
<1>5. EndsAreReal'
  <2>1. walk'.ends # "end_of_results"
    BY <1>1
  <2> QED
    BY <1>4, <2>1 DEF EndsAreReal
<1>6. GrowthIsSmall' /\ HeadIsYoung'
  BY <1>1, <1>2 DEF ReadInv, GrowthIsSmall, HeadIsYoung
<1>7. PagesAreBefore'
  <2>1. walk'.seen \subseteq sighted' /\ slice'.offset > 0 /\ walk'.widest <= PageSize
    BY <1>1, <1>2 DEF ReadInv, ReadTypes, PagesAreBefore, Greater
  <2>2. ASSUME NEW j \in walk'.seen, j <= list'.size PROVE list'.size - j < slice'.offset
    <3>1. CASE j \in page
      BY <1>1, <2>2, <3>1
    <3>2. CASE j \in walk.seen
      <4>1. walk.start > 0 /\ list'.size = list.size
        BY <1>1, <3>2 DEF ReadInv, PagesAreBefore
      <4>2. list.size - j < slice.offset /\ j \in 1..posted
        BY <1>1, <2>2, <3>2, <4>1 DEF ReadInv, ReadTypes, PagesAreBefore
      <4> QED
        BY <1>1, <4>1, <4>2
    <3> QED
      BY <1>1, <2>2, <3>1, <3>2
  <2> QED
    BY <2>1, <2>2 DEF PagesAreBefore
<1>8. ReadTypes'
  <2>1. walk'.full \in BOOLEAN
    BY <1>1
  <2>2. walk'.widest \in Nat /\ walk'.pages \in Nat /\ list'.age \in Nat
    BY <1>1, <1>2 DEF ReadInv, ReadTypes, Greater
  <2> QED
    BY <1>1, <2>1, <2>2 DEF ReadInv, ReadTypes
<1> QED
  BY <1>5, <1>6, <1>7, <1>8 DEF ReadInv

-----------------------------------------------------------------------------
LEMMA InitReads ==
  ASSUME Init
  PROVE  ReadInv
  BY WalkAssumption DEF Init, ReadInv, ReadTypes, GrowthIsSmall, PagesAreBefore, EndsAreReal,
     HeadIsYoung, NoWalk, WalkFrom, Ids, AgeCap

LEMMA StepReads ==
  ASSUME SteadyList, Inductive, ReadInv, [Next]_vars
  PROVE  ReadInv'
<1>1. CASE UNCHANGED vars
  BY <1>1 DEF vars, ReadInv, ReadTypes, GrowthIsSmall, PagesAreBefore, EndsAreReal, AllRead,
     HeadIsYoung
<1>2. CASE \/ Claim \/ Break \/ Crash
           \/ \E reason \in {"rate_limited", "throttled_empty"} : Refused(reason)
           \/ \E reason \in {"stopped", "rate_limited", "error"} : Interrupt(reason)
  BY <1>2, QuietKeepsReading
<1> QED
  BY <1>1, <1>2, PostKeepsReading, TickKeepsReading, FinishKeepsReading, LastPageKeepsReading,
     ReadEndKeepsReading, ReadPageKeepsReading DEF Next

-----------------------------------------------------------------------------
(* What falls through, while time does not strain the windows *)

\* What has a sighting, or was cut off by a page cap.
Known == sighted \cup list.cut

\* Walks, with the pause before their last part, stay within the margin, and the
\* slice within the reach of its windows.
TimesHold ==
  /\ list.spread <= Margin
  /\ walk.on => list.spread + walk.age <= Margin
  /\ slice.walked => slice.last + Margin <= MaxWindow
  /\ ~slice.walked => slice.last <= FirstWindow /\ list.spread = 0

\* A walk looks back to the last one and the margin beyond it.
WindowReaches ==
  walk.on => IF slice.walked
             THEN walk.age <= slice.last /\ slice.last + Margin <= walk.window + walk.age
             ELSE walk.window = FirstWindow

\* What nobody knows of appeared after the head of the last list had been read.
UnknownIsYoung ==
  \A i \in 1..posted : i \notin Known => age[i] <= slice.last + list.spread

\* What nobody knows of and is older than a sighted posting is still ahead of the
\* walk through this list, and what was sighted of the list is behind it.
HolesAreAhead ==
  \A i \in 1..posted : \A j \in sighted :
    i < j /\ i \notin Known =>
      i <= list.size /\ list.size - j < slice.offset /\ slice.offset <= posted - i

\* A list that was read to its end has no unknown posting left.
ListIsKnown == \A i \in 1..list.size : i \in Known

EndsAreKnown ==
  slice.offset = 0 \/ (walk.on /\ walk.ends \in Finished) => ListIsKnown

Gapless == TimesHold /\ WindowReaches /\ UnknownIsYoung /\ HolesAreAhead /\ EndsAreKnown
GapInv == ~list.strained => Gapless

\* The numbers of the proofs below are numbers.
LEMMA Numbers ==
  ASSUME Inductive, ReadInv
  PROVE  /\ posted \in Nat /\ 1..posted \subseteq Ids /\ list.size \in 0..posted
         /\ \A i \in 1..posted : age[i] \in Nat
         /\ slice.offset \in Nat /\ slice.last \in Nat
         /\ walk.window \in Nat /\ walk.age \in Nat /\ walk.start \in Nat
         /\ list.spread \in Nat /\ list.age \in Nat
         /\ Margin \in Nat /\ FirstWindow \in Nat /\ MaxWindow \in Nat /\ AgeCap = MaxWindow + 1
<1>1. posted \in Nat /\ 1..posted \subseteq Ids /\ list.size \in 0..posted
      /\ slice.offset \in Nat /\ slice.last \in Nat /\ walk.window \in Nat /\ walk.start \in Nat
  BY WalkAssumption DEF Inductive, IInv, WalkIsStored, Ids
<1>2. \A i \in 1..posted : age[i] \in Nat
  BY <1>1 DEF Inductive, IInv, NewestFirst
<1>3. walk.age \in Nat
  BY DEF Inductive, RecordTypes
<1>4. list.spread \in Nat /\ list.age \in Nat
  BY DEF ReadInv, ReadTypes
<1> QED
  BY <1>1, <1>2, <1>3, <1>4, WalkAssumption DEF AgeCap

\* The window of a walk reaches back to everything nobody knows of.
LEMMA UnknownIsListed ==
  ASSUME Inductive, ReadInv, Gapless, walk.on, NEW i \in 1..posted, i \notin Known
  PROVE  age[i] <= walk.window
<1>1. age[i] \in Nat /\ walk.window \in Nat /\ walk.age \in Nat /\ slice.last \in Nat
      /\ list.spread \in Nat /\ Margin \in Nat
  BY Numbers
<1>2. age[i] <= slice.last + list.spread /\ list.spread + walk.age <= Margin
  BY DEF Gapless, UnknownIsYoung, TimesHold
<1>3. CASE slice.walked
  <2>1. slice.last + Margin <= walk.window + walk.age
    BY <1>3 DEF Gapless, WindowReaches
  <2> QED
    BY <1>1, <1>2, <2>1
<1>4. CASE ~slice.walked
  <2>1. walk.window = FirstWindow /\ slice.last <= FirstWindow /\ list.spread = 0
    BY <1>4 DEF Gapless, WindowReaches, TimesHold
  <2> QED
    BY <1>1, <1>2, <2>1
<1> QED
  BY <1>3, <1>4

\* The steps that change neither the list nor what is known of it.
LEMMA QuietKeepsGapless ==
  ASSUME SteadyList, Inductive, ReadInv, Gapless,
         \/ Claim \/ Break \/ Crash
         \/ \E reason \in {"rate_limited", "throttled_empty"} : Refused(reason)
         \/ \E reason \in {"stopped", "rate_limited", "error"} : Interrupt(reason)
  PROVE  Gapless'
<1>1. /\ UNCHANGED <<posted, age, sighted, slice, list.age, list.size, list.spread, list.cut,
                     list.strained>>
      /\ \/ walk' = NoWalk
         \/ Claim /\ walk' = WalkFrom(TRUE, slice.offset, WindowSeconds)
         \/ /\ walk.on /\ walk.ends = "no" /\ walk'.ends \in Unfinished \cup {"no"}
            /\ UNCHANGED <<walk.on, walk.seen, walk.widest, walk.window, walk.pages, walk.age,
                           walk.full>>
  BY QuietStep DEF Inductive, IInv, ReadInv
<1>2. UNCHANGED <<posted, age, sighted, slice, list.size, list.spread, list.cut>>
  BY <1>1
<1>3. Known' = Known /\ UnknownIsYoung' /\ HolesAreAhead' /\ (ListIsKnown => ListIsKnown')
  BY <1>2 DEF Known, Gapless, UnknownIsYoung, HolesAreAhead, ListIsKnown
<1>4. CASE walk' = NoWalk
  <2>1. walk'.on = FALSE
    BY <1>4 DEF NoWalk, WalkFrom
  <2> QED
    BY <1>2, <1>3, <2>1 DEF Gapless, TimesHold, WindowReaches, EndsAreKnown
<1>5. CASE Claim /\ walk' = WalkFrom(TRUE, slice.offset, WindowSeconds)
  <2>1. walk'.on /\ walk'.ends = "no" /\ walk'.age = 0 /\ walk'.window = WindowSeconds
    BY <1>5 DEF WalkFrom
  <2>2. slice.last \in Nat /\ Margin \in Nat /\ MaxWindow \in Nat /\ list.spread \in Nat
    BY WalkAssumption DEF Inductive, IInv, WalkIsStored, ReadInv, ReadTypes
  <2>3. TimesHold' /\ WindowReaches'
    BY <1>2, <2>1, <2>2 DEF Gapless, TimesHold, WindowReaches, WindowSeconds, Lesser
  <2>4. EndsAreKnown'
    BY <1>2, <1>3, <2>1 DEF Gapless, EndsAreKnown, Finished
  <2> QED
    BY <1>3, <2>3, <2>4 DEF Gapless
<1>6. CASE /\ walk.on /\ walk.ends = "no" /\ walk'.ends \in Unfinished \cup {"no"}
           /\ UNCHANGED <<walk.on, walk.seen, walk.widest, walk.window, walk.pages, walk.age,
                          walk.full>>
  <2>1. UNCHANGED <<walk.on, walk.window, walk.age>> /\ walk'.ends \notin Finished
    BY <1>6 DEF Unfinished, Finished
  <2>2. TimesHold' /\ WindowReaches'
    BY <1>2, <2>1 DEF Gapless, TimesHold, WindowReaches
  <2>3. EndsAreKnown'
    BY <1>2, <1>3, <2>1 DEF Gapless, EndsAreKnown
  <2> QED
    BY <1>3, <2>2, <2>3 DEF Gapless
<1> QED
  BY <1>1, <1>4, <1>5, <1>6

LEMMA PostKeepsGapless ==
  ASSUME Inductive, ReadInv, Gapless, Post
  PROVE  Gapless'
<1>1. posted \in 0..Postings /\ list.size \in 0..posted /\ posted' = posted + 1 /\ posted < Postings
      /\ UNCHANGED <<age, sighted, slice, walk, list>> /\ Postings \in Nat
  BY WalkAssumption DEF Inductive, IInv, WalkIsStored, Post
<1>2. Known' = Known /\ TimesHold' /\ WindowReaches' /\ EndsAreKnown'
  BY <1>1 DEF Known, Gapless, TimesHold, WindowReaches, EndsAreKnown, ListIsKnown
<1>3. UnknownIsYoung'
  <2>1. posted + 1 \in Ids /\ age[posted + 1] = 0 /\ slice.last + list.spread \in Nat
    BY <1>1, SMTT(60) DEF Inductive, IInv, NewestFirst, WalkIsStored, Ids, ReadInv, ReadTypes
  <2> QED
    BY <1>1, <1>2, <2>1 DEF Gapless, UnknownIsYoung
<1>4. HolesAreAhead'
  <2>1. SUFFICES ASSUME NEW i \in 1..(posted + 1), NEW j \in sighted, i < j, i \notin Known
                 PROVE  i <= list.size /\ list.size - j < slice.offset
                        /\ slice.offset <= posted + 1 - i
    BY <1>1, <1>2 DEF HolesAreAhead
  <2>2. j \in 1..posted
    BY DEF ReadInv, ReadTypes
  <2>3. i \in 1..posted
    BY <1>1, <2>1, <2>2
  <2>4. i <= list.size /\ list.size - j < slice.offset /\ slice.offset <= posted - i
    BY <2>1, <2>3 DEF Gapless, HolesAreAhead
  <2> QED
    BY <1>1, <2>3, <2>4 DEF Inductive, IInv, WalkIsStored
<1> QED
  BY <1>2, <1>3, <1>4 DEF Gapless

\* Time passes over a slice that it does not strain.
LEMMA TickKeepsGapless ==
  ASSUME Inductive, ReadInv, Gapless, Tick, ~Strains
  PROVE  Gapless'
<1>1. /\ UNCHANGED <<posted, sighted, slice.offset, slice.walked, list.size, list.spread, list.cut,
                     walk.on, walk.window, walk.ends>>
      /\ age' = [i \in Ids |-> IF i <= posted THEN Older(age[i]) ELSE 0]
      /\ slice'.last = Older(slice.last)
      /\ walk.on => walk'.age = Older(walk.age)
  BY DEF Tick, Inductive, RecordTypes
<1>2. posted \in Nat /\ 1..posted \subseteq Ids /\ Margin \in Nat /\ MaxWindow \in Nat
      /\ AgeCap = MaxWindow + 1 /\ slice.last \in Nat /\ walk.age \in Nat /\ list.spread \in Nat
      /\ walk.window \in Nat /\ FirstWindow \in Nat
  BY Numbers
<1>3. Known' = Known /\ HolesAreAhead' /\ EndsAreKnown'
  BY <1>1 DEF Known, Gapless, HolesAreAhead, EndsAreKnown, ListIsKnown
<1>4. Older(slice.last) \in Nat /\ Older(slice.last) <= slice.last + 1
      /\ Older(walk.age) \in Nat /\ Older(walk.age) <= walk.age + 1
  BY <1>2, OlderIsOlder
<1>5. TimesHold'
  BY <1>1, <1>2, <1>4 DEF Gapless, TimesHold, Strains
<1>6. WindowReaches'
  <2>1. SUFFICES ASSUME walk.on, slice.walked
                 PROVE  /\ Older(walk.age) <= Older(slice.last)
                        /\ Older(slice.last) + Margin <= walk.window + Older(walk.age)
    BY <1>1 DEF Gapless, WindowReaches
  <2>2. walk.age <= slice.last /\ slice.last + Margin <= walk.window + walk.age
        /\ slice.last + 1 + Margin <= MaxWindow
    BY <1>2, <2>1 DEF Gapless, WindowReaches, Strains
  <2>3. Older(walk.age) = walk.age + 1 /\ Older(slice.last) = slice.last + 1
    BY <1>2, <2>2, OlderIsOlder
  <2> QED
    BY <1>2, <2>2, <2>3
<1>7. UnknownIsYoung'
  <2>1. SUFFICES ASSUME NEW i \in 1..posted, i \notin Known
                 PROVE  Older(age[i]) <= Older(slice.last) + list.spread
    BY <1>1, <1>2, <1>3 DEF UnknownIsYoung
  <2>2. age[i] \in Nat /\ age[i] <= slice.last + list.spread
    BY <1>2, <2>1 DEF Inductive, IInv, NewestFirst, Gapless, UnknownIsYoung
  <2> QED
    BY <1>2, <2>2, OlderIsMonotone
<1> QED
  BY <1>3, <1>5, <1>6, <1>7 DEF Gapless

\* A walk that finished leaves nothing of its list unknown, and is stamped with
\* its start: what appeared since is within the margin of that.
LEMMA FinishKeepsGapless ==
  ASSUME Inductive, ReadInv, Gapless, Finish, ~list'.strained
  PROVE  Gapless'
<1>1. /\ walk.on /\ walk' = NoWalk /\ UNCHANGED <<posted, age, sighted, list.size, list.age, list.cut>>
      /\ slice'.offset = ResumeStart /\ slice'.walked = (slice.walked \/ Stamps(walk.ends))
      /\ slice'.last = IF Stamps(walk.ends) THEN walk.age ELSE slice.last
      /\ IF walk.ends \in Finished
         THEN list'.spread = Spread /\ list'.strained = SpreadStrains
         ELSE list' = list
  BY DEF Finish, StampedAtStart, Inductive, RecordTypes
<1>2. walk'.on = FALSE /\ Known' = Known
  BY <1>1 DEF NoWalk, WalkFrom, Known
<1>3. CASE walk.ends \notin Finished
  <2>1. UNCHANGED <<slice.offset, slice.walked, slice.last, list.spread>>
    <3>1. walk.start = slice.offset
      BY <1>1 DEF Inductive, IInv, WalkIsStored
    <3>2. slice.walked \in BOOLEAN
      BY DEF ReadInv, ReadTypes
    <3> QED
      BY <1>1, <1>3, <3>1, <3>2 DEF Stamps, ResumeStart
  <2> QED
    BY <1>1, <1>2, <2>1 DEF Gapless, TimesHold, WindowReaches, UnknownIsYoung, HolesAreAhead,
       EndsAreKnown, ListIsKnown
<1>4. CASE walk.ends \in Finished
  <2>1. /\ slice'.offset = 0 /\ slice'.walked /\ slice'.last = walk.age
        /\ list'.spread = Spread /\ ~(Spread > Margin)
    BY <1>1, <1>4 DEF Stamps, ResumeStart, SpreadStrains
  <2>2. ListIsKnown
    BY <1>1, <1>4 DEF Gapless, EndsAreKnown
  <2>3. Spread \in Nat /\ list.age <= walk.age + Spread
    BY Numbers DEF Spread
  <2>4. TimesHold'
    <3>1. walk.age <= Margin
      BY <1>1, Numbers DEF Gapless, TimesHold
    <3>2. walk.age + Margin <= MaxWindow
      BY <3>1, Numbers, MarginAssumption
    <3> QED
      BY <1>2, <2>1, <2>3, <3>2, Numbers DEF TimesHold
  <2>5. UnknownIsYoung'
    <3>1. SUFFICES ASSUME NEW i \in 1..posted, i \notin Known
                   PROVE  age[i] <= walk.age + Spread
      BY <1>1, <1>2, <2>1 DEF UnknownIsYoung
    <3>2. age[i] <= list.age
      BY <2>2, <3>1, Numbers DEF ListIsKnown, ReadInv, HeadIsYoung
    <3> QED
      BY <2>3, <3>1, <3>2, Numbers
  <2>6. HolesAreAhead'
    <3>1. SUFFICES ASSUME NEW i \in 1..posted, NEW j \in sighted, i < j, i \notin Known PROVE FALSE
      BY <1>1, <1>2 DEF HolesAreAhead
    <3>2. i \in 1..list.size
      BY <3>1, Numbers DEF Gapless, HolesAreAhead
    <3> QED
      BY <2>2, <3>1, <3>2 DEF ListIsKnown
  <2>7. WindowReaches' /\ EndsAreKnown'
    BY <1>1, <1>2, <2>2 DEF WindowReaches, EndsAreKnown, ListIsKnown
  <2> QED
    BY <2>4, <2>5, <2>6, <2>7 DEF Gapless
<1> QED
  BY <1>3, <1>4

\* A page cap either comes at the end of the list, or what it cuts off is known.
LEMMA LastPageKeepsGapless ==
  ASSUME Inductive, ReadInv, Gapless, LastPage
  PROVE  Gapless'
<1>1. /\ UNCHANGED <<posted, age, sighted, slice, list.age, list.size, list.spread, list.strained,
                     walk.on, walk.window, walk.age>>
      /\ walk.on /\ walk.ends = "no" /\ walk.pages > 0
      /\ list'.cut = IF walk.full THEN list.cut \cup Unread ELSE list.cut
  <2>1. walk.pages > 0
    BY WalkAssumption DEF LastPage, ReadInv, ReadTypes
  <2> QED
    BY <2>1 DEF LastPage, Walking, Inductive, RecordTypes
<1>2. Known \subseteq Known'
  BY <1>1 DEF Known
<1>3. TimesHold' /\ WindowReaches' /\ UnknownIsYoung' /\ HolesAreAhead'
  BY <1>1, <1>2 DEF Gapless, TimesHold, WindowReaches, UnknownIsYoung, HolesAreAhead
<1>4. ListIsKnown'
  <2>1. SUFFICES ASSUME NEW i \in 1..list.size, i \notin Known' PROVE FALSE
    BY <1>1 DEF ListIsKnown
  <2>2. age[i] <= walk.window /\ i \notin sighted
    <3>1. i \in 1..posted /\ i \notin Known
      BY <1>2, <2>1, Numbers
    <3> QED
      BY <1>1, <3>1, UnknownIsListed DEF Known
  <2>3. CASE walk.full
    BY <1>1, <2>1, <2>2, <2>3 DEF Known, Unread
  <2>4. CASE ~walk.full
    BY <1>1, <2>1, <2>2, <2>4 DEF ReadInv, EndsAreReal, AllRead
  <2> QED
    BY <2>3, <2>4
<1> QED
  BY <1>3, <1>4 DEF Gapless, EndsAreKnown

LEMMA ReadEndKeepsGapless ==
  ASSUME SteadyList, Inductive, ReadInv, Gapless, NEW n \in Lengths, ReadEnd(n)
  PROVE  Gapless'
<1>1. /\ UNCHANGED <<posted, age, sighted, slice, walk.on, walk.window, walk.age>>
      /\ walk.on /\ Page(walk.start, PageSize) \subseteq walk.seen /\ Answered
  BY FullLengths DEF ReadEnd, Paging, Walking, Inductive, RecordTypes
<1>2. /\ list'.size = (IF walk.start = 0 THEN posted ELSE list.size)
      /\ UNCHANGED <<list.spread, list.cut, list.strained>>
  BY <1>1, HeadIsRead
<1>3. Known' = Known /\ walk.start = slice.offset
  BY <1>1, <1>2 DEF Known, Inductive, IInv, WalkIsStored
<1>4. TimesHold' /\ WindowReaches' /\ UnknownIsYoung'
  BY <1>1, <1>2, <1>3 DEF Gapless, TimesHold, WindowReaches, UnknownIsYoung
<1>5. ListIsKnown'
  <2>1. SUFFICES ASSUME NEW i \in 1..list'.size, i \notin Known PROVE FALSE
    BY <1>3 DEF ListIsKnown
  <2>2. i \in 1..posted /\ (i <= list.size \/ walk.start = 0)
    BY <1>2, <2>1, Numbers
  <2>3. age[i] <= walk.window
    BY <1>1, <2>1, <2>2, UnknownIsListed
  <2>4. i \in sighted
    BY <1>1, <2>2, <2>3, EndMeansEnd
  <2> QED
    BY <2>1, <2>4 DEF Known
<1>6. HolesAreAhead'
  <2>1. SUFFICES ASSUME NEW i \in 1..posted, NEW j \in sighted, i < j, i \notin Known PROVE FALSE
    BY <1>1, <1>3 DEF HolesAreAhead
  <2>2. i \in 1..list.size
    BY <2>1, Numbers DEF Gapless, HolesAreAhead
  <2>3. list'.size >= list.size
    BY <1>2, Numbers
  <2> QED
    BY <1>2, <1>3, <1>5, <2>1, <2>2, <2>3, Numbers DEF ListIsKnown
<1> QED
  BY <1>4, <1>5, <1>6 DEF Gapless, EndsAreKnown

\* A page leaves nothing unknown between what it read and what was read before,
\* and a page of known cards leaves nothing unknown at all.
LEMMA ReadPageKeepsGapless ==
  ASSUME SteadyList, Inductive, ReadInv, Gapless, NEW n \in Lengths, ReadPage(n)
  PROVE  Gapless'
<1> DEFINE page == Page(walk.start, PageSize)
           size == Cardinality(page)
<1>1. /\ n = PageSize /\ walk.on /\ walk.ends = "no" /\ walk.start = slice.offset
      /\ posted \in Nat /\ list.size \in 0..posted /\ walk.start \in Nat
      /\ page \subseteq 1..posted /\ size \in 1..PageSize
      /\ \A j \in page : walk.start <= posted - j /\ posted - j < slice'.offset
      /\ sighted' = sighted \cup page
      /\ slice'.offset = walk.start + size
      /\ UNCHANGED <<posted, age, slice.walked, slice.last, walk.on, walk.window, walk.age>>
      /\ walk'.ends = IF KnownStreak(page) >= KnownPages THEN "known_page" ELSE "no"
      /\ list'.size = (IF walk.start = 0 THEN posted ELSE list.size)
      /\ UNCHANGED <<list.spread, list.cut, list.strained>>
  BY PageStep
<1>2. PageSize \in Nat /\ PageSize > 0 /\ Burst \in Nat /\ Burst < PageSize
      /\ (walk.start > 0 => posted - list.size <= Burst)
  BY <1>1, FullLengths DEF SteadyList, ReadInv, GrowthIsSmall
<1>3. Known' = Known \cup page
  BY <1>1 DEF Known
<1>4. ASSUME NEW i \in 1..posted, posted - i >= walk.start, i \notin page
      PROVE  posted - i >= slice'.offset
  BY <1>1, <1>2, <1>4, PageHasNoHoles DEF Inductive, NextStart
<1>5. ASSUME NEW i \in 1..posted, i \notin Known, posted - i >= slice'.offset
      PROVE  size = PageSize /\ age[i] <= walk.window
  <2>1. age[i] <= walk.window
    BY <1>1, <1>5, UnknownIsListed
  <2>2. size < PageSize => posted - i < NextStart(page)
    BY <1>2, <2>1, ShortPageIsTheLast DEF Inductive
  <2> QED
    BY <1>1, <1>2, <1>5, <2>1, <2>2 DEF NextStart
<1> HIDE DEF page, size
<1>6. TimesHold' /\ WindowReaches' /\ UnknownIsYoung'
  BY <1>1, <1>3 DEF Gapless, TimesHold, WindowReaches, UnknownIsYoung
<1>7. ASSUME NEW i \in 1..posted, NEW j \in sighted', i < j, i \notin Known'
      PROVE  slice'.offset <= posted - i
  <2>1. i \notin page /\ i \notin Known /\ j \in 1..posted
    BY <1>1, <1>3, <1>7 DEF ReadInv, ReadTypes
  <2>2. posted - i >= walk.start
    <3>1. CASE j \in sighted
      BY <1>1, <1>7, <2>1, <3>1 DEF Gapless, HolesAreAhead
    <3>2. CASE j \in page
      BY <1>1, <1>7, <2>1, <3>2
    <3> QED
      BY <1>1, <1>7, <3>1, <3>2
  <2> QED
    BY <1>1, <1>4, <2>1, <2>2
<1>8. ASSUME NEW i \in 1..posted, NEW j \in sighted, i < j, i \notin Known
      PROVE  walk.start > 0 /\ i <= list.size /\ list.size - j < walk.start
  <2>1. i <= list.size /\ list.size - j < slice.offset
    BY <1>8 DEF Gapless, HolesAreAhead
  <2>2. walk.start # 0
    <3>1. SUFFICES ASSUME slice.offset = 0 PROVE FALSE
      BY <1>1
    <3> QED
      BY <1>1, <1>8, <2>1, <3>1 DEF Gapless, EndsAreKnown, ListIsKnown
  <2> QED
    BY <1>1, <2>1, <2>2
<1>9. HolesAreAhead'
  <2>1. SUFFICES ASSUME NEW i \in 1..posted, NEW j \in sighted', i < j, i \notin Known'
                 PROVE  i <= list'.size /\ list'.size - j < slice'.offset
                        /\ slice'.offset <= posted - i
    BY <1>1 DEF HolesAreAhead
  <2>2. slice'.offset <= posted - i /\ i \notin Known /\ j \in 1..posted
    BY <1>1, <1>3, <1>7, <2>1 DEF ReadInv, ReadTypes
  <2>3. size = PageSize
    BY <1>5, <2>2
  <2>4. i <= list'.size
    BY <1>1, <1>2, <2>2, <2>3
  <2>5. list'.size - j < slice'.offset
    <3>1. CASE j \in page
      BY <1>1, <2>2, <3>1
    <3>2. CASE j \in sighted
      BY <1>1, <1>8, <2>1, <2>2, <3>2
    <3> QED
      BY <1>1, <2>1, <3>1, <3>2
  <2> QED
    BY <2>2, <2>4, <2>5
<1>10. ASSUME walk'.ends \in Finished PROVE ListIsKnown'
  <2>1. page \subseteq sighted
    <3>1. KnownStreak(page) >= KnownPages
      BY <1>1, <1>10 DEF Finished
    <3> QED
      BY <3>1, WalkAssumption DEF KnownStreak
  <2>2. SUFFICES ASSUME NEW i \in 1..list'.size, i \notin Known' PROVE FALSE
    BY DEF ListIsKnown
  <2>3. i \in 1..posted /\ i \notin Known /\ i \notin page
    BY <1>1, <1>3, <2>2
  <2>4. posted - i >= slice'.offset
    <3>1. posted - i >= walk.start
      <4>1. SUFFICES ASSUME posted - i < walk.start PROVE FALSE
        BY <1>1, <2>3
      <4>2. i \in 1..list.size
        BY <1>1, <2>2, <2>3, <4>1
      <4>3. i \in sighted
        BY <1>1, <4>1, <4>2 DEF Inductive, IInv, OffsetFollowsSightings
      <4> QED
        BY <2>3, <4>3 DEF Known
    <3> QED
      BY <1>4, <2>3, <3>1
  <2>5. size = PageSize /\ age[i] <= walk.window
    BY <1>5, <2>3, <2>4
  <2> DEFINE b == posted - walk.start - PageSize + 1
  <2>6. b \in page
    <3>1. b \in 1..posted /\ i < b /\ posted - b \in walk.start..(walk.start + PageSize - 1)
      BY <1>1, <1>2, <2>3, <2>4, <2>5
    <3> HIDE DEF b
    <3>2. age[b] <= walk.window
      <4>1. b \in Ids /\ i \in Ids /\ age[b] \in Nat /\ age[i] \in Nat /\ walk.window \in Nat
        BY <2>3, <3>1, Numbers
      <4>2. age[b] <= age[i]
        BY <3>1, <4>1 DEF Inductive, IInv, NewestFirst
      <4> QED
        BY <2>5, <4>1, <4>2
    <3> QED
      BY <3>1, <3>2 DEF page, Page, Listed
  <2>7. i < b /\ b \in sighted
    BY <1>1, <1>2, <2>1, <2>3, <2>4, <2>5, <2>6
  <2>8. walk.start > 0 /\ list.size - b < walk.start
    <3> HIDE DEF b
    <3> QED
      BY <1>8, <2>3, <2>7
  <2> QED
    BY <1>1, <1>2, <2>8
<1>11. EndsAreKnown'
  BY <1>1, <1>10 DEF EndsAreKnown
<1> QED
  BY <1>6, <1>9, <1>11 DEF Gapless

-----------------------------------------------------------------------------
LEMMA InitIsGapless ==
  ASSUME Init
  PROVE  GapInv
  BY WalkAssumption DEF Init, GapInv, Gapless, TimesHold, WindowReaches, UnknownIsYoung,
     HolesAreAhead, EndsAreKnown, ListIsKnown, NoWalk, WalkFrom, Ids

\* What strains the windows once has strained them for good.
LEMMA StrainLasts ==
  ASSUME SteadyList, Inductive, ReadInv, [Next]_vars, ~list'.strained
  PROVE  ~list.strained
<1>1. CASE Tick
  BY <1>1 DEF Tick, Inductive, RecordTypes
<1>2. CASE Finish
  BY <1>2 DEF Finish, SpreadStrains, Inductive, RecordTypes
<1>3. CASE \/ Claim \/ Break \/ Crash
           \/ \E reason \in {"rate_limited", "throttled_empty"} : Refused(reason)
           \/ \E reason \in {"stopped", "rate_limited", "error"} : Interrupt(reason)
  BY <1>3, QuietStep DEF Inductive, IInv, ReadInv
<1>4. CASE Post \/ LastPage \/ UNCHANGED vars
  BY <1>4 DEF Post, LastPage, vars, Inductive, RecordTypes
<1>5. CASE \E n \in Lengths : ReadPage(n) \/ ReadEnd(n)
  BY <1>5, HeadIsRead DEF ReadPage, ReadEnd
<1> QED
  BY <1>1, <1>2, <1>3, <1>4, <1>5 DEF Next

LEMMA StepIsGapless ==
  ASSUME SteadyList, Inductive, ReadInv, GapInv, [Next]_vars
  PROVE  GapInv'
<1>1. SUFFICES ASSUME ~list'.strained PROVE Gapless'
  BY DEF GapInv
<1>2. Gapless
  BY <1>1, StrainLasts DEF GapInv
<1>3. CASE Tick
  <2>1. ~Strains
    BY <1>1, <1>3 DEF Tick, Inductive, RecordTypes
  <2> QED
    BY <1>2, <1>3, <2>1, TickKeepsGapless
<1>4. CASE UNCHANGED vars
  BY <1>2, <1>4 DEF vars, Gapless, TimesHold, WindowReaches, UnknownIsYoung, HolesAreAhead,
     EndsAreKnown, ListIsKnown, Known
<1>5. CASE \/ Claim \/ Break \/ Crash
           \/ \E reason \in {"rate_limited", "throttled_empty"} : Refused(reason)
           \/ \E reason \in {"stopped", "rate_limited", "error"} : Interrupt(reason)
  BY <1>2, <1>5, QuietKeepsGapless
<1> QED
  BY <1>1, <1>2, <1>3, <1>4, <1>5, PostKeepsGapless, FinishKeepsGapless, LastPageKeepsGapless,
     ReadEndKeepsGapless, ReadPageKeepsGapless DEF Next

LEMMA GapInvariance ==
  ASSUME SteadyList
  PROVE  Spec => [](Inductive /\ ReadInv /\ GapInv)
<1>1. Init => Inductive /\ ReadInv /\ GapInv
  BY InitHolds, InitReads, InitIsGapless
<1>2. Inductive /\ ReadInv /\ GapInv /\ [Next]_vars => (Inductive /\ ReadInv /\ GapInv)'
  BY StepHolds, StepReads, StepIsGapless
<1> QED
  BY <1>1, <1>2, PTL DEF Spec

\* No posting is out of reach of the next window before it is sighted or cut off
\* by a page cap, as long as interruptions and walks stay within the margin
\* (window_seconds, walk_slice, finish_walk): whatever refuses, stops or kills
\* the walks, and however the lists grow and shrink meanwhile.
THEOREM NothingSlipsThrough ==
  ASSUME SteadyList
  PROVE  Spec => []NoGap
<1>1. Inductive /\ ReadInv /\ GapInv => NoGap
  <2>1. SUFFICES ASSUME Inductive, ReadInv, Gapless, NEW i \in Missed, i \notin list.cut PROVE FALSE
    BY DEF GapInv, NoGap
  <2>2. i \in 1..posted /\ slice.walked /\ age[i] > slice.last + Margin /\ i \notin Known
    BY <2>1 DEF Missed, Known
  <2>3. age[i] <= slice.last + list.spread /\ list.spread <= Margin
    BY <2>1, <2>2 DEF Gapless, UnknownIsYoung, TimesHold
  <2> QED
    BY <2>1, <2>2, <2>3, Numbers
<1> QED
  BY <1>1, GapInvariance, PTL

\* "end_of_results" is the end of the results, also of a list that was resumed in
\* the middle after it had grown, and "known_page" leaves nothing that a page cap
\* had not cut off before (walk_slice).
THEOREM EndsAreHonest ==
  ASSUME SteadyList
  PROVE  Spec => HonestEnd
<1> DEFINE Honest ==
      Finish => /\ walk.ends = "end_of_results" => Unread = {}
                /\ walk.ends = "known_page" /\ ~list.strained => Unread \subseteq list.cut
<1>1. Inductive /\ ReadInv /\ GapInv => [Honest]_vars
  <2>1. SUFFICES ASSUME ReadInv, GapInv, Finish PROVE Honest
    OBVIOUS
  <2>2. walk.on
    BY <2>1 DEF Finish
  <2>3. walk.ends = "end_of_results" => Unread = {}
    BY <2>1, <2>2 DEF ReadInv, EndsAreReal, AllRead, Unread
  <2>4. walk.ends = "known_page" /\ ~list.strained => Unread \subseteq list.cut
    BY <2>1, <2>2 DEF GapInv, Gapless, EndsAreKnown, ListIsKnown, Known, Finished, Unread
  <2> QED
    BY <2>3, <2>4
<1> QED
  BY <1>1, GapInvariance, PTL DEF HonestEnd

-----------------------------------------------------------------------------
(* The turns of the tiers (Rotation).                                       *)

CONSTANTS Searches, Tiers, Configs, MaxDeaths, MaxDeploys
VARIABLES rows, line, walked, deaths, deploys, ahead

R == INSTANCE Rotation WITH Slices <- Searches

\* A set of numbers below a bound has a greatest one.
Below == {pair \in Nat \X Nat : pair[1] < pair[2]}
LEMMA GreatestNumber ==
  ASSUME NEW top \in Nat, NEW set \in SUBSET (0..top), set # {}
  PROVE  \E m \in set : \A x \in set : x <= m
<1> DEFINE mirror == {top - x : x \in set}
<1>1. IsWellFoundedOn(Below, Nat)
  BY NatLessThanWellFounded DEF OpToRel, Below
<1>2. mirror \subseteq Nat /\ mirror # {}
  <2>1. \A x \in set : top - x \in Nat
    OBVIOUS
  <2> QED
    BY <2>1
<1>3. PICK m \in mirror : \A x \in mirror : ~(<<x, m>> \in Below)
  <2> HIDE DEF mirror
  <2> QED
    BY <1>1, <1>2, WFMin
<1>4. PICK k \in set : m = top - k
  BY <1>3
<1>5. ASSUME NEW x \in set PROVE x <= k
  <2>1. top - x \in mirror /\ top - x \in Nat /\ m \in Nat
    BY <1>2, <1>4
  <2>2. ~(top - x < m)
    BY <1>3, <2>1 DEF Below
  <2> QED
    BY <1>4, <2>2
<1> QED
  BY <1>5

\* The place of the last walk of a tier in a list of walks.
Latest(q, tier, t) ==
  LET mine == {n \in 1..Len(q) : tier[q[n]] = t}
  IN IF mine = {} THEN 0 ELSE CHOOSE n \in mine : \A m \in mine : m =< n

LEMMA LatestIs ==
  ASSUME NEW S, NEW q \in Seq(S), NEW tier, NEW t
  PROVE  /\ Latest(q, tier, t) \in 0..Len(q)
         /\ \A n \in 1..Len(q) : tier[q[n]] = t => n <= Latest(q, tier, t)
         /\ Latest(q, tier, t) > 0 => tier[q[Latest(q, tier, t)]] = t
<1> DEFINE mine == {n \in 1..Len(q) : tier[q[n]] = t}
<1>1. Len(q) \in Nat /\ mine \in SUBSET (0..Len(q))
  OBVIOUS
<1>2. CASE mine = {}
  BY <1>1, <1>2 DEF Latest
<1>3. CASE mine # {}
  <2>1. \E n \in mine : \A m \in mine : m <= n
    <3> HIDE DEF mine
    <3> QED
      BY <1>1, <1>3, GreatestNumber
  <2>2. Latest(q, tier, t) = CHOOSE n \in mine : \A m \in mine : m <= n
    BY <1>3 DEF Latest
  <2>3. Latest(q, tier, t) \in mine /\ \A m \in mine : m <= Latest(q, tier, t)
    <3> HIDE DEF mine
    <3> QED
      BY <2>1, <2>2
  <2> QED
    BY <1>1, <2>3
<1> QED
  BY <1>2, <1>3

\* Without the element at a place.
LEMMA WithoutOne ==
  ASSUME NEW S, NEW q \in Seq(S), NEW p \in 1..Len(q)
  PROVE  /\ R!RemoveAt(q, p) \in Seq(S) /\ Len(R!RemoveAt(q, p)) = Len(q) - 1
         /\ \A n \in 1..Len(q) - 1 : R!RemoveAt(q, p)[n] = IF n < p THEN q[n] ELSE q[n + 1]
<1>1. Len(q) \in Nat /\ q = [n \in 1..Len(q) |-> q[n]] /\ \A n \in 1..Len(q) : q[n] \in S
  OBVIOUS
<1>2. SubSeq(q, 1, p - 1) \in Seq(S) /\ Len(SubSeq(q, 1, p - 1)) = p - 1
      /\ \A n \in 1..p - 1 : SubSeq(q, 1, p - 1)[n] = q[n]
  BY <1>1
<1>3. SubSeq(q, p + 1, Len(q)) \in Seq(S) /\ Len(SubSeq(q, p + 1, Len(q))) = Len(q) - p
      /\ \A n \in 1..Len(q) - p : SubSeq(q, p + 1, Len(q))[n] = q[p + n]
  BY <1>1
<1> DEFINE a == SubSeq(q, 1, p - 1)  b == SubSeq(q, p + 1, Len(q))
<1>4. a \in Seq(S) /\ Len(a) = p - 1 /\ b \in Seq(S) /\ Len(b) = Len(q) - p
  BY <1>2, <1>3
<1>5. R!RemoveAt(q, p) = a \o b
  BY DEF R!RemoveAt
<1>6. /\ a \o b \in Seq(S) /\ Len(a \o b) = Len(q) - 1
      /\ \A n \in 1..Len(q) - 1 : (a \o b)[n] = IF n < p THEN a[n] ELSE b[n - (p - 1)]
  <2> HIDE DEF a, b
  <2>1. /\ a \o b \in Seq(S) /\ Len(a \o b) = Len(a) + Len(b)
        /\ \A n \in 1..Len(a) + Len(b) : (a \o b)[n] = IF n <= Len(a) THEN a[n] ELSE b[n - Len(a)]
    BY <1>4, ConcatProperties
  <2>2. Len(a) + Len(b) = Len(q) - 1 /\ \A n \in 1..Len(q) - 1 : n <= Len(a) <=> n < p
    BY <1>1, <1>4
  <2> QED
    BY <1>4, <2>1, <2>2
<1>7. ASSUME NEW n \in 1..Len(q) - 1 PROVE (a \o b)[n] = IF n < p THEN q[n] ELSE q[n + 1]
  <2> HIDE DEF a, b
  <2>0. n \in Int /\ p \in Int /\ (n < p \/ n >= p)
    BY <1>1
  <2>1. CASE n < p
    <3>1. n \in 1..p - 1
      BY <2>1
    <3>2. a[n] = q[n]
      BY <1>2, <3>1 DEF a
    <3> QED
      BY <1>6, <2>1, <3>2
  <2>2. CASE n >= p
    <3>1. n - (p - 1) \in 1..Len(q) - p /\ p + (n - (p - 1)) = n + 1
      BY <1>1, <2>2
    <3>2. b[n - (p - 1)] = q[n + 1]
      BY <1>3, <3>1 DEF b
    <3>3. ~(n < p)
      BY <2>0, <2>2
    <3>4. (a \o b)[n] = b[n - (p - 1)]
      BY ONLY <1>6, <3>3, n \in 1..Len(q) - 1
    <3> QED
      BY ONLY <3>2, <3>3, <3>4
  <2> QED
    BY <2>0, <2>1, <2>2
<1> QED
  BY <1>5, <1>6, <1>7

\* No element twice: as many elements as places.
Distinct(q) == \A m, n \in 1..Len(q) : q[m] = q[n] => m = n

LEMMA RotationCount ==
  /\ \A S : R!IsFiniteSet(S) <=> IsFiniteSet(S)
  /\ \A S : R!Cardinality(S) = Cardinality(S)
<1>1. \A S : R!IsFiniteSet(S) <=> IsFiniteSet(S)
  BY DEF IsFiniteSet, R!IsFiniteSet
<1>2. ASSUME NEW S PROVE R!Cardinality(S) = Cardinality(S)
  BY DEF Cardinality, R!Cardinality
<1> QED
  BY <1>1, <1>2

LEMMA DistinctCounts ==
  ASSUME NEW S, NEW q \in Seq(S)
  PROVE  Len(q) = R!Cardinality(R!ToSet(q)) <=> Distinct(q)
<1> DEFINE places == 1..Len(q)
           range == R!ToSet(q)
<1>1. Len(q) \in Nat /\ DOMAIN q = places /\ range = {q[n] : n \in places}
  BY DEF R!ToSet
<1>2. IsFiniteSet(places) /\ Cardinality(places) = Len(q)
  BY <1>1, FS_Interval, SMTT(60)
<1>3. q \in Surjection(places, range)
  <2>1. q \in [places -> range]
    BY <1>1
  <2> HIDE DEF places
  <2> QED
    BY <1>1, <2>1 DEF Surjection
<1>4. q \in Injection(places, range) <=> Distinct(q)
  <2>1. q \in [places -> range]
    BY <1>3 DEF Surjection
  <2> QED
    BY <1>1, <2>1 DEF Injection, IsInjective, Distinct
<1>5. Cardinality(range) = Cardinality(places) <=> q \in Injection(places, range)
  <2> HIDE DEF places, range
  <2> QED
    BY <1>2, <1>3, FS_Surjection
<1> QED
  BY <1>2, <1>4, <1>5, RotationCount

\* A set as a list.
LEMMA SetAsList ==
  ASSUME NEW S, IsFiniteSet(S)
  PROVE  R!SetToSeq(S) \in Seq(S) /\ Distinct(R!SetToSeq(S))
<1> DEFINE n == R!Cardinality(S)
           q == R!SetToSeq(S)
<1>1. n \in Nat /\ ExistsBijection(1..n, S)
  BY RotationCount, FS_CardinalityType
<1>2. \E f \in [1..n -> S] : R!IsInjective(f)
  BY <1>1 DEF ExistsBijection, Bijection, Injection, IsInjective, R!IsInjective
<1>3. q \in [1..n -> S] /\ R!IsInjective(q)
  BY <1>2 DEF R!SetToSeq
<1>4. q \in Seq(S) /\ Len(q) = n
  BY <1>1, <1>3
<1> QED
  BY <1>3, <1>4 DEF R!IsInjective, Distinct

\* A walk that is recorded comes last, and leaves the order of the other tiers' last walks.
LEMMA LatestAfter ==
  ASSUME NEW S, NEW q \in Seq(S), NEW s \in S, NEW r \in Seq(S), NEW tier,
         r = q \/ \E p \in 1..Len(q) : q[p] = s /\ r = R!RemoveAt(q, p),
         NEW t, NEW u, t # tier[s], u # tier[s]
  PROVE  /\ Latest(Append(r, s), tier, tier[s]) = Len(r) + 1
         /\ Latest(Append(r, s), tier, t) < Len(r) + 1
         /\ Latest(q, tier, t) < Latest(q, tier, u) =>
              Latest(Append(r, s), tier, t) < Latest(Append(r, s), tier, u)
<1> DEFINE w == Append(r, s)
<1>1. Len(r) \in Nat /\ Len(q) \in Nat /\ w \in Seq(S) /\ Len(w) = Len(r) + 1 /\ w[Len(r) + 1] = s
      /\ \A n \in 1..Len(r) : w[n] = r[n]
  OBVIOUS
<1> HIDE DEF w
<1>2. ASSUME NEW x
      PROVE  /\ Latest(w, tier, x) \in 0..Len(w)
             /\ \A n \in 1..Len(w) : tier[w[n]] = x => n <= Latest(w, tier, x)
             /\ Latest(w, tier, x) > 0 => tier[w[Latest(w, tier, x)]] = x
             /\ Latest(q, tier, x) \in 0..Len(q)
             /\ \A n \in 1..Len(q) : tier[q[n]] = x => n <= Latest(q, tier, x)
             /\ Latest(q, tier, x) > 0 => tier[q[Latest(q, tier, x)]] = x
  BY <1>1, LatestIs
<1>3. Latest(w, tier, tier[s]) = Len(r) + 1
  <2>1. Len(r) + 1 \in 1..Len(w) /\ tier[w[Len(r) + 1]] = tier[s]
    BY <1>1
  <2>2. Len(r) + 1 <= Latest(w, tier, tier[s]) /\ Latest(w, tier, tier[s]) \in 0..Len(w)
    BY <1>2, <2>1
  <2> QED
    BY <1>1, <2>2
<1>4. ASSUME NEW x, x # tier[s] PROVE Latest(w, tier, x) < Len(r) + 1
  <2>1. Latest(w, tier, x) # Len(r) + 1
    BY <1>1, <1>2, <1>4
  <2>2. Latest(w, tier, x) \in 0..Len(w)
    BY <1>2
  <2> QED
    BY <1>1, <2>1, <2>2
<1>5. ASSUME Latest(q, tier, t) < Latest(q, tier, u) PROVE Latest(w, tier, t) < Latest(w, tier, u)
  <2> DEFINE L == Latest(q, tier, u)  K == Latest(q, tier, t)
             m == Latest(w, tier, t)  n == Latest(w, tier, u)
  <2>1. L \in 1..Len(q) /\ K \in 0..Len(q) /\ K < L /\ tier[q[L]] = u
    BY <1>1, <1>2, <1>5
  <2>2. m \in 0..Len(r) /\ n \in 0..Len(r) /\ (m > 0 => tier[r[m]] = t)
    <3>1. m < Len(r) + 1 /\ n < Len(r) + 1 /\ m \in 0..Len(w) /\ n \in 0..Len(w)
      BY <1>2, <1>4
    <3>2. m > 0 => tier[w[m]] = t
      BY <1>2
    <3>3. m \in 0..Len(r) /\ n \in 0..Len(r)
      BY <1>1, <3>1
    <3> QED
      BY <1>1, <3>2, <3>3
  <2>3. \A i \in 1..Len(q) : tier[q[i]] = t => i <= K
    BY <1>2
  <2>4. \A i \in 1..Len(r) : tier[r[i]] = u => i <= n
    <3>1. \A i \in 1..Len(w) : tier[w[i]] = u => i <= n
      BY <1>2
    <3> QED
      BY <1>1, <3>1
  <2> HIDE DEF L, K, m, n
  <2>5. ASSUME r = q PROVE m < n
    <3>1. L <= n
      BY <2>1, <2>4, <2>5
    <3>2. m > 0 => m <= K
      BY <1>1, <2>2, <2>3, <2>5
    <3> QED
      BY ONLY <1>1, <2>1, <2>2, <3>1, <3>2
  <2>6. ASSUME NEW p \in 1..Len(q), q[p] = s, r = R!RemoveAt(q, p) PROVE m < n
    <3>1. Len(r) = Len(q) - 1 /\ \A i \in 1..Len(q) - 1 : r[i] = IF i < p THEN q[i] ELSE q[i + 1]
      BY <2>6, WithoutOne
    <3>2. p # L
      BY <2>1, <2>6
    <3> DEFINE l == IF L < p THEN L ELSE L - 1
    <3>3. l \in 1..Len(r) /\ r[l] = q[L]
      <4>1. CASE L < p
        BY <1>1, <2>1, <3>1, <4>1
      <4>2. CASE L > p
        <5>1. L - 1 \in 1..Len(q) - 1 /\ ~(L - 1 < p) /\ (L - 1) + 1 = L /\ l = L - 1
          BY <1>1, <2>1, <4>2
        <5>2. r[L - 1] = q[(L - 1) + 1]
          BY <3>1, <5>1
        <5> QED
          BY <3>1, <5>1, <5>2
      <4> QED
        BY <1>1, <2>1, <3>2, <4>1, <4>2
    <3>4. l <= n
      BY <2>1, <2>4, <3>3
    <3>5. CASE m = 0
      BY <2>2, <3>3, <3>4, <3>5
    <3>6. CASE m > 0
      <4>1. m \in 1..Len(q) - 1 /\ r[m] = IF m < p THEN q[m] ELSE q[m + 1]
        BY <1>1, <2>2, <3>1, <3>6
      <4>2. (IF m < p THEN m ELSE m + 1) <= K
        <5>1. CASE m < p
          BY <1>1, <2>2, <2>3, <3>6, <4>1, <5>1
        <5>2. CASE m >= p
          <6>1. m + 1 \in 1..Len(q) /\ ~(m < p)
            BY <1>1, <4>1, <5>2
          <6>2. tier[q[m + 1]] = t
            BY <2>2, <3>6, <4>1, <6>1
          <6> QED
            BY <2>3, <6>1, <6>2
        <5> QED
          BY <1>1, <4>1, <5>1, <5>2
      <4>3. m < l
        BY <1>1, <2>1, <3>2, <4>1, <4>2
      <4> HIDE DEF l
      <4> QED
        BY <1>1, <2>2, <3>3, <3>4, <4>3
    <3> QED
      BY <2>2, <3>5, <3>6
  <2>7. m < n
    <3>1. CASE \E p \in 1..Len(q) : q[p] = s /\ r = R!RemoveAt(q, p)
      <4>1. PICK p \in 1..Len(q) : q[p] = s /\ r = R!RemoveAt(q, p)
        BY <3>1
      <4> QED
        BY <2>6, <4>1
    <3> QED
      BY <2>5, <3>1
  <2> QED
    BY <2>7 DEF m, n
<1> QED
  BY <1>3, <1>4, <1>5 DEF w

-----------------------------------------------------------------------------
(* The invariant of the turns.                                              *)

\* The tables, and the lists without an element twice; the slice that is walked is in line.
TurnTypes ==
  /\ rows \in [tier : [Searches -> Tiers], on : SUBSET Searches, known : SUBSET Searches]
  /\ rows.on \subseteq rows.known
  /\ line \in Seq(rows.known) /\ Distinct(line)
  /\ walked \in Seq(rows.known) /\ Distinct(walked)
  /\ walk \in [slice : Searches \cup {"none"}, waiting : SUBSET Tiers]
  /\ ~R!Idle => walk.slice \in R!ToSet(line)
  /\ deaths \in 0..MaxDeaths /\ deploys \in 0..MaxDeploys
  /\ ahead \in [Tiers -> [Tiers -> 0..2]]

\* A tier that was passed by another since it began to wait was walked before it.
PassedAreNext ==
  \A t, u \in Tiers : t # u => ahead[t][u] =< 1 /\ (ahead[t][u] = 1 => R!LastWalk(t) < R!LastWalk(u))

\* The tier of the walk under way was walked no later than those that waited at its claim.
OldestIsWalked ==
  ~R!Idle => \A t \in walk.waiting :
    t # rows.tier[walk.slice] /\ R!LastWalk(rows.tier[walk.slice]) =< R!LastWalk(t)

TurnsInv == TurnTypes /\ PassedAreNext /\ OldestIsWalked

LEMMA LastIsLatest ==
  /\ \A t : R!LastWalk(t) = Latest(walked, rows.tier, t)
  /\ \A t : R!LastWalk(t)' = Latest(walked', rows'.tier, t)
BY DEF R!LastWalk, Latest

LEMMA InLine ==
  ASSUME NEW S, NEW q \in Seq(S)
  PROVE  R!ToSet(q) = {q[n] : n \in 1..Len(q)} /\ R!ToSet(q) \subseteq S
BY DEF R!ToSet

LEMMA TurnsInit == ASSUME R!RotationAssumption, R!Init PROVE TurnsInv
<1>1. PICK c \in Configs :
         /\ rows = [tier |-> c.tier, on |-> c.on, known |-> c.on]
         /\ line \in {q \in [1..R!Cardinality(c.on) -> c.on] : R!ToSet(q) = c.on}
  BY DEF R!Init
<1>2. c \in [tier : [Searches -> Tiers], on : SUBSET Searches] /\ c.tier \in [Searches -> Tiers] /\ c.on \in SUBSET Searches
  BY DEF R!RotationAssumption
<1>3. IsFiniteSet(c.on) /\ R!Cardinality(c.on) \in Nat
  BY <1>2, RotationCount, FS_Subset, FS_CardinalityType DEF R!RotationAssumption
<1>4. line \in Seq(c.on) /\ Len(line) = R!Cardinality(R!ToSet(line))
  BY <1>1, <1>3
<1>5. Distinct(line)
  BY <1>4, DistinctCounts
<1>6. walked = <<>> /\ walk = R!NoWalk /\ deaths = 0 /\ deploys = 0 /\ ahead = R!Fresh
  BY DEF R!Init
<1>7. walked \in Seq(rows.known) /\ Distinct(walked)
  BY <1>6 DEF Distinct
<1>8. R!Idle /\ walk \in [slice : Searches \cup {"none"}, waiting : SUBSET Tiers]
  BY <1>6 DEF R!Idle, R!NoWalk
<1>9. ahead \in [Tiers -> [Tiers -> 0..2]] /\ \A t, u \in Tiers : ahead[t][u] = 0
  BY <1>6 DEF R!Fresh
<1>10. deaths \in 0..MaxDeaths /\ deploys \in 0..MaxDeploys
  BY <1>6 DEF R!RotationAssumption
<1>11. rows \in [tier : [Searches -> Tiers], on : SUBSET Searches, known : SUBSET Searches]
       /\ rows.on \subseteq rows.known /\ rows.known = c.on
  BY <1>1, <1>2
<1>12. TurnTypes
  BY <1>4, <1>5, <1>7, <1>8, <1>9, <1>10, <1>11 DEF TurnTypes
<1> QED
  BY <1>8, <1>9, <1>12 DEF TurnsInv, PassedAreNext, OldestIsWalked

LEMMA TurnsFallDue ==
  ASSUME TurnsInv, NEW s \in Searches, R!FallDue(s)
  PROVE  TurnsInv'
<1>1. s \in rows.known /\ s \notin R!ToSet(line) /\ line' = Append(line, s)
      /\ UNCHANGED <<rows, walked, walk, deaths, deploys, ahead>>
  BY DEF R!FallDue
<1>2. line \in Seq(rows.known) /\ Distinct(line) /\ R!ToSet(line) = {line[n] : n \in 1..Len(line)}
  BY InLine DEF TurnsInv, TurnTypes
<1>3. line' \in Seq(rows.known) /\ Len(line') = Len(line) + 1 /\ Len(line) \in Nat
      /\ \A n \in 1..Len(line') : line'[n] = IF n = Len(line) + 1 THEN s ELSE line[n]
  BY <1>1, <1>2
<1>4. Distinct(line')
  <2> SUFFICES ASSUME NEW m \in 1..Len(line'), NEW n \in 1..Len(line'), line'[m] = line'[n] PROVE m = n
    BY DEF Distinct
  <2>1. \A k \in 1..Len(line) : line[k] # s
    BY <1>1, <1>2
  <2> QED
    BY <1>2, <1>3, <2>1 DEF Distinct
<1>5. R!ToSet(line) \subseteq R!ToSet(line')
  <2>1. R!ToSet(line') = {line'[n] : n \in 1..Len(line')}
    BY <1>3, InLine
  <2> QED
    BY <1>2, <1>3, <2>1
<1>6. TurnTypes'
  BY <1>1, <1>3, <1>4, <1>5 DEF TurnsInv, TurnTypes, R!Idle
<1>7. \A t : R!LastWalk(t)' = R!LastWalk(t)
  BY <1>1, LastIsLatest
<1> QED
  BY <1>1, <1>6, <1>7 DEF TurnsInv, PassedAreNext, OldestIsWalked, R!Idle

LEMMA TurnsClaim ==
  ASSUME TurnsInv, R!Claim
  PROVE  TurnsInv'
<1>1. PICK s \in R!Due(line, rows) :
         /\ \A r \in R!Due(line, rows) : R!First(s, r)
         /\ walk' = [slice |-> s, waiting |-> R!Waiting(line, rows) \ {rows.tier[s]}]
  BY DEF R!Claim
<1>2. UNCHANGED <<rows, line, walked, deaths, deploys, ahead>>
  BY DEF R!Claim
<1>3. s \in R!ToSet(line) /\ R!ToSet(line) \subseteq rows.known /\ rows.known \subseteq Searches
      /\ rows.tier \in [Searches -> Tiers]
  BY InLine DEF R!Due, TurnsInv, TurnTypes
<1>4. R!Waiting(line, rows) \subseteq Tiers
  BY <1>3 DEF R!Waiting, R!Due
<1>5. TurnTypes'
  BY <1>1, <1>2, <1>3, <1>4 DEF TurnsInv, TurnTypes
<1>6. \A t : R!LastWalk(t)' = R!LastWalk(t) /\ R!LastWalk(t) \in Nat
  <2>1. \A t : R!LastWalk(t)' = R!LastWalk(t)
    BY <1>2, LastIsLatest
  <2>2. \A t : R!LastWalk(t) \in Nat
    BY LastIsLatest, LatestIs DEF TurnsInv, TurnTypes
  <2> QED
    BY <2>1, <2>2
<1>7. ASSUME NEW t \in walk'.waiting PROVE t # rows.tier[s] /\ R!LastWalk(rows.tier[s]) =< R!LastWalk(t)
  <2>1. PICK r \in R!Due(line, rows) : t = rows.tier[r]
    BY <1>1, <1>7 DEF R!Waiting
  <2>2. R!First(s, r)
    BY <1>1
  <2> QED
    BY <1>1, <1>6, <1>7, <2>1, <2>2 DEF R!First
<1>8. OldestIsWalked'
  BY <1>1, <1>2, <1>6, <1>7 DEF OldestIsWalked
<1> QED
  BY <1>2, <1>5, <1>6, <1>8 DEF TurnsInv, PassedAreNext

\* An element taken out of a list that has it once.
LEMMA TakenOut ==
  ASSUME NEW S, NEW q \in Seq(S), Distinct(q), NEW s \in R!ToSet(q)
  PROVE  /\ R!Place(s, q) \in 1..Len(q) /\ q[R!Place(s, q)] = s
         /\ R!RemoveAt(q, R!Place(s, q)) \in Seq(S) /\ Distinct(R!RemoveAt(q, R!Place(s, q)))
         /\ \A n \in 1..Len(R!RemoveAt(q, R!Place(s, q))) : R!RemoveAt(q, R!Place(s, q))[n] # s
<1> DEFINE p == R!Place(s, q)
           r == R!RemoveAt(q, p)
<1>1. \E n \in 1..Len(q) : q[n] = s
  BY InLine
<1>2. p \in 1..Len(q) /\ q[p] = s
  BY <1>1 DEF R!Place
<1> HIDE DEF p
<1>3. r \in Seq(S) /\ Len(r) = Len(q) - 1 /\ Len(q) \in Nat
      /\ \A n \in 1..Len(q) - 1 : r[n] = IF n < p THEN q[n] ELSE q[n + 1]
  BY <1>2, WithoutOne
<1> HIDE DEF r
<1> DEFINE at(n) == IF n < p THEN n ELSE n + 1
<1>4. \A n \in 1..Len(r) : at(n) \in 1..Len(q) /\ r[n] = q[at(n)] /\ at(n) # p
  BY <1>2, <1>3
<1>5. \A m, n \in 1..Len(r) : at(m) = at(n) => m = n
  BY <1>2, <1>3
<1> HIDE DEF at
<1>6. Distinct(r) /\ \A n \in 1..Len(r) : r[n] # s
  BY <1>2, <1>4, <1>5 DEF Distinct
<1> QED
  BY <1>2, <1>3, <1>6 DEF p, r

\* A walk that ends is the last one of its slice, and of its tier.
LEMMA WalkIsRecorded ==
  ASSUME TurnTypes, NEW s \in rows.known, walked' = R!Recorded(s), UNCHANGED rows
  PROVE  /\ walked' \in Seq(rows.known) /\ Distinct(walked')
         /\ \A t : t # rows.tier[s] => R!LastWalk(t)' < R!LastWalk(rows.tier[s])'
         /\ \A t, u : t # rows.tier[s] /\ u # rows.tier[s] /\ R!LastWalk(t) < R!LastWalk(u)
              => R!LastWalk(t)' < R!LastWalk(u)'
<1> DEFINE r == IF s \in R!ToSet(walked) THEN R!RemoveAt(walked, R!Place(s, walked)) ELSE walked
<1>1. walked' = Append(r, s) /\ rows' = rows
  BY DEF R!Recorded
<1>2. walked \in Seq(rows.known) /\ Distinct(walked)
  BY DEF TurnTypes
<1>3. /\ r \in Seq(rows.known) /\ Distinct(r) /\ \A n \in 1..Len(r) : r[n] # s
      /\ r = walked \/ \E p \in 1..Len(walked) : walked[p] = s /\ r = R!RemoveAt(walked, p)
  <2>1. CASE s \in R!ToSet(walked)
    BY <1>2, <2>1, TakenOut
  <2>2. CASE s \notin R!ToSet(walked)
    BY <1>2, <2>2, InLine
  <2> QED
    BY <2>1, <2>2
<1> HIDE DEF r
<1>4. Len(r) \in Nat /\ Len(walked') = Len(r) + 1 /\ walked' \in Seq(rows.known)
      /\ \A n \in 1..Len(walked') : walked'[n] = IF n = Len(r) + 1 THEN s ELSE r[n]
  BY <1>1, <1>3
<1>5. Distinct(walked')
  <2> SUFFICES ASSUME NEW m \in 1..Len(walked'), NEW n \in 1..Len(walked'), walked'[m] = walked'[n] PROVE m = n
    BY DEF Distinct
  <2> QED
    BY <1>3, <1>4 DEF Distinct
<1>6. ASSUME NEW t, NEW u, t # rows.tier[s], u # rows.tier[s]
      PROVE  /\ Latest(walked', rows.tier, rows.tier[s]) = Len(r) + 1
             /\ Latest(walked', rows.tier, t) < Len(r) + 1
             /\ Latest(walked, rows.tier, t) < Latest(walked, rows.tier, u) =>
                  Latest(walked', rows.tier, t) < Latest(walked', rows.tier, u)
  <2> DEFINE S == rows.known
             f == rows.tier
  <2>1. walked \in Seq(S) /\ s \in S /\ r \in Seq(S) /\ walked' = Append(r, s) /\ t # f[s] /\ u # f[s]
    BY <1>1, <1>2, <1>3, <1>6
  <2> HIDE DEF S, f
  <2>2. /\ Latest(Append(r, s), f, f[s]) = Len(r) + 1
        /\ Latest(Append(r, s), f, t) < Len(r) + 1
        /\ Latest(walked, f, t) < Latest(walked, f, u) =>
             Latest(Append(r, s), f, t) < Latest(Append(r, s), f, u)
    BY <1>3, <2>1, LatestAfter
  <2> QED
    BY <2>1, <2>2 DEF f
<1>7. \A t : R!LastWalk(t) = Latest(walked, rows.tier, t) /\ R!LastWalk(t)' = Latest(walked', rows.tier, t)
  BY <1>1, LastIsLatest
<1>8. \A t : t # rows.tier[s] => R!LastWalk(t)' < R!LastWalk(rows.tier[s])'
  BY <1>6, <1>7
<1>9. \A t, u : t # rows.tier[s] /\ u # rows.tier[s] /\ R!LastWalk(t) < R!LastWalk(u)
        => R!LastWalk(t)' < R!LastWalk(u)'
  BY <1>6, <1>7
<1> QED
  BY <1>4, <1>5, <1>8, <1>9

LEMMA TurnsFinish ==
  ASSUME TurnsInv, R!Finish
  PROVE  TurnsInv'
<1>0. PICK s, u : s = walk.slice /\ u = rows.tier[s]
  OBVIOUS
<1> DEFINE counted == [t \in Tiers |-> IF t \in walk.waiting
                         THEN [ahead[t] EXCEPT ![u] = IF @ < 2 THEN @ + 1 ELSE @] ELSE ahead[t]]
<1>1. /\ ~R!Idle /\ walked' = R!Recorded(s) /\ line' = R!RemoveAt(line, R!Place(s, line))
      /\ walk' = R!NoWalk /\ ahead' = R!Kept([counted EXCEPT ![u] = R!Fresh[u]], line', rows)
      /\ UNCHANGED <<rows, deaths, deploys>>
  BY <1>0 DEF R!Finish
<1>2. line \in Seq(rows.known) /\ Distinct(line) /\ s \in R!ToSet(line)
  BY <1>0, <1>1 DEF TurnsInv, TurnTypes
<1>3. s \in rows.known /\ s \in Searches /\ u \in Tiers
  BY <1>0, <1>2, InLine DEF TurnsInv, TurnTypes
<1>4. line' \in Seq(rows.known) /\ Distinct(line')
  BY <1>1, <1>2, TakenOut
<1>5. /\ walked' \in Seq(rows.known) /\ Distinct(walked')
      /\ \A t : t # u => R!LastWalk(t)' < R!LastWalk(u)'
      /\ \A t, x : t # u /\ x # u /\ R!LastWalk(t) < R!LastWalk(x) => R!LastWalk(t)' < R!LastWalk(x)'
  <2>1. TurnTypes /\ s \in rows.known /\ walked' = R!Recorded(s) /\ rows' = rows
    BY <1>1, <1>3 DEF TurnsInv
  <2>2. /\ \A t : t # rows.tier[s] => R!LastWalk(t)' < R!LastWalk(rows.tier[s])'
        /\ \A t, x : t # rows.tier[s] /\ x # rows.tier[s] /\ R!LastWalk(t) < R!LastWalk(x)
             => R!LastWalk(t)' < R!LastWalk(x)'
        /\ walked' \in Seq(rows.known) /\ Distinct(walked')
    BY <2>1, WalkIsRecorded
  <2>3. u = rows.tier[s] /\ (rows.tier[s])' = u
    BY <1>0, <2>1
  <2>4. R!LastWalk(rows.tier[s])' = R!LastWalk(u)'
    BY <2>3, LastIsLatest
  <2> QED
    BY <2>2, <2>3, <2>4
<1>6. R!Idle' /\ walk' \in [slice : Searches \cup {"none"}, waiting : SUBSET Tiers]
  BY <1>1 DEF R!Idle, R!NoWalk
<1>7. ahead \in [Tiers -> [Tiers -> 0..2]]
  BY DEF TurnsInv, TurnTypes
<1>8. counted \in [Tiers -> [Tiers -> 0..2]] /\ R!Fresh \in [Tiers -> [Tiers -> 0..2]]
  BY <1>3, <1>7 DEF R!Fresh
<1>9. ASSUME NEW t \in Tiers
      PROVE  ahead'[t] = IF t = u \/ t \notin R!Waiting(line', rows) THEN R!Fresh[t] ELSE counted[t]
  <2> HIDE DEF counted
  <2> QED
    BY <1>1, <1>3, <1>8 DEF R!Kept
<1>10. ahead' \in [Tiers -> [Tiers -> 0..2]]
  <2>1. ahead' = [t \in Tiers |-> ahead'[t]]
    BY <1>1 DEF R!Kept
  <2> HIDE DEF counted
  <2> QED
    BY <1>8, <1>9, <2>1
<1>11. TurnTypes'
  BY <1>1, <1>4, <1>5, <1>6, <1>10 DEF TurnsInv, TurnTypes
<1>12. ASSUME NEW t \in Tiers, NEW x \in Tiers, t # x
       PROVE  ahead'[t][x] =< 1 /\ (ahead'[t][x] = 1 => R!LastWalk(t)' < R!LastWalk(x)')
  <2>1. CASE t = u \/ t \notin R!Waiting(line', rows)
    <3>1. ahead'[t][x] = 0
      BY <1>9, <2>1 DEF R!Fresh
    <3> QED
      BY <3>1
  <2>2. CASE t # u /\ t \in R!Waiting(line', rows)
    <3>1. ahead'[t] = counted[t]
      BY <1>9, <2>2
    <3>2. ahead[t][x] \in 0..2 /\ ahead[t][x] =< 1 /\ (ahead[t][x] = 1 => R!LastWalk(t) < R!LastWalk(x))
      BY <1>7, <1>12 DEF TurnsInv, PassedAreNext
    <3>3. CASE x # u
      <4>1. counted[t][x] = ahead[t][x]
        BY <1>3, <1>7, <3>3
      <4> QED
        BY <1>5, <2>2, <3>1, <3>2, <3>3, <4>1
    <3>4. CASE x = u
      <4>1. R!LastWalk(t)' < R!LastWalk(x)'
        BY <1>5, <2>2, <3>4
      <4>2. counted[t][x] =< 1
        <5>1. CASE t \in walk.waiting
          <6>1. R!LastWalk(u) =< R!LastWalk(t)
            BY <1>0, <1>1, <5>1 DEF TurnsInv, OldestIsWalked
          <6>2. R!LastWalk(u) \in Nat /\ R!LastWalk(t) \in Nat
            BY LastIsLatest, LatestIs DEF TurnsInv, TurnTypes
          <6>3. ahead[t][u] = 0
            BY <3>2, <3>4, <6>1, <6>2
          <6>4. counted[t][u] = ahead[t][u] + 1
            BY <1>3, <1>7, <5>1, <6>3
          <6> QED
            BY <3>4, <6>3, <6>4
        <5>2. CASE t \notin walk.waiting
          BY <3>2, <5>2
        <5> QED
          BY <5>1, <5>2
      <4> QED
        BY <3>1, <4>1, <4>2
    <3> QED
      BY <3>3, <3>4
  <2> QED
    BY <2>1, <2>2
<1>13. PassedAreNext'
  BY <1>12 DEF PassedAreNext
<1> QED
  BY <1>6, <1>11, <1>13 DEF TurnsInv, OldestIsWalked, R!Idle

LEMMA TurnsDie ==
  ASSUME TurnsInv, R!Die, R!RotationAssumption
  PROVE  TurnsInv'
<1>1. walk' = R!NoWalk /\ UNCHANGED <<rows, line, walked, deploys, ahead>>
  BY DEF R!Die
<1>2. deaths' \in 0..MaxDeaths
  BY DEF R!Die, R!RotationAssumption, TurnsInv, TurnTypes
<1>3. R!Idle' /\ walk' \in [slice : Searches \cup {"none"}, waiting : SUBSET Tiers]
  BY <1>1 DEF R!Idle, R!NoWalk
<1>4. TurnTypes'
  BY <1>1, <1>2, <1>3 DEF TurnsInv, TurnTypes
<1>5. \A t : R!LastWalk(t)' = R!LastWalk(t)
  BY <1>1, LastIsLatest
<1> QED
  BY <1>1, <1>3, <1>4, <1>5 DEF TurnsInv, PassedAreNext, OldestIsWalked, R!Idle

\* The rows that are synced.
LEMMA NewRowsJoin ==
  ASSUME NEW old, NEW all, old \subseteq all, NEW q \in Seq(old), Distinct(q), NEW r \in Seq(all \ old), Distinct(r),
         NEW w, w = q \o r
  PROVE  w \in Seq(all) /\ Distinct(w) /\ Len(w) = Len(q) + Len(r) /\ Len(r) \in Nat
         /\ \A n \in 1..Len(q) + Len(r) : w[n] = IF n <= Len(q) THEN q[n] ELSE r[n - Len(q)]
<1>1. Len(q) \in Nat /\ Len(r) \in Nat /\ q \in Seq(all) /\ r \in Seq(all)
      /\ (\A n \in 1..Len(q) : q[n] \in old) /\ \A n \in 1..Len(r) : r[n] \notin old
  BY SeqDef
<1>2. /\ w \in Seq(all) /\ Len(w) = Len(q) + Len(r)
      /\ \A n \in 1..Len(q) + Len(r) : w[n] = IF n <= Len(q) THEN q[n] ELSE r[n - Len(q)]
  BY <1>1, ConcatProperties
<1>3. Distinct(w)
  <2> SUFFICES ASSUME NEW m \in 1..Len(w), NEW n \in 1..Len(w), w[m] = w[n] PROVE m = n
    BY DEF Distinct
  <2>1. Len(w) = Len(q) + Len(r) /\ \A i \in 1..Len(w) : w[i] = IF i <= Len(q) THEN q[i] ELSE r[i - Len(q)]
    BY <1>2
  <2>2. CASE m <= Len(q) /\ n <= Len(q)
    BY <1>1, <2>1, <2>2 DEF Distinct
  <2>3. CASE m > Len(q) /\ n > Len(q)
    <3>1. m - Len(q) \in 1..Len(r) /\ n - Len(q) \in 1..Len(r) /\ r[m - Len(q)] = r[n - Len(q)]
      BY <1>1, <2>1, <2>3
    <3>2. m - Len(q) = n - Len(q)
      BY <3>1 DEF Distinct
    <3> QED
      BY <1>1, <2>1, <3>2
  <2>4. CASE m <= Len(q) /\ n > Len(q)
    <3>1. w[m] \in old /\ n - Len(q) \in 1..Len(r) /\ w[n] = r[n - Len(q)]
      BY <1>1, <2>1, <2>4
    <3> QED
      BY <1>1, <3>1
  <2>5. CASE m > Len(q) /\ n <= Len(q)
    <3>1. w[n] \in old /\ m - Len(q) \in 1..Len(r) /\ w[m] = r[m - Len(q)]
      BY <1>1, <2>1, <2>5
    <3> QED
      BY <1>1, <3>1
  <2> QED
    BY <1>1, <2>1, <2>2, <2>3, <2>4, <2>5
<1> QED
  BY <1>1, <1>2, <1>3

\* An element put into a list that does not have it.
LEMMA PutIn ==
  ASSUME NEW S, NEW q \in Seq(S), Distinct(q), NEW k \in 0..Len(q), NEW s \in S, \A n \in 1..Len(q) : q[n] # s,
         NEW w, w = R!InsertAt(q, k + 1, s)
  PROVE  w \in Seq(S) /\ Distinct(w)
<1>1. Len(q) \in Nat /\ q = [n \in 1..Len(q) |-> q[n]] /\ \A n \in 1..Len(q) : q[n] \in S
  OBVIOUS
<1> DEFINE a == SubSeq(q, 1, k)  b == SubSeq(q, k + 1, Len(q))  c == a \o <<s>>
<1>2. a \in Seq(S) /\ Len(a) = k /\ \A n \in 1..k : a[n] = q[n]
  BY <1>1
<1>3. b \in Seq(S) /\ Len(b) = Len(q) - k /\ \A n \in 1..Len(q) - k : b[n] = q[k + n]
  BY <1>1, SMTT(60)
<1>4. <<s>> \in Seq(S) /\ Len(<<s>>) = 1 /\ <<s>>[1] = s
  OBVIOUS
<1>5. R!InsertAt(q, k + 1, s) = c \o b
  <2>1. (k + 1) - 1 = k
    BY <1>1
  <2>2. R!InsertAt(q, k + 1, s) = (SubSeq(q, 1, (k + 1) - 1) \o <<s>>) \o b
    BY ONLY DEF R!InsertAt, b
  <2> QED
    BY ONLY <2>1, <2>2 DEF a, c
<1> HIDE DEF a, b
<1>6. c \in Seq(S) /\ Len(c) = k + 1 /\ \A n \in 1..k + 1 : c[n] = IF n <= k THEN a[n] ELSE <<s>>[n - k]
  BY <1>2, <1>4, ConcatProperties
<1> HIDE DEF c
<1>7. /\ c \o b \in Seq(S) /\ Len(c \o b) = Len(q) + 1
      /\ \A n \in 1..Len(c) + Len(b) : (c \o b)[n] = IF n <= Len(c) THEN c[n] ELSE b[n - Len(c)]
  BY <1>1, <1>3, <1>6, ConcatProperties
<1>8. ASSUME NEW n \in 1..Len(q) + 1
      PROVE  (c \o b)[n] = IF n <= k THEN q[n] ELSE IF n = k + 1 THEN s ELSE q[n - 1]
  <2>1. n \in Int /\ k \in Int /\ n \in 1..Len(c) + Len(b)
    BY <1>1, <1>3, <1>6
  <2>2. CASE n <= k
    <3>1. (c \o b)[n] = c[n] /\ c[n] = a[n] /\ a[n] = q[n]
      BY <1>2, <1>6, <1>7, <2>1, <2>2
    <3> QED
      BY <2>2, <3>1
  <2>3. CASE n = k + 1
    <3>1. (c \o b)[n] = c[n] /\ c[n] = <<s>>[n - k] /\ n - k = 1
      BY <1>6, <1>7, <2>1, <2>3
    <3> QED
      BY <1>4, <2>1, <2>3, <3>1, SMTT(60)
  <2>4. CASE n > k + 1
    <3>1. n - (k + 1) \in 1..Len(q) - k /\ k + (n - (k + 1)) = n - 1 /\ ~(n <= k) /\ n # k + 1
      BY <1>1, <2>1, <2>4
    <3>2. (c \o b)[n] = b[n - (k + 1)]
      BY <1>6, <1>7, <2>1, <2>4
    <3>3. b[n - (k + 1)] = q[n - 1]
      BY <1>3, <3>1
    <3> QED
      BY <3>1, <3>2, <3>3
  <2> QED
    BY <2>1, <2>2, <2>3, <2>4
<1>9. w = c \o b
  BY <1>5
<1>10. w \in Seq(S) /\ Len(w) = Len(q) + 1
  BY <1>7, <1>9
<1>11. \A n \in 1..Len(w) : w[n] = IF n <= k THEN q[n] ELSE IF n = k + 1 THEN s ELSE q[n - 1]
  BY <1>8, <1>9, <1>10
<1> DEFINE at(n) == IF n <= k THEN n ELSE n - 1
<1>12. \A n \in 1..Len(w) : n # k + 1 => at(n) \in 1..Len(q) /\ w[n] = q[at(n)]
  BY <1>1, <1>10, <1>11
<1>13. \A m, n \in 1..Len(w) : m # k + 1 /\ n # k + 1 /\ at(m) = at(n) => m = n
  BY <1>1, <1>10
<1>14. \A n \in 1..Len(w) : n = k + 1 => w[n] = s
  BY <1>1, <1>11
<1> HIDE DEF at
<1>15. Distinct(w)
  <2> SUFFICES ASSUME NEW m \in 1..Len(w), NEW n \in 1..Len(w), w[m] = w[n] PROVE m = n
    BY DEF Distinct
  <2>1. CASE m # k + 1 /\ n # k + 1
    <3>1. at(m) \in 1..Len(q) /\ at(n) \in 1..Len(q) /\ q[at(m)] = q[at(n)]
      BY <1>12, <2>1
    <3>2. at(m) = at(n)
      BY <3>1 DEF Distinct
    <3> QED
      BY <1>13, <2>1, <3>2
  <2>2. CASE m = k + 1 \/ n = k + 1
    <3>1. w[m] = s /\ w[n] = s
      BY <1>14, <2>2
    <3> QED
      BY <1>12, <2>2, <3>1
  <2> QED
    BY <2>1, <2>2
<1> QED
  BY <1>10, <1>15

LEMMA TurnsDeploy ==
  ASSUME TurnsInv, R!Deploy, R!RotationAssumption
  PROVE  TurnsInv'
<1>1. PICK c \in Configs, k \in 0..Len(line), s \in Searches :
        LET new == c.on \ rows.known
            synced == line \o R!SetToSeq(new)
        IN /\ rows' = [tier |-> [r \in Searches |-> IF r \in c.on THEN c.tier[r] ELSE rows.tier[r]],
                       on |-> c.on, known |-> rows.known \cup new]
           /\ line' = IF s \in c.on \ new /\ s \notin R!ToSet(line)
                      THEN R!InsertAt(synced, k + 1, s) ELSE synced
  BY DEF R!Deploy
<1>2. R!Idle /\ deploys < MaxDeploys /\ deploys' = deploys + 1 /\ ahead' = R!Fresh
      /\ UNCHANGED <<walked, walk, deaths>>
  BY DEF R!Deploy
<1> DEFINE new == c.on \ rows.known
           known == rows.known
           all == known \cup new
           added == R!SetToSeq(new)
<1>0. PICK synced : synced = line \o added
  OBVIOUS
<1>3. c.tier \in [Searches -> Tiers] /\ c.on \in SUBSET Searches /\ IsFiniteSet(new)
  BY RotationCount, FS_Subset DEF R!RotationAssumption
<1>4. rows.tier \in [Searches -> Tiers] /\ known \subseteq Searches
      /\ line \in Seq(known) /\ Distinct(line) /\ walked \in Seq(known) /\ Distinct(walked)
  BY DEF TurnsInv, TurnTypes
<1>5. rows' \in [tier : [Searches -> Tiers], on : SUBSET Searches, known : SUBSET Searches]
      /\ rows'.on \subseteq rows'.known /\ rows'.known = all
  BY <1>1, <1>3, <1>4
<1>6. added \in Seq(all \ known) /\ Distinct(added)
  <2>1. all \ known = new
    OBVIOUS
  <2> QED
    BY <1>3, <2>1, SetAsList
<1>7. synced \in Seq(all) /\ Distinct(synced) /\ Len(synced) = Len(line) + Len(added) /\ Len(added) \in Nat
      /\ \A n \in 1..Len(line) + Len(added) : synced[n] = IF n <= Len(line) THEN line[n] ELSE added[n - Len(line)]
  <2>1. known \subseteq all
    OBVIOUS
  <2> HIDE DEF known, all, added
  <2>2. line \in Seq(known) /\ Distinct(line)
    BY <1>4
  <2> QED
    <3>1. synced \in Seq(all)
      BY ONLY <1>0, <1>6, <2>1, <2>2, NewRowsJoin
    <3>2. Distinct(synced)
      BY ONLY <1>0, <1>6, <2>1, <2>2, NewRowsJoin
    <3>3. Len(synced) = Len(line) + Len(added) /\ Len(added) \in Nat
      BY ONLY <1>0, <1>6, <2>1, <2>2, NewRowsJoin
    <3>4. \A n \in 1..Len(line) + Len(added) : synced[n] = IF n <= Len(line) THEN line[n] ELSE added[n - Len(line)]
      BY ONLY <1>0, <1>6, <2>1, <2>2, NewRowsJoin
    <3> QED
      BY ONLY <3>1, <3>2, <3>3, <3>4
<1>8. line' \in Seq(all) /\ Distinct(line')
  <2>1. CASE s \in c.on \ new /\ s \notin R!ToSet(line)
    <3>1. s \in known /\ s \in all /\ k \in 0..Len(synced) /\ Len(line) \in Nat
      BY <1>4, <1>7, <2>1
    <3>2. \A n \in 1..Len(line) : line[n] # s
      BY <1>4, <2>1, InLine
    <3>3. \A n \in 1..Len(added) : added[n] # s
      BY <1>6, <3>1, SeqDef
    <3>4. ASSUME NEW n \in 1..Len(synced) PROVE synced[n] # s
      <4> HIDE DEF added
      <4>1. CASE n <= Len(line)
        BY <1>7, <3>1, <3>2, <4>1
      <4>2. CASE n > Len(line)
        <5>1. n - Len(line) \in 1..Len(added) /\ synced[n] = added[n - Len(line)]
          BY <1>7, <3>1, <4>2
        <5> QED
          BY <3>3, <5>1
      <4> QED
        BY <1>7, <3>1, <4>1, <4>2
    <3>5. line' = R!InsertAt(synced, k + 1, s)
      BY <1>0, <1>1, <2>1
    <3> HIDE DEF all, known
    <3> QED
      BY <1>7, <3>1, <3>4, <3>5, PutIn
  <2>2. CASE ~(s \in c.on \ new /\ s \notin R!ToSet(line))
    BY <1>0, <1>1, <1>7, <2>2
  <2> QED
    BY <2>1, <2>2
<1>9. walked' \in Seq(all) /\ Distinct(walked')
  BY <1>2, <1>4
<1>10. ahead' \in [Tiers -> [Tiers -> 0..2]] /\ \A t, u \in Tiers : ahead'[t][u] = 0
  BY <1>2 DEF R!Fresh
<1>11. deploys' \in 0..MaxDeploys
  BY <1>2 DEF R!RotationAssumption, TurnsInv, TurnTypes
<1>12. R!Idle'
  BY <1>2 DEF R!Idle
<1>13. TurnTypes'
  BY <1>2, <1>5, <1>8, <1>9, <1>10, <1>11, <1>12 DEF TurnsInv, TurnTypes
<1> QED
  BY <1>10, <1>12, <1>13 DEF TurnsInv, PassedAreNext, OldestIsWalked

LEMMA TurnsStep ==
  ASSUME R!RotationAssumption, TurnsInv, [R!Next]_(R!vars)
  PROVE  TurnsInv'
<1>1. ASSUME NEW s \in Searches, R!FallDue(s) PROVE TurnsInv'
  BY <1>1, TurnsFallDue
<1>2. CASE R!Claim
  BY <1>2, TurnsClaim
<1>3. CASE R!Finish
  BY <1>3, TurnsFinish
<1>4. CASE R!Die
  BY <1>4, TurnsDie
<1>5. CASE R!Deploy
  BY <1>5, TurnsDeploy
<1>6. CASE UNCHANGED R!vars
  <2>1. UNCHANGED <<rows, line, walked, walk, deaths, deploys, ahead>>
    BY <1>6 DEF R!vars
  <2>2. \A t : R!LastWalk(t)' = R!LastWalk(t)
    BY <2>1, LastIsLatest
  <2>3. TurnTypes'
    BY <2>1 DEF TurnsInv, TurnTypes, R!Idle
  <2> QED
    BY <2>1, <2>2, <2>3 DEF TurnsInv, PassedAreNext, OldestIsWalked, R!Idle
<1> QED
  BY <1>1, <1>2, <1>3, <1>4, <1>5, <1>6 DEF R!Next

\* A tier with a slice due sees every other tier walked at most once before its turn
\* (claim_due_slice), for any slices, tiers and configurations, walks that die included; a
\* start with another configuration, which may move slices between tiers, counts anew.
THEOREM TurnsAreTaken == ASSUME R!RotationAssumption PROVE R!Spec => []R!TiersTakeTurns
<1>1. R!Init => TurnsInv
  BY TurnsInit
<1>2. TurnsInv /\ [R!Next]_(R!vars) => TurnsInv'
  BY TurnsStep
<1>3. TurnsInv => R!TiersTakeTurns
  BY DEF TurnsInv, PassedAreNext, R!TiersTakeTurns
<1> QED
  BY <1>1, <1>2, <1>3, PTL DEF R!Spec

\* The tables, the lists without a slice twice, the walk and the counts keep their types.
THEOREM TurnTypesHold == ASSUME R!RotationAssumption PROVE R!Spec => []R!TypeOK
<1>1. R!Init => TurnsInv
  BY TurnsInit
<1>2. TurnsInv /\ [R!Next]_(R!vars) => TurnsInv'
  BY TurnsStep
<1>3. TurnsInv => R!TypeOK
  <2> SUFFICES ASSUME TurnsInv PROVE R!TypeOK
    OBVIOUS
  <2>1. line \in Seq(rows.known) /\ walked \in Seq(rows.known)
    BY DEF TurnsInv, TurnTypes
  <2>2. R!ToSet(line) \cup R!ToSet(walked) \subseteq rows.known
    BY <2>1, InLine
  <2>3. Len(line) = R!Cardinality(R!ToSet(line)) /\ Len(walked) = R!Cardinality(R!ToSet(walked))
    BY <2>1, DistinctCounts DEF TurnsInv, TurnTypes
  <2>4. walk.slice \in rows.known \cup {"none"} /\ walk.waiting \subseteq Tiers
    BY <2>2 DEF TurnsInv, TurnTypes, R!Idle, R!NoWalk
  <2> QED
    BY <2>2, <2>3, <2>4 DEF TurnsInv, TurnTypes, R!TypeOK
<1> QED
  BY <1>1, <1>2, <1>3, PTL DEF R!Spec
=============================================================================
