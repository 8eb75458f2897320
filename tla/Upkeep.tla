-------------------------------- MODULE Upkeep --------------------------------
(***************************************************************************)
(* What the deliver service does after a job is scored: packaging it for an *)
(* application (src/delivery/autopackage.py) and copying it to the archive  *)
(* (src/delivery/archive.py), as steps of its tick (src/delivery/service.py)*)
(* that the processor, the age-out CLI and a crash may fall between.        *)
(*                                                                         *)
(* A job is what a copy of it tells apart: its stage, whether it was        *)
(* alerted, whether it is packaged.  Alerts and digests are in Delivery.    *)
(***************************************************************************)
EXTENDS Naturals, FiniteSets

CONSTANTS
    Jobs,
    OnLinkedIn,   \* jobs whose application link is a LinkedIn page
    MaxAttempts,  \* PACKAGE_MAX_ATTEMPTS
    BatchSize,    \* of copy_jobs
    MaxUpsets     \* returns of a job to seen, failures of Neon and crashes (bound)

UpkeepAssumption ==
    /\ OnLinkedIn \subseteq Jobs /\ MaxAttempts \in Nat \ {0} /\ BatchSize \in Nat \ {0} /\ MaxUpsets \in Nat

VARIABLES
    store,    \* the jobs table: stage, alerted, packaged
    stamped,  \* the jobs whose archived_at is set
    old,      \* the jobs whose note_day is past PACKAGE_MAX_AGE_DAYS
    fails,    \* kv_state package_fail: attempts; waits, next_try_at to come; stopped
    neon,     \* the archive: its copy of each job, or NoCopy
    batch,    \* the copy under way: none, or its jobs as they were read, and whether Neon has them
    pass,     \* the packaging under way: the jobs still to try, and whether LinkedIn said no
    upsets

vars == <<store, stamped, old, fails, neon, batch, pass, upsets>>

NoCopy == [stage |-> "none", alerted |-> FALSE, packaged |-> FALSE]
NoBatch == [jobs |-> {}, read |-> [j \in Jobs |-> NoCopy], sent |-> FALSE]
NoPass == [todo |-> {}, waits |-> FALSE]
NoFailure == [attempts |-> 0, waits |-> FALSE, stopped |-> FALSE]

ArchiveStages == {"scored", "delivered", "expired"}

Init ==
    /\ store = [j \in Jobs |-> [stage |-> "seen", alerted |-> FALSE, packaged |-> FALSE]]
    /\ stamped = {} /\ old = {} /\ fails = [j \in Jobs |-> NoFailure]
    /\ neon = [j \in Jobs |-> NoCopy]
    /\ batch = NoBatch /\ pass = NoPass
    /\ upsets = 0

\* The service is between two of its steps: it does one thing at a time.
Free == batch = NoBatch /\ pass = NoPass

-----------------------------------------------------------------------------
(* The processor and the operator.  A row being copied is locked.           *)

\* SELECT .. FOR UPDATE, until the copy commits.
Writable(j) == j \notin batch.jobs
SetStage(j, stage) == store' = [store EXCEPT ![j].stage = stage]

\* set_stage leaves archived_at alone.
Score(j) ==
    /\ store[j].stage = "seen" /\ Writable(j) /\ SetStage(j, "scored")
    /\ UNCHANGED <<stamped, old, fails, neon, batch, pass, upsets>>
Expire(j) ==
    /\ store[j].stage = "seen" /\ Writable(j) /\ SetStage(j, "expired")
    /\ UNCHANGED <<stamped, old, fails, neon, batch, pass, upsets>>

\* python -m src.processor.age_out --undo.
Undo(j) ==
    /\ store[j].stage = "expired" /\ Writable(j) /\ upsets < MaxUpsets
    /\ SetStage(j, "seen") /\ stamped' = stamped \ {j} /\ upsets' = upsets + 1
    /\ UNCHANGED <<old, fails, neon, batch, pass>>
\* merge_jobs: the description of a duplicate brings an expired job back.
Revive(j) ==
    /\ store[j].stage = "expired" /\ Writable(j) /\ upsets < MaxUpsets
    /\ SetStage(j, "seen") /\ upsets' = upsets + 1
    /\ UNCHANGED <<stamped, old, fails, neon, batch, pass>>

-----------------------------------------------------------------------------
(* The deliver service.                                                     *)

\* run_alerts.
Alert(j) ==
    /\ Free /\ store[j].stage = "scored" /\ ~store[j].alerted
    /\ store' = [store EXCEPT ![j].alerted = TRUE] /\ stamped' = stamped \ {j}
    /\ UNCHANGED <<old, fails, neon, batch, pass, upsets>>
\* deliver_tier: every scored job of the tier.
Deliver ==
    LET due == {j \in Jobs : store[j].stage = "scored"}
    IN /\ Free /\ due # {}
       /\ store' = [j \in Jobs |-> IF j \in due THEN [store[j] EXCEPT !.stage = "delivered"]
                                   ELSE store[j]]
       /\ stamped' = stamped \ due
       /\ UNCHANGED <<old, fails, neon, batch, pass, upsets>>

\* candidates, read once at the start of the pass: the jobs with a note, of a tier and score that
\* are packaged; not too old, and not waiting for or past their retries.
Gated(f) == f.stopped \/ f.waits
Candidates == {j \in Jobs : store[j].stage \in {"scored", "delivered"} /\ ~store[j].packaged
                            /\ (store[j].alerted \/ store[j].stage = "delivered")
                            /\ j \notin old /\ ~Gated(fails[j])}
StartPass ==
    /\ Free /\ Candidates # {} /\ pass' = [NoPass EXCEPT !.todo = Candidates]
    /\ UNCHANGED <<store, stamped, old, fails, neon, batch, upsets>>
Done(j) == [pass EXCEPT !.todo = @ \ {j}]
EndOf(p) == IF p.todo = {} THEN NoPass ELSE p

\* The pace gives the package its turn, or not: then every LinkedIn job of the pass waits.
Defer(j) ==
    /\ j \in pass.todo /\ j \in OnLinkedIn
    /\ pass' = EndOf([Done(j) EXCEPT !.waits = TRUE])
    /\ UNCHANGED <<store, stamped, old, fails, neon, batch, upsets>>
MayTry(j) == j \in pass.todo /\ ~(pass.waits /\ j \in OnLinkedIn)
KeepsStamp(j) == stamped
Unstamped(j) == stamped \ {j}
Package(j) ==
    /\ MayTry(j) /\ Writable(j)
    /\ store' = [store EXCEPT ![j].packaged = TRUE] /\ stamped' = Unstamped(j)
    /\ pass' = EndOf(Done(j))
    /\ UNCHANGED <<old, fails, neon, batch, upsets>>
OneTry(f) == [NoFailure EXCEPT !.attempts = 1, !.waits = TRUE]
\* _record_package_failure.
Failed(f) == IF f.attempts + 1 >= MaxAttempts THEN [attempts |-> f.attempts + 1, waits |-> FALSE, stopped |-> TRUE]
             ELSE [attempts |-> f.attempts + 1, waits |-> TRUE, stopped |-> FALSE]
PackageFails(j) ==
    /\ MayTry(j) /\ fails' = [fails EXCEPT ![j] = Failed(@)] /\ pass' = EndOf(Done(j))
    /\ UNCHANGED <<store, stamped, old, neon, batch, upsets>>
\* The provider's daily quota, or sources that do not load: the pass ends.
GiveUpPass ==
    /\ pass.todo # {} /\ pass' = NoPass
    /\ UNCHANGED <<store, stamped, old, fails, neon, batch, upsets>>
Ages(j) ==
    /\ store[j].stage \in {"scored", "delivered"} /\ ~store[j].packaged /\ j \notin old
    /\ old' = old \cup {j}
    /\ UNCHANGED <<store, stamped, fails, neon, batch, pass, upsets>>
RetryDue(j) ==
    /\ fails[j].waits /\ fails' = [fails EXCEPT ![j].waits = FALSE]
    /\ UNCHANGED <<store, stamped, old, neon, batch, pass, upsets>>

\* copy_jobs: read and lock, upsert in Neon and commit, then stamp.
ReadBatch ==
    LET due == {j \in Jobs : store[j].stage \in ArchiveStages} \ stamped
    IN /\ Free
       /\ \E jobs \in SUBSET due :
             /\ jobs # {} /\ Cardinality(jobs) =< BatchSize
             /\ (Cardinality(jobs) = BatchSize \/ jobs = due)
             /\ batch' = [jobs |-> jobs, read |-> store, sent |-> FALSE]
       /\ UNCHANGED <<store, stamped, old, fails, neon, pass, upsets>>
SendBatch ==
    /\ batch.jobs # {} /\ ~batch.sent
    /\ neon' = [j \in Jobs |-> IF j \in batch.jobs THEN batch.read[j] ELSE neon[j]]
    /\ batch' = [batch EXCEPT !.sent = TRUE]
    /\ UNCHANGED <<store, stamped, old, fails, pass, upsets>>
StampBatch ==
    /\ batch.sent /\ stamped' = stamped \cup batch.jobs /\ batch' = NoBatch
    /\ UNCHANGED <<store, old, fails, neon, pass, upsets>>
\* Neon does not answer, or its commit is lost: both sides roll back.
NeonFails ==
    /\ batch.jobs # {} /\ ~batch.sent /\ upsets < MaxUpsets
    /\ batch' = NoBatch /\ upsets' = upsets + 1
    /\ UNCHANGED <<store, stamped, old, fails, neon, pass>>
\* The service dies: what is committed stays, in either database.
Crash ==
    /\ ~Free /\ upsets < MaxUpsets
    /\ batch' = NoBatch /\ pass' = NoPass /\ upsets' = upsets + 1
    /\ UNCHANGED <<store, stamped, old, fails, neon>>

Copy == ReadBatch \/ SendBatch \/ StampBatch
Packaging(j) == Package(j) \/ PackageFails(j)
Next ==
    \/ \E j \in Jobs : Score(j) \/ Expire(j) \/ Undo(j) \/ Revive(j) \/ Alert(j)
                       \/ Defer(j) \/ Packaging(j) \/ Ages(j) \/ RetryDue(j)
    \/ Deliver \/ StartPass \/ GiveUpPass \/ Copy \/ NeonFails \/ Crash

\* A copy comes to its end, and the tick packages on every quarter of an hour; what LinkedIn or the
\* provider refuse now they grant in the end.
Fairness ==
    /\ WF_vars(SendBatch \/ StampBatch)
    /\ \A j \in Jobs : SF_vars(Packaging(j)) /\ WF_vars(RetryDue(j))
    /\ SF_vars(StartPass)
Spec == Init /\ [][Next]_vars
FairSpec == Spec /\ Fairness

-----------------------------------------------------------------------------
Rows == [stage : {"seen", "scored", "delivered", "expired"}, alerted : BOOLEAN, packaged : BOOLEAN]
TypeOK ==
    /\ store \in [Jobs -> Rows] /\ {stamped, old} \subseteq SUBSET Jobs
    /\ fails \in [Jobs -> [attempts : 0..MaxAttempts, waits : BOOLEAN, stopped : BOOLEAN]]
    /\ neon \in [Jobs -> Rows \cup {NoCopy}]
    /\ batch \in [jobs : SUBSET Jobs, read : [Jobs -> Rows \cup {NoCopy}], sent : BOOLEAN]
    /\ pass \in [todo : SUBSET Jobs, waits : BOOLEAN]
    /\ upsets \in 0..MaxUpsets

\* archived_at set on a job that was alerted or delivered says the archive has it as it is: a later
\* alert, digest or package, at whatever point of a copy or a crash, sends it to the archive again.
CopyIsCurrent ==
    \A j \in stamped : (store[j].alerted /\ store[j].stage = "scored") \/ store[j].stage = "delivered"
                         => neon[j] = store[j]

\* Every job that is alerted and stays is packaged, or its tailoring has failed so often that it is left,
\* or it is too old: a crash, a busy LinkedIn, a quota or a failure only delays it.
ToPackage(j) == store[j].alerted /\ store[j].stage \in {"scored", "delivered"}
Settled(j) == store[j].packaged \/ fails[j].stopped \/ j \in old
PackagingSettles == \A j \in Jobs : ToPackage(j) ~> Settled(j)
=============================================================================
