-------------------------------- MODULE RunLog --------------------------------
(***************************************************************************)
(* The record of the daily runs (src/telemetry.py).  A run appends what it  *)
(* does to a file of its own, writes it to the database when it opens and   *)
(* when it closes, and removes the file once the transaction is through.    *)
(* Files that stay behind are drained by the next run and by the            *)
(* orchestrator.  Nothing of it may raise into the run: a failure clears    *)
(* telemetry_ok instead.                                                    *)
(*                                                                         *)
(* A file or a row is what it holds of the run: its opening, the calls that *)
(* were recorded, how it was closed.    Runs follow one another.            *)
(***************************************************************************)
EXTENDS Naturals, FiniteSets

CONSTANTS
    Runs,     \* run_uuid of the attempts
    Records   \* the llm_call and query records one run makes

VARIABLES
    file,     \* file[r]: the buffer of a run
    db,       \* db[r]: what the database has of it
    session,  \* the current run, or none
    ok,       \* telemetry_ok of the session
    at,       \* where the session is
    started,  \* runs that began
    made,     \* history: made[r], the records the run meant to keep
    dropped,  \* history: those whose append failed, or whose line goes on where a torn one stops
    cut,      \* history: runs whose file lost records to a rewrite that failed
    torn      \* the file of the session ends with a part of a line

vars == <<file, db, session, ok, at, started, made, dropped, cut, torn>>

-----------------------------------------------------------------------------
None == "none"
RunLogAssumption == None \notin Runs

Nothing == [open |-> FALSE, records |-> {}, close |-> None]
    \* close: not closed, "ok" or "incomplete" (telemetry_ok false)

\* How the database answers: it takes the transaction, refuses it, or takes it and the answer is lost.
DbAnswers == {"done", "refused", "unheard"}
Applied(answer) == answer \in {"done", "unheard"}

\* flush_records: one transaction; inserts that exist already do nothing, run_close only finds an open row.
Written(row, f) ==
    [open |-> row.open \/ f.open,
     records |-> row.records \cup f.records,
     close |-> IF f.close # None /\ (row.open \/ f.open) THEN f.close ELSE row.close]

\* An append leaves its line, nothing, or a part of it and no newline; the last two raise.  A line that is
\* written behind a part is one with it, and _read_buffer skips it.
Appends == {"written", "lost", "torn"}
Stays(append) == append = "written" /\ ~torn
AfterAppend(append) == append = "torn" \/ (append = "lost" /\ torn)

Init ==
    /\ file = [r \in Runs |-> Nothing]
    /\ db = [r \in Runs |-> Nothing]
    /\ session = None /\ ok = TRUE /\ at = None
    /\ started = {}
    /\ made = [r \in Runs |-> {}] /\ dropped = {} /\ cut = {} /\ torn = FALSE

-----------------------------------------------------------------------------
(* Faults of the kind a log that may not raise invites.                     *)

Silent(failed) == ok

\* _warn: any failure of the log clears the flag of the session.
Warned(failed) == ok /\ ~failed

\* flush_buffer_file: the file goes once the transaction was reported done.
AfterFlush(r, answer) == IF answer = "done" THEN Nothing ELSE file[r]

Flush(r, answer) ==
    /\ db' = IF Applied(answer) THEN [db EXCEPT ![r] = Written(db[r], file[r])] ELSE db
    /\ file' = [file EXCEPT ![r] = AfterFlush(r, answer)]

-----------------------------------------------------------------------------
\* start_session, up to the drain of what earlier runs left.
Start(r) ==
    /\ session = None /\ r \notin started
    /\ session' = r /\ ok' = TRUE /\ at' = "drain"
    /\ started' = started \cup {r}
    /\ UNCHANGED <<file, db, made, dropped, cut, torn>>

\* drain_buffers, at the start of a session and by the orchestrator between runs.
Drain(r, answer) ==
    /\ at \in {"drain", None} /\ r # session
    /\ file[r] # Nothing
    /\ Flush(r, answer)
    /\ ok' = Warned(session # None /\ answer # "done")
    /\ UNCHANGED <<session, at, started, made, dropped, cut, torn>>

\* TierSession.open: append and flush; when the append fails, insert directly.
Open(append, answer) ==
    /\ at = "drain"
    /\ at' = "run"
    /\ torn' = AfterAppend(append)
    /\ IF append = "written"
       THEN LET f == [file[session] EXCEPT !.open = TRUE] IN
            /\ db' = IF Applied(answer) THEN [db EXCEPT ![session] = Written(@, f)] ELSE db
            /\ file' = [file EXCEPT ![session] = IF answer = "done" THEN Nothing ELSE f]
            /\ ok' = Warned(answer # "done")
       ELSE /\ db' = IF Applied(answer) THEN [db EXCEPT ![session].open = TRUE] ELSE db
            /\ ok' = Warned(TRUE)
            /\ UNCHANGED file
    /\ UNCHANGED <<session, started, made, dropped, cut>>

\* _emit_llm_call and _add_query: one line, through _safe.
Record(x, append) ==
    /\ at = "run" /\ x \notin made[session]
    /\ made' = [made EXCEPT ![session] = @ \cup {x}]
    /\ file' = IF Stays(append) THEN [file EXCEPT ![session].records = @ \cup {x}] ELSE file
    /\ dropped' = IF Stays(append) THEN dropped ELSE dropped \cup {<<session, x>>}
    /\ torn' = AfterAppend(append)
    /\ ok' = Warned(append # "written")
    /\ UNCHANGED <<db, session, at, started, cut>>

\* ensure_run_id, when the flush or the look-up of the opening failed: what is in the file goes now.
FlushEarly(answer) ==
    /\ at = "run"
    /\ file[session] # Nothing \/ torn
    /\ Flush(session, answer)
    /\ torn' = (torn /\ answer # "done")
    /\ ok' = Warned(answer # "done")
    /\ UNCHANGED <<session, at, started, made, dropped, cut>>

\* TierSession.close: the closing line says what the flag is now.
AppendClose(append) ==
    /\ at = "run"
    /\ file' = IF Stays(append) THEN [file EXCEPT ![session].close = IF ok THEN "ok" ELSE "incomplete"] ELSE file
    /\ torn' = FALSE
    /\ IF append = "written"
       THEN at' = "flush" /\ UNCHANGED <<session, ok>>
       ELSE at' = None /\ session' = None /\ ok' = TRUE
    /\ UNCHANGED <<db, started, made, dropped, cut>>

FlushClose(answer) ==
    /\ at = "flush"
    /\ Flush(session, answer)
    /\ at' = IF answer = "done" THEN None ELSE "rewrite"
    /\ session' = IF answer = "done" THEN None ELSE session
    /\ ok' = (answer = "done")
    /\ UNCHANGED <<started, made, dropped, cut, torn>>

\* _persist_incomplete_close: the file is truncated and written again, its lines in their order, so what a
\* failure loses of it includes the close.  A file that cannot be read or opened, or does not say ok, stays as
\* it is.
Rewrite(kept, opened) ==
    LET f == file[session]
        whole == kept = f.records
    IN
    /\ at = "rewrite"
    /\ kept \subseteq f.records /\ (kept # {} => opened)
    /\ \/ whole /\ f.close = "ok" /\ file' = [file EXCEPT ![session].close = "incomplete"] /\ UNCHANGED cut
       \/ whole /\ UNCHANGED <<file, cut>>
       \/ /\ f.close = "ok"
          /\ file' = [file EXCEPT ![session] = [open |-> f.open /\ opened, records |-> kept, close |-> None]]
          /\ cut' = cut \cup {session}
    /\ at' = None /\ session' = None /\ ok' = TRUE
    /\ UNCHANGED <<db, started, made, dropped, torn>>

\* The process is killed; the file stays.
Kill ==
    /\ session # None
    /\ session' = None /\ at' = None /\ ok' = TRUE /\ torn' = FALSE
    /\ UNCHANGED <<file, db, started, made, dropped, cut>>

Next ==
    \/ \E r \in Runs : Start(r) \/ \E answer \in DbAnswers : Drain(r, answer)
    \/ \E append \in Appends :
          \/ \E answer \in DbAnswers : Open(append, answer)
          \/ \E x \in Records : Record(x, append)
          \/ AppendClose(append)
    \/ \E answer \in DbAnswers : FlushEarly(answer) \/ FlushClose(answer)
    \/ \E kept \in SUBSET Records, opened \in BOOLEAN : Rewrite(kept, opened)
    \/ Kill

Spec == Init /\ [][Next]_vars

-----------------------------------------------------------------------------
(* Properties.                                                              *)

Held == [open : BOOLEAN, records : SUBSET Records, close : {None, "ok", "incomplete"}]
TypeOK ==
    /\ {file, db} \subseteq [Runs -> Held]
    /\ session \in Runs \cup {None} /\ ok \in BOOLEAN
    /\ at \in {None, "drain", "run", "flush", "rewrite"}
    /\ started \subseteq Runs /\ made \in [Runs -> SUBSET Records]
    /\ dropped \subseteq Runs \X Records /\ cut \subseteq Runs /\ torn \in BOOLEAN

\* A run the database calls complete is: telemetry_ok true means that every record the run meant to keep
\* arrived, whatever failed and whichever process drained the file.  The record a torn line takes along raises
\* nothing itself: the flag must be down by then.  The morning report trusts the flag.
OkMeansComplete == \A r \in Runs : db[r].close = "ok" => made[r] \subseteq db[r].records

\* A record whose line the file took is in the file or in the database for good, except that a rewrite which
\* fails may cost a file its end: no drain, flush or kill loses one.
RecordsAreKept == \A r \in Runs : r \notin cut =>
    \A x \in made[r] : <<r, x>> \in dropped \/ x \in file[r].records \/ x \in db[r].records
=============================================================================
