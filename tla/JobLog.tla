------------------------------- MODULE JobLog -------------------------------
(***************************************************************************)
(* The progress log of one job.  Each emit_progress call (agents/base.py)  *)
(* opens a session of its own, reads the greatest seq of the job, and      *)
(* inserts a row with the next one (models/job_log.py); calls overlap when *)
(* the transformer works on several tasks, or two runs of a job overlap.   *)
(* Clients poll GET /analyze/{job_id}/logs with the last seq they have     *)
(* (api/v1/analyze.py).                                                    *)
(***************************************************************************)
EXTENDS Naturals, Sequences, FiniteSets

CONSTANTS
    Calls,    \* emit_progress calls
    Clients,  \* pages that show the log
    Polls,    \* requests a page may have under way at a time
    Limit     \* entries an answer may hold

ASSUME LimitAssumption == Limit \in Nat \ {0}

VARIABLES
    job,     \* whether the job's row exists
    rows,    \* the job's rows in job_logs
    call,    \* of each call: where it is, and the seq it is to insert
    seen,    \* of each client: the entries it has (logs)
    since,   \* of each client: the seq it polls with (lastLogSeq)
    poll     \* of each client: its requests under way

vars == <<job, rows, call, seen, since, poll>>
logVars == <<job, rows, call>>
clientVars == <<seen, since, poll>>

NoPoll == [at |-> "none", since |-> 0, page |-> {}]

Row == [seq : Nat \ {0}, call : Calls]
Seqs == {r.seq : r \in rows}

TypeOK ==
    /\ job \in BOOLEAN
    /\ rows \subseteq Row
    /\ call \in [Calls -> [at : {"idle", "insert", "stored", "lost"}, seq : Nat]]
    /\ seen \in [Clients -> SUBSET Row]
    /\ since \in [Clients -> Nat]
    /\ poll \in [Clients \X Polls ->
                  [at : {"none", "asked", "answered"}, since : Nat, page : SUBSET Row]]

Init ==
    /\ job = TRUE
    /\ rows = {}
    /\ call = [c \in Calls |-> [at |-> "idle", seq |-> 0]]
    /\ seen = [c \in Clients |-> {}]
    /\ since = [c \in Clients |-> 0]
    /\ poll = [x \in Clients \X Polls |-> NoPoll]

---------------------------------------------------------------------------
(* emit_progress and insert_job_log.                                       *)

\* Variant of NextSeq: a counter that never gives a number twice.
NextSeqOfCounter == Cardinality({c \in Calls : call[c].at # "idle"}) + 1

\* COALESCE(MAX(seq), 0) + 1 over the committed rows.
NextSeq == IF rows = {} THEN 1 ELSE (CHOOSE s \in Seqs : \A t \in Seqs : t <= s) + 1

ReadSeq(c) ==
    /\ call[c].at = "idle"
    /\ call' = [call EXCEPT ![c] = [at |-> "insert", seq |-> NextSeq]]
    /\ UNCHANGED <<job, rows, clientVars>>

\* Variant of Insert: no unique constraint.
InsertUnchecked(c) ==
    /\ call[c].at = "insert"
    /\ rows' = IF job THEN rows \cup {[seq |-> call[c].seq, call |-> c]} ELSE rows
    /\ call' = [call EXCEPT ![c].at = IF job THEN "stored" ELSE "lost"]
    /\ UNCHANGED <<job, clientVars>>

\* uq_job_logs_job_id_seq or the reference to the job refuses the row, and
\* emit_progress swallows the error: the entry is lost.
Insert(c) ==
    /\ call[c].at = "insert"
    /\ IF job /\ call[c].seq \notin Seqs
       THEN /\ rows' = rows \cup {[seq |-> call[c].seq, call |-> c]}
            /\ call' = [call EXCEPT ![c].at = "stored"]
       ELSE /\ call' = [call EXCEPT ![c].at = "lost"]
            /\ UNCHANGED rows
    /\ UNCHANGED <<job, clientVars>>

\* The process dies, or the database cannot be reached.
Fail(c) ==
    /\ call[c].at \in {"idle", "insert"}
    /\ call' = [call EXCEPT ![c].at = "lost"]
    /\ UNCHANGED <<job, rows, clientVars>>

\* delete_job; the rows go by cascade.
DeleteJob ==
    /\ job
    /\ job' = FALSE
    /\ rows' = {}
    /\ UNCHANGED <<call, clientVars>>

---------------------------------------------------------------------------
(* get_job_logs, and a page that polls it (stores/analysis.ts).            *)

\* Variant of Page: any rows after s, not the first ones.
PageUnordered(s, P) ==
    /\ P \subseteq {r \in rows : r.seq > s}
    /\ Cardinality(P) <= Limit
    /\ Cardinality(P) = Limit \/ \A r \in rows : r.seq > s => r \in P

\* P answers since_seq = s: the rows after s in the order of seq, at most
\* Limit of them.
Page(s, P) ==
    /\ P \subseteq {r \in rows : r.seq > s}
    /\ Cardinality(P) <= Limit
    /\ \A r \in rows : r.seq > s /\ r \notin P =>
          Cardinality(P) = Limit /\ \A p \in P : p.seq < r.seq

\* The interval of startLogPolling calls fetchLogs, whether or not earlier
\* calls are still waiting.
Ask(c, i) ==
    /\ poll[<<c, i>>] = NoPoll
    /\ poll' = [poll EXCEPT ![<<c, i>>] = [at |-> "asked", since |-> since[c], page |-> {}]]
    /\ UNCHANGED <<logVars, seen, since>>

\* 404 once the job is gone: the poll fails.
Answer(c, i) ==
    /\ poll[<<c, i>>].at = "asked"
    /\ job
    /\ \E P \in SUBSET rows :
          /\ Page(poll[<<c, i>>].since, P)
          /\ poll' = [poll EXCEPT ![<<c, i>>] =
              [at |-> "answered", since |-> poll[<<c, i>>].since, page |-> P]]
    /\ UNCHANGED <<logVars, seen, since>>

\* The rows are added and the last one's seq remembered; an empty answer
\* changes nothing.
Take(c, i) ==
    /\ poll[<<c, i>>].at = "answered"
    /\ seen' = [seen EXCEPT ![c] = @ \cup poll[<<c, i>>].page]
    /\ \/ poll[<<c, i>>].page = {} /\ UNCHANGED since
       \/ \E last \in poll[<<c, i>>].page :
             /\ \A r \in poll[<<c, i>>].page : r.seq <= last.seq
             /\ since' = [since EXCEPT ![c] = last.seq]
    /\ poll' = [poll EXCEPT ![<<c, i>>] = NoPoll]
    /\ UNCHANGED logVars

\* The request or its answer is lost; errors are silent.
Drop(c, i) ==
    /\ poll[<<c, i>>] # NoPoll
    /\ poll' = [poll EXCEPT ![<<c, i>>] = NoPoll]
    /\ UNCHANGED <<logVars, seen, since>>

Next ==
    \/ \E c \in Calls : ReadSeq(c) \/ Insert(c) \/ Fail(c)
    \/ DeleteJob
    \/ \E c \in Clients, i \in Polls : Ask(c, i) \/ Answer(c, i) \/ Take(c, i) \/ Drop(c, i)

Spec == Init /\ [][Next]_vars

---------------------------------------------------------------------------
(* Properties.                                                             *)

\* insert_job_log (job_log.py:53) reads and inserts with other calls in
\* between, and some calls fail: still the numbers are 1, 2, 3, ... with one
\* row each.
SeqHasNoGap ==
    /\ \A r, s \in rows : r.seq = s.seq => r = s
    /\ Seqs = 1..Cardinality(rows)

\* fetchLogs (stores/analysis.ts:141) asks with the last seq it has while
\* earlier requests are under way, calls commit, and answers are lost or come
\* out of order: an entry a page shows has all entries before it beside it,
\* and the seq it polls with is of an entry it has.
NothingSkipped ==
    \A c \in Clients :
        /\ job => seen[c] \subseteq rows
        /\ \A r \in seen[c] : \A s \in 1..r.seq : \E q \in seen[c] : q.seq = s
        /\ since[c] = 0 \/ \E r \in seen[c] : r.seq = since[c]

\* The table in the order of seq.
LogOf ==
    [i \in 1..Cardinality(rows) |->
        (CHOOSE r \in rows : Cardinality({s \in rows : s.seq <= r.seq}) = i).call]

Abstract == INSTANCE AppendLog WITH Entries <- Calls, log <- LogOf, deleted <- ~job

\* An entry committed later has a greater seq than all before it
\* (job_log.py:17): the table is a log to which entries are appended.
ImplementsAppendLog == Abstract!Spec
=============================================================================
