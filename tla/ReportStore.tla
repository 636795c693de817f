---------------------------- MODULE ReportStore ----------------------------
(***************************************************************************)
(* The modernization report of one job (api/v1/report.py).  It is built    *)
(* from the job's rows by separate statements, each of which sees what     *)
(* others have committed by then; stored as the one row of the job in      *)
(* reports; and copied to Redis for five minutes.  Meanwhile runs of the   *)
(* job validate its patches (agents/validator.py), plans and patches are   *)
(* added, smells are dismissed, and the job may be deleted.                *)
(***************************************************************************)
EXTENDS Integers, FiniteSets, Sequences

CONSTANTS
    Requests,     \* clients, each with one request at a time
    Kinds,        \* of each client: the endpoints it calls
    Smells,
    Critical,     \* the smells of severity critical; the others are medium
    Patches,
    Early,        \* the patches generated after the first run of the job
    Shape,        \* of each patch: what the validator's checks tell apart
    Runs,         \* runs of the job, each of which validates once
    None,         \* no row, no copy, no answer
    MaxChanges,   \* bound: what the rest of the system commits
    MaxFailures   \* bound: statements for all verdicts, and commits, that fail

ASSUME KindsAssumption == Kinds \in [Requests -> SUBSET {"json", "export", "list"}]
ASSUME SubsetsAssumption == Critical \subseteq Smells /\ Early \subseteq Patches
ASSUME ShapeAssumption ==
    Shape \in [Patches -> [diff : {"none", "headed", "marked", "bare"},
                           language : {"python", "checked", "unchecked"},
                           empty : BOOLEAN, stub : BOOLEAN, sound : BOOLEAN]]
ASSUME FiniteAssumption == IsFiniteSet(Smells) /\ IsFiniteSet(Patches) /\ IsFiniteSet(Runs)
ASSUME BoundsAssumption == MaxChanges \in Nat /\ MaxFailures \in Nat

VARIABLES
    job,       \* the job's row exists
    smells,    \* the smells that are not dismissed
    plans,     \* of each plan version, oldest first: whether it has its tasks
    patch,     \* of each patch: not yet generated, pending or applied
    results,   \* validation_results
    changes,
    run,       \* of each run: its validation
    stored,    \* the job's row in reports, or None
    redis,     \* the copy under alm:report:<job>, or None
    listed,    \* the copy under alm:report:list: the ids it shows, or None
    req,       \* of each client: its request
    failures

rows == <<job, smells, plans, patch, results, changes>>
vars == <<rows, run, stored, redis, listed, req, failures>>

\* The tasks of a plan version.
TasksOf(v) == {<<v, i>> : i \in 1..2}

NoData == [smells |-> {}, plan |-> 0, tasks |-> {}, patches |-> {}, verdicts |-> {}]
Idle == [kind |-> None, pc |-> "idle", found |-> None, data |-> NoData,
         own |-> FALSE, answer |-> None]

\* A run that has not begun to validate; read is what it read of the patches.
Fresh == [pc |-> "idle", read |-> {}, todo |-> {}, new |-> {}, refused |-> {}]

\* Nothing is planned yet, the planner is at work, or the job has been run once.
Init ==
    /\ job = TRUE
    /\ smells = Smells
    /\ plans \in {<<>>, <<"planned">>, <<"filled">>}
    /\ patch = [p \in Patches |-> IF plans = <<"filled">> /\ p \in Early THEN "pending" ELSE "unknown"]
    /\ results = {}
    /\ changes = 0
    /\ run = [w \in Runs |-> Fresh]
    /\ stored = None
    /\ redis = None
    /\ listed = None
    /\ req = [r \in Requests |-> Idle]
    /\ failures = 0

---------------------------------------------------------------------------
(* The rest of the system: what other requests and the job's runs commit.  *)

Change ==
    /\ job /\ changes < MaxChanges
    /\ changes' = changes + 1
    /\ UNCHANGED <<job, results, run, stored, redis, listed, req, failures>>

Dismiss(s) ==
    /\ Change
    /\ s \in smells
    /\ smells' = smells \ {s}
    /\ UNCHANGED <<plans, patch>>

\* The planner commits the first version before it inserts its tasks;
\* regenerate_plan adds a version nobody fills.
MakePlan ==
    /\ Change
    /\ plans = <<>>
    /\ plans' = <<"planned">>
    /\ UNCHANGED <<smells, patch>>

MakeTasks ==
    /\ Change
    /\ plans # <<>> /\ plans[1] = "planned"
    /\ plans' = [plans EXCEPT ![1] = "filled"]
    /\ UNCHANGED <<smells, patch>>

Regenerate ==
    /\ Change
    /\ plans' = Append(plans, "empty")
    /\ UNCHANGED <<smells, patch>>

Generate(p) ==
    /\ Change
    /\ patch[p] = "unknown"
    /\ patch' = [patch EXCEPT ![p] = "pending"]
    /\ UNCHANGED <<smells, plans>>

Apply(p) ==
    /\ Change
    /\ patch[p] = "pending"
    /\ patch' = [patch EXCEPT ![p] = "applied"]
    /\ UNCHANGED <<smells, plans>>

\* Variant of DeleteJob: the foreign key of reports without its cascade.
DeleteJobKeepsReport ==
    /\ job
    /\ \A r \in Requests : ~req[r].own
    /\ job' = FALSE
    /\ smells' = {}
    /\ plans' = <<>>
    /\ patch' = [p \in Patches |-> "unknown"]
    /\ results' = {}
    /\ UNCHANGED <<changes, run, stored, redis, listed, req, failures>>

\* Everything that refers to the job goes with it; Redis keeps its copies.  A
\* request that has inserted the report holds a lock on the job's row.
DeleteJob ==
    /\ job
    /\ \A r \in Requests : ~req[r].own
    /\ job' = FALSE
    /\ smells' = {}
    /\ plans' = <<>>
    /\ patch' = [p \in Patches |-> "unknown"]
    /\ results' = {}
    /\ stored' = None
    /\ UNCHANGED <<changes, run, redis, listed, req, failures>>

---------------------------------------------------------------------------
(* The validator.                                                          *)

\* _check_diff_format: headers, or the marks of a patch written as a stub.
DiffPasses(p) == Shape[p].diff \in {"headed", "marked"}

\* _check_syntax: a parser for Python, a rule of thumb for the languages that
\* are "checked" (Java, PHP, JavaScript, TypeScript), nothing for others.
SyntaxPasses(p) == Shape[p].language # "unchecked" => Shape[p].sound

\* _check_in_sandbox: nothing but Python text with code in it is compiled.
\* None: there is no python to run, or the sandbox broke: the check is left out.
SandboxRuns(p) == Shape[p].language = "python" /\ ~Shape[p].empty /\ ~Shape[p].stub

SandboxSays(p) ==
    IF SandboxRuns(p)
    THEN {"fails", None} \cup (IF Shape[p].sound THEN {"passes"} ELSE {})
    ELSE {None}

\* _validate_patch: a patch passes when each check made passes.
Verdicts(p) == {DiffPasses(p) /\ SyntaxPasses(p) /\ s # "fails" : s \in SandboxSays(p)}

\* run: the patches pending now.  Without any there is nothing to validate.
LoadPatches(w) ==
    LET pending == {p \in Patches : patch[p] = "pending"}
    IN /\ run[w].pc = "idle"
       /\ run' = [run EXCEPT ![w] = [Fresh EXCEPT !.read = pending, !.todo = pending,
                     !.pc = IF pending = {} THEN "done" ELSE "checks"]]
       /\ UNCHANGED <<rows, stored, redis, listed, req, failures>>

\* created_at, counted for each patch by itself: the runs that have judged it.
Judges(p) == {w \in Runs : p \in run[w].read \ run[w].todo}
Now(p) == Cardinality(Judges(p)) + 1

ValidatePatch(w, p, verdict) ==
    /\ run[w].pc = "checks" /\ p \in run[w].todo
    /\ verdict \in Verdicts(p)
    /\ run' = [run EXCEPT
           ![w].todo = @ \ {p},
           ![w].new = @ \cup {[patch |-> p, by |-> w, at |-> Now(p), passed |-> verdict]},
           ![w].pc = IF run[w].todo = {p} THEN "bulk" ELSE "checks"]
    /\ UNCHANGED <<rows, stored, redis, listed, req, failures>>

\* _persist_results: one statement for all rows, committed at once.
PersistAll(w) ==
    /\ run[w].pc = "bulk" /\ job
    /\ results' = results \cup run[w].new
    /\ run' = [run EXCEPT ![w].pc = "done", ![w].new = {}]
    /\ UNCHANGED <<job, smells, plans, patch, changes, stored, redis, listed, req, failures>>

PersistAllFails(w) ==
    /\ run[w].pc = "bulk"
    /\ job => failures < MaxFailures
    /\ failures' = IF job THEN failures + 1 ELSE failures
    /\ run' = [run EXCEPT ![w].pc = "single"]
    /\ UNCHANGED <<rows, stored, redis, listed, req>>

\* Then row by row, each in a transaction of its own: what is refused is
\* skipped.  Without the job every row is refused.
PersistRow(w, v) ==
    /\ run[w].pc = "single" /\ v \in run[w].new /\ job
    /\ results' = results \cup {v}
    /\ run' = [run EXCEPT ![w].new = @ \ {v},
                          ![w].pc = IF run[w].new = {v} THEN "done" ELSE "single"]
    /\ UNCHANGED <<job, smells, plans, patch, changes, stored, redis, listed, req, failures>>

\* Variant of PersistRowFails: the first row that is refused ends the loop.
PersistRowFailsAndStops(w, v) ==
    /\ run[w].pc = "single" /\ v \in run[w].new
    /\ run' = [run EXCEPT ![w].new = {}, ![w].refused = @ \cup {v.patch}, ![w].pc = "done"]
    /\ UNCHANGED <<rows, stored, redis, listed, req, failures>>

PersistRowFails(w, v) ==
    /\ run[w].pc = "single" /\ v \in run[w].new
    /\ run' = [run EXCEPT ![w].new = @ \ {v}, ![w].refused = @ \cup {v.patch},
                          ![w].pc = IF run[w].new = {v} THEN "done" ELSE "single"]
    /\ UNCHANGED <<rows, stored, redis, listed, req, failures>>

Validate(w) ==
    \/ LoadPatches(w)
    \/ \E p \in Patches, verdict \in BOOLEAN : ValidatePatch(w, p, verdict)
    \/ PersistAll(w) \/ PersistAllFails(w)
    \/ \E v \in run[w].new : PersistRow(w, v) \/ PersistRowFails(w, v)

---------------------------------------------------------------------------
(* What a report says.                                                     *)

\* The newest verdicts on some patches.
Latest(ps) ==
    {v \in results : v.patch \in ps /\ \A o \in results : o.patch = v.patch => o.at <= v.at}

Generated(d) == Cardinality(d.patches)
Passed(d) == Cardinality({v \in d.verdicts : v.passed})

\* _compute_modernization_score; no smell here is of severity high.  The
\* program divides in floating point, which is exact for up to four patches.
Score(d) ==
    LET critical == Cardinality(d.smells \cap Critical)
        penalty == IF Generated(d) = 0 THEN 0
                   ELSE ((Generated(d) - Passed(d)) * 20) \div Generated(d)
        score == 100 - 10 * critical - Cardinality(d.smells \ Critical) - penalty
    IN IF score < 0 THEN 0 ELSE IF score > 100 THEN 100 ELSE score

\* A report that has been built is named by the request that built it, which
\* draws its id; what it says is judged as it is built.

---------------------------------------------------------------------------
(* A request, statement by statement.                                      *)

Begin(r, kind) ==
    /\ req[r].pc = "idle"
    /\ req' = [req EXCEPT ![r] = [Idle EXCEPT !.kind = kind, !.found = stored,
                  !.pc = IF kind = "list" THEN "list" ELSE "job"]]
    /\ UNCHANGED <<rows, run, stored, redis, listed, failures>>

\* The answer to an export is kept, to be compared with what was stored.
End(r, answer) ==
    req' = [req EXCEPT ![r] =
        IF req[r].kind = "export"
        THEN [Idle EXCEPT !.kind = "export", !.found = req[r].found,
                          !.pc = "done", !.answer = answer]
        ELSE Idle]

\* _get_job_or_404.
FindJob(r) ==
    /\ req[r].pc = "job"
    /\ IF job
       THEN req' = [req EXCEPT ![r].pc = IF req[r].kind = "json" THEN "redis" ELSE "row"]
       ELSE End(r, None)
    /\ UNCHANGED <<rows, run, stored, redis, listed, failures>>

\* Variant of ReadRedis: what is found is kept for another five minutes.
ReadRedisRenews(r) ==
    /\ req[r].pc = "redis"
    /\ req' = [req EXCEPT ![r].pc = IF redis = None THEN "row" ELSE "copy", ![r].answer = redis]
    /\ UNCHANGED <<rows, run, stored, redis, listed, failures>>

ReadRedis(r) ==
    /\ req[r].pc = "redis"
    /\ IF redis # None
       THEN End(r, redis)
       ELSE req' = [req EXCEPT ![r].pc = "row"]
    /\ UNCHANGED <<rows, run, stored, redis, listed, failures>>

\* Variant of ReadRow: only the JSON is taken from the row.
ReadRowForJson(r) ==
    /\ req[r].pc = "row"
    /\ req' = IF stored # None /\ req[r].kind = "json"
              THEN [req EXCEPT ![r].pc = "copy", ![r].answer = stored]
              ELSE [req EXCEPT ![r].pc = "smells"]
    /\ UNCHANGED <<rows, run, stored, redis, listed, failures>>

\* The JSON of a stored row is copied to Redis; the exports only read it.
ReadRow(r) ==
    /\ req[r].pc = "row"
    /\ IF stored # None
       THEN IF req[r].kind = "json"
            THEN req' = [req EXCEPT ![r].pc = "copy", ![r].answer = stored]
            ELSE End(r, stored)
       ELSE req' = [req EXCEPT ![r].pc = "smells"]
    /\ UNCHANGED <<rows, run, stored, redis, listed, failures>>

CopyRow(r) ==
    /\ req[r].pc = "copy"
    /\ redis' = req[r].answer
    /\ End(r, req[r].answer)
    /\ UNCHANGED <<rows, run, stored, listed, failures>>

\* _build_report_json.
ReadSmells(r) ==
    /\ req[r].pc = "smells"
    /\ req' = [req EXCEPT ![r].pc = "plan",
                          ![r].data.smells = smells]
    /\ UNCHANGED <<rows, run, stored, redis, listed, failures>>

ReadPlan(r) ==
    /\ req[r].pc = "plan"
    /\ req' = [req EXCEPT ![r].pc = IF plans = <<>> THEN "patches" ELSE "tasks",
                          ![r].data.plan = Len(plans)]
    /\ UNCHANGED <<rows, run, stored, redis, listed, failures>>

ReadTasks(r) ==
    LET v == req[r].data.plan
    IN /\ req[r].pc = "tasks"
       /\ req' = [req EXCEPT ![r].pc = "patches",
              ![r].data.tasks = IF v \in DOMAIN plans /\ plans[v] = "filled" THEN TasksOf(v) ELSE {}]
       /\ UNCHANGED <<rows, run, stored, redis, listed, failures>>

\* An export ends with its answer, a request for JSON goes on to store it.
Built(kind) == IF kind = "json" THEN "insert" ELSE "send"

ReadPatches(r) ==
    LET ps == {p \in Patches : patch[p] # "unknown"}
    IN /\ req[r].pc = "patches"
       /\ req' = [req EXCEPT ![r].pc = IF ps = {} THEN Built(req[r].kind) ELSE "results",
                             ![r].data.patches = ps]
       /\ UNCHANGED <<rows, run, stored, redis, listed, failures>>

\* Variant of ReadResults: the verdicts on all patches the job has by now.
ReadResultsOfJob(r) ==
    /\ req[r].pc = "results"
    /\ req' = [req EXCEPT ![r].pc = Built(req[r].kind), ![r].data.verdicts = Latest(Patches)]
    /\ UNCHANGED <<rows, run, stored, redis, listed, failures>>

ReadResults(r) ==
    /\ req[r].pc = "results"
    /\ req' = [req EXCEPT ![r].pc = Built(req[r].kind),
                          ![r].data.verdicts = Latest(req[r].data.patches)]
    /\ UNCHANGED <<rows, run, stored, redis, listed, failures>>

Send(r) ==
    /\ req[r].pc = "send"
    /\ End(r, r)
    /\ UNCHANGED <<rows, run, stored, redis, listed, failures>>

\* flush: one report for a job.  The statement waits while another request's
\* insert is neither committed nor rolled back.
Insert(r) ==
    /\ req[r].pc = "insert"
    /\ job /\ stored = None
    /\ \A q \in Requests : ~req[q].own
    /\ req' = [req EXCEPT ![r].pc = "publish", ![r].own = TRUE, ![r].data = NoData]
    /\ UNCHANGED <<rows, run, stored, redis, listed, failures>>

\* Refused: the job has a report by now, or is gone.  The request goes on.
InsertRefused(r) ==
    /\ req[r].pc = "insert"
    /\ stored # None \/ ~job
    /\ req' = [req EXCEPT ![r].pc = "publish", ![r].data = NoData]
    /\ UNCHANGED <<rows, run, stored, redis, listed, failures>>

\* cache_set comes before get_db's commit.
Publish(r) ==
    /\ req[r].pc = "publish"
    /\ redis' = r
    /\ req' = [req EXCEPT ![r].pc = "commit"]
    /\ UNCHANGED <<rows, run, stored, listed, failures>>

Commit(r) ==
    /\ req[r].pc = "commit"
    /\ stored' = IF req[r].own THEN r ELSE stored
    /\ End(r, r)
    /\ UNCHANGED <<rows, run, redis, listed, failures>>

CommitFails(r) ==
    /\ req[r].pc = "commit" /\ req[r].own
    /\ failures < MaxFailures
    /\ failures' = failures + 1
    /\ End(r, None)
    /\ UNCHANGED <<rows, run, stored, redis, listed>>

---------------------------------------------------------------------------
(* list_reports: the ids of the reports stored, from Redis or the table.   *)

Shown == {stored} \ {None}

ReadList(r) ==
    /\ req[r].pc = "list"
    /\ IF listed # None
       THEN End(r, None)
       ELSE req' = [req EXCEPT ![r].pc = "relist", ![r].answer = Shown]
    /\ UNCHANGED <<rows, run, stored, redis, listed, failures>>

CopyList(r) ==
    /\ req[r].pc = "relist"
    /\ listed' = req[r].answer
    /\ End(r, None)
    /\ UNCHANGED <<rows, run, stored, redis, failures>>

---------------------------------------------------------------------------
\* The answer to an export has arrived: the client may ask again.
Receive(r) ==
    /\ req[r].pc = "done"
    /\ req' = [req EXCEPT ![r] = Idle]
    /\ UNCHANGED <<rows, run, stored, redis, listed, failures>>

\* Five minutes have passed, or Redis has lost the copy, which cache_set and
\* cache_get take in silence.
ExpireReport ==
    /\ redis # None
    /\ redis' = None
    /\ UNCHANGED <<rows, run, stored, listed, req, failures>>

ExpireList ==
    /\ listed # None
    /\ listed' = None
    /\ UNCHANGED <<rows, run, stored, redis, req, failures>>

Serve(r) ==
    \/ FindJob(r) \/ ReadRedis(r) \/ ReadRow(r) \/ CopyRow(r)
    \/ ReadSmells(r) \/ ReadPlan(r) \/ ReadTasks(r) \/ ReadPatches(r) \/ ReadResults(r)
    \/ Send(r) \/ Insert(r) \/ InsertRefused(r) \/ Publish(r) \/ Commit(r) \/ CommitFails(r)
    \/ ReadList(r) \/ CopyList(r)

Others ==
    \/ MakePlan \/ MakeTasks \/ Regenerate \/ DeleteJob
    \/ \E s \in Smells : Dismiss(s)
    \/ \E p \in Patches : Generate(p) \/ Apply(p)

Next ==
    \/ Others
    \/ \E w \in Runs : Validate(w)
    \/ \E r \in Requests : \E kind \in Kinds[r] : Begin(r, kind)
    \/ \E r \in Requests : Serve(r) \/ Receive(r)
    \/ ExpireReport \/ ExpireList

Spec == Init /\ [][Next]_vars

\* A request under way is served, and what Redis holds expires; nobody has to
\* ask for a report, or to go on with the job.
FairSpec ==
    /\ Spec
    /\ \A r \in Requests : WF_vars(Serve(r))
    /\ WF_vars(ExpireReport) /\ WF_vars(ExpireList)

---------------------------------------------------------------------------
(* Properties.                                                             *)

Pcs == {"idle", "job", "redis", "row", "copy", "smells", "plan", "tasks", "patches",
        "results", "insert", "send", "publish", "commit", "list", "relist", "done"}

IsVerdict(v) ==
    v.patch \in Patches /\ v.by \in Runs /\ v.at \in Nat /\ v.passed \in BOOLEAN

IsData(d) ==
    /\ d.smells \subseteq Smells /\ d.patches \subseteq Patches
    /\ d.plan \in Nat
    /\ \A v \in d.verdicts : IsVerdict(v)

\* Each variable holds what it is meant to hold, a deleted job has no rows,
\* and no two verdicts are of one time.
TypeOK ==
    /\ job \in BOOLEAN
    /\ smells \subseteq Smells
    /\ plans \in Seq({"planned", "filled", "empty"})
    /\ patch \in [Patches -> {"unknown", "pending", "applied"}]
    /\ \A v \in results : IsVerdict(v) /\ patch[v.patch] # "unknown"
    /\ \A v, o \in results : v.patch = o.patch /\ v.at = o.at => v = o
    /\ \A w \in Runs : /\ run[w].pc \in {"idle", "checks", "bulk", "single", "done"}
                       /\ run[w].todo \cup run[w].refused \subseteq run[w].read
                        /\ run[w].read \subseteq Patches
                        /\ \A v \in run[w].new : IsVerdict(v) /\ v.by = w
    /\ {stored, redis} \subseteq Requests \cup {None}
    /\ listed # None => listed \subseteq Requests
    /\ \A r \in Requests : req[r].pc \in Pcs /\ IsData(req[r].data)
    /\ ~job => stored = None /\ plans = <<>> /\ results = {}

\* The numbers of a report fit together although each is read at another
\* time: its tasks are tasks of the plan it reports, it counts no verdict on a
\* patch it does not count, never more patches passed than generated, and
\* its score is from 0 to 100.  _build_report_json.
Coherent(d) ==
    /\ d.tasks \subseteq TasksOf(d.plan)
    /\ {v.patch : v \in d.verdicts} \subseteq d.patches
    /\ Passed(d) <= Generated(d)
    /\ Score(d) \in 0..100

ReportIsCoherent == \A r \in Requests : Coherent(req[r].data)

\* Once a job has a report, a request that begins then builds no other, and
\* an export shows the one stored, even while Redis holds the report of a
\* request whose insert was refused.  get_report and the two exports.
Building == {"smells", "plan", "tasks", "patches", "results", "send", "insert", "publish", "commit"}

StoredReportIsFinal ==
    \A r \in Requests :
        job /\ req[r].found # None =>
            /\ req[r].pc \notin Building
            /\ req[r].kind = "export" /\ req[r].pc = "done" => req[r].answer = req[r].found

\* A verdict is lost only when its own insert is refused: each other patch the
\* validator has read has its verdict when the run is done, also when the
\* statement for all of them failed.  _persist_results.
RefusedVerdictCostsItself ==
    \A w \in Runs :
        job /\ run[w].pc = "done" =>
            \A p \in run[w].read \ run[w].refused :
                \E v \in results : v.by = w /\ v.patch = p

\* In the end Redis shows nothing but what is stored: the copy a refused or
\* uncommitted insert left behind, a copy of a deleted job's report, and a
\* list taken before all go, however often clients ask.  get_report, list_reports.
StaleCopiesEnd ==
    <>[](/\ (stored # None \/ ~job) => redis \in {None, stored}
         /\ listed \in {None, Shown})
=============================================================================
