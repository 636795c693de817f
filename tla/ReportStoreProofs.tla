------------------------- MODULE ReportStoreProofs -------------------------
(***************************************************************************)
(* Theorems about ReportStore, for any number of clients, patches and runs *)
(* and every bound on the failures.                                        *)
(***************************************************************************)
EXTENDS ReportStore, FiniteSetTheorems, TLAPS

-----------------------------------------------------------------------------
(* Verdicts.                                                               *)

Verdict == [patch : Patches, by : Runs, at : Nat, passed : BOOLEAN]
Validation == [pc : {"idle", "checks", "bulk", "single", "done"}, read : SUBSET Patches,
               todo : SUBSET Patches, new : SUBSET Verdict, refused : SUBSET Patches]

\* The verdicts there are: stored, or about to be.
Reached == results \cup UNION {run[w].new : w \in Runs}

RunTypes ==
    /\ run \in [Runs -> Validation]
    /\ results \in SUBSET Verdict
    /\ patch \in [Patches -> {"unknown", "pending", "applied"}]

\* A run judges once each patch it has read, and keeps the verdict until it
\* is stored or refused.
RunOk(w) ==
    /\ run[w].todo \cup run[w].refused \subseteq run[w].read
    /\ run[w].todo # {} => run[w].pc = "checks"
    /\ run[w].pc = "idle" => run[w].read = {} /\ run[w].new = {}
    /\ run[w].pc = "done" => run[w].new = {}
    /\ \A v \in run[w].new : v.by = w /\ v.patch \in run[w].read
    /\ job => \A p \in run[w].read :
                 /\ patch[p] # "unknown"
                 /\ p \in run[w].refused \/ p \in run[w].todo
                    \/ \E v \in results \cup run[w].new : v.by = w /\ v.patch = p

\* The verdicts on a patch are of different times, none later than now.
TimesOk ==
    /\ \A v \in Reached : v.at <= Cardinality(Judges(v.patch))
    /\ \A v, o \in Reached : v.patch = o.patch /\ v.at = o.at => v = o

\* What is stored is about a patch of the job, and nothing without the job.
ResultsOk ==
    /\ \A v \in results : patch[v.patch] # "unknown"
    /\ ~job => results = {}

RunInv == RunTypes /\ (\A w \in Runs : RunOk(w)) /\ TimesOk /\ ResultsOk

-----------------------------------------------------------------------------
(* Requests.                                                               *)

Answers == Requests \cup {None} \cup SUBSET Requests
Data == [smells : SUBSET Smells, plan : Nat, tasks : SUBSET (Nat \X (1..2)),
         patches : SUBSET Patches, verdicts : SUBSET Verdict]
Record == [kind : {"json", "export", "list", None}, pc : Pcs, found : Requests \cup {None},
           data : Data, own : BOOLEAN, answer : Answers]

RequestTypes ==
    /\ job \in BOOLEAN
    /\ smells \subseteq Smells
    /\ plans \in Seq({"planned", "filled", "empty"})
    /\ {stored, redis} \subseteq Requests \cup {None}
    /\ listed # None => listed \subseteq Requests
    /\ req \in [Requests -> Record]
    /\ ~job => stored = None /\ plans = <<>>

\* Where the steps of an endpoint are, and what a request has read by then.
PlaceOk(r) ==
    LET q == req[r] IN
    /\ q.pc \in {"redis", "copy", "insert", "publish", "commit"} => q.kind = "json"
    /\ q.pc \in {"list", "relist"} => q.kind = "list"
    /\ q.pc = "copy" => q.answer \in Requests \cup {None}
    /\ q.pc = "relist" => q.answer \subseteq Requests
    /\ q.pc \notin {"insert", "send", "publish", "commit"} => q.data.verdicts = {}
    /\ q.pc \notin {"patches", "results", "insert", "send", "publish", "commit"} => q.data.tasks = {}

\* A request's data fit together, and hold one verdict on a patch.
DataOk(r) ==
    LET d == req[r].data IN
    /\ d.tasks \subseteq TasksOf(d.plan)
    /\ {v.patch : v \in d.verdicts} \subseteq d.patches
    /\ \A v, o \in d.verdicts : v.patch = o.patch => v = o

\* One insert is under way at a time, and only while nothing is stored.
OwnOk(r) ==
    req[r].own => /\ req[r].pc \in {"publish", "commit"}
                  /\ job /\ stored = None
                  /\ \A q \in Requests : req[q].own => q = r

\* What a request found when it began is what is stored, until the job goes.
FoundOk(r) ==
    job /\ req[r].found # None =>
        /\ stored = req[r].found
        /\ req[r].pc \notin Building
        /\ req[r].kind = "export" /\ req[r].pc = "done" => req[r].answer = req[r].found

RequestInv ==
    /\ RequestTypes
    /\ \A r \in Requests : PlaceOk(r) /\ DataOk(r) /\ OwnOk(r) /\ FoundOk(r)

ReportInv == RunInv /\ RequestInv

-----------------------------------------------------------------------------
(* RunInv is kept.                                                         *)

\* The steps of a request, and what Redis loses, concern no run.
LEMMA RequestFrame ==
    ASSUME \/ \E r \in Requests : (\E kind \in Kinds[r] : Begin(r, kind)) \/ Serve(r) \/ Receive(r)
           \/ ExpireReport \/ ExpireList
    PROVE  UNCHANGED <<rows, run>>
BY DEF Begin, Serve, Receive, ExpireReport, ExpireList, FindJob, ReadRedis, ReadRow, CopyRow, ReadSmells,
       ReadPlan, ReadTasks, ReadPatches, ReadResults, Send, Insert, InsertRefused, Publish, Commit,
       CommitFails, ReadList, CopyList

\* The runs that have judged a patch can be counted.
LEMMA JudgesFinite ==
    \A p : IsFiniteSet(Judges(p)) /\ Cardinality(Judges(p)) \in Nat
<1> TAKE p
<1>1. Judges(p) \in SUBSET Runs
    BY DEF Judges
<1>2. IsFiniteSet(Judges(p))
    BY <1>1, FiniteAssumption, FS_Subset
<1>3. QED
    BY <1>2, FS_CardinalityType

\* What judges nothing, and loses or stores verdicts, keeps their times.
LEMMA TimesStay ==
    ASSUME TimesOk, Reached' \subseteq Reached,
           \A w \in Runs : run'[w].read \ run'[w].todo = run[w].read \ run[w].todo
    PROVE  TimesOk'
<1>1. \A p : Judges(p)' = Judges(p)
    BY DEF Judges
<1>2. QED
    BY <1>1 DEF TimesOk

\* A step of one run leaves the others as they are.
LEMMA OtherRuns ==
    ASSUME RunInv, NEW w \in Runs, NEW new \in Validation, run' = [run EXCEPT ![w] = new],
           job' = job, patch' = patch, results \subseteq results', results' \in SUBSET Verdict, RunOk(w)'
    PROVE  RunTypes' /\ \A x \in Runs : RunOk(x)'
<1>1. run' \in [Runs -> Validation] /\ \A x \in Runs \ {w} : run'[x] = run[x]
    BY DEF RunInv, RunTypes
<1>2. ASSUME NEW x \in Runs \ {w} PROVE RunOk(x)'
    BY <1>1 DEF RunInv, RunOk
<1>3. QED
    BY <1>1, <1>2 DEF RunInv, RunTypes

\* The initial state.
LEMMA RunInit == Init => RunInv
<1> SUFFICES ASSUME Init PROVE RunInv
    OBVIOUS
<1>1. Fresh \in Validation
    BY DEF Fresh, Validation
<1>2. RunTypes
    BY <1>1 DEF Init, RunTypes
<1>3. Reached = {}
    BY DEF Init, Reached, Fresh
<1>4. QED
    BY <1>2, <1>3, JudgesFinite DEF Init, RunInv, RunOk, TimesOk, ResultsOk, Fresh

\* Plans, smells and patches come and change; a deletion takes all of them.
LEMMA OthersKeepRuns == RunInv /\ Others => RunInv'
<1> SUFFICES ASSUME RunInv, Others PROVE RunInv'
    OBVIOUS
<1>1. run' = run /\ \A w \in Runs : run'[w].read \ run'[w].todo = run[w].read \ run[w].todo
    BY DEF Others, MakePlan, MakeTasks, Regenerate, DeleteJob, Dismiss, Generate, Apply, Change
<1>2. ASSUME UNCHANGED <<job, results>>, patch' \in [Patches -> {"unknown", "pending", "applied"}],
             \A p \in Patches : patch[p] # "unknown" => patch'[p] # "unknown"
      PROVE  RunInv'
    <2>1. RunTypes' /\ ResultsOk'
        BY <1>1, <1>2 DEF RunInv, RunTypes, ResultsOk, Verdict
    <2>2. TimesOk'
        BY <1>1, <1>2, TimesStay DEF RunInv, Reached
    <2>3. ASSUME NEW w \in Runs PROVE RunOk(w)'
        <3>1. run[w].read \subseteq Patches
            BY DEF RunInv, RunTypes, Validation
        <3>2. QED
            BY <1>1, <1>2, <3>1 DEF RunInv, RunOk
    <2>4. QED
        BY <2>1, <2>2, <2>3 DEF RunInv
<1>3. ASSUME MakePlan \/ MakeTasks \/ Regenerate \/ \E s \in Smells : Dismiss(s) PROVE RunInv'
    <2>1. UNCHANGED <<job, results, patch>>
        BY <1>3 DEF MakePlan, MakeTasks, Regenerate, Dismiss, Change
    <2>2. QED
        BY <1>2, <2>1 DEF RunInv, RunTypes
<1>4. ASSUME NEW p \in Patches, Generate(p) \/ Apply(p) PROVE RunInv'
    <2>1. UNCHANGED <<job, results>> /\ patch' \in [Patches -> {"unknown", "pending", "applied"}]
          /\ \A q \in Patches : patch[q] # "unknown" => patch'[q] # "unknown"
        BY <1>4 DEF Generate, Apply, Change, RunInv, RunTypes
    <2>2. QED
        BY <1>2, <2>1
<1>5. ASSUME DeleteJob PROVE RunInv'
    <2>1. ~job' /\ results' = {} /\ patch' \in [Patches -> {"unknown", "pending", "applied"}]
        BY <1>5 DEF DeleteJob
    <2>2. RunTypes' /\ ResultsOk'
        BY <1>1, <2>1 DEF RunInv, RunTypes, ResultsOk
    <2>3. TimesOk'
        BY <1>1, <2>1, TimesStay DEF RunInv, Reached
    <2>4. ASSUME NEW w \in Runs PROVE RunOk(w)'
        BY <1>1, <2>1 DEF RunInv, RunOk
    <2>5. QED
        BY <2>2, <2>3, <2>4 DEF RunInv
<1>6. QED
    BY <1>3, <1>4, <1>5 DEF Others

\* A run reads the pending patches: none of them is judged yet.
LEMMA LoadKeepsRuns ==
    ASSUME RunInv, NEW w \in Runs, LoadPatches(w)
    PROVE  RunInv'
<1> DEFINE pending == {p \in Patches : patch[p] = "pending"}
           new == [Fresh EXCEPT !.read = pending, !.todo = pending,
                     !.pc = IF pending = {} THEN "done" ELSE "checks"]
<1>1. run' = [run EXCEPT ![w] = new] /\ run[w].pc = "idle" /\ UNCHANGED <<job, patch, results>>
    BY DEF LoadPatches, rows
<1>2. /\ new \in Validation /\ new.read = pending /\ new.todo = pending /\ new.new = {} /\ new.refused = {}
      /\ new.pc = IF pending = {} THEN "done" ELSE "checks"
    BY DEF Fresh, Validation
<1> HIDE DEF new
<1>3. run'[w] = new /\ \A x \in Runs \ {w} : run'[x] = run[x]
    BY <1>1 DEF RunInv, RunTypes
<1>4. RunOk(w)'
    BY <1>1, <1>2, <1>3 DEF RunOk
<1>5. RunTypes' /\ \A x \in Runs : RunOk(x)'
    BY <1>1, <1>2, <1>4, OtherRuns DEF RunInv, RunTypes
<1>6. TimesOk'
    <2>1. Reached' \subseteq Reached
        BY <1>1, <1>2, <1>3 DEF Reached
    <2>2. \A x \in Runs : run'[x].read \ run'[x].todo = run[x].read \ run[x].todo
        BY <1>1, <1>2, <1>3 DEF RunInv, RunOk
    <2>3. QED
        BY <2>1, <2>2, TimesStay DEF RunInv
<1>7. QED
    BY <1>1, <1>5, <1>6 DEF RunInv, ResultsOk

\* A run judges a patch: the verdict is later than all others on it.
LEMMA JudgingKeepsRuns ==
    ASSUME RunInv, NEW w \in Runs, NEW p \in Patches, NEW verdict \in BOOLEAN, ValidatePatch(w, p, verdict)
    PROVE  RunInv'
<1> DEFINE made == [patch |-> p, by |-> w, at |-> Now(p), passed |-> verdict]
           new == [run[w] EXCEPT !.todo = @ \ {p}, !.new = @ \cup {made},
                                 !.pc = IF run[w].todo = {p} THEN "bulk" ELSE "checks"]
<1>1. /\ run[w] \in Validation /\ p \in run[w].todo /\ run[w].pc = "checks"
      /\ run[w].todo \subseteq run[w].read /\ RunOk(w) /\ UNCHANGED <<job, patch, results>>
    BY DEF ValidatePatch, rows, RunInv, RunTypes, RunOk
<1>2. made \in Verdict /\ made.patch = p /\ made.by = w /\ made.at = Now(p)
    BY JudgesFinite DEF Verdict, Now
<1> HIDE DEF made
<1>3. run' = [run EXCEPT ![w] = new]
    BY DEF ValidatePatch, made, RunInv, RunTypes, Validation
<1>4. /\ new \in Validation /\ new.todo = run[w].todo \ {p} /\ new.new = run[w].new \cup {made}
      /\ new.pc = IF run[w].todo = {p} THEN "bulk" ELSE "checks"
      /\ new.read = run[w].read /\ new.refused = run[w].refused
    BY <1>1, <1>2 DEF Validation
<1> HIDE DEF new
<1>5. run'[w] = new /\ \A x \in Runs \ {w} : run'[x] = run[x]
    BY <1>3 DEF RunInv, RunTypes
<1>6. RunOk(w)'
    BY <1>1, <1>2, <1>4, <1>5 DEF RunOk
<1>7. RunTypes' /\ \A x \in Runs : RunOk(x)'
    BY <1>1, <1>3, <1>4, <1>6, OtherRuns DEF RunInv, RunTypes
<1>8. \A q : q # p => Judges(q)' = Judges(q)
    BY <1>1, <1>4, <1>5 DEF Judges
<1>9. Judges(p)' = Judges(p) \cup {w} /\ w \notin Judges(p)
    BY <1>1, <1>4, <1>5 DEF Judges
<1>10. Cardinality(Judges(p)') = Cardinality(Judges(p)) + 1
    BY <1>9, JudgesFinite, FS_AddElement
<1>11. Reached' = Reached \cup {made}
    BY <1>1, <1>4, <1>5 DEF Reached
<1>12. \A v \in Reached : v.at \in Nat /\ v.at <= Cardinality(Judges(v.patch))
    BY DEF RunInv, RunTypes, TimesOk, Reached, Verdict, Validation
<1>13. TimesOk'
    <2>1. \A v \in Reached : v.patch = p => v.at < Now(p)
        BY <1>12, JudgesFinite DEF Now
    <2>2. \A v \in Reached' : v.at <= Cardinality(Judges(v.patch)')
        <3>1. \A v \in Reached : v.at <= Cardinality(Judges(v.patch)')
            BY <1>8, <1>10, <1>12, JudgesFinite
        <3>2. ASSUME NEW v \in {made} PROVE v.at <= Cardinality(Judges(v.patch)')
            <4>1. v.patch = p /\ v.at = Cardinality(Judges(p)) + 1
                BY <1>2, <3>2 DEF Now
            <4>2. QED
                BY <1>10, <4>1, JudgesFinite
        <3>3. QED
            BY <1>11, <3>1, <3>2
    <2>3. \A v, o \in Reached' : v.patch = o.patch /\ v.at = o.at => v = o
        BY <1>2, <1>11, <1>12, <2>1, JudgesFinite DEF RunInv, TimesOk, Now
    <2>4. QED
        BY <2>2, <2>3 DEF TimesOk
<1>14. QED
    BY <1>1, <1>7, <1>13 DEF RunInv, ResultsOk

\* A run stores some of its verdicts and drops others, and writes down which
\* it was refused.
LEMMA StoringKeepsRuns ==
    ASSUME RunInv, NEW w \in Runs, NEW new \in Validation, run' = [run EXCEPT ![w] = new],
           job' = job, patch' = patch, results \subseteq results',
           results' \subseteq results \cup run[w].new, results' # results => job,
           new.read = run[w].read, new.todo = run[w].todo, run[w].refused \subseteq new.refused,
           new.refused \subseteq run[w].read, new.new \subseteq run[w].new, run[w].todo = {},
           new.pc \in {"single", "done"}, new.pc = "done" => new.new = {},
           \A v \in run[w].new : v \in new.new \/ v \in results' \/ v.patch \in new.refused
    PROVE  RunInv'
<1>1. run'[w] = new /\ \A x \in Runs \ {w} : run'[x] = run[x]
    BY DEF RunInv, RunTypes
<1>2. run[w] \in Validation /\ RunOk(w) /\ results' \in SUBSET Verdict
    BY DEF RunInv, RunTypes, Validation
<1>3. RunOk(w)'
    <2>1. ASSUME job, NEW p \in run[w].read
          PROVE  p \in new.refused \/ \E v \in results' \cup new.new : v.by = w /\ v.patch = p
        <3>1. CASE p \in run[w].refused
            BY <3>1
        <3>2. CASE \E v \in results \cup run[w].new : v.by = w /\ v.patch = p
            BY <3>2
        <3>3. QED
            BY <1>2, <2>1, <3>1, <3>2 DEF RunOk
    <2>2. QED
        BY <1>1, <1>2, <2>1 DEF RunOk
<1>4. RunTypes' /\ \A x \in Runs : RunOk(x)'
    BY <1>2, <1>3, OtherRuns
<1>5. TimesOk'
    <2>1. Reached' \subseteq Reached
        BY <1>1 DEF Reached
    <2>2. \A x \in Runs : run'[x].read \ run'[x].todo = run[x].read \ run[x].todo
        BY <1>1
    <2>3. QED
        BY <2>1, <2>2, TimesStay DEF RunInv
<1>6. ResultsOk'
    <2>1. job => \A v \in run[w].new : patch[v.patch] # "unknown"
        BY <1>2 DEF RunOk
    <2>2. QED
        BY <2>1 DEF RunInv, ResultsOk
<1>7. QED
    BY <1>4, <1>5, <1>6 DEF RunInv

\* RunInv holds at the start, and every step keeps it.
LEMMA RunInvInductive ==
    /\ Init => RunInv
    /\ RunInv /\ [Next]_vars => RunInv'
<1> SUFFICES ASSUME RunInv, [Next]_vars PROVE RunInv'
    BY RunInit
<1>1. ASSUME NEW w \in Runs PROVE run[w] \in Validation /\ RunOk(w) /\ \A v \in run[w].new : v.patch \in Patches
    BY DEF RunInv, RunTypes, Validation, Verdict
<1>2. ASSUME NEW w \in Runs, PersistAll(w) PROVE RunInv'
    <2> DEFINE new == [run[w] EXCEPT !.pc = "done", !.new = {}]
    <2>1. run' = [run EXCEPT ![w] = new]
        BY <1>1, <1>2 DEF PersistAll, RunInv, RunTypes, Validation
    <2>2. /\ new \in Validation /\ new.read = run[w].read /\ new.todo = run[w].todo
          /\ new.refused = run[w].refused /\ new.new = {} /\ new.pc = "done"
        BY <1>1 DEF Validation
    <2> HIDE DEF new
    <2>3. job' = job /\ patch' = patch /\ results' = results \cup run[w].new /\ job
        BY <1>2 DEF PersistAll
    <2>4. run[w].todo = {} /\ run[w].refused \subseteq run[w].read /\ \A x \in run[w].new : x.patch \in run[w].read
        BY <1>1, <1>2 DEF PersistAll, RunOk
    <2>5. QED
        BY <1>1, <2>1, <2>2, <2>3, <2>4, StoringKeepsRuns
<1>3. ASSUME NEW w \in Runs, PersistAllFails(w) PROVE RunInv'
    <2> DEFINE new == [run[w] EXCEPT !.pc = "single"]
    <2>1. run' = [run EXCEPT ![w] = new]
        BY <1>1, <1>3 DEF PersistAllFails, RunInv, RunTypes, Validation
    <2>2. /\ new \in Validation /\ new.read = run[w].read /\ new.todo = run[w].todo
          /\ new.refused = run[w].refused /\ new.new = run[w].new /\ new.pc = "single"
        BY <1>1 DEF Validation
    <2> HIDE DEF new
    <2>3. job' = job /\ patch' = patch /\ results' = results
        BY <1>3 DEF PersistAllFails, rows
    <2>4. run[w].todo = {} /\ run[w].refused \subseteq run[w].read /\ \A x \in run[w].new : x.patch \in run[w].read
        BY <1>1, <1>3 DEF PersistAllFails, RunOk
    <2>5. QED
        BY <1>1, <2>1, <2>2, <2>3, <2>4, StoringKeepsRuns
<1>4. ASSUME NEW w \in Runs, NEW v \in run[w].new, PersistRow(w, v) PROVE RunInv'
    <2> DEFINE new == [run[w] EXCEPT !.new = @ \ {v}, !.pc = IF run[w].new = {v} THEN "done" ELSE "single"]
    <2>1. run' = [run EXCEPT ![w] = new]
        BY <1>1, <1>4 DEF PersistRow, RunInv, RunTypes, Validation
    <2>2. /\ new \in Validation /\ new.read = run[w].read /\ new.todo = run[w].todo
          /\ new.refused = run[w].refused /\ new.new = run[w].new \ {v}
          /\ new.pc = IF run[w].new = {v} THEN "done" ELSE "single"
        BY <1>1 DEF Validation
    <2> HIDE DEF new
    <2>3. job' = job /\ patch' = patch /\ results' = results \cup {v} /\ job
        BY <1>4 DEF PersistRow
    <2>4. run[w].todo = {} /\ run[w].refused \subseteq run[w].read /\ \A x \in run[w].new : x.patch \in run[w].read
        BY <1>1, <1>4 DEF PersistRow, RunOk
    <2>5. QED
        BY <1>1, <1>4, <2>1, <2>2, <2>3, <2>4, StoringKeepsRuns
<1>5. ASSUME NEW w \in Runs, NEW v \in run[w].new, PersistRowFails(w, v) PROVE RunInv'
    <2> DEFINE new == [run[w] EXCEPT !.new = @ \ {v}, !.refused = @ \cup {v.patch},
                                     !.pc = IF run[w].new = {v} THEN "done" ELSE "single"]
    <2>1. run' = [run EXCEPT ![w] = new]
        BY <1>1, <1>5 DEF PersistRowFails, RunInv, RunTypes, Validation
    <2>2. /\ new \in Validation /\ new.read = run[w].read /\ new.todo = run[w].todo
          /\ new.refused = run[w].refused \cup {v.patch} /\ new.new = run[w].new \ {v}
          /\ new.pc = IF run[w].new = {v} THEN "done" ELSE "single"
        BY <1>1 DEF Validation
    <2> HIDE DEF new
    <2>3. job' = job /\ patch' = patch /\ results' = results
        BY <1>5 DEF PersistRowFails, rows
    <2>4. run[w].todo = {} /\ run[w].refused \subseteq run[w].read /\ \A x \in run[w].new : x.patch \in run[w].read
        BY <1>1, <1>5 DEF PersistRowFails, RunOk
    <2>5. QED
        BY <1>1, <1>5, <2>1, <2>2, <2>3, <2>4, StoringKeepsRuns
<1>6. ASSUME UNCHANGED <<rows, run>> PROVE RunInv'
    <2>1. UNCHANGED <<job, patch, results, run>>
        BY <1>6 DEF rows
    <2>2. Reached' = Reached /\ \A p : Judges(p)' = Judges(p)
        BY <2>1 DEF Reached, Judges
    <2>3. QED
        BY <2>1, <2>2 DEF RunInv, RunTypes, RunOk, TimesOk, ResultsOk
<1>7. QED
    BY <1>2, <1>3, <1>4, <1>5, <1>6, OthersKeepRuns, LoadKeepsRuns, JudgingKeepsRuns, RequestFrame
       DEF Next, Validate, vars

(* A refused verdict costs itself only: when the job is still there, every *)
(* other patch a finished run has read has its verdict in the table, also  *)
(* when the statement for all of them failed (_persist_results).           *)
THEOREM RefusedVerdictsCostThemselves == Spec => []RefusedVerdictCostsItself
<1>1. RunInv => RefusedVerdictCostsItself
    BY DEF RunInv, RunOk, RefusedVerdictCostsItself
<1>2. QED
    BY <1>1, RunInvInductive, PTL DEF Spec

-----------------------------------------------------------------------------
(* RequestInv is kept.                                                     *)

\* The record of no request.
LEMMA IdleType == Idle \in Record
<1>1. NoData \in Data
    BY DEF NoData, Data
<1>2. QED
    BY <1>1 DEF Idle, Record, Pcs, Answers

\* A request moves on; nothing is committed.
LEMMA RequestMoves ==
    ASSUME RequestInv, NEW r \in Requests, NEW q \in Record, req' = [req EXCEPT ![r] = q],
           UNCHANGED <<job, smells, plans, stored>>,
           redis' \in Requests \cup {None}, listed' # None => listed' \subseteq Requests,
           PlaceOk(r)', DataOk(r)', OwnOk(r)', FoundOk(r)'
    PROVE  RequestInv'
<1>1. req' \in [Requests -> Record] /\ req'[r] = q /\ \A x \in Requests \ {r} : req'[x] = req[x]
    BY DEF RequestInv, RequestTypes
<1>2. RequestTypes'
    BY <1>1 DEF RequestInv, RequestTypes
<1>3. ASSUME NEW x \in Requests \ {r} PROVE PlaceOk(x)' /\ DataOk(x)' /\ OwnOk(x)' /\ FoundOk(x)'
    <2>1. PlaceOk(x)' /\ DataOk(x)' /\ FoundOk(x)'
        BY <1>1 DEF RequestInv, PlaceOk, DataOk, FoundOk
    <2>2. OwnOk(x)'
        BY <1>1 DEF RequestInv, OwnOk
    <2>3. QED
        BY <2>1, <2>2
<1>4. QED
    BY <1>2, <1>3 DEF RequestInv

\* A request goes from one place to another, and keeps what it has read.
LEMMA PlaceMoves ==
    ASSUME RequestInv, NEW r \in Requests, NEW pc \in Pcs, req' = [req EXCEPT ![r].pc = pc],
           UNCHANGED <<job, smells, plans, stored>>,
           redis' \in Requests \cup {None}, listed' # None => listed' \subseteq Requests,
           PlaceOk(r)', OwnOk(r)', FoundOk(r)'
    PROVE  RequestInv'
<1> DEFINE q == [req[r] EXCEPT !.pc = pc]
<1>1. req[r] \in Record /\ DataOk(r)
    BY DEF RequestInv, RequestTypes
<1>2. q \in Record /\ req' = [req EXCEPT ![r] = q] /\ q.data = req[r].data
    BY <1>1 DEF RequestInv, RequestTypes, Record
<1> HIDE DEF q
<1>3. DataOk(r)'
    BY <1>1, <1>2 DEF DataOk, RequestInv, RequestTypes
<1>4. QED
    BY <1>2, <1>3, RequestMoves

\* A request reads something more for its report.
LEMMA DataMoves ==
    ASSUME RequestInv, NEW r \in Requests, NEW pc \in Pcs, NEW d \in Data,
           req' = [req EXCEPT ![r].pc = pc, ![r].data = d],
           UNCHANGED <<job, smells, plans, stored, redis, listed>>,
           req[r].pc \in Building \ {"publish", "commit"}, pc \in Building \ {"publish", "commit"},
           pc = "insert" => req[r].kind = "json",
           pc \notin {"insert", "send"} => d.verdicts = {},
           pc \notin {"patches", "results", "insert", "send"} => d.tasks = {},
           d.tasks \subseteq TasksOf(d.plan),
           {v.patch : v \in d.verdicts} \subseteq d.patches,
           \A v, o \in d.verdicts : v.patch = o.patch => v = o
    PROVE  RequestInv'
<1> DEFINE q == [req[r] EXCEPT !.pc = pc, !.data = d]
<1>1. req[r] \in Record /\ PlaceOk(r) /\ OwnOk(r) /\ FoundOk(r)
    BY DEF RequestInv, RequestTypes
<1>2. /\ q \in Record /\ req' = [req EXCEPT ![r] = q] /\ q.pc = pc /\ q.data = d
      /\ q.kind = req[r].kind /\ q.found = req[r].found /\ q.own = req[r].own /\ q.answer = req[r].answer
    BY <1>1 DEF RequestInv, RequestTypes, Record
<1> HIDE DEF q
<1>3. req'[r] = q
    BY <1>2 DEF RequestInv, RequestTypes
<1>4. PlaceOk(r)' /\ DataOk(r)'
    BY <1>2, <1>3 DEF PlaceOk, DataOk, Building
<1>5. OwnOk(r)' /\ FoundOk(r)'
    BY <1>1, <1>2, <1>3 DEF OwnOk, FoundOk
<1>6. redis' \in Requests \cup {None} /\ (listed' # None => listed' \subseteq Requests)
    BY DEF RequestInv, RequestTypes
<1>7. QED
    BY <1>2, <1>4, <1>5, <1>6, RequestMoves

\* A request ends; an export has shown what is stored if it knew of it.
LEMMA EndKeeps ==
    ASSUME RequestInv, NEW r \in Requests, NEW answer \in Answers, End(r, answer),
           UNCHANGED <<job, smells, plans, stored>>,
           redis' \in Requests \cup {None}, listed' # None => listed' \subseteq Requests,
           req[r].kind = "export" /\ job /\ req[r].found # None => answer = req[r].found
    PROVE  RequestInv'
<1> DEFINE q == IF req[r].kind = "export"
                THEN [Idle EXCEPT !.kind = "export", !.found = req[r].found, !.pc = "done", !.answer = answer]
                ELSE Idle
<1>1. req[r] \in Record /\ FoundOk(r)
    BY DEF RequestInv, RequestTypes
<1>2. /\ q \in Record /\ req' = [req EXCEPT ![r] = q] /\ q.data = NoData /\ ~q.own
      /\ IF req[r].kind = "export" THEN q.pc = "done" /\ q.found = req[r].found /\ q.answer = answer
                                   ELSE q.pc = "idle" /\ q.found = None
    BY <1>1, IdleType DEF End, Idle, Record, Pcs
<1> HIDE DEF q
<1>3. req'[r] = q
    BY <1>2 DEF RequestInv, RequestTypes
<1>4. PlaceOk(r)' /\ DataOk(r)' /\ OwnOk(r)'
    BY <1>2, <1>3 DEF PlaceOk, DataOk, OwnOk, NoData, TasksOf
<1>5. FoundOk(r)'
    BY <1>1, <1>2, <1>3 DEF FoundOk, Building
<1>6. QED
    BY <1>2, <1>4, <1>5, RequestMoves

\* The newest verdict on a patch is one.
LEMMA LatestIsOne ==
    ASSUME RunInv, NEW ps \in SUBSET Patches
    PROVE  /\ Latest(ps) \in SUBSET Verdict
           /\ {v.patch : v \in Latest(ps)} \subseteq ps
           /\ \A v, o \in Latest(ps) : v.patch = o.patch => v = o
<1>1. results \in SUBSET Verdict /\ \A v, o \in results : v.patch = o.patch /\ v.at = o.at => v = o
    BY DEF RunInv, RunTypes, TimesOk, Reached
<1>2. Latest(ps) \subseteq results /\ {v.patch : v \in Latest(ps)} \subseteq ps
    BY DEF Latest
<1>3. ASSUME NEW v \in Latest(ps), NEW o \in Latest(ps), v.patch = o.patch PROVE v = o
    <2>1. v \in results /\ o \in results /\ v.at \in Nat /\ o.at \in Nat
        BY <1>1, <1>2 DEF Verdict
    <2>2. o.at <= v.at /\ v.at <= o.at
        BY <1>3, <2>1 DEF Latest
    <2>3. QED
        BY <1>1, <1>3, <2>1, <2>2
<1>4. QED
    BY <1>1, <1>2, <1>3

\* The plans of a job, as they are first and as they grow.
LEMMA PlanSequences ==
    LET Kinds3 == {"planned", "filled", "empty"} IN
    /\ <<>> \in Seq(Kinds3) /\ <<"planned">> \in Seq(Kinds3) /\ <<"filled">> \in Seq(Kinds3)
    /\ \A s \in Seq(Kinds3) : Append(s, "empty") \in Seq(Kinds3) /\ [s EXCEPT ![1] = "filled"] \in Seq(Kinds3)
<1> DEFINE Kinds3 == {"planned", "filled", "empty"}
<1>1. "planned" \in Kinds3 /\ "filled" \in Kinds3 /\ "empty" \in Kinds3
    OBVIOUS
<1> HIDE DEF Kinds3
<1>2. <<>> \in Seq(Kinds3)
    OBVIOUS
<1>3. <<"planned">> \in Seq(Kinds3)
    BY <1>1
<1>4. <<"filled">> \in Seq(Kinds3)
    BY <1>1
<1>5. \A s \in Seq(Kinds3) : Append(s, "empty") \in Seq(Kinds3)
    BY <1>1
<1>6. ASSUME NEW s \in Seq(Kinds3) PROVE [s EXCEPT ![1] = "filled"] \in Seq(Kinds3)
    <2>1. Len(s) \in Nat /\ s \in [1..Len(s) -> Kinds3]
        OBVIOUS
    <2>2. [s EXCEPT ![1] = "filled"] \in [1..Len(s) -> Kinds3]
        BY <1>1, <2>1
    <2>3. QED
        BY <2>1, <2>2
<1>7. QED
    BY <1>2, <1>3, <1>4, <1>5, <1>6 DEF Kinds3

\* The initial state.
LEMMA RequestInit == Init => RequestInv
<1> SUFFICES ASSUME Init PROVE RequestInv
    OBVIOUS
<1>1. plans \in Seq({"planned", "filled", "empty"})
    BY PlanSequences DEF Init
<1>2. RequestTypes
    BY <1>1, IdleType DEF Init, RequestTypes
<1>3. QED
    BY <1>2 DEF Init, RequestInv, PlaceOk, DataOk, OwnOk, FoundOk, Idle, NoData, TasksOf

\* What a step leaves as it is, as far as no request takes it.
LEMMA OthersKeepRequests == RequestInv /\ (Others \/ ExpireReport \/ ExpireList) => RequestInv'
<1> SUFFICES ASSUME RequestInv, Others \/ ExpireReport \/ ExpireList PROVE RequestInv'
    OBVIOUS
<1>1. ASSUME UNCHANGED <<job, stored, req>>, smells' \subseteq Smells,
             plans' \in Seq({"planned", "filled", "empty"}), job \/ plans' = plans,
             redis' \in {redis, None}, listed' \in {listed, None}
      PROVE  RequestInv'
    BY <1>1 DEF RequestInv, RequestTypes, PlaceOk, DataOk, OwnOk, FoundOk
<1>2. ASSUME MakePlan \/ MakeTasks \/ Regenerate \/ (\E s \in Smells : Dismiss(s))
                 \/ \E p \in Patches : Generate(p) \/ Apply(p)
      PROVE  RequestInv'
    <2>1. UNCHANGED <<job, stored, req, redis, listed>> /\ job
        BY <1>2 DEF MakePlan, MakeTasks, Regenerate, Dismiss, Generate, Apply, Change
    <2>2. smells' \subseteq Smells
        BY <1>2 DEF MakePlan, MakeTasks, Regenerate, Dismiss, Generate, Apply, RequestInv, RequestTypes
    <2>3. plans' \in Seq({"planned", "filled", "empty"})
        <3>1. plans' \in {plans, <<"planned">>, Append(plans, "empty"), [plans EXCEPT ![1] = "filled"]}
            BY <1>2 DEF MakePlan, MakeTasks, Regenerate, Dismiss, Generate, Apply
        <3>2. plans \in Seq({"planned", "filled", "empty"})
            BY DEF RequestInv, RequestTypes
        <3>3. QED
            BY <3>1, <3>2, PlanSequences
    <2>4. QED
        BY <1>1, <2>1, <2>2, <2>3
<1>3. ASSUME DeleteJob PROVE RequestInv'
    <2>1. UNCHANGED <<req, redis, listed>> /\ job' = FALSE /\ smells' = {} /\ plans' = <<>> /\ stored' = None
          /\ \A r \in Requests : ~req[r].own
        BY <1>3 DEF DeleteJob
    <2>2. RequestTypes'
        <3>1. plans' \in Seq({"planned", "filled", "empty"})
            BY <2>1, PlanSequences
        <3>2. {stored', redis'} \subseteq Requests \cup {None} /\ (listed' # None => listed' \subseteq Requests)
              /\ req' \in [Requests -> Record] /\ job' \in BOOLEAN /\ smells' \subseteq Smells
            BY <2>1 DEF RequestInv, RequestTypes
        <3>3. QED
            BY <2>1, <3>1, <3>2 DEF RequestTypes
    <2>3. ASSUME NEW r \in Requests PROVE PlaceOk(r)' /\ DataOk(r)' /\ OwnOk(r)' /\ FoundOk(r)'
        BY <2>1 DEF RequestInv, PlaceOk, DataOk, OwnOk, FoundOk
    <2>4. QED
        BY <2>2, <2>3 DEF RequestInv
<1>4. ASSUME ExpireReport \/ ExpireList PROVE RequestInv'
    BY <1>1, <1>4 DEF ExpireReport, ExpireList, rows, RequestInv, RequestTypes
<1>5. QED
    BY <1>2, <1>3, <1>4 DEF Others

\* The table and Redis as a step finds and leaves them.
Kept == UNCHANGED <<job, smells, plans, stored>>
CopiesOk == redis' \in Requests \cup {None} /\ (listed' # None => listed' \subseteq Requests)

LEMMA KeptByRows ==
    ASSUME RequestInv, UNCHANGED <<rows, stored>>, redis' = redis, listed' = listed
    PROVE  Kept /\ CopiesOk
BY DEF rows, Kept, CopiesOk, RequestInv, RequestTypes

\* The steps before a report is built.
LEMMA ArrivalKeeps ==
    ASSUME RequestInv, NEW r \in Requests, FindJob(r) \/ ReadRedis(r) \/ ReadRow(r) \/ CopyRow(r)
    PROVE  RequestInv'
<1> USE DEF Kept, CopiesOk
<1>1. /\ req[r] \in Record /\ PlaceOk(r) /\ DataOk(r) /\ OwnOk(r) /\ FoundOk(r) /\ req \in [Requests -> Record]
      /\ stored \in Answers /\ redis \in Answers /\ None \in Answers
    BY DEF RequestInv, RequestTypes, Answers
<1>2. Kept
    BY KeptByRows DEF FindJob, ReadRedis, ReadRow, CopyRow, rows
<1>3. CopiesOk
    <2>1. CASE CopyRow(r)
        BY <1>1, <2>1 DEF CopyRow, PlaceOk, RequestInv, RequestTypes
    <2>2. CASE redis' = redis /\ listed' = listed
        BY <2>2 DEF RequestInv, RequestTypes
    <2>3. QED
        BY <2>1, <2>2 DEF FindJob, ReadRedis, ReadRow
<1>4. ASSUME NEW pc \in {"redis", "row", "smells"}, req' = [req EXCEPT ![r].pc = pc],
             req[r].pc \in {"job", "redis", "row"}, pc = "redis" => req[r].kind = "json",
             pc = "smells" => stored = None
      PROVE  RequestInv'
    <2>1. pc \in Pcs
        BY DEF Pcs
    <2>2. PlaceOk(r)' /\ OwnOk(r)' /\ FoundOk(r)'
        BY <1>1, <1>2, <1>4 DEF PlaceOk, OwnOk, FoundOk, Building
    <2>3. QED
        BY <1>2, <1>3, <1>4, <2>1, <2>2, PlaceMoves
<1>5. CASE FindJob(r)
    BY <1>1, <1>2, <1>3, <1>4, <1>5, EndKeeps DEF FindJob
<1>6. CASE ReadRedis(r)
    BY <1>1, <1>2, <1>3, <1>4, <1>6, EndKeeps DEF ReadRedis, PlaceOk
<1>7. CASE ReadRow(r) /\ req' = [req EXCEPT ![r].pc = "copy", ![r].answer = stored] /\ req[r].kind = "json"
    <2> DEFINE q == [req[r] EXCEPT !.pc = "copy", !.answer = stored]
    <2>1. /\ q \in Record /\ req' = [req EXCEPT ![r] = q] /\ q.pc = "copy" /\ q.answer = stored /\ q.data = req[r].data
          /\ q.kind = "json" /\ q.found = req[r].found /\ q.own = req[r].own /\ req[r].pc = "row"
        BY <1>1, <1>7 DEF Record, Pcs, ReadRow
    <2> HIDE DEF q
    <2>2. req'[r] = q /\ stored \in Requests \cup {None}
        BY <1>1, <2>1 DEF RequestInv, RequestTypes
    <2>3. PlaceOk(r)' /\ DataOk(r)' /\ OwnOk(r)' /\ FoundOk(r)'
        BY <1>1, <1>2, <2>1, <2>2 DEF PlaceOk, DataOk, OwnOk, FoundOk, Building
    <2>4. QED
        BY <1>2, <1>3, <2>1, <2>3, RequestMoves
<1>8. CASE ReadRow(r) /\ ~(req' = [req EXCEPT ![r].pc = "copy", ![r].answer = stored] /\ req[r].kind = "json")
    BY <1>1, <1>2, <1>3, <1>4, <1>8, EndKeeps DEF ReadRow, FoundOk
<1>9. CASE CopyRow(r)
    <2>1. End(r, req[r].answer) /\ req[r].kind = "json" /\ req[r].answer \in Answers
        BY <1>1, <1>9 DEF CopyRow, PlaceOk, Answers
    <2>2. req[r].kind = "export" /\ job /\ req[r].found # None => req[r].answer = req[r].found
        BY <2>1
    <2>3. QED
        BY <1>2, <1>3, <2>1, <2>2, EndKeeps
<1>10. QED
    BY <1>5, <1>6, <1>7, <1>8, <1>9

\* The next place of a request that builds a report, and what it knows there.
Reads(r, pc, e) ==
    /\ pc \in Pcs /\ e \in Data
    /\ req' = [req EXCEPT ![r].pc = pc, ![r].data = e]
    /\ req[r].pc \in Building \ {"publish", "commit"} /\ pc \in Building \ {"publish", "commit"}
    /\ pc = "insert" => req[r].kind = "json"
    /\ pc \notin {"insert", "send"} => e.verdicts = {}
    /\ pc \notin {"patches", "results", "insert", "send"} => e.tasks = {}
    /\ e.tasks \subseteq TasksOf(e.plan)
    /\ {v.patch : v \in e.verdicts} \subseteq e.patches
    /\ \A v, o \in e.verdicts : v.patch = o.patch => v = o

\* The steps that build a report: each reads one more part of it.
LEMMA BuildingKeeps ==
    ASSUME RunInv, RequestInv, NEW r \in Requests,
           ReadSmells(r) \/ ReadPlan(r) \/ ReadTasks(r) \/ ReadPatches(r) \/ ReadResults(r)
    PROVE  RequestInv'
<1>1. /\ req[r] \in Record /\ PlaceOk(r) /\ DataOk(r) /\ req \in [Requests -> Record]
      /\ smells \subseteq Smells /\ plans \in Seq({"planned", "filled", "empty"})
    BY DEF RequestInv, RequestTypes
<1>2. UNCHANGED <<job, smells, plans, stored, redis, listed>>
    BY DEF ReadSmells, ReadPlan, ReadTasks, ReadPatches, ReadResults, rows
<1> DEFINE d == req[r].data
<1>3. /\ d \in Data /\ d.tasks \subseteq TasksOf(d.plan) /\ {v.patch : v \in d.verdicts} \subseteq d.patches
      /\ \A v, o \in d.verdicts : v.patch = o.patch => v = o
    BY <1>1 DEF Record, DataOk
<1>4. ASSUME NEW pc, NEW e, Reads(r, pc, e) PROVE RequestInv'
    BY <1>2, <1>4, DataMoves DEF Reads
<1> HIDE DEF d
<1>5. CASE ReadSmells(r)
    <2> DEFINE e == [d EXCEPT !.smells = smells]
    <2>1. /\ e \in Data /\ e.plan = d.plan /\ e.tasks = d.tasks /\ e.patches = d.patches /\ e.verdicts = d.verdicts
        BY <1>1, <1>3 DEF Data
    <2>2. req' = [req EXCEPT ![r].pc = "plan", ![r].data = e] /\ req[r].pc = "smells"
        BY <1>1, <1>5 DEF ReadSmells, Record, d
    <2>3. d.verdicts = {} /\ d.tasks = {}
        BY <1>1, <2>2 DEF PlaceOk, d
    <2> HIDE DEF e
    <2>4. Reads(r, "plan", e)
        BY <1>3, <2>1, <2>2, <2>3 DEF Pcs, Building, Reads
    <2>5. QED
        BY <1>4, <2>4
<1>6. CASE ReadPlan(r)
    <2> DEFINE e == [d EXCEPT !.plan = Len(plans)]
               pc == IF plans = <<>> THEN "patches" ELSE "tasks"
    <2>1. /\ e \in Data /\ e.tasks = d.tasks /\ e.patches = d.patches /\ e.verdicts = d.verdicts
        <3>1. Len(plans) \in Nat
            BY <1>1
        <3>2. QED
            BY <1>3, <3>1 DEF Data
    <2>2. req' = [req EXCEPT ![r].pc = pc, ![r].data = e] /\ req[r].pc = "plan"
        BY <1>1, <1>6 DEF ReadPlan, Record, d
    <2>3. d.verdicts = {} /\ d.tasks = {}
        BY <1>1, <2>2 DEF PlaceOk, d
    <2>4. pc \in {"patches", "tasks"}
        OBVIOUS
    <2> HIDE DEF e, pc
    <2>5. Reads(r, pc, e)
        BY <1>3, <2>1, <2>2, <2>3, <2>4 DEF Pcs, Building, Reads
    <2>6. QED
        BY <1>4, <2>5
<1>7. CASE ReadTasks(r)
    <2> DEFINE ts == IF d.plan \in DOMAIN plans /\ plans[d.plan] = "filled" THEN TasksOf(d.plan) ELSE {}
               e == [d EXCEPT !.tasks = ts]
    <2>1. ts \subseteq TasksOf(d.plan) /\ ts \in SUBSET (Nat \X (1..2))
        BY <1>3 DEF Data, TasksOf
    <2>2. req' = [req EXCEPT ![r].pc = "patches", ![r].data = e] /\ req[r].pc = "tasks"
        BY <1>1, <1>7 DEF ReadTasks, Record, d
    <2> HIDE DEF ts
    <2>3. /\ e \in Data /\ e.plan = d.plan /\ e.tasks = ts /\ e.patches = d.patches /\ e.verdicts = d.verdicts
        BY <1>3, <2>1 DEF Data
    <2>4. d.verdicts = {}
        BY <1>1, <2>2 DEF PlaceOk, d
    <2> HIDE DEF e
    <2>5. Reads(r, "patches", e)
        BY <1>3, <2>1, <2>2, <2>3, <2>4 DEF Pcs, Building, Reads
    <2>6. QED
        BY <1>4, <2>5
<1>8. CASE ReadPatches(r)
    <2> DEFINE ps == {p \in Patches : patch[p] # "unknown"}
               e == [d EXCEPT !.patches = ps]
               pc == IF ps = {} THEN Built(req[r].kind) ELSE "results"
    <2>1. req' = [req EXCEPT ![r].pc = pc, ![r].data = e] /\ req[r].pc = "patches"
        BY <1>1, <1>8 DEF ReadPatches, Record, d
    <2>2. ps \in SUBSET Patches
        OBVIOUS
    <2>3. pc \in {"insert", "send", "results"} /\ (pc = "insert" => req[r].kind = "json")
        BY DEF Built
    <2> HIDE DEF ps, pc
    <2>4. /\ e \in Data /\ e.plan = d.plan /\ e.tasks = d.tasks /\ e.patches = ps /\ e.verdicts = d.verdicts
        BY <1>3, <2>2 DEF Data
    <2>5. d.verdicts = {}
        BY <1>1, <2>1 DEF PlaceOk, d
    <2> HIDE DEF e
    <2>6. Reads(r, pc, e)
        BY <1>3, <2>1, <2>2, <2>3, <2>4, <2>5 DEF Pcs, Building, Reads
    <2>7. QED
        BY <1>4, <2>6
<1>9. CASE ReadResults(r)
    <2> DEFINE e == [d EXCEPT !.verdicts = Latest(d.patches)]
               pc == Built(req[r].kind)
    <2>1. req' = [req EXCEPT ![r].pc = pc, ![r].data = e] /\ req[r].pc = "results"
        BY <1>1, <1>9 DEF ReadResults, Record, d
    <2>2. d.patches \in SUBSET Patches
        BY <1>3 DEF Data
    <2>3. /\ Latest(d.patches) \in SUBSET Verdict /\ {v.patch : v \in Latest(d.patches)} \subseteq d.patches
          /\ \A v, o \in Latest(d.patches) : v.patch = o.patch => v = o
        BY <2>2, LatestIsOne
    <2>4. pc \in {"insert", "send"} /\ (pc = "insert" => req[r].kind = "json")
        BY DEF Built
    <2> HIDE DEF pc
    <2>5. /\ e \in Data /\ e.plan = d.plan /\ e.tasks = d.tasks /\ e.patches = d.patches
          /\ e.verdicts = Latest(d.patches)
        BY <1>3, <2>3 DEF Data
    <2> HIDE DEF e
    <2>6. Reads(r, pc, e)
        BY <1>3, <2>1, <2>3, <2>4, <2>5 DEF Pcs, Building, Reads
    <2>7. QED
        BY <1>4, <2>6
<1>10. QED
    BY <1>5, <1>6, <1>7, <1>8, <1>9

\* A request ends without an answer that counts: an export that knew of a
\* stored report is not building one.
LEMMA SendKeeps ==
    ASSUME RequestInv, NEW r \in Requests, Send(r)
    PROVE  RequestInv'
<1>1. FoundOk(r) /\ r \in Answers /\ req[r].pc = "send" /\ End(r, r)
    BY DEF RequestInv, Send, Answers
<1>2. Kept /\ CopiesOk
    BY KeptByRows DEF Send
<1>3. ~(job /\ req[r].found # None)
    BY <1>1 DEF FoundOk, Building
<1>4. QED
    BY <1>1, <1>2, <1>3, EndKeeps DEF Kept, CopiesOk

\* The insert: it is let in when nobody else's is under way.
LEMMA InsertKeeps ==
    ASSUME RequestInv, NEW r \in Requests, Insert(r) \/ InsertRefused(r)
    PROVE  RequestInv'
<1> DEFINE own == req[r].own \/ Insert(r)
           q == [req[r] EXCEPT !.pc = "publish", !.own = own, !.data = NoData]
<1>1. /\ req[r] \in Record /\ PlaceOk(r) /\ OwnOk(r) /\ FoundOk(r) /\ req \in [Requests -> Record]
      /\ req[r].pc = "insert" /\ req[r].own = FALSE /\ NoData \in Data
    BY DEF RequestInv, RequestTypes, Insert, InsertRefused, OwnOk, Record, NoData, Data
<1>2. Kept /\ CopiesOk
    BY KeptByRows DEF Insert, InsertRefused
<1>3. own => job /\ stored = None /\ \A x \in Requests : ~req[x].own
    BY <1>1 DEF Insert
<1>4. req' = [req EXCEPT ![r] = q]
    <2>1. CASE Insert(r)
        BY <1>1, <2>1 DEF Insert, Record
    <2>2. CASE ~Insert(r)
        <3>1. own = FALSE
            BY <1>1, <2>2
        <3>2. req' = [req EXCEPT ![r].pc = "publish", ![r].data = NoData]
            BY <2>2 DEF InsertRefused
        <3>3. [req[r] EXCEPT !.pc = "publish", !.own = FALSE, !.data = NoData]
              = [req[r] EXCEPT !.pc = "publish", !.data = NoData]
            BY <1>1 DEF Record
        <3>4. QED
            BY <1>1, <3>1, <3>2, <3>3
    <2>3. QED
        BY <2>1, <2>2
<1>5. own \in BOOLEAN
    BY <1>1
<1> HIDE DEF own
<1>6. /\ q \in Record /\ q.pc = "publish" /\ q.own = own /\ q.data = NoData
      /\ q.kind = req[r].kind /\ q.found = req[r].found /\ q.answer = req[r].answer
    BY <1>1, <1>5 DEF Record, Pcs
<1> HIDE DEF q
<1>7. req'[r] = q /\ \A x \in Requests \ {r} : req'[x] = req[x]
    BY <1>1, <1>4
<1>8. PlaceOk(r)' /\ DataOk(r)'
    BY <1>1, <1>6, <1>7 DEF PlaceOk, DataOk, NoData
<1>9. OwnOk(r)'
    BY <1>2, <1>3, <1>6, <1>7 DEF OwnOk, Kept
<1>10. FoundOk(r)'
    BY <1>1, <1>2, <1>6, <1>7 DEF FoundOk, Building, Kept
<1>11. QED
    BY <1>2, <1>4, <1>6, <1>8, <1>9, <1>10, RequestMoves DEF Kept, CopiesOk

\* What was built is shown to others before it is stored.
LEMMA PublishKeeps ==
    ASSUME RequestInv, NEW r \in Requests, Publish(r)
    PROVE  RequestInv'
<1>1. /\ req[r] \in Record /\ PlaceOk(r) /\ OwnOk(r) /\ FoundOk(r) /\ req \in [Requests -> Record]
      /\ req[r].pc = "publish" /\ req' = [req EXCEPT ![r].pc = "commit"]
    BY DEF RequestInv, RequestTypes, Publish
<1>2. Kept /\ CopiesOk
    BY DEF Publish, Kept, CopiesOk, rows, RequestInv, RequestTypes
<1>3. req'[r] = [req[r] EXCEPT !.pc = "commit"] /\ \A x \in Requests \ {r} : req'[x] = req[x]
    BY <1>1
<1>4. /\ req'[r].pc = "commit" /\ req'[r].kind = req[r].kind /\ req'[r].found = req[r].found
      /\ req'[r].own = req[r].own /\ req'[r].data = req[r].data /\ req'[r].answer = req[r].answer
    BY <1>1, <1>3 DEF Record
<1>5. PlaceOk(r)'
    BY <1>1, <1>4 DEF PlaceOk
<1>6. OwnOk(r)' /\ FoundOk(r)'
    BY <1>1, <1>2, <1>3, <1>4 DEF OwnOk, FoundOk, Building, Kept
<1>7. "commit" \in Pcs
    BY DEF Pcs
<1>8. QED
    BY <1>1, <1>2, <1>5, <1>6, <1>7, PlaceMoves DEF Kept, CopiesOk

\* The one insert under way is committed: nobody has found a report before.
LEMMA CommitKeeps ==
    ASSUME RequestInv, NEW r \in Requests, Commit(r)
    PROVE  RequestInv'
<1>1. /\ RequestTypes /\ req[r] \in Record /\ PlaceOk(r) /\ OwnOk(r) /\ FoundOk(r)
      /\ req[r].pc = "commit" /\ End(r, r) /\ r \in Answers
    BY DEF RequestInv, RequestTypes, Commit, Answers
<1>2. req[r].kind = "json" /\ req' = [req EXCEPT ![r] = Idle]
    BY <1>1 DEF PlaceOk, End
<1>3. UNCHANGED <<job, smells, plans, redis, listed>> /\ stored' = IF req[r].own THEN r ELSE stored
    BY DEF Commit, rows
<1>4. CASE ~req[r].own
    <2>1. UNCHANGED <<job, smells, plans, stored>> /\ CopiesOk
        BY <1>1, <1>3, <1>4 DEF CopiesOk, RequestTypes
    <2>2. req[r].kind = "export" /\ job /\ req[r].found # None => r = req[r].found
        BY <1>2
    <2>3. QED
        BY <1>1, <2>1, <2>2, EndKeeps DEF CopiesOk
<1>5. CASE req[r].own
    <2>1. job /\ stored = None /\ \A x \in Requests : req[x].own => x = r
        BY <1>1, <1>5 DEF OwnOk
    <2>2. req'[r] = Idle /\ \A x \in Requests \ {r} : req'[x] = req[x]
        BY <1>1, <1>2 DEF RequestTypes
    <2>3. req' \in [Requests -> Record]
        BY <1>1, <1>2, IdleType DEF RequestTypes
    <2>4. RequestTypes'
        BY <1>1, <1>3, <1>5, <2>1, <2>3 DEF RequestTypes
    <2>5. PlaceOk(r)' /\ DataOk(r)' /\ OwnOk(r)' /\ FoundOk(r)'
        BY <2>2 DEF PlaceOk, DataOk, OwnOk, FoundOk, Idle, NoData, TasksOf
    <2>6. ASSUME NEW x \in Requests \ {r} PROVE PlaceOk(x)' /\ DataOk(x)' /\ OwnOk(x)' /\ FoundOk(x)'
        <3>1. PlaceOk(x)' /\ DataOk(x)'
            BY <2>2 DEF RequestInv, PlaceOk, DataOk
        <3>2. ~req[x].own
            BY <2>1
        <3>3. OwnOk(x)'
            BY <2>2, <3>2 DEF OwnOk
        <3>4. req[x].found = None
            <4>1. req[x] \in Record /\ FoundOk(x)
                BY DEF RequestInv, RequestTypes
            <4>2. QED
                BY <2>1, <4>1 DEF FoundOk
        <3>5. FoundOk(x)'
            BY <2>2, <3>4 DEF FoundOk
        <3>6. QED
            BY <3>1, <3>3, <3>5
    <2>7. QED
        BY <2>4, <2>5, <2>6 DEF RequestInv
<1>6. QED
    BY <1>4, <1>5

\* The insert is rolled back.
LEMMA CommitFailsKeeps ==
    ASSUME RequestInv, NEW r \in Requests, CommitFails(r)
    PROVE  RequestInv'
<1>1. PlaceOk(r) /\ req[r].pc = "commit" /\ End(r, None) /\ None \in Answers
    BY DEF RequestInv, CommitFails, Answers
<1>2. Kept /\ CopiesOk
    BY KeptByRows DEF CommitFails
<1>3. req[r].kind = "json"
    BY <1>1 DEF PlaceOk
<1>4. QED
    BY <1>1, <1>2, <1>3, EndKeeps DEF Kept, CopiesOk

\* The list of reports, from Redis or from the table.
LEMMA ListKeeps ==
    ASSUME RequestInv, NEW r \in Requests, ReadList(r) \/ CopyList(r)
    PROVE  RequestInv'
<1>1. /\ req[r] \in Record /\ PlaceOk(r) /\ DataOk(r) /\ OwnOk(r) /\ FoundOk(r) /\ req \in [Requests -> Record]
      /\ stored \in Requests \cup {None} /\ None \in Answers
    BY DEF RequestInv, RequestTypes, Answers
<1>2. Kept /\ req[r].kind = "list"
    BY <1>1 DEF ReadList, CopyList, Kept, rows, PlaceOk
<1>3. CopiesOk
    BY <1>1 DEF ReadList, CopyList, CopiesOk, RequestInv, RequestTypes, PlaceOk
<1>4. CASE End(r, None)
    BY <1>1, <1>2, <1>3, <1>4, EndKeeps DEF Kept, CopiesOk
<1>5. CASE ReadList(r) /\ ~End(r, None)
    <2> DEFINE q == [req[r] EXCEPT !.pc = "relist", !.answer = Shown]
    <2>1. Shown \in SUBSET Requests
        BY <1>1 DEF Shown
    <2>2. req' = [req EXCEPT ![r] = q] /\ req[r].pc = "list"
        BY <1>1, <1>5 DEF ReadList, Record
    <2>3. /\ q \in Record /\ q.pc = "relist" /\ q.answer = Shown /\ q.data = req[r].data
          /\ q.kind = "list" /\ q.found = req[r].found /\ q.own = req[r].own
        BY <1>1, <1>2, <2>1 DEF Record, Pcs, Answers
    <2> HIDE DEF q
    <2>4. req'[r] = q
        BY <1>1, <2>2
    <2>5. PlaceOk(r)'
        BY <1>1, <2>1, <2>2, <2>3, <2>4 DEF PlaceOk
    <2>6. DataOk(r)'
        BY <1>1, <2>3, <2>4 DEF DataOk
    <2>7. OwnOk(r)' /\ FoundOk(r)'
        BY <1>1, <1>2, <2>2, <2>3, <2>4 DEF OwnOk, FoundOk, Building, Kept
    <2>8. QED
        BY <1>2, <1>3, <2>2, <2>3, <2>5, <2>6, <2>7, RequestMoves DEF Kept, CopiesOk
<1>6. QED
    BY <1>4, <1>5 DEF CopyList

\* A request begins, and an answer arrives.
LEMMA BeginKeeps ==
    ASSUME RequestInv, NEW r \in Requests, (\E kind \in Kinds[r] : Begin(r, kind)) \/ Receive(r)
    PROVE  RequestInv'
<1>1. Kept /\ CopiesOk
    BY KeptByRows DEF Begin, Receive
<1>2. ASSUME NEW kind \in Kinds[r], Begin(r, kind) PROVE RequestInv'
    <2> DEFINE pc == IF kind = "list" THEN "list" ELSE "job"
               q == [Idle EXCEPT !.kind = kind, !.found = stored, !.pc = pc]
    <2>1. kind \in {"json", "export", "list"} /\ stored \in Requests \cup {None}
        BY KindsAssumption DEF RequestInv, RequestTypes
    <2>2. /\ q \in Record /\ q.pc = pc /\ q.found = stored /\ q.kind = kind /\ q.own = FALSE /\ q.data = NoData
        BY <2>1, IdleType DEF Idle, Record, Pcs
    <2>3. req' = [req EXCEPT ![r] = q]
        BY <1>2 DEF Begin
    <2>4. pc \in {"list", "job"} /\ (pc = "list" => kind = "list")
        OBVIOUS
    <2> HIDE DEF q, pc
    <2>5. req'[r] = q
        BY <2>3 DEF RequestInv, RequestTypes
    <2>6. PlaceOk(r)' /\ DataOk(r)' /\ OwnOk(r)'
        BY <2>2, <2>4, <2>5 DEF PlaceOk, DataOk, OwnOk, NoData, TasksOf
    <2>7. FoundOk(r)'
        BY <1>1, <2>2, <2>4, <2>5 DEF FoundOk, Building, Kept
    <2>8. QED
        BY <1>1, <2>2, <2>3, <2>6, <2>7, RequestMoves DEF Kept, CopiesOk
<1>3. CASE Receive(r)
    <2>1. req' = [req EXCEPT ![r] = Idle] /\ req'[r] = Idle
        BY <1>3 DEF Receive, RequestInv, RequestTypes
    <2>2. PlaceOk(r)' /\ DataOk(r)' /\ OwnOk(r)' /\ FoundOk(r)'
        BY <2>1 DEF PlaceOk, DataOk, OwnOk, FoundOk, Idle, NoData, TasksOf
    <2>3. QED
        BY <1>1, <2>1, <2>2, IdleType, RequestMoves DEF Kept, CopiesOk
<1>4. QED
    BY <1>2, <1>3

\* The invariant of runs and requests holds at the start, and every step keeps it.
LEMMA ReportInvInductive ==
    /\ Init => ReportInv
    /\ ReportInv /\ [Next]_vars => ReportInv'
<1>1. Init => ReportInv
    BY RunInvInductive, RequestInit DEF ReportInv
<1>2. ASSUME RunInv, RequestInv, [Next]_vars PROVE RequestInv'
    <2>1. ASSUME UNCHANGED <<job, smells, plans, stored, redis, listed, req>> PROVE RequestInv'
        BY <1>2, <2>1 DEF RequestInv, RequestTypes, PlaceOk, DataOk, OwnOk, FoundOk
    <2>2. ASSUME NEW w \in Runs, Validate(w) PROVE RequestInv'
        <3>1. UNCHANGED <<job, smells, plans, stored, redis, listed, req>>
            BY <2>2 DEF Validate, LoadPatches, ValidatePatch, PersistAll, PersistAllFails, PersistRow,
               PersistRowFails, rows
        <3>2. QED
            BY <1>2, <2>1, <3>1
    <2>3. CASE UNCHANGED vars
        BY <1>2, <2>3, <2>1 DEF vars, rows
    <2>4. ASSUME NEW r \in Requests, Serve(r) PROVE RequestInv'
        BY <1>2, <2>4, ArrivalKeeps, BuildingKeeps, SendKeeps, InsertKeeps, PublishKeeps, CommitKeeps,
           CommitFailsKeeps, ListKeeps DEF Serve
    <2>5. QED
        BY <1>2, <2>2, <2>3, <2>4, OthersKeepRequests, BeginKeeps DEF Next
<1>3. QED
    BY <1>1, <1>2, RunInvInductive DEF ReportInv

-----------------------------------------------------------------------------
(* Each variable of the report store holds what it is meant to hold, a     *)
(* deleted job has no rows, and no two verdicts on a patch are of one      *)
(* time, which is what makes one the newest (_build_report_json).          *)
THEOREM ReportTypeCorrect == Spec => []TypeOK
<1>1. ASSUME ReportInv PROVE TypeOK
    <2>1. RunTypes /\ RequestTypes /\ ResultsOk /\ TimesOk /\ \A w \in Runs : RunOk(w)
        BY <1>1 DEF ReportInv, RunInv, RequestInv
    <2>2. \A v \in results : IsVerdict(v) /\ patch[v.patch] # "unknown"
        BY <2>1 DEF RunTypes, ResultsOk, Verdict, IsVerdict
    <2>3. \A v, o \in results : v.patch = o.patch /\ v.at = o.at => v = o
        BY <2>1 DEF TimesOk, Reached
    <2>4. ASSUME NEW w \in Runs
          PROVE  /\ run[w].pc \in {"idle", "checks", "bulk", "single", "done"}
                 /\ run[w].todo \cup run[w].refused \subseteq run[w].read
                 /\ run[w].read \subseteq Patches
                 /\ \A v \in run[w].new : IsVerdict(v) /\ v.by = w
        <3>1. run[w] \in Validation /\ RunOk(w)
            BY <2>1 DEF RunTypes
        <3>2. QED
            BY <3>1 DEF Validation, RunOk, Verdict, IsVerdict
    <2>5. ASSUME NEW r \in Requests PROVE req[r].pc \in Pcs /\ IsData(req[r].data)
        <3>1. req[r] \in Record
            BY <2>1 DEF RequestTypes
        <3>2. QED
            BY <3>1 DEF Record, Data, IsData, Verdict, IsVerdict
    <2>6. QED
        BY <2>1, <2>2, <2>3, <2>4, <2>5 DEF TypeOK, RunTypes, RequestTypes, ResultsOk
<1>2. QED
    BY <1>1, ReportInvInductive, PTL DEF Spec

\* What has been read of the smells and patches can be counted.
LEMMA DataFinite ==
    ASSUME NEW d \in Data
    PROVE  /\ IsFiniteSet(d.patches) /\ Generated(d) \in Nat
           /\ Cardinality(d.smells \cap Critical) \in Nat /\ Cardinality(d.smells \ Critical) \in Nat
<1>1. d.patches \subseteq Patches /\ d.smells \cap Critical \subseteq Smells /\ d.smells \ Critical \subseteq Smells
    BY DEF Data
<1>2. IsFiniteSet(d.patches) /\ IsFiniteSet(d.smells \cap Critical) /\ IsFiniteSet(d.smells \ Critical)
    BY <1>1, FiniteAssumption, FS_Subset
<1>3. QED
    BY <1>2, FS_CardinalityType DEF Generated

\* A report of data that fit together is coherent.
LEMMA DataCoherent ==
    ASSUME NEW d \in Data, d.tasks \subseteq TasksOf(d.plan), {v.patch : v \in d.verdicts} \subseteq d.patches,
           \A v, o \in d.verdicts : v.patch = o.patch => v = o
    PROVE  Coherent(d)
<1> DEFINE passed == {v \in d.verdicts : v.passed}
           judged == [v \in passed |-> v.patch]
<1>1. judged \in Injection(passed, d.patches)
    BY DEF Injection, IsInjective
<1>2. IsFiniteSet(passed) /\ Cardinality(passed) <= Cardinality(d.patches)
    BY <1>1, DataFinite, FS_Injection
<1>3. Passed(d) <= Generated(d) /\ Passed(d) \in Nat
    BY <1>2, FS_CardinalityType DEF Passed, Generated
<1>4. Score(d) \in 0..100
    <2>1. ASSUME NEW g \in Nat, g # 0, NEW n \in Int PROVE (n * 20) \div g \in Int
        BY <2>1
    <2> DEFINE penalty == IF Generated(d) = 0 THEN 0 ELSE ((Generated(d) - Passed(d)) * 20) \div Generated(d)
    <2>2. penalty \in Int
        <3>1. Generated(d) \in Nat
            BY DataFinite
        <3>2. Generated(d) - Passed(d) \in Int
            BY <1>3, <3>1
        <3>3. CASE Generated(d) = 0
            BY <3>3
        <3>4. CASE Generated(d) # 0
            BY <2>1, <3>1, <3>2, <3>4
        <3>5. QED
            BY <3>3, <3>4
    <2> HIDE DEF penalty
    <2> DEFINE score == 100 - 10 * Cardinality(d.smells \cap Critical) - Cardinality(d.smells \ Critical) - penalty
    <2>3. score \in Int
        BY <2>2, DataFinite
    <2>4. Score(d) = IF score < 0 THEN 0 ELSE IF score > 100 THEN 100 ELSE score
        BY DEF Score, penalty
    <2> HIDE DEF score
    <2>5. QED
        BY <2>3, <2>4
<1>5. QED
    BY <1>3, <1>4 DEF Coherent

(* The numbers of a report fit together although each is read by another   *)
(* statement: its tasks are the reported plan's, it counts verdicts only   *)
(* on patches it counts and never more passed than generated, and its      *)
(* score is from 0 to 100 (_build_report_json).                            *)
THEOREM ReportsAreCoherent == Spec => []ReportIsCoherent
<1>1. ASSUME ReportInv, NEW r \in Requests PROVE Coherent(req[r].data)
    <2>1. req[r] \in Record /\ DataOk(r)
        BY <1>1 DEF ReportInv, RequestInv, RequestTypes
    <2>2. req[r].data \in Data
        BY <2>1 DEF Record
    <2>3. QED
        BY <2>1, <2>2, DataCoherent DEF DataOk
<1>2. ReportInv => ReportIsCoherent
    BY <1>1 DEF ReportIsCoherent
<1>3. QED
    BY <1>2, ReportInvInductive, PTL DEF Spec

(* Once a job has a report, a request that begins then builds no other and *)
(* an export shows the one stored, whatever Redis holds meanwhile          *)
(* (get_report and the exports).                                           *)
THEOREM StoredReportsAreFinal == Spec => []StoredReportIsFinal
<1>1. ReportInv => StoredReportIsFinal
    BY DEF ReportInv, RequestInv, FoundOk, StoredReportIsFinal
<1>2. QED
    BY <1>1, ReportInvInductive, PTL DEF Spec
=============================================================================
