---------------------------- MODULE PlanReview ----------------------------
(***************************************************************************)
(* Plans and tasks of one job: the Planner agent inserts a plan and then   *)
(* its tasks, each in a transaction of its own (app/agents/planner.py);    *)
(* reviewers approve and reject tasks and ask for a new plan               *)
(* (app/api/v1/plan.py).  A request reads, decides and commits when the    *)
(* handler has returned (get_db); nothing locks the rows in between.       *)
(* The job has smells: without any the planner inserts nothing and         *)
(* regenerate_plan answers 409.                                            *)
(***************************************************************************)
EXTENDS Naturals, FiniteSets

CONSTANTS
    Plans,      \* ids a plan row may get
    Tasks,      \* ids a task row may get
    Reviewers,  \* clients; each has one decision and one regeneration in flight
    None

ASSUME PlanAssumption == None \notin Plans \cup Tasks

VARIABLES
    job,        \* whether the job's row exists
    version,    \* of each plan row; 0: no such row
    order,      \* priority_order of each plan row
    task,       \* the plan_tasks table; plan None: no such row
    planning,   \* how far the planner run that inserted the plan is
    made,       \* task ids that run has generated
    decision,   \* update_task requests between read and commit
    next        \* regenerate_plan requests: the version read; 0: none

planVars == <<job, version, order, task, planning, made, decision, next>>

Statuses == {"pending", "approved", "rejected", "applied"}
Decisions == [task : Tasks, to : Statuses]
NoTask == [plan |-> None, status |-> "pending"]

TypeOK ==
    /\ job \in BOOLEAN
    /\ version \in [Plans -> Nat]
    /\ order \in [Plans -> SUBSET Tasks]
    /\ task \in [Tasks -> [plan : Plans \cup {None}, status : Statuses]]
    /\ planning \in [Plans -> {"no", "tasks", "order"}]
    /\ made \in [Plans -> SUBSET Tasks]
    /\ decision \in [Reviewers -> Decisions \cup {None}]
    /\ next \in [Reviewers -> Nat]
    \* The rows of a deleted job are gone with it (ON DELETE CASCADE).
    /\ ~job => /\ \A p \in Plans : version[p] = 0
               /\ \A t \in Tasks : task[t].plan = None
    /\ \A t \in Tasks : task[t].plan # None => version[task[t].plan] > 0
    /\ \A p \in Plans : planning[p] # "no" => version[p] > 0

Init ==
    /\ job = TRUE
    /\ version = [p \in Plans |-> 0]
    /\ order = [p \in Plans |-> {}]
    /\ task = [t \in Tasks |-> NoTask]
    /\ planning = [p \in Plans |-> "no"]
    /\ made = [p \in Plans |-> {}]
    /\ decision = [r \in Reviewers |-> None]
    /\ next = [r \in Reviewers |-> 0]

Exists(t) == task[t].plan # None

---------------------------------------------------------------------------
(* The planner.  A job that is run again plans again.                      *)

\* The plan's row, always version 1, committed before its tasks.
PlannerInsertsPlan(p) ==
    /\ job
    /\ version[p] = 0
    /\ version' = [version EXCEPT ![p] = 1]
    /\ planning' = [planning EXCEPT ![p] = "tasks"]
    /\ \E ts \in SUBSET {t \in Tasks : ~Exists(t) /\ \A q \in Plans : t \notin made[q]} :
          /\ ts # {}
          /\ made' = [made EXCEPT ![p] = ts]
    /\ UNCHANGED <<job, order, task, decision, next>>

\* All rows at once; if that fails, row by row, and some are skipped.
PlannerInsertsTasks(p, kept) ==
    /\ planning[p] = "tasks"
    /\ kept \in SUBSET made[p]
    /\ task' = [t \in Tasks |-> IF t \in kept THEN [plan |-> p, status |-> "pending"]
                                              ELSE task[t]]
    /\ planning' = [planning EXCEPT ![p] = "order"]
    /\ UNCHANGED <<job, version, order, made, decision, next>>

\* Variant of PlannerSetsOrder: lists the open tasks the database has.
PlannerQueriesOrder(p) ==
    /\ planning[p] = "order"
    /\ order' = [order EXCEPT ![p] = {t \in Tasks : task[t] = [plan |-> p, status |-> "pending"]}]
    /\ planning' = [planning EXCEPT ![p] = "no"]
    /\ UNCHANGED <<job, version, task, made, decision, next>>

\* The ids of all generated tasks, the skipped ones too.
PlannerSetsOrder(p) ==
    /\ planning[p] = "order"
    /\ order' = [order EXCEPT ![p] = made[p]]
    /\ planning' = [planning EXCEPT ![p] = "no"]
    /\ UNCHANGED <<job, version, task, made, decision, next>>

\* The worker dies, or the update of priority_order fails and is logged.
PlannerStops(p) ==
    /\ planning[p] # "no"
    /\ planning' = [planning EXCEPT ![p] = "no"]
    /\ UNCHANGED <<job, version, order, task, made, decision, next>>

---------------------------------------------------------------------------
(* update_task with a status.                                              *)

\* Variant of Allowed: a rejection cannot be taken back.
AllowedOnce ==
    [pending |-> {"approved", "rejected"}, approved |-> {"rejected"},
     rejected |-> {}, applied |-> {}]

Allowed ==
    [pending |-> {"approved", "rejected"}, approved |-> {"rejected"},
     rejected |-> {"approved"}, applied |-> {}]

DecisionRead(r, t, s) ==
    /\ decision[r] = None
    /\ Exists(t)
    /\ s \in Allowed[task[t].status]
    /\ decision' = [decision EXCEPT ![r] = [task |-> t, to |-> s]]
    /\ UNCHANGED <<job, version, order, task, planning, made, next>>

\* The UPDATE names the task by its id only; without the row the request fails.
DecisionCommit(r) ==
    /\ decision[r] # None
    /\ LET t == decision[r].task IN
       task' = IF Exists(t) THEN [task EXCEPT ![t].status = decision[r].to] ELSE task
    /\ decision' = [decision EXCEPT ![r] = None]
    /\ UNCHANGED <<job, version, order, planning, made, next>>

---------------------------------------------------------------------------
(* regenerate_plan.                                                        *)

\* The rows _get_latest_plan may answer: several, when versions are equal.
LatestPlans ==
    {p \in Plans : version[p] > 0 /\ \A q \in Plans : version[q] <= version[p]}

\* Variant of NextVersion: counts the rows.
NextByCount == Cardinality({p \in Plans : version[p] > 0}) + 1

NextVersion ==
    IF LatestPlans = {} THEN 1 ELSE version[CHOOSE p \in LatestPlans : TRUE] + 1

RegenerateRead(r) ==
    /\ job
    /\ next[r] = 0
    /\ next' = [next EXCEPT ![r] = NextVersion]
    /\ UNCHANGED <<job, version, order, task, planning, made, decision>>

\* An empty plan; no planner is started.
RegenerateCommit(r, p) ==
    /\ next[r] # 0
    /\ job
    /\ version[p] = 0
    /\ version' = [version EXCEPT ![p] = next[r]]
    /\ next' = [next EXCEPT ![r] = 0]
    /\ UNCHANGED <<job, order, task, planning, made, decision>>

---------------------------------------------------------------------------

\* A request ends without a commit: the client or the process went away, or
\* the job is gone and the INSERT has no row to refer to.
RequestAborts(r) ==
    /\ decision[r] # None \/ next[r] # 0
    /\ \/ decision' = [decision EXCEPT ![r] = None] /\ UNCHANGED next
       \/ next' = [next EXCEPT ![r] = 0] /\ UNCHANGED decision
    /\ UNCHANGED <<job, version, order, task, planning, made>>

\* delete_job cascades; what a planner still inserts for the job is refused.
DeleteJob ==
    /\ job
    /\ job' = FALSE
    /\ version' = [p \in Plans |-> 0]
    /\ order' = [p \in Plans |-> {}]
    /\ task' = [t \in Tasks |-> NoTask]
    /\ planning' = [p \in Plans |-> "no"]
    /\ UNCHANGED <<made, decision, next>>

PlannerStep ==
    \E p \in Plans :
        \/ PlannerInsertsPlan(p)
        \/ \E kept \in SUBSET Tasks : PlannerInsertsTasks(p, kept)
        \/ PlannerSetsOrder(p)
        \/ PlannerStops(p)

RequestStep(r) ==
    \/ \E t \in Tasks, s \in Statuses : DecisionRead(r, t, s)
    \/ DecisionCommit(r)
    \/ RegenerateRead(r)
    \/ \E p \in Plans : RegenerateCommit(r, p)
    \/ RequestAborts(r)

Next == PlannerStep \/ (\E r \in Reviewers : RequestStep(r)) \/ DeleteJob

Spec == Init /\ [][Next]_planVars

---------------------------------------------------------------------------
(* Properties.                                                             *)

\* update_task (plan.py:277) checks the transition against the status it read;
\* others may have committed by the time it writes.  The table makes this
\* harmless: the write is still one that the table allows, or changes nothing.
StaleCheckIsHarmless ==
    \A r \in Reviewers :
        decision[r] # None /\ Exists(decision[r].task) =>
            LET s == task[decision[r].task].status IN
            decision[r].to = s \/ decision[r].to \in Allowed[s]

\* regenerate_plan (plan.py:338) numbers a plan from one it has read: whatever
\* requests and planner runs interleave, no version number is skipped.
NoVersionGap ==
    \A p \in Plans :
        version[p] > 1 => \E q \in Plans : version[q] + 1 = version[p]

\* The planner (planner.py:181) lists the ids of all tasks it generated, after
\* some may have been skipped and others decided on: a plan with an order lists
\* every task it has, so no task is left out of the recommended sequence.
OrderCoversTasks ==
    \A p \in Plans :
        order[p] # {} => {t \in Tasks : task[t].plan = p} \subseteq order[p]

===========================================================================
