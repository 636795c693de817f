------------------------- MODULE PatchReviewProofs -------------------------
(***************************************************************************)
(* Theorems about PlanReview, for any number of plans, tasks and clients,  *)
(* and about PatchReview, for any number of patches and branches as well.  *)
(***************************************************************************)
EXTENDS PatchReview, FiniteSetTheorems, TLAPS

-----------------------------------------------------------------------------
(* Plans: theorems about PlanReview's Spec.                                *)

\* The version a regeneration reads is a positive number.
LEMMA NextVersionType == TypeOK => NextVersion \in Nat /\ NextVersion > 0
BY DEF TypeOK, NextVersion, LatestPlans

\* A version above 1 that a regeneration reads follows one that exists.
LEMMA NextVersionFollows ==
    ASSUME TypeOK, NextVersion > 1
    PROVE  \E q \in Plans : version[q] + 1 = NextVersion
BY DEF TypeOK, NextVersion, LatestPlans

\* The initial state has the types.
LEMMA TypeInit == Init => TypeOK
BY DEF Init, TypeOK, NoTask, Statuses

\* Every step keeps the types.
LEMMA TypeStep == TypeOK /\ [Next]_planVars => TypeOK'
<1> SUFFICES ASSUME TypeOK, [Next]_planVars PROVE TypeOK'
    OBVIOUS
<1> USE PlanAssumption
<1>1. ASSUME NEW p \in Plans, PlannerInsertsPlan(p) PROVE TypeOK'
    BY <1>1 DEF TypeOK, PlannerInsertsPlan, Exists
<1>2. ASSUME NEW p \in Plans, NEW kept \in SUBSET Tasks, PlannerInsertsTasks(p, kept)
      PROVE  TypeOK'
    BY <1>2 DEF TypeOK, PlannerInsertsTasks, Statuses
<1>3. ASSUME NEW p \in Plans, PlannerSetsOrder(p) PROVE TypeOK'
    BY <1>3 DEF TypeOK, PlannerSetsOrder
<1>4. ASSUME NEW p \in Plans, PlannerStops(p) PROVE TypeOK'
    BY <1>4 DEF TypeOK, PlannerStops
<1>5. ASSUME NEW r \in Reviewers, NEW t \in Tasks, NEW s \in Statuses, DecisionRead(r, t, s)
      PROVE  TypeOK'
    BY <1>5 DEF TypeOK, DecisionRead, Decisions
<1>6. ASSUME NEW r \in Reviewers, DecisionCommit(r) PROVE TypeOK'
    BY <1>6 DEF TypeOK, DecisionCommit, Decisions, Exists
<1>7. ASSUME NEW r \in Reviewers, RegenerateRead(r) PROVE TypeOK'
    BY <1>7, NextVersionType DEF TypeOK, RegenerateRead
<1>8. ASSUME NEW r \in Reviewers, NEW p \in Plans, RegenerateCommit(r, p) PROVE TypeOK'
    BY <1>8 DEF TypeOK, RegenerateCommit
<1>9. ASSUME NEW r \in Reviewers, RequestAborts(r) PROVE TypeOK'
    BY <1>9 DEF TypeOK, RequestAborts
<1>10. ASSUME DeleteJob PROVE TypeOK'
    BY <1>10 DEF TypeOK, DeleteJob, NoTask, Statuses
<1>11. ASSUME UNCHANGED planVars PROVE TypeOK'
    BY <1>11 DEF TypeOK, planVars
<1>12. QED
    BY <1>1, <1>2, <1>3, <1>4, <1>5, <1>6, <1>7, <1>8, <1>9, <1>10, <1>11
       DEF Next, PlannerStep, RequestStep

(* The tables are well formed and nothing outlives a deleted job           *)
(* (delete_job, planner.py, plan.py).                                      *)
THEOREM PlanTypeCorrect == Spec => []TypeOK
BY TypeInit, TypeStep, PTL DEF Spec

---------------------------------------------------------------------------
(* A decision in flight is an approval or a rejection, and no task is in   *)
(* the status "applied" that would allow neither.                          *)
DecisionInv ==
    /\ TypeOK
    /\ \A t \in Tasks : task[t].status # "applied"
    /\ \A r \in Reviewers : decision[r] # None => decision[r].to \in {"approved", "rejected"}

\* The table leads only to approvals and rejections.
LEMMA AllowedDecides ==
    ASSUME NEW s \in Statuses, NEW u \in Allowed[s]
    PROVE  u \in {"approved", "rejected"}
BY DEF Statuses, Allowed

\* DecisionInv holds at the start, and every step keeps it.
LEMMA DecisionInvInductive ==
    /\ Init => DecisionInv
    /\ DecisionInv /\ [Next]_planVars => DecisionInv'
<1>1. Init => DecisionInv
    BY TypeInit DEF Init, DecisionInv, NoTask
<1>2. ASSUME DecisionInv, [Next]_planVars PROVE DecisionInv'
    <2>1. TypeOK /\ TypeOK'
        BY <1>2, TypeStep DEF DecisionInv
    <2>2. ASSUME NEW p \in Plans, NEW kept \in SUBSET Tasks, PlannerInsertsTasks(p, kept)
          PROVE  DecisionInv'
        BY <1>2, <2>1, <2>2 DEF DecisionInv, PlannerInsertsTasks
    <2>3. ASSUME NEW r \in Reviewers, NEW t \in Tasks, NEW s \in Statuses, DecisionRead(r, t, s)
          PROVE  DecisionInv'
        <3>1. s \in {"approved", "rejected"}
            BY <2>1, <2>3, AllowedDecides DEF DecisionRead, TypeOK
        <3>2. QED
            BY <1>2, <2>1, <2>3, <3>1 DEF DecisionInv, DecisionRead, TypeOK
    <2>4. ASSUME NEW r \in Reviewers, DecisionCommit(r) PROVE DecisionInv'
        BY <1>2, <2>1, <2>4 DEF DecisionInv, DecisionCommit, TypeOK
    <2>5. ASSUME NEW r \in Reviewers, RequestAborts(r) PROVE DecisionInv'
        BY <1>2, <2>1, <2>5 DEF DecisionInv, RequestAborts, TypeOK
    <2>6. ASSUME DeleteJob PROVE DecisionInv'
        BY <1>2, <2>1, <2>6 DEF DecisionInv, DeleteJob, NoTask
    <2>7. CASE UNCHANGED <<task, decision>>
        BY <1>2, <2>1, <2>7 DEF DecisionInv
    <2>8. QED
        BY <1>2, <2>2, <2>3, <2>4, <2>5, <2>6, <2>7
           DEF Next, PlannerStep, RequestStep, planVars, PlannerInsertsPlan, PlannerSetsOrder,
               PlannerStops, RegenerateRead, RegenerateCommit
<1>3. QED
    BY <1>1, <1>2

\* Between an approval and a rejection every change is in the table.
LEMMA DecisionInvImplies == DecisionInv => StaleCheckIsHarmless
<1> SUFFICES ASSUME DecisionInv, NEW r \in Reviewers,
                    decision[r] # None, Exists(decision[r].task)
             PROVE  LET s == task[decision[r].task].status IN
                    decision[r].to = s \/ decision[r].to \in Allowed[s]
    BY DEF StaleCheckIsHarmless
<1> DEFINE s == task[decision[r].task].status
<1>1. decision[r].task \in Tasks /\ decision[r].to \in {"approved", "rejected"}
    BY DEF DecisionInv, TypeOK, Decisions
<1>2. s \in {"pending", "approved", "rejected"}
    BY <1>1 DEF DecisionInv, TypeOK, Statuses
<1>3. \/ decision[r].to = s
      \/ decision[r].to \in Allowed[s]
    BY <1>1, <1>2 DEF Allowed
<1>4. QED
    BY <1>3

(* update_task writes on the strength of a status read earlier; however    *)
(* many reviewers race, the write is one the table of plan.py:42-47 allows    *)
(* from the status it overwrites.                                          *)
THEOREM StaleChecksAreHarmless == Spec => []StaleCheckIsHarmless
<1>1. Spec => []DecisionInv
    BY DecisionInvInductive, PTL DEF Spec
<1>2. QED
    BY <1>1, DecisionInvImplies, PTL

---------------------------------------------------------------------------
(* A regeneration in flight keeps the version it is to follow.             *)
GapInv ==
    /\ TypeOK
    /\ NoVersionGap
    /\ \A r \in Reviewers :
          job /\ next[r] > 1 => \E q \in Plans : version[q] + 1 = next[r]

\* GapInv holds at the start, and every step keeps it.
LEMMA GapInvInductive ==
    /\ Init => GapInv
    /\ GapInv /\ [Next]_planVars => GapInv'
<1>1. Init => GapInv
    BY TypeInit DEF Init, GapInv, NoVersionGap
<1>2. ASSUME GapInv, [Next]_planVars PROVE GapInv'
    <2>1. TypeOK /\ TypeOK'
        BY <1>2, TypeStep DEF GapInv
    <2>2. ASSUME NEW p \in Plans, PlannerInsertsPlan(p) PROVE GapInv'
        <3>1. version[p] = 0 /\ version' = [version EXCEPT ![p] = 1] /\ UNCHANGED <<job, next>>
            BY <2>2 DEF PlannerInsertsPlan
        <3>2. \A q \in Plans : version[q] > 0 => version'[q] = version[q]
            BY <2>1, <3>1 DEF TypeOK
        <3>3. NoVersionGap'
            BY <1>2, <2>1, <3>1, <3>2 DEF GapInv, NoVersionGap, TypeOK
        <3>4. QED
            BY <1>2, <2>1, <3>1, <3>2, <3>3 DEF GapInv, TypeOK
    <2>3. ASSUME NEW r \in Reviewers, RegenerateRead(r) PROVE GapInv'
        <3>1. NextVersion > 1 => \E q \in Plans : version[q] + 1 = NextVersion
            BY <2>1, NextVersionFollows
        <3>2. QED
            BY <1>2, <2>1, <2>3, <3>1, NextVersionType
               DEF GapInv, NoVersionGap, RegenerateRead, TypeOK
    <2>4. ASSUME NEW r \in Reviewers, NEW p \in Plans, RegenerateCommit(r, p) PROVE GapInv'
        <3>1. /\ job /\ version[p] = 0 /\ version' = [version EXCEPT ![p] = next[r]]
              /\ next' = [next EXCEPT ![r] = 0] /\ UNCHANGED job
            BY <2>4 DEF RegenerateCommit
        <3>2. \A q \in Plans : version[q] > 0 => version'[q] = version[q]
            BY <2>1, <3>1 DEF TypeOK
        <3>3. NoVersionGap'
            BY <1>2, <2>1, <3>1, <3>2 DEF GapInv, NoVersionGap, TypeOK
        <3>4. QED
            BY <1>2, <2>1, <3>1, <3>2, <3>3 DEF GapInv, TypeOK
    <2>5. ASSUME NEW r \in Reviewers, RequestAborts(r) PROVE GapInv'
        BY <1>2, <2>1, <2>5 DEF GapInv, NoVersionGap, RequestAborts, TypeOK
    <2>6. ASSUME DeleteJob PROVE GapInv'
        BY <1>2, <2>1, <2>6 DEF GapInv, NoVersionGap, DeleteJob
    <2>7. CASE UNCHANGED <<job, version, next>>
        BY <1>2, <2>1, <2>7 DEF GapInv, NoVersionGap
    <2>8. QED
        BY <1>2, <2>2, <2>3, <2>4, <2>5, <2>6, <2>7
           DEF Next, PlannerStep, RequestStep, planVars, PlannerInsertsTasks, PlannerSetsOrder,
               PlannerStops, DecisionRead, DecisionCommit
<1>3. QED
    BY <1>1, <1>2

(* The versions of a job's plans have no gap, although regenerate_plan     *)
(* counts on from a version it read before others committed.               *)
THEOREM VersionsHaveNoGap == Spec => []NoVersionGap
<1>1. Spec => []GapInv
    BY GapInvInductive, PTL DEF Spec
<1>2. GapInv => NoVersionGap
    BY DEF GapInv
<1>3. QED
    BY <1>1, <1>2, PTL

---------------------------------------------------------------------------
(* A plan's tasks are among the ones its planner generated, and its order  *)
(* is written last and lists them all.                                     *)
OrderInv ==
    /\ TypeOK
    /\ \A t \in Tasks : \A p \in Plans : task[t].plan = p => t \in made[p]
    /\ \A p \in Plans :
          /\ order[p] # {} => order[p] = made[p] /\ planning[p] = "no"
          /\ version[p] = 0 => order[p] = {}

\* OrderInv holds at the start, and every step keeps it.
LEMMA OrderInvInductive ==
    /\ Init => OrderInv
    /\ OrderInv /\ [Next]_planVars => OrderInv'
<1> USE PlanAssumption
<1>1. Init => OrderInv
    BY TypeInit DEF Init, OrderInv, NoTask
<1>2. ASSUME OrderInv, [Next]_planVars PROVE OrderInv'
    <2>1. TypeOK /\ TypeOK'
        BY <1>2, TypeStep DEF OrderInv
    <2>2. ASSUME NEW p \in Plans, PlannerInsertsPlan(p) PROVE OrderInv'
        BY <1>2, <2>1, <2>2 DEF OrderInv, TypeOK, PlannerInsertsPlan
    <2>3. ASSUME NEW p \in Plans, NEW kept \in SUBSET Tasks, PlannerInsertsTasks(p, kept)
          PROVE  OrderInv'
        BY <1>2, <2>1, <2>3 DEF OrderInv, TypeOK, PlannerInsertsTasks
    <2>4. ASSUME NEW p \in Plans, PlannerSetsOrder(p) PROVE OrderInv'
        BY <1>2, <2>1, <2>4 DEF OrderInv, TypeOK, PlannerSetsOrder
    <2>5. ASSUME NEW p \in Plans, PlannerStops(p) PROVE OrderInv'
        BY <1>2, <2>1, <2>5 DEF OrderInv, TypeOK, PlannerStops
    <2>6. ASSUME NEW r \in Reviewers, DecisionCommit(r) PROVE OrderInv'
        BY <1>2, <2>1, <2>6 DEF OrderInv, TypeOK, DecisionCommit, Decisions
    <2>7. ASSUME NEW r \in Reviewers, NEW p \in Plans, RegenerateCommit(r, p) PROVE OrderInv'
        BY <1>2, <2>1, <2>7 DEF OrderInv, TypeOK, RegenerateCommit
    <2>8. ASSUME DeleteJob PROVE OrderInv'
        BY <1>2, <2>1, <2>8 DEF OrderInv, DeleteJob, NoTask
    <2>9. CASE UNCHANGED <<version, order, task, planning, made>>
        BY <1>2, <2>1, <2>9 DEF OrderInv
    <2>10. QED
        BY <1>2, <2>2, <2>3, <2>4, <2>5, <2>6, <2>7, <2>8, <2>9
           DEF Next, PlannerStep, RequestStep, planVars, DecisionRead, RegenerateRead, RequestAborts
<1>3. QED
    BY <1>1, <1>2

(* The planner's order leaves no task of its plan out, whatever rows it    *)
(* skipped and whoever decided on tasks before the order was written       *)
(* (planner.py:176-184).                                                   *)
THEOREM OrdersCoverTasks == Spec => []OrderCoversTasks
<1>1. Spec => []OrderInv
    BY OrderInvInductive, PTL DEF Spec
<1>2. OrderInv => OrderCoversTasks
    BY DEF OrderInv, OrderCoversTasks
<1>3. QED
    BY <1>1, <1>2, PTL

-----------------------------------------------------------------------------
(* Patches: theorems about PatchReview's ReviewSpec.                       *)

\* What the planner and the reviewers of tasks do to the patches of a job:
\* nothing, and the tasks they refer to stay.
LEMMA PlanSideFrame ==
    ASSUME TypeOK, PlanSide
    PROVE  /\ TypeOK' /\ job' = job /\ UNCHANGED patchVars
           /\ \A t \in Tasks : Exists(t) => Exists(t)'
<1>1. [Next]_planVars /\ UNCHANGED patchVars
    BY DEF PlanSide, Next
<1>2. TypeOK'
    BY <1>1, TypeStep
<1>3. ASSUME PlannerStep PROVE job' = job /\ \A t \in Tasks : Exists(t) => Exists(t)'
    <2>1. ASSUME NEW p \in Plans, NEW kept \in SUBSET Tasks, PlannerInsertsTasks(p, kept)
          PROVE  job' = job /\ \A t \in Tasks : Exists(t) => Exists(t)'
        BY <2>1, PlanAssumption DEF PlannerInsertsTasks, Exists, TypeOK
    <2>2. CASE job' = job /\ task' = task
        BY <2>2 DEF Exists
    <2>3. QED
        BY <1>3, <2>1, <2>2 DEF PlannerStep, PlannerInsertsPlan, PlannerSetsOrder, PlannerStops
<1>4. ASSUME NEW r \in Reviewers, RequestStep(r)
      PROVE  job' = job /\ \A t \in Tasks : Exists(t) => Exists(t)'
    <2>1. ASSUME DecisionCommit(r) PROVE job' = job /\ \A t \in Tasks : Exists(t) => Exists(t)'
        BY <2>1 DEF DecisionCommit, Exists, TypeOK
    <2>2. CASE job' = job /\ task' = task
        BY <2>2 DEF Exists
    <2>3. QED
        BY <1>4, <2>1, <2>2 DEF RequestStep, DecisionRead, RegenerateRead, RegenerateCommit, RequestAborts
<1>5. QED
    BY <1>1, <1>2, <1>3, <1>4 DEF PlanSide

\* The other steps: those of patches leave the plans alone, a deletion is one.
LEMMA PatchSideFrame == PatchSide => UNCHANGED planVars
BY DEF PatchSide, RunMoves, GenerateRead, GeneratePersist, GenerateCount, GenerateSave, GenerateAborts,
       MarkRead, MarkCommit, PushRead, PushRun, PushFails, PushSave

(* With patches about, the plans still do only what PlanReview says: its   *)
(* theorems hold of ReviewSpec too.                                        *)
THEOREM PatchesKeepPlanRules == ReviewSpec => Spec
<1>1. ReviewInit => Init
    BY DEF ReviewInit
<1>2. [ReviewNext]_vars => [Next]_planVars
    BY PatchSideFrame DEF ReviewNext, PlanSide, DeleteAll, Next, vars
<1>3. QED
    BY <1>1, <1>2, PTL DEF ReviewSpec, Spec

\* The types, and what the deletion of a task's row would break: a row in the
\* table is about a task.
PatchInv ==
    /\ PatchTypeOK
    /\ \A c \in Rows : patch[c].task # None

\* There are finitely many rows, and more of them count for more.
LEMMA RowsCounted ==
    /\ IsFiniteSet(Rows) /\ Cardinality(Rows) \in Nat
    /\ IsFiniteSet(Rows') /\ Cardinality(Rows') \in Nat
    /\ Rows \subseteq Rows' => Cardinality(Rows) <= Cardinality(Rows')
<1>1. Rows \in SUBSET Patches /\ Rows' \in SUBSET Patches
    BY DEF Rows
<1>2. IsFiniteSet(Rows) /\ IsFiniteSet(Rows')
    BY <1>1, PatchAssumption, FS_Subset
<1>3. QED
    BY <1>2, FS_CardinalityType, FS_Subset

\* What the bulk insert leaves of each id: it was in use before and stays as
\* it was, or it is one of those inserted now, about a task that exists.
LEMMA PersistEffect ==
    ASSUME PatchInv, NEW g \in Generators, NEW kept \in SUBSET Tasks, GeneratePersist(g, kept),
           NEW c \in Patches
    PROVE  \/ patch'[c] = patch[c]
           \/ /\ patch[c].task = None
              /\ patch'[c] \in [live : BOOLEAN, task : Tasks, status : PatchStatuses, content : Contents]
              /\ patch'[c].status = "pending" /\ Exists(patch'[c].task)
<1>1. PICK id \in Injection(kept, {d \in Patches : patch[d].task = None}), text \in [kept -> Contents] :
          patch' = [d \in Patches |->
                      IF \E t \in kept : id[t] = d
                      THEN LET t == CHOOSE t \in kept : id[t] = d
                           IN [live |-> TRUE, task |-> t, status |-> "pending", content |-> text[t]]
                      ELSE patch[d]]
    BY DEF GeneratePersist
<1>2. CASE \E t \in kept : id[t] = c
    <2> DEFINE t == CHOOSE t \in kept : id[t] = c
    <2>1. t \in kept /\ id[t] = c
        BY <1>2
    <2>2. t \in Tasks /\ Exists(t) /\ text[t] \in Contents
        BY <1>1, <2>1 DEF GeneratePersist
    <2>3. patch[c].task = None
        BY <1>1, <2>1 DEF Injection
    <2>4. patch'[c] = [live |-> TRUE, task |-> t, status |-> "pending", content |-> text[t]]
        BY <1>1, <1>2
    <2> HIDE DEF t
    <2>5. task' = task
        BY DEF GeneratePersist, planVars
    <2>6. QED
        BY <2>2, <2>3, <2>4, <2>5 DEF PatchStatuses, Exists
<1>3. CASE ~\E t \in kept : id[t] = c
    BY <1>1, <1>3
<1>4. QED
    BY <1>2, <1>3

\* PatchInv holds at the start, and every step keeps it.
LEMMA PatchInvInductive ==
    /\ ReviewInit => PatchInv
    /\ PatchInv /\ [ReviewNext]_vars => PatchInv'
<1> DEFINE PatchRow == [live : BOOLEAN, task : Tasks \cup {None}, status : PatchStatuses, content : Contents]
<1>1. ReviewInit => PatchInv
    <2> SUFFICES ASSUME ReviewInit PROVE PatchInv
        OBVIOUS
    <2>1. TypeOK
        BY TypeInit DEF ReviewInit
    <2>2. Rows = {} /\ NoPatch \in PatchRow
        BY DEF ReviewInit, Rows, NoPatch, PatchStatuses, Contents
    <2>3. QED
        BY <2>1, <2>2 DEF ReviewInit, PatchInv, PatchTypeOK, NotGenerating, NotPushing
<1> SUFFICES ASSUME PatchInv, [ReviewNext]_vars PROVE PatchInv'
    BY <1>1
<1>2. TypeOK /\ patch \in [Patches -> PatchRow]
    BY DEF PatchInv, PatchTypeOK
<1>3. ASSUME PlanSide PROVE PatchInv'
    <2>1. TypeOK' /\ UNCHANGED patchVars /\ \A t \in Tasks : Exists(t) => Exists(t)'
        BY <1>2, <1>3, PlanSideFrame
    <2>2. \A c \in Rows : patch[c].task \in Tasks /\ Exists(patch[c].task)
        BY <1>2 DEF PatchInv, PatchTypeOK, Rows
    <2>3. Rows' = Rows
        BY <2>1 DEF patchVars, Rows
    <2>4. QED
        BY <2>1, <2>2, <2>3 DEF PatchInv, PatchTypeOK, patchVars, jobVars, pushVars, Exists
<1>4. ASSUME UNCHANGED <<planVars, patch>>,
             complete' \in BOOLEAN, patchCount' \in Nat,
             gen' \in [Generators -> [at : {"idle", "llm", "count", "save"}, rows : SUBSET Tasks, count : Nat]],
             marking' \in [Markers -> [patch : Patches, to : PatchStatuses] \cup {None}],
             pushing' \in [Pushers -> [at : {"idle", "clone", "save"}, picked : SUBSET Patches,
                                       branch : Branches \cup {None}]],
             remote' \in [Branches -> [Files -> Patches \cup {None}] \cup {None}],
             fix' \in [branch : Branches \cup {None}, patches : SUBSET Patches]
      PROVE  PatchInv'
    <2>1. TypeOK' /\ Rows' = Rows
        BY <1>2, <1>4, TypeStep DEF planVars, Rows
    <2>2. \A c \in Rows : Exists(patch[c].task)'
        BY <1>4 DEF PatchInv, PatchTypeOK, planVars, Exists
    <2>3. QED
        BY <1>4, <2>1, <2>2 DEF PatchInv, PatchTypeOK
<1> USE DEF PatchInv, PatchTypeOK, jobVars, pushVars
<1>5. ASSUME RunMoves PROVE PatchInv'
    BY <1>4, <1>5 DEF RunMoves
<1>6. ASSUME NEW g \in Generators, NEW wanted \in SUBSET Tasks, GenerateRead(g, wanted) PROVE PatchInv'
    <2>1. gen' \in [Generators -> [at : {"idle", "llm", "count", "save"}, rows : SUBSET Tasks, count : Nat]]
        BY <1>6, PatchAssumption DEF GenerateRead
    <2>2. QED
        BY <1>4, <1>6, <2>1 DEF GenerateRead
<1>7. ASSUME NEW g \in Generators, NEW kept \in SUBSET Tasks, GeneratePersist(g, kept) PROVE PatchInv'
    <2>1. UNCHANGED <<planVars, complete, patchCount, fix, pushing, remote, marking>>
          /\ gen' = [gen EXCEPT ![g].at = "count"]
        BY <1>7 DEF GeneratePersist
    <2>2. patch' \in [Patches -> PatchRow]
        <3>1. \E F : patch' = [c \in Patches |-> F[c]]
            <4>1. patch' = [c \in Patches |-> patch'[c]]
                BY <1>7 DEF GeneratePersist
            <4>2. QED
                BY <4>1
        <3>2. \A c \in Patches : patch'[c] \in PatchRow
            BY <1>2, <1>7, PersistEffect
        <3>3. QED
            BY <3>1, <3>2
    <2>3. ASSUME NEW c \in Patches, patch'[c].live
          PROVE  patch'[c].task # None /\ task'[patch'[c].task].plan # None
        <3>1. task' = task
            BY <2>1 DEF planVars
        <3>2. CASE patch'[c] = patch[c]
            <4>1. c \in Rows
                BY <2>3, <3>2 DEF Rows
            <4>2. QED
                BY <3>1, <3>2, <4>1 DEF Exists
        <3>3. CASE patch'[c].task \in Tasks /\ Exists(patch'[c].task)
            BY <3>1, <3>3, PlanAssumption DEF Exists
        <3>4. QED
            BY <1>7, <3>2, <3>3, PersistEffect
    <2>4. TypeOK'
        BY <1>2, <2>1, TypeStep
    <2>5. gen' \in [Generators -> [at : {"idle", "llm", "count", "save"}, rows : SUBSET Tasks, count : Nat]]
        BY <2>1
    <2>6. \A c \in Rows' : patch'[c].task # None /\ Exists(patch[c].task)'
        BY <2>3 DEF Rows, Exists
    <2>7. QED
        BY <2>1, <2>2, <2>4, <2>5, <2>6
<1>8. ASSUME NEW g \in Generators, GenerateCount(g) \/ GenerateSave(g) \/ GenerateAborts(g) PROVE PatchInv'
    <2>1. gen[g].count \in Nat /\ NotGenerating \in [at : {"idle"}, rows : SUBSET Tasks, count : Nat]
        BY DEF NotGenerating
    <2>2. UNCHANGED <<planVars, patch, complete, fix, pushing, remote, marking>>
        BY <1>8 DEF GenerateCount, GenerateSave, GenerateAborts
    <2>3. /\ gen' \in [Generators -> [at : {"idle", "llm", "count", "save"}, rows : SUBSET Tasks, count : Nat]]
          /\ patchCount' \in Nat
        BY <1>8, <2>1, RowsCounted DEF GenerateCount, GenerateSave, GenerateAborts
    <2>4. QED
        BY <1>4, <2>2, <2>3
<1>9. ASSUME NEW m \in Markers, NEW c \in Patches, NEW to \in PatchStatuses, MarkRead(m, c, to) PROVE PatchInv'
    BY <1>4, <1>9 DEF MarkRead
<1>10. ASSUME NEW m \in Markers, MarkCommit(m) PROVE PatchInv'
    <2> DEFINE c == marking[m].patch
    <2>1. c \in Patches /\ marking[m].to \in PatchStatuses
        BY <1>10 DEF MarkCommit
    <2>2. /\ UNCHANGED <<planVars, complete, patchCount, fix, pushing, remote, gen>>
          /\ patch' = IF c \in Rows THEN [patch EXCEPT ![c].status = marking[m].to] ELSE patch
          /\ marking' = [marking EXCEPT ![m] = None]
        BY <1>10 DEF MarkCommit
    <2>3. /\ patch' \in [Patches -> PatchRow]
          /\ \A d \in Patches : patch'[d].live = patch[d].live /\ patch'[d].task = patch[d].task
        <3> DEFINE to == marking[m].to
        <3>1. CASE c \in Rows
            <4>1. patch \in [Patches -> PatchRow] /\ c \in Patches /\ to \in PatchStatuses
                  /\ patch' = [patch EXCEPT ![c].status = to]
                BY <1>2, <2>1, <2>2, <3>1
            <4> HIDE DEF c, to
            <4>2. patch[c] \in PatchRow
                BY <4>1
            <4>3. [patch[c] EXCEPT !.status = to] \in PatchRow
                BY <4>1, <4>2 DEF PatchRow
            <4>4. QED
                BY <4>1, <4>2, <4>3 DEF PatchRow
        <3>2. CASE c \notin Rows
            BY <1>2, <2>2, <3>2
        <3>3. QED
            BY <3>1, <3>2
    <2>4. TypeOK' /\ Rows' = Rows /\ task' = task
        BY <1>2, <2>2, <2>3, TypeStep DEF planVars, Rows
    <2>5. QED
        BY <2>2, <2>3, <2>4 DEF Rows, Exists
<1>11. ASSUME NEW u \in Pushers, NEW ids \in SUBSET Patches, NEW b \in Branches, PushRead(u, ids, b) PROVE PatchInv'
    BY <1>4, <1>11 DEF PushRead, Rows
<1>12. ASSUME NEW u \in Pushers, PushRun(u) PROVE PatchInv'
    <2>1. \A w \in Checkouts(Written(u)) : w \in [Files -> Patches \cup {None}]
        BY DEF Checkouts, Written
    <2>2. QED
        BY <1>4, <1>12, <2>1 DEF PushRun
<1>13. ASSUME NEW u \in Pushers, PushFails(u) PROVE PatchInv'
    BY <1>4, <1>13 DEF PushFails, NotPushing
<1>14. ASSUME NEW u \in Pushers, PushSave(u) PROVE PatchInv'
    BY <1>4, <1>14 DEF PushSave, NotPushing, Written
<1>15. ASSUME DeleteAll PROVE PatchInv'
    <2>1. TypeOK'
        BY <1>2, <1>15, TypeStep DEF DeleteAll, Next
    <2>2. /\ patch' = [c \in Patches |-> [patch[c] EXCEPT !.live = FALSE]]
          /\ patchCount' = 0 /\ complete' = FALSE /\ fix' = [branch |-> None, patches |-> {}]
          /\ UNCHANGED <<gen, marking, pushing, remote>>
        BY <1>15 DEF DeleteAll
    <2>3. \A c \in Patches : [patch[c] EXCEPT !.live = FALSE] \in PatchRow
        <3>1. \A c \in Patches : patch[c] \in PatchRow
            BY <1>2
        <3> HIDE DEF PatchInv, PatchTypeOK
        <3>2. QED
            BY <3>1
    <2>4. patch' \in [Patches -> PatchRow]
        <3> HIDE DEF PatchInv, PatchTypeOK, PatchRow
        <3>1. QED
            BY <2>2, <2>3
    <2>5. Rows' = {}
        <3> HIDE DEF PatchInv, PatchTypeOK
        <3>1. QED
            BY <2>2 DEF Rows
    <2>6. QED
        BY <2>1, <2>2, <2>4, <2>5
<1>16. CASE UNCHANGED vars
    BY <1>4, <1>16 DEF vars, patchVars
<1>17. QED
    BY <1>3, <1>5, <1>6, <1>7, <1>8, <1>9, <1>10, <1>11, <1>12, <1>13, <1>14, <1>15, <1>16
       DEF ReviewNext, PatchSide

(* The patches table is well formed, and no row outlives its task or the   *)
(* job (patches.py, the ON DELETE CASCADE of the tables).                  *)
THEOREM PatchTypeCorrect == ReviewSpec => []PatchTypeOK
<1>1. PatchInv => PatchTypeOK
    BY DEF PatchInv
<1>2. QED
    BY <1>1, PatchInvInductive, PTL DEF ReviewSpec

-----------------------------------------------------------------------------
(* Marks: a patch is pending, applied or reverted, and so is what a client *)
(* is about to mark it.                                                    *)
MarkInv ==
    /\ PatchInv
    /\ \A c \in Patches : patch[c].status # "failed"
    /\ \A m \in Markers : marking[m] # None => marking[m].to \in {"applied", "reverted"}

\* MarkInv holds at the start, and every step keeps it.
LEMMA MarkInvInductive ==
    /\ ReviewInit => MarkInv
    /\ MarkInv /\ [ReviewNext]_vars => MarkInv'
<1>1. ReviewInit => MarkInv
    BY PatchInvInductive DEF ReviewInit, MarkInv, NoPatch
<1> SUFFICES ASSUME MarkInv, [ReviewNext]_vars PROVE MarkInv'
    BY <1>1
<1>2. PatchInv /\ PatchInv' /\ PatchTypeOK /\ PatchTypeOK'
    BY PatchInvInductive DEF MarkInv, PatchInv
<1>3. CASE UNCHANGED <<patch, marking>>
    BY <1>2, <1>3 DEF MarkInv
<1>4. ASSUME NEW g \in Generators, NEW kept \in SUBSET Tasks, GeneratePersist(g, kept) PROVE MarkInv'
    <2>1. \A c \in Patches : patch'[c].status # "failed"
        BY <1>2, <1>4, PersistEffect DEF MarkInv
    <2>2. QED
        BY <1>2, <1>4, <2>1 DEF MarkInv, GeneratePersist
<1>5. ASSUME NEW m \in Markers, NEW c \in Patches, NEW to \in PatchStatuses, MarkRead(m, c, to) PROVE MarkInv'
    BY <1>2, <1>5 DEF MarkInv, MarkRead, MayMark, PatchTypeOK
<1>6. ASSUME NEW m \in Markers, MarkCommit(m) PROVE MarkInv'
    BY <1>2, <1>6 DEF MarkInv, MarkCommit, PatchTypeOK
<1>7. ASSUME DeleteAll PROVE MarkInv'
    BY <1>2, <1>7 DEF MarkInv, DeleteAll, PatchTypeOK
<1>8. ASSUME PlanSide PROVE UNCHANGED <<patch, marking>>
    BY <1>8 DEF PlanSide, patchVars
<1>9. QED
    BY <1>3, <1>4, <1>5, <1>6, <1>7, <1>8
       DEF ReviewNext, PatchSide, RunMoves, GenerateRead, GenerateCount, GenerateSave, GenerateAborts,
           PushRead, PushRun, PushFails, PushSave, vars, patchVars

(* Whoever marks a patch on the strength of a status that others changed   *)
(* since does what the handler would have allowed then, or nothing         *)
(* (apply_patch, revert_patch).                                            *)
THEOREM StaleMarksAreHarmless == ReviewSpec => []StaleMarkIsHarmless
<1>1. MarkInv => StaleMarkIsHarmless
    BY DEF MarkInv, PatchInv, PatchTypeOK, PatchStatuses, StaleMarkIsHarmless, MayMark
<1>2. QED
    BY <1>1, MarkInvInductive, PTL DEF ReviewSpec

-----------------------------------------------------------------------------
(* The count of the job's patches.  Rows only come until they all go with  *)
(* the job, so a count in flight stays backed.                             *)
CountInv ==
    /\ PatchInv
    /\ PatchCountIsBacked

\* What keeps the rows and the job and counts nothing keeps the counts backed.
LEMMA CountsStay ==
    ASSUME CountInv, PatchInv', Rows \subseteq Rows', job' => job, patchCount' = patchCount,
           \A g \in Generators : gen'[g].at = "save" => gen'[g] = gen[g]
    PROVE  CountInv'
<1>1. patchCount \in Nat /\ \A g \in Generators : gen[g].count \in Nat
    BY DEF CountInv, PatchInv, PatchTypeOK
<1>2. QED
    BY <1>1, RowsCounted DEF CountInv, PatchCountIsBacked

\* CountInv holds at the start, and every step keeps it.
LEMMA CountInvInductive ==
    /\ ReviewInit => CountInv
    /\ CountInv /\ [ReviewNext]_vars => CountInv'
<1>1. ReviewInit => CountInv
    BY PatchInvInductive, RowsCounted DEF ReviewInit, CountInv, PatchCountIsBacked, NotGenerating
<1> SUFFICES ASSUME CountInv, [ReviewNext]_vars PROVE CountInv'
    BY <1>1
<1>2. /\ PatchInv /\ PatchInv' /\ PatchTypeOK
      /\ gen \in [Generators -> [at : {"idle", "llm", "count", "save"}, rows : SUBSET Tasks, count : Nat]]
    BY PatchInvInductive DEF CountInv, PatchInv, PatchTypeOK
<1>3. CASE UNCHANGED <<patch, gen, patchCount, job>>
    <2>1. Rows' = Rows
        BY <1>3 DEF Rows
    <2>2. QED
        BY <1>2, <1>3, <2>1, CountsStay
<1>4. ASSUME PlanSide PROVE UNCHANGED <<patch, gen, patchCount, job>>
    BY <1>2, <1>4, PlanSideFrame DEF PatchTypeOK, patchVars, jobVars
<1>5. ASSUME NEW g \in Generators, NEW wanted \in SUBSET Tasks, GenerateRead(g, wanted) PROVE CountInv'
    <2>1. Rows' = Rows /\ patchCount' = patchCount /\ job' = job
        BY <1>5 DEF GenerateRead, Rows, jobVars, planVars
    <2>2. \A h \in Generators : gen'[h].at = "save" => gen'[h] = gen[h]
        BY <1>2, <1>5 DEF GenerateRead
    <2>3. QED
        BY <1>2, <2>1, <2>2, CountsStay
<1>6. ASSUME NEW g \in Generators, NEW kept \in SUBSET Tasks, GeneratePersist(g, kept) PROVE CountInv'
    <2>1. Rows \subseteq Rows'
        <3>1. ASSUME NEW c \in Rows PROVE c \in Rows'
            BY <1>2, <1>6, PersistEffect DEF PatchInv, Rows
        <3>2. QED
            BY <3>1
    <2>2. patchCount' = patchCount /\ job' = job /\ gen' = [gen EXCEPT ![g].at = "count"]
        BY <1>6 DEF GeneratePersist, jobVars, planVars
    <2>3. \A h \in Generators : gen'[h].at = "save" => gen'[h] = gen[h]
        BY <1>2, <2>2
    <2>4. QED
        BY <1>2, <2>1, <2>2, <2>3, CountsStay
<1>7. ASSUME NEW g \in Generators, GenerateCount(g) PROVE CountInv'
    <2>1. Rows' = Rows /\ patchCount' = patchCount /\ job' = job
        BY <1>7 DEF GenerateCount, Rows, jobVars, planVars
    <2>2. \A h \in Generators : IF h = g THEN gen'[h].count = Cardinality(Rows) ELSE gen'[h] = gen[h]
        BY <1>2, <1>7 DEF GenerateCount
    <2>3. QED
        BY <1>2, <2>1, <2>2, RowsCounted DEF CountInv, PatchCountIsBacked
<1>8. ASSUME NEW g \in Generators, GenerateSave(g) PROVE CountInv'
    <2>1. /\ Rows' = Rows /\ job' = job /\ gen' = [gen EXCEPT ![g] = NotGenerating] /\ gen[g].at = "save"
          /\ patchCount' = IF job THEN gen[g].count ELSE patchCount
        BY <1>8 DEF GenerateSave, Rows, planVars
    <2>2. \A h \in Generators : gen'[h].at = "save" => gen'[h] = gen[h]
        BY <1>2, <2>1 DEF NotGenerating
    <2>3. QED
        BY <1>2, <2>1, <2>2 DEF CountInv, PatchCountIsBacked
<1>9. ASSUME NEW g \in Generators, GenerateAborts(g) PROVE CountInv'
    <2>1. Rows' = Rows /\ patchCount' = patchCount /\ job' = job /\ gen' = [gen EXCEPT ![g] = NotGenerating]
        BY <1>9 DEF GenerateAborts, Rows, jobVars, planVars
    <2>2. \A h \in Generators : gen'[h].at = "save" => gen'[h] = gen[h]
        BY <1>2, <2>1 DEF NotGenerating
    <2>3. QED
        BY <1>2, <2>1, <2>2, CountsStay
<1>10. ASSUME NEW m \in Markers, MarkCommit(m) PROVE CountInv'
    <2>1. patchCount' = patchCount /\ job' = job /\ gen' = gen
        BY <1>10 DEF MarkCommit, jobVars, planVars
    <2>2. Rows \subseteq Rows'
        BY <1>2, <1>10 DEF MarkCommit, PatchTypeOK, Rows
    <2>3. QED
        BY <1>2, <2>1, <2>2, CountsStay
<1>11. ASSUME DeleteAll PROVE CountInv'
    <2>1. patchCount' = 0 /\ ~job'
        BY <1>11 DEF DeleteAll, DeleteJob
    <2>2. QED
        BY <1>2, <2>1, RowsCounted DEF CountInv, PatchCountIsBacked
<1>12. QED
    BY <1>3, <1>4, <1>5, <1>6, <1>7, <1>8, <1>9, <1>10, <1>11
       DEF ReviewNext, PatchSide, RunMoves, MarkRead, PushRead, PushRun, PushFails, PushSave,
           vars, patchVars, jobVars, planVars

(* The number of patches the job shows is never more than it has, however  *)
(* long ago a request counted them (generate_patches).                     *)
THEOREM PatchCountsAreBacked == ReviewSpec => []PatchCountIsBacked
<1>1. CountInv => PatchCountIsBacked
    BY DEF CountInv
<1>2. QED
    BY <1>1, CountInvInductive, PTL DEF ReviewSpec

-----------------------------------------------------------------------------
(* Pushes.  What a push has picked was stored and does not change, so that *)
(* a push with something to write has made its branch or found it.         *)
PushInv ==
    /\ PatchInv
    /\ \A u \in Pushers :
          /\ pushing[u].at # "idle" => pushing[u].branch \in Branches
          /\ \A c \in pushing[u].picked : patch[c].task # None
          /\ pushing[u].at = "save" /\ Written(u) # {} => remote[pushing[u].branch] # None
    /\ fix.patches # {} => fix.branch \in Branches /\ remote[fix.branch] # None

\* What a step may do to the pushes under way without touching one of them.
LEMMA PushesStay ==
    ASSUME PushInv, PatchInv', UNCHANGED pushing,
           \A b \in Branches : remote[b] # None => remote'[b] # None,
           \A c \in Patches : patch[c].task # None =>
               patch'[c].task # None /\ patch'[c].content = patch[c].content,
           fix' = fix \/ fix'.patches = {}
    PROVE  PushInv'
<1>1. \A u \in Pushers : pushing[u].picked \subseteq Patches
    BY DEF PushInv, PatchInv, PatchTypeOK
<1>2. \A u \in Pushers : Written(u)' = Written(u)
    BY <1>1 DEF Written, PushInv
<1>3. QED
    BY <1>1, <1>2 DEF PushInv

\* PushInv holds at the start, and every step keeps it.
LEMMA PushInvInductive ==
    /\ ReviewInit => PushInv
    /\ PushInv /\ [ReviewNext]_vars => PushInv'
<1>1. ReviewInit => PushInv
    BY PatchInvInductive DEF ReviewInit, PushInv, NotPushing
<1> SUFFICES ASSUME PushInv, [ReviewNext]_vars PROVE PushInv'
    BY <1>1
<1>2. /\ PatchInv /\ PatchInv' /\ PatchTypeOK
      /\ pushing \in [Pushers -> [at : {"idle", "clone", "save"}, picked : SUBSET Patches,
                                  branch : Branches \cup {None}]]
    BY PatchInvInductive DEF PushInv, PatchInv, PatchTypeOK
<1>3. CASE UNCHANGED <<patch, pushing, remote>> /\ (fix' = fix \/ fix'.patches = {})
    BY <1>2, <1>3, PushesStay
<1>4. ASSUME NEW g \in Generators, NEW kept \in SUBSET Tasks, GeneratePersist(g, kept) PROVE PushInv'
    <2>1. UNCHANGED <<pushing, remote, fix>>
        BY <1>4 DEF GeneratePersist, pushVars, jobVars
    <2>2. QED
        BY <1>2, <1>4, <2>1, PersistEffect, PushesStay
<1>5. ASSUME NEW m \in Markers, MarkCommit(m) PROVE PushInv'
    <2>1. UNCHANGED <<pushing, remote, fix>>
        BY <1>5 DEF MarkCommit, pushVars, jobVars
    <2>2. \A c \in Patches : patch'[c].task = patch[c].task /\ patch'[c].content = patch[c].content
        BY <1>2, <1>5 DEF MarkCommit, PatchTypeOK
    <2>3. QED
        BY <1>2, <2>1, <2>2, PushesStay
<1>6. ASSUME DeleteAll PROVE PushInv'
    <2>1. UNCHANGED <<pushing, remote>> /\ fix'.patches = {}
          /\ patch' = [c \in Patches |-> [patch[c] EXCEPT !.live = FALSE]]
        BY <1>6 DEF DeleteAll, pushVars
    <2>2. \A c \in Patches : patch'[c].task = patch[c].task /\ patch'[c].content = patch[c].content
        BY <1>2, <2>1 DEF PatchTypeOK
    <2>3. QED
        BY <1>2, <2>1, <2>2, PushesStay
<1>7. ASSUME NEW u \in Pushers, NEW ids \in SUBSET Patches, NEW b \in Branches, PushRead(u, ids, b) PROVE PushInv'
    <2>1. UNCHANGED <<patch, remote, fix>> /\ \A v \in Pushers \ {u} : pushing'[v] = pushing[v]
        BY <1>2, <1>7 DEF PushRead, jobVars
    <2>2. pushing'[u].at = "clone" /\ pushing'[u].branch = b /\ pushing'[u].picked \subseteq Rows
        BY <1>2, <1>7 DEF PushRead
    <2>3. \A c \in pushing'[u].picked : patch[c].task # None
        BY <1>2, <2>2 DEF PatchInv
    <2>4. \A v \in Pushers \ {u} : Written(v)' = Written(v)
        BY <2>1 DEF Written
    <2>5. QED
        BY <1>2, <2>1, <2>2, <2>3, <2>4 DEF PushInv
<1>8. ASSUME NEW u \in Pushers, PushRun(u) PROVE PushInv'
    <2> DEFINE b == pushing[u].branch
    <2>1. /\ UNCHANGED <<patch, fix>> /\ pushing' = [pushing EXCEPT ![u].at = "save"]
          /\ IF Written(u) = {} \/ remote[b] # None THEN UNCHANGED remote
             ELSE \E w \in Checkouts(Written(u)) : remote' = [remote EXCEPT ![b] = w]
          /\ b \in Branches
        BY <1>8 DEF PushRun, jobVars, PushInv
    <2>2. \A w \in Checkouts(Written(u)) : w # None
        <3>1. \A w \in Checkouts(Written(u)) : w \in [Files -> Patches \cup {None}]
            BY <1>2 DEF Checkouts, Written
        <3>2. QED
            BY <3>1, PatchAssumption
    <2>3. /\ \A d \in Branches : remote[d] # None => remote'[d] # None
          /\ Written(u) # {} => remote'[b] # None
        BY <1>2, <2>1, <2>2 DEF PatchTypeOK
    <2>4. \A v \in Pushers : /\ pushing'[v].branch = pushing[v].branch
                             /\ pushing'[v].picked = pushing[v].picked
                             /\ v # u => pushing'[v].at = pushing[v].at
                             /\ pushing'[u].at = "save" /\ pushing[u].at = "clone"
        BY <1>2, <1>8, <2>1 DEF PushRun
    <2>5. \A v \in Pushers : Written(v)' = Written(v)
        BY <2>1, <2>4 DEF Written
    <2>6. QED
        BY <1>2, <2>1, <2>3, <2>4, <2>5 DEF PushInv
<1>9. ASSUME NEW u \in Pushers, pushing' = [pushing EXCEPT ![u] = NotPushing], UNCHANGED <<patch, remote>>,
             \/ fix' = fix
             \/ pushing[u].at = "save" /\ fix' = [branch |-> pushing[u].branch, patches |-> Written(u)]
      PROVE  PushInv'
    <2>1. pushing'[u] = NotPushing /\ \A v \in Pushers \ {u} : pushing'[v] = pushing[v]
        BY <1>2, <1>9
    <2>2. \A v \in Pushers \ {u} : Written(v)' = Written(v)
        BY <1>9, <2>1 DEF Written
    <2>3. fix'.patches # {} => fix'.branch \in Branches /\ remote[fix'.branch] # None
        BY <1>9 DEF PushInv
    <2>4. QED
        BY <1>2, <1>9, <2>1, <2>2, <2>3 DEF PushInv, NotPushing
<1>10. ASSUME NEW u \in Pushers, PushFails(u) \/ PushSave(u) PROVE PushInv'
    BY <1>9, <1>10 DEF PushFails, PushSave, jobVars
<1>11. ASSUME PlanSide PROVE UNCHANGED <<patch, pushing, remote, fix>>
    BY <1>11 DEF PlanSide, patchVars, pushVars, jobVars
<1>12. QED
    BY <1>3, <1>4, <1>5, <1>6, <1>7, <1>8, <1>10, <1>11
       DEF ReviewNext, PatchSide, RunMoves, GenerateRead, GenerateCount, GenerateSave, GenerateAborts, MarkRead,
           vars, patchVars, pushVars, jobVars

(* A fix branch that is recorded with patches in it is in the repository,  *)
(* although the record is written after the push and others push, generate *)
(* and delete in between (push_patches, vcs.py).                           *)
THEOREM ReportedBranchesExist == ReviewSpec => []ReportedBranchExists
<1>1. PushInv => ReportedBranchExists
    BY DEF PushInv, ReportedBranchExists
<1>2. QED
    BY <1>1, PushInvInductive, PTL DEF ReviewSpec
===========================================================================
