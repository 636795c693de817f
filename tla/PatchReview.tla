---------------------------- MODULE PatchReview ----------------------------
(***************************************************************************)
(* The patches of the job of PlanReview: generated on demand from its      *)
(* tasks (app/agents/transformer.py), marked applied or reverted by        *)
(* reviewers and pushed to the repository (app/api/v1/patches.py,          *)
(* app/services/vcs.py).                                                   *)
(***************************************************************************)
EXTENDS PlanReview, Functions

CONSTANTS
    Patches,      \* ids a patch row may get
    Generators,   \* clients that ask for patches
    Markers,      \* clients that apply and revert
    Pushers,      \* clients that push
    Branches,     \* branch names a push may ask for
    Files,        \* paths in the repository
    FileOf,       \* of each task: its first affected file
    Automated     \* the tasks with automated = True

ASSUME PatchAssumption ==
    /\ IsFiniteSet(Patches)
    /\ None \notin Patches \cup Branches
    /\ None \notin [Files -> Patches \cup {None}]
    /\ FileOf \in [Tasks -> Files]
    /\ Automated \subseteq Tasks

VARIABLES
    complete,    \* whether the job's status is "complete"
    patch,       \* the patches table, and what a deleted row last held;
                 \* task None: the id was never used
    patchCount,  \* jobs.patch_count
    gen,         \* generate_patches requests
    marking,     \* apply_patch and revert_patch between read and commit
    pushing,     \* push_patches requests
    remote,      \* the repository: per branch, the patch each file was written from
    fix          \* jobs.fix_branch, and the patches reported with it

jobVars == <<complete, patchCount, fix>>
pushVars == <<pushing, remote>>
patchVars == <<jobVars, pushVars, patch, gen, marking>>
vars == <<planVars, patchVars>>

PatchStatuses == {"pending", "applied", "reverted", "failed"}
\* patched_content: some text (the model's, or the file as it was), or empty.
Contents == {"text", "blank"}
NoPatch == [live |-> FALSE, task |-> None, status |-> "pending", content |-> "blank"]
NotGenerating == [at |-> "idle", rows |-> {}, count |-> 0]
NotPushing == [at |-> "idle", picked |-> {}, branch |-> None]

Rows == {c \in Patches : patch[c].live}
File(c) == FileOf[patch[c].task]

PatchTypeOK ==
    /\ TypeOK
    /\ complete \in BOOLEAN
    /\ patch \in [Patches -> [live : BOOLEAN, task : Tasks \cup {None},
                             status : PatchStatuses, content : Contents]]
    /\ patchCount \in Nat
    /\ gen \in [Generators -> [at : {"idle", "llm", "count", "save"}, rows : SUBSET Tasks, count : Nat]]
    /\ marking \in [Markers -> [patch : Patches, to : PatchStatuses] \cup {None}]
    /\ pushing \in [Pushers -> [at : {"idle", "clone", "save"}, picked : SUBSET Patches,
                                branch : Branches \cup {None}]]
    /\ remote \in [Branches -> [Files -> Patches \cup {None}] \cup {None}]
    /\ fix \in [branch : Branches \cup {None}, patches : SUBSET Patches]
    \* A patch row refers to a task row; both go with the job.
    /\ \A c \in Rows : Exists(patch[c].task)

ReviewInit ==
    /\ Init
    /\ complete = FALSE
    /\ patch = [c \in Patches |-> NoPatch]
    /\ patchCount = 0
    /\ gen = [g \in Generators |-> NotGenerating]
    /\ marking = [m \in Markers |-> None]
    /\ pushing = [u \in Pushers |-> NotPushing]
    /\ remote = [b \in Branches |-> None]
    /\ fix = [branch |-> None, patches |-> {}]

---------------------------------------------------------------------------
(* generate_patches and TransformerAgent.run.                              *)

\* A run of the pipeline completes the job, or a repeated run starts it again.
RunMoves ==
    /\ job
    /\ complete' = ~complete
    /\ UNCHANGED <<planVars, patch, pushVars, patchCount, gen, marking, fix>>

\* The open automated tasks of every version of the plan; an empty list of
\* ids asks for all of them.
GenerateRead(g, wanted) ==
    /\ gen[g].at = "idle"
    /\ job /\ complete
    /\ LET open == {t \in Automated : Exists(t) /\ task[t].status \in {"pending", "approved"}}
           rows == IF wanted = {} THEN open ELSE open \cap wanted
       IN gen' = [gen EXCEPT ![g] = [at |-> IF rows = {} THEN "count" ELSE "llm",
                                     rows |-> rows, count |-> 0]]
    /\ UNCHANGED <<planVars, jobVars, patch, pushVars, marking>>

\* Whatever rows the bulk insert, or row after row, could store.  An answer
\* that is a diff, or no answer, leaves patched_content as the file was.
GeneratePersist(g, kept) ==
    /\ gen[g].at = "llm"
    /\ kept \in SUBSET {t \in gen[g].rows : Exists(t)}
    /\ \E id \in Injection(kept, {c \in Patches : patch[c].task = None}), text \in [kept -> Contents] :
          patch' = [c \in Patches |->
                      IF \E t \in kept : id[t] = c
                      THEN LET t == CHOOSE t \in kept : id[t] = c
                           IN [live |-> TRUE, task |-> t, status |-> "pending", content |-> text[t]]
                      ELSE patch[c]]
    /\ gen' = [gen EXCEPT ![g].at = "count"]
    /\ UNCHANGED <<planVars, jobVars, pushVars, marking>>

\* Variant of GenerateCount: trusts the number of generated patches.
GenerateTrusts(g) ==
    /\ gen[g].at = "count"
    /\ gen' = [gen EXCEPT ![g].at = "save",
                              ![g].count = patchCount + Cardinality(gen[g].rows)]
    /\ UNCHANGED <<planVars, jobVars, patch, pushVars, marking>>

GenerateCount(g) ==
    /\ gen[g].at = "count"
    /\ gen' = [gen EXCEPT ![g].at = "save", ![g].count = Cardinality(Rows)]
    /\ UNCHANGED <<planVars, jobVars, patch, pushVars, marking>>

\* jobs.patch_count; without the row the flush fails.
GenerateSave(g) ==
    /\ gen[g].at = "save"
    /\ patchCount' = IF job THEN gen[g].count ELSE patchCount
    /\ gen' = [gen EXCEPT ![g] = NotGenerating]
    /\ UNCHANGED <<planVars, patch, pushVars, complete, marking, fix>>

\* The client or the process goes away.
GenerateAborts(g) ==
    /\ gen[g].at # "idle"
    /\ gen' = [gen EXCEPT ![g] = NotGenerating]
    /\ UNCHANGED <<planVars, jobVars, patch, pushVars, marking>>

---------------------------------------------------------------------------
(* apply_patch and revert_patch.                                           *)

\* Variant of MayMark: what was reverted cannot be applied again.
MayMarkOnce(from, to) ==
    \/ to = "applied" /\ from = "pending"
    \/ to = "reverted" /\ from \in {"applied", "pending"}

MayMark(from, to) ==
    \/ to = "applied" /\ from \in {"pending", "reverted"}
    \/ to = "reverted" /\ from \in {"applied", "pending"}

MarkRead(m, c, to) ==
    /\ marking[m] = None
    /\ c \in Rows
    /\ MayMark(patch[c].status, to)
    /\ marking' = [marking EXCEPT ![m] = [patch |-> c, to |-> to]]
    /\ UNCHANGED <<planVars, jobVars, patch, pushVars, gen>>

\* Variant of MarkCommit: does not notice that the row is gone.
MarkUpserts(m) ==
    /\ marking[m] # None
    /\ LET c == marking[m].patch IN
       patch' = [patch EXCEPT ![c].live = TRUE, ![c].status = marking[m].to]
    /\ marking' = [marking EXCEPT ![m] = None]
    /\ UNCHANGED <<planVars, jobVars, pushVars, gen>>

MarkCommit(m) ==
    /\ marking[m] # None
    /\ LET c == marking[m].patch IN
       patch' = IF c \in Rows THEN [patch EXCEPT ![c].status = marking[m].to] ELSE patch
    /\ marking' = [marking EXCEPT ![m] = None]
    /\ UNCHANGED <<planVars, jobVars, pushVars, gen>>

---------------------------------------------------------------------------
(* push_patches and push_patches_to_repo.                                  *)

\* The patches asked for that are pending or applied, or all pending ones.
PushRead(u, ids, b) ==
    /\ pushing[u].at = "idle"
    /\ job
    /\ LET picked == IF ids = {} THEN {c \in Rows : patch[c].status = "pending"}
                     ELSE {c \in Rows \cap ids : patch[c].status \in {"pending", "applied"}}
       IN /\ picked # {}
          /\ pushing' = [pushing EXCEPT ![u] = [at |-> "clone", picked |-> picked,
                                                branch |-> b]]
    /\ UNCHANGED <<planVars, jobVars, patch, gen, marking, remote>>

\* The patches of a request that have any text; the rest is passed over.
Written(u) == {c \in pushing[u].picked : patch[c].content # "blank"}

\* What a fresh clone holds after the patches of cs, each file as the last of
\* them left it; the query gives them in no order.
Checkouts(cs) ==
    {w \in [Files -> cs \cup {None}] :
        \A f \in Files : IF \E c \in cs : File(c) = f THEN w[f] # None /\ File(w[f]) = f
                                                      ELSE w[f] = None}

\* The new commit's parent is the head of the default branch, which is taken
\* not to move.  A branch that exists already is not an ancestor of the new
\* commit: git rejects the push, and Remote.push reports that without raising.
PushRun(u) ==
    /\ pushing[u].at = "clone"
    /\ LET b == pushing[u].branch
           cs == Written(u)
       IN /\ IF cs = {} \/ remote[b] # None THEN UNCHANGED remote
             ELSE \E w \in Checkouts(cs) : remote' = [remote EXCEPT ![b] = w]
          /\ pushing' = [pushing EXCEPT ![u].at = "save"]
    /\ UNCHANGED <<planVars, jobVars, patch, gen, marking>>

\* Variant of PushFails: an error of the clone is logged and passed over.
PushShrugs(u) ==
    /\ pushing[u].at = "clone"
    /\ pushing' = [pushing EXCEPT ![u].at = "save"]
    /\ UNCHANGED <<planVars, jobVars, patch, gen, marking, remote>>

\* Clone, connection or checkout fails (422), or the request is aborted.
PushFails(u) ==
    /\ pushing[u].at # "idle"
    /\ pushing' = [pushing EXCEPT ![u] = NotPushing]
    /\ UNCHANGED <<planVars, jobVars, patch, gen, marking, remote>>

PushSave(u) ==
    /\ pushing[u].at = "save"
    /\ IF job
       THEN fix' = [branch |-> pushing[u].branch, patches |-> Written(u)]
       ELSE UNCHANGED fix
    /\ pushing' = [pushing EXCEPT ![u] = NotPushing]
    /\ UNCHANGED <<planVars, patch, complete, patchCount, gen, marking, remote>>

---------------------------------------------------------------------------

\* delete_job: the patches and results go by cascade.  A push in flight keeps
\* the rows it has loaded.
DeleteAll ==
    /\ DeleteJob
    /\ patch' = [c \in Patches |-> [patch[c] EXCEPT !.live = FALSE]]
    /\ patchCount' = 0
    /\ complete' = FALSE
    /\ fix' = [branch |-> None, patches |-> {}]
    /\ UNCHANGED <<gen, marking, pushVars>>

PlanSide == (PlannerStep \/ \E r \in Reviewers : RequestStep(r)) /\ UNCHANGED patchVars

PatchSide ==
    \/ RunMoves
    \/ \E g \in Generators :
          \/ \E wanted \in SUBSET Tasks : GenerateRead(g, wanted)
          \/ \E kept \in SUBSET Tasks : GeneratePersist(g, kept)
          \/ GenerateCount(g)
          \/ GenerateSave(g)
          \/ GenerateAborts(g)
    \/ \E m \in Markers :
          \/ \E c \in Patches, to \in PatchStatuses : MarkRead(m, c, to)
          \/ MarkCommit(m)
    \/ \E u \in Pushers :
          \/ \E ids \in SUBSET Patches, b \in Branches : PushRead(u, ids, b)
          \/ PushRun(u)
          \/ PushFails(u)
          \/ PushSave(u)

ReviewNext == PlanSide \/ PatchSide \/ DeleteAll

ReviewSpec == ReviewInit /\ [][ReviewNext]_vars

---------------------------------------------------------------------------
(* Properties.                                                             *)

\* apply_patch (patches.py:387) and revert_patch (patches.py:426) test a status
\* that others may have changed by the time they write: the write is still
\* one that is allowed, or changes nothing.
StaleMarkIsHarmless ==
    \A m \in Markers :
        marking[m] # None /\ marking[m].patch \in Rows =>
            LET s == patch[marking[m].patch].status IN
            marking[m].to = s \/ MayMark(s, marking[m].to)

\* generate_patches (patches.py:273) counts rows and commits later, others in
\* between, and some rows may have been skipped: the job never shows more
\* patches than it has.
PatchCountIsBacked ==
    /\ patchCount <= Cardinality(Rows)
    /\ \A g \in Generators : job /\ gen[g].at = "save" => gen[g].count <= Cardinality(Rows)

\* push_patches (patches.py:560) records the branch when the push has
\* returned: a branch recorded with some patch in it exists.
ReportedBranchExists == fix.patches # {} => remote[fix.branch] # None

===========================================================================
