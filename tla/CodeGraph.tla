----------------------------- MODULE CodeGraph -----------------------------
(***************************************************************************)
(* The code graph of one job: mapped from the files of the repository      *)
(* (app/agents/mapper.py), searched for smells                             *)
(* (app/agents/smell_detector.py) and read by clients                      *)
(* (POST /graph/{job_id}/subgraph in app/api/v1/graph.py).  A job may be   *)
(* run more than once, after a redelivery even at the same time; every     *)
(* insert is committed at once and visible to the others.                  *)
(***************************************************************************)
EXTENDS Integers, FiniteSets

CONSTANTS
    Runs,         \* runs of the job's pipeline
    Entities,     \* the code entities of the repository
    Links,        \* what joins them: [type, from, to]; the mapper leaves out
                  \* what joins an entity to itself
    BatchOf,      \* of each entity: the batch of 50 files its file is in
    Chunk,        \* rows per INSERT: 500 in the code
    MethodLimit,  \* methods a class may contain: 10 in the code
    FewMethods,   \* below this a class is not called anemic: 3 in the code
    EnvyLimit,    \* classes a method may call: 5 in the code
    Private,      \* entities with visibility "private"
    Accessors,    \* methods whose name begins with "get", "set", "is" and so on
    Prefix,       \* of each entity: its qualified name up to the last dot
    Flagged,      \* what the rules about one node find: [type, entity]
    Unstorable,   \* entities whose row PostgreSQL may refuse
    Requests      \* subgraph requests: [seed, direction, depth]

Batches == {BatchOf[e] : e \in Entities}
LinkTypes == {"CONTAINS", "CALLS"}
Directions == {"inbound", "outbound", "both"}

ASSUME GraphAssumption ==
    /\ IsFiniteSet(Runs) /\ IsFiniteSet(Entities)
    /\ Links \subseteq {l \in [type : LinkTypes, from : Entities, to : Entities] : l.from # l.to}
    /\ DOMAIN BatchOf = Entities
    /\ Chunk \in Nat \ {0} /\ MethodLimit \in Nat
    /\ FewMethods \in Nat \ {0} /\ EnvyLimit \in Nat
    /\ Flagged \subseteq [type : {"large_class", "long_method", "tight_coupling"},
                          entity : Entities]
    /\ DOMAIN Prefix = Entities /\ Accessors \subseteq Entities
    /\ Private \subseteq Entities /\ Unstorable \subseteq Entities
    /\ Requests \subseteq [seed : Entities, direction : Directions, depth : 1..5]

VARIABLES
    job,      \* whether the job's row exists
    lang,     \* the language of the repository
    refused,  \* entities whose row PostgreSQL refuses (a NUL in a text)
    nodes,    \* ucg_nodes
    edges,    \* ucg_edges
    smells,   \* smells
    counts,   \* jobs.ucg_node_count, ucg_edge_count and smell_count
    run,      \* the runs
    query     \* a subgraph request

rows == <<nodes, edges, smells>>
vars == <<job, lang, refused, rows, counts, run, query>>

NodeIds == [run : Runs, batch : Batches, entity : Entities]
Tables == {"nodes", "edges", "smells"}
SmellTypes == {"god_class", "large_class", "long_method", "tight_coupling", "dead_code",
               "feature_envy", "anemic_domain_model"}

Idle == [at |-> "idle", todo |-> {}, slow |-> {}, links |-> {}, seen |-> {},
         parsed |-> {}, stored |-> [t \in Tables |-> 0]]
NoQuery == [at |-> "idle", seeds |-> {}, direction |-> "both", left |-> 0, depth |-> 0,
            visited |-> {}, frontier |-> {}, edges |-> {}, nodes |-> {}, before |-> {}]

TypeOK ==
    /\ job \in BOOLEAN
    /\ lang \in {"java", "python"}
    /\ refused \subseteq Unstorable
    /\ nodes \subseteq NodeIds
    /\ \A e \in edges : e.type \in LinkTypes
    /\ \A s \in smells : s.by \in Runs /\ s.type \in SmellTypes
    /\ counts \in [Tables -> Nat]
    /\ \A r \in Runs : run[r].at \in {"idle", "nodes", "edges", "stats", "read", "rules",
                                      "smells", "count", "done", "stopped"}
    /\ query.at \in {"idle", "edges", "nodes", "done"}
    \* ON DELETE CASCADE, and the foreign keys of ucg_edges.
    /\ ~job => nodes = {} /\ edges = {} /\ smells = {}
    /\ \A e \in edges : {e.from, e.to} \subseteq nodes

Init ==
    /\ job = TRUE
    /\ lang \in {"java", "python"}
    /\ refused \in SUBSET Unstorable
    /\ nodes = {} /\ edges = {} /\ smells = {}
    /\ counts = [t \in Tables |-> 0]
    /\ run = [r \in Runs |-> Idle]
    /\ query = NoQuery

---------------------------------------------------------------------------
(* MapperAgent.run.                                                        *)

NodeId(r, k, e) == [run |-> r, batch |-> k, entity |-> e]

\* The Java adapter ignores the batch and has the service parse the whole
\* repository; the Python adapter parses the files of the batch.
Parsed(k) == IF lang = "java" THEN Entities ELSE {e \in Entities : BatchOf[e] = k}

\* The service's calls name methods by text it gives no node, and the adapter
\* drops edges without both nodes.
Reported(k) == {l \in Links : /\ {l.from, l.to} \subseteq Parsed(k)
                              /\ lang = "java" => l.type = "CONTAINS"}

NodesOf(r, k) == {NodeId(r, k, e) : e \in Parsed(k)}
EdgesOf(r, k) ==
    {[type |-> l.type, from |-> NodeId(r, k, l.from), to |-> NodeId(r, k, l.to)] :
        l \in Reported(k)}

\* All batches; an adapter may fail for some and the mapper goes on.
Parse(r, ok) ==
    /\ run[r].at = "idle" /\ job
    /\ run' = [run EXCEPT ![r] =
          [Idle EXCEPT !.at = "nodes", !.parsed = ok,
                       !.todo = UNION {NodesOf(r, k) : k \in ok},
                       !.links = UNION {EdgesOf(r, k) : k \in ok}]]
    /\ UNCHANGED <<job, lang, refused, rows, counts, query>>

---------------------------------------------------------------------------
(* Bulk insert, row by row when it fails: nodes, edges and smells alike.   *)

\* Variant of Refused: edges without a foreign key.
RefusedUnkeyed(table, row) ==
    \/ ~job
    \/ table = "nodes" /\ row.entity \in refused

Refused(table, row) ==
    \/ ~job
    \/ table = "nodes" /\ row.entity \in refused
    \/ table = "edges" /\ ~({row.from, row.to} \subseteq nodes)

Store(table, new) ==
    /\ nodes' = IF table = "nodes" THEN nodes \cup new ELSE nodes
    /\ edges' = IF table = "edges" THEN edges \cup new ELSE edges
    /\ smells' = IF table = "smells" THEN smells \cup new ELSE smells

\* The smells go in one INSERT.  Nothing depends on the order of rows: the
\* ones that go first are some of them.
NextChunk(r) ==
    LET todo == run[r].todo
    IN IF run[r].at = "smells" \/ Cardinality(todo) <= Chunk THEN todo
       ELSE CHOOSE some \in SUBSET todo : Cardinality(some) = Chunk

\* Variant of InsertChunk: counts the rows before they are stored.
InsertChunkCounting(r) ==
    LET table == run[r].at
        chunk == NextChunk(r)
    IN /\ table \in Tables /\ chunk # {} /\ run[r].slow = {}
       /\ IF \A row \in chunk : ~Refused(table, row)
          THEN /\ Store(table, chunk)
               /\ run' = [run EXCEPT ![r].todo = @ \ chunk,
                                     ![r].stored[table] = @ + Cardinality(chunk)]
          ELSE /\ run' = [run EXCEPT ![r].todo = @ \ chunk, ![r].slow = chunk,
                                     ![r].stored[table] = @ + Cardinality(chunk)]
               /\ UNCHANGED rows
       /\ UNCHANGED <<job, lang, refused, counts, query>>

InsertChunk(r) ==
    LET table == run[r].at
        chunk == NextChunk(r)
    IN /\ table \in Tables /\ chunk # {} /\ run[r].slow = {}
       /\ IF \A row \in chunk : ~Refused(table, row)
          THEN /\ Store(table, chunk)
               /\ run' = [run EXCEPT ![r].todo = @ \ chunk,
                                     ![r].stored[table] = @ + Cardinality(chunk)]
          ELSE /\ run' = [run EXCEPT ![r].todo = @ \ chunk, ![r].slow = chunk]
               /\ UNCHANGED rows
       /\ UNCHANGED <<job, lang, refused, counts, query>>

\* Variant of InsertRow: the first row that is refused ends the chunk.
InsertRowGivesUp(r) ==
    LET table == run[r].at
        row == CHOOSE next \in run[r].slow : TRUE
    IN /\ run[r].slow # {}
       /\ IF Refused(table, row)
          THEN run' = [run EXCEPT ![r].slow = {}] /\ UNCHANGED rows
          ELSE /\ Store(table, {row})
               /\ run' = [run EXCEPT ![r].slow = @ \ {row}, ![r].stored[table] = @ + 1]
       /\ UNCHANGED <<job, lang, refused, counts, query>>

InsertRow(r) ==
    LET table == run[r].at
        row == CHOOSE next \in run[r].slow : TRUE
    IN /\ run[r].slow # {}
       /\ IF Refused(table, row)
          THEN run' = [run EXCEPT ![r].slow = @ \ {row}] /\ UNCHANGED rows
          ELSE /\ Store(table, {row})
               /\ run' = [run EXCEPT ![r].slow = @ \ {row}, ![r].stored[table] = @ + 1]
       /\ UNCHANGED <<job, lang, refused, counts, query>>

LoopEnds(r) ==
    /\ run[r].at \in Tables /\ run[r].todo = {} /\ run[r].slow = {}
    /\ run' = [run EXCEPT ![r].at = CASE @ = "nodes" -> "edges" [] @ = "edges" -> "stats"
                                      [] @ = "smells" -> "count",
                          ![r].todo = IF run[r].at = "nodes" THEN run[r].links ELSE {}]
    /\ UNCHANGED <<job, lang, refused, rows, counts, query>>

\* The run's own numbers; without the job's row the UPDATE matches nothing.
UpdateCounts(r) ==
    /\ run[r].at \in {"stats", "count"}
    /\ LET ts == IF run[r].at = "stats" THEN {"nodes", "edges"} ELSE {"smells"}
       IN counts' = [t \in Tables |-> IF job /\ t \in ts THEN run[r].stored[t] ELSE counts[t]]
    /\ run' = [run EXCEPT ![r].at = IF @ = "stats" THEN "read" ELSE "done"]
    /\ UNCHANGED <<job, lang, refused, rows, query>>

---------------------------------------------------------------------------
(* SmellDetectorAgent.run.                                                 *)

\* All nodes of the job, those of other runs included.
LoadNodes(r) ==
    /\ run[r].at = "read"
    /\ run' = [run EXCEPT ![r].at = "rules", ![r].seen = nodes]
    /\ UNCHANGED <<job, lang, refused, rows, counts, query>>

\* The methods a class contains, and what a method calls, as far as loaded.
Targets(n, type, ns, es) == {e.to : e \in {f \in es : f.type = type /\ f.from = n}} \cap ns

GodClasses(ns, es) ==
    {n \in ns : Cardinality(Targets(n, "CONTAINS", ns, es)) > MethodLimit}

DeadCode(ns, es) ==
    {n \in ns : n.entity \in Private /\ \A e \in es : e.to = n => e.type # "CALLS"}

FeatureEnvy(ns, es) ==
    {n \in ns : Cardinality({Prefix[m.entity] : m \in Targets(n, "CALLS", ns, es)}) > EnvyLimit}

\* More than four fifths of the methods are accessors.
AnemicModels(ns, es) ==
    {n \in ns :
        LET methods == Targets(n, "CONTAINS", ns, es)
            accessors == {m \in methods : m.entity \in Accessors}
        IN /\ Cardinality(methods) >= FewMethods
           /\ 5 * Cardinality(accessors) > 4 * Cardinality(methods)}

\* Large classes, long methods and direct use of JDBC: no other row is looked at.
FlaggedAlone(ns) ==
    UNION {[type : {f.type}, node : {n \in ns : n.entity = f.entity}] : f \in Flagged}

Found(ns, es) ==
    FlaggedAlone(ns)
      \cup [type : {"god_class"}, node : GodClasses(ns, es)]
      \cup [type : {"dead_code"}, node : DeadCode(ns, es)]
      \cup [type : {"feature_envy"}, node : FeatureEnvy(ns, es)]
      \cup [type : {"anemic_domain_model"}, node : AnemicModels(ns, es)]

\* The candidates become rows of the run.
Reports(r, found) ==
    run' = [run EXCEPT ![r].at = "smells", ![r].seen = {},
                       ![r].todo = {[by |-> r, type |-> s.type, node |-> s.node] : s \in found}]

\* Variant of FindSmells: a class of the same name that has the smell already
\* is left out.
FindSmellsByName(r) ==
    /\ run[r].at = "rules"
    /\ LET named == {s.node.entity : s \in smells}
       IN Reports(r, {s \in Found(run[r].seen, edges) : s.node.entity \notin named})
    /\ UNCHANGED <<job, lang, refused, rows, counts, query>>

FindSmells(r) ==
    /\ run[r].at = "rules"
    /\ Reports(r, Found(run[r].seen, edges))
    /\ UNCHANGED <<job, lang, refused, rows, counts, query>>

\* The worker dies, or the pipeline fails in between.
RunStops(r) ==
    /\ run[r].at \notin {"idle", "done", "stopped"}
    /\ run' = [run EXCEPT ![r] = [Idle EXCEPT !.at = "stopped"]]
    /\ UNCHANGED <<job, lang, refused, rows, counts, query>>

---------------------------------------------------------------------------
(* get_subgraph: one query per hop for the edges, one for their nodes.     *)

QueryStart(seed, direction, depth) ==
    /\ query.at = "idle"
    /\ query' = [at |-> "edges", seeds |-> {seed}, direction |-> direction, left |-> depth,
                 depth |-> depth, visited |-> {seed}, frontier |-> {seed}, edges |-> {},
                 nodes |-> {seed}, before |-> edges]
    /\ UNCHANGED <<job, lang, refused, rows, counts, run>>

Adjacent(direction, ns, es) ==
    {e \in es : \/ direction \in {"outbound", "both"} /\ e.from \in ns
                \/ direction \in {"inbound", "both"} /\ e.to \in ns}
Ends(es) == {e.from : e \in es} \cup {e.to : e \in es}

\* Variant of QueryEdges: goes on from the targets only.
QueryTargets ==
    /\ query.at = "edges"
    /\ LET new == Adjacent(query.direction, query.frontier, edges)
           fresh == {e.to : e \in new} \ query.visited
       IN query' = [query EXCEPT !.edges = @ \cup new, !.visited = @ \cup fresh,
                                 !.frontier = fresh, !.at = IF fresh = {} THEN "done" ELSE "nodes"]
    /\ UNCHANGED <<job, lang, refused, rows, counts, run>>

QueryEdges ==
    /\ query.at = "edges"
    /\ LET new == Adjacent(query.direction, query.frontier, edges)
           fresh == Ends(new) \ query.visited
       IN query' = [query EXCEPT !.edges = @ \cup new, !.visited = @ \cup fresh,
                                 !.frontier = fresh, !.at = IF fresh = {} THEN "done" ELSE "nodes"]
    /\ UNCHANGED <<job, lang, refused, rows, counts, run>>

QueryNodes ==
    /\ query.at = "nodes"
    /\ query' = [query EXCEPT !.nodes = @ \cup (query.frontier \cap nodes), !.left = @ - 1,
                              !.at = IF query.left = 1 THEN "done" ELSE "edges"]
    /\ UNCHANGED <<job, lang, refused, rows, counts, run>>

QueryEnds ==
    /\ query.at = "done"
    /\ query' = NoQuery
    /\ UNCHANGED <<job, lang, refused, rows, counts, run>>

---------------------------------------------------------------------------

DeleteJob ==
    /\ job
    /\ job' = FALSE
    /\ nodes' = {} /\ edges' = {} /\ smells' = {}
    /\ counts' = [t \in Tables |-> 0]
    /\ UNCHANGED <<lang, refused, run, query>>

Next ==
    \/ \E r \in Runs :
          \/ \E ok \in {Batches} \cup {Batches \ {k} : k \in Batches} : Parse(r, ok)
          \/ InsertChunk(r) \/ InsertRow(r) \/ LoopEnds(r) \/ UpdateCounts(r)
          \/ LoadNodes(r) \/ FindSmells(r) \/ RunStops(r)
    \/ \E n \in nodes, q \in Requests :
          n.entity = q.seed /\ QueryStart(n, q.direction, q.depth)
    \/ QueryEdges \/ QueryNodes \/ QueryEnds
    \/ DeleteJob

Spec == Init /\ [][Next]_vars

---------------------------------------------------------------------------
(* Properties.                                                             *)

\* _update_job_stats (mapper.py:307) writes what a run counted while chunks
\* failed and rows were skipped, and runs overlap: the job never shows more
\* nodes, edges or smells than it has.
CountsAreBacked ==
    /\ counts["nodes"] <= Cardinality(nodes)
    /\ counts["edges"] <= Cardinality(edges)
    /\ counts["smells"] <= Cardinality(smells)

Own(r) == {n \in nodes : n.run = r}
Mapped(r) == run[r].at \in {"stats", "read", "rules", "smells", "count", "done"}

\* The row-by-row fallback (mapper.py:225, 285): a row PostgreSQL does not take
\* costs itself and its edges, whichever chunk it was in; everything else that
\* was parsed is in the graph when the mapper ends.
OnlyRefusedIsLost ==
    \A r \in Runs : job /\ Mapped(r) =>
        \A k \in run[r].parsed :
            LET kept == {e \in Parsed(k) : e \notin refused}
            IN /\ {n \in Own(r) : n.batch = k} = {NodeId(r, k, e) : e \in kept}
               /\ \A e \in EdgesOf(r, k) :
                     e \in edges <=> {e.from.entity, e.to.entity} \subseteq kept

\* The detector works on rows it reads back in two statements
\* (smell_detector.py:65), others writing to the same job and the database
\* refusing rows: of its own classes and methods a finished run has reported
\* exactly what the rules find in its own part of the graph.
DetectorSeesOwnGraph ==
    \A r \in Runs : job /\ run[r].at = "done" =>
        {[type |-> s.type, node |-> s.node] : s \in {t \in smells : t.by = r /\ t.node.run = r}}
            = Found(Own(r), edges)

\* Reference for SubgraphIsBall: the nodes at most d hops away.
Ball(seeds, direction, d, es) ==
    LET ball[k \in 0..d] ==
            IF k = 0 THEN seeds
            ELSE ball[k - 1] \cup Ends(Adjacent(direction, ball[k - 1], es))
    IN ball[d]

\* get_subgraph (graph.py:575) walks from its frontier only, in statements
\* between which a mapper inserts: the answer has every node that was within
\* reach when the request began, none that is not within reach when it ends,
\* and both nodes of each edge.
SubgraphIsBall ==
    job /\ query.at = "done" =>
        /\ Ball(query.seeds, query.direction, query.depth, query.before) \subseteq query.nodes
        /\ query.nodes \subseteq Ball(query.seeds, query.direction, query.depth, edges)
        /\ Ends(query.edges) \subseteq query.nodes

============================================================================
