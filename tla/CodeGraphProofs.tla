-------------------------- MODULE CodeGraphProofs --------------------------
(***************************************************************************)
(* The code graph is what its runs parsed, for any number of runs and any  *)
(* repository.  The invariant says of each run, as long as the job exists, *)
(* what has become of its own part of the graph: which of its rows are     *)
(* stored and which still wait.  Only the run itself changes that part,    *)
(* and the rules about a node look at no other.                            *)
(***************************************************************************)
EXTENDS CodeGraph, FiniteSetTheorems, TLAPS

EdgeRows == [type : LinkTypes, from : NodeIds, to : NodeIds]
SmellRows == [by : Runs, type : SmellTypes, node : NodeIds]
AnyRow == NodeIds \cup EdgeRows \cup SmellRows
Stages == {"idle", "nodes", "edges", "stats", "read", "rules", "smells", "count", "done", "stopped"}

Record == [at : Stages, todo : SUBSET AnyRow, slow : SUBSET AnyRow, links : SUBSET EdgeRows,
           seen : SUBSET NodeIds, parsed : SUBSET Batches, stored : [Tables -> Nat]]

---------------------------------------------------------------------------
(* The tables are finite.                                                  *)

\* Triples of members of finite sets are finite in number.
LEMMA FiniteTriples ==
    ASSUME NEW A, NEW B, NEW C, IsFiniteSet(A), IsFiniteSet(B), IsFiniteSet(C)
    PROVE  IsFiniteSet(A \X B \X C)
<1> DEFINE Q == B \X C
           P == A \X B \X C
           h == [p \in A \X Q |-> <<p[1], p[2][1], p[2][2]>>]
<1>1. IsFiniteSet(A \X Q)
    BY FS_Product
<1>2. h \in Surjection(A \X Q, P)
    <2>1. h \in [A \X Q -> P]
        OBVIOUS
    <2>2. ASSUME NEW p \in P PROVE \E q \in A \X Q : h[q] = p
        <3>1. <<p[1], <<p[2], p[3]>>>> \in A \X Q
            OBVIOUS
        <3>2. h[<<p[1], <<p[2], p[3]>>>>] = p
            BY <3>1
        <3>3. QED BY <3>1, <3>2
    <2>3. QED BY <2>1, <2>2 DEF Surjection
<1>3. QED BY <1>1, <1>2, FS_Surjection

\* The types of edges and of smells are finite in number.
LEMMA FiniteTypes == IsFiniteSet(LinkTypes) /\ IsFiniteSet(SmellTypes)
<1>1. ASSUME NEW S, NEW x, IsFiniteSet(S) PROVE IsFiniteSet(S \cup {x})
    BY <1>1, FS_AddElement
<1> DEFINE three == {"god_class"} \cup {"large_class"} \cup {"long_method"}
           five == three \cup {"tight_coupling"} \cup {"dead_code"}
<1>2. IsFiniteSet({"CONTAINS"}) /\ IsFiniteSet({"god_class"})
    BY FS_Singleton
<1>3. IsFiniteSet({"CONTAINS"} \cup {"CALLS"})
    BY <1>1, <1>2
<1>4. IsFiniteSet({"god_class"} \cup {"large_class"})
    BY <1>1, <1>2
<1>5. IsFiniteSet(three)
    BY <1>1, <1>4
<1>6. IsFiniteSet(three \cup {"tight_coupling"})
    <2> HIDE DEF three
    <2>1. QED BY <1>1, <1>5
<1>7. IsFiniteSet(five)
    <2> HIDE DEF three
    <2>1. QED BY <1>1, <1>6
<1>8. IsFiniteSet(five \cup {"feature_envy"})
    <2> HIDE DEF five
    <2>1. QED BY <1>1, <1>7
<1>9. IsFiniteSet((five \cup {"feature_envy"}) \cup {"anemic_domain_model"})
    <2> HIDE DEF five
    <2>1. QED BY <1>1, <1>8
<1>10. /\ LinkTypes = {"CONTAINS"} \cup {"CALLS"}
       /\ SmellTypes = (five \cup {"feature_envy"}) \cup {"anemic_domain_model"}
    BY DEF LinkTypes, SmellTypes
<1>11. QED BY <1>3, <1>9, <1>10

\* The rows that runs may insert are finite in number.
LEMMA FiniteRows == IsFiniteSet(NodeIds) /\ IsFiniteSet(EdgeRows) /\ IsFiniteSet(SmellRows)
<1>1. IsFiniteSet(Batches)
    <2> DEFINE g == [e \in Entities |-> BatchOf[e]]
    <2>1. g \in Surjection(Entities, Batches)
        BY DEF Surjection, Batches
    <2>2. QED BY <2>1, FS_Surjection, GraphAssumption
<1>2. IsFiniteSet(NodeIds)
    <2> DEFINE P == Runs \X Batches \X Entities
               f == [p \in P |-> [run |-> p[1], batch |-> p[2], entity |-> p[3]]]
    <2>1. f \in [P -> NodeIds]
        BY DEF NodeIds
    <2>2. ASSUME NEW n \in NodeIds PROVE \E p \in P : f[p] = n
        <3>1. <<n.run, n.batch, n.entity>> \in P
            BY DEF NodeIds
        <3>2. f[<<n.run, n.batch, n.entity>>] = n
            BY <3>1 DEF NodeIds
        <3>3. QED BY <3>1, <3>2
    <2>3. f \in Surjection(P, NodeIds)
        BY <2>1, <2>2 DEF Surjection
    <2>4. IsFiniteSet(P)
        BY <1>1, FiniteTriples, GraphAssumption
    <2>5. QED BY <2>3, <2>4, FS_Surjection
<1>3. IsFiniteSet(EdgeRows)
    <2> DEFINE P == LinkTypes \X NodeIds \X NodeIds
               f == [p \in P |-> [type |-> p[1], from |-> p[2], to |-> p[3]]]
    <2>1. f \in [P -> EdgeRows]
        BY DEF EdgeRows
    <2>2. ASSUME NEW e \in EdgeRows PROVE \E p \in P : f[p] = e
        <3>1. <<e.type, e.from, e.to>> \in P
            BY DEF EdgeRows
        <3>2. f[<<e.type, e.from, e.to>>] = e
            BY <3>1 DEF EdgeRows
        <3>3. QED BY <3>1, <3>2
    <2>3. f \in Surjection(P, EdgeRows)
        BY <2>1, <2>2 DEF Surjection
    <2>4. IsFiniteSet(LinkTypes)
        BY FiniteTypes
    <2>5. IsFiniteSet(P)
        BY <1>2, <2>4, FiniteTriples
    <2>6. QED BY <2>3, <2>5, FS_Surjection
<1>4. IsFiniteSet(SmellRows)
    <2> DEFINE P == Runs \X SmellTypes \X NodeIds
               f == [p \in P |-> [by |-> p[1], type |-> p[2], node |-> p[3]]]
    <2>1. f \in [P -> SmellRows]
        BY DEF SmellRows
    <2>2. ASSUME NEW s \in SmellRows PROVE \E p \in P : f[p] = s
        <3>1. <<s.by, s.type, s.node>> \in P
            BY DEF SmellRows
        <3>2. f[<<s.by, s.type, s.node>>] = s
            BY <3>1 DEF SmellRows
        <3>3. QED BY <3>1, <3>2
    <2>3. f \in Surjection(P, SmellRows)
        BY <2>1, <2>2 DEF Surjection
    <2>4. IsFiniteSet(SmellTypes)
        BY FiniteTypes
    <2>5. IsFiniteSet(P)
        BY <1>2, <2>4, FiniteTriples, GraphAssumption
    <2>6. QED BY <2>3, <2>5, FS_Surjection
<1>5. QED BY <1>2, <1>3, <1>4

\* A finite set has subsets of every smaller size.
LEMMA SomeOfThem ==
    ASSUME NEW S, IsFiniteSet(S), NEW n \in Nat, n <= Cardinality(S)
    PROVE  \E T \in SUBSET S : Cardinality(T) = n
<1>1. Cardinality(S) \in Nat /\ ExistsBijection(1..Cardinality(S), S)
    BY FS_CardinalityType
<1>2. PICK f \in Bijection(1..Cardinality(S), S) : TRUE
    BY <1>1 DEF ExistsBijection
<1> DEFINE T == {f[i] : i \in 1..n}
           g == [i \in 1..n |-> f[i]]
<1>3. 1..n \subseteq 1..Cardinality(S)
    BY <1>1
<1>4. f \in [1..Cardinality(S) -> S] /\ IsInjective(f)
    BY <1>2 DEF Bijection, Injection
<1>5. T \in SUBSET S
    BY <1>3, <1>4
<1>6. g \in Bijection(1..n, T)
    BY <1>3, <1>4 DEF Bijection, Injection, Surjection, IsInjective
<1>7. Cardinality(T) = n
    BY <1>6, FS_CountingElements DEF ExistsBijection
<1>8. QED BY <1>5, <1>7

\* The rows of one INSERT are rows that wait.
LEMMA ChunkWaits ==
    ASSUME NEW r \in Runs, IsFiniteSet(run[r].todo)
    PROVE  NextChunk(r) \subseteq run[r].todo
<1> DEFINE todo == run[r].todo
<1>1. CASE run[r].at = "smells" \/ Cardinality(todo) <= Chunk
    BY <1>1 DEF NextChunk
<1>2. CASE ~(run[r].at = "smells" \/ Cardinality(todo) <= Chunk)
    <2>1. Chunk \in Nat /\ Cardinality(todo) \in Nat
        BY FS_CardinalityType, GraphAssumption
    <2>2. \E some \in SUBSET todo : Cardinality(some) = Chunk
        BY <1>2, <2>1, SomeOfThem
    <2>3. QED BY <1>2, <2>2 DEF NextChunk
<1>3. QED BY <1>1, <1>2

---------------------------------------------------------------------------
(* The invariant.                                                          *)

OwnEdges(r) == {e \in edges : e.from.run = r}
OwnSmells(r) == {s \in smells : s.by = r}

\* What the run has parsed, and the rows it has still to insert.
AllNodes(r) == UNION {NodesOf(r, k) : k \in run[r].parsed}
AllEdges(r) == UNION {EdgesOf(r, k) : k \in run[r].parsed}
Waiting(r) == run[r].todo \cup run[r].slow

\* What rows say of the run's own part of the graph.
Verdict(r, rs) == {[type |-> s.type, node |-> s.node] : s \in {t \in rs : t.node.run = r}}

QueueFit(r) ==
    /\ run[r].todo \cap run[r].slow = {}
    /\ run[r].at \notin Tables => Waiting(r) = {}

NodesFit(r) ==
    /\ run[r].at = "idle" => Own(r) = {}
    /\ run[r].at = "nodes" =>
          /\ Own(r) \cup Waiting(r) \subseteq AllNodes(r)
          /\ Own(r) \cap Waiting(r) = {}
          /\ \A n \in Own(r) : n.entity \notin refused
          /\ \A n \in AllNodes(r) : n.entity \notin refused => n \in Own(r) \cup Waiting(r)
          /\ run[r].links = AllEdges(r)
    /\ run[r].at = "edges" \/ Mapped(r) =>
          Own(r) = {n \in AllNodes(r) : n.entity \notin refused}

EdgesFit(r) ==
    /\ run[r].at \in {"idle", "nodes"} => OwnEdges(r) = {}
    /\ run[r].at = "edges" =>
          /\ OwnEdges(r) \cup Waiting(r) \subseteq AllEdges(r)
          /\ OwnEdges(r) \cap Waiting(r) = {}
          /\ \A e \in AllEdges(r) :
                {e.from, e.to} \subseteq Own(r) => e \in OwnEdges(r) \cup Waiting(r)
    /\ Mapped(r) => OwnEdges(r) = {e \in AllEdges(r) : {e.from, e.to} \subseteq Own(r)}

SmellsFit(r) ==
    /\ run[r].at \in {"idle", "nodes", "edges", "stats", "read", "rules"} => OwnSmells(r) = {}
    /\ run[r].at = "rules" => {n \in run[r].seen : n.run = r} = Own(r)
    /\ run[r].at = "smells" =>
          /\ Waiting(r) \subseteq {s \in SmellRows : s.by = r}
          /\ OwnSmells(r) \cap Waiting(r) = {}
          /\ Verdict(r, OwnSmells(r) \cup Waiting(r)) = Found(Own(r), OwnEdges(r))
    /\ run[r].at \in {"count", "done"} =>
          Verdict(r, OwnSmells(r)) = Found(Own(r), OwnEdges(r))

CountFit(r) ==
    /\ run[r].stored["nodes"] <= Cardinality(Own(r))
    /\ run[r].stored["edges"] <= Cardinality(OwnEdges(r))
    /\ run[r].stored["smells"] <= Cardinality(OwnSmells(r))

RunFit(r) == NodesFit(r) /\ EdgesFit(r) /\ SmellsFit(r) /\ CountFit(r)

\* The rows of the tables, whatever the runs do.
TablesOk ==
    /\ nodes \subseteq NodeIds /\ edges \subseteq EdgeRows /\ smells \subseteq SmellRows
    /\ \A e \in edges : {e.from, e.to} \subseteq nodes /\ e.from.run = e.to.run
    /\ ~job => nodes = {} /\ edges = {} /\ smells = {}

GraphInv ==
    /\ job \in BOOLEAN /\ lang \in {"java", "python"} /\ refused \subseteq Unstorable
    /\ run \in [Runs -> Record]
    /\ TablesOk
    /\ counts \in [Tables -> Nat] /\ CountsAreBacked
    /\ \A r \in Runs : QueueFit(r)
    /\ job => \A r \in Runs : RunFit(r)

---------------------------------------------------------------------------
(* The rules look at a node and its edges only.                            *)

\* No rule finds anything but nodes it was given.
LEMMA FoundIsGiven ==
    ASSUME NEW ns \in SUBSET NodeIds, NEW es \in SUBSET EdgeRows, NEW s \in Found(ns, es)
    PROVE  s.node \in ns /\ s.type \in SmellTypes /\ s = [type |-> s.type, node |-> s.node]
BY GraphAssumption DEF Found, FlaggedAlone, GodClasses, DeadCode, FeatureEnvy, AnemicModels, SmellTypes

\* What another run has put into the graph changes nothing for a run's nodes,
\* because no edge leads from one run's part into another's.
LEMMA FoundIsLocal ==
    ASSUME NEW r \in Runs, NEW ns \in SUBSET NodeIds, NEW es \in SUBSET EdgeRows,
           \A e \in es : e.from.run = e.to.run
    PROVE  {s \in Found(ns, es) : s.node.run = r}
             = Found({n \in ns : n.run = r}, {e \in es : e.from.run = r})
<1> DEFINE nr == {n \in ns : n.run = r}
           er == {e \in es : e.from.run = r}
<1>1. ASSUME NEW n \in nr, NEW type
      PROVE  Targets(n, type, ns, es) = Targets(n, type, nr, er)
    BY DEF Targets, EdgeRows
<1>2. {n \in GodClasses(ns, es) : n.run = r} = GodClasses(nr, er)
    BY <1>1 DEF GodClasses
<1>3. {n \in FeatureEnvy(ns, es) : n.run = r} = FeatureEnvy(nr, er)
    BY <1>1 DEF FeatureEnvy
<1>4. {n \in AnemicModels(ns, es) : n.run = r} = AnemicModels(nr, er)
    BY <1>1 DEF AnemicModels
<1>5. {n \in DeadCode(ns, es) : n.run = r} = DeadCode(nr, er)
    BY DEF DeadCode
<1>6. {s \in FlaggedAlone(ns) : s.node.run = r} = FlaggedAlone(nr)
    BY DEF FlaggedAlone
<1>7. QED BY <1>2, <1>3, <1>4, <1>5, <1>6 DEF Found

---------------------------------------------------------------------------
(* Steps of a run.                                                         *)

\* Rows to insert and rows of a table are finite in number.
LEMMA FiniteParts ==
    ASSUME TablesOk, run \in [Runs -> Record], NEW r \in Runs
    PROVE  /\ IsFiniteSet(run[r].todo) /\ IsFiniteSet(run[r].slow)
           /\ IsFiniteSet(nodes) /\ IsFiniteSet(edges) /\ IsFiniteSet(smells)
           /\ IsFiniteSet(Own(r)) /\ IsFiniteSet(OwnEdges(r)) /\ IsFiniteSet(OwnSmells(r))
<1>1. IsFiniteSet(AnyRow)
    <2>1. IsFiniteSet(NodeIds \cup EdgeRows)
        BY FiniteRows, FS_Union
    <2>2. QED BY <2>1, FiniteRows, FS_Union DEF AnyRow
<1>2. run[r].todo \in SUBSET AnyRow /\ run[r].slow \in SUBSET AnyRow
    BY DEF Record
<1>3. IsFiniteSet(nodes) /\ IsFiniteSet(edges) /\ IsFiniteSet(smells)
    BY FiniteRows, FS_Subset DEF TablesOk
<1>4. Own(r) \in SUBSET nodes /\ OwnEdges(r) \in SUBSET edges /\ OwnSmells(r) \in SUBSET smells
    BY DEF Own, OwnEdges, OwnSmells
<1>5. IsFiniteSet(run[r].todo) /\ IsFiniteSet(run[r].slow)
    BY <1>1, <1>2, FS_Subset
<1>6. IsFiniteSet(Own(r)) /\ IsFiniteSet(OwnEdges(r)) /\ IsFiniteSet(OwnSmells(r))
    BY <1>3, <1>4, FS_Subset
<1>7. QED BY <1>3, <1>5, <1>6

\* A run keeps its part when others move.
LEMMA RunStays ==
    ASSUME NEW r \in Runs, RunFit(r), run'[r] = run[r],
           UNCHANGED <<lang, refused>>,
           Own(r)' = Own(r), OwnEdges(r)' = OwnEdges(r), OwnSmells(r)' = OwnSmells(r)
    PROVE  RunFit(r)'
<1>1. AllNodes(r)' = AllNodes(r) /\ AllEdges(r)' = AllEdges(r) /\ Waiting(r)' = Waiting(r)
    BY DEF AllNodes, AllEdges, NodesOf, EdgesOf, Parsed, Reported, Waiting
<1>2. Mapped(r)' <=> Mapped(r)
    BY DEF Mapped
<1>3. NodesFit(r)'
    BY <1>1, <1>2 DEF RunFit, NodesFit
<1>4. EdgesFit(r)'
    BY <1>1, <1>2 DEF RunFit, EdgesFit
<1>5. SmellsFit(r)'
    <2>1. Verdict(r, OwnSmells(r) \cup Waiting(r))' = Verdict(r, OwnSmells(r) \cup Waiting(r))
        BY <1>1 DEF Verdict
    <2>2. QED
        BY <1>1, <2>1 DEF RunFit, SmellsFit
<1>6. CountFit(r)'
    BY DEF RunFit, CountFit
<1>7. QED BY <1>3, <1>4, <1>5, <1>6 DEF RunFit

\* A chunk leaves those that wait, and is counted.
TodoMoved(f, r, S, t, n) == [f EXCEPT ![r].todo = S, ![r].stored[t] = @ + n]

\* A run whose rows to insert and whose count change.
LEMMA FewerTodo ==
    ASSUME NEW f \in [Runs -> Record], NEW r \in Runs, NEW t \in Tables,
           NEW S \in SUBSET AnyRow, NEW n \in Nat, NEW g,
           g = TodoMoved(f, r, S, t, n)
    PROVE  /\ g \in [Runs -> Record] /\ \A s \in Runs \ {r} : g[s] = f[s]
           /\ g[r].todo = S /\ g[r].slow = f[r].slow
           /\ g[r].at = f[r].at /\ g[r].links = f[r].links
           /\ g[r].seen = f[r].seen /\ g[r].parsed = f[r].parsed
           /\ g[r].stored = [f[r].stored EXCEPT ![t] = @ + n]
<1> DEFINE st == [f[r].stored EXCEPT ![t] = f[r].stored[t] + n]
<1>1. st \in [Tables -> Nat]
    BY DEF Record
<1>2. g[r] = [[f[r] EXCEPT !.todo = S] EXCEPT !.stored = st]
    BY Zenon DEF TodoMoved
<1>3. g \in [Runs -> Record] /\ \A s \in Runs \ {r} : g[s] = f[s]
    <2>1. g[r] \in Record
        <3> HIDE DEF st
        <3>1. QED BY <1>1, <1>2 DEF Record
    <2>2. DOMAIN g = Runs /\ g = [s \in Runs |-> g[s]] /\ \A s \in Runs \ {r} : g[s] = f[s]
        BY DEF TodoMoved
    <2>3. QED BY <2>1, <2>2
<1>4. QED
    <2>1. f[r] \in Record
        OBVIOUS
    <2> DEFINE q == f[r]
    <2>2. /\ g[r].todo = S /\ g[r].slow = q.slow
          /\ g[r].at = q.at /\ g[r].links = q.links
          /\ g[r].seen = q.seen /\ g[r].parsed = q.parsed /\ g[r].stored = st
        <3> HIDE DEF st
        <3>1. g[r] = [[q EXCEPT !.todo = S] EXCEPT !.stored = st]
            BY <1>2
        <3> HIDE DEF q
        <3>2. q \in Record
            BY <2>1 DEF q
        <3>3. QED BY <3>1, <3>2 DEF Record
    <2>3. QED BY <1>3, <2>2

\* A row leaves those that wait, and is counted.
SlowMoved(f, r, S, t, n) == [f EXCEPT ![r].slow = S, ![r].stored[t] = @ + n]

\* The same for the rows that go one by one.
LEMMA FewerSlow ==
    ASSUME NEW f \in [Runs -> Record], NEW r \in Runs, NEW t \in Tables,
           NEW S \in SUBSET AnyRow, NEW n \in Nat, NEW g,
           g = SlowMoved(f, r, S, t, n)
    PROVE  /\ g \in [Runs -> Record] /\ \A s \in Runs \ {r} : g[s] = f[s]
           /\ g[r].slow = S /\ g[r].todo = f[r].todo
           /\ g[r].at = f[r].at /\ g[r].links = f[r].links
           /\ g[r].seen = f[r].seen /\ g[r].parsed = f[r].parsed
           /\ g[r].stored = [f[r].stored EXCEPT ![t] = @ + n]
<1> DEFINE st == [f[r].stored EXCEPT ![t] = f[r].stored[t] + n]
<1>1. st \in [Tables -> Nat]
    BY DEF Record
<1>2. g[r] = [[f[r] EXCEPT !.slow = S] EXCEPT !.stored = st]
    BY Zenon DEF SlowMoved
<1>3. g \in [Runs -> Record] /\ \A s \in Runs \ {r} : g[s] = f[s]
    <2>1. g[r] \in Record
        <3> HIDE DEF st
        <3>1. QED BY <1>1, <1>2 DEF Record
    <2>2. DOMAIN g = Runs /\ g = [s \in Runs |-> g[s]] /\ \A s \in Runs \ {r} : g[s] = f[s]
        BY DEF SlowMoved
    <2>3. QED BY <2>1, <2>2
<1>4. QED
    <2>1. f[r] \in Record
        OBVIOUS
    <2> DEFINE q == f[r]
    <2>2. /\ g[r].slow = S /\ g[r].todo = q.todo
          /\ g[r].at = q.at /\ g[r].links = q.links
          /\ g[r].seen = q.seen /\ g[r].parsed = q.parsed /\ g[r].stored = st
        <3> HIDE DEF st
        <3>1. g[r] = [[q EXCEPT !.slow = S] EXCEPT !.stored = st]
            BY <1>2
        <3> HIDE DEF q
        <3>2. q \in Record
            BY <2>1 DEF q
        <3>3. QED BY <3>1, <3>2 DEF Record
    <2>3. QED BY <1>3, <2>2

\* What an INSERT does, whether of a chunk or of a row, and whether it fails.
Inserts(r, new, lost) ==
    /\ new \in SUBSET Waiting(r) /\ lost \in SUBSET Waiting(r)
    /\ \A row \in new : ~Refused(run[r].at, row)
    /\ \A row \in lost : Refused(run[r].at, row)
    /\ Store(run[r].at, new)
    /\ run' \in [Runs -> Record]
    /\ \A s \in Runs \ {r} : run'[s] = run[s]
    /\ run'[r].at = run[r].at /\ run'[r].links = run[r].links
    /\ run'[r].seen = run[r].seen /\ run'[r].parsed = run[r].parsed
    /\ Waiting(r)' = Waiting(r) \ (new \cup lost)
    /\ (run[r].todo \cap run[r].slow = {})'
    /\ run'[r].stored = [run[r].stored EXCEPT ![run[r].at] = @ + Cardinality(new)]
    /\ UNCHANGED <<job, lang, refused, counts, query>>

\* InsertChunk stores the whole chunk or keeps it for the fallback.
LEMMA ChunkInserts ==
    ASSUME TablesOk, run \in [Runs -> Record], NEW r \in Runs, QueueFit(r), InsertChunk(r)
    PROVE  \E new, lost \in SUBSET Waiting(r) : Inserts(r, new, lost)
<1> DEFINE chunk == NextChunk(r)
           table == run[r].at
<1>1. chunk \subseteq run[r].todo /\ IsFiniteSet(run[r].todo)
    BY FiniteParts, ChunkWaits
<1>2. Cardinality(chunk) \in Nat
    BY <1>1, FS_Subset, FS_CardinalityType
<1>3. /\ run[r] \in Record /\ table \in Tables /\ run[r].slow = {}
      /\ UNCHANGED <<job, lang, refused, counts, query>>
    BY DEF InsertChunk
<1>4. CASE \A row \in chunk : ~Refused(table, row)
    <2>1. /\ Store(table, chunk)
          /\ run' = [run EXCEPT ![r].todo = @ \ chunk,
                                ![r].stored[table] = @ + Cardinality(chunk)]
        BY <1>4 DEF InsertChunk
    <2> HIDE DEF chunk
    <2> DEFINE some == run[r].todo \ chunk
               n == Cardinality(chunk)
    <2>2. run' = TodoMoved(run, r, some, table, n)
        BY <2>1 DEF TodoMoved
    <2>3. some \in SUBSET AnyRow /\ n \in Nat
        BY <1>2, <1>3 DEF Record
    <2>4. /\ run' \in [Runs -> Record] /\ \A s \in Runs \ {r} : run'[s] = run[s]
          /\ run'[r].todo = some /\ run'[r].slow = run[r].slow
          /\ run'[r].at = run[r].at /\ run'[r].links = run[r].links
          /\ run'[r].seen = run[r].seen /\ run'[r].parsed = run[r].parsed
          /\ run'[r].stored = [run[r].stored EXCEPT ![table] = @ + n]
        <3> HIDE DEF some, n
        <3>1. run \in [Runs -> Record] /\ r \in Runs /\ table \in Tables
            BY <1>3 DEF table
        <3> HIDE DEF table
        <3>2. QED BY <3>1, <2>2, <2>3, FewerTodo
    <2>7. Waiting(r)' = Waiting(r) \ (chunk \cup {}) /\ chunk \in SUBSET Waiting(r)
        BY <1>1, <1>3, <2>4 DEF Waiting
    <2>8. Inserts(r, chunk, {})
        BY <1>3, <1>4, <2>1, <2>4, <2>7 DEF Inserts
    <2>9. QED BY <2>7, <2>8
<1>5. CASE ~\A row \in chunk : ~Refused(table, row)
    <2>1. UNCHANGED rows /\ run' = [run EXCEPT ![r].todo = @ \ chunk, ![r].slow = chunk]
        BY <1>5 DEF InsertChunk
    <2> HIDE DEF chunk
    <2>2. run'[r] = [run[r] EXCEPT !.todo = @ \ chunk, !.slow = chunk]
        BY <2>1
    <2>3. run'[r] \in Record
        <3> DEFINE q == run[r]
                   some == q.todo \ chunk
        <3>1. chunk \in SUBSET AnyRow /\ some \in SUBSET AnyRow /\ q \in Record
            BY <1>1, <1>3 DEF Record
        <3>2. run'[r] = [q EXCEPT !.todo = some, !.slow = chunk]
            BY <2>2
        <3> HIDE DEF q, some
        <3>3. QED BY <3>1, <3>2 DEF Record
    <2>4. run' \in [Runs -> Record] /\ \A s \in Runs \ {r} : run'[s] = run[s]
        BY <2>1, <2>3
    <2>5. run'[r].todo = run[r].todo \ chunk /\ run'[r].slow = chunk
        BY <1>3, <2>2 DEF Record
    <2>6. /\ run'[r].at = run[r].at /\ run'[r].links = run[r].links
          /\ run'[r].seen = run[r].seen /\ run'[r].parsed = run[r].parsed
          /\ run'[r].stored = run[r].stored
        BY <2>2, <1>3 DEF Record
    <2>7. Waiting(r)' = Waiting(r) \ ({} \cup {})
        BY <1>1, <1>3, <2>5 DEF Waiting
    <2>8. Store(run[r].at, {})
        BY <2>1 DEF Store, rows
    <2>9. run[r].stored = [run[r].stored EXCEPT ![run[r].at] = @ + Cardinality({})]
        BY <1>3, FS_EmptySet DEF Record
    <2>10. Inserts(r, {}, {})
        BY <1>3, <2>4, <2>5, <2>6, <2>7, <2>8, <2>9 DEF Inserts
    <2>11. QED BY <2>10
<1>6. QED BY <1>4, <1>5

\* InsertRow stores one row, or loses it because it is refused.
LEMMA RowInserts ==
    ASSUME TablesOk, run \in [Runs -> Record], NEW r \in Runs, QueueFit(r), InsertRow(r)
    PROVE  \E new, lost \in SUBSET Waiting(r) : Inserts(r, new, lost)
<1>1. PICK row \in run[r].slow :
         IF Refused(run[r].at, row)
         THEN run' = [run EXCEPT ![r].slow = @ \ {row}] /\ UNCHANGED rows
         ELSE /\ Store(run[r].at, {row})
              /\ run' = [run EXCEPT ![r].slow = @ \ {row}, ![r].stored[run[r].at] = @ + 1]
    BY DEF InsertRow
<1>2. /\ run[r] \in Record /\ run[r].at \in Tables /\ row \in Waiting(r) /\ row \notin run[r].todo
      /\ UNCHANGED <<job, lang, refused, counts, query>>
    BY <1>1 DEF InsertRow, QueueFit, Waiting
<1>3. CASE Refused(run[r].at, row)
    <2>1. run' = [run EXCEPT ![r].slow = @ \ {row}] /\ UNCHANGED rows
        BY <1>1, <1>3
    <2>2. run'[r] = [run[r] EXCEPT !.slow = @ \ {row}]
        BY <2>1
    <2>3. run'[r] \in Record
        BY <1>2, <2>2 DEF Record
    <2>4. run' \in [Runs -> Record] /\ \A s \in Runs \ {r} : run'[s] = run[s]
        BY <2>1, <2>3
    <2>5. run'[r].todo = run[r].todo /\ run'[r].slow = run[r].slow \ {row}
        BY <1>2, <2>2 DEF Record
    <2>6. /\ run'[r].at = run[r].at /\ run'[r].links = run[r].links
          /\ run'[r].seen = run[r].seen /\ run'[r].parsed = run[r].parsed
          /\ run'[r].stored = run[r].stored
        BY <2>2, <1>2 DEF Record
    <2>7. Waiting(r)' = Waiting(r) \ ({} \cup {row})
        BY <1>2, <2>5 DEF Waiting
    <2>8. Store(run[r].at, {})
        BY <2>1 DEF Store, rows
    <2>9. run[r].stored = [run[r].stored EXCEPT ![run[r].at] = @ + Cardinality({})]
        BY <1>2, FS_EmptySet DEF Record
    <2>10. Inserts(r, {}, {row})
        BY <1>2, <1>3, <2>4, <2>5, <2>6, <2>7, <2>8, <2>9 DEF Inserts, QueueFit
    <2>11. QED BY <1>2, <2>10
<1>4. CASE ~Refused(run[r].at, row)
    <2>1. /\ Store(run[r].at, {row})
          /\ run' = [run EXCEPT ![r].slow = @ \ {row}, ![r].stored[run[r].at] = @ + 1]
        BY <1>1, <1>4
    <2> DEFINE others == run[r].slow \ {row}
               table == run[r].at
    <2>2. run' = SlowMoved(run, r, others, table, 1)
        BY <2>1 DEF SlowMoved
    <2>3. others \in SUBSET AnyRow /\ 1 \in Nat
        BY <1>2 DEF Record
    <2>4. /\ run' \in [Runs -> Record] /\ \A s \in Runs \ {r} : run'[s] = run[s]
          /\ run'[r].slow = others /\ run'[r].todo = run[r].todo
          /\ run'[r].at = run[r].at /\ run'[r].links = run[r].links
          /\ run'[r].seen = run[r].seen /\ run'[r].parsed = run[r].parsed
          /\ run'[r].stored = [run[r].stored EXCEPT ![table] = @ + 1]
        <3>1. run \in [Runs -> Record] /\ r \in Runs /\ table \in Tables
            BY <1>2
        <3> HIDE DEF others, table
        <3>2. QED BY <3>1, <2>2, <2>3, FewerSlow
    <2>7. Waiting(r)' = Waiting(r) \ ({row} \cup {})
        BY <1>2, <2>4 DEF Waiting
    <2>8. Cardinality({row}) = 1
        BY FS_Singleton
    <2>9. Inserts(r, {row}, {})
        BY <1>2, <1>4, <2>1, <2>4, <2>7, <2>8 DEF Inserts, QueueFit
    <2>10. QED BY <1>2, <2>9
<1>5. QED BY <1>3, <1>4

\* A table that grows covers what it covered.
LEMMA MoreRows ==
    ASSUME NEW S, NEW T, IsFiniteSet(S), IsFiniteSet(T)
    PROVE  /\ Cardinality(S) \in Nat /\ Cardinality(T) \in Nat
           /\ S \subseteq T => Cardinality(S) <= Cardinality(T)
           /\ S \cap T = {} => Cardinality(S \cup T) = Cardinality(S) + Cardinality(T)
<1>1. Cardinality(S) \in Nat /\ Cardinality(T) \in Nat
    BY FS_CardinalityType
<1>2. S \subseteq T => Cardinality(S) <= Cardinality(T)
    BY FS_Subset
<1>3. S \cap T = {} => Cardinality(S \cup T) = Cardinality(S) + Cardinality(T)
    BY <1>1, FS_Union, FS_EmptySet
<1>4. QED BY <1>1, <1>2, <1>3

\* What the adapters yield for some batches are rows of the run.
LEMMA YieldIsOwn ==
    ASSUME lang \in {"java", "python"}, NEW r \in Runs, NEW ks \in SUBSET Batches
    PROVE  /\ \A n \in UNION {NodesOf(r, k) : k \in ks} : n \in NodeIds /\ n.run = r
           /\ \A e \in UNION {EdgesOf(r, k) : k \in ks} :
                 e \in EdgeRows /\ e.from.run = r /\ e.to.run = r
<1>1. ASSUME NEW k \in Batches, NEW n \in NodesOf(r, k) PROVE n \in NodeIds /\ n.run = r
    BY <1>1 DEF NodesOf, NodeId, NodeIds, Parsed
<1>2. ASSUME NEW k \in Batches, NEW e \in EdgesOf(r, k)
      PROVE  e \in EdgeRows /\ e.from.run = r /\ e.to.run = r
    <2>1. PICK l \in Links : e = [type |-> l.type, from |-> NodeId(r, k, l.from),
                                                   to |-> NodeId(r, k, l.to)]
        BY <1>2 DEF EdgesOf, Reported
    <2>2. l.type \in LinkTypes /\ l.from \in Entities /\ l.to \in Entities
        BY GraphAssumption
    <2>3. QED BY <2>1, <2>2 DEF EdgeRows, NodeIds, NodeId
<1>3. QED BY <1>1, <1>2

\* What a run has parsed is its own.
LEMMA ParsedIsOwn ==
    ASSUME lang \in {"java", "python"}, run \in [Runs -> Record], NEW r \in Runs
    PROVE  /\ \A n \in AllNodes(r) : n \in NodeIds /\ n.run = r
           /\ \A e \in AllEdges(r) : e \in EdgeRows /\ e.from.run = r /\ e.to.run = r
<1>1. run[r].parsed \in SUBSET Batches
    BY DEF Record
<1>2. QED BY <1>1, YieldIsOwn DEF AllNodes, AllEdges

\* An INSERT, whole or row by row, keeps the tables in order, and adds to the
\* run's own part what was not there.
LEMMA TablesStay ==
    ASSUME GraphInv, NEW r \in Runs, NEW new, NEW lost, Inserts(r, new, lost)
    PROVE  /\ TablesOk' /\ CountsAreBacked'
           /\ \A s \in Runs \ {r} : /\ Own(s)' = Own(s)
                                    /\ OwnEdges(s)' = OwnEdges(s)
                                    /\ OwnSmells(s)' = OwnSmells(s)
           /\ run[r].at = "nodes" => Own(r)' = Own(r) \cup new
           /\ run[r].at # "nodes" => Own(r)' = Own(r)
           /\ run[r].at = "edges" => OwnEdges(r)' = OwnEdges(r) \cup new
           /\ run[r].at # "edges" => OwnEdges(r)' = OwnEdges(r)
           /\ run[r].at = "smells" => OwnSmells(r)' = OwnSmells(r) \cup new
           /\ run[r].at # "smells" => OwnSmells(r)' = OwnSmells(r)
<1>1. new # {} => job
    BY DEF Inserts, Refused
<1>2. /\ TablesOk /\ run \in [Runs -> Record] /\ (job => RunFit(r))
      /\ UNCHANGED <<job, counts>> /\ lang \in {"java", "python"} /\ new \subseteq Waiting(r)
    BY DEF GraphInv, Inserts
<1>3. /\ TablesOk'
      /\ nodes \subseteq nodes' /\ edges \subseteq edges' /\ smells \subseteq smells'
      /\ run[r].at # "nodes" => nodes' = nodes
      /\ run[r].at # "edges" => edges' = edges
      /\ run[r].at # "smells" => smells' = smells
      /\ \A n \in nodes' \ nodes : n.run = r
      /\ \A e \in edges' \ edges : e.from.run = r
      /\ \A s \in smells' \ smells : s.by = r
      /\ run[r].at = "nodes" => nodes' = nodes \cup new /\ \A n \in new : n.run = r
      /\ run[r].at = "edges" => edges' = edges \cup new /\ \A e \in new : e.from.run = r
      /\ run[r].at = "smells" => smells' = smells \cup new /\ \A s \in new : s.by = r
  <2>1. CASE new = {}
    <3>1. UNCHANGED <<nodes, edges, smells>>
        BY <2>1 DEF Inserts, Store
    <3>2. QED BY <1>2, <2>1, <3>1 DEF TablesOk
  <2>2. CASE job /\ run[r].at = "nodes"
    <3>1. nodes' = nodes \cup new /\ UNCHANGED <<edges, smells>>
        BY <2>2 DEF Inserts, Store
    <3>2. \A n \in new : n \in NodeIds /\ n.run = r
        BY <1>2, <2>2, ParsedIsOwn DEF RunFit, NodesFit
    <3>3. QED BY <1>2, <2>2, <3>1, <3>2 DEF TablesOk
  <2>3. CASE job /\ run[r].at = "edges"
    <3>1. edges' = edges \cup new /\ UNCHANGED <<nodes, smells>>
        BY <2>3 DEF Inserts, Store
    <3>2. \A e \in new : /\ e \in EdgeRows /\ e.from.run = r /\ e.to.run = r
                         /\ {e.from, e.to} \subseteq nodes
        BY <1>2, <2>3, ParsedIsOwn DEF RunFit, EdgesFit, Inserts, Refused
    <3>3. QED BY <1>2, <2>3, <3>1, <3>2 DEF TablesOk
  <2>4. CASE job /\ run[r].at = "smells"
    <3>1. smells' = smells \cup new /\ UNCHANGED <<nodes, edges>>
        BY <2>4 DEF Inserts, Store
    <3>2. \A s \in new : s \in SmellRows /\ s.by = r
        BY <1>2, <2>4 DEF RunFit, SmellsFit
    <3>3. QED BY <1>2, <2>4, <3>1, <3>2 DEF TablesOk
  <2>5. CASE run[r].at \notin Tables
    <3>1. new = {}
        BY <1>2, <2>5 DEF GraphInv, QueueFit
    <3>2. QED BY <3>1, <2>1
  <2>6. QED BY <1>1, <2>1, <2>2, <2>3, <2>4, <2>5 DEF Tables
<1>4. CountsAreBacked'
    <2>1. /\ IsFiniteSet(nodes') /\ IsFiniteSet(edges') /\ IsFiniteSet(smells')
        BY <1>3, FiniteRows, FS_Subset DEF TablesOk
    <2>2. /\ IsFiniteSet(nodes) /\ IsFiniteSet(edges) /\ IsFiniteSet(smells)
        BY <1>2, FiniteParts
    <2>3. /\ Cardinality(nodes) <= Cardinality(nodes')
          /\ Cardinality(edges) <= Cardinality(edges')
          /\ Cardinality(smells) <= Cardinality(smells')
        BY <1>3, <2>1, <2>2, MoreRows
    <2>4. /\ Cardinality(nodes) \in Nat /\ Cardinality(nodes') \in Nat
          /\ Cardinality(edges) \in Nat /\ Cardinality(edges') \in Nat
          /\ Cardinality(smells) \in Nat /\ Cardinality(smells') \in Nat
        BY <2>1, <2>2, MoreRows
    <2>5. counts["nodes"] \in Nat /\ counts["edges"] \in Nat /\ counts["smells"] \in Nat
        BY DEF GraphInv, Tables
    <2>6. CountsAreBacked
        BY DEF GraphInv
    <2>7. QED BY <1>2, <2>3, <2>4, <2>5, <2>6 DEF CountsAreBacked
<1>5. QED BY <1>3, <1>4 DEF Own, OwnEdges, OwnSmells

\* The part of the run that inserts keeps its fit.
LEMMA PartStays ==
    ASSUME GraphInv, job, NEW r \in Runs, NEW new, NEW lost, Inserts(r, new, lost)
    PROVE  RunFit(r)'
<1>1. /\ TablesOk /\ run \in [Runs -> Record] /\ RunFit(r)
      /\ UNCHANGED <<lang, refused>> /\ new \subseteq Waiting(r) /\ lost \subseteq Waiting(r)
      /\ run'[r].at = run[r].at /\ run'[r].parsed = run[r].parsed
      /\ run'[r].links = run[r].links /\ run'[r].seen = run[r].seen
      /\ Waiting(r)' = Waiting(r) \ (new \cup lost)
    BY DEF GraphInv, Inserts
<1>2. AllNodes(r)' = AllNodes(r) /\ AllEdges(r)' = AllEdges(r)
    BY <1>1 DEF AllNodes, AllEdges, NodesOf, EdgesOf, Parsed, Reported
<1>3. Mapped(r)' <=> Mapped(r)
    BY <1>1 DEF Mapped
<1>4. NodesFit(r)'
    <2>1. CASE run[r].at = "nodes"
        <3>1. Own(r)' = Own(r) \cup new
            BY <2>1, TablesStay
        <3>2. /\ \A n \in new : n.entity \notin refused
              /\ \A n \in lost : n.entity \in refused
            BY <2>1 DEF Inserts, Refused
        <3>3. QED BY <1>1, <1>2, <2>1, <3>1, <3>2 DEF RunFit, NodesFit, Mapped
    <2>2. CASE run[r].at # "nodes"
        <3>1. Own(r)' = Own(r)
            BY <2>2, TablesStay
        <3>2. QED BY <1>1, <1>2, <1>3, <2>2, <3>1 DEF RunFit, NodesFit
    <2>3. QED BY <2>1, <2>2
<1>5. EdgesFit(r)'
    <2>1. CASE run[r].at = "edges"
        <3>1. Own(r)' = Own(r) /\ OwnEdges(r)' = OwnEdges(r) \cup new
            BY <2>1, TablesStay
        <3>2. \A e \in lost : ~({e.from, e.to} \subseteq Own(r))
            BY <2>1 DEF Inserts, Refused, Own
        <3>3. QED BY <1>1, <1>2, <2>1, <3>1, <3>2 DEF RunFit, EdgesFit, Mapped
    <2>2. CASE run[r].at = "nodes"
        <3>1. OwnEdges(r)' = OwnEdges(r)
            BY <2>2, TablesStay
        <3>2. QED BY <1>1, <2>2, <3>1 DEF RunFit, EdgesFit, Mapped
    <2>3. CASE run[r].at \notin {"nodes", "edges"}
        <3>1. Own(r)' = Own(r) /\ OwnEdges(r)' = OwnEdges(r)
            BY <2>3, TablesStay
        <3>2. QED BY <1>1, <1>2, <1>3, <2>3, <3>1 DEF RunFit, EdgesFit
    <2>4. QED BY <2>1, <2>2, <2>3
<1>6. SmellsFit(r)'
    <2>1. CASE run[r].at = "smells"
        <3>1. /\ Own(r)' = Own(r) /\ OwnEdges(r)' = OwnEdges(r)
              /\ OwnSmells(r)' = OwnSmells(r) \cup new
            BY <2>1, TablesStay
        <3>2. lost = {}
            BY <2>1 DEF Inserts, Refused
        <3>3. (OwnSmells(r) \cup Waiting(r))' = OwnSmells(r) \cup Waiting(r)
            BY <1>1, <3>1, <3>2
        <3>4. Verdict(r, OwnSmells(r) \cup Waiting(r))' = Verdict(r, OwnSmells(r) \cup Waiting(r))
            BY <3>3 DEF Verdict
        <3>5. QED BY <1>1, <2>1, <3>1, <3>2, <3>4 DEF RunFit, SmellsFit
    <2>2. CASE run[r].at # "smells"
        <3>1. OwnSmells(r)' = OwnSmells(r)
            BY <2>2, TablesStay
        <3>2. CASE run[r].at \in {"count", "done", "rules"}
            <4>1. /\ Own(r)' = Own(r) /\ OwnEdges(r)' = OwnEdges(r)
                BY <3>2, TablesStay
            <4>2. QED BY <1>1, <2>2, <3>1, <4>1 DEF RunFit, SmellsFit
        <3>3. CASE run[r].at \notin {"count", "done", "rules"}
            BY <1>1, <2>2, <3>1, <3>3 DEF RunFit, SmellsFit
        <3>4. QED BY <3>2, <3>3
    <2>3. QED BY <2>1, <2>2
<1>7. CountFit(r)'
    <2>1. /\ IsFiniteSet(Own(r)) /\ IsFiniteSet(OwnEdges(r)) /\ IsFiniteSet(OwnSmells(r))
          /\ IsFiniteSet(new)
        <3>1. IsFiniteSet(Waiting(r))
            BY <1>1, FiniteParts, FS_Union DEF Waiting
        <3>2. QED BY <1>1, <3>1, FiniteParts, FS_Subset
    <2>2. /\ Cardinality(Own(r)) \in Nat /\ Cardinality(OwnEdges(r)) \in Nat
          /\ Cardinality(OwnSmells(r)) \in Nat /\ Cardinality(new) \in Nat
        BY <2>1, FS_CardinalityType
    <2>3. /\ run[r].stored \in [Tables -> Nat]
          /\ run'[r].stored = [run[r].stored EXCEPT ![run[r].at] = @ + Cardinality(new)]
          /\ CountFit(r)
        BY <1>1 DEF Inserts, Record, RunFit
    <2>4. CASE run[r].at = "nodes"
        <3>1. /\ Own(r)' = Own(r) \cup new
              /\ OwnEdges(r)' = OwnEdges(r) /\ OwnSmells(r)' = OwnSmells(r)
            BY <2>4, TablesStay
        <3>2. Own(r) \cap new = {}
            BY <1>1, <2>4 DEF RunFit, NodesFit
        <3>3. Cardinality(Own(r) \cup new) = Cardinality(Own(r)) + Cardinality(new)
            BY <2>1, <3>2, MoreRows
        <3>4. QED BY <2>2, <2>3, <2>4, <3>1, <3>3 DEF CountFit, Tables
    <2>5. CASE run[r].at = "edges"
        <3>1. /\ OwnEdges(r)' = OwnEdges(r) \cup new
              /\ Own(r)' = Own(r) /\ OwnSmells(r)' = OwnSmells(r)
            BY <2>5, TablesStay
        <3>2. OwnEdges(r) \cap new = {}
            BY <1>1, <2>5 DEF RunFit, EdgesFit
        <3>3. Cardinality(OwnEdges(r) \cup new) = Cardinality(OwnEdges(r)) + Cardinality(new)
            BY <2>1, <3>2, MoreRows
        <3>4. QED BY <2>2, <2>3, <2>5, <3>1, <3>3 DEF CountFit, Tables
    <2>6. CASE run[r].at = "smells"
        <3>1. /\ OwnSmells(r)' = OwnSmells(r) \cup new
              /\ Own(r)' = Own(r) /\ OwnEdges(r)' = OwnEdges(r)
            BY <2>6, TablesStay
        <3>2. OwnSmells(r) \cap new = {}
            BY <1>1, <2>6 DEF RunFit, SmellsFit
        <3>3. Cardinality(OwnSmells(r) \cup new) = Cardinality(OwnSmells(r)) + Cardinality(new)
            BY <2>1, <3>2, MoreRows
        <3>4. QED BY <2>2, <2>3, <2>6, <3>1, <3>3 DEF CountFit, Tables
    <2>7. CASE run[r].at \notin Tables
        <3>1. Own(r)' = Own(r) /\ OwnEdges(r)' = OwnEdges(r) /\ OwnSmells(r)' = OwnSmells(r)
            BY <2>7, TablesStay DEF Tables
        <3>2. run'[r].stored = run[r].stored
            BY <2>3, <2>7
        <3>3. QED BY <2>3, <3>1, <3>2 DEF CountFit
    <2>8. QED BY <2>4, <2>5, <2>6, <2>7 DEF Tables
<1>8. QED BY <1>4, <1>5, <1>6, <1>7 DEF RunFit

\* An INSERT keeps the invariant.
LEMMA InsertKeeps ==
    ASSUME GraphInv, NEW r \in Runs, InsertChunk(r) \/ InsertRow(r)
    PROVE  GraphInv'
<1>1. TablesOk /\ run \in [Runs -> Record] /\ QueueFit(r)
    BY DEF GraphInv
<1>2. PICK new, lost \in SUBSET Waiting(r) : Inserts(r, new, lost)
    BY <1>1, ChunkInserts, RowInserts
<1>3. /\ run' \in [Runs -> Record] /\ UNCHANGED <<job, lang, refused, counts>>
      /\ \A s \in Runs \ {r} : run'[s] = run[s]
    BY <1>2 DEF Inserts
<1>4. TablesOk' /\ CountsAreBacked'
    BY <1>2, TablesStay
<1>5. \A s \in Runs : QueueFit(s)'
    <2>1. QueueFit(r)'
        BY <1>1, <1>2 DEF Inserts, QueueFit
    <2>2. ASSUME NEW s \in Runs \ {r} PROVE QueueFit(s)'
        BY <1>3 DEF GraphInv, QueueFit, Waiting
    <2>3. QED BY <2>1, <2>2
<1>6. ASSUME job, NEW s \in Runs PROVE RunFit(s)'
    <2>1. CASE s = r
        BY <1>2, <1>6, <2>1, PartStays
    <2>2. CASE s # r
        <3>1. RunFit(s) /\ run'[s] = run[s]
            BY <1>3, <1>6, <2>2 DEF GraphInv
        <3>2. Own(s)' = Own(s) /\ OwnEdges(s)' = OwnEdges(s) /\ OwnSmells(s)' = OwnSmells(s)
            BY <1>2, <2>2, TablesStay
        <3>3. QED BY <1>3, <3>1, <3>2, RunStays
    <2>3. QED BY <2>1, <2>2
<1>7. QED BY <1>3, <1>4, <1>5, <1>6 DEF GraphInv

\* Steps of one run that store nothing.
LEMMA OneRunMoves ==
    ASSUME GraphInv, NEW r \in Runs, run' \in [Runs -> Record],
           \A s \in Runs \ {r} : run'[s] = run[s],
           UNCHANGED <<job, lang, refused, rows>>,
           counts' \in [Tables -> Nat], CountsAreBacked',
           QueueFit(r)', job => RunFit(r)'
    PROVE  GraphInv'
<1>1. TablesOk'
    BY DEF GraphInv, TablesOk, rows
<1>2. \A s \in Runs : QueueFit(s)'
    BY DEF GraphInv, QueueFit, Waiting
<1>3. ASSUME job, NEW s \in Runs \ {r} PROVE RunFit(s)'
    <2>1. RunFit(s) /\ run'[s] = run[s]
        BY <1>3 DEF GraphInv
    <2>2. Own(s)' = Own(s) /\ OwnEdges(s)' = OwnEdges(s) /\ OwnSmells(s)' = OwnSmells(s)
        BY DEF Own, OwnEdges, OwnSmells, rows
    <2>3. QED BY <2>1, <2>2, RunStays
<1>4. QED BY <1>1, <1>2, <1>3 DEF GraphInv

\* Parse begins a run: everything it has parsed waits.
LEMMA ParseKeeps ==
    ASSUME GraphInv, NEW r \in Runs, NEW ok \in SUBSET Batches, Parse(r, ok)
    PROVE  GraphInv'
<1> DEFINE ns == UNION {NodesOf(r, k) : k \in ok}
           es == UNION {EdgesOf(r, k) : k \in ok}
<1>1. /\ run \in [Runs -> Record] /\ run[r].at = "idle" /\ job /\ RunFit(r)
      /\ UNCHANGED <<job, lang, refused, rows, counts>> /\ lang \in {"java", "python"}
    BY DEF GraphInv, Parse
<1>2. ns \subseteq NodeIds /\ es \subseteq EdgeRows
    BY <1>1, YieldIsOwn
<1>3. /\ run' = [run EXCEPT ![r] = run'[r]]
      /\ run'[r] = [at |-> "nodes", todo |-> ns, slow |-> {}, links |-> es, seen |-> {},
                    parsed |-> ok, stored |-> [t \in Tables |-> 0]]
    BY <1>1 DEF Parse, Idle
<1>4. run'[r] \in Record
    BY <1>2, <1>3 DEF Record, Stages, AnyRow
<1>5. run' \in [Runs -> Record] /\ \A s \in Runs \ {r} : run'[s] = run[s]
    BY <1>1, <1>3, <1>4
<1>6. /\ run'[r].at = "nodes" /\ run'[r].todo = ns /\ run'[r].slow = {} /\ run'[r].links = es
      /\ run'[r].parsed = ok /\ run'[r].stored = [t \in Tables |-> 0]
    BY <1>3
<1>7. QueueFit(r)'
    BY <1>6 DEF QueueFit, Tables
<1>8. /\ Own(r)' = {} /\ OwnEdges(r)' = {} /\ OwnSmells(r)' = {}
    BY <1>1 DEF RunFit, NodesFit, EdgesFit, SmellsFit, Own, OwnEdges, OwnSmells, rows
<1>9. /\ Waiting(r)' = AllNodes(r)' /\ run'[r].links = AllEdges(r)'
    BY <1>1, <1>6 DEF Waiting, AllNodes, AllEdges, NodesOf, EdgesOf, Parsed, Reported
<1>10. RunFit(r)'
    <2>1. NodesFit(r)'
        BY <1>6, <1>8, <1>9 DEF NodesFit, Mapped
    <2>2. EdgesFit(r)'
        BY <1>6, <1>8 DEF EdgesFit, Mapped
    <2>3. SmellsFit(r)'
        BY <1>6, <1>8 DEF SmellsFit
    <2>4. CountFit(r)'
        BY <1>6, <1>8, FS_EmptySet DEF CountFit, Tables
    <2>5. QED BY <2>1, <2>2, <2>3, <2>4 DEF RunFit
<1>11. counts' \in [Tables -> Nat] /\ CountsAreBacked'
    BY <1>1 DEF GraphInv, CountsAreBacked, rows
<1>12. QED BY <1>1, <1>5, <1>7, <1>10, <1>11, OneRunMoves

\* A run whose rows all went in or were refused goes on to its next stage.
LEMMA LoopEndsKeeps ==
    ASSUME GraphInv, NEW r \in Runs, LoopEnds(r)
    PROVE  GraphInv'
<1>1. /\ run \in [Runs -> Record] /\ run[r] \in Record /\ run[r].at \in Tables
      /\ run[r].todo = {} /\ run[r].slow = {} /\ (job => RunFit(r))
      /\ UNCHANGED <<job, lang, refused, rows, counts>>
    BY DEF GraphInv, LoopEnds
<1> DEFINE next == CASE run[r].at = "nodes" -> "edges" [] run[r].at = "edges" -> "stats"
                     [] run[r].at = "smells" -> "count"
           todo == IF run[r].at = "nodes" THEN run[r].links ELSE {}
<1>2. run' = [run EXCEPT ![r] = [[run[r] EXCEPT !.at = next] EXCEPT !.todo = todo]]
    <2>1. run' = [run EXCEPT ![r].at = next, ![r].todo = todo]
        BY DEF LoopEnds
    <2> HIDE DEF next, todo
    <2>2. QED BY <1>1, <2>1, Zenon
<1>3. /\ run'[r].at = next /\ run'[r].todo = todo /\ run'[r].slow = {}
      /\ run'[r].links = run[r].links /\ run'[r].seen = run[r].seen
      /\ run'[r].parsed = run[r].parsed /\ run'[r].stored = run[r].stored
    <2> HIDE DEF next, todo
    <2>1. QED BY <1>1, <1>2 DEF Record
<1>4. next \in Stages /\ todo \in SUBSET AnyRow
    BY <1>1 DEF Record, Stages, AnyRow, Tables
<1>5. run' \in [Runs -> Record] /\ \A s \in Runs \ {r} : run'[s] = run[s]
    <2> HIDE DEF next, todo
    <2>1. [[run[r] EXCEPT !.at = next] EXCEPT !.todo = todo] \in Record
        BY <1>1, <1>4 DEF Record
    <2>2. QED BY <1>1, <1>2, <2>1
<1>6. QueueFit(r)'
    BY <1>1, <1>3 DEF QueueFit, Waiting, Tables
<1>7. /\ Own(r)' = Own(r) /\ OwnEdges(r)' = OwnEdges(r) /\ OwnSmells(r)' = OwnSmells(r)
      /\ AllNodes(r)' = AllNodes(r) /\ AllEdges(r)' = AllEdges(r)
    BY <1>1, <1>3 DEF Own, OwnEdges, OwnSmells, AllNodes, AllEdges, NodesOf, EdgesOf, Parsed,
       Reported, rows
<1>8. ASSUME job PROVE RunFit(r)'
    <2>1. NodesFit(r) /\ EdgesFit(r) /\ SmellsFit(r) /\ CountFit(r) /\ Waiting(r) = {}
        BY <1>1, <1>8 DEF RunFit, Waiting
    <2>2. NodesFit(r)'
        BY <1>1, <1>3, <1>7, <2>1 DEF NodesFit, Mapped, Tables
    <2>3. EdgesFit(r)'
        <3>1. CASE run[r].at = "nodes"
            <4>1. run'[r].at = "edges" /\ Waiting(r)' = AllEdges(r)' /\ OwnEdges(r)' = {}
                BY <1>3, <1>7, <2>1, <3>1 DEF EdgesFit, NodesFit, Waiting
            <4>2. QED BY <4>1 DEF EdgesFit, Mapped
        <3>2. CASE run[r].at = "edges"
            <4>1. run'[r].at = "stats" /\ ~Mapped(r)
                BY <1>3, <3>2 DEF Mapped
            <4>2. OwnEdges(r) = {e \in AllEdges(r) : {e.from, e.to} \subseteq Own(r)}
                <5>1. \A e \in OwnEdges(r) : {e.from, e.to} \subseteq Own(r)
                    BY DEF OwnEdges, Own, GraphInv, TablesOk
                <5>2. QED BY <2>1, <3>2, <5>1 DEF EdgesFit
            <4>3. QED BY <1>7, <4>1, <4>2 DEF EdgesFit
        <3>3. CASE run[r].at = "smells"
            BY <1>3, <1>7, <2>1, <3>3 DEF EdgesFit, Mapped
        <3>4. QED BY <1>1, <3>1, <3>2, <3>3 DEF Tables
    <2>4. SmellsFit(r)'
        BY <1>1, <1>3, <1>7, <2>1 DEF SmellsFit, Tables
    <2>5. CountFit(r)'
        BY <1>3, <1>7, <2>1 DEF CountFit
    <2>6. QED BY <2>2, <2>3, <2>4, <2>5 DEF RunFit
<1>9. counts' \in [Tables -> Nat] /\ CountsAreBacked'
    BY <1>1 DEF GraphInv, CountsAreBacked, rows
<1>10. QED BY <1>1, <1>5, <1>6, <1>8, <1>9, OneRunMoves

\* What a run that stores nothing keeps of its part.
LEMMA SamePart ==
    ASSUME NEW r \in Runs, UNCHANGED <<lang, refused, rows>>, run'[r].parsed = run[r].parsed
    PROVE  /\ Own(r)' = Own(r) /\ OwnEdges(r)' = OwnEdges(r) /\ OwnSmells(r)' = OwnSmells(r)
           /\ AllNodes(r)' = AllNodes(r) /\ AllEdges(r)' = AllEdges(r)
BY DEF Own, OwnEdges, OwnSmells, AllNodes, AllEdges, NodesOf, EdgesOf, Parsed, Reported, rows

\* UpdateCounts writes what the run has counted, and that is in the tables.
LEMMA UpdateCountsKeeps ==
    ASSUME GraphInv, NEW r \in Runs, UpdateCounts(r)
    PROVE  GraphInv'
<1> DEFINE next == IF run[r].at = "stats" THEN "read" ELSE "done"
<1>1. /\ run \in [Runs -> Record] /\ run[r] \in Record /\ run[r].at \in {"stats", "count"}
      /\ (job => RunFit(r)) /\ UNCHANGED <<job, lang, refused, rows>> /\ TablesOk
    BY DEF GraphInv, UpdateCounts
<1>2. run' = [run EXCEPT ![r] = [run[r] EXCEPT !.at = next]]
    <2>1. run' = [run EXCEPT ![r].at = next]
        BY DEF UpdateCounts
    <2> HIDE DEF next
    <2>2. QED BY <1>1, <2>1, Zenon
<1>3. /\ run'[r].at = next /\ run'[r].todo = run[r].todo /\ run'[r].slow = run[r].slow
      /\ run'[r].links = run[r].links /\ run'[r].seen = run[r].seen
      /\ run'[r].parsed = run[r].parsed /\ run'[r].stored = run[r].stored
    <2> HIDE DEF next
    <2>1. QED BY <1>1, <1>2 DEF Record
<1>4. run' \in [Runs -> Record] /\ \A s \in Runs \ {r} : run'[s] = run[s]
    <2>1. next \in Stages
        BY DEF Stages
    <2> HIDE DEF next
    <2>2. QED BY <1>1, <1>2, <2>1 DEF Record
<1>5. QueueFit(r)'
    BY <1>1, <1>3 DEF GraphInv, QueueFit, Waiting, Tables
<1>6. ASSUME job PROVE RunFit(r)'
    <2>1. NodesFit(r) /\ EdgesFit(r) /\ SmellsFit(r) /\ CountFit(r)
        BY <1>1, <1>6 DEF RunFit
    <2>2. /\ Own(r)' = Own(r) /\ OwnEdges(r)' = OwnEdges(r) /\ OwnSmells(r)' = OwnSmells(r)
          /\ AllNodes(r)' = AllNodes(r) /\ AllEdges(r)' = AllEdges(r)
        BY <1>1, <1>3, SamePart
    <2>3. NodesFit(r)' /\ EdgesFit(r)' /\ CountFit(r)'
        BY <1>1, <1>3, <2>1, <2>2 DEF NodesFit, EdgesFit, CountFit, Mapped
    <2>4. SmellsFit(r)'
        <3>1. Verdict(r, OwnSmells(r))' = Verdict(r, OwnSmells(r))
            BY <2>2 DEF Verdict
        <3>2. QED BY <1>1, <1>3, <2>1, <2>2, <3>1 DEF SmellsFit
    <2>5. QED BY <2>3, <2>4 DEF RunFit
<1>7. counts' \in [Tables -> Nat] /\ CountsAreBacked'
    <2>1. run[r].stored \in [Tables -> Nat] /\ counts \in [Tables -> Nat] /\ CountsAreBacked
        BY <1>1 DEF Record, GraphInv
    <2>2. /\ counts' \in [Tables -> Nat]
          /\ \A t \in Tables : counts'[t] = counts[t] \/ (job /\ counts'[t] = run[r].stored[t])
        <3> DEFINE ts == IF run[r].at = "stats" THEN {"nodes", "edges"} ELSE {"smells"}
        <3>1. counts' = [t \in Tables |-> IF job /\ t \in ts THEN run[r].stored[t] ELSE counts[t]]
            BY DEF UpdateCounts
        <3> DEFINE st == run[r].stored
        <3>2. /\ counts' = [t \in Tables |-> IF job /\ t \in ts THEN st[t] ELSE counts[t]]
              /\ st \in [Tables -> Nat] /\ job \in BOOLEAN
            BY <2>1, <3>1 DEF GraphInv
        <3> HIDE DEF ts, st
        <3>3. /\ counts' \in [Tables -> Nat]
              /\ \A t \in Tables : counts'[t] = IF job /\ t \in ts THEN st[t] ELSE counts[t]
            BY <2>1, <3>2
        <3>4. QED BY <3>3 DEF st
    <2>3. ASSUME job
          PROVE  /\ run[r].stored["nodes"] <= Cardinality(nodes)
                 /\ run[r].stored["edges"] <= Cardinality(edges)
                 /\ run[r].stored["smells"] <= Cardinality(smells)
        <3>1. Own(r) \subseteq nodes /\ OwnEdges(r) \subseteq edges /\ OwnSmells(r) \subseteq smells
            BY DEF Own, OwnEdges, OwnSmells
        <3>2. CountFit(r)
            BY <1>1, <2>3 DEF RunFit
        <3>3. /\ IsFiniteSet(nodes) /\ IsFiniteSet(edges) /\ IsFiniteSet(smells)
              /\ IsFiniteSet(Own(r)) /\ IsFiniteSet(OwnEdges(r)) /\ IsFiniteSet(OwnSmells(r))
            BY <1>1, FiniteParts
        <3>4. /\ Cardinality(Own(r)) <= Cardinality(nodes)
              /\ Cardinality(OwnEdges(r)) <= Cardinality(edges)
              /\ Cardinality(OwnSmells(r)) <= Cardinality(smells)
            BY <3>1, <3>3, MoreRows
        <3>5. /\ Cardinality(Own(r)) \in Nat /\ Cardinality(nodes) \in Nat
              /\ Cardinality(OwnEdges(r)) \in Nat /\ Cardinality(edges) \in Nat
              /\ Cardinality(OwnSmells(r)) \in Nat /\ Cardinality(smells) \in Nat
            BY <3>3, FS_CardinalityType
        <3>6. QED BY <2>1, <3>2, <3>4, <3>5 DEF CountFit, Tables
    <2>4. QED BY <1>1, <2>1, <2>2, <2>3 DEF CountsAreBacked, Tables, rows
<1>8. QED BY <1>1, <1>4, <1>5, <1>6, <1>7, OneRunMoves

\* LoadNodes reads all of the run's own nodes, whoever else writes.
LEMMA LoadNodesKeeps ==
    ASSUME GraphInv, NEW r \in Runs, LoadNodes(r)
    PROVE  GraphInv'
<1>1. /\ run \in [Runs -> Record] /\ run[r] \in Record /\ run[r].at = "read"
      /\ (job => RunFit(r)) /\ UNCHANGED <<job, lang, refused, rows, counts>> /\ TablesOk
    BY DEF GraphInv, LoadNodes
<1>2. run' = [run EXCEPT ![r] = [[run[r] EXCEPT !.at = "rules"] EXCEPT !.seen = nodes]]
    BY <1>1, Zenon DEF LoadNodes
<1>3. /\ run'[r].at = "rules" /\ run'[r].todo = run[r].todo /\ run'[r].slow = run[r].slow
      /\ run'[r].links = run[r].links /\ run'[r].seen = nodes
      /\ run'[r].parsed = run[r].parsed /\ run'[r].stored = run[r].stored
    BY <1>1, <1>2 DEF Record
<1>4. run' \in [Runs -> Record] /\ \A s \in Runs \ {r} : run'[s] = run[s]
    BY <1>1, <1>2 DEF Record, Stages, TablesOk
<1>5. QueueFit(r)'
    BY <1>1, <1>3 DEF GraphInv, QueueFit, Waiting, Tables
<1>6. ASSUME job PROVE RunFit(r)'
    <2>1. NodesFit(r) /\ EdgesFit(r) /\ SmellsFit(r) /\ CountFit(r)
        BY <1>1, <1>6 DEF RunFit
    <2>2. /\ Own(r)' = Own(r) /\ OwnEdges(r)' = OwnEdges(r) /\ OwnSmells(r)' = OwnSmells(r)
          /\ AllNodes(r)' = AllNodes(r) /\ AllEdges(r)' = AllEdges(r)
        BY <1>1, <1>3, SamePart
    <2>3. NodesFit(r)' /\ EdgesFit(r)' /\ CountFit(r)'
        BY <1>1, <1>3, <2>1, <2>2 DEF NodesFit, EdgesFit, CountFit, Mapped
    <2>4. SmellsFit(r)'
        BY <1>1, <1>3, <2>1, <2>2 DEF SmellsFit, Own
    <2>5. QED BY <2>3, <2>4 DEF RunFit
<1>7. counts' \in [Tables -> Nat] /\ CountsAreBacked'
    BY <1>1 DEF GraphInv, CountsAreBacked, rows
<1>8. QED BY <1>1, <1>4, <1>5, <1>6, <1>7, OneRunMoves

\* FindSmells: what the rules find in nodes read before and edges read now is,
\* for the run's own nodes, what they find in the run's own part.
LEMMA FindSmellsKeeps ==
    ASSUME GraphInv, NEW r \in Runs, FindSmells(r)
    PROVE  GraphInv'
<1> DEFINE found == Found(run[r].seen, edges)
           todo == {[by |-> r, type |-> s.type, node |-> s.node] : s \in found}
<1>1. /\ run \in [Runs -> Record] /\ run[r] \in Record /\ run[r].at = "rules"
      /\ (job => RunFit(r)) /\ UNCHANGED <<job, lang, refused, rows, counts>> /\ TablesOk
      /\ QueueFit(r)
    BY DEF GraphInv, FindSmells
<1>2. run' = [run EXCEPT ![r] = [[[run[r] EXCEPT !.at = "smells"] EXCEPT !.seen = {}]
                                   EXCEPT !.todo = todo]]
    <2>1. run' = [run EXCEPT ![r].at = "smells", ![r].seen = {}, ![r].todo = todo]
        BY DEF FindSmells, Reports
    <2> HIDE DEF todo
    <2>2. QED BY <1>1, <2>1, Zenon
<1>3. /\ run'[r].at = "smells" /\ run'[r].todo = todo /\ run'[r].slow = run[r].slow
      /\ run'[r].links = run[r].links /\ run'[r].seen = {}
      /\ run'[r].parsed = run[r].parsed /\ run'[r].stored = run[r].stored
    <2> HIDE DEF todo
    <2>1. QED BY <1>1, <1>2 DEF Record
<1>4. /\ run[r].seen \in SUBSET NodeIds /\ edges \in SUBSET EdgeRows
      /\ \A e \in edges : e.from.run = e.to.run
    BY <1>1 DEF Record, TablesOk
<1>5. \A s \in found : /\ s.node \in run[r].seen /\ s.type \in SmellTypes
                       /\ s = [type |-> s.type, node |-> s.node]
    BY <1>4, FoundIsGiven
<1>6. todo \subseteq {s \in SmellRows : s.by = r}
    BY <1>4, <1>5 DEF SmellRows
<1>7. run' \in [Runs -> Record] /\ \A s \in Runs \ {r} : run'[s] = run[s]
    <2>1. todo \subseteq AnyRow
        BY <1>6 DEF AnyRow
    <2> HIDE DEF todo
    <2>2. [[[run[r] EXCEPT !.at = "smells"] EXCEPT !.seen = {}] EXCEPT !.todo = todo] \in Record
        BY <1>1, <2>1 DEF Record, Stages
    <2>3. QED BY <1>1, <1>2, <2>2
<1>8. run[r].slow = {}
    BY <1>1 DEF QueueFit, Waiting, Tables
<1>9. QueueFit(r)'
    BY <1>3, <1>8 DEF QueueFit, Tables
<1>10. ASSUME job PROVE RunFit(r)'
    <2>1. NodesFit(r) /\ EdgesFit(r) /\ SmellsFit(r) /\ CountFit(r)
        BY <1>1, <1>10 DEF RunFit
    <2>2. /\ Own(r)' = Own(r) /\ OwnEdges(r)' = OwnEdges(r) /\ OwnSmells(r)' = OwnSmells(r)
          /\ AllNodes(r)' = AllNodes(r) /\ AllEdges(r)' = AllEdges(r)
        BY <1>1, <1>3, SamePart
    <2>3. NodesFit(r)' /\ EdgesFit(r)' /\ CountFit(r)'
        BY <1>1, <1>3, <2>1, <2>2 DEF NodesFit, EdgesFit, CountFit, Mapped
    <2>4. SmellsFit(r)'
        <3>1. OwnSmells(r)' = {} /\ Waiting(r)' = todo
            BY <1>1, <1>3, <1>8, <2>1, <2>2 DEF SmellsFit, Waiting
        <3>2. Verdict(r, todo) = {s \in found : s.node.run = r}
            <4>1. \A s \in found : [type |-> s.type, node |-> s.node] = s
                BY <1>5
            <4>2. \A s \in found : [by |-> r, type |-> s.type, node |-> s.node] \in todo
                OBVIOUS
            <4>3. ASSUME NEW v \in Verdict(r, todo) PROVE v \in found /\ v.node.run = r
                <5>1. PICK t \in todo : t.node.run = r /\ v = [type |-> t.type, node |-> t.node]
                    BY <4>3 DEF Verdict
                <5>2. PICK s \in found : t = [by |-> r, type |-> s.type, node |-> s.node]
                    OBVIOUS
                <5> HIDE DEF found, todo
                <5>3. t.type = s.type /\ t.node = s.node
                    BY <5>2
                <5>4. v = s
                    BY <4>1, <5>1, <5>3
                <5>5. QED BY <5>1, <5>3, <5>4
            <4>4. ASSUME NEW s \in found, s.node.run = r PROVE s \in Verdict(r, todo)
                <5> DEFINE t == [by |-> r, type |-> s.type, node |-> s.node]
                <5>1. t \in todo /\ t.node.run = r /\ s = [type |-> t.type, node |-> t.node]
                    BY <4>1, <4>2, <4>4
                <5> HIDE DEF t, todo, found
                <5>2. QED BY <5>1 DEF Verdict
            <4> HIDE DEF found, todo
            <4>5. QED BY <4>3, <4>4
        <3>3. {n \in run[r].seen : n.run = r} = Own(r)
            BY <1>1, <2>1 DEF SmellsFit
        <3>4. {s \in found : s.node.run = r} = Found(Own(r), OwnEdges(r))
            BY <1>4, <3>3, FoundIsLocal DEF OwnEdges
        <3>5. Verdict(r, OwnSmells(r) \cup Waiting(r))' = Found(Own(r), OwnEdges(r))
            <4>1. (OwnSmells(r) \cup Waiting(r))' = todo
                BY <3>1
            <4>2. Verdict(r, OwnSmells(r) \cup Waiting(r))' = Verdict(r, todo)
                BY <4>1 DEF Verdict
            <4>3. QED BY <3>2, <3>4, <4>2
        <3>6. QED BY <1>3, <1>6, <2>2, <3>1, <3>5 DEF SmellsFit
    <2>5. QED BY <2>3, <2>4 DEF RunFit
<1>11. counts' \in [Tables -> Nat] /\ CountsAreBacked'
    BY <1>1 DEF GraphInv, CountsAreBacked, rows
<1>12. QED BY <1>1, <1>7, <1>9, <1>10, <1>11, OneRunMoves

\* RunStops leaves the rows of the run as they are; it never moves again.
LEMMA RunStopsKeeps ==
    ASSUME GraphInv, NEW r \in Runs, RunStops(r)
    PROVE  GraphInv'
<1>1. /\ run \in [Runs -> Record] /\ TablesOk
      /\ UNCHANGED <<job, lang, refused, rows, counts>>
    BY DEF GraphInv, RunStops
<1>2. run' = [run EXCEPT ![r] = [at |-> "stopped", todo |-> {}, slow |-> {}, links |-> {},
                                 seen |-> {}, parsed |-> {}, stored |-> [t \in Tables |-> 0]]]
    <2> DEFINE stopped == [at |-> "stopped", todo |-> {}, slow |-> {}, links |-> {},
                           seen |-> {}, parsed |-> {}, stored |-> [t \in Tables |-> 0]]
    <2>1. [Idle EXCEPT !.at = "stopped"] = stopped
        BY DEF Idle
    <2> HIDE DEF stopped
    <2>2. run' = [run EXCEPT ![r] = stopped]
        BY <2>1 DEF RunStops
    <2>3. QED BY <2>2 DEF stopped
<1>3. run' \in [Runs -> Record] /\ \A s \in Runs \ {r} : run'[s] = run[s]
    BY <1>1, <1>2 DEF Record, Stages
<1>4. /\ run'[r].at = "stopped" /\ run'[r].todo = {} /\ run'[r].slow = {}
      /\ run'[r].stored = [t \in Tables |-> 0]
    BY <1>1, <1>2
<1>5. QueueFit(r)'
    BY <1>4 DEF QueueFit, Waiting
<1>6. RunFit(r)'
    <2>1. NodesFit(r)' /\ EdgesFit(r)' /\ SmellsFit(r)'
        BY <1>4 DEF NodesFit, EdgesFit, SmellsFit, Mapped
    <2>2. /\ Own(r)' = Own(r) /\ OwnEdges(r)' = OwnEdges(r) /\ OwnSmells(r)' = OwnSmells(r)
        BY <1>1 DEF Own, OwnEdges, OwnSmells, rows
    <2>3. /\ Cardinality(Own(r)) \in Nat /\ Cardinality(OwnEdges(r)) \in Nat
          /\ Cardinality(OwnSmells(r)) \in Nat
        BY <1>1, FiniteParts, FS_CardinalityType
    <2>4. CountFit(r)'
        BY <1>4, <2>2, <2>3 DEF CountFit, Tables
    <2>5. QED BY <2>1, <2>4 DEF RunFit
<1>7. counts' \in [Tables -> Nat] /\ CountsAreBacked'
    BY <1>1 DEF GraphInv, CountsAreBacked, rows
<1>8. QED BY <1>1, <1>3, <1>5, <1>6, <1>7, OneRunMoves

\* The deletion of the job takes everything; runs go on without storing a row.
LEMMA DeleteJobKeeps ==
    ASSUME GraphInv, DeleteJob
    PROVE  GraphInv'
<1>1. /\ job' = FALSE /\ nodes' = {} /\ edges' = {} /\ smells' = {} /\ counts' = [t \in Tables |-> 0]
      /\ UNCHANGED <<lang, refused, run>>
    BY DEF DeleteJob
<1>2. TablesOk'
    BY <1>1 DEF TablesOk
<1>3. counts' \in [Tables -> Nat] /\ CountsAreBacked'
    BY <1>1, FS_EmptySet DEF CountsAreBacked, Tables
<1>4. \A r \in Runs : QueueFit(r)'
    BY <1>1 DEF GraphInv, QueueFit, Waiting
<1>5. QED BY <1>1, <1>2, <1>3, <1>4 DEF GraphInv

\* Steps that touch neither rows nor runs.
LEMMA NothingMoves ==
    ASSUME GraphInv, UNCHANGED <<job, lang, refused, rows, counts, run>>
    PROVE  GraphInv'
<1>1. TablesOk' /\ CountsAreBacked' /\ \A r \in Runs : QueueFit(r)'
    BY DEF GraphInv, TablesOk, CountsAreBacked, QueueFit, Waiting, rows
<1>2. ASSUME job, NEW r \in Runs PROVE RunFit(r)'
    <2>1. Own(r)' = Own(r) /\ OwnEdges(r)' = OwnEdges(r) /\ OwnSmells(r)' = OwnSmells(r)
        BY DEF Own, OwnEdges, OwnSmells, rows
    <2>2. RunFit(r)
        BY <1>2 DEF GraphInv
    <2>3. QED BY <2>1, <2>2, RunStays
<1>3. QED BY <1>1, <1>2 DEF GraphInv

\* Nothing is stored before the runs begin.
LEMMA GraphInvInit == Init => GraphInv
<1> SUFFICES ASSUME Init PROVE GraphInv
    OBVIOUS
<1>1. /\ job = TRUE /\ lang \in {"java", "python"} /\ refused \subseteq Unstorable
      /\ nodes = {} /\ edges = {} /\ smells = {} /\ counts = [t \in Tables |-> 0]
      /\ run = [r \in Runs |-> Idle]
    BY DEF Init
<1>2. run \in [Runs -> Record]
    BY <1>1 DEF Idle, Record, Stages
<1>3. TablesOk
    BY <1>1 DEF TablesOk
<1>4. counts \in [Tables -> Nat] /\ CountsAreBacked
    BY <1>1, FS_EmptySet DEF CountsAreBacked, Tables
<1>5. ASSUME NEW r \in Runs PROVE QueueFit(r) /\ RunFit(r)
    <2>1. /\ run[r].at = "idle" /\ run[r].todo = {} /\ run[r].slow = {}
          /\ run[r].stored = [t \in Tables |-> 0]
        BY <1>1 DEF Idle
    <2>2. Own(r) = {} /\ OwnEdges(r) = {} /\ OwnSmells(r) = {}
        BY <1>1 DEF Own, OwnEdges, OwnSmells
    <2>3. CountFit(r)
        BY <2>1, <2>2, FS_EmptySet DEF CountFit, Tables
    <2>4. QED BY <2>1, <2>2, <2>3 DEF QueueFit, Waiting, RunFit, NodesFit, EdgesFit, SmellsFit, Mapped
<1>6. QED BY <1>1, <1>2, <1>3, <1>4, <1>5 DEF GraphInv

\* One step per action.
LEMMA GraphInvInductive == GraphInv /\ [Next]_vars => GraphInv'
<1> SUFFICES ASSUME GraphInv, [Next]_vars PROVE GraphInv'
    OBVIOUS
<1>1. ASSUME NEW r \in Runs, NEW ok \in {Batches} \cup {Batches \ {k} : k \in Batches}, Parse(r, ok)
      PROVE  GraphInv'
    <2>1. ok \in SUBSET Batches
        OBVIOUS
    <2>2. QED BY <1>1, <2>1, ParseKeeps
<1>2. ASSUME NEW r \in Runs, InsertChunk(r) \/ InsertRow(r) PROVE GraphInv'
    BY <1>2, InsertKeeps
<1>3. ASSUME NEW r \in Runs, LoopEnds(r) PROVE GraphInv'
    BY <1>3, LoopEndsKeeps
<1>4. ASSUME NEW r \in Runs, UpdateCounts(r) PROVE GraphInv'
    BY <1>4, UpdateCountsKeeps
<1>5. ASSUME NEW r \in Runs, LoadNodes(r) PROVE GraphInv'
    BY <1>5, LoadNodesKeeps
<1>6. ASSUME NEW r \in Runs, FindSmells(r) PROVE GraphInv'
    BY <1>6, FindSmellsKeeps
<1>7. ASSUME NEW r \in Runs, RunStops(r) PROVE GraphInv'
    BY <1>7, RunStopsKeeps
<1>8. CASE DeleteJob
    BY <1>8, DeleteJobKeeps
<1>9. CASE \/ \E n \in nodes, q \in Requests :
                 n.entity = q.seed /\ QueryStart(n, q.direction, q.depth)
           \/ QueryEdges \/ QueryNodes \/ QueryEnds
    <2>1. UNCHANGED <<job, lang, refused, rows, counts, run>>
        BY <1>9 DEF QueryStart, QueryEdges, QueryNodes, QueryEnds
    <2>2. QED BY <2>1, NothingMoves
<1>10. CASE UNCHANGED vars
    BY <1>10, NothingMoves DEF vars
<1>11. QED
    BY <1>1, <1>2, <1>3, <1>4, <1>5, <1>6, <1>7, <1>8, <1>9, <1>10 DEF Next

---------------------------------------------------------------------------
(* Balls.                                                                  *)

\* One hop from the nodes of b.
Hop(b, dir, es) == b \cup Ends(Adjacent(dir, b, es))

\* Balls of at most five hops, the deepest that SubgraphRequest admits.
LEMMA BallGrows ==
    ASSUME NEW S, NEW dir, NEW es
    PROVE  /\ Ball(S, dir, 0, es) = S
           /\ \A d \in 0..4 : Ball(S, dir, d + 1, es) = Hop(Ball(S, dir, d, es), dir, es)
<1> DEFINE b1 == Hop(S, dir, es)
           b2 == Hop(b1, dir, es)
           b3 == Hop(b2, dir, es)
           b4 == Hop(b3, dir, es)
           b5 == Hop(b4, dir, es)
           b(k) == CASE k = 0 -> S [] k = 1 -> b1 [] k = 2 -> b2 [] k = 3 -> b3 [] k = 4 -> b4
                     [] k = 5 -> b5
<1>1. ASSUME NEW d \in 0..5 PROVE Ball(S, dir, d, es) = b(d)
    <2> DEFINE Levels(f) == f = [k \in 0..d |-> IF k = 0 THEN S ELSE Hop(f[k - 1], dir, es)]
               g == [k \in 0..d |-> b(k)]
               ball == CHOOSE f : Levels(f)
    <2>1. Ball(S, dir, d, es) = ball[d]
        BY DEF Ball, Hop
    <2>2. ASSUME NEW k \in 0..d PROVE b(k) = IF k = 0 THEN S ELSE Hop(b(k-1), dir, es)
        <3> HIDE DEF b1, b2, b3, b4, b5
        <3>1. QED BY DEF b1, b2, b3, b4, b5
    <2>3. Levels(g)
        OBVIOUS
    <2>4. Levels(ball)
        BY <2>3
    <2>5. \A k \in 0..d : ball[k] = IF k = 0 THEN S ELSE Hop(ball[k - 1], dir, es)
        <3>1. ball = [k \in 0..d |-> IF k = 0 THEN S ELSE Hop(ball[k - 1], dir, es)]
            BY <2>4
        <3> HIDE DEF ball
        <3>2. QED BY <3>1
    <2>6. /\ ball[0] = b(0)
          /\ \A k \in 0..4 : k + 1 <= d /\ ball[k] = b(k) => ball[k + 1] = b(k + 1)
        <3> HIDE DEF ball, b
        <3>1. \A k \in 0..4 : k + 1 <= d => k + 1 \in 0..d /\ (k + 1) - 1 = k /\ k + 1 # 0
            OBVIOUS
        <3>2. 0 \in 0..d
            OBVIOUS
        <3>3. QED BY <2>2, <2>5, <3>1, <3>2
    <2>7. ball[d] = b(d)
        <3> HIDE DEF ball, b
        <3>1. QED BY <2>6
    <2>8. QED BY <2>1, <2>7
<1>2. QED BY <1>1

\* More edges, more hops: larger balls.  A set that no edge leaves holds the
\* ball around any part of it.
LEMMA BallFacts ==
    ASSUME NEW S, NEW dir, NEW es
    PROVE  /\ \A fs : es \subseteq fs => \A d \in 0..5 : Ball(S, dir, d, es) \subseteq Ball(S, dir, d, fs)
           /\ \A d, c \in 0..5 : d <= c => Ball(S, dir, d, es) \subseteq Ball(S, dir, c, es)
           /\ \A C : S \subseteq C /\ Ends(Adjacent(dir, C, es)) \subseteq C =>
                 \A d \in 0..5 : Ball(S, dir, d, es) \subseteq C
<1> DEFINE b(d, fs) == Ball(S, dir, d, fs)
<1>1. ASSUME NEW fs
      PROVE  /\ b(0, fs) = S /\ b(1, fs) = Hop(b(0, fs), dir, fs)
             /\ b(2, fs) = Hop(b(1, fs), dir, fs) /\ b(3, fs) = Hop(b(2, fs), dir, fs)
             /\ b(4, fs) = Hop(b(3, fs), dir, fs) /\ b(5, fs) = Hop(b(4, fs), dir, fs)
    <2>1. \A d \in 0..4 : b(d + 1, fs) = Hop(b(d, fs), dir, fs)
        BY BallGrows
    <2>2. b(0, fs) = S
        BY BallGrows
    <2> HIDE DEF b
    <2>3. /\ b(0 + 1, fs) = Hop(b(0, fs), dir, fs) /\ b(1 + 1, fs) = Hop(b(1, fs), dir, fs)
          /\ b(2 + 1, fs) = Hop(b(2, fs), dir, fs) /\ b(3 + 1, fs) = Hop(b(3, fs), dir, fs)
          /\ b(4 + 1, fs) = Hop(b(4, fs), dir, fs)
        BY <2>1
    <2>4. 0 + 1 = 1 /\ 1 + 1 = 2 /\ 2 + 1 = 3 /\ 3 + 1 = 4 /\ 4 + 1 = 5
        OBVIOUS
    <2>5. QED BY <2>2, <2>3, <2>4
<1>2. \A B, C, fs : B \subseteq C /\ es \subseteq fs => Hop(B, dir, es) \subseteq Hop(C, dir, fs)
    BY DEF Hop, Ends, Adjacent
<1>3. \A B, C : B \subseteq C /\ Ends(Adjacent(dir, C, es)) \subseteq C => Hop(B, dir, es) \subseteq C
    BY DEF Hop, Ends, Adjacent
<1>4. \A B : B \subseteq Hop(B, dir, es)
    BY DEF Hop
<1>5. \A d \in 0..5 : d \in {0, 1, 2, 3, 4, 5}
    OBVIOUS
<1> HIDE DEF b
<1>6. ASSUME NEW fs, es \subseteq fs PROVE \A d \in 0..5 : b(d, es) \subseteq b(d, fs)
    <2>1. b(0, es) \subseteq b(0, fs)
        BY <1>1
    <2>2. b(1, es) \subseteq b(1, fs)
        BY <1>1, <1>2, <1>6, <2>1
    <2>3. b(2, es) \subseteq b(2, fs)
        BY <1>1, <1>2, <1>6, <2>2
    <2>4. b(3, es) \subseteq b(3, fs)
        BY <1>1, <1>2, <1>6, <2>3
    <2>5. b(4, es) \subseteq b(4, fs)
        BY <1>1, <1>2, <1>6, <2>4
    <2>6. b(5, es) \subseteq b(5, fs)
        BY <1>1, <1>2, <1>6, <2>5
    <2>7. QED BY <1>5, <2>1, <2>2, <2>3, <2>4, <2>5, <2>6
<1>7. ASSUME NEW d \in 0..5, NEW c \in 0..5, d <= c PROVE b(d, es) \subseteq b(c, es)
    <2>1. /\ b(0, es) \subseteq b(1, es) /\ b(1, es) \subseteq b(2, es)
          /\ b(2, es) \subseteq b(3, es) /\ b(3, es) \subseteq b(4, es)
          /\ b(4, es) \subseteq b(5, es)
        BY <1>1, <1>4
    <2>2. QED BY <1>5, <1>7, <2>1
<1>8. ASSUME NEW C, S \subseteq C, Ends(Adjacent(dir, C, es)) \subseteq C
      PROVE  \A d \in 0..5 : b(d, es) \subseteq C
    <2>1. b(0, es) \subseteq C /\ b(1, es) \subseteq C
        BY <1>1, <1>3, <1>8
    <2>2. b(2, es) \subseteq C /\ b(3, es) \subseteq C
        BY <1>1, <1>3, <1>8, <2>1
    <2>3. b(4, es) \subseteq C /\ b(5, es) \subseteq C
        BY <1>1, <1>3, <1>8, <2>2
    <2>4. QED BY <1>5, <2>1, <2>2, <2>3
<1>9. QED BY <1>6, <1>7, <1>8 DEF b

---------------------------------------------------------------------------
(* A subgraph request.                                                     *)

QueryRecord ==
    [at : {"idle", "edges", "nodes", "done"}, seeds : SUBSET NodeIds, direction : Directions,
     left : 0..5, depth : 0..5, visited : SUBSET NodeIds, frontier : SUBSET NodeIds,
     edges : SUBSET EdgeRows, nodes : SUBSET NodeIds, before : SUBSET EdgeRows]

BallThen(d) == Ball(query.seeds, query.direction, d, query.before)
BallNow(d) == Ball(query.seeds, query.direction, d, edges)

\* After h hops: everything that was within h hops is visited, nothing else
\* than what is, and from what lies behind the frontier no edge leads out.
Walked(h) ==
    /\ BallThen(h) \subseteq query.visited
    /\ query.visited \subseteq BallNow(h)
    /\ query.frontier \subseteq query.visited
    /\ Ends(Adjacent(query.direction, query.visited \ query.frontier, query.before))
         \subseteq query.visited
    /\ Ends(query.edges) \subseteq query.visited
    /\ query.visited \subseteq nodes

WalkOk ==
    /\ query.before \subseteq edges
    /\ query.at = "edges" =>
          /\ query.left \in 1..query.depth
          /\ Walked(query.depth - query.left) /\ query.nodes = query.visited
    /\ query.at = "nodes" =>
          /\ query.left \in 1..query.depth
          /\ Walked((query.depth - query.left) + 1)
          /\ query.nodes \cup query.frontier = query.visited
    /\ query.at = "done" =>
          /\ BallThen(query.depth) \subseteq query.nodes
          /\ query.nodes \subseteq BallNow(query.depth)
          /\ Ends(query.edges) \subseteq query.nodes

QueryInv ==
    /\ GraphInv
    /\ query \in QueryRecord
    /\ query.at \in {"edges", "nodes"} => query.left \in 1..query.depth
    /\ job => WalkOk

\* While the job exists nothing is taken out of the graph.
LEMMA GraphGrows ==
    ASSUME [Next]_vars, job'
    PROVE  nodes \subseteq nodes' /\ edges \subseteq edges'
<1>1. ASSUME NEW r \in Runs, InsertChunk(r) \/ InsertRow(r)
      PROVE  nodes \subseteq nodes' /\ edges \subseteq edges'
    BY <1>1 DEF InsertChunk, InsertRow, Store, rows
<1>2. CASE UNCHANGED rows
    BY <1>2 DEF rows
<1>3. ~DeleteJob
    BY DEF DeleteJob
<1>4. QED
    BY <1>1, <1>2, <1>3 DEF Next, vars, Parse, LoopEnds, UpdateCounts, LoadNodes, FindSmells,
       Reports, RunStops, QueryStart, QueryEdges, QueryNodes, QueryEnds

\* Rows that are added harm no request.
LEMMA WalkGoesOn ==
    ASSUME query \in QueryRecord, WalkOk, UNCHANGED query, nodes \subseteq nodes', edges \subseteq edges'
    PROVE  WalkOk'
<1>1. \A d \in 0..5 : BallThen(d)' = BallThen(d) /\ BallNow(d) \subseteq BallNow(d)'
    BY BallFacts DEF BallThen, BallNow
<1>2. ASSUME NEW h \in 0..5, Walked(h) PROVE Walked(h)'
    <2>1. BallThen(h)' = BallThen(h) /\ BallNow(h) \subseteq BallNow(h)'
        BY <1>1
    <2>2. Ends(Adjacent(query.direction, query.visited \ query.frontier, query.before))'
            = Ends(Adjacent(query.direction, query.visited \ query.frontier, query.before))
        OBVIOUS
    <2>3. QED BY <1>2, <2>1, <2>2 DEF Walked
<1>3. query.depth \in 0..5 /\ query.left \in 0..5
    BY DEF QueryRecord
<1>4. CASE query.at = "edges"
    BY <1>2, <1>3, <1>4 DEF WalkOk
<1>5. CASE query.at = "nodes"
    BY <1>2, <1>3, <1>5 DEF WalkOk
<1>6. CASE query.at \notin {"edges", "nodes"}
    BY <1>1, <1>3, <1>6 DEF WalkOk
<1>7. QED BY <1>4, <1>5, <1>6

\* The walk of a request, one hop per pair of statements.
LEMMA QueryInvInductive == QueryInv /\ [Next]_vars => QueryInv'
<1> SUFFICES ASSUME QueryInv, [Next]_vars PROVE QueryInv'
    OBVIOUS
<1>1. /\ GraphInv /\ GraphInv' /\ query \in QueryRecord /\ (job => WalkOk)
      /\ query.at \in {"edges", "nodes"} => query.left \in 1..query.depth
    BY GraphInvInductive DEF QueryInv
<1>2. /\ TablesOk /\ job \in BOOLEAN
    BY <1>1 DEF GraphInv
<1>3. CASE UNCHANGED query
    <2>1. ASSUME job' PROVE job /\ WalkOk'
        <3>1. job
            BY <2>1 DEF Next, vars, Parse, InsertChunk, InsertRow, LoopEnds, UpdateCounts, LoadNodes,
               FindSmells, Reports, RunStops, QueryStart, QueryEdges, QueryNodes, QueryEnds, DeleteJob
        <3>2. QED BY <1>1, <1>3, <2>1, <3>1, GraphGrows, WalkGoesOn
    <2>2. QED BY <1>1, <1>3, <2>1 DEF QueryInv
<1>4. ASSUME NEW n \in nodes, NEW q \in Requests, QueryStart(n, q.direction, q.depth)
      PROVE  QueryInv'
    <2> DEFINE new == [at |-> "edges", seeds |-> {n}, direction |-> q.direction, left |-> q.depth,
                       depth |-> q.depth, visited |-> {n}, frontier |-> {n}, edges |-> {},
                       nodes |-> {n}, before |-> edges]
    <2>1. /\ q.direction \in Directions /\ q.depth \in 1..5
          /\ n \in NodeIds /\ edges \in SUBSET EdgeRows
        BY <1>2, GraphAssumption DEF TablesOk
    <2>2. query' = new /\ UNCHANGED <<job, nodes, edges>>
        BY <1>4 DEF QueryStart, rows
    <2>3. query' \in QueryRecord
        BY <2>1, <2>2 DEF QueryRecord
    <2>4. /\ query'.at = "edges" /\ query'.seeds = {n} /\ query'.left = q.depth
          /\ query'.depth = q.depth /\ query'.visited = {n} /\ query'.frontier = {n}
          /\ query'.edges = {} /\ query'.nodes = {n} /\ query'.before = edges
        BY <2>2
    <2>5. BallThen(0)' = {n} /\ BallNow(0)' = {n}
        BY <2>4, BallGrows DEF BallThen, BallNow
    <2>6. Walked(0)'
        BY <2>2, <2>4, <2>5 DEF Walked, Ends, Adjacent
    <2>7. q.depth - q.depth = 0
        BY <2>1
    <2>8. WalkOk'
        BY <2>1, <2>2, <2>4, <2>6, <2>7 DEF WalkOk
    <2>9. query'.left \in 1..query'.depth
        BY <2>1, <2>4
    <2>10. QED BY <1>1, <2>3, <2>8, <2>9 DEF QueryInv
<1>5. CASE QueryEdges
    <2> DEFINE new == Adjacent(query.direction, query.frontier, edges)
               fresh == Ends(new) \ query.visited
               next == IF fresh = {} THEN "done" ELSE "nodes"
    <2>1. query.at = "edges" /\ UNCHANGED <<job, nodes, edges>>
        BY <1>5 DEF QueryEdges, rows
    <2>2. query' = [query EXCEPT !.edges = @ \cup new, !.visited = @ \cup fresh,
                                 !.frontier = fresh, !.at = next]
        BY <1>5 DEF QueryEdges
    <2>3. new \subseteq edges /\ edges \subseteq EdgeRows /\ Ends(new) \subseteq NodeIds
        <3>1. new \subseteq edges
            BY DEF Adjacent
        <3>2. edges \subseteq EdgeRows
            BY <1>2 DEF TablesOk
        <3>3. \A e \in EdgeRows : e.from \in NodeIds /\ e.to \in NodeIds
            BY DEF EdgeRows
        <3> HIDE DEF new
        <3>4. Ends(new) \subseteq NodeIds
            BY <3>1, <3>2, <3>3 DEF Ends
        <3>5. QED BY <3>1, <3>2, <3>4
    <2>4. fresh \subseteq NodeIds /\ next \in {"nodes", "done"}
        BY <2>3
    <2>5. query' \in QueryRecord
        <3> HIDE DEF new, fresh, next
        <3>1. QED BY <1>1, <2>2, <2>3, <2>4 DEF QueryRecord
    <2>6. /\ query'.at = next /\ query'.edges = query.edges \cup new
          /\ query'.visited = query.visited \cup fresh /\ query'.frontier = fresh
          /\ query'.seeds = query.seeds /\ query'.direction = query.direction
          /\ query'.left = query.left /\ query'.depth = query.depth
          /\ query'.nodes = query.nodes /\ query'.before = query.before
        <3> HIDE DEF new, fresh, next
        <3>1. QED BY <1>1, <2>2 DEF QueryRecord
    <2>7. ASSUME job PROVE WalkOk'
        <3>0. query.left \in 1..query.depth /\ query.depth \in 0..5
            BY <1>1, <2>1, <2>7 DEF WalkOk, QueryRecord
        <3> PICK h \in 0..4 : h = query.depth - query.left
            BY <3>0
        <3>1. /\ query.before \subseteq edges /\ query.left \in 1..query.depth
              /\ Walked(h) /\ query.nodes = query.visited
            BY <1>1, <2>1, <2>7 DEF WalkOk
        <3>2. query.depth \in 0..5 /\ h + 1 \in 0..5 /\ h + 1 <= query.depth
            BY <3>0
        <3>3. /\ BallThen(h + 1) = Hop(BallThen(h), query.direction, query.before)
              /\ BallNow(h + 1) = Hop(BallNow(h), query.direction, edges)
            BY <3>2, BallGrows DEF BallThen, BallNow
        <3>4. \A d \in 0..5 : BallThen(d)' = BallThen(d) /\ BallNow(d)' = BallNow(d)
            BY <2>1, <2>6 DEF BallThen, BallNow
        <3>5. /\ BallThen(h) \subseteq query.visited /\ query.visited \subseteq BallNow(h)
              /\ query.frontier \subseteq query.visited
              /\ Ends(Adjacent(query.direction, query.visited \ query.frontier, query.before))
                   \subseteq query.visited
              /\ Ends(query.edges) \subseteq query.visited /\ query.visited \subseteq nodes
            BY <3>1 DEF Walked
        <3>6. query.visited \cup fresh = query.visited \cup Ends(new)
            OBVIOUS
        <3>7. Ends(Adjacent(query.direction, query.visited, query.before))
                \subseteq query.visited \cup Ends(new)
            BY <3>1, <3>5 DEF Ends, Adjacent
        <3>8. \A es, A, C, d : A \subseteq C => Ends(Adjacent(d, A, es)) \subseteq Ends(Adjacent(d, C, es))
            BY DEF Ends, Adjacent
        <3>9. BallThen(h + 1) \subseteq query.visited \cup fresh
            BY <3>3, <3>5, <3>6, <3>7, <3>8 DEF Hop
        <3>10. query.visited \cup fresh \subseteq BallNow(h + 1)
            BY <3>3, <3>5, <3>6, <3>8 DEF Hop
        <3>11. (query.visited \cup fresh) \ fresh = query.visited
            OBVIOUS
        <3>12. Ends(query.edges \cup new) \subseteq query.visited \cup fresh
            BY <3>5, <3>6 DEF Ends
        <3>13. query.visited \cup fresh \subseteq nodes
            <4>1. \A e \in edges : e.from \in nodes /\ e.to \in nodes
                BY <1>2 DEF TablesOk
            <4> HIDE DEF new
            <4>2. Ends(new) \subseteq nodes
                BY <2>3, <4>1 DEF Ends
            <4>3. QED BY <3>5, <4>2
        <3>14. Walked(h + 1)'
            <4>1. /\ BallThen(h + 1)' = BallThen(h + 1) /\ BallNow(h + 1)' = BallNow(h + 1)
                BY <3>2, <3>4
            <4> HIDE DEF new, fresh, next
            <4>2. QED BY <2>1, <2>6, <3>6, <3>7, <3>9, <3>10, <3>11, <3>12, <3>13, <4>1 DEF Walked
        <3>15. CASE fresh = {}
            <4>1. query.visited \cup fresh = query.visited /\ next = "done"
                BY <3>15
            <4>2. Ends(Adjacent(query.direction, query.visited, query.before)) \subseteq query.visited
                BY <3>6, <3>7, <4>1
            <4>3. query.seeds \subseteq query.visited
                <5>1. BallThen(0) = query.seeds /\ BallThen(0) \subseteq BallThen(h)
                    BY <3>2, BallGrows, BallFacts DEF BallThen
                <5>2. QED BY <3>5, <5>1
            <4>4. BallThen(query.depth) \subseteq query.visited
                BY <3>2, <4>2, <4>3, BallFacts DEF BallThen
            <4>5. BallNow(h) \subseteq BallNow(query.depth)
                <5>1. h \in 0..5 /\ h <= query.depth
                    BY <3>2
                <5>2. QED BY <3>2, <5>1, BallFacts DEF BallNow
            <4>6. query'.at = "done" /\ query'.nodes = query.visited
                BY <2>6, <3>1, <4>1
            <4>7. Ends(query'.edges) \subseteq query.visited
                BY <2>6, <3>12, <4>1
            <4>8. /\ BallThen(query.depth)' = BallThen(query.depth)
                  /\ BallNow(query.depth)' = BallNow(query.depth)
                BY <2>6, <3>2, <3>4
            <4>9. BallThen(query.depth)' \subseteq query'.nodes /\ query'.nodes \subseteq BallNow(query.depth)'
                BY <3>5, <4>4, <4>5, <4>6, <4>8
            <4>10. QED BY <2>1, <2>6, <3>1, <4>6, <4>7, <4>9 DEF WalkOk
        <3>16. CASE fresh # {}
            <4>1. query'.at = "nodes" /\ query'.nodes \cup query'.frontier = query'.visited
                BY <2>6, <3>1, <3>16
            <4>2. query'.left \in 1..query'.depth /\ query'.before \subseteq edges'
                BY <2>1, <2>6, <3>1
            <4>3. (query'.depth - query'.left) + 1 = h + 1
                BY <2>6
            <4>4. QED BY <3>14, <4>1, <4>2, <4>3 DEF WalkOk
        <3>17. QED BY <3>15, <3>16
    <2>8. query'.at \in {"edges", "nodes"} => query'.left \in 1..query'.depth
        BY <1>1, <2>1, <2>6
    <2>9. QED BY <1>1, <2>1, <2>5, <2>7, <2>8 DEF QueryInv
<1>6. CASE QueryNodes
    <2> DEFINE more == query.nodes \cup (query.frontier \cap nodes)
               next == IF query.left = 1 THEN "done" ELSE "edges"
    <2>1. query.at = "nodes" /\ UNCHANGED <<job, nodes, edges>>
        BY <1>6 DEF QueryNodes, rows
    <2>2. query' = [query EXCEPT !.nodes = more, !.left = query.left - 1, !.at = next]
        BY <1>6 DEF QueryNodes
    <2>3. /\ query.seeds \in SUBSET NodeIds /\ query.direction \in Directions
          /\ query.left \in 0..5 /\ query.depth \in 0..5 /\ query.visited \in SUBSET NodeIds
          /\ query.frontier \in SUBSET NodeIds /\ query.edges \in SUBSET EdgeRows
          /\ query.nodes \in SUBSET NodeIds /\ query.before \in SUBSET EdgeRows
        BY <1>1 DEF QueryRecord
    <2>4. /\ query'.at = next /\ query'.nodes = more /\ query'.left = query.left - 1
          /\ query'.edges = query.edges /\ query'.visited = query.visited
          /\ query'.frontier = query.frontier /\ query'.seeds = query.seeds
          /\ query'.direction = query.direction /\ query'.depth = query.depth
          /\ query'.before = query.before
        <3> HIDE DEF more, next
        <3>1. QED BY <1>1, <2>2 DEF QueryRecord
    <2>5. query.left \in 1..5
        BY <1>1, <2>1, <2>3
    <2>6. query' \in QueryRecord
        <3>1. more \in SUBSET NodeIds /\ next \in {"edges", "done"} /\ query.left - 1 \in 0..5
            BY <2>3, <2>5
        <3> HIDE DEF more, next
        <3>2. QED BY <1>1, <2>2, <3>1 DEF QueryRecord
    <2>7. ASSUME job PROVE WalkOk'
        <3>1. /\ query.before \subseteq edges /\ query.left \in 1..query.depth
              /\ Walked((query.depth - query.left) + 1)
              /\ query.nodes \cup query.frontier = query.visited
            BY <1>1, <2>1, <2>7 DEF WalkOk
        <3> PICK h \in 0..5 : h = (query.depth - query.left) + 1
            BY <2>3, <3>1
        <3>2. Walked(h)
            BY <3>1
        <3>3. \A d \in 0..5 : BallThen(d)' = BallThen(d) /\ BallNow(d)' = BallNow(d)
            BY <2>1, <2>4 DEF BallThen, BallNow
        <3>4. BallThen(h)' = BallThen(h) /\ BallNow(h)' = BallNow(h)
            BY <3>3
        <3>5. more = query.visited
            BY <3>1 DEF Walked
        <3> HIDE DEF more
        <3>6. Walked(h)'
            BY <2>1, <2>4, <3>2, <3>4 DEF Walked
        <3>7. CASE query.left = 1
            <4>1. h = query.depth /\ query'.at = "done"
                BY <2>3, <2>4, <3>7
            <4>2. Walked(query.depth)'
                BY <3>6, <4>1, <2>4
            <4>3. QED BY <2>1, <2>4, <3>1, <3>5, <4>1, <4>2 DEF WalkOk, Walked
        <3>8. CASE query.left # 1
            <4>1. query'.at = "edges" /\ query'.left \in 1..query'.depth
                BY <2>3, <2>4, <3>1, <3>8
            <4>2. query'.depth - query'.left = h
                BY <2>3, <2>4
            <4>3. QED BY <2>1, <2>4, <3>1, <3>5, <3>6, <4>1, <4>2 DEF WalkOk
        <3>9. QED BY <3>7, <3>8
    <2>8. query'.at \in {"edges", "nodes"} => query'.left \in 1..query'.depth
        BY <1>1, <2>1, <2>3, <2>4, <2>5
    <2>9. QED BY <1>1, <2>1, <2>6, <2>7, <2>8 DEF QueryInv
<1>7. CASE QueryEnds
    <2>1. query' = NoQuery /\ UNCHANGED <<job, nodes, edges>>
        BY <1>7 DEF QueryEnds, rows
    <2>2. query' \in QueryRecord
        BY <2>1 DEF NoQuery, QueryRecord, Directions
    <2>3. WalkOk'
        BY <2>1 DEF WalkOk, NoQuery
    <2>4. query'.at = "idle"
        BY <2>1 DEF NoQuery
    <2>5. QED BY <1>1, <2>2, <2>3, <2>4 DEF QueryInv
<1>8. QED
    BY <1>3, <1>4, <1>5, <1>6, <1>7 DEF Next, vars, Parse, InsertChunk, InsertRow, LoopEnds,
       UpdateCounts, LoadNodes, FindSmells, Reports, RunStops, DeleteJob

---------------------------------------------------------------------------
(* The theorems.                                                           *)

\* No request is under way at first.
LEMMA QueryInvInit == Init => QueryInv
<1>1. Init => query \in QueryRecord /\ query.at = "idle" /\ query.before = {}
    BY DEF Init, NoQuery, QueryRecord, Directions
<1>2. QED BY <1>1, GraphInvInit DEF QueryInv, WalkOk

\* The invariant, always.
LEMMA QueryInvHolds == Spec => []QueryInv
<1>1. QED BY QueryInvInit, QueryInvInductive, PTL DEF Spec

\* The rows of the graph, the runs and the request have the form that the code
\* gives them; edges join stored nodes and nothing outlives the job.
THEOREM GraphTypeCorrect == Spec => []TypeOK
<1>1. QueryInv => TypeOK
    <2> SUFFICES ASSUME QueryInv PROVE TypeOK
        OBVIOUS
    <2>1. /\ GraphInv /\ TablesOk /\ query \in QueryRecord
        BY DEF QueryInv, GraphInv
    <2>2. /\ \A e \in edges : e.type \in LinkTypes /\ {e.from, e.to} \subseteq nodes
          /\ \A s \in smells : s.by \in Runs /\ s.type \in SmellTypes
        BY <2>1 DEF TablesOk, EdgeRows, SmellRows
    <2>3. \A r \in Runs : run[r].at \in Stages
        BY <2>1 DEF GraphInv, Record
    <2>4. query.at \in {"idle", "edges", "nodes", "done"}
        BY <2>1 DEF QueryRecord
    <2>5. QED BY <2>1, <2>2, <2>3, <2>4 DEF TypeOK, GraphInv, TablesOk, Stages
<1>2. QED BY <1>1, QueryInvHolds, PTL

\* The numbers a job shows never exceed the rows it has, with any number of
\* runs that overlap, stop or lose rows (mapper.py:307).
THEOREM CountsStayBacked == Spec => []CountsAreBacked
<1>1. QueryInv => CountsAreBacked
    BY DEF QueryInv, GraphInv
<1>2. QED BY <1>1, QueryInvHolds, PTL

\* Whatever the size of the chunks and wherever the refused rows fall in them,
\* a finished mapper has lost those rows and their edges only (mapper.py:225).
THEOREM OnlyRefusedRowsAreLost == Spec => []OnlyRefusedIsLost
<1>1. QueryInv => OnlyRefusedIsLost
    <2> SUFFICES ASSUME QueryInv, job, NEW r \in Runs, Mapped(r), NEW k \in run[r].parsed
                 PROVE  LET kept == {e \in Parsed(k) : e \notin refused}
                        IN /\ {n \in Own(r) : n.batch = k} = {NodeId(r, k, e) : e \in kept}
                           /\ \A e \in EdgesOf(r, k) :
                                 e \in edges <=> {e.from.entity, e.to.entity} \subseteq kept
        BY DEF OnlyRefusedIsLost
    <2> DEFINE kept == {e \in Parsed(k) : e \notin refused}
    <2>1. NodesFit(r) /\ EdgesFit(r)
        BY DEF QueryInv, GraphInv, RunFit
    <2>2. /\ Own(r) = {n \in AllNodes(r) : n.entity \notin refused}
          /\ OwnEdges(r) = {e \in AllEdges(r) : {e.from, e.to} \subseteq Own(r)}
        BY <2>1 DEF NodesFit, EdgesFit
    <2>3. {n \in Own(r) : n.batch = k} = {NodeId(r, k, e) : e \in kept}
        <3>1. \A j : \A n \in NodesOf(r, j) :
                 n.batch = j /\ n.entity \in Parsed(j) /\ n = NodeId(r, j, n.entity)
            BY DEF NodesOf, NodeId
        <3>2. \A e \in Parsed(k) : /\ NodeId(r, k, e) \in NodesOf(r, k)
                                   /\ NodeId(r, k, e).entity = e /\ NodeId(r, k, e).batch = k
            BY DEF NodesOf, NodeId
        <3>3. NodesOf(r, k) \subseteq AllNodes(r)
            BY DEF AllNodes
        <3>4. ASSUME NEW n \in Own(r), n.batch = k PROVE n \in {NodeId(r, k, e) : e \in kept}
            <4>1. PICK j \in run[r].parsed : n \in NodesOf(r, j)
                BY <2>2 DEF AllNodes
            <4>2. n.entity \in kept /\ n = NodeId(r, k, n.entity)
                BY <2>2, <3>1, <3>4, <4>1
            <4>3. QED BY <4>2
        <3>5. ASSUME NEW e \in kept PROVE NodeId(r, k, e) \in {n \in Own(r) : n.batch = k}
            BY <2>2, <3>2, <3>3
        <3>6. QED BY <3>4, <3>5
    <2>4. ASSUME NEW e \in EdgesOf(r, k)
          PROVE  e \in edges <=> {e.from.entity, e.to.entity} \subseteq kept
        <3>1. PICK l \in Reported(k) : e = [type |-> l.type, from |-> NodeId(r, k, l.from),
                                            to |-> NodeId(r, k, l.to)]
            BY DEF EdgesOf
        <3>2. l.from \in Parsed(k) /\ l.to \in Parsed(k)
            BY <3>1 DEF Reported
        <3>3. /\ e.from = NodeId(r, k, l.from) /\ e.to = NodeId(r, k, l.to) /\ e.from.run = r
              /\ e.from.entity = l.from /\ e.to.entity = l.to
            BY <3>1 DEF NodeId
        <3>4. e.from \in AllNodes(r) /\ e.to \in AllNodes(r)
            BY <3>2, <3>3 DEF AllNodes, NodesOf
        <3>5. {e.from, e.to} \subseteq Own(r) <=> {e.from.entity, e.to.entity} \subseteq kept
            BY <2>2, <3>2, <3>3, <3>4
        <3>6. e \in AllEdges(r)
            BY DEF AllEdges
        <3>7. e \in edges <=> e \in OwnEdges(r)
            BY <3>3 DEF OwnEdges
        <3>8. QED BY <2>2, <3>5, <3>6, <3>7
    <2>5. QED BY <2>3, <2>4
<1>2. QED BY <1>1, QueryInvHolds, PTL

\* Whatever other runs insert between the detector's two statements, a finished
\* run has reported of its own part of the graph exactly what the rules find in
\* it (smell_detector.py:65).
THEOREM DetectorsSeeTheirGraph == Spec => []DetectorSeesOwnGraph
<1>1. QueryInv => DetectorSeesOwnGraph
    <2> SUFFICES ASSUME QueryInv, job, NEW r \in Runs, run[r].at = "done"
                 PROVE  {[type |-> s.type, node |-> s.node] :
                            s \in {t \in smells : t.by = r /\ t.node.run = r}} = Found(Own(r), edges)
        BY DEF DetectorSeesOwnGraph
    <2>1. SmellsFit(r) /\ TablesOk
        BY DEF QueryInv, GraphInv, RunFit
    <2>2. Verdict(r, OwnSmells(r)) = Found(Own(r), OwnEdges(r))
        BY <2>1 DEF SmellsFit
    <2>3. /\ Own(r) \in SUBSET NodeIds /\ edges \in SUBSET EdgeRows
          /\ \A e \in edges : e.from.run = e.to.run
        BY <2>1 DEF TablesOk, Own
    <2>4. {s \in Found(Own(r), edges) : s.node.run = r}
            = Found({n \in Own(r) : n.run = r}, {e \in edges : e.from.run = r})
        BY <2>3, FoundIsLocal
    <2>5. {n \in Own(r) : n.run = r} = Own(r) /\ {e \in edges : e.from.run = r} = OwnEdges(r)
        BY DEF Own, OwnEdges
    <2>6. \A s \in Found(Own(r), edges) : s.node.run = r
        <3>1. \A s \in Found(Own(r), edges) : s.node \in Own(r)
            BY <2>3, FoundIsGiven
        <3>2. QED BY <3>1 DEF Own
    <2>7. {t \in OwnSmells(r) : t.node.run = r} = {t \in smells : t.by = r /\ t.node.run = r}
        BY DEF OwnSmells
    <2>8. QED BY <2>2, <2>4, <2>5, <2>6, <2>7 DEF Verdict
<1>2. QED BY <1>1, QueryInvHolds, PTL

\* The answer to a subgraph request lies between what was within reach when it
\* began and what is when it ends, for every graph and every depth that
\* SubgraphRequest admits (graph.py:575).
THEOREM SubgraphsAreBalls == Spec => []SubgraphIsBall
<1>1. QueryInv => SubgraphIsBall
    BY DEF QueryInv, WalkOk, SubgraphIsBall, BallThen, BallNow
<1>2. QED BY <1>1, QueryInvHolds, PTL

============================================================================
