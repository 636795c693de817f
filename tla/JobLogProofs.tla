---------------------------- MODULE JobLogProofs ----------------------------
(***************************************************************************)
(* Proofs about JobLog for any number of calls, pages and polls, and any   *)
(* limit of an answer.                                                     *)
(***************************************************************************)
EXTENDS JobLog, TLAPS, FiniteSetTheorems, FunctionTheorems, SequenceTheorems

\* The number a call is about to insert is taken, or the next one.
InTurn ==
    \A c \in Calls :
        job /\ call[c].at = "insert" => call[c].seq \in 1..(Cardinality(rows) + 1)

LogInv == TypeOK /\ IsFiniteSet(rows) /\ SeqHasNoGap /\ InTurn

\* With the numbers 1..n taken, the next one is n + 1.
LEMMA NextIsCardinality ==
    ASSUME IsFiniteSet(rows), rows \subseteq Row, SeqHasNoGap
    PROVE  Cardinality(rows) \in Nat /\ NextSeq = Cardinality(rows) + 1
<1>1. Cardinality(rows) \in Nat
  BY FS_CardinalityType
<1>2. CASE rows = {}
  BY <1>1, <1>2, FS_EmptySet DEF NextSeq
<1>3. CASE rows # {}
  <2>1. Cardinality(rows) # 0
    BY <1>3, FS_EmptySet
  <2> DEFINE n == Cardinality(rows)
  <2>2. n \in Seqs /\ \A t \in Seqs : t <= n
    BY <1>1, <2>1 DEF SeqHasNoGap
  <2>3. Seqs \subseteq Nat
    BY <1>1 DEF SeqHasNoGap
  <2>4. ASSUME NEW s \in Seqs, \A t \in Seqs : t <= s PROVE s = n
    <3>1. n <= s /\ s <= n /\ s \in Nat /\ n \in Nat
      BY <1>1, <2>2, <2>3, <2>4
    <3> HIDE DEF n
    <3> QED BY <3>1
  <2>5. (CHOOSE s \in Seqs : \A t \in Seqs : t <= s) = n
    BY <2>2, <2>4
  <2> HIDE DEF n
  <2>6. NextSeq = n + 1
    BY <1>3, <2>5 DEF NextSeq
  <2> QED BY <1>1, <2>6 DEF n
<1> QED BY <1>2, <1>3

\* What a step of a client changes is not the log's.
LEMMA ClientStepsKeepLog ==
    ASSUME LogInv, TypeOK', UNCHANGED logVars
    PROVE  LogInv'
BY DEF LogInv, InTurn, SeqHasNoGap, Seqs, logVars

LEMMA LogInvInductive == LogInv /\ [Next]_vars => LogInv'
<1> SUFFICES ASSUME LogInv, [Next]_vars PROVE LogInv'
  OBVIOUS
<1> DEFINE n == Cardinality(rows)
<1>0. n \in Nat /\ NextSeq = n + 1 /\ Seqs = 1..n
  BY NextIsCardinality DEF LogInv, TypeOK, SeqHasNoGap
<1>1. ASSUME NEW c \in Calls, ReadSeq(c) PROVE LogInv'
  <2>1. TypeOK'
    BY <1>0, <1>1 DEF ReadSeq, LogInv, TypeOK, clientVars
  <2>2. rows' = rows /\ n' = n
    BY <1>1 DEF ReadSeq
  <2>3. InTurn'
    BY <1>0, <1>1, <2>2 DEF ReadSeq, LogInv, InTurn, TypeOK
  <2> QED BY <2>1, <2>2, <2>3 DEF LogInv, SeqHasNoGap, Seqs
<1>2. ASSUME NEW c \in Calls, Insert(c) PROVE LogInv'
  <2>1. CASE job /\ call[c].seq \notin Seqs
    <3> DEFINE r == [seq |-> call[c].seq, call |-> c]
    <3>1. call[c].seq = n + 1
      BY <1>0, <1>2, <2>1 DEF Insert, LogInv, InTurn
    <3>2. r \in Row /\ r \notin rows
      BY <1>0, <2>1, <3>1 DEF Row, Seqs
    <3>3. rows' = rows \cup {r} /\ call' = [call EXCEPT ![c].at = "stored"]
          /\ UNCHANGED <<job, clientVars>>
      BY <1>2, <2>1 DEF Insert
    <3>4. IsFiniteSet(rows') /\ Cardinality(rows') = n + 1
      BY <3>2, <3>3, FS_AddElement DEF LogInv
    <3>5. Seqs' = 1..(n + 1)
      <4>1. Seqs' = {q.seq : q \in rows \cup {r}} /\ r.seq = n + 1
        BY <3>1, <3>3 DEF Seqs
      <4> HIDE DEF r
      <4>2. Seqs' = Seqs \cup {n + 1}
        BY <4>1 DEF Seqs
      <4> QED BY <4>2, <1>0
    <3>6. SeqHasNoGap'
      <4>1. ASSUME NEW q \in rows', NEW s \in rows', q.seq = s.seq PROVE q = s
        <5>1. \A p \in rows : p.seq \in 1..n
          BY <1>0 DEF Seqs
        <5> QED BY <1>0, <3>1, <3>3, <4>1, <5>1 DEF LogInv, SeqHasNoGap
      <4> QED BY <3>4, <3>5, <4>1 DEF SeqHasNoGap
    <3>7. TypeOK'
      BY <3>2, <3>3 DEF LogInv, TypeOK, clientVars
    <3>8. InTurn'
      BY <1>0, <3>3, <3>4 DEF LogInv, InTurn, TypeOK
    <3> QED BY <3>4, <3>6, <3>7, <3>8 DEF LogInv
  <2>2. CASE ~(job /\ call[c].seq \notin Seqs)
    <3>1. call' = [call EXCEPT ![c].at = "lost"] /\ UNCHANGED <<job, rows, clientVars>>
      BY <1>2, <2>2 DEF Insert
    <3>2. TypeOK' /\ InTurn'
      BY <3>1 DEF LogInv, InTurn, TypeOK, clientVars
    <3> QED BY <3>1, <3>2 DEF LogInv, SeqHasNoGap, Seqs
  <2> QED BY <2>1, <2>2
<1>3. ASSUME NEW c \in Calls, Fail(c) PROVE LogInv'
  <2>1. TypeOK' /\ InTurn'
    BY <1>3 DEF Fail, LogInv, InTurn, TypeOK, clientVars
  <2> QED BY <1>3, <2>1 DEF Fail, LogInv, SeqHasNoGap, Seqs
<1>4. ASSUME DeleteJob PROVE LogInv'
  <2>1. rows' = {} /\ ~job' /\ Cardinality(rows') = 0 /\ IsFiniteSet(rows')
    BY <1>4, FS_EmptySet DEF DeleteJob
  <2>2. Seqs' = {}
    BY <2>1 DEF Seqs
  <2>3. SeqHasNoGap' /\ InTurn'
    BY <2>1, <2>2 DEF SeqHasNoGap, InTurn
  <2>4. TypeOK'
    BY <1>4 DEF DeleteJob, LogInv, TypeOK, clientVars
  <2> QED BY <2>1, <2>3, <2>4 DEF LogInv
<1>5. ASSUME NEW c \in Clients, NEW i \in Polls, Ask(c, i) PROVE LogInv'
  <2>1. TypeOK'
    BY <1>5 DEF Ask, LogInv, TypeOK, logVars
  <2> QED BY <1>5, <2>1, ClientStepsKeepLog DEF Ask
<1>6. ASSUME NEW c \in Clients, NEW i \in Polls, Answer(c, i) PROVE LogInv'
  <2>1. PICK P \in SUBSET rows :
          poll' = [poll EXCEPT ![<<c, i>>] =
              [at |-> "answered", since |-> poll[<<c, i>>].since, page |-> P]]
    BY <1>6 DEF Answer
  <2>2. TypeOK'
    BY <1>6, <2>1 DEF Answer, LogInv, TypeOK, logVars
  <2> QED BY <1>6, <2>2, ClientStepsKeepLog DEF Answer
<1>7. ASSUME NEW c \in Clients, NEW i \in Polls, Take(c, i) PROVE LogInv'
  <2>1. poll[<<c, i>>].page \subseteq Row
    BY DEF LogInv, TypeOK
  <2>2. since' \in [Clients -> Nat]
    BY <1>7, <2>1 DEF Take, LogInv, TypeOK, Row
  <2>3. TypeOK'
    BY <1>7, <2>1, <2>2 DEF Take, LogInv, TypeOK, logVars, NoPoll
  <2> QED BY <1>7, <2>3, ClientStepsKeepLog DEF Take
<1>8. ASSUME NEW c \in Clients, NEW i \in Polls, Drop(c, i) PROVE LogInv'
  <2>1. TypeOK'
    BY <1>8 DEF Drop, LogInv, TypeOK, logVars, NoPoll
  <2> QED BY <1>8, <2>1, ClientStepsKeepLog DEF Drop
<1>9. CASE UNCHANGED vars
  BY <1>9 DEF vars, LogInv, TypeOK, InTurn, SeqHasNoGap, Seqs
<1> QED
  BY <1>1, <1>2, <1>3, <1>4, <1>5, <1>6, <1>7, <1>8, <1>9 DEF Next

LEMMA InitLogInv == Init => LogInv
<1> SUFFICES ASSUME Init PROVE LogInv
  OBVIOUS
<1>1. Seqs = {} /\ Cardinality(rows) = 0 /\ IsFiniteSet(rows)
  BY FS_EmptySet DEF Init, Seqs
<1>2. SeqHasNoGap /\ InTurn
  BY <1>1 DEF Init, SeqHasNoGap, InTurn
<1>3. TypeOK
  BY DEF Init, TypeOK, NoPoll
<1> QED BY <1>1, <1>2, <1>3 DEF LogInv

\* insert_job_log, emit_progress and get_job_logs leave every variable in its
\* range.
THEOREM LogTypeCorrect == Spec => []TypeOK
<1>1. LogInv => TypeOK
  BY DEF LogInv
<1> QED BY <1>1, InitLogInv, LogInvInductive, PTL DEF Spec

\* However the calls of insert_job_log overlap and fail, the rows of a job
\* are numbered 1, 2, 3, ...
THEOREM SeqsHaveNoGap == Spec => []SeqHasNoGap
<1>1. LogInv => SeqHasNoGap
  BY DEF LogInv
<1> QED BY <1>1, InitLogInv, LogInvInductive, PTL DEF Spec

---------------------------------------------------------------------------
(* What a page has seen.  A poll carries the seq the page had when it       *)
(* asked, and its answer the rows right after that one.                     *)

Follows(p) ==
    \A r \in p.page : \A s \in (p.since + 1)..r.seq : \E q \in p.page : q.seq = s

Fits(c, p) ==
    /\ p.since = 0 \/ \E r \in seen[c] : r.seq = p.since
    /\ job => p.page \subseteq rows
    /\ Follows(p)

PollInv == \A c \in Clients, i \in Polls : Fits(c, poll[<<c, i>>])

SeenInv == LogInv /\ PollInv /\ NothingSkipped

LEMMA NoPollFits == \A c \in Clients : Fits(c, NoPoll)
BY DEF Fits, Follows, NoPoll

LEMMA SeenInvInductive == SeenInv /\ [Next]_vars => SeenInv'
<1> SUFFICES ASSUME SeenInv, [Next]_vars PROVE PollInv' /\ NothingSkipped'
  BY LogInvInductive DEF SeenInv
<1>0. LogInv /\ TypeOK /\ PollInv /\ NothingSkipped
  BY DEF SeenInv, LogInv
<1>1. ASSUME clientVars' = clientVars, job' => job /\ rows \subseteq rows'
      PROVE  PollInv' /\ NothingSkipped'
  <2>1. NothingSkipped'
    BY <1>0, <1>1 DEF clientVars, NothingSkipped
  <2>2. PollInv'
    <3>1. poll' = poll /\ seen' = seen
      BY <1>1 DEF clientVars
    <3> SUFFICES ASSUME NEW c \in Clients, NEW i \in Polls
                 PROVE  Fits(c, poll[<<c, i>>])'
      BY DEF PollInv
    <3>2. Fits(c, poll[<<c, i>>])
      BY <1>0 DEF PollInv
    <3> QED BY <1>1, <3>1, <3>2 DEF Fits, Follows
  <2> QED BY <2>1, <2>2
<1>2. ASSUME NEW c \in Calls, ReadSeq(c) \/ Insert(c) \/ Fail(c)
      PROVE  PollInv' /\ NothingSkipped'
  BY <1>1, <1>2 DEF ReadSeq, Insert, Fail
<1>3. ASSUME DeleteJob PROVE PollInv' /\ NothingSkipped'
  BY <1>1, <1>3 DEF DeleteJob
<1>4. ASSUME NEW c \in Clients, NEW i \in Polls, Ask(c, i)
      PROVE  PollInv' /\ NothingSkipped'
  <2>1. NothingSkipped'
    BY <1>0, <1>4 DEF Ask, logVars, NothingSkipped
  <2>2. PollInv'
    <3> DEFINE p == [at |-> "asked", since |-> since[c], page |-> {}]
    <3>1. Fits(c, p)
      BY <1>0 DEF Fits, Follows, NothingSkipped
    <3>2. \A d \in Clients, k \in Polls : Fits(d, poll'[<<d, k>>])
      BY <1>0, <1>4, <3>1 DEF Ask, PollInv, TypeOK
    <3>3. UNCHANGED <<job, rows, seen>>
      BY <1>4 DEF Ask, logVars
    <3> QED BY <3>2, <3>3 DEF PollInv, Fits, Follows
  <2> QED BY <2>1, <2>2
<1>5. ASSUME NEW c \in Clients, NEW i \in Polls, Answer(c, i)
      PROVE  PollInv' /\ NothingSkipped'
  <2> DEFINE since0 == poll[<<c, i>>].since
  <2>1. PICK P \in SUBSET rows :
          /\ Page(since0, P)
          /\ poll' = [poll EXCEPT ![<<c, i>>] =
              [at |-> "answered", since |-> since0, page |-> P]]
    BY <1>5 DEF Answer
  <2>2. ASSUME NEW r \in P, NEW s \in (since0 + 1)..r.seq
        PROVE  \E q \in P : q.seq = s
    <3>1. since0 \in Nat /\ r.seq \in Nat \ {0}
      BY <1>0, <2>1 DEF TypeOK, Row
    <3>2. r.seq \in 1..Cardinality(rows) /\ Cardinality(rows) \in Nat
      BY <1>0, FS_CardinalityType DEF LogInv, SeqHasNoGap, Seqs
    <3>3. PICK q \in rows : q.seq = s
      <4>1. s \in Seqs
        BY <1>0, <3>1, <3>2 DEF LogInv, SeqHasNoGap
      <4> QED BY <4>1 DEF Seqs
    <3>4. q \in P
      BY <2>1, <3>1, <3>3 DEF Page
    <3> QED BY <3>3, <3>4
  <2>3. NothingSkipped'
    BY <1>0, <1>5 DEF Answer, logVars, NothingSkipped
  <2>4. PollInv'
    <3> DEFINE p == [at |-> "answered", since |-> since0, page |-> P]
    <3>1. Follows(p)
      BY <2>2 DEF Follows
    <3>2. Fits(c, p)
      BY <1>0, <3>1 DEF PollInv, Fits
    <3>3. \A d \in Clients, k \in Polls : Fits(d, poll'[<<d, k>>])
      BY <1>0, <2>1, <3>2 DEF PollInv, TypeOK
    <3> QED BY <1>5, <3>3 DEF Answer, logVars, PollInv, Fits, Follows
  <2> QED BY <2>3, <2>4
<1>6. ASSUME NEW c \in Clients, NEW i \in Polls, Take(c, i)
      PROVE  PollInv' /\ NothingSkipped'
  <2> DEFINE p == poll[<<c, i>>]
  <2>1. /\ seen' = [seen EXCEPT ![c] = @ \cup p.page]
        /\ poll' = [poll EXCEPT ![<<c, i>>] = NoPoll]
        /\ job' = job /\ rows' = rows
    BY <1>6 DEF Take, logVars
  <2>2. p.since \in Nat /\ p.page \subseteq Row /\ seen[c] \subseteq Row
    BY <1>0 DEF TypeOK
  <2>3. ASSUME NEW r \in seen[c] \cup p.page, NEW s \in 1..r.seq
        PROVE  \E q \in seen[c] \cup p.page : q.seq = s
    <3>1. CASE r \in seen[c]
      BY <1>0, <3>1 DEF NothingSkipped
    <3>2. CASE r \in p.page /\ s <= p.since
      <4>1. PICK q \in seen[c] : q.seq = p.since
        BY <1>0, <2>2, <3>2 DEF PollInv, Fits
      <4>2. s \in 1..q.seq
        BY <2>2, <3>2, <4>1
      <4> QED BY <1>0, <4>2 DEF NothingSkipped
    <3>3. CASE r \in p.page /\ ~(s <= p.since)
      <4>1. s \in (p.since + 1)..r.seq
        BY <2>2, <3>3
      <4> QED BY <1>0, <3>3, <4>1 DEF PollInv, Fits, Follows
    <3> QED BY <3>1, <3>2, <3>3
  <2>4. job => seen[c] \cup p.page \subseteq rows
    BY <1>0 DEF PollInv, Fits, NothingSkipped
  <2>5. since'[c] = 0 \/ \E r \in seen[c] \cup p.page : r.seq = since'[c]
    <3>1. CASE UNCHANGED since
      BY <1>0, <3>1 DEF NothingSkipped
    <3>2. CASE \E last \in p.page : since' = [since EXCEPT ![c] = last.seq]
      BY <1>0, <3>2 DEF TypeOK
    <3> QED BY <1>6, <3>1, <3>2 DEF Take
  <2>6. \A d \in Clients : d # c => seen'[d] = seen[d] /\ since'[d] = since[d]
    BY <1>0, <1>6 DEF Take, TypeOK
  <2>7. seen'[c] = seen[c] \cup p.page
    BY <1>0, <2>1 DEF TypeOK
  <2> HIDE DEF p
  <2>8. NothingSkipped'
    BY <1>0, <2>1, <2>3, <2>4, <2>5, <2>6, <2>7 DEF NothingSkipped
  <2>9. PollInv'
    <3>1. \A d \in Clients : seen[d] \subseteq seen'[d]
      BY <2>6, <2>7
    <3>2. \A d \in Clients, k \in Polls : Fits(d, poll'[<<d, k>>])
      BY <1>0, <2>1, NoPollFits DEF PollInv, TypeOK
    <3> SUFFICES ASSUME NEW d \in Clients, NEW k \in Polls
                 PROVE  Fits(d, poll[<<d, k>>])'
      BY DEF PollInv
    <3>3. Fits(d, poll'[<<d, k>>]) /\ seen[d] \subseteq seen'[d]
      BY <3>1, <3>2
    <3> QED BY <2>1, <3>3 DEF Fits, Follows
  <2> QED BY <2>8, <2>9
<1>7. ASSUME NEW c \in Clients, NEW i \in Polls, Drop(c, i)
      PROVE  PollInv' /\ NothingSkipped'
  <2>1. NothingSkipped'
    BY <1>0, <1>7 DEF Drop, logVars, NothingSkipped
  <2>2. \A d \in Clients, k \in Polls : Fits(d, poll'[<<d, k>>])
    BY <1>0, <1>7, NoPollFits DEF Drop, PollInv, TypeOK
  <2>3. UNCHANGED <<logVars, seen, since>>
    BY <1>7 DEF Drop
  <2>4. PollInv'
    <3> SUFFICES ASSUME NEW d \in Clients, NEW k \in Polls
                 PROVE  Fits(d, poll[<<d, k>>])'
      BY DEF PollInv
    <3>1. Fits(d, poll'[<<d, k>>])
      BY <2>2
    <3> QED BY <2>3, <3>1 DEF logVars, Fits, Follows
  <2> QED BY <2>1, <2>4
<1>8. CASE UNCHANGED vars
  BY <1>1, <1>8 DEF vars, clientVars
<1> QED
  BY <1>2, <1>3, <1>4, <1>5, <1>6, <1>7, <1>8 DEF Next

\* However the answers of get_job_logs overtake each other or are lost
\* (stores/analysis.ts:141), a page never has an entry without those before
\* it.
THEOREM PollsSkipNothing == Spec => []NothingSkipped
<1>1. Init => PollInv /\ NothingSkipped
  BY NoPollFits DEF Init, PollInv, NothingSkipped
<1>2. Init => SeenInv
  BY <1>1, InitLogInv DEF SeenInv
<1>3. SeenInv => NothingSkipped
  BY DEF SeenInv
<1> QED BY <1>2, <1>3, SeenInvInductive, PTL DEF Spec

---------------------------------------------------------------------------
(* The table as a log to which entries are appended.                        *)

Numbered(R) ==
    /\ IsFiniteSet(R) /\ R \subseteq Row
    /\ \A r, s \in R : r.seq = s.seq => r = s
    /\ {r.seq : r \in R} = 1..Cardinality(R)

Sorted(R) ==
    [i \in 1..Cardinality(R) |->
        (CHOOSE r \in R : Cardinality({s \in R : s.seq <= r.seq}) = i).call]

\* With the numbers 1..n taken once each, seq rows are numbered up to seq.
LEMMA RankIsSeq ==
    ASSUME NEW R, Numbered(R), NEW r \in R
    PROVE  Cardinality({s \in R : s.seq <= r.seq}) = r.seq
<1> DEFINE S == {s \in R : s.seq <= r.seq}
           f == [s \in S |-> s.seq]
<1>0. Cardinality(R) \in Nat /\ r.seq \in 1..Cardinality(R)
  BY FS_CardinalityType DEF Numbered
<1>1. IsFiniteSet(S)
  BY FS_Subset DEF Numbered
<1>2. f \in Bijection(S, 1..r.seq)
  <2>1. \A s \in S : s \in R /\ s.seq \in 1..r.seq
    BY <1>0 DEF Numbered
  <2>2. f \in Injection(S, 1..r.seq)
    <3>1. f \in [S -> 1..r.seq]
      BY <2>1
    <3>2. \A s, t \in S : f[s] = f[t] => s = t
      BY <2>1 DEF Numbered
    <3> HIDE DEF f, S
    <3> QED BY <3>1, <3>2, Fun_IsInj
  <2>3. f \in Surjection(S, 1..r.seq)
    <3>1. ASSUME NEW i \in 1..r.seq PROVE \E s \in S : f[s] = i
      <4>1. i \in {q.seq : q \in R}
        BY <1>0 DEF Numbered
      <4>2. PICK q \in R : q.seq = i
        BY <4>1
      <4>3. q \in S
        BY <4>2, <1>0
      <4> QED BY <4>2, <4>3
    <3>2. f \in [S -> 1..r.seq]
      BY <2>1
    <3> HIDE DEF f, S
    <3> QED BY <3>1, <3>2, Fun_IsSurj
  <2> QED BY <2>2, <2>3 DEF Bijection
<1>3. Cardinality(1..r.seq) = r.seq /\ IsFiniteSet(1..r.seq)
  <2>1. 1 \in Int /\ r.seq \in Int /\ r.seq >= 1
    BY <1>0
  <2>2. IsFiniteSet(1..r.seq) /\ Cardinality(1..r.seq) = IF 1 > r.seq THEN 0 ELSE r.seq - 1 + 1
    BY <2>1, FS_Interval
  <2> QED BY <2>1, <2>2
<1> HIDE DEF f, S
<1>4. Cardinality(S) = Cardinality(1..r.seq)
  <2>1. ExistsBijection(S, 1..r.seq)
    BY <1>2 DEF ExistsBijection
  <2> QED BY <1>1, <2>1, FS_Bijection
<1> QED BY <1>3, <1>4 DEF S

\* The entry at place i is the one with seq i.
LEMMA SortedBySeq ==
    ASSUME NEW R, Numbered(R)
    PROVE  /\ Sorted(R) \in Seq(Calls)
           /\ Len(Sorted(R)) = Cardinality(R)
           /\ \A r \in R : Sorted(R)[r.seq] = r.call
<1>1. Cardinality(R) \in Nat
  BY FS_CardinalityType DEF Numbered
<1>2. ASSUME NEW r \in R
      PROVE  r.seq \in 1..Cardinality(R) /\ Sorted(R)[r.seq] = r.call
  <2>1. r.seq \in 1..Cardinality(R)
    BY DEF Numbered
  <2>2. \A q \in R : Cardinality({s \in R : s.seq <= q.seq}) = r.seq <=> q = r
    <3>1. \A q \in R : Cardinality({s \in R : s.seq <= q.seq}) = q.seq
      BY RankIsSeq
    <3>2. \A q \in R : q.seq = r.seq => q = r
      BY DEF Numbered
    <3> QED BY <3>1, <3>2
  <2>3. (CHOOSE q \in R : Cardinality({s \in R : s.seq <= q.seq}) = r.seq) = r
    BY <2>2
  <2> QED BY <2>1, <2>3 DEF Sorted
<1>3. ASSUME NEW i \in 1..Cardinality(R) PROVE Sorted(R)[i] \in Calls
  <2>1. PICK r \in R : r.seq = i
    BY <1>3 DEF Numbered
  <2>2. r.call \in Calls
    BY DEF Numbered, Row
  <2> QED BY <1>2, <2>1, <2>2
<1>4. Sorted(R) \in [1..Cardinality(R) -> Calls]
  BY <1>3 DEF Sorted
<1> HIDE DEF Sorted
<1> QED BY <1>1, <1>2, <1>4

\* insert_job_log appends.
LEMMA NextRowIsLast ==
    ASSUME NEW R, Numbered(R), NEW c \in Calls,
           NEW Q, Q = R \cup {[seq |-> Cardinality(R) + 1, call |-> c]}, Numbered(Q)
    PROVE  Sorted(Q) = Append(Sorted(R), c)
<1> DEFINE n == Cardinality(R)
           q == [seq |-> n + 1, call |-> c]
<1>1. n \in Nat
  BY FS_CardinalityType DEF Numbered
<1>2. q \notin R
  <2>1. \A r \in R : r.seq \in 1..n
    BY DEF Numbered
  <2> QED BY <1>1, <2>1
<1>3. Cardinality(Q) = n + 1
  BY <1>2, FS_AddElement DEF Numbered
<1>4. /\ Sorted(R) \in Seq(Calls) /\ Len(Sorted(R)) = n
      /\ Sorted(Q) \in Seq(Calls) /\ Len(Sorted(Q)) = n + 1
  BY <1>3, SortedBySeq
<1>5. Sorted(Q)[n + 1] = c
  <2>1. q \in Q /\ q.seq = n + 1 /\ q.call = c
    OBVIOUS
  <2> HIDE DEF q, n
  <2> QED BY <2>1, SortedBySeq
<1>6. ASSUME NEW i \in 1..n PROVE Sorted(Q)[i] = Sorted(R)[i]
  <2>1. PICK r \in R : r.seq = i
    BY DEF Numbered
  <2>2. r \in Q
    OBVIOUS
  <2> HIDE DEF n
  <2> QED BY <2>1, <2>2, SortedBySeq
<1> HIDE DEF n, q
<1>7. Append(Sorted(R), c) \in Seq(Calls) /\ Len(Append(Sorted(R), c)) = n + 1
  BY <1>4
<1>8. ASSUME NEW i \in 1..(n + 1) PROVE Sorted(Q)[i] = Append(Sorted(R), c)[i]
  <2>1. CASE i = n + 1
    BY <1>4, <1>5, <2>1
  <2>2. CASE i \in 1..n
    <3>1. i \in 1..Len(Sorted(R))
      BY <1>4, <2>2
    <3>2. Append(Sorted(R), c)[i] = Sorted(R)[i]
      BY <1>4, <3>1
    <3> QED BY <1>6, <2>2, <3>2
  <2>3. i = n + 1 \/ i \in 1..n
    BY <1>1
  <2> QED BY <2>1, <2>2, <2>3
<1>9. \A s, t \in Seq(Calls) :
         Len(s) = Len(t) /\ (\A i \in 1..Len(s) : s[i] = t[i]) => s = t
  BY SeqEqual
<1> HIDE DEF Sorted
<1> DEFINE s == Sorted(Q)
           t == Append(Sorted(R), c)
<1>10. /\ s \in Seq(Calls) /\ Len(s) = n + 1
       /\ t \in Seq(Calls) /\ Len(t) = n + 1
       /\ \A i \in 1..(n + 1) : s[i] = t[i]
  BY <1>4, <1>7, <1>8
<1> HIDE DEF s, t
<1>11. s = t
  BY <1>9, <1>10
<1> QED BY <1>11 DEF s, t

\* A step appends an entry, deletes the log, or leaves it as it is.
LEMMA LogStep ==
    LogInv /\ LogInv' /\ [Next]_vars => [Abstract!Next]_<<LogOf, ~job>>
<1> SUFFICES ASSUME LogInv, LogInv', [Next]_vars
             PROVE  [Abstract!Next]_<<LogOf, ~job>>
  OBVIOUS
<1>0. /\ LogOf = Sorted(rows) /\ LogOf' = Sorted(rows')
      /\ Numbered(rows) /\ Numbered(rows')
  BY DEF LogOf, Sorted, Numbered, LogInv, TypeOK, SeqHasNoGap, Seqs
<1>1. ASSUME UNCHANGED <<job, rows>> PROVE UNCHANGED <<LogOf, ~job>>
  BY <1>0, <1>1
<1>2. ASSUME NEW c \in Calls, Insert(c) PROVE [Abstract!Next]_<<LogOf, ~job>>
  <2>1. CASE job /\ call[c].seq \notin Seqs
    <3>1. call[c].seq = Cardinality(rows) + 1
      BY <1>2, <2>1, FS_CardinalityType DEF Insert, LogInv, InTurn, SeqHasNoGap
    <3>2. rows' = rows \cup {[seq |-> Cardinality(rows) + 1, call |-> c]} /\ job' = job
      BY <1>2, <2>1, <3>1 DEF Insert
    <3>3. LogOf' = Append(LogOf, c)
      BY <1>0, <3>2, NextRowIsLast
    <3>4. Abstract!Add(c)
      BY <2>1, <3>2, <3>3 DEF Abstract!Add
    <3> QED BY <3>4 DEF Abstract!Next
  <2>2. CASE ~(job /\ call[c].seq \notin Seqs)
    BY <1>1, <1>2, <2>2 DEF Insert
  <2> QED BY <2>1, <2>2
<1>3. ASSUME DeleteJob PROVE [Abstract!Next]_<<LogOf, ~job>>
  <2>1. job' = FALSE /\ rows' = {}
    BY <1>3 DEF DeleteJob
  <2>2. Len(LogOf') = 0 /\ LogOf' \in Seq(Calls)
    BY <1>0, <2>1, SortedBySeq, FS_EmptySet
  <2>3. LogOf' = <<>>
    BY <2>2
  <2> QED BY <2>1, <2>3 DEF Abstract!Next, Abstract!Delete
<1>4. ASSUME ~ \E c \in Calls : Insert(c), ~DeleteJob
      PROVE  UNCHANGED <<job, rows>>
  BY <1>4 DEF Next, ReadSeq, Fail, Ask, Answer, Take, Drop, vars, logVars
<1> QED BY <1>1, <1>2, <1>3, <1>4

\* An entry committed later has a greater seq than all before it
\* (job_log.py:17), whatever overlaps or fails: the table in the order of seq
\* is a log to which entries are only appended until its job is deleted.
THEOREM TableIsAppendLog == Spec => ImplementsAppendLog
<1>1. Init => Abstract!Init
  <2> SUFFICES ASSUME Init PROVE LogOf = <<>> /\ (~job) = FALSE
    BY DEF Abstract!Init
  <2>1. rows = {} /\ job = TRUE /\ Numbered(rows) /\ LogOf = Sorted(rows)
    BY FS_EmptySet DEF Init, Numbered, LogOf, Sorted
  <2>2. Len(LogOf) = 0 /\ LogOf \in Seq(Calls)
    BY <2>1, SortedBySeq, FS_EmptySet
  <2> QED BY <2>1, <2>2
<1> QED BY <1>1, InitLogInv, LogInvInductive, LogStep, PTL
        DEF Spec, ImplementsAppendLog, Abstract!Spec
=============================================================================
