--------------------------- MODULE ResponseCache ---------------------------
(***************************************************************************)
(* The answers a browser shows are cached twice: by the API in Redis       *)
(* (core/cache.py and the read endpoints), and by the browser              *)
(* (frontend/src/api/client.ts).  A change drops what it outdates from     *)
(* both: in Redis inside its handler, before or after get_db's commit; in  *)
(* the browser that made it when its answer arrives.  What an endpoint     *)
(* returns is abstracted to the number of committed changes it shows.      *)
(***************************************************************************)
EXTENDS Integers

CONSTANTS
    Browsers,
    Endpoints,   \* the read endpoints considered
    Changes,     \* the changing endpoints considered
    MaxVersion   \* bound: committed changes of an endpoint

ASSUME EndpointsAssumption == Endpoints \subseteq {"plan", "tasks", "patches", "smells", "jobs"}
ASSUME ChangesAssumption ==
    Changes \subseteq {"update_task", "regenerate", "apply", "generate", "dismiss", "submit",
                "submit_url", "stop"}
ASSUME BoundAssumption == MaxVersion \in Nat

Absent == -1
Quiet == [kind |-> "none", dropped |-> FALSE, committed |-> FALSE]
NoGet == [at |-> "none", version |-> 0]

VARIABLES
    version,  \* of each endpoint: committed changes of what it shows
    redis,    \* of each endpoint: the version in Redis, or Absent
    local,    \* of each browser and endpoint: the version it holds, or Absent
    get,      \* of each browser and endpoint: its GET under way
    change    \* of each browser: its changing request under way

cacheVars == <<version, redis, local, get, change>>

Held == {Absent} \cup Nat

CacheTypeOK ==
    /\ version \in [Endpoints -> Nat]
    /\ redis \in [Endpoints -> Held]
    /\ local \in [Browsers \X Endpoints -> Held]
    /\ get \in [Browsers \X Endpoints ->
                 [at : {"none", "asked", "read", "answered"}, version : Nat]]
    /\ change \in [Browsers -> [kind : Changes \cup {"none"},
                                dropped : BOOLEAN, committed : BOOLEAN]]
    /\ \A b \in Browsers : change[b].kind = "none" => change[b] = Quiet

CacheInit ==
    /\ version = [e \in Endpoints |-> 0]
    /\ redis = [e \in Endpoints |-> Absent]
    /\ local = [x \in Browsers \X Endpoints |-> Absent]
    /\ get = [x \in Browsers \X Endpoints |-> NoGet]
    /\ change = [b \in Browsers |-> Quiet]

---------------------------------------------------------------------------
(* What each change outdates, and whether its handler commits before it    *)
(* drops entries from Redis.                                               *)

Outdates(kind) ==
    Endpoints \cap
      CASE kind \in {"update_task", "regenerate"} -> {"plan", "tasks"}
        [] kind = "generate" -> {"patches", "jobs"}
        [] kind = "apply" -> {"patches"}
        [] kind = "dismiss" -> {"smells"}
        [] kind \in {"submit", "submit_url", "stop"} -> {"jobs"}
        [] OTHER -> {}

CommitsFirst(kind) == kind \in {"generate", "stop"}

\* The entries whose key contains the URL of the change, with or without its
\* last segment: /plan/j/tasks/t holds /plan/j/tasks but not /plan/j, and of
\* /analyze nothing is left, which every key contains.
Busts(kind) ==
    Endpoints \cap
      CASE kind = "update_task" -> {"tasks"}
        [] kind = "regenerate" -> {"plan", "tasks"}
        [] kind = "generate" -> {"patches"}
        [] kind = "submit" -> Endpoints
        [] OTHER -> {}

\* CACHEABLE_PREFIXES: the browser does not keep the list of jobs.
Cacheable(e) == e # "jobs"

---------------------------------------------------------------------------
(* A GET.                                                                  *)

\* The browser has nothing; what it holds is shown without a request.
Ask(b, e) ==
    /\ get[<<b, e>>] = NoGet
    /\ local[<<b, e>>] = Absent
    /\ get' = [get EXCEPT ![<<b, e>>] = [at |-> "asked", version |-> 0]]
    /\ UNCHANGED <<version, redis, local, change>>

ServeFromRedis(b, e) ==
    /\ get[<<b, e>>].at = "asked"
    /\ redis[e] # Absent
    /\ get' = [get EXCEPT ![<<b, e>>] = [at |-> "answered", version |-> redis[e]]]
    /\ UNCHANGED <<version, redis, local, change>>

\* A miss, or Redis cannot be reached: the committed rows are read.
ReadRows(b, e) ==
    /\ get[<<b, e>>].at = "asked"
    /\ get' = [get EXCEPT ![<<b, e>>] = [at |-> "read", version |-> version[e]]]
    /\ UNCHANGED <<version, redis, local, change>>

\* cache_set, which fails in silence.
Respond(b, e) ==
    /\ get[<<b, e>>].at = "read"
    /\ redis' \in {redis, [redis EXCEPT ![e] = get[<<b, e>>].version]}
    /\ get' = [get EXCEPT ![<<b, e>>].at = "answered"]
    /\ UNCHANGED <<version, local, change>>

\* The response interceptor keeps the answer unless there is one.
Receive(b, e) ==
    /\ get[<<b, e>>].at = "answered"
    /\ local' = IF Cacheable(e) /\ local[<<b, e>>] = Absent
                THEN [local EXCEPT ![<<b, e>>] = get[<<b, e>>].version]
                ELSE local
    /\ get' = [get EXCEPT ![<<b, e>>] = NoGet]
    /\ UNCHANGED <<version, redis, change>>

GetFails(b, e) ==
    /\ get[<<b, e>>] # NoGet
    /\ get' = [get EXCEPT ![<<b, e>>] = NoGet]
    /\ UNCHANGED <<version, redis, local, change>>

---------------------------------------------------------------------------
(* A change.                                                               *)

\* The request reaches its handler and the change is flushed.
Request(b, kind) ==
    /\ change[b] = Quiet
    /\ \A e \in Outdates(kind) : version[e] < MaxVersion
    /\ change' = [change EXCEPT ![b].kind = kind]
    /\ UNCHANGED <<version, redis, local, get>>

\* Variant of Drop: the new answer is put in Redis instead.
DropWritesThrough(b) ==
    /\ change[b].kind # "none"
    /\ ~change[b].dropped
    /\ change[b].committed = CommitsFirst(change[b].kind)
    /\ redis' = [e \in Endpoints |->
                   IF e \in Outdates(change[b].kind)
                   THEN version[e] + (IF change[b].committed THEN 0 ELSE 1)
                   ELSE redis[e]]
    /\ change' = [change EXCEPT ![b].dropped = TRUE]
    /\ UNCHANGED <<version, local, get>>

\* cache_invalidate of every key of the endpoints outdated; it fails in
\* silence, and some of the keys may stay.
Drop(b) ==
    /\ change[b].kind # "none"
    /\ ~change[b].dropped
    /\ change[b].committed = CommitsFirst(change[b].kind)
    /\ \E gone \in SUBSET Outdates(change[b].kind) :
          redis' = [e \in Endpoints |-> IF e \in gone THEN Absent ELSE redis[e]]
    /\ change' = [change EXCEPT ![b].dropped = TRUE]
    /\ UNCHANGED <<version, local, get>>

Commit(b) ==
    /\ change[b].kind # "none"
    /\ ~change[b].committed
    /\ change[b].dropped # CommitsFirst(change[b].kind)
    /\ version' = [e \in Endpoints |->
                     version[e] + (IF e \in Outdates(change[b].kind) THEN 1 ELSE 0)]
    /\ change' = [change EXCEPT ![b].committed = TRUE]
    /\ UNCHANGED <<redis, local, get>>

\* The handler or the commit fails; get_db rolls back.
Abort(b) ==
    /\ change[b].kind # "none"
    /\ ~change[b].committed
    /\ change' = [change EXCEPT ![b] = Quiet]
    /\ UNCHANGED <<version, redis, local, get>>

\* The answer arrives and the browser drops entries of its own.
Acknowledge(b) ==
    /\ change[b].committed /\ change[b].dropped
    /\ local' = [x \in Browsers \X Endpoints |->
                   IF x[1] = b /\ x[2] \in Busts(change[b].kind) THEN Absent ELSE local[x]]
    /\ change' = [change EXCEPT ![b] = Quiet]
    /\ UNCHANGED <<version, redis, get>>

\* The answer is lost: nothing is dropped in the browser.
LoseAnswer(b) ==
    /\ change[b].committed /\ change[b].dropped
    /\ change' = [change EXCEPT ![b] = Quiet]
    /\ UNCHANGED <<version, redis, local, get>>

---------------------------------------------------------------------------
(* Entries age.                                                            *)

\* Variant of ExpireRedis: cache_set gives no expiry.
ExpireNever(e) == FALSE /\ UNCHANGED cacheVars

ExpireRedis(e) ==
    /\ redis[e] # Absent
    /\ redis' = [redis EXCEPT ![e] = Absent]
    /\ UNCHANGED <<version, local, get, change>>

\* GET_CACHE_TTL_MS has passed, or the page is loaded anew.
ExpireLocal(b, e) ==
    /\ local[<<b, e>>] # Absent
    /\ local' = [local EXCEPT ![<<b, e>>] = Absent]
    /\ UNCHANGED <<version, redis, get, change>>

GetStep(b, e) ==
    Ask(b, e) \/ ServeFromRedis(b, e) \/ ReadRows(b, e) \/ Respond(b, e)
    \/ Receive(b, e) \/ GetFails(b, e) \/ ExpireLocal(b, e)

ChangeStep(b) == Drop(b) \/ Commit(b) \/ Abort(b) \/ Acknowledge(b) \/ LoseAnswer(b)

CacheNext ==
    \/ \E b \in Browsers, e \in Endpoints : GetStep(b, e)
    \/ \E b \in Browsers : ChangeStep(b) \/ \E kind \in Changes : Request(b, kind)
    \/ \E e \in Endpoints : ExpireRedis(e)

CacheSpec == CacheInit /\ [][CacheNext]_cacheVars

\* Requests end (the client gives up after its timeout) and entries expire.
Fairness ==
    /\ \A b \in Browsers, e \in Endpoints :
          /\ WF_cacheVars(ServeFromRedis(b, e) \/ ReadRows(b, e) \/ Respond(b, e)
                            \/ Receive(b, e) \/ GetFails(b, e))
          /\ WF_cacheVars(ExpireLocal(b, e))
    /\ \A b \in Browsers : WF_cacheVars(ChangeStep(b))
    /\ \A e \in Endpoints : WF_cacheVars(ExpireRedis(e))

FairCacheSpec == CacheSpec /\ Fairness

---------------------------------------------------------------------------
(* Properties.                                                             *)

\* Handlers drop entries while their change is only flushed, and may still
\* be rolled back (core/database.py:57): no answer, in Redis, under way or
\* in a browser, shows a change that was not committed.
AnswersAreCommitted ==
    \A e \in Endpoints :
        /\ redis[e] <= version[e]
        /\ \A b \in Browsers :
              local[<<b, e>>] <= version[e] /\ get[<<b, e>>].version <= version[e]

Outdated(e) ==
    \/ redis[e] \notin {Absent, version[e]}
    \/ \E b \in Browsers : local[<<b, e>>] \notin {Absent, version[e]}

\* Reads overtake invalidations and invalidations fail (core/cache.py:63),
\* so that both caches may hold an answer that is out of date; once changes
\* stop, it disappears from both.
StalenessEnds == \A e \in Endpoints : <>[]~Outdated(e)

=============================================================================
