------------------------------ MODULE KeyStore ------------------------------
(***************************************************************************)
(* API keys: how a request is let in (core/security.py), how keys are made *)
(* and revoked (api/v1/admin.py, the api-keys commands of cli.py), and the *)
(* transaction all this shares with the handler (core/database.py).        *)
(*                                                                         *)
(* verify_api_key writes last_used_at in the request's own transaction, so *)
(* a request holds the row of the key it presents until it ends.           *)
(***************************************************************************)
EXTENDS Integers, FiniteSets

CONSTANTS
    Keys,         \* the keys that may ever be drawn
    Clients,      \* each with one request at a time
    None,         \* no key, nobody
    Development,  \* ALM_ENV is development
    MaxFailures   \* bound: statements and commits the database refuses

ASSUME SortAssumption ==
    None \notin Keys \cup Clients /\ Development \in BOOLEAN /\ MaxFailures \in Nat

VARIABLES
    row,       \* of each key: what is committed of it
    admins,    \* the keys stored with the scope admin
    expiry,    \* of each key: expires_at is unset, ahead or past
    lock,      \* of each row: the request whose transaction has written it
    req,       \* of each client: its request
    shown,     \* the keys whose raw value the API has given out
    printed,   \* the keys the command line has printed
    answered,  \* the keys whose revocation has been answered
    failures

vars == <<row, admins, expiry, lock, req, shown, printed, answered, failures>>

\* key: the key presented; target: the key the handler makes or revokes;
\* rights: it acts as an admin; late: it began after key's revocation was answered.
Idle == [pc |-> "idle", op |-> "use", key |-> None, target |-> None,
         rights |-> FALSE, late |-> FALSE]

Ops == {"use", "generate", "create", "create_admin", "revoke"}

\* The endpoints behind require_scope("admin").
AdminOps == {"create", "create_admin", "revoke"}

Init ==
    /\ row = [k \in Keys |-> "absent"]
    /\ admins = {}
    /\ expiry = [k \in Keys |-> "unset"]
    /\ lock = [k \in Keys |-> None]
    /\ req = [c \in Clients |-> Idle]
    /\ shown = {}
    /\ printed = {}
    /\ answered = {}
    /\ failures = 0

---------------------------------------------------------------------------
(* A request's transaction.                                                *)

Release(c) == [k \in Keys |-> IF lock[k] = c THEN None ELSE lock[k]]

\* Variant of Refuse: get_db leaves the transaction of a refused request open.
RefuseKeepsLocks(c) ==
    /\ req' = [req EXCEPT ![c] = Idle]
    /\ lock' = lock

\* An exception reaches get_db: everything the request has written is undone.
Refuse(c) ==
    /\ req' = [req EXCEPT ![c] = Idle]
    /\ lock' = Release(c)

Free(c, k) == lock[k] \in {None, c}

\* The row the request's next statement writes.
Wanted(c) ==
    CASE req[c].pc = "touch" -> req[c].key
      [] req[c].pc = "mark" -> req[c].target
      [] OTHER -> None

Blocked(c) == Wanted(c) # None /\ ~Free(c, Wanted(c))

\* PostgreSQL finds requests that wait for each other and ends one of them.
Deadlocked(c) ==
    \E S \in SUBSET Clients :
        /\ c \in S
        /\ \A d \in S : Blocked(d) /\ lock[Wanted(d)] \in S
        /\ \A d \in S : \E e \in S : lock[Wanted(e)] = d

---------------------------------------------------------------------------
(* Letting a request in: get_current_api_key, require_scope.               *)

\* A key not drawn yet, whose id no open transaction uses.
Unused(k) ==
    row[k] = "absent" /\ k \notin shown \cup printed /\ \A d \in Clients : req[d].target # k

\* The next key drawn.
Drawn == {k \in Keys : Unused(k) /\ k = CHOOSE l \in Keys : Unused(l)}

\* The targets of an operation: a key to be drawn, or one to be revoked.
Targets(op) ==
    CASE op = "use" -> {None}
      [] op = "revoke" -> {k \in Keys : row[k] # "absent"}
      [] OTHER -> Drawn

\* generate asks for no key; the others present one that was given out, or none.
Begin(c, op, k, t) ==
    /\ req[c].pc = "idle"
    /\ t \in Targets(op)
    /\ IF op = "generate" THEN k = None ELSE k \in shown \cup printed \cup {None}
    /\ req' = [req EXCEPT ![c] = [Idle EXCEPT !.op = op, !.key = k, !.target = t,
                  !.late = k \in answered,
                  !.pc = IF op = "generate" THEN "insert" ELSE "look"]]
    /\ UNCHANGED <<row, admins, expiry, lock, shown, printed, answered, failures>>

\* Where the handler of an operation begins.
Start(op) == IF op = "use" THEN "work" ELSE IF op = "revoke" THEN "read" ELSE "insert"

\* No key: let in while no key is stored, in development only.
Bypass(c) ==
    /\ req[c].pc = "look" /\ req[c].key = None
    /\ IF Development /\ \A k \in Keys : row[k] = "absent"
       THEN /\ req' = [req EXCEPT ![c].pc = Start(req[c].op), ![c].rights = TRUE]
            /\ UNCHANGED lock
       ELSE Refuse(c)
    /\ UNCHANGED <<row, admins, expiry, shown, printed, answered, failures>>

\* verify_api_key: the key must be stored, not revoked and not expired.
LookUp(c) ==
    LET k == req[c].key
    IN /\ req[c].pc = "look" /\ k # None
       /\ IF row[k] = "live" /\ expiry[k] # "past"
          THEN req' = [req EXCEPT ![c].pc = "touch"] /\ UNCHANGED lock
          ELSE Refuse(c)
       /\ UNCHANGED <<row, admins, expiry, shown, printed, answered, failures>>

\* last_used_at is written, which waits while another request holds the row.
\* What counts then is the row as LookUp read it; the scopes are checked at once.
Touch(c) ==
    LET k == req[c].key
    IN /\ req[c].pc = "touch" /\ Free(c, k)
       /\ IF req[c].op \in AdminOps /\ k \notin admins
          THEN Refuse(c)
          ELSE /\ lock' = [lock EXCEPT ![k] = c]
               /\ req' = [req EXCEPT ![c].pc = Start(req[c].op), ![c].rights = k \in admins]
       /\ UNCHANGED <<row, admins, expiry, shown, printed, answered, failures>>

\* The error is swallowed, but leaves a session that refuses the next statement.
TouchFails(c) ==
    /\ req[c].pc = "touch" /\ failures < MaxFailures
    /\ failures' = failures + 1
    /\ req' = [req EXCEPT ![c].pc = "broken"]
    /\ UNCHANGED <<row, admins, expiry, lock, shown, printed, answered>>

Broken(c) ==
    /\ req[c].pc = "broken"
    /\ Refuse(c)
    /\ UNCHANGED <<row, admins, expiry, shown, printed, answered, failures>>

---------------------------------------------------------------------------
(* Handlers.                                                               *)

\* Any other endpoint: some commit before they are done, and go on without
\* the lock.
CommitEarly(c) ==
    /\ req[c].pc = "work" /\ \E k \in Keys : lock[k] = c
    /\ lock' = Release(c)
    /\ UNCHANGED <<row, admins, expiry, req, shown, printed, answered, failures>>

Work(c) ==
    /\ req[c].pc = "work"
    /\ req' = [req EXCEPT ![c].pc = "commit"]
    /\ UNCHANGED <<row, admins, expiry, lock, shown, printed, answered, failures>>

WorkFails(c) ==
    /\ req[c].pc = "work"
    /\ Refuse(c)
    /\ UNCHANGED <<row, admins, expiry, shown, printed, answered, failures>>

\* Variant of Insert: the key is given out before get_db commits its row.
InsertShows(c) ==
    /\ req[c].pc = "insert"
    /\ req' = [req EXCEPT ![c].pc = "commit"]
    /\ shown' = shown \cup {req[c].target}
    /\ UNCHANGED <<row, admins, expiry, lock, printed, answered, failures>>

\* create_api_key, generate_api_key_open: the row is written, not committed.
Insert(c) ==
    /\ req[c].pc = "insert"
    /\ req' = [req EXCEPT ![c].pc = "commit"]
    /\ UNCHANGED <<row, admins, expiry, lock, shown, printed, answered, failures>>

\* revoke_api_key: the row as committed; a key already revoked is a conflict.
ReadTarget(c) ==
    /\ req[c].pc = "read"
    /\ IF row[req[c].target] = "revoked"
       THEN Refuse(c)
       ELSE req' = [req EXCEPT ![c].pc = "mark"] /\ UNCHANGED lock
    /\ UNCHANGED <<row, admins, expiry, shown, printed, answered, failures>>

Mark(c) ==
    /\ req[c].pc = "mark" /\ Free(c, req[c].target)
    /\ lock' = [lock EXCEPT ![req[c].target] = c]
    /\ req' = [req EXCEPT ![c].pc = "commit"]
    /\ UNCHANGED <<row, admins, expiry, shown, printed, answered, failures>>

\* One of two admins that revoke each other's key is ended by the database.
EndDeadlock(c) ==
    /\ Deadlocked(c)
    /\ Refuse(c)
    /\ UNCHANGED <<row, admins, expiry, shown, printed, answered, failures>>

\* Variant of AdminWhenMade: a generated key has every scope.
AdminWhenMadeOrGenerated(op) == op \in {"create_admin", "generate"}

\* generate makes keys with read and write.
AdminWhenMade(op) == op = "create_admin"

\* A key an admin makes may have expires_at, which need not pass soon.
MayExpire(op) == op \in {"create", "create_admin"}

\* Variant of Commit: the row of the key that was presented is written whole,
\* as it was when it was looked up.
CommitWholeRow(c) ==
    LET op == req[c].op
        t == req[c].target
    IN /\ req[c].pc = "commit"
       /\ row' = [k \in Keys |->
              IF k = t THEN IF op = "revoke" THEN "revoked" ELSE "live"
              ELSE IF k = req[c].key THEN "live" ELSE row[k]]
       /\ admins' = IF AdminWhenMade(op) THEN admins \cup {t} ELSE admins
       /\ expiry' = IF MayExpire(op) THEN [expiry EXCEPT ![t] = "ahead"] ELSE expiry
       /\ shown' = IF op \in {"use", "revoke"} THEN shown ELSE shown \cup {t}
       /\ answered' = IF op = "revoke" THEN answered \cup {t} ELSE answered
       /\ lock' = Release(c)
       /\ req' = [req EXCEPT ![c] = Idle]
       /\ UNCHANGED <<printed, failures>>

\* get_db commits, then the answer is sent: with the raw key when one was made.
Commit(c) ==
    LET op == req[c].op
        t == req[c].target
    IN /\ req[c].pc = "commit"
       /\ row' = IF op = "use" THEN row
                 ELSE [row EXCEPT ![t] = IF op = "revoke" THEN "revoked" ELSE "live"]
       /\ admins' = IF AdminWhenMade(op) THEN admins \cup {t} ELSE admins
       /\ expiry' = IF MayExpire(op) THEN [expiry EXCEPT ![t] = "ahead"] ELSE expiry
       /\ shown' = IF op \in {"use", "revoke"} THEN shown ELSE shown \cup {t}
       /\ answered' = IF op = "revoke" THEN answered \cup {t} ELSE answered
       /\ lock' = Release(c)
       /\ req' = [req EXCEPT ![c] = Idle]
       /\ UNCHANGED <<printed, failures>>

CommitFails(c) ==
    /\ req[c].pc = "commit" /\ failures < MaxFailures
    /\ failures' = failures + 1
    /\ Refuse(c)
    /\ UNCHANGED <<row, admins, expiry, shown, printed, answered>>

\* alm api-keys create: the row is written in a session that closes without a
\* commit, then the key is printed.
CliCreate(k) ==
    /\ k \in Drawn
    /\ printed' = printed \cup {k}
    /\ UNCHANGED <<row, admins, expiry, lock, req, shown, answered, failures>>

\* A key runs out.
Expire(k) ==
    /\ expiry[k] = "ahead"
    /\ expiry' = [expiry EXCEPT ![k] = "past"]
    /\ UNCHANGED <<row, admins, lock, req, shown, printed, answered, failures>>

---------------------------------------------------------------------------
\* A request that has begun.
Serve(c) ==
    \/ Bypass(c) \/ LookUp(c) \/ TouchFails(c) \/ Broken(c)
    \/ CommitEarly(c) \/ Work(c) \/ WorkFails(c) \/ Insert(c)
    \/ ReadTarget(c) \/ EndDeadlock(c) \/ Commit(c) \/ CommitFails(c)

Next ==
    \/ \E c \in Clients, op \in Ops, k \in Keys \cup {None}, t \in Keys \cup {None} : Begin(c, op, k, t)
    \/ \E c \in Clients : Serve(c) \/ Touch(c) \/ Mark(c)
    \/ \E k \in Keys : CliCreate(k) \/ Expire(k)

Spec == Init /\ [][Next]_vars

\* A request goes on until it ends; those that wait for a row get it in turn.
FairSpec ==
    /\ Spec
    /\ \A c \in Clients : WF_vars(Serve(c)) /\ SF_vars(Touch(c)) /\ SF_vars(Mark(c))

---------------------------------------------------------------------------
(* Properties.                                                             *)

Pcs == {"idle", "look", "touch", "broken", "work", "insert", "read", "mark", "commit"}

\* Each variable holds what it is meant to hold; a row is held only by a
\* request that is under way, and only for the key it presents or revokes.
TypeOK ==
    /\ row \in [Keys -> {"absent", "live", "revoked"}]
    /\ admins \subseteq {k \in Keys : row[k] # "absent"}
    /\ expiry \in [Keys -> {"unset", "ahead", "past"}]
    /\ shown \cup printed \cup answered \subseteq Keys
    /\ lock \in [Keys -> Clients \cup {None}]
    /\ req \in [Clients -> [pc : Pcs, op : Ops, key : Keys \cup {None},
                            target : Keys \cup {None}, rights : BOOLEAN, late : BOOLEAN]]
    /\ \A k \in Keys : lock[k] # None =>
           /\ req[lock[k]].pc \in {"work", "insert", "read", "mark", "commit"}
           /\ k \in {req[lock[k]].key, req[lock[k]].target}
    /\ failures \in 0..MaxFailures

\* "Revoked keys cannot be re-activated": a revocation that was answered holds
\* although requests that had looked the key up before go on to write its row,
\* and nobody who presents the key after the answer reaches a handler.
\* revoke_api_key, verify_api_key.
RevocationHolds ==
    /\ \A k \in answered : row[k] = "revoked"
    /\ \A c \in Clients : req[c].late => req[c].pc \in {"idle", "look"}

\* "Store it securely now": the key in an answer is stored, whatever the
\* database refuses between the insert and the answer.  create_api_key,
\* generate_api_key_open, get_db.
ShownKeyIsStored == \A k \in shown : row[k] # "absent"

\* Once keys are stored, only an admin makes an admin: without a key with the
\* scope admin, and without a request let in as admin before, none will come,
\* however often generate is called.  An installation whose first key was
\* generated stays without admin.
NoAdminLeft ==
    /\ \E k \in Keys : row[k] # "absent"
    /\ \A k \in admins : row[k] = "revoked" \/ expiry[k] = "past"
    /\ \A c \in Clients : ~req[c].rights /\ (req[c].pc = "touch" => req[c].key \notin admins)
OnlyAdminsMakeAdmins == [][NoAdminLeft => NoAdminLeft']_vars

\* Every request ends: requests with one key wait for each other, admins that
\* revoke each other's keys wait in a circle, and requests are refused while
\* they hold a row.
EveryRequestEnds == \A c \in Clients : req[c].pc # "idle" ~> req[c].pc = "idle"

=============================================================================
