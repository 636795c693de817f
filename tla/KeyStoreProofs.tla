--------------------------- MODULE KeyStoreProofs ---------------------------
(***************************************************************************)
(* Theorems about KeyStore, for any number of keys and of clients and      *)
(* every bound on the failures.                                            *)
(***************************************************************************)
EXTENDS KeyStore, TLAPS

\* The operations that store a new key, and the places after the admission.
Inserts == {"generate", "create", "create_admin"}
Inside == {"work", "insert", "read", "mark", "commit"}

(* What holds of a request: where its operation may be, what it aims at, a *)
(* new key that no other request aims at, and the rights it got in with.   *)
RequestOk(c) ==
    LET q == req[c] IN
    /\ q.pc = "idle" => q.op = "use" /\ ~q.late /\ ~q.rights
    /\ q.pc = "touch" => q.key \in Keys
    /\ q.pc = "work" => q.op = "use"
    /\ q.pc = "insert" => q.op \in Inserts
    /\ q.pc \in {"read", "mark"} => q.op = "revoke"
    /\ IF q.op = "use" THEN q.target = None ELSE q.target \in Keys
    /\ q.op = "revoke" => row[q.target] # "absent"
    /\ q.op \in Inserts => /\ row[q.target] = "absent"
                           /\ \A d \in Clients \ {c} : req[d].target # q.target
    /\ q.op \in AdminOps /\ q.pc \in Inside => q.rights
    /\ q.late => q.key \in answered /\ q.pc \in {"idle", "look"}

KeyInv ==
    /\ TypeOK
    /\ \A k \in answered : row[k] = "revoked"
    /\ ShownKeyIsStored
    /\ \A c \in Clients : RequestOk(c)

\* A request's record.
Record == [pc : Pcs, op : Ops, key : Keys \cup {None}, target : Keys \cup {None},
           rights : BOOLEAN, late : BOOLEAN]

-----------------------------------------------------------------------------
(* KeyInv is kept.                                                         *)

\* The record of no request.
LEMMA IdleType == Idle \in Record
BY DEF Idle, Record, Pcs, Ops

\* A request that only moves on: nothing is stored, its target stays or is
\* given up, and the rows it holds are of its key or its target.
LEMMA RequestMoves ==
    ASSUME KeyInv, NEW c \in Clients, NEW q \in Record, req' = [req EXCEPT ![c] = q],
           UNCHANGED <<row, admins, expiry, shown, printed, answered>>,
           failures' \in 0..MaxFailures,
           q.target \in {req[c].target, None},
           lock' \in [Keys -> Clients \cup {None}],
           \A k \in Keys : lock'[k] = c => q.pc \in Inside /\ k \in {q.key, q.target},
           \A k \in Keys : lock'[k] \in {lock[k], c, None},
           RequestOk(c)'
    PROVE  KeyInv'
<1>1. /\ req \in [Clients -> Record] /\ req' \in [Clients -> Record] /\ req'[c] = q
      /\ \A d \in Clients \ {c} : req'[d] = req[d]
    BY DEF KeyInv, TypeOK, Record
<1>2. \A k \in Keys : lock'[k] # None =>
          req'[lock'[k]].pc \in Inside /\ k \in {req'[lock'[k]].key, req'[lock'[k]].target}
    BY <1>1, SortAssumption DEF KeyInv, TypeOK, Inside
<1>3. TypeOK'
    BY <1>1, <1>2 DEF KeyInv, TypeOK, Record, Inside
<1>4. ASSUME NEW d \in Clients \ {c} PROVE RequestOk(d)'
    <2>1. RequestOk(d) /\ RequestOk(c) /\ req'[d] = req[d] /\ req[d] \in Record
        BY <1>1 DEF KeyInv
    <2>2. req[d].op \in Inserts => \A e \in Clients \ {d} : req'[e].target # req[d].target
        <3>1. req[d].op \in Inserts => req[d].target \in Keys
            BY <2>1 DEF RequestOk, Inserts
        <3>2. QED
            BY <1>1, <2>1, <3>1, SortAssumption DEF RequestOk
    <2>3. QED
        BY <2>1, <2>2 DEF RequestOk
<1>5. QED
    BY <1>3, <1>4 DEF KeyInv, ShownKeyIsStored

\* A refused request leaves nothing behind.
LEMMA RefuseKeeps ==
    ASSUME KeyInv, NEW c \in Clients, Refuse(c),
           UNCHANGED <<row, admins, expiry, shown, printed, answered>>,
           failures' \in 0..MaxFailures
    PROVE  KeyInv'
<1>1. /\ req' = [req EXCEPT ![c] = Idle] /\ Idle.target = None
      /\ lock' \in [Keys -> Clients \cup {None}]
      /\ \A k \in Keys : lock'[k] # c /\ lock'[k] \in {lock[k], None}
    BY SortAssumption DEF Refuse, Release, KeyInv, TypeOK, Idle
<1>2. RequestOk(c)'
    BY <1>1 DEF RequestOk, Idle, KeyInv, TypeOK, Inside, Inserts, AdminOps
<1>3. QED
    BY <1>1, <1>2, IdleType, RequestMoves

\* A request that moves on to pc with the rights given, and holds what it held.
LEMMA StepKeeps ==
    ASSUME KeyInv, NEW c \in Clients, NEW pc \in Pcs, NEW rights \in BOOLEAN,
           req' = [req EXCEPT ![c].pc = pc, ![c].rights = rights],
           req[c].pc \in {"look", "touch"} \/ pc \in Inside,
           UNCHANGED <<row, admins, expiry, lock, shown, printed, answered>>,
           failures' \in 0..MaxFailures,
           RequestOk(c)'
    PROVE  KeyInv'
<1> DEFINE q == [req[c] EXCEPT !.pc = pc, !.rights = rights]
<1>1. req[c] \in Record
    BY DEF KeyInv, TypeOK, Record
<1>2. /\ q \in Record /\ q.target = req[c].target /\ q.key = req[c].key /\ q.pc = pc
      /\ req' = [req EXCEPT ![c] = q]
    BY <1>1 DEF Record, KeyInv, TypeOK
<1>3. \A k \in Keys : lock[k] = c => req[c].pc \in Inside /\ k \in {q.key, q.target}
    BY <1>2, SortAssumption DEF KeyInv, TypeOK, Inside
<1>4. \A k \in Keys : lock'[k] = c => q.pc \in Inside /\ k \in {q.key, q.target}
    BY <1>2, <1>3 DEF Inside
<1>5. lock' \in [Keys -> Clients \cup {None}] /\ \A k \in Keys : lock'[k] \in {lock[k], c, None}
    BY DEF KeyInv, TypeOK
<1> HIDE DEF q
<1>6. QED
    BY <1>2, <1>4, <1>5, RequestMoves

\* A new request: what it revokes is stored, and what it makes is drawn by no other.
LEMMA BeginKeeps ==
    ASSUME KeyInv, NEW c \in Clients, NEW op \in Ops, NEW k \in Keys \cup {None},
           NEW t \in Keys \cup {None}, Begin(c, op, k, t)
    PROVE  KeyInv'
<1> DEFINE q == [Idle EXCEPT !.op = op, !.key = k, !.target = t, !.late = k \in answered,
                   !.pc = IF op = "generate" THEN "insert" ELSE "look"]
<1>1. q \in Record /\ req' = [req EXCEPT ![c] = q] /\ req[c].pc = "idle" /\ req \in [Clients -> Record]
    <2>1. q \in Record
        <3>1. /\ DOMAIN q = {"pc", "op", "key", "target", "rights", "late"}
              /\ q = [f \in DOMAIN q |-> q[f]]
            BY DEF Idle
        <3>2. q.late \in BOOLEAN /\ q.rights \in BOOLEAN
            BY DEF Idle
        <3>3. q.pc \in Pcs /\ q.op \in Ops /\ q.key \in Keys \cup {None} /\ q.target \in Keys \cup {None}
            BY DEF Idle, Pcs
        <3>4. QED
            BY <3>1, <3>2, <3>3 DEF Record
    <2>2. QED
        BY <2>1 DEF Begin, Record, KeyInv, TypeOK
<1>2. /\ q.op = op /\ q.key = k /\ q.target = t /\ q.late = (k \in answered) /\ ~q.rights
      /\ q.pc = IF op = "generate" THEN "insert" ELSE "look"
    BY DEF Idle
<1> HIDE DEF q
<1>3. /\ UNCHANGED <<row, admins, expiry, lock, shown, printed, answered, failures>>
      /\ req'[c] = q /\ \A d \in Clients \ {c} : req'[d] = req[d]
      /\ req[c].target = None
    BY <1>1 DEF Begin, KeyInv, RequestOk
<1>4. /\ op = "use" => t = None
      /\ op = "revoke" => t \in Keys /\ row[t] # "absent"
      /\ op \in Inserts => t \in Keys /\ row[t] = "absent" /\ \A d \in Clients : req[d].target # t
    BY DEF Begin, Targets, Drawn, Unused, Inserts
<1>5. RequestOk(c)'
    <2>1. /\ q.pc = "insert" => op \in Inserts
          /\ q.pc \notin {"idle", "touch", "work", "read", "mark"}
          /\ op \in AdminOps => q.pc \notin Inside
          /\ q.late => q.key \in answered /\ q.pc = "look"
        <3>1. k \in answered => op # "generate"
            BY SortAssumption DEF Begin, KeyInv, TypeOK
        <3>2. QED
            BY <1>2, <3>1 DEF Inside, Inserts, AdminOps
    <2>2. IF op = "use" THEN t = None ELSE t \in Keys
        BY <1>4 DEF Ops, Inserts
    <2>3. QED
        BY <1>2, <1>3, <1>4, <2>1, <2>2 DEF RequestOk
<1>6. ASSUME NEW d \in Clients \ {c} PROVE RequestOk(d)'
    <2>1. RequestOk(d) /\ req'[d] = req[d] /\ req[d] \in Record
        BY <1>1, <1>3 DEF KeyInv
    <2>2. req[d].op \in Inserts => req[d].target \in Keys /\ req[d].target # t
        BY <2>1, <1>4, SortAssumption DEF RequestOk, Inserts, Ops
    <2>3. QED
        BY <1>2, <1>3, <2>1, <2>2 DEF RequestOk
<1>7. \A l \in Keys : lock[l] # None => lock[l] # c
    BY <1>1, SortAssumption DEF KeyInv, TypeOK
<1>8. TypeOK'
    BY <1>1, <1>3, <1>7 DEF KeyInv, TypeOK, Record
<1>9. QED
    BY <1>3, <1>5, <1>6, <1>8 DEF KeyInv, ShownKeyIsStored

\* A request writes the row of its key or of its target, and holds it from then on.
LEMMA LockKeeps ==
    ASSUME KeyInv, NEW c \in Clients, NEW pc \in Inside, NEW rights \in BOOLEAN, NEW k \in Keys,
           req' = [req EXCEPT ![c].pc = pc, ![c].rights = rights],
           lock' = [lock EXCEPT ![k] = c], k \in {req[c].key, req[c].target},
           UNCHANGED <<row, admins, expiry, shown, printed, answered, failures>>,
           RequestOk(c)'
    PROVE  KeyInv'
<1> DEFINE q == [req[c] EXCEPT !.pc = pc, !.rights = rights]
<1>1. req[c] \in Record /\ pc \in Pcs
    BY DEF KeyInv, TypeOK, Record, Inside, Pcs
<1>2. /\ q \in Record /\ q.target = req[c].target /\ q.key = req[c].key /\ q.pc = pc
      /\ req' = [req EXCEPT ![c] = q]
    BY <1>1 DEF Record, KeyInv, TypeOK
<1> HIDE DEF q
<1>3. /\ lock' \in [Keys -> Clients \cup {None}] /\ failures' \in 0..MaxFailures
      /\ \A l \in Keys : lock'[l] \in {lock[l], c, None}
    BY DEF KeyInv, TypeOK
<1>4. \A l \in Keys : lock'[l] = c => q.pc \in Inside /\ l \in {q.key, q.target}
    BY <1>2, SortAssumption DEF KeyInv, TypeOK
<1>5. QED
    BY <1>2, <1>3, <1>4, RequestMoves

\* A commit stores or revokes the target, and ends the request.
LEMMA CommitKeeps ==
    ASSUME KeyInv, NEW c \in Clients, Commit(c)
    PROVE  KeyInv'
<1> DEFINE op == req[c].op
           t == req[c].target
<1>1. /\ req \in [Clients -> Record] /\ RequestOk(c) /\ req[c].pc = "commit" /\ op \in Ops
      /\ req' = [req EXCEPT ![c] = Idle] /\ req' \in [Clients -> Record]
      /\ req'[c] = Idle /\ \A d \in Clients \ {c} : req'[d] = req[d]
    BY IdleType DEF Commit, KeyInv, TypeOK, Record
<1>2. /\ op = "use" => row' = row
      /\ op = "revoke" => row' = [row EXCEPT ![t] = "revoked"] /\ t \in Keys /\ row[t] # "absent"
      /\ op \in Inserts => row' = [row EXCEPT ![t] = "live"] /\ t \in Keys /\ row[t] = "absent"
    BY <1>1 DEF Commit, RequestOk, Inserts
<1>3. /\ row' \in [Keys -> {"absent", "live", "revoked"}]
      /\ \A k \in Keys : /\ row[k] # "absent" => row'[k] # "absent"
                         /\ row[k] = "revoked" => row'[k] = "revoked"
                         /\ k # t => row'[k] = row[k]
    BY <1>1, <1>2 DEF KeyInv, TypeOK, Ops, Inserts
<1>4. /\ admins' \subseteq {k \in Keys : row'[k] # "absent"}
      /\ expiry' \in [Keys -> {"unset", "ahead", "past"}]
    BY <1>1, <1>2, <1>3 DEF Commit, AdminWhenMade, MayExpire, KeyInv, TypeOK, Inserts
<1>5. answered' \subseteq Keys /\ \A k \in answered' : row'[k] = "revoked"
    BY <1>1, <1>2, <1>3 DEF Commit, KeyInv, TypeOK
<1>6. \A k \in shown' : row'[k] # "absent"
    <2>1. \A k \in shown : row'[k] # "absent"
        BY <1>3 DEF KeyInv, TypeOK, ShownKeyIsStored
    <2>2. op \notin {"use", "revoke"} => t \in Keys /\ row'[t] # "absent"
        BY <1>1, <1>2 DEF KeyInv, TypeOK, Ops, Inserts
    <2>3. QED
        BY <2>1, <2>2 DEF Commit
<1>7. /\ lock' \in [Keys -> Clients \cup {None}] /\ printed' = printed /\ failures' = failures
      /\ \A k \in Keys : lock'[k] # c /\ lock'[k] \in {lock[k], None}
    BY SortAssumption DEF Commit, Release, KeyInv, TypeOK
<1>8. TypeOK'
    <2>1. shown' \cup printed' \subseteq Keys
        BY <1>1, <1>2, <1>7 DEF Commit, KeyInv, TypeOK, Ops, Inserts
    <2>2. QED
        BY <1>1, <1>3, <1>4, <1>5, <1>7, <2>1 DEF KeyInv, TypeOK, Record
<1>9. answered \subseteq answered'
    BY DEF Commit
<1>10. ASSUME NEW d \in Clients PROVE RequestOk(d)'
    <2>1. CASE d = c
        BY <1>1, <2>1 DEF RequestOk, Idle, Inserts, AdminOps, Inside
    <2>2. CASE d # c
        <3>1. RequestOk(d) /\ req'[d] = req[d] /\ req[d] \in Record
            BY <1>1, <2>2 DEF KeyInv
        <3>2. req[d].op = "revoke" => row'[req[d].target] # "absent"
            BY <1>3, <3>1 DEF RequestOk
        <3>3. req[d].op \in Inserts => /\ row'[req[d].target] = "absent"
                                       /\ \A e \in Clients \ {d} : req'[e].target # req[d].target
            <4>1. req[d].op \in Inserts => req[d].target \in Keys /\ req[d].target # t
                BY <2>2, <3>1 DEF RequestOk, Inserts
            <4>2. QED
                BY <1>1, <1>3, <3>1, <4>1, SortAssumption DEF RequestOk, Idle
        <3>4. QED
            BY <1>9, <3>1, <3>2, <3>3 DEF RequestOk
    <2>3. QED
        BY <2>1, <2>2
<1>11. QED
    BY <1>5, <1>6, <1>8, <1>10 DEF KeyInv, ShownKeyIsStored

(* KeyInv holds at the start, and every step keeps it.                     *)
LEMMA KeyInvInductive ==
    /\ Init => KeyInv
    /\ KeyInv /\ [Next]_vars => KeyInv'
<1>1. Init => KeyInv
    BY SortAssumption, IdleType
       DEF Init, KeyInv, TypeOK, ShownKeyIsStored, RequestOk, Idle, Record, Pcs, Ops, Inserts, AdminOps, Inside
<1> SUFFICES ASSUME KeyInv, [Next]_vars PROVE KeyInv'
    BY <1>1
<1>2. failures \in 0..MaxFailures /\ req \in [Clients -> Record] /\ \A c \in Clients : RequestOk(c)
    BY DEF KeyInv, TypeOK, Record
<1>3. ASSUME NEW c \in Clients, Bypass(c) PROVE KeyInv'
    <2>1. CASE Refuse(c)
        BY <1>2, <1>3, <2>1, RefuseKeeps DEF Bypass
    <2>2. CASE ~Refuse(c)
        <3>1. /\ req' = [req EXCEPT ![c].pc = Start(req[c].op), ![c].rights = TRUE]
              /\ UNCHANGED <<row, admins, expiry, lock, shown, printed, answered, failures>>
              /\ req[c].pc = "look" /\ req[c].key = None
            BY <1>3, <2>2 DEF Bypass
        <3>2. Start(req[c].op) \in Inside /\ Start(req[c].op) \in Pcs
            BY DEF Start, Inside, Pcs
        <3>3. RequestOk(c)'
            <4>1. ~req[c].late
                BY <1>2, <3>1, SortAssumption DEF RequestOk, KeyInv, TypeOK
            <4>2. QED
                BY <1>2, <3>1, <4>1 DEF RequestOk, Start, Inside, Record, Ops, Inserts
        <3>4. QED
            BY <1>2, <3>1, <3>2, <3>3, StepKeeps
    <2>3. QED
        BY <2>1, <2>2
<1>4. ASSUME NEW c \in Clients, LookUp(c) PROVE KeyInv'
    <2>1. CASE Refuse(c)
        BY <1>2, <1>4, <2>1, RefuseKeeps DEF LookUp
    <2>2. CASE ~Refuse(c)
        <3>1. /\ req' = [req EXCEPT ![c].pc = "touch"] /\ row[req[c].key] = "live"
              /\ UNCHANGED <<row, admins, expiry, lock, shown, printed, answered, failures>>
              /\ req[c].pc = "look" /\ req[c].key \in Keys
            BY <1>2, <1>4, <2>2 DEF LookUp, Record
        <3>2. req' = [req EXCEPT ![c].pc = "touch", ![c].rights = req[c].rights] /\ "touch" \in Pcs
            BY <1>2, <3>1 DEF Record, Pcs
        <3>3. RequestOk(c)'
            BY <1>2, <3>1 DEF RequestOk, Inside, Record, KeyInv
        <3>4. QED
            BY <1>2, <3>1, <3>2, <3>3, StepKeeps DEF Record
    <2>3. QED
        BY <2>1, <2>2
<1>5. ASSUME NEW c \in Clients, Touch(c) PROVE KeyInv'
    <2>1. CASE Refuse(c)
        BY <1>2, <1>5, <2>1, RefuseKeeps DEF Touch
    <2>2. CASE ~Refuse(c)
        <3> DEFINE k == req[c].key
        <3>1. /\ req' = [req EXCEPT ![c].pc = Start(req[c].op), ![c].rights = k \in admins]
              /\ lock' = [lock EXCEPT ![k] = c]
              /\ UNCHANGED <<row, admins, expiry, shown, printed, answered, failures>>
              /\ req[c].pc = "touch" /\ (req[c].op \in AdminOps => k \in admins) /\ k \in Keys
            BY <1>2, <1>5, <2>2 DEF Touch, RequestOk
        <3>2. Start(req[c].op) \in Inside /\ (k \in admins) \in BOOLEAN
            BY DEF Start, Inside
        <3>3. RequestOk(c)'
            BY <1>2, <3>1 DEF RequestOk, Start, Inside, Record, Ops, Inserts
        <3>4. QED
            BY <3>1, <3>2, <3>3, LockKeeps
    <2>3. QED
        BY <2>1, <2>2
<1>6. ASSUME NEW c \in Clients, NEW pc \in Pcs, req' = [req EXCEPT ![c].pc = pc],
             <<req[c].pc, pc>> \in {<<"touch", "broken">>, <<"work", "commit">>, <<"insert", "commit">>,
                                    <<"read", "mark">>},
             UNCHANGED <<row, admins, expiry, lock, shown, printed, answered>>,
             failures' \in 0..MaxFailures
      PROVE  KeyInv'
    <2>1. /\ req' = [req EXCEPT ![c].pc = pc, ![c].rights = req[c].rights]
          /\ req[c].rights \in BOOLEAN /\ (req[c].pc \in {"look", "touch"} \/ pc \in Inside)
        BY <1>2, <1>6 DEF Record, Inside
    <2>2. RequestOk(c)'
        BY <1>2, <1>6 DEF RequestOk, Inside, Record
    <2>3. QED
        BY <1>6, <2>1, <2>2, StepKeeps
<1>7. ASSUME NEW c \in Clients, TouchFails(c) \/ Work(c) \/ Insert(c) PROVE KeyInv'
    BY <1>2, <1>6, <1>7, SortAssumption DEF TouchFails, Work, Insert, Pcs
<1>8. ASSUME NEW c \in Clients, Broken(c) \/ WorkFails(c) \/ EndDeadlock(c) \/ CommitFails(c) PROVE KeyInv'
    BY <1>2, <1>8, RefuseKeeps, SortAssumption DEF Broken, WorkFails, EndDeadlock, CommitFails
<1>9. ASSUME NEW c \in Clients, CommitEarly(c) PROVE KeyInv'
    <2>1. /\ UNCHANGED <<row, admins, expiry, req, shown, printed, answered, failures>>
          /\ lock' \in [Keys -> Clients \cup {None}] /\ \A k \in Keys : lock'[k] \in {lock[k], None}
        BY <1>9 DEF CommitEarly, Release, KeyInv, TypeOK
    <2>2. QED
        BY <2>1 DEF KeyInv, TypeOK, ShownKeyIsStored, RequestOk
<1>10. ASSUME NEW c \in Clients, ReadTarget(c) PROVE KeyInv'
    BY <1>2, <1>6, <1>10, RefuseKeeps DEF ReadTarget, Pcs
<1>11. ASSUME NEW c \in Clients, Mark(c) PROVE KeyInv'
    <2>1. /\ req' = [req EXCEPT ![c].pc = "commit", ![c].rights = req[c].rights]
          /\ lock' = [lock EXCEPT ![req[c].target] = c] /\ req[c].target \in Keys
          /\ UNCHANGED <<row, admins, expiry, shown, printed, answered, failures>>
          /\ req[c].rights \in BOOLEAN /\ "commit" \in Inside
        BY <1>2, <1>11 DEF Mark, RequestOk, Record, Inside
    <2>2. RequestOk(c)'
        BY <1>2, <1>11 DEF Mark, RequestOk, Inside, Record
    <2>3. QED
        BY <2>1, <2>2, LockKeeps
<1>12. ASSUME NEW k \in Keys, CliCreate(k) PROVE KeyInv'
    BY <1>12 DEF CliCreate, KeyInv, TypeOK, ShownKeyIsStored, RequestOk
<1>13. ASSUME NEW k \in Keys, Expire(k) PROVE KeyInv'
    BY <1>13 DEF Expire, KeyInv, TypeOK, ShownKeyIsStored, RequestOk
<1>14. CASE UNCHANGED vars
    BY <1>14 DEF vars, KeyInv, TypeOK, ShownKeyIsStored, RequestOk
<1>15. QED
    BY <1>3, <1>4, <1>5, <1>7, <1>8, <1>9, <1>10, <1>11, <1>12, <1>13, <1>14, BeginKeeps, CommitKeeps
       DEF Next, Serve

-----------------------------------------------------------------------------
(* Theorems.                                                               *)

(* The tables and requests are well formed, and a row is held only by a    *)
(* request that is under way (core/security.py, core/database.py).         *)
THEOREM KeyStoreTypeCorrect == Spec => []TypeOK
<1>1. KeyInv => TypeOK
    BY DEF KeyInv
<1>2. QED
    BY <1>1, KeyInvInductive, PTL DEF Spec

(* "Revoked keys cannot be re-activated": no commit of a request that had  *)
(* looked the key up brings its row back, and a request that presents the  *)
(* key after the answer is let in nowhere (revoke_api_key, verify_api_key).*)
THEOREM RevocationsHold == Spec => []RevocationHolds
<1>1. KeyInv => RevocationHolds
    BY DEF KeyInv, RequestOk, RevocationHolds
<1>2. QED
    BY <1>1, KeyInvInductive, PTL DEF Spec

(* A raw key in an answer has a row, whichever commits the database        *)
(* refused (create_api_key, generate_api_key_open, get_db).                *)
THEOREM ShownKeysAreStored == Spec => []ShownKeyIsStored
<1>1. KeyInv => ShownKeyIsStored
    BY DEF KeyInv
<1>2. QED
    BY <1>1, KeyInvInductive, PTL DEF Spec

\* Without an admin's key that works, a commit makes no admin and brings no
\* admin's key back: what has an admin operation's rights is under way as admin.
LEMMA CommitMakesNoAdmin ==
    ASSUME KeyInv, NoAdminLeft, NEW c \in Clients, Commit(c)
    PROVE  /\ admins' = admins
           /\ \A k \in admins : (row'[k] = row[k] /\ expiry'[k] = expiry[k]) \/ row'[k] = "revoked"
<1>1. RequestOk(c) /\ req[c].pc = "commit" /\ ~req[c].rights /\ req[c].op \in Ops
    BY DEF Commit, KeyInv, TypeOK, NoAdminLeft
<1>2. req[c].op \in {"use", "generate"}
    BY <1>1 DEF RequestOk, AdminOps, Inside, Ops
<1>3. req[c].op = "generate" => req[c].target \notin admins
    BY <1>1 DEF RequestOk, Inserts, KeyInv, TypeOK
<1>4. QED
    BY <1>2, <1>3 DEF Commit, AdminWhenMade, MayExpire, KeyInv, TypeOK

(* Once keys are stored and no key with the scope admin works, none ever   *)
(* will: generate makes no admin, and the bypass of a fresh installation   *)
(* is closed (require_scope, generate_api_key_open).                       *)
THEOREM AdminsMakeAdmins == Spec => OnlyAdminsMakeAdmins
<1>1. ASSUME KeyInv, NoAdminLeft, [Next]_vars PROVE NoAdminLeft'
    <2>1. req \in [Clients -> Record] /\ req' \in [Clients -> Record] /\ TypeOK /\ TypeOK'
        BY <1>1, KeyInvInductive DEF KeyInv, TypeOK, Record
    <2>2. PICK k0 \in Keys : row[k0] # "absent"
        BY <1>1 DEF NoAdminLeft
    <2>3. ASSUME NEW c \in Clients, UNCHANGED <<row, admins, expiry>>,
                 \A d \in Clients \ {c} : req'[d] = req[d],
                 ~req'[c].rights, req'[c].pc = "touch" => req'[c].key \notin admins
          PROVE  NoAdminLeft'
        BY <1>1, <2>3 DEF NoAdminLeft
    <2>4. ASSUME NEW c \in Clients, req' = [req EXCEPT ![c] = Idle], UNCHANGED <<row, admins, expiry>>
          PROVE  NoAdminLeft'
        BY <2>1, <2>3, <2>4 DEF Idle
    <2>5. ASSUME NEW c \in Clients, NEW op \in Ops, NEW k \in Keys \cup {None}, NEW t \in Keys \cup {None},
                 Begin(c, op, k, t)
          PROVE  NoAdminLeft'
        <3>1. ~req'[c].rights /\ req'[c].pc # "touch"
            BY <2>1, <2>5 DEF Begin, Idle
        <3>2. QED
            BY <2>1, <2>3, <2>5, <3>1 DEF Begin
    <2>6. ASSUME NEW c \in Clients, Bypass(c) PROVE NoAdminLeft'
        BY <2>2, <2>4, <2>6 DEF Bypass, Refuse
    <2>7. ASSUME NEW c \in Clients, LookUp(c) PROVE NoAdminLeft'
        <3>1. CASE Refuse(c)
            BY <2>4, <2>7, <3>1 DEF LookUp, Refuse
        <3>2. CASE ~Refuse(c)
            <4>1. /\ req' = [req EXCEPT ![c].pc = "touch"] /\ UNCHANGED <<row, admins, expiry>>
                  /\ row[req[c].key] = "live" /\ expiry[req[c].key] # "past"
                BY <2>7, <3>2 DEF LookUp
            <4>2. req[c].key \notin admins /\ ~req[c].rights
                BY <1>1, <4>1 DEF NoAdminLeft
            <4>3. QED
                BY <2>1, <2>3, <4>1, <4>2 DEF Record
        <3>3. QED
            BY <3>1, <3>2
    <2>8. ASSUME NEW c \in Clients, Touch(c) PROVE NoAdminLeft'
        <3>1. CASE Refuse(c)
            BY <2>4, <2>8, <3>1 DEF Touch, Refuse
        <3>2. CASE ~Refuse(c)
            <4>1. /\ req' = [req EXCEPT ![c].pc = Start(req[c].op), ![c].rights = req[c].key \in admins]
                  /\ UNCHANGED <<row, admins, expiry>> /\ req[c].pc = "touch"
                BY <2>8, <3>2 DEF Touch
            <4>2. req[c].key \notin admins /\ Start(req[c].op) # "touch"
                BY <1>1, <4>1 DEF NoAdminLeft, Start
            <4>3. QED
                BY <2>1, <2>3, <4>1, <4>2 DEF Record
        <3>3. QED
            BY <3>1, <3>2
    <2>9. ASSUME NEW c \in Clients, NEW pc \in Pcs \ {"touch"}, req' = [req EXCEPT ![c].pc = pc],
                 UNCHANGED <<row, admins, expiry>>
          PROVE  NoAdminLeft'
        BY <1>1, <2>1, <2>3, <2>9 DEF NoAdminLeft, Record
    <2>10. ASSUME NEW c \in Clients, TouchFails(c) \/ Work(c) \/ Insert(c) \/ Mark(c) \/ ReadTarget(c)
           PROVE  NoAdminLeft'
        BY <2>4, <2>9, <2>10 DEF TouchFails, Work, Insert, Mark, ReadTarget, Refuse, Pcs
    <2>11. ASSUME NEW c \in Clients, Broken(c) \/ WorkFails(c) \/ EndDeadlock(c) \/ CommitFails(c)
           PROVE  NoAdminLeft'
        BY <2>4, <2>11 DEF Broken, WorkFails, EndDeadlock, CommitFails, Refuse
    <2>12. ASSUME NEW c \in Clients, Commit(c) PROVE NoAdminLeft'
        <3>1. req' = [req EXCEPT ![c] = Idle]
            BY <2>12 DEF Commit
        <3>2. \E k \in Keys : row'[k] # "absent"
            BY <1>1, <2>1, <2>2, <2>12 DEF Commit, TypeOK
        <3>3. /\ ~req'[c].rights /\ req'[c].pc # "touch"
              /\ \A d \in Clients \ {c} : req'[d] = req[d]
            BY <2>1, <3>1 DEF Idle
        <3>4. QED
            BY <1>1, <2>12, <3>2, <3>3, CommitMakesNoAdmin DEF NoAdminLeft
    <2>13. CASE UNCHANGED <<row, admins, req>> /\ \A k \in Keys : expiry[k] = "past" => expiry'[k] = "past"
        BY <1>1, <2>1, <2>13 DEF NoAdminLeft, TypeOK
    <2>14. CASE UNCHANGED vars \/ \E k \in Keys : CliCreate(k) \/ Expire(k)
        BY <2>1, <2>13, <2>14 DEF CliCreate, Expire, vars, TypeOK
    <2>15. ASSUME NEW c \in Clients, Serve(c) PROVE NoAdminLeft'
        BY <1>1, <2>5, <2>6, <2>7, <2>8, <2>10, <2>11, <2>12, <2>13, <2>15 DEF Serve, CommitEarly, TypeOK
    <2>16. QED
        BY <1>1, <2>5, <2>8, <2>10, <2>14, <2>15 DEF Next
<1>2. QED
    BY <1>1, KeyInvInductive, PTL DEF Spec, OnlyAdminsMakeAdmins
=============================================================================
