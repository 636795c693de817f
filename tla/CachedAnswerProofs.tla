------------------------ MODULE CachedAnswerProofs ------------------------
(***************************************************************************)
(* Answers served from memory.                                             *)
(*                                                                         *)
(* LlmSettings: the answers of the settings page are recent, for any       *)
(* number of clients, any models and any bodies of PATCH.  The invariant   *)
(* says of each request under way what it has gathered so far: the values  *)
(* of its answer, the values it has stored and the row it has loaded were  *)
(* all in force since it began.                                            *)
(*                                                                         *)
(* ResponseCache: what Redis and the browsers hold was committed, for any  *)
(* browsers and endpoints.                                                 *)
(***************************************************************************)
EXTENDS LlmSettings, ResponseCache, TLAPS

Recent(c) ==
    /\ req[c].at = "idle" => req[c].own = NoRow
    /\ \A k \in Stored : req[c].own[k] # None => req[c].own[k] \in seen[c][k]
    /\ req[c].todo["embed"] # None => req[c].todo["embed"] \in seen[c]["embed"]
    /\ req[c].at = "commit" /\ req[c].todo["embed"] = None /\ req[c].found # None =>
          req[c].found \in seen[c]["list"]
    /\ req[c].at \in {"embed", "list", "store"} =>
          /\ req[c].answer.provider \in seen[c]["provider"]
          /\ req[c].answer.model \in seen[c]["model"]
    /\ req[c].at \in {"list", "store"} => req[c].answer.embed \in seen[c]["embed"]
    /\ req[c].at = "store" => req[c].answer.list \in seen[c]["list"]

RecentInv == TypeOK /\ \A c \in Clients : Recent(c)

---------------------------------------------------------------------------
(* Facts about the settings and the history.                               *)

LEMMA InForceTyped ==
    ASSUME NEW o \in [provider : Providers \cup {None}, model : Models \cup {None},
                      embed : Models \cup {None}],
           NEW rw, StoredOK(rw)
    PROVE  /\ Complete(InForce(o, rw))
           /\ \A f \in Fields : InForce(o, rw)[f] \in Values
<1>1. Complete(InForce(o, rw))
  BY SettingsAssumption DEF InForce, Or, StoredOK, Complete, Providers, Values
<1>2. \A f \in Fields : InForce(o, rw)[f] \in Values
  BY <1>1 DEF InForce, Complete, Fields, Values
<1> QED  BY <1>1, <1>2

\* What is left to store is stored under a key that is set.
LEMMA KeyIsSet ==
    ASSUME NEW todo, StoredOK(todo), todo # NoRow
    PROVE  Key(todo) \in Stored /\ todo[Key(todo)] # None
<1>1. todo["embed"] # None \/ todo["list"] # None
  BY DEF StoredOK, NoRow, Stored
<1> QED  BY <1>1 DEF Key, Stored

LEMMA SeenGrows ==
    ASSUME TypeOK, Witness, NEW c \in Clients, req'[c].at # "idle"
    PROVE  \A f \in Fields :
              /\ seen[c][f] \subseteq seen'[c][f]
              /\ InForce(override, row)[f] \in seen'[c][f]
              /\ InForce(override', row')[f] \in seen'[c][f]
  BY DEF Witness, TypeOK

LEMMA SeenTyped ==
    ASSUME TypeOK, Witness, StoredOK(row)',
           override' \in [provider : Providers \cup {None}, model : Models \cup {None},
                          embed : Models \cup {None}]
    PROVE  seen' \in [Clients -> [Fields -> SUBSET Values]]
<1>1. \A f \in Fields : InForce(override, row)[f] \in Values /\ InForce(override', row')[f]
   \in Values
  BY InForceTyped DEF TypeOK
<1> QED  BY <1>1 DEF Witness, TypeOK, Nothing

---------------------------------------------------------------------------
(* Type correctness.                                                       *)

\* The part of TypeOK that is about requests, for a request that changes.
RequestOK(r) ==
    /\ r \in Requests
    /\ StoredOK(r.todo) /\ StoredOK(r.own)
    /\ r.at \in {"load", "commit"} <=> r.todo # NoRow
    /\ Gathered(r.at, r.answer)

LEMMA IdleOK == RequestOK(Idle)
  BY DEF RequestOK, Gathered, Requests, Idle, NoRow, NoAnswer, StoredOK, Stored, Fields,
     Values, Places

LEMMA StartsTyped == Init => TypeOK
  BY IdleOK DEF Init, TypeOK, NoOverride, NoRow, Nothing, RequestOK, StoredOK, Stored, Values

LEMMA OneRequestChanges ==
    ASSUME TypeOK, NEW c \in Clients, NEW r, RequestOK(r), req' = [req EXCEPT ![c] = r]
    PROVE  /\ req' \in [Clients -> Requests]
           /\ \A d \in Clients : RequestOK(req'[d])
  BY DEF TypeOK, RequestOK

LEMMA TypeStep == TypeOK /\ [Next]_vars => TypeOK'
<1> SUFFICES ASSUME TypeOK, [Next]_vars PROVE TypeOK'
  OBVIOUS
<1> DEFINE SettingsOK ==
      /\ override \in [provider : Providers \cup {None}, model : Models \cup {None},
                       embed : Models \cup {None}]
      /\ StoredOK(row)
      /\ cache # None => cache \in [Fields -> Values] /\ Complete(cache)
<1> DEFINE RequestsOK == req \in [Clients -> Requests] /\ \A c \in Clients : RequestOK(req[c])
<1>1. SettingsOK /\ RequestsOK
  BY DEF TypeOK, RequestOK
<1>2. CASE UNCHANGED vars
  BY <1>2 DEF vars, TypeOK, StoredOK, Complete
<1>3. ASSUME SettingsOK', RequestsOK', Witness PROVE TypeOK'
  <2>1. seen' \in [Clients -> [Fields -> SUBSET Values]]
    BY <1>3, SeenTyped
  <2> QED  BY <1>3, <2>1 DEF TypeOK, RequestOK
<1>4. ASSUME NEW c \in Clients, GetStart(c) PROVE TypeOK'
  <2> DEFINE r == [req[c] EXCEPT !.at = "lookup"]
  <2>1. RequestOK(r) /\ req' = [req EXCEPT ![c] = r]
    BY <1>1, <1>4 DEF GetStart, RequestOK, Gathered, Requests, Places
  <2>2. RequestsOK'
    BY <2>1, OneRequestChanges
  <2>3. SettingsOK'
    BY <1>1, <1>4 DEF GetStart, settings
  <2> QED  BY <1>3, <2>2, <2>3, <1>4 DEF GetStart
<1>5. ASSUME NEW c \in Clients, NEW b \in Bodies, PatchStart(c, b) PROVE TypeOK'
  <2> DEFINE todo == [k \in Stored |-> b[k]]
             r == [Idle EXCEPT !.todo = todo, !.at = IF todo = NoRow THEN "drop" ELSE "load"]
  <2>1. StoredOK(todo)
    BY SettingsAssumption DEF StoredOK, Stored, Values
  <2>2. RequestOK(r)
    BY <2>1, IdleOK DEF RequestOK, Gathered, Requests, Places, Idle, StoredOK
  <2>3. req' = [req EXCEPT ![c] = r]
    BY <1>5 DEF PatchStart
  <2>4. RequestsOK'
    BY <2>2, <2>3, OneRequestChanges
  <2>5. SettingsOK'
    BY <1>1, <1>5, SettingsAssumption DEF PatchStart, Or
  <2> QED  BY <1>3, <2>4, <2>5, <1>5 DEF PatchStart
<1>6. ASSUME NEW c \in Clients, LoadRow(c) PROVE TypeOK'
  <2> DEFINE r == [req[c] EXCEPT !.found = row[Key(req[c].todo)], !.at = "commit"]
  <2>1. row[Key(req[c].todo)] \in Values
    BY <1>1 DEF StoredOK, Key, Stored
  <2>2. RequestOK(r) /\ req' = [req EXCEPT ![c] = r]
    BY <1>1, <1>6, <2>1 DEF LoadRow, RequestOK, Gathered, Requests, Places
  <2>3. RequestsOK'
    BY <2>2, OneRequestChanges
  <2>4. SettingsOK'
    BY <1>1, <1>6 DEF LoadRow, settings
  <2> QED  BY <1>3, <2>3, <2>4, <1>6 DEF LoadRow
<1>7. ASSUME NEW c \in Clients, CommitRow(c) PROVE TypeOK'
  <2> DEFINE k == Key(req[c].todo)
             todo == [req[c].todo EXCEPT ![k] = None]
             own == [req[c].own EXCEPT ![k] = req[c].todo[k]]
             r == [req[c] EXCEPT !.todo = todo, !.own = own, !.found = None,
                                 !.at = IF todo = NoRow THEN "drop" ELSE "load"]
  <2>1. k \in Stored /\ StoredOK(req[c].todo) /\ StoredOK(req[c].own)
    BY <1>1 DEF Key, Stored, RequestOK
  <2>2. StoredOK(todo) /\ StoredOK(own)
    BY <2>1 DEF StoredOK, Stored, Values
  <2>3. req' = [req EXCEPT ![c] = r]
    BY <1>1, <1>7 DEF CommitRow, Stores, Requests
  <2>4. RequestOK(r)
    <3>1. todo \in [Stored -> Values] /\ own \in [Stored -> Values] /\ None \in Values
      BY <2>2 DEF StoredOK, Values
    <3>2. r \in Requests
      <4> DEFINE old == req[c]
                 at == IF todo = NoRow THEN "drop" ELSE "load"
      <4>1. old \in Requests /\ at \in Places
        BY <1>1 DEF Places
      <4>2. r = [old EXCEPT !.todo = todo, !.own = own, !.found = None, !.at = at]
        OBVIOUS
      <4> HIDE DEF old, at, todo, own, r
      <4> QED  BY <3>1, <4>1, <4>2 DEF Requests
    <3> QED  BY <2>2, <3>2 DEF RequestOK, Gathered, Requests
  <2>5. RequestsOK'
    BY <2>3, <2>4, OneRequestChanges
  <2>6. StoredOK(row)'
    BY <1>1, <1>7, <2>1 DEF CommitRow, StoredOK, Stored
  <2>7. SettingsOK'
    BY <1>1, <1>7, <2>6 DEF CommitRow
  <2> QED  BY <1>3, <2>5, <2>7, <1>7 DEF CommitRow
<1>8. ASSUME NEW c \in Clients, CommitFails(c) \/ LookupHit(c) \/ StoreAnswer(c) PROVE TypeOK'
  <2>1. req' = [req EXCEPT ![c] = Idle] /\ Witness
    BY <1>8 DEF CommitFails, LookupHit, StoreAnswer
  <2>2. RequestsOK'
    BY <2>1, IdleOK, OneRequestChanges
  <2>3. SettingsOK'
    <3>1. CASE cache' = cache
      BY <1>1, <1>8, <3>1 DEF CommitFails, LookupHit, StoreAnswer, settings
    <3>2. CASE StoreAnswer(c) /\ cache' = req[c].answer
      BY <1>1, <3>2 DEF StoreAnswer, settings, RequestOK, Gathered, Requests, Complete
    <3> QED  BY <1>8, <3>1, <3>2 DEF CommitFails, LookupHit, StoreAnswer
  <2> QED  BY <1>3, <2>1, <2>2, <2>3
<1>9. ASSUME NEW c \in Clients, DropAnswer(c) PROVE TypeOK'
  <2> DEFINE r == [req[c] EXCEPT !.at = "lookup"]
  <2>1. RequestOK(r) /\ req' = [req EXCEPT ![c] = r]
    BY <1>1, <1>9 DEF DropAnswer, RequestOK, Gathered, Requests, Places
  <2>2. RequestsOK'
    BY <2>1, OneRequestChanges
  <2>3. SettingsOK'
    BY <1>1, <1>9 DEF DropAnswer, settings
  <2> QED  BY <1>3, <2>2, <2>3, <1>9 DEF DropAnswer
<1>10. ASSUME NEW c \in Clients, LookupMiss(c) PROVE TypeOK'
  <2> DEFINE now == InForce(override, row)
             answer == [req[c].answer EXCEPT !.provider = now.provider, !.model = now.model]
             r == [req[c] EXCEPT !.answer = answer, !.at = "embed"]
  <2>1. /\ now.provider \in Providers /\ now.model \in Models
        /\ now.provider \in Values /\ now.model \in Values
    BY <1>1, InForceTyped DEF Fields, Complete
  <2>2. answer \in [Fields -> Values]
    BY <1>1, <2>1 DEF RequestOK, Requests, Fields
  <2>3. req' = [req EXCEPT ![c] = r]
    BY <1>1, <1>10 DEF LookupMiss, Requests
  <2>4. RequestOK(r)
    BY <1>1, <1>10, <2>1, <2>2 DEF LookupMiss, RequestOK, Gathered, Requests, Places
  <2>5. RequestsOK'
    BY <2>3, <2>4, OneRequestChanges
  <2>6. SettingsOK'
    BY <1>1, <1>10 DEF LookupMiss, settings
  <2> QED  BY <1>3, <2>5, <2>6, <1>10 DEF LookupMiss
<1>11. ASSUME NEW c \in Clients, ReadEmbed(c) PROVE TypeOK'
  <2> DEFINE embed == Or(override.embed, Or(Row(c, "embed"), ConfigModel))
             answer == [req[c].answer EXCEPT !.embed = embed]
             r == [req[c] EXCEPT !.answer = answer, !.at = "list"]
  <2>1. embed \in Models
    BY <1>1, SettingsAssumption DEF Or, Row, StoredOK, RequestOK
  <2>2. answer \in [Fields -> Values]
    BY <1>1, <2>1 DEF RequestOK, Requests, Fields, Values
  <2>3. req' = [req EXCEPT ![c] = r]
    BY <1>1, <1>11 DEF ReadEmbed, Requests
  <2>4. RequestOK(r)
    BY <1>1, <1>11, <2>1, <2>2 DEF ReadEmbed, RequestOK, Gathered, Requests, Places, Fields
  <2>5. RequestsOK'
    BY <2>3, <2>4, OneRequestChanges
  <2>6. SettingsOK'
    BY <1>1, <1>11 DEF ReadEmbed, settings
  <2> QED  BY <1>3, <2>5, <2>6, <1>11 DEF ReadEmbed
<1>12. ASSUME NEW c \in Clients, ReadList(c) PROVE TypeOK'
  <2> DEFINE list == Row(c, "list")
             answer == [req[c].answer EXCEPT !.list = list]
             r == [req[c] EXCEPT !.answer = answer, !.at = "store"]
  <2>1. list \in Lists \cup {None}
    BY <1>1 DEF Or, Row, StoredOK, RequestOK
  <2>2. answer \in [Fields -> Values]
    BY <1>1, <2>1 DEF RequestOK, Requests, Fields, Values
  <2>3. req' = [req EXCEPT ![c] = r]
    BY <1>1, <1>12 DEF ReadList, Requests
  <2>4. RequestOK(r)
    BY <1>1, <1>12, <2>1, <2>2 DEF ReadList, RequestOK, Gathered, Requests, Places, Fields
  <2>5. RequestsOK'
    BY <2>3, <2>4, OneRequestChanges
  <2>6. SettingsOK'
    BY <1>1, <1>12 DEF ReadList, settings
  <2> QED  BY <1>3, <2>5, <2>6, <1>12 DEF ReadList
<1>13. ASSUME Expire PROVE TypeOK'
  <2>1. SettingsOK' /\ RequestsOK'
    BY <1>1, <1>13 DEF Expire, settings
  <2> QED  BY <1>3, <2>1, <1>13 DEF Expire
<1>14. ASSUME Restart PROVE TypeOK'
  <2>1. RequestsOK'
    BY <1>14, IdleOK DEF Restart, RequestOK
  <2>2. SettingsOK'
    BY <1>1, <1>14 DEF Restart, NoOverride
  <2> QED  BY <1>3, <2>1, <2>2, <1>14 DEF Restart
<1> QED
  BY <1>2, <1>4, <1>5, <1>6, <1>7, <1>8, <1>9, <1>10, <1>11, <1>12, <1>13, <1>14
  DEF Next, Handle

---------------------------------------------------------------------------
(* Recency.                                                                *)

\* A request that a step leaves alone, or ends.
LEMMA OthersStayRecent ==
    ASSUME TypeOK, Witness, NEW c \in Clients, Recent(c),
           req'[c] = req[c] \/ req'[c] = Idle
    PROVE  Recent(c)'
<1>1. CASE req'[c] = Idle
  BY <1>1 DEF Recent, Idle, NoRow, Stored
<1>2. CASE req'[c] = req[c] /\ req[c].at # "idle"
  <2>1. \A f \in Fields : seen[c][f] \subseteq seen'[c][f]
    BY <1>2, SeenGrows
  <2>2. Stored \subseteq Fields /\ {"provider", "model"} \subseteq Fields
    BY DEF Stored, Fields
  <2> QED  BY <1>2, <2>1, <2>2 DEF Recent, Stored
<1>3. CASE req'[c] = req[c] /\ req[c].at = "idle"
  <2>1. seen'[c] = Nothing /\ req[c].todo = NoRow
    BY <1>3 DEF Witness, TypeOK
  <2> QED  BY <1>3, <2>1 DEF Recent, NoRow, Stored, Nothing
<1> QED  BY <1>1, <1>2, <1>3

LEMMA RecentStep == RecentInv /\ [Next]_vars => RecentInv'
<1> SUFFICES ASSUME RecentInv, [Next]_vars PROVE \A c \in Clients : Recent(c)'
  BY TypeStep DEF RecentInv
<1>1. TypeOK /\ TypeOK' /\ \A c \in Clients : Recent(c)
  BY TypeStep DEF RecentInv
<1>2. CASE UNCHANGED vars
  BY <1>1, <1>2 DEF vars, Recent
\* One request changes, and it is the one to look at.
<1>3. ASSUME NEW c \in Clients, Witness, Recent(c)',
             \A d \in Clients \ {c} : req'[d] = req[d]
      PROVE  \A d \in Clients : Recent(d)'
  BY <1>1, <1>3, OthersStayRecent
\* What the request may add to what it knows.
<1>4. ASSUME NEW c \in Clients, Witness, req'[c].at # "idle"
      PROVE  \A f \in Fields :
                /\ seen[c][f] \subseteq seen'[c][f]
                /\ InForce(override, row)[f] \in seen'[c][f]
                /\ InForce(override', row')[f] \in seen'[c][f]
  BY <1>1, <1>4, SeenGrows
<1>5. ASSUME NEW c \in Clients, GetStart(c) PROVE \A d \in Clients : Recent(d)'
  <2>1. req'[c] = [req[c] EXCEPT !.at = "lookup"] /\ Witness
    BY <1>1, <1>5 DEF GetStart, TypeOK
  <2>2. req[c].own = NoRow /\ req[c].todo = NoRow
    BY <1>1, <1>5 DEF GetStart, Recent, TypeOK
  <2>3. Recent(c)'
    BY <1>1, <2>1, <2>2 DEF Recent, TypeOK, Requests, NoRow, Stored
  <2> QED  BY <1>1, <1>3, <1>5, <2>1, <2>3 DEF GetStart, TypeOK
<1>6. ASSUME NEW c \in Clients, NEW b \in Bodies, PatchStart(c, b)
      PROVE  \A d \in Clients : Recent(d)'
  <2> DEFINE todo == [k \in Stored |-> b[k]]
  <2>1. /\ req'[c].todo = todo /\ req'[c].own = NoRow
        /\ req'[c].at \in {"drop", "load"} /\ Witness
    BY <1>1, <1>6 DEF PatchStart, TypeOK, Idle
  <2>2. todo["embed"] # None => InForce(override', row')["embed"] = todo["embed"]
    BY <1>1, <1>6 DEF PatchStart, InForce, Or, TypeOK, Stored
  <2>3. Recent(c)'
    BY <1>4, <2>1, <2>2 DEF Recent, NoRow, Stored, Fields
  <2> QED  BY <1>1, <1>3, <1>6, <2>1, <2>3 DEF PatchStart, TypeOK
<1>7. ASSUME NEW c \in Clients, LoadRow(c) PROVE \A d \in Clients : Recent(d)'
  <2> DEFINE k == Key(req[c].todo)
  <2>1. req'[c] = [req[c] EXCEPT !.found = row[k], !.at = "commit"] /\ Witness
    BY <1>1, <1>7 DEF LoadRow, TypeOK
  <2>2. /\ req'[c].todo = req[c].todo /\ req'[c].own = req[c].own
        /\ req'[c].found = row[k] /\ req'[c].at = "commit"
    BY <1>1, <2>1 DEF TypeOK, Requests
  <2>3. req[c].todo["embed"] = None => row[k] \in seen'[c]["list"]
    <3>1. InForce(override, row)["list"] = row["list"]
      BY DEF InForce
    <3> QED  BY <1>4, <2>1, <2>2, <3>1 DEF Key, Fields
  <2>4. \A f \in Fields : seen[c][f] \subseteq seen'[c][f]
    BY <1>4, <2>1, <2>2
  <2>5. Recent(c)'
    BY <1>1, <2>2, <2>3, <2>4 DEF Recent, Stored, Fields
  <2> QED  BY <1>1, <1>3, <1>7, <2>1, <2>5 DEF LoadRow, TypeOK
<1>8. ASSUME NEW c \in Clients, CommitRow(c) PROVE \A d \in Clients : Recent(d)'
  <2> DEFINE k == Key(req[c].todo)
             new == req[c].todo[k]
  <2>1. /\ req'[c].todo = [req[c].todo EXCEPT ![k] = None]
        /\ req'[c].own = [req[c].own EXCEPT ![k] = new]
        /\ req'[c].at \in {"drop", "load"} /\ Witness
    BY <1>1, <1>8 DEF CommitRow, Stores, TypeOK, Requests
  <2>2. \A f \in Fields : seen[c][f] \subseteq seen'[c][f]
    BY <1>4, <2>1
  <2>3. k \in Stored /\ new # None
    BY <1>1, <1>8, KeyIsSet DEF CommitRow, TypeOK
  <2>4. new \in seen'[c][k]
    <3>1. CASE req[c].todo["embed"] # None
      BY <1>1, <2>2, <3>1 DEF Recent, Key, Fields
    <3>2. CASE req[c].todo["embed"] = None /\ new = req[c].found
      BY <1>1, <1>8, <2>2, <2>3, <3>2 DEF Recent, Key, Fields, CommitRow
    <3>3. CASE req[c].todo["embed"] = None /\ new # req[c].found
      <4>1. k = "list" /\ row'["list"] = new
        BY <1>1, <1>8, <3>3 DEF CommitRow, Key, TypeOK, StoredOK, Stored
      <4>2. InForce(override', row')["list"] = new
        BY <4>1 DEF InForce
      <4> QED  BY <1>4, <2>1, <4>1, <4>2 DEF Fields
    <3> QED  BY <3>1, <3>2, <3>3
  <2>5. /\ req[c].todo \in [Stored -> Values] /\ req[c].own \in [Stored -> Values]
        /\ Stored \subseteq Fields /\ k \in {"embed", "list"}
    BY <1>1, <2>3 DEF TypeOK, StoredOK, Stored, Fields
  <2>6. Recent(c)'
    BY <1>1, <2>1, <2>2, <2>3, <2>4, <2>5 DEF Recent, Stored
  <2> QED  BY <1>1, <1>3, <1>8, <2>1, <2>6 DEF CommitRow, Stores, TypeOK
<1>9. ASSUME NEW c \in Clients, CommitFails(c) \/ LookupHit(c) \/ StoreAnswer(c)
      PROVE  \A d \in Clients : Recent(d)'
  <2>1. Witness /\ req' = [req EXCEPT ![c] = Idle]
    BY <1>9 DEF CommitFails, LookupHit, StoreAnswer
  <2> QED  BY <1>1, <2>1, OthersStayRecent DEF TypeOK
<1>10. ASSUME NEW c \in Clients, DropAnswer(c) PROVE \A d \in Clients : Recent(d)'
  <2>1. /\ req'[c].todo = req[c].todo /\ req'[c].own = req[c].own
        /\ req'[c].at = "lookup" /\ Witness
    BY <1>1, <1>10 DEF DropAnswer, TypeOK, Requests
  <2>2. Recent(c)'
    BY <1>1, <1>4, <2>1 DEF Recent, Stored, Fields
  <2> QED  BY <1>1, <1>3, <1>10, <2>1, <2>2 DEF DropAnswer, TypeOK
<1>11. ASSUME NEW c \in Clients, LookupMiss(c) PROVE \A d \in Clients : Recent(d)'
  <2> DEFINE old == req[c]
             provider == InForce(override, row)["provider"]
             model == InForce(override, row)["model"]
             answer == [old.answer EXCEPT !.provider = provider, !.model = model]
  <2>0. req \in [Clients -> Requests] /\ old \in Requests /\ old.answer \in [Fields -> Values]
    BY <1>1 DEF TypeOK, Requests
  <2>3. req' = [req EXCEPT ![c] = [old EXCEPT !.answer = answer, !.at = "embed"]] /\ Witness
    BY <2>0, <1>11 DEF LookupMiss, Requests
  <2>4. answer["provider"] = provider /\ answer["model"] = model
    <3> HIDE DEF provider, model, old
    <3> QED  BY <2>0 DEF Fields
  <2>5. /\ req'[c].todo = old.todo /\ req'[c].own = old.own
        /\ req'[c].answer = answer /\ req'[c].at = "embed"
    <3> HIDE DEF answer, provider, model
    <3> QED  BY <2>0, <2>3 DEF Requests
  <2>1. /\ req'[c].todo = req[c].todo /\ req'[c].own = req[c].own
        /\ req'[c].answer.provider = InForce(override, row)["provider"]
        /\ req'[c].answer.model = InForce(override, row)["model"]
        /\ req'[c].at = "embed" /\ Witness
    BY <2>3, <2>4, <2>5
  <2>2. Recent(c)'
    BY <1>1, <1>4, <2>1 DEF Recent, Stored, Fields
  <2> QED  BY <1>1, <1>3, <1>11, <2>1, <2>2 DEF LookupMiss, TypeOK
<1>12. ASSUME NEW c \in Clients, ReadEmbed(c) PROVE \A d \in Clients : Recent(d)'
  <2>1. /\ req'[c].todo = req[c].todo /\ req'[c].own = req[c].own
        /\ req'[c].answer.provider = req[c].answer.provider
        /\ req'[c].answer.model = req[c].answer.model
        /\ req'[c].answer.embed = Or(override.embed, Or(Row(c, "embed"), ConfigModel))
        /\ req[c].at = "embed" /\ req'[c].at = "list" /\ Witness
    BY <1>1, <1>12 DEF ReadEmbed, TypeOK, Requests, Fields
  <2>2. \/ req'[c].answer.embed = InForce(override, row)["embed"]
        \/ req[c].own["embed"] # None /\ req'[c].answer.embed = req[c].own["embed"]
    BY <2>1 DEF InForce, Or, Row
  <2>3. req'[c].answer.embed \in seen'[c]["embed"]
    BY <1>1, <1>4, <2>1, <2>2 DEF Recent, Stored, Fields
  <2>4. Recent(c)'
    BY <1>1, <1>4, <2>1, <2>3 DEF Recent, Stored, Fields
  <2> QED  BY <1>1, <1>3, <1>12, <2>1, <2>4 DEF ReadEmbed, TypeOK
<1>13. ASSUME NEW c \in Clients, ReadList(c) PROVE \A d \in Clients : Recent(d)'
  <2>1. /\ req'[c].todo = req[c].todo /\ req'[c].own = req[c].own
        /\ req'[c].answer.provider = req[c].answer.provider
        /\ req'[c].answer.model = req[c].answer.model
        /\ req'[c].answer.embed = req[c].answer.embed
        /\ req'[c].answer.list = Row(c, "list")
        /\ req[c].at = "list" /\ req'[c].at = "store" /\ Witness
    BY <1>1, <1>13 DEF ReadList, TypeOK, Requests, Fields
  <2>2. \/ req'[c].answer.list = InForce(override, row)["list"]
        \/ req[c].own["list"] # None /\ req'[c].answer.list = req[c].own["list"]
    BY <2>1 DEF InForce, Or, Row
  <2>3. req'[c].answer.list \in seen'[c]["list"]
    BY <1>1, <1>4, <2>1, <2>2 DEF Recent, Stored, Fields
  <2>4. Recent(c)'
    BY <1>1, <1>4, <2>1, <2>3 DEF Recent, Stored, Fields
  <2> QED  BY <1>1, <1>3, <1>13, <2>1, <2>4 DEF ReadList, TypeOK
<1>14. ASSUME Expire \/ Restart PROVE \A d \in Clients : Recent(d)'
  BY <1>1, <1>14, OthersStayRecent DEF Expire, Restart, TypeOK
<1> QED
  BY <1>2, <1>5, <1>6, <1>7, <1>8, <1>9, <1>10, <1>11, <1>12, <1>13, <1>14
  DEF Next, Handle

---------------------------------------------------------------------------

\* Every variable of the settings stays in its type, whatever the clients ask.
THEOREM SettingsTypeCorrect == Spec => []TypeOK
  BY StartsTyped, TypeStep, PTL DEF Spec

\* AnswerIsRecent: whatever other requests change between the reads of
\* get_llm_settings, each field of an answer it puts together was in force at
\* some moment since the request began.
THEOREM AnswersAreRecent == Spec => []AnswerIsRecent
<1>1. Init => RecentInv
  BY StartsTyped DEF Init, RecentInv, Recent, Idle, NoRow, Stored
<1>2. RecentInv => AnswerIsRecent
  BY DEF RecentInv, Recent, AnswerIsRecent, Fields
<1>3. QED
  BY <1>1, <1>2, RecentStep, PTL DEF Spec

---------------------------------------------------------------------------
(* The caches of the API's answers.                                        *)

\* What is held was committed, and the tables of the caches are well formed.
CacheInv == CacheTypeOK /\ AnswersAreCommitted

\* Only a commit moves a version, and it moves it up.
LEMMA VersionsGrow ==
    ASSUME CacheTypeOK, [CacheNext]_cacheVars
    PROVE  \A e \in Endpoints : version'[e] \in Nat /\ version[e] <= version'[e]
<1>1. ASSUME NEW b \in Browsers, Commit(b)
      PROVE  \A e \in Endpoints : version'[e] \in Nat /\ version[e] <= version'[e]
  BY <1>1 DEF Commit, CacheTypeOK
<1>2. CASE UNCHANGED version
  BY <1>2 DEF CacheTypeOK
<1> QED
  BY <1>1, <1>2 DEF CacheNext, cacheVars, GetStep, ChangeStep,
     Ask, ServeFromRedis, ReadRows, Respond, Receive, GetFails, ExpireLocal, Drop,
     Abort, Acknowledge, LoseAnswer, Request, ExpireRedis

\* What CacheTypeOK says of the changes under way.
ChangeOK(f) ==
    /\ f \in [Browsers -> [kind : Changes \cup {"none"}, dropped : BOOLEAN, committed : BOOLEAN]]
    /\ \A b \in Browsers : f[b].kind = "none" => f[b] = Quiet

\* A change of one browser moves, or ends.
LEMMA ChangeStaysOK ==
    ASSUME ChangeOK(change), NEW b \in Browsers,
           change' \in [Browsers -> [kind : Changes \cup {"none"},
                                     dropped : BOOLEAN, committed : BOOLEAN]],
           \A d \in Browsers : d # b => change'[d] = change[d],
           change'[b].kind # "none" \/ change'[b] = Quiet
    PROVE  ChangeOK(change')
BY DEF ChangeOK

\* One step per action.
LEMMA CacheInvInductive ==
    ASSUME CacheInv, [CacheNext]_cacheVars
    PROVE  CacheInv'
<1> SUFFICES CacheTypeOK' /\ AnswersAreCommitted'
  BY DEF CacheInv
<1> CacheTypeOK /\ AnswersAreCommitted
  BY DEF CacheInv
<1> USE DEF CacheTypeOK, AnswersAreCommitted, Held, Absent
<1>1. ASSUME NEW b \in Browsers, NEW e \in Endpoints, Ask(b, e)
      PROVE  CacheTypeOK' /\ AnswersAreCommitted'
  BY <1>1 DEF Ask
<1>2. ASSUME NEW b \in Browsers, NEW e \in Endpoints, ServeFromRedis(b, e)
      PROVE  CacheTypeOK' /\ AnswersAreCommitted'
  BY <1>2 DEF ServeFromRedis
<1>3. ASSUME NEW b \in Browsers, NEW e \in Endpoints, ReadRows(b, e)
      PROVE  CacheTypeOK' /\ AnswersAreCommitted'
  BY <1>3 DEF ReadRows
<1>4. ASSUME NEW b \in Browsers, NEW e \in Endpoints, Respond(b, e)
      PROVE  CacheTypeOK' /\ AnswersAreCommitted'
  BY <1>4 DEF Respond
<1>5. ASSUME NEW b \in Browsers, NEW e \in Endpoints, Receive(b, e)
      PROVE  CacheTypeOK' /\ AnswersAreCommitted'
  BY <1>5 DEF Receive, NoGet
<1>6. ASSUME NEW b \in Browsers, NEW e \in Endpoints, GetFails(b, e)
      PROVE  CacheTypeOK' /\ AnswersAreCommitted'
  BY <1>6 DEF GetFails, NoGet
<1>7. ASSUME NEW b \in Browsers, NEW e \in Endpoints, ExpireLocal(b, e)
      PROVE  CacheTypeOK' /\ AnswersAreCommitted'
  BY <1>7 DEF ExpireLocal
<1>8. ASSUME NEW b \in Browsers, NEW kind \in Changes, Request(b, kind)
      PROVE  CacheTypeOK' /\ AnswersAreCommitted'
  <2>1. UNCHANGED <<version, redis, local, get>>
    BY <1>8 DEF Request
  <2>2. ChangeOK(change')
    <3>1. /\ change' \in [Browsers -> [kind : Changes \cup {"none"},
                                       dropped : BOOLEAN, committed : BOOLEAN]]
          /\ \A d \in Browsers : d # b => change'[d] = change[d]
          /\ change'[b].kind = kind
      BY <1>8 DEF Request
    <3>2. kind # "none"
      BY ChangesAssumption
    <3> QED BY <3>1, <3>2, ChangeStaysOK DEF ChangeOK
  <2> QED BY <2>1, <2>2 DEF ChangeOK
<1>9. ASSUME NEW b \in Browsers, Drop(b)
      PROVE  CacheTypeOK' /\ AnswersAreCommitted'
  <2>1. UNCHANGED <<version, local, get>>
    BY <1>9 DEF Drop
  <2>2. ChangeOK(change')
    <3>1. /\ change' \in [Browsers -> [kind : Changes \cup {"none"},
                                       dropped : BOOLEAN, committed : BOOLEAN]]
          /\ \A d \in Browsers : d # b => change'[d] = change[d]
          /\ change'[b].kind # "none"
      BY <1>9 DEF Drop
    <3> QED BY <3>1, ChangeStaysOK DEF ChangeOK
  <2>3. /\ redis' \in [Endpoints -> Held]
        /\ \A e \in Endpoints : redis'[e] \in {Absent, redis[e]}
    BY <1>9 DEF Drop
  <2> QED BY <2>1, <2>2, <2>3 DEF ChangeOK
<1>10. ASSUME NEW b \in Browsers, Commit(b)
      PROVE  CacheTypeOK' /\ AnswersAreCommitted'
  <2>1. UNCHANGED <<redis, local, get>>
    BY <1>10 DEF Commit
  <2>2. ChangeOK(change')
    <3>1. /\ change' \in [Browsers -> [kind : Changes \cup {"none"},
                                       dropped : BOOLEAN, committed : BOOLEAN]]
          /\ \A d \in Browsers : d # b => change'[d] = change[d]
          /\ change'[b].kind # "none"
      BY <1>10 DEF Commit
    <3> QED BY <3>1, ChangeStaysOK DEF ChangeOK
  <2>3. version' \in [Endpoints -> Nat]
    BY <1>10 DEF Commit
  <2>4. \A e \in Endpoints : version'[e] \in Nat /\ version[e] <= version'[e]
    BY VersionsGrow
  <2>5. CacheTypeOK'
    BY <2>1, <2>2, <2>3 DEF ChangeOK
  <2>6. ASSUME NEW e \in Endpoints
        PROVE  /\ redis'[e] <= version'[e]
               /\ \A d \in Browsers : local'[<<d, e>>] <= version'[e]
                                     /\ get'[<<d, e>>].version <= version'[e]
    <3>1. redis[e] \in Int /\ redis[e] <= version[e] /\ version[e] \in Int
      OBVIOUS
    <3>2. \A d \in Browsers :
            /\ local[<<d, e>>] \in Int /\ local[<<d, e>>] <= version[e]
            /\ get[<<d, e>>].version \in Int /\ get[<<d, e>>].version <= version[e]
      OBVIOUS
    <3> HIDE DEF CacheTypeOK, AnswersAreCommitted
    <3> QED BY <2>1, <2>4, <3>1, <3>2
  <2> QED BY <2>5, <2>6
<1>11. ASSUME NEW b \in Browsers, Abort(b)
      PROVE  CacheTypeOK' /\ AnswersAreCommitted'
  BY <1>11 DEF Abort, Quiet
<1>12. ASSUME NEW b \in Browsers, Acknowledge(b)
      PROVE  CacheTypeOK' /\ AnswersAreCommitted'
  <2>1. change' = [change EXCEPT ![b] = Quiet] /\ UNCHANGED <<version, redis, get>>
    BY <1>12 DEF Acknowledge
  <2>2. ChangeOK(change')
    BY <2>1, ChangeStaysOK DEF ChangeOK, Quiet
  <2>3. /\ local' \in [Browsers \X Endpoints -> Held]
        /\ \A x \in Browsers \X Endpoints : local'[x] \in {Absent, local[x]}
    BY <1>12 DEF Acknowledge
  <2>4. CacheTypeOK'
    BY <2>1, <2>2, <2>3 DEF ChangeOK
  <2> QED BY <2>1, <2>3, <2>4
<1>13. ASSUME NEW b \in Browsers, LoseAnswer(b)
      PROVE  CacheTypeOK' /\ AnswersAreCommitted'
  BY <1>13 DEF LoseAnswer, Quiet
<1>14. ASSUME NEW e \in Endpoints, ExpireRedis(e)
      PROVE  CacheTypeOK' /\ AnswersAreCommitted'
  BY <1>14 DEF ExpireRedis
<1>15. CASE UNCHANGED cacheVars
  BY <1>15 DEF cacheVars
<1> HIDE DEF CacheTypeOK, AnswersAreCommitted
<1> QED
  BY <1>1, <1>2, <1>3, <1>4, <1>5, <1>6, <1>7, <1>8, <1>9, <1>10, <1>11, <1>12, <1>13,
     <1>14, <1>15 DEF CacheNext, GetStep, ChangeStep

\* Handlers drop entries from Redis before their commit
\* (core/database.py:57): still no cache and no answer ever shows a change
\* that was rolled back, whatever else is requested meanwhile.
THEOREM CachesHoldCommittedAnswers == CacheSpec => [](CacheTypeOK /\ AnswersAreCommitted)
<1>1. CacheInit => CacheInv
  BY DEF CacheInit, CacheInv, CacheTypeOK, AnswersAreCommitted, NoGet, Quiet, Held, Absent
<1>2. CacheInv => CacheTypeOK /\ AnswersAreCommitted
  BY DEF CacheInv
<1>3. CacheInv /\ [CacheNext]_cacheVars => CacheInv'
  BY CacheInvInductive
<1> QED BY <1>1, <1>2, <1>3, PTL DEF CacheSpec

===========================================================================
