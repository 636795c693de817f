---------------------------- MODULE LlmSettings ----------------------------
(***************************************************************************)
(* Which language model the settings page shows and which one is used: GET *)
(* and PATCH /settings/llm (app/api/v1/settings.py), the override in the   *)
(* memory of the API process and the choice of a provider from it          *)
(* (app/services/llm/base.py), the rows of app_settings and the cached     *)
(* answer.                                                                 *)
(*                                                                         *)
(* Every await of a handler is a point where other requests run; between   *)
(* two awaits a handler is one step.  The analyses of the worker process   *)
(* have an override of their own that nothing ever changes.                *)
(***************************************************************************)
EXTENDS Integers

CONSTANTS
    Clients,      \* each has one request at a time
    Models,       \* names of models, none of them empty
    Lists,        \* lists of models that a client may store
    Bodies,       \* bodies of PATCH requests
    ConfigProvider,  \* of the environment: llm_provider
    ConfigModel,     \* of the environment: ollama_model and ollama_embed_model
    RemoteModel,     \* used when the provider is not "ollama"
    None

\* "remote" stands for every provider that is not Ollama.
Providers == {"ollama", "remote"}
Stored == {"embed", "list"}
Fields == {"provider", "model", "embed", "list"}

ASSUME SettingsAssumption ==
    /\ ConfigProvider \in Providers /\ ConfigModel \in Models
    /\ None \notin Models \cup Lists \cup Providers
    /\ \A b \in Bodies : /\ b.provider \in Providers \cup {None}
                         /\ b.model \in Models \cup {None}
                         /\ b.embed \in Models \cup {None}
                         /\ b.list \in Lists \cup {None}

VARIABLES
    override,  \* _runtime_llm_override of the API process
    row,       \* app_settings: the value of each key, None without a row
    cache,     \* the cached answer of GET
    req,       \* the request of each client
    seen       \* history: for each open request, what was in force since it began

settings == <<override, row>>
vars == <<override, row, cache, req, seen>>

NoOverride == [provider |-> None, model |-> None, embed |-> None]
NoRow == [k \in Stored |-> None]
NoAnswer == [f \in Fields |-> None]
Nothing == [f \in Fields |-> {}]

\* A request: where it stands, what it has still to store, the row it has
\* loaded, what it has stored itself, and the answer as far as it is made.
Idle == [at |-> "idle", todo |-> NoRow, found |-> None, own |-> NoRow, answer |-> NoAnswer]

Or(value, default) == IF value = None THEN default ELSE value

(* The settings as they are: the override first, then the row, then the    *)
(* configuration.                                                          *)
InForce(o, rw) ==
    [provider |-> Or(o.provider, ConfigProvider),
     model    |-> Or(o.model, ConfigModel),
     embed    |-> Or(o.embed, Or(rw["embed"], ConfigModel)),
     list     |-> rw["list"]]

Places == {"idle", "load", "commit", "drop", "lookup", "embed", "list", "store"}
Values == Models \cup Lists \cup Providers \cup {None}

StoredOK(rw) ==
    /\ rw \in [Stored -> Values]
    /\ rw["embed"] \in Models \cup {None}
    /\ rw["list"] \in Lists \cup {None}

Complete(a) ==
    /\ a.provider \in Providers
    /\ a.model \in Models /\ a.embed \in Models
    /\ a.list \in Lists \cup {None}

\* An answer is put together field by field.
Gathered(at, a) ==
    /\ at \in {"embed", "list", "store"} => a.provider \in Providers /\ a.model \in Models
    /\ at \in {"list", "store"} => a.embed \in Models
    /\ at = "store" => a.list \in Lists \cup {None}

Requests == [at : Places, todo : [Stored -> Values], found : Values, own : [Stored -> Values],
             answer : [Fields -> Values]]

TypeOK ==
    /\ override \in [provider : Providers \cup {None}, model : Models \cup {None},
                     embed : Models \cup {None}]
    /\ StoredOK(row)
    /\ cache # None => cache \in [Fields -> Values] /\ Complete(cache)
    /\ req \in [Clients -> Requests]
    /\ \A c \in Clients :
          /\ StoredOK(req[c].todo) /\ StoredOK(req[c].own)
          /\ req[c].at \in {"load", "commit"} <=> req[c].todo # NoRow
          /\ Gathered(req[c].at, req[c].answer)
    /\ seen \in [Clients -> [Fields -> SUBSET Values]]

Init ==
    /\ override = NoOverride
    /\ row = NoRow
    /\ cache = None
    /\ req = [c \in Clients |-> Idle]
    /\ seen = [c \in Clients |-> Nothing]

\* Every step adds to the history of the open requests what is in force
\* before it and after it.
Witness ==
    seen' = [c \in Clients |->
        IF req'[c].at = "idle" THEN Nothing
        ELSE [f \in Fields |-> seen[c][f] \cup
                  {InForce(override, row)[f], InForce(override', row')[f]}]]

-----------------------------------------------------------------------------
(* update_llm_settings.                                                    *)

\* Up to the first await: the override is changed, whatever comes after.
PatchStart(c, b) ==
    /\ req[c].at = "idle"
    /\ override' = [f \in DOMAIN override |-> Or(b[f], override[f])]
    /\ LET todo == [k \in Stored |-> b[k]]
       IN req' = [req EXCEPT ![c] = [Idle EXCEPT !.todo = todo,
                                        !.at = IF todo = NoRow THEN "drop" ELSE "load"]]
    /\ UNCHANGED <<row, cache>> /\ Witness

\* The embedding model is stored first.
Key(todo) == IF todo["embed"] # None THEN "embed" ELSE "list"

\* db.get: the row as it is, or none.
LoadRow(c) ==
    /\ req[c].at = "load"
    /\ req' = [req EXCEPT ![c].found = row[Key(req[c].todo)], ![c].at = "commit"]
    /\ UNCHANGED <<settings, cache>> /\ Witness

\* A second row of the same key is refused.
Conflicts(c) == req[c].found = None /\ row[Key(req[c].todo)] # None

\* The request goes on with what is left to store.
Stores(c, k) ==
    LET todo == [req[c].todo EXCEPT ![k] = None]
    IN req' = [req EXCEPT ![c].todo = todo, ![c].own[k] = req[c].todo[k], ![c].found = None,
                          ![c].at = IF todo = NoRow THEN "drop" ELSE "load"]

\* A value equal to the one that was loaded is not written.
CommitRow(c) ==
    LET k == Key(req[c].todo)
        new == req[c].todo[k]
    IN /\ req[c].at = "commit" /\ ~Conflicts(c)
       /\ row' = IF new = req[c].found THEN row ELSE [row EXCEPT ![k] = new]
       /\ Stores(c, k)
       /\ UNCHANGED <<override, cache>> /\ Witness

\* 500: the override stays changed and the cached answer stays where it is.
CommitFails(c) ==
    /\ req[c].at = "commit"
    /\ req' = [req EXCEPT ![c] = Idle]
    /\ UNCHANGED <<settings, cache>> /\ Witness

\* cache_invalidate, which may fail in silence; get_llm_settings follows.
DropAnswer(c) ==
    /\ req[c].at = "drop"
    /\ cache' \in {None, cache}
    /\ req' = [req EXCEPT ![c].at = "lookup"]
    /\ UNCHANGED settings /\ Witness

-----------------------------------------------------------------------------
(* get_llm_settings.                                                       *)

GetStart(c) ==
    /\ req[c].at = "idle"
    /\ req' = [req EXCEPT ![c].at = "lookup"]
    /\ UNCHANGED <<settings, cache>> /\ Witness

\* The cached answer is returned as it is.
LookupHit(c) ==
    /\ req[c].at = "lookup" /\ cache # None
    /\ req' = [req EXCEPT ![c] = Idle]
    /\ UNCHANGED <<settings, cache>> /\ Witness

\* Variant of LookupMiss: the configuration is shown, not the override.
LookupConfig(c) ==
    /\ req[c].at = "lookup"
    /\ req' = [req EXCEPT ![c].answer.provider = ConfigProvider,
                          ![c].answer.model = ConfigModel, ![c].at = "embed"]
    /\ UNCHANGED <<settings, cache>> /\ Witness

\* Nothing cached, or Redis does not answer: provider and model are read here,
\* before the row of the embedding model is awaited.
LookupMiss(c) ==
    /\ req[c].at = "lookup"
    /\ req' = [req EXCEPT ![c].answer.provider = InForce(override, row).provider,
                          ![c].answer.model = InForce(override, row).model, ![c].at = "embed"]
    /\ UNCHANGED <<settings, cache>> /\ Witness

\* db.get answers with the object the session holds already: a PATCH reads
\* back what it has stored itself.
Row(c, k) == Or(req[c].own[k], row[k])

\* Variant of ReadEmbed: the row comes before the override.
ReadEmbedRowFirst(c) ==
    /\ req[c].at = "embed"
    /\ req' = [req EXCEPT
           ![c].answer.embed = Or(Row(c, "embed"), Or(override.embed, ConfigModel)),
           ![c].at = "list"]
    /\ UNCHANGED <<settings, cache>> /\ Witness

ReadEmbed(c) ==
    /\ req[c].at = "embed"
    /\ req' = [req EXCEPT
           ![c].answer.embed = Or(override.embed, Or(Row(c, "embed"), ConfigModel)),
           ![c].at = "list"]
    /\ UNCHANGED <<settings, cache>> /\ Witness

\* After the models of the provider have been fetched.
ReadList(c) ==
    /\ req[c].at = "list"
    /\ req' = [req EXCEPT ![c].answer.list = Row(c, "list"), ![c].at = "store"]
    /\ UNCHANGED <<settings, cache>> /\ Witness

\* cache_set, which may fail in silence; the request is answered.
StoreAnswer(c) ==
    /\ req[c].at = "store"
    /\ cache' \in {req[c].answer, cache}
    /\ req' = [req EXCEPT ![c] = Idle]
    /\ UNCHANGED settings /\ Witness

-----------------------------------------------------------------------------

\* After _LLM_SETTINGS_TTL, 30 seconds.
Expire ==
    /\ cache # None
    /\ cache' = None
    /\ UNCHANGED <<settings, req>> /\ Witness

\* The API process ends and is started again; Redis and the rows remain.
Restart ==
    /\ override' = NoOverride
    /\ req' = [c \in Clients |-> Idle]
    /\ UNCHANGED <<row, cache>> /\ Witness

Handle(c) ==
    \/ LoadRow(c) \/ CommitRow(c) \/ CommitFails(c) \/ DropAnswer(c)
    \/ LookupHit(c) \/ LookupMiss(c) \/ ReadEmbed(c) \/ ReadList(c) \/ StoreAnswer(c)

Next ==
    \/ \E c \in Clients : GetStart(c) \/ Handle(c) \/ \E b \in Bodies : PatchStart(c, b)
    \/ Expire \/ Restart

Spec == Init /\ [][Next]_vars

(* Requests go on until they are answered, and Redis drops what is too     *)
(* old.  Nobody has to ask for anything.                                   *)
FairSpec ==
    /\ Spec
    /\ \A c \in Clients : WF_vars(Handle(c))
    /\ WF_vars(Expire)

-----------------------------------------------------------------------------
(* Properties.                                                             *)

\* get_llm_settings (settings.py:62) reads the override, a row, the override
\* again and a second row, with other requests between the reads: an answer
\* may mix two settings, but each field of one that is put together was in
\* force at some moment since the request began.
AnswerIsRecent ==
    \A c \in Clients : req[c].at = "store" =>
        \A f \in Fields : req[c].answer[f] \in seen[c][f]

ProviderInUse == Or(override.provider, ConfigProvider)

\* get_llm_provider: an Ollama client is given the model of the override, the
\* other providers have the model of the configuration.
ModelInUse ==
    IF ProviderInUse = "ollama" THEN Or(override.model, ConfigModel) ELSE RemoteModel

\* The page names a provider or an Ollama model that the next generation does
\* not use.
Misleading ==
    /\ cache # None
    /\ \/ cache.provider # ProviderInUse
       \/ cache.provider = "ollama" /\ cache.model # ModelInUse

\* The override is lost with the process while the cached answer is not, a
\* request that is refused changes the override too, and an answer may be
\* stored after the PATCH that made it stale (settings.py:109, 124): once the
\* settings stay as they are, no answer remains cached that names another
\* provider or model than the one generate_patches gets (patches.py:268).
ShownModelIsUsed == <>[][UNCHANGED settings]_vars => <>[]~Misleading
=============================================================================
