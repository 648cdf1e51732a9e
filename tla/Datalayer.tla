------------------------------ MODULE Datalayer ------------------------------
(***************************************************************************)
(* The S3-backed stores: a row per store (datalayer/models.py), an object  *)
(* or a prefix of objects per store, and the temporary credentials that    *)
(* clients use on the objects themselves (datalayer/datalayer.py).  Rows   *)
(* and objects live in two systems without a common transaction, and a     *)
(* client keeps its credentials after the call that issued them.  Every    *)
(* call of the service is one member of Calls and a sequence of steps, one *)
(* per statement or request to S3 or STS; its worker may die between them. *)
(* Keys are fresh uuids, so a store is named by its key and made once.     *)
(***************************************************************************)
EXTENDS Integers, FiniteSets

CONSTANTS
    Stores,             \* the keys _new_key returns
    Bucket,             \* the physical bucket of each kind
    Contents,           \* what clients write
    ArrayContents,      \* contents whose zarr.json is that of a Zarr v3 array
    Models,             \* primary keys of 3D models
    Calls,              \* concurrent calls of the service
    MinSession,         \* MIN_SESSION_DURATION_SECONDS, in ticks
    MaxSession,         \* MAX_SESSION_DURATION_SECONDS, in ticks
    DefaultSession,     \* DATALAYER.session_duration_seconds
    MaxCreds            \* bound: credentials alive at a time

Kinds == {"media", "bigfile", "zarr", "parquet"}
Actions == {"Get", "Put", "Abort", "Delete", "List"}
Forever == MaxSession + 1      \* the service's own key: it does not count down
None == "none"                 \* no object, no metadata, no file

ASSUME DatalayerAssumption ==
    /\ DOMAIN Bucket = Kinds
    /\ ArrayContents \subseteq Contents
    /\ None \notin Contents \cup Stores
    /\ MinSession \in Nat \ {0} /\ MaxSession \in Nat /\ MinSession <= MaxSession
    /\ DefaultSession \in Nat \ {0}

VARIABLES
    allow_unscoped_fallback,  \* the setting of the deployment
    row,        \* per store: the row is absent, present or deleted
    kind,       \* per store: the model of its row, None before there is one
    populated,  \* per store: the column
    info,       \* per store: the metadata columns of a ZarrStore
    object,     \* per store: what S3 holds under its key
    creds,      \* the credentials clients hold and S3 still accepts
    call,       \* where each call stands
    file,       \* per 3D model: the store its row refers to, None without a row
    written,    \* history: per store, everything that was ever put
    warned,     \* stores whose object a deletion failed to remove, as logged
    unlinked    \* history: stores whose object a deletion has removed

vars == <<allow_unscoped_fallback, row, kind, populated, info, object, creds, call, file,
          written, warned, unlinked>>

(* BaseUploadGrant, AccessGrant and GeneralAccessGrant, reduced to the      *)
(* credentials in them: the objects they reach, the actions they allow and  *)
(* the ticks they have left.                                                *)
Grants == [scope : SUBSET Stores, may : SUBSET Actions, left : 1..Forever]

(* The inputs of the mutations, reduced to what the service reads of them:  *)
(* file names, sizes and media types are kept as given, and expires_in of   *)
(* RequestGeneralMediaAccessInput is read by nobody.                        *)
Inputs == [store : Stores, valid : BOOLEAN]

(* ZarrMetadata validates what zarr.json holds.                             *)
ZarrMetadata(content) == content \in ArrayContents

Idle == [pc |-> "idle", store |-> None, arg |-> None, handed |-> FALSE, models |-> {}]
CallStates == {"idle", "issue", "finish", "read", "fill", "unlink", "collect", "drop", "save"}

TypeOK ==
    /\ allow_unscoped_fallback \in BOOLEAN
    /\ row \in [Stores -> {"absent", "present", "deleted"}]
    /\ kind \in [Stores -> Kinds \cup {None}]
    /\ populated \in [Stores -> BOOLEAN]
    /\ info \in [Stores -> Contents \cup {None}]
    /\ object \in [Stores -> Contents \cup {None}]
    /\ creds \subseteq Grants
    /\ call \in [Calls -> [pc : CallStates, store : Stores \cup {None},
                           arg : {"read", "upload", "delete"} \cup Contents \cup Models \cup {None},
                           handed : BOOLEAN, models : SUBSET Models]]
    /\ file \in [Models -> Stores \cup {None}]
    /\ written \in [Stores -> SUBSET Contents]
    /\ warned \subseteq Stores
    /\ unlinked \subseteq Stores

Init ==
    /\ allow_unscoped_fallback \in BOOLEAN
    /\ row = [s \in Stores |-> "absent"]
    /\ kind = [s \in Stores |-> None]
    /\ populated = [s \in Stores |-> FALSE]
    /\ info = [s \in Stores |-> None]
    /\ object = [s \in Stores |-> None]
    /\ creds = {}
    /\ call = [k \in Calls |-> Idle]
    /\ file = [m \in Models |-> None]
    /\ written = [s \in Stores |-> {}]
    /\ warned = {}
    /\ unlinked = {}

dataVars == <<allow_unscoped_fallback, row, kind, populated, info, object, file, written,
              warned, unlinked>>
-----------------------------------------------------------------------------
(* Credentials. *)

\* A mutant of SessionDuration: no upper clamp.
SessionDurationUnclamped(expires_in) ==
    LET requested == IF expires_in = 0 THEN DefaultSession ELSE expires_in
    IN  IF requested < MinSession THEN MinSession ELSE requested

SessionDuration(expires_in) ==
    LET requested == IF expires_in = 0 THEN DefaultSession ELSE expires_in
        raised == IF requested < MinSession THEN MinSession ELSE requested
    IN  IF raised > MaxSession THEN MaxSession ELSE raised

\* The store's own key, or for a Zarr store the prefix and what is below it.
\* Keys are uuids, so neither ever covers an object of another store.
ObjectResources(s) == {s}

\* A writer of a Zarr array reads back and removes chunks, and a prefix is listed.
BuildPolicy(s, action) ==
    [scope |-> ObjectResources(s),
     may |-> (CASE action = "read" -> {"Get"}
                [] action = "upload" /\ kind[s] = "zarr" -> {"Get", "Put", "Delete", "Abort"}
                [] action = "upload" /\ kind[s] # "zarr" -> {"Put", "Abort"}
                [] action = "delete" -> {"Delete"})
             \cup (IF kind[s] = "zarr" THEN {"List"} ELSE {})]

\* Reading anywhere in one physical bucket, whatever kinds share it.
BuildGeneralReadPolicy(store_type) ==
    [scope |-> {s \in Stores : kind[s] # None /\ Bucket[kind[s]] = Bucket[store_type]},
     may |-> {"Get"} \cup (IF store_type = "zarr" THEN {"List"} ELSE {})]

\* STS issues a session bounded by the policy.
AssumeRole(policy, ttl) ==
    [scope |-> policy.scope, may |-> policy.may, left |-> ttl]

\* A mutant of UnscopedFallback: the setting is not consulted.
UnscopedFallbackAlways ==
    {[scope |-> Stores, may |-> Actions, left |-> Forever]}

\* STS refused, or no role is configured: the service's own key, or nothing (it raises).
UnscopedFallback ==
    IF allow_unscoped_fallback
    THEN {[scope |-> Stores, may |-> Actions, left |-> Forever]}
    ELSE {}

\* The credentials a request for a session may end with.
IssueTemporaryCredentials(s, action, ttl) ==
    {{AssumeRole(BuildPolicy(s, action), SessionDuration(ttl))}, UnscopedFallback}

IssueTemporaryUserAccessCredentials(store_type, ttl) ==
    {{AssumeRole(BuildGeneralReadPolicy(store_type), SessionDuration(ttl))}, UnscopedFallback}
-----------------------------------------------------------------------------
(* Calls of the service. *)

\* The row of the store is committed before a credential is asked for.
RequestUpload(k, s, store_type) ==
    /\ call[k] = Idle /\ row[s] = "absent"
    /\ kind' = [kind EXCEPT ![s] = store_type]
    /\ row' = [row EXCEPT ![s] = "present"]
    /\ call' = [call EXCEPT ![k] = [Idle EXCEPT !.pc = "issue", !.store = s,
                                                !.arg = "upload", !.handed = TRUE]]
    /\ UNCHANGED <<allow_unscoped_fallback, populated, info, object, creds, file, written,
                   warned, unlinked>>

GenerateMediaUploadGrant(k, s) == RequestUpload(k, s, "media")
GenerateBigfileUploadGrant(k, s) == RequestUpload(k, s, "bigfile")
GenerateZarrUploadGrant(k, s) == RequestUpload(k, s, "zarr")
GenerateParquetUploadGrant(k, s) == RequestUpload(k, s, "parquet")

\* The row is looked up; whether it is populated does not matter.
RequestAccess(k, s, action, handed) ==
    /\ call[k] = Idle /\ row[s] = "present"
    /\ call' = [call EXCEPT ![k] = [Idle EXCEPT !.pc = "issue", !.store = s, !.arg = action,
                                                !.handed = handed]]
    /\ UNCHANGED <<dataVars, creds>>

GenerateMediaAccessGrant(k, s) == kind[s] = "media" /\ RequestAccess(k, s, "read", TRUE)
GenerateBigfileAccessGrant(k, s) == kind[s] = "bigfile" /\ RequestAccess(k, s, "read", TRUE)
GenerateZarrAccessGrant(k, s) == kind[s] = "zarr" /\ RequestAccess(k, s, "read", TRUE)
GenerateParquetAccessGrant(k, s) == kind[s] = "parquet" /\ RequestAccess(k, s, "read", TRUE)

\* AccessGrant demands a region, which these two do not pass: the session is issued and
\* the call raises, so that it reaches nobody.
GenerateFileReadUrl(k, s) == RequestAccess(k, s, "read", FALSE)
GenerateFileDeleteUrl(k, s) == RequestAccess(k, s, "delete", FALSE)

\* The access_grant field of every store type.
AccessGrantField(k, s) == RequestAccess(k, s, "read", TRUE)

\* The session is asked for, with the default lifetime as no caller names another, and
\* handed to the client.
Issue(k) ==
    /\ call[k].pc = "issue" /\ Cardinality(creds) < MaxCreds
    /\ \E granted \in IssueTemporaryCredentials(call[k].store, call[k].arg, SessionDuration(0)) :
           creds' = IF call[k].handed THEN creds \cup granted ELSE creds
    /\ call' = [call EXCEPT ![k] = Idle]
    /\ UNCHANGED dataVars

GenerateGeneralMediaAccessGrant ==
    /\ Cardinality(creds) < MaxCreds
    /\ \E granted \in IssueTemporaryUserAccessCredentials("media", SessionDuration(0)) :
           creds' = creds \cup granted
    /\ UNCHANGED <<dataVars, call>>

\* _finish_store_upload: the row is loaded.
FinishUpload(k, s, store_type, valid) ==
    /\ call[k] = Idle /\ row[s] = "present" /\ kind[s] = store_type
    /\ call' = [call EXCEPT ![k] = [Idle EXCEPT !.store = s,
                   !.pc = CASE ~valid -> "finish" [] valid /\ store_type = "zarr" -> "read"
                            [] OTHER -> "fill"]]
    /\ UNCHANGED <<dataVars, creds>>

FinishMediaUpload(k, s, valid) == FinishUpload(k, s, "media", valid)
FinishBigfileUpload(k, s, valid) == FinishUpload(k, s, "bigfile", valid)
FinishZarrUpload(k, s, valid) == FinishUpload(k, s, "zarr", valid)
FinishParquetUpload(k, s, valid) == FinishUpload(k, s, "parquet", valid)

\* A mutant of GetZarrMetadata: an object that is missing or not an array is let through.
GetZarrMetadataUnchecked(k) ==
    /\ call[k].pc = "read"
    /\ call' = [call EXCEPT ![k].pc = "fill", ![k].arg = object[call[k].store]]
    /\ UNCHANGED <<dataVars, creds>>

\* zarr.json is fetched; the call raises unless it describes a Zarr v3 array.
GetZarrMetadata(k) ==
    /\ call[k].pc = "read"
    /\ LET found == object[call[k].store]
       IN  call' = [call EXCEPT ![k] = IF ZarrMetadata(found)
                                       THEN [@ EXCEPT !.pc = "fill", !.arg = found]
                                       ELSE Idle]
    /\ UNCHANGED <<dataVars, creds>>

\* The update of a row that is gone raises and changes nothing.
FillInfo(k) ==
    /\ call[k].pc = "fill"
    /\ LET s == call[k].store
           there == row[s] = "present"
       IN  /\ populated' = [populated EXCEPT ![s] = @ \/ there]
           /\ info' = [info EXCEPT ![s] = IF there /\ kind[s] = "zarr" THEN call[k].arg ELSE @]
    /\ call' = [call EXCEPT ![k] = Idle]
    /\ UNCHANGED <<allow_unscoped_fallback, kind, row, object, creds, file, written, warned, unlinked>>

FinishInvalid(k) ==
    /\ call[k].pc = "finish"
    /\ populated' = [populated EXCEPT ![call[k].store] = @ /\ row[call[k].store] # "present"]
    /\ call' = [call EXCEPT ![k] = Idle]
    /\ UNCHANGED <<allow_unscoped_fallback, kind, row, info, object, creds, file, written, warned,
                   unlinked>>

Put(s, c) ==
    /\ object' = [object EXCEPT ![s] = c]
    /\ written' = [written EXCEPT ![s] = @ \cup {c}]

\* MediaStore.put_file with the service's key, fill_info follows.  Whoever calls it
\* has loaded or made the row.
PutFile(k, s, c) ==
    /\ call[k] = Idle /\ row[s] = "present" /\ kind[s] = "media"
    /\ Put(s, c)
    /\ call' = [call EXCEPT ![k] = [Idle EXCEPT !.pc = "fill", !.store = s]]
    /\ UNCHANGED <<allow_unscoped_fallback, kind, row, populated, info, creds, file, warned, unlinked>>

\* DatalayerStore.delete has its row.
BeginDelete(k, s) ==
    /\ call[k] = Idle /\ row[s] = "present"
    /\ call' = [call EXCEPT ![k] = [Idle EXCEPT !.pc = "unlink", !.store = s]]
    /\ UNCHANGED <<dataVars, creds>>

\* A mutant of DeleteObject: the failure is swallowed and not logged.
DeleteObjectSilently(k) ==
    /\ call[k].pc = "unlink"
    /\ LET s == call[k].store
       IN  \/ /\ object' = [object EXCEPT ![s] = IF kind[s] = "zarr" THEN @ ELSE None]
              /\ unlinked' = unlinked \cup {s}
           \/ UNCHANGED <<object, unlinked>>
    /\ call' = [call EXCEPT ![k].pc = "collect"]
    /\ UNCHANGED <<allow_unscoped_fallback, kind, row, populated, info, creds, file, written, warned>>

\* delete_object names the key itself: the objects below the prefix of a Zarr store stay.
\* A failure is logged and swallowed.
DeleteObject(k) ==
    /\ call[k].pc = "unlink"
    /\ LET s == call[k].store
       IN  \/ /\ object' = [object EXCEPT ![s] = IF kind[s] = "zarr" THEN @ ELSE None]
              /\ unlinked' = unlinked \cup {s}
              /\ UNCHANGED warned
           \/ /\ warned' = warned \cup {s}
              /\ UNCHANGED <<object, unlinked>>
    /\ call' = [call EXCEPT ![k].pc = "collect"]
    /\ UNCHANGED <<allow_unscoped_fallback, kind, row, populated, info, creds, file, written>>

\* Model.delete collects what on_delete=CASCADE takes along ...
CollectModels(k) ==
    /\ call[k].pc = "collect"
    /\ call' = [call EXCEPT ![k].pc = "drop", ![k].models = {m \in Models : file[m] = call[k].store}]
    /\ UNCHANGED <<dataVars, creds>>

\* ... and deletes it with the row, by primary key.  A reference made since the collection
\* violates the foreign key and rolls everything back.
DropRow(k) ==
    /\ call[k].pc = "drop"
    /\ LET s == call[k].store
       IN  IF \E m \in Models \ call[k].models : file[m] = s
           THEN UNCHANGED <<row, file>>
           ELSE /\ row' = [row EXCEPT ![s] = "deleted"]
                /\ file' = [m \in Models |-> IF m \in call[k].models THEN None ELSE file[m]]
    /\ call' = [call EXCEPT ![k] = Idle]
    /\ UNCHANGED <<allow_unscoped_fallback, kind, populated, info, object, creds, written, warned,
                   unlinked>>

\* The worker of a call dies; what it has committed stays.
Die(k) ==
    /\ call[k] # Idle
    /\ call' = [call EXCEPT ![k] = Idle]
    /\ UNCHANGED <<dataVars, creds>>
-----------------------------------------------------------------------------
(* 3D models, the rows that refer to a MediaStore. *)

\* create_threed_model, or update_threed_model with a new file: the rows are loaded.
BeginModel(k, m, s) ==
    /\ call[k] = Idle /\ row[s] = "present" /\ kind[s] = "media"
    /\ call' = [call EXCEPT ![k] = [Idle EXCEPT !.pc = "save", !.store = s, !.arg = m]]
    /\ UNCHANGED <<dataVars, creds>>

\* save() inserts a row that has meanwhile gone; the foreign key must hold.
SaveModel(k) ==
    /\ call[k].pc = "save"
    /\ file' = [file EXCEPT ![call[k].arg] = IF row[call[k].store] = "present"
                                             THEN call[k].store ELSE @]
    /\ call' = [call EXCEPT ![k] = Idle]
    /\ UNCHANGED <<allow_unscoped_fallback, kind, row, populated, info, object, creds, written,
                   warned, unlinked>>

DeleteModel(m) ==
    /\ file[m] # None
    /\ file' = [file EXCEPT ![m] = None]
    /\ UNCHANGED <<allow_unscoped_fallback, kind, row, populated, info, object, creds, call, written,
                   warned, unlinked>>
-----------------------------------------------------------------------------
(* Clients of S3, and time. *)

ClientPut(g, s, c) ==
    /\ g \in creds /\ "Put" \in g.may /\ s \in g.scope
    /\ Put(s, c)
    /\ UNCHANGED <<allow_unscoped_fallback, kind, row, populated, info, creds, call, file, warned,
                   unlinked>>

ClientDelete(g, s) ==
    /\ g \in creds /\ "Delete" \in g.may /\ s \in g.scope /\ object[s] # None
    /\ object' = [object EXCEPT ![s] = None]
    /\ UNCHANGED <<allow_unscoped_fallback, kind, row, populated, info, creds, call, file, written,
                   warned, unlinked>>

\* Sessions run out; the service's own key does not.
Tick ==
    /\ creds # {}
    /\ creds' = {[g EXCEPT !.left = IF @ = Forever THEN @ ELSE @ - 1] :
                     g \in {h \in creds : h.left > 1}}
    /\ UNCHANGED <<dataVars, call>>

\* The mutations on each kind of store.
MediaRequests(k, input) ==
    \/ GenerateMediaUploadGrant(k, input.store)
    \/ FinishMediaUpload(k, input.store, input.valid)
    \/ GenerateMediaAccessGrant(k, input.store)

BigfileRequests(k, input) ==
    \/ GenerateBigfileUploadGrant(k, input.store)
    \/ FinishBigfileUpload(k, input.store, input.valid)
    \/ GenerateBigfileAccessGrant(k, input.store)

ZarrRequests(k, input) ==
    \/ GenerateZarrUploadGrant(k, input.store)
    \/ FinishZarrUpload(k, input.store, input.valid)
    \/ GenerateZarrAccessGrant(k, input.store)

ParquetRequests(k, input) ==
    \/ GenerateParquetUploadGrant(k, input.store)
    \/ FinishParquetUpload(k, input.store, input.valid)
    \/ GenerateParquetAccessGrant(k, input.store)

Service(k) ==
    \/ \E input \in Inputs :
          \/ MediaRequests(k, input) \/ BigfileRequests(k, input)
          \/ ZarrRequests(k, input) \/ ParquetRequests(k, input)
    \/ \E s \in Stores :
          \/ AccessGrantField(k, s) \/ BeginDelete(k, s)
          \/ GenerateFileReadUrl(k, s) \/ GenerateFileDeleteUrl(k, s)
          \/ \E c \in Contents : PutFile(k, s, c)
          \/ \E m \in Models : BeginModel(k, m, s)
    \/ Issue(k) \/ GetZarrMetadata(k) \/ FillInfo(k) \/ FinishInvalid(k)
    \/ DeleteObject(k) \/ CollectModels(k) \/ DropRow(k) \/ SaveModel(k) \/ Die(k)

Client ==
    \/ \E g \in creds, s \in Stores : (\E c \in Contents : ClientPut(g, s, c)) \/ ClientDelete(g, s)
    \/ \E m \in Models : DeleteModel(m)
    \/ GenerateGeneralMediaAccessGrant

Next == (\E k \in Calls : Service(k)) \/ Client \/ Tick

Spec == Init /\ [][Next]_vars

\* Time passes.
FairSpec == Spec /\ WF_vars(Tick)
-----------------------------------------------------------------------------
(* Properties. *)

Writable(s) == \E g \in creds : "Put" \in g.may /\ s \in g.scope

\* Unless the deployment allows it, no client ever holds a credential that outlives a
\* session or writes to a store it was not issued for (_session_duration,
\* _build_policy, _unscoped_fallback).
CredentialsAreBounded ==
    ~allow_unscoped_fallback =>
        \A g \in creds :
            /\ g.left <= MaxSession
            /\ g.may \cap {"Put", "Delete"} # {} =>
                   \E s \in Stores : g.scope = {s} /\ row[s] # "absent"

\* A populated Zarr store describes an array that was really uploaded under its key,
\* whatever overlapping calls finished it (ZarrStore.fill_info); the other kinds are
\* populated on the word of the client.
PopulatedZarrWasUploaded ==
    \A s \in Stores : populated[s] /\ kind[s] = "zarr" =>
        info[s] \in written[s] \cap ArrayContents

\* A row and its object part only where DatalayerStore.delete cannot help it.  An object
\* without its row is a prefix, or S3 refused and the log says so, or it was put again after
\* it was removed; a row without its object, other than one a client may empty itself, is
\* left by a deletion that ended between S3 and the database.
StoresDoNotDrift ==
    \A s \in Stores :
        /\ row[s] = "deleted" /\ object[s] # None => kind[s] = "zarr" \/ s \in warned \cup unlinked
        /\ row[s] = "present" /\ object[s] = None /\ written[s] # {} =>
              kind[s] = "zarr" \/ s \in unlinked \/ allow_unscoped_fallback

\* A store is made with one upload session and no call renews it: after a time no client
\* can change the object any more.
UploadsEnd ==
    \A s \in Stores : Writable(s) /\ ~allow_unscoped_fallback ~> [](~Writable(s))
=============================================================================
