--------------------------- MODULE DatalayerProofs ---------------------------
(***************************************************************************)
(* Proofs about Datalayer, for any stores, calls, contents and models, any *)
(* assignment of kinds to buckets and any session lengths.                 *)
(***************************************************************************)
EXTENDS Datalayer, TLAPS

\* What a call knows of its store once it is under way: the row was there, a
\* delete credential is never handed out, what a Zarr finish fills in was read
\* from the object, and a deletion that reached the row has been at S3.
CallOK(k) ==
    /\ call[k].pc # "idle" => call[k].store \in Stores /\ row[call[k].store] # "absent"
    /\ call[k].pc = "issue" => /\ call[k].arg \in {"read", "upload", "delete"}
                               /\ call[k].handed => call[k].arg # "delete"
    /\ call[k].pc = "fill" /\ kind[call[k].store] = "zarr" =>
           call[k].arg \in written[call[k].store] \cap ArrayContents
    /\ call[k].pc \in {"collect", "drop"} => call[k].store \in warned \cup unlinked
    /\ call[k].pc = "save" => call[k].arg \in Models

\* What holds of a store between its row, its columns and its object.
StoreOK(s) ==
    /\ kind[s] = None <=> row[s] = "absent"
    /\ populated[s] => row[s] # "absent"
    /\ populated[s] /\ kind[s] = "zarr" => info[s] \in written[s] \cap ArrayContents
    /\ object[s] \in written[s] \cup {None}
    /\ object[s] = None /\ written[s] # {} =>
           kind[s] = "zarr" \/ s \in unlinked \/ allow_unscoped_fallback
    /\ row[s] = "deleted" => s \in warned \cup unlinked

\* What holds of a credential: only those for one Zarr store can delete.
CredOK(g) ==
    /\ g.left <= MaxSession
    /\ g.may \cap {"Put", "Delete"} # {} =>
           \E s \in Stores : /\ g.scope = {s} /\ row[s] # "absent"
                             /\ "Delete" \in g.may => kind[s] = "zarr"

\* The inductive invariant.
DatalayerInv ==
    /\ TypeOK
    /\ \A k \in Calls : CallOK(k)
    /\ \A s \in Stores : StoreOK(s)
    /\ ~allow_unscoped_fallback => \A g \in creds : CredOK(g)

\* Where a call may stand.
CallRecords ==
    [pc : CallStates, store : Stores \cup {None},
     arg : {"read", "upload", "delete"} \cup Contents \cup Models \cup {None},
     handed : BOOLEAN, models : SUBSET Models]

\* Stores and their history move forward only: a row that was made is never
\* absent again and keeps its kind, nothing written or logged is forgotten.
Forward ==
    /\ \A s \in Stores : row[s] # "absent" => row'[s] # "absent" /\ kind'[s] = kind[s]
    /\ \A s \in Stores : written[s] \subseteq written'[s]
    /\ warned \subseteq warned' /\ unlinked \subseteq unlinked'
    /\ allow_unscoped_fallback' = allow_unscoped_fallback

-----------------------------------------------------------------------------
(* Lemmas. *)

\* Whatever lifetime a caller names, the session lasts at least a tick and at most
\* the longest session (_session_duration).
LEMMA SessionDurationBounds ==
    ASSUME NEW ttl \in Nat
    PROVE  SessionDuration(ttl) \in MinSession .. MaxSession
BY DatalayerAssumption DEF SessionDuration

\* What a call knows stays true while others act.
LEMMA CallsStay ==
    ASSUME TypeOK, Forward, NEW k \in Calls, CallOK(k), call'[k] = call[k]
    PROVE  CallOK(k)'
<1>1. call[k].pc # "idle" => call'[k].store \in Stores /\ row'[call'[k].store] # "absent"
  BY DEF CallOK, Forward
<1>2. call[k].pc = "fill" /\ kind'[call[k].store] = "zarr" =>
          call[k].arg \in written'[call[k].store] \cap ArrayContents
  BY DEF CallOK, Forward
<1>3. call[k].pc \in {"collect", "drop"} => call[k].store \in warned' \cup unlinked'
  BY DEF CallOK, Forward
<1>4. QED
  BY <1>1, <1>2, <1>3 DEF CallOK

\* A credential that was in bounds stays so.
LEMMA CredsStay ==
    ASSUME Forward, NEW g, CredOK(g)
    PROVE  CredOK(g)'
BY DEF CredOK, Forward

\* A step of one call, or of nobody's, that hands out no credential.
LEMMA StepKeeps ==
    ASSUME DatalayerInv, TypeOK', Forward,
           \A k \in Calls : CallOK(k)' \/ call'[k] = call[k],
           \A s \in Stores : StoreOK(s)',
           \A g \in creds' : g \in creds
    PROVE  DatalayerInv'
<1>1. \A k \in Calls : CallOK(k)'
  BY CallsStay DEF DatalayerInv
<1>2. ~allow_unscoped_fallback' => \A g \in creds' : CredOK(g)'
  BY CredsStay DEF DatalayerInv, Forward
<1>3. QED
  BY <1>1, <1>2 DEF DatalayerInv

\* A step that leaves the stores alone disturbs none of them.
LEMMA QuietForward ==
    ASSUME DatalayerInv, UNCHANGED dataVars
    PROVE  Forward /\ \A s \in Stores : StoreOK(s)'
<1>1. Forward
  BY DEF dataVars, Forward
<1>2. \A s \in Stores : StoreOK(s)'
  BY DEF DatalayerInv, dataVars, StoreOK
<1>3. QED
  BY <1>1, <1>2

\* No row, no object, no credential, no call.
LEMMA DatalayerInvInit == Init => DatalayerInv
<1> SUFFICES ASSUME Init
             PROVE  DatalayerInv
  OBVIOUS
<1>1. TypeOK
  <2>1. allow_unscoped_fallback \in BOOLEAN /\ populated \in [Stores -> BOOLEAN]
    BY DEF Init
  <2>2. call \in [Calls -> CallRecords]
    BY DEF Init, Idle, CallStates, CallRecords
  <2>3. QED
    BY <2>1, <2>2 DEF Init, TypeOK, CallRecords
<1>2. \A k \in Calls : CallOK(k)
  BY DEF Init, CallOK, Idle
<1>3. \A s \in Stores : StoreOK(s)
  BY DEF Init, StoreOK, None
<1>4. QED
  BY <1>1, <1>2, <1>3 DEF DatalayerInv, Init

\* A call that has only looked, and will act later, or has ended.
LEMMA LookKeeps ==
    ASSUME DatalayerInv, NEW k \in Calls, UNCHANGED <<dataVars, creds>>,
           NEW c, call' = [call EXCEPT ![k] = c],
           c \in CallRecords,
           CallOK(k)'
    PROVE  DatalayerInv'
<1>1. Forward /\ \A s \in Stores : StoreOK(s)'
  BY QuietForward
<1>2. TypeOK'
  BY DEF DatalayerInv, TypeOK, dataVars, CallRecords
<1>3. \A d \in Calls : d = k \/ call'[d] = call[d]
  BY DEF DatalayerInv, TypeOK
<1>4. QED
  BY <1>1, <1>2, <1>3, StepKeeps

\* The first step of every call that has loaded its row.
LEMMA BeginKeeps ==
    ASSUME DatalayerInv, NEW k \in Calls, NEW s \in Stores,
           \/ \E action \in {"read", "delete"}, handed \in BOOLEAN :
                 RequestAccess(k, s, action, handed) /\ (handed => action # "delete")
           \/ \E store_type \in Kinds, valid \in BOOLEAN : FinishUpload(k, s, store_type, valid)
           \/ BeginDelete(k, s)
           \/ \E m \in Models : BeginModel(k, m, s)
    PROVE  DatalayerInv'
<1>1. call \in [Calls -> CallRecords]
  BY DEF DatalayerInv, TypeOK, CallRecords
<1>2. ASSUME NEW action \in {"read", "delete"}, NEW handed \in BOOLEAN,
             RequestAccess(k, s, action, handed), handed => action # "delete"
      PROVE  DatalayerInv'
  <2> DEFINE c == [Idle EXCEPT !.pc = "issue", !.store = s, !.arg = action, !.handed = handed]
  <2>1. c \in CallRecords /\ c.pc = "issue" /\ c.store = s /\ c.arg = action /\ c.handed = handed
    BY DEF Idle, CallRecords, CallStates
  <2>2. call' = [call EXCEPT ![k] = c] /\ row[s] = "present" /\ UNCHANGED <<dataVars, creds>>
    BY <1>2 DEF RequestAccess
  <2>3. call'[k] = c /\ row' = row
    BY <1>1, <2>2 DEF dataVars
  <2>4. CallOK(k)'
    BY <1>2, <2>1, <2>2, <2>3 DEF CallOK
  <2> HIDE DEF c
  <2>5. QED
    BY <2>1, <2>2, <2>4, LookKeeps
<1>3. ASSUME NEW store_type \in Kinds, NEW valid \in BOOLEAN, FinishUpload(k, s, store_type, valid)
      PROVE  DatalayerInv'
  <2>1. PICK step \in {"finish", "read", "fill"} :
            /\ call' = [call EXCEPT ![k] = [Idle EXCEPT !.store = s, !.pc = step]]
            /\ step = "fill" => store_type # "zarr"
    BY <1>3 DEF FinishUpload
  <2> DEFINE c == [Idle EXCEPT !.store = s, !.pc = step]
  <2>2. c \in CallRecords /\ c.pc = step /\ c.store = s /\ c.arg = None /\ c.handed = FALSE
    BY DEF Idle, CallRecords, CallStates
  <2>3. row[s] = "present" /\ kind[s] = store_type /\ UNCHANGED <<dataVars, creds>>
    BY <1>3 DEF FinishUpload
  <2>4. call'[k] = c /\ row' = row /\ kind' = kind
    BY <1>1, <2>1, <2>3 DEF dataVars
  <2>5. CallOK(k)'
    BY <2>1, <2>2, <2>3, <2>4 DEF CallOK
  <2>6. QED
    BY <2>1, <2>2, <2>3, <2>5, LookKeeps
<1>4. CASE BeginDelete(k, s)
  <2> DEFINE c == [Idle EXCEPT !.pc = "unlink", !.store = s]
  <2>1. c \in CallRecords /\ c.pc = "unlink" /\ c.store = s /\ c.arg = None /\ c.handed = FALSE
    BY DEF Idle, CallRecords, CallStates
  <2>2. call' = [call EXCEPT ![k] = c] /\ row[s] = "present" /\ UNCHANGED <<dataVars, creds>>
    BY <1>4 DEF BeginDelete
  <2>3. CallOK(k)'
    BY <1>1, <2>1, <2>2 DEF CallOK, dataVars
  <2> HIDE DEF c
  <2>4. QED
    BY <2>1, <2>2, <2>3, LookKeeps
<1>5. ASSUME NEW m \in Models, BeginModel(k, m, s)
      PROVE  DatalayerInv'
  <2> DEFINE c == [Idle EXCEPT !.pc = "save", !.store = s, !.arg = m]
  <2>1. c \in CallRecords /\ c.pc = "save" /\ c.store = s /\ c.arg = m /\ c.handed = FALSE
    BY DEF Idle, CallRecords, CallStates
  <2>2. call' = [call EXCEPT ![k] = c] /\ row[s] = "present" /\ UNCHANGED <<dataVars, creds>>
    BY <1>5 DEF BeginModel
  <2>3. CallOK(k)'
    BY <1>1, <2>1, <2>2 DEF CallOK, dataVars
  <2> HIDE DEF c
  <2>4. QED
    BY <2>1, <2>2, <2>3, LookKeeps
<1>6. QED
  BY <1>2, <1>3, <1>4, <1>5

\* A call that has ended knows nothing.
LEMMA IdleOK ==
    ASSUME NEW k, call'[k] = Idle
    PROVE  CallOK(k)'
BY DEF CallOK, Idle

\* Idle is where a call may stand, and so is what it becomes by a step of its own.
LEMMA EndKeepsType ==
    ASSUME DatalayerInv, NEW k \in Calls, call' = [call EXCEPT ![k] = Idle]
    PROVE  /\ call' \in [Calls -> CallRecords]
           /\ \A d \in Calls : CallOK(d)' \/ call'[d] = call[d]
<1>1. call \in [Calls -> CallRecords]
  BY DEF DatalayerInv, TypeOK, CallRecords
<1>2. Idle \in CallRecords
  BY DEF Idle, CallRecords, CallStates
<1>3. QED
  BY <1>1, <1>2, IdleOK

\* The row of a new store is made; no store changes its kind afterwards
\* (generate_*_upload_grant).
LEMMA RequestUploadKeeps ==
    ASSUME DatalayerInv, NEW k \in Calls, NEW s \in Stores, NEW store_type \in Kinds,
           RequestUpload(k, s, store_type)
    PROVE  DatalayerInv'
<1> DEFINE c == [Idle EXCEPT !.pc = "issue", !.store = s, !.arg = "upload", !.handed = TRUE]
<1>1. c \in CallRecords /\ c.pc = "issue" /\ c.store = s /\ c.arg = "upload"
  BY DEF Idle, CallRecords, CallStates
<1>2. /\ row[s] = "absent"
      /\ row' = [row EXCEPT ![s] = "present"]
      /\ kind' = [kind EXCEPT ![s] = store_type]
      /\ call' = [call EXCEPT ![k] = c]
      /\ UNCHANGED <<allow_unscoped_fallback, populated, info, object, creds, file, written,
                     warned, unlinked>>
  BY DEF RequestUpload
<1>3. /\ row \in [Stores -> {"absent", "present", "deleted"}]
      /\ kind \in [Stores -> Kinds \cup {None}]
      /\ call \in [Calls -> CallRecords]
  BY DEF DatalayerInv, TypeOK, CallRecords
<1> HIDE DEF c
<1>4. TypeOK'
  <2>1. row' \in [Stores -> {"absent", "present", "deleted"}] /\ kind' \in [Stores -> Kinds \cup {None}]
    BY <1>2, <1>3
  <2>2. call' \in [Calls -> CallRecords]
    BY <1>1, <1>2, <1>3
  <2>3. QED
    BY <1>2, <2>1, <2>2 DEF DatalayerInv, TypeOK, CallRecords
<1>5. Forward
  BY <1>2, <1>3 DEF Forward
<1>6. \A d \in Calls : CallOK(d)' \/ call'[d] = call[d]
  <2>1. call'[k] = c /\ \A d \in Calls \ {k} : call'[d] = call[d]
    BY <1>2, <1>3
  <2>2. row'[s] = "present"
    BY <1>2, <1>3
  <2>3. CallOK(k)'
    BY <1>1, <2>1, <2>2 DEF CallOK
  <2>4. QED
    BY <2>1, <2>3
<1>7. \A t \in Stores : StoreOK(t)'
  <2>1. StoreOK(s)'
    <3>1. row'[s] = "present" /\ kind'[s] = store_type /\ store_type # None
      BY <1>2, <1>3 DEF Kinds, None
    <3>2. ~populated[s] /\ kind[s] = None
      BY <1>2 DEF DatalayerInv, StoreOK
    <3>3. object[s] = None /\ written[s] # {} => s \in unlinked \/ allow_unscoped_fallback
      BY <3>2 DEF DatalayerInv, StoreOK, None
    <3>4. QED
      BY <1>2, <3>1, <3>2, <3>3 DEF DatalayerInv, StoreOK
  <2>2. ASSUME NEW t \in Stores \ {s}
        PROVE  StoreOK(t)'
    <3>1. row'[t] = row[t] /\ kind'[t] = kind[t]
      BY <1>2, <1>3
    <3>2. QED
      BY <1>2, <3>1 DEF DatalayerInv, StoreOK
  <2>3. QED
    BY <2>1, <2>2
<1>8. QED
  BY <1>2, <1>4, <1>5, <1>6, <1>7, StepKeeps

\* What a Zarr finish fills in was found under the key (get_zarr_metadata).
LEMMA GetZarrMetadataKeeps ==
    ASSUME DatalayerInv, NEW k \in Calls, GetZarrMetadata(k)
    PROVE  DatalayerInv'
<1> DEFINE s == call[k].store
           c == IF ZarrMetadata(object[s])
                THEN [call[k] EXCEPT !.pc = "fill", !.arg = object[s]] ELSE Idle
<1>1. /\ call[k].pc = "read"
      /\ call' = [call EXCEPT ![k] = c]
      /\ UNCHANGED <<dataVars, creds>>
  BY DEF GetZarrMetadata
<1>2. call \in [Calls -> CallRecords] /\ call[k] \in CallRecords
  BY DEF DatalayerInv, TypeOK, CallRecords
<1>3. s \in Stores /\ row[s] # "absent"
  BY <1>1 DEF DatalayerInv, CallOK
<1>4. ZarrMetadata(object[s]) => object[s] \in written[s] \cap ArrayContents /\ object[s] \in Contents
  BY <1>3, DatalayerAssumption DEF DatalayerInv, StoreOK, ZarrMetadata
<1>5. c \in CallRecords
  BY <1>2, <1>4 DEF CallRecords, CallStates, Idle
<1>6. call'[k] = c
  BY <1>1, <1>2
<1>7. CallOK(k)'
  <2>1. CASE ~ZarrMetadata(object[s])
    BY <1>6, <2>1, IdleOK
  <2>2. CASE ZarrMetadata(object[s])
    <3>1. c.pc = "fill" /\ c.store = s /\ c.arg = object[s]
      BY <1>2, <2>2 DEF CallRecords
    <3>2. row' = row /\ written' = written
      BY <1>1 DEF dataVars
    <3> HIDE DEF c, s
    <3>3. QED
      BY <1>3, <1>4, <1>6, <2>2, <3>1, <3>2 DEF CallOK
  <2>3. QED
    BY <2>1, <2>2
<1> HIDE DEF c
<1>8. QED
  BY <1>1, <1>5, <1>7, LookKeeps

\* Only what was found under its key describes a Zarr store, and only a row that is
\* there (fill_info, _finish_store_upload).
LEMMA FillKeeps ==
    ASSUME DatalayerInv, NEW k \in Calls, FillInfo(k) \/ FinishInvalid(k)
    PROVE  DatalayerInv'
<1>1. /\ call[k].pc \in {"fill", "finish"}
      /\ call' = [call EXCEPT ![k] = Idle]
      /\ UNCHANGED <<allow_unscoped_fallback, kind, row, object, creds, file, written, warned, unlinked>>
  BY DEF FillInfo, FinishInvalid
<1>2. PICK s \in Stores : s = call[k].store /\ row[s] # "absent"
  BY <1>1 DEF DatalayerInv, CallOK
<1>3. /\ populated \in [Stores -> BOOLEAN]
      /\ info \in [Stores -> Contents \cup {None}]
  BY DEF DatalayerInv, TypeOK
<1>4. call[k].pc = "fill" /\ kind[s] = "zarr" => call[k].arg \in written[s] \cap ArrayContents
  BY <1>2 DEF DatalayerInv, CallOK
<1>5. /\ \A t \in Stores \ {s} : (populated'[t] => populated[t]) /\ info'[t] = info[t]
      /\ \/ info'[s] = info[s] /\ (populated'[s] => populated[s] \/ kind[s] # "zarr")
         \/ info'[s] = call[k].arg /\ kind[s] = "zarr" /\ call[k].pc = "fill"
  <2>1. CASE FillInfo(k)
    <3>1. CASE row[s] = "present" /\ kind[s] = "zarr"
      BY <1>2, <1>3, <2>1, <3>1 DEF FillInfo
    <3>2. CASE ~(row[s] = "present" /\ kind[s] = "zarr")
      <4>1. info' = info
        BY <1>2, <1>3, <2>1, <3>2 DEF FillInfo
      <4>2. populated' = [populated EXCEPT ![s] = populated[s] \/ row[s] = "present"]
        BY <1>2, <2>1 DEF FillInfo
      <4>3. \A t \in Stores \ {s} : populated'[t] = populated[t]
        BY <1>2, <1>3, <4>2
      <4>4. populated'[s] => populated[s] \/ kind[s] # "zarr"
        BY <1>2, <1>3, <3>2, <4>2
      <4>5. QED
        BY <4>1, <4>3, <4>4
    <3>3. QED
      BY <3>1, <3>2
  <2>2. CASE FinishInvalid(k)
    BY <1>2, <1>3, <2>2 DEF FinishInvalid
  <2>3. QED
    BY <2>1, <2>2
<1>6. TypeOK'
  <2>1. populated' \in [Stores -> BOOLEAN]
    BY <1>2, <1>3 DEF FillInfo, FinishInvalid
  <2>2. info' \in [Stores -> Contents \cup {None}]
    <3>1. info'[s] \in Contents \cup {None}
      BY <1>2, <1>3, <1>4, <1>5, DatalayerAssumption
    <3>2. \A t \in Stores : info'[t] \in Contents \cup {None}
      BY <1>3, <1>5, <3>1
    <3>3. DOMAIN info' = Stores /\ info' = [t \in Stores |-> info'[t]]
      BY <1>3 DEF FillInfo, FinishInvalid
    <3>4. QED
      BY <3>2, <3>3
  <2>3. call' \in [Calls -> CallRecords]
    BY <1>1, EndKeepsType
  <2>4. QED
    BY <1>1, <2>1, <2>2, <2>3 DEF DatalayerInv, TypeOK, CallRecords
<1>7. Forward
  BY <1>1 DEF Forward
<1>8. \A t \in Stores : StoreOK(t)'
  <2>1. StoreOK(s)'
    <3>1. StoreOK(s)
      BY DEF DatalayerInv
    <3>2. populated'[s] /\ kind[s] = "zarr" => info'[s] \in written[s] \cap ArrayContents
      BY <1>4, <1>5, <3>1 DEF StoreOK
    <3>3. QED
      BY <1>1, <1>2, <3>1, <3>2 DEF StoreOK
  <2>2. ASSUME NEW t \in Stores \ {s}
        PROVE  StoreOK(t)'
    <3>1. StoreOK(t) /\ (populated'[t] => populated[t]) /\ info'[t] = info[t]
      BY <1>5 DEF DatalayerInv
    <3>2. QED
      BY <1>1, <3>1 DEF StoreOK
  <2>3. QED
    BY <2>1, <2>2
<1>9. QED
  BY <1>1, <1>6, <1>7, <1>8, EndKeepsType, StepKeeps

\* Whoever writes an object, the service or a client, writes what the history says.
LEMMA PutKeepsStores ==
    ASSUME DatalayerInv, NEW s \in Stores, NEW c \in Contents, Put(s, c),
           UNCHANGED <<allow_unscoped_fallback, kind, row, populated, info, warned, unlinked>>
    PROVE  /\ object' \in [Stores -> Contents \cup {None}]
           /\ written' \in [Stores -> SUBSET Contents]
           /\ Forward
           /\ \A t \in Stores : StoreOK(t)'
<1>1. /\ object \in [Stores -> Contents \cup {None}] /\ written \in [Stores -> SUBSET Contents]
      /\ object' = [object EXCEPT ![s] = c]
      /\ written' = [written EXCEPT ![s] = written[s] \cup {c}]
      /\ c # None
  BY DatalayerAssumption DEF DatalayerInv, TypeOK, Put
<1>2. object' \in [Stores -> Contents \cup {None}] /\ written' \in [Stores -> SUBSET Contents]
  BY <1>1
<1>3. /\ \A t \in Stores \ {s} : object'[t] = object[t] /\ written'[t] = written[t]
      /\ object'[s] = c /\ written'[s] = written[s] \cup {c}
  BY <1>1
<1>4. Forward
  BY <1>3 DEF Forward
<1>5. ASSUME NEW t \in Stores
      PROVE  StoreOK(t)'
  <2>1. StoreOK(t)
    BY DEF DatalayerInv
  <2>2. CASE t = s
    BY <1>1, <1>3, <2>1, <2>2 DEF StoreOK
  <2>3. CASE t # s
    BY <1>3, <2>1, <2>3 DEF StoreOK
  <2>4. QED
    BY <2>2, <2>3
<1>6. QED
  BY <1>2, <1>4, <1>5

\* MediaStore.put_file, and a client with a credential.
LEMMA PutKeeps ==
    ASSUME DatalayerInv, NEW s \in Stores, NEW c \in Contents,
           (\E k \in Calls : PutFile(k, s, c)) \/ (\E g \in creds : ClientPut(g, s, c))
    PROVE  DatalayerInv'
<1>1. ASSUME NEW k \in Calls, PutFile(k, s, c)
      PROVE  DatalayerInv'
  <2> DEFINE new == [Idle EXCEPT !.pc = "fill", !.store = s]
  <2>1. new \in CallRecords /\ new.pc = "fill" /\ new.store = s
    BY DEF Idle, CallRecords, CallStates
  <2>2. /\ row[s] = "present" /\ kind[s] = "media"
        /\ Put(s, c)
        /\ call' = [call EXCEPT ![k] = new]
        /\ UNCHANGED <<allow_unscoped_fallback, kind, row, populated, info, creds, file, warned,
                       unlinked>>
    BY <1>1 DEF PutFile
  <2> HIDE DEF new
  <2>3. call \in [Calls -> CallRecords]
    BY DEF DatalayerInv, TypeOK, CallRecords
  <2>4. call' \in [Calls -> CallRecords] /\ call'[k] = new /\ \A d \in Calls \ {k} : call'[d] = call[d]
    BY <2>1, <2>2, <2>3
  <2>5. CallOK(k)'
    BY <2>1, <2>2, <2>4 DEF CallOK
  <2>6. TypeOK'
    BY <2>2, <2>4, PutKeepsStores DEF DatalayerInv, TypeOK, CallRecords
  <2>7. QED
    BY <2>2, <2>4, <2>5, <2>6, PutKeepsStores, StepKeeps
<1>2. ASSUME NEW g \in creds, ClientPut(g, s, c)
      PROVE  DatalayerInv'
  <2>1. /\ Put(s, c)
        /\ UNCHANGED <<allow_unscoped_fallback, kind, row, populated, info, creds, call, file, warned,
                       unlinked>>
    BY <1>2 DEF ClientPut
  <2>2. TypeOK'
    BY <2>1, PutKeepsStores DEF DatalayerInv, TypeOK
  <2>3. QED
    BY <2>1, <2>2, PutKeepsStores, StepKeeps
<1>3. QED
  BY <1>1, <1>2

\* A deletion has been at S3, or S3 has refused and the log says so, before it goes on
\* to the row (DatalayerStore.delete).
LEMMA DeleteObjectKeeps ==
    ASSUME DatalayerInv, NEW k \in Calls, DeleteObject(k)
    PROVE  DatalayerInv'
<1>1. PICK s \in Stores : s = call[k].store /\ row[s] # "absent"
  BY DEF DatalayerInv, CallOK, DeleteObject
<1>2. /\ call' = [call EXCEPT ![k].pc = "collect"]
      /\ UNCHANGED <<allow_unscoped_fallback, kind, row, populated, info, creds, file, written>>
  BY DEF DeleteObject
<1>3. /\ object \in [Stores -> Contents \cup {None}]
      /\ call \in [Calls -> CallRecords]
  BY DEF DatalayerInv, TypeOK, CallRecords
<1>4. /\ warned' \in {warned, warned \cup {s}} /\ unlinked' \in {unlinked, unlinked \cup {s}}
      /\ s \in warned' \cup unlinked'
      /\ \/ object' = object
         \/ (object' = [object EXCEPT ![s] = None] /\ unlinked' = unlinked \cup {s})
  <2>1. CASE object' = [object EXCEPT ![s] = IF kind[s] = "zarr" THEN @ ELSE None]
             /\ unlinked' = unlinked \cup {s} /\ UNCHANGED warned
    BY <1>3, <2>1
  <2>2. CASE warned' = warned \cup {s} /\ UNCHANGED <<object, unlinked>>
    BY <2>2
  <2>3. QED
    BY <1>1, <2>1, <2>2 DEF DeleteObject
<1>5. /\ call' \in [Calls -> CallRecords]
      /\ call'[k].pc = "collect" /\ call'[k].store = s
      /\ \A d \in Calls \ {k} : call'[d] = call[d]
  BY <1>1, <1>2, <1>3 DEF CallRecords, CallStates
<1>6. TypeOK'
  BY <1>2, <1>3, <1>4, <1>5 DEF DatalayerInv, TypeOK, CallRecords
<1>7. Forward
  BY <1>2, <1>4 DEF Forward
<1>8. CallOK(k)'
  BY <1>1, <1>2, <1>4, <1>5 DEF CallOK
<1>9. ASSUME NEW t \in Stores
      PROVE  StoreOK(t)'
  <2>1. StoreOK(t)
    BY DEF DatalayerInv
  <2>2. CASE object' = object
    BY <1>2, <1>4, <2>1, <2>2 DEF StoreOK
  <2>3. CASE object' = [object EXCEPT ![s] = None] /\ unlinked' = unlinked \cup {s}
    <3>1. object'[t] = object[t] \/ (object'[t] = None /\ t \in unlinked')
      BY <1>3, <2>3
    <3>2. QED
      BY <1>2, <1>4, <2>1, <2>3, <3>1 DEF StoreOK
  <2>4. QED
    BY <1>4, <2>2, <2>3
<1>10. QED
  BY <1>2, <1>5, <1>6, <1>7, <1>8, <1>9, StepKeeps

\* The row goes only at the end of a deletion, with the models that were collected, or
\* stays with all of them (on_delete=CASCADE).
LEMMA DropRowKeeps ==
    ASSUME DatalayerInv, NEW k \in Calls, DropRow(k)
    PROVE  DatalayerInv'
<1>1. PICK s \in Stores : s = call[k].store /\ row[s] # "absent" /\ s \in warned \cup unlinked
  BY DEF DatalayerInv, CallOK, DropRow
<1>2. /\ row \in [Stores -> {"absent", "present", "deleted"}]
      /\ file \in [Models -> Stores \cup {None}]
  BY DEF DatalayerInv, TypeOK
<1>3. /\ call' = [call EXCEPT ![k] = Idle]
      /\ UNCHANGED <<allow_unscoped_fallback, kind, populated, info, object, creds, written, warned,
                     unlinked>>
  BY DEF DropRow
<1>4. /\ row' = row \/ row' = [row EXCEPT ![s] = "deleted"]
      /\ \/ file' = file
         \/ file' = [m \in Models |-> IF m \in call[k].models THEN None ELSE file[m]]
  BY <1>1 DEF DropRow
<1>5. /\ row' \in [Stores -> {"absent", "present", "deleted"}]
      /\ \A t \in Stores : row'[t] = row[t] \/ (t = s /\ row'[t] = "deleted")
  BY <1>2, <1>4
<1>6. file' \in [Models -> Stores \cup {None}]
  BY <1>2, <1>4
<1>7. TypeOK'
  BY <1>3, <1>5, <1>6, EndKeepsType DEF DatalayerInv, TypeOK, CallRecords
<1>8. Forward
  BY <1>1, <1>3, <1>5 DEF Forward
<1>9. ASSUME NEW t \in Stores
      PROVE  StoreOK(t)'
  <2>1. StoreOK(t) /\ StoreOK(s)
    BY DEF DatalayerInv
  <2>2. QED
    BY <1>1, <1>3, <1>5, <2>1 DEF StoreOK
<1>10. QED
  BY <1>3, <1>7, <1>8, <1>9, EndKeepsType, StepKeeps

\* The collection of what a deletion takes along, a death, and the rows of the models.
LEMMA ModelStepsKeep ==
    ASSUME DatalayerInv,
           \/ \E k \in Calls : CollectModels(k) \/ Die(k) \/ SaveModel(k)
           \/ \E m \in Models : DeleteModel(m)
    PROVE  DatalayerInv'
<1>1. call \in [Calls -> CallRecords] /\ file \in [Models -> Stores \cup {None}]
  BY DEF DatalayerInv, TypeOK, CallRecords
<1>2. ASSUME NEW k \in Calls, CollectModels(k)
      PROVE  DatalayerInv'
  <2> DEFINE c == [call[k] EXCEPT !.pc = "drop", !.models = {m \in Models : file[m] = call[k].store}]
  <2>1. /\ call[k].pc = "collect" /\ UNCHANGED <<dataVars, creds>>
        /\ call' = [call EXCEPT ![k] = c]
    BY <1>2 DEF CollectModels
  <2>2. c \in CallRecords /\ c.pc = "drop" /\ c.store = call[k].store
    BY <1>1 DEF CallRecords, CallStates
  <2> HIDE DEF c
  <2>3. CallOK(k)'
    BY <1>1, <2>1, <2>2 DEF DatalayerInv, CallOK, dataVars
  <2>4. QED
    BY <2>1, <2>2, <2>3, LookKeeps
<1>3. ASSUME NEW k \in Calls, Die(k)
      PROVE  DatalayerInv'
  <2>1. Idle \in CallRecords
    BY DEF Idle, CallRecords, CallStates
  <2>2. UNCHANGED <<dataVars, creds>> /\ call' = [call EXCEPT ![k] = Idle]
    BY <1>3 DEF Die
  <2>3. CallOK(k)'
    BY <1>1, <2>2, IdleOK
  <2>4. QED
    BY <2>1, <2>2, <2>3, LookKeeps
<1>4. ASSUME file' \in [Models -> Stores \cup {None}],
             call' \in [Calls -> CallRecords],
             \A d \in Calls : CallOK(d)' \/ call'[d] = call[d],
             UNCHANGED <<allow_unscoped_fallback, kind, row, populated, info, object, creds, written,
                         warned, unlinked>>
      PROVE  DatalayerInv'
  <2>1. TypeOK'
    BY <1>4 DEF DatalayerInv, TypeOK, CallRecords
  <2>2. Forward /\ \A s \in Stores : StoreOK(s)'
    BY <1>4 DEF DatalayerInv, Forward, StoreOK
  <2>3. QED
    BY <1>4, <2>1, <2>2, StepKeeps
<1>5. ASSUME NEW k \in Calls, SaveModel(k)
      PROVE  DatalayerInv'
  <2>1. call[k].arg \in Models /\ call[k].store \in Stores
    BY <1>5 DEF SaveModel, DatalayerInv, CallOK
  <2>2. file' \in [Models -> Stores \cup {None}]
    BY <1>1, <1>5, <2>1 DEF SaveModel
  <2>3. QED
    BY <1>4, <1>5, <2>2, EndKeepsType DEF SaveModel
<1>6. ASSUME NEW m \in Models, DeleteModel(m)
      PROVE  DatalayerInv'
  <2>1. file' \in [Models -> Stores \cup {None}]
    BY <1>1, <1>6 DEF DeleteModel
  <2>2. QED
    BY <1>1, <1>4, <1>6, <2>1 DEF DeleteModel
<1>7. QED
  BY <1>2, <1>3, <1>5, <1>6

\* Of the credentials handed to clients only those for one Zarr store can delete.
LEMMA ClientDeleteKeeps ==
    ASSUME DatalayerInv, NEW g \in creds, NEW s \in Stores, ClientDelete(g, s)
    PROVE  DatalayerInv'
<1>1. /\ "Delete" \in g.may /\ s \in g.scope /\ object[s] # None
      /\ object' = [object EXCEPT ![s] = None]
      /\ UNCHANGED <<allow_unscoped_fallback, kind, row, populated, info, creds, call, file, written,
                     warned, unlinked>>
  BY DEF ClientDelete
<1>2. object \in [Stores -> Contents \cup {None}]
  BY DEF DatalayerInv, TypeOK
<1>3. object' \in [Stores -> Contents \cup {None}]
  BY <1>1, <1>2
<1>4. kind[s] = "zarr" \/ allow_unscoped_fallback
  BY <1>1 DEF DatalayerInv, CredOK
<1>5. TypeOK'
  BY <1>1, <1>3 DEF DatalayerInv, TypeOK
<1>6. Forward
  BY <1>1 DEF Forward
<1>7. ASSUME NEW t \in Stores
      PROVE  StoreOK(t)'
  <2>1. StoreOK(t)
    BY DEF DatalayerInv
  <2>2. object'[t] = IF t = s THEN None ELSE object[t]
    BY <1>1, <1>2
  <2>3. QED
    BY <1>1, <1>4, <2>1, <2>2 DEF StoreOK
<1>8. QED
  BY <1>1, <1>5, <1>6, <1>7, StepKeeps

\* A session is granted for the store its call has loaded, for no longer than the longest
\* session, and only an upload lets its holder write (_build_policy, _session_duration).
LEMMA IssuedIsBounded ==
    ASSUME DatalayerInv, NEW k \in Calls, call[k].pc = "issue",
           NEW granted \in IssueTemporaryCredentials(call[k].store, call[k].arg, SessionDuration(0)),
           NEW g \in granted
    PROVE  /\ g \in Grants
           /\ ~allow_unscoped_fallback /\ call[k].handed => CredOK(g)
<1> DEFINE ttl == SessionDuration(SessionDuration(0))
<1>1. ttl \in MinSession .. MaxSession
  <2>1. SessionDuration(0) \in Nat
    BY SessionDurationBounds, DatalayerAssumption
  <2>2. QED
    BY <2>1, SessionDurationBounds
<1>2. ttl \in Nat /\ 1 <= ttl /\ ttl <= MaxSession /\ ttl \in 1 .. Forever /\ Forever \in 1 .. Forever
  BY <1>1, DatalayerAssumption DEF Forever
<1> HIDE DEF ttl
<1>3. PICK s \in Stores : s = call[k].store /\ row[s] # "absent"
  BY DEF DatalayerInv, CallOK
<1>4. PICK action \in {"read", "upload", "delete"} :
          action = call[k].arg /\ (call[k].handed => action # "delete")
  BY DEF DatalayerInv, CallOK
<1>5. CASE granted = UnscopedFallback
  <2>1. allow_unscoped_fallback /\ g = [scope |-> Stores, may |-> Actions, left |-> Forever]
    BY <1>5 DEF UnscopedFallback
  <2>2. QED
    BY <1>2, <2>1 DEF Grants
<1>6. CASE granted # UnscopedFallback
  <2> DEFINE may == (CASE action = "read" -> {"Get"}
                       [] action = "upload" /\ kind[s] = "zarr" -> {"Get", "Put", "Delete", "Abort"}
                       [] action = "upload" /\ kind[s] # "zarr" -> {"Put", "Abort"}
                       [] action = "delete" -> {"Delete"})
                    \cup (IF kind[s] = "zarr" THEN {"List"} ELSE {})
  <2>1. g = [scope |-> {s}, may |-> may, left |-> ttl]
    BY <1>3, <1>4, <1>6 DEF IssueTemporaryCredentials, AssumeRole, BuildPolicy, ObjectResources, ttl
  <2>2. /\ action = "read" => may \in {{"Get"}, {"Get", "List"}}
        /\ action = "delete" => may \in {{"Delete"}, {"Delete", "List"}}
        /\ action = "upload" /\ kind[s] = "zarr" => may = {"Get", "Put", "Delete", "Abort", "List"}
        /\ action = "upload" /\ kind[s] # "zarr" => may = {"Put", "Abort"}
    <3>1. CASE action = "read"
      BY <3>1
    <3>2. CASE action = "delete"
      BY <3>2
    <3>3. CASE action = "upload" /\ kind[s] = "zarr"
      <4>1. may = {"Get", "Put", "Delete", "Abort"} \cup {"List"}
        BY <3>3
      <4>2. QED
        BY <3>3, <4>1
    <3>4. CASE action = "upload" /\ kind[s] # "zarr"
      BY <3>4
    <3>5. QED
      BY <3>1, <3>2, <3>3, <3>4
  <2> HIDE DEF may
  <2>3. may \subseteq Actions
    BY <1>4, <2>2 DEF Actions
  <2>4. g \in Grants
    BY <1>2, <1>3, <2>1, <2>3 DEF Grants
  <2>5. g.left <= MaxSession
    BY <1>2, <2>1
  <2>6. call[k].handed /\ g.may \cap {"Put", "Delete"} # {} =>
            g.scope = {s} /\ row[s] # "absent" /\ ("Delete" \in g.may => kind[s] = "zarr")
    BY <1>3, <1>4, <2>1, <2>2
  <2>7. QED
    BY <1>3, <2>4, <2>5, <2>6 DEF CredOK
<1>7. QED
  BY <1>5, <1>6

\* The bucket-wide session reads and lists, and no more (_build_general_read_policy).
LEMMA GeneralIsBounded ==
    ASSUME DatalayerInv,
           NEW granted \in IssueTemporaryUserAccessCredentials("media", SessionDuration(0)),
           NEW g \in granted
    PROVE  g \in Grants /\ (~allow_unscoped_fallback => CredOK(g))
<1> DEFINE ttl == SessionDuration(SessionDuration(0))
           reach == {s \in Stores : kind[s] # None /\ Bucket[kind[s]] = Bucket["media"]}
<1>1. ttl \in MinSession .. MaxSession
  <2>1. SessionDuration(0) \in Nat
    BY SessionDurationBounds, DatalayerAssumption
  <2>2. QED
    BY <2>1, SessionDurationBounds
<1>2. ttl \in Nat /\ 1 <= ttl /\ ttl <= MaxSession /\ ttl \in 1 .. Forever /\ Forever \in 1 .. Forever
  BY <1>1, DatalayerAssumption DEF Forever
<1>3. CASE granted = UnscopedFallback
  <2>1. allow_unscoped_fallback /\ g = [scope |-> Stores, may |-> Actions, left |-> Forever]
    BY <1>3 DEF UnscopedFallback
  <2>2. QED
    BY <1>2, <2>1 DEF Grants
<1>4. CASE granted # UnscopedFallback
  <2>1. g = [scope |-> reach, may |-> {"Get"}, left |-> ttl]
    BY <1>4 DEF IssueTemporaryUserAccessCredentials, AssumeRole, BuildGeneralReadPolicy
  <2>2. reach \subseteq Stores
    OBVIOUS
  <2> HIDE DEF ttl, reach
  <2>3. g \in Grants /\ g.left <= MaxSession /\ g.may \cap {"Put", "Delete"} = {}
    BY <1>2, <2>1, <2>2 DEF Grants, Actions
  <2>4. QED
    BY <2>3 DEF CredOK
<1>5. QED
  BY <1>3, <1>4

\* The credentials that are handed out keep the bounds, and so does every other one.
LEMMA IssueKeeps ==
    ASSUME DatalayerInv, (\E k \in Calls : Issue(k)) \/ GenerateGeneralMediaAccessGrant
    PROVE  DatalayerInv'
<1>1. creds \subseteq Grants
  BY DEF DatalayerInv, TypeOK
<1>2. UNCHANGED dataVars
  BY DEF Issue, GenerateGeneralMediaAccessGrant
<1>3. Forward /\ \A s \in Stores : StoreOK(s)'
  BY <1>2, QuietForward
<1>4. call' \in [Calls -> CallRecords] /\ \A k \in Calls : CallOK(k)'
  <2>1. CASE \E k \in Calls : Issue(k)
    BY <1>3, <2>1, EndKeepsType, CallsStay DEF Issue, DatalayerInv
  <2>2. CASE GenerateGeneralMediaAccessGrant
    BY <1>3, <2>2, CallsStay DEF GenerateGeneralMediaAccessGrant, DatalayerInv, TypeOK, CallRecords
  <2>3. QED
    BY <2>1, <2>2
<1>5. ASSUME NEW g \in creds'
      PROVE  g \in Grants /\ (~allow_unscoped_fallback => CredOK(g))
  <2>1. CASE g \in creds
    BY <1>1, <2>1 DEF DatalayerInv
  <2>2. CASE g \notin creds /\ \E k \in Calls : Issue(k)
    <3>1. PICK k \in Calls : Issue(k)
      BY <2>2
    <3>2. PICK granted \in IssueTemporaryCredentials(call[k].store, call[k].arg, SessionDuration(0)) :
              creds' = IF call[k].handed THEN creds \cup granted ELSE creds
      BY <3>1 DEF Issue
    <3>3. call[k].handed /\ g \in granted /\ call[k].pc = "issue"
      BY <2>2, <3>1, <3>2 DEF Issue
    <3>4. QED
      BY <3>1, <3>2, <3>3, IssuedIsBounded
  <2>3. CASE g \notin creds /\ GenerateGeneralMediaAccessGrant
    <3>1. PICK granted \in IssueTemporaryUserAccessCredentials("media", SessionDuration(0)) :
              creds' = creds \cup granted
      BY <2>3 DEF GenerateGeneralMediaAccessGrant
    <3>2. QED
      BY <2>3, <3>1, GeneralIsBounded
  <2>4. QED
    BY <2>1, <2>2, <2>3
<1>6. TypeOK'
  BY <1>2, <1>4, <1>5 DEF DatalayerInv, TypeOK, CallRecords, dataVars
<1>7. ~allow_unscoped_fallback' => \A g \in creds' : CredOK(g)'
  BY <1>2, <1>3, <1>5, CredsStay DEF dataVars
<1>8. QED
  BY <1>3, <1>4, <1>6, <1>7 DEF DatalayerInv

\* Sessions only run out.
LEMMA TickKeeps ==
    ASSUME DatalayerInv, Tick
    PROVE  DatalayerInv'
<1>1. UNCHANGED dataVars /\ UNCHANGED call
  BY DEF Tick
<1>2. Forward /\ \A s \in Stores : StoreOK(s)'
  BY <1>1, QuietForward
<1>3. \A k \in Calls : CallOK(k)'
  BY <1>1, <1>2, CallsStay DEF DatalayerInv
<1>4. ASSUME NEW g \in creds'
      PROVE  g \in Grants /\ (~allow_unscoped_fallback => CredOK(g))
  <2>1. PICK h \in creds : /\ h.left > 1
                           /\ g = [h EXCEPT !.left = IF h.left = Forever THEN h.left ELSE h.left - 1]
    BY DEF Tick
  <2>2. h \in Grants /\ h.left \in 1 .. Forever /\ MaxSession \in Nat
    BY <2>1, DatalayerAssumption DEF DatalayerInv, TypeOK, Grants
  <2>3. /\ g.scope = h.scope /\ g.may = h.may
        /\ g.left \in 1 .. Forever /\ g.left <= h.left
        /\ g \in Grants
    BY <2>1, <2>2 DEF Grants, Forever
  <2>4. CredOK(h) => CredOK(g)
    BY <2>2, <2>3 DEF CredOK, Forever
  <2>5. QED
    BY <2>1, <2>3, <2>4 DEF DatalayerInv
<1>5. TypeOK'
  BY <1>1, <1>4 DEF DatalayerInv, TypeOK, dataVars
<1>6. ~allow_unscoped_fallback' => \A g \in creds' : CredOK(g)'
  BY <1>1, <1>2, <1>4, CredsStay DEF dataVars
<1>7. QED
  BY <1>2, <1>3, <1>5, <1>6 DEF DatalayerInv

\* The mutations on stores, of whichever kind, are the calls of the lemmas above.
LEMMA RequestsKeep ==
    ASSUME DatalayerInv, NEW k \in Calls, NEW input \in Inputs,
           \/ MediaRequests(k, input) \/ BigfileRequests(k, input)
           \/ ZarrRequests(k, input) \/ ParquetRequests(k, input)
    PROVE  DatalayerInv'
<1>1. input.store \in Stores /\ input.valid \in BOOLEAN
  BY DEF Inputs
<1>2. PICK s \in Stores, valid \in BOOLEAN : s = input.store /\ valid = input.valid
  BY <1>1
<1>3. \E store_type \in Kinds :
          \/ RequestUpload(k, s, store_type)
          \/ FinishUpload(k, s, store_type, valid)
          \/ RequestAccess(k, s, "read", TRUE)
  BY <1>2 DEF MediaRequests, BigfileRequests, ZarrRequests, ParquetRequests, Kinds,
      GenerateMediaUploadGrant, FinishMediaUpload, GenerateMediaAccessGrant,
      GenerateBigfileUploadGrant, FinishBigfileUpload, GenerateBigfileAccessGrant,
      GenerateZarrUploadGrant, FinishZarrUpload, GenerateZarrAccessGrant,
      GenerateParquetUploadGrant, FinishParquetUpload, GenerateParquetAccessGrant
<1>4. CASE \E store_type \in Kinds : RequestUpload(k, s, store_type)
  BY <1>4, RequestUploadKeeps
<1>5. CASE \E store_type \in Kinds : FinishUpload(k, s, store_type, valid)
  BY <1>5, BeginKeeps
<1>6. CASE RequestAccess(k, s, "read", TRUE)
  BY <1>6, BeginKeeps
<1>7. QED
  BY <1>3, <1>4, <1>5, <1>6

\* Every step of the service, of its clients and of time keeps the invariant.
LEMMA DatalayerInvNext == DatalayerInv /\ [Next]_vars => DatalayerInv'
<1> SUFFICES ASSUME DatalayerInv, [Next]_vars
             PROVE  DatalayerInv'
  OBVIOUS
<1>1. ASSUME NEW k \in Calls, Service(k)
      PROVE  DatalayerInv'
  <2>1. CASE \E input \in Inputs :
                \/ MediaRequests(k, input) \/ BigfileRequests(k, input)
                \/ ZarrRequests(k, input) \/ ParquetRequests(k, input)
    BY <2>1, RequestsKeep
  <2>2. ASSUME NEW s \in Stores,
               \/ AccessGrantField(k, s) \/ BeginDelete(k, s)
               \/ GenerateFileReadUrl(k, s) \/ GenerateFileDeleteUrl(k, s)
               \/ \E m \in Models : BeginModel(k, m, s)
        PROVE  DatalayerInv'
    <3>1. CASE AccessGrantField(k, s) \/ GenerateFileReadUrl(k, s) \/ GenerateFileDeleteUrl(k, s)
      <4>1. \E action \in {"read", "delete"}, handed \in BOOLEAN :
                RequestAccess(k, s, action, handed) /\ (handed => action # "delete")
        BY <3>1 DEF AccessGrantField, GenerateFileReadUrl, GenerateFileDeleteUrl
      <4>2. QED
        BY <4>1, BeginKeeps
    <3>2. CASE BeginDelete(k, s) \/ \E m \in Models : BeginModel(k, m, s)
      BY <3>2, BeginKeeps
    <3>3. QED
      BY <2>2, <3>1, <3>2
  <2>3. CASE \E s \in Stores, c \in Contents : PutFile(k, s, c)
    BY <2>3, PutKeeps
  <2>4. CASE Issue(k)
    BY <2>4, IssueKeeps
  <2>5. CASE GetZarrMetadata(k)
    BY <2>5, GetZarrMetadataKeeps
  <2>6. CASE FillInfo(k) \/ FinishInvalid(k)
    BY <2>6, FillKeeps
  <2>7. CASE DeleteObject(k)
    BY <2>7, DeleteObjectKeeps
  <2>8. CASE DropRow(k)
    BY <2>8, DropRowKeeps
  <2>9. CASE CollectModels(k) \/ SaveModel(k) \/ Die(k)
    BY <2>9, ModelStepsKeep
  <2>10. QED
    BY <1>1, <2>1, <2>2, <2>3, <2>4, <2>5, <2>6, <2>7, <2>8, <2>9 DEF Service
<1>2. CASE Client
  <2>1. CASE \E g \in creds, s \in Stores : (\E c \in Contents : ClientPut(g, s, c)) \/ ClientDelete(g, s)
    BY <2>1, PutKeeps, ClientDeleteKeeps
  <2>2. CASE \E m \in Models : DeleteModel(m)
    BY <2>2, ModelStepsKeep
  <2>3. CASE GenerateGeneralMediaAccessGrant
    BY <2>3, IssueKeeps
  <2>4. QED
    BY <1>2, <2>1, <2>2, <2>3 DEF Client
<1>3. CASE Tick
  BY <1>3, TickKeeps
<1>4. CASE UNCHANGED vars
  <2>1. UNCHANGED <<dataVars, creds, call>>
    BY <1>4 DEF vars, dataVars
  <2>2. TypeOK'
    BY <2>1 DEF DatalayerInv, TypeOK, dataVars
  <2>3. QED
    BY <2>1, <2>2, QuietForward, StepKeeps
<1>5. QED
  BY <1>1, <1>2, <1>3, <1>4 DEF Next

-----------------------------------------------------------------------------
(* The theorems. *)

\* The inductive invariant holds throughout.
LEMMA DatalayerInvAlways == Spec => []DatalayerInv
<1>1. QED
  BY DatalayerInvInit, DatalayerInvNext, PTL DEF Spec

\* Rows, objects, credentials and calls keep their types.
THEOREM DatalayerTypes == Spec => []TypeOK
<1>1. DatalayerInv => TypeOK
  BY DEF DatalayerInv
<1>2. QED
  BY <1>1, DatalayerInvAlways, PTL

\* Without the fallback of the deployment no credential a client holds outlives the
\* longest session, and each that can write or delete reaches one store whose row was
\* made first, however the calls interleave (datalayer.py).
THEOREM CredentialsStayBounded == Spec => []CredentialsAreBounded
<1>1. DatalayerInv => CredentialsAreBounded
  BY DEF DatalayerInv, CredOK, CredentialsAreBounded
<1>2. QED
  BY <1>1, DatalayerInvAlways, PTL

\* The columns of a populated Zarr store describe an array somebody uploaded under its
\* key, whichever of several overlapping calls filled them in (ZarrStore.fill_info).
THEOREM PopulatedZarrIsReal == Spec => []PopulatedZarrWasUploaded
<1>1. DatalayerInv => PopulatedZarrWasUploaded
  BY DEF DatalayerInv, StoreOK, PopulatedZarrWasUploaded
<1>2. QED
  BY <1>1, DatalayerInvAlways, PTL

\* An object without its row, and a row without its object, are left only by the known
\* ways a deletion can end halfway (DatalayerStore.delete).
THEOREM DriftIsExplained == Spec => []StoresDoNotDrift
<1>1. DatalayerInv => StoresDoNotDrift
  BY DEF DatalayerInv, StoreOK, StoresDoNotDrift
<1>2. QED
  BY <1>1, DatalayerInvAlways, PTL
=============================================================================
