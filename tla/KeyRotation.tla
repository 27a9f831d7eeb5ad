----------------------------- MODULE KeyRotation -----------------------------
(***************************************************************************)
(* core/crypto/key_rotation.py and rotation_task.py: the owner's provider  *)
(* keys are stored encrypted, by the key from the configuration (KEK) or   *)
(* by a data key (DEK).  Data keys are in a table, encrypted by the KEK,   *)
(* and at most MaxCached of them are in memory, where decrypt() looks.     *)
(*                                                                         *)
(* A rotation makes a new data key, re-encrypts what it can read and       *)
(* commits both in one transaction; errors of the re-encryption are        *)
(* swallowed.  Meanwhile the owner writes rows, always under the KEK.      *)
(*                                                                         *)
(* A data key is known by the number of its generation, an entry of the    *)
(* table by its key_id; the KEK is number 0.                               *)
(***************************************************************************)
EXTENDS Naturals, FiniteSets

CONSTANTS
    ApiRows,        \* rows of api_keys
    SlotRows,       \* rows of llm_key_slots
    MaxCached,      \* _MAX_CACHED_DEKS
    MaxDeks,        \* bound on the data keys made
    RotationFaults  \* which of "loadError", "readError", "writeError", "restart" happen

ASSUME KeyRotationAssumption ==
    /\ ApiRows \cap SlotRows = {}
    /\ MaxCached \in Nat \ {0, 1} /\ MaxDeks \in Nat
    /\ RotationFaults \subseteq {"loadError", "readError", "writeError", "restart"}

Rows == ApiRows \cup SlotRows
KEK == 0
Deks == 1..MaxDeks
KeyIds == 1..MaxDeks
NoKey == 0

VARIABLES
    rowKey,     \* the key each committed row is encrypted with
    table,      \* encryption_keys: key_id -> data key
    activeIds,  \* ids with is_active
    cache,      \* _deks: key_id -> data key
    activeId,     \* _active_key_id, or NoKey
    old,        \* old_key_id of the rotation
    staged,     \* rows the transaction of the rotation has re-encrypted
    pc,         \* where key_rotation_loop is
    blind,      \* whether the keys were not read since the process started
    made        \* data keys made

inMemory == <<cache, activeId, old, staged, pc, blind>>
inDatabase == <<rowKey, table, activeIds>>
rotationVars == <<inDatabase, inMemory, made>>

Newest(S) == CHOOSE i \in S : \A k \in S : k <= i
Cached(c) == {c[i] : i \in DOMAIN c}
With(c, id, k) == [i \in DOMAIN c \cup {id} |-> IF i = id THEN k ELSE c[i]]

RotationTypeOK ==
    /\ rowKey \in [Rows -> Deks \cup {KEK}]
    /\ DOMAIN table \subseteq KeyIds /\ Cached(table) \subseteq Deks
    /\ activeIds \subseteq DOMAIN table
    /\ DOMAIN cache \subseteq KeyIds /\ Cached(cache) \subseteq Deks
    /\ Cardinality(DOMAIN cache) <= MaxCached
    /\ activeId \in DOMAIN cache \cup {NoKey}
    /\ old \in KeyIds \cup {NoKey}
    /\ staged \in SUBSET Rows
    /\ pc \in {"starting", "idle", "apiKeys", "slots", "persisting", "broken"}
    /\ blind \in BOOLEAN /\ made \in 0..MaxDeks

RotationInit ==
    /\ rowKey = [r \in Rows |-> KEK]
    /\ table = << >> /\ activeIds = {}
    /\ cache = << >> /\ activeId = NoKey /\ old = NoKey
    /\ staged = {} /\ pc = "starting" /\ blind = TRUE
    /\ made = 0

(* _evict_lru: the smallest ids go, but not the protected one. *)
Evict(c, keep) ==
    LET kept == CHOOSE S \in SUBSET DOMAIN c :
                   /\ keep \in DOMAIN c => keep \in S
                   /\ Cardinality(S) = IF Cardinality(DOMAIN c) <= MaxCached
                                       THEN Cardinality(DOMAIN c) ELSE MaxCached
                   /\ \A i \in DOMAIN c \ S, k \in S \ {keep} : i < k
    IN  [i \in kept |-> c[i]]

(* _load_from_db_unlocked: what the table holds is added to the cache. *)
LoadedCache ==
    [i \in DOMAIN table \cup DOMAIN cache |->
        IF i \in DOMAIN table THEN table[i] ELSE cache[i]]

LoadedActive ==
    IF activeIds # {} THEN Newest(activeIds)
    ELSE IF activeId = NoKey /\ DOMAIN LoadedCache # {} THEN Newest(DOMAIN LoadedCache)
    ELSE activeId

(* Both callers go on with what is in memory when the query fails. *)
LoadKeys(c, a, b) ==
    \/ /\ a = LoadedActive
       /\ c = Evict(LoadedCache, a)
       /\ b = FALSE
    \/ /\ "loadError" \in RotationFaults
       /\ c = cache /\ a = activeId /\ b = blind

-----------------------------------------------------------------------------
(* create_initial_dek, at the start: without an active key one is made, put
   into memory and then into the table. *)
CreateInitial ==
    /\ pc = "starting"
    /\ pc' = "idle"
    /\ \E c \in {cache, Evict(LoadedCache, LoadedActive)}, a \in {activeId, LoadedActive}, b \in BOOLEAN :
          /\ LoadKeys(c, a, b)
          /\ blind' = b
          /\ IF a # NoKey
             THEN cache' = c /\ activeId' = a /\ UNCHANGED <<table, activeIds, made>>
             ELSE LET id == IF DOMAIN table = {} THEN 1 ELSE Newest(DOMAIN table) + 1
                  IN  /\ made < MaxDeks
                      /\ made' = made + 1
                      /\ cache' = With(c, id, made')
                      /\ activeId' = id
                      /\ \/ /\ table' = With(table, id, made')
                            /\ activeIds' = activeIds \cup {id}
                         \/ /\ "writeError" \in RotationFaults
                            /\ UNCHANGED <<table, activeIds>>
    /\ UNCHANGED <<rowKey, old, staged>>

(* _rotate_keys_async: the keys are loaded, and _rotate_unlocked makes a new
   one the active one. *)
BeginRotation ==
    /\ pc = "idle"
    /\ made < MaxDeks
    /\ \E c \in {cache, Evict(LoadedCache, LoadedActive)}, a \in {activeId, LoadedActive}, b \in BOOLEAN :
          /\ LoadKeys(c, a, b)
          /\ a \in DOMAIN c
          /\ blind' = b
          /\ old' = a
          /\ activeId' = a + 1
          /\ made' = made + 1
          /\ cache' = Evict(With(c, a + 1, made'), a + 1)
    /\ pc' = "apiKeys"
    /\ UNCHANGED <<inDatabase, staged>>

Readable(r) == rowKey[r] \in Cached(cache) \cup {KEK}

(* Mutant: the rows are committed before the key. *)
ReEncrypt_Commits(rows, next) ==
    /\ staged' = staged \cup {r \in rows : Readable(r)}
    /\ rowKey' = [r \in Rows |-> IF r \in staged' THEN cache[activeId] ELSE rowKey[r]]
    /\ pc' = next
    /\ UNCHANGED <<table, activeIds, cache, activeId, old, blind, made>>

(* re_encrypt_data for one table: rows no key in memory fits are skipped. *)
ReEncrypt(rows, next) ==
    /\ staged' = staged \cup {r \in rows : Readable(r)}
    /\ pc' = next
    /\ UNCHANGED <<inDatabase, cache, activeId, old, blind, made>>

ReEncryptApiKeys == pc = "apiKeys" /\ ReEncrypt(ApiRows, "slots")
ReEncryptSlots == pc = "slots" /\ ReEncrypt(SlotRows, "persisting")

(* A query fails: the rest is not re-encrypted.  A flush fails, perhaps because
   a row was deleted meanwhile: the transaction cannot be used any more. *)
ReEncryptFails ==
    /\ pc \in {"apiKeys", "slots"}
    /\ \/ "readError" \in RotationFaults /\ pc' = "persisting"
       \/ "writeError" \in RotationFaults /\ pc' = "broken"
    /\ UNCHANGED <<inDatabase, cache, activeId, old, staged, blind, made>>

(* persist_rotation: one commit for the key and the rows.  An entry with this
   id would be overwritten. *)
PersistRotation ==
    /\ pc = "persisting"
    /\ rowKey' = [r \in Rows |-> IF r \in staged THEN cache[activeId] ELSE rowKey[r]]
    /\ table' = With(table, activeId, cache[activeId])
    /\ activeIds' = (activeIds \ {old}) \cup {activeId}
    /\ staged' = {} /\ pc' = "idle"
    /\ UNCHANGED <<cache, activeId, old, blind, made>>

(* It fails: memory goes back to the old key. *)
RotationFails ==
    /\ \/ pc = "broken"
       \/ pc = "persisting" /\ "writeError" \in RotationFaults
    /\ activeId' = old
    /\ cache' = [i \in DOMAIN cache \ {activeId} |-> cache[i]]
    /\ staged' = {} /\ pc' = "idle"
    /\ UNCHANGED <<inDatabase, old, blind, made>>

-----------------------------------------------------------------------------
(* upsert_api_key and its like.  The rotation holds the database's write lock
   once it has flushed a table. *)
OwnerWrites(r) ==
    /\ pc \notin {"slots", "persisting", "broken"} \/ staged = {}
    /\ rowKey' = [rowKey EXCEPT ![r] = KEK]
    /\ UNCHANGED <<table, activeIds, inMemory, made>>

(* The process ends; another one starts with an empty cache. *)
RotationRestart ==
    /\ "restart" \in RotationFaults
    /\ cache' = << >> /\ activeId' = NoKey /\ old' = NoKey
    /\ staged' = {} /\ pc' = "starting" /\ blind' = TRUE
    /\ UNCHANGED <<inDatabase, made>>

RotationNext ==
    \/ CreateInitial \/ BeginRotation
    \/ ReEncryptApiKeys \/ ReEncryptSlots \/ ReEncryptFails
    \/ PersistRotation \/ RotationFails
    \/ \E r \in Rows : OwnerWrites(r)
    \/ RotationRestart

RotationSpec == RotationInit /\ [][RotationNext]_rotationVars

-----------------------------------------------------------------------------
(* Ids after that of a key, with those in memory that never reached the table. *)
Newer(k) ==
    {i \in DOMAIN table \cup (DOMAIN cache \ {activeId}) :
        \A n \in DOMAIN table : table[n] = k => n < i}

(* No key of the owner is lost: whatever fails, a row is under the KEK or under
   a data key in the table.  And what decrypt() needs is in memory: the key of
   a row that rotations could not re-encrypt is evicted only after
   MaxCached - 1 others, one less than the cache holds, as the key of the next
   rotation takes its place before the rows are read. *)
RowsReadable ==
    \A r \in Rows :
        rowKey[r] # KEK =>
            /\ rowKey[r] \in Cached(table)
            /\ Cardinality(Newer(rowKey[r])) < MaxCached - 1 /\ ~blind => Readable(r)
=============================================================================
