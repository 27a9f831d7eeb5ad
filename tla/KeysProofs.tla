----------------------------- MODULE KeysProofs -----------------------------
(***************************************************************************)
(* Proofs about KeyRotation, for any rows, size of the cache, number of    *)
(* rotations and faults, and about ProviderKeys, for any keys, calls and   *)
(* cooldowns.                                                              *)
(***************************************************************************)
EXTENDS KeyRotation, ProviderKeys, Integers, TLAPS, WellFoundedInduction,
        FiniteSetTheorems

Below == {p \in Nat \X Nat : p[1] < p[2]}

(* The least-number principle. *)
LEMMA Least ==
  ASSUME NEW S \in SUBSET Nat, S # {}
  PROVE  \E t \in S : \A u \in S : t <= u
  <1>1. Below = OpToRel(<, Nat)
    BY DEF OpToRel, Below
  <1>2. IsWellFoundedOn(Below, Nat)
    BY <1>1, NatLessThanWellFounded
  <1>3. PICK t \in S : \A u \in S : ~(<<u, t>> \in Below)
    BY <1>2, WFMin
  <1>4. \A u \in S : t <= u
    <2> TAKE u \in S
    <2>1. u \in Nat /\ t \in Nat
      OBVIOUS
    <2>2. ~(u < t)
      <3>1. <<u, t>> \in Nat \X Nat /\ <<u, t>>[1] = u /\ <<u, t>>[2] = t
        BY <2>1
      <3> QED
        BY <1>3, <3>1 DEF Below
    <2> QED
      BY <2>1, <2>2
  <1> QED
    BY <1>4

-----------------------------------------------------------------------------
(* KeyRotation. *)

(* Sets of key ids are finite and have a greatest element. *)
LEMMA IdsFinite ==
  ASSUME NEW S \in SUBSET KeyIds
  PROVE  IsFiniteSet(S) /\ Cardinality(S) \in Nat
  <1>1. IsFiniteSet(KeyIds)
    BY FS_Interval, KeyRotationAssumption DEF KeyIds
  <1> QED
    BY <1>1, FS_Subset, FS_CardinalityType

LEMMA NewestIs ==
  ASSUME NEW S \in SUBSET KeyIds, S # {}
  PROVE  Newest(S) \in S /\ \A k \in S : k <= Newest(S)
  <1> DEFINE T == {MaxDeks - i : i \in S}
  <1>1. T \in SUBSET Nat /\ T # {}
    <2>1. \A i \in S : MaxDeks - i \in Nat
      BY KeyRotationAssumption DEF KeyIds
    <2> QED
      BY <2>1
  <1>2. PICK t \in T : \A u \in T : t <= u
    <2> HIDE DEF T
    <2> QED
      BY <1>1, Least
  <1>3. PICK i \in S : t = MaxDeks - i
    BY <1>2
  <1>4. \A k \in S : k <= i
    <2> TAKE k \in S
    <2>1. MaxDeks - i <= MaxDeks - k
      BY <1>2, <1>3
    <2> QED
      BY <2>1, KeyRotationAssumption DEF KeyIds
  <1> QED
    BY <1>4 DEF Newest

(* Of a set of ids there are the m greatest. *)
LEMMA GreatestExist ==
  ASSUME NEW T \in SUBSET KeyIds, NEW n \in 0..Cardinality(T)
  PROVE  \E S \in SUBSET T : Cardinality(S) = n /\ \A i \in T \ S, k \in S : i < k
  <1> DEFINE Top(m) == \E S \in SUBSET T : /\ Cardinality(S) = m
                                           /\ \A i \in T \ S, k \in S : i < k
             Bad == {m \in 0..Cardinality(T) : ~Top(m)}
  <1>a. IsFiniteSet(T) /\ Cardinality(T) \in Nat
    BY IdsFinite
  <1> SUFFICES ASSUME Bad # {} PROVE FALSE
    OBVIOUS
  <1>1. PICK m \in Bad : \A k \in Bad : m <= k
    <2>1. Bad \in SUBSET Nat
      BY <1>a
    <2> HIDE DEF Bad
    <2> QED
      BY <2>1, Least
  <1>2. m \in Nat /\ m <= Cardinality(T) /\ ~Top(m)
    BY <1>a, <1>1
  <1>3. Top(0)
    <2>1. Cardinality({}) = 0
      BY FS_EmptySet
    <2> QED
      BY <2>1
  <1>4. m > 0
    <2> HIDE DEF Top
    <2> QED
      BY <1>2, <1>3
  <1>5. Top(m - 1)
    <2>1. m - 1 \in 0..Cardinality(T) /\ ~(m <= m - 1)
      BY <1>a, <1>2, <1>4
    <2>2. m - 1 \notin Bad
      BY <1>1, <2>1
    <2> QED
      BY <2>1, <2>2
  <1>6. PICK S \in SUBSET T : /\ Cardinality(S) = m - 1
                              /\ \A i \in T \ S, k \in S : i < k
    BY <1>5
  <1>7. IsFiniteSet(S) /\ T \ S # {} /\ T \ S \in SUBSET KeyIds
    BY <1>2, <1>6, IdsFinite
  <1> DEFINE x == Newest(T \ S)
  <1>8. x \in T \ S /\ \A i \in T \ S : i <= x
    BY <1>7, NewestIs
  <1>9. Cardinality(S \cup {x}) = m
    <2> HIDE DEF x, Top, Bad
    <2>1. x \notin S /\ m - 1 + 1 = m
      BY <1>2, <1>8
    <2> QED
      BY <1>6, <1>7, <2>1, FS_AddElement
  <1>10. \A i \in T \ (S \cup {x}), k \in S \cup {x} : i < k
    <2> SUFFICES ASSUME NEW i \in T \ (S \cup {x}), NEW k \in S \cup {x} PROVE i < k
      OBVIOUS
    <2> HIDE DEF x
    <2>1. i \in Int /\ x \in Int /\ i <= x /\ i # x
      BY <1>8 DEF KeyIds
    <2> QED
      BY <1>6, <2>1
  <1>11. S \cup {x} \in SUBSET T
    BY <1>8
  <1>12. Top(m)
    <2> HIDE DEF x
    <2> QED
      BY <1>9, <1>10, <1>11
  <1> QED
    BY <1>2, <1>12

(* What _evict_lru leaves: the protected key and the greatest others, as many
   as fit. *)
LEMMA EvictKeeps ==
  ASSUME NEW c, DOMAIN c \in SUBSET KeyIds, NEW keep
  PROVE  LET D == DOMAIN Evict(c, keep)
         IN  /\ D \in SUBSET DOMAIN c
             /\ keep \in DOMAIN c => keep \in D
             /\ Cardinality(D) <= MaxCached
             /\ \A i \in D : Evict(c, keep)[i] = c[i]
             /\ \A i \in DOMAIN c \ D :
                   Cardinality(D) = MaxCached /\ \A k \in D \ {keep} : i < k
  <1> DEFINE T == DOMAIN c
             size == IF Cardinality(T) <= MaxCached THEN Cardinality(T) ELSE MaxCached
             Fit(S) == /\ keep \in T => keep \in S
                       /\ Cardinality(S) = size
                       /\ \A i \in T \ S, k \in S \ {keep} : i < k
             kept == CHOOSE S \in SUBSET T : Fit(S)
  <1>1. IsFiniteSet(T) /\ Cardinality(T) \in Nat /\ MaxCached \in Nat \ {0, 1}
    BY IdsFinite, KeyRotationAssumption
  <1>2. \E S \in SUBSET T : Fit(S)
    <2>1. CASE Cardinality(T) <= MaxCached
      BY <2>1
    <2>2. CASE Cardinality(T) > MaxCached /\ keep \notin T
      <3>1. MaxCached \in 0..Cardinality(T)
        BY <1>1, <2>2
      <3>2. PICK S \in SUBSET T : Cardinality(S) = MaxCached /\ \A i \in T \ S, k \in S : i < k
        BY <3>1, GreatestExist
      <3> QED
        BY <1>1, <2>2, <3>2
    <2>3. CASE Cardinality(T) > MaxCached /\ keep \in T
      <3>1. Cardinality(T \ {keep}) = Cardinality(T) - 1
        BY <1>1, <2>3, FS_RemoveElement
      <3>2. MaxCached - 1 \in 0..Cardinality(T \ {keep})
        BY <1>1, <2>3, <3>1
      <3>3. PICK S \in SUBSET (T \ {keep}) :
               Cardinality(S) = MaxCached - 1 /\ \A i \in (T \ {keep}) \ S, k \in S : i < k
        BY <3>2, GreatestExist
      <3>4. IsFiniteSet(S)
        BY <3>3, IdsFinite
      <3>5. Cardinality(S \cup {keep}) = MaxCached
        <4>1. keep \notin S /\ MaxCached - 1 + 1 = MaxCached
          BY <1>1, <3>3
        <4> QED
          BY <3>3, <3>4, <4>1, FS_AddElement
      <3>6. Fit(S \cup {keep})
        BY <1>1, <2>3, <3>3, <3>5
      <3>7. S \cup {keep} \in SUBSET T
        BY <2>3
      <3> QED
        BY <3>6, <3>7
    <2> QED
      BY <1>1, <2>1, <2>2, <2>3
  <1>3. kept \in SUBSET T /\ Fit(kept)
    BY <1>2
  <1>4. Evict(c, keep) = [i \in kept |-> c[i]]
    BY DEF Evict
  <1>5. DOMAIN Evict(c, keep) = kept /\ \A i \in kept : Evict(c, keep)[i] = c[i]
    BY <1>4
  <1>6. Cardinality(kept) <= MaxCached
    BY <1>1, <1>3
  <1>7. \A i \in T \ kept : Cardinality(kept) = MaxCached
    <2>1. Cardinality(T) <= MaxCached => kept = T
      <3> SUFFICES ASSUME Cardinality(T) <= MaxCached PROVE kept = T
        OBVIOUS
      <3>1. Cardinality(kept) = Cardinality(T)
        BY <1>3
      <3> HIDE DEF kept
      <3> QED
        BY <1>1, <1>3, <3>1, FS_Subset
    <2> QED
      BY <1>3, <2>1
  <1> HIDE DEF kept
  <1> QED
    BY <1>3, <1>5, <1>6, <1>7

(* Without one element a set is smaller by one at most. *)
LEMMA OneLess ==
  ASSUME NEW S, IsFiniteSet(S), NEW x
  PROVE  Cardinality(S) - 1 <= Cardinality(S \ {x})
  <1>1. Cardinality(S) \in Nat
    BY FS_CardinalityType
  <1> QED
    BY <1>1, FS_RemoveElement

(* What the table and the memory hold together. *)
LEMMA LoadedCacheIs ==
  /\ DOMAIN LoadedCache = DOMAIN table \cup DOMAIN cache
  /\ \A i \in DOMAIN table : LoadedCache[i] = table[i]
  /\ \A i \in DOMAIN cache \ DOMAIN table : LoadedCache[i] = cache[i]
  BY DEF LoadedCache

Rotating == pc \in {"apiKeys", "slots", "persisting", "broken"}

(* The key in use, or the one a rotation started from, is the newest of the
   table; only before the table was read it may be one further. *)
Anchored(k) ==
    \/ DOMAIN table = {}
    \/ k \in DOMAIN table
    \/ blind /\ k - 1 \in DOMAIN table

(* Keys and ids are not ahead of the number of keys made, no key has two ids
   in the table, and memory does not contradict the table. *)
KeysNumbered ==
    /\ \A i \in DOMAIN table : i <= made /\ table[i] <= made
    /\ \A i \in DOMAIN cache : i <= made /\ cache[i] <= made
    /\ \A i, k \in DOMAIN table : table[i] = table[k] => i = k
    /\ \A i \in DOMAIN table \cap DOMAIN cache : cache[i] = table[i]

(* The newest entry of the table is active. *)
NewestActive == DOMAIN table # {} => \E m \in activeIds : \A i \in DOMAIN table : i <= m

(* No id in the table or in memory is beyond the key in use, and a rotation
   makes the next one: an entry of the table is never overwritten. *)
InUse ==
    /\ pc = "starting" => DOMAIN cache = {} /\ activeId = NoKey /\ blind
    /\ pc = "idle" =>
          /\ activeId \in DOMAIN cache /\ Anchored(activeId)
          /\ \A i \in DOMAIN cache \cup DOMAIN table : i <= activeId
    /\ Rotating =>
          /\ activeId = old + 1 /\ old \in DOMAIN cache /\ activeId \in DOMAIN cache
          /\ Anchored(old)
          /\ \A i \in DOMAIN table : i <= old /\ table[i] < cache[activeId]
          /\ \A i \in DOMAIN cache : i <= activeId

(* A key of the table that is not in memory was evicted for newer ones. *)
Above(n) == {i \in DOMAIN table \cup (DOMAIN cache \ {activeId}) : n < i}

EvictedLast ==
    ~blind => \A n \in DOMAIN table \ DOMAIN cache : MaxCached - 1 <= Cardinality(Above(n))

(* Every row is under the KEK or under a key of the table. *)
RowsKept == \A r \in Rows : rowKey[r] \in Cached(table) \cup {KEK}

(* The inductive invariant. *)
RotationInv ==
    RotationTypeOK /\ KeysNumbered /\ NewestActive /\ InUse /\ EvictedLast /\ RowsKept

(* The newest entry of the table becomes the active key. *)
LEMMA LoadedActiveIs ==
  ASSUME RotationInv, pc \in {"starting", "idle"}
  PROVE  /\ DOMAIN table # {} => /\ LoadedActive \in DOMAIN table
                                 /\ \A i \in DOMAIN table : i <= LoadedActive
         /\ DOMAIN table = {} => LoadedActive = activeId
  <1>1. CASE DOMAIN table = {}
    <2>1. activeIds = {}
      BY <1>1 DEF RotationInv, RotationTypeOK
    <2>2. activeId = NoKey => DOMAIN LoadedCache = {}
      <3>1. activeId = NoKey => DOMAIN cache = {}
        BY DEF RotationInv, RotationTypeOK, InUse, NoKey, KeyIds
      <3> QED
        BY <1>1, <3>1, LoadedCacheIs
    <2> QED
      BY <1>1, <2>1, <2>2 DEF LoadedActive
  <1>2. CASE DOMAIN table # {}
    <2>1. PICK m \in activeIds : \A i \in DOMAIN table : i <= m
      BY <1>2 DEF RotationInv, NewestActive
    <2>2. activeIds \in SUBSET DOMAIN table /\ activeIds \in SUBSET KeyIds
      BY DEF RotationInv, RotationTypeOK
    <2>3. Newest(activeIds) \in activeIds /\ m <= Newest(activeIds)
      BY <2>1, <2>2, NewestIs
    <2>4. \A i \in DOMAIN table : i <= Newest(activeIds)
      BY <2>1, <2>2, <2>3 DEF RotationInv, RotationTypeOK, KeyIds
    <2>5. LoadedActive = Newest(activeIds)
      BY <2>1 DEF LoadedActive
    <2> QED
      BY <1>2, <2>2, <2>3, <2>4, <2>5
  <1> QED
    BY <1>1, <1>2

(* What a rotation finds in memory, whether the table could be read or not. *)
LEMMA LoadKeysGives ==
  ASSUME RotationInv, pc \in {"starting", "idle"}, NEW c, NEW a, NEW b, LoadKeys(c, a, b)
  PROVE  /\ DOMAIN c \in SUBSET (DOMAIN table \cup DOMAIN cache)
         /\ Cardinality(DOMAIN c) <= MaxCached
         /\ \A i \in DOMAIN c : c[i] = IF i \in DOMAIN table THEN table[i] ELSE cache[i]
         /\ b \in BOOLEAN
         /\ a \in DOMAIN c \/ (a = NoKey /\ pc = "starting" /\ DOMAIN c = {})
         /\ a # NoKey => /\ DOMAIN table = {} \/ a \in DOMAIN table \/ (b /\ a - 1 \in DOMAIN table)
                         /\ \A i \in DOMAIN table : i <= a
                         /\ \A i \in DOMAIN c : i <= a + 1
         /\ pc = "starting" => \A i \in DOMAIN c : i <= a
         /\ ~b => /\ a = NoKey => DOMAIN table = {}
                  /\ \A n \in DOMAIN table \ DOMAIN c :
                        MaxCached - 1 <=
                           Cardinality({i \in DOMAIN table \cup DOMAIN c : n < i} \ {a + 1})
  <1>t. /\ DOMAIN table \in SUBSET KeyIds /\ DOMAIN cache \in SUBSET KeyIds
        /\ Cardinality(DOMAIN cache) <= MaxCached /\ blind \in BOOLEAN
        /\ activeId \in DOMAIN cache \cup {NoKey}
    BY DEF RotationInv, RotationTypeOK
  <1>k. KeyIds \in SUBSET (Nat \ {0}) /\ NoKey = 0
    BY KeyRotationAssumption DEF KeyIds, NoKey
  <1>n. /\ \A i \in DOMAIN table \cup DOMAIN cache : i \in Int /\ i > 0
        /\ activeId \in Int
    <2>1. \A i \in KeyIds : i \in Int /\ i > 0
      BY <1>k
    <2>2. \A i \in DOMAIN table \cup DOMAIN cache : i \in KeyIds
      BY <1>t
    <2>3. NoKey \in Int
      BY <1>k
    <2>4. activeId \in Int
      BY <1>t, <2>1, <2>2, <2>3
    <2> QED
      BY <2>1, <2>2, <2>4
  <1>m. MaxCached \in Nat \ {0, 1}
    BY KeyRotationAssumption
  <1>1. CASE "loadError" \in RotationFaults /\ c = cache /\ a = activeId /\ b = blind
    <2>1. \A i \in DOMAIN c : c[i] = IF i \in DOMAIN table THEN table[i] ELSE cache[i]
      BY <1>1 DEF RotationInv, KeysNumbered
    <2>2. a \in DOMAIN c \/ (a = NoKey /\ pc = "starting" /\ DOMAIN c = {})
      BY <1>1 DEF RotationInv, InUse
    <2>3. pc = "starting" => b /\ a = NoKey /\ DOMAIN c = {}
      BY <1>1 DEF RotationInv, InUse
    <2>4. pc = "idle" => /\ DOMAIN table = {} \/ a \in DOMAIN table \/ (b /\ a - 1 \in DOMAIN table)
                         /\ \A i \in DOMAIN table \cup DOMAIN c : i <= a
                         /\ a \in DOMAIN c
      BY <1>1 DEF RotationInv, InUse, Anchored
    <2>5. ASSUME NEW i \in DOMAIN c, pc = "idle"
          PROVE  i <= a + 1
      <3>1. i \in Int /\ a \in Int
        BY <1>1, <1>n
      <3>2. i <= a
        BY <2>4, <2>5
      <3> QED
        BY <3>1, <3>2
    <2>6. ASSUME ~b, NEW n \in DOMAIN table \ DOMAIN c
          PROVE  MaxCached - 1 <= Cardinality({i \in DOMAIN table \cup DOMAIN c : n < i} \ {a + 1})
      <3>1. MaxCached - 1 <= Cardinality(Above(n))
        BY <1>1, <2>6 DEF RotationInv, EvictedLast
      <3>2. pc = "idle"
        BY <2>3, <2>6
      <3>3. a + 1 \notin DOMAIN table \cup DOMAIN c
        BY <1>1, <1>n, <2>4, <3>2
      <3>4. a \in DOMAIN table
        BY <2>4, <2>6, <3>2
      <3>5. Above(n) = {i \in DOMAIN table \cup DOMAIN c : n < i} \ {a + 1}
        BY <1>1, <3>3, <3>4 DEF Above
      <3> QED
        BY <3>1, <3>5
    <2> QED
      BY <1>1, <1>t, <1>k, <2>1, <2>2, <2>3, <2>4, <2>5, <2>6
  <1>2. CASE a = LoadedActive /\ c = Evict(LoadedCache, a) /\ b = FALSE
    <2> DEFINE L == DOMAIN LoadedCache
               D == DOMAIN c
    <2>1. L = DOMAIN table \cup DOMAIN cache /\ L \in SUBSET KeyIds
      BY <1>t, LoadedCacheIs
    <2>2. /\ D \in SUBSET L
          /\ a \in L => a \in D
          /\ Cardinality(D) <= MaxCached
          /\ \A i \in D : c[i] = LoadedCache[i]
          /\ \A i \in L \ D : Cardinality(D) = MaxCached /\ \A k \in D \ {a} : i < k
      BY <1>2, <2>1, EvictKeeps
    <2>3. \A i \in D : c[i] = IF i \in DOMAIN table THEN table[i] ELSE cache[i]
      BY <2>1, <2>2, LoadedCacheIs
    <2>4. /\ DOMAIN table # {} => a \in DOMAIN table /\ \A i \in DOMAIN table : i <= a
          /\ DOMAIN table = {} => a = activeId
      BY <1>2, LoadedActiveIs
    <2>5. a \in D \/ (a = NoKey /\ pc = "starting" /\ D = {})
      <3>1. CASE DOMAIN table # {}
        BY <2>1, <2>2, <2>4, <3>1
      <3>2. CASE DOMAIN table = {} /\ pc = "idle"
        BY <2>1, <2>2, <2>4, <3>2 DEF RotationInv, InUse
      <3>3. CASE DOMAIN table = {} /\ pc = "starting"
        BY <2>1, <2>2, <2>4, <3>3 DEF RotationInv, InUse
      <3> QED
        BY <3>1, <3>2, <3>3
    <2>6. ASSUME NEW i \in D, a # NoKey PROVE i <= a + 1 /\ (pc = "starting" => i <= a)
      <3>1. CASE i \in DOMAIN table
        BY <1>t, <1>k, <2>4, <3>1
      <3>2. CASE i \in DOMAIN cache
        <4>1. pc = "idle"
          BY <3>2 DEF RotationInv, InUse
        <4>2. i <= activeId /\ Anchored(activeId)
          BY <3>2, <4>1 DEF RotationInv, InUse
        <4>3. activeId <= a + 1
          <5>1. CASE DOMAIN table = {}
            BY <1>n, <2>4, <5>1
          <5>2. CASE activeId \in DOMAIN table
            BY <1>n, <2>4, <5>2
          <5>3. CASE activeId - 1 \in DOMAIN table
            BY <1>n, <2>4, <5>3
          <5> QED
            BY <4>2, <5>1, <5>2, <5>3 DEF Anchored
        <4>4. a \in DOMAIN table \cup DOMAIN cache
          BY <2>1, <2>2, <2>5, <4>1
        <4>5. a \in Int /\ i \in Int /\ activeId \in Int
          BY <1>n, <3>2, <4>4
        <4> QED
          BY <1>n, <3>2, <4>1, <4>2, <4>3, <4>5
      <3> QED
        BY <2>1, <2>2, <3>1, <3>2
    <2>7. ASSUME NEW n \in DOMAIN table \ D
          PROVE  MaxCached - 1 <= Cardinality({i \in DOMAIN table \cup D : n < i} \ {a + 1})
      <3> DEFINE S == {i \in DOMAIN table \cup D : n < i}
      <3>1. Cardinality(D) = MaxCached /\ \A k \in D \ {a} : n < k
        BY <2>1, <2>2, <2>7
      <3>2. a \in DOMAIN table /\ n < a
        <4>1. a \in DOMAIN table /\ n <= a
          BY <2>4, <2>7
        <4>2. a \in D
          BY <2>1, <2>2, <4>1
        <4>3. n \in Int /\ a \in Int /\ n # a
          BY <1>n, <2>7, <4>1, <4>2
        <4> QED
          BY <4>1, <4>3
      <3>3. D \in SUBSET S
        BY <3>1, <3>2
      <3>4. S \in SUBSET KeyIds
        BY <1>t, <2>1, <2>2
      <3> HIDE DEF S, D
      <3>5. IsFiniteSet(S) /\ Cardinality(S) \in Nat /\ MaxCached <= Cardinality(S)
        BY <3>1, <3>3, <3>4, IdsFinite, FS_Subset
      <3>6. Cardinality(S) - 1 <= Cardinality(S \ {a + 1})
        BY <3>5, OneLess
      <3>7. S \ {a + 1} \in SUBSET KeyIds
        BY <3>4
      <3>8. Cardinality(S \ {a + 1}) \in Nat
        BY <3>7, IdsFinite
      <3>9. MaxCached - 1 <= Cardinality(S \ {a + 1})
        BY <1>m, <3>5, <3>6, <3>8
      <3> QED
        BY <3>9 DEF S
    <2>8. b = FALSE
      BY <1>2
    <2> QED
      BY <1>t, <1>k, <2>1, <2>2, <2>3, <2>4, <2>5, <2>6, <2>7, <2>8
  <1> QED
    BY <1>1, <1>2 DEF LoadKeys

(* The types of the state, in the form the steps need. *)
LEMMA RotationTypes ==
  ASSUME RotationInv
  PROVE  /\ made \in Nat /\ made <= MaxDeks /\ MaxDeks \in Nat
         /\ MaxCached \in Nat /\ MaxCached >= 2
         /\ activeId \in Nat /\ old \in Nat
         /\ \A i \in KeyIds : i \in Nat /\ i > 0 /\ i <= MaxDeks
         /\ \A i \in DOMAIN table : i \in KeyIds /\ table[i] \in Deks
         /\ \A i \in DOMAIN cache : i \in KeyIds /\ cache[i] \in Deks
         /\ \A d \in Deks : d \in Nat
         /\ \A n : n \in Nat /\ n > 0 /\ n <= MaxDeks => n \in Deks /\ n \in KeyIds
  <1>1. MaxDeks \in Nat /\ MaxCached \in Nat /\ MaxCached >= 2 /\ NoKey = 0
    BY KeyRotationAssumption DEF NoKey
  <1>2. \A i \in KeyIds : i \in Nat /\ i > 0 /\ i <= MaxDeks
    BY <1>1 DEF KeyIds
  <1>3. \A d \in Deks : d \in Nat
    BY <1>1 DEF Deks
  <1>4. \A n : n \in Nat /\ n > 0 /\ n <= MaxDeks => n \in Deks /\ n \in KeyIds
    BY <1>1 DEF Deks, KeyIds
  <1>5. /\ \A i \in DOMAIN table : i \in KeyIds /\ table[i] \in Deks
        /\ \A i \in DOMAIN cache : i \in KeyIds /\ cache[i] \in Deks
    BY DEF RotationInv, RotationTypeOK, Cached
  <1>6. activeId \in KeyIds \cup {NoKey} /\ old \in KeyIds \cup {NoKey}
    BY <1>5 DEF RotationInv, RotationTypeOK
  <1>7. activeId \in Nat /\ old \in Nat
    BY <1>1, <1>2, <1>6
  <1>8. made \in Nat /\ made <= MaxDeks
    BY <1>1 DEF RotationInv, RotationTypeOK
  <1> QED
    BY <1>1, <1>2, <1>3, <1>4, <1>5, <1>7, <1>8

(* What is loaded is numbered like what it comes from. *)
LEMMA LoadedNumbered ==
  ASSUME RotationInv, NEW c, DOMAIN c \in SUBSET (DOMAIN table \cup DOMAIN cache),
         \A i \in DOMAIN c : c[i] = IF i \in DOMAIN table THEN table[i] ELSE cache[i]
  PROVE  \A i \in DOMAIN c : /\ i \in KeyIds /\ c[i] \in Deks
                             /\ i <= made /\ c[i] <= made
                             /\ i \in DOMAIN table => c[i] = table[i]
  <1> TAKE i \in DOMAIN c
  <1>1. CASE i \in DOMAIN table
    BY <1>1, RotationTypes DEF RotationInv, KeysNumbered
  <1>2. CASE i \notin DOMAIN table
    BY <1>2, RotationTypes DEF RotationInv, KeysNumbered
  <1> QED
    BY <1>1, <1>2

(* The first key, or those found in the table. *)
LEMMA CreateInitialKeeps == RotationInv /\ CreateInitial => RotationInv'
  <1> SUFFICES ASSUME RotationInv, CreateInitial PROVE RotationInv'
    OBVIOUS
  <1> DEFINE id == IF DOMAIN table = {} THEN 1 ELSE Newest(DOMAIN table) + 1
  <1>1. PICK c \in {cache, Evict(LoadedCache, LoadedActive)}, a \in {activeId, LoadedActive},
             b \in BOOLEAN :
          /\ LoadKeys(c, a, b)
          /\ blind' = b
          /\ IF a # NoKey
             THEN cache' = c /\ activeId' = a /\ UNCHANGED <<table, activeIds, made>>
             ELSE /\ made < MaxDeks
                  /\ made' = made + 1
                  /\ cache' = With(c, id, made')
                  /\ activeId' = id
                  /\ \/ /\ table' = With(table, id, made')
                        /\ activeIds' = activeIds \cup {id}
                     \/ /\ "writeError" \in RotationFaults
                        /\ UNCHANGED <<table, activeIds>>
    BY DEF CreateInitial
  <1>2. pc = "starting" /\ pc' = "idle" /\ UNCHANGED <<rowKey, old, staged>>
    BY DEF CreateInitial
  <1> HIDE DEF id
  <1>3. /\ DOMAIN c \in SUBSET (DOMAIN table \cup DOMAIN cache)
        /\ Cardinality(DOMAIN c) <= MaxCached
        /\ \A i \in DOMAIN c : c[i] = IF i \in DOMAIN table THEN table[i] ELSE cache[i]
        /\ a \in DOMAIN c \/ (a = NoKey /\ DOMAIN c = {})
        /\ a # NoKey => /\ DOMAIN table = {} \/ a \in DOMAIN table \/ (b /\ a - 1 \in DOMAIN table)
                        /\ \A i \in DOMAIN table : i <= a
        /\ \A i \in DOMAIN c : i <= a
        /\ ~b => /\ a = NoKey => DOMAIN table = {}
                 /\ \A n \in DOMAIN table \ DOMAIN c :
                       MaxCached - 1 <=
                          Cardinality({i \in DOMAIN table \cup DOMAIN c : n < i} \ {a + 1})
    BY <1>1, <1>2, LoadKeysGives
  <1>4. \A i \in DOMAIN c : /\ i \in KeyIds /\ c[i] \in Deks
                            /\ i <= made /\ c[i] <= made
                            /\ i \in DOMAIN table => c[i] = table[i]
    BY <1>3, LoadedNumbered
  <1>5. CASE a # NoKey
    <2>1. cache' = c /\ activeId' = a /\ UNCHANGED <<table, activeIds, made>>
      BY <1>1, <1>5
    <2>2. RotationTypeOK'
      BY <1>1, <1>2, <1>3, <1>4, <2>1 DEF RotationInv, RotationTypeOK, Cached
    <2>3. KeysNumbered' /\ NewestActive' /\ RowsKept'
      BY <1>2, <1>4, <2>1 DEF RotationInv, KeysNumbered, NewestActive, RowsKept
    <2>4. InUse'
      BY <1>1, <1>2, <1>3, <1>5, <2>1 DEF InUse, Anchored, Rotating
    <2>5. EvictedLast'
      <3> SUFFICES ASSUME ~b, NEW n \in DOMAIN table \ DOMAIN c
                   PROVE  MaxCached - 1 <= Cardinality(Above(n)')
        BY <1>1, <2>1 DEF EvictedLast
      <3> DEFINE S == {i \in DOMAIN table \cup DOMAIN c : n < i} \ {a + 1}
      <3>1. a \in DOMAIN table
        BY <1>3, <1>5
      <3>2. S \in SUBSET Above(n)' /\ Above(n)' \in SUBSET KeyIds
        BY <1>4, <2>1, <3>1, RotationTypes DEF Above
      <3>3. MaxCached - 1 <= Cardinality(S)
        BY <1>3
      <3> HIDE DEF S
      <3>4. /\ Cardinality(S) <= Cardinality(Above(n)')
            /\ Cardinality(S) \in Nat /\ Cardinality(Above(n)') \in Nat
        BY <3>2, IdsFinite, FS_Subset
      <3> QED
        BY <3>3, <3>4, RotationTypes
    <2> QED
      BY <2>2, <2>3, <2>4, <2>5 DEF RotationInv
  <1>6. CASE a = NoKey
    <2>1. /\ made < MaxDeks /\ made' = made + 1
          /\ cache' = With(c, id, made') /\ activeId' = id
          /\ \/ table' = With(table, id, made') /\ activeIds' = activeIds \cup {id}
             \/ UNCHANGED <<table, activeIds>>
      BY <1>1, <1>6
    <2>2. DOMAIN c = {}
      BY <1>3, <1>4, <1>6, RotationTypes DEF NoKey
    <2>3. /\ id \in Nat /\ id > 0 /\ id <= made + 1
          /\ \A i \in DOMAIN table : i < id
          /\ DOMAIN table # {} => id - 1 \in DOMAIN table
      <3>1. CASE DOMAIN table = {}
        BY <3>1, RotationTypes DEF id
      <3>2. CASE DOMAIN table # {}
        <4>1. /\ Newest(DOMAIN table) \in DOMAIN table
              /\ \A i \in DOMAIN table : i <= Newest(DOMAIN table)
          BY <3>2, NewestIs DEF RotationInv, RotationTypeOK
        <4>2. Newest(DOMAIN table) \in Nat /\ Newest(DOMAIN table) <= made
          BY <4>1, RotationTypes DEF RotationInv, KeysNumbered
        <4>3. id = Newest(DOMAIN table) + 1
          BY <3>2 DEF id
        <4> QED
          BY <4>1, <4>2, <4>3, RotationTypes
      <3> QED
        BY <3>1, <3>2
    <2>4. id \in KeyIds /\ made' \in Deks /\ made' \in Nat /\ made' \in 0..MaxDeks
      BY <2>1, <2>3, RotationTypes
    <2>5. /\ DOMAIN cache' = {id} /\ cache'[id] = made'
      BY <2>1, <2>2 DEF With
    <2>6. Cardinality(DOMAIN cache') <= MaxCached
      BY <2>5, FS_Singleton, RotationTypes
    <2>7. /\ \A i \in DOMAIN table : i # id /\ i \in DOMAIN table' /\ table'[i] = table[i]
          /\ DOMAIN table' \in {DOMAIN table, DOMAIN table \cup {id}}
          /\ id \in DOMAIN table' => table'[id] = made'
          /\ activeIds' = IF id \in DOMAIN table' THEN activeIds \cup {id} ELSE activeIds
      <3>1. \A i \in DOMAIN table : i # id
        BY <2>3, RotationTypes
      <3>2. CASE table' = With(table, id, made') /\ activeIds' = activeIds \cup {id}
        BY <3>1, <3>2 DEF With
      <3>3. CASE UNCHANGED <<table, activeIds>>
        BY <3>1, <3>3
      <3> QED
        BY <2>1, <3>2, <3>3
    <2>8. \A i \in DOMAIN table' : /\ i \in KeyIds /\ table'[i] \in Deks
                                   /\ i <= made' /\ table'[i] <= made'
      <3> TAKE i \in DOMAIN table'
      <3>1. CASE i = id
        BY <2>1, <2>3, <2>4, <2>7, <3>1
      <3>2. CASE i \in DOMAIN table
        BY <2>1, <2>7, <3>2, RotationTypes DEF RotationInv, KeysNumbered
      <3> QED
        BY <2>7, <3>1, <3>2
    <2>9. RotationTypeOK'
      BY <1>1, <1>2, <2>1, <2>4, <2>5, <2>6, <2>7, <2>8
         DEF RotationInv, RotationTypeOK, Cached
    <2>10. KeysNumbered'
      <3>1. \A i, k \in DOMAIN table' : table'[i] = table'[k] => i = k
        <4>1. \A i \in DOMAIN table : table[i] # made'
          BY <2>1, RotationTypes DEF RotationInv, KeysNumbered
        <4> QED
          BY <2>7, <4>1 DEF RotationInv, KeysNumbered
      <3>2. \A i \in DOMAIN cache' : i <= made' /\ cache'[i] <= made'
        BY <2>1, <2>3, <2>4, <2>5
      <3> QED
        BY <2>5, <2>7, <2>8, <3>1, <3>2 DEF KeysNumbered
    <2>11. NewestActive'
      <3>1. CASE id \in DOMAIN table'
        <4>1. \A i \in DOMAIN table' : i <= id
          BY <2>3, <2>7, RotationTypes
        <4> QED
          BY <2>7, <3>1, <4>1 DEF NewestActive
      <3>2. CASE id \notin DOMAIN table'
        BY <2>7, <3>2 DEF RotationInv, NewestActive
      <3> QED
        BY <3>1, <3>2
    <2>12. InUse'
      <3>1. \A i \in DOMAIN cache' \cup DOMAIN table' : i <= id
        BY <2>3, <2>5, <2>7, RotationTypes
      <3>2. Anchored(activeId)'
        BY <1>1, <1>3, <1>6, <2>1, <2>3, <2>7 DEF Anchored
      <3> QED
        BY <1>2, <2>1, <2>5, <3>1, <3>2 DEF InUse, Rotating
    <2>13. EvictedLast'
      <3>1. b \/ DOMAIN table' \in SUBSET {id}
        BY <1>1, <1>3, <1>6, <2>7
      <3> QED
        BY <1>1, <2>5, <3>1 DEF EvictedLast
    <2>14. RowsKept'
      BY <1>2, <2>7 DEF RotationInv, RowsKept, Cached
    <2> QED
      BY <2>9, <2>10, <2>11, <2>12, <2>13, <2>14 DEF RotationInv
  <1> QED
    BY <1>5, <1>6

(* A new key takes a place in memory: what it displaces has MaxCached - 1
   newer keys left, and the key of the last rotation is not displaced. *)
LEMMA BeginRotationKeeps == RotationInv /\ BeginRotation => RotationInv'
  <1> SUFFICES ASSUME RotationInv, BeginRotation PROVE RotationInv'
    OBVIOUS
  <1>1. PICK c \in {cache, Evict(LoadedCache, LoadedActive)}, a \in {activeId, LoadedActive},
             b \in BOOLEAN :
          /\ LoadKeys(c, a, b)
          /\ a \in DOMAIN c
          /\ blind' = b
          /\ old' = a
          /\ activeId' = a + 1
          /\ made' = made + 1
          /\ cache' = Evict(With(c, a + 1, made'), a + 1)
    BY DEF BeginRotation
  <1>2. /\ pc = "idle" /\ pc' = "apiKeys" /\ made < MaxDeks
        /\ UNCHANGED <<rowKey, table, activeIds, staged>>
    BY DEF BeginRotation, inDatabase
  <1>3. /\ DOMAIN c \in SUBSET (DOMAIN table \cup DOMAIN cache)
        /\ Cardinality(DOMAIN c) <= MaxCached
        /\ \A i \in DOMAIN c : c[i] = IF i \in DOMAIN table THEN table[i] ELSE cache[i]
        /\ a # NoKey => /\ DOMAIN table = {} \/ a \in DOMAIN table \/ (b /\ a - 1 \in DOMAIN table)
                        /\ \A i \in DOMAIN table : i <= a
                        /\ \A i \in DOMAIN c : i <= a + 1
        /\ ~b => \A n \in DOMAIN table \ DOMAIN c :
                    MaxCached - 1 <=
                       Cardinality({i \in DOMAIN table \cup DOMAIN c : n < i} \ {a + 1})
    BY <1>1, <1>2, LoadKeysGives
  <1>4. \A i \in DOMAIN c : /\ i \in KeyIds /\ c[i] \in Deks
                            /\ i <= made /\ c[i] <= made
                            /\ i \in DOMAIN table => c[i] = table[i]
    BY <1>3, LoadedNumbered
  <1>5. a \in KeyIds /\ a <= made /\ a \in Nat /\ a # NoKey
    BY <1>1, <1>4, RotationTypes DEF NoKey
  <1>6. /\ a + 1 \in KeyIds /\ a + 1 <= made' /\ a + 1 \in Nat
        /\ made' \in Deks /\ made' \in Nat /\ made' \in 0..MaxDeks
    BY <1>1, <1>2, <1>5, RotationTypes
  <1>7. \A i \in DOMAIN table : i \in Nat /\ i <= a /\ i # a + 1
    <2>1. \A i \in DOMAIN table : i \in Nat
      BY RotationTypes
    <2>2. \A i \in DOMAIN table : i <= a
      BY <1>3, <1>5
    <2> QED
      BY <1>5, <2>1, <2>2
  <1> DEFINE d == With(c, a + 1, made')
             D == DOMAIN cache'
  <1>8. /\ DOMAIN d = DOMAIN c \cup {a + 1} /\ d[a + 1] = made'
        /\ \A i \in DOMAIN c \ {a + 1} : d[i] = c[i]
    BY DEF With
  <1>9. DOMAIN d \in SUBSET KeyIds
    BY <1>4, <1>6, <1>8
  <1>10. cache' = Evict(d, a + 1)
    BY <1>1
  <1> HIDE DEF d
  <1>11. /\ D \in SUBSET (DOMAIN c \cup {a + 1})
         /\ a + 1 \in D
         /\ Cardinality(D) <= MaxCached
         /\ \A i \in D : cache'[i] = d[i]
         /\ \A i \in (DOMAIN c \cup {a + 1}) \ D :
               Cardinality(D) = MaxCached /\ \A k \in D \ {a + 1} : i < k
    BY <1>8, <1>9, <1>10, EvictKeeps
  <1>12. \A i \in D : /\ i \in KeyIds /\ i \in Nat /\ i <= a + 1 /\ i <= made'
                      /\ cache'[i] \in Deks /\ cache'[i] <= made'
                      /\ i \in DOMAIN table => cache'[i] = table[i]
    <2> TAKE i \in D
    <2>1. CASE i = a + 1
      BY <1>6, <1>7, <1>8, <1>11, <2>1
    <2>2. CASE i # a + 1
      <3>1. i \in DOMAIN c /\ cache'[i] = c[i]
        BY <1>8, <1>11, <2>2
      <3>2. i \in KeyIds /\ i \in Nat /\ i <= a + 1 /\ i <= made /\ c[i] <= made /\ c[i] \in Nat
        BY <1>3, <1>4, <1>5, <3>1, RotationTypes
      <3>3. made <= made' /\ made \in Nat
        BY <1>1, RotationTypes
      <3> QED
        BY <1>4, <1>6, <3>1, <3>2, <3>3
    <2> QED
      BY <2>1, <2>2
  <1> HIDE DEF D
  <1>13. IsFiniteSet(D) /\ D \in SUBSET KeyIds /\ Cardinality(D) \in Nat
    <2>1. D \in SUBSET KeyIds
      BY <1>12
    <2> QED
      BY <2>1, IdsFinite
  <1>14. Cardinality(D) = MaxCached => MaxCached - 1 <= Cardinality(D \ {a + 1})
    BY <1>13, OneLess
  <1>15. a \in D
    <2> SUFFICES ASSUME a \notin D PROVE FALSE
      OBVIOUS
    <2>1. Cardinality(D) = MaxCached /\ \A k \in D \ {a + 1} : a < k
      BY <1>1, <1>11
    <2>2. D \ {a + 1} = {}
      BY <1>5, <1>12, <2>1
    <2>3. Cardinality(D \ {a + 1}) = 0
      BY <2>2, FS_EmptySet
    <2> QED
      BY <1>14, <2>1, <2>3, RotationTypes
  <1>16. RotationTypeOK'
    BY <1>1, <1>2, <1>5, <1>6, <1>11, <1>12 DEF RotationInv, RotationTypeOK, Cached, D
  <1>17. KeysNumbered'
    <2>1. \A i \in DOMAIN table : i <= made' /\ table[i] <= made'
      <3>1. \A i \in DOMAIN table : i \in Nat /\ table[i] \in Nat
        BY RotationTypes
      <3> QED
        BY <1>1, <3>1, RotationTypes DEF RotationInv, KeysNumbered
    <2> QED
      BY <1>2, <1>12, <2>1 DEF RotationInv, KeysNumbered, D
  <1>18. NewestActive' /\ RowsKept'
    BY <1>2 DEF RotationInv, NewestActive, RowsKept
  <1>19. InUse'
    <2>1. \A i \in DOMAIN table : i <= a /\ table[i] < made'
      <3>1. \A i \in DOMAIN table : table[i] \in Nat /\ table[i] <= made
        BY RotationTypes DEF RotationInv, KeysNumbered
      <3> QED
        BY <1>1, <1>7, <3>1, RotationTypes
    <2>2. cache'[a + 1] = made'
      BY <1>8, <1>11
    <2>3. Anchored(old)'
      BY <1>1, <1>2, <1>3, <1>5 DEF Anchored
    <2> QED
      BY <1>1, <1>2, <1>11, <1>12, <1>15, <2>1, <2>2, <2>3 DEF InUse, Rotating, D
  <1>20. EvictedLast'
    <2> SUFFICES ASSUME ~b, NEW n \in DOMAIN table \ D
                 PROVE  MaxCached - 1 <= Cardinality(Above(n)')
      BY <1>1, <1>2 DEF EvictedLast, D
    <2> DEFINE A == Above(n)'
    <2>1. A = {i \in DOMAIN table \cup (D \ {a + 1}) : n < i}
      BY <1>1, <1>2 DEF Above, D
    <2>2. A \in SUBSET KeyIds
      BY <1>13, <2>1, RotationTypes
    <2>3. n \in Nat
      BY <1>7
    <2> HIDE DEF A
    <2> SUFFICES MaxCached - 1 <= Cardinality(A)
      BY DEF A
    <2>4. ASSUME NEW S \in SUBSET A, MaxCached - 1 <= Cardinality(S)
          PROVE  MaxCached - 1 <= Cardinality(A)
      <3>1. IsFiniteSet(A) /\ Cardinality(A) \in Nat /\ S \in SUBSET KeyIds
        BY <2>2, IdsFinite
      <3>2. Cardinality(S) \in Nat /\ Cardinality(S) <= Cardinality(A)
        BY <3>1, IdsFinite, FS_Subset
      <3> QED
        BY <2>4, <3>1, <3>2, RotationTypes
    <2>5. ASSUME NEW i \in DOMAIN c \ D, n <= i
          PROVE  MaxCached - 1 <= Cardinality(A)
      <3>1. Cardinality(D) = MaxCached /\ \A k \in D \ {a + 1} : i < k
        BY <1>11, <2>5
      <3>2. i \in Nat
        BY <1>4, <2>5, RotationTypes
      <3>3. D \ {a + 1} \in SUBSET A
        BY <1>12, <2>1, <2>3, <2>5, <3>1, <3>2
      <3> QED
        BY <1>14, <2>4, <3>1, <3>3
    <2>6. CASE n \in DOMAIN c
      BY <2>3, <2>5, <2>6
    <2>7. CASE n \notin DOMAIN c
      <3> DEFINE S == {i \in DOMAIN table \cup DOMAIN c : n < i} \ {a + 1}
      <3>1. MaxCached - 1 <= Cardinality(S)
        BY <1>3, <2>7
      <3>2. CASE S \in SUBSET A
        <4> HIDE DEF S
        <4> QED
          BY <2>4, <3>1, <3>2
      <3>3. CASE ~(S \in SUBSET A)
        <4>1. PICK i \in S : i \notin A
          BY <3>3
        <4>2. n < i /\ i \in DOMAIN c \ D
          BY <2>1, <4>1
        <4>3. i \in Nat
          BY <1>4, <4>2, RotationTypes
        <4> QED
          BY <2>3, <2>5, <4>2, <4>3
      <3> QED
        BY <3>2, <3>3
    <2> QED
      BY <2>6, <2>7
  <1> QED
    BY <1>16, <1>17, <1>18, <1>19, <1>20 DEF RotationInv

(* Re-encrypting changes nothing but the transaction. *)
LEMMA StagingKeeps ==
  ASSUME RotationInv, Rotating, Rotating',
         staged' \in SUBSET Rows,
         UNCHANGED <<inDatabase, cache, activeId, old, blind, made>>
  PROVE  RotationInv'
  <1>1. UNCHANGED <<rowKey, table, activeIds, cache, activeId, old, blind, made>>
    BY DEF inDatabase
  <1>2. RotationTypeOK'
    BY <1>1 DEF RotationInv, RotationTypeOK, Rotating
  <1>3. KeysNumbered' /\ NewestActive' /\ RowsKept'
    BY <1>1 DEF RotationInv, KeysNumbered, NewestActive, RowsKept
  <1>4. InUse'
    BY <1>1 DEF RotationInv, InUse, Anchored, Rotating
  <1>5. EvictedLast'
    BY <1>1 DEF RotationInv, EvictedLast, Above
  <1> QED
    BY <1>2, <1>3, <1>4, <1>5 DEF RotationInv

(* The commit adds the key and hands the rows over to it. *)
LEMMA RotationCommits == RotationInv /\ PersistRotation => RotationInv'
  <1> SUFFICES ASSUME RotationInv, PersistRotation PROVE RotationInv'
    OBVIOUS
  <1>1. /\ pc = "persisting" /\ pc' = "idle" /\ staged' = {}
        /\ rowKey' = [r \in Rows |-> IF r \in staged THEN cache[activeId] ELSE rowKey[r]]
        /\ table' = With(table, activeId, cache[activeId])
        /\ activeIds' = (activeIds \ {old}) \cup {activeId}
        /\ UNCHANGED <<cache, activeId, old, blind, made>>
    BY DEF PersistRotation
  <1>2. /\ activeId = old + 1 /\ activeId \in DOMAIN cache
        /\ \A i \in DOMAIN table : i <= old /\ table[i] < cache[activeId]
        /\ \A i \in DOMAIN cache : i <= activeId
    BY <1>1 DEF RotationInv, InUse, Rotating
  <1>3. /\ DOMAIN table' = DOMAIN table \cup {activeId}
        /\ table'[activeId] = cache[activeId]
        /\ \A i \in DOMAIN table : i # activeId /\ i < activeId /\ table'[i] = table[i]
    <2>1. \A i \in DOMAIN table : i # activeId /\ i < activeId
      BY <1>2, RotationTypes
    <2> QED
      BY <1>1, <2>1 DEF With
  <1>4. RotationTypeOK'
    <2>1. rowKey' \in [Rows -> Deks \cup {KEK}]
      BY <1>1, <1>2, RotationTypes DEF RotationInv, RotationTypeOK
    <2>2. DOMAIN table' \in SUBSET KeyIds /\ Cached(table)' \in SUBSET Deks
      BY <1>2, <1>3, RotationTypes DEF Cached
    <2> QED
      BY <1>1, <1>3, <2>1, <2>2 DEF RotationInv, RotationTypeOK
  <1>5. KeysNumbered'
    <2>1. \A i \in DOMAIN table : table[i] # cache[activeId]
      BY <1>2, RotationTypes
    <2>2. \A i, k \in DOMAIN table' : table'[i] = table'[k] => i = k
      BY <1>3, <2>1 DEF RotationInv, KeysNumbered
    <2> QED
      BY <1>1, <1>2, <1>3, <2>2 DEF RotationInv, KeysNumbered
  <1>6. NewestActive'
    BY <1>1, <1>3, RotationTypes DEF NewestActive
  <1>7. InUse'
    <2>1. \A i \in DOMAIN cache' \cup DOMAIN table' : i <= activeId
      BY <1>1, <1>2, <1>3, RotationTypes
    <2> QED
      BY <1>1, <1>2, <1>3, <2>1 DEF InUse, Anchored, Rotating
  <1>8. EvictedLast'
    <2> SUFFICES ASSUME ~blind, NEW n \in DOMAIN table \ DOMAIN cache
                 PROVE  MaxCached - 1 <= Cardinality(Above(n)')
      BY <1>1, <1>2, <1>3 DEF EvictedLast
    <2>1. Above(n) \in SUBSET Above(n)' /\ Above(n)' \in SUBSET KeyIds
      BY <1>1, <1>2, <1>3, RotationTypes DEF Above
    <2>2. /\ Cardinality(Above(n)) <= Cardinality(Above(n)')
          /\ Cardinality(Above(n)) \in Nat /\ Cardinality(Above(n)') \in Nat
      BY <2>1, IdsFinite, FS_Subset
    <2>3. MaxCached - 1 <= Cardinality(Above(n))
      BY DEF RotationInv, EvictedLast
    <2> QED
      BY <2>2, <2>3, RotationTypes
  <1>9. RowsKept'
    <2> SUFFICES ASSUME NEW r \in Rows PROVE rowKey'[r] \in Cached(table)' \cup {KEK}
      BY DEF RowsKept
    <2>1. CASE r \in staged
      BY <1>1, <1>3, <2>1 DEF Cached
    <2>2. CASE r \notin staged
      BY <1>1, <1>3, <2>2 DEF RotationInv, RowsKept, Cached
    <2> QED
      BY <2>1, <2>2
  <1> QED
    BY <1>4, <1>5, <1>6, <1>7, <1>8, <1>9 DEF RotationInv

(* After a failure the old key is in use again; it is in the table, if one was
   read, so it still counts among the newer ones. *)
LEMMA FailureKeeps == RotationInv /\ RotationFails => RotationInv'
  <1> SUFFICES ASSUME RotationInv, RotationFails PROVE RotationInv'
    OBVIOUS
  <1>1. /\ Rotating /\ pc' = "idle" /\ staged' = {}
        /\ activeId' = old
        /\ cache' = [i \in DOMAIN cache \ {activeId} |-> cache[i]]
        /\ UNCHANGED <<rowKey, table, activeIds, old, blind, made>>
    BY DEF RotationFails, Rotating, inDatabase
  <1>2. /\ activeId = old + 1 /\ old \in DOMAIN cache /\ activeId \in DOMAIN cache
        /\ Anchored(old)
        /\ \A i \in DOMAIN table : i <= old
        /\ \A i \in DOMAIN cache : i <= activeId
    BY <1>1 DEF RotationInv, InUse
  <1>3. DOMAIN cache' = DOMAIN cache \ {activeId} /\ \A i \in DOMAIN cache' : cache'[i] = cache[i]
    BY <1>1
  <1>4. old # activeId /\ activeId \notin DOMAIN table
    BY <1>2, RotationTypes
  <1>5. RotationTypeOK'
    <2>1. Cardinality(DOMAIN cache') <= MaxCached
      <3>1. /\ IsFiniteSet(DOMAIN cache) /\ Cardinality(DOMAIN cache) \in Nat
            /\ Cardinality(DOMAIN cache) <= MaxCached
        BY IdsFinite DEF RotationInv, RotationTypeOK
      <3>2. DOMAIN cache' \in SUBSET DOMAIN cache /\ DOMAIN cache' \in SUBSET KeyIds
        BY <1>3, RotationTypes
      <3>3. Cardinality(DOMAIN cache') <= Cardinality(DOMAIN cache) /\ Cardinality(DOMAIN cache') \in Nat
        BY <3>1, <3>2, FS_Subset, IdsFinite
      <3> QED
        BY <3>1, <3>3, RotationTypes
    <2>2. Cached(cache)' \in SUBSET Deks /\ DOMAIN cache' \in SUBSET KeyIds
      BY <1>3, RotationTypes DEF Cached
    <2>3. activeId' \in DOMAIN cache'
      BY <1>1, <1>2, <1>3, <1>4
    <2> QED
      BY <1>1, <2>1, <2>2, <2>3 DEF RotationInv, RotationTypeOK
  <1>6. KeysNumbered'
    BY <1>1, <1>3 DEF RotationInv, KeysNumbered
  <1>7. NewestActive' /\ RowsKept'
    BY <1>1 DEF RotationInv, NewestActive, RowsKept
  <1>8. InUse'
    <2>1. \A i \in DOMAIN cache' : i <= old
      BY <1>2, <1>3, RotationTypes
    <2> QED
      BY <1>1, <1>2, <1>3, <1>4, <2>1 DEF InUse, Anchored, Rotating
  <1>9. EvictedLast'
    <2> SUFFICES ASSUME ~blind, NEW n \in DOMAIN table \ DOMAIN cache'
                 PROVE  MaxCached - 1 <= Cardinality(Above(n)')
      BY <1>1 DEF EvictedLast
    <2>1. n \in DOMAIN table \ DOMAIN cache
      BY <1>3, <1>4
    <2>2. old \in DOMAIN table
      BY <1>2, <2>1 DEF Anchored
    <2>3. Above(n)' = Above(n)
      BY <1>1, <1>3, <1>4, <2>2 DEF Above
    <2> QED
      BY <2>1, <2>3 DEF RotationInv, EvictedLast
  <1> QED
    BY <1>5, <1>6, <1>7, <1>8, <1>9 DEF RotationInv

(* Nothing is in memory or in the table. *)
LEMMA InitRotation == RotationInit => RotationInv
  <1> SUFFICES ASSUME RotationInit PROVE RotationInv
    OBVIOUS
  <1>1. /\ DOMAIN table = {} /\ DOMAIN cache = {} /\ activeIds = {} /\ pc = "starting"
        /\ activeId = NoKey /\ old = NoKey /\ staged = {} /\ blind = TRUE /\ made = 0
        /\ rowKey = [r \in Rows |-> KEK]
    BY DEF RotationInit
  <1>2. Cardinality(DOMAIN cache) <= MaxCached
    BY <1>1, FS_EmptySet, KeyRotationAssumption
  <1>3. RotationTypeOK
    BY <1>1, <1>2, KeyRotationAssumption DEF RotationTypeOK, Cached
  <1> QED
    BY <1>1, <1>3
       DEF RotationInv, KeysNumbered, NewestActive, InUse, EvictedLast, RowsKept, Rotating

(* The same state. *)
LEMMA StutterRotation == RotationInv /\ UNCHANGED rotationVars => RotationInv'
  BY DEF RotationInv, RotationTypeOK, KeysNumbered, NewestActive, InUse, Anchored, EvictedLast,
         Above, RowsKept, Rotating, rotationVars, inDatabase, inMemory

(* Every action. *)
LEMMA StepRotation == RotationInv /\ RotationNext => RotationInv'
  <1> SUFFICES ASSUME RotationInv, RotationNext PROVE RotationInv'
    OBVIOUS
  <1>1. CASE CreateInitial
    BY <1>1, CreateInitialKeeps
  <1>2. CASE BeginRotation
    BY <1>2, BeginRotationKeeps
  <1>3. CASE ReEncryptApiKeys
    BY <1>3, StagingKeeps
       DEF ReEncryptApiKeys, ReEncrypt, Rotating, Rows, RotationInv, RotationTypeOK
  <1>4. CASE ReEncryptSlots
    BY <1>4, StagingKeeps
       DEF ReEncryptSlots, ReEncrypt, Rotating, Rows, RotationInv, RotationTypeOK
  <1>5. CASE ReEncryptFails
    BY <1>5, StagingKeeps DEF ReEncryptFails, Rotating, RotationInv, RotationTypeOK
  <1>6. CASE PersistRotation
    BY <1>6, RotationCommits
  <1>7. CASE RotationFails
    BY <1>7, FailureKeeps
  <1>8. ASSUME NEW r \in Rows, OwnerWrites(r) PROVE RotationInv'
    BY <1>8 DEF RotationInv, RotationTypeOK, KeysNumbered, NewestActive, InUse, Anchored,
                EvictedLast, Above, RowsKept, Rotating, OwnerWrites, inMemory
  <1>9. CASE RotationRestart
    <2>1. /\ DOMAIN cache' = {} /\ activeId' = NoKey /\ old' = NoKey /\ staged' = {}
          /\ pc' = "starting" /\ blind' = TRUE
          /\ UNCHANGED <<rowKey, table, activeIds, made>>
      BY <1>9 DEF RotationRestart, inDatabase
    <2>2. Cardinality(DOMAIN cache') <= MaxCached
      BY <2>1, FS_EmptySet, KeyRotationAssumption
    <2> QED
      BY <2>1, <2>2
         DEF RotationInv, RotationTypeOK, KeysNumbered, NewestActive, InUse, EvictedLast,
             RowsKept, Rotating, Cached
  <1> QED
    BY <1>1, <1>2, <1>3, <1>4, <1>5, <1>6, <1>7, <1>8, <1>9 DEF RotationNext

(* What a rotation keeps, whatever fails. *)
THEOREM RotationInductive == RotationSpec => []RotationInv
  BY InitRotation, StutterRotation, StepRotation, PTL DEF RotationSpec

(* Type correctness: the cache never holds more than _MAX_CACHED_DEKS keys. *)
THEOREM RotationTyped == RotationSpec => []RotationTypeOK
  <1>1. RotationInv => RotationTypeOK
    BY DEF RotationInv
  <1> QED
    BY <1>1, RotationInductive, PTL

(* Whatever fails and whenever the process ends, every row of the owner is
   under the KEK or a key of the table, and under one in memory unless it
   missed MaxCached - 1 rotations. *)
THEOREM RowsStayReadable == RotationSpec => []RowsReadable
  <1>1. RotationInv => RowsReadable
    <2> SUFFICES ASSUME RotationInv, NEW r \in Rows, rowKey[r] # KEK
                 PROVE  /\ rowKey[r] \in Cached(table)
                        /\ Cardinality(Newer(rowKey[r])) < MaxCached - 1 /\ ~blind => Readable(r)
      BY DEF RowsReadable
    <2>1. rowKey[r] \in Cached(table)
      BY DEF RotationInv, RowsKept
    <2>2. PICK n \in DOMAIN table : table[n] = rowKey[r]
      BY <2>1 DEF Cached
    <2>3. ASSUME ~blind, ~Readable(r)
          PROVE  ~(Cardinality(Newer(rowKey[r])) < MaxCached - 1)
      <3>1. n \notin DOMAIN cache
        BY <2>2, <2>3 DEF Readable, Cached, RotationInv, KeysNumbered
      <3>2. MaxCached - 1 <= Cardinality(Above(n))
        BY <2>3, <3>1 DEF RotationInv, EvictedLast
      <3>3. Newer(rowKey[r]) = Above(n)
        BY <2>2 DEF Newer, Above, RotationInv, KeysNumbered
      <3>4. Above(n) \in SUBSET KeyIds
        BY RotationTypes DEF Above
      <3>5. Cardinality(Above(n)) \in Nat
        BY <3>4, IdsFinite
      <3> QED
        BY <3>2, <3>3, <3>5, RotationTypes
    <2> QED
      BY <2>1, <2>3
  <1> QED
    BY <1>1, RotationInductive, PTL
-----------------------------------------------------------------------------
(* ProviderKeys: no failure leaves a breaker HALF_OPEN, and a probed key has
   had its cooldown. *)
KeysInv == KeysTypeOK /\ ProbeAfterCooldown

(* A power of two is the number of subsets of a set. *)
LEMMA PowerOfTwo ==
  ASSUME NEW t \in Nat
  PROVE  2^t \in Nat /\ 2^t >= 1
  <1> DEFINE S == 1..t
  <1>1. IsFiniteSet(S) /\ Cardinality(S) = t
    BY FS_Interval
  <1>2. IsFiniteSet(SUBSET S) /\ Cardinality(SUBSET S) = 2^t
    BY <1>1, FS_SUBSET
  <1>3. Cardinality(SUBSET S) \in Nat /\ Cardinality(SUBSET S) # 0
    BY <1>2, FS_CardinalityType, FS_EmptySet
  <1> QED
    BY <1>2, <1>3

(* _restore_cooldowns finds a number of trips for every cooldown there is. *)
LEMMA FittingExists ==
  ASSUME NEW r \in 0..Cap
  PROVE  Fitting(r) \in 0..MaxTripped /\ 2^Fitting(r) >= r
  <1> DEFINE S == {t \in 0..MaxTripped : 2^t >= r}
  <1>1. MaxTripped \in S
    <2>1. MaxTripped \in Nat /\ Cap \in Nat /\ 2^MaxTripped \in Int /\ Cap <= 2^MaxTripped
      BY ProviderKeysAssumption
    <2> QED
      BY <2>1
  <1>2. S \in SUBSET Nat
    BY ProviderKeysAssumption
  <1>3. \E t \in S : \A u \in S : t <= u
    <2> HIDE DEF S
    <2> QED
      BY <1>1, <1>2, Least
  <1>4. \E t \in 0..MaxTripped : 2^t >= r /\ \A u \in 0..MaxTripped : 2^u >= r => t <= u
    BY <1>3
  <1> QED
    BY <1>4 DEF Fitting

LEMMA BackoffBounded ==
  ASSUME NEW t \in 0..MaxTripped
  PROVE  Backoff(t) \in 0..Cap
  <1>1. 2^t \in Nat /\ Cap \in Nat
    BY PowerOfTwo, ProviderKeysAssumption
  <1> QED
    BY <1>1 DEF Backoff, Less

LEMMA FailureShape ==
  ASSUME NEW b \in Breakers
  PROVE  AfterFailure(b) \in Breakers /\ AfterFailure(b).state # "half"
  <1>1. Threshold \in Nat \ {0} /\ MaxTripped \in Nat /\ 0 \in Ages
    BY ProviderKeysAssumption DEF Ages
  <1>2. Less(b.failures + 1, Threshold) \in 0..Threshold
    BY <1>1 DEF Breakers, Less
  <1>3. Less(b.tripped + 1, MaxTripped) \in 0..MaxTripped
    BY <1>1 DEF Breakers, Less
  <1> QED
    BY <1>1, <1>2, <1>3 DEF AfterFailure, Breakers

LEMMA RestoredShape ==
  ASSUME NEW r \in 0..Cap, NEW clock \in Ages
  PROVE  Restored(r, clock) \in Breakers /\ Restored(r, clock).state = "open"
  <1>1. Fitting(r) \in 0..MaxTripped /\ 2^Fitting(r) >= r /\ 2^Fitting(r) \in Int
    BY FittingExists
  <1>2. Less(2^Fitting(r) - r, clock) \in Ages
    <2>1. 2^Fitting(r) - r >= 0 /\ 2^Fitting(r) - r \in Int
      BY <1>1
    <2>2. Cap \in Nat
      BY ProviderKeysAssumption
    <2> QED
      BY <2>1, <2>2 DEF Less, Ages
  <1>3. Threshold \in 0..Threshold
    BY ProviderKeysAssumption
  <1> QED
    BY <1>1, <1>2, <1>3 DEF Restored, Breakers

LEMMA NoBreakerShape == NoBreaker \in Breakers /\ NoBreaker.state # "half"
  BY ProviderKeysAssumption DEF NoBreaker, Breakers, Ages

LEMMA InitKeys == KeysInit => KeysInv
  BY NoBreakerShape, ProviderKeysAssumption
     DEF KeysInit, KeysInv, KeysTypeOK, ProbeAfterCooldown

LEMMA StutterKeys == KeysInv /\ UNCHANGED keyVars => KeysInv'
  BY DEF KeysInv, KeysTypeOK, ProbeAfterCooldown, Elapsed, keyVars, calls

(* Where a call comes to. *)
LEMMA CallShape ==
  ASSUME KeysTypeOK, NEW c \in Askers,
         NEW place \in {"idle", "built", "look", "use", "used", "failed"},
         NEW rest \in SUBSET Slots, NEW k \in Slots \cup {NoSlot},
         NEW debt \in 0..Cap,
         place \in {"use", "used", "failed"} => k \in Slots,
         CallAt(c, place, rest, k, debt)
  PROVE  /\ step' \in [Askers -> {"idle", "built", "look", "use", "used", "failed"}]
         /\ untried' \in [Askers -> SUBSET Slots]
         /\ using' \in [Askers -> Slots \cup {NoSlot}]
         /\ owes' \in [Askers -> 0..Cap]
         /\ \A d \in Askers : step'[d] \in {"use", "used", "failed"} => using'[d] \in Slots
  BY DEF KeysTypeOK, CallAt

LEMMA KeysProbed ==
  ASSUME KeysInv, NEW k \in Slots, NEW b \in Breakers,
         breaker' = [breaker EXCEPT ![k] = b],
         b.state = "half" => Elapsed(b)
  PROVE  breaker' \in [Slots -> Breakers] /\ ProbeAfterCooldown'
  BY DEF KeysInv, KeysTypeOK, ProbeAfterCooldown, Elapsed

LEMMA StepKeys == KeysInv /\ KeysNext => KeysInv'
  <1> SUFFICES ASSUME KeysInv, KeysNext PROVE KeysInv'
    OBVIOUS
  <1>a. Cap \in Nat /\ 0 \in 0..Cap
    BY ProviderKeysAssumption
  <1>b. KeysTypeOK
    BY DEF KeysInv
  <1>1. ASSUME NEW c \in Askers, UseCached(c) PROVE KeysInv'
    <2>1. CallAt(c, "look", provider, NoSlot, 0) /\ provider \in SUBSET Slots
      BY <1>1, <1>b DEF UseCached, KeysTypeOK
    <2> QED
      BY <1>1, <1>a, <1>b, <2>1, CallShape
         DEF UseCached, KeysInv, KeysTypeOK, ProbeAfterCooldown, Elapsed
  <1>2. ASSUME NEW c \in Askers, ReadSlots(c) PROVE KeysInv'
    <2>1. PICK active \in SUBSET Slots : CallAt(c, "built", active, NoSlot, 0)
      BY <1>2 DEF ReadSlots
    <2> QED
      BY <1>2, <1>a, <1>b, <2>1, CallShape
         DEF ReadSlots, KeysInv, KeysTypeOK, ProbeAfterCooldown, Elapsed
  <1>3. ASSUME NEW c \in Askers, RestoreCooldowns(c) PROVE KeysInv'
    <2>1. PICK clock \in Ages :
             breaker' = [k \in Slots |->
                 IF k \in untried[c] /\ cooling[k] > 0 /\ breaker[k].state = "none"
                 THEN Restored(cooling[k], clock)
                 ELSE breaker[k]]
      BY <1>3 DEF RestoreCooldowns
    <2>2. \A k \in Slots : /\ Restored(cooling[k], clock) \in Breakers
                           /\ Restored(cooling[k], clock).state = "open"
      BY <1>b, RestoredShape DEF KeysTypeOK
    <2>3. breaker' \in [Slots -> Breakers] /\ ProbeAfterCooldown'
      BY <2>1, <2>2 DEF KeysInv, KeysTypeOK, ProbeAfterCooldown, Elapsed
    <2>4. CallAt(c, "look", untried[c], NoSlot, 0) /\ untried[c] \in SUBSET Slots
      BY <1>3, <1>b DEF RestoreCooldowns, KeysTypeOK
    <2> QED
      BY <1>3, <1>a, <1>b, <2>3, <2>4, CallShape DEF RestoreCooldowns, KeysInv, KeysTypeOK
  <1>4. ASSUME NEW c \in Askers, Look(c) PROVE KeysInv'
    <2>1. PICK k \in untried[c] :
             \/ /\ MayTry(breaker[k])
                /\ breaker' = [breaker EXCEPT ![k] = Checked(@)]
                /\ CallAt(c, "use", untried[c] \ {k}, k, 0)
             \/ /\ ~MayTry(breaker[k])
                /\ CallAt(c, "look", untried[c] \ {k}, NoSlot, 0)
                /\ UNCHANGED breaker
      BY <1>4 DEF Look
    <2>2. k \in Slots /\ untried[c] \ {k} \in SUBSET Slots
      BY <1>b DEF KeysTypeOK
    <2>3. CASE UNCHANGED breaker /\ CallAt(c, "look", untried[c] \ {k}, NoSlot, 0)
      BY <1>4, <1>a, <1>b, <2>2, <2>3, CallShape
         DEF Look, KeysInv, KeysTypeOK, ProbeAfterCooldown, Elapsed
    <2>4. CASE /\ MayTry(breaker[k])
               /\ breaker' = [breaker EXCEPT ![k] = Checked(@)]
               /\ CallAt(c, "use", untried[c] \ {k}, k, 0)
      <3>1. breaker[k] \in Breakers
        BY <1>b, <2>2 DEF KeysTypeOK
      <3>2. Checked(breaker[k]) \in Breakers
        BY <3>1 DEF Checked, Breakers
      <3>3. Checked(breaker[k]).state = "half" => Elapsed(Checked(breaker[k]))
        <4>1. CASE IsReady(breaker[k])
          BY <4>1, <2>2 DEF Checked, KeysInv, ProbeAfterCooldown
        <4>2. CASE ~IsReady(breaker[k])
          <5>1. Elapsed(breaker[k])
            BY <4>2, <2>4 DEF MayTry
          <5>2. /\ Checked(breaker[k]).age = breaker[k].age
                /\ Checked(breaker[k]).tripped = breaker[k].tripped
            BY <4>2, <3>1 DEF Checked, Breakers
          <5> QED
            BY <5>1, <5>2 DEF Elapsed
        <4> QED
          BY <4>1, <4>2
      <3>4. breaker' = [breaker EXCEPT ![k] = Checked(breaker[k])]
        BY <2>4, <2>2, <1>b DEF KeysTypeOK
      <3>5. breaker' \in [Slots -> Breakers] /\ ProbeAfterCooldown'
        BY <2>2, <3>2, <3>3, <3>4, KeysProbed
      <3> QED
        BY <1>4, <1>a, <1>b, <2>2, <2>4, <3>5, CallShape DEF Look, KeysInv, KeysTypeOK
    <2> QED
      BY <2>1, <2>3, <2>4
  <1>5. ASSUME NEW c \in Askers, Succeeds(c) PROVE KeysInv'
    <2>1. using[c] \in Slots /\ untried[c] \in SUBSET Slots
      BY <1>5, <1>b DEF Succeeds, KeysTypeOK
    <2>2. breaker' \in [Slots -> Breakers] /\ ProbeAfterCooldown'
      BY <1>5, <2>1, NoBreakerShape, KeysProbed DEF Succeeds
    <2> QED
      BY <1>5, <1>a, <1>b, <2>1, <2>2, CallShape DEF Succeeds, KeysInv, KeysTypeOK
  <1>6. ASSUME NEW c \in Askers, MarkUsed(c) PROVE KeysInv'
    <2>1. CallAt(c, "idle", {}, NoSlot, 0)
      BY <1>6 DEF MarkUsed, CallEnds
    <2>2. cooling' \in [Slots -> 0..Cap]
      BY <1>6, <1>a, <1>b DEF MarkUsed, KeysTypeOK
    <2> QED
      BY <1>6, <1>a, <1>b, <2>1, <2>2, CallShape
         DEF MarkUsed, KeysInv, KeysTypeOK, ProbeAfterCooldown, Elapsed
  <1>7. ASSUME NEW c \in Askers, Fails(c) PROVE KeysInv'
    <2> DEFINE b == AfterFailure(breaker[using[c]])
    <2>1. using[c] \in Slots /\ untried[c] \in SUBSET Slots
      BY <1>7, <1>b DEF Fails, KeysTypeOK
    <2>2. b \in Breakers /\ b.state # "half"
      BY <2>1, <1>b, FailureShape DEF KeysTypeOK
    <2>3. /\ breaker' = [breaker EXCEPT ![using[c]] = b]
          /\ CallAt(c, "failed", untried[c], using[c], Backoff(b.tripped))
      BY <1>7 DEF Fails
    <2>4. b.tripped \in 0..MaxTripped
      BY <2>2 DEF Breakers
    <2> HIDE DEF b
    <2>5. breaker' \in [Slots -> Breakers] /\ ProbeAfterCooldown'
      BY <2>1, <2>2, <2>3, KeysProbed
    <2>6. Backoff(b.tripped) \in 0..Cap
      BY <2>4, BackoffBounded
    <2> QED
      BY <1>7, <1>b, <2>1, <2>3, <2>5, <2>6, CallShape DEF Fails, KeysInv, KeysTypeOK
  <1>8. ASSUME NEW c \in Askers, MarkFailed(c) PROVE KeysInv'
    <2>1. untried[c] \in SUBSET Slots /\ CallAt(c, "look", untried[c], NoSlot, 0)
      BY <1>8, <1>b DEF MarkFailed, KeysTypeOK
    <2>2. cooling' \in [Slots -> 0..Cap]
      BY <1>8, <1>b DEF MarkFailed, KeysTypeOK
    <2> QED
      BY <1>8, <1>a, <1>b, <2>1, <2>2, CallShape
         DEF MarkFailed, KeysInv, KeysTypeOK, ProbeAfterCooldown, Elapsed
  <1>9. ASSUME NEW c \in Askers, Unfit(c) PROVE KeysInv'
    <2>1. untried[c] \in SUBSET Slots /\ CallAt(c, "look", untried[c], NoSlot, 0)
      BY <1>9, <1>b DEF Unfit, KeysTypeOK
    <2> QED
      BY <1>9, <1>a, <1>b, <2>1, CallShape
         DEF Unfit, KeysInv, KeysTypeOK, ProbeAfterCooldown, Elapsed
  <1>10. ASSUME NEW c \in Askers, GivesUp(c) PROVE KeysInv'
    <2>1. CallAt(c, "idle", {}, NoSlot, 0)
      BY <1>10 DEF GivesUp, CallEnds
    <2> QED
      BY <1>10, <1>a, <1>b, <2>1, CallShape
         DEF GivesUp, KeysInv, KeysTypeOK, ProbeAfterCooldown, Elapsed
  <1>11. CASE CacheExpires
    BY <1>11 DEF CacheExpires, calls, KeysInv, KeysTypeOK, ProbeAfterCooldown, Elapsed
  <1>12. CASE CleanupBreakers
    BY <1>12, NoBreakerShape
       DEF CleanupBreakers, calls, KeysInv, KeysTypeOK, ProbeAfterCooldown, Elapsed
  <1>13. CASE ClockTicks
    <2>1. ASSUME NEW k \in Slots
          PROVE  /\ breaker'[k] \in Breakers
                 /\ breaker'[k].state = "half" => Elapsed(breaker'[k])
      <3> DEFINE b == breaker[k]
      <3>1. b \in Breakers /\ (b.state = "half" => Elapsed(b))
        BY <2>1, <1>b DEF KeysInv, KeysTypeOK, ProbeAfterCooldown
      <3>2. PICK older \in Ages : older >= b.age /\ breaker'[k] = [b EXCEPT !.age = older]
        BY <1>13, <3>1, <1>a DEF ClockTicks, Breakers, Ages
      <3>3. b.tripped \in 0..MaxTripped /\ b.age \in Int /\ older \in Int
        BY <3>1, <1>a DEF Breakers, Ages
      <3>4. Backoff(b.tripped) \in 0..Cap
        BY <3>3, BackoffBounded
      <3> QED
        BY <3>1, <3>2, <3>3, <3>4 DEF Breakers, Elapsed
    <2>2. breaker' \in [Slots -> Breakers] /\ ProbeAfterCooldown'
      BY <2>1, <1>13 DEF ClockTicks, ProbeAfterCooldown
    <2>3. cooling' \in [Slots -> 0..Cap]
      BY <1>13, <1>a, <1>b DEF ClockTicks, KeysTypeOK
    <2> QED
      BY <1>13, <1>b, <2>2, <2>3 DEF ClockTicks, calls, KeysInv, KeysTypeOK
  <1>14. CASE ProcessRestarts
    BY <1>14, <1>a, NoBreakerShape
       DEF ProcessRestarts, KeysInv, KeysTypeOK, ProbeAfterCooldown, Elapsed
  <1> QED
    BY <1>1, <1>2, <1>3, <1>4, <1>5, <1>6, <1>7, <1>8, <1>9, <1>10, <1>11, <1>12,
       <1>13, <1>14 DEF KeysNext

(* Type correctness; a cooldown is never negative or longer than the cap. *)
THEOREM KeysTyped == KeysSpec => []KeysTypeOK
  <1>1. KeysInv => KeysTypeOK
    BY DEF KeysInv
  <1> QED
    BY <1>1, InitKeys, StutterKeys, StepKeys, PTL DEF KeysSpec

(* A key that is probed, by however many calls, has had its whole cooldown
   since its last failure. *)
THEOREM ProbedAfterCooldown == KeysSpec => []ProbeAfterCooldown
  <1>1. KeysInv => ProbeAfterCooldown
    BY DEF KeysInv
  <1> QED
    BY <1>1, InitKeys, StutterKeys, StepKeys, PTL DEF KeysSpec
=============================================================================
