---------------------------- MODULE ProviderKeys ----------------------------
(***************************************************************************)
(* llm/provider_manager.py and MultiKeyProvider of llm/router.py: the API  *)
(* keys (slots) of one provider, tried one after the other by every call.  *)
(*                                                                         *)
(* Two things keep a key out of use: its circuit breaker in memory, and    *)
(* cooldown_until in its row, by which build_provider() leaves it out of   *)
(* the provider it builds.  A provider is cached for a while and then      *)
(* built again; calls go on with the one they started with.  The result of *)
(* a call is written to the breaker first and to the row in a later step.  *)
(*                                                                         *)
(* Time is counted in base timeouts (90 seconds).  The order in which a    *)
(* call tries its keys is left open.  The table of breakers is not full:   *)
(* one owner has nowhere near _CIRCUIT_BREAKERS_MAX_SIZE keys.             *)
(***************************************************************************)
EXTENDS Naturals

CONSTANTS
    Slots,          \* LlmKeySlot rows of one provider and purpose
    Askers,         \* tasks that call the provider, one call after the other
    NoSlot,
    Threshold,      \* _failure_threshold
    Cap,            \* the longest cooldown, and stale_threshold of the cleanup
    MaxTripped,     \* where _tripped_count stops to matter
    OpenTimeout     \* open_timeout of the cleanup

ASSUME ProviderKeysAssumption ==
    /\ NoSlot \notin Slots
    /\ Threshold \in Nat \ {0} /\ Cap \in Nat \ {0} /\ MaxTripped \in Nat
    /\ Cap <= 2^MaxTripped
    /\ OpenTimeout \in 0..Cap

VARIABLES
    breaker,        \* _CIRCUIT_BREAKERS
    cooling,        \* time until the cooldown_until of each row
    provider,       \* the keys of the cached provider; {} if there is none
    step,           \* where each call is
    untried,        \* keys it has not come to
    using,          \* the key it uses
    owes            \* the cooldown it has still to write into the row

calls == <<step, untried, using, owes>>
keyVars == <<breaker, cooling, provider, calls>>

Less(i, k) == IF i < k THEN i ELSE k

(* cooldown_seconds. *)
Backoff(t) == Less(2^t, Cap)

(* How long ago the last failure was; longer makes no difference. *)
Ages == 0..(Cap + 1)

NoBreaker == [state |-> "none", failures |-> 0, tripped |-> 0, age |-> 0]

Breakers ==
    [state : {"none", "closed", "open", "half"}, failures : 0..Threshold,
     tripped : 0..MaxTripped, age : Ages]

KeysTypeOK ==
    /\ breaker \in [Slots -> Breakers]
    /\ cooling \in [Slots -> 0..Cap]
    /\ provider \in SUBSET Slots
    /\ step \in [Askers -> {"idle", "built", "look", "use", "used", "failed"}]
    /\ untried \in [Askers -> SUBSET Slots]
    /\ using \in [Askers -> Slots \cup {NoSlot}]
    /\ owes \in [Askers -> 0..Cap]
    /\ \A c \in Askers : step[c] \in {"use", "used", "failed"} => using[c] \in Slots

KeysInit ==
    /\ breaker = [k \in Slots |-> NoBreaker]
    /\ cooling = [k \in Slots |-> 0]
    /\ provider = {}
    /\ step = [c \in Askers |-> "idle"]
    /\ untried = [c \in Askers |-> {}]
    /\ using = [c \in Askers |-> NoSlot]
    /\ owes = [c \in Askers |-> 0]

CallAt(c, place, rest, k, debt) ==
    /\ step' = [step EXCEPT ![c] = place]
    /\ untried' = [untried EXCEPT ![c] = rest]
    /\ using' = [using EXCEPT ![c] = k]
    /\ owes' = [owes EXCEPT ![c] = debt]

CallEnds(c) == CallAt(c, "idle", {}, NoSlot, 0)

-----------------------------------------------------------------------------
(* _KeyCircuitBreaker.  A missing breaker lets everybody through, and so does
   one that is HALF_OPEN. *)
Elapsed(b) == b.age >= Backoff(b.tripped)

(* Mutant: a HALF_OPEN key is left to the call that probes it. *)
IsReady_OneProbe(b) == b.state \in {"none", "closed"}

IsReady(b) == b.state \in {"none", "closed", "half"}

(* _check_key_circuit_breaker. *)
MayTry(b) == IsReady(b) \/ (b.state = "open" /\ Elapsed(b))

Checked(b) == IF IsReady(b) THEN b ELSE [b EXCEPT !.state = "half"]

(* Mutant: only a CLOSED breaker is opened. *)
AfterFailure_HalfStays(b) ==
    [state |-> IF b.state = "none" \/ b.state = "closed"
               THEN IF b.failures + 1 >= Threshold THEN "open" ELSE "closed"
               ELSE b.state,
     failures |-> Less(b.failures + 1, Threshold), tripped |-> b.tripped, age |-> 0]

(* record_failure.  A failure of an OPEN key, by a call that began earlier,
   starts its cooldown again but does not make it longer. *)
AfterFailure(b) ==
    [state |-> IF b.state \in {"open", "half"} \/ b.failures + 1 >= Threshold
               THEN "open" ELSE "closed",
     failures |-> Less(b.failures + 1, Threshold),
     tripped |-> IF b.state = "half" THEN Less(b.tripped + 1, MaxTripped) ELSE b.tripped,
     age |-> 0]

(* The breaker of a key whose row cools down for r, in _restore_cooldowns.
   The time of its failure is not before the start of the clock. *)
Fitting(r) == CHOOSE t \in 0..MaxTripped : 2^t >= r /\ \A u \in 0..MaxTripped : 2^u >= r => t <= u

Restored(r, clock) ==
    [state |-> "open", failures |-> Threshold, tripped |-> Fitting(r),
     age |-> Less(2^Fitting(r) - r, clock)]

-----------------------------------------------------------------------------
(* build_provider() finds a provider in the cache, ... *)
UseCached(c) ==
    /\ step[c] = "idle" /\ provider # {}
    /\ CallAt(c, "look", provider, NoSlot, 0)
    /\ UNCHANGED <<breaker, cooling, provider>>

(* ... or builds one from the keys that do not cool down (get_active_keys), ... *)
ReadSlots(c) ==
    /\ step[c] = "idle" /\ provider = {}
    /\ LET active == {k \in Slots : cooling[k] = 0}
       IN  active # {} /\ CallAt(c, "built", active, NoSlot, 0)
    /\ UNCHANGED <<breaker, cooling, provider>>

(* ... restores the breakers of those whose rows cool down by now, and puts it
   into the cache. *)
RestoreCooldowns(c) ==
    /\ step[c] = "built"
    /\ \E clock \in Ages :
          breaker' = [k \in Slots |->
              IF k \in untried[c] /\ cooling[k] > 0 /\ breaker[k].state = "none"
              THEN Restored(cooling[k], clock)
              ELSE breaker[k]]
    /\ provider' = untried[c]
    /\ CallAt(c, "look", untried[c], NoSlot, 0)
    /\ UNCHANGED cooling

Look(c) ==
    /\ step[c] = "look"
    /\ \E k \in untried[c] :
          \/ /\ MayTry(breaker[k])
             /\ breaker' = [breaker EXCEPT ![k] = Checked(@)]
             /\ CallAt(c, "use", untried[c] \ {k}, k, 0)
          \/ /\ ~MayTry(breaker[k])
             /\ CallAt(c, "look", untried[c] \ {k}, NoSlot, 0)
             /\ UNCHANGED breaker
    /\ UNCHANGED <<cooling, provider>>

(* _record_key_success: the breaker is closed and dropped, ... *)
Succeeds(c) ==
    /\ step[c] = "use"
    /\ breaker' = [breaker EXCEPT ![using[c]] = NoBreaker]
    /\ CallAt(c, "used", untried[c], using[c], 0)
    /\ UNCHANGED <<cooling, provider>>

(* ... then the row is cleared (mark_key_used), if the database works. *)
MarkUsed(c) ==
    /\ step[c] = "used"
    /\ cooling' \in {cooling, [cooling EXCEPT ![using[c]] = 0]}
    /\ CallEnds(c)
    /\ UNCHANGED <<breaker, provider>>

(* _record_key_failure after the last retry, for an error that another key
   may not meet, ... *)
Fails(c) ==
    /\ step[c] = "use"
    /\ LET b == AfterFailure(breaker[using[c]])
       IN  /\ breaker' = [breaker EXCEPT ![using[c]] = b]
           /\ CallAt(c, "failed", untried[c], using[c], Backoff(b.tripped))
    /\ UNCHANGED <<cooling, provider>>

(* ... with the cooldown of that moment (mark_key_failure). *)
MarkFailed(c) ==
    /\ step[c] = "failed"
    /\ cooling' \in {cooling, [cooling EXCEPT ![using[c]] = owes[c]]}
    /\ CallAt(c, "look", untried[c], NoSlot, 0)
    /\ UNCHANGED <<breaker, provider>>

(* The client of a key could not be made, or cannot stream. *)
Unfit(c) ==
    /\ step[c] = "use"
    /\ CallAt(c, "look", untried[c], NoSlot, 0)
    /\ UNCHANGED <<breaker, cooling, provider>>

(* No key is left, another error is raised, the total timeout strikes or the
   caller is cancelled: nothing is recorded. *)
GivesUp(c) ==
    /\ step[c] # "idle"
    /\ CallEnds(c)
    /\ UNCHANGED <<breaker, cooling, provider>>

-----------------------------------------------------------------------------
(* The cache keeps a provider for 300 seconds. *)
CacheExpires ==
    /\ provider # {}
    /\ provider' = {}
    /\ UNCHANGED <<breaker, cooling, calls>>

Outdated(b) ==
    \/ b.state = "closed" /\ b.age > Cap
    \/ b.state \in {"open", "half"} /\ b.age > OpenTimeout

(* cleanup_circuit_breakers. *)
CleanupBreakers ==
    /\ \E k \in Slots : Outdated(breaker[k])
    /\ breaker' = [k \in Slots |-> IF Outdated(breaker[k]) THEN NoBreaker ELSE breaker[k]]
    /\ UNCHANGED <<cooling, provider, calls>>

ClockTicks ==
    /\ breaker' = [k \in Slots |->
          [breaker[k] EXCEPT !.age = IF breaker[k].state # "none" /\ @ + 1 \in Ages
                                     THEN @ + 1 ELSE @]]
    /\ cooling' = [k \in Slots |-> IF cooling[k] > 0 THEN cooling[k] - 1 ELSE 0]
    /\ <<breaker, cooling>>' # <<breaker, cooling>>
    /\ UNCHANGED <<provider, calls>>

ProcessRestarts ==
    /\ breaker' = [k \in Slots |-> NoBreaker]
    /\ provider' = {}
    /\ step' = [c \in Askers |-> "idle"]
    /\ untried' = [c \in Askers |-> {}]
    /\ using' = [c \in Askers |-> NoSlot]
    /\ owes' = [c \in Askers |-> 0]
    /\ UNCHANGED cooling

KeysNext ==
    \/ \E c \in Askers :
          \/ UseCached(c) \/ ReadSlots(c) \/ RestoreCooldowns(c) \/ Look(c)
          \/ Succeeds(c) \/ MarkUsed(c) \/ Fails(c) \/ MarkFailed(c)
          \/ Unfit(c) \/ GivesUp(c)
    \/ CacheExpires \/ CleanupBreakers \/ ClockTicks \/ ProcessRestarts

KeysSpec == KeysInit /\ [][KeysNext]_keyVars

(* Time passes and the cache forgets.  Nothing is assumed of the calls, nor
   of the cleanup. *)
KeysFairness == WF_keyVars(ClockTicks) /\ WF_keyVars(CacheExpires)

-----------------------------------------------------------------------------
(* Several calls probe a key at the same time, and calls that began before it
   was opened still fail.  Whoever comes first, a key is HALF_OPEN only when
   it had its whole cooldown since its last failure. *)
ProbeAfterCooldown ==
    \A k \in Slots : breaker[k].state = "half" => Elapsed(breaker[k])

(* A key is left out by the row, by the breaker or by a cached provider that
   was built without it, each with a time of its own.  However its calls go,
   again and again it is used, or the next call would come to it and use it. *)
Offered(k) ==
    \/ \E c \in Askers : step[c] = "use" /\ using[c] = k
    \/ /\ MayTry(breaker[k])
       /\ IF provider = {} THEN cooling[k] = 0 ELSE k \in provider

KeysComeBack == \A k \in Slots : []<>Offered(k)
=============================================================================
