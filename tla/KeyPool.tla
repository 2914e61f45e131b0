------------------------------- MODULE KeyPool -------------------------------
(***************************************************************************)
(* The pool of FFLogs keys (src/service/keypool/pool.go) with the three    *)
(* parties that use it: main, which loads it (src/main.go), the sync       *)
(* workers, which lease keys from it (src/service/memo/service.go), and    *)
(* the single maintenance goroutine, which runs Reconcile and FlushStats.  *)
(*                                                                         *)
(* Every method body between Lock and Unlock is one action.  The network   *)
(* and database calls a method makes outside the mutex are actions of      *)
(* their own, so everything other goroutines may do in between can happen. *)
(* The process may die in any state; the logs_keys table survives it.      *)
(***************************************************************************)
EXTENDS KeyState, FiniteSets, FiniteSetsExt

CONSTANTS
  Keys,          (* rows of logs_keys                                       *)
  EnvKey,        (* the GRAPH_ID / GRAPH_SECRET key, ID 0                   *)
  None,          (* no key                                                  *)
  Workers,       (* the sync workers                                        *)
  MaxZones,      (* zones a member may have data in                         *)
  ZoneCost,      (* extra points Release debits for such a zone             *)
  RateReplies,   (* rateLimitData payloads FFLogs may answer with           *)
  Failures,      (* errors FFLogs calls may fail with, see Markers          *)
  EnvConfigured, (* GRAPH_ID and GRAPH_SECRET are set                       *)
  LostAcks,      (* an UPDATE may be applied and still report an error      *)
  MaxTime,       (* bound on the clock                                      *)
  MaxUses,       (* bound on the leases granted on a key, and on the uses   *)
                 (* after which no acknowledgement is lost any more         *)
  MaxErrs,       (* bound on a key's ErrCount                               *)
  MaxRestarts    (* bound on the crashes of the process                     *)

(* An error is the set of the substrings the code looks for in its text.   *)
Markers == {"429", "401", "403", "invalid_client"}

KeyIds == Keys \cup {EnvKey}

ASSUME PoolConstants ==
  /\ IsFiniteSet(Keys) /\ IsFiniteSet(Workers)
  /\ EnvKey \notin Keys
  /\ None \notin KeyIds
  /\ MaxZones \in Nat /\ ZoneCost \in Nat
  /\ RateReplies \subseteq RateLimits
  /\ Failures \subseteq SUBSET Markers
  /\ EnvConfigured \in BOOLEAN /\ LostAcks \in BOOLEAN
  /\ MaxTime \in Nat /\ MaxUses \in Nat /\ MaxErrs \in Nat /\ MaxRestarts \in Nat

VARIABLES
  now,        (* wall clock                                                 *)
  phase,      (* how far main has come                                      *)
  restarts,   (* crashes so far                                             *)
  keys,       (* Pool.keys: the published keys                              *)
  states,     (* Load's local slice of keys, published at its end           *)
  toProbe,    (* keys the running probe loop of Load has still to visit     *)
  st,         (* the KeyState of every key                                  *)
  lease,      (* the key each worker holds a lease of                       *)
  forbidding, (* the key each worker has disabled and not yet forbidden     *)
              (* in the database                                            *)
  due,        (* keys the running Reconcile has still to visit              *)
  batch,      (* rows the running FlushStats has still to finish            *)
  unsettled,  (* row FlushStats has written but not yet drained             *)
  dbErr,      (* logs_keys.err_count                                        *)
  dbUse,      (* logs_keys.use_count                                        *)
  granted,    (* history: the uses logs_keys should come to account for     *)
  word        (* history: what FFLogs last said was spent in the current    *)
              (* window, unrounded, in half points (a 429 says all of it)   *)

memory    == <<keys, states, toProbe, st>>
workVars  == <<lease, forbidding>>
maintVars == <<due, batch, unsettled>>
dbVars    == <<dbErr, dbUse>>
envVars   == <<now, restarts>>
vars == <<envVars, phase, memory, workVars, maintVars, dbVars, granted, word>>

Phases == {"boot", "probing", "retrying", "fallback", "running", "exited"}

(* A row of FlushStats' batch; rows without uses are not in the batch.     *)
NotPending == [useDelta |-> 0, errAbs |-> 0]
Pending    == {k \in Keys : batch[k].useDelta > 0}

TypeOK ==
  /\ now \in Nat /\ restarts \in Nat
  /\ phase \in Phases
  /\ keys \in SUBSET KeyIds
  /\ states \in SUBSET Keys /\ toProbe \in SUBSET Keys
  /\ st \in [KeyIds -> KeyStates]
  /\ lease \in [Workers -> KeyIds \cup {None}]
  /\ forbidding \in [Workers -> KeyIds \cup {None}]
  /\ due \in SUBSET KeyIds
  /\ batch \in [Keys -> [useDelta : Nat, errAbs : Nat]]
  /\ unsettled \in Keys \cup {None}
  /\ dbErr \in [Keys -> Nat] /\ dbUse \in [Keys -> Nat]
  /\ granted \in [KeyIds -> Nat]
  /\ word \in [KeyIds -> Nat]

Init ==
  /\ now = 1 /\ restarts = 0
  /\ phase = "boot"
  /\ keys = {} /\ states = {} /\ toProbe = {}
  /\ st = [k \in KeyIds |-> NewKey]
  /\ lease = [w \in Workers |-> None]
  /\ forbidding = [w \in Workers |-> None]
  /\ due = {} /\ batch = [k \in Keys |-> NotPending] /\ unsettled = None
  /\ dbErr = [k \in Keys |-> 0] /\ dbUse = [k \in Keys |-> 0]
  /\ granted = [k \in KeyIds |-> 0]
  /\ word = [k \in KeyIds |-> 0]

-----------------------------------------------------------------------------
(* Start-up: Load and AddEnvKey.  Nothing else runs yet.                   *)

(* forbidInDB; its error is logged and dropped, and ID 0 has no row.       *)
ForbidInDB(k) ==
  \/ /\ k \in Keys
     /\ dbErr' = [dbErr EXCEPT ![k] = ForbiddenErrThreshold]
  \/ UNCHANGED dbErr

IsInvalidClient(e) == "invalid_client" \in e

(* probe(k): sets the key's state, and forbids its row when the            *)
(* credentials are wrong.                                                  *)
Probe(k) ==
  \/ \E r \in RateReplies :
       /\ st' = [st EXCEPT ![k] = ProbeSucceeds(@, r, now)]
       /\ word' = [word EXCEPT ![k] = r.spent]
       /\ UNCHANGED dbErr
  \/ \E e \in Failures :
       /\ st' = [st EXCEPT ![k] = ProbeFails(@, IsInvalidClient(e))]
       /\ IF IsInvalidClient(e) THEN ForbidInDB(k) ELSE UNCHANGED dbErr
       /\ UNCHANGED word

LoadRows ==
  /\ phase = "boot"
  /\ \/ /\ states' = {k \in Keys : dbErr[k] < ForbiddenErrThreshold}
        /\ toProbe' = states'
        /\ phase' = "probing"
     \/ /\ phase' = "fallback"          \* the SELECT failed
        /\ UNCHANGED <<states, toProbe>>
  /\ UNCHANGED <<envVars, keys, st, workVars, maintVars, dbVars, granted, word>>

(* One iteration of Load's first or second probe loop; rows come in the    *)
(* order of a SELECT without ORDER BY.                                     *)
ProbeNext ==
  /\ phase \in {"probing", "retrying"}
  /\ \E k \in toProbe : Probe(k) /\ toProbe' = toProbe \ {k}
  /\ UNCHANGED <<envVars, phase, keys, states, workVars, maintVars, dbUse, granted>>

(* Mutant for ProbeForbiddenSticks: the retry pass forgets Forbidden.      *)
RetryableAll == {k \in states : st[k].Disabled}

Retryable == {k \in states : st[k].Disabled /\ ~st[k].Forbidden}
Active    == {k \in keys : ~st[k].Disabled}

RetryProbes ==
  /\ phase = "probing" /\ toProbe = {} /\ Retryable # {}
  /\ phase' = "retrying"
  /\ toProbe' = Retryable
  /\ UNCHANGED <<envVars, keys, states, st, workVars, maintVars, dbVars, granted, word>>

(* Load publishes the keys; with none active it returns ErrNoKey and main  *)
(* turns to the environment.                                               *)
Publish ==
  /\ toProbe = {}
  /\ \/ phase = "retrying"
     \/ phase = "probing" /\ Retryable = {}
  /\ keys' = states
  /\ phase' = IF \E k \in states : ~st[k].Disabled THEN "running" ELSE "fallback"
  /\ UNCHANGED <<envVars, states, toProbe, st, workVars, maintVars, dbVars, granted, word>>

AddEnvKey ==
  /\ phase = "fallback" /\ EnvConfigured
  /\ Probe(EnvKey)
  /\ keys' = keys \cup {EnvKey}
  /\ phase' = IF st'[EnvKey].Disabled THEN "exited" ELSE "running"
  /\ UNCHANGED <<envVars, states, toProbe, workVars, maintVars, dbUse, granted>>

ExitWithoutKeys ==
  /\ phase = "fallback" /\ ~EnvConfigured
  /\ phase' = "exited"
  /\ UNCHANGED <<envVars, memory, workVars, maintVars, dbVars, granted, word>>

-----------------------------------------------------------------------------
(* The workers: Acquire, then Release, MarkError or neither.               *)

(* Mutant for ReserveAbsorbsLeases: leases are granted from the reserve.   *)
MinBudgetNoReserve == EstCostPerMember

MinBudget == SafetyBudget + EstCostPerMember

(* Acquire first rolls every key whose window has passed.                  *)
Rolled == [k \in KeyIds |-> IF k \in keys THEN RollReset(st[k], now) ELSE st[k]]
RolledWord ==
  [k \in KeyIds |-> IF k \in keys /\ Elapsed(st[k], now) THEN 0 ELSE word[k]]

AvailableAt(t) == {k \in keys : Available(RollReset(st[k], t), t, MinBudget)}

(* The key with the most points left; among equals, whichever row the      *)
(* SELECT happened to return first.                                        *)
Richest(k) ==
  \A j \in AvailableAt(now) : Remaining(Rolled[j]) <= Remaining(Rolled[k])

Acquire(w) ==
  /\ phase = "running" /\ lease[w] = None /\ forbidding[w] = None
  /\ word' = RolledWord
  /\ \/ \E k \in AvailableAt(now) :
          /\ Richest(k)
          /\ granted[k] < MaxUses
          /\ st' = [Rolled EXCEPT ![k] = Debit(@)]
          /\ lease' = [lease EXCEPT ![w] = k]
          /\ granted' = [granted EXCEPT ![k] = @ + 1]
     \/ /\ AvailableAt(now) = {}       \* ErrAllExhausted
        /\ st' = Rolled
        /\ UNCHANGED <<lease, granted>>
  /\ UNCHANGED <<envVars, phase, keys, states, toProbe, forbidding, maintVars, dbVars>>

(* The time Acquire returns with ErrAllExhausted.                          *)
ResetCandidate(s) ==
  IF now < s.CooldownUntil /\ s.CooldownUntil < s.ResetAt
  THEN s.CooldownUntil ELSE s.ResetAt
NextReset ==
  LET candidates == {ResetCandidate(Rolled[k]) : k \in Active}
  IN  IF candidates = {} THEN ZeroTime ELSE Min(candidates)

(* Mutant for EtaAgrees: the keys out of service are counted in.           *)
SummarizedAll == keys

Summarized == Active

(* PoolSummary, which /progress and the gauges read, rolls no window; of   *)
(* what it returns, the time the pool recovers at.                         *)
EarliestReset ==
  IF Summarized = {} THEN ZeroTime ELSE Min({st[k].ResetAt : k \in Summarized})

(* The whole member was synced; n of its zones had data.                   *)
Release(w, n) ==
  /\ lease[w] # None
  /\ st' = [st EXCEPT ![lease[w]] = Settle(@, n * ZoneCost)]
  /\ lease' = [lease EXCEPT ![w] = None]
  /\ UNCHANGED <<envVars, phase, keys, states, toProbe, forbidding, maintVars, dbVars,
                 granted, word>>

(* The member has no FFLogs character, or its sync panicked: the worker    *)
(* returns without telling the pool.                                       *)
Drop(w) ==
  /\ lease[w] # None
  /\ lease' = [lease EXCEPT ![w] = None]
  /\ UNCHANGED <<envVars, phase, memory, forbidding, maintVars, dbVars, granted, word>>

(* classifyAndMark: the first marker found decides the kind.               *)
Classify(e) ==
  IF "429" \in e THEN "RateLimited"
  ELSE IF e \cap {"401", "403"} # {} THEN "Unauthorized"
  ELSE "Transient"

MarkError(w, kind) ==
  LET k == lease[w] IN
  /\ k # None
  /\ st[k].ErrCount < MaxErrs
  /\ st' = [st EXCEPT ![k] = Failed(@, kind, now)]
  /\ word' = IF kind = "RateLimited" THEN [word EXCEPT ![k] = 2 * st[k].Limit] ELSE word
  /\ lease' = [lease EXCEPT ![w] = None]
  /\ forbidding' = [forbidding EXCEPT ![w] = IF Forbids(st[k], kind) THEN k ELSE @]
  /\ UNCHANGED <<envVars, phase, keys, states, toProbe, maintVars, dbVars, granted>>

(* The end of MarkError, after the mutex is released.                      *)
WriteForbidden(w) ==
  /\ forbidding[w] # None
  /\ ForbidInDB(forbidding[w])
  /\ forbidding' = [forbidding EXCEPT ![w] = None]
  /\ UNCHANGED <<envVars, phase, memory, lease, maintVars, dbUse, granted, word>>

-----------------------------------------------------------------------------
(* The maintenance goroutine: Reconcile and FlushStats, one at a time, at  *)
(* any time (the tickers' periods are not modelled).                       *)

MaintenanceIdle == phase = "running" /\ due = {} /\ Pending = {}

ReconcileStart ==
  /\ MaintenanceIdle
  /\ due' = {k \in keys : Due(st[k], now)}
  /\ UNCHANGED <<envVars, phase, memory, workVars, batch, unsettled, dbVars, granted, word>>

(* The answer may be as old as the request: it overwrites the estimate     *)
(* with a figure that knows nothing of the leases granted or settled since *)
(* then, and it is written even to a key disabled since then.              *)
ReconcileKey(k) ==
  /\ k \in due
  /\ due' = due \ {k}
  /\ \/ \E r \in RateReplies :
          /\ st' = [st EXCEPT ![k] = Refresh(@, r, now)]
          /\ word' = [word EXCEPT ![k] = r.spent]
     \/ /\ st[k].ErrCount < MaxErrs
        /\ st' = [st EXCEPT ![k].ErrCount = @ + 1]
        /\ UNCHANGED word
  /\ UNCHANGED <<envVars, phase, keys, states, toProbe, workVars, batch, unsettled, dbVars,
                 granted>>

(* Mutant for UsesFlushed: a disabled key is skipped, as Reconcile does.    *)
FlushStartInService ==
  /\ MaintenanceIdle
  /\ batch' = [k \in Keys |->
                 IF k \in Active
                 THEN [useDelta |-> st[k].UseCount,
                       errAbs   |-> IF st[k].UseCount = 0 THEN 0 ELSE st[k].ErrCount]
                 ELSE NotPending]
  /\ UNCHANGED <<envVars, phase, memory, workVars, due, unsettled, dbVars, granted, word>>

FlushStart ==
  /\ MaintenanceIdle
  /\ batch' = [k \in Keys |->
                 IF k \in keys
                 THEN [useDelta |-> st[k].UseCount,
                       errAbs   |-> IF st[k].UseCount = 0 THEN 0 ELSE st[k].ErrCount]
                 ELSE NotPending]
  /\ UNCHANGED <<envVars, phase, memory, workVars, due, unsettled, dbVars, granted, word>>

FlushWrite(k) ==
  /\ k \in Pending /\ unsettled = None
  /\ \/ /\ dbUse' = [dbUse EXCEPT ![k] = @ + batch[k].useDelta]
        /\ dbErr' = [dbErr EXCEPT ![k] = batch[k].errAbs]
        /\ \/ unsettled' = k /\ UNCHANGED batch
           \/ /\ LostAcks /\ dbUse[k] < MaxUses
              /\ batch' = [batch EXCEPT ![k] = NotPending]
              /\ UNCHANGED unsettled
     \/ /\ batch' = [batch EXCEPT ![k] = NotPending]
        /\ UNCHANGED <<dbUse, dbErr, unsettled>>
  /\ UNCHANGED <<envVars, phase, memory, workVars, due, granted, word>>

FlushSettle ==
  /\ unsettled # None
  /\ st' = [st EXCEPT ![unsettled] = Drained(@, batch[unsettled].useDelta)]
  /\ batch' = [batch EXCEPT ![unsettled] = NotPending]
  /\ unsettled' = None
  /\ UNCHANGED <<envVars, phase, keys, states, toProbe, workVars, due, dbVars, granted, word>>

-----------------------------------------------------------------------------
(* The environment.                                                        *)

Tick ==
  /\ now < MaxTime
  /\ now' = now + 1
  /\ UNCHANGED <<restarts, phase, memory, workVars, maintVars, dbVars, granted, word>>

(* The process dies, or has exited, and is started again.  The uses it had *)
(* not flushed are gone for good.                                          *)
Restart ==
  /\ phase # "boot" /\ restarts < MaxRestarts
  /\ restarts' = restarts + 1
  /\ phase' = "boot"
  /\ keys' = {} /\ states' = {} /\ toProbe' = {}
  /\ st' = [k \in KeyIds |-> NewKey]
  /\ lease' = [w \in Workers |-> None]
  /\ forbidding' = [w \in Workers |-> None]
  /\ due' = {} /\ batch' = [k \in Keys |-> NotPending] /\ unsettled' = None
  /\ granted' = [k \in KeyIds |-> IF k \in Keys THEN dbUse[k] ELSE 0]
  /\ word' = [k \in KeyIds |-> 0]
  /\ UNCHANGED <<now, dbVars>>

Next ==
  \/ LoadRows \/ ProbeNext \/ RetryProbes \/ Publish \/ AddEnvKey \/ ExitWithoutKeys
  \/ \E w \in Workers : Acquire(w)
  \/ \E w \in Workers, n \in 0..MaxZones : Release(w, n)
  \/ \E w \in Workers : Drop(w)
  \/ \E w \in Workers, e \in Failures : MarkError(w, Classify(e))
  \/ \E w \in Workers : WriteForbidden(w)
  \/ ReconcileStart \/ (\E k \in due : ReconcileKey(k))
  \/ FlushStart \/ (\E k \in Pending : FlushWrite(k)) \/ FlushSettle
  \/ Tick \/ Restart

Spec == Init /\ [][Next]_vars

(* poolMaintenance: a running Reconcile or FlushStats goes on; Go's select *)
(* picks at random among the tickers that have fired, so neither starves   *)
(* the other; and FFLogs and the database, asked again and again, do not   *)
(* fail for ever.  That FFLogs answers at all is an assumption: the        *)
(* request carries no deadline.                                            *)
Refreshed(k) == ReconcileKey(k) /\ st'[k].LastRefreshAt = now /\ st'[k].UsesSinceRefresh = 0
Written(k)   == FlushWrite(k) /\ unsettled' = k

Fairness ==
  /\ WF_vars(LoadRows) /\ WF_vars(ProbeNext) /\ WF_vars(RetryProbes)
  /\ WF_vars(Publish) /\ WF_vars(AddEnvKey)
  /\ SF_vars(ReconcileStart) /\ SF_vars(FlushStart)
  /\ \A k \in KeyIds : WF_vars(ReconcileKey(k)) /\ SF_vars(Refreshed(k))
  /\ \A k \in Keys : WF_vars(k \in Pending /\ FlushWrite(k)) /\ SF_vars(Written(k))
  /\ WF_vars(FlushSettle)

FairSpec == Spec /\ Fairness

-----------------------------------------------------------------------------
(* Properties.                                                             *)

InFlight(k) == Cardinality({w \in Workers : lease[w] = k})
MaxExtra    == MaxZones * ZoneCost
Larger(a, b) == IF a >= b THEN a ELSE b

(* The local estimate brackets what is known of a key's spending: it is    *)
(* never below what FFLogs last reported for this window, half a point     *)
(* included, whatever leases are settled after a 429 or a refresh; and it  *)
(* exceeds that report by its rounding, or the ceiling Acquire stops at,   *)
(* by no more than the zones of the leases that have been settled since    *)
(* (Acquire, Release, MarkError, Reconcile, RollReset, RoundedUp together, *)
(* in half points).                                                        *)
EstimateBounded ==
  \A k \in KeyIds :
    /\ word[k] <= 2 * st[k].SpentEstimate
    /\ 2 * st[k].SpentEstimate <=
         Larger(word[k] + 1, 2 * (st[k].Limit - SafetyBudget))
           + 2 * (MaxExtra * (Cardinality(Workers) - InFlight(k)))

(* SafetyBudget is wide enough for the zone costs no lease is charged for  *)
(* in advance: unless FFLogs itself has reported spending in the reserve,  *)
(* the workers' own leases never take the estimate past the limit.  Holds  *)
(* for as many workers as the reserve was sized for, and not for more.     *)
ReserveAbsorbsLeases ==
  Cardinality(Workers) * MaxExtra <= SafetyBudget =>
    \A k \in keys :
      word[k] <= 2 * (st[k].Limit - SafetyBudget) => st[k].SpentEstimate <= st[k].Limit

(* FlushStats against Acquire: uses granted between the batch being taken  *)
(* and the row being drained are neither lost nor counted twice, whichever *)
(* UPDATEs fail.  Only an UPDATE that is applied and yet reports an error  *)
(* makes use_count run ahead.  A process that starts again starts from the *)
(* table: the uses the old one had not flushed are lost, by design.        *)
UsesAccounted ==
  \A k \in Keys :
    LET persisted == dbUse[k] + st[k].UseCount
        expected  == granted[k] + (IF unsettled = k THEN batch[k].useDelta ELSE 0)
    IN  /\ persisted >= expected
        /\ ~LostAcks => persisted = expected

(* A key that is disabled serves no further lease until the process is     *)
(* restarted: neither a late Release nor a refresh that was under way, nor *)
(* the end of the cooldown brings it back.                                 *)
DisabledIsFinal ==
  [][\A k \in keys :
       phase = "running" /\ phase' = "running" /\ st[k].Disabled
         => st'[k].Disabled /\ granted'[k] = granted[k]]_vars

(* A row that Load left out, or forbade because its credentials are wrong, *)
(* keeps its err_count at the threshold: the retry pass does not probe it  *)
(* again and no flush overwrites it.                                       *)
ProbeForbiddenSticks ==
  [][\A k \in Keys :
       (k \notin keys \/ st[k].Forbidden) /\ dbErr[k] >= ForbiddenErrThreshold
         => dbErr'[k] >= ForbiddenErrThreshold]_vars

(* When no key is available, the time Acquire returns is neither too early *)
(* nor too late to wait for: as long as nothing else happens to the pool,  *)
(* no key is available up to and including that time, and one is right     *)
(* after it -- provided the limits allow for a lease at all.               *)
SleepIsPrecise ==
  phase = "running" /\ AvailableAt(now) = {} /\ Active # {}
    /\ (\A k \in Active : st[k].Limit >= MinBudget) =>
      /\ NextReset >= now
      /\ \A t \in now..NextReset : AvailableAt(t) = {}
      /\ AvailableAt(NextReset + 1) # {}

(* The recovery time /progress shows, which PoolSummary computes without   *)
(* rolling any window and without looking at cooldowns, is the one Acquire *)
(* tells the workers to sleep to.                                          *)
EtaAgrees ==
  phase = "running" /\ AvailableAt(now) = {} /\ Active # {}
    /\ (\A k \in Active : st[k].Limit >= MinBudget) =>
      EarliestReset = NextReset

(* Every lease is recorded in use_count in the end, a disabled key's       *)
(* included, however many UPDATEs fail on the way.                         *)
UsesFlushed ==
  \A k \in Keys : \A n \in 1..MaxUses :
    granted[k] >= n ~> dbUse[k] >= n \/ phase # "running"

(* An estimate that too many leases rest on is replaced by FFLogs' own     *)
(* figure in the end, unless the key is taken out of service.              *)
DueRefreshed ==
  \A k \in KeyIds :
    k \in keys /\ Due(st[k], now) ~> ~Due(st[k], now) \/ phase # "running"

(* "forbidInDB writes err_count = ForbiddenErrThreshold directly so the    *)
(* next Pool.Load filters this row out" (pool.go:81): once written, it     *)
(* stays.  The code breaks this: FlushStats overwrites it.                 *)
ForbiddenStaysForbidden ==
  [][\A k \in Keys :
       dbErr[k] >= ForbiddenErrThreshold => dbErr'[k] >= ForbiddenErrThreshold]_vars
=============================================================================
