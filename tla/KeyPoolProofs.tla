---------------------------- MODULE KeyPoolProofs ----------------------------
(***************************************************************************)
(* What KeyPool promises for every value of its constants: its invariants, *)
(* its action properties, and that it implements LeasePool.                *)
(***************************************************************************)
EXTENDS KeyPoolRefinement, FiniteNats

-----------------------------------------------------------------------------
(* The operators of KeyState keep a record a KeyState.                     *)

(* A rate limit payload is rounded to whole points and a window in force.  *)
LEMMA Rounding ==
  ASSUME NEW r \in RateLimits
  PROVE  /\ Truncated(r.limit) \in Nat
         /\ RoundedUp(r.spent) \in Nat
         /\ ClampResetIn(r.resetIn) \in Nat
<1>1. /\ r.limit \in Nat /\ r.spent \in Nat /\ r.resetIn \in Int
  BY DEF RateLimits
<1>2. Truncated(r.limit) \in Nat
  BY <1>1, SMT DEF Truncated
<1>3. RoundedUp(r.spent) \in Nat
  BY <1>1, SMT DEF RoundedUp
<1>4. ClampResetIn(r.resetIn) \in Nat
  BY <1>1, PoolConfig, SMT DEF ClampResetIn
<1> QED BY <1>2, <1>3, <1>4

(* The pool's updates of a key, one lemma for each operator.               *)
LEMMA NewKeyTyped == NewKey \in KeyStates
  BY DEF NewKey, KeyStates, ZeroTime

(* Each piece of arithmetic on a record keeps it a KeyState. *)
LEMMA RollTyped ==
  ASSUME NEW s \in KeyStates, NEW t \in Nat
  PROVE  RollReset(s, t) \in KeyStates
<1>1. 0 \in Nat /\ t + Hour \in Nat
  BY PoolConfig
<1> QED BY <1>1, Zenon DEF RollReset, KeyStates

LEMMA DebitTyped ==
  ASSUME NEW s \in KeyStates
  PROVE  Debit(s) \in KeyStates
<1>1. /\ s.SpentEstimate + EstCostPerMember \in Nat
      /\ s.UseCount + 1 \in Nat
      /\ s.UsesSinceRefresh + 1 \in Nat
  BY PoolConfig DEF KeyStates
<1> QED BY <1>1, Zenon DEF Debit, KeyStates

LEMMA SettleTyped ==
  ASSUME NEW s \in KeyStates, NEW n \in Int
  PROVE  Settle(s, n) \in KeyStates
<1>1. /\ 0 \in Nat
      /\ (IF s.SpentEstimate + n < 0 THEN 0 ELSE s.SpentEstimate + n) \in Nat
  BY DEF KeyStates
<1> QED BY <1>1, Zenon DEF Settle, KeyStates

LEMMA DrainedTyped ==
  ASSUME NEW s \in KeyStates, NEW n \in Nat
  PROVE  Drained(s, n) \in KeyStates
<1>1. (IF s.UseCount >= n THEN s.UseCount - n ELSE s.UseCount) \in Nat
  BY DEF KeyStates
<1> QED BY <1>1, Zenon DEF Drained, KeyStates

LEMMA ErrCountTyped ==
  ASSUME NEW s \in KeyStates
  PROVE  [s EXCEPT !.ErrCount = @ + 1] \in KeyStates
  BY DEF KeyStates

LEMMA FailedTyped ==
  ASSUME NEW s \in KeyStates, NEW kind, NEW t \in Nat
  PROVE  Failed(s, kind, t) \in KeyStates
<1>1. /\ s.ErrCount + 1 \in Nat
      /\ (s.Disabled \/ Forbids(s, kind)) \in BOOLEAN
      /\ (IF kind = "RateLimited" THEN s.Limit ELSE s.SpentEstimate) \in Nat
      /\ (IF Forbids(s, kind) THEN t + DisabledCooldown ELSE s.CooldownUntil) \in Nat
  BY PoolConfig DEF KeyStates
<1> QED BY <1>1, Zenon DEF Failed, KeyStates

LEMMA ProbeFailsTyped ==
  ASSUME NEW s \in KeyStates, NEW permanent
  PROVE  ProbeFails(s, permanent) \in KeyStates
<1>1. /\ s.ErrCount + 1 \in Nat
      /\ (s.Forbidden \/ permanent) \in BOOLEAN
      /\ TRUE \in BOOLEAN
  BY DEF KeyStates
<1> QED BY <1>1, Zenon DEF ProbeFails, KeyStates

LEMMA ReplyTyped ==
  ASSUME NEW s \in KeyStates, NEW r \in RateLimits, NEW t \in Nat
  PROVE  ProbeSucceeds(s, r, t) \in KeyStates /\ Refresh(s, r, t) \in KeyStates
<1>1. /\ FALSE \in BOOLEAN /\ 0 \in Nat
      /\ RoundedUp(r.spent) \in Nat
      /\ (IF Truncated(r.limit) = 0
           THEN DefaultLimitPerHour ELSE Truncated(r.limit)) \in Nat
      /\ (IF Truncated(r.limit) > 0 THEN Truncated(r.limit) ELSE s.Limit) \in Nat
      /\ t + ClampResetIn(r.resetIn) \in Nat
      /\ (IF r.resetIn > 0 THEN t + ClampResetIn(r.resetIn) ELSE s.ResetAt) \in Nat
  BY Rounding, PoolConfig DEF KeyStates
<1>2. ProbeSucceeds(s, r, t) \in KeyStates
  BY <1>1, Zenon DEF ProbeSucceeds, KeyStates
<1>3. Refresh(s, r, t) \in KeyStates
  BY <1>1, Zenon DEF Refresh, KeyStates
<1> QED BY <1>2, <1>3

(* What each update does to the fields the properties are about.           *)
LEMMA RollFields ==
  ASSUME NEW s \in KeyStates, NEW t \in Nat
  PROVE  /\ RollReset(s, t).UseCount = s.UseCount
         /\ RollReset(s, t).Disabled = s.Disabled
         /\ RollReset(s, t).Forbidden = s.Forbidden
         /\ RollReset(s, t).Limit = s.Limit
         /\ RollReset(s, t).SpentEstimate = IF Elapsed(s, t) THEN 0 ELSE s.SpentEstimate
  BY DEF RollReset, KeyStates

(* What each of them changes, and what it leaves alone. *)
LEMMA DebitFields ==
  ASSUME NEW s \in KeyStates
  PROVE  /\ Debit(s).UseCount = s.UseCount + 1
         /\ Debit(s).Disabled = s.Disabled
         /\ Debit(s).Forbidden = s.Forbidden
         /\ Debit(s).Limit = s.Limit
         /\ Debit(s).SpentEstimate = s.SpentEstimate + EstCostPerMember
  BY DEF Debit, KeyStates

LEMMA SettleFields ==
  ASSUME NEW s \in KeyStates, NEW n \in Nat
  PROVE  /\ Settle(s, n).UseCount = s.UseCount
         /\ Settle(s, n).Disabled = s.Disabled
         /\ Settle(s, n).Forbidden = s.Forbidden
         /\ Settle(s, n).Limit = s.Limit
         /\ Settle(s, n).SpentEstimate = s.SpentEstimate + n
<1>1. s.SpentEstimate \in Nat /\ ~(s.SpentEstimate + n < 0)
  BY DEF KeyStates
<1> QED BY <1>1 DEF Settle, KeyStates

LEMMA FailedFields ==
  ASSUME NEW s \in KeyStates, NEW kind, NEW t \in Nat
  PROVE  /\ Failed(s, kind, t).UseCount = s.UseCount
         /\ Failed(s, kind, t).Disabled = (s.Disabled \/ Forbids(s, kind))
         /\ Failed(s, kind, t).Forbidden = s.Forbidden
         /\ Failed(s, kind, t).Limit = s.Limit
         /\ Failed(s, kind, t).SpentEstimate =
              IF kind = "RateLimited" THEN s.Limit ELSE s.SpentEstimate
  BY DEF Failed, KeyStates

LEMMA RefreshFields ==
  ASSUME NEW s \in KeyStates, NEW r, NEW t
  PROVE  /\ Refresh(s, r, t).UseCount = s.UseCount
         /\ Refresh(s, r, t).Disabled = s.Disabled
         /\ Refresh(s, r, t).Forbidden = s.Forbidden
         /\ Refresh(s, r, t).SpentEstimate = RoundedUp(r.spent)
  BY DEF Refresh, KeyStates

LEMMA ErrCountFields ==
  ASSUME NEW s \in KeyStates
  PROVE  LET f == [s EXCEPT !.ErrCount = @ + 1]
         IN  /\ f.UseCount = s.UseCount
             /\ f.Disabled = s.Disabled
             /\ f.Forbidden = s.Forbidden
             /\ f.Limit = s.Limit
             /\ f.SpentEstimate = s.SpentEstimate
  BY DEF KeyStates

LEMMA DrainedFields ==
  ASSUME NEW s \in KeyStates, NEW n \in Nat, n <= s.UseCount
  PROVE  /\ Drained(s, n).UseCount = s.UseCount - n
         /\ Drained(s, n).Disabled = s.Disabled
         /\ Drained(s, n).Forbidden = s.Forbidden
         /\ Drained(s, n).Limit = s.Limit
         /\ Drained(s, n).SpentEstimate = s.SpentEstimate
<1>1. s.UseCount >= n
  BY DEF KeyStates
<1> QED BY <1>1 DEF Drained, KeyStates

LEMMA ProbeSucceedsFields ==
  ASSUME NEW s \in KeyStates, NEW r, NEW t
  PROVE  /\ ProbeSucceeds(s, r, t).UseCount = s.UseCount
         /\ ProbeSucceeds(s, r, t).Forbidden = s.Forbidden
         /\ ProbeSucceeds(s, r, t).SpentEstimate = RoundedUp(r.spent)
  BY DEF ProbeSucceeds, KeyStates

LEMMA ProbeFailsFields ==
  ASSUME NEW s \in KeyStates, NEW permanent
  PROVE  /\ ProbeFails(s, permanent).UseCount = s.UseCount
         /\ ProbeFails(s, permanent).Disabled = TRUE
         /\ ProbeFails(s, permanent).Forbidden = (s.Forbidden \/ permanent)
         /\ ProbeFails(s, permanent).Limit = s.Limit
         /\ ProbeFails(s, permanent).SpentEstimate = s.SpentEstimate
  BY DEF ProbeFails, KeyStates

-----------------------------------------------------------------------------
(* TypeOK is inductive.                                                    *)

(* Forbidding a row leaves the column typed.                               *)
LEMMA ForbidTyped ==
  ASSUME dbErr \in [Keys -> Nat], NEW k, ForbidInDB(k)
  PROVE  dbErr' \in [Keys -> Nat]
  BY PoolConfig DEF ForbidInDB

(* A probe leaves the keys, the column and the history typed.              *)
LEMMA ProbeTyped ==
  ASSUME TypeOK, NEW k \in KeyIds, Probe(k)
  PROVE  /\ st' \in [KeyIds -> KeyStates]
         /\ dbErr' \in [Keys -> Nat]
         /\ word' \in [KeyIds -> Nat]
<1> USE DEF TypeOK
<1>1. CASE \E r \in RateReplies :
              /\ st' = [st EXCEPT ![k] = ProbeSucceeds(@, r, now)]
              /\ word' = [word EXCEPT ![k] = r.spent]
              /\ UNCHANGED dbErr
  <2>1. PICK r \in RateReplies :
              /\ st' = [st EXCEPT ![k] = ProbeSucceeds(@, r, now)]
              /\ word' = [word EXCEPT ![k] = r.spent]
              /\ UNCHANGED dbErr
    BY <1>1
  <2>2. r \in RateLimits
    BY PoolConstants
  <2>3. ProbeSucceeds(st[k], r, now) \in KeyStates
    BY <2>2, ReplyTyped
  <2>4. r.spent \in Nat
    BY <2>2 DEF RateLimits
  <2> QED BY <2>1, <2>3, <2>4
<1>2. CASE \E e \in Failures :
              /\ st' = [st EXCEPT ![k] = ProbeFails(@, IsInvalidClient(e))]
              /\ IF IsInvalidClient(e) THEN ForbidInDB(k) ELSE UNCHANGED dbErr
              /\ UNCHANGED word
  <2>1. PICK e \in Failures :
              /\ st' = [st EXCEPT ![k] = ProbeFails(@, IsInvalidClient(e))]
              /\ IF IsInvalidClient(e) THEN ForbidInDB(k) ELSE UNCHANGED dbErr
              /\ UNCHANGED word
    BY <1>2
  <2>2. ProbeFails(st[k], IsInvalidClient(e)) \in KeyStates
    BY ProbeFailsTyped
  <2>3. dbErr' \in [Keys -> Nat]
    BY <2>1, ForbidTyped
  <2> QED BY <2>1, <2>2, <2>3
<1> QED BY <1>1, <1>2 DEF Probe

(* Acquire's rolling of the windows is typed.                              *)
LEMMA RolledTyped ==
  ASSUME TypeOK
  PROVE  Rolled \in [KeyIds -> KeyStates] /\ RolledWord \in [KeyIds -> Nat]
<1>1. \A k \in KeyIds : RollReset(st[k], now) \in KeyStates
  BY RollTyped DEF TypeOK
<1> QED BY <1>1 DEF TypeOK, Rolled, RolledWord

(* One step per action. *)
LEMMA TypeOKStep ==
  ASSUME TypeOK, [Next]_vars
  PROVE  TypeOK'
<1> USE DEF TypeOK, vars, envVars, memory, workVars, maintVars, dbVars
<1>1. CASE LoadRows
  BY <1>1 DEF LoadRows, Phases
<1>2. CASE ProbeNext
  <2>1. PICK k \in toProbe : Probe(k) /\ toProbe' = toProbe \ {k}
    BY <1>2 DEF ProbeNext
  <2>2. k \in KeyIds
    BY DEF KeyIds
  <2> QED BY <1>2, <2>1, <2>2, ProbeTyped DEF ProbeNext
<1>3. CASE RetryProbes
  BY <1>3 DEF RetryProbes, Retryable, Phases
<1>4. CASE Publish
  BY <1>4 DEF Publish, Phases, KeyIds
<1>5. CASE AddEnvKey
  <2>1. EnvKey \in KeyIds /\ Probe(EnvKey)
    BY <1>5 DEF AddEnvKey, KeyIds
  <2> QED BY <1>5, <2>1, ProbeTyped DEF AddEnvKey, Phases
<1>6. CASE ExitWithoutKeys
  BY <1>6 DEF ExitWithoutKeys, Phases
<1>7. ASSUME NEW w \in Workers, Acquire(w)
      PROVE  TypeOK'
  <2>1. CASE \E k \in AvailableAt(now) :
               /\ st' = [Rolled EXCEPT ![k] = Debit(@)]
               /\ lease' = [lease EXCEPT ![w] = k]
               /\ granted' = [granted EXCEPT ![k] = @ + 1]
    <3>1. PICK k \in AvailableAt(now) :
               /\ st' = [Rolled EXCEPT ![k] = Debit(@)]
               /\ lease' = [lease EXCEPT ![w] = k]
               /\ granted' = [granted EXCEPT ![k] = @ + 1]
      BY <2>1
    <3>2. k \in KeyIds
      BY DEF AvailableAt
    <3>3. Debit(Rolled[k]) \in KeyStates
      BY <3>2, RolledTyped, DebitTyped
    <3> QED BY <1>7, <3>1, <3>2, <3>3, RolledTyped DEF Acquire
  <2>2. CASE st' = Rolled /\ UNCHANGED <<lease, granted>>
    BY <1>7, <2>2, RolledTyped DEF Acquire
  <2> QED BY <1>7, <2>1, <2>2 DEF Acquire
<1>8. ASSUME NEW w \in Workers, NEW n \in 0..MaxZones, Release(w, n)
      PROVE  TypeOK'
  <2>1. lease[w] \in KeyIds /\ n * ZoneCost \in Int
    BY <1>8, PoolConstants DEF Release
  <2>2. Settle(st[lease[w]], n * ZoneCost) \in KeyStates
    BY <2>1, SettleTyped
  <2> QED BY <1>8, <2>1, <2>2 DEF Release
<1>9. ASSUME NEW w \in Workers, Drop(w)
      PROVE  TypeOK'
  BY <1>9 DEF Drop
<1>10. ASSUME NEW w \in Workers, NEW e \in Failures, MarkError(w, Classify(e))
       PROVE  TypeOK'
  <2> DEFINE kind == Classify(e)
  <2>1. lease[w] \in KeyIds
    BY <1>10 DEF MarkError
  <2>2. Failed(st[lease[w]], kind, now) \in KeyStates
    BY <2>1, FailedTyped
  <2>3. 2 * st[lease[w]].Limit \in Nat
    <3>1. st[lease[w]].Limit \in Nat
      BY <2>1 DEF KeyStates
    <3> QED BY <3>1
  <2>4. st' \in [KeyIds -> KeyStates]
    BY <1>10, <2>1, <2>2 DEF MarkError
  <2>5. word' \in [KeyIds -> Nat]
    BY <1>10, <2>1, <2>3 DEF MarkError
  <2>6. /\ lease' \in [Workers -> KeyIds \cup {None}]
        /\ forbidding' \in [Workers -> KeyIds \cup {None}]
    BY <1>10, <2>1 DEF MarkError
  <2> QED BY <1>10, <2>4, <2>5, <2>6 DEF MarkError
<1>11. ASSUME NEW w \in Workers, WriteForbidden(w)
       PROVE  TypeOK'
  <2>1. ForbidInDB(forbidding[w])
    BY <1>11 DEF WriteForbidden
  <2>2. dbErr' \in [Keys -> Nat]
    BY <2>1, ForbidTyped
  <2> QED BY <1>11, <2>2 DEF WriteForbidden
<1>12. CASE ReconcileStart
  BY <1>12 DEF ReconcileStart
<1>13. ASSUME NEW k \in due, ReconcileKey(k)
       PROVE  TypeOK'
  <2>1. CASE \E r \in RateReplies :
               /\ st' = [st EXCEPT ![k] = Refresh(@, r, now)]
               /\ word' = [word EXCEPT ![k] = r.spent]
    <3>1. PICK r \in RateReplies :
               /\ st' = [st EXCEPT ![k] = Refresh(@, r, now)]
               /\ word' = [word EXCEPT ![k] = r.spent]
      BY <2>1
    <3>2. r \in RateLimits
      BY PoolConstants
    <3>3. Refresh(st[k], r, now) \in KeyStates /\ r.spent \in Nat
      BY <3>2, ReplyTyped DEF RateLimits
    <3> QED BY <1>13, <3>1, <3>3 DEF ReconcileKey
  <2>2. CASE st' = [st EXCEPT ![k].ErrCount = @ + 1] /\ UNCHANGED word
    <3>1. [st[k] EXCEPT !.ErrCount = @ + 1] \in KeyStates
      BY ErrCountTyped
    <3>2. st' \in [KeyIds -> KeyStates]
      BY <2>2, <3>1
    <3> QED BY <1>13, <2>2, <3>2 DEF ReconcileKey
  <2> QED BY <1>13, <2>1, <2>2 DEF ReconcileKey
<1>14. CASE FlushStart
  <2>1. \A k \in Keys : k \in KeyIds /\ st[k].UseCount \in Nat /\ st[k].ErrCount \in Nat
    BY DEF KeyIds, KeyStates
  <2>2. batch' \in [Keys -> [useDelta : Nat, errAbs : Nat]]
    BY <1>14, <2>1 DEF FlushStart, NotPending
  <2> QED BY <1>14, <2>2 DEF FlushStart
<1>15. ASSUME NEW k \in Pending, FlushWrite(k)
       PROVE  TypeOK'
  <2>1. k \in Keys /\ batch[k].useDelta \in Nat /\ batch[k].errAbs \in Nat
    BY DEF Pending
  <2>2. NotPending \in [useDelta : Nat, errAbs : Nat]
    BY DEF NotPending
  <2>3. dbUse[k] + batch[k].useDelta \in Nat
    BY <2>1
  <2>4. dbUse' \in [Keys -> Nat]
    BY <1>15, <2>3 DEF FlushWrite
  <2>5. dbErr' \in [Keys -> Nat]
    BY <1>15, <2>1 DEF FlushWrite
  <2>6. batch' \in [Keys -> [useDelta : Nat, errAbs : Nat]]
    BY <1>15, <2>2 DEF FlushWrite
  <2>7. unsettled' \in Keys \cup {None}
    BY <1>15, <2>1 DEF FlushWrite
  <2>8. UNCHANGED <<envVars, phase, memory, workVars, due, granted, word>>
    BY <1>15 DEF FlushWrite
  <2> QED BY <2>4, <2>5, <2>6, <2>7, <2>8
<1>16. CASE FlushSettle
  <2>1. unsettled \in Keys /\ unsettled \in KeyIds /\ batch[unsettled].useDelta \in Nat
    BY <1>16 DEF FlushSettle, KeyIds
  <2>2. Drained(st[unsettled], batch[unsettled].useDelta) \in KeyStates
    BY <2>1, DrainedTyped
  <2>3. NotPending \in [useDelta : Nat, errAbs : Nat]
    BY DEF NotPending
  <2> QED BY <1>16, <2>1, <2>2, <2>3 DEF FlushSettle
<1>17. CASE Tick
  BY <1>17 DEF Tick
<1>18. CASE Restart
  BY <1>18, NewKeyTyped DEF Restart, Phases, NotPending, KeyIds
<1>19. CASE UNCHANGED vars
  BY <1>19
<1> QED BY <1>1, <1>2, <1>3, <1>4, <1>5, <1>6, <1>7, <1>8, <1>9, <1>10, <1>11, <1>12,
           <1>13, <1>14, <1>15, <1>16, <1>17, <1>18, <1>19 DEF Next

(* Every state of the pool has its type, whatever the keys, the workers    *)
(* and FFLogs' answers: the whole of pool.go, with main's start-up, the    *)
(* maintenance goroutine and crashes.                                      *)
THEOREM TypeCorrect == Spec => []TypeOK
<1>1. Init => TypeOK
  BY NewKeyTyped DEF Init, TypeOK, Phases, NotPending, KeyIds
<1>2. TypeOK /\ [Next]_vars => TypeOK'
  BY TypeOKStep
<1> QED BY <1>1, <1>2, PTL DEF Spec

-----------------------------------------------------------------------------
(* No use is lost or counted twice.  What makes UsesAccounted inductive is *)
(* that a batch never holds more uses of a key than the key still has, and *)
(* that the row being drained is in the batch.                             *)

FlushInv ==
  /\ \A k \in Keys : batch[k].useDelta <= st[k].UseCount
  /\ unsettled # None => unsettled \in Pending

UsesInv == FlushInv /\ UsesAccounted

(* A step that grants, persists and drains nothing keeps UsesInv.          *)
LEMMA UsesKept ==
  ASSUME UsesInv,
         \A k \in Keys : st'[k].UseCount = st[k].UseCount,
         UNCHANGED <<batch, unsettled, dbUse, granted>>
  PROVE  UsesInv'
  BY DEF UsesInv, FlushInv, UsesAccounted, Pending

(* A probe grants nothing.                                                 *)
LEMMA ProbeKeepsUses ==
  ASSUME TypeOK, NEW j \in KeyIds, Probe(j)
  PROVE  \A k \in Keys : st'[k].UseCount = st[k].UseCount
<1>1. st[j] \in KeyStates
  BY DEF TypeOK
<1>2. PICK v : st' = [st EXCEPT ![j] = v] /\ v.UseCount = st[j].UseCount
  <2>1. CASE \E r \in RateReplies : st' = [st EXCEPT ![j] = ProbeSucceeds(@, r, now)]
    <3>1. PICK r \in RateReplies : st' = [st EXCEPT ![j] = ProbeSucceeds(@, r, now)]
      BY <2>1
    <3>2. ProbeSucceeds(st[j], r, now).UseCount = st[j].UseCount
      BY <1>1, ProbeSucceedsFields
    <3> QED BY <3>1, <3>2
  <2>2. CASE \E e \in Failures : st' = [st EXCEPT ![j] = ProbeFails(@, IsInvalidClient(e))]
    <3>1. PICK e \in Failures : st' = [st EXCEPT ![j] = ProbeFails(@, IsInvalidClient(e))]
      BY <2>2
    <3>2. ProbeFails(st[j], IsInvalidClient(e)).UseCount = st[j].UseCount
      BY <1>1, ProbeFailsFields
    <3> QED BY <3>1, <3>2
  <2> QED BY <2>1, <2>2 DEF Probe
<1> QED BY <1>2 DEF TypeOK

(* One step per action; the flush is where the work is. *)
LEMMA UsesStep ==
  ASSUME TypeOK, UsesInv, [Next]_vars
  PROVE  UsesInv'
<1> USE DEF vars, envVars, memory, workVars, maintVars, dbVars
<1> Keys \subseteq KeyIds /\ None \notin Keys
  BY PoolConstants DEF KeyIds
<1>0. \A k \in KeyIds : st[k] \in KeyStates
  BY DEF TypeOK
<1>1. CASE \/ LoadRows \/ RetryProbes \/ Publish \/ ExitWithoutKeys \/ ReconcileStart
           \/ Tick \/ UNCHANGED vars
  <2>1. UNCHANGED <<st, batch, unsettled, dbUse, granted>>
    BY <1>1 DEF LoadRows, RetryProbes, Publish, ExitWithoutKeys, ReconcileStart, Tick
  <2> QED BY <2>1, UsesKept
<1>2. CASE ProbeNext
  <2>1. PICK k \in toProbe : Probe(k)
    BY <1>2 DEF ProbeNext
  <2>2. UNCHANGED <<batch, unsettled, dbUse, granted>>
    BY <1>2 DEF ProbeNext
  <2>3. k \in KeyIds
    BY DEF TypeOK
  <2> QED BY <2>1, <2>2, <2>3, ProbeKeepsUses, UsesKept
<1>3. CASE AddEnvKey
  <2>1. EnvKey \in KeyIds /\ Probe(EnvKey) /\ UNCHANGED <<batch, unsettled, dbUse, granted>>
    BY <1>3 DEF AddEnvKey, KeyIds
  <2> QED BY <2>1, ProbeKeepsUses, UsesKept
<1>4. ASSUME NEW w \in Workers, Acquire(w)
      PROVE  UsesInv'
  <2>1. UNCHANGED <<batch, unsettled, dbUse>>
    BY <1>4 DEF Acquire
  <2>2. \A k \in KeyIds : /\ Rolled[k] \in KeyStates
                          /\ Rolled[k].UseCount = st[k].UseCount
    BY <1>0, RolledTyped, RollFields DEF Rolled, TypeOK
  <2>3. CASE \E k \in AvailableAt(now) :
               /\ st' = [Rolled EXCEPT ![k] = Debit(@)]
               /\ granted' = [granted EXCEPT ![k] = @ + 1]
    <3>1. PICK k \in AvailableAt(now) :
               /\ st' = [Rolled EXCEPT ![k] = Debit(@)]
               /\ granted' = [granted EXCEPT ![k] = @ + 1]
      BY <2>3
    <3>2. k \in KeyIds
      BY DEF AvailableAt, TypeOK
    <3>3. Debit(Rolled[k]).UseCount = st[k].UseCount + 1
      BY <2>2, <3>2, DebitFields
    <3>4. /\ granted'[k] = granted[k] + 1
          /\ st'[k].UseCount = st[k].UseCount + 1
          /\ \A j \in KeyIds \ {k} : /\ granted'[j] = granted[j]
                                     /\ st'[j].UseCount = st[j].UseCount
      BY <2>2, <3>1, <3>2, <3>3, RolledTyped DEF TypeOK
    <3>5. \A j \in Keys : /\ batch[j].useDelta \in Nat /\ granted[j] \in Nat
                          /\ st[j].UseCount \in Nat /\ dbUse[j] \in Nat
      BY <1>0 DEF TypeOK, KeyStates
    <3> QED BY <2>1, <3>4, <3>5 DEF UsesInv, FlushInv, UsesAccounted, Pending
  <2>4. CASE st' = Rolled /\ UNCHANGED <<lease, granted>>
    BY <2>1, <2>2, <2>4, UsesKept
  <2> QED BY <1>4, <2>3, <2>4 DEF Acquire
<1>5. ASSUME NEW w \in Workers, NEW n \in 0..MaxZones, Release(w, n)
      PROVE  UsesInv'
  <2>1. lease[w] \in KeyIds /\ n * ZoneCost \in Nat
    BY <1>5, PoolConstants DEF Release, TypeOK
  <2>2. Settle(st[lease[w]], n * ZoneCost).UseCount = st[lease[w]].UseCount
    BY <1>0, <2>1, SettleFields
  <2>3. \A k \in Keys : st'[k].UseCount = st[k].UseCount
    BY <1>5, <2>2 DEF Release, TypeOK
  <2> QED BY <1>5, <2>3, UsesKept DEF Release
<1>6. ASSUME NEW w \in Workers, Drop(w) \/ WriteForbidden(w)
      PROVE  UsesInv'
  BY <1>6, UsesKept DEF Drop, WriteForbidden
<1>7. ASSUME NEW w \in Workers, NEW e \in Failures, MarkError(w, Classify(e))
      PROVE  UsesInv'
  <2>1. lease[w] \in KeyIds /\ now \in Nat
    BY <1>7 DEF MarkError, TypeOK
  <2>2. Failed(st[lease[w]], Classify(e), now).UseCount = st[lease[w]].UseCount
    BY <1>0, <2>1, FailedFields
  <2>3. \A k \in Keys : st'[k].UseCount = st[k].UseCount
    BY <1>7, <2>2 DEF MarkError, TypeOK
  <2> QED BY <1>7, <2>3, UsesKept DEF MarkError
<1>8. ASSUME NEW k \in due, ReconcileKey(k)
      PROVE  UsesInv'
  <2>1. k \in KeyIds
    BY DEF TypeOK
  <2>2. \A r : Refresh(st[k], r, now).UseCount = st[k].UseCount
    BY <1>0, <2>1, RefreshFields
  <2>3. CASE \E r \in RateReplies : st' = [st EXCEPT ![k] = Refresh(@, r, now)]
    <3>1. \A j \in Keys : st'[j].UseCount = st[j].UseCount
      BY <2>2, <2>3 DEF TypeOK
    <3> QED BY <1>8, <3>1, UsesKept DEF ReconcileKey
  <2>4. CASE st' = [st EXCEPT ![k].ErrCount = @ + 1]
    <3>1. st' = [st EXCEPT ![k] = [st[k] EXCEPT !.ErrCount = @ + 1]]
      BY <2>4
    <3>2. [st[k] EXCEPT !.ErrCount = @ + 1].UseCount = st[k].UseCount
      BY <1>0, <2>1, ErrCountFields
    <3>3. \A j \in Keys : st'[j].UseCount = st[j].UseCount
      BY <3>1, <3>2 DEF TypeOK
    <3> QED BY <1>8, <3>3, UsesKept DEF ReconcileKey
  <2> QED BY <1>8, <2>3, <2>4 DEF ReconcileKey
<1>9. CASE FlushStart
  <2>1. /\ UNCHANGED <<st, unsettled, dbUse, granted>>
        /\ Pending = {} /\ unsettled = None
    BY <1>9 DEF FlushStart, MaintenanceIdle, UsesInv, FlushInv
  <2>2. \A k \in Keys : st[k].UseCount \in Nat /\ batch'[k].useDelta <= st[k].UseCount
    BY <1>0, <1>9 DEF FlushStart, NotPending, KeyStates
  <2> QED BY <2>1, <2>2 DEF UsesInv, FlushInv, UsesAccounted
<1>10. ASSUME NEW k \in Pending, FlushWrite(k)
       PROVE  UsesInv'
  <2>1. /\ k \in Keys /\ unsettled = None
        /\ UNCHANGED <<st, granted>>
        /\ \A j \in Keys : /\ batch[j].useDelta \in Nat /\ granted[j] \in Nat
                           /\ st[j].UseCount \in Nat /\ dbUse[j] \in Nat
    BY <1>0, <1>10 DEF FlushWrite, Pending, TypeOK, KeyStates
  <2>2. CASE /\ dbUse' = [dbUse EXCEPT ![k] = @ + batch[k].useDelta]
             /\ unsettled' = k /\ UNCHANGED batch
    BY <2>1, <2>2 DEF UsesInv, FlushInv, UsesAccounted, Pending, TypeOK
  <2>3. CASE /\ dbUse' = [dbUse EXCEPT ![k] = @ + batch[k].useDelta] /\ LostAcks
             /\ batch' = [batch EXCEPT ![k] = NotPending] /\ UNCHANGED unsettled
    BY <2>1, <2>3 DEF UsesInv, FlushInv, UsesAccounted, TypeOK, NotPending
  <2>4. CASE /\ batch' = [batch EXCEPT ![k] = NotPending]
             /\ UNCHANGED <<dbUse, dbErr, unsettled>>
    BY <2>1, <2>4 DEF UsesInv, FlushInv, UsesAccounted, TypeOK, NotPending
  <2> QED BY <1>10, <2>2, <2>3, <2>4 DEF FlushWrite
<1>11. CASE FlushSettle
  <2> DEFINE n == batch[unsettled].useDelta
  <2>1. /\ unsettled \in Keys /\ n \in Nat /\ n <= st[unsettled].UseCount
        /\ UNCHANGED <<dbUse, granted>> /\ unsettled' = None
    BY <1>11 DEF FlushSettle, UsesInv, FlushInv, Pending, TypeOK
  <2>2. Drained(st[unsettled], n).UseCount = st[unsettled].UseCount - n
    BY <1>0, <2>1, DrainedFields
  <2>3. /\ st'[unsettled].UseCount = st[unsettled].UseCount - n
        /\ \A j \in Keys \ {unsettled} : st'[j] = st[j]
        /\ batch'[unsettled].useDelta = 0
        /\ \A j \in Keys \ {unsettled} : batch'[j] = batch[j]
    BY <1>11, <2>1, <2>2 DEF FlushSettle, TypeOK, NotPending
  <2>4. \A j \in Keys : /\ batch[j].useDelta \in Nat /\ granted[j] \in Nat
                        /\ st[j].UseCount \in Nat /\ dbUse[j] \in Nat
    BY <1>0 DEF TypeOK, KeyStates
  <2> QED BY <2>1, <2>3, <2>4 DEF UsesInv, FlushInv, UsesAccounted
<1>12. CASE Restart
  <2>1. \A k \in Keys : st'[k].UseCount = 0 /\ batch'[k].useDelta = 0
    BY <1>12 DEF Restart, NewKey, NotPending
  <2>2. \A k \in Keys : dbUse'[k] = dbUse[k] /\ dbUse[k] \in Nat /\ granted'[k] = dbUse[k]
    BY <1>12 DEF Restart, TypeOK
  <2>3. unsettled' = None
    BY <1>12 DEF Restart
  <2> QED BY <2>1, <2>2, <2>3 DEF UsesInv, FlushInv, UsesAccounted
<1> QED BY <1>1, <1>2, <1>3, <1>4, <1>5, <1>6, <1>7, <1>8, <1>9, <1>10, <1>11, <1>12 DEF Next

(* FlushStats and Acquire together never lose or double a use that the     *)
(* running process has granted, however many keys and workers there are; a *)
(* lost acknowledgement can only make use_count run ahead.                 *)
THEOREM UsesAlwaysAccounted == Spec => []UsesAccounted
<1>1. Init => UsesInv
  BY DEF Init, UsesInv, FlushInv, UsesAccounted, NewKey, NotPending, KeyIds
<1>2. TypeOK /\ UsesInv /\ [Next]_vars => UsesInv'
  BY UsesStep
<1>3. UsesInv => UsesAccounted
  BY DEF UsesInv
<1> QED BY <1>1, <1>2, <1>3, TypeCorrect, PTL DEF Spec

-----------------------------------------------------------------------------
(* A disabled key stays out of service.  Only the types are needed: no     *)
(* update a running pool makes clears Disabled, and Acquire leases only    *)
(* what is available.                                                      *)

StaysDisabled(k) ==
  phase = "running" /\ phase' = "running" /\ st[k].Disabled
    => st'[k].Disabled /\ granted'[k] = granted[k]

(* One step per action, for one key. *)
LEMMA DisabledStep ==
  ASSUME TypeOK, [Next]_vars, NEW k \in keys
  PROVE  StaysDisabled(k)
<1> USE DEF vars, envVars, memory, workVars, maintVars, dbVars
<1> SUFFICES ASSUME phase = "running", phase' = "running", st[k].Disabled
             PROVE  st'[k].Disabled /\ granted'[k] = granted[k]
  BY DEF StaysDisabled
<1>0. k \in KeyIds /\ st \in [KeyIds -> KeyStates] /\ now \in Nat
  BY DEF TypeOK
<1>1. CASE \/ LoadRows \/ ProbeNext \/ RetryProbes \/ Publish \/ AddEnvKey \/ ExitWithoutKeys
           \/ Restart
  BY <1>1 DEF LoadRows, ProbeNext, RetryProbes, Publish, AddEnvKey, ExitWithoutKeys, Restart
<1>2. CASE \/ ReconcileStart \/ FlushStart \/ Tick \/ UNCHANGED vars
           \/ \E w \in Workers : Drop(w) \/ WriteForbidden(w)
           \/ \E j \in Pending : FlushWrite(j)
  BY <1>2 DEF ReconcileStart, FlushStart, Tick, Drop, WriteForbidden, FlushWrite
<1>3. ASSUME NEW w \in Workers, Acquire(w)
      PROVE  st'[k].Disabled /\ granted'[k] = granted[k]
  <2>1. Rolled \in [KeyIds -> KeyStates] /\ Rolled[k].Disabled
    BY <1>0, RolledTyped, RollFields DEF Rolled
  <2>2. k \notin AvailableAt(now)
    BY <1>0, RollFields DEF AvailableAt, Available
  <2> QED BY <1>0, <1>3, <2>1, <2>2 DEF Acquire, TypeOK
<1>4. ASSUME NEW w \in Workers, NEW n \in 0..MaxZones, Release(w, n)
      PROVE  st'[k].Disabled /\ granted'[k] = granted[k]
  <2>1. n * ZoneCost \in Nat
    BY PoolConstants
  <2>2. Settle(st[k], n * ZoneCost).Disabled
    BY <1>0, <2>1, SettleFields
  <2> QED BY <1>0, <1>4, <2>2 DEF Release
<1>5. ASSUME NEW w \in Workers, NEW e \in Failures, MarkError(w, Classify(e))
      PROVE  st'[k].Disabled /\ granted'[k] = granted[k]
  <2>1. Failed(st[k], Classify(e), now).Disabled
    BY <1>0, FailedFields
  <2> QED BY <1>0, <1>5, <2>1 DEF MarkError
<1>6. ASSUME NEW j \in due, ReconcileKey(j)
      PROVE  st'[k].Disabled /\ granted'[k] = granted[k]
  <2>1. \A r : Refresh(st[k], r, now).Disabled
    BY <1>0, RefreshFields
  <2>2. [st[k] EXCEPT !.ErrCount = @ + 1].Disabled
    BY <1>0, ErrCountFields
  <2>3. CASE \E r \in RateReplies : st' = [st EXCEPT ![j] = Refresh(@, r, now)]
    BY <1>0, <1>6, <2>1, <2>3 DEF ReconcileKey
  <2>4. CASE st' = [st EXCEPT ![j].ErrCount = @ + 1]
    <3>1. st' = [st EXCEPT ![j] = [st[j] EXCEPT !.ErrCount = @ + 1]]
      BY <2>4
    <3> QED BY <1>0, <1>6, <2>2, <3>1 DEF ReconcileKey
  <2> QED BY <1>6, <2>3, <2>4 DEF ReconcileKey
<1>7. CASE FlushSettle
  <2>1. Drained(st[k], batch[unsettled].useDelta).Disabled
    BY <1>0 DEF Drained, KeyStates
  <2> QED BY <1>0, <1>7, <2>1 DEF FlushSettle
<1> QED BY <1>1, <1>2, <1>3, <1>4, <1>5, <1>6, <1>7 DEF Next

(* MarkError's verdict on a key holds until the process is restarted:      *)
(* no Release, refresh or flush that was under way, and no elapsed         *)
(* cooldown, returns the key to service.                                   *)
THEOREM DisabledStaysOut == Spec => DisabledIsFinal
<1>1. TypeOK /\ [Next]_vars => \A k \in keys : StaysDisabled(k)
  BY DisabledStep
<1>2. [Next]_vars /\ (TypeOK /\ [Next]_vars => \A k \in keys : StaysDisabled(k)) /\ TypeOK
        => [\A k \in keys :
              phase = "running" /\ phase' = "running" /\ st[k].Disabled
                => st'[k].Disabled /\ granted'[k] = granted[k]]_vars
  BY DEF StaysDisabled
<1> QED BY <1>1, <1>2, TypeCorrect, PTL DEF Spec, DisabledIsFinal

-----------------------------------------------------------------------------
(* The estimate stays within the budget.  EstimateBounded is inductive as  *)
(* it stands; its proof needs only how the leases in flight are counted.   *)

(* Multiplying naturals by MaxExtra.                                       *)
LEMMA MaxExtraGrows ==
  /\ MaxExtra \in Nat
  /\ \A n \in 0..MaxZones : n * ZoneCost \in Nat /\ n * ZoneCost <= MaxExtra
  /\ \A a \in Nat : MaxExtra * a \in Nat
  /\ \A a \in Nat : MaxExtra * (a + 1) = MaxExtra * a + MaxExtra
  /\ \A a, b \in Nat : a <= b => MaxExtra * a <= MaxExtra * b
<1>1. MaxZones \in Nat /\ ZoneCost \in Nat
  BY PoolConstants
<1>2. ASSUME NEW a \in Nat, NEW b \in Nat, NEW c \in Nat, a <= b
      PROVE  a * c <= b * c /\ c * a <= c * b
  BY <1>2
<1>3. ASSUME NEW a \in Nat, NEW b \in Nat
      PROVE  a * b \in Nat /\ a * (b + 1) = a * b + a
  BY <1>3
<1>4. \A n \in 0..MaxZones : n \in Nat /\ n <= MaxZones
  BY <1>1
<1>5. MaxExtra \in Nat
  BY <1>1, <1>3 DEF MaxExtra
<1>6. \A n \in 0..MaxZones : n * ZoneCost \in Nat /\ n * ZoneCost <= MaxExtra
  BY <1>1, <1>2, <1>3, <1>4 DEF MaxExtra
<1> HIDE DEF MaxExtra
<1> QED BY <1>2, <1>3, <1>5, <1>6

(* The leases in flight on a key are held by some of the workers, now and  *)
(* after any step.                                                         *)
LEMMA InFlightRange ==
  ASSUME NEW k
  PROVE  /\ Cardinality(Workers) \in Nat
         /\ InFlight(k) \in 0..Cardinality(Workers)
         /\ InFlight(k)' \in 0..Cardinality(Workers)
<1>1. ASSUME NEW holders \in SUBSET Workers
      PROVE  Cardinality(holders) \in 0..Cardinality(Workers)
  BY PoolConstants, FS_Subset, FS_CardinalityType
<1>2. Cardinality(Workers) \in Nat
  BY PoolConstants, FS_CardinalityType
<1> QED BY <1>1, <1>2 DEF InFlight

(* A lease that is given back is one less in flight, on its key only.      *)
LEMMA LeaseReturned ==
  ASSUME lease \in [Workers -> KeyIds \cup {None}],
         NEW w \in Workers, lease[w] # None, lease' = [lease EXCEPT ![w] = None],
         NEW k \in KeyIds
  PROVE  InFlight(k)' = IF k = lease[w] THEN InFlight(k) - 1 ELSE InFlight(k)
<1> DEFINE holders == {x \in Workers : lease[x] = k}
<1>1. IsFiniteSet(holders)
  BY PoolConstants, FS_Subset
<1>2. k # None
  BY PoolConstants
<1>3. {x \in Workers : lease'[x] = k} = holders \ {w}
  BY <1>2
<1>4. w \in holders <=> k = lease[w]
  OBVIOUS
<1>5. InFlight(k)' = Cardinality(holders \ {w}) /\ InFlight(k) = Cardinality(holders)
  BY <1>3 DEF InFlight
<1> HIDE DEF holders
<1> QED BY <1>1, <1>4, <1>5, FS_RemoveElement

(* What EstimateBounded says of one key.                                   *)
Bounded(k) ==
  /\ word[k] <= 2 * st[k].SpentEstimate
  /\ 2 * st[k].SpentEstimate <=
       Larger(word[k] + 1, 2 * (st[k].Limit - SafetyBudget))
         + 2 * (MaxExtra * (Cardinality(Workers) - InFlight(k)))

(* A key no step has touched, except that a lease of it may have ended.    *)
LEMMA BoundedKept ==
  ASSUME NEW k \in KeyIds, Bounded(k), TypeOK,
         st'[k].SpentEstimate = st[k].SpentEstimate, st'[k].Limit = st[k].Limit,
         word'[k] = word[k], InFlight(k)' <= InFlight(k), InFlight(k)' \in Nat
  PROVE  Bounded(k)'
<1> DEFINE a == Cardinality(Workers) - InFlight(k)
           b == Cardinality(Workers) - InFlight(k)'
<1>1. a \in Nat /\ b \in Nat /\ a <= b
  BY InFlightRange
<1>2. MaxExtra * a \in Nat /\ MaxExtra * b \in Nat /\ MaxExtra * a <= MaxExtra * b
  BY <1>1, MaxExtraGrows
<1>3. /\ word[k] \in Nat /\ st[k].SpentEstimate \in Nat /\ st[k].Limit \in Nat
      /\ SafetyBudget \in Nat
  BY PoolConfig DEF TypeOK, KeyStates
<1> QED BY <1>2, <1>3 DEF Bounded, Larger

(* Half a point counts as one. *)
LEMMA RoundingUp ==
  ASSUME NEW r \in RateLimits
  PROVE  r.spent <= 2 * RoundedUp(r.spent) /\ 2 * RoundedUp(r.spent) <= r.spent + 1
<1>1. r.spent \in Nat
  BY DEF RateLimits
<1> QED BY <1>1, SMT DEF RoundedUp

(* A key whose estimate is what FFLogs has just said, or zero with it.     *)
LEMMA BoundedAnew ==
  ASSUME NEW k \in KeyIds, InFlight(k)' \in 0..Cardinality(Workers), TypeOK',
         word'[k] <= 2 * st'[k].SpentEstimate, 2 * st'[k].SpentEstimate <= word'[k] + 1
  PROVE  Bounded(k)'
<1>1. Cardinality(Workers) - InFlight(k)' \in Nat
  BY InFlightRange
<1>2. MaxExtra * (Cardinality(Workers) - InFlight(k)') \in Nat
  BY <1>1, MaxExtraGrows
<1>3. /\ word'[k] \in Nat /\ st'[k].Limit \in Nat /\ st'[k].SpentEstimate \in Nat
      /\ SafetyBudget \in Nat
  BY PoolConfig DEF TypeOK, KeyStates
<1> QED BY <1>2, <1>3 DEF Bounded, Larger

(* One step per action, for one key. *)
LEMMA BoundedStep ==
  ASSUME TypeOK, TypeOK', [Next]_vars, \A j \in KeyIds : Bounded(j), NEW k \in KeyIds
  PROVE  Bounded(k)'
<1> USE DEF vars, envVars, memory, workVars, maintVars, dbVars
<1>0. /\ st \in [KeyIds -> KeyStates] /\ word \in [KeyIds -> Nat]
      /\ lease \in [Workers -> KeyIds \cup {None}]
      /\ now \in Nat /\ st[k] \in KeyStates
  BY DEF TypeOK
<1>a. InFlight(k)' \in 0..Cardinality(Workers)
  BY InFlightRange
<1>b. ASSUME UNCHANGED lease
      PROVE  InFlight(k)' <= InFlight(k) /\ InFlight(k)' \in Nat
  BY <1>b, InFlightRange DEF InFlight
<1>c. ASSUME NEW w \in Workers, lease[w] # None, lease' = [lease EXCEPT ![w] = None]
      PROVE  InFlight(k)' <= InFlight(k) /\ InFlight(k)' \in Nat
  <2>1. InFlight(k)' = IF k = lease[w] THEN InFlight(k) - 1 ELSE InFlight(k)
    BY <1>0, <1>c, LeaseReturned
  <2> QED BY <1>a, <2>1, InFlightRange
<1>1. CASE \/ LoadRows \/ RetryProbes \/ Publish \/ ExitWithoutKeys \/ ReconcileStart
           \/ FlushStart \/ Tick \/ UNCHANGED vars
           \/ \E w \in Workers : WriteForbidden(w)
           \/ \E j \in Pending : FlushWrite(j)
  <2>1. UNCHANGED <<st, word, lease>>
    BY <1>1 DEF LoadRows, RetryProbes, Publish, ExitWithoutKeys, ReconcileStart, FlushStart,
                Tick, WriteForbidden, FlushWrite
  <2> QED BY <2>1, <1>b, BoundedKept
<1>2. ASSUME NEW j \in KeyIds, Probe(j), UNCHANGED lease
      PROVE  Bounded(k)'
  <2>1. CASE \E r \in RateReplies : /\ st' = [st EXCEPT ![j] = ProbeSucceeds(@, r, now)]
                                    /\ word' = [word EXCEPT ![j] = r.spent]
    <3>1. PICK r \in RateReplies : /\ st' = [st EXCEPT ![j] = ProbeSucceeds(@, r, now)]
                                   /\ word' = [word EXCEPT ![j] = r.spent]
      BY <2>1
    <3>2. ProbeSucceeds(st[k], r, now).SpentEstimate = RoundedUp(r.spent)
      BY <1>0, ProbeSucceedsFields
    <3>3. CASE j = k
      <4>1. st'[k].SpentEstimate = RoundedUp(r.spent) /\ word'[k] = r.spent
        BY <1>0, <3>1, <3>2, <3>3
      <4>2. r \in RateLimits
        BY PoolConstants
      <4> QED BY <1>a, <4>1, <4>2, RoundingUp, BoundedAnew
    <3>4. CASE j # k
      BY <1>0, <1>b, <1>2, <3>1, <3>4, BoundedKept
    <3> QED BY <3>3, <3>4
  <2>2. CASE /\ \E e \in Failures : st' = [st EXCEPT ![j] = ProbeFails(@, IsInvalidClient(e))]
             /\ UNCHANGED word
    <3>1. PICK e \in Failures : st' = [st EXCEPT ![j] = ProbeFails(@, IsInvalidClient(e))]
      BY <2>2
    <3>2. /\ ProbeFails(st[k], IsInvalidClient(e)).SpentEstimate = st[k].SpentEstimate
          /\ ProbeFails(st[k], IsInvalidClient(e)).Limit = st[k].Limit
      BY <1>0, ProbeFailsFields
    <3>3. st'[k].SpentEstimate = st[k].SpentEstimate /\ st'[k].Limit = st[k].Limit
      BY <1>0, <3>1, <3>2
    <3> QED BY <1>b, <1>2, <2>2, <3>3, BoundedKept
  <2> QED BY <1>2, <2>1, <2>2 DEF Probe
<1>3. CASE ProbeNext
  <2>1. PICK j \in toProbe : Probe(j)
    BY <1>3 DEF ProbeNext
  <2>2. j \in KeyIds /\ UNCHANGED lease
    BY <1>3 DEF ProbeNext, TypeOK, KeyIds
  <2> QED BY <1>2, <2>1, <2>2
<1>4. CASE AddEnvKey
  <2>1. EnvKey \in KeyIds /\ Probe(EnvKey) /\ UNCHANGED lease
    BY <1>4 DEF AddEnvKey, KeyIds
  <2> QED BY <1>2, <2>1
<1>5. ASSUME NEW w \in Workers, Acquire(w)
      PROVE  Bounded(k)'
  <2>1. /\ Rolled \in [KeyIds -> KeyStates]
        /\ Rolled[k].Limit = st[k].Limit
        /\ \/ Rolled[k].SpentEstimate = st[k].SpentEstimate /\ word'[k] = word[k]
           \/ Rolled[k].SpentEstimate = 0 /\ word'[k] = 0
    BY <1>0, <1>5, RolledTyped, RollFields DEF Acquire, Rolled, RolledWord
  <2>2. CASE st'[k] = Rolled[k] /\ InFlight(k)' = InFlight(k)
    <3>1. InFlight(k)' <= InFlight(k) /\ InFlight(k)' \in Nat
      BY <2>2, InFlightRange
    <3>2. CASE Rolled[k].SpentEstimate = st[k].SpentEstimate /\ word'[k] = word[k]
      BY <2>1, <2>2, <3>1, <3>2, BoundedKept
    <3>3. CASE Rolled[k].SpentEstimate = 0 /\ word'[k] = 0
      BY <1>a, <2>2, <3>3, BoundedAnew
    <3> QED BY <2>1, <3>2, <3>3
  <2>3. CASE \E j \in AvailableAt(now) : /\ st' = [Rolled EXCEPT ![j] = Debit(@)]
                                         /\ lease' = [lease EXCEPT ![w] = j]
    <3>1. PICK j \in AvailableAt(now) : /\ st' = [Rolled EXCEPT ![j] = Debit(@)]
                                        /\ lease' = [lease EXCEPT ![w] = j]
      BY <2>3
    <3>2. CASE j # k
      <4>1. k # None /\ lease[w] = None
        BY <1>5, PoolConstants DEF Acquire
      <4>2. {x \in Workers : lease'[x] = k} = {x \in Workers : lease[x] = k}
        BY <1>0, <3>1, <3>2, <4>1
      <4> QED BY <2>1, <2>2, <3>1, <3>2, <4>2 DEF InFlight
    <3>3. CASE j = k
      <4>1. Available(Rolled[k], now, MinBudget)
        BY <3>1, <3>3 DEF AvailableAt, Rolled
      <4>2. st'[k] = Debit(Rolled[k])
        BY <2>1, <3>1, <3>3
      <4>3. /\ st'[k].SpentEstimate = Rolled[k].SpentEstimate + EstCostPerMember
            /\ st'[k].Limit = st[k].Limit
        BY <2>1, <4>2, DebitFields
      <4>4. /\ word[k] \in Nat /\ Rolled[k].SpentEstimate \in Nat /\ st[k].Limit \in Nat
            /\ SafetyBudget \in Nat /\ EstCostPerMember \in Nat \ {0}
        BY <1>0, <2>1, PoolConfig DEF KeyStates
      <4>5. st'[k].SpentEstimate <= st'[k].Limit - SafetyBudget
        BY <2>1, <4>1, <4>3, <4>4 DEF Available, Remaining, MinBudget
      <4>6. word'[k] <= 2 * st'[k].SpentEstimate
        BY <2>1, <4>3, <4>4 DEF Bounded
      <4>7. MaxExtra * (Cardinality(Workers) - InFlight(k)') \in Nat
        BY <1>a, InFlightRange, MaxExtraGrows
      <4>8. st'[k].SpentEstimate \in Nat /\ st'[k].Limit \in Nat /\ word'[k] \in Nat
        BY <2>1, <4>3, <4>4
      <4> QED BY <4>4, <4>5, <4>6, <4>7, <4>8 DEF Bounded, Larger
    <3> QED BY <3>2, <3>3
  <2>4. CASE st' = Rolled /\ UNCHANGED <<lease, granted>>
    BY <2>2, <2>4 DEF InFlight
  <2> QED BY <1>5, <2>3, <2>4 DEF Acquire
<1>6. ASSUME NEW w \in Workers, NEW n \in 0..MaxZones, Release(w, n)
      PROVE  Bounded(k)'
  <2>1. /\ n * ZoneCost \in Nat /\ n * ZoneCost <= MaxExtra
    BY MaxExtraGrows
  <2>2. /\ lease[w] # None /\ lease' = [lease EXCEPT ![w] = None] /\ UNCHANGED word
        /\ st' = [st EXCEPT ![lease[w]] = Settle(@, n * ZoneCost)]
    BY <1>6 DEF Release
  <2>3. CASE lease[w] # k
    BY <1>0, <1>c, <2>2, <2>3, BoundedKept
  <2>4. CASE lease[w] = k
    <3> DEFINE a == Cardinality(Workers) - InFlight(k)
    <3>1. /\ st'[k].SpentEstimate = st[k].SpentEstimate + n * ZoneCost
          /\ st'[k].Limit = st[k].Limit
      BY <1>0, <2>1, <2>2, <2>4, SettleFields
    <3>0. InFlight(k)' = IF k = lease[w] THEN InFlight(k) - 1 ELSE InFlight(k)
      BY <1>0, <2>2, LeaseReturned
    <3>2. a \in Nat /\ Cardinality(Workers) - InFlight(k)' = a + 1
      BY <2>4, <3>0, InFlightRange
    <3>3. MaxExtra * (Cardinality(Workers) - InFlight(k)') = MaxExtra * a + MaxExtra
      BY <3>2, MaxExtraGrows
    <3>4. MaxExtra * a \in Nat /\ MaxExtra \in Nat
      BY <3>2, MaxExtraGrows
    <3>5. /\ word[k] \in Nat /\ st[k].SpentEstimate \in Nat /\ st[k].Limit \in Nat
          /\ SafetyBudget \in Nat
      BY <1>0, PoolConfig DEF KeyStates
    <3>6. Bounded(k) /\ word'[k] = word[k]
      BY <2>2
    <3> HIDE DEF a
    <3>7. /\ word[k] <= 2 * st[k].SpentEstimate
          /\ 2 * st[k].SpentEstimate <=
               Larger(word[k] + 1, 2 * (st[k].Limit - SafetyBudget)) + 2 * (MaxExtra * a)
      BY <3>6 DEF Bounded, a
    <3> QED BY <2>1, <3>1, <3>3, <3>4, <3>5, <3>6, <3>7 DEF Bounded, Larger
  <2> QED BY <2>3, <2>4
<1>7. ASSUME NEW w \in Workers, Drop(w)
      PROVE  Bounded(k)'
  BY <1>c, <1>7, BoundedKept DEF Drop
<1>8. ASSUME NEW w \in Workers, NEW e \in Failures, MarkError(w, Classify(e))
      PROVE  Bounded(k)'
  <2> DEFINE kind == Classify(e)
  <2>1. /\ lease[w] # None /\ lease' = [lease EXCEPT ![w] = None]
        /\ st' = [st EXCEPT ![lease[w]] = Failed(@, kind, now)]
        /\ word' = IF kind = "RateLimited"
                   THEN [word EXCEPT ![lease[w]] = 2 * st[lease[w]].Limit] ELSE word
    BY <1>8 DEF MarkError
  <2>2. /\ Failed(st[k], kind, now).Limit = st[k].Limit
        /\ Failed(st[k], kind, now).SpentEstimate =
             IF kind = "RateLimited" THEN st[k].Limit ELSE st[k].SpentEstimate
    BY <1>0, FailedFields
  <2> HIDE DEF kind
  <2>3. CASE kind = "RateLimited" /\ lease[w] = k
    <3>1. st'[k].SpentEstimate = st[k].Limit /\ word'[k] = 2 * st[k].Limit
      BY <1>0, <2>1, <2>2, <2>3
    <3>2. st[k].Limit \in Nat
      BY <1>0 DEF KeyStates
    <3> QED BY <1>a, <3>1, <3>2, BoundedAnew
  <2>4. CASE ~(kind = "RateLimited" /\ lease[w] = k)
    <3>1. /\ st'[k].SpentEstimate = st[k].SpentEstimate /\ st'[k].Limit = st[k].Limit
          /\ word'[k] = word[k]
      BY <1>0, <2>1, <2>2, <2>4
    <3> QED BY <1>c, <2>1, <3>1, BoundedKept
  <2> QED BY <2>3, <2>4
<1>9. ASSUME NEW j \in due, ReconcileKey(j)
      PROVE  Bounded(k)'
  <2>1. UNCHANGED lease
    BY <1>9 DEF ReconcileKey
  <2>2. CASE \E r \in RateReplies : /\ st' = [st EXCEPT ![j] = Refresh(@, r, now)]
                                    /\ word' = [word EXCEPT ![j] = r.spent]
    <3>1. PICK r \in RateReplies : /\ st' = [st EXCEPT ![j] = Refresh(@, r, now)]
                                   /\ word' = [word EXCEPT ![j] = r.spent]
      BY <2>2
    <3>2. Refresh(st[k], r, now).SpentEstimate = RoundedUp(r.spent)
      BY <1>0, RefreshFields
    <3>3. CASE j = k
      <4>1. st'[k].SpentEstimate = RoundedUp(r.spent) /\ word'[k] = r.spent
        BY <1>0, <3>1, <3>2, <3>3
      <4>2. r \in RateLimits
        BY PoolConstants
      <4> QED BY <1>a, <4>1, <4>2, RoundingUp, BoundedAnew
    <3>4. CASE j # k
      BY <1>0, <1>b, <2>1, <3>1, <3>4, BoundedKept
    <3> QED BY <3>3, <3>4
  <2>3. CASE st' = [st EXCEPT ![j].ErrCount = @ + 1] /\ UNCHANGED word
    <3>1. st' = [st EXCEPT ![j] = [st[j] EXCEPT !.ErrCount = @ + 1]]
      BY <2>3
    <3>2. st'[k].SpentEstimate = st[k].SpentEstimate /\ st'[k].Limit = st[k].Limit
      BY <1>0, <3>1, ErrCountFields
    <3> QED BY <1>b, <2>1, <2>3, <3>2, BoundedKept
  <2> QED BY <1>9, <2>2, <2>3 DEF ReconcileKey
<1>10. CASE FlushSettle
  <2>1. \A n : /\ Drained(st[k], n).SpentEstimate = st[k].SpentEstimate
               /\ Drained(st[k], n).Limit = st[k].Limit
    BY <1>0 DEF Drained, KeyStates
  <2>2. st'[k].SpentEstimate = st[k].SpentEstimate /\ st'[k].Limit = st[k].Limit
    BY <1>0, <1>10, <2>1 DEF FlushSettle
  <2> QED BY <1>b, <1>10, <2>2, BoundedKept DEF FlushSettle
<1>11. CASE Restart
  <2>1. st'[k].SpentEstimate = 0 /\ word'[k] = 0
    BY <1>11 DEF Restart, NewKey
  <2> QED BY <1>a, <2>1, BoundedAnew
<1> QED BY <1>1, <1>3, <1>4, <1>5, <1>6, <1>7, <1>8, <1>9, <1>10, <1>11 DEF Next

(* Whatever the interleaving of leases, settlements, 429s, refreshes and   *)
(* window rolls, the local estimate is never below what FFLogs last said   *)
(* and exceeds it by its rounding, or Acquire's ceiling, by no more than   *)
(* the zones of the leases settled since.                                  *)
THEOREM EstimateAlwaysBounded == Spec => []EstimateBounded
<1>1. EstimateBounded <=> \A k \in KeyIds : Bounded(k)
  BY DEF EstimateBounded, Bounded
<1>2. Init => EstimateBounded
  <2> SUFFICES ASSUME Init, NEW k \in KeyIds PROVE Bounded(k)
    BY <1>1
  <2>1. Cardinality(Workers) - InFlight(k) \in Nat
    BY InFlightRange
  <2>2. MaxExtra * (Cardinality(Workers) - InFlight(k)) \in Nat
    BY <2>1, MaxExtraGrows
  <2>3. st[k].SpentEstimate = 0 /\ word[k] = 0 /\ st[k].Limit = 0
    BY DEF Init, NewKey
  <2> QED BY <2>2, <2>3, PoolConfig DEF Bounded, Larger
<1>3. TypeOK /\ TypeOK' /\ EstimateBounded /\ [Next]_vars => EstimateBounded'
  BY BoundedStep DEF EstimateBounded, Bounded
<1> QED BY <1>2, <1>3, TypeCorrect, PTL DEF Spec

(* The reserve does what it is for: with no more workers than it was sized *)
(* for, their leases never take a key past its limit.                      *)
THEOREM ReserveSuffices == Spec => []ReserveAbsorbsLeases
<1>1. TypeOK /\ EstimateBounded => ReserveAbsorbsLeases
  <2> SUFFICES ASSUME TypeOK, EstimateBounded,
                      Cardinality(Workers) * MaxExtra <= SafetyBudget,
                      NEW k \in keys, word[k] <= 2 * (st[k].Limit - SafetyBudget)
               PROVE  st[k].SpentEstimate <= st[k].Limit
    BY DEF ReserveAbsorbsLeases
  <2> DEFINE a == Cardinality(Workers) - InFlight(k)
  <2>1. /\ k \in KeyIds /\ st[k].Limit \in Nat /\ st[k].SpentEstimate \in Nat
        /\ word[k] \in Nat /\ SafetyBudget \in Nat
    BY PoolConfig DEF TypeOK, KeyStates
  <2>2. a \in Nat /\ a <= Cardinality(Workers) /\ Cardinality(Workers) \in Nat
    BY InFlightRange
  <2>3. /\ MaxExtra * a \in Nat
        /\ MaxExtra * a <= Cardinality(Workers) * MaxExtra
    BY <2>2, MaxExtraGrows
  <2>4. 2 * st[k].SpentEstimate <=
          Larger(word[k] + 1, 2 * (st[k].Limit - SafetyBudget)) + 2 * (MaxExtra * a)
    BY <2>1 DEF EstimateBounded
  <2> HIDE DEF a
  <2>5. Cardinality(Workers) * MaxExtra \in Nat
    BY <2>2, MaxExtraGrows
  <2> QED BY <2>1, <2>3, <2>4, <2>5 DEF Larger
<1> QED BY <1>1, TypeCorrect, EstimateAlwaysBounded, PTL

-----------------------------------------------------------------------------
(* When no key is available, the time to wait for is right.  What the      *)
(* proof needs of every published key is that it is either disabled or in  *)
(* force: no cooldown, and a window whose end is known.                    *)

InForce(s) == s.Disabled \/ (s.CooldownUntil = ZeroTime /\ s.ResetAt # ZeroTime)

PublishedInForce ==
  /\ phase # "running" => /\ \A k \in KeyIds : st[k].CooldownUntil = ZeroTime
                          /\ \A w \in Workers : lease[w] = None
  /\ \A k \in keys \cup (states \ toProbe) : InForce(st[k])

(* What a step that neither probes a key nor restarts the process may do   *)
(* to the key's record.                                                    *)
Follows(s, t) ==
  /\ t.Forbidden = s.Forbidden
  /\ s.Disabled => t.Disabled
  /\ InForce(s) => InForce(t)

(* What each operator does to a record in force. *)
LEMMA RollFollows ==
  ASSUME NEW s \in KeyStates, NEW t \in Nat
  PROVE  Follows(s, RollReset(s, t)) /\ RollReset(s, t).CooldownUntil = s.CooldownUntil
<1>1. t + Hour # ZeroTime
  BY PoolConfig DEF ZeroTime
<1>2. /\ RollReset(s, t).Disabled = s.Disabled
      /\ RollReset(s, t).Forbidden = s.Forbidden
      /\ RollReset(s, t).CooldownUntil = s.CooldownUntil
      /\ RollReset(s, t).ResetAt = s.ResetAt \/ RollReset(s, t).ResetAt = t + Hour
  BY Zenon DEF RollReset, KeyStates
<1> QED BY <1>1, <1>2, Zenon DEF Follows, InForce

LEMMA DebitFollows ==
  ASSUME NEW s \in KeyStates
  PROVE  Follows(s, Debit(s))
  BY Zenon DEF Debit, KeyStates, Follows, InForce

LEMMA SettleFollows ==
  ASSUME NEW s \in KeyStates, NEW n
  PROVE  Follows(s, Settle(s, n)) /\ Settle(s, n).CooldownUntil = s.CooldownUntil
  BY Zenon DEF Settle, KeyStates, Follows, InForce

LEMMA FailedFollows ==
  ASSUME NEW s \in KeyStates, NEW kind, NEW t
  PROVE  Follows(s, Failed(s, kind, t))
<1>1. /\ Failed(s, kind, t).Disabled = (s.Disabled \/ Forbids(s, kind))
      /\ Failed(s, kind, t).Forbidden = s.Forbidden
      /\ Failed(s, kind, t).ResetAt = s.ResetAt
      /\ ~Forbids(s, kind) => Failed(s, kind, t).CooldownUntil = s.CooldownUntil
  BY Zenon DEF Failed, KeyStates
<1> QED BY <1>1, Zenon DEF Follows, InForce

LEMMA RefreshFollows ==
  ASSUME NEW s \in KeyStates, NEW r \in RateLimits, NEW t \in Nat
  PROVE  Follows(s, Refresh(s, r, t)) /\ Refresh(s, r, t).CooldownUntil = s.CooldownUntil
<1>1. t + ClampResetIn(r.resetIn) # ZeroTime
  <2>1. r.resetIn \in Int
    BY DEF RateLimits
  <2> QED BY <2>1, PoolConfig DEF ZeroTime, ClampResetIn
<1>2. /\ Refresh(s, r, t).Disabled = s.Disabled
      /\ Refresh(s, r, t).Forbidden = s.Forbidden
      /\ Refresh(s, r, t).CooldownUntil = s.CooldownUntil
      /\ \/ Refresh(s, r, t).ResetAt = s.ResetAt
         \/ Refresh(s, r, t).ResetAt = t + ClampResetIn(r.resetIn)
  BY Zenon DEF Refresh, KeyStates
<1> QED BY <1>1, <1>2, Zenon DEF Follows, InForce

LEMMA ErrCountFollows ==
  ASSUME NEW s \in KeyStates
  PROVE  LET f == [s EXCEPT !.ErrCount = @ + 1]
         IN  Follows(s, f) /\ f.CooldownUntil = s.CooldownUntil
  BY Zenon DEF KeyStates, Follows, InForce

LEMMA DrainedFollows ==
  ASSUME NEW s \in KeyStates, NEW n
  PROVE  Follows(s, Drained(s, n)) /\ Drained(s, n).CooldownUntil = s.CooldownUntil
  BY Zenon DEF Drained, KeyStates, Follows, InForce

(* A probe leaves the key in force or disabled, and the cooldown alone.    *)
LEMMA ProbeInForce ==
  ASSUME TypeOK, NEW j \in KeyIds, Probe(j), st[j].CooldownUntil = ZeroTime
  PROVE  /\ InForce(st'[j]) /\ st'[j].CooldownUntil = ZeroTime
         /\ \A k \in KeyIds \ {j} : st'[k] = st[k]
<1>1. st[j] \in KeyStates /\ st \in [KeyIds -> KeyStates] /\ now \in Nat
  BY DEF TypeOK
<1>2. CASE \E r \in RateReplies : st' = [st EXCEPT ![j] = ProbeSucceeds(@, r, now)]
  <2>1. PICK r \in RateReplies : st' = [st EXCEPT ![j] = ProbeSucceeds(@, r, now)]
    BY <1>2
  <2>2. r.resetIn \in Int
    BY PoolConstants DEF RateLimits
  <2>3. now + ClampResetIn(r.resetIn) # ZeroTime
    BY <1>1, <2>2, PoolConfig DEF ZeroTime, ClampResetIn
  <2>4. /\ ProbeSucceeds(st[j], r, now).CooldownUntil = st[j].CooldownUntil
        /\ ProbeSucceeds(st[j], r, now).ResetAt = now + ClampResetIn(r.resetIn)
    BY <1>1, Zenon DEF ProbeSucceeds, KeyStates
  <2>5. st'[j] = ProbeSucceeds(st[j], r, now) /\ \A k \in KeyIds \ {j} : st'[k] = st[k]
    BY <1>1, <2>1
  <2> QED BY <2>3, <2>4, <2>5, Zenon DEF InForce
<1>3. CASE \E e \in Failures : st' = [st EXCEPT ![j] = ProbeFails(@, IsInvalidClient(e))]
  <2>1. PICK e \in Failures : st' = [st EXCEPT ![j] = ProbeFails(@, IsInvalidClient(e))]
    BY <1>3
  <2>2. /\ ProbeFails(st[j], IsInvalidClient(e)).CooldownUntil = st[j].CooldownUntil
        /\ ProbeFails(st[j], IsInvalidClient(e)).Disabled
    BY <1>1, Zenon DEF ProbeFails, KeyStates
  <2>3. /\ st'[j] = ProbeFails(st[j], IsInvalidClient(e))
        /\ \A k \in KeyIds \ {j} : st'[k] = st[k]
    BY <1>1, <2>1
  <2> QED BY <2>2, <2>3, Zenon DEF InForce
<1> QED BY <1>2, <1>3 DEF Probe

(* The steps that neither probe a key nor restart the process.             *)
RunStep ==
  \/ LoadRows \/ RetryProbes \/ Publish \/ ExitWithoutKeys
  \/ \E w \in Workers : Acquire(w)
  \/ \E w \in Workers, n \in 0..MaxZones : Release(w, n)
  \/ \E w \in Workers : Drop(w)
  \/ \E w \in Workers, e \in Failures : MarkError(w, Classify(e))
  \/ \E w \in Workers : WriteForbidden(w)
  \/ ReconcileStart \/ (\E k \in due : ReconcileKey(k))
  \/ FlushStart \/ (\E k \in Pending : FlushWrite(k)) \/ FlushSettle
  \/ Tick \/ UNCHANGED vars

(* The kinds of step the proof tells apart. *)
LEMMA EveryRunStep ==
  ASSUME [Next]_vars
  PROVE  RunStep \/ ProbeNext \/ AddEnvKey \/ Restart
  BY DEF Next, RunStep

(* None of them changes a record in a way that matters here, and only a    *)
(* worker with a lease stamps a cooldown.                                  *)
LEMMA RunStepFollows ==
  ASSUME TypeOK, RunStep, NEW k \in KeyIds
  PROVE  /\ Follows(st[k], st'[k])
         /\ phase # "running" /\ (\A w \in Workers : lease[w] = None)
              => st'[k].CooldownUntil = st[k].CooldownUntil /\ UNCHANGED lease
<1> USE DEF vars, envVars, memory, workVars, maintVars, dbVars
<1>0. /\ st \in [KeyIds -> KeyStates] /\ st[k] \in KeyStates /\ now \in Nat
  BY DEF TypeOK
<1>1. CASE \/ LoadRows \/ RetryProbes \/ Publish \/ ExitWithoutKeys \/ ReconcileStart
           \/ FlushStart \/ Tick \/ UNCHANGED vars
           \/ \E w \in Workers : WriteForbidden(w)
           \/ \E j \in Pending : FlushWrite(j)
  <2>1. UNCHANGED <<st, lease>>
    BY <1>1 DEF LoadRows, RetryProbes, Publish, ExitWithoutKeys, ReconcileStart, FlushStart,
                Tick, WriteForbidden, FlushWrite
  <2> QED BY <2>1 DEF Follows
<1>2. ASSUME NEW w \in Workers, Acquire(w)
      PROVE  Follows(st[k], st'[k]) /\ phase = "running"
  <2>1. Rolled \in [KeyIds -> KeyStates] /\ Follows(st[k], Rolled[k])
    BY <1>0, RolledTyped, RollFollows DEF Rolled, Follows
  <2>2. st'[k] = Rolled[k] \/ st'[k] = Debit(Rolled[k])
    BY <1>2, <2>1 DEF Acquire
  <2>3. Follows(Rolled[k], Debit(Rolled[k]))
    BY <2>1, DebitFollows
  <2>4. Follows(st[k], Debit(Rolled[k]))
    BY <2>1, <2>3, Zenon DEF Follows
  <2> QED BY <1>2, <2>1, <2>2, <2>4 DEF Acquire
<1>3. ASSUME NEW w \in Workers,
             (\E n \in 0..MaxZones : Release(w, n))
               \/ (\E e \in Failures : MarkError(w, Classify(e))) \/ Drop(w)
      PROVE  Follows(st[k], st'[k]) /\ lease[w] # None
  <2>1. CASE \E n \in 0..MaxZones : Release(w, n)
    <3>1. PICK n : /\ st' = [st EXCEPT ![lease[w]] = Settle(@, n * ZoneCost)]
                   /\ lease[w] # None
      BY <2>1 DEF Release
    <3>2. Follows(st[k], Settle(st[k], n * ZoneCost))
      BY <1>0, SettleFollows
    <3> QED BY <1>0, <3>1, <3>2 DEF Follows
  <2>2. CASE \E e \in Failures : MarkError(w, Classify(e))
    <3>1. PICK e \in Failures : /\ st' = [st EXCEPT ![lease[w]] = Failed(@, Classify(e), now)]
                                /\ lease[w] # None
      BY <2>2 DEF MarkError
    <3>2. Follows(st[k], Failed(st[k], Classify(e), now))
      BY <1>0, FailedFollows
    <3> QED BY <1>0, <3>1, <3>2 DEF Follows
  <2>3. CASE Drop(w)
    BY <2>3 DEF Drop, Follows
  <2> QED BY <1>3, <2>1, <2>2, <2>3
<1>4. ASSUME NEW j \in due, ReconcileKey(j)
      PROVE  /\ Follows(st[k], st'[k]) /\ st'[k].CooldownUntil = st[k].CooldownUntil
             /\ UNCHANGED lease
  <2>1. CASE \E r \in RateReplies : st' = [st EXCEPT ![j] = Refresh(@, r, now)]
    <3>1. PICK r \in RateReplies : st' = [st EXCEPT ![j] = Refresh(@, r, now)]
      BY <2>1
    <3>2. r \in RateLimits
      BY PoolConstants
    <3>3. /\ Follows(st[k], Refresh(st[k], r, now))
          /\ Refresh(st[k], r, now).CooldownUntil = st[k].CooldownUntil
      BY <1>0, <3>2, RefreshFollows
    <3> QED BY <1>0, <1>4, <3>1, <3>3 DEF Follows, ReconcileKey
  <2>2. CASE st' = [st EXCEPT ![j].ErrCount = @ + 1]
    <3>1. st' = [st EXCEPT ![j] = [st[j] EXCEPT !.ErrCount = @ + 1]]
      BY <2>2
    <3>2. /\ Follows(st[k], [st[k] EXCEPT !.ErrCount = @ + 1])
          /\ [st[k] EXCEPT !.ErrCount = @ + 1].CooldownUntil = st[k].CooldownUntil
      BY <1>0, ErrCountFollows
    <3> QED BY <1>0, <1>4, <3>1, <3>2 DEF Follows, ReconcileKey
  <2> QED BY <1>4, <2>1, <2>2 DEF ReconcileKey
<1>5. CASE FlushSettle
  <2>1. /\ Follows(st[k], Drained(st[k], batch[unsettled].useDelta))
        /\ Drained(st[k], batch[unsettled].useDelta).CooldownUntil = st[k].CooldownUntil
    BY <1>0, DrainedFollows
  <2> QED BY <1>0, <1>5, <2>1 DEF FlushSettle, Follows
<1> QED BY <1>1, <1>2, <1>3, <1>4, <1>5 DEF RunStep

(* PublishedInForce is inductive. *)
LEMMA InForceStep ==
  ASSUME TypeOK, PublishedInForce, [Next]_vars
  PROVE  PublishedInForce'
<1> USE DEF vars, envVars, memory, workVars, maintVars, dbVars
<1>0. /\ keys \subseteq KeyIds /\ states \subseteq KeyIds /\ toProbe \subseteq states \cup toProbe
      /\ EnvKey \in KeyIds /\ Keys \subseteq KeyIds
  BY DEF TypeOK, KeyIds
<1>1. CASE RunStep
  <2>1. \A k \in KeyIds : InForce(st[k]) => InForce(st'[k])
    BY <1>1, RunStepFollows DEF Follows
  <2>2. phase # "running" =>
          /\ \A k \in KeyIds : st'[k].CooldownUntil = ZeroTime
          /\ \A w \in Workers : lease'[w] = None
    <3> SUFFICES ASSUME phase # "running"
                 PROVE  /\ \A k \in KeyIds : st'[k].CooldownUntil = ZeroTime
                        /\ \A w \in Workers : lease'[w] = None
      OBVIOUS
    <3>1. ASSUME NEW k \in KeyIds
          PROVE  st'[k].CooldownUntil = ZeroTime /\ UNCHANGED lease
      BY <1>1, RunStepFollows DEF PublishedInForce
    <3> QED BY <1>0, <3>1 DEF PublishedInForce
  <2>3. phase' # "running" => phase # "running"
    BY <1>1 DEF RunStep, LoadRows, RetryProbes, Publish, ExitWithoutKeys, Acquire, Release,
                Drop, MarkError, WriteForbidden, ReconcileStart, ReconcileKey, FlushStart,
                FlushWrite, FlushSettle, Tick
  <2>4. keys' \cup (states' \ toProbe') \subseteq keys \cup (states \ toProbe)
    <3>1. CASE LoadRows
      BY <3>1 DEF LoadRows
    <3>2. CASE RetryProbes
      BY <3>2 DEF RetryProbes
    <3>3. CASE Publish
      BY <3>3 DEF Publish
    <3>4. CASE UNCHANGED <<keys, states, toProbe>>
      BY <3>4
    <3> QED BY <1>1, <3>1, <3>2, <3>3, <3>4
            DEF RunStep, ExitWithoutKeys, Acquire, Release, Drop, MarkError, WriteForbidden,
                ReconcileStart, ReconcileKey, FlushStart, FlushWrite, FlushSettle, Tick
  <2>5. \A k \in keys' \cup (states' \ toProbe') : InForce(st'[k])
    BY <1>0, <2>1, <2>4 DEF PublishedInForce
  <2>6. PublishedInForce' <=>
          /\ phase' # "running" => /\ \A k \in KeyIds : st'[k].CooldownUntil = ZeroTime
                                   /\ \A w \in Workers : lease'[w] = None
          /\ \A k \in keys' \cup (states' \ toProbe') : InForce(st'[k])
    BY DEF PublishedInForce, InForce
  <2> QED BY <2>2, <2>3, <2>5, <2>6, Zenon
<1>2. ASSUME NEW j \in KeyIds, Probe(j), phase # "running", UNCHANGED <<states, lease>>,
             \/ j \in toProbe /\ toProbe' = toProbe \ {j} /\ keys' = keys
             \/ toProbe' = toProbe /\ keys' = keys \cup {j}
      PROVE  PublishedInForce'
  <2>1. /\ \A k \in KeyIds : st[k].CooldownUntil = ZeroTime
        /\ \A w \in Workers : lease[w] = None
    BY <1>2 DEF PublishedInForce
  <2>2. /\ InForce(st'[j]) /\ st'[j].CooldownUntil = ZeroTime
        /\ \A k \in KeyIds \ {j} : st'[k] = st[k]
    BY <1>2, <2>1, ProbeInForce
  <2>3. \A k \in keys' \cup (states' \ toProbe') : k = j \/ k \in keys \cup (states \ toProbe)
    BY <1>2
  <2>4. \A k \in keys' \cup (states' \ toProbe') : k \in KeyIds
    BY <1>0, <1>2
  <2>5. \A k \in keys' \cup (states' \ toProbe') : InForce(st'[k])
    BY <2>2, <2>3, <2>4 DEF PublishedInForce
  <2>6. \A k \in KeyIds : st'[k].CooldownUntil = ZeroTime
    BY <2>1, <2>2
  <2>7. \A w \in Workers : lease'[w] = None
    BY <1>2, <2>1
  <2> QED BY <2>5, <2>6, <2>7 DEF PublishedInForce, InForce
<1>3. CASE ProbeNext
  <2>1. PICK j \in toProbe : Probe(j) /\ toProbe' = toProbe \ {j}
    BY <1>3 DEF ProbeNext
  <2>2. j \in KeyIds
    BY DEF TypeOK, KeyIds
  <2>3. phase # "running" /\ UNCHANGED <<states, lease, keys>>
    BY <1>3 DEF ProbeNext
  <2> QED BY <1>2, <2>1, <2>2, <2>3
<1>4. CASE AddEnvKey
  BY <1>0, <1>2, <1>4 DEF AddEnvKey
<1>5. CASE Restart
  <2>1. /\ \A k \in KeyIds : st'[k].CooldownUntil = ZeroTime
        /\ \A w \in Workers : lease'[w] = None
        /\ keys' = {} /\ states' = {}
    BY <1>5 DEF Restart, NewKey
  <2> QED BY <2>1 DEF PublishedInForce, InForce
<1> QED BY <1>1, <1>3, <1>4, <1>5, EveryRunStep

(* From the first state on, every published key is disabled or in force.   *)
LEMMA AlwaysInForce == Spec => []PublishedInForce
<1>1. Init => PublishedInForce
  BY DEF Init, PublishedInForce, InForce, NewKey
<1>2. TypeOK /\ PublishedInForce /\ [Next]_vars => PublishedInForce'
  BY InForceStep
<1> QED BY <1>1, <1>2, TypeCorrect, PTL DEF Spec

(* An active key in force is available again exactly when its window has   *)
(* elapsed or it has a lease's worth of points left.                       *)
LEMMA InForceAvailable ==
  ASSUME NEW s \in KeyStates, InForce(s), ~s.Disabled, NEW t \in Nat, s.Limit >= MinBudget
  PROVE  /\ Elapsed(s, t) <=> t > s.ResetAt
         /\ Available(RollReset(s, t), t, MinBudget)
              <=> t > s.ResetAt \/ Remaining(s) >= MinBudget
<1>1. s.CooldownUntil = ZeroTime /\ s.ResetAt # ZeroTime
  BY DEF InForce
<1>2. Elapsed(s, t) <=> t > s.ResetAt
  BY <1>1 DEF Elapsed
<1>3. /\ ~RollReset(s, t).Disabled
      /\ RollReset(s, t).CooldownUntil = ZeroTime
      /\ RollReset(s, t).Limit = s.Limit
      /\ RollReset(s, t).SpentEstimate = IF t > s.ResetAt THEN 0 ELSE s.SpentEstimate
  BY <1>1, <1>2, RollFields, RollFollows
<1>4. /\ s.Limit \in Nat /\ s.SpentEstimate \in Nat /\ s.ResetAt \in Nat
      /\ t >= ZeroTime
  BY DEF KeyStates, ZeroTime
<1>5. t > s.ResetAt => Remaining(RollReset(s, t)) = s.Limit
  BY <1>3, <1>4 DEF Remaining
<1>6. ~(t > s.ResetAt) => Remaining(RollReset(s, t)) = Remaining(s)
  BY <1>3, <1>4 DEF Remaining
<1>7. Available(RollReset(s, t), t, MinBudget) <=> Remaining(RollReset(s, t)) >= MinBudget
  BY <1>3, <1>4, Zenon DEF Available
<1> QED BY <1>2, <1>5, <1>6, <1>7

(* When nothing is available, the reset Acquire names is the earliest end  *)
(* of an active key's window, and no window has elapsed.                   *)
ExhaustedPool ==
  /\ phase = "running" /\ AvailableAt(now) = {} /\ Active # {}
  /\ \A k \in Active : st[k].Limit >= MinBudget

(* NextReset is the earliest end of a window among the keys in service. *)
LEMMA EarliestWindow ==
  ASSUME TypeOK, PublishedInForce, ExhaustedPool
  PROVE  /\ \A k \in Active : /\ st[k] \in KeyStates /\ InForce(st[k])
                              /\ ~(Remaining(st[k]) >= MinBudget) /\ now <= st[k].ResetAt
         /\ NextReset = Min({st[k].ResetAt : k \in Active})
         /\ NextReset \in Nat
         /\ \E k \in Active : st[k].ResetAt = NextReset
         /\ \A k \in Active : NextReset <= st[k].ResetAt
<1> DEFINE ends == {st[k].ResetAt : k \in Active}
<1>0. /\ now \in Nat /\ Active \subseteq keys /\ keys \subseteq KeyIds
      /\ st \in [KeyIds -> KeyStates]
  BY DEF TypeOK, Active
<1>1. ASSUME NEW k \in Active
      PROVE  /\ st[k] \in KeyStates /\ InForce(st[k]) /\ ~(Remaining(st[k]) >= MinBudget)
             /\ now <= st[k].ResetAt /\ st[k].ResetAt \in Nat
             /\ ResetCandidate(Rolled[k]) = st[k].ResetAt
  <2>1. st[k] \in KeyStates /\ InForce(st[k]) /\ ~st[k].Disabled /\ k \in keys /\ k \in KeyIds
    BY <1>0 DEF Active, PublishedInForce
  <2>2. st[k].Limit >= MinBudget /\ ~Available(RollReset(st[k], now), now, MinBudget)
    BY <2>1 DEF ExhaustedPool, AvailableAt
  <2>3. /\ ~(now > st[k].ResetAt) /\ ~(Remaining(st[k]) >= MinBudget)
        /\ ~Elapsed(st[k], now)
    BY <1>0, <2>1, <2>2, InForceAvailable
  <2>4. Rolled[k] = st[k]
    BY <2>1, <2>3 DEF Rolled, RollReset
  <2>5. st[k].CooldownUntil = ZeroTime /\ ~(now < ZeroTime) /\ st[k].ResetAt \in Nat
    BY <1>0, <2>1 DEF InForce, KeyStates, ZeroTime
  <2>6. ResetCandidate(st[k]) = st[k].ResetAt
    BY <2>5, Zenon DEF ResetCandidate
  <2>7. now <= st[k].ResetAt
    BY <1>0, <2>3, <2>5
  <2> QED BY <2>1, <2>3, <2>4, <2>5, <2>6, <2>7
<1>2. {ResetCandidate(Rolled[k]) : k \in Active} = ends
  BY <1>1
<1>3. ends \in SUBSET Nat /\ IsFiniteSet(ends) /\ ends # {}
  <2>1. IsFiniteSet(KeyIds)
    BY PoolConstants, FS_AddElement DEF KeyIds
  <2>2. IsFiniteSet(Active)
    BY <1>0, <2>1, FS_Subset
  <2>3. IsFiniteSet(ends)
    <3>1. [k \in Active |-> st[k].ResetAt] \in Surjection(Active, ends)
      BY DEF Surjection
    <3> HIDE DEF ends
    <3> QED BY <2>2, <3>1, FS_Surjection
  <2>4. Active # {}
    BY DEF ExhaustedPool
  <2> QED BY <1>1, <2>3, <2>4
<1>4. Min(ends) \in ends /\ \A x \in ends : Min(ends) <= x
  <2> HIDE DEF ends
  <2> QED BY <1>3, MinOfNats
<1>5. NextReset = Min(ends)
  BY <1>2, <1>3, Zenon DEF NextReset
<1> HIDE DEF ends
<1>6. NextReset \in ends /\ NextReset \in Nat /\ \A x \in ends : NextReset <= x
  BY <1>3, <1>4, <1>5
<1> USE DEF ends
<1> QED BY <1>1, <1>5, <1>6, Zenon

(* Nobody who waits for the pool is sent to sleep too long or woken in     *)
(* vain: up to the reset Acquire names there is no key, right after it     *)
(* there is one.                                                           *)
THEOREM SleepAlwaysPrecise == Spec => []SleepIsPrecise
<1>1. TypeOK /\ PublishedInForce => SleepIsPrecise
  <2> SUFFICES ASSUME TypeOK, PublishedInForce, ExhaustedPool
               PROVE  /\ NextReset >= now
                      /\ \A t \in now..NextReset : AvailableAt(t) = {}
                      /\ AvailableAt(NextReset + 1) # {}
    BY DEF SleepIsPrecise, ExhaustedPool
  <2>1. /\ \A k \in Active : /\ st[k] \in KeyStates /\ InForce(st[k])
                             /\ ~(Remaining(st[k]) >= MinBudget) /\ now <= st[k].ResetAt
        /\ NextReset \in Nat
        /\ \E k \in Active : st[k].ResetAt = NextReset
        /\ \A k \in Active : NextReset <= st[k].ResetAt
    BY EarliestWindow
  <2>2. now \in Nat /\ NextReset >= now
    BY <2>1 DEF TypeOK
  <2>3. ASSUME NEW k \in Active, NEW t \in Nat
        PROVE  /\ Available(RollReset(st[k], t), t, MinBudget) <=> t > st[k].ResetAt
               /\ st[k].ResetAt \in Nat
    <3>1. ~st[k].Disabled /\ st[k].Limit >= MinBudget
      BY DEF Active, ExhaustedPool
    <3>2. st[k].ResetAt \in Nat
      BY <2>1 DEF KeyStates
    <3> QED BY <2>1, <3>1, <3>2, InForceAvailable
  <2>4. ASSUME NEW t \in now..NextReset, NEW k \in AvailableAt(t)
        PROVE  FALSE
    <3>1. k \in keys /\ Available(RollReset(st[k], t), t, MinBudget) /\ st[k] \in KeyStates
      BY DEF AvailableAt, TypeOK
    <3>2. t \in Nat /\ t <= NextReset
      BY <2>1, <2>2
    <3>3. k \in Active
      BY <3>1, <3>2, RollFields DEF Available, Active
    <3> QED BY <2>1, <2>3, <3>1, <3>2, <3>3
  <2>5. AvailableAt(NextReset + 1) # {}
    <3>1. PICK k \in Active : st[k].ResetAt = NextReset
      BY <2>1
    <3>2. NextReset + 1 \in Nat /\ NextReset + 1 > NextReset
      BY <2>1
    <3>3. Available(RollReset(st[k], NextReset + 1), NextReset + 1, MinBudget)
      BY <2>3, <3>1, <3>2
    <3> QED BY <3>3 DEF AvailableAt, Active
  <2> QED BY <2>2, <2>4, <2>5
<1> QED BY <1>1, TypeCorrect, AlwaysInForce, PTL

(* What /progress shows as the recovery time is what the workers sleep to. *)
THEOREM EtaAlwaysAgrees == Spec => []EtaAgrees
<1>1. TypeOK /\ PublishedInForce => EtaAgrees
  <2> SUFFICES ASSUME TypeOK, PublishedInForce, ExhaustedPool
               PROVE  EarliestReset = NextReset
    BY DEF EtaAgrees, ExhaustedPool
  <2>1. NextReset = Min({st[k].ResetAt : k \in Active}) /\ Active # {}
    BY EarliestWindow DEF ExhaustedPool
  <2> QED BY <2>1, Zenon DEF EarliestReset, Summarized
<1> QED BY <1>1, TypeCorrect, AlwaysInForce, PTL

-----------------------------------------------------------------------------
(* A forbidden row keeps its err_count.  What saves it from FlushStats is  *)
(* that a key forbidden at start-up is never retried and never leased, so  *)
(* that it has no uses to flush, and that a batch holds published keys     *)
(* only.                                                                   *)

ForbiddenUnused ==
  /\ phase = "boot" => \A k \in Keys : ~st[k].Forbidden
  /\ phase # "running" => \A k \in Keys : st[k].UseCount = 0
  /\ \A k \in toProbe : ~st[k].Forbidden
  /\ \A k \in Keys : st[k].Forbidden => st[k].Disabled /\ st[k].UseCount = 0
  /\ Pending \subseteq keys

(* Only a lease adds to a key's uses.                                      *)
LEMMA RunStepUses ==
  ASSUME TypeOK, RunStep, NEW k \in KeyIds,
         phase # "running" \/ st[k].Disabled, st[k].UseCount = 0
  PROVE  st'[k].UseCount = 0
<1> USE DEF vars, envVars, memory, workVars, maintVars, dbVars
<1>0. /\ st \in [KeyIds -> KeyStates] /\ st[k] \in KeyStates /\ now \in Nat
  BY DEF TypeOK
<1>1. CASE \/ LoadRows \/ RetryProbes \/ Publish \/ ExitWithoutKeys \/ ReconcileStart
           \/ FlushStart \/ Tick \/ UNCHANGED vars
           \/ \E w \in Workers : WriteForbidden(w) \/ Drop(w)
           \/ \E j \in Pending : FlushWrite(j)
  BY <1>1 DEF LoadRows, RetryProbes, Publish, ExitWithoutKeys, ReconcileStart, FlushStart,
              Tick, WriteForbidden, Drop, FlushWrite
<1>2. ASSUME NEW w \in Workers, Acquire(w)
      PROVE  st'[k].UseCount = 0
  <2>1. /\ Rolled \in [KeyIds -> KeyStates]
        /\ Rolled[k].UseCount = 0 /\ RollReset(st[k], now).Disabled = st[k].Disabled
    BY <1>0, RolledTyped, RollFields DEF Rolled
  <2>2. st[k].Disabled
    BY <1>2 DEF Acquire
  <2>3. k \notin AvailableAt(now)
    BY <2>1, <2>2 DEF AvailableAt, Available
  <2> QED BY <1>0, <1>2, <2>1, <2>3 DEF Acquire
<1>3. ASSUME NEW w \in Workers, NEW n \in 0..MaxZones, Release(w, n)
      PROVE  st'[k].UseCount = 0
  <2>1. Settle(st[k], n * ZoneCost).UseCount = 0
    BY <1>0, Zenon DEF Settle, KeyStates
  <2> QED BY <1>0, <1>3, <2>1 DEF Release
<1>4. ASSUME NEW w \in Workers, NEW e \in Failures, MarkError(w, Classify(e))
      PROVE  st'[k].UseCount = 0
  <2>1. Failed(st[k], Classify(e), now).UseCount = 0
    BY <1>0, FailedFields
  <2> QED BY <1>0, <1>4, <2>1 DEF MarkError
<1>5. ASSUME NEW j \in due, ReconcileKey(j)
      PROVE  st'[k].UseCount = 0
  <2>1. \A r : Refresh(st[k], r, now).UseCount = 0
    BY <1>0, RefreshFields
  <2>2. CASE \E r \in RateReplies : st' = [st EXCEPT ![j] = Refresh(@, r, now)]
    BY <1>0, <2>1, <2>2
  <2>3. CASE st' = [st EXCEPT ![j].ErrCount = @ + 1]
    <3>1. st' = [st EXCEPT ![j] = [st[j] EXCEPT !.ErrCount = @ + 1]]
      BY <2>3
    <3>2. [st[k] EXCEPT !.ErrCount = @ + 1].UseCount = 0
      BY <1>0, ErrCountFields
    <3> QED BY <1>0, <3>1, <3>2
  <2> QED BY <1>5, <2>2, <2>3 DEF ReconcileKey
<1>6. CASE FlushSettle
  <2> DEFINE n == batch[unsettled].useDelta
  <2>1. unsettled \in Keys /\ n \in Nat
    BY <1>6 DEF FlushSettle, TypeOK
  <2>2. Drained(st[k], n).UseCount = IF 0 >= n THEN 0 - n ELSE 0
    BY <1>0, Zenon DEF Drained, KeyStates
  <2>3. Drained(st[k], n).UseCount = 0
    BY <2>1, <2>2
  <2>4. st' = [st EXCEPT ![unsettled] = Drained(@, n)]
    BY <1>6 DEF FlushSettle
  <2> HIDE DEF n
  <2> QED BY <1>0, <2>3, <2>4
<1> QED BY <1>1, <1>2, <1>3, <1>4, <1>5, <1>6 DEF RunStep

(* A probe of a key without uses, not of one already forbidden.            *)
LEMMA ProbeForbids ==
  ASSUME TypeOK, NEW j \in KeyIds, Probe(j)
  PROVE  /\ st'[j].UseCount = st[j].UseCount
         /\ ~st[j].Forbidden /\ st'[j].Forbidden => st'[j].Disabled
         /\ \A k \in KeyIds \ {j} : st'[k] = st[k]
<1>1. st[j] \in KeyStates /\ st \in [KeyIds -> KeyStates]
  BY DEF TypeOK
<1>2. CASE \E r \in RateReplies : st' = [st EXCEPT ![j] = ProbeSucceeds(@, r, now)]
  <2>1. PICK r \in RateReplies : st' = [st EXCEPT ![j] = ProbeSucceeds(@, r, now)]
    BY <1>2
  <2>2. /\ ProbeSucceeds(st[j], r, now).UseCount = st[j].UseCount
        /\ ProbeSucceeds(st[j], r, now).Forbidden = st[j].Forbidden
    BY <1>1, ProbeSucceedsFields
  <2>3. st'[j] = ProbeSucceeds(st[j], r, now) /\ \A k \in KeyIds \ {j} : st'[k] = st[k]
    BY <1>1, <2>1
  <2> QED BY <2>2, <2>3, Zenon
<1>3. CASE \E e \in Failures : st' = [st EXCEPT ![j] = ProbeFails(@, IsInvalidClient(e))]
  <2>1. PICK e \in Failures : st' = [st EXCEPT ![j] = ProbeFails(@, IsInvalidClient(e))]
    BY <1>3
  <2>2. /\ ProbeFails(st[j], IsInvalidClient(e)).UseCount = st[j].UseCount
        /\ ProbeFails(st[j], IsInvalidClient(e)).Disabled
    BY <1>1, Zenon DEF ProbeFails, KeyStates
  <2>3. /\ st'[j] = ProbeFails(st[j], IsInvalidClient(e))
        /\ \A k \in KeyIds \ {j} : st'[k] = st[k]
    BY <1>1, <2>1
  <2> QED BY <2>2, <2>3, Zenon
<1> QED BY <1>2, <1>3 DEF Probe

(* ForbiddenUnused is inductive. *)
LEMMA ForbiddenUnusedStep ==
  ASSUME TypeOK, FlushInv, FlushInv', TypeOK', ForbiddenUnused, [Next]_vars
  PROVE  ForbiddenUnused'
<1> USE DEF vars, envVars, memory, workVars, maintVars, dbVars
<1>0. Keys \subseteq KeyIds /\ toProbe \subseteq Keys /\ EnvKey \in KeyIds \ Keys
  BY PoolConstants DEF TypeOK, KeyIds
<1>1. ASSUME phase # "running"
      PROVE  Pending = {}
  <2>1. \A k \in Keys : batch[k].useDelta \in Nat /\ batch[k].useDelta <= 0
    BY <1>1 DEF TypeOK, FlushInv, ForbiddenUnused
  <2> QED BY <2>1 DEF Pending
<1>2. CASE RunStep
  <2>1. \A k \in KeyIds : /\ st'[k].Forbidden = st[k].Forbidden
                          /\ st[k].Disabled => st'[k].Disabled
    BY <1>2, RunStepFollows DEF Follows
  <2>2. \A k \in Keys : st[k].Forbidden => st'[k].Disabled /\ st'[k].UseCount = 0
    BY <1>0, <1>2, <2>1, RunStepUses DEF ForbiddenUnused
  <2>3. phase # "running" => \A k \in Keys : st'[k].UseCount = 0
    BY <1>0, <1>2, RunStepUses DEF ForbiddenUnused
  <2>4. /\ phase' # "running" => phase # "running"
        /\ phase' = "boot" => phase = "boot"
    BY <1>2 DEF RunStep, LoadRows, RetryProbes, Publish, ExitWithoutKeys, Acquire, Release,
                Drop, MarkError, WriteForbidden, ReconcileStart, ReconcileKey, FlushStart,
                FlushWrite, FlushSettle, Tick
  <2>5. \A k \in toProbe' : ~st[k].Forbidden
    <3>1. CASE LoadRows
      BY <3>1 DEF LoadRows, ForbiddenUnused
    <3>2. CASE RetryProbes
      BY <3>2 DEF RetryProbes, Retryable
    <3>3. CASE UNCHANGED toProbe
      BY <3>3 DEF ForbiddenUnused
    <3> QED BY <1>2, <3>1, <3>2, <3>3
            DEF RunStep, Publish, ExitWithoutKeys, Acquire, Release, Drop, MarkError,
                WriteForbidden, ReconcileStart, ReconcileKey, FlushStart, FlushWrite,
                FlushSettle, Tick
  <2>6. Pending' \subseteq keys'
    <3>1. CASE Publish
      <4>1. phase # "running" /\ UNCHANGED batch
        BY <3>1 DEF Publish
      <4> QED BY <1>1, <4>1 DEF Pending
    <3>2. CASE FlushStart
      <4>1. keys' = keys /\ \A k \in Keys \ keys : batch'[k].useDelta = 0
        BY <3>2 DEF FlushStart, NotPending
      <4> QED BY <4>1 DEF Pending
    <3>3. CASE FlushSettle \/ \E k \in Pending : FlushWrite(k)
      <4>1. keys' = keys /\ \A k \in Keys : batch'[k] = batch[k] \/ batch'[k] = NotPending
        BY <3>3 DEF FlushSettle, FlushWrite, TypeOK
      <4>2. ~(NotPending.useDelta > 0)
        BY DEF NotPending
      <4>3. \A k \in Pending' : k \in Pending
        BY <4>1, <4>2 DEF Pending
      <4> QED BY <4>1, <4>3 DEF ForbiddenUnused
    <3>4. CASE UNCHANGED <<batch, keys>>
      BY <3>4 DEF Pending, ForbiddenUnused
    <3> QED BY <1>2, <3>1, <3>2, <3>3, <3>4
            DEF RunStep, LoadRows, RetryProbes, ExitWithoutKeys, Acquire, Release, Drop,
                MarkError, WriteForbidden, ReconcileStart, ReconcileKey, Tick
  <2>7. toProbe' \subseteq KeyIds
    BY <1>0 DEF TypeOK
  <2>8. \A k \in Keys : ~st[k].Forbidden => ~st'[k].Forbidden
    BY <1>0, <2>1
  <2> QED BY <1>0, <2>1, <2>2, <2>3, <2>4, <2>5, <2>6, <2>7, <2>8 DEF ForbiddenUnused
<1>3. CASE ProbeNext
  <2>1. PICK j \in toProbe : Probe(j) /\ toProbe' = toProbe \ {j}
    BY <1>3 DEF ProbeNext
  <2>2. /\ phase \notin {"running", "boot"} /\ UNCHANGED <<phase, keys, batch>>
    BY <1>3 DEF ProbeNext
  <2>3. /\ st'[j].UseCount = st[j].UseCount
        /\ ~st[j].Forbidden /\ st'[j].Forbidden => st'[j].Disabled
        /\ \A k \in KeyIds \ {j} : st'[k] = st[k]
    BY <1>0, <2>1, ProbeForbids
  <2>4. ~st[j].Forbidden /\ \A k \in Keys : st[k].UseCount = 0
    BY <2>2 DEF ForbiddenUnused
  <2>5. \A k \in Keys : /\ st'[k].UseCount = 0
                        /\ st'[k].Forbidden => st'[k].Disabled
    BY <1>0, <2>3, <2>4 DEF ForbiddenUnused
  <2>6. \A k \in toProbe' : ~st'[k].Forbidden
    BY <1>0, <2>1, <2>3 DEF ForbiddenUnused
  <2>7. Pending' \subseteq keys'
    BY <2>2 DEF Pending, ForbiddenUnused
  <2> QED BY <2>2, <2>5, <2>6, <2>7 DEF ForbiddenUnused
<1>4. CASE AddEnvKey
  <2>1. Probe(EnvKey) /\ phase # "running" /\ phase' # "boot" /\ UNCHANGED <<toProbe, batch>>
    BY <1>4 DEF AddEnvKey
  <2>2. \A k \in Keys : st'[k] = st[k]
    BY <1>0, <2>1, ProbeForbids
  <2>3. Pending' = {}
    BY <1>1, <2>1 DEF Pending
  <2> QED BY <1>0, <2>1, <2>2, <2>3 DEF ForbiddenUnused
<1>5. CASE Restart
  <2>1. /\ \A k \in Keys : ~st'[k].Forbidden /\ st'[k].UseCount = 0
        /\ toProbe' = {}
        /\ \A k \in Keys : batch'[k].useDelta = 0
    BY <1>0, <1>5 DEF Restart, NewKey, NotPending
  <2>2. Pending' = {}
    BY <2>1 DEF Pending
  <2> QED BY <2>1, <2>2 DEF ForbiddenUnused
<1> QED BY <1>2, <1>3, <1>4, <1>5, EveryRunStep

(* The row of a key that is not in the pool, or was forbidden at start-up. *)
KeepsForbidden(k) ==
  (k \notin keys \/ st[k].Forbidden) /\ dbErr[k] >= ForbiddenErrThreshold
    => dbErr'[k] >= ForbiddenErrThreshold

(* No step takes the err_count of a forbidden row below the threshold. *)
LEMMA ForbiddenRowStep ==
  ASSUME TypeOK, FlushInv, ForbiddenUnused, [Next]_vars, NEW k \in Keys
  PROVE  KeepsForbidden(k)
<1> USE DEF vars, envVars, memory, workVars, maintVars, dbVars
<1> SUFFICES ASSUME k \notin keys \/ st[k].Forbidden, dbErr[k] >= ForbiddenErrThreshold
             PROVE  dbErr'[k] >= ForbiddenErrThreshold
  BY DEF KeepsForbidden
<1>0. dbErr \in [Keys -> Nat] /\ ForbiddenErrThreshold >= ForbiddenErrThreshold
  BY PoolConfig DEF TypeOK
<1>1. ASSUME NEW j, ForbidInDB(j)
      PROVE  dbErr'[k] >= ForbiddenErrThreshold
  BY <1>0, <1>1 DEF ForbidInDB
<1>2. ASSUME NEW j, Probe(j)
      PROVE  dbErr'[k] >= ForbiddenErrThreshold
  BY <1>0, <1>1, <1>2 DEF Probe
<1>3. CASE ProbeNext \/ AddEnvKey
  BY <1>2, <1>3 DEF ProbeNext, AddEnvKey
<1>4. CASE \E w \in Workers : WriteForbidden(w)
  BY <1>1, <1>4 DEF WriteForbidden
<1>5. ASSUME NEW j \in Pending, FlushWrite(j)
      PROVE  dbErr'[k] >= ForbiddenErrThreshold
  <2>1. k \notin Pending
    <3>1. batch[k].useDelta \in Nat /\ batch[k].useDelta <= st[k].UseCount
      BY DEF TypeOK, FlushInv
    <3>2. k \notin keys \/ st[k].UseCount = 0
      BY DEF ForbiddenUnused
    <3> QED BY <3>1, <3>2 DEF Pending, ForbiddenUnused
  <2> QED BY <1>0, <1>5, <2>1 DEF FlushWrite
<1>6. CASE UNCHANGED dbErr
  BY <1>6
<1> QED BY <1>3, <1>4, <1>5, <1>6
        DEF Next, LoadRows, RetryProbes, Publish, ExitWithoutKeys, Acquire, Release, Drop,
            MarkError, ReconcileStart, ReconcileKey, FlushStart, FlushSettle, Tick, Restart

(* What the pool keeps of a forbidden key: no uses, and no row of a batch. *)
LEMMA ForbiddenAlwaysUnused == Spec => [](TypeOK /\ FlushInv /\ ForbiddenUnused)
<1>1. Init => TypeOK /\ UsesInv /\ ForbiddenUnused
  BY NewKeyTyped
     DEF Init, TypeOK, Phases, UsesInv, FlushInv, UsesAccounted, ForbiddenUnused, Pending,
         NewKey, NotPending, KeyIds
<1>2. TypeOK /\ UsesInv /\ ForbiddenUnused /\ [Next]_vars
        => TypeOK' /\ UsesInv' /\ ForbiddenUnused'
  BY TypeOKStep, UsesStep, ForbiddenUnusedStep DEF UsesInv
<1>3. UsesInv => FlushInv
  BY DEF UsesInv
<1> QED BY <1>1, <1>2, <1>3, PTL DEF Spec

(* A row that Load left out or a probe forbade is never let in again: the  *)
(* retry pass skips it and no flush ever holds it.  (A key forbidden while *)
(* it is in use is the one FlushStats may let in again.)                   *)
THEOREM ProbeForbiddenAlwaysSticks == Spec => ProbeForbiddenSticks
<1>1. TypeOK /\ FlushInv /\ ForbiddenUnused /\ [Next]_vars => \A k \in Keys : KeepsForbidden(k)
  BY ForbiddenRowStep
<1>2. (\A k \in Keys : KeepsForbidden(k))
        => [\A k \in Keys :
              (k \notin keys \/ st[k].Forbidden) /\ dbErr[k] >= ForbiddenErrThreshold
                => dbErr'[k] >= ForbiddenErrThreshold]_vars
  BY DEF KeepsForbidden
<1> QED BY <1>1, <1>2, ForbiddenAlwaysUnused, PTL DEF Spec, ProbeForbiddenSticks

-----------------------------------------------------------------------------
(* KeyPool implements LeasePool: every step of the pool is a step of the   *)
(* promise, or does not show.                                              *)

(* What LeasePool sees of a step: nothing, if the pool keeps its phase,    *)
(* its keys' Disabled flags, the leases and what is granted and recorded.  *)
Unseen ==
  /\ UNCHANGED <<phase, keys, lease, granted, dbUse>>
  /\ \A k \in keys : st'[k].Disabled = st[k].Disabled

(* Who is in service depends on Disabled alone. *)
LEMMA ServiceKept ==
  ASSUME UNCHANGED <<phase, keys>>, \A k \in keys : st'[k].Disabled = st[k].Disabled
  PROVE  Service' = Service
BY DEF Service, Active

(* What the promise does not speak of is a stutter of it. *)
LEMMA UnseenStutters ==
  ASSUME Unseen
  PROVE  UNCHANGED LP!vars
<1>1. Service' = Service
  BY ServiceKept DEF Unseen
<1>2. Recorded' = Recorded
  BY DEF Unseen, Recorded
<1> QED BY <1>1, <1>2 DEF Unseen, LP!vars

(* Before the pool opens nothing of it shows.                              *)
LEMMA BootStutters ==
  ASSUME phase # "running", phase' # "running", UNCHANGED <<lease, granted, dbUse>>
  PROVE  UNCHANGED LP!vars
BY DEF Service, Recorded, LP!vars

(* Load, or AddEnvKey, puts the keys that answered in service.             *)
LEMMA OpenStep ==
  ASSUME TypeOK, phase # "running", phase' = "running",
         UNCHANGED <<lease, granted, dbUse>>,
         keys' \subseteq KeyIds, \E k \in keys' : ~st'[k].Disabled
  PROVE  LP!Open
<1>1. Service' \subseteq KeyIds /\ Service' # {}
  BY DEF Service, Active
<1>2. Recorded' = Recorded
  BY DEF Recorded
<1> QED BY <1>1, <1>2 DEF LP!Open

(* Rolling the windows, as Acquire does first, disables nobody. *)
LEMMA RolledKeepsService ==
  ASSUME TypeOK, NEW k \in KeyIds
  PROVE  /\ Rolled[k] \in KeyStates
         /\ Rolled[k].Disabled = st[k].Disabled
<1>1. st[k] \in KeyStates /\ now \in Nat
  BY DEF TypeOK
<1> QED BY <1>1, RollTyped, RollFields DEF Rolled

(* The steps that show, one lemma for each that needs more than a line. *)
LEMMA AcquireStep ==
  ASSUME TypeOK, NEW w \in Workers, Acquire(w)
  PROVE  (\E k \in KeyIds : LP!Grant(w, k)) \/ UNCHANGED LP!vars
<1> USE DEF envVars, maintVars, dbVars
<1>0. keys \subseteq KeyIds /\ Rolled \in [KeyIds -> KeyStates]
  BY RolledTyped DEF TypeOK
<1>1. CASE /\ st' = Rolled
           /\ UNCHANGED <<lease, granted>>
  <2>1. Unseen
    BY <1>0, <1>1, RolledKeepsService DEF Acquire, Unseen
  <2> QED BY <2>1, UnseenStutters
<1>2. ASSUME NEW k \in AvailableAt(now),
             st' = [Rolled EXCEPT ![k] = Debit(@)],
             lease' = [lease EXCEPT ![w] = k],
             granted' = [granted EXCEPT ![k] = @ + 1]
      PROVE  LP!Grant(w, k) /\ k \in KeyIds
  <2>1. k \in keys /\ k \in KeyIds
    BY <1>0 DEF AvailableAt
  <2>2. ~st[k].Disabled
    <3>1. st[k] \in KeyStates /\ now \in Nat
      BY <2>1 DEF TypeOK
    <3>2. ~RollReset(st[k], now).Disabled
      BY DEF AvailableAt, Available
    <3> QED BY <3>1, <3>2, RollFields
  <2>3. \A j \in keys : st'[j].Disabled = st[j].Disabled
    <3>1. Debit(Rolled[k]).Disabled = st[k].Disabled
      BY <2>1, RolledKeepsService, DebitFields
    <3> QED BY <1>0, <1>2, <2>1, <3>1, RolledKeepsService
  <2>4. Service' = Service
    BY <2>3, ServiceKept DEF Acquire
  <2>5. Recorded' = Recorded
    BY DEF Acquire, Recorded
  <2> QED BY <1>2, <2>1, <2>2, <2>4, <2>5 DEF Acquire, LP!Grant, Service, Active
<1> QED BY <1>1, <1>2 DEF Acquire

(* A lease that ends and leaves the key where it was.                      *)
LEMMA EndStep ==
  ASSUME NEW w \in Workers, lease[w] # None, lease' = [lease EXCEPT ![w] = None],
         UNCHANGED <<phase, keys, granted, dbUse>>,
         \A k \in keys : st'[k].Disabled = st[k].Disabled
  PROVE  LP!End(w)
<1>1. Service' = Service /\ Recorded' = Recorded
  BY ServiceKept DEF Recorded
<1> QED BY <1>1 DEF LP!End

LEMMA ReleaseStep ==
  ASSUME TypeOK, NEW w \in Workers, NEW n \in 0..MaxZones, Release(w, n)
  PROVE  LP!End(w)
<1>1. lease[w] \in KeyIds /\ st \in [KeyIds -> KeyStates] /\ keys \subseteq KeyIds
  BY DEF TypeOK, Release
<1>2. Settle(st[lease[w]], n * ZoneCost).Disabled = st[lease[w]].Disabled
  BY <1>1, MaxExtraGrows, SettleFields
<1>3. \A k \in keys : st'[k].Disabled = st[k].Disabled
  BY <1>1, <1>2 DEF Release
<1> QED BY <1>3, EndStep DEF Release, envVars, maintVars, dbVars

LEMMA MarkErrorStep ==
  ASSUME TypeOK, NEW w \in Workers, NEW kind, MarkError(w, kind)
  PROVE  LP!End(w)
<1> DEFINE k == lease[w]
<1>1. k \in KeyIds /\ st \in [KeyIds -> KeyStates] /\ keys \subseteq KeyIds /\ now \in Nat
  BY DEF TypeOK, MarkError
<1>2. st' = [st EXCEPT ![k] = Failed(@, kind, now)]
  BY DEF MarkError
<1>3. st'[k].Disabled = (st[k].Disabled \/ Forbids(st[k], kind))
  BY <1>1, <1>2, FailedFields
<1>4. \A j \in keys : j # k => st'[j].Disabled = st[j].Disabled
  BY <1>1, <1>2
<1>5. keys' = keys /\ phase' = phase
  BY DEF MarkError, envVars, maintVars, dbVars
<1>6. Service' \in {Service, Service \ {k}}
  <2>1. CASE Forbids(st[k], kind)
    <3>1. Active' = Active \ {k}
      BY <1>3, <1>4, <1>5, <2>1 DEF Active
    <3> QED BY <1>5, <3>1 DEF Service
  <2>2. CASE ~Forbids(st[k], kind)
    <3>1. Active' = Active
      BY <1>3, <1>4, <1>5, <2>2 DEF Active
    <3> QED BY <1>5, <3>1 DEF Service
  <2> QED BY <2>1, <2>2
<1>7. Recorded' = Recorded /\ phase' = phase /\ granted' = granted
  BY DEF MarkError, Recorded, envVars, maintVars, dbVars
<1> QED BY <1>6, <1>7 DEF MarkError, LP!End

(* The row is written: the uses of the batch are uses that were granted,   *)
(* because none has been drained yet (UsesInv).                            *)
LEMMA WriteStep ==
  ASSUME TypeOK, UsesInv, NEW k \in Pending, FlushWrite(k)
  PROVE  LP!Record(k) \/ UNCHANGED LP!vars
<1> USE DEF envVars, memory, workVars
<1>0. k \in Keys /\ k \in KeyIds
  BY DEF Pending, KeyIds
<1>1. CASE dbUse' = [dbUse EXCEPT ![k] = @ + batch[k].useDelta]
  <2>1. /\ dbUse \in [Keys -> Nat] /\ batch[k].useDelta \in Nat
        /\ st[k].UseCount \in Nat /\ granted[k] \in Nat /\ LostAcks \in BOOLEAN
    BY <1>0, PoolConstants DEF TypeOK, KeyStates
  <2>2. batch[k].useDelta > 0 /\ batch[k].useDelta <= st[k].UseCount
    BY <1>0 DEF Pending, UsesInv, FlushInv
  <2>3. dbUse[k] + st[k].UseCount = granted[k] \/ LostAcks
    <3>1. unsettled # k
      BY <1>0, PoolConstants DEF FlushWrite
    <3>2. ~LostAcks => dbUse[k] + st[k].UseCount = granted[k] + 0
      BY <1>0, <3>1 DEF UsesInv, UsesAccounted
    <3> QED BY <2>1, <3>2
  <2>4. Recorded' = [Recorded EXCEPT ![k] = Recorded'[k]]
    BY <1>0, <1>1, <2>1 DEF Recorded
  <2>5. Recorded'[k] = dbUse[k] + batch[k].useDelta /\ Recorded[k] = dbUse[k]
    BY <1>0, <1>1, <2>1 DEF Recorded
  <2>6. Recorded'[k] > Recorded[k] /\ (Recorded'[k] <= granted[k] \/ LostAcks)
    <3>1. dbUse[k] \in Nat
      BY <1>0, <2>1
    <3> QED BY <2>1, <2>2, <2>3, <2>5, <3>1
  <2>7. Service' = Service
    BY DEF FlushWrite, Service, Active
  <2> QED BY <2>4, <2>6, <2>7 DEF FlushWrite, LP!Record
<1>2. CASE UNCHANGED dbUse
  <2>1. Unseen
    BY <1>2 DEF FlushWrite, Unseen
  <2> QED BY <2>1, UnseenStutters
<1> QED BY <1>1, <1>2 DEF FlushWrite

(* A refresh and a drain do not touch Disabled.                            *)
LEMMA MaintenanceStep ==
  ASSUME TypeOK, UsesInv, (\E k \in due : ReconcileKey(k)) \/ FlushSettle
  PROVE  UNCHANGED LP!vars
<1> USE DEF envVars, workVars, dbVars
<1>0. st \in [KeyIds -> KeyStates] /\ keys \subseteq KeyIds /\ due \subseteq KeyIds
  BY DEF TypeOK
<1>1. ASSUME NEW k \in due, ReconcileKey(k)
      PROVE  Unseen
  <2>1. PICK v : st' = [st EXCEPT ![k] = v] /\ v.Disabled = st[k].Disabled
    <3>0. k \in KeyIds /\ st[k] \in KeyStates
      BY <1>0
    <3>1. ASSUME NEW r \in RateReplies, st' = [st EXCEPT ![k] = Refresh(st[k], r, now)]
          PROVE  \E v : st' = [st EXCEPT ![k] = v] /\ v.Disabled = st[k].Disabled
      <4>1. Refresh(st[k], r, now).Disabled = st[k].Disabled
        BY <3>0, RefreshFields
      <4> WITNESS Refresh(st[k], r, now)
      <4> QED BY <3>1, <4>1, Zenon
    <3>2. ASSUME st' = [st EXCEPT ![k] = [st[k] EXCEPT !.ErrCount = @ + 1]]
          PROVE  \E v : st' = [st EXCEPT ![k] = v] /\ v.Disabled = st[k].Disabled
      <4>1. [st[k] EXCEPT !.ErrCount = @ + 1].Disabled = st[k].Disabled
        BY <3>0, ErrCountFields
      <4> WITNESS [st[k] EXCEPT !.ErrCount = @ + 1]
      <4> QED BY <3>2, <4>1, Zenon
    <3> QED BY <1>1, <3>1, <3>2 DEF ReconcileKey
  <2>2. \A j \in keys : st'[j].Disabled = st[j].Disabled
    BY <1>0, <2>1
  <2> QED BY <1>1, <2>2 DEF ReconcileKey, Unseen
<1>2. ASSUME FlushSettle
      PROVE  Unseen
  <2>1. unsettled \in Keys /\ unsettled \in KeyIds
    BY <1>2 DEF FlushSettle, TypeOK, KeyIds
  <2>2. Drained(st[unsettled], batch[unsettled].useDelta).Disabled = st[unsettled].Disabled
    BY <1>0, <2>1 DEF Drained, KeyStates
  <2>3. \A j \in keys : st'[j].Disabled = st[j].Disabled
    BY <1>0, <1>2, <2>1, <2>2 DEF FlushSettle
  <2> QED BY <1>2, <2>3 DEF FlushSettle, Unseen
<1> QED BY <1>1, <1>2, UnseenStutters

LEMMA RestartStep ==
  ASSUME Restart
  PROVE  LP!Crash
<1>1. Recorded' = Recorded /\ granted' = Recorded
  BY DEF Restart, Recorded, dbVars
<1>2. phase' = "boot" /\ Service' = {}
  BY DEF Restart, Service
<1> QED BY <1>1, <1>2 DEF Restart, LP!Crash

(* Load and AddEnvKey.                                                     *)
LEMMA BootStep ==
  ASSUME TypeOK,
         LoadRows \/ ProbeNext \/ RetryProbes \/ Publish \/ AddEnvKey \/ ExitWithoutKeys
  PROVE  LP!Open \/ UNCHANGED LP!vars
<1> USE DEF envVars, memory, workVars, maintVars, dbVars
<1>1. CASE LoadRows \/ ProbeNext \/ RetryProbes \/ ExitWithoutKeys
  <2>1. phase # "running" /\ phase' # "running" /\ UNCHANGED <<lease, granted, dbUse>>
    BY <1>1 DEF LoadRows, ProbeNext, RetryProbes, ExitWithoutKeys
  <2> QED BY <2>1, BootStutters
<1>2. CASE Publish
  <2>1. phase # "running" /\ UNCHANGED <<st, lease, granted, dbUse>> /\ keys' = states
    BY <1>2 DEF Publish
  <2>2. CASE \E k \in states : ~st[k].Disabled
    <3>1. phase' = "running" /\ keys' \subseteq KeyIds
      BY <1>2, <2>2 DEF Publish, TypeOK, KeyIds
    <3> QED BY <2>1, <2>2, <3>1, OpenStep
  <2>3. CASE ~\E k \in states : ~st[k].Disabled
    <3>1. phase' = "fallback"
      BY <1>2, <2>3 DEF Publish
    <3> QED BY <2>1, <3>1, BootStutters
  <2> QED BY <2>2, <2>3
<1>3. CASE AddEnvKey
  <2>1. phase # "running" /\ UNCHANGED <<lease, granted, dbUse>> /\ keys' = keys \cup {EnvKey}
    BY <1>3 DEF AddEnvKey
  <2>2. CASE st'[EnvKey].Disabled
    <3>1. phase' = "exited"
      BY <1>3, <2>2 DEF AddEnvKey
    <3> QED BY <2>1, <3>1, BootStutters
  <2>3. CASE ~st'[EnvKey].Disabled
    <3>1. phase' = "running"
      BY <1>3, <2>3 DEF AddEnvKey
    <3>2. keys' \subseteq KeyIds
      BY <2>1 DEF TypeOK, KeyIds
    <3> QED BY <2>1, <2>3, <3>1, <3>2, OpenStep
  <2> QED BY <2>2, <2>3
<1> QED BY <1>1, <1>2, <1>3

(* Every step of the pool is a step of the promise or a stutter. *)
LEMMA RefinementStep ==
  ASSUME TypeOK, UsesInv, [Next]_vars
  PROVE  [LP!Next]_LP!vars
<1> USE DEF LP!Next
<1>1. CASE LoadRows \/ ProbeNext \/ RetryProbes \/ Publish \/ AddEnvKey \/ ExitWithoutKeys
  BY <1>1, BootStep
<1>2. ASSUME NEW w \in Workers, Acquire(w)
      PROVE  [LP!Next]_LP!vars
  BY <1>2, AcquireStep
<1>3. ASSUME NEW w \in Workers, NEW n \in 0..MaxZones, Release(w, n)
      PROVE  LP!Next
  BY <1>3, ReleaseStep
<1>4. ASSUME NEW w \in Workers, Drop(w)
      PROVE  LP!Next
  <2>1. LP!End(w)
    BY <1>4, EndStep DEF Drop, envVars, memory, maintVars, dbVars
  <2> QED BY <2>1
<1>5. ASSUME NEW w \in Workers, NEW e \in Failures, MarkError(w, Classify(e))
      PROVE  LP!Next
  BY <1>5, MarkErrorStep
<1>6. CASE \/ \E w \in Workers : WriteForbidden(w)
           \/ ReconcileStart \/ FlushStart \/ Tick \/ UNCHANGED vars
  <2>1. Unseen
    BY <1>6 DEF WriteForbidden, ReconcileStart, FlushStart, Tick, Unseen,
                vars, envVars, memory, workVars, maintVars, dbVars
  <2> QED BY <2>1, UnseenStutters
<1>7. CASE (\E k \in due : ReconcileKey(k)) \/ FlushSettle
  BY <1>7, MaintenanceStep
<1>8. ASSUME NEW k \in Pending, FlushWrite(k)
      PROVE  [LP!Next]_LP!vars
  <2>1. k \in KeyIds
    BY DEF Pending, KeyIds
  <2> QED BY <1>8, <2>1, WriteStep
<1>9. CASE Restart
  BY <1>9, RestartStep
<1> QED BY <1>1, <1>2, <1>3, <1>4, <1>5, <1>6, <1>7, <1>8, <1>9 DEF Next

(* Whoever uses the pool may rely on LeasePool's promise, for any number   *)
(* of keys and workers and wherever the process dies.                      *)
THEOREM PoolImplementsPromise == Spec => ImplementsLeasePool
<1>1. Init => LP!Init
  BY DEF Init, LP!Init, Service, Recorded, KeyIds
<1>2. TypeOK /\ UsesInv /\ [Next]_vars => [LP!Next]_LP!vars
  BY RefinementStep
<1>3. Init => UsesInv
  BY DEF Init, UsesInv, FlushInv, UsesAccounted, NewKey, NotPending, KeyIds
<1>4. TypeOK /\ UsesInv /\ [Next]_vars => UsesInv'
  BY UsesStep
<1> QED BY <1>1, <1>2, <1>3, <1>4, TypeCorrect, PTL DEF Spec, ImplementsLeasePool, LP!Spec
=============================================================================
