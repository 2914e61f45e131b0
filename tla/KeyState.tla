------------------------------ MODULE KeyState ------------------------------
(***************************************************************************)
(* One donated FFLogs key: the record KeyState of                          *)
(* src/service/keypool/state.go and the arithmetic the pool does on it.    *)
(*                                                                         *)
(* Points and times are integers in units of the model's choosing; a time  *)
(* of 0 is Go's zero time.Time.  FFLogs reports points with a fractional   *)
(* part: a reply carries them in halves of a point, which is enough to     *)
(* tell rounding up from rounding down.                                    *)
(***************************************************************************)
EXTENDS Integers

CONSTANTS
  SafetyBudget,          (* points of every key kept in reserve            *)
  EstCostPerMember,      (* points debited when a lease is granted         *)
  DefaultLimitPerHour,   (* limit assumed when FFLogs reports 0            *)
  Hour,                  (* length of FFLogs' quota window (MaxResetIn)    *)
  DisabledCooldown,      (* cooldown stamped on a key that is disabled     *)
  ReconcileEvery,        (* age at which the local estimate is refreshed   *)
  ReconcileUseThreshold, (* leases after which it is refreshed             *)
  ForbiddenErrThreshold  (* err_count from which a key is forbidden        *)

ASSUME PoolConfig ==
  /\ SafetyBudget \in Nat
  /\ EstCostPerMember \in Nat \ {0}
  /\ DefaultLimitPerHour \in Nat
  /\ Hour \in Nat \ {0}
  /\ DisabledCooldown \in Nat
  /\ ReconcileEvery \in Nat
  /\ ReconcileUseThreshold \in Nat
  /\ ForbiddenErrThreshold \in Nat \ {0}

ZeroTime == 0

(* The fields of the Go struct that change; ID is the index of the record  *)
(* in the pool, ClientID and Client never change.                          *)
KeyStates ==
  [ Limit            : Nat,
    SpentEstimate    : Nat,
    ResetAt          : Nat,
    LastRefreshAt    : Nat,
    UsesSinceRefresh : Nat,
    UseCount         : Nat,
    ErrCount         : Nat,
    Disabled         : BOOLEAN,
    Forbidden        : BOOLEAN,
    CooldownUntil    : Nat ]

NewKey ==
  [ Limit            |-> 0,
    SpentEstimate    |-> 0,
    ResetAt          |-> ZeroTime,
    LastRefreshAt    |-> ZeroTime,
    UsesSinceRefresh |-> 0,
    UseCount         |-> 0,
    ErrCount         |-> 0,
    Disabled         |-> FALSE,
    Forbidden        |-> FALSE,
    CooldownUntil    |-> ZeroTime ]

(* A rateLimitData payload: limit and spent in half points.                *)
RateLimits == [ limit : Nat, spent : Nat, resetIn : Int ]

(* int(f) truncates; the pool then adds one when a fraction was cut off.   *)
Truncated(halves) == halves \div 2
RoundedUp(halves) == (halves + 1) \div 2

ClampResetIn(secs) == IF secs <= 0 \/ secs > Hour THEN Hour ELSE secs

-----------------------------------------------------------------------------

Remaining(s) ==
  IF s.SpentEstimate <= s.Limit THEN s.Limit - s.SpentEstimate ELSE 0

(* Mutant for ImplementsLeasePool: the cooldown's end re-admits a key.     *)
AvailableOnceCool(s, t, minBudget) ==
  t >= s.CooldownUntil /\ Remaining(s) >= minBudget

Available(s, t, minBudget) ==
  /\ ~s.Disabled
  /\ t >= s.CooldownUntil
  /\ Remaining(s) >= minBudget

(* Mutant for SleepIsPrecise: the window ends one instant early.           *)
ElapsedAtReset(s, t) == s.ResetAt # ZeroTime /\ t >= s.ResetAt

Elapsed(s, t) == s.ResetAt # ZeroTime /\ t > s.ResetAt

RollReset(s, t) ==
  IF Elapsed(s, t)
  THEN [s EXCEPT !.SpentEstimate = 0, !.ResetAt = t + Hour]
  ELSE s

-----------------------------------------------------------------------------

(* probe: the first rateLimitData of a key, at start-up.                   *)
ProbeSucceeds(s, r, t) ==
  [s EXCEPT !.Disabled      = FALSE,
            !.ErrCount      = 0,
            !.Limit         = IF Truncated(r.limit) = 0
                              THEN DefaultLimitPerHour ELSE Truncated(r.limit),
            !.SpentEstimate = RoundedUp(r.spent),
            !.ResetAt       = t + ClampResetIn(r.resetIn),
            !.LastRefreshAt = t]

ProbeFails(s, permanent) ==
  [s EXCEPT !.Disabled  = TRUE,
            !.Forbidden = @ \/ permanent,
            !.ErrCount  = @ + 1]

(* Acquire's pre-debit of the key it leases.                               *)
Debit(s) ==
  [s EXCEPT !.SpentEstimate    = @ + EstCostPerMember,
            !.UseCount         = @ + 1,
            !.UsesSinceRefresh = @ + 1]

(* Mutant for TypeOK: the pre-debit is refunded and nothing floors it.     *)
SettleRefunding(s, extraCost) ==
  [s EXCEPT !.ErrCount = 0, !.SpentEstimate = @ + extraCost - EstCostPerMember]

(* Release: extraCost may be negative by its contract.                     *)
Settle(s, extraCost) ==
  [s EXCEPT !.ErrCount      = 0,
            !.SpentEstimate = IF @ + extraCost < 0 THEN 0 ELSE @ + extraCost]

(* Mutant for DisabledIsFinal: a good answer re-enables the key, as probe  *)
(* does.                                                                   *)
RefreshReenabling(s, r, t) ==
  [s EXCEPT !.SpentEstimate    = RoundedUp(r.spent),
            !.LastRefreshAt    = t,
            !.UsesSinceRefresh = 0,
            !.ErrCount         = 0,
            !.Disabled         = FALSE]

(* Mutant for DueRefreshed: the leases since the refresh are not reset.    *)
RefreshForgetting(s, r, t) ==
  [s EXCEPT !.SpentEstimate = RoundedUp(r.spent), !.LastRefreshAt = t, !.ErrCount = 0]

(* Reconcile: a zero limit or a non-positive reset keeps the old value.    *)
Refresh(s, r, t) ==
  [s EXCEPT !.Limit            = IF Truncated(r.limit) > 0
                                 THEN Truncated(r.limit) ELSE @,
            !.SpentEstimate    = RoundedUp(r.spent),
            !.ResetAt          = IF r.resetIn > 0
                                 THEN t + ClampResetIn(r.resetIn) ELSE @,
            !.LastRefreshAt    = t,
            !.UsesSinceRefresh = 0,
            !.ErrCount         = 0]

Due(s, t) ==
  /\ ~s.Disabled
  /\ \/ t - s.LastRefreshAt >= ReconcileEvery
     \/ s.UsesSinceRefresh >= ReconcileUseThreshold

(* A key at the threshold is disabled whatever the kind of the failure     *)
(* that brought it there.                                                  *)
ErrorKinds == {"RateLimited", "Unauthorized", "Transient"}

Forbids(s, kind) ==
  kind = "Unauthorized" \/ s.ErrCount + 1 >= ForbiddenErrThreshold

(* Mutant for EstimateBounded: a 429 leaves the estimate alone.            *)
FailedUncharged(s, kind, t) ==
  [s EXCEPT !.ErrCount      = @ + 1,
            !.Disabled      = @ \/ Forbids(s, kind),
            !.CooldownUntil = IF Forbids(s, kind) THEN t + DisabledCooldown ELSE @]

(* MarkError on the key a worker has leased.                               *)
Failed(s, kind, t) ==
  [s EXCEPT !.ErrCount      = @ + 1,
            !.SpentEstimate = IF kind = "RateLimited" THEN s.Limit ELSE @,
            !.Disabled      = @ \/ Forbids(s, kind),
            !.CooldownUntil = IF Forbids(s, kind) THEN t + DisabledCooldown ELSE @]

(* Mutant for UsesAccounted: the accumulator is zeroed.                    *)
DrainedToZero(s, n) == [s EXCEPT !.UseCount = 0]

(* FlushStats drains the uses it has persisted.                            *)
Drained(s, n) ==
  [s EXCEPT !.UseCount = IF @ >= n THEN @ - n ELSE @]
=============================================================================
