--------------------------- MODULE KeyWaitersProofs ---------------------------
(* What the sync workers may rely on when they wait for a key, for any number of
   keys and workers and any timings.

   Both invariants of KeyWaiters rest on one strengthening, WaitInv. A worker
   that asks again has slept since it last asked; a member's deadline is never
   further away than PerMemberTimeout and is not passed by the clock while the
   member waits; and the time shown as the recovery of the keys lies no further
   than PerMemberTimeout before the deadline of any member that waits. *)
EXTENDS KeyWaiters, KeyPoolProofs

Members == [at : Steps, until : Nat, resetAt : Nat, alarm : Nat, asked : Nat]

(* The types of the waiters' own variables. *)
Typed ==
    /\ member \in [Workers -> Members]
    /\ blocked \in SUBSET Workers
    /\ keysRecoverAt \in Nat

Waiting == {"ask", "mark", "sleep", "leave"}

Asking(w) ==
    /\ member[w].asked <= now
    /\ member[w].at = "ask"   => member[w].asked < now
    /\ member[w].at = "sleep" => member[w].asked < member[w].alarm

Deadline(w) ==
    /\ member[w].until <= now + PerMemberTimeout
    /\ member[w].at \in Waiting => now <= member[w].until
    /\ member[w].at = "mark" => member[w].resetAt = ZeroTime \/ now <= member[w].resetAt

Countdown(w) ==
    w \in blocked =>
        /\ member[w].at \in Waiting
        /\ keysRecoverAt # ZeroTime =>
              member[w].until <= keysRecoverAt + PerMemberTimeout

(* The inductive invariant, a conjunction over the workers. *)
WaitInv ==
    /\ Typed
    /\ now >= 1
    /\ \A w \in Workers : Asking(w) /\ Deadline(w) /\ Countdown(w)

--------------------------------------------------------------------------------
(* The pool underneath.                                                          *)

(* Every step of the workers is a step of the pool, or none at all. *)
LEMMA PoolBelow ==
    ASSUME [WNext]_allVars
    PROVE  [Next]_vars
<1>1. CASE \E w \in Workers : StartMember(w) \/ MarkAndSleep(w) \/ Wake(w) \/ GiveUp(w) \/ Leave(w)
  BY <1>1 DEF StartMember, MarkAndSleep, Wake, GiveUp, Leave
<1>2. CASE \E w \in Workers : Ask(w) \/ EndWork(w)
  BY <1>2 DEF Ask, EndWork, Next
<1>3. CASE WTick \/ PoolStep
  BY <1>3 DEF WTick, PoolStep, Next
<1>4. CASE UNCHANGED allVars
  BY <1>4 DEF allVars
<1>5. QED
  BY <1>1, <1>2, <1>3, <1>4 DEF WNext

(* So what is proved of the pool holds under the workers as well. *)
LEMMA PoolHolds == WSpec => [](TypeOK /\ PublishedInForce)
<1>1. WInit => TypeOK /\ PublishedInForce
  BY NewKeyTyped
     DEF WInit, Init, TypeOK, Phases, NotPending, KeyIds, PublishedInForce, InForce, NewKey
<1>2. TypeOK /\ PublishedInForce /\ [WNext]_allVars => TypeOK' /\ PublishedInForce'
  BY PoolBelow, TypeOKStep, InForceStep
<1>3. QED
  BY <1>1, <1>2, PTL DEF WSpec

(* The time Acquire names is a time, and not one in the past: a window that has
   elapsed has just been rolled. With no key in service there is none. *)
LEMMA ResetAhead ==
    ASSUME TypeOK, PublishedInForce
    PROVE  NextReset \in Nat /\ (NextReset = ZeroTime \/ now <= NextReset)
<1> DEFINE candidates == {ResetCandidate(Rolled[k]) : k \in Active}
<1>0. now \in Nat /\ Active \subseteq keys /\ keys \subseteq KeyIds /\ ZeroTime \in Nat
  BY DEF TypeOK, Active, ZeroTime
<1>1. ASSUME NEW k \in Active
      PROVE  ResetCandidate(Rolled[k]) \in Nat /\ now <= ResetCandidate(Rolled[k])
  <2>1. /\ st[k] \in KeyStates /\ Rolled[k] = RollReset(st[k], now)
        /\ st[k].CooldownUntil = ZeroTime /\ st[k].ResetAt # ZeroTime
    BY <1>0 DEF TypeOK, Active, PublishedInForce, InForce, Rolled
  <2>2. st[k].ResetAt \in Nat /\ now + Hour \in Nat /\ now <= now + Hour
    BY <1>0, <2>1, PoolConfig DEF KeyStates
  <2>3. /\ Rolled[k].CooldownUntil = ZeroTime
        /\ Rolled[k].ResetAt = IF Elapsed(st[k], now) THEN now + Hour ELSE st[k].ResetAt
    <3>1. Rolled[k].CooldownUntil = ZeroTime
      BY <1>0, <2>1, RollFollows
    <3>2. Rolled[k].ResetAt = IF Elapsed(st[k], now) THEN now + Hour ELSE st[k].ResetAt
      BY <2>1, Zenon DEF RollReset, KeyStates
    <3>3. QED
      BY <3>1, <3>2
  <2>4. Elapsed(st[k], now) <=> now > st[k].ResetAt
    BY <2>1 DEF Elapsed
  <2>5. Rolled[k].ResetAt \in Nat /\ now <= Rolled[k].ResetAt
    BY <1>0, <2>2, <2>3, <2>4
  <2>6. ~(now < ZeroTime)
    BY <1>0 DEF ZeroTime
  <2>7. ResetCandidate(Rolled[k]) = Rolled[k].ResetAt
    BY <2>3, <2>6, Zenon DEF ResetCandidate
  <2>8. QED
    BY <2>5, <2>7
<1>2. IsFiniteSet(candidates)
  <2>1. IsFiniteSet(KeyIds)
    BY PoolConstants, FS_AddElement DEF KeyIds
  <2>2. IsFiniteSet(Active)
    BY <1>0, <2>1, FS_Subset
  <2>3. [k \in Active |-> ResetCandidate(Rolled[k])] \in Surjection(Active, candidates)
    BY DEF Surjection
  <2> HIDE DEF candidates
  <2>4. QED
    BY <2>2, <2>3, FS_Surjection
<1>3. candidates \in SUBSET Nat /\ \A c \in candidates : now <= c
  BY <1>1
<1>4. NextReset = IF candidates = {} THEN ZeroTime ELSE Min(candidates)
  BY Zenon DEF NextReset
<1> HIDE DEF candidates
<1>5. candidates # {} => Min(candidates) \in candidates
  BY <1>2, <1>3, MinOfNats
<1>6. QED
  BY <1>0, <1>3, <1>4, <1>5

(* A wait takes time, and ends at some time. *)
LEMMA WaitTakesTime ==
    ASSUME NEW resetAt \in Nat, now \in Nat
    PROVE  Wait(resetAt) \in Nat /\ Wait(resetAt) >= 1
<1>1. RetryAfter \in Nat /\ RetryAfter >= 1 /\ MaxWait \in Nat /\ MaxWait >= 1
  BY WaitConstants
<1>2. ASSUME ~(resetAt <= now)
      PROVE  Min({resetAt - now, MaxWait}) \in Nat /\ Min({resetAt - now, MaxWait}) >= 1
  <2> DEFINE S == {resetAt - now, MaxWait}
  <2>1. resetAt - now \in Nat /\ resetAt - now >= 1
    BY <1>2
  <2>2. S \in SUBSET Nat /\ S # {} /\ \A x \in S : x >= 1
    BY <1>1, <2>1
  <2>3. IsFiniteSet(S)
    <3>1. IsFiniteSet({resetAt - now})
      BY FS_Singleton
    <3>2. IsFiniteSet({resetAt - now} \cup {MaxWait})
      BY <3>1, FS_AddElement
    <3>3. S = {resetAt - now} \cup {MaxWait}
      OBVIOUS
    <3>4. QED
      BY <3>2, <3>3
  <2> HIDE DEF S
  <2>4. Min(S) \in S
    BY <2>2, <2>3, MinOfNats
  <2>5. Min(S) \in Nat /\ Min(S) >= 1
    BY <2>2, <2>4
  <2>6. QED
    BY <2>5 DEF S
<1>3. QED
  BY <1>1, <1>2 DEF Wait

--------------------------------------------------------------------------------
(* The invariant. A step of one worker leaves the others' parts of it alone, as
   long as the clock stands still. *)

(* A worker whose member the step does not touch. *)
LEMMA OthersKept ==
    ASSUME NEW x \in Workers, Asking(x), Deadline(x), UNCHANGED <<now, member[x]>>
    PROVE  Asking(x)' /\ Deadline(x)'
BY DEF Asking, Deadline

(* The countdown of a worker that stays as it is, when the shown time does. *)
LEMMA CountdownKept ==
    ASSUME NEW x \in Workers, Countdown(x), UNCHANGED <<member[x], keysRecoverAt>>,
           x \in blocked' => x \in blocked
    PROVE  Countdown(x)'
BY DEF Countdown

(* A worker that takes a member starts its deadline. *)
LEMMA StartStep ==
    ASSUME WaitInv, TypeOK, NEW w \in Workers, StartMember(w)
    PROVE  WaitInv'
<1>0. now \in Nat /\ now >= 1 /\ PerMemberTimeout \in Nat \ {0} /\ member \in [Workers -> Members]
  BY WaitConstants DEF TypeOK, WaitInv, Typed
<1>1. UNCHANGED <<now, blocked, keysRecoverAt>> /\ member[w].at = "idle"
  BY DEF StartMember, vars, envVars
<1>2. /\ member'[w].at = "ask" /\ member'[w].until = now + PerMemberTimeout
      /\ member'[w].asked = 0 /\ member'[w] \in Members
      /\ \A x \in Workers \ {w} : member'[x] = member[x]
      /\ member' \in [Workers -> Members]
  <2> DEFINE m == [NoMember EXCEPT !.at = "ask", !.until = now + PerMemberTimeout]
  <2>1. now + PerMemberTimeout \in Nat
    BY <1>0
  <2>2. /\ m.at = "ask" /\ m.until = now + PerMemberTimeout /\ m.asked = 0
        /\ m \in Members
    BY <2>1 DEF NoMember, Members, Steps
  <2>3. member' = [member EXCEPT ![w] = m]
    BY DEF StartMember
  <2> HIDE DEF m
  <2>4. QED
    BY <1>0, <2>2, <2>3
<1>3. ASSUME NEW x \in Workers
      PROVE  Asking(x)' /\ Deadline(x)' /\ Countdown(x)'
  <2>1. Asking(x) /\ Deadline(x) /\ Countdown(x)
    BY DEF WaitInv
  <2>2. CASE x # w
    BY <1>1, <1>2, <2>1, <2>2, OthersKept, CountdownKept
  <2>3. CASE x = w
    <3>1. w \notin blocked'
      BY <1>1, <2>1, <2>3 DEF Countdown, Waiting
    <3>2. Asking(w)' /\ Deadline(w)'
      BY <1>0, <1>1, <1>2 DEF Asking, Deadline
    <3>3. QED
      BY <2>3, <3>1, <3>2 DEF Countdown
  <2>4. QED
    BY <2>2, <2>3
<1>4. QED
  BY <1>1, <1>2, <1>3 DEF WaitInv, Typed

(* Acquire names a time that has not passed. *)
LEMMA AskStep ==
    ASSUME WaitInv, TypeOK, PublishedInForce, NEW w \in Workers, Ask(w)
    PROVE  WaitInv'
<1>0. now \in Nat /\ now >= 1 /\ member \in [Workers -> Members]
  BY DEF TypeOK, WaitInv, Typed
<1>1. UNCHANGED <<now, blocked, keysRecoverAt>> /\ member[w].at = "ask"
  BY DEF Ask, Acquire, envVars
<1>2. NextReset \in Nat /\ (NextReset = ZeroTime \/ now <= NextReset)
  BY ResetAhead
<1>3. member[w] \in Members /\ member[w].until \in Nat /\ member[w].resetAt \in Nat
  BY <1>0 DEF Members
<1>4. /\ member'[w].at \in {"leave", "mark"} /\ member'[w].until = member[w].until
      /\ member'[w].asked = now
      /\ member'[w].at = "mark" => member'[w].resetAt = NextReset
      /\ \A x \in Workers \ {w} : member'[x] = member[x]
      /\ member' \in [Workers -> Members]
  BY <1>0, <1>2, <1>3 DEF Ask, Members, Steps
<1>5. ASSUME NEW x \in Workers
      PROVE  Asking(x)' /\ Deadline(x)' /\ Countdown(x)'
  <2>1. Asking(x) /\ Deadline(x) /\ Countdown(x)
    BY DEF WaitInv
  <2>2. CASE x # w
    BY <1>1, <1>4, <2>1, <2>2, OthersKept, CountdownKept
  <2>3. CASE x = w
    <3>1. Asking(w)'
      BY <1>0, <1>1, <1>4 DEF Asking
    <3>2. Deadline(w)'
      BY <1>0, <1>1, <1>2, <1>4, <2>1, <2>3 DEF Deadline, Waiting
    <3>3. Countdown(w)'
      BY <1>1, <1>4, <2>1, <2>3 DEF Countdown, Waiting
    <3>4. QED
      BY <2>3, <3>1, <3>2, <3>3
  <2>4. QED
    BY <2>2, <2>3
<1>6. QED
  BY <1>0, <1>1, <1>4, <1>5 DEF WaitInv, Typed

(* A member that starts to wait moves the shown time, if it has one, to a time
   that is not past: no member waits longer than PerMemberTimeout from it. *)
LEMMA MarkStep ==
    ASSUME WaitInv, TypeOK, NEW w \in Workers, MarkAndSleep(w)
    PROVE  WaitInv'
<1>0. /\ now \in Nat /\ now >= 1 /\ member \in [Workers -> Members]
      /\ PerMemberTimeout \in Nat /\ blocked \in SUBSET Workers /\ keysRecoverAt \in Nat
  BY WaitConstants DEF TypeOK, WaitInv, Typed
<1>1. UNCHANGED now /\ member[w].at = "mark"
  BY DEF MarkAndSleep, vars, envVars
<1>2. /\ member[w] \in Members /\ member[w].resetAt \in Nat /\ member[w].until \in Nat
      /\ member[w].asked \in Nat
  BY <1>0 DEF Members
<1>3. Wait(member[w].resetAt) \in Nat /\ Wait(member[w].resetAt) >= 1
  BY <1>0, <1>2, WaitTakesTime
<1>4. /\ member'[w].at = "sleep" /\ member'[w].until = member[w].until
      /\ member'[w].asked = member[w].asked
      /\ member'[w].alarm = now + Wait(member[w].resetAt)
      /\ \A x \in Workers \ {w} : member'[x] = member[x]
      /\ member' \in [Workers -> Members]
  <2>1. now + Wait(member[w].resetAt) \in Nat
    BY <1>0, <1>3
  <2>2. member' = [member EXCEPT ![w].at = "sleep", ![w].alarm = now + Wait(member[w].resetAt)]
    BY DEF MarkAndSleep
  <2> HIDE DEF Wait
  <2>3. QED
    BY <1>0, <1>2, <2>1, <2>2 DEF Members, Steps
<1>5. Asking(w)'
  <2>1. member[w].asked <= now
    BY DEF WaitInv, Asking
  <2>2. QED
    BY <1>0, <1>1, <1>2, <1>3, <1>4, <2>1 DEF Asking
<1>6. Deadline(w)'
  BY <1>0, <1>1, <1>4 DEF WaitInv, Deadline, Waiting
<1>7. \A x \in Workers \ {w} : Asking(x)' /\ Deadline(x)'
  BY <1>1, <1>4, OthersKept DEF WaitInv
<1>8. CASE w \in blocked
  <2>1. UNCHANGED <<blocked, keysRecoverAt>>
    BY <1>8 DEF MarkAndSleep
  <2>2. \A x \in Workers \ {w} : Countdown(x)'
    BY <1>4, <2>1, CountdownKept DEF WaitInv
  <2>3. Countdown(w)'
    BY <1>4, <2>1 DEF WaitInv, Countdown, Waiting
  <2>4. QED
    BY <1>0, <1>1, <1>4, <1>5, <1>6, <1>7, <2>1, <2>2, <2>3 DEF WaitInv, Typed
<1>9. CASE w \notin blocked
  <2>1. blocked' = blocked \cup {w} /\ keysRecoverAt' = member[w].resetAt
    BY <1>9 DEF MarkAndSleep, RecoverAt
  <2>2. member[w].resetAt = ZeroTime \/ now <= member[w].resetAt
    BY <1>1 DEF WaitInv, Deadline
  <2>3. ASSUME NEW x \in Workers
        PROVE  Countdown(x)'
    <3>1. /\ member'[x].until = member[x].until /\ member[x].until \in Nat
          /\ member[x].until <= now + PerMemberTimeout
      BY <1>0, <1>4 DEF WaitInv, Deadline, Members
    <3>2. x \in blocked' => member'[x].at \in Waiting
      BY <1>4, <2>1 DEF WaitInv, Countdown, Waiting
    <3>3. keysRecoverAt' # ZeroTime => member'[x].until <= keysRecoverAt' + PerMemberTimeout
      BY <1>0, <1>2, <2>1, <2>2, <3>1
    <3>4. QED
      BY <3>2, <3>3 DEF Countdown
  <2>4. QED
    BY <1>0, <1>1, <1>2, <1>4, <1>5, <1>6, <1>7, <2>1, <2>3 DEF WaitInv, Typed
<1>10. QED
  BY <1>8, <1>9

(* The end of a sleep, by the timer or by the deadline. *)
LEMMA WakeStep ==
    ASSUME WaitInv, TypeOK, NEW w \in Workers, Wake(w) \/ GiveUp(w)
    PROVE  WaitInv'
<1>0. now \in Nat /\ now >= 1 /\ member \in [Workers -> Members]
  BY DEF TypeOK, WaitInv, Typed
<1>1. UNCHANGED <<now, blocked, keysRecoverAt>> /\ member[w].at = "sleep"
  BY DEF Wake, GiveUp, vars, envVars
<1>2. /\ member[w] \in Members /\ member[w].alarm \in Nat /\ member[w].asked \in Nat
  BY <1>0 DEF Members
<1>3. /\ member'[w].at \in {"ask", "leave"} /\ member'[w].until = member[w].until
      /\ member'[w].asked = member[w].asked
      /\ member'[w].at = "ask" => now >= member[w].alarm
      /\ \A x \in Workers \ {w} : member'[x] = member[x]
      /\ member' \in [Workers -> Members]
  BY <1>0, <1>2 DEF Wake, GiveUp, Members, Steps
<1>4. \A x \in Workers \ {w} : Asking(x)' /\ Deadline(x)' /\ Countdown(x)'
  BY <1>1, <1>3, OthersKept, CountdownKept DEF WaitInv
<1>5. Asking(w)'
  <2>1. member[w].asked <= now /\ member[w].asked < member[w].alarm
    BY <1>1 DEF WaitInv, Asking
  <2>2. QED
    BY <1>0, <1>1, <1>2, <1>3, <2>1 DEF Asking
<1>6. Deadline(w)'
  BY <1>1, <1>3 DEF WaitInv, Deadline, Waiting
<1>7. Countdown(w)'
  BY <1>1, <1>3 DEF WaitInv, Countdown, Waiting
<1>8. QED
  BY <1>0, <1>1, <1>3, <1>4, <1>5, <1>6, <1>7 DEF WaitInv, Typed

(* A worker that returns with or without a lease is no longer counted. *)
LEMMA LeaveStep ==
    ASSUME WaitInv, TypeOK, NEW w \in Workers, Leave(w) \/ EndWork(w)
    PROVE  WaitInv'
<1>0. /\ now \in Nat /\ now >= 1 /\ member \in [Workers -> Members]
      /\ blocked \in SUBSET Workers /\ keysRecoverAt \in Nat /\ PerMemberTimeout \in Nat
  BY WaitConstants DEF TypeOK, WaitInv, Typed
<1>1. UNCHANGED now
  BY DEF Leave, EndWork, Release, Drop, MarkError, vars, envVars
<1>2. /\ member[w] \in Members /\ member[w].until \in Nat /\ member[w].asked \in Nat
      /\ NoMember \in Members
  BY <1>0 DEF Members, NoMember, Steps
<1>3. /\ \/ member'[w] = NoMember
         \/ /\ member'[w].at = "work" /\ member'[w].until = member[w].until
            /\ member'[w].asked = member[w].asked
      /\ \A x \in Workers \ {w} : member'[x] = member[x]
      /\ member' \in [Workers -> Members]
  <2>1. [member[w] EXCEPT !.at = "work"] \in Members
    BY <1>2 DEF Members, Steps
  <2>2. QED
    BY <1>0, <1>2, <2>1 DEF Leave, EndWork, Members
<1>4. blocked' = blocked \ {w} /\ (keysRecoverAt' = keysRecoverAt \/ blocked' = {})
      /\ keysRecoverAt' \in Nat
  <2>1. CASE Leave(w)
    BY <1>0, <2>1 DEF Leave, ZeroTime
  <2>2. CASE EndWork(w)
    <3>1. w \notin blocked
      BY <2>2 DEF EndWork, WaitInv, Countdown, Waiting
    <3>2. QED
      BY <1>0, <2>2, <3>1 DEF EndWork
  <2>3. QED
    BY <2>1, <2>2
<1>5. \A x \in Workers \ {w} : Asking(x)' /\ Deadline(x)'
  BY <1>1, <1>3, OthersKept DEF WaitInv
<1>6. \A x \in Workers \ {w} : Countdown(x)'
  <2>1. CASE keysRecoverAt' = keysRecoverAt
    BY <1>3, <1>4, <2>1, CountdownKept DEF WaitInv
  <2>2. CASE blocked' = {}
    BY <2>2 DEF Countdown
  <2>3. QED
    BY <1>4, <2>1, <2>2
<1>7. Asking(w)' /\ Deadline(w)'
  <2>1. member[w].asked <= now /\ member[w].until <= now + PerMemberTimeout
    BY DEF WaitInv, Asking, Deadline
  <2>2. CASE member'[w] = NoMember
    BY <1>0, <1>1, <2>2 DEF Asking, Deadline, NoMember, Waiting
  <2>3. CASE /\ member'[w].at = "work" /\ member'[w].until = member[w].until
             /\ member'[w].asked = member[w].asked
    BY <1>1, <2>1, <2>3 DEF Asking, Deadline, Waiting
  <2>4. QED
    BY <1>3, <2>2, <2>3
<1>8. Countdown(w)'
  BY <1>4 DEF Countdown
<1>9. QED
  BY <1>0, <1>1, <1>3, <1>4, <1>5, <1>6, <1>7, <1>8 DEF WaitInv, Typed

(* The clock passes no deadline of a member that waits. *)
LEMMA TickStep ==
    ASSUME WaitInv, TypeOK, WTick
    PROVE  WaitInv'
<1>0. now \in Nat /\ now >= 1 /\ member \in [Workers -> Members] /\ PerMemberTimeout \in Nat
  BY WaitConstants DEF TypeOK, WaitInv, Typed
<1>1. now' = now + 1 /\ UNCHANGED <<member, blocked, keysRecoverAt>>
  BY DEF WTick, Tick, waitVars
<1>2. ASSUME NEW x \in Workers
      PROVE  Asking(x)' /\ Deadline(x)' /\ Countdown(x)'
  <2>1. /\ member[x].at \notin {"ask", "mark", "leave"}
        /\ member[x].at = "sleep" => now < member[x].until
    BY DEF WTick
  <2>2. member[x].until \in Nat /\ member[x].asked \in Nat /\ member[x].alarm \in Nat
    BY <1>0 DEF Members
  <2>3. Asking(x) /\ Deadline(x) /\ Countdown(x)
    BY DEF WaitInv
  <2>4. Asking(x)'
    BY <1>0, <1>1, <2>1, <2>2, <2>3 DEF Asking
  <2>5. Deadline(x)'
    BY <1>0, <1>1, <2>1, <2>2, <2>3 DEF Deadline, Waiting
  <2>6. Countdown(x)'
    BY <1>1, <2>3 DEF Countdown
  <2>7. QED
    BY <2>4, <2>5, <2>6
<1>3. QED
  BY <1>0, <1>1, <1>2 DEF WaitInv, Typed

(* One step per action. *)
LEMMA WaitInvStep ==
    ASSUME WaitInv, TypeOK, PublishedInForce, [WNext]_allVars
    PROVE  WaitInv'
<1>1. CASE PoolStep \/ UNCHANGED allVars
  <2>1. UNCHANGED <<now, member, blocked, keysRecoverAt>>
    BY <1>1 DEF PoolStep, LoadRows, ProbeNext, RetryProbes, Publish, AddEnvKey, WriteForbidden,
                ReconcileStart, ReconcileKey, envVars, waitVars, allVars, vars
  <2>2. QED
    BY <2>1 DEF WaitInv, Typed, Asking, Deadline, Countdown
<1>2. QED
  BY <1>1, StartStep, AskStep, MarkStep, WakeStep, LeaveStep, TickStep DEF WNext

(* WaitInv holds in every state of the workers and their pool. *)
THEOREM WaitersInvariant == WSpec => []WaitInv
<1>1. WInit => WaitInv
  <2> SUFFICES ASSUME WInit PROVE WaitInv
    OBVIOUS
  <2>1. /\ now = 1 /\ member = [w \in Workers |-> NoMember] /\ blocked = {}
        /\ keysRecoverAt = 0 /\ PerMemberTimeout \in Nat
    BY WaitConstants DEF WInit, Init, ZeroTime
  <2>2. NoMember \in Members /\ \A w \in Workers : member[w] = NoMember
    BY <2>1 DEF NoMember, Members, Steps
  <2>3. \A w \in Workers : Asking(w) /\ Deadline(w) /\ Countdown(w)
    BY <2>1, <2>2 DEF NoMember, Asking, Deadline, Countdown, Waiting
  <2>4. QED
    BY <2>1, <2>2, <2>3 DEF WaitInv, Typed
<1>2. WaitInv /\ TypeOK /\ PublishedInForce /\ [WNext]_allVars => WaitInv'
  BY WaitInvStep
<1>3. QED
  BY <1>1, <1>2, PoolHolds, PTL DEF WSpec

(* However many members come and go, the countdown /progress shows has not run
   out for longer than one member may wait. *)
THEOREM CountdownAlwaysRecent == WSpec => []CountdownIsRecent
<1>1. WaitInv /\ TypeOK => CountdownIsRecent
  <2> SUFFICES ASSUME WaitInv, TypeOK, NEW w \in blocked, keysRecoverAt # ZeroTime
               PROVE  now <= keysRecoverAt + PerMemberTimeout
    BY DEF CountdownIsRecent
  <2>1. w \in Workers /\ member[w] \in Members
    BY DEF WaitInv, Typed
  <2>2. now <= member[w].until /\ member[w].until <= keysRecoverAt + PerMemberTimeout
    BY <2>1 DEF WaitInv, Deadline, Countdown
  <2>3. now \in Nat /\ member[w].until \in Nat /\ keysRecoverAt \in Nat /\ PerMemberTimeout \in Nat
    BY <2>1, WaitConstants DEF TypeOK, WaitInv, Typed, Members
  <2>4. QED
    BY <2>2, <2>3
<1>2. QED
  BY <1>1, WaitersInvariant, PoolHolds, PTL

(* A worker that waits never spins: between two calls of Acquire for a member
   the clock has moved, whatever time Acquire names. *)
THEOREM NeverHotLoop == WSpec => []NoHotLoop
<1>1. WaitInv => NoHotLoop
  BY DEF WaitInv, Asking, NoHotLoop
<1>2. QED
  BY <1>1, WaitersInvariant, PTL
================================================================================
