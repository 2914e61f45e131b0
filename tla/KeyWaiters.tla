------------------------------ MODULE KeyWaiters ------------------------------
(* The pool and the sync workers that wait for it: waitForKey
   (service/memo/service.go) on top of KeyPool, with the part of stateStore
   (service/memo/status.go) that /progress shows of it.

   FlushStats, which touches nothing that Acquire looks at, and crashes are
   left to KeyPool's own runs. A worker that is ready to move does so before
   the clock ticks; calls to FFLogs may take any time. *)
EXTENDS KeyPool

CONSTANTS
    PerMemberTimeout,   \* a member's deadline, from its start
    RetryAfter,         \* the wait when the reset is no later than now
    MaxWait             \* the ceiling of a wait

ASSUME WaitConstants ==
    /\ PerMemberTimeout \in Nat \ {0}
    /\ RetryAfter \in Nat \ {0}
    /\ MaxWait \in Nat \ {0}

VARIABLES
    member,         \* each worker's step, its deadline, what Acquire told it,
                    \* its timer, and when it last asked (0: not for this member)
    blocked,        \* the workers with blockedOnce: waitingCount is their number
    keysRecoverAt   \* stateStore.keysRecoverAt

waitVars == <<member, blocked, keysRecoverAt>>
allVars  == <<vars, waitVars>>

Steps == {"idle", "ask", "mark", "sleep", "leave", "work"}

NoMember == [at |-> "idle", until |-> 0, resetAt |-> 0, alarm |-> 0, asked |-> 0]

WInit ==
    /\ Init
    /\ member = [w \in Workers |-> NoMember]
    /\ blocked = {}
    /\ keysRecoverAt = ZeroTime

StartMember(w) ==
    /\ phase = "running"
    /\ member[w].at = "idle" /\ forbidding[w] = None
    /\ member' = [member EXCEPT ![w] =
                    [NoMember EXCEPT !.at = "ask", !.until = now + PerMemberTimeout]]
    /\ UNCHANGED <<vars, blocked, keysRecoverAt>>

(* Acquire answers with a lease, or with the time to wait for. *)
Ask(w) ==
    /\ member[w].at = "ask"
    /\ Acquire(w)
    /\ member' = [member EXCEPT
                    ![w].asked = now,
                    ![w].at = IF lease'[w] # None THEN "leave" ELSE "mark",
                    ![w].resetAt = IF lease'[w] # None THEN @ ELSE NextReset]
    /\ UNCHANGED <<blocked, keysRecoverAt>>

RecoverAtOfFirst(w) ==               \* mutant: only the first waiter's time is kept
    IF blocked = {} THEN member[w].resetAt ELSE keysRecoverAt

(* markWaitingForKeys(+1, resetAt) *)
RecoverAt(w) == member[w].resetAt

WaitUncushioned(resetAt) ==          \* mutant: no floor under the wait
    Min({Larger(resetAt - now, 0), MaxWait})

Wait(resetAt) ==
    IF resetAt <= now THEN RetryAfter ELSE Min({resetAt - now, MaxWait})

(* The first time a member has to wait it is counted; each time it sleeps. *)
MarkAndSleep(w) ==
    /\ member[w].at = "mark"
    /\ IF w \in blocked
       THEN UNCHANGED <<blocked, keysRecoverAt>>
       ELSE /\ blocked' = blocked \cup {w}
            /\ keysRecoverAt' = RecoverAt(w)
    /\ member' = [member EXCEPT ![w].at = "sleep",
                                ![w].alarm = now + Wait(member[w].resetAt)]
    /\ UNCHANGED vars

Wake(w) ==
    /\ member[w].at = "sleep" /\ now >= member[w].alarm
    /\ member' = [member EXCEPT ![w].at = "ask"]
    /\ UNCHANGED <<vars, blocked, keysRecoverAt>>

GiveUp(w) ==
    /\ member[w].at = "sleep" /\ now >= member[w].until
    /\ member' = [member EXCEPT ![w].at = "leave"]
    /\ UNCHANGED <<vars, blocked, keysRecoverAt>>

(* waitForKey returns; its deferred markWaitingForKeys(-1) runs. *)
Leave(w) ==
    /\ member[w].at = "leave"
    /\ blocked' = blocked \ {w}
    /\ keysRecoverAt' = IF blocked = {w} THEN ZeroTime ELSE keysRecoverAt
    /\ member' = [member EXCEPT ![w] = IF lease[w] = None THEN NoMember
                                       ELSE [@ EXCEPT !.at = "work"]]
    /\ UNCHANGED vars

(* The member is done with its lease, in any of KeyPool's ways. *)
EndWork(w) ==
    /\ member[w].at = "work"
    /\ \/ \E n \in 0..MaxZones : Release(w, n)
       \/ Drop(w)
       \/ \E e \in Failures : MarkError(w, Classify(e))
    /\ member' = [member EXCEPT ![w] = NoMember]
    /\ UNCHANGED <<blocked, keysRecoverAt>>

(* No worker that could move is passed over by the clock. *)
WTick ==
    /\ \A w \in Workers :
          /\ member[w].at \notin {"ask", "mark", "leave"}
          /\ member[w].at = "sleep" => now < member[w].alarm /\ now < member[w].until
    /\ Tick
    /\ UNCHANGED waitVars

(* The rest of KeyPool: the start-up, forbidInDB and Reconcile. A process that
   finds no key and exits has no workers. *)
PoolStep ==
    /\ \/ LoadRows \/ ProbeNext \/ RetryProbes \/ Publish \/ AddEnvKey
       \/ \E w \in Workers : WriteForbidden(w)
       \/ ReconcileStart \/ \E k \in due : ReconcileKey(k)
    /\ UNCHANGED waitVars

WNext ==
    \/ \E w \in Workers :
          \/ StartMember(w) \/ Ask(w) \/ MarkAndSleep(w)
          \/ Wake(w) \/ GiveUp(w) \/ Leave(w) \/ EndWork(w)
    \/ WTick
    \/ PoolStep

WSpec == WInit /\ [][WNext]_allVars

--------------------------------------------------------------------------------

(* The countdown /progress shows may have run out, but by no more than the time
   a member waits: it is renewed as long as members keep coming to wait, whoever
   else leaves or stays (status.go:86-95 with service.go:383-400). *)
CountdownIsRecent ==
    blocked # {} /\ keysRecoverAt # ZeroTime =>
        now <= keysRecoverAt + PerMemberTimeout

(* A worker asks the pool at most once per instant for a member, even at the
   very reset, when Acquire names a time that has come and yet has no key, and
   when every key is disabled and it names none at all (service.go:402-405). *)
NoHotLoop ==
    \A w \in Workers : member[w].at = "ask" => member[w].asked < now
================================================================================
