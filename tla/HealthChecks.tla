---------------------------- MODULE HealthChecks ----------------------------
(***************************************************************************)
(* GET /status and /status/ready (src/api/status.go): runChecks starts one *)
(* goroutine per dependency, each with a timeout of its own under the      *)
(* request's context, and collects their results from a channel.           *)
(*                                                                         *)
(* The dependencies are seen from outside: one that is up answers a ping   *)
(* at once, one that is down refuses it, one that is stuck lets it hang.   *)
(* A context that is done ends a hanging ping only where the client looks  *)
(* at it: go-redis, without the ContextTimeoutEnabled that InitRedis does  *)
(* not set, looks between two attempts and sits out the read it is in.     *)
(* Time passes only when no goroutine can run and no timer is due.         *)
(***************************************************************************)
EXTENDS Integers, Sequences, FiniteSets

CONSTANTS
  Deps,                (* "database" and "redis"                           *)
  HealthProbeTimeout,
  Deaf,                (* those whose client does not look at its context  *)
                       (* while it reads: "redis"                          *)
  ReadTimeout,         (* of such a client, for one attempt                *)
  MaxTime,             (* bound on the clock                               *)
  MaxTurns             (* bound on the changes of a dependency's health    *)

ASSUME HealthConstants ==
  /\ IsFiniteSet(Deps) /\ Deps # {}
  /\ Deaf \subseteq Deps
  /\ HealthProbeTimeout \in Nat \ {0} /\ ReadTimeout \in Nat \ {0}
  /\ MaxTime \in Nat /\ MaxTurns \in Nat

VARIABLES
  now,       (* clock                                                      *)
  health,    (* what each dependency is doing                              *)
  turns,     (* changes of it so far                                       *)
  handler,   (* where the request's handler is                             *)
  gone,      (* the client has gone: the request's context is cancelled    *)
  probe,     (* where each probe's goroutine is                            *)
  deadline,  (* of each probe's context                                    *)
  readEnds,  (* when each probe's client looks at its context next         *)
  out,       (* the channel of results                                     *)
  checks,    (* the results collected so far                               *)
  began,     (* history: when the request began                            *)
  steady     (* history: dependencies that have been up all through it     *)

requestVars == <<handler, gone, checks, began>>
vars == <<now, health, turns, requestVars, probe, deadline, readEnds, out, steady>>

Results == [dep : Deps, ok : BOOLEAN]

(* Types; and while results are collected every dependency has a goroutine *)
(* or one result, in the channel or taken from it, and never both.         *)
TypeOK ==
  /\ now \in 0..MaxTime /\ turns \in 0..MaxTurns /\ began \in 0..MaxTime
  /\ health \in [Deps -> {"up", "down", "stuck"}]
  /\ handler \in {"none", "collecting", "answered"} /\ gone \in BOOLEAN
  /\ probe \in [Deps -> {"none", "spawned", "pinging"}]
  /\ deadline \in [Deps -> Nat] /\ readEnds \in [Deps -> Nat]
  /\ out \in Seq(Results) /\ checks \subseteq Results
  /\ steady \subseteq Deps
  /\ handler = "collecting" =>
       Cardinality({d \in Deps : probe[d] # "none"}) + Len(out) + Cardinality(checks)
         = Cardinality(Deps)

Init ==
  /\ now = 0 /\ turns = 0 /\ health \in [Deps -> {"up", "down", "stuck"}]
  /\ handler = "none" /\ gone = FALSE /\ checks = {} /\ began = 0
  /\ probe = [d \in Deps |-> "none"] /\ deadline = [d \in Deps |-> 0]
  /\ readEnds = [d \in Deps |-> 0] /\ out = <<>> /\ steady = {}

-----------------------------------------------------------------------------

(* Status or StatusReady is called: runChecks spawns the probes.           *)
Request ==
  /\ handler # "collecting"
  /\ now + HealthProbeTimeout + ReadTimeout <= MaxTime    \* the bound leaves it its time
  /\ handler' = "collecting" /\ gone' = FALSE /\ checks' = {} /\ began' = now
  /\ probe' = [d \in Deps |-> "spawned"]
  /\ steady' = {d \in Deps : health[d] = "up"}
  /\ UNCHANGED <<now, health, turns, deadline, readEnds, out>>

(* Its goroutine runs: context.WithTimeout, and the ping goes out, unless  *)
(* the context is done already.                                            *)
CanStart(d) == probe[d] = "spawned"

StartProbe(d) ==
  /\ CanStart(d)
  /\ probe' = [probe EXCEPT ![d] = "pinging"]
  /\ deadline' = [deadline EXCEPT ![d] = now + HealthProbeTimeout]
  /\ readEnds' = [readEnds EXCEPT ![d] = IF d \in Deaf /\ ~gone THEN now + ReadTimeout ELSE now]
  /\ UNCHANGED <<now, health, turns, requestVars, out, steady>>

(* Mutant for AnswersInTime: the probes run under the request's context.   *)
ContextDoneWithParent(d) == gone

(* Mutant for SteadyIsReported: the probes are a group with one context,   *)
(* which the first failure cancels.                                        *)
ContextDoneWithGroup(d) == gone \/ now >= deadline[d] \/ \E r \in checks : ~r.ok

ContextDone(d) == gone \/ now >= deadline[d]

(* A read has run out, and the client tries again while it has time.       *)
CanRetry(d) ==
  d \in Deaf /\ probe[d] = "pinging" /\ now >= readEnds[d] /\ ~ContextDone(d)

RetryPing(d) ==
  /\ CanRetry(d)
  /\ readEnds' = [readEnds EXCEPT ![d] = now + ReadTimeout]
  /\ UNCHANGED <<now, health, turns, requestVars, probe, deadline, out, steady>>

(* The ping returns, with the dependency's answer or, once its client has  *)
(* looked, the context's error; the channel has room for both results.     *)
CanEnd(d, ok) ==
  /\ probe[d] = "pinging"
  /\ IF ok THEN health[d] = "up"
     ELSE health[d] = "down" \/ (ContextDone(d) /\ now >= readEnds[d])
  /\ Len(out) < Cardinality(Deps)

(* Mutant for TypeOK: a timeout is reported and the ping reports as well.  *)
EndProbeTwice(d, ok) ==
  /\ CanEnd(d, ok)
  /\ out' = Append(out, [dep |-> d, ok |-> ok])
  /\ probe' = [probe EXCEPT ![d] = IF ok \/ health[d] = "down" THEN "none" ELSE @]
  /\ UNCHANGED <<now, health, turns, requestVars, deadline, readEnds, steady>>

EndProbe(d, ok) ==
  /\ CanEnd(d, ok)
  /\ out' = Append(out, [dep |-> d, ok |-> ok])
  /\ probe' = [probe EXCEPT ![d] = "none"]
  /\ UNCHANGED <<now, health, turns, requestVars, deadline, readEnds, steady>>

(* runChecks takes a result; with the last one the handler answers.        *)
CanCollect == handler = "collecting" /\ out # <<>>

Collect ==
  /\ CanCollect
  /\ checks' = checks \cup {Head(out)}
  /\ out' = Tail(out)
  /\ handler' = IF Cardinality(checks') = Cardinality(Deps) THEN "answered" ELSE handler
  /\ UNCHANGED <<now, health, turns, gone, began, probe, deadline, readEnds, steady>>

(* What the handler answers: 200 or 503.                                   *)
AllOK == \A r \in checks : r.ok

-----------------------------------------------------------------------------

(* The client, kubelet for one, gives up first.                            *)
Leave ==
  /\ handler = "collecting" /\ ~gone
  /\ gone' = TRUE
  /\ UNCHANGED <<now, health, turns, handler, checks, began, probe, deadline, readEnds, out,
                 steady>>

(* A dependency's health changes.                                          *)
Turn(d) ==
  /\ turns < MaxTurns /\ turns' = turns + 1
  /\ health' \in [Deps -> {"up", "down", "stuck"}]
  /\ \A e \in Deps \ {d} : health'[e] = health[e]
  /\ steady' = IF health'[d] = "up" THEN steady ELSE steady \ {d}
  /\ UNCHANGED <<now, requestVars, probe, deadline, readEnds, out>>

Running ==
  \/ \E d \in Deps : StartProbe(d) \/ RetryPing(d) \/ \E ok \in BOOLEAN : EndProbe(d, ok)
  \/ Collect

(* No goroutine can run and no timer is due.                               *)
Quiet ==
  /\ \A d \in Deps : ~CanStart(d) /\ ~CanRetry(d) /\ \A ok \in BOOLEAN : ~CanEnd(d, ok)
  /\ ~CanCollect

Tick ==
  /\ now < MaxTime /\ Quiet
  /\ now' = now + 1
  /\ UNCHANGED <<health, turns, requestVars, probe, deadline, readEnds, out, steady>>

Next == Request \/ Running \/ Leave \/ Tick \/ \E d \in Deps : Turn(d)

Spec == Init /\ [][Next]_vars

(* Goroutines that can run do, and the clock moves on while one waits.     *)
FairSpec == Spec /\ WF_vars(Running) /\ WF_vars(Tick)

-----------------------------------------------------------------------------
(* Properties.                                                             *)

(* "a slow DB ping over WG could starve the redis check and surface as a   *)
(* false dual-failure" (status.go:84) -- no more: whatever happens to the  *)
(* other one, a dependency that was up all through the request is reported *)
(* as such, unless the client itself went away.                            *)
SteadyIsReported ==
  handler = "answered" /\ ~gone => \A r \in checks : r.dep \in steady => r.ok

(* The answer waits for the slowest probe, not for their sum, even if all  *)
(* dependencies hang: a probe whose client heeds its context is over at    *)
(* its deadline, and one in a read it cannot leave at most one read later  *)
(* -- so that the 5 s of status.go:15 are close to 6 for Redis.  The       *)
(* answer speaks of each dependency once, and no probe of an answered      *)
(* request is left behind to answer the next one.                          *)
AnswersInTime ==
  /\ handler = "collecting" => now - began < HealthProbeTimeout + ReadTimeout
  /\ \A d \in Deps \ Deaf : probe[d] = "pinging" => now <= began + HealthProbeTimeout
  /\ handler = "answered" => /\ {r.dep : r \in checks} = Deps
                             /\ out = <<>> /\ \A d \in Deps : probe[d] = "none"

(* "healthProbeTimeout caps one dep probe" (status.go:15).  The code breaks *)
(* this: the read Redis' client is in outlives the probe's context.        *)
ProbeIsCapped == \A d \in Deps : probe[d] = "pinging" => now <= deadline[d]

(* A request that has begun is answered: the handler, the probes and the   *)
(* channel do not wait for each other for ever.                            *)
RequestAnswered == handler = "collecting" ~> handler = "answered"
=============================================================================
