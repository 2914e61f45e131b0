------------------------- MODULE HealthChecksProofs -------------------------
(***************************************************************************)
(* What /status and /status/ready promise, for any number of dependencies  *)
(* and any timeout: the answer is complete, comes in time, and one         *)
(* dependency's trouble is never reported as another's.                    *)
(*                                                                         *)
(* The invariant says where each dependency's result is (Places), when the *)
(* probes started and end (Timely), and that a dependency which has been   *)
(* up is never about to time out (Steady).                                 *)
(***************************************************************************)
EXTENDS HealthChecks, FiniteNats, SequenceTheorems

InChannel(d) == \E i \in DOMAIN out : out[i].dep = d
Collected(d) == \E r \in checks : r.dep = d

(* While results are collected, a dependency is being probed, or has its   *)
(* result in the channel, or has it collected; otherwise nothing is left.  *)
Places ==
  /\ IsFiniteSet(checks)
  /\ \A d \in Deps : InChannel(d) => probe[d] = "none" /\ ~Collected(d)
  /\ \A i, j \in DOMAIN out : out[i].dep = out[j].dep => i = j
  /\ IF handler = "collecting"
     THEN /\ \A d \in Deps : probe[d] = "none" => InChannel(d) \/ Collected(d)
          /\ \A d \in Deps : Collected(d) => probe[d] = "none"
          /\ Cardinality(checks) < Cardinality(Deps)
     ELSE /\ out = <<>> /\ \A d \in Deps : probe[d] = "none"
          /\ handler = "answered" => \A d \in Deps : Collected(d)

(* The probes all start in the instant the request begins; a read begins   *)
(* before the probe's deadline, and time does not pass its end or, where   *)
(* the client heeds its context, the deadline.                             *)
InRead(d) ==
  /\ deadline[d] = began + HealthProbeTimeout
  /\ IF d \in Deaf
     THEN now <= readEnds[d] /\ readEnds[d] < began + HealthProbeTimeout + ReadTimeout
     ELSE now <= deadline[d] /\ readEnds[d] <= now

Timely ==
  /\ handler = "collecting" => now - began < HealthProbeTimeout + ReadTimeout
  /\ \A d \in Deps : /\ probe[d] = "spawned" => now = began
                     /\ probe[d] = "pinging" => InRead(d)

(* A steady dependency's probe has time left, and its answer is good. *)
Steady ==
  /\ \A d \in steady : health[d] = "up" /\ (probe[d] = "pinging" => now < deadline[d])
  /\ ~gone => /\ \A r \in checks : r.dep \in steady => r.ok
              /\ \A i \in DOMAIN out : out[i].dep \in steady => out[i].ok

(* The inductive invariant. *)
IInv == TypeOK /\ Places /\ Timely /\ Steady

-----------------------------------------------------------------------------
(* The channel of results.                                                 *)

(* A result that is sent comes last and joins the others.                  *)
LEMMA SentJoins ==
  ASSUME out \in Seq(Results), NEW r \in Results, out' = Append(out, r)
  PROVE  /\ out' \in Seq(Results) /\ Len(out) \in Nat /\ Len(out') = Len(out) + 1
         /\ DOMAIN out' = DOMAIN out \cup {Len(out) + 1}
         /\ Len(out) + 1 \notin DOMAIN out
         /\ out'[Len(out) + 1] = r
         /\ \A i \in DOMAIN out : out'[i] = out[i]
<1>1. /\ out' \in Seq(Results) /\ Len(out') = Len(out) + 1 /\ out'[Len(out) + 1] = r
      /\ \A i \in 1..Len(out) : out'[i] = out[i]
  BY AppendProperties
<1>2. Len(out) \in Nat /\ DOMAIN out = 1..Len(out) /\ DOMAIN out' = 1..(Len(out) + 1)
  BY <1>1
<1> HIDE DEF Results
<1> QED BY <1>1, <1>2

(* The result taken is the first, and the others stay.                     *)
LEMMA TakenLeaves ==
  ASSUME out \in Seq(Results), out # <<>>, out' = Tail(out)
  PROVE  /\ out' \in Seq(Results) /\ Len(out) \in Nat /\ Len(out') = Len(out) - 1
         /\ Len(out') \in Nat
         /\ 1 \in DOMAIN out /\ Head(out) = out[1] /\ Head(out) \in Results
         /\ \A i \in DOMAIN out' : i + 1 \in DOMAIN out /\ out'[i] = out[i + 1] /\ i \in Nat \ {0}
         /\ \A i \in DOMAIN out \ {1} : i - 1 \in DOMAIN out' /\ out'[i - 1] = out[i]
<1>1. /\ out' \in Seq(Results) /\ Len(out') = Len(out) - 1 /\ Head(out) \in Results
      /\ \A i \in 1..Len(out') : out'[i] = out[i + 1]
  BY HeadTailProperties
<1>2. /\ Len(out) \in Nat /\ Len(out) # 0 /\ DOMAIN out = 1..Len(out) /\ Head(out) = out[1]
      /\ DOMAIN out' = 1..Len(out') /\ Len(out') \in Nat
  BY <1>1, EmptySeq
<1>3. ASSUME NEW i \in DOMAIN out \ {1}
      PROVE  i - 1 \in 1..Len(out') /\ (i - 1) + 1 = i
  BY <1>1, <1>2
<1>4. ASSUME NEW i \in DOMAIN out'
      PROVE  i + 1 \in DOMAIN out /\ i \in Nat \ {0}
  BY <1>1, <1>2
<1>5. \A i \in DOMAIN out \ {1} : i - 1 \in DOMAIN out' /\ out'[i - 1] = out[i]
  BY <1>1, <1>2, <1>3
<1>6. 1 \in DOMAIN out
  BY <1>2
<1> QED BY <1>1, <1>2, <1>4, <1>5, <1>6, Zenon

-----------------------------------------------------------------------------
(* One lemma for each action.                                              *)

(* A request starts from an empty channel and no probe of an earlier one. *)
LEMMA RequestStep ==
  ASSUME IInv, Request
  PROVE  IInv'
<1> USE DEF requestVars
<1>0. /\ IsFiniteSet(Deps) /\ Deps # {} /\ now \in Int /\ MaxTime \in Nat
      /\ HealthProbeTimeout \in Nat /\ ReadTimeout \in Nat \ {0}
  BY HealthConstants DEF IInv, TypeOK
<1>1. out' = <<>> /\ out = <<>> /\ checks' = {} /\ handler' = "collecting"
      /\ \A d \in Deps : probe'[d] = "spawned"
  BY DEF Request, IInv, Places
<1>2. Cardinality(Deps) \in Nat /\ Cardinality(Deps) # 0 /\ Cardinality({}) = 0 /\ IsFiniteSet({})
  BY <1>0, FS_EmptySet, FS_CardinalityType
<1>3. TypeOK'
  <2>1. {d \in Deps : probe'[d] # "none"} = Deps
    BY <1>1
  <2>2. Len(out') = 0
    BY <1>1
  <2>3. /\ Cardinality({d \in Deps : probe'[d] # "none"}) = Cardinality(Deps)
        /\ Cardinality(checks') = 0
    BY <1>1, <1>2, <2>1, Zenon
  <2>4. Cardinality({d \in Deps : probe'[d] # "none"}) + Len(out') + Cardinality(checks')
          = Cardinality(Deps)
    BY <1>2, <2>2, <2>3
  <2> QED BY <2>4 DEF Request, IInv, TypeOK
<1>4. Places'
  <2>1. Cardinality(checks') < Cardinality(Deps)
    BY <1>1, <1>2
  <2>2. DOMAIN out' = {}
    BY <1>1
  <2> QED BY <1>1, <1>2, <2>1, <2>2 DEF Places, InChannel, Collected
<1>5. Timely'
  BY <1>0, <1>1 DEF Request, Timely
<1>6. Steady'
  BY <1>1 DEF Request, Steady
<1> QED BY <1>3, <1>4, <1>5, <1>6 DEF IInv

(* A probe that starts does so at the instant its request began. *)
LEMMA StartStep ==
  ASSUME IInv, NEW d \in Deps, StartProbe(d)
  PROVE  IInv'
<1> USE DEF requestVars
<1>0. /\ probe \in [Deps -> {"none", "spawned", "pinging"}] /\ deadline \in [Deps -> Nat]
      /\ now \in Nat /\ HealthProbeTimeout \in Nat \ {0} /\ ReadTimeout \in Nat \ {0}
      /\ steady \subseteq Deps /\ readEnds \in [Deps -> Nat]
  BY HealthConstants DEF IInv, TypeOK
<1>1. /\ UNCHANGED <<now, health, handler, gone, checks, began, out, steady, turns>>
      /\ probe[d] = "spawned"
  BY DEF StartProbe, CanStart
<1>2. /\ probe'[d] = "pinging" /\ deadline'[d] = now + HealthProbeTimeout
      /\ \A e \in Deps \ {d} : probe'[e] = probe[e] /\ deadline'[e] = deadline[e]
      /\ probe' \in [Deps -> {"none", "spawned", "pinging"}] /\ deadline' \in [Deps -> Nat]
  BY <1>0 DEF StartProbe
<1>3. /\ readEnds'[d] = IF d \in Deaf /\ ~gone THEN now + ReadTimeout ELSE now
      /\ \A e \in Deps \ {d} : readEnds'[e] = readEnds[e]
      /\ readEnds' \in [Deps -> Nat]
  BY <1>0 DEF StartProbe
<1>4. \A e \in Deps : probe'[e] = "none" <=> probe[e] = "none"
  BY <1>1, <1>2
<1>5. TypeOK'
  <2>1. {e \in Deps : probe'[e] # "none"} = {e \in Deps : probe[e] # "none"}
    BY <1>4
  <2> QED BY <1>1, <1>2, <1>3, <2>1 DEF IInv, TypeOK
<1>6. Places'
  BY <1>1, <1>4 DEF IInv, Places, InChannel, Collected
<1>7. Timely'
  <2>1. now = began
    BY <1>1 DEF IInv, Timely
  <2>2. InRead(d)'
    BY <1>0, <1>1, <1>2, <1>3, <2>1 DEF InRead
  <2>3. \A e \in Deps \ {d} : InRead(e)' <=> InRead(e)
    BY <1>1, <1>2, <1>3 DEF InRead
  <2> QED BY <1>1, <1>2, <2>2, <2>3 DEF IInv, Timely
<1>8. Steady'
  <2>1. now < deadline'[d]
    BY <1>0, <1>2
  <2> QED BY <1>0, <1>1, <1>2, <2>1 DEF IInv, Steady
<1> QED BY <1>5, <1>6, <1>7, <1>8 DEF IInv

(* A client that tries again does so before the probe's deadline.          *)
LEMMA RetryStep ==
  ASSUME IInv, NEW d \in Deps, RetryPing(d)
  PROVE  IInv'
<1> USE DEF requestVars
<1>0. /\ deadline \in [Deps -> Nat] /\ readEnds \in [Deps -> Nat]
      /\ now \in Nat /\ HealthProbeTimeout \in Nat \ {0} /\ ReadTimeout \in Nat \ {0}
  BY HealthConstants DEF IInv, TypeOK
<1>1. /\ UNCHANGED <<now, health, handler, gone, checks, began, probe, deadline, out, steady,
                     turns>>
      /\ d \in Deaf /\ probe[d] = "pinging" /\ now < deadline[d]
  BY <1>0 DEF RetryPing, CanRetry, ContextDone
<1>2. /\ readEnds'[d] = now + ReadTimeout /\ readEnds' \in [Deps -> Nat]
      /\ \A e \in Deps \ {d} : readEnds'[e] = readEnds[e]
  BY <1>0 DEF RetryPing
<1>3. TypeOK'
  BY <1>1, <1>2 DEF IInv, TypeOK
<1>4. Places' /\ Steady'
  BY <1>1 DEF IInv, Places, Steady, InChannel, Collected
<1>5. Timely'
  <2>1. InRead(d) /\ began \in Nat
    BY <1>1 DEF IInv, Timely, TypeOK
  <2>2. InRead(d)'
    BY <1>0, <1>1, <1>2, <2>1 DEF InRead
  <2>3. \A e \in Deps \ {d} : InRead(e)' <=> InRead(e)
    BY <1>1, <1>2 DEF InRead
  <2> QED BY <1>1, <1>2, <2>2, <2>3 DEF IInv, Timely
<1> QED BY <1>3, <1>4, <1>5 DEF IInv

(* A dependency that has been up does not fail its probe while the client  *)
(* is there.                                                               *)
LEMMA EndStep ==
  ASSUME IInv, NEW d \in Deps, NEW ok \in BOOLEAN, EndProbe(d, ok)
  PROVE  IInv'
<1> USE DEF requestVars
<1> DEFINE r == [dep |-> d, ok |-> ok]
           P == {e \in Deps : probe[e] # "none"}
<1>0. /\ probe \in [Deps -> {"none", "spawned", "pinging"}] /\ deadline \in [Deps -> Nat]
      /\ now \in Nat /\ steady \subseteq Deps /\ out \in Seq(Results) /\ checks \subseteq Results
      /\ IsFiniteSet(Deps)
  BY HealthConstants DEF IInv, TypeOK
<1>1. /\ UNCHANGED <<now, health, handler, gone, checks, began, deadline, readEnds, steady, turns>>
      /\ probe[d] = "pinging" /\ out' = Append(out, r)
      /\ probe'[d] = "none" /\ \A e \in Deps \ {d} : probe'[e] = probe[e]
      /\ probe' \in [Deps -> {"none", "spawned", "pinging"}]
  BY <1>0 DEF EndProbe, CanEnd
<1>2. r \in Results /\ r.dep = d /\ r.ok = ok
  BY DEF Results
<1> HIDE DEF r
<1>3. /\ out' \in Seq(Results) /\ Len(out) \in Nat /\ Len(out') = Len(out) + 1
      /\ DOMAIN out' = DOMAIN out \cup {Len(out) + 1}
      /\ Len(out) + 1 \notin DOMAIN out
      /\ out'[Len(out) + 1] = r
      /\ \A i \in DOMAIN out : out'[i] = out[i]
  BY <1>0, <1>1, <1>2, SentJoins
<1>4. handler = "collecting"
  BY <1>1 DEF IInv, Places
<1>5. TypeOK'
  <2>1. {e \in Deps : probe'[e] # "none"} = P \ {d} /\ d \in P
    BY <1>1
  <2>2. IsFiniteSet(P)
    BY <1>0, FS_Subset
  <2>3. Cardinality(P \ {d}) = Cardinality(P) - 1 /\ Cardinality(P) \in Nat
    <3> HIDE DEF P
    <3> QED BY <2>1, <2>2, OneLess, FS_CardinalityType
  <2>4. Cardinality(P) + Len(out) + Cardinality(checks) = Cardinality(Deps)
    BY <1>4 DEF IInv, TypeOK
  <2>5. Cardinality(checks) \in Nat
    BY FS_CardinalityType DEF IInv, Places
  <2>6. Cardinality(P \ {d}) + (Len(out) + 1) + Cardinality(checks) = Cardinality(Deps)
    <3> HIDE DEF P
    <3> QED BY <1>3, <2>3, <2>4, <2>5
  <2>7. Cardinality({e \in Deps : probe'[e] # "none"}) + Len(out') + Cardinality(checks')
          = Cardinality(Deps)
    BY <1>1, <1>3, <2>1, <2>6
  <2> QED BY <1>1, <1>3, <2>7 DEF IInv, TypeOK
<1> HIDE DEF P
<1>6. Places'
  <2>1. ~Collected(d) /\ ~InChannel(d)
    BY <1>1, <1>4 DEF IInv, Places
  <2>2. \A e : InChannel(e)' <=> InChannel(e) \/ e = d
    BY <1>2, <1>3 DEF InChannel
  <2>3. \A e : Collected(e)' <=> Collected(e)
    BY <1>1 DEF Collected
  <2>4. \A i, j \in DOMAIN out' : out'[i].dep = out'[j].dep => i = j
    BY <1>2, <1>3, <2>1 DEF InChannel, IInv, Places
  <2>5. \A e \in Deps : InChannel(e)' => probe'[e] = "none" /\ ~Collected(e)'
    BY <1>1, <2>1, <2>2, <2>3 DEF IInv, Places
  <2>6. \A e \in Deps : probe'[e] = "none" => InChannel(e)' \/ Collected(e)'
    BY <1>1, <1>4, <2>2, <2>3 DEF IInv, Places
  <2>7. \A e \in Deps : Collected(e)' => probe'[e] = "none"
    BY <1>1, <1>4, <2>3 DEF IInv, Places
  <2>8. IsFiniteSet(checks') /\ Cardinality(checks') < Cardinality(Deps)
    BY <1>1, <1>4 DEF IInv, Places
  <2> QED BY <1>1, <1>4, <2>4, <2>5, <2>6, <2>7, <2>8, Zenon DEF Places
<1>7. Timely'
  BY <1>1 DEF IInv, Timely, InRead
<1>8. Steady'
  <2>1. ASSUME ~gone, d \in steady
        PROVE  ok
    <3>1. health[d] = "up" /\ now < deadline[d]
      BY <1>1, <2>1 DEF IInv, Steady
    <3>2. ~(now >= deadline[d])
      BY <1>0, <3>1
    <3> QED BY <2>1, <3>1, <3>2 DEF EndProbe, CanEnd, ContextDone
  <2>2. \A e \in steady : health'[e] = "up" /\ (probe'[e] = "pinging" => now < deadline[e])
    BY <1>0, <1>1 DEF IInv, Steady
  <2> QED BY <1>1, <1>2, <1>3, <2>1, <2>2 DEF IInv, Steady
<1> QED BY <1>5, <1>6, <1>7, <1>8 DEF IInv

(* The last result is there when as many are collected as there are        *)
(* dependencies: none was counted twice.                                   *)
LEMMA CollectStep ==
  ASSUME IInv, Collect
  PROVE  IInv'
<1> DEFINE h == Head(out)
           P == {e \in Deps : probe[e] # "none"}
<1>0. /\ probe \in [Deps -> {"none", "spawned", "pinging"}]
      /\ out \in Seq(Results) /\ checks \subseteq Results
      /\ IsFiniteSet(Deps) /\ IsFiniteSet(checks)
  BY HealthConstants DEF IInv, TypeOK, Places
<1>1. /\ UNCHANGED <<now, health, gone, began, probe, deadline, readEnds, steady, turns>>
      /\ handler = "collecting" /\ out # <<>> /\ out' = Tail(out)
      /\ checks' = checks \cup {h}
      /\ handler' = IF Cardinality(checks') = Cardinality(Deps) THEN "answered" ELSE handler
  BY DEF Collect, CanCollect
<1>2. /\ out' \in Seq(Results) /\ Len(out) \in Nat /\ Len(out') = Len(out) - 1
      /\ Len(out') \in Nat
      /\ 1 \in DOMAIN out /\ h = out[1] /\ h \in Results
      /\ \A i \in DOMAIN out' : i + 1 \in DOMAIN out /\ out'[i] = out[i + 1] /\ i \in Nat \ {0}
      /\ \A i \in DOMAIN out \ {1} : i - 1 \in DOMAIN out' /\ out'[i - 1] = out[i]
  BY <1>0, <1>1, TakenLeaves
<1> HIDE DEF h
<1>3. h.dep \in Deps /\ InChannel(h.dep) /\ ~Collected(h.dep) /\ probe[h.dep] = "none"
      /\ h \notin checks
  <2>1. h.dep \in Deps
    BY <1>2 DEF Results
  <2>2. InChannel(h.dep)
    BY <1>2, Zenon DEF InChannel
  <2> QED BY <2>1, <2>2, Zenon DEF IInv, Places, Collected
<1>4. \A i \in DOMAIN out' : out'[i].dep # h.dep
  <2>1. ASSUME NEW i \in DOMAIN out', out'[i].dep = h.dep
        PROVE  FALSE
    <3>1. i + 1 \in DOMAIN out /\ out[i + 1].dep = out[1].dep /\ i \in Nat \ {0}
      BY <1>2, <2>1
    <3>2. i + 1 = 1
      BY <1>2, <3>1, Zenon DEF IInv, Places
    <3> QED BY <3>1, <3>2
  <2> QED BY <2>1
<1>5. \A e : InChannel(e)' => InChannel(e) /\ e # h.dep
  BY <1>2, <1>4, Zenon DEF InChannel
<1>6. \A e : InChannel(e) => InChannel(e)' \/ e = h.dep
  <2>1. ASSUME NEW e, NEW i \in DOMAIN out, out[i].dep = e
        PROVE  InChannel(e)' \/ e = h.dep
    <3>1. CASE i = 1
      BY <1>2, <2>1, <3>1, Zenon
    <3>2. CASE i # 1
      <4>1. i - 1 \in DOMAIN out' /\ out'[i - 1] = out[i]
        BY <1>2, <3>2, Zenon
      <4> QED BY <2>1, <4>1, Zenon DEF InChannel
    <3> QED BY <3>1, <3>2
  <2> QED BY <2>1, Zenon DEF InChannel
<1>7. \A e : Collected(e)' <=> Collected(e) \/ e = h.dep
  BY <1>1, Zenon DEF Collected
<1>8. /\ Cardinality(checks') = Cardinality(checks) + 1 /\ Cardinality(checks) \in Nat
      /\ IsFiniteSet(checks') /\ IsFiniteSet(P) /\ Cardinality(P) \in Nat
  <2>1. IsFiniteSet(P)
    BY <1>0, FS_Subset
  <2> HIDE DEF P
  <2> QED BY <1>0, <1>1, <1>3, <2>1, OneMore, FS_AddElement, FS_CardinalityType
<1>9. Cardinality(P) + Len(out) + Cardinality(checks) = Cardinality(Deps)
  BY <1>1 DEF IInv, TypeOK
<1>10. Cardinality(P) + Len(out') + Cardinality(checks') = Cardinality(Deps)
  <2> HIDE DEF P
  <2> QED BY <1>2, <1>8, <1>9
<1>11. TypeOK'
  <2>1. P = {e \in Deps : probe'[e] # "none"} /\ checks' \subseteq Results
    BY <1>0, <1>1, <1>2
  <2> QED BY <1>1, <1>2, <1>10, <2>1 DEF IInv, TypeOK
<1>12. Places'
  <2>1. \A i, j \in DOMAIN out' : out'[i].dep = out'[j].dep => i = j
    <3>1. ASSUME NEW i \in DOMAIN out', NEW j \in DOMAIN out', out'[i].dep = out'[j].dep
          PROVE  i = j
      <4>1. /\ i + 1 \in DOMAIN out /\ j + 1 \in DOMAIN out /\ i \in Nat /\ j \in Nat
            /\ out[i + 1].dep = out[j + 1].dep
        BY <1>2, <3>1
      <4>2. i + 1 = j + 1
        BY <4>1, Zenon DEF IInv, Places
      <4> QED BY <4>1, <4>2
    <3> QED BY <3>1
  <2>2. \A e \in Deps : InChannel(e)' => probe'[e] = "none" /\ ~Collected(e)'
    BY <1>1, <1>5, <1>7, Zenon DEF IInv, Places
  <2>3. \A e \in Deps : probe'[e] = "none" => InChannel(e)' \/ Collected(e)'
    <3>1. \A e \in Deps : probe[e] = "none" => InChannel(e) \/ Collected(e)
      BY <1>1, Zenon DEF IInv, Places
    <3> QED BY <1>1, <1>6, <1>7, <3>1, Zenon
  <2>4. \A e \in Deps : Collected(e)' => probe'[e] = "none"
    <3>1. \A e \in Deps : Collected(e) => probe[e] = "none"
      BY <1>1, Zenon DEF IInv, Places
    <3> QED BY <1>1, <1>3, <1>7, <3>1, Zenon
  <2>5. CASE Cardinality(checks') = Cardinality(Deps)
    <3>1. Cardinality(P) = 0 /\ Len(out') = 0
      <4> HIDE DEF P
      <4> QED BY <1>2, <1>8, <1>10, <2>5
    <3>2. P = {}
      <4> HIDE DEF P
      <4> QED BY <1>8, <3>1, FS_EmptySet
    <3>3. out' = <<>>
      BY <1>2, <3>1, EmptySeq
    <3>4. \A e \in Deps : probe'[e] = "none" /\ ~InChannel(e)'
      <4>1. DOMAIN out' = {}
        BY <3>3
      <4>2. \A e \in Deps : probe'[e] = "none"
        BY <1>1, <3>2
      <4> QED BY <4>1, <4>2, Zenon DEF InChannel
    <3>5. \A e \in Deps : Collected(e)'
      BY <2>3, <3>4, Zenon
    <3>6. handler' = "answered"
      BY <1>1, <2>5
    <3> QED BY <1>8, <2>1, <2>2, <3>3, <3>4, <3>5, <3>6, Zenon DEF Places
  <2>6. CASE Cardinality(checks') # Cardinality(Deps)
    <3>1. Cardinality(checks') < Cardinality(Deps)
      <4> HIDE DEF P
      <4> QED BY <1>2, <1>8, <1>10, <2>6
    <3>2. handler' = "collecting"
      BY <1>1, <2>6
    <3> QED BY <1>8, <2>1, <2>2, <2>3, <2>4, <3>1, <3>2, Zenon DEF Places
  <2> QED BY <2>5, <2>6
<1>13. Timely'
  BY <1>1 DEF IInv, Timely, InRead
<1>14. Steady'
  <2>1. ASSUME ~gone
        PROVE  /\ \A r \in checks' : r.dep \in steady => r.ok
               /\ \A i \in DOMAIN out' : out'[i].dep \in steady => out'[i].ok
    <3>1. /\ \A r \in checks : r.dep \in steady => r.ok
          /\ \A i \in DOMAIN out : out[i].dep \in steady => out[i].ok
      BY <2>1, Zenon DEF IInv, Steady
    <3> QED BY <1>1, <1>2, <3>1, Zenon
  <2>2. \A e \in steady : health'[e] = "up" /\ (probe'[e] = "pinging" => now' < deadline'[e])
    BY <1>1 DEF IInv, Steady
  <2> QED BY <1>1, <2>1, <2>2, Zenon DEF Steady
<1> QED BY <1>11, <1>12, <1>13, <1>14 DEF IInv

(* While results are awaited and nothing can run, some probe is pinging,   *)
(* and none whose time is over: the clock stays within the timeout.        *)
LEMMA TickStep ==
  ASSUME IInv, Tick
  PROVE  IInv'
<1> USE DEF requestVars
<1>0. /\ now \in Nat /\ began \in Nat /\ MaxTime \in Nat
      /\ HealthProbeTimeout \in Nat /\ ReadTimeout \in Nat \ {0} /\ readEnds \in [Deps -> Nat]
      /\ probe \in [Deps -> {"none", "spawned", "pinging"}] /\ deadline \in [Deps -> Nat]
      /\ steady \subseteq Deps /\ IsFiniteSet(Deps) /\ Deps # {}
  BY HealthConstants DEF IInv, TypeOK
<1>1. /\ now' = now + 1 /\ now < MaxTime
      /\ UNCHANGED <<health, turns, handler, gone, checks, began, probe, deadline, readEnds,
                     out, steady>>
  BY DEF Tick
<1>2. TypeOK'
  <2>1. now' \in 0..MaxTime
    BY <1>0, <1>1
  <2> QED BY <1>1, <2>1 DEF IInv, TypeOK
<1>3. Places'
  BY <1>1 DEF IInv, Places, InChannel, Collected
<1>4. CASE handler # "collecting"
  <2>1. \A d \in Deps : probe[d] = "none"
    BY <1>4 DEF IInv, Places
  <2>2. Timely' /\ Steady'
    BY <1>0, <1>1, <1>4, <2>1 DEF IInv, Timely, Steady
  <2> QED BY <1>2, <1>3, <2>2 DEF IInv
<1>5. CASE handler = "collecting"
  <2>1. out = <<>> /\ Len(out) = 0
    BY <1>5 DEF Tick, Quiet, CanCollect
  <2>2. Cardinality(Deps) \in Nat /\ 0 < Cardinality(Deps)
    <3>1. Cardinality(Deps) \in Nat /\ Cardinality(Deps) # 0
      BY <1>0, FS_EmptySet, FS_CardinalityType
    <3> QED BY <3>1
  <2>3. ASSUME NEW d \in Deps, probe[d] # "none"
        PROVE  /\ probe[d] = "pinging" /\ health[d] # "up" /\ InRead(d)
               /\ IF d \in Deaf THEN now < readEnds[d] ELSE now < deadline[d]
    <3>1. probe[d] = "pinging" /\ InRead(d)
      BY <1>0, <2>3 DEF Tick, Quiet, CanStart, IInv, Timely
    <3>2. ~CanEnd(d, TRUE) /\ ~CanEnd(d, FALSE) /\ ~CanRetry(d)
      BY DEF Tick, Quiet
    <3>3. health[d] # "up" /\ ~(ContextDone(d) /\ now >= readEnds[d])
      BY <2>1, <2>2, <3>1, <3>2 DEF CanEnd
    <3>4. CASE d \in Deaf
      <4>1. ~(now >= readEnds[d])
        BY <3>1, <3>2, <3>3, <3>4 DEF CanRetry
      <4> QED BY <1>0, <3>1, <3>3, <3>4, <4>1
    <3>5. CASE d \notin Deaf
      <4>1. ~(now >= deadline[d])
        BY <1>0, <3>1, <3>3, <3>5 DEF InRead, ContextDone
      <4> QED BY <1>0, <3>1, <3>3, <3>5, <4>1
    <3> QED BY <3>4, <3>5
  <2>4. PICK d \in Deps : probe[d] # "none"
    <3>1. CASE \A d \in Deps : probe[d] = "none"
      <4>1. {d \in Deps : probe[d] # "none"} = {}
        BY <3>1
      <4>2. 0 + 0 + Cardinality(checks) = Cardinality(Deps)
        BY <1>5, <2>1, <4>1, FS_EmptySet DEF IInv, TypeOK
      <4>3. Cardinality(checks) < Cardinality(Deps) /\ Cardinality(checks) \in Nat
        BY <1>5, FS_CardinalityType DEF IInv, Places
      <4> QED BY <2>2, <4>2, <4>3
    <3> QED BY <3>1
  <2>5. now' - began < HealthProbeTimeout + ReadTimeout
    BY <1>0, <1>1, <2>3, <2>4 DEF InRead
  <2>6. Timely'
    <3>1. \A e \in Deps : probe[e] # "none" => probe[e] = "pinging" /\ InRead(e)'
      BY <1>0, <1>1, <2>3 DEF InRead
    <3> QED BY <1>1, <2>5, <3>1 DEF Timely
  <2>7. Steady'
    BY <1>0, <1>1, <2>3 DEF IInv, Steady
  <2> QED BY <1>2, <1>3, <2>6, <2>7 DEF IInv
<1> QED BY <1>4, <1>5

(* The client leaving and the dependencies coming and going.               *)
LEMMA OutsideStep ==
  ASSUME IInv, Leave \/ \E d \in Deps : Turn(d)
  PROVE  IInv'
<1> USE DEF requestVars
<1>1. /\ UNCHANGED <<now, handler, checks, began, probe, deadline, readEnds, out>>
      /\ steady' \subseteq steady /\ (gone' = gone \/ gone') /\ gone' \in BOOLEAN
      /\ health' \in [Deps -> {"up", "down", "stuck"}] /\ turns' \in 0..MaxTurns
      /\ steady \subseteq Deps
  <2>1. CASE Leave
    BY <2>1 DEF Leave, IInv, TypeOK
  <2>2. CASE \E d \in Deps : Turn(d)
    <3>1. PICK d \in Deps : Turn(d)
      BY <2>2
    <3>2. turns' \in 0..MaxTurns
      <4>1. turns < MaxTurns /\ turns' = turns + 1 /\ turns \in 0..MaxTurns /\ MaxTurns \in Nat
        BY <3>1, HealthConstants DEF Turn, IInv, TypeOK
      <4> QED BY <4>1
    <3> QED BY <3>1, <3>2 DEF Turn, IInv, TypeOK
  <2> QED BY <2>1, <2>2
<1>2. \A e \in steady' : health'[e] = "up"
  BY <1>1 DEF Leave, Turn, IInv, Steady
<1>3. TypeOK'
  BY <1>1 DEF IInv, TypeOK
<1>4. Places' /\ Timely'
  BY <1>1 DEF IInv, Places, InChannel, Collected, Timely, InRead
<1>5. Steady'
  <2>1. \A e \in steady' : probe'[e] = "pinging" => now' < deadline'[e]
    BY <1>1 DEF IInv, Steady
  <2>2. ~gone' => /\ \A r \in checks' : r.dep \in steady' => r.ok
                  /\ \A i \in DOMAIN out' : out'[i].dep \in steady' => out'[i].ok
    BY <1>1 DEF IInv, Steady
  <2> QED BY <1>2, <2>1, <2>2 DEF Steady
<1> QED BY <1>3, <1>4, <1>5 DEF IInv

-----------------------------------------------------------------------------
(* The invariant holds in every state of a request and between requests.   *)
THEOREM HealthInvariant == Spec => []IInv
<1>1. Init => IInv
  <2> SUFFICES ASSUME Init PROVE IInv
    OBVIOUS
  <2>1. out = <<>> /\ out \in Seq(Results) /\ DOMAIN out = {} /\ checks = {} /\ IsFiniteSet({})
    BY FS_EmptySet DEF Init
  <2>2. handler = "none" /\ \A d \in Deps : probe[d] = "none"
    BY DEF Init
  <2>3. TypeOK
    <3>1. now \in 0..MaxTime /\ began \in 0..MaxTime /\ turns \in 0..MaxTurns
      BY HealthConstants DEF Init
    <3> QED BY <2>1, <2>2, <3>1 DEF Init, TypeOK
  <2>4. Places
    BY <2>1, <2>2 DEF Places, InChannel
  <2>5. Timely /\ Steady
    BY <2>1, <2>2 DEF Init, Timely, Steady
  <2> QED BY <2>3, <2>4, <2>5 DEF IInv
<1>2. IInv /\ [Next]_vars => IInv'
  <2>1. CASE UNCHANGED vars
    BY <2>1 DEF vars, requestVars, IInv, TypeOK, Places, Timely, InRead, Steady, InChannel,
                 Collected
  <2> QED BY <2>1, RequestStep, StartStep, RetryStep, EndStep, CollectStep, TickStep, OutsideStep
          DEF Next, Running
<1> QED BY <1>1, <1>2, PTL DEF Spec

(* Every state is typed, and of each dependency there is one goroutine or  *)
(* one result, never both.                                                 *)
THEOREM HealthTypeCorrect == Spec => []TypeOK
<1>1. IInv => TypeOK
  BY DEF IInv
<1> QED BY <1>1, HealthInvariant, PTL

(* A dependency that was up all through the request is not reported as     *)
(* down because another one hangs.                                         *)
THEOREM SteadyAlwaysReported == Spec => []SteadyIsReported
<1>1. IInv => SteadyIsReported
  BY DEF IInv, Steady, SteadyIsReported
<1> QED BY <1>1, HealthInvariant, PTL

(* However many dependencies hang, the answer takes one probe's timeout,   *)
(* and less than a read more where a client does not heed its context; it  *)
(* is complete and leaves nothing behind.                                  *)
THEOREM AlwaysAnswersInTime == Spec => []AnswersInTime
<1>1. IInv => AnswersInTime
  <2> SUFFICES ASSUME IInv PROVE AnswersInTime
    OBVIOUS
  <2>1. /\ handler = "collecting" => now - began < HealthProbeTimeout + ReadTimeout
        /\ \A d \in Deps \ Deaf : probe[d] = "pinging" => now <= began + HealthProbeTimeout
    BY DEF IInv, Timely, InRead
  <2>2. ASSUME handler = "answered"
        PROVE  {r.dep : r \in checks} = Deps
    <3>1. \A d \in Deps : Collected(d)
      BY <2>2 DEF IInv, Places
    <3>2. \A r \in checks : r.dep \in Deps
      BY DEF IInv, TypeOK, Results
    <3> QED BY <3>1, <3>2 DEF Collected
  <2>3. handler = "answered" => out = <<>> /\ \A d \in Deps : probe[d] = "none"
    BY DEF IInv, Places
  <2> QED BY <2>1, <2>2, <2>3 DEF AnswersInTime
<1> QED BY <1>1, HealthInvariant, PTL
=============================================================================
