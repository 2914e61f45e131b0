-------------------------- MODULE SyncMembersProofs --------------------------
(***************************************************************************)
(* What SyncMembers promises for every table, every number of workers and  *)
(* zones, and every size of the channel and of a batch.                    *)
(***************************************************************************)
EXTENDS SyncMembers, FiniteNats, FiniteSetTheorems, SequenceTheorems, TLAPS

-----------------------------------------------------------------------------
(* The inductive invariant, in parts.                                      *)

(* Who is on stage: outside of a running scan there is neither a producer  *)
(* nor a worker, and a worker leaves only a closed and empty channel.      *)
Phases ==
  /\ scan # "running" => prod = "off" /\ ch = <<>> /\ \A w \in Workers : pc[w] = "gone"
  /\ scan = "running" => prod # "off"
  /\ scan = "running" /\ (\E w \in Workers : pc[w] = "gone") => prod = "closed" /\ ch = <<>>
  /\ scan = "counting" => start = {} /\ lastID = 0 /\ \A m \in Ids : fate[m] = "unseen"

(* What a worker has in hand at each of its steps.                         *)
Job(w) ==
  /\ member[w] = None <=> pc[w] \in {"gone", "idle"}
  /\ pc[w] \in {"build", "upload"} => left[w] > 0
  /\ posted[w] => pc[w] \in {"build", "upload", "release", "mark"}
  /\ pc[w] = "mark" => lease[w] \in {"released", "dropped"}
  /\ pc[w] = "mark" /\ lease[w] = "dropped" => ~posted[w]

(* What a worker is doing, for every worker. *)
Jobs == \A w \in Workers : Job(w)

(* The batch lies ahead of the cursor; the cursor is on the row being sent.*)
Cursor ==
  /\ batch \subseteq table
  /\ prod \in {"off", "fetch", "closed"} => batch = {}
  /\ prod = "walk" => batch # {} /\ \A m \in batch : m > lastID
  /\ prod = "send" => lastID \in batch /\ \A m \in batch : m >= lastID

(* A member has a fate once the cursor has passed it, and it is a row.     *)
Walked == \A m \in Ids : fate[m] # "unseen" => m \in table /\ m <= lastID

(* A row of the start that has no fate yet is still ahead: in the batch,   *)
(* or beyond all of it.                                                    *)
Unwalked == {m \in start : fate[m] = "unseen"}
Ahead ==
  /\ scan = "running" /\ prod # "closed" =>
       \A m \in Unwalked : m \in batch \/ (m > lastID /\ \A x \in batch : x < m)
  /\ (scan = "running" /\ prod = "closed") \/ scan = "returned" => prodErr \/ Unwalked = {}

(* MembersInOnePlace without counting: a member is queued exactly while    *)
(* the producer holds it or it is in the channel, once, and being worked   *)
(* on exactly while one worker has it.                                     *)
Elements(s) == {s[i] : i \in DOMAIN s}
Distinct(s) == \A i, j \in DOMAIN s : s[i] = s[j] => i = j

Placement ==
  /\ \A m \in Ids : fate[m] = "queued" <=> (prod = "send" /\ lastID = m) \/ m \in Elements(ch)
  /\ prod = "send" => lastID \notin Elements(ch)
  /\ Distinct(ch)
  /\ \A m \in Ids : fate[m] = "working" <=> \E w \in Workers : member[w] = m
  /\ \A v, w \in Workers : member[v] = member[w] /\ member[v] # None => v = w

(* FailureIsRetried; and the member a worker is about to mark as synced is *)
(* owed no more.                                                           *)
Owing ==
  /\ owed \cap recent = {}
  /\ \A w \in Workers : pc[w] = "mark" => member[w] \notin owed

(* The counters of CountersAgree, with the members that are counted before *)
(* their sync has ended.                                                   *)
NoCharacter ==
  Having({"noChar"}) \cup {member[w] : w \in {v \in Workers : lease[v] = "dropped"
                                                             /\ pc[v] = "mark"}}
WithData ==
  Having({"synced"}) \cup {member[w] : w \in {v \in Workers : posted[v] /\ pc[v] = "mark"}}
Uploaders == {w \in Workers : posted[w] /\ pc[w] # "mark"}

(* The counters against the members' fates. *)
Tally ==
  /\ counts["walked"] = counts["nonCN"] + counts["recent"] + counts["queued"]
  /\ counts["walked"] = Cardinality(Having(Fates \ {"unseen"}))
  /\ counts["queued"] = Cardinality(Having(Taken \cup {"queued"}))
  /\ counts["noChar"] = Cardinality(NoCharacter)
  /\ counts["errors"] >= Cardinality(Having({"failed"}))
  /\ counts["withData"] <= Cardinality(WithData)
  /\ counts["withData"] + Cardinality(Uploaders) <= counts["uploaded"]

IInv == /\ TypeOK /\ Phases /\ Jobs /\ Cursor /\ Walked /\ Ahead /\ Placement /\ Owing
        /\ StatusAgrees /\ Tally

-----------------------------------------------------------------------------
(* About the constants and the operators of the module.                    *)

USE DEF envVars, dbVars, mainVars, prodVars, jobVars, workerVars, history

(* Facts about the constants that the provers need spelled out.            *)
LEMMA Constants ==
  /\ MaxId \in Nat /\ Ids \subseteq Nat /\ \A m \in Ids : m > 0 /\ m <= MaxId
  /\ IsFiniteSet(Ids) /\ IsFiniteSet(Workers) /\ None \notin Ids
  /\ Zones \in Nat /\ BatchSize \in Nat \ {0} /\ MemberQueueSize \in Nat \ {0}
<1>1. IsFiniteSet(Ids)
  BY ScanConstants, FS_Interval, 1 \in Int, MaxId \in Int DEF Ids
<1> QED BY <1>1, ScanConstants DEF Ids

(* The next row of a batch.                                                *)
LEMMA NextRowOfBatch ==
  ASSUME TypeOK, batch # {}
  PROVE  Min(batch) \in batch /\ Min(batch) \in Ids /\ \A x \in batch : Min(batch) <= x
<1>1. batch \in SUBSET Nat /\ IsFiniteSet(batch) /\ batch \subseteq Ids
  BY Constants, FS_Subset DEF TypeOK
<1> QED BY <1>1, MinOfNats

(* The channel's members, when one is sent and when one is taken.          *)
LEMMA Sending ==
  ASSUME NEW s \in Seq(Ids), NEW m \in Ids, m \notin Elements(s), Distinct(s)
  PROVE  Elements(Append(s, m)) = Elements(s) \cup {m} /\ Distinct(Append(s, m))
<1> DEFINE t == Append(s, m)
<1>1. /\ t \in Seq(Ids) /\ Len(t) = Len(s) + 1 /\ Len(s) \in Nat
      /\ DOMAIN t = 1..Len(s) + 1 /\ DOMAIN s = 1..Len(s)
      /\ \A i \in 1..Len(s) : t[i] = s[i]
      /\ t[Len(s) + 1] = m
  BY AppendProperties, LenProperties
<1> HIDE DEF t
<1>2. \A i \in DOMAIN t : i \in DOMAIN s \/ i = Len(s) + 1
  BY <1>1
<1>3. \A i \in DOMAIN s : i \in DOMAIN t /\ t[i] = s[i]
  BY <1>1
<1>4. Len(s) + 1 \in DOMAIN t
  BY <1>1
<1>5. Elements(t) = Elements(s) \cup {m}
  BY <1>1, <1>2, <1>3, <1>4 DEF Elements
<1>6. Distinct(t)
  BY <1>1, <1>2, <1>3 DEF Elements, Distinct
<1> QED BY <1>5, <1>6 DEF t

(* What taking the first element of a sequence does to its elements. *)
LEMMA Taking ==
  ASSUME NEW s \in Seq(Ids), s # <<>>, Distinct(s)
  PROVE  /\ Head(s) \in Elements(s) /\ Distinct(Tail(s))
         /\ Elements(Tail(s)) = Elements(s) \ {Head(s)}
<1> DEFINE t == Tail(s)
<1>1. /\ Len(s) \in Nat \ {0} /\ DOMAIN s = 1..Len(s) /\ Head(s) = s[1]
      /\ t \in Seq(Ids) /\ Len(t) = Len(s) - 1 /\ DOMAIN t = 1..Len(s) - 1
      /\ \A i \in 1..Len(s) - 1 : t[i] = s[i + 1]
  BY HeadTailProperties, LenProperties, EmptySeq
<1> HIDE DEF t
<1>2. 1 \in DOMAIN s /\ \A i \in DOMAIN t : i + 1 \in DOMAIN s /\ i + 1 # 1
  BY <1>1
<1>3. \A i \in DOMAIN s : i # 1 => i - 1 \in DOMAIN t /\ t[i - 1] = s[i]
  BY <1>1
<1>4. Head(s) \in Elements(s)
  BY <1>1, <1>2 DEF Elements
<1>5. \A i \in DOMAIN t : t[i] = s[i + 1] /\ t[i] # Head(s)
  BY <1>1, <1>2 DEF Distinct
<1>6. Elements(t) = Elements(s) \ {Head(s)}
  <2>1. Elements(t) \subseteq Elements(s) \ {Head(s)}
    BY <1>2, <1>5 DEF Elements
  <2>2. ASSUME NEW m \in Elements(s), m # Head(s)
        PROVE  m \in Elements(t)
    <3>1. PICK i \in DOMAIN s : m = s[i]
      BY DEF Elements
    <3>2. i # 1
      BY <1>1, <2>2, <3>1
    <3> QED BY <1>3, <3>1, <3>2 DEF Elements
  <2> QED BY <2>1, <2>2
<1>7. Distinct(t)
  <2> SUFFICES ASSUME NEW i \in DOMAIN t, NEW j \in DOMAIN t, t[i] = t[j]
               PROVE  i = j
    BY DEF Distinct
  <2>1. i + 1 = j + 1
    BY <1>2, <1>5 DEF Distinct
  <2> QED BY <1>1, <2>1
<1> QED BY <1>4, <1>6, <1>7 DEF t

-----------------------------------------------------------------------------
(* Types.                                                                  *)

(* The waiting count and the state keep their types; a worker that stops   *)
(* waiting is one of those counted.                                        *)
LEMMA BlockedCounted ==
  ASSUME StatusAgrees, NEW w \in Workers, Blocked(w)
  PROVE  status.waiting \in Nat /\ status.waiting > 0
<1> DEFINE B == {v \in Workers : Blocked(v)}
<1>1. IsFiniteSet(B) /\ w \in B
  BY Constants, FS_Subset
<1>2. Cardinality(B) \in Nat /\ Cardinality(B) # 0
  BY <1>1, FS_CardinalityType, FS_EmptySet
<1> QED BY <1>2 DEF StatusAgrees

Statuses == [state : {"idle", "scanning", "waiting_for_keys"}, waiting : Nat,
             keysRecoverAt : Resets \cup {None}, nextScan : BOOLEAN]

(* The transitions of stateStore stay in its type. *)
LEMMA StatusTyped ==
  ASSUME TypeOK, StatusAgrees
  PROVE  /\ MarkScanStarted \in Statuses /\ MarkedIdle \in Statuses
         /\ \A r \in Resets \cup {None} : WaitEntered(r) \in Statuses
         /\ (\E w \in Workers : Blocked(w)) => WaitLeft \in Statuses
<1>1. status \in Statuses
  BY DEF TypeOK, Statuses
<1>2. MarkScanStarted \in Statuses /\ MarkedIdle \in Statuses
  BY <1>1 DEF Statuses, MarkScanStarted, MarkedIdle
<1>3. ASSUME NEW r \in Resets \cup {None}
      PROVE  WaitEntered(r) \in Statuses
  <2>1. /\ status.waiting + 1 \in Nat
        /\ (IF status.waiting = 0 THEN "waiting_for_keys" ELSE status.state)
             \in {"idle", "scanning", "waiting_for_keys"}
    BY <1>1 DEF Statuses
  <2> QED BY <1>1, <2>1, Zenon DEF Statuses, WaitEntered
<1>4. ASSUME NEW w \in Workers, Blocked(w)
      PROVE  WaitLeft \in Statuses
  <2>1. status.waiting - 1 \in Nat
    BY <1>4, BlockedCounted
  <2> QED BY <1>1, <2>1 DEF Statuses, WaitLeft
<1> QED BY <1>2, <1>3, <1>4

(* What EndMember does to the worker's variables keeps their types.        *)
LEMMA EndTyped ==
  ASSUME TypeOK, NEW w \in Workers, NEW f \in Fates, EndMember(w, f)
  PROVE  /\ pc' \in [Workers -> {"gone", "idle", "release", "mark"} \cup Blockers \cup Calls]
         /\ member' \in [Workers -> Ids \cup {None}]
         /\ left' \in [Workers -> 0..Zones] /\ posted' \in [Workers -> BOOLEAN]
         /\ late' \in [Workers -> {"no"} \cup Blockers \cup Calls]
         /\ fate' \in [Ids -> Fates]
<1>1. pc' \in [Workers -> {"gone", "idle", "release", "mark"} \cup Blockers \cup Calls]
  BY DEF TypeOK, EndMember
<1>2. member' \in [Workers -> Ids \cup {None}]
  BY DEF TypeOK, EndMember
<1>3. left' \in [Workers -> 0..Zones] /\ posted' \in [Workers -> BOOLEAN]
  BY Constants DEF TypeOK, EndMember
<1>4. late' \in [Workers -> {"no"} \cup Blockers \cup Calls]
  BY DEF TypeOK, EndMember
<1>5. fate' \in [Ids -> Fates]
  BY DEF TypeOK, EndMember
<1> QED BY <1>1, <1>2, <1>3, <1>4, <1>5

(* The next zone: a worker that builds or posts one has one left.          *)
LEMMA NextZoneTyped ==
  ASSUME TypeOK, Jobs, NEW w \in Workers, pc[w] \in {"build", "upload"}, NextZone(w)
  PROVE  /\ pc' \in [Workers -> {"gone", "idle", "release", "mark"} \cup Blockers \cup Calls]
         /\ left' \in [Workers -> 0..Zones]
<1>1. left[w] - 1 \in 0..Zones
  BY Constants DEF TypeOK, Jobs, Job
<1>2. AfterZones(left[w] - 1) \in {"release"} \cup Calls
  BY DEF AfterZones, Calls
<1> QED BY <1>1, <1>2 DEF TypeOK, NextZone

(* One counter more is still a count of everything. *)
LEMMA CountTyped ==
  ASSUME TypeOK, NEW c \in Counters
  PROVE  Count(c) \in [Counters -> Nat]
BY DEF TypeOK, Count

(* TypeOK is inductive, given the rest: one lemma per goroutine. *)
LEMMA MainTyped ==
  ASSUME IInv, Main
  PROVE  TypeOK'
<1> USE DEF IInv
<1>1. CASE StartScan
  <2>1. status' \in Statuses
    BY <1>1, StatusTyped DEF StartScan
  <2>2. counts' \in [Counters -> Nat] /\ fate' \in [Ids -> Fates]
    BY <1>1 DEF StartScan, Fates, ResetScanCounters, NoCounts
  <2>3. lastID' \in 0..MaxId
    BY <1>1, Constants DEF StartScan
  <2> QED BY <1>1, <2>1, <2>2, <2>3 DEF StartScan, TypeOK, Statuses
<1>2. CASE CountMembers
  BY <1>2 DEF CountMembers, TypeOK
<1>3. CASE FinishScan
  BY <1>3 DEF FinishScan, TypeOK
<1>4. CASE MarkIdle
  BY <1>4, StatusTyped DEF MarkIdle, TypeOK, Statuses
<1> QED BY <1>1, <1>2, <1>3, <1>4 DEF Main

(* The producer. *)
LEMMA ProducerTyped ==
  ASSUME IInv, Producer
  PROVE  TypeOK'
<1> USE DEF IInv
<1>1. CASE FetchBatch
  BY <1>1 DEF FetchBatch, TypeOK, Lowest, NextRows
<1>2. CASE WalkRow
  <2> DEFINE m == Min(batch)
             walked == Count("walked")
  <2>1. m \in batch /\ m \in Ids /\ m \in 0..MaxId
    BY <1>2, NextRowOfBatch, Constants DEF WalkRow, Cursor
  <2>2. FilterReason(m) \in {"keep", "recent", "nonCN"}
    BY DEF FilterReason
  <2>3. walked \in [Counters -> Nat]
    BY CountTyped DEF Counters
  <2>4. counts' \in [Counters -> Nat]
    <3> HIDE DEF walked, m
    <3> QED BY <1>2, <2>2, <2>3 DEF WalkRow, Counters, m, walked
  <2>5. lastID' = m /\ batch' \subseteq batch /\ prod' \in {"send", "fetch", "walk"}
    BY <1>2 DEF WalkRow
  <2>6. fate' \in [Ids -> Fates]
    BY <1>2, <2>1 DEF WalkRow, TypeOK, Fates
  <2> HIDE DEF m
  <2> QED BY <1>2, <2>1, <2>4, <2>5, <2>6 DEF WalkRow, TypeOK
<1>3. CASE SendMember
  <2>1. lastID \in Ids
    BY <1>3 DEF SendMember, Cursor, TypeOK
  <2>2. ch' \in Seq(Ids) /\ Len(ch') <= MemberQueueSize
    BY <1>3, <2>1, Constants, AppendProperties DEF SendMember, ChannelHasRoom, TypeOK
  <2> QED BY <1>3, <2>2 DEF SendMember, TypeOK
<1> QED BY <1>1, <1>2, <1>3 DEF Producer

(* A worker, its deadline and its panics. *)
LEMMA WorkerTyped ==
  ASSUME IInv, NEW w \in Workers, Worker(w) \/ Panic(w) \/ Expire(w)
  PROVE  TypeOK'
<1> USE DEF IInv
<1>1. CASE TakeMember(w)
  <2>1. ch \in Seq(Ids) /\ ch # <<>>
    BY <1>1 DEF TakeMember, TypeOK
  <2>2. Head(ch) \in Ids /\ Tail(ch) \in Seq(Ids) /\ Len(Tail(ch)) = Len(ch) - 1
    BY <2>1, HeadTailProperties
  <2>3. ch' \in Seq(Ids) /\ Len(ch') <= MemberQueueSize
    BY <1>1, <2>1, <2>2, Constants, LenProperties DEF TakeMember, TypeOK
  <2>4. fate' \in [Ids -> Fates]
    BY <1>1, <2>2 DEF TakeMember, TypeOK, Fates
  <2>5. /\ pc' \in [Workers -> {"gone", "idle", "release", "mark"} \cup Blockers \cup Calls]
        /\ member' \in [Workers -> Ids \cup {None}]
        /\ lease' \in [Workers -> {"none", "held", "released", "marked", "dropped"}]
    BY <1>1, <2>2 DEF TakeMember, TypeOK, Blockers
  <2> QED BY <1>1, <2>3, <2>4, <2>5 DEF TakeMember, TypeOK
<1>2. CASE StopWorker(w)
  BY <1>2 DEF StopWorker, TypeOK
<1>3. CASE AcquireKey(w)
  <2>1. status' \in Statuses
    BY <1>3, StatusTyped DEF AcquireKey, TypeOK, Statuses
  <2> QED BY <1>3, <2>1 DEF AcquireKey, TypeOK, Statuses, Blockers, Calls
<1>4. CASE Wake(w)
  BY <1>4 DEF Wake, TypeOK, Blockers
<1>5. CASE GiveUp(w)
  <2>1. status' \in Statuses /\ "keyless" \in Fates
    BY <1>5, StatusTyped DEF GiveUp, Blocked, Fates
  <2> QED BY <1>5, <2>1, EndTyped DEF GiveUp, TypeOK, Statuses
<1>6. CASE ResolveCharacter(w)
  <2>1. counts' \in [Counters -> Nat]
    BY <1>6, CountTyped DEF ResolveCharacter, TypeOK, Counters
  <2>2. /\ pc' \in [Workers -> {"gone", "idle", "release", "mark"} \cup Blockers \cup Calls]
        /\ lease' \in [Workers -> {"none", "held", "released", "marked", "dropped"}]
    BY <1>6 DEF ResolveCharacter, TypeOK, Calls
  <2> QED BY <1>6, <2>1, <2>2 DEF ResolveCharacter, TypeOK
<1>7. CASE FetchBestFights(w)
  BY <1>7 DEF FetchBestFights, AfterZones, TypeOK, Calls
<1>8. CASE BuildZone(w)
  <2>1. /\ pc' \in [Workers -> {"gone", "idle", "release", "mark"} \cup Blockers \cup Calls]
        /\ left' \in [Workers -> 0..Zones]
    <3>1. CASE NextZone(w)
      BY <1>8, <3>1, NextZoneTyped DEF BuildZone
    <3>2. CASE pc' = [pc EXCEPT ![w] = "upload"] /\ UNCHANGED left
      BY <3>2 DEF TypeOK, Calls
    <3> QED BY <1>8, <3>1, <3>2 DEF BuildZone
  <2> QED BY <1>8, <2>1 DEF BuildZone, TypeOK
<1>9. CASE UploadZone(w)
  <2>1. counts' \in [Counters -> Nat]
    BY <1>9, CountTyped DEF UploadZone, TypeOK, Counters
  <2>2. /\ pc' \in [Workers -> {"gone", "idle", "release", "mark"} \cup Blockers \cup Calls]
        /\ left' \in [Workers -> 0..Zones]
    BY <1>9, NextZoneTyped DEF UploadZone
  <2>3. posted' \in [Workers -> BOOLEAN]
    BY <1>9 DEF UploadZone, TypeOK
  <2> QED BY <1>9, <2>1, <2>2, <2>3 DEF UploadZone, TypeOK
<1>10. CASE FFLogsFails(w)
  <2>1. counts' \in [Counters -> Nat] /\ "failed" \in Fates
    BY <1>10, CountTyped DEF FFLogsFails, Counters, Fates
  <2> QED BY <1>10, <2>1, EndTyped DEF FFLogsFails, TypeOK
<1>11. CASE ReleaseKey(w)
  <2>1. counts' \in [Counters -> Nat]
    BY <1>11, CountTyped DEF ReleaseKey, TypeOK, Counters
  <2>2. pc' \in [Workers -> {"gone", "idle", "release", "mark"} \cup Blockers \cup Calls]
    BY <1>11 DEF ReleaseKey, TypeOK
  <2>3. lease' \in [Workers -> {"none", "held", "released", "marked", "dropped"}]
    BY <1>11 DEF ReleaseKey, TypeOK
  <2> QED BY <1>11, <2>1, <2>2, <2>3 DEF ReleaseKey, TypeOK
<1>12. CASE MarkSynced(w)
  <2>1. member[w] \in table
    <3>1. member[w] \in Ids
      BY <1>12 DEF MarkSynced, Jobs, Job, TypeOK
    <3>2. fate[member[w]] = "working"
      BY <3>1 DEF Placement
    <3> QED BY <3>1, <3>2 DEF Walked
  <2>2. recent' \subseteq table'
    BY <1>12, <2>1 DEF MarkSynced, TypeOK
  <2>3. (IF lease[w] = "dropped" THEN "noChar" ELSE "synced") \in Fates
    BY DEF Fates
  <2> QED BY <1>12, <2>2, <2>3, EndTyped DEF MarkSynced, TypeOK
<1>13. CASE Panic(w)
  <2>1. "panicked" \in Fates
    BY DEF Fates
  <2> QED BY <1>13, <2>1, EndTyped DEF Panic, TypeOK
<1>14. CASE Expire(w)
  BY <1>14 DEF Expire, TypeOK
<1> QED BY <1>1, <1>2, <1>3, <1>4, <1>5, <1>6, <1>7, <1>8, <1>9, <1>10, <1>11, <1>12,
           <1>13, <1>14 DEF Worker

LEMMA InitTyped == Init => TypeOK
<1> SUFFICES ASSUME Init PROVE TypeOK
  OBVIOUS
<1>1. 0 \in 0..MaxId /\ 0 \in 0..Zones /\ 0 \in Nat /\ {} \subseteq Ids
  BY Constants
<1>2. ch \in Seq(Ids) /\ Len(ch) <= MemberQueueSize
  BY Constants, EmptySeq DEF Init
<1>3. counts \in [Counters -> Nat] /\ fate \in [Ids -> Fates]
  BY DEF Init, NoCounts, Fates
<1>4. /\ pc \in [Workers -> {"gone", "idle", "release", "mark"} \cup Blockers \cup Calls]
      /\ member \in [Workers -> Ids \cup {None}]
      /\ left \in [Workers -> 0..Zones] /\ posted \in [Workers -> BOOLEAN]
      /\ lease \in [Workers -> {"none", "held", "released", "marked", "dropped"}]
      /\ late \in [Workers -> {"no"} \cup Blockers \cup Calls]
  BY <1>1 DEF Init
<1> QED BY <1>1, <1>2, <1>3, <1>4 DEF Init, TypeOK

(* The table changes, or the process dies. *)
LEMMA EnvironmentTyped ==
  ASSUME IInv, (\E m \in Ids : Insert(m) \/ Age(m)) \/ Crash
  PROVE  TypeOK'
<1>1. CASE \E m \in Ids : Insert(m) \/ Age(m)
  BY <1>1 DEF IInv, Insert, Age, TypeOK
<1>2. CASE Crash
  <2>1. 0 \in 0..MaxId /\ 0 \in 0..Zones /\ 0 \in Nat /\ {} \subseteq Ids
    BY Constants
  <2>2. ch' \in Seq(Ids) /\ Len(ch') <= MemberQueueSize
    BY <1>2, Constants, EmptySeq DEF Crash
  <2>3. counts' \in [Counters -> Nat] /\ fate' \in [Ids -> Fates]
    BY <1>2 DEF Crash, NoCounts, Fates
  <2>4. /\ pc' \in [Workers -> {"gone", "idle", "release", "mark"} \cup Blockers \cup Calls]
        /\ member' \in [Workers -> Ids \cup {None}]
        /\ left' \in [Workers -> 0..Zones] /\ posted' \in [Workers -> BOOLEAN]
        /\ lease' \in [Workers -> {"none", "held", "released", "marked", "dropped"}]
        /\ late' \in [Workers -> {"no"} \cup Blockers \cup Calls]
    BY <1>2, <2>1 DEF Crash
  <2>5. table' \subseteq Ids /\ recent' \subseteq table' /\ crashes' \in Nat
    BY <1>2, ScanConstants DEF IInv, Crash, TypeOK
  <2>6. owed' \subseteq Ids
    BY <1>2 DEF IInv, Crash, TypeOK
  <2> QED BY <1>2, <2>1, <2>2, <2>3, <2>4, <2>5, <2>6 DEF Crash, TypeOK
<1> QED BY <1>1, <1>2

(* Together. *)
LEMMA TypedStep ==
  ASSUME IInv, [Next]_vars
  PROVE  TypeOK'
<1>1. CASE Main
  BY <1>1, MainTyped
<1>2. CASE Producer
  BY <1>2, ProducerTyped
<1>3. CASE \E w \in Workers : Worker(w) \/ Panic(w) \/ Expire(w)
  BY <1>3, WorkerTyped
<1>4. CASE (\E m \in Ids : Insert(m) \/ Age(m)) \/ Crash
  BY <1>4, EnvironmentTyped
<1>5. CASE UNCHANGED vars
  BY <1>5 DEF IInv, TypeOK, vars
<1> QED BY <1>1, <1>2, <1>3, <1>4, <1>5 DEF Next

-----------------------------------------------------------------------------
(* The steps, as far as the members' way through the scan goes: a worker   *)
(* takes a member, keeps it, or ends with it.                              *)

Busy == Blockers \cup Calls \cup {"release", "mark"}

Keeps(w) ==
  /\ pc[w] \in Busy /\ \E p \in Busy : pc' = [pc EXCEPT ![w] = p]
  /\ owed' = IF pc'[w] = "mark" THEN owed \ {member[w]} ELSE owed
  /\ UNCHANGED <<envVars, mainVars, prodVars, ch, member, fate, start>>

Ends(w) ==
  /\ pc[w] \in Busy
  /\ \E f \in Taken \ {"working"} :
       /\ EndMember(w, f)
       /\ \/ UNCHANGED recent
          \/ pc[w] = "mark" /\ recent' = recent \cup {member[w]}
  /\ UNCHANGED <<table, crashes, mainVars, prodVars, ch, start, owed>>

(* A worker takes a member, stops, goes on with its member or ends it. *)
LEMMA WorkerKinds ==
  ASSUME IInv, NEW w \in Workers, Worker(w) \/ Panic(w) \/ Expire(w)
  PROVE  TakeMember(w) \/ StopWorker(w) \/ Keeps(w) \/ Ends(w)
<1>0. \A p : pc' = [pc EXCEPT ![w] = p] => pc'[w] = p
  BY DEF IInv, TypeOK
<1> USE DEF Busy, Blockers, Calls
<1>1. CASE TakeMember(w) \/ StopWorker(w)
  BY <1>1
<1>2. CASE AcquireKey(w)
  BY <1>0, <1>2 DEF AcquireKey, Keeps
<1>3. CASE Wake(w)
  BY <1>0, <1>3 DEF Wake, Keeps
<1>4. CASE ResolveCharacter(w)
  BY <1>0, <1>4 DEF ResolveCharacter, Keeps
<1>5. CASE FetchBestFights(w)
  <2>1. PICK n \in 0..Zones : pc' = [pc EXCEPT ![w] = AfterZones(n)]
    BY <1>5 DEF FetchBestFights
  <2>2. AfterZones(n) \in Busy /\ AfterZones(n) # "mark"
    BY DEF AfterZones
  <2> QED BY <1>0, <1>5, <2>1, <2>2 DEF FetchBestFights, Keeps
<1>6. CASE BuildZone(w) \/ UploadZone(w)
  <2>1. /\ AfterZones(left[w] - 1) \in Busy /\ AfterZones(left[w] - 1) # "mark"
        /\ "upload" \in Busy
    BY DEF AfterZones
  <2> HIDE DEF Busy
  <2>2. pc[w] \in Busy
    BY <1>6 DEF BuildZone, UploadZone, Busy
  <2>3. \E p \in Busy : pc' = [pc EXCEPT ![w] = p] /\ p # "mark"
    BY <1>6, <2>1 DEF BuildZone, UploadZone, NextZone
  <2> QED BY <1>0, <1>6, <2>2, <2>3 DEF BuildZone, UploadZone, Keeps
<1>7. CASE ReleaseKey(w)
  BY <1>0, <1>7 DEF ReleaseKey, Keeps
<1>8. CASE Expire(w)
  <2>1. pc' = [pc EXCEPT ![w] = pc[w]]
    BY <1>8 DEF Expire, IInv, TypeOK
  <2> QED BY <1>0, <1>8, <2>1 DEF Expire, Keeps
<1>9. CASE GiveUp(w)
  BY <1>9 DEF GiveUp, Ends, Taken
<1>10. CASE FFLogsFails(w)
  BY <1>10 DEF FFLogsFails, Ends, Taken
<1>11. CASE MarkSynced(w)
  BY <1>11 DEF MarkSynced, Ends, Taken
<1>12. CASE Panic(w)
  BY <1>12 DEF Panic, Ends, Taken
<1> QED BY <1>1, <1>2, <1>3, <1>4, <1>5, <1>6, <1>7, <1>8, <1>9, <1>10, <1>11, <1>12
        DEF Worker

(* A worker with a job has a member, and that member is being worked on.   *)
LEMMA BusyWorker ==
  ASSUME IInv, NEW w \in Workers, pc[w] \in Busy
  PROVE  /\ member[w] \in Ids /\ fate[member[w]] = "working" /\ member[w] \in table
         /\ scan = "running"
<1>1. pc[w] \notin {"gone", "idle"}
  BY DEF Busy, Blockers, Calls
<1>2. member[w] \in Ids
  BY <1>1 DEF IInv, Jobs, Job, TypeOK
<1>3. fate[member[w]] = "working"
  BY <1>2 DEF IInv, Placement
<1>4. member[w] \in table
  BY <1>2, <1>3 DEF IInv, Walked
<1>5. scan = "running"
  BY <1>1 DEF IInv, Phases
<1> QED BY <1>2, <1>3, <1>4, <1>5

-----------------------------------------------------------------------------
(* The control invariants, step by step.                                   *)

(* The kinds of step. *)
StepKinds ==
  \/ Main \/ Producer
  \/ \E w \in Workers : TakeMember(w) \/ StopWorker(w) \/ Keeps(w) \/ Ends(w)
  \/ \E m \in Ids : Insert(m) \/ Age(m)
  \/ Crash \/ UNCHANGED vars

(* The kinds of step the structural lemmas tell apart. *)
LEMMA EveryStep == ASSUME IInv, [Next]_vars PROVE StepKinds
BY WorkerKinds DEF Next, StepKinds

(* After a crash, and before the first scan, nobody is on stage.           *)
LEMMA PhasesStep ==
  ASSUME IInv, StepKinds
  PROVE  Phases'
<1> USE DEF IInv
<1>1. CASE StartScan
  BY <1>1 DEF StartScan, Phases
<1>2. CASE CountMembers
  BY <1>2, ScanConstants DEF CountMembers, Phases
<1>3. CASE FinishScan
  BY <1>3, ScanConstants DEF FinishScan, Phases, Cursor
<1>4. CASE MarkIdle
  BY <1>4 DEF MarkIdle, Phases
<1>5. CASE Producer
  <2>1. scan = "running"
    BY <1>5 DEF Producer, FetchBatch, WalkRow, SendMember, Phases
  <2>2. ~\E w \in Workers : pc[w] = "gone"
    BY <1>5, <2>1 DEF Producer, FetchBatch, WalkRow, SendMember, Phases
  <2>3. UNCHANGED <<scan, pc>> /\ prod' # "off"
    BY <1>5 DEF Producer, FetchBatch, WalkRow, SendMember
  <2> QED BY <2>1, <2>2, <2>3 DEF Phases
<1>6. ASSUME NEW w \in Workers, TakeMember(w)
      PROVE  Phases'
  <2>1. scan = "running" /\ ch # <<>> /\ \A v \in Workers : pc[v] # "gone"
    BY <1>6 DEF TakeMember, Phases
  <2>2. \A v \in Workers : pc'[v] # "gone"
    BY <1>6, <2>1 DEF TakeMember, TypeOK
  <2> QED BY <1>6, <2>1, <2>2 DEF TakeMember, Phases
<1>7. ASSUME NEW w \in Workers, StopWorker(w)
      PROVE  Phases'
  <2>1. scan = "running"
    BY <1>7 DEF StopWorker, Phases
  <2> QED BY <1>7, <2>1 DEF StopWorker, Phases
<1>8. ASSUME NEW w \in Workers, Keeps(w)
      PROVE  Phases'
  <2>1. scan = "running"
    BY <1>8, BusyWorker DEF Keeps
  <2>2. \A v \in Workers : pc'[v] = "gone" => pc[v] = "gone"
    BY <1>8 DEF Keeps, TypeOK, Busy, Blockers, Calls
  <2> QED BY <1>8, <2>1, <2>2 DEF Keeps, Phases
<1>9. ASSUME NEW w \in Workers, Ends(w)
      PROVE  Phases'
  <2>1. scan = "running"
    BY <1>9, BusyWorker DEF Ends
  <2>2. \A v \in Workers : pc'[v] = "gone" => pc[v] = "gone"
    BY <1>9 DEF Ends, EndMember, TypeOK
  <2> QED BY <1>9, <2>1, <2>2 DEF Ends, Phases
<1>10. CASE \E m \in Ids : Insert(m) \/ Age(m)
  BY <1>10 DEF Insert, Age, Phases
<1>11. CASE Crash
  BY <1>11 DEF Crash, Phases
<1>12. CASE UNCHANGED vars
  BY <1>12 DEF vars, Phases
<1> QED BY <1>1, <1>2, <1>3, <1>4, <1>5, <1>6, <1>7, <1>8, <1>9, <1>10, <1>11, <1>12
        DEF StepKinds, Main

(* The batch and the cursor are the producer's own.                        *)
LEMMA CursorStep ==
  ASSUME IInv, StepKinds
  PROVE  Cursor'
<1> USE DEF IInv
<1>1. CASE StartScan
  BY <1>1 DEF StartScan, Cursor, Phases
<1>2. CASE CountMembers
  BY <1>2 DEF CountMembers, Cursor, Phases
<1>3. CASE FinishScan \/ MarkIdle
  BY <1>3 DEF FinishScan, MarkIdle, Cursor
<1>4. CASE FetchBatch
  <2>1. /\ Lowest(NextRows(lastID)) \subseteq table
        /\ \A m \in Lowest(NextRows(lastID)) : m > lastID
    BY DEF Lowest, NextRows
  <2>2. batch = {} /\ table' = table /\ lastID' = lastID
    BY <1>4 DEF FetchBatch, Cursor
  <2>3. CASE prod' = "closed"
    BY <1>4, <2>2, <2>3 DEF FetchBatch, Cursor
  <2>4. CASE prod' # "closed"
    <3>1. batch' = Lowest(NextRows(lastID)) /\ prod' = "walk" /\ batch' # {}
      BY <1>4, <2>4 DEF FetchBatch
    <3> QED BY <2>1, <2>2, <3>1 DEF Cursor
  <2> QED BY <2>3, <2>4
<1>5. CASE WalkRow
  <2>1. /\ Min(batch) \in batch /\ Min(batch) \in Nat
        /\ \A x \in batch : x \in Nat /\ Min(batch) <= x
    BY <1>5, NextRowOfBatch, Constants DEF WalkRow, Cursor, TypeOK
  <2> DEFINE m == Min(batch)
  <2>2. lastID' = m /\ table' = table
    BY <1>5 DEF WalkRow
  <2>3. \/ batch' = batch /\ prod' = "send"
        \/ batch' = batch \ {m} /\ batch' = {} /\ prod' = "fetch"
        \/ batch' = batch \ {m} /\ batch' # {} /\ prod' = "walk"
    BY <1>5 DEF WalkRow
  <2> HIDE DEF m
  <2> QED BY <2>1, <2>2, <2>3 DEF Cursor, m
<1>6. CASE SendMember
  <2>1. lastID \in Nat /\ \A x \in batch : x \in Nat
    BY Constants DEF TypeOK
  <2> QED BY <1>6, <2>1 DEF SendMember, Cursor
<1>7. CASE \E w \in Workers : TakeMember(w) \/ StopWorker(w) \/ Keeps(w) \/ Ends(w)
  BY <1>7 DEF TakeMember, StopWorker, Keeps, Ends, Cursor
<1>8. CASE \E m \in Ids : Insert(m) \/ Age(m)
  BY <1>8 DEF Insert, Age, Cursor
<1>9. CASE Crash
  BY <1>9 DEF Crash, Cursor
<1>10. CASE UNCHANGED vars
  BY <1>10 DEF vars, Cursor
<1> QED BY <1>1, <1>2, <1>3, <1>4, <1>5, <1>6, <1>7, <1>8, <1>9, <1>10
        DEF StepKinds, Main, Producer

(* What a step makes of the members' fates.                                *)
LEMMA WalkedStep ==
  ASSUME IInv, StepKinds
  PROVE  Walked'
<1> USE DEF IInv
<1>1. CASE StartScan \/ Crash
  BY <1>1 DEF StartScan, Crash, Walked
<1>2. CASE CountMembers \/ FinishScan \/ MarkIdle
  BY <1>2 DEF CountMembers, FinishScan, MarkIdle, Walked
<1>3. CASE FetchBatch \/ SendMember
  BY <1>3 DEF FetchBatch, SendMember, Walked
<1>4. CASE WalkRow
  <2> DEFINE m == Min(batch)
  <2>1. m \in batch /\ m \in Ids /\ m \in table /\ m > lastID
    BY <1>4, NextRowOfBatch DEF WalkRow, Cursor
  <2>2. lastID' = m /\ table' = table
    BY <1>4 DEF WalkRow
  <2>3. \A x \in Ids \ {m} : fate'[x] = fate[x]
    BY <1>4 DEF WalkRow, TypeOK
  <2>4. lastID \in Nat /\ \A x \in Ids : x \in Nat
    BY Constants DEF TypeOK
  <2> HIDE DEF m
  <2> QED BY <2>1, <2>2, <2>3, <2>4 DEF Walked
<1>5. ASSUME NEW w \in Workers, TakeMember(w)
      PROVE  Walked'
  <2>1. Head(ch) \in Ids /\ Head(ch) \in Elements(ch)
    BY <1>5, HeadTailProperties, Taking DEF TakeMember, TypeOK, Placement
  <2>2. fate[Head(ch)] # "unseen"
    BY <2>1 DEF Placement
  <2>3. \A x \in Ids : fate'[x] # "unseen" => fate[x] # "unseen"
    BY <1>5, <2>1, <2>2 DEF TakeMember, TypeOK
  <2> QED BY <1>5, <2>3 DEF TakeMember, Walked
<1>6. ASSUME NEW w \in Workers, StopWorker(w) \/ Keeps(w)
      PROVE  Walked'
  BY <1>6 DEF StopWorker, Keeps, Walked
<1>7. ASSUME NEW w \in Workers, Ends(w)
      PROVE  Walked'
  <2>1. member[w] \in Ids /\ fate[member[w]] = "working"
    BY <1>7, BusyWorker DEF Ends
  <2>2. \A x \in Ids : fate'[x] # "unseen" => fate[x] # "unseen"
    BY <1>7, <2>1 DEF Ends, EndMember, TypeOK
  <2> QED BY <1>7, <2>2 DEF Ends, Walked
<1>8. CASE \E m \in Ids : Insert(m) \/ Age(m)
  BY <1>8 DEF Insert, Age, Walked
<1>9. CASE UNCHANGED vars
  BY <1>9 DEF vars, Walked
<1> QED BY <1>1, <1>2, <1>3, <1>4, <1>5, <1>6, <1>7, <1>8, <1>9
        DEF StepKinds, Main, Producer

(* What LIMIT and ORDER BY id give the producer: some row if there is one, *)
(* and no row before one it leaves for later.                              *)
LEMMA LowestFirst ==
  ASSUME NEW S \in SUBSET Ids
  PROVE  /\ S # {} => Lowest(S) # {}
         /\ \A x \in Lowest(S), y \in S \ Lowest(S) : x < y
<1> DEFINE Below(x) == {z \in S : z < x}
<1>1. IsFiniteSet(S) /\ S \in SUBSET Nat
  BY Constants, FS_Subset
<1>2. \A x : IsFiniteSet(Below(x)) /\ Cardinality(Below(x)) \in Nat
  <2> TAKE x
  <2>1. Below(x) \in SUBSET S OBVIOUS
  <2> HIDE DEF Below
  <2> QED BY <1>1, <2>1, FS_Subset, FS_CardinalityType
<1>3. \A x \in S : x \in Lowest(S) <=> Cardinality(Below(x)) < BatchSize
  BY DEF Lowest
<1>4. ASSUME S # {}
      PROVE  Lowest(S) # {}
  <2>1. Min(S) \in S /\ \A x \in S : Min(S) <= x
    BY <1>1, <1>4, MinOfNats
  <2>2. Min(S) \in Nat /\ \A x \in S : x \in Nat
    BY <1>1, <2>1
  <2>3. Below(Min(S)) = {}
    BY <2>1, <2>2
  <2>4. Cardinality(Below(Min(S))) < BatchSize
    BY <2>3, FS_EmptySet, Constants
  <2> HIDE DEF Below
  <2> QED BY <1>3, <2>1, <2>4
<1>5. ASSUME NEW x \in Lowest(S), NEW y \in S \ Lowest(S)
      PROVE  x < y
  <2>1. x \in S /\ x \in Nat /\ y \in Nat
    BY <1>1 DEF Lowest
  <2>2. ASSUME ~(x < y)
        PROVE  FALSE
    <3>1. \A z \in S : z < y => z < x
      BY <1>1, <2>1, <2>2
    <3>2. Below(y) \in SUBSET Below(x)
      BY <3>1
    <3>3. Cardinality(Below(y)) <= Cardinality(Below(x))
      <4> HIDE DEF Below
      <4> QED BY <1>2, <3>2, FS_Subset
    <3>4. Cardinality(Below(x)) < BatchSize /\ ~(Cardinality(Below(y)) < BatchSize)
      BY <1>3, <1>5, <2>1
    <3> HIDE DEF Below
    <3> QED BY <1>2, <3>3, <3>4, Constants
  <2> QED BY <2>2
<1> HIDE DEF Below
<1> QED BY <1>4, <1>5

(* Where fates are not taken back, the rows still to be walked get fewer.  *)
LEMMA UnwalkedShrinks ==
  ASSUME IInv, StepKinds, ~StartScan, ~Crash, ~CountMembers
  PROVE  Unwalked' \subseteq Unwalked
<1> USE DEF IInv
<1>1. start' = start
  BY DEF StepKinds, Main, Producer, FinishScan, MarkIdle, FetchBatch, WalkRow, SendMember,
         TakeMember, StopWorker, Keeps, Ends, Insert, Age, vars
<1>2. \A m \in Ids : fate'[m] = "unseen" => fate[m] = "unseen"
  <2>1. CASE WalkRow
    BY <2>1 DEF WalkRow, TypeOK
  <2>2. CASE \E w \in Workers : TakeMember(w)
    BY <2>2 DEF TakeMember, TypeOK
  <2>3. CASE \E w \in Workers : Ends(w)
    BY <2>3 DEF Ends, EndMember, Taken, TypeOK
  <2> QED BY <2>1, <2>2, <2>3 DEF StepKinds, Main, Producer, FinishScan, MarkIdle, FetchBatch,
         SendMember, StopWorker, Keeps, Insert, Age, vars
<1>3. start \subseteq Ids
  BY DEF TypeOK
<1> QED BY <1>1, <1>2, <1>3 DEF Unwalked

(* The rows not yet walked lie ahead of the cursor. *)
LEMMA AheadStep ==
  ASSUME IInv, StepKinds
  PROVE  Ahead'
<1> USE DEF IInv
<1>1. CASE StartScan
  BY <1>1 DEF StartScan, Ahead
<1>2. CASE CountMembers
  <2>1. CASE scan' = "returned"
    <3>1. Unwalked' = {}
      BY <1>2, <2>1 DEF CountMembers, Phases, Unwalked
    <3> QED BY <2>1, <3>1 DEF Ahead
  <2>2. CASE scan' = "running"
    <3>1. /\ prod' = "fetch" /\ batch' = batch /\ lastID' = lastID
          /\ scan = "counting"
      BY <1>2, <2>2 DEF CountMembers
    <3>2. batch' = {} /\ lastID' = 0
      BY <3>1 DEF Phases, Cursor
    <3>3. \A m \in Unwalked' : m \in Ids
      BY <1>2, <2>2 DEF CountMembers, TypeOK, Unwalked
    <3> QED BY <2>2, <3>1, <3>2, <3>3, Constants DEF Ahead
  <2> QED BY <1>2, <2>1, <2>2 DEF CountMembers
<1>3. CASE FinishScan
  BY <1>3, UnwalkedShrinks DEF FinishScan, Ahead, Unwalked
<1>4. CASE MarkIdle
  BY <1>4 DEF MarkIdle, Ahead
<1>5. CASE FetchBatch
  <2> DEFINE rows == NextRows(lastID)
  <2>1. scan = "running" /\ batch = {} /\ prod = "fetch" /\ UNCHANGED <<scan, lastID>>
    BY <1>5 DEF FetchBatch, Phases, Cursor
  <2>2. Unwalked' = Unwalked /\ rows \in SUBSET Ids
    BY <1>5 DEF FetchBatch, Unwalked, NextRows, TypeOK
  <2>3. Unwalked \subseteq rows
    BY <2>1 DEF Ahead, Unwalked, NextRows, TypeOK
  <2>4. CASE batch' = Lowest(rows) /\ prodErr' = prodErr
    <3>1. CASE batch' = {}
      <4>1. rows = {}
        BY <2>2, <2>4, <3>1, LowestFirst
      <4>2. prod' = "closed"
        BY <1>5, <3>1 DEF FetchBatch
      <4> QED BY <2>1, <2>2, <2>3, <4>1, <4>2 DEF Ahead
    <3>2. CASE batch' # {}
      <4>1. prod' # "closed" \/ prodErr'
        BY <1>5, <3>2 DEF FetchBatch
      <4>2. \A m \in rows : m > lastID
        BY DEF NextRows
      <4>3. \A m \in Unwalked : m \in batch' \/ (m > lastID /\ \A x \in batch' : x < m)
        BY <2>2, <2>3, <2>4, <4>2, LowestFirst
      <4> HIDE DEF rows
      <4> QED BY <2>1, <2>2, <4>1, <4>3 DEF Ahead
    <3> QED BY <3>1, <3>2
  <2>5. CASE prod' = "closed" /\ prodErr'
    BY <2>1, <2>5 DEF Ahead
  <2> QED BY <1>5, <2>4, <2>5 DEF FetchBatch
<1>6. CASE WalkRow
  <2> DEFINE m == Min(batch)
  <2>1. /\ m \in batch /\ m \in Ids /\ batch \subseteq Ids /\ scan = "running"
        /\ \A x \in batch : m <= x
    BY <1>6, NextRowOfBatch DEF WalkRow, Cursor, Phases, TypeOK
  <2>2. lastID' = m /\ scan' = scan /\ prod' # "closed" /\ batch' \in {batch, batch \ {m}}
    BY <1>6 DEF WalkRow
  <2>3. fate'[m] # "unseen"
    BY <1>6, <2>1 DEF WalkRow, TypeOK
  <2>4. Unwalked' \subseteq Unwalked
    BY <1>6, UnwalkedShrinks DEF WalkRow, StartScan, Crash, CountMembers, Phases
  <2>5. m \notin Unwalked'
    BY <2>3 DEF Unwalked
  <2>6. \A y \in Unwalked : y \in Ids /\ (y \in batch \/ \A x \in batch : x < y)
    BY <1>6, <2>1 DEF WalkRow, Ahead, Unwalked, TypeOK
  <2> HIDE DEF m
  <2>7. \A y \in Unwalked' : y \in batch' \/ (y > m /\ \A x \in batch' : x < y)
    BY <2>1, <2>2, <2>4, <2>5, <2>6, Constants
  <2> QED BY <2>1, <2>2, <2>7 DEF Ahead
<1>7. CASE SendMember
  <2>1. /\ scan = "running" /\ UNCHANGED <<scan, lastID>> /\ prod' # "closed"
        /\ batch' = batch \ {lastID} /\ Unwalked' = Unwalked /\ prod = "send"
    BY <1>7 DEF SendMember, Phases, Unwalked
  <2>2. lastID \in Ids /\ fate[lastID] = "queued"
    BY <2>1 DEF Cursor, TypeOK, Placement
  <2>3. lastID \notin Unwalked
    BY <2>2 DEF Unwalked
  <2> QED BY <2>1, <2>3 DEF Ahead
<1>8. CASE \E w \in Workers : TakeMember(w) \/ StopWorker(w) \/ Keeps(w) \/ Ends(w)
  <2>1. UNCHANGED <<scan, prod, prodErr, batch, lastID>>
    BY <1>8 DEF TakeMember, StopWorker, Keeps, Ends
  <2>2. scan = "running"
    BY <1>8, BusyWorker DEF TakeMember, StopWorker, Keeps, Ends, Phases
  <2>3. Unwalked' \subseteq Unwalked
    BY <2>1, <2>2, UnwalkedShrinks, Constants DEF StartScan, CountMembers, Crash
  <2> QED BY <2>1, <2>3 DEF Ahead
<1>9. CASE \E m \in Ids : Insert(m) \/ Age(m)
  BY <1>9 DEF Insert, Age, Ahead, Unwalked
<1>10. CASE Crash
  BY <1>10 DEF Crash, Ahead
<1>11. CASE UNCHANGED vars
  BY <1>11 DEF vars, Ahead, Unwalked
<1> QED BY <1>1, <1>2, <1>3, <1>4, <1>5, <1>6, <1>7, <1>8, <1>9, <1>10, <1>11
        DEF StepKinds, Main, Producer

(* Each member stays in one place.                                         *)
LEMMA PlacementStep ==
  ASSUME IInv, StepKinds
  PROVE  Placement'
<1> USE DEF IInv
<1>1. CASE StartScan
  <2>1. /\ prod' = "off" /\ ch' = <<>> /\ member' = member
        /\ \A w \in Workers : member[w] = None
        /\ \A m \in Ids : fate'[m] = "unseen"
    BY <1>1 DEF StartScan, Phases, Jobs, Job
  <2> QED BY <2>1, Constants DEF Placement, Elements, Distinct
<1>2. CASE Crash
  <2>1. /\ prod' = "off" /\ ch' = <<>>
        /\ \A w \in Workers : member'[w] = None
        /\ \A m \in Ids : fate'[m] = "unseen"
    BY <1>2 DEF Crash
  <2> QED BY <2>1, Constants DEF Placement, Elements, Distinct
<1>3. CASE CountMembers \/ FinishScan \/ MarkIdle \/ FetchBatch
  <2>1. prod # "send" /\ prod' # "send" /\ UNCHANGED <<ch, member, fate>>
    BY <1>3 DEF CountMembers, FinishScan, MarkIdle, FetchBatch, Phases
  <2> QED BY <2>1 DEF Placement
<1>4. CASE WalkRow
  <2> DEFINE m == Min(batch)
  <2>1. m \in Ids /\ m > lastID
    BY <1>4, NextRowOfBatch DEF WalkRow, Cursor
  <2>2. fate[m] = "unseen"
    <3> HIDE DEF m
    <3>1. m \in Nat /\ lastID \in Nat
      BY <2>1, Constants DEF TypeOK
    <3> QED BY <2>1, <3>1 DEF Walked
  <2>3. m \notin Elements(ch) /\ ~\E w \in Workers : member[w] = m
    BY <2>1, <2>2 DEF Placement
  <2>4. prod = "walk" /\ lastID' = m /\ UNCHANGED <<ch, member>>
    BY <1>4 DEF WalkRow
  <2>5. \/ prod' = "send" /\ fate' = [fate EXCEPT ![m] = "queued"]
        \/ prod' # "send" /\ fate' = [fate EXCEPT ![m] = "filtered"]
    BY <1>4 DEF WalkRow
  <2> HIDE DEF m
  <2>6. \A x \in Ids : x # m => fate'[x] = fate[x]
    BY <2>5 DEF TypeOK
  <2>7. fate'[m] = (IF prod' = "send" THEN "queued" ELSE "filtered")
    BY <2>1, <2>5 DEF TypeOK
  <2>8. \A x \in Ids : fate'[x] = "queued" <=> (prod' = "send" /\ lastID' = x) \/ x \in Elements(ch')
    BY <2>3, <2>4, <2>6, <2>7 DEF Placement
  <2>9. \A x \in Ids : fate'[x] = "working" <=> \E w \in Workers : member'[w] = x
    BY <2>3, <2>4, <2>6, <2>7 DEF Placement
  <2> QED BY <2>3, <2>4, <2>8, <2>9 DEF Placement
<1>5. CASE SendMember
  <2>1. lastID \in Ids /\ lastID \notin Elements(ch) /\ ch \in Seq(Ids) /\ Distinct(ch)
    BY <1>5 DEF SendMember, Cursor, Placement, TypeOK
  <2>2. /\ prod = "send" /\ prod' # "send" /\ UNCHANGED <<lastID, member, fate>>
        /\ ch' = Append(ch, lastID)
    BY <1>5 DEF SendMember
  <2>3. Elements(ch') = Elements(ch) \cup {lastID} /\ Distinct(ch')
    BY <2>1, <2>2, Sending
  <2> QED BY <2>2, <2>3 DEF Placement
<1>6. ASSUME NEW w \in Workers, TakeMember(w)
      PROVE  Placement'
  <2> DEFINE m == Head(ch)
  <2>1. ch # <<>> /\ ch \in Seq(Ids) /\ Distinct(ch)
    BY <1>6 DEF TakeMember, Placement, TypeOK
  <2>2. m \in Ids /\ m \in Elements(ch) /\ Distinct(ch') /\ Elements(ch') = Elements(ch) \ {m}
    BY <1>6, <2>1, Taking, HeadTailProperties DEF TakeMember
  <2>3. /\ fate' = [fate EXCEPT ![m] = "working"] /\ member' = [member EXCEPT ![w] = m]
        /\ UNCHANGED <<prod, lastID>>
    BY <1>6 DEF TakeMember
  <2>4. member[w] = None
    BY <1>6 DEF TakeMember, Jobs, Job
  <2>5. fate[m] = "queued" /\ ~(prod = "send" /\ lastID = m)
    BY <2>2 DEF Placement
  <2>6. \A v \in Workers : member[v] # m
    BY <2>2, <2>5 DEF Placement
  <2> HIDE DEF m
  <2>7. \A x \in Ids : fate'[x] = IF x = m THEN "working" ELSE fate[x]
    BY <2>3 DEF TypeOK
  <2>8. \A v \in Workers : member'[v] = IF v = w THEN m ELSE member[v]
    BY <2>3 DEF TypeOK
  <2>9. \A x \in Ids : fate'[x] = "queued" <=> (prod' = "send" /\ lastID' = x) \/ x \in Elements(ch')
    BY <2>2, <2>3, <2>5, <2>7 DEF Placement
  <2>10. \A x \in Ids : fate'[x] = "working" <=> \E v \in Workers : member'[v] = x
    BY <2>4, <2>6, <2>7, <2>8, Constants DEF Placement
  <2>11. \A u, v \in Workers : member'[u] = member'[v] /\ member'[u] # None => u = v
    BY <2>6, <2>8 DEF Placement
  <2> QED BY <2>2, <2>3, <2>9, <2>10, <2>11 DEF Placement
<1>7. ASSUME NEW w \in Workers, StopWorker(w) \/ Keeps(w)
      PROVE  Placement'
  BY <1>7 DEF StopWorker, Keeps, Placement
<1>8. ASSUME NEW w \in Workers, Ends(w)
      PROVE  Placement'
  <2>1. PICK f \in Taken \ {"working"} : EndMember(w, f)
    BY <1>8 DEF Ends
  <2>2. member[w] \in Ids /\ fate[member[w]] = "working" /\ f # "working" /\ f # "queued"
    BY <1>8, <2>1, BusyWorker DEF Ends, Taken
  <2>3. UNCHANGED <<prod, lastID, ch>>
    BY <1>8 DEF Ends
  <2>4. \A x \in Ids : fate'[x] = IF x = member[w] THEN f ELSE fate[x]
    BY <2>1, <2>2 DEF EndMember, TypeOK
  <2>5. \A v \in Workers : member'[v] = IF v = w THEN None ELSE member[v]
    BY <2>1 DEF EndMember, TypeOK
  <2> QED BY <2>2, <2>3, <2>4, <2>5, Constants DEF Placement
<1>9. CASE \E m \in Ids : Insert(m) \/ Age(m)
  BY <1>9 DEF Insert, Age, Placement
<1>10. CASE UNCHANGED vars
  BY <1>10 DEF vars, Placement
<1> QED BY <1>1, <1>2, <1>3, <1>4, <1>5, <1>6, <1>7, <1>8, <1>9, <1>10
        DEF StepKinds, Main, Producer

(* A member is not marked as synced before its sync has come to its end,   *)
(* and is owed nothing from then on until the producer queues it again.    *)
LEMMA OwingStep ==
  ASSUME IInv, StepKinds
  PROVE  Owing'
<1> USE DEF IInv
<1>1. CASE Crash
  BY <1>1 DEF Crash, Owing
<1>2. CASE StartScan \/ FinishScan \/ MarkIdle \/ FetchBatch \/ SendMember
  BY <1>2 DEF StartScan, FinishScan, MarkIdle, FetchBatch, SendMember, Owing
<1>3. CASE CountMembers
  BY <1>3 DEF CountMembers, Owing
<1>4. CASE WalkRow
  <2> DEFINE m == Min(batch)
  <2>1. m \in Ids /\ fate[m] # "working"
    <3>1. m \in batch /\ m \in Ids
      BY <1>4, NextRowOfBatch DEF WalkRow, Cursor
    <3>2. m > lastID /\ m \in Nat /\ lastID \in Nat
      BY <1>4, <3>1, Constants DEF WalkRow, Cursor, TypeOK
    <3>3. ~(m <= lastID)
      BY <3>2
    <3> QED BY <3>1, <3>3 DEF Walked
  <2>2. \A w \in Workers : member[w] # m
    BY <2>1 DEF Placement
  <2>3. owed' = owed \/ (owed' = owed \cup {m} /\ m \notin recent)
    BY <1>4 DEF WalkRow, FilterReason
  <2>4. UNCHANGED <<recent, pc, member>>
    BY <1>4 DEF WalkRow
  <2> HIDE DEF m
  <2> QED BY <2>2, <2>3, <2>4 DEF Owing
<1>5. ASSUME NEW w \in Workers, TakeMember(w) \/ StopWorker(w)
      PROVE  Owing'
  BY <1>5 DEF TakeMember, StopWorker, Owing, TypeOK
<1>6. ASSUME NEW w \in Workers, Keeps(w)
      PROVE  Owing'
  BY <1>6 DEF Keeps, Owing, TypeOK
<1>7. ASSUME NEW w \in Workers, Ends(w)
      PROVE  Owing'
  <2>1. /\ pc' = [pc EXCEPT ![w] = "idle"] /\ member' = [member EXCEPT ![w] = None]
        /\ recent' = recent \/ (pc[w] = "mark" /\ recent' = recent \cup {member[w]})
        /\ owed' = owed
    BY <1>7 DEF Ends, EndMember
  <2> QED BY <2>1 DEF Owing, TypeOK
<1>8. CASE \E m \in Ids : Insert(m) \/ Age(m)
  BY <1>8 DEF Insert, Age, Owing
<1>9. CASE UNCHANGED vars
  BY <1>9 DEF vars, Owing
<1> QED BY <1>1, <1>2, <1>3, <1>4, <1>5, <1>6, <1>7, <1>8, <1>9
        DEF StepKinds, Main, Producer

(* A worker's variables fit the step it is at.                             *)
LEMMA JobsStep ==
  ASSUME IInv, [Next]_vars
  PROVE  Jobs'
<1> USE DEF IInv
<1> SUFFICES ASSUME NEW v \in Workers PROVE Job(v)'
  BY DEF Jobs
<1>1. Job(v)
  BY DEF Jobs
<1>2. ASSUME UNCHANGED workerVars
      PROVE  Job(v)'
  BY <1>1, <1>2 DEF Job
<1>3. CASE StartScan \/ FinishScan \/ MarkIdle \/ Producer
           \/ (\E m \in Ids : Insert(m) \/ Age(m)) \/ UNCHANGED vars
  BY <1>2, <1>3 DEF StartScan, FinishScan, MarkIdle, Producer, FetchBatch, WalkRow, SendMember,
       Insert, Age, vars
<1>4. CASE CountMembers
  <2>1. CASE scan' = "returned"
    BY <1>2, <1>4, <2>1 DEF CountMembers
  <2>2. CASE scan' = "running"
    <3>1. pc[v] = "gone" /\ pc'[v] = "idle" /\ UNCHANGED jobVars
      BY <1>4, <2>2 DEF CountMembers, Phases
    <3> QED BY <1>1, <3>1 DEF Job
  <2> QED BY <1>4, <2>1, <2>2 DEF CountMembers
<1>5. CASE Crash
  BY <1>5 DEF Crash, Job
<1>6. ASSUME NEW w \in Workers, Worker(w) \/ Panic(w) \/ Expire(w)
      PROVE  Job(v)'
  <2> USE <1>1 DEF Job, TypeOK
  <2>1. Job(w)
    BY DEF Jobs
  <2>2. CASE TakeMember(w)
    <3>1. Head(ch) \in Ids /\ Head(ch) # None
      BY <2>2, HeadTailProperties, Constants DEF TakeMember
    <3> QED BY <2>1, <2>2, <3>1 DEF TakeMember
  <2>3. CASE StopWorker(w)
    BY <2>1, <2>3 DEF StopWorker
  <2>4. CASE AcquireKey(w)
    BY <2>1, <2>4 DEF AcquireKey
  <2>5. CASE Wake(w)
    BY <2>1, <2>5 DEF Wake
  <2>6. ASSUME NEW f, EndMember(w, f), \A u \in Workers \ {w} : lease'[u] = lease[u]
        PROVE  Job(v)'
    BY <2>1, <2>6 DEF EndMember
  <2>7. CASE GiveUp(w) \/ FFLogsFails(w) \/ MarkSynced(w) \/ Panic(w)
    BY <2>6, <2>7 DEF GiveUp, FFLogsFails, MarkSynced, Panic
  <2>8. CASE ResolveCharacter(w)
    BY <2>1, <2>8 DEF ResolveCharacter
  <2>9. CASE FetchBestFights(w)
    <3>1. PICK n \in 0..Zones : /\ left' = [left EXCEPT ![w] = n]
                                /\ pc' = [pc EXCEPT ![w] = AfterZones(n)]
      BY <2>9 DEF FetchBestFights
    <3> QED BY <2>1, <2>9, <3>1 DEF FetchBestFights, AfterZones
  <2>10. ASSUME NextZone(w), pc[w] \in {"build", "upload"}
         PROVE  /\ pc'[w] \in {"build", "release"} /\ (pc'[w] = "build" => left'[w] > 0)
                /\ \A u \in Workers \ {w} : pc'[u] = pc[u] /\ left'[u] = left[u]
    <3>1. left[w] \in Nat /\ left[w] > 0
      BY <2>1, <2>10, Constants
    <3>2. left'[w] = left[w] - 1 /\ pc'[w] = AfterZones(left[w] - 1)
      BY <2>10 DEF NextZone
    <3>3. pc'[w] \in {"build", "release"} /\ (pc'[w] = "build" => left'[w] > 0)
      BY <3>1, <3>2 DEF AfterZones
    <3> QED BY <2>10, <3>3 DEF NextZone
  <2>11. CASE BuildZone(w)
    <3>1. CASE NextZone(w)
      BY <2>1, <2>10, <2>11, <3>1 DEF BuildZone
    <3>2. CASE pc' = [pc EXCEPT ![w] = "upload"] /\ UNCHANGED left
      BY <2>1, <2>11, <3>2 DEF BuildZone
    <3> QED BY <2>11, <3>1, <3>2 DEF BuildZone
  <2>12. CASE UploadZone(w)
    <3>1. \A u \in Workers \ {w} : posted'[u] = posted[u]
      BY <2>12 DEF UploadZone
    <3> QED BY <2>1, <2>10, <2>12, <3>1 DEF UploadZone
  <2>13. CASE ReleaseKey(w)
    BY <2>1, <2>13 DEF ReleaseKey
  <2>14. CASE Expire(w)
    BY <2>1, <2>14 DEF Expire
  <2> QED BY <1>6, <2>2, <2>3, <2>4, <2>5, <2>7, <2>8, <2>9, <2>11, <2>12, <2>13, <2>14
          DEF Worker
<1> QED BY <1>3, <1>4, <1>5, <1>6 DEF Next, Main

-----------------------------------------------------------------------------
(* stateStore.                                                             *)

(* The number of workers blocked on a key, when one of them moves.         *)
Waiting == {w \in Workers : Blocked(w)}

(* How the number of waiting workers follows a worker's program counter. *)
LEMMA WaitingMoves ==
  ASSUME TypeOK, NEW w \in Workers, NEW p, pc' = [pc EXCEPT ![w] = p]
  PROVE  /\ Cardinality(Waiting) \in Nat
         /\ Cardinality(Waiting') =
              IF p \in {"wait", "retry"}
              THEN IF Blocked(w) THEN Cardinality(Waiting) ELSE Cardinality(Waiting) + 1
              ELSE IF Blocked(w) THEN Cardinality(Waiting) - 1 ELSE Cardinality(Waiting)
<1>1. IsFiniteSet(Waiting) /\ (w \in Waiting <=> Blocked(w))
  BY Constants, FS_Subset DEF Waiting
<1>2. Cardinality(Waiting) \in Nat
  BY <1>1, FS_CardinalityType
<1>3. Waiting' = IF p \in {"wait", "retry"} THEN Waiting \cup {w} ELSE Waiting \ {w}
  BY DEF TypeOK, Waiting, Blocked
<1>4. Cardinality(Waiting \cup {w}) =
        IF w \in Waiting THEN Cardinality(Waiting) ELSE Cardinality(Waiting) + 1
  BY <1>1, FS_AddElement
<1>5. Cardinality(Waiting \ {w}) =
        IF w \in Waiting THEN Cardinality(Waiting) - 1 ELSE Cardinality(Waiting)
  BY <1>1, FS_RemoveElement
<1>6. CASE p \in {"wait", "retry"}
  BY <1>1, <1>2, <1>3, <1>4, <1>6
<1>7. CASE p \notin {"wait", "retry"}
  BY <1>1, <1>2, <1>3, <1>5, <1>7
<1> QED BY <1>2, <1>6, <1>7

(* Outside a scan nobody waits and no countdown is shown. *)
LEMMA NobodyWaits ==
  ASSUME IInv, scan # "running"
  PROVE  status.waiting = 0 /\ status.keysRecoverAt = None /\ Waiting = {}
<1>1. Waiting = {}
  BY DEF IInv, Phases, Waiting, Blocked
<1> QED BY <1>1, FS_EmptySet DEF IInv, StatusAgrees, Waiting

(* StatusAgrees is inductive, given the rest. *)
LEMMA StatusStep ==
  ASSUME IInv, [Next]_vars
  PROVE  StatusAgrees'
<1> USE DEF IInv
<1>1. /\ status.waiting = Cardinality(Waiting)
      /\ status.state = "waiting_for_keys" <=> status.waiting > 0
      /\ status.state = "idle" <=> scan = "asleep"
      /\ status.keysRecoverAt # None => status.waiting > 0
      /\ status.nextScan => status.state = "idle"
      /\ status.waiting \in Nat /\ status \in Statuses
  BY DEF StatusAgrees, Waiting, TypeOK, Statuses
<1> SUFFICES /\ status'.waiting = Cardinality(Waiting')
             /\ status'.state = "waiting_for_keys" <=> status'.waiting > 0
             /\ status'.state = "idle" <=> scan' = "asleep"
             /\ status'.keysRecoverAt # None => status'.waiting > 0
             /\ status'.nextScan => status'.state = "idle"
  BY DEF StatusAgrees, Waiting
<1>2. CASE StartScan
  <2>1. Waiting' = {}
    BY <1>2, NobodyWaits DEF StartScan, Waiting, Blocked
  <2>2. /\ status'.waiting = 0 /\ status'.state = "scanning" /\ status'.keysRecoverAt = None
        /\ ~status'.nextScan /\ scan' = "counting"
    BY <1>1, <1>2, NobodyWaits DEF StartScan, MarkScanStarted, Statuses
  <2> QED BY <2>1, <2>2, FS_EmptySet
<1>3. CASE CountMembers
  <2>1. Waiting' = {} /\ Waiting = {}
    BY <1>3, NobodyWaits DEF CountMembers, Waiting, Blocked
  <2>2. scan = "counting" /\ scan' # "asleep" /\ status' = status
    BY <1>3 DEF CountMembers
  <2> QED BY <1>1, <2>1, <2>2
<1>4. CASE MarkIdle
  <2>1. Waiting' = {}
    BY <1>4, NobodyWaits DEF MarkIdle, Waiting, Blocked
  <2>2. /\ status'.waiting = 0 /\ status'.state = "idle" /\ status'.keysRecoverAt = None
        /\ scan' = "asleep"
    BY <1>1, <1>4, NobodyWaits DEF MarkIdle, MarkedIdle, Statuses
  <2> QED BY <2>1, <2>2, FS_EmptySet
<1>5. CASE FinishScan \/ Producer \/ (\E m \in Ids : Insert(m) \/ Age(m)) \/ UNCHANGED vars
  <2>1. UNCHANGED <<pc, status>> /\ (scan' = "asleep" <=> scan = "asleep")
    BY <1>5 DEF FinishScan, Producer, FetchBatch, WalkRow, SendMember, Insert, Age, vars
  <2>2. Waiting' = Waiting
    BY <2>1 DEF Waiting, Blocked
  <2> QED BY <1>1, <2>1, <2>2
<1>6. CASE Crash
  <2>1. Waiting' = {}
    BY <1>6 DEF Crash, Waiting, Blocked
  <2> QED BY <1>6, <2>1, FS_EmptySet DEF Crash
<1>7. ASSUME NEW w \in Workers, Worker(w) \/ Panic(w) \/ Expire(w)
      PROVE  /\ status'.waiting = Cardinality(Waiting')
             /\ status'.state = "waiting_for_keys" <=> status'.waiting > 0
             /\ status'.state = "idle" <=> scan' = "asleep"
             /\ status'.keysRecoverAt # None => status'.waiting > 0
             /\ status'.nextScan => status'.state = "idle"
  <2>1. scan = "running" /\ scan' = scan
    BY <1>7, WorkerKinds, BusyWorker DEF TakeMember, StopWorker, Keeps, Ends, Phases
  <2>2. ASSUME status' = status, Cardinality(Waiting') = Cardinality(Waiting)
        PROVE  /\ status'.waiting = Cardinality(Waiting')
               /\ status'.state = "waiting_for_keys" <=> status'.waiting > 0
               /\ status'.state = "idle" <=> scan' = "asleep"
               /\ status'.keysRecoverAt # None => status'.waiting > 0
               /\ status'.nextScan => status'.state = "idle"
    BY <1>1, <2>1, <2>2
  <2>3. ASSUME status' = WaitLeft, Blocked(w), Cardinality(Waiting') = Cardinality(Waiting) - 1
        PROVE  /\ status'.waiting = Cardinality(Waiting')
               /\ status'.state = "waiting_for_keys" <=> status'.waiting > 0
               /\ status'.state = "idle" <=> scan' = "asleep"
               /\ status'.keysRecoverAt # None => status'.waiting > 0
               /\ status'.nextScan => status'.state = "idle"
    <3>1. /\ status.waiting > 0 /\ status.state = "waiting_for_keys" /\ ~status.nextScan
          /\ scan' # "asleep"
      BY <1>1, <2>1, <2>3, BlockedCounted
    <3> QED BY <1>1, <2>3, <3>1 DEF WaitLeft, Statuses
  <2>4. ASSUME NEW r, status' = WaitEntered(r), Cardinality(Waiting') = Cardinality(Waiting) + 1
        PROVE  /\ status'.waiting = Cardinality(Waiting')
               /\ status'.state = "waiting_for_keys" <=> status'.waiting > 0
               /\ status'.state = "idle" <=> scan' = "asleep"
               /\ status'.keysRecoverAt # None => status'.waiting > 0
               /\ status'.nextScan => status'.state = "idle"
    <3>1. status.state # "idle" /\ ~status.nextScan /\ scan' # "asleep"
      BY <1>1, <2>1
    <3> QED BY <1>1, <2>4, <3>1 DEF WaitEntered, Statuses
  <2>5. CASE AcquireKey(w)
    <3>1. CASE pc' = [pc EXCEPT ![w] = "resolve"] /\ status' = IF Blocked(w) THEN WaitLeft ELSE status
      <4>1. Cardinality(Waiting') =
              IF Blocked(w) THEN Cardinality(Waiting) - 1 ELSE Cardinality(Waiting)
        BY <3>1, WaitingMoves
      <4> QED BY <2>2, <2>3, <3>1, <4>1
    <3>2. CASE /\ pc' = [pc EXCEPT ![w] = "wait"]
               /\ IF Blocked(w) THEN UNCHANGED status
                  ELSE \E resetAt \in Resets \cup {None} : status' = WaitEntered(resetAt)
      <4>1. Cardinality(Waiting') =
              IF Blocked(w) THEN Cardinality(Waiting) ELSE Cardinality(Waiting) + 1
        BY <3>2, WaitingMoves
      <4> QED BY <2>2, <2>4, <3>2, <4>1
    <3> QED BY <2>5, <3>1, <3>2 DEF AcquireKey
  <2>6. CASE GiveUp(w)
    <3>1. status' = WaitLeft /\ Blocked(w) /\ pc' = [pc EXCEPT ![w] = "idle"]
      BY <2>6 DEF GiveUp, EndMember, Blocked
    <3>2. Cardinality(Waiting') = Cardinality(Waiting) - 1
      BY <3>1, WaitingMoves
    <3> QED BY <2>3, <3>1, <3>2
  <2>7. CASE ~AcquireKey(w) /\ ~GiveUp(w)
    <3>1. status' = status
      BY <1>7, <2>7 DEF Worker, TakeMember, StopWorker, Wake, ResolveCharacter, FetchBestFights,
           BuildZone, UploadZone, FFLogsFails, ReleaseKey, MarkSynced, Panic, Expire
    <3>2. \E p : pc' = [pc EXCEPT ![w] = p] /\ (Blocked(w) <=> p \in {"wait", "retry"})
      <4>1. CASE TakeMember(w) \/ StopWorker(w) \/ Wake(w) \/ ResolveCharacter(w) \/ ReleaseKey(w)
        BY <4>1 DEF TakeMember, StopWorker, Wake, ResolveCharacter, ReleaseKey, Blocked
      <4>2. CASE FetchBestFights(w) \/ BuildZone(w) \/ UploadZone(w)
        <5>1. \A n : AfterZones(n) \in {"release", "build"}
          BY DEF AfterZones
        <5> QED BY <4>2, <5>1 DEF FetchBestFights, BuildZone, UploadZone, NextZone, Blocked
      <4>3. CASE FFLogsFails(w) \/ MarkSynced(w) \/ Panic(w)
        BY <4>3 DEF FFLogsFails, MarkSynced, Panic, EndMember, Blocked, Calls
      <4>4. CASE Expire(w)
        <5>1. pc' = [pc EXCEPT ![w] = pc[w]]
          BY <4>4 DEF Expire, TypeOK
        <5> QED BY <5>1 DEF Blocked
      <4> QED BY <1>7, <2>7, <4>1, <4>2, <4>3, <4>4 DEF Worker
    <3>3. Cardinality(Waiting') = Cardinality(Waiting)
      BY <3>2, WaitingMoves
    <3> QED BY <2>2, <3>1, <3>3
  <2> QED BY <2>5, <2>6, <2>7
<1> QED BY <1>2, <1>3, <1>4, <1>5, <1>6, <1>7 DEF Next, Main

-----------------------------------------------------------------------------
(* The counters.                                                           *)

(* The number of members with one of some fates, when one member's fate    *)
(* changes.                                                                *)
LEMMA HavingMoves ==
  ASSUME TypeOK, NEW m \in Ids, NEW f, fate' = [fate EXCEPT ![m] = f], NEW X
  PROVE  /\ IsFiniteSet(Having(X)) /\ Cardinality(Having(X)) \in Nat
         /\ Having(X)' = IF f \in X THEN Having(X) \cup {m} ELSE Having(X) \ {m}
         /\ Cardinality(Having(X)') =
              IF f \in X
              THEN IF fate[m] \in X THEN Cardinality(Having(X)) ELSE Cardinality(Having(X)) + 1
              ELSE IF fate[m] \in X THEN Cardinality(Having(X)) - 1 ELSE Cardinality(Having(X))
<1>1. IsFiniteSet(Having(X)) /\ (m \in Having(X) <=> fate[m] \in X)
  BY Constants, FS_Subset DEF Having
<1>2. Cardinality(Having(X)) \in Nat
  BY <1>1, FS_CardinalityType
<1>3. Having(X)' = IF f \in X THEN Having(X) \cup {m} ELSE Having(X) \ {m}
  BY DEF TypeOK, Having
<1>4. Cardinality(Having(X) \cup {m}) =
        IF m \in Having(X) THEN Cardinality(Having(X)) ELSE Cardinality(Having(X)) + 1
  BY <1>1, FS_AddElement
<1>5. Cardinality(Having(X) \ {m}) =
        IF m \in Having(X) THEN Cardinality(Having(X)) - 1 ELSE Cardinality(Having(X))
  BY <1>1, FS_RemoveElement
<1> QED BY <1>1, <1>2, <1>3, <1>4, <1>5

(* The sets of members and workers counted are finite.                     *)
LEMMA TallyFinite ==
  ASSUME TypeOK, Jobs
  PROVE  /\ NoCharacter \subseteq Ids /\ WithData \subseteq Ids /\ Uploaders \subseteq Workers
         /\ IsFiniteSet(NoCharacter) /\ IsFiniteSet(WithData) /\ IsFiniteSet(Uploaders)
         /\ Cardinality(NoCharacter) \in Nat /\ Cardinality(WithData) \in Nat
         /\ Cardinality(Uploaders) \in Nat
<1>1. \A v \in Workers : pc[v] = "mark" => member[v] \in Ids
  BY DEF TypeOK, Jobs, Job
<1>2. NoCharacter \subseteq Ids /\ WithData \subseteq Ids /\ Uploaders \subseteq Workers
  BY <1>1 DEF NoCharacter, WithData, Uploaders, Having
<1>3. IsFiniteSet(NoCharacter) /\ IsFiniteSet(WithData) /\ IsFiniteSet(Uploaders)
  BY <1>2, Constants, FS_Subset
<1> QED BY <1>2, <1>3, FS_CardinalityType

(* Nobody is at work and nothing has been counted.                         *)
LEMMA TallyStarts ==
  ASSUME counts' = NoCounts, \A m \in Ids : fate'[m] = "unseen",
         \A w \in Workers : pc'[w] = "gone" /\ ~posted'[w]
  PROVE  Tally'
<1>1. \A X : "unseen" \notin X => Having(X)' = {}
  BY DEF Having
<1>2. /\ Having(Fates \ {"unseen"})' = {} /\ Having(Taken \cup {"queued"})' = {}
      /\ Having({"failed"})' = {} /\ Having({"noChar"})' = {} /\ Having({"synced"})' = {}
  BY <1>1 DEF Taken
<1>3. NoCharacter' = {} /\ WithData' = {} /\ Uploaders' = {}
  BY <1>2 DEF NoCharacter, WithData, Uploaders
<1>4. \A c \in Counters : counts'[c] = 0
  BY DEF NoCounts
<1>5. /\ Cardinality(Having(Fates \ {"unseen"})') = 0
      /\ Cardinality(Having(Taken \cup {"queued"})') = 0
      /\ Cardinality(Having({"failed"})') = 0
      /\ Cardinality(NoCharacter') = 0 /\ Cardinality(WithData') = 0
      /\ Cardinality(Uploaders') = 0
  BY <1>2, <1>3, FS_EmptySet
<1>6. /\ counts'["walked"] = 0 /\ counts'["nonCN"] = 0 /\ counts'["recent"] = 0
      /\ counts'["queued"] = 0 /\ counts'["noChar"] = 0 /\ counts'["errors"] = 0
      /\ counts'["withData"] = 0 /\ counts'["uploaded"] = 0
  BY <1>4 DEF Counters
<1> QED BY <1>5, <1>6 DEF Tally

(* Nothing that is counted changes.                                        *)
LEMMA TallyStays ==
  ASSUME IInv, UNCHANGED <<counts, fate, member>>,
         \A v \in Workers :
           /\ pc'[v] = "mark" <=> pc[v] = "mark"
           /\ pc[v] = "mark" => lease'[v] = lease[v]
           /\ posted'[v] = posted[v]
  PROVE  Tally'
<1>1. \A X : Having(X)' = Having(X)
  BY DEF Having
<1>2. {v \in Workers : lease[v] = "dropped" /\ pc[v] = "mark"}'
        = {v \in Workers : lease[v] = "dropped" /\ pc[v] = "mark"}
  OBVIOUS
<1>3. {v \in Workers : posted[v] /\ pc[v] = "mark"}' = {v \in Workers : posted[v] /\ pc[v] = "mark"}
  OBVIOUS
<1>4. NoCharacter' = NoCharacter /\ WithData' = WithData
  BY <1>1, <1>2, <1>3 DEF NoCharacter, WithData
<1>5. Uploaders' = Uploaders
  BY DEF Uploaders
<1> QED BY <1>1, <1>4, <1>5 DEF IInv, Tally

(* A row is walked: it is filtered, or it is queued.                       *)
LEMMA TallyWalked ==
  ASSUME IInv, WalkRow
  PROVE  Tally'
<1> DEFINE m == Min(batch)
<1> USE DEF IInv
<1>1. m \in Ids /\ m > lastID
  BY NextRowOfBatch DEF WalkRow, Cursor
<1>2. UNCHANGED <<pc, member, lease, posted>>
  BY DEF WalkRow
<1>3. PICK r \in {"queued", "nonCN", "recent"} :
        /\ fate' = [fate EXCEPT ![m] = IF r = "queued" THEN "queued" ELSE "filtered"]
        /\ counts' = [Count("walked") EXCEPT ![r] = @ + 1]
  BY DEF WalkRow, FilterReason
<1> HIDE DEF m
<1>4. fate[m] = "unseen"
  <2>1. m \in Nat /\ lastID \in Nat
    BY <1>1, Constants DEF TypeOK
  <2> QED BY <1>1, <2>1 DEF Walked
<1> DEFINE g == IF r = "queued" THEN "queued" ELSE "filtered"
<1>5. fate' = [fate EXCEPT ![m] = g]
  BY <1>3
<1>6. /\ Cardinality(Having(Fates \ {"unseen"})') = Cardinality(Having(Fates \ {"unseen"})) + 1
      /\ Cardinality(Having(Fates \ {"unseen"})) \in Nat
      /\ Cardinality(Having(Taken \cup {"queued"})') =
           (IF r = "queued" THEN Cardinality(Having(Taken \cup {"queued"})) + 1
                            ELSE Cardinality(Having(Taken \cup {"queued"})))
      /\ Cardinality(Having(Taken \cup {"queued"})) \in Nat
  <2> DEFINE X == Fates \ {"unseen"}
             Y == Taken \cup {"queued"}
  <2>1. g \in X /\ fate[m] \notin X /\ fate[m] \notin Y /\ (g \in Y <=> r = "queued")
    BY <1>4 DEF Fates, Taken
  <2> HIDE DEF g, X, Y
  <2>2. Cardinality(Having(X)') = Cardinality(Having(X)) + 1 /\ Cardinality(Having(X)) \in Nat
    BY <1>1, <1>5, <2>1, HavingMoves
  <2>3. /\ Cardinality(Having(Y)') =
             IF r = "queued" THEN Cardinality(Having(Y)) + 1 ELSE Cardinality(Having(Y))
        /\ Cardinality(Having(Y)) \in Nat
    BY <1>1, <1>5, <2>1, HavingMoves
  <2> QED BY <2>2, <2>3 DEF X, Y
<1>7. \A x \in {"failed", "noChar", "synced"} : Having({x})' = Having({x})
  BY <1>1, <1>3, <1>4 DEF Having, TypeOK
<1>8. NoCharacter' = NoCharacter /\ WithData' = WithData /\ Uploaders' = Uploaders
  BY <1>2, <1>7 DEF NoCharacter, WithData, Uploaders
<1>9. \A c \in Counters : counts[c] \in Nat /\ counts'[c] = counts[c] + (IF c \in {"walked", r} THEN 1 ELSE 0)
  BY <1>3 DEF TypeOK, Count, Counters
<1>10. /\ counts'["walked"] = counts["walked"] + 1
       /\ counts'["queued"] = counts["queued"] + (IF r = "queued" THEN 1 ELSE 0)
       /\ counts'["nonCN"] = counts["nonCN"] + (IF r = "nonCN" THEN 1 ELSE 0)
       /\ counts'["recent"] = counts["recent"] + (IF r = "recent" THEN 1 ELSE 0)
       /\ \A c \in {"noChar", "withData", "uploaded", "errors"} : counts'[c] = counts[c]
       /\ \A c \in {"walked", "queued", "nonCN", "recent"} : counts[c] \in Nat
  BY <1>9 DEF Counters
<1>11. counts'["walked"] = counts'["nonCN"] + counts'["recent"] + counts'["queued"]
  BY <1>10 DEF Tally
<1>12. /\ counts'["walked"] = Cardinality(Having(Fates \ {"unseen"}))'
       /\ counts'["queued"] = Cardinality(Having(Taken \cup {"queued"}))'
  BY <1>6, <1>10 DEF Tally
<1>13. /\ counts'["errors"] >= Cardinality(Having({"failed"}))'
       /\ counts'["noChar"] = Cardinality(NoCharacter')
       /\ counts'["withData"] <= Cardinality(WithData')
       /\ counts'["withData"] + Cardinality(Uploaders') <= counts'["uploaded"]
  BY <1>7, <1>8, <1>10 DEF Tally
<1> QED BY <1>11, <1>12, <1>13 DEF Tally

(* A member is taken from the channel: it was queued, now it is worked on. *)
LEMMA TallyTaken ==
  ASSUME IInv, NEW w \in Workers, TakeMember(w)
  PROVE  Tally'
<1> DEFINE m == Head(ch)
<1> USE DEF IInv
<1>1. m \in Ids /\ fate[m] = "queued"
  <2>1. m \in Ids /\ m \in Elements(ch)
    BY HeadTailProperties, Taking DEF TakeMember, TypeOK, Placement
  <2> QED BY <2>1 DEF Placement
<1>2. fate' = [fate EXCEPT ![m] = "working"] /\ counts' = counts
  BY DEF TakeMember
<1>3. /\ pc[w] # "mark" /\ pc'[w] # "mark" /\ posted' = posted
      /\ \A v \in Workers \ {w} : /\ pc'[v] = pc[v] /\ lease'[v] = lease[v]
                                  /\ member'[v] = member[v]
  BY DEF TakeMember, TypeOK
<1> HIDE DEF m
<1>4. /\ Having(Fates \ {"unseen"})' = Having(Fates \ {"unseen"})
      /\ Having(Taken \cup {"queued"})' = Having(Taken \cup {"queued"})
      /\ \A x \in {"failed", "noChar", "synced"} : Having({x})' = Having({x})
  BY <1>1, <1>2 DEF Having, Fates, Taken, TypeOK
<1>5. NoCharacter' = NoCharacter
  BY <1>3, <1>4 DEF NoCharacter
<1>6. WithData' = WithData
  BY <1>3, <1>4 DEF WithData
<1>7. Uploaders' = Uploaders
  BY <1>3 DEF Uploaders
<1> QED BY <1>2, <1>4, <1>5, <1>6, <1>7 DEF Tally

(* FFLogs knows no character: counted at once, marked later.               *)
LEMMA TallyResolved ==
  ASSUME IInv, NEW w \in Workers, ResolveCharacter(w)
  PROVE  Tally'
<1> USE DEF IInv
<1>1. CASE pc' = [pc EXCEPT ![w] = "best"] /\ UNCHANGED <<lease, counts>>
  <2>1. \A v \in Workers : pc'[v] = "mark" <=> pc[v] = "mark"
    BY <1>1 DEF ResolveCharacter, TypeOK
  <2> QED BY <1>1, <2>1, TallyStays DEF ResolveCharacter
<1>2. CASE /\ pc' = [pc EXCEPT ![w] = "mark"] /\ counts' = Count("noChar")
           /\ lease' = [lease EXCEPT ![w] = "dropped"]
  <2>1. UNCHANGED <<member, posted, fate>> /\ pc[w] = "resolve"
    BY DEF ResolveCharacter
  <2>2. ~posted[w] /\ member[w] \in Ids /\ fate[member[w]] = "working"
    <3>1. pc[w] \in Busy
      BY <2>1 DEF Busy, Calls
    <3> QED BY <2>1, <3>1, BusyWorker DEF Jobs, Job
  <2>3. \A X : Having(X)' = Having(X)
    BY <2>1 DEF Having
  <2>4. \A v \in Workers : pc'[v] = "mark" <=> pc[v] = "mark" \/ v = w
    BY <1>2, <2>1 DEF TypeOK
  <2>5. \A v \in Workers : lease'[v] = IF v = w THEN "dropped" ELSE lease[v]
    BY <1>2 DEF TypeOK
  <2>6. NoCharacter' = NoCharacter \cup {member[w]}
    BY <2>1, <2>3, <2>4, <2>5 DEF NoCharacter
  <2>7. member[w] \notin NoCharacter
    <3>1. \A v \in Workers : pc[v] = "mark" => member[v] # member[w]
      BY <2>1, <2>2, Constants DEF Placement
    <3> QED BY <2>2, <3>1 DEF NoCharacter, Having
  <2>8. Cardinality(NoCharacter') = Cardinality(NoCharacter) + 1
    BY <2>6, <2>7, TallyFinite, FS_AddElement
  <2>9. WithData' = WithData
    BY <2>1, <2>2, <2>3, <2>4 DEF WithData
  <2>10. Uploaders' = Uploaders
    BY <2>1, <2>2, <2>4 DEF Uploaders
  <2>11. \A c \in Counters : counts'[c] = IF c = "noChar" THEN counts[c] + 1 ELSE counts[c]
    BY <1>2 DEF Count, TypeOK
  <2> QED BY <2>3, <2>8, <2>9, <2>10, <2>11 DEF Tally, Counters
<1> QED BY <1>1, <1>2 DEF ResolveCharacter

(* A fight is posted, or its upload fails.                                 *)
LEMMA TallyUploaded ==
  ASSUME IInv, NEW w \in Workers, UploadZone(w)
  PROVE  Tally'
<1> USE DEF IInv
<1>1. pc[w] = "upload" /\ UNCHANGED <<member, lease, fate>>
  BY DEF UploadZone
<1>2. \A v \in Workers : pc'[v] = "mark" <=> pc[v] = "mark"
  BY <1>1 DEF UploadZone, NextZone, AfterZones, TypeOK
<1>3. \A v \in Workers \ {w} : posted'[v] = posted[v]
  BY DEF UploadZone, TypeOK
<1>4. \A X : Having(X)' = Having(X)
  BY <1>1 DEF Having
<1>5. NoCharacter' = NoCharacter
  BY <1>1, <1>2, <1>4 DEF NoCharacter
<1>6. WithData' = WithData
  BY <1>1, <1>2, <1>3, <1>4 DEF WithData
<1>7. /\ IsFiniteSet(Uploaders) /\ Cardinality(Uploaders) \in Nat
      /\ \A c \in Counters : counts[c] \in Nat
  BY TallyFinite DEF TypeOK
<1>8. CASE counts' = Count("uploaded") /\ posted' = [posted EXCEPT ![w] = TRUE]
  <2>1. Uploaders' = Uploaders \cup {w}
    BY <1>1, <1>2, <1>8 DEF Uploaders, TypeOK
  <2>2. Cardinality(Uploaders') \in Nat /\ Cardinality(Uploaders') <= Cardinality(Uploaders) + 1
    <3>1. Cardinality(Uploaders \cup {w}) =
            IF w \in Uploaders THEN Cardinality(Uploaders) ELSE Cardinality(Uploaders) + 1
      BY <1>7, FS_AddElement
    <3> QED BY <1>7, <2>1, <3>1
  <2>3. \A c \in Counters : counts'[c] = IF c = "uploaded" THEN counts[c] + 1 ELSE counts[c]
    BY <1>8 DEF Count, TypeOK
  <2> QED BY <1>4, <1>5, <1>6, <1>7, <2>2, <2>3 DEF Tally, Counters
<1>9. CASE counts' = Count("errors") /\ UNCHANGED posted
  <2>1. Uploaders' = Uploaders
    BY <1>2, <1>9 DEF Uploaders
  <2>2. \A c \in Counters : counts'[c] = IF c = "errors" THEN counts[c] + 1 ELSE counts[c]
    BY <1>9 DEF Count, TypeOK
  <2>3. IsFiniteSet(Having({"failed"})) /\ Cardinality(Having({"failed"})) \in Nat
    <3>1. Having({"failed"}) \in SUBSET Ids
      BY DEF Having
    <3> QED BY <3>1, Constants, FS_Subset, FS_CardinalityType
  <2> QED BY <1>4, <1>5, <1>6, <1>7, <2>1, <2>2, <2>3 DEF Tally, Counters
<1> QED BY <1>8, <1>9 DEF UploadZone

(* Release: a member with a posted fight is counted as one with data.      *)
LEMMA TallyReleased ==
  ASSUME IInv, NEW w \in Workers, ReleaseKey(w)
  PROVE  Tally'
<1> USE DEF IInv
<1>1. pc[w] = "release" /\ UNCHANGED <<member, posted, fate>>
  BY DEF ReleaseKey
<1>2. \A v \in Workers : pc'[v] = "mark" <=> pc[v] = "mark" \/ v = w
  BY <1>1 DEF ReleaseKey, TypeOK
<1>3. \A v \in Workers : lease'[v] = IF v = w THEN "released" ELSE lease[v]
  BY DEF ReleaseKey, TypeOK
<1>4. \A X : Having(X)' = Having(X)
  BY <1>1 DEF Having
<1>5. NoCharacter' = NoCharacter
  BY <1>1, <1>2, <1>3, <1>4 DEF NoCharacter
<1>6. member[w] \in Ids /\ fate[member[w]] = "working"
  <2>1. pc[w] \in Busy
    BY <1>1 DEF Busy
  <2> QED BY <2>1, BusyWorker
<1>7. /\ IsFiniteSet(Uploaders) /\ Cardinality(Uploaders) \in Nat
      /\ IsFiniteSet(WithData) /\ Cardinality(WithData) \in Nat
      /\ \A c \in Counters : counts[c] \in Nat
  BY TallyFinite DEF TypeOK
<1>8. CASE ~posted[w]
  <2>1. WithData' = WithData
    BY <1>1, <1>2, <1>4, <1>8 DEF WithData
  <2>2. Uploaders' = Uploaders /\ counts' = counts
    BY <1>1, <1>2, <1>8 DEF Uploaders, ReleaseKey
  <2> QED BY <1>4, <1>5, <2>1, <2>2 DEF Tally
<1>9. CASE posted[w]
  <2>1. WithData' = WithData \cup {member[w]}
    BY <1>1, <1>2, <1>4, <1>9 DEF WithData
  <2>2. member[w] \notin WithData
    <3>1. \A v \in Workers : pc[v] = "mark" => member[v] # member[w]
      BY <1>1, <1>6, Constants DEF Placement
    <3> QED BY <1>6, <3>1 DEF WithData, Having
  <2>3. Cardinality(WithData') = Cardinality(WithData) + 1
    BY <1>7, <2>1, <2>2, FS_AddElement
  <2>4. Uploaders' = Uploaders \ {w} /\ w \in Uploaders
    BY <1>1, <1>2, <1>9 DEF Uploaders
  <2>5. Cardinality(Uploaders') = Cardinality(Uploaders) - 1
    BY <1>7, <2>4, FS_RemoveElement
  <2>6. \A c \in Counters : counts'[c] = IF c = "withData" THEN counts[c] + 1 ELSE counts[c]
    BY <1>9 DEF ReleaseKey, Count, TypeOK
  <2> QED BY <1>4, <1>5, <1>7, <2>3, <2>5, <2>6 DEF Tally, Counters
<1> QED BY <1>8, <1>9

(* A sync ends: what was counted before is now the member's fate.          *)
LEMMA TallyEnded ==
  ASSUME IInv, NEW w \in Workers, pc[w] \in Busy, NEW f \in Taken \ {"working"}, EndMember(w, f),
         f = "noChar" <=> pc[w] = "mark" /\ lease[w] = "dropped",
         f = "synced" <=> pc[w] = "mark" /\ lease[w] # "dropped",
         counts' = IF f = "failed" THEN Count("errors") ELSE counts,
         \A v \in Workers \ {w} : lease'[v] = lease[v]
  PROVE  Tally'
<1> USE DEF IInv
<1> DEFINE m == member[w]
<1>1. m \in Ids /\ fate[m] = "working"
  BY BusyWorker
<1>2. /\ fate' = [fate EXCEPT ![m] = f] /\ pc'[w] = "idle" /\ ~posted'[w]
      /\ \A v \in Workers \ {w} : /\ pc'[v] = pc[v] /\ member'[v] = member[v]
                                  /\ posted'[v] = posted[v]
  BY DEF EndMember, TypeOK
<1> HIDE DEF m
<1>3. /\ Having(Fates \ {"unseen"})' = Having(Fates \ {"unseen"})
      /\ Having(Taken \cup {"queued"})' = Having(Taken \cup {"queued"})
  BY <1>1, <1>2 DEF Having, Fates, Taken, TypeOK
<1>4. \A x \in {"failed", "noChar", "synced"} :
        Having({x})' = IF f = x THEN Having({x}) \cup {m} ELSE Having({x})
  BY <1>1, <1>2 DEF Having, TypeOK
<1>5. NoCharacter' = NoCharacter
  <2>1. NoCharacter' = Having({"noChar"})'
          \cup {member[v] : v \in {u \in Workers \ {w} : lease[u] = "dropped" /\ pc[u] = "mark"}}
    BY <1>2 DEF NoCharacter
  <2>2. CASE pc[w] = "mark" /\ lease[w] = "dropped"
    BY <1>4, <2>1, <2>2 DEF NoCharacter, m
  <2>3. CASE ~(pc[w] = "mark" /\ lease[w] = "dropped")
    BY <1>4, <2>1, <2>3 DEF NoCharacter
  <2> QED BY <2>2, <2>3
<1>6. WithData \subseteq WithData'
  <2>1. WithData' = Having({"synced"})'
          \cup {member[v] : v \in {u \in Workers \ {w} : posted[u] /\ pc[u] = "mark"}}
    BY <1>2 DEF WithData
  <2>2. CASE pc[w] = "mark" /\ posted[w]
    <3>1. f = "synced"
      BY <2>2 DEF Jobs, Job
    <3> QED BY <1>4, <2>1, <3>1 DEF WithData, m
  <2>3. CASE ~(pc[w] = "mark" /\ posted[w])
    BY <1>4, <2>1, <2>3 DEF WithData
  <2> QED BY <2>2, <2>3
<1>7. Uploaders' \subseteq Uploaders
  BY <1>2 DEF Uploaders
<1>8. /\ Cardinality(WithData) <= Cardinality(WithData') /\ Cardinality(WithData') \in Nat
      /\ Cardinality(WithData) \in Nat
  <2>1. WithData' \subseteq Ids
    <3>1. \A v \in Workers : pc[v] = "mark" => member[v] \in Ids
      BY DEF TypeOK, Jobs, Job
    <3>2. \A v \in Workers : pc'[v] = "mark" => member'[v] \in Ids
      BY <1>2, <3>1
    <3> QED BY <3>2 DEF WithData, Having
  <2>2. IsFiniteSet(WithData')
    BY <2>1, Constants, FS_Subset
  <2> QED BY <1>6, <2>2, TallyFinite, FS_Subset, FS_CardinalityType
<1>9. /\ Cardinality(Uploaders') <= Cardinality(Uploaders) /\ Cardinality(Uploaders') \in Nat
      /\ Cardinality(Uploaders) \in Nat
  BY <1>7, TallyFinite, FS_Subset, FS_CardinalityType
<1>10. /\ Cardinality(Having({"failed"})') =
            IF f = "failed" THEN Cardinality(Having({"failed"})) + 1
                            ELSE Cardinality(Having({"failed"}))
       /\ Cardinality(Having({"failed"})) \in Nat
  <2> DEFINE X == {"failed"}
  <2>1. fate[m] \notin X /\ (f \in X <=> f = "failed") /\ fate' = [fate EXCEPT ![m] = f]
    BY <1>1, <1>2
  <2> HIDE DEF X
  <2>2. /\ Cardinality(Having(X)') =
             IF f = "failed" THEN Cardinality(Having(X)) + 1 ELSE Cardinality(Having(X))
        /\ Cardinality(Having(X)) \in Nat
    BY <1>1, <2>1, HavingMoves
  <2> QED BY <2>2 DEF X
<1>11. \A c \in Counters : counts[c] \in Nat /\ counts'[c] =
         IF f = "failed" /\ c = "errors" THEN counts[c] + 1 ELSE counts[c]
  BY DEF Count, TypeOK
<1>12. /\ counts'["errors"] = IF f = "failed" THEN counts["errors"] + 1 ELSE counts["errors"]
       /\ counts["errors"] \in Nat /\ counts["withData"] \in Nat /\ counts["uploaded"] \in Nat
       /\ \A c \in Counters \ {"errors"} : counts'[c] = counts[c]
  BY <1>11 DEF Counters
<1>13. counts'["errors"] >= Cardinality(Having({"failed"}))'
  BY <1>10, <1>12 DEF Tally
<1>14. counts'["withData"] <= Cardinality(WithData')
  BY <1>8, <1>12 DEF Tally, Counters
<1>15. counts'["withData"] + Cardinality(Uploaders') <= counts'["uploaded"]
  BY <1>9, <1>12 DEF Tally, Counters
<1>16. /\ counts'["walked"] = counts["walked"] /\ counts'["nonCN"] = counts["nonCN"]
       /\ counts'["recent"] = counts["recent"] /\ counts'["queued"] = counts["queued"]
       /\ counts'["noChar"] = counts["noChar"]
  BY <1>12 DEF Counters
<1> QED BY <1>3, <1>5, <1>13, <1>14, <1>15, <1>16 DEF Tally

(* The counters follow the members' fates. *)
LEMMA TallyStep ==
  ASSUME IInv, [Next]_vars
  PROVE  Tally'
<1> USE DEF IInv
<1>1. CASE StartScan
  <2>1. \A w \in Workers : pc'[w] = "gone" /\ ~posted'[w]
    BY <1>1 DEF StartScan, Phases, Jobs, Job
  <2> QED BY <1>1, <2>1, TallyStarts DEF StartScan, ResetScanCounters
<1>2. CASE Crash
  BY <1>2, TallyStarts DEF Crash
<1>3. CASE CountMembers
  <2>1. /\ UNCHANGED <<counts, fate, member, lease, posted>>
        /\ \A v \in Workers : pc[v] = "gone" /\ pc'[v] \in {"gone", "idle"}
    BY <1>3 DEF CountMembers, Phases
  <2> QED BY <2>1, TallyStays
<1>4. CASE FinishScan \/ MarkIdle \/ FetchBatch \/ SendMember
           \/ (\E m \in Ids : Insert(m) \/ Age(m)) \/ UNCHANGED vars
  <2>1. UNCHANGED <<counts, fate, pc, member, lease, posted>>
    BY <1>4 DEF FinishScan, MarkIdle, FetchBatch, SendMember, Insert, Age, vars
  <2> QED BY <2>1, TallyStays
<1>5. CASE WalkRow
  BY <1>5, TallyWalked
<1>6. ASSUME NEW w \in Workers, Worker(w) \/ Panic(w) \/ Expire(w)
      PROVE  Tally'
  <2>1. CASE TakeMember(w)
    BY <2>1, TallyTaken
  <2>2. CASE StopWorker(w) \/ AcquireKey(w) \/ Wake(w) \/ FetchBestFights(w) \/ BuildZone(w)
               \/ Expire(w)
    <3>1. UNCHANGED <<counts, fate, member, posted>>
      BY <2>2 DEF StopWorker, AcquireKey, Wake, FetchBestFights, BuildZone, Expire
    <3>2. \A v \in Workers : pc'[v] = "mark" <=> pc[v] = "mark"
      <4>1. \A n : AfterZones(n) # "mark"
        BY DEF AfterZones
      <4> QED BY <2>2, <4>1 DEF StopWorker, AcquireKey, Wake, FetchBestFights, BuildZone,
                NextZone, Expire, TypeOK
    <3>3. \A v \in Workers : pc[v] = "mark" => lease'[v] = lease[v]
      BY <2>2 DEF StopWorker, AcquireKey, Wake, FetchBestFights, BuildZone, Expire, TypeOK
    <3> QED BY <3>1, <3>2, <3>3, TallyStays
  <2>3. CASE ResolveCharacter(w)
    BY <2>3, TallyResolved
  <2>4. CASE UploadZone(w)
    BY <2>4, TallyUploaded
  <2>5. CASE ReleaseKey(w)
    BY <2>5, TallyReleased
  <2>6. CASE GiveUp(w)
    <3>1. /\ EndMember(w, "keyless") /\ pc[w] = "wait" /\ counts' = counts /\ lease' = lease
          /\ pc[w] \in Busy /\ "keyless" \in Taken \ {"working"}
      BY <2>6 DEF GiveUp, Busy, Blockers, Taken
    <3> QED BY <3>1, TallyEnded
  <2>7. CASE FFLogsFails(w)
    <3>1. /\ EndMember(w, "failed") /\ pc[w] # "mark" /\ counts' = Count("errors")
          /\ \A v \in Workers \ {w} : lease'[v] = lease[v]
          /\ pc[w] \in Busy /\ "failed" \in Taken \ {"working"}
      BY <2>7 DEF FFLogsFails, Busy, Calls, Taken, TypeOK
    <3> QED BY <3>1, TallyEnded
  <2>8. CASE MarkSynced(w)
    <3> DEFINE f == IF lease[w] = "dropped" THEN "noChar" ELSE "synced"
    <3>1. /\ EndMember(w, f) /\ pc[w] = "mark" /\ counts' = counts /\ lease' = lease
          /\ pc[w] \in Busy /\ f \in Taken \ {"working"} /\ f # "failed"
          /\ f = "noChar" <=> lease[w] = "dropped"
          /\ f = "synced" <=> lease[w] # "dropped"
      BY <2>8 DEF MarkSynced, Busy, Taken
    <3> HIDE DEF f
    <3> QED BY <3>1, TallyEnded
  <2>9. CASE Panic(w)
    <3>1. /\ EndMember(w, "panicked") /\ pc[w] # "mark" /\ counts' = counts
          /\ \A v \in Workers \ {w} : lease'[v] = lease[v]
          /\ pc[w] \in Busy /\ "panicked" \in Taken \ {"working"}
      BY <2>9 DEF Panic, Busy, Calls, Taken, TypeOK
    <3> QED BY <3>1, TallyEnded
  <2> QED BY <1>6, <2>1, <2>2, <2>3, <2>4, <2>5, <2>6, <2>7, <2>8, <2>9 DEF Worker
<1> QED BY <1>1, <1>2, <1>3, <1>4, <1>5, <1>6 DEF Next, Main, Producer

-----------------------------------------------------------------------------
(* The theorems.                                                           *)

(* The invariant holds at the start. *)
LEMMA InitHolds == Init => IInv
<1> SUFFICES ASSUME Init PROVE IInv
  OBVIOUS
<1>1. TypeOK
  BY InitTyped
<1>2. /\ Phases /\ Cursor /\ Owing
      /\ \A w \in Workers : pc[w] = "gone" /\ member[w] = None /\ ~posted[w]
      /\ \A m \in Ids : fate[m] = "unseen"
  BY DEF Init, Phases, Cursor, Owing
<1>3. Jobs /\ Walked
  BY <1>2 DEF Jobs, Job, Walked
<1>4. Ahead
  BY DEF Init, Ahead
<1>5. Placement
  BY <1>2, Constants DEF Init, Placement, Elements, Distinct
<1>6. StatusAgrees
  <2>1. {w \in Workers : Blocked(w)} = {}
    BY <1>2 DEF Blocked
  <2>2. /\ status.waiting = 0 /\ status.state = "idle" /\ status.keysRecoverAt = None
        /\ ~status.nextScan /\ scan = "asleep"
    BY DEF Init
  <2>3. Cardinality({w \in Workers : Blocked(w)}) = 0
    BY <2>1, FS_EmptySet
  <2> QED BY <2>2, <2>3 DEF StatusAgrees
<1>7. Tally
  <2>1. \A X : "unseen" \notin X => Having(X) = {}
    BY <1>2 DEF Having
  <2>2. /\ Having(Fates \ {"unseen"}) = {} /\ Having(Taken \cup {"queued"}) = {}
        /\ Having({"failed"}) = {} /\ Having({"noChar"}) = {} /\ Having({"synced"}) = {}
    BY <2>1 DEF Taken
  <2>3. NoCharacter = {} /\ WithData = {} /\ Uploaders = {}
    BY <1>2, <2>2 DEF NoCharacter, WithData, Uploaders
  <2>4. Cardinality({}) = 0 /\ \A c \in Counters : counts[c] = 0
    BY FS_EmptySet DEF Init, NoCounts
  <2> QED BY <2>2, <2>3, <2>4 DEF Tally, Counters
<1> QED BY <1>1, <1>2, <1>3, <1>4, <1>5, <1>6, <1>7 DEF IInv

(* The invariant is inductive. *)
LEMMA StepHolds ==
  ASSUME IInv, [Next]_vars
  PROVE  IInv'
<1>1. StepKinds
  BY EveryStep
<1>2. TypeOK' /\ Jobs' /\ StatusAgrees' /\ Tally'
  BY TypedStep, JobsStep, StatusStep, TallyStep
<1>3. Phases' /\ Cursor' /\ Walked' /\ Ahead' /\ Placement' /\ Owing'
  BY <1>1, PhasesStep, CursorStep, WalkedStep, AheadStep, PlacementStep, OwingStep
<1> QED BY <1>2, <1>3 DEF IInv

(* The inductive invariant holds throughout.                               *)
THEOREM ScanInvariant == Spec => []IInv
<1>1. IInv /\ [Next]_vars => IInv'
  BY StepHolds
<1> QED BY InitHolds, <1>1, PTL DEF Spec

(* Every variable keeps its type; in particular memberCh never holds more  *)
(* than its capacity, whatever the producer and the workers do.            *)
THEOREM ScanTypeCorrect == Spec => []TypeOK
<1>1. IInv => TypeOK
  BY DEF IInv
<1> QED BY ScanInvariant, <1>1, PTL

(* Every member the scan keeps is in exactly one place, however many       *)
(* workers take members from the channel and end with them at once.        *)
THEOREM OnePlaceAlways == Spec => []MembersInOnePlace
<1>1. ASSUME IInv
      PROVE  MembersInOnePlace
  <2> USE <1>1 DEF IInv
  <2> SUFFICES ASSUME NEW m \in Ids
               PROVE  /\ (IF prod = "send" /\ lastID = m THEN 1 ELSE 0)
                           + Cardinality({i \in DOMAIN ch : ch[i] = m})
                             = (IF fate[m] = "queued" THEN 1 ELSE 0)
                      /\ Cardinality({w \in Workers : member[w] = m})
                           = (IF fate[m] = "working" THEN 1 ELSE 0)
    BY DEF MembersInOnePlace
  <2> DEFINE Places == {i \in DOMAIN ch : ch[i] = m}
             Owners == {w \in Workers : member[w] = m}
  <2>1. Cardinality(Places) = IF m \in Elements(ch) THEN 1 ELSE 0
    <3>1. CASE m \in Elements(ch)
      <4>1. PICK i \in DOMAIN ch : ch[i] = m
        BY <3>1 DEF Elements
      <4>2. Places = {i}
        BY <4>1 DEF Placement, Distinct
      <4> QED BY <3>1, <4>2, FS_Singleton
    <3>2. CASE m \notin Elements(ch)
      <4>1. Places = {}
        BY <3>2 DEF Elements
      <4> QED BY <3>2, <4>1, FS_EmptySet
    <3> QED BY <3>1, <3>2
  <2>2. Cardinality(Owners) = IF fate[m] = "working" THEN 1 ELSE 0
    <3>1. CASE fate[m] = "working"
      <4>1. PICK w \in Workers : member[w] = m
        BY <3>1 DEF Placement
      <4>2. Owners = {w}
        BY <4>1, Constants DEF Placement
      <4> QED BY <3>1, <4>2, FS_Singleton
    <3>2. CASE fate[m] # "working"
      <4>1. Owners = {}
        BY <3>2 DEF Placement
      <4> QED BY <3>2, <4>1, FS_EmptySet
    <3> QED BY <3>1, <3>2
  <2>3. /\ fate[m] = "queued" <=> (prod = "send" /\ lastID = m) \/ m \in Elements(ch)
        /\ ~(prod = "send" /\ lastID = m /\ m \in Elements(ch))
    BY DEF Placement
  <2> HIDE DEF Places
  <2> QED BY <2>1, <2>2, <2>3 DEF Places
<1> QED BY ScanInvariant, <1>1, PTL

(* At every instant, however the syncs interleave and end, the counters    *)
(* /progress reports agree with what happened to the members: rows and     *)
(* missing characters exactly, failures at least, data and uploads in the  *)
(* order they are made.                                                    *)
THEOREM CountersAlwaysAgree == Spec => []CountersAgree
<1>1. ASSUME IInv
      PROVE  CountersAgree
  <2> USE <1>1 DEF IInv
  <2>1. /\ counts["walked"] = counts["nonCN"] + counts["recent"] + counts["queued"]
        /\ counts["walked"] = Cardinality(Having(Fates \ {"unseen"}))
        /\ counts["queued"] = Cardinality(Having(Taken \cup {"queued"}))
        /\ counts["errors"] >= Cardinality(Having({"failed"}))
    BY DEF Tally
  <2>2. counts["noChar"] = Cardinality(Having({"noChar"})
          \cup {member[w] : w \in {v \in Workers : lease[v] = "dropped" /\ pc[v] = "mark"}})
    BY DEF Tally, NoCharacter
  <2>3. WithData \subseteq Having({"working", "synced"})
    <3>1. \A w \in Workers : pc[w] = "mark" => member[w] \in Ids /\ fate[member[w]] = "working"
      BY BusyWorker DEF Busy
    <3> QED BY <3>1 DEF WithData, Having
  <2>4. IsFiniteSet(Having({"working", "synced"}))
    <3>1. Having({"working", "synced"}) \in SUBSET Ids
      BY DEF Having
    <3> QED BY <3>1, Constants, FS_Subset
  <2>5. /\ Cardinality(WithData) <= Cardinality(Having({"working", "synced"}))
        /\ Cardinality(Having({"working", "synced"})) \in Nat
    BY <2>3, <2>4, FS_Subset, FS_CardinalityType
  <2>6. /\ counts["withData"] \in Nat /\ counts["uploaded"] \in Nat
        /\ Cardinality(WithData) \in Nat /\ Cardinality(Uploaders) \in Nat
    BY TallyFinite DEF TypeOK, Counters
  <2>7. /\ counts["withData"] <= Cardinality(Having({"working", "synced"}))
        /\ counts["withData"] <= counts["uploaded"]
    BY <2>5, <2>6 DEF Tally
  <2> QED BY <2>1, <2>2, <2>7 DEF CountersAgree
<1> QED BY ScanInvariant, <1>1, PTL

(* A scan that met no database error has walked every row that was there   *)
(* when it started and finished every member it kept, whatever was         *)
(* inserted meanwhile and whatever the size of a batch.                    *)
THEOREM ScanAlwaysComplete == Spec => []ScanIsComplete
<1>1. ASSUME IInv
      PROVE  ScanIsComplete
  <2> USE <1>1 DEF IInv
  <2> SUFFICES ASSUME scan = "returned", ~prodErr
               PROVE  /\ start \subseteq Having(Fates \ {"unseen"})
                      /\ Having({"queued", "working"}) = {}
    BY DEF ScanIsComplete
  <2>1. start \subseteq Having(Fates \ {"unseen"})
    <3>1. \A m \in start : m \in Ids /\ fate[m] # "unseen"
      BY DEF Ahead, Unwalked, TypeOK
    <3>2. \A m \in Ids : fate[m] \in Fates
      BY DEF TypeOK
    <3> QED BY <3>1, <3>2 DEF Having
  <2>2. prod = "off" /\ ch = <<>> /\ \A w \in Workers : member[w] = None
    BY DEF Phases, Jobs, Job
  <2>3. \A m \in Ids : fate[m] # "queued" /\ fate[m] # "working"
    BY <2>2, Constants DEF Placement, Elements
  <2> QED BY <2>1, <2>3 DEF Having
<1> QED BY ScanInvariant, <1>1, PTL

(* A member whose sync did not come to its end, in this process or in one  *)
(* that died, is not marked as synced: it stays due.                       *)
THEOREM FailuresAlwaysRetried == Spec => []FailureIsRetried
<1>1. IInv => FailureIsRetried
  BY DEF IInv, Owing, FailureIsRetried
<1> QED BY ScanInvariant, <1>1, PTL

(* stateStore tells the truth about the workers that wait for a key.       *)
THEOREM StatusAlwaysAgrees == Spec => []StatusAgrees
<1>1. IInv => StatusAgrees
  BY DEF IInv
<1> QED BY ScanInvariant, <1>1, PTL
=============================================================================
