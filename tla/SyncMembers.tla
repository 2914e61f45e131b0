----------------------------- MODULE SyncMembers -----------------------------
(***************************************************************************)
(* The scan loop: runSyncLoop (src/main.go) runs SyncMembers over and      *)
(* over; one scan is a producer that walks the members table in batches,   *)
(* a bounded channel, and a set of workers that take members from it,      *)
(* wait for an FFLogs key, and carry a member through the pipeline         *)
(* character -> best fights -> per zone: fight detail, POST -> settled     *)
(* (src/service/memo/service.go, src/service/memo/status.go).              *)
(*                                                                         *)
(* An action is what a goroutine does between two blocking calls.  The key *)
(* pool is seen through Acquire, Release and MarkError only: it may refuse *)
(* a key at any time and for as long as it likes (KeyPool models it).      *)
(* SyncMembers' context is cancelled only when it returns, so the branches *)
(* of the producer and the workers on its cancellation are never taken.    *)
(***************************************************************************)
EXTENDS Integers, Sequences, FiniteSets, FiniteSetsExt

CONSTANTS
  MaxId,        (* ids of the members table                                *)
  CN,           (* members whose server is in cnWorlds                     *)
  Workers,
  Zones,        (* number of InterestZones                                 *)
  MemberQueueSize,
  BatchSize,    (* batchSize of produceMembers                             *)
  Resets,       (* times Acquire may name as the next reset                *)
  None,         (* no member; the zero time                                *)
  Panics,       (* a sync may panic                                        *)
  MaxCrashes    (* bound on the crashes of the process                     *)

Ids == 1..MaxId

ASSUME ScanConstants ==
  /\ MaxId \in Nat /\ CN \subseteq Ids
  /\ IsFiniteSet(Workers) /\ Workers # {}
  /\ Zones \in Nat
  /\ MemberQueueSize \in Nat \ {0} /\ BatchSize \in Nat \ {0}
  /\ None \notin Ids \cup Resets
  /\ Panics \in BOOLEAN /\ MaxCrashes \in Nat

VARIABLES
  table,    (* rows of members                                             *)
  recent,   (* rows whose logs_sync_time is younger than RecentSyncSkip    *)
  scan,     (* where runSyncLoop is                                        *)
  prod,     (* where the producer is                                       *)
  prodErr,  (* the producer's SELECT failed                                *)
  lastID,   (* its cursor                                                  *)
  batch,    (* the rows of its batch it has still to walk                  *)
  ch,       (* memberCh                                                    *)
  pc,       (* where each worker is                                        *)
  member,   (* the member it is syncing                                    *)
  left,     (* zones with data it has still to build and post              *)
  posted,   (* it has posted a fight of this member                        *)
  lease,    (* what became of the member's lease                           *)
  late,     (* where the worker was when PerMemberTimeout ran out          *)
  status,   (* stateStore                                                  *)
  counts,   (* the scan counters                                           *)
  lastScan, (* there is a lastScanSnapshot: the counters as they were when *)
            (* the last scan returned                                      *)
  crashes,  (* crashes so far                                              *)
  fate,     (* history: what this scan has made of each member             *)
  start,    (* history: the rows of the table when the scan started        *)
  owed      (* history: members that were queued and whose sync has not    *)
            (* come to its end since, in this process or in one that died  *)

dbVars     == <<table, recent>>
envVars    == <<dbVars, crashes>>
mainVars   == <<scan, lastScan>>
prodVars   == <<prod, prodErr, lastID, batch>>
jobVars    == <<member, left, posted, lease, late>>
workerVars == <<pc, jobVars>>
history    == <<fate, start, owed>>
vars == <<envVars, mainVars, prodVars, ch, workerVars, status, counts, history>>

Counters == {"walked", "nonCN", "recent", "queued", "noChar", "withData", "uploaded", "errors"}
NoCounts == [c \in Counters |-> 0]

Blockers == {"acquire", "wait", "retry"}           \* in waitForKey
Calls    == {"resolve", "best", "build", "upload"} \* on the network, with a lease
Fates    == {"unseen", "filtered", "queued", "working", "keyless", "failed", "panicked",
             "noChar", "synced"}

TypeOK ==
  /\ table \subseteq Ids /\ recent \subseteq table /\ start \subseteq table
  /\ scan \in {"asleep", "counting", "running", "returned"}
  /\ prod \in {"off", "fetch", "walk", "send", "closed"} /\ prodErr \in BOOLEAN
  /\ lastID \in 0..MaxId /\ batch \subseteq Ids
  /\ ch \in Seq(Ids) /\ Len(ch) <= MemberQueueSize
  /\ pc \in [Workers -> {"gone", "idle", "release", "mark"} \cup Blockers \cup Calls]
  /\ member \in [Workers -> Ids \cup {None}]
  /\ left \in [Workers -> 0..Zones] /\ posted \in [Workers -> BOOLEAN]
  /\ lease \in [Workers -> {"none", "held", "released", "marked", "dropped"}]
  /\ late \in [Workers -> {"no"} \cup Blockers \cup Calls]
  /\ status \in [state : {"idle", "scanning", "waiting_for_keys"}, waiting : Nat,
                 keysRecoverAt : Resets \cup {None}, nextScan : BOOLEAN]
  /\ counts \in [Counters -> Nat] /\ lastScan \in BOOLEAN
  /\ crashes \in Nat
  /\ fate \in [Ids -> Fates] /\ owed \subseteq Ids

(* The process has just started: main has loaded the pool.                 *)
Init ==
  /\ table \in SUBSET Ids /\ recent \in SUBSET table
  /\ scan = "asleep" /\ prod = "off" /\ prodErr = FALSE /\ lastID = 0 /\ batch = {}
  /\ ch = <<>>
  /\ pc = [w \in Workers |-> "gone"]
  /\ member = [w \in Workers |-> None]
  /\ left = [w \in Workers |-> 0] /\ posted = [w \in Workers |-> FALSE]
  /\ lease = [w \in Workers |-> "none"] /\ late = [w \in Workers |-> "no"]
  /\ status = [state |-> "idle", waiting |-> 0, keysRecoverAt |-> None, nextScan |-> FALSE]
  /\ counts = NoCounts /\ lastScan = FALSE
  /\ crashes = 0
  /\ fate = [m \in Ids |-> "unseen"] /\ start = {} /\ owed = {}

-----------------------------------------------------------------------------
(* stateStore (status.go), each under its mutex.                           *)

MarkScanStarted == [status EXCEPT !.state = "scanning", !.nextScan = FALSE]
MarkedIdle ==
  [status EXCEPT !.state = "idle", !.nextScan = TRUE, !.keysRecoverAt = None]

(* markWaitingForKeys(+1, resetAt) and markWaitingForKeys(-1, _).          *)
WaitEntered(resetAt) ==
  [status EXCEPT !.waiting = @ + 1,
                 !.keysRecoverAt = resetAt,
                 !.state = IF status.waiting = 0 THEN "waiting_for_keys" ELSE @]

(* Mutant for StatusAgrees: any worker that stops waiting resets the state.*)
WaitLeftEarly ==
  [status EXCEPT !.waiting = @ - 1, !.keysRecoverAt = None, !.state = "scanning"]

WaitLeft ==
  IF status.waiting = 1
  THEN [status EXCEPT !.waiting = 0, !.keysRecoverAt = None, !.state = "scanning"]
  ELSE [status EXCEPT !.waiting = @ - 1]

Count(c) == [counts EXCEPT ![c] = @ + 1]

-----------------------------------------------------------------------------
(* runSyncLoop and SyncMembers.                                            *)

(* Mutant for CountersAgree: resetScanCounters forgets one.                *)
ResetAllButNoChar == [NoCounts EXCEPT !["noChar"] = counts["noChar"]]

ResetScanCounters == NoCounts

(* Mutant for DueIsRetried: the producer goes on where the last scan       *)
(* stopped.                                                                *)
StartScanKeepingCursor ==
  /\ scan = "asleep"
  /\ scan' = "counting"
  /\ status' = MarkScanStarted
  /\ counts' = ResetScanCounters
  /\ fate' = [m \in Ids |-> "unseen"] /\ start' = {}
  /\ UNCHANGED <<envVars, prodVars, ch, workerVars, lastScan, owed>>

StartScan ==
  /\ scan = "asleep"
  /\ scan' = "counting"
  /\ status' = MarkScanStarted
  /\ counts' = ResetScanCounters
  /\ lastID' = 0
  /\ fate' = [m \in Ids |-> "unseen"] /\ start' = {}
  /\ UNCHANGED <<envVars, prod, prodErr, batch, ch, workerVars, lastScan, owed>>

(* The COUNT fails, and the scan with it, or the producer and the workers  *)
(* are started.                                                            *)
CountMembers ==
  /\ scan = "counting"
  /\ \/ /\ scan' = "returned"
        /\ UNCHANGED <<prod, prodErr, pc, start>>
     \/ /\ scan' = "running"
        /\ prod' = "fetch" /\ prodErr' = FALSE
        /\ pc' = [w \in Workers |-> "idle"]
        /\ start' = table
  /\ UNCHANGED <<envVars, lastID, batch, ch, jobVars, status, counts, lastScan, fate, owed>>

(* Both WaitGroups are done: the snapshot is taken and the scan returns.   *)
FinishScan ==
  /\ scan = "running" /\ prod = "closed" /\ \A w \in Workers : pc[w] = "gone"
  /\ scan' = "returned" /\ prod' = "off"
  /\ lastScan' = TRUE
  /\ UNCHANGED <<envVars, prodErr, lastID, batch, ch, workerVars, status, counts,
                 history>>

MarkIdle ==
  /\ scan = "returned"
  /\ scan' = "asleep"
  /\ status' = MarkedIdle
  /\ UNCHANGED <<envVars, prodVars, ch, workerVars, counts, lastScan, history>>

-----------------------------------------------------------------------------
(* The producer (produceMembers).                                          *)

(* Mutant for MembersInOnePlace: the cursor's own row is read again.       *)
NextRowsInclusive(id) == {m \in table : m >= id}

NextRows(id) == {m \in table : m > id}

(* Mutant for ScanIsComplete: without ORDER BY id the newest rows may come *)
(* first.                                                                  *)
NewestFirst(rows) == {m \in rows : Cardinality({x \in rows : x > m}) < BatchSize}

(* The BatchSize lowest ids of a set of rows.                              *)
Lowest(rows) == {m \in rows : Cardinality({x \in rows : x < m}) < BatchSize}

FetchBatch ==
  /\ prod = "fetch"
  /\ \/ /\ batch' = Lowest(NextRows(lastID))
        /\ prod' = IF batch' = {} THEN "closed" ELSE "walk"
        /\ UNCHANGED prodErr
     \/ /\ prod' = "closed" /\ prodErr' = TRUE
        /\ UNCHANGED batch
  /\ UNCHANGED <<envVars, mainVars, lastID, ch, workerVars, status, counts, history>>

(* filterReason.  The batch holds the sync time read when it was fetched;  *)
(* only a worker that has this very row in hand would have changed it.     *)
FilterReason(m) ==
  IF m \in recent THEN "recent" ELSE IF m \notin CN THEN "nonCN" ELSE "keep"

(* The next row; a row that is kept is counted as queued before it is      *)
(* sent.  CurrentMember, which /progress shows, is left out.               *)
WalkRow ==
  /\ prod = "walk"
  /\ LET m == Min(batch)
         reason == FilterReason(m)
         walked == Count("walked")
     IN  /\ lastID' = m
         /\ IF reason = "keep"
            THEN /\ counts' = [walked EXCEPT !.queued = @ + 1]
                 /\ fate' = [fate EXCEPT ![m] = "queued"]
                 /\ owed' = owed \cup {m}
                 /\ prod' = "send"
                 /\ UNCHANGED batch
            ELSE /\ counts' = [walked EXCEPT ![reason] = @ + 1]
                 /\ fate' = [fate EXCEPT ![m] = "filtered"]
                 /\ batch' = batch \ {m}
                 /\ prod' = IF batch' = {} THEN "fetch" ELSE "walk"
                 /\ UNCHANGED owed
  /\ UNCHANGED <<envVars, mainVars, prodErr, ch, workerVars, status, start>>

(* Mutant for TypeOK: off by one.                                          *)
ChannelHasRoomForOneMore == Len(ch) <= MemberQueueSize

ChannelHasRoom == Len(ch) < MemberQueueSize

(* Blocks while the channel is full.                                       *)
SendMember ==
  /\ prod = "send" /\ ChannelHasRoom
  /\ ch' = Append(ch, lastID)
  /\ batch' = batch \ {lastID}
  /\ prod' = IF batch' = {} THEN "fetch" ELSE "walk"
  /\ UNCHANGED <<envVars, mainVars, prodErr, lastID, workerVars, status, counts, history>>

-----------------------------------------------------------------------------
(* The workers (runWorker, syncOneMember, waitForKey).                     *)

(* In syncOneMember's stages: waitForKey before it has blocked, asleep in  *)
(* it, and asking again; the network calls; Release; markSynced.           *)
Blocked(w) == pc[w] \in {"wait", "retry"}

(* syncOneMember starts, and with it the member's deadline.                *)
TakeMember(w) ==
  /\ pc[w] = "idle" /\ ch # <<>>
  /\ ch' = Tail(ch)
  /\ pc' = [pc EXCEPT ![w] = "acquire"]
  /\ member' = [member EXCEPT ![w] = Head(ch)]
  /\ lease' = [lease EXCEPT ![w] = "none"]
  /\ fate' = [fate EXCEPT ![Head(ch)] = "working"]
  /\ UNCHANGED <<envVars, mainVars, prodVars, left, posted, late, status, counts, start,
                 owed>>

(* The channel is closed and drained.                                      *)
StopWorker(w) ==
  /\ pc[w] = "idle" /\ ch = <<>> /\ prod = "closed"
  /\ pc' = [pc EXCEPT ![w] = "gone"]
  /\ UNCHANGED <<envVars, mainVars, prodVars, ch, jobVars, status, counts, history>>

(* syncOneMember returns, or has panicked: the worker is free again.       *)
EndMember(w, f) ==
  /\ pc' = [pc EXCEPT ![w] = "idle"]
  /\ member' = [member EXCEPT ![w] = None]
  /\ left' = [left EXCEPT ![w] = 0] /\ posted' = [posted EXCEPT ![w] = FALSE]
  /\ late' = [late EXCEPT ![w] = "no"]
  /\ fate' = [fate EXCEPT ![member[w]] = f]

(* Pool.Acquire, and waitForKey's deferred decrement when it returns.  It  *)
(* never says ErrNoKey: main does not start the loop with an empty pool.   *)
AcquireKey(w) ==
  /\ pc[w] \in {"acquire", "retry"}
  /\ \/ /\ pc' = [pc EXCEPT ![w] = "resolve"]
        /\ lease' = [lease EXCEPT ![w] = "held"]
        /\ status' = IF Blocked(w) THEN WaitLeft ELSE status
     \/ /\ pc' = [pc EXCEPT ![w] = "wait"]           \* ErrAllExhausted
        /\ IF Blocked(w) THEN UNCHANGED status
           ELSE \E resetAt \in Resets \cup {None} : status' = WaitEntered(resetAt)
        /\ UNCHANGED lease
  /\ UNCHANGED <<envVars, mainVars, prodVars, ch, member, left, posted, late, counts,
                 history>>

Wake(w) ==
  /\ pc[w] = "wait"
  /\ pc' = [pc EXCEPT ![w] = "retry"]
  /\ UNCHANGED <<envVars, mainVars, prodVars, ch, jobVars, status, counts, history>>

(* Mutant for ScanEnds: the deadline is not waited for.                    *)
GiveUpNever(w) == FALSE

(* The deadline ends the wait; nothing is counted.                         *)
GiveUp(w) ==
  /\ pc[w] = "wait" /\ late[w] # "no"
  /\ status' = WaitLeft
  /\ EndMember(w, "keyless")
  /\ UNCHANGED <<envVars, mainVars, prodVars, ch, lease, counts, start, owed>>

InTime(w) == late[w] = "no"

(* The Redis cache or FFLogs knows the character; or there is none: then   *)
(* the lease is forgotten.                                                 *)
ResolveCharacter(w) ==
  /\ pc[w] = "resolve" /\ InTime(w)
  /\ \/ /\ pc' = [pc EXCEPT ![w] = "best"]
        /\ UNCHANGED <<lease, counts, owed>>
     \/ /\ pc' = [pc EXCEPT ![w] = "mark"]
        /\ counts' = Count("noChar")
        /\ lease' = [lease EXCEPT ![w] = "dropped"]
        /\ owed' = owed \ {member[w]}
  /\ UNCHANGED <<envVars, mainVars, prodVars, ch, member, left, posted, late, status,
                 fate, start>>

AfterZones(n) == IF n = 0 THEN "release" ELSE "build"

FetchBestFights(w) ==
  /\ pc[w] = "best" /\ InTime(w)
  /\ \E n \in 0..Zones : /\ left' = [left EXCEPT ![w] = n]
                         /\ pc' = [pc EXCEPT ![w] = AfterZones(n)]
  /\ UNCHANGED <<envVars, mainVars, prodVars, ch, member, posted, lease, late, status,
                 counts, history>>

(* Done with a zone: on to the next one that has data, or to Release.      *)
NextZone(w) ==
  /\ left' = [left EXCEPT ![w] = @ - 1]
  /\ pc' = [pc EXCEPT ![w] = AfterZones(left[w] - 1)]

(* The fight is built, or FFLogs' report is incomplete (ErrNoProgress).    *)
BuildZone(w) ==
  /\ pc[w] = "build" /\ InTime(w)
  /\ \/ pc' = [pc EXCEPT ![w] = "upload"] /\ UNCHANGED left
     \/ NextZone(w)
  /\ UNCHANGED <<envVars, mainVars, prodVars, ch, member, posted, lease, late, status,
                 counts, history>>

(* CreateFight.  Its failure ends neither the member nor the lease.        *)
UploadZone(w) ==
  /\ pc[w] = "upload"
  /\ NextZone(w)
  /\ \/ /\ InTime(w)
        /\ counts' = Count("uploaded")
        /\ posted' = [posted EXCEPT ![w] = TRUE]
     \/ /\ counts' = Count("errors")
        /\ UNCHANGED posted
  /\ UNCHANGED <<envVars, mainVars, prodVars, ch, member, lease, late, status, history>>

(* Mutant for FailureIsRetried: the member counts as synced all the same.  *)
FFLogsFailsMarked(w) ==
  /\ pc[w] \in {"resolve", "best", "build"}
  /\ counts' = Count("errors")
  /\ lease' = [lease EXCEPT ![w] = "marked"]
  /\ recent' = recent \cup {member[w]}
  /\ EndMember(w, "failed")
  /\ UNCHANGED <<table, mainVars, prodVars, ch, status, crashes, start, owed>>

(* An FFLogs call fails, of itself or because the deadline has passed:     *)
(* classifyAndMark, and the member is left for the next scan.              *)
FFLogsFails(w) ==
  /\ pc[w] \in {"resolve", "best", "build"}
  /\ counts' = Count("errors")
  /\ lease' = [lease EXCEPT ![w] = "marked"]
  /\ EndMember(w, "failed")
  /\ UNCHANGED <<envVars, mainVars, prodVars, ch, status, start, owed>>

ReleaseKey(w) ==
  /\ pc[w] = "release"
  /\ pc' = [pc EXCEPT ![w] = "mark"]
  /\ lease' = [lease EXCEPT ![w] = "released"]
  /\ counts' = IF posted[w] THEN Count("withData") ELSE counts
  /\ owed' = owed \ {member[w]}
  /\ UNCHANGED <<envVars, mainVars, prodVars, ch, member, left, posted, late, status,
                 fate, start>>

(* markSynced; a failed UPDATE is logged and dropped.                      *)
MarkSynced(w) ==
  /\ pc[w] = "mark"
  /\ recent' = recent \cup {member[w]} \/ UNCHANGED recent
  /\ EndMember(w, IF lease[w] = "dropped" THEN "noChar" ELSE "synced")
  /\ UNCHANGED <<table, mainVars, prodVars, ch, lease, status, counts, crashes, start,
                 owed>>

(* runWorker recovers.                                                     *)
Panic(w) ==
  /\ Panics /\ pc[w] \in Calls
  /\ lease' = [lease EXCEPT ![w] = "dropped"]
  /\ EndMember(w, "panicked")
  /\ UNCHANGED <<envVars, mainVars, prodVars, ch, status, counts, start, owed>>

(* PerMemberTimeout runs out.                                              *)
Expire(w) ==
  /\ pc[w] \in Blockers \cup Calls /\ InTime(w)
  /\ late' = [late EXCEPT ![w] = pc[w]]
  /\ UNCHANGED <<envVars, mainVars, prodVars, ch, pc, member, left, posted, lease, status,
                 counts, history>>

-----------------------------------------------------------------------------
(* The environment: memo-server inserts members, sync times age, and the   *)
(* process dies and is started again.                                      *)

Insert(m) ==
  /\ m \notin table
  /\ table' = table \cup {m}
  /\ UNCHANGED <<recent, mainVars, prodVars, ch, workerVars, status, counts, crashes,
                 history>>

Age(m) ==
  /\ m \in recent
  /\ recent' = recent \ {m}
  /\ UNCHANGED <<table, mainVars, prodVars, ch, workerVars, status, counts, crashes,
                 history>>

(* RESET_STALE_SYNC, if it is set for the next start, clears the sync      *)
(* times before the first scan.                                            *)
Crash ==
  /\ crashes < MaxCrashes
  /\ crashes' = crashes + 1
  /\ scan' = "asleep" /\ prod' = "off" /\ prodErr' = FALSE /\ lastID' = 0 /\ batch' = {}
  /\ ch' = <<>>
  /\ pc' = [w \in Workers |-> "gone"]
  /\ member' = [w \in Workers |-> None]
  /\ left' = [w \in Workers |-> 0] /\ posted' = [w \in Workers |-> FALSE]
  /\ lease' = [w \in Workers |-> "none"] /\ late' = [w \in Workers |-> "no"]
  /\ status' = [state |-> "idle", waiting |-> 0, keysRecoverAt |-> None, nextScan |-> FALSE]
  /\ counts' = NoCounts /\ lastScan' = FALSE
  /\ fate' = [m \in Ids |-> "unseen"] /\ start' = {}
  /\ recent' \in {recent, {}}
  /\ UNCHANGED <<table, owed>>

-----------------------------------------------------------------------------

Main     == StartScan \/ CountMembers \/ FinishScan \/ MarkIdle
Producer == FetchBatch \/ WalkRow \/ SendMember
Worker(w) ==
  \/ TakeMember(w) \/ StopWorker(w) \/ AcquireKey(w) \/ Wake(w) \/ GiveUp(w)
  \/ ResolveCharacter(w) \/ FetchBestFights(w) \/ BuildZone(w) \/ UploadZone(w)
  \/ FFLogsFails(w) \/ ReleaseKey(w) \/ MarkSynced(w)

Next ==
  \/ Main \/ Producer
  \/ \E w \in Workers : Worker(w) \/ Panic(w) \/ Expire(w)
  \/ \E m \in Ids : Insert(m) \/ Age(m)
  \/ Crash

Spec == Init /\ [][Next]_vars

(* Goroutines that can run do; the calls they block on return, because the *)
(* member's deadline cancels them (the database's do not carry it, and are *)
(* taken to return); the deadline's timer fires; and Go's select, which    *)
(* picks at random among the ready cases, does not prefer the retry timer  *)
(* to the expired deadline for ever.                                       *)
Fairness ==
  /\ WF_vars(Main) /\ WF_vars(Producer)
  /\ \A w \in Workers : WF_vars(Worker(w)) /\ WF_vars(Expire(w)) /\ SF_vars(GiveUp(w))

FairSpec == Spec /\ Fairness

-----------------------------------------------------------------------------
(* Properties.                                                             *)

Having(f) == {m \in Ids : fate[m] \in f}
Taken     == {"working", "keyless", "failed", "panicked", "noChar", "synced"}

(* Every member the scan has kept is in exactly one place: in the          *)
(* producer's hand, once in the channel, with exactly one worker, or done  *)
(* with (producer, channel and workers together).                          *)
MembersInOnePlace ==
  scan = "running" =>
    \A m \in Ids :
      LET sending == IF prod = "send" /\ lastID = m THEN 1 ELSE 0
          queued  == Cardinality({i \in DOMAIN ch : ch[i] = m})
          working == Cardinality({w \in Workers : member[w] = m})
      IN  /\ sending + queued = (IF fate[m] = "queued" THEN 1 ELSE 0)
          /\ working = (IF fate[m] = "working" THEN 1 ELSE 0)

(* The counters /progress and the snapshot report add up to what happened  *)
(* to the members, whatever the workers did at the same time: each row is  *)
(* walked and filtered or queued once, and each character that is missing  *)
(* counted once.  errors is only bounded below, since failed uploads count *)
(* too; a member that panicked or found no key is in none of the outcomes. *)
CountersAgree ==
  /\ counts["walked"] = counts["nonCN"] + counts["recent"] + counts["queued"]
  /\ counts["walked"] = Cardinality(Having(Fates \ {"unseen"}))
  /\ counts["queued"] = Cardinality(Having(Taken \cup {"queued"}))
  /\ counts["noChar"] = Cardinality(Having({"noChar"})
                          \cup {member[w] : w \in {v \in Workers : lease[v] = "dropped"
                                                                   /\ pc[v] = "mark"}})
  /\ counts["errors"] >= Cardinality(Having({"failed"}))
  /\ counts["withData"] <= Cardinality(Having({"working", "synced"}))
  /\ counts["withData"] <= counts["uploaded"]

(* A scan whose producer met no error has, when it returns, walked every   *)
(* row that was there when it started and finished every member it kept,   *)
(* whatever was inserted meanwhile (the cursor against the batches).       *)
ScanIsComplete ==
  scan = "returned" /\ ~prodErr =>
    /\ start \subseteq Having(Fates \ {"unseen"})
    /\ Having({"queued", "working"}) = {}

(* A member whose sync did not come to its end -- FFLogs failed, no key    *)
(* was to be had, the worker panicked, the process died with it in the     *)
(* channel or half uploaded -- is not marked as synced, in this scan or a  *)
(* later one or by a later process: it stays due instead of being hidden   *)
(* for a day.                                                              *)
FailureIsRetried == owed \cap recent = {}

(* stateStore tells the truth at every instant: it counts the workers that *)
(* are blocked on a key, says waiting_for_keys exactly while there is one, *)
(* idle exactly between scans, and names a recovery time only while it     *)
(* waits and a next scan only while it is idle.                            *)
StatusAgrees ==
  /\ status.waiting = Cardinality({w \in Workers : Blocked(w)})
  /\ status.state = "waiting_for_keys" <=> status.waiting > 0
  /\ status.state = "idle" <=> scan = "asleep"
  /\ status.keysRecoverAt # None => status.waiting > 0
  /\ status.nextScan => status.state = "idle"

(* A scan comes to its end even if the pool never hands out another key    *)
(* and every call hangs until its deadline.                                *)
ScanEnds == scan = "running" ~> scan = "asleep"

(* The table is readable from some point on: neither the COUNT nor the     *)
(* producer's SELECT fails any more.                                       *)
TableReadable ==
  <>[]~prodErr /\ <>[][~(scan = "counting" /\ scan' = "returned")]_vars

(* A member that is due is synced again in the end, however often its sync *)
(* has failed, panicked or died with the process: the scans do not pass    *)
(* it by, neither the one under way nor all the later ones.                *)
DueIsRetried ==
  TableReadable => \A m \in CN : m \in table \ recent ~> fate[m] = "working"

(* "memo-server errors aren't key errors -- don't penalize the key"        *)
(* (service.go:350).  The code breaks this: a POST that hangs uses up the  *)
(* member's deadline, and the FFLogs call after it fails for that.         *)
MemoErrorsSpareKey ==
  [][\A w \in Workers : lease[w] = "held" /\ lease'[w] = "marked" => late[w] # "upload"]_vars
=============================================================================
