---------------------------- MODULE ProgressView ----------------------------
(***************************************************************************)
(* What a client of GET /progress sees of a scan (src/api/handlers.go).    *)
(* The handler takes no lock for the whole: it copies stateStore under its *)
(* mutex, loads one atomic counter after another, then the snapshot of the *)
(* last scan, while main, the producer and the workers (src/service/memo/  *)
(* service.go) store into them.  So here every single Store, Add and Load  *)
(* is an action of its own, where SyncMembers takes them together; in      *)
(* return the key pool, deadlines and the bounded channel are left out.    *)
(***************************************************************************)
EXTENDS Integers, Sequences, FiniteSets

CONSTANTS
  MaxId,     (* ids of the members table                                   *)
  CN,        (* members whose server is in cnWorlds                        *)
  Workers,
  Zones,     (* number of InterestZones                                    *)
  None,
  MaxScans   (* bound on the scans                                         *)

Ids == 1..MaxId

ASSUME ViewConstants ==
  /\ MaxId \in Nat /\ CN \subseteq Ids
  /\ IsFiniteSet(Workers) /\ Workers # {}
  /\ Zones \in Nat /\ None \notin Ids /\ MaxScans \in Nat

VARIABLES
  table, recent,   (* rows of members; those synced lately                 *)
  scan,      (* where main is                                              *)
  toReset,   (* counters resetScanCounters has still to store to           *)
  scanNo,    (* history: scans started so far                              *)
  store,     (* stateStore: the state, and the scan scanStartedAt is of    *)
  c,         (* the counters                                               *)
  atMember,  (* CurrentMember                                              *)
  lastScan,  (* lastScanSnapshot                                           *)
  prod,      (* where the producer is                                      *)
  lastID,    (* its cursor                                                 *)
  queue,     (* members sent and not taken yet                             *)
  member,    (* the member each worker syncs                               *)
  left,      (* zones it has still to post                                 *)
  posted,    (* it has posted a fight of this member                       *)
  toRead,    (* counters the handler has still to load                     *)
  resp       (* the response it is building, or has last sent              *)

dbVars     == <<table, recent>>
mainVars   == <<scan, toReset, scanNo, store, lastScan>>
prodVars   == <<prod, lastID>>
workerVars == <<member, left, posted>>
readerVars == <<toRead, resp>>
vars == <<dbVars, mainVars, c, atMember, prodVars, queue, workerVars, readerVars>>

Counters == {"walked", "expected", "nonCN", "recent", "queued", "noChar", "withData",
             "uploaded", "errors"}
NoCounts == [k \in Counters |-> 0]

(* A snapshot: the counters, and the scan they are of.                     *)
NoSnapshot == [of |-> 0, c |-> NoCounts]

(* A response: stateStore's copy, the counters read, at_member, last_scan; *)
(* begun and atRest are history: the scan of the moment it was begun, and  *)
(* whether the counters were being reset then.                             *)
NoResponse ==
  [state |-> "idle", startedAt |-> 0, c |-> NoCounts, atMember |-> None,
   lastScan |-> NoSnapshot, begun |-> 0, atRest |-> TRUE, sent |-> FALSE]

TypeOK ==
  /\ table \subseteq Ids /\ recent \subseteq table
  /\ scan \in {"asleep", "resetting", "counting", "precount", "running", "saved", "returned"}
  /\ toReset \in Seq(Counters) /\ toRead \in Seq(Counters \cup {"atMember", "lastScan"})
  /\ scanNo \in Nat /\ store \in [state : {"idle", "scanning"}, startedAt : Nat]
  /\ c \in [Counters -> Nat] /\ atMember \in Ids \cup {None}
  /\ prod \in {"off", "next", "named", "decide", "send"} /\ lastID \in 0..MaxId
  /\ queue \subseteq Ids
  /\ member \in [Workers -> Ids \cup {None}] /\ left \in [Workers -> 0..Zones]
  /\ posted \in [Workers -> BOOLEAN]

Init ==
  /\ table \in SUBSET Ids /\ recent \in SUBSET table
  /\ scan = "asleep" /\ toReset = <<>> /\ scanNo = 0
  /\ store = [state |-> "idle", startedAt |-> 0]
  /\ c = NoCounts /\ atMember = None /\ lastScan = NoSnapshot
  /\ prod = "off" /\ lastID = 0 /\ queue = {}
  /\ member = [w \in Workers |-> None]
  /\ left = [w \in Workers |-> 0] /\ posted = [w \in Workers |-> FALSE]
  /\ toRead = <<>> /\ resp = NoResponse

Add(k) == [c EXCEPT ![k] = @ + 1]

-----------------------------------------------------------------------------
(* main: SyncMembers and runSyncLoop, store by store.                      *)

(* Mutant for LastScanAddsUp: one of the counters is forgotten.            *)
ResetAllButData == <<"walked", "expected", "nonCN", "recent", "queued", "noChar",
                     "uploaded", "errors">>

ResetOrder == <<"walked", "expected", "nonCN", "recent", "queued", "noChar", "withData",
                "uploaded", "errors">>

MarkScanStarted ==
  /\ scan = "asleep" /\ scanNo < MaxScans
  /\ scan' = "resetting" /\ toReset' = ResetOrder
  /\ scanNo' = scanNo + 1
  /\ store' = [state |-> "scanning", startedAt |-> scanNo']
  /\ UNCHANGED <<dbVars, lastScan, c, atMember, prodVars, queue, workerVars, readerVars>>

(* The next store of resetScanCounters; CurrentMember comes last.          *)
ResetCounter ==
  /\ scan = "resetting"
  /\ IF toReset # <<>>
     THEN /\ c' = [c EXCEPT ![Head(toReset)] = 0]
          /\ toReset' = Tail(toReset)
          /\ UNCHANGED <<scan, atMember>>
     ELSE /\ atMember' = None
          /\ scan' = "counting"
          /\ UNCHANGED <<c, toReset>>
  /\ UNCHANGED <<dbVars, scanNo, store, lastScan, prodVars, queue, workerVars, readerVars>>

(* The COUNT; if it fails, so does the scan.                               *)
CountMembers ==
  /\ scan = "counting"
  /\ scan' \in {"precount", "returned"}
  /\ UNCHANGED <<dbVars, toReset, scanNo, store, lastScan, c, atMember, prodVars, queue,
                 workerVars, readerVars>>

(* The rows a scan has to work on: in cnWorlds, and not synced lately.     *)
Expected == Cardinality((table \cap CN) \ recent)

(* The precount, 0 if it fails; then the producer and the workers start.   *)
Precount ==
  /\ scan = "precount"
  /\ \E n \in {Expected, 0} : c' = [c EXCEPT !["expected"] = n]
  /\ scan' = "running"
  /\ prod' = "next" /\ lastID' = 0
  /\ UNCHANGED <<dbVars, toReset, scanNo, store, lastScan, atMember, queue, workerVars,
                 readerVars>>

(* Mutant for IdleIsFrozen: the producer is waited for, the workers are    *)
(* not.                                                                    *)
AllReturnedButWorkers == prod = "off"

(* Both WaitGroups.                                                        *)
AllReturned == prod = "off" /\ queue = {} /\ \A w \in Workers : member[w] = None

SaveSnapshot ==
  /\ scan = "running" /\ AllReturned
  /\ lastScan' = [of |-> scanNo, c |-> c]
  /\ scan' = "saved"
  /\ UNCHANGED <<dbVars, toReset, scanNo, store, c, atMember, prodVars, queue, workerVars,
                 readerVars>>

ForgetMember ==
  /\ scan = "saved"
  /\ atMember' = None /\ scan' = "returned"
  /\ UNCHANGED <<dbVars, toReset, scanNo, store, lastScan, c, prodVars, queue, workerVars,
                 readerVars>>

MarkIdle ==
  /\ scan = "returned"
  /\ store' = [store EXCEPT !.state = "idle"]
  /\ scan' = "asleep"
  /\ UNCHANGED <<dbVars, toReset, scanNo, lastScan, c, atMember, prodVars, queue, workerVars,
                 readerVars>>

-----------------------------------------------------------------------------
(* The producer: three stores per row, in this order, then the channel.    *)

(* The next row is counted; or there is none, or the SELECT fails.  Rows   *)
(* are taken one at a time: SyncMembers has the batches.                   *)
WalkRow ==
  /\ prod = "next"
  /\ LET rows == {m \in table : m > lastID} IN
     \/ /\ rows # {}
        /\ lastID' = CHOOSE m \in rows : \A x \in rows : m <= x
        /\ c' = Add("walked")
        /\ prod' = "named"
     \/ /\ prod' = "off"
        /\ UNCHANGED <<c, lastID>>
  /\ UNCHANGED <<dbVars, mainVars, atMember, queue, workerVars, readerVars>>

NameMember ==
  /\ prod = "named"
  /\ atMember' = lastID /\ prod' = "decide"
  /\ UNCHANGED <<dbVars, mainVars, c, lastID, queue, workerVars, readerVars>>

FilterReason(m) ==
  IF m \in recent THEN "recent" ELSE IF m \notin CN THEN "nonCN" ELSE "queued"

Decide ==
  /\ prod = "decide"
  /\ c' = Add(FilterReason(lastID))
  /\ prod' = IF FilterReason(lastID) = "queued" THEN "send" ELSE "next"
  /\ UNCHANGED <<dbVars, mainVars, atMember, lastID, queue, workerVars, readerVars>>

Send ==
  /\ prod = "send"
  /\ queue' = queue \cup {lastID} /\ prod' = "next"
  /\ UNCHANGED <<dbVars, mainVars, c, atMember, lastID, workerVars, readerVars>>

-----------------------------------------------------------------------------
(* The workers: what they do to the counters.                              *)

Take(w) ==
  /\ member[w] = None
  /\ \E m \in queue : member' = [member EXCEPT ![w] = m] /\ queue' = queue \ {m}
  /\ \E n \in 0..Zones : left' = [left EXCEPT ![w] = n]
  /\ UNCHANGED <<dbVars, mainVars, c, atMember, prodVars, posted, readerVars>>

Return(w) ==
  /\ member' = [member EXCEPT ![w] = None]
  /\ left' = [left EXCEPT ![w] = 0] /\ posted' = [posted EXCEPT ![w] = FALSE]

(* Mutant for TypeOK: the loop runs one zone past the last.                *)
UploadOneMore(w) ==
  /\ member[w] # None
  /\ left' = [left EXCEPT ![w] = @ - 1]
  /\ \/ c' = Add("uploaded") /\ posted' = [posted EXCEPT ![w] = TRUE]
     \/ c' = Add("errors") /\ UNCHANGED posted
  /\ UNCHANGED <<dbVars, mainVars, atMember, prodVars, queue, member, readerVars>>

(* A zone is posted, or its upload fails.                                  *)
Upload(w) ==
  /\ member[w] # None /\ left[w] > 0
  /\ left' = [left EXCEPT ![w] = @ - 1]
  /\ \/ c' = Add("uploaded") /\ posted' = [posted EXCEPT ![w] = TRUE]
     \/ c' = Add("errors") /\ UNCHANGED posted
  /\ UNCHANGED <<dbVars, mainVars, atMember, prodVars, queue, member, readerVars>>

(* Every zone is done: the member is counted, and marked if the UPDATE     *)
(* succeeds.                                                               *)
Finish(w) ==
  /\ member[w] # None /\ left[w] = 0
  /\ c' = IF posted[w] THEN Add("withData") ELSE c
  /\ recent' \in {recent, recent \cup {member[w]}}
  /\ Return(w)
  /\ UNCHANGED <<table, mainVars, atMember, prodVars, queue, readerVars>>

(* No character, an FFLogs error, or no key in time (or a panic).          *)
Abandon(w) ==
  /\ member[w] # None
  /\ \/ /\ c' = Add("noChar") /\ ~posted[w]
        /\ recent' \in {recent, recent \cup {member[w]}}
     \/ c' = Add("errors") /\ UNCHANGED recent
     \/ UNCHANGED <<c, recent>>
  /\ Return(w)
  /\ UNCHANGED <<table, mainVars, atMember, prodVars, queue, readerVars>>

-----------------------------------------------------------------------------
(* GetProgress.                                                            *)

(* Mutant for CountersFit: walked is loaded after what it is the sum of.   *)
ReadWalkedLast == <<"expected", "nonCN", "recent", "queued", "noChar", "withData",
                    "uploaded", "errors", "walked", "atMember", "lastScan">>

(* Mutant for DataWasUploaded: the two are loaded the other way round.     *)
ReadUploadedFirst == <<"walked", "expected", "nonCN", "recent", "queued", "noChar",
                       "uploaded", "withData", "errors", "atMember", "lastScan">>

(* buildCurrentScan's loads, in the order Go evaluates them; buildLastScan *)
(* comes after it.                                                         *)
ReadOrder == <<"walked", "expected", "nonCN", "recent", "queued", "noChar", "withData",
               "uploaded", "errors", "atMember", "lastScan">>

(* CurrentSnapshot.                                                        *)
Begin ==
  /\ toRead = <<>> /\ ~resp.sent
  /\ toRead' = ReadOrder
  /\ resp' = [NoResponse EXCEPT !.state = store.state, !.startedAt = store.startedAt,
                                !.begun = scanNo, !.atRest = scan # "resetting"]
  /\ UNCHANGED <<dbVars, mainVars, c, atMember, prodVars, queue, workerVars>>

Load ==
  /\ toRead # <<>>
  /\ LET field == Head(toRead)
         next == [resp EXCEPT !.sent = Len(toRead) = 1]
     IN  resp' = IF field = "atMember" THEN [next EXCEPT !.atMember = atMember]
                 ELSE IF field = "lastScan" THEN [next EXCEPT !.lastScan = lastScan]
                 ELSE [next EXCEPT !.c[field] = c[field]]
  /\ toRead' = Tail(toRead)
  /\ UNCHANGED <<dbVars, mainVars, c, atMember, prodVars, queue, workerVars>>

(* The client has the response.                                            *)
Done ==
  /\ resp.sent
  /\ resp' = NoResponse
  /\ UNCHANGED <<dbVars, mainVars, c, atMember, prodVars, queue, workerVars, toRead>>

-----------------------------------------------------------------------------
(* The environment.                                                        *)

Insert(m) ==
  /\ m \notin table
  /\ table' = table \cup {m}
  /\ UNCHANGED <<recent, mainVars, c, atMember, prodVars, queue, workerVars, readerVars>>

Age(m) ==
  /\ m \in recent
  /\ recent' = recent \ {m}
  /\ UNCHANGED <<table, mainVars, c, atMember, prodVars, queue, workerVars, readerVars>>

Next ==
  \/ MarkScanStarted \/ ResetCounter \/ CountMembers \/ Precount \/ SaveSnapshot
  \/ ForgetMember \/ MarkIdle
  \/ WalkRow \/ NameMember \/ Decide \/ Send
  \/ \E w \in Workers : Take(w) \/ Upload(w) \/ Finish(w) \/ Abandon(w)
  \/ Begin \/ Load \/ Done
  \/ \E m \in Ids : Insert(m) \/ Age(m)

Spec == Init /\ [][Next]_vars

-----------------------------------------------------------------------------
(* Properties.                                                             *)

Sums(k) == k["nonCN"] + k["recent"] + k["queued"]

(* The response was begun once the counters were reset and read before the *)
(* next scan starts: one that meets the resets may mix two scans' figures. *)
InOneScan == resp.sent /\ resp.atRest /\ resp.begun = scanNo

(* A response put together within one scan never shows more members        *)
(* walked than it accounts for, but for the one in the producer's hand:    *)
(* the counters are loaded in an order that fits the one they move in.     *)
CountersFit == InOneScan => resp.c["walked"] <= Sums(resp.c) + 1

(* Nor, within one scan, a member with data whose upload it does not show: *)
(* a worker counts the upload first, and the handler loads it second.      *)
DataWasUploaded == InOneScan => resp.c["withData"] <= resp.c["uploaded"]

(* "During idle they still hold the values of the just-finished scan"      *)
(* (openapi.yaml:440): a response that says idle, with no scan starting    *)
(* while it is read, shows the counters last_scan shows -- unless the scan *)
(* failed before it could count.                                           *)
IdleIsFrozen ==
  InOneScan /\ resp.state = "idle" /\ resp.lastScan.of = resp.startedAt =>
    /\ resp.c = resp.lastScan.c
    /\ resp.atMember = None

(* last_scan adds up: every row walked is filtered or queued, and no more  *)
(* members have an outcome than were queued -- whenever it is read, and    *)
(* whatever scan is running then.                                          *)
LastScanAddsUp ==
  /\ lastScan.c["walked"] = Sums(lastScan.c)
  /\ lastScan.c["noChar"] + lastScan.c["withData"] <= lastScan.c["queued"]
  /\ lastScan.of = scanNo /\ scan # "resetting" => lastScan.c = c
=============================================================================
