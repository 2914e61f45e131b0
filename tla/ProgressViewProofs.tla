-------------------------- MODULE ProgressViewProofs --------------------------
(***************************************************************************)
(* What the run of ProgressView shows of two workers, two members and two  *)
(* scans, proved for any number of them.                                   *)
(*                                                                         *)
(* A response is put together from loads that other steps come between.    *)
(* The argument gives every counter the value the response will not fall   *)
(* short of (Shown: what was loaded, or what there is still to load), and  *)
(* the inequalities hold of those from the first load on, because within   *)
(* one scan the counters on their right only grow.  What they start from   *)
(* is the book-keeping of the scan itself (Tally), and that a scan's first *)
(* stores leave nothing behind of the one before it (Resets).              *)
(***************************************************************************)
EXTENDS ProgressView, FiniteNats, FiniteSetTheorems, SequenceTheorems, TLAPS

-----------------------------------------------------------------------------
(* The invariant.                                                          *)

Snapshots == [of : Nat, c : [Counters -> Nat]]

Responses ==
  [state : {"idle", "scanning"}, startedAt : Nat, c : [Counters -> Nat],
   atMember : Ids \cup {None}, lastScan : Snapshots, begun : Nat,
   atRest : BOOLEAN, sent : BOOLEAN]

(* TypeOK, and the two variables it leaves out.                            *)
Typed == TypeOK /\ lastScan \in Snapshots /\ resp \in Responses

(* The producer and the workers are there only while the scan runs, and    *)
(* which scan the published state and the snapshot are of.                 *)
Phases ==
  /\ scan # "running" => prod = "off" /\ queue = {} /\ \A w \in Workers : member[w] = None
  /\ \A w \in Workers : posted[w] => member[w] # None
  /\ store.startedAt = scanNo
  /\ store.state = "idle" <=> scan = "asleep"
  /\ lastScan.of <= scanNo
  /\ scan \in {"resetting", "counting", "precount", "running"} => lastScan.of < scanNo
  /\ scan \in {"counting", "precount", "returned", "asleep"} => atMember = None

(* What the producer and the workers hold are rows of the table: a row is  *)
(* never deleted.                                                          *)
Rows ==
  /\ prod \in {"named", "decide", "send"} => lastID \in table
  /\ queue \subseteq table
  /\ \A w \in Workers : member[w] # None => member[w] \in table

(* s is what is left of order once its first elements are dealt with.      *)
Remains(s, order) ==
  /\ Len(s) <= Len(order)
  /\ \A i \in 1..Len(s) : s[i] = order[Len(order) - Len(s) + i]

(* toReset is what is left of ResetOrder, and what went before is cleared. *)
Resets ==
  /\ Remains(toReset, ResetOrder)
  /\ scan = "resetting" => \A j \in 1..9 : j <= 9 - Len(toReset) => c[ResetOrder[j]] = 0
  /\ scan # "resetting" => toReset = <<>>

Busy   == {w \in Workers : member[w] # None}
Posted == {w \in Workers : posted[w]}

(* Every row walked is accounted for but the one the producer has in hand, *)
(* every member queued has at most one outcome, and every member with data *)
(* an upload.                                                              *)
InHand == IF prod \in {"named", "decide"} THEN 1 ELSE 0
ToSend == IF prod = "send" THEN 1 ELSE 0
Balanced ==
  /\ c["walked"] = Sums(c) + InHand
  /\ c["noChar"] + c["withData"] + Cardinality(queue) + Cardinality(Busy) + ToSend
       <= c["queued"]
  /\ c["withData"] + Cardinality(Posted) <= c["uploaded"]
Tally == scan # "resetting" => Balanced

(* toRead is what is left of ReadOrder.                                    *)
Loads ==
  /\ Remains(toRead, ReadOrder)
  /\ resp.sent => toRead = <<>>
  /\ resp.begun <= scanNo

(* A response begun in this scan, whose counters had been reset.           *)
ThisScan == (toRead # <<>> \/ resp.sent) /\ resp.atRest /\ resp.begun = scanNo

(* The counter at place j of ReadOrder, as the response will show it at    *)
(* the least.                                                              *)
Shown(j) == IF j <= 11 - Len(toRead) THEN resp.c[ReadOrder[j]] ELSE c[ReadOrder[j]]

(* What a response of this scan shows so far.                              *)
Showing ==
  ThisScan =>
    /\ scan # "resetting"
    /\ resp.startedAt = scanNo
    /\ Len(toRead) < 11 => Shown(1) <= Shown(3) + Shown(4) + Shown(5) + 1
    /\ Len(toRead) < 5 => Shown(7) <= Shown(8)

(* And while the loop sleeps, it shows what there is.                      *)
Frozen ==
  ThisScan /\ resp.state = "idle" =>
    /\ scan = "asleep"
    /\ \A j \in 1..9 : j <= 11 - Len(toRead) => resp.c[ReadOrder[j]] = c[ReadOrder[j]]
    /\ Len(toRead) < 2 => resp.atMember = atMember
    /\ Len(toRead) < 1 => resp.lastScan = lastScan

(* The inductive invariant. *)
IInv ==
  Typed /\ Phases /\ Rows /\ Resets /\ Tally /\ Loads /\ Showing /\ Frozen
    /\ LastScanAddsUp

-----------------------------------------------------------------------------
(* The operators.                                                          *)

(* There are finitely many ids.                                            *)
LEMMA IdsFinite == IsFiniteSet(Ids) /\ Ids \subseteq Nat \ {0} /\ None \notin Ids
BY FS_Interval, ViewConstants DEF Ids

(* A set of ids that is not empty has a lowest.                            *)
LEMMA Lowest ==
  ASSUME NEW S \in SUBSET Ids, S # {}
  PROVE  \E m \in S : \A x \in S : m <= x
<1>1. S \in SUBSET Nat /\ IsFiniteSet(S)
  BY IdsFinite, FS_Subset
<1>2. QED
  BY <1>1, MinOfNats

(* The two orders, place by place.                                         *)
LEMMA Orders ==
  /\ Len(ResetOrder) = 9 /\ ResetOrder \in Seq(Counters)
  /\ Len(ReadOrder) = 11 /\ ReadOrder \in Seq(Counters \cup {"atMember", "lastScan"})
  /\ \A j \in 1..9 : ResetOrder[j] = ReadOrder[j] /\ ReadOrder[j] \in Counters
  /\ \A k \in Counters : \E j \in 1..9 : k = ReadOrder[j]
<1>1. /\ Len(ResetOrder) = 9 /\ ResetOrder \in Seq(Counters)
  BY DEF ResetOrder, Counters
<1>2. /\ Len(ReadOrder) = 11 /\ ReadOrder \in Seq(Counters \cup {"atMember", "lastScan"})
  BY DEF ReadOrder, Counters
<1>3. \A j \in 1..9 : j \in {1, 2, 3, 4, 5, 6, 7, 8, 9}
  OBVIOUS
<1>4. \A j \in 1..9 : ResetOrder[j] = ReadOrder[j] /\ ReadOrder[j] \in Counters
  BY <1>3 DEF ResetOrder, ReadOrder, Counters
<1>5. \A k \in Counters : \E j \in {1, 2, 3, 4, 5, 6, 7, 8, 9} : k = ReadOrder[j]
  BY DEF ReadOrder, Counters
<1>6. QED
  BY <1>1, <1>2, <1>4, <1>5

(* What each place of ReadOrder is.                                        *)
LEMMA Places ==
  /\ ReadOrder[1] = "walked" /\ ReadOrder[2] = "expected" /\ ReadOrder[3] = "nonCN"
  /\ ReadOrder[4] = "recent" /\ ReadOrder[5] = "queued" /\ ReadOrder[6] = "noChar"
  /\ ReadOrder[7] = "withData" /\ ReadOrder[8] = "uploaded" /\ ReadOrder[9] = "errors"
  /\ ReadOrder[10] = "atMember" /\ ReadOrder[11] = "lastScan"
BY DEF ReadOrder

(* The counters after Add, each of them.                                   *)
LEMMA Adding ==
  ASSUME c \in [Counters -> Nat], NEW k \in Counters
  PROVE  /\ Add(k) \in [Counters -> Nat]
         /\ \A j \in Counters : Add(k)[j] = IF j = k THEN c[j] + 1 ELSE c[j]
BY DEF Add

(* There are the counters the code names, and they all have numbers.       *)
LEMMA CounterNames ==
  ASSUME NEW f \in [Counters -> Nat]
  PROVE  /\ f["walked"] \in Nat /\ f["expected"] \in Nat /\ f["nonCN"] \in Nat
         /\ f["recent"] \in Nat /\ f["queued"] \in Nat /\ f["noChar"] \in Nat
         /\ f["withData"] \in Nat /\ f["uploaded"] \in Nat /\ f["errors"] \in Nat
         /\ Sums(f) \in Nat
BY DEF Counters, Sums

(* The counters before any step of a scan.                                 *)
LEMMA NoCountsTyped ==
  NoCounts \in [Counters -> Nat] /\ NoSnapshot \in Snapshots /\ NoResponse \in Responses
<1>1. NoCounts \in [Counters -> Nat]
  BY DEF NoCounts
<1>2. NoSnapshot \in Snapshots
  BY <1>1 DEF NoSnapshot, Snapshots
<1>3. NoResponse \in Responses
  BY <1>1, <1>2 DEF NoResponse, Responses
<1>4. QED
  BY <1>1, <1>2, <1>3

(* The sets that Tally counts are finite.                                  *)
LEMMA Finite ==
  ASSUME TypeOK
  PROVE  /\ IsFiniteSet(queue) /\ IsFiniteSet(Busy) /\ IsFiniteSet(Posted)
         /\ Cardinality(queue) \in Nat /\ Cardinality(Busy) \in Nat
         /\ Cardinality(Posted) \in Nat
<1>1. queue \subseteq Ids /\ Busy \subseteq Workers /\ Posted \subseteq Workers
  BY DEF TypeOK, Busy, Posted
<1>2. IsFiniteSet(queue) /\ IsFiniteSet(Busy) /\ IsFiniteSet(Posted)
  BY <1>1, IdsFinite, ViewConstants, FS_Subset
<1>3. QED
  BY <1>2, FS_CardinalityType

(* The first of what is left of an order is at the place its length says,  *)
(* and the rest is what is left one place on.                              *)
LEMMA Remainder ==
  ASSUME NEW T, NEW order, Len(order) \in Nat, NEW s \in Seq(T), s # <<>>, Remains(s, order)
  PROVE  /\ Len(s) \in 1..Len(order) /\ Len(Tail(s)) = Len(s) - 1
         /\ Head(s) \in T /\ Head(s) = order[Len(order) + 1 - Len(s)]
         /\ Remains(Tail(s), order)
<1> DEFINE n == Len(order)
<1>1. Len(s) \in 1..n
  BY EmptySeq DEF Remains
<1>2. Head(s) = s[1] /\ 1 \in 1..Len(s)
  BY <1>1
<1>3. \A i \in 1..Len(s) : s[i] = order[n - Len(s) + i]
  BY DEF Remains
<1>9. n \in Nat
  OBVIOUS
<1> HIDE DEF n
<1>4. Head(s) \in T /\ Head(s) = order[n + 1 - Len(s)]
  BY <1>1, <1>2, <1>3, <1>9
<1>5. Tail(s) \in Seq(T) /\ Len(Tail(s)) = Len(s) - 1
      /\ \A i \in 1..Len(Tail(s)) : Tail(s)[i] = s[i + 1]
  BY <1>1, HeadTailProperties
<1>6. \A i \in 1..Len(Tail(s)) : Tail(s)[i] = order[n - Len(Tail(s)) + i]
  <2>1. SUFFICES ASSUME NEW i \in 1..Len(Tail(s))
                 PROVE  Tail(s)[i] = order[n - Len(Tail(s)) + i]
    OBVIOUS
  <2>2. i + 1 \in 1..Len(s)
    BY <1>1, <1>5
  <2>3. Tail(s)[i] = order[n - Len(s) + (i + 1)]
    BY <1>3, <1>5, <2>2
  <2>4. n - Len(s) + (i + 1) = n - Len(Tail(s)) + i
    BY <1>1, <1>5, <2>2 DEF n
  <2>5. QED
    BY <2>3, <2>4
<1>7. Remains(Tail(s), order)
  BY <1>1, <1>5, <1>6 DEF n, Remains
<1>8. QED
  BY <1>1, <1>4, <1>5, <1>7 DEF n

-----------------------------------------------------------------------------
(* The initial states.                                                     *)

(* The process starts with nothing walked and nobody reading.              *)
LEMMA InitHolds == Init => IInv
<1>1. SUFFICES ASSUME Init PROVE IInv
  OBVIOUS
<1>2. Typed
  <2>1. toReset \in Seq(Counters) /\ toRead \in Seq(Counters \cup {"atMember", "lastScan"})
    BY <1>1 DEF Init
  <2>2. table \subseteq Ids /\ recent \subseteq table /\ lastID \in 0..MaxId /\ queue \subseteq Ids
    BY <1>1, ViewConstants DEF Init
  <2>3. left \in [Workers -> 0..Zones] /\ member \in [Workers -> Ids \cup {None}]
        /\ posted \in [Workers -> BOOLEAN]
    BY <1>1, ViewConstants DEF Init
  <2>4. TypeOK
    BY <1>1, <2>1, <2>2, <2>3, NoCountsTyped DEF Init, TypeOK
  <2>5. QED
    BY <1>1, <2>4, NoCountsTyped DEF Init, Typed
<1>3. Phases /\ Rows
  BY <1>1 DEF Init, Phases, Rows, NoSnapshot
<1>4. Remains(<<>>, ResetOrder) /\ Remains(<<>>, ReadOrder)
  BY Orders DEF Remains
<1>4a. Resets
  BY <1>1, <1>4 DEF Init, Resets
<1>5. Tally
  <2>1. Busy = {} /\ Posted = {} /\ queue = {}
    BY <1>1 DEF Init, Busy, Posted
  <2>2. Cardinality({}) = 0
    BY FS_EmptySet
  <2>3. \A k \in Counters : c[k] = 0
    BY <1>1 DEF Init, NoCounts
  <2>4. InHand = 0 /\ ToSend = 0
    BY <1>1 DEF Init, InHand, ToSend
  <2>5. c["walked"] = 0 /\ c["nonCN"] = 0 /\ c["recent"] = 0 /\ c["queued"] = 0
        /\ c["noChar"] = 0 /\ c["withData"] = 0 /\ c["uploaded"] = 0
    BY <2>3 DEF Counters
  <2>6. QED
    BY <2>1, <2>2, <2>4, <2>5 DEF Tally, Balanced, Sums
<1>6. Loads /\ ~ ThisScan
  BY <1>1, <1>4 DEF Init, Loads, NoResponse, ThisScan
<1>7. LastScanAddsUp
  <2>1. \A k \in Counters : lastScan.c[k] = 0
    BY <1>1 DEF Init, NoSnapshot, NoCounts
  <2>2. QED
    BY <1>1, <2>1 DEF Init, NoSnapshot, LastScanAddsUp, Sums, Counters
<1>8. QED
  BY <1>2, <1>3, <1>4a, <1>5, <1>6, <1>7 DEF IInv, Showing, Frozen

-----------------------------------------------------------------------------
(* Types.                                                                  *)

(* The steps of main.                                                      *)
MainStep ==
  MarkScanStarted \/ ResetCounter \/ CountMembers \/ Precount \/ SaveSnapshot \/ ForgetMember
    \/ MarkIdle
ProducerStep == WalkRow \/ NameMember \/ Decide \/ Send
WorkerStep == \E w \in Workers : Take(w) \/ Upload(w) \/ Finish(w) \/ Abandon(w)
TableStep == \E m \in Ids : Insert(m) \/ Age(m)
ReaderStep == Begin \/ Load \/ Done

(* Typed is inductive, given the rest. *)
LEMMA MainTyped == ASSUME IInv, MainStep PROVE Typed'
<1> USE DEF IInv, Typed, dbVars, prodVars, workerVars, readerVars
<1>1. CASE MarkScanStarted
  <2>1. toReset' \in Seq(Counters)
    BY <1>1, Orders DEF MarkScanStarted
  <2>2. store' \in [state : {"idle", "scanning"}, startedAt : Nat] /\ scanNo' \in Nat
    BY <1>1 DEF MarkScanStarted, TypeOK
  <2>3. QED
    BY <1>1, <2>1, <2>2 DEF MarkScanStarted, TypeOK
<1>2. CASE ResetCounter
  <2>1. toReset' \in Seq(Counters) /\ c' \in [Counters -> Nat]
    <3>1. CASE toReset # <<>>
      <4>1. Tail(toReset) \in Seq(Counters) /\ c \in [Counters -> Nat]
        BY <3>1, HeadTailProperties DEF TypeOK
      <4>2. toReset' = Tail(toReset) /\ c' = [c EXCEPT ![Head(toReset)] = 0]
        BY <1>2, <3>1 DEF ResetCounter
      <4>3. QED
        BY <4>1, <4>2
    <3>2. CASE toReset = <<>>
      BY <1>2, <3>2 DEF ResetCounter, TypeOK
    <3>3. QED
      BY <3>1, <3>2
  <2>2. scan' \in {"resetting", "counting"} /\ atMember' \in Ids \cup {None}
    BY <1>2 DEF ResetCounter, TypeOK
  <2>3. QED
    BY <1>2, <2>1, <2>2 DEF ResetCounter, TypeOK
<1>3. CASE CountMembers
  BY <1>3 DEF CountMembers, TypeOK
<1>4. CASE Precount
  <2>1. IsFiniteSet((table \cap CN) \ recent)
    <3>1. (table \cap CN) \ recent \subseteq Ids
      BY DEF TypeOK
    <3>2. QED
      BY <3>1, IdsFinite, FS_Subset
  <2>2. Expected \in Nat
    BY <2>1, FS_CardinalityType DEF Expected
  <2>3. c' \in [Counters -> Nat]
    <3>1. PICK n \in {Expected, 0} : c' = [c EXCEPT !["expected"] = n]
      BY <1>4 DEF Precount
    <3>2. n \in Nat /\ c \in [Counters -> Nat]
      BY <2>2 DEF TypeOK
    <3>3. QED
      BY <3>1, <3>2
  <2>4. 0 \in 0..MaxId
    BY ViewConstants
  <2>5. QED
    BY <1>4, <2>3, <2>4 DEF Precount, TypeOK
<1>5. CASE SaveSnapshot
  BY <1>5 DEF SaveSnapshot, TypeOK, Snapshots
<1>6. CASE ForgetMember
  BY <1>6 DEF ForgetMember, TypeOK
<1>7. CASE MarkIdle
  BY <1>7 DEF MarkIdle, TypeOK
<1>8. QED
  BY <1>1, <1>2, <1>3, <1>4, <1>5, <1>6, <1>7 DEF MainStep

(* What the producer adds to is a counter.                                 *)
LEMMA FilterReasons == \A m : FilterReason(m) \in {"recent", "nonCN", "queued"}
BY DEF FilterReason

LEMMA ProducerTyped == ASSUME IInv, ProducerStep PROVE Typed'
<1> USE DEF IInv, Typed, dbVars, mainVars, workerVars, readerVars
<1>1. CASE WalkRow
  <2> DEFINE rows == {m \in table : m > lastID}
  <2>1. \/ /\ rows # {} /\ lastID' = CHOOSE m \in rows : \A x \in rows : m <= x
           /\ c' = Add("walked") /\ prod' = "named"
        \/ prod' = "off" /\ UNCHANGED <<c, lastID>>
    BY <1>1 DEF WalkRow
  <2>2. rows \subseteq Ids
    BY DEF TypeOK
  <2>3. rows # {} => (CHOOSE m \in rows : \A x \in rows : m <= x) \in rows
    BY <2>2, Lowest
  <2> HIDE DEF rows
  <2>4. lastID' \in 0..MaxId
    <3>1. Ids \subseteq 0..MaxId
      BY ViewConstants DEF Ids
    <3>2. QED
      BY <2>1, <2>2, <2>3, <3>1 DEF TypeOK
  <2>5. c' \in [Counters -> Nat]
    BY <2>1, Adding DEF TypeOK, Counters
  <2>6. prod' \in {"named", "off"}
    BY <2>1
  <2>7. QED
    BY <1>1, <2>4, <2>5, <2>6 DEF WalkRow, TypeOK
<1>2. CASE NameMember
  BY <1>2 DEF NameMember, TypeOK, Rows
<1>3. CASE Decide
  <2>1. FilterReason(lastID) \in Counters
    BY FilterReasons DEF Counters
  <2>2. c' \in [Counters -> Nat]
    BY <1>3, <2>1, Adding DEF Decide, TypeOK
  <2>3. prod' \in {"send", "next"}
    BY <1>3 DEF Decide
  <2>4. QED
    BY <1>3, <2>2, <2>3 DEF Decide, TypeOK
<1>4. CASE Send
  BY <1>4 DEF Send, TypeOK, Rows
<1>5. QED
  BY <1>1, <1>2, <1>3, <1>4 DEF ProducerStep

LEMMA WorkerTyped == ASSUME IInv, NEW w \in Workers,
                            Take(w) \/ Upload(w) \/ Finish(w) \/ Abandon(w)
                     PROVE  Typed'
<1> USE DEF IInv, Typed, dbVars, mainVars, prodVars, workerVars, readerVars
<1>1. 0 \in 0..Zones
  BY ViewConstants
<1>2. \A k \in {"uploaded", "errors", "withData", "noChar"} : Add(k) \in [Counters -> Nat]
  BY Adding DEF TypeOK, Counters
<1>3. CASE Take(w)
  <2>1. queue' \subseteq Ids /\ member' \in [Workers -> Ids \cup {None}]
    BY <1>3 DEF Take, TypeOK
  <2>2. left' \in [Workers -> 0..Zones]
    BY <1>3 DEF Take, TypeOK
  <2>3. QED
    BY <1>3, <2>1, <2>2 DEF Take, TypeOK
<1>4. CASE Upload(w)
  <2>1. left[w] - 1 \in 0..Zones
    BY <1>4, ViewConstants DEF Upload, TypeOK
  <2>2. left' \in [Workers -> 0..Zones]
    BY <1>4, <2>1 DEF Upload, TypeOK
  <2>3. c' \in [Counters -> Nat] /\ posted' \in [Workers -> BOOLEAN]
    BY <1>2, <1>4 DEF Upload, TypeOK
  <2>4. QED
    BY <1>4, <2>2, <2>3 DEF Upload, TypeOK
<1>5. ASSUME Finish(w) \/ Abandon(w) PROVE Typed'
  <2>1. /\ member' \in [Workers -> Ids \cup {None}] /\ left' \in [Workers -> 0..Zones]
        /\ posted' \in [Workers -> BOOLEAN]
    BY <1>1, <1>5 DEF Finish, Abandon, Return, TypeOK
  <2>2. c' \in [Counters -> Nat]
    BY <1>2, <1>5 DEF Finish, Abandon, TypeOK
  <2>3. recent' \subseteq table /\ table' = table
    <3>1. member[w] # None
      BY <1>5 DEF Finish, Abandon
    <3>2. member[w] \in table
      BY <3>1 DEF Rows
    <3>3. QED
      BY <1>5, <3>2 DEF Finish, Abandon, TypeOK
  <2>4. QED
    BY <1>5, <2>1, <2>2, <2>3 DEF Finish, Abandon, TypeOK
<1>6. QED
  BY <1>3, <1>4, <1>5

-----------------------------------------------------------------------------
(* The book-keeping of a scan.                                             *)

(* A worker that has a member, or a producer that is not off: the scan     *)
(* runs.                                                                   *)
LEMMA Running ==
  ASSUME IInv
  PROVE  /\ prod # "off" => scan = "running"
         /\ queue # {} => scan = "running"
         /\ \A w \in Workers : member[w] # None => scan = "running"
         /\ scan = "running" => lastScan.of < scanNo
BY DEF IInv, Phases

(* A worker's return: it has no member any more, and the others theirs.    *)
LEMMA Returning ==
  ASSUME TypeOK, NEW w \in Workers, Return(w)
  PROVE  /\ \A v \in Workers : /\ member'[v] = IF v = w THEN None ELSE member[v]
                               /\ posted'[v] = IF v = w THEN FALSE ELSE posted[v]
         /\ Busy' = Busy \ {w} /\ Posted' = Posted \ {w}
<1>1. \A v \in Workers : /\ member'[v] = IF v = w THEN None ELSE member[v]
                         /\ posted'[v] = IF v = w THEN FALSE ELSE posted[v]
  BY DEF Return, TypeOK
<1>2. Busy' = Busy \ {w} /\ Posted' = Posted \ {w}
  BY <1>1 DEF Busy, Posted
<1>3. QED
  BY <1>1, <1>2

(* Phases and Rows are inductive, one lemma per goroutine. *)
LEMMA PhasesMain == ASSUME IInv, MainStep PROVE Phases' /\ Rows'
<1> USE DEF IInv, dbVars, prodVars, workerVars, readerVars
<1>1. scanNo \in Nat /\ lastScan.of \in Nat
  BY DEF Typed, TypeOK, Snapshots
<1>2. Rows'
  BY DEF MainStep, MarkScanStarted, ResetCounter, CountMembers, Precount, SaveSnapshot,
     ForgetMember, MarkIdle, Rows
<1>3. CASE MarkScanStarted
  BY <1>1, <1>2, <1>3 DEF MarkScanStarted, Phases
<1>4. CASE ResetCounter
  BY <1>2, <1>4 DEF ResetCounter, Phases
<1>5. CASE CountMembers
  BY <1>2, <1>5 DEF CountMembers, Phases
<1>6. CASE Precount
  BY <1>2, <1>6 DEF Precount, Phases
<1>7. CASE SaveSnapshot
  BY <1>1, <1>2, <1>7 DEF SaveSnapshot, AllReturned, Phases
<1>8. CASE ForgetMember
  BY <1>2, <1>8 DEF ForgetMember, Phases
<1>9. CASE MarkIdle
  BY <1>2, <1>9 DEF MarkIdle, Phases, Typed, TypeOK
<1>10. QED
  BY <1>3, <1>4, <1>5, <1>6, <1>7, <1>8, <1>9 DEF MainStep

LEMMA PhasesProducer == ASSUME IInv, ProducerStep PROVE Phases' /\ Rows'
<1> USE DEF IInv, dbVars, mainVars, workerVars, readerVars
<1>1. scan = "running"
  BY Running DEF ProducerStep, WalkRow, NameMember, Decide, Send
<1>2. Phases'
  BY <1>1 DEF ProducerStep, WalkRow, NameMember, Decide, Send, Phases
<1>3. lastID' = lastID \/ lastID' \in table
  <2>1. CASE WalkRow
    <3> DEFINE rows == {m \in table : m > lastID}
    <3>1. rows # {} => (CHOOSE m \in rows : \A x \in rows : m <= x) \in rows
      <4>1. rows \subseteq Ids
        BY DEF Typed, TypeOK
      <4>2. QED
        BY <4>1, Lowest
    <3>2. lastID' = lastID \/ (rows # {} /\ lastID' = CHOOSE m \in rows : \A x \in rows : m <= x)
      BY <2>1 DEF WalkRow
    <3>3. QED
      BY <3>1, <3>2
  <2>2. QED
    BY <2>1 DEF ProducerStep, NameMember, Decide, Send
<1>4. table' = table /\ member' = member /\ queue' \subseteq queue \cup {lastID}
  BY DEF ProducerStep, WalkRow, NameMember, Decide, Send
<1>5. prod' \in {"named", "decide", "send"} => lastID' \in table
  <2>1. CASE WalkRow
    <3> DEFINE rows == {m \in table : m > lastID}
    <3>1. rows \subseteq Ids
      BY DEF Typed, TypeOK
    <3>2. rows # {} => (CHOOSE m \in rows : \A x \in rows : m <= x) \in rows
      BY <3>1, Lowest
    <3>3. prod' = "off" \/ (rows # {} /\ lastID' = CHOOSE m \in rows : \A x \in rows : m <= x)
      BY <2>1 DEF WalkRow
    <3>4. QED
      BY <3>2, <3>3
  <2>2. QED
    BY <2>1 DEF ProducerStep, NameMember, Decide, Send, Rows
<1>6. queue' \subseteq table
  <2>1. CASE Send
    BY <2>1 DEF Send, Rows
  <2>2. QED
    BY <2>1 DEF ProducerStep, WalkRow, NameMember, Decide, Rows
<1>7. Rows'
  BY <1>4, <1>5, <1>6 DEF Rows
<1>8. QED
  BY <1>2, <1>7

LEMMA PhasesWorker == ASSUME IInv, NEW w \in Workers,
                             Take(w) \/ Upload(w) \/ Finish(w) \/ Abandon(w)
                      PROVE  Phases' /\ Rows'
<1> USE DEF IInv, dbVars, mainVars, prodVars, workerVars, readerVars
<1>1. TypeOK /\ None \notin Ids
  BY ViewConstants DEF Typed
<1>2. scan = "running"
  BY Running DEF Take, Upload, Finish, Abandon
<1>3. CASE Take(w)
  <2>1. PICK m \in queue : member' = [member EXCEPT ![w] = m] /\ queue' = queue \ {m}
    BY <1>3 DEF Take
  <2>2. m \in Ids /\ m # None /\ m \in table
    BY <1>1, <2>1 DEF TypeOK, Rows
  <2>3. \A v \in Workers : member'[v] = IF v = w THEN m ELSE member[v]
    BY <1>1, <2>1 DEF TypeOK
  <2>4. Phases'
    BY <1>2, <1>3, <2>2, <2>3 DEF Take, Phases
  <2>5. Rows'
    BY <1>3, <2>1, <2>2, <2>3 DEF Take, Rows
  <2>6. QED
    BY <2>4, <2>5
<1>4. CASE Upload(w)
  <2>1. \A v \in Workers : posted'[v] => posted[v] \/ v = w
    BY <1>1, <1>4 DEF Upload, TypeOK
  <2>2. Phases'
    BY <1>2, <1>4, <2>1 DEF Upload, Phases
  <2>3. Rows'
    BY <1>4 DEF Upload, Rows
  <2>4. QED
    BY <2>2, <2>3
<1>5. ASSUME Finish(w) \/ Abandon(w) PROVE Phases' /\ Rows'
  <2>1. Return(w)
    BY <1>5 DEF Finish, Abandon
  <2>2. \A v \in Workers : /\ member'[v] = IF v = w THEN None ELSE member[v]
                           /\ posted'[v] = IF v = w THEN FALSE ELSE posted[v]
    BY <1>1, <2>1, Returning
  <2>3. Phases'
    BY <1>2, <1>5, <2>2 DEF Finish, Abandon, Phases
  <2>4. Rows'
    BY <1>5, <2>2 DEF Finish, Abandon, Rows
  <2>5. QED
    BY <2>3, <2>4
<1>6. QED
  BY <1>3, <1>4, <1>5

(* The table grows and ages behind everyone's back. *)
LEMMA PhasesTable == ASSUME IInv, TableStep PROVE Typed' /\ Phases' /\ Rows'
<1> USE DEF IInv, dbVars, mainVars, prodVars, workerVars, readerVars
<1>1. Typed'
  BY DEF TableStep, Insert, Age, Typed, TypeOK
<1>2. Phases'
  BY DEF TableStep, Insert, Age, Phases
<1>3. table \subseteq table' /\ UNCHANGED <<prod, lastID, queue, member>>
  BY DEF TableStep, Insert, Age
<1>4. Rows'
  BY <1>3 DEF Rows
<1>5. QED
  BY <1>1, <1>2, <1>4

(* What resetScanCounters stores to next, and what there is left then.     *)
LEMMA NextReset ==
  ASSUME toReset \in Seq(Counters), Resets, toReset # <<>>
  PROVE  /\ Len(toReset) \in 1..9 /\ Len(Tail(toReset)) = Len(toReset) - 1
         /\ Head(toReset) = ResetOrder[10 - Len(toReset)]
         /\ Remains(Tail(toReset), ResetOrder)
<1>1. Len(ResetOrder) = 9 /\ Len(ResetOrder) \in Nat /\ Remains(toReset, ResetOrder)
  BY Orders DEF Resets
<1>2. /\ Len(toReset) \in 1..Len(ResetOrder) /\ Len(Tail(toReset)) = Len(toReset) - 1
      /\ Head(toReset) \in Counters
      /\ Head(toReset) = ResetOrder[Len(ResetOrder) + 1 - Len(toReset)]
      /\ Remains(Tail(toReset), ResetOrder)
  BY <1>1, Remainder, Zenon
<1>3. Len(toReset) \in 1..Len(ResetOrder)
  BY <1>2, Zenon
<1>4. Len(toReset) \in 1..9 /\ Len(ResetOrder) + 1 - Len(toReset) = 10 - Len(toReset)
  BY <1>1, <1>3
<1>5. QED
  BY <1>1, <1>2, <1>4, Zenon

(* resetScanCounters goes through its stores in order; nothing else        *)
(* touches a counter meanwhile.                                            *)
LEMMA ResetsMain == ASSUME IInv, MainStep PROVE Resets'
<1> USE DEF IInv, dbVars, prodVars, workerVars, readerVars
<1>1. TypeOK /\ toReset \in Seq(Counters) /\ c \in [Counters -> Nat]
  BY DEF Typed, TypeOK
<1>2. CASE MarkScanStarted
  <2>1. /\ toReset' = ResetOrder /\ Len(ResetOrder) = 9 /\ scan' = "resetting"
    BY <1>2, Orders DEF MarkScanStarted
  <2>2. Remains(ResetOrder, ResetOrder)
    BY Orders DEF Remains
  <2>3. \A j \in 1..9 : ~ (j <= 9 - Len(ResetOrder))
    BY <2>1
  <2>4. QED
    BY <2>1, <2>2, <2>3 DEF Resets
<1>3. CASE ResetCounter
  <2>1. CASE toReset # <<>>
    <3>1. /\ c' = [c EXCEPT ![Head(toReset)] = 0] /\ toReset' = Tail(toReset)
          /\ scan' = scan /\ scan = "resetting"
      BY <1>3, <2>1 DEF ResetCounter
    <3>3. /\ Len(toReset) \in 1..9 /\ Len(toReset') = Len(toReset) - 1
          /\ Head(toReset) = ResetOrder[10 - Len(toReset)]
          /\ Remains(toReset', ResetOrder)
      BY <1>1, <2>1, <3>1, NextReset, Zenon
    <3>6. ASSUME NEW j \in 1..9, j <= 9 - Len(toReset')
          PROVE  c'[ResetOrder[j]] = 0
      <4>1. ResetOrder[j] \in Counters
        BY Orders
      <4>2. j <= 9 - Len(toReset) \/ j = 10 - Len(toReset)
        BY <3>3, <3>6
      <4>3. c[ResetOrder[j]] = 0 \/ ResetOrder[j] = Head(toReset)
        BY <3>1, <3>3, <4>2 DEF Resets
      <4>4. QED
        BY <1>1, <3>1, <4>1, <4>3
    <3>7. QED
      BY <3>1, <3>3, <3>6 DEF Resets
  <2>2. CASE toReset = <<>>
    BY <1>3, <2>2 DEF ResetCounter, Resets
  <2>3. QED
    BY <2>1, <2>2
<1>4. CASE CountMembers \/ Precount \/ SaveSnapshot \/ ForgetMember \/ MarkIdle
  <2>1. toReset' = toReset /\ scan # "resetting" /\ scan' # "resetting"
    BY <1>4 DEF CountMembers, Precount, SaveSnapshot, ForgetMember, MarkIdle
  <2>2. QED
    BY <2>1 DEF Resets
<1>5. QED
  BY <1>2, <1>3, <1>4 DEF MainStep

(* Only main resets counters. *)
LEMMA ResetsOthers == ASSUME IInv, ProducerStep \/ WorkerStep \/ TableStep PROVE Resets'
<1> USE DEF IInv, dbVars, mainVars, prodVars, workerVars, readerVars
<1>1. UNCHANGED <<scan, toReset>> /\ (scan # "running" => c' = c)
  BY Running DEF ProducerStep, WalkRow, NameMember, Decide, Send, WorkerStep, Take, Upload, Finish,
     Abandon, TableStep, Insert, Age
<1>2. QED
  BY <1>1 DEF Resets

(* Once every store of resetScanCounters is done, nothing is counted.      *)
LEMMA AllReset ==
  ASSUME IInv, scan = "resetting", toReset = <<>>
  PROVE  \A k \in Counters : c[k] = 0
<1>1. \A j \in 1..9 : c[ResetOrder[j]] = 0
  <2>1. Len(toReset) = 0
    OBVIOUS
  <2>2. \A j \in 1..9 : j <= 9 - 0
    OBVIOUS
  <2>3. QED
    BY <2>1, <2>2 DEF IInv, Resets
<1>2. QED
  BY <1>1, Orders

(* The counters that Balanced speaks of, one step to the next.             *)
LEMMA SameBalance ==
  ASSUME Balanced,
         \A k \in {"walked", "nonCN", "recent", "queued", "noChar", "withData", "uploaded"} :
           c'[k] = c[k],
         UNCHANGED <<queue, member, posted>>, InHand' = InHand, ToSend' = ToSend
  PROVE  Balanced'
<1>1. Busy' = Busy /\ Posted' = Posted
  BY DEF Busy, Posted
<1>2. QED
  BY <1>1 DEF Balanced, Sums

(* main counts nothing: it clears the counters, and sets expected.         *)
LEMMA TallyMain == ASSUME IInv, MainStep PROVE Tally'
<1> USE DEF IInv, dbVars, prodVars, workerVars, readerVars
<1>1. CASE MarkScanStarted
  BY <1>1 DEF MarkScanStarted, Tally
<1>2. CASE ResetCounter
  <2>1. CASE toReset # <<>>
    BY <1>2, <2>1 DEF ResetCounter, Tally
  <2>2. CASE toReset = <<>>
    <3>1. \A k \in Counters : c'[k] = 0
      BY <1>2, <2>2, AllReset DEF ResetCounter
    <3>2. c'["walked"] = 0 /\ c'["nonCN"] = 0 /\ c'["recent"] = 0 /\ c'["queued"] = 0
          /\ c'["noChar"] = 0 /\ c'["withData"] = 0 /\ c'["uploaded"] = 0
      BY <3>1 DEF Counters
    <3>3. prod' = "off" /\ queue' = {} /\ Busy' = {} /\ Posted' = {}
      BY <1>2 DEF ResetCounter, Phases, Busy, Posted
    <3>4. Cardinality(queue') = 0 /\ Cardinality(Busy') = 0 /\ Cardinality(Posted') = 0
      BY <3>3, FS_EmptySet
    <3>5. InHand' = 0 /\ ToSend' = 0
      BY <3>3 DEF InHand, ToSend
    <3>6. QED
      BY <3>2, <3>4, <3>5 DEF Tally, Balanced, Sums
  <2>3. QED
    BY <2>1, <2>2
<1>3. CASE Precount
  <2>1. \A k \in {"walked", "nonCN", "recent", "queued", "noChar", "withData", "uploaded"} :
          c'[k] = c[k]
    <3>1. PICK n \in {Expected, 0} : c' = [c EXCEPT !["expected"] = n]
      BY <1>3 DEF Precount
    <3>2. c \in [Counters -> Nat]
      BY DEF Typed, TypeOK
    <3>3. QED
      BY <3>1, <3>2 DEF Counters
  <2>2. prod = "off" /\ prod' = "next" /\ scan = "precount"
    BY <1>3 DEF Precount, Phases
  <2>3. InHand' = InHand /\ ToSend' = ToSend
    BY <2>2 DEF InHand, ToSend
  <2>4. UNCHANGED <<queue, member, posted>>
    BY <1>3 DEF Precount
  <2>5. QED
    BY <2>1, <2>2, <2>3, <2>4, SameBalance DEF Tally
<1>4. CASE CountMembers \/ SaveSnapshot \/ ForgetMember \/ MarkIdle
  <2>1. scan # "resetting" /\ UNCHANGED <<c, prod, queue, member, posted>>
    BY <1>4 DEF CountMembers, SaveSnapshot, ForgetMember, MarkIdle
  <2>2. InHand' = InHand /\ ToSend' = ToSend
    BY <2>1 DEF InHand, ToSend
  <2>3. QED
    BY <2>1, <2>2, SameBalance DEF Tally
<1>5. QED
  BY <1>1, <1>2, <1>3, <1>4 DEF MainStep

(* The producer: a row walked is in its hand until it is filtered or       *)
(* queued, and one queued until it is sent.                                *)
LEMMA TallyProducer == ASSUME IInv, ProducerStep PROVE Tally'
<1> USE DEF IInv, dbVars, mainVars, workerVars, readerVars
<1>1. scan = "running" /\ Balanced
  BY Running DEF ProducerStep, WalkRow, NameMember, Decide, Send, Tally
<1>2. TypeOK /\ c \in [Counters -> Nat]
  BY DEF Typed, TypeOK
<1>3. /\ c["walked"] \in Nat /\ c["nonCN"] \in Nat /\ c["recent"] \in Nat
      /\ c["queued"] \in Nat /\ c["noChar"] \in Nat /\ c["withData"] \in Nat
      /\ c["uploaded"] \in Nat
  BY <1>2, CounterNames
<1>4. Cardinality(queue) \in Nat /\ Cardinality(Busy) \in Nat /\ Cardinality(Posted) \in Nat
      /\ IsFiniteSet(queue)
  BY <1>2, Finite
<1>5. UNCHANGED <<member, posted>> /\ Busy' = Busy /\ Posted' = Posted
  BY DEF ProducerStep, WalkRow, NameMember, Decide, Send, Busy, Posted
<1>6. CASE WalkRow
  <2>1. prod = "next" /\ UNCHANGED queue
    BY <1>6 DEF WalkRow
  <2>2. CASE c' = Add("walked") /\ prod' = "named"
    <3>1. \A k \in Counters : c'[k] = IF k = "walked" THEN c[k] + 1 ELSE c[k]
      BY <1>2, <2>2, Adding DEF Counters
    <3>2. c'["walked"] = c["walked"] + 1 /\ c'["nonCN"] = c["nonCN"] /\ c'["recent"] = c["recent"]
          /\ c'["queued"] = c["queued"] /\ c'["noChar"] = c["noChar"]
          /\ c'["withData"] = c["withData"] /\ c'["uploaded"] = c["uploaded"]
      BY <3>1 DEF Counters
    <3>3. InHand = 0 /\ InHand' = 1 /\ ToSend' = ToSend
      BY <2>1, <2>2 DEF InHand, ToSend
    <3>4. QED
      BY <1>1, <1>3, <1>5, <2>1, <3>2, <3>3 DEF Tally, Balanced, Sums
  <2>3. CASE prod' = "off" /\ UNCHANGED <<c, lastID>>
    <3>1. InHand' = InHand /\ ToSend' = ToSend
      BY <2>1, <2>3 DEF InHand, ToSend
    <3>2. QED
      BY <1>1, <1>5, <2>1, <2>3, <3>1, SameBalance DEF Tally
  <2>4. QED
    BY <1>6, <2>2, <2>3 DEF WalkRow
<1>7. CASE NameMember
  <2>1. InHand' = InHand /\ ToSend' = ToSend /\ UNCHANGED <<c, queue>>
    BY <1>7 DEF NameMember, InHand, ToSend
  <2>2. QED
    BY <1>1, <1>5, <2>1, SameBalance DEF Tally
<1>8. CASE Decide
  <2> DEFINE reason == FilterReason(lastID)
  <2>1. reason \in {"recent", "nonCN", "queued"} /\ reason \in Counters
    BY FilterReasons DEF Counters
  <2>2. c' = Add(reason) /\ prod' = (IF reason = "queued" THEN "send" ELSE "next")
        /\ prod = "decide" /\ UNCHANGED queue
    BY <1>8 DEF Decide
  <2> HIDE DEF reason
  <2>3. \A k \in Counters : c'[k] = IF k = reason THEN c[k] + 1 ELSE c[k]
    BY <1>2, <2>1, <2>2, Adding
  <2>4. /\ c'["walked"] = c["walked"] /\ c'["noChar"] = c["noChar"]
        /\ c'["withData"] = c["withData"] /\ c'["uploaded"] = c["uploaded"]
        /\ c'["nonCN"] = IF reason = "nonCN" THEN c["nonCN"] + 1 ELSE c["nonCN"]
        /\ c'["recent"] = IF reason = "recent" THEN c["recent"] + 1 ELSE c["recent"]
        /\ c'["queued"] = IF reason = "queued" THEN c["queued"] + 1 ELSE c["queued"]
    BY <2>1, <2>3 DEF Counters
  <2>5. InHand = 1 /\ InHand' = 0 /\ ToSend = 0
        /\ ToSend' = IF reason = "queued" THEN 1 ELSE 0
    BY <2>2 DEF InHand, ToSend
  <2>6. QED
    BY <1>1, <1>3, <1>4, <1>5, <2>1, <2>2, <2>4, <2>5 DEF Tally, Balanced, Sums
<1>9. CASE Send
  <2>1. /\ prod = "send" /\ prod' = "next" /\ queue' = queue \cup {lastID} /\ UNCHANGED c
    BY <1>9 DEF Send
  <2>2. Cardinality(queue') <= Cardinality(queue) + 1
    BY <1>4, <2>1, OneMore
  <2>3. Cardinality(queue') \in Nat
    <3>1. IsFiniteSet(queue')
      BY <1>4, <2>1, FS_AddElement
    <3>2. QED
      BY <3>1, FS_CardinalityType
  <2>4. InHand' = InHand /\ ToSend = 1 /\ ToSend' = 0
    BY <2>1 DEF InHand, ToSend
  <2>5. QED
    BY <1>1, <1>3, <1>4, <1>5, <2>1, <2>2, <2>3, <2>4 DEF Tally, Balanced, Sums
<1>10. QED
  BY <1>6, <1>7, <1>8, <1>9 DEF ProducerStep

(* The workers: a member goes from the queue to a worker to one outcome at *)
(* most, and one with data has an upload of its own.                       *)
LEMMA TallyWorker == ASSUME IInv, NEW w \in Workers,
                            Take(w) \/ Upload(w) \/ Finish(w) \/ Abandon(w)
                     PROVE  Tally'
<1> USE DEF IInv, dbVars, mainVars, prodVars, workerVars, readerVars
<1>1. scan = "running" /\ Balanced
  BY Running DEF Take, Upload, Finish, Abandon, Tally
<1>2. TypeOK /\ c \in [Counters -> Nat] /\ None \notin Ids
  BY ViewConstants DEF Typed, TypeOK
<1>3. /\ c["walked"] \in Nat /\ c["nonCN"] \in Nat /\ c["recent"] \in Nat
      /\ c["queued"] \in Nat /\ c["noChar"] \in Nat /\ c["withData"] \in Nat
      /\ c["uploaded"] \in Nat
  BY <1>2, CounterNames
<1>4. Cardinality(queue) \in Nat /\ Cardinality(Busy) \in Nat /\ Cardinality(Posted) \in Nat
      /\ IsFiniteSet(queue) /\ IsFiniteSet(Busy) /\ IsFiniteSet(Posted)
  BY <1>2, Finite
<1>5. InHand' = InHand /\ ToSend' = ToSend /\ ToSend \in Nat
  BY DEF Take, Upload, Finish, Abandon, InHand, ToSend
<1>6. ASSUME NEW k \in {"uploaded", "errors", "withData", "noChar"}, c' = Add(k)
      PROVE  /\ c'["walked"] = c["walked"] /\ c'["nonCN"] = c["nonCN"]
             /\ c'["recent"] = c["recent"] /\ c'["queued"] = c["queued"]
             /\ c'["noChar"] = IF k = "noChar" THEN c["noChar"] + 1 ELSE c["noChar"]
             /\ c'["withData"] = IF k = "withData" THEN c["withData"] + 1 ELSE c["withData"]
             /\ c'["uploaded"] = IF k = "uploaded" THEN c["uploaded"] + 1 ELSE c["uploaded"]
  <2>1. \A j \in Counters : c'[j] = IF j = k THEN c[j] + 1 ELSE c[j]
    BY <1>2, <1>6, Adding DEF Counters
  <2>2. QED
    BY <1>6, <2>1 DEF Counters
<1>7. CASE Take(w)
  <2>1. PICK m \in queue : member' = [member EXCEPT ![w] = m] /\ queue' = queue \ {m}
    BY <1>7 DEF Take
  <2>2. Busy' = Busy \cup {w} /\ w \notin Busy
    <3>1. m # None
      BY <1>2, <2>1 DEF TypeOK
    <3>2. QED
      BY <1>2, <1>7, <2>1, <3>1 DEF Busy, Take, TypeOK
  <2>3. Cardinality(Busy') = Cardinality(Busy) + 1
    BY <1>4, <2>2, OneMore
  <2>4. Cardinality(queue') = Cardinality(queue) - 1
    BY <1>4, <2>1, OneLess
  <2>5. Posted' = Posted /\ UNCHANGED c
    BY <1>7 DEF Take, Posted
  <2>6. QED
    BY <1>1, <1>3, <1>4, <1>5, <2>3, <2>4, <2>5 DEF Tally, Balanced, Sums
<1>8. CASE Upload(w)
  <2>1. Busy' = Busy /\ UNCHANGED queue
    BY <1>8 DEF Upload, Busy
  <2>2. CASE c' = Add("uploaded") /\ posted' = [posted EXCEPT ![w] = TRUE]
    <3>1. Posted' = Posted \cup {w}
      BY <1>2, <2>2 DEF Posted, TypeOK
    <3>2. Cardinality(Posted') <= Cardinality(Posted) + 1 /\ Cardinality(Posted') \in Nat
      <4>1. IsFiniteSet(Posted')
        BY <1>4, <3>1, FS_AddElement
      <4>2. Cardinality(Posted \cup {w}) <= Cardinality(Posted) + 1
        BY <1>4, OneMore
      <4>3. QED
        BY <3>1, <4>1, <4>2, FS_CardinalityType
    <3>3. /\ c'["walked"] = c["walked"] /\ c'["nonCN"] = c["nonCN"]
          /\ c'["recent"] = c["recent"] /\ c'["queued"] = c["queued"]
          /\ c'["noChar"] = c["noChar"] /\ c'["withData"] = c["withData"]
          /\ c'["uploaded"] = c["uploaded"] + 1
      BY <1>6, <2>2
    <3>4. QED
      BY <1>1, <1>3, <1>4, <1>5, <2>1, <3>2, <3>3 DEF Tally, Balanced, Sums
  <2>3. CASE c' = Add("errors") /\ UNCHANGED posted
    <3>1. Posted' = Posted
      BY <2>3 DEF Posted
    <3>2. /\ c'["walked"] = c["walked"] /\ c'["nonCN"] = c["nonCN"]
          /\ c'["recent"] = c["recent"] /\ c'["queued"] = c["queued"]
          /\ c'["noChar"] = c["noChar"] /\ c'["withData"] = c["withData"]
          /\ c'["uploaded"] = c["uploaded"]
      BY <1>6, <2>3
    <3>3. QED
      BY <1>1, <1>5, <2>1, <3>1, <3>2 DEF Tally, Balanced, Sums
  <2>4. QED
    BY <1>8, <2>2, <2>3 DEF Upload
<1>9. ASSUME Finish(w) \/ Abandon(w) PROVE Tally'
  <2>1. Busy' = Busy \ {w} /\ Posted' = Posted \ {w} /\ w \in Busy /\ UNCHANGED queue
    BY <1>2, <1>9, Returning DEF Finish, Abandon, Busy
  <2>2. Cardinality(Busy') = Cardinality(Busy) - 1
    BY <1>4, <2>1, OneLess
  <2>3. Cardinality(Posted') = IF posted[w] THEN Cardinality(Posted) - 1 ELSE Cardinality(Posted)
    <3>1. Cardinality(Posted \ {w}) = IF w \in Posted THEN Cardinality(Posted) - 1
                                                      ELSE Cardinality(Posted)
      BY <1>4, FS_RemoveElement
    <3>2. w \in Posted <=> posted[w]
      BY DEF Posted
    <3>3. QED
      BY <2>1, <3>1, <3>2
  <2>4. \/ c' = Add("withData") /\ posted[w]
        \/ c' = Add("noChar")
        \/ c' = Add("errors")
        \/ c' = c
    BY <1>9 DEF Finish, Abandon
  <2>5. CASE c' = Add("withData") /\ posted[w]
    <3>1. /\ c'["walked"] = c["walked"] /\ c'["nonCN"] = c["nonCN"]
          /\ c'["recent"] = c["recent"] /\ c'["queued"] = c["queued"]
          /\ c'["noChar"] = c["noChar"] /\ c'["withData"] = c["withData"] + 1
          /\ c'["uploaded"] = c["uploaded"]
      BY <1>6, <2>5
    <3>2. QED
      BY <1>1, <1>3, <1>4, <1>5, <2>1, <2>2, <2>3, <2>5, <3>1 DEF Tally, Balanced, Sums
  <2>6. CASE c' = Add("noChar")
    <3>1. /\ c'["walked"] = c["walked"] /\ c'["nonCN"] = c["nonCN"]
          /\ c'["recent"] = c["recent"] /\ c'["queued"] = c["queued"]
          /\ c'["noChar"] = c["noChar"] + 1 /\ c'["withData"] = c["withData"]
          /\ c'["uploaded"] = c["uploaded"]
      BY <1>6, <2>6
    <3>2. QED
      BY <1>1, <1>3, <1>4, <1>5, <2>1, <2>2, <2>3, <3>1 DEF Tally, Balanced, Sums
  <2>7. CASE c' = Add("errors") \/ c' = c
    <3>1. /\ c'["walked"] = c["walked"] /\ c'["nonCN"] = c["nonCN"]
          /\ c'["recent"] = c["recent"] /\ c'["queued"] = c["queued"]
          /\ c'["noChar"] = c["noChar"] /\ c'["withData"] = c["withData"]
          /\ c'["uploaded"] = c["uploaded"]
      BY <1>6, <2>7
    <3>2. QED
      BY <1>1, <1>3, <1>4, <1>5, <2>1, <2>2, <2>3, <3>1 DEF Tally, Balanced, Sums
  <2>8. QED
    BY <2>4, <2>5, <2>6, <2>7
<1>10. QED
  BY <1>7, <1>8, <1>9

(* A row inserted or aged is none of the counters' business.               *)
LEMMA TallyTable == ASSUME IInv, TableStep PROVE Tally'
<1>1. UNCHANGED <<scan, c, prod, queue, member, posted>>
  BY DEF TableStep, Insert, Age, mainVars, prodVars, workerVars
<1>2. InHand' = InHand /\ ToSend' = ToSend
  BY <1>1 DEF InHand, ToSend
<1>3. QED
  BY <1>1, <1>2, SameBalance DEF IInv, Tally

(* The steps that do not read.                                             *)
OtherStep == MainStep \/ ProducerStep \/ WorkerStep \/ TableStep

(* What the other steps do while a response is read: they begin the next   *)
(* scan; or the counters are still being reset; or the counters of this    *)
(* one only grow, and stand still while the loop sleeps.                   *)
NextScan ==
  /\ scanNo' = scanNo + 1 /\ scan = "asleep" /\ scan' = "resetting"
  /\ UNCHANGED <<c, lastScan, atMember>>
Clearing ==
  /\ scanNo' = scanNo /\ scan = "resetting" /\ scan' # "asleep"
  /\ UNCHANGED lastScan
Grown == \A k \in {"nonCN", "recent", "queued", "uploaded"} : c'[k] >= c[k]
Growing ==
  /\ scanNo' = scanNo /\ scan # "resetting" /\ scan' # "resetting"
  /\ Grown
  /\ scan = "asleep" => UNCHANGED <<scan, c, atMember, lastScan>>
  /\ \/ UNCHANGED lastScan
     \/ /\ scan = "running" /\ AllReturned /\ UNCHANGED c
        /\ lastScan' = [of |-> scanNo, c |-> c]
  /\ UNCHANGED c \/ scan \in {"precount", "running"}

(* A step of somebody else while a response is being read. *)
LEMMA Meanwhile ==
  ASSUME IInv, OtherStep
  PROVE  UNCHANGED <<toRead, resp>> /\ (NextScan \/ Clearing \/ Growing)
<1> USE DEF IInv, dbVars, mainVars, prodVars, workerVars, readerVars
<1>1. TypeOK /\ c \in [Counters -> Nat]
  BY DEF Typed, TypeOK
<1>2. c' = c => Grown
  BY <1>1 DEF Counters, Grown
<1>3. \A j \in Counters : c' = Add(j) => Grown
  <2>1. SUFFICES ASSUME NEW j \in Counters, c' = Add(j),
                        NEW k \in {"nonCN", "recent", "queued", "uploaded"}
                 PROVE  c'[k] >= c[k]
    BY DEF Grown
  <2>2. k \in Counters /\ c[k] \in Nat
    BY <1>1 DEF Counters
  <2>3. c'[k] = IF k = j THEN c[k] + 1 ELSE c[k]
    BY <1>1, <2>1, <2>2, Adding
  <2>4. QED
    BY <2>2, <2>3
<1>4. CASE MarkScanStarted
  BY <1>4 DEF MarkScanStarted, NextScan
<1>5. CASE ResetCounter
  BY <1>5 DEF ResetCounter, Clearing
<1>6. CASE Precount
  <2>1. PICK n \in {Expected, 0} : c' = [c EXCEPT !["expected"] = n]
    BY <1>6 DEF Precount
  <2>2. \A k \in {"nonCN", "recent", "queued", "uploaded"} : c'[k] = c[k] /\ c[k] \in Nat
    BY <1>1, <2>1 DEF Counters
  <2>3. Grown
    BY <2>2 DEF Grown
  <2>4. scan = "precount" /\ scan' = "running" /\ UNCHANGED <<scanNo, lastScan, toRead, resp>>
    BY <1>6 DEF Precount
  <2>5. QED
    BY <2>3, <2>4 DEF Growing
<1>7. CASE CountMembers \/ ForgetMember \/ MarkIdle \/ SaveSnapshot
  <2>1. /\ scanNo' = scanNo /\ c' = c /\ scan \notin {"resetting", "asleep"}
        /\ scan' # "resetting" /\ UNCHANGED <<toRead, resp>>
    BY <1>7 DEF CountMembers, ForgetMember, MarkIdle, SaveSnapshot
  <2>2. \/ UNCHANGED lastScan
        \/ scan = "running" /\ AllReturned /\ lastScan' = [of |-> scanNo, c |-> c]
    BY <1>7 DEF CountMembers, ForgetMember, MarkIdle, SaveSnapshot
  <2>3. QED
    BY <1>2, <2>1, <2>2 DEF Growing
<1>8. CASE TableStep
  <2>1. UNCHANGED <<scan, scanNo, c, atMember, lastScan, toRead, resp>>
    BY <1>8 DEF TableStep, Insert, Age
  <2>2. QED
    BY <1>2, <2>1 DEF Growing, Clearing, Phases
<1>9. CASE ProducerStep \/ WorkerStep
  <2>1. scan = "running" /\ UNCHANGED <<scan, scanNo, lastScan, toRead, resp>>
    BY <1>9, Running DEF ProducerStep, WalkRow, NameMember, Decide, Send, WorkerStep, Take, Upload,
       Finish, Abandon
  <2>2. c' = c \/ \E j \in Counters : c' = Add(j)
    <3>1. \A m : FilterReason(m) \in Counters
      BY FilterReasons DEF Counters
    <3>2. \A j \in {"walked", "uploaded", "errors", "withData", "noChar"} : j \in Counters
      BY DEF Counters
    <3>3. CASE ProducerStep
      BY <3>1, <3>2, <3>3 DEF ProducerStep, WalkRow, NameMember, Decide, Send
    <3>4. CASE WorkerStep
      BY <3>2, <3>4 DEF WorkerStep, Take, Upload, Finish, Abandon
    <3>5. QED
      BY <1>9, <3>3, <3>4
  <2>3. Grown
    BY <1>2, <1>3, <2>2
  <2>4. QED
    BY <2>1, <2>3 DEF Growing
<1>10. QED
  BY <1>4, <1>5, <1>6, <1>7, <1>8, <1>9 DEF OtherStep, MainStep

(* What SaveSnapshot saves adds up, and nothing is counted between the end *)
(* of one scan and the start of the next.                                  *)
LEMMA SnapshotStep == ASSUME IInv, OtherStep PROVE LastScanAddsUp'
<1> USE DEF IInv
<1>1. scanNo \in Nat /\ lastScan.of \in Nat /\ lastScan.of <= scanNo
      /\ (scan \in {"resetting", "counting", "precount", "running"} => lastScan.of < scanNo)
  BY DEF Typed, TypeOK, Snapshots, Phases
<1>2. CASE NextScan
  BY <1>1, <1>2 DEF NextScan, LastScanAddsUp
<1>3. CASE UNCHANGED <<scanNo, lastScan>> /\ lastScan.of < scanNo
  BY <1>1, <1>3 DEF LastScanAddsUp
<1>4. CASE UNCHANGED <<scanNo, lastScan, c>> /\ scan # "resetting"
  BY <1>4 DEF LastScanAddsUp
<1>5. CASE scan = "running" /\ AllReturned /\ lastScan' = [of |-> scanNo, c |-> c]
             /\ UNCHANGED <<scanNo, c>>
  <2>1. c \in [Counters -> Nat] /\ TypeOK
    BY DEF Typed, TypeOK
  <2>2. Balanced /\ InHand = 0 /\ ToSend = 0
    BY <1>5 DEF Tally, AllReturned, InHand, ToSend
  <2>3. Cardinality(queue) \in Nat /\ Cardinality(Busy) \in Nat
    BY <2>1, Finite
  <2>4. /\ c["noChar"] \in Nat /\ c["withData"] \in Nat /\ c["queued"] \in Nat /\ Sums(c) \in Nat
        /\ c["walked"] \in Nat
    BY <2>1, CounterNames
  <2>5. c["walked"] = Sums(c) /\ c["noChar"] + c["withData"] <= c["queued"]
    BY <2>2, <2>3, <2>4 DEF Balanced
  <2>6. QED
    BY <1>5, <2>5 DEF LastScanAddsUp
<1>6. QED
  BY <1>1, <1>2, <1>3, <1>4, <1>5, Meanwhile DEF Clearing, Growing

-----------------------------------------------------------------------------
(* The responses.                                                          *)

(* Shown's values are numbers.                                             *)
LEMMA ShownTyped == ASSUME Typed PROVE \A j \in 1..9 : Shown(j) \in Nat
<1>1. c \in [Counters -> Nat] /\ resp.c \in [Counters -> Nat]
  BY DEF Typed, TypeOK, Responses
<1>2. \A j \in 1..9 : ReadOrder[j] \in Counters
  BY Orders
<1>3. QED
  BY <1>1, <1>2 DEF Shown

(* What the other steps do to a response: they make it one of an earlier   *)
(* scan, or what it will show only grows.                                  *)
LEMMA OtherShows == ASSUME IInv, OtherStep PROVE Loads' /\ Showing' /\ Frozen'
<1>1. UNCHANGED <<toRead, resp>> /\ (NextScan \/ Clearing \/ Growing)
  BY Meanwhile
<1>2. scanNo \in Nat /\ resp.begun \in Nat /\ resp.begun <= scanNo /\ Typed
  BY DEF IInv, Typed, TypeOK, Responses, Loads
<1>3. scanNo' \in {scanNo, scanNo + 1}
  BY <1>1 DEF NextScan, Clearing, Growing
<1>4. Loads'
  BY <1>1, <1>2, <1>3 DEF IInv, Loads
<1>5. CASE NextScan \/ Clearing
  <2>1. ~ ThisScan'
    BY <1>1, <1>2, <1>5 DEF NextScan, Clearing, ThisScan, IInv, Showing
  <2>2. QED
    BY <1>4, <2>1 DEF Showing, Frozen
<1>6. CASE Growing
  <2>1. ThisScan' <=> ThisScan
    BY <1>1, <1>6 DEF Growing, ThisScan
  <2>2. c \in [Counters -> Nat] /\ resp.c \in [Counters -> Nat] /\ Len(toRead) \in Nat
    BY <1>2 DEF Typed, TypeOK, Responses
  <2>3. \A j \in {3, 4, 5, 8} : c'[ReadOrder[j]] >= c[ReadOrder[j]]
    BY <1>6, Places DEF Growing, Grown
  <2>4. \A j \in {3, 4, 5, 8} : Shown(j)' >= Shown(j)
    <3>1. SUFFICES ASSUME NEW j \in {3, 4, 5, 8} PROVE Shown(j)' >= Shown(j)
      OBVIOUS
    <3>2. Shown(j) \in Nat
      BY <1>2, ShownTyped
    <3>3. CASE j <= 11 - Len(toRead)
      BY <1>1, <3>2, <3>3 DEF Shown
    <3>4. CASE ~ (j <= 11 - Len(toRead))
      BY <1>1, <2>3, <3>4 DEF Shown
    <3>5. QED
      BY <3>3, <3>4
  <2>5. /\ Len(toRead) < 11 => Shown(1)' = Shown(1)
        /\ Len(toRead) < 5 => Shown(7)' = Shown(7)
    BY <1>1, <2>2 DEF Shown
  <2>6. \A j \in {1, 3, 4, 5, 7, 8} : Shown(j) \in Nat
    BY <1>2, ShownTyped
  <2>7. \A j \in {3, 4, 5, 8} : Shown(j)' \in Nat
    <3>1. \A j \in {3, 4, 5, 8} : ReadOrder[j] \in Counters
      BY Orders
    <3>2. Typed'
      BY MainTyped, ProducerTyped, WorkerTyped, PhasesTable DEF OtherStep, WorkerStep
    <3>3. c' \in [Counters -> Nat] /\ (resp.c)' \in [Counters -> Nat]
      BY <3>2 DEF Typed, TypeOK, Responses
    <3>4. QED
      BY <3>1, <3>3 DEF Shown
  <2>8. Showing'
    <3>1. SUFFICES ASSUME ThisScan
                   PROVE  /\ scan' # "resetting"
                          /\ resp'.startedAt = scanNo'
                          /\ Len(toRead') < 11 => Shown(1)' <= Shown(3)' + Shown(4)' + Shown(5)' + 1
                          /\ Len(toRead') < 5 => Shown(7)' <= Shown(8)'
      BY <2>1 DEF Showing
    <3>2. /\ resp.startedAt = scanNo
          /\ Len(toRead) < 11 => Shown(1) <= Shown(3) + Shown(4) + Shown(5) + 1
          /\ Len(toRead) < 5 => Shown(7) <= Shown(8)
      BY <3>1 DEF IInv, Showing
    <3>3. scan' # "resetting" /\ resp'.startedAt = scanNo'
      BY <1>1, <1>6, <3>2 DEF Growing
    <3>4. Len(toRead') = Len(toRead)
      BY <1>1
    <3>5. /\ Shown(3)' >= Shown(3) /\ Shown(4)' >= Shown(4)
          /\ Shown(5)' >= Shown(5) /\ Shown(8)' >= Shown(8)
      BY <2>4
    <3>6. /\ Shown(1) \in Nat /\ Shown(3) \in Nat /\ Shown(4) \in Nat /\ Shown(5) \in Nat
          /\ Shown(7) \in Nat /\ Shown(8) \in Nat
          /\ Shown(3)' \in Nat /\ Shown(4)' \in Nat /\ Shown(5)' \in Nat /\ Shown(8)' \in Nat
      BY <2>6, <2>7
    <3>7. Len(toRead) < 11 => Shown(1)' <= Shown(3)' + Shown(4)' + Shown(5)' + 1
      <4>1. SUFFICES ASSUME Len(toRead) < 11
                     PROVE  Shown(1)' <= Shown(3)' + Shown(4)' + Shown(5)' + 1
        OBVIOUS
      <4>2. Shown(1)' = Shown(1) /\ Shown(1) <= Shown(3) + Shown(4) + Shown(5) + 1
        BY <2>5, <3>2, <4>1
      <4>3. QED
        BY <3>5, <3>6, <4>2
    <3>8. Len(toRead) < 5 => Shown(7)' <= Shown(8)'
      <4>1. SUFFICES ASSUME Len(toRead) < 5 PROVE Shown(7)' <= Shown(8)'
        OBVIOUS
      <4>2. Shown(7)' = Shown(7) /\ Shown(7) <= Shown(8)
        BY <2>5, <3>2, <4>1
      <4>3. QED
        BY <3>5, <3>6, <4>2
    <3>9. QED
      BY <3>3, <3>4, <3>7, <3>8
  <2>9. Frozen'
    <3>1. CASE scan = "asleep"
      <4>1. UNCHANGED <<scan, c, atMember, lastScan>>
        BY <1>6, <3>1 DEF Growing
      <4>2. QED
        BY <1>1, <2>1, <4>1 DEF IInv, Frozen
    <3>2. CASE scan # "asleep"
      BY <1>1, <2>1, <3>2 DEF IInv, Frozen
    <3>3. QED
      BY <3>1, <3>2
  <2>10. QED
    BY <1>4, <2>8, <2>9
<1>7. QED
  BY <1>1, <1>5, <1>6

(* What the handler loads next, and what there is left to load then.       *)
LEMMA NextLoad ==
  ASSUME TypeOK, Loads, toRead # <<>>
  PROVE  /\ Len(toRead) \in 1..11 /\ Len(Tail(toRead)) = Len(toRead) - 1
         /\ Tail(toRead) \in Seq(Counters \cup {"atMember", "lastScan"})
         /\ Head(toRead) = ReadOrder[12 - Len(toRead)]
         /\ Remains(Tail(toRead), ReadOrder)
<1>1. Len(ReadOrder) = 11 /\ Len(ReadOrder) \in Nat /\ Remains(toRead, ReadOrder)
      /\ toRead \in Seq(Counters \cup {"atMember", "lastScan"})
  BY Orders DEF Loads, TypeOK
<1>2. /\ Len(toRead) \in 1..Len(ReadOrder) /\ Len(Tail(toRead)) = Len(toRead) - 1
      /\ Head(toRead) \in Counters \cup {"atMember", "lastScan"}
      /\ Head(toRead) = ReadOrder[Len(ReadOrder) + 1 - Len(toRead)]
      /\ Remains(Tail(toRead), ReadOrder)
  BY <1>1, Remainder, Zenon
<1>3. Len(toRead) \in 1..Len(ReadOrder)
  BY <1>2, Zenon
<1>4. Len(toRead) \in 1..11 /\ Len(ReadOrder) + 1 - Len(toRead) = 12 - Len(toRead)
  BY <1>1, <1>3
<1>5. Tail(toRead) \in Seq(Counters \cup {"atMember", "lastScan"})
  BY <1>1, HeadTailProperties
<1>6. QED
  BY <1>1, <1>2, <1>4, <1>5, Zenon

(* The place of the next load, counted from the first.                     *)
LEMMA PlaceOf ==
  ASSUME NEW n \in 1..11
  PROVE  12 - n \in 1..11 /\ (n = 2 <=> 12 - n = 10) /\ (n = 1 <=> 12 - n = 11)
OBVIOUS

(* A load into the response: it fills the place it is for, and no other.   *)
LEMMA Loading ==
  ASSUME IInv, Load
  PROVE  /\ Len(toRead) \in 1..11 /\ Len(toRead') = Len(toRead) - 1
         /\ toRead' \in Seq(Counters \cup {"atMember", "lastScan"})
         /\ Remains(toRead', ReadOrder)
         /\ resp' \in Responses
         /\ resp'.state = resp.state /\ resp'.startedAt = resp.startedAt
         /\ resp'.begun = resp.begun /\ resp'.atRest = resp.atRest
         /\ resp'.sent = (Len(toRead) = 1)
         /\ resp'.atMember = IF Len(toRead) = 2 THEN atMember ELSE resp.atMember
         /\ resp'.lastScan = IF Len(toRead) = 1 THEN lastScan ELSE resp.lastScan
         /\ \A j \in 1..9 : resp'.c[ReadOrder[j]] =
                IF j = 12 - Len(toRead) THEN c[ReadOrder[j]] ELSE resp.c[ReadOrder[j]]
<1>1. /\ Len(toRead) \in 1..11 /\ Len(Tail(toRead)) = Len(toRead) - 1
      /\ Tail(toRead) \in Seq(Counters \cup {"atMember", "lastScan"})
      /\ Head(toRead) = ReadOrder[12 - Len(toRead)]
      /\ Remains(Tail(toRead), ReadOrder)
  BY NextLoad DEF IInv, Typed, Load
<1>2. toRead' = Tail(toRead)
  BY DEF Load
<1> DEFINE place == 12 - Len(toRead)
           field == ReadOrder[place]
           last == Len(toRead) = 1
           next == [resp EXCEPT !.sent = last]
<1>3. resp' = IF field = "atMember" THEN [next EXCEPT !.atMember = atMember]
              ELSE IF field = "lastScan" THEN [next EXCEPT !.lastScan = lastScan]
              ELSE [next EXCEPT !.c = [next.c EXCEPT ![field] = c[field]]]
  BY <1>1 DEF Load
<1>4. Len(toRead) \in 1..11
  BY <1>1, Zenon
<1>5. place \in 1..11 /\ (Len(toRead) = 2 <=> place = 10) /\ (Len(toRead) = 1 <=> place = 11)
  BY <1>4, PlaceOf, Zenon
<1>6. last \in BOOLEAN
  OBVIOUS
<1>7. resp \in Responses /\ c \in [Counters -> Nat] /\ atMember \in Ids \cup {None}
      /\ lastScan \in Snapshots
  BY DEF IInv, Typed, TypeOK
<1> HIDE DEF place, last
<1>8. next \in Responses /\ next.c = resp.c /\ next.state = resp.state
      /\ next.startedAt = resp.startedAt /\ next.begun = resp.begun
      /\ next.atRest = resp.atRest /\ next.atMember = resp.atMember
      /\ next.lastScan = resp.lastScan /\ next.sent = last
  BY <1>6, <1>7 DEF Responses
<1> HIDE DEF next
<1>9. place \in {1, 2, 3, 4, 5, 6, 7, 8, 9, 10, 11}
  BY <1>5
<1>10. /\ field = "atMember" <=> place = 10
       /\ field = "lastScan" <=> place = 11
       /\ \A j \in 1..9 : field = ReadOrder[j] <=> place = j
  <2>1. \A j \in 1..9 : j \in {1, 2, 3, 4, 5, 6, 7, 8, 9}
    OBVIOUS
  <2>2. QED
    BY <1>9, <2>1, Places
<1> HIDE DEF field
<1>11. CASE place = 10
  <2>1. resp' = [next EXCEPT !.atMember = atMember]
    BY <1>3, <1>10, <1>11
  <2>2. resp' \in Responses /\ resp'.atMember = atMember /\ resp'.c = resp.c
        /\ resp'.lastScan = resp.lastScan /\ resp'.state = resp.state
        /\ resp'.startedAt = resp.startedAt /\ resp'.begun = resp.begun
        /\ resp'.atRest = resp.atRest /\ resp'.sent = last
    BY <1>7, <1>8, <2>1 DEF Responses
  <2>3. \A j \in 1..9 : j # place
    BY <1>11
  <2>4. QED
    BY <1>1, <1>2, <1>5, <1>11, <2>2, <2>3, Zenon DEF place, last
<1>12. CASE place = 11
  <2>1. resp' = [next EXCEPT !.lastScan = lastScan]
    BY <1>3, <1>10, <1>12
  <2>2. resp' \in Responses /\ resp'.lastScan = lastScan /\ resp'.c = resp.c
        /\ resp'.atMember = resp.atMember /\ resp'.state = resp.state
        /\ resp'.startedAt = resp.startedAt /\ resp'.begun = resp.begun
        /\ resp'.atRest = resp.atRest /\ resp'.sent = last
    BY <1>7, <1>8, <2>1 DEF Responses
  <2>3. \A j \in 1..9 : j # place
    BY <1>12
  <2>4. QED
    BY <1>1, <1>2, <1>5, <1>12, <2>2, <2>3, Zenon DEF place, last
<1>13. CASE place \in 1..9
  <2>1. field \in Counters /\ place # 10 /\ place # 11
    <3>1. ReadOrder[place] \in Counters
      BY <1>13, Orders
    <3>2. QED
      BY <1>13, <3>1 DEF field
  <2>2. resp' = [next EXCEPT !.c = [resp.c EXCEPT ![field] = c[field]]]
    BY <1>3, <1>8, <1>10, <2>1
  <2>3. [resp.c EXCEPT ![field] = c[field]] \in [Counters -> Nat]
    BY <1>7, <2>1 DEF Responses
  <2>4. resp' \in Responses /\ resp'.c = [resp.c EXCEPT ![field] = c[field]]
        /\ resp'.lastScan = resp.lastScan
        /\ resp'.atMember = resp.atMember /\ resp'.state = resp.state
        /\ resp'.startedAt = resp.startedAt /\ resp'.begun = resp.begun
        /\ resp'.atRest = resp.atRest /\ resp'.sent = last
    BY <1>8, <2>2, <2>3 DEF Responses
  <2>5. \A j \in 1..9 : resp'.c[ReadOrder[j]] =
                IF j = place THEN c[ReadOrder[j]] ELSE resp.c[ReadOrder[j]]
    <3>1. resp.c \in [Counters -> Nat] /\ \A j \in 1..9 : ReadOrder[j] \in Counters
      BY <1>7, Orders DEF Responses
    <3>2. QED
      BY <1>10, <2>1, <2>4, <3>1
  <2>6. QED
    BY <1>1, <1>2, <1>5, <2>1, <2>4, <2>5, Zenon DEF place, last
<1>14. QED
  BY <1>5, <1>11, <1>12, <1>13

(* The handler's own steps.                                                *)
LEMMA ReaderShows == ASSUME IInv, ReaderStep PROVE Typed' /\ Loads' /\ Showing' /\ Frozen'
<1> USE DEF IInv
<1>1. UNCHANGED <<dbVars, mainVars, c, atMember, prodVars, queue, workerVars>>
  BY DEF ReaderStep, Begin, Load, Done
<1>2. TypeOK /\ scanNo \in Nat /\ c \in [Counters -> Nat] /\ resp \in Responses
  BY DEF Typed, TypeOK
<1>3. ASSUME toRead' \in Seq(Counters \cup {"atMember", "lastScan"}), resp' \in Responses
      PROVE  Typed'
  BY <1>1, <1>3 DEF Typed, TypeOK, dbVars, mainVars, prodVars, workerVars
<1>4. CASE Begin
  <2>1. toRead' = ReadOrder /\ Len(ReadOrder) = 11 /\ ReadOrder # <<>>
    BY <1>4, Orders DEF Begin
  <2>2. resp' = [NoResponse EXCEPT !.state = store.state, !.startedAt = store.startedAt,
                                   !.begun = scanNo, !.atRest = scan # "resetting"]
    BY <1>4 DEF Begin
  <2>3. store.state \in {"idle", "scanning"} /\ store.startedAt \in Nat
    BY <1>2 DEF TypeOK
  <2>4. /\ resp' \in Responses /\ resp'.state = store.state /\ resp'.startedAt = store.startedAt
        /\ resp'.begun = scanNo /\ resp'.atRest = (scan # "resetting") /\ resp'.sent = FALSE
    BY <1>2, <2>2, <2>3 DEF NoResponse, Responses, Snapshots, NoSnapshot, NoCounts
  <2>5. Typed'
    BY <1>3, <2>1, <2>4, Orders
  <2>6. UNCHANGED <<scan, scanNo>>
    BY <1>1 DEF mainVars
  <2>7. Loads'
    <3>1. Remains(ReadOrder, ReadOrder)
      BY Orders DEF Remains
    <3>2. QED
      BY <1>2, <2>1, <2>4, <2>6, <3>1 DEF Loads
  <2>8. ~ (Len(toRead') < 11) /\ ~ (Len(toRead') < 5) /\ ~ (Len(toRead') < 2)
        /\ ~ (Len(toRead') < 1) /\ \A j \in 1..9 : ~ (j <= 11 - Len(toRead'))
    BY <2>1
  <2>9. Showing'
    BY <2>4, <2>6, <2>8 DEF Phases, Showing, ThisScan
  <2>10. Frozen'
    BY <2>4, <2>6, <2>8 DEF Phases, Frozen
  <2>11. QED
    BY <2>5, <2>7, <2>9, <2>10
<1>5. CASE Load
  <2>1. /\ Len(toRead) \in 1..11 /\ Len(toRead') = Len(toRead) - 1
        /\ toRead' \in Seq(Counters \cup {"atMember", "lastScan"})
        /\ Remains(toRead', ReadOrder)
        /\ resp' \in Responses
        /\ resp'.state = resp.state /\ resp'.startedAt = resp.startedAt
        /\ resp'.begun = resp.begun /\ resp'.atRest = resp.atRest
        /\ resp'.sent = (Len(toRead) = 1)
    BY <1>5, Loading, Zenon
  <2>2. /\ resp'.atMember = IF Len(toRead) = 2 THEN atMember ELSE resp.atMember
        /\ resp'.lastScan = IF Len(toRead) = 1 THEN lastScan ELSE resp.lastScan
        /\ \A j \in 1..9 : resp'.c[ReadOrder[j]] =
                IF j = 12 - Len(toRead) THEN c[ReadOrder[j]] ELSE resp.c[ReadOrder[j]]
    BY <1>5, Loading, Zenon
  <2>3. Typed'
    BY <1>3, <2>1, Zenon
  <2>4. UNCHANGED <<scan, scanNo, c, atMember, lastScan>>
    BY <1>1 DEF mainVars
  <2>5. Len(toRead) \in 1..11 /\ Len(toRead') = Len(toRead) - 1
    BY <2>1, Zenon
  <2>6. resp'.sent => toRead' = <<>>
    <3>1. resp'.sent => Len(toRead') = 0
      <4>1. resp'.sent => Len(toRead) = 1
        BY <2>1, Zenon
      <4>2. Len(toRead) = 1 => Len(toRead') = 0
        BY <2>5
      <4>3. QED
        BY <4>1, <4>2, Zenon
    <3>2. toRead' \in Seq(Counters \cup {"atMember", "lastScan"})
      BY <2>1, Zenon
    <3>3. QED
      BY <3>1, <3>2, EmptySeq
  <2>7. Loads'
    BY <2>1, <2>4, <2>6 DEF Loads
  <2>8. toRead # <<>>
    BY <1>5 DEF Load
  <2>9. ThisScan' => ThisScan
    BY <2>1, <2>4, <2>8 DEF ThisScan
  <2>10. \A j \in 1..9 : Shown(j)' = Shown(j)
    <3>1. SUFFICES ASSUME NEW j \in 1..9 PROVE Shown(j)' = Shown(j)
      OBVIOUS
    <3>2. Shown(j)' = IF j <= 11 - Len(toRead') THEN resp'.c[ReadOrder[j]]
                                                ELSE c[ReadOrder[j]]
      BY <2>4 DEF Shown
    <3>3. Shown(j) = IF j <= 11 - Len(toRead) THEN resp.c[ReadOrder[j]] ELSE c[ReadOrder[j]]
      BY DEF Shown
    <3>4. resp'.c[ReadOrder[j]] =
            IF j = 12 - Len(toRead) THEN c[ReadOrder[j]] ELSE resp.c[ReadOrder[j]]
      BY <2>2
    <3>5. (j <= 11 - Len(toRead')) <=> (j <= 11 - Len(toRead) \/ j = 12 - Len(toRead))
      BY <2>5
    <3>6. j = 12 - Len(toRead) => ~ (j <= 11 - Len(toRead))
      BY <2>5
    <3>7. QED
      BY <3>2, <3>3, <3>4, <3>5, <3>6
  <2>11. Showing'
    <3>1. SUFFICES ASSUME ThisScan
                   PROVE  /\ scan' # "resetting"
                          /\ resp'.startedAt = scanNo'
                          /\ Shown(1)' <= Shown(3)' + Shown(4)' + Shown(5)' + 1
                          /\ Len(toRead') < 5 => Shown(7)' <= Shown(8)'
      BY <2>9 DEF Showing
    <3>2. /\ scan # "resetting" /\ resp.startedAt = scanNo
          /\ Len(toRead) < 11 => Shown(1) <= Shown(3) + Shown(4) + Shown(5) + 1
          /\ Len(toRead) < 5 => Shown(7) <= Shown(8)
      BY <3>1 DEF Showing
    <3>3. /\ c["walked"] = Sums(c) + InHand /\ InHand \in {0, 1}
          /\ c["withData"] + Cardinality(Posted) <= c["uploaded"]
          /\ Cardinality(Posted) \in Nat
      BY <1>2, <3>2, Finite DEF Tally, Balanced, InHand
    <3>4. /\ c["walked"] \in Nat /\ c["nonCN"] \in Nat /\ c["recent"] \in Nat
          /\ c["queued"] \in Nat /\ c["withData"] \in Nat /\ c["uploaded"] \in Nat
      BY <1>2, CounterNames
    <3>5. Len(toRead) = 11 =>
            /\ Shown(1) = c["walked"] /\ Shown(3) = c["nonCN"]
            /\ Shown(4) = c["recent"] /\ Shown(5) = c["queued"]
      BY Places DEF Shown
    <3>6. Len(toRead) = 5 => Shown(7) = c["withData"] /\ Shown(8) = c["uploaded"]
      BY Places DEF Shown
    <3>7. Shown(1) <= Shown(3) + Shown(4) + Shown(5) + 1
      <4>1. CASE Len(toRead) < 11
        BY <3>2, <4>1
      <4>2. CASE Len(toRead) = 11
        BY <3>3, <3>4, <3>5, <4>2 DEF Sums
      <4>3. QED
        BY <2>5, <4>1, <4>2
    <3>8. Len(toRead') < 5 => Shown(7) <= Shown(8)
      <4>1. CASE Len(toRead) < 5
        BY <3>2, <4>1
      <4>2. CASE Len(toRead) = 5
        BY <3>3, <3>4, <3>6, <4>2
      <4>3. QED
        BY <2>5, <4>1, <4>2
    <3>9. /\ Shown(1)' = Shown(1) /\ Shown(3)' = Shown(3) /\ Shown(4)' = Shown(4)
          /\ Shown(5)' = Shown(5) /\ Shown(7)' = Shown(7) /\ Shown(8)' = Shown(8)
      BY <2>10
    <3>10. scan' # "resetting" /\ resp'.startedAt = scanNo'
      BY <2>1, <2>4, <3>2
    <3>11. QED
      BY <3>7, <3>8, <3>9, <3>10, Zenon
  <2>12. Frozen'
    <3>1. SUFFICES ASSUME ThisScan, resp.state = "idle"
                   PROVE  /\ scan' = "asleep"
                          /\ \A j \in 1..9 : j <= 11 - Len(toRead') =>
                               resp'.c[ReadOrder[j]] = c'[ReadOrder[j]]
                          /\ Len(toRead') < 2 => resp'.atMember = atMember'
                          /\ Len(toRead') < 1 => resp'.lastScan = lastScan'
      BY <2>1, <2>9 DEF Frozen
    <3>2. /\ scan = "asleep"
          /\ \A j \in 1..9 : j <= 11 - Len(toRead) => resp.c[ReadOrder[j]] = c[ReadOrder[j]]
          /\ Len(toRead) < 2 => resp.atMember = atMember
          /\ Len(toRead) < 1 => resp.lastScan = lastScan
      BY <3>1 DEF Frozen
    <3>3. ASSUME NEW j \in 1..9, j <= 11 - Len(toRead')
          PROVE  resp'.c[ReadOrder[j]] = c[ReadOrder[j]]
      <4>1. j <= 11 - Len(toRead) \/ j = 12 - Len(toRead)
        BY <2>5, <3>3
      <4>2. QED
        BY <2>2, <3>2, <4>1
    <3>4. Len(toRead') < 2 => resp'.atMember = atMember
      <4>1. Len(toRead') < 2 => Len(toRead) = 2 \/ Len(toRead) < 2
        BY <2>5
      <4>2. QED
        BY <2>2, <3>2, <4>1
    <3>5. Len(toRead') < 1 => resp'.lastScan = lastScan
      <4>1. Len(toRead') < 1 => Len(toRead) = 1
        BY <2>5
      <4>2. QED
        BY <2>2, <4>1
    <3>6. QED
      BY <2>4, <3>2, <3>3, <3>4, <3>5
  <2>13. QED
    BY <2>3, <2>7, <2>11, <2>12
<1>6. CASE Done
  <2>1. resp' = NoResponse /\ toRead' = <<>> /\ scanNo' = scanNo
    BY <1>1, <1>6 DEF Done, Loads, mainVars
  <2>2. ~ ThisScan'
    BY <2>1 DEF ThisScan, NoResponse
  <2>3. Typed'
    BY <1>3, <2>1, NoCountsTyped, EmptySeq
  <2>4. Loads'
    <3>1. Remains(<<>>, ReadOrder)
      BY Orders DEF Remains
    <3>2. QED
      BY <1>2, <2>1, <3>1 DEF Loads, NoResponse
  <2>5. QED
    BY <2>2, <2>3, <2>4 DEF Showing, Frozen
<1>7. QED
  BY <1>4, <1>5, <1>6 DEF ReaderStep

-----------------------------------------------------------------------------
(* The induction.                                                          *)

(* Every step is one of main, the producer, a worker, the table or the     *)
(* handler.                                                                *)
LEMMA EveryStep == Next => OtherStep \/ ReaderStep
BY DEF Next, OtherStep, MainStep, ProducerStep, WorkerStep, TableStep, ReaderStep

(* Every step preserves the invariant.                                     *)
LEMMA StepHolds == IInv /\ [Next]_vars => IInv'
<1>1. SUFFICES ASSUME IInv, [Next]_vars PROVE IInv'
  OBVIOUS
<1>2. CASE OtherStep
  <2>1. Typed' /\ Phases' /\ Rows'
    BY <1>1, <1>2, MainTyped, ProducerTyped, WorkerTyped, PhasesMain, PhasesProducer,
       PhasesWorker, PhasesTable DEF OtherStep, WorkerStep
  <2>2. Resets'
    BY <1>1, <1>2, ResetsMain, ResetsOthers DEF OtherStep
  <2>3. Tally'
    BY <1>1, <1>2, TallyMain, TallyProducer, TallyWorker, TallyTable DEF OtherStep, WorkerStep
  <2>4. Loads' /\ Showing' /\ Frozen' /\ LastScanAddsUp'
    BY <1>1, <1>2, OtherShows, SnapshotStep
  <2>5. QED
    BY <2>1, <2>2, <2>3, <2>4 DEF IInv
<1>3. CASE ReaderStep
  <2>1. UNCHANGED <<dbVars, mainVars, c, atMember, prodVars, queue, workerVars>>
    BY <1>3 DEF ReaderStep, Begin, Load, Done
  <2>2. UNCHANGED <<table, scan, toReset, scanNo, store, lastScan, c, atMember, prod, lastID,
                    queue, member, posted>>
    BY <2>1 DEF dbVars, mainVars, prodVars, workerVars
  <2>3. Phases' /\ Rows' /\ Resets' /\ LastScanAddsUp'
    BY <1>1, <2>2 DEF IInv, Phases, Rows, Resets, LastScanAddsUp
  <2>4. InHand' = InHand /\ ToSend' = ToSend
    BY <2>2 DEF InHand, ToSend
  <2>5. Tally'
    BY <1>1, <2>2, <2>4, SameBalance DEF IInv, Tally
  <2>6. QED
    BY <1>1, <1>3, <2>3, <2>5, ReaderShows DEF IInv
<1>4. CASE UNCHANGED vars
  <2>1. /\ UNCHANGED <<table, recent, scan, toReset, scanNo, store, lastScan, c, atMember>>
        /\ UNCHANGED <<prod, lastID, queue, member, left, posted, toRead, resp>>
    BY <1>4 DEF vars, dbVars, mainVars, prodVars, workerVars, readerVars
  <2>2. Typed' /\ Phases' /\ Rows' /\ Resets' /\ LastScanAddsUp' /\ Loads'
    BY <1>1, <2>1 DEF IInv, Typed, TypeOK, Phases, Rows, Resets, LastScanAddsUp, Loads
  <2>3. InHand' = InHand /\ ToSend' = ToSend /\ (ThisScan' <=> ThisScan)
        /\ \A j : Shown(j)' = Shown(j)
    BY <2>1 DEF InHand, ToSend, ThisScan, Shown
  <2>4. Tally'
    BY <1>1, <2>1, <2>3, SameBalance DEF IInv, Tally
  <2>5. Showing' /\ Frozen'
    BY <1>1, <2>1, <2>3 DEF IInv, Showing, Frozen
  <2>6. QED
    BY <2>2, <2>4, <2>5 DEF IInv
<1>5. QED
  BY <1>1, <1>2, <1>3, <1>4, EveryStep

-----------------------------------------------------------------------------
(* The theorems.                                                           *)

(* The invariant holds in every state main, the producer, the workers and  *)
(* the handler can reach.                                                  *)
THEOREM ViewInvariant == Spec => []IInv
BY InitHolds, StepHolds, PTL DEF Spec

(* Type correctness: no counter below zero, no worker with a zone left to  *)
(* post that it does not have.                                             *)
THEOREM ViewTypeCorrect == Spec => []TypeOK
<1>1. IInv => TypeOK
  BY DEF IInv, Typed
<1>2. QED
  BY <1>1, ViewInvariant, PTL

(* A response put together within one scan never shows more members        *)
(* walked than it accounts for, but for one: GetProgress loads the         *)
(* counters in an order that fits the one they move in, however many       *)
(* members and workers move them meanwhile.                                *)
THEOREM CountersAlwaysFit == Spec => []CountersFit
<1>1. IInv => CountersFit
  <2>1. SUFFICES ASSUME IInv, InOneScan PROVE resp.c["walked"] <= Sums(resp.c) + 1
    BY DEF CountersFit
  <2>2. toRead = <<>> /\ ThisScan
    BY <2>1 DEF IInv, Loads, InOneScan, ThisScan
  <2>3. Len(toRead) = 0
    BY <2>2
  <2>4. Shown(1) <= Shown(3) + Shown(4) + Shown(5) + 1
    BY <2>1, <2>2, <2>3 DEF IInv, Showing
  <2>5. /\ Shown(1) = resp.c["walked"] /\ Shown(3) = resp.c["nonCN"]
        /\ Shown(4) = resp.c["recent"] /\ Shown(5) = resp.c["queued"]
    BY <2>3, Places DEF Shown
  <2>6. QED
    BY <2>4, <2>5 DEF Sums
<1>2. QED
  BY <1>1, ViewInvariant, PTL

(* Nor does a response that is begun after the resets of a scan and read   *)
(* before the next one show a member with data whose upload it does not    *)
(* show, however many workers upload while it is read.                     *)
THEOREM DataAlwaysUploaded == Spec => []DataWasUploaded
<1>1. IInv => DataWasUploaded
  <2>1. SUFFICES ASSUME IInv, InOneScan PROVE resp.c["withData"] <= resp.c["uploaded"]
    BY DEF DataWasUploaded
  <2>2. toRead = <<>> /\ ThisScan
    BY <2>1 DEF IInv, Loads, InOneScan, ThisScan
  <2>3. Len(toRead) = 0
    BY <2>2
  <2>4. Shown(7) <= Shown(8)
    BY <2>1, <2>2, <2>3 DEF IInv, Showing
  <2>5. Shown(7) = resp.c["withData"] /\ Shown(8) = resp.c["uploaded"]
    BY <2>3, Places DEF Shown
  <2>6. QED
    BY <2>4, <2>5
<1>2. QED
  BY <1>1, ViewInvariant, PTL

(* "During idle they still hold the values of the just-finished scan"      *)
(* (openapi.yaml:440): an idle response, read before the next scan starts, *)
(* shows the very counters last_scan shows, and no member in hand.         *)
THEOREM IdleAlwaysFrozen == Spec => []IdleIsFrozen
<1>1. IInv => IdleIsFrozen
  <2>1. SUFFICES ASSUME IInv, InOneScan, resp.state = "idle",
                        resp.lastScan.of = resp.startedAt
                 PROVE  resp.c = resp.lastScan.c /\ resp.atMember = None
    BY DEF IdleIsFrozen
  <2>2. toRead = <<>> /\ ThisScan
    BY <2>1 DEF IInv, Loads, InOneScan, ThisScan
  <2>3. Len(toRead) = 0
    BY <2>2
  <2>4. /\ scan = "asleep" /\ resp.startedAt = scanNo
        /\ \A j \in 1..9 : resp.c[ReadOrder[j]] = c[ReadOrder[j]]
        /\ resp.atMember = atMember /\ resp.lastScan = lastScan
    BY <2>1, <2>2, <2>3 DEF IInv, Frozen, Showing
  <2>5. resp.c = c
    <3>1. \A k \in Counters : resp.c[k] = c[k]
      BY <2>4, Orders
    <3>2. resp.c \in [Counters -> Nat] /\ c \in [Counters -> Nat]
      BY <2>1 DEF IInv, Typed, TypeOK, Responses
    <3>3. QED
      BY <3>1, <3>2
  <2>6. lastScan.c = c
    BY <2>1, <2>4 DEF IInv, LastScanAddsUp
  <2>7. atMember = None
    BY <2>1, <2>4 DEF IInv, Phases
  <2>8. QED
    BY <2>4, <2>5, <2>6, <2>7
<1>2. QED
  BY <1>1, ViewInvariant, PTL

(* last_scan adds up, of whatever scan it is and whatever scan is running  *)
(* when it is read; and it is what the counters say until the next scan    *)
(* begins.                                                                 *)
THEOREM LastScanAlwaysAddsUp == Spec => []LastScanAddsUp
<1>1. IInv => LastScanAddsUp
  BY DEF IInv
<1>2. QED
  BY <1>1, ViewInvariant, PTL

=============================================================================
