---------------------------- MODULE CharCacheProofs ----------------------------
(* What CharCache's one run shows for two members and one character, proved
   for any set of members and ids, any TTL and any bound on a lookup.

   The argument is about ages: an id in the cache has been the answer of FFLogs
   so lately that it is still young enough when its entry runs out (EntryFresh),
   because a lookup stores it before it is older than the lookup (CallFresh),
   and FFLogs' answer of now has no age at all (OwnerFresh).  It needs the keys
   of two members to differ: a member's entry is written by its own lookups
   only. *)
EXTENDS CharCache, TLAPS

--------------------------------------------------------------------------------

(* The invariant. *)

(* FFLogs' answer of this moment is as new as an answer can be. *)
OwnerFresh == \A m \in Members : lastOwned[m][owner[m]] = 0

(* What a lookup has fetched and not yet stored is an id, and not older than
   the lookup. *)
CallFresh ==
    \A m \in Members : call[m].at = "set" =>
        /\ call[m].id \in Ids
        /\ lastOwned[m][call[m].id] <= call[m].age

(* What an entry has left to live and the age of its id never add up to more
   than a lookup stored. *)
EntryFresh ==
    \A m \in Members : entry[CacheKey(m)].id \in Ids =>
        lastOwned[m][entry[CacheKey(m)].id] + entry[CacheKey(m)].left <= TTL + Deadline

IInv == TypeOK /\ OwnerFresh /\ CallFresh /\ EntryFresh /\ ServedIsRecent
            /\ NoCharacterIsCurrent

--------------------------------------------------------------------------------

(* The operators. *)

(* The lesser of two ages: Tick caps an age at Oldest. *)
LEMMA LesserAge ==
    ASSUME NEW a \in Nat, NEW b \in Nat
    PROVE  /\ Min({a, b}) \in {a, b}
           /\ Min({a, b}) <= a
           /\ Min({a, b}) <= b
<1>1. \E x \in {a, b} : \A y \in {a, b} : x <= y
  <2>1. CASE a <= b
    BY <2>1
  <2>2. CASE ~ (a <= b)
    <3>1. b <= a /\ b <= b
      BY <2>2
    <3>2. QED
      BY <3>1
  <2>3. QED
    BY <2>1, <2>2
<1>2. Min({a, b}) \in {a, b} /\ \A y \in {a, b} : Min({a, b}) <= y
  BY <1>1 DEF Min
<1>3. QED
  BY <1>2

(* Two members never share a cache key (charIDCacheKey takes the server in). *)
LEMMA KeysDiffer ==
    ASSUME NEW m \in Members, NEW n \in Members, CacheKey(m) = CacheKey(n)
    PROVE  m = n
<1>1. m[1] = n[1] /\ m[2] = n[2]
  BY DEF CacheKey
<1>2. m = <<m[1], m[2]>> /\ n = <<n[1], n[2]>>
  BY CacheAssumption
<1>3. QED
  BY <1>1, <1>2

(* Every member has a key, and every key a member. *)
LEMMA KeyOf == \A m \in Members : CacheKey(m) \in CacheKeys
BY DEF CacheKeys

(* The ages are natural numbers. *)
LEMMA Ages ==
    /\ TTL \in Nat \ {0} /\ Deadline \in Nat \ {0} /\ Oldest \in Nat
    /\ Oldest = TTL + Deadline + 1
BY CacheAssumption DEF Oldest

(* A tick takes one from what an entry has left, and the last one removes it:
   what it leaves is either no entry or the same id with one tick less. *)
LEMMA ElapseTyped ==
    ASSUME NEW e \in [id : Ids, left : 1..TTL] \cup {NoEntry}
    PROVE  /\ Elapse(e) \in [id : Ids, left : 1..TTL] \cup {NoEntry}
           /\ Elapse(e).id \in Ids => Elapse(e).id = e.id /\ Elapse(e).left = e.left - 1
<1>1. NoEntry.id \notin Ids /\ NoEntry.left = 0
  BY CacheAssumption DEF NoEntry
<1>2. CASE e.left <= 1
  BY <1>1, <1>2 DEF Elapse
<1>3. CASE ~ (e.left <= 1)
  <2>1. e \in [id : Ids, left : 1..TTL]
    BY <1>1, <1>3
  <2>2. Elapse(e) = [e EXCEPT !.left = e.left - 1]
    BY <1>3 DEF Elapse
  <2>3. e.left - 1 \in 1..TTL
    BY <2>1, <1>3, Ages
  <2>4. QED
    BY <2>1, <2>2, <2>3
<1>4. QED
  BY <1>2, <1>3

(* A record of the types' sets is an entry with an id or no entry at all. *)
LEMMA EntryKinds ==
    ASSUME TypeOK, NEW k \in CacheKeys
    PROVE  /\ entry[k] \in [id : Ids, left : 1..TTL] \cup {NoEntry}
           /\ entry[k].id \in Ids => entry[k] \in [id : Ids, left : 1..TTL]
<1>1. NoEntry.id \notin Ids
  BY CacheAssumption DEF NoEntry
<1>2. QED
  BY <1>1 DEF TypeOK

--------------------------------------------------------------------------------

(* The steps. *)

(* The initial states: nothing is cached, nothing asked, nothing served. *)
LEMMA InitHolds == Init => IInv
<1>1. SUFFICES ASSUME Init PROVE IInv
  OBVIOUS
<1>2. \A m \in Members : owner[m] \in Answers
  BY <1>1 DEF Init
<1>3. TypeOK
  <2>1. lastOwned \in [Members -> [Answers -> 0..Oldest]]
    BY <1>1, Ages DEF Init
  <2>2. entry \in [CacheKeys -> [id : Ids, left : 1..TTL] \cup {NoEntry}]
    BY <1>1 DEF Init
  <2>3. Idle \in [at : {"idle", "get", "fetch", "set"}, id : Answers, age : 0..Deadline]
    BY Ages DEF Idle, Answers
  <2>4. call \in [Members -> [at : {"idle", "get", "fetch", "set"},
                              id : Answers, age : 0..Deadline]]
    BY <1>1, <2>3 DEF Init
  <2>5. served \in [Members -> [id : Answers \cup {Failure}, age : 0..Oldest]]
    BY <1>1, Ages DEF Init
  <2>6. QED
    BY <1>1, <2>1, <2>2, <2>4, <2>5 DEF Init, TypeOK
<1>4. OwnerFresh
  BY <1>1, <1>2 DEF Init, OwnerFresh
<1>5. CallFresh
  BY <1>1 DEF Init, CallFresh, Idle
<1>6. EntryFresh
  <2>1. \A m \in Members : entry[CacheKey(m)] = NoEntry
    BY <1>1, KeyOf DEF Init
  <2>2. NoEntry.id \notin Ids
    BY CacheAssumption DEF NoEntry
  <2>3. QED
    BY <2>1, <2>2 DEF EntryFresh
<1>7. ServedIsRecent /\ NoCharacterIsCurrent
  BY <1>1, CacheAssumption DEF Init, ServedIsRecent, NoCharacterIsCurrent
<1>8. QED
  BY <1>3, <1>4, <1>5, <1>6, <1>7 DEF IInv

(* An answer to one member that is either young enough or a failure. *)
LEMMA AnswerHolds ==
    ASSUME IInv, NEW m \in Members, NEW x \in Answers \cup {Failure}, Answer(m, x),
           x \in Ids => lastOwned[m][x] <= TTL + Deadline,
           x = None => lastOwned[m][x] <= Deadline
    PROVE  /\ call' \in [Members -> [at : {"idle", "get", "fetch", "set"},
                                     id : Answers, age : 0..Deadline]]
           /\ served' \in [Members -> [id : Answers \cup {Failure}, age : 0..Oldest]]
           /\ \A n \in Members : call'[n].at = "set" => call'[n] = call[n]
           /\ ServedIsRecent' /\ NoCharacterIsCurrent'
<1> USE DEF IInv
<1>1. Idle \in [at : {"idle", "get", "fetch", "set"}, id : Answers, age : 0..Deadline]
  BY Ages DEF Idle, Answers
<1>2. call' \in [Members -> [at : {"idle", "get", "fetch", "set"},
                             id : Answers, age : 0..Deadline]]
  BY <1>1 DEF TypeOK, Answer
<1>3. \A n \in Members : call'[n].at = "set" => call'[n] = call[n]
  BY DEF TypeOK, Answer, Idle
<1> DEFINE age == IF x = Failure THEN 0 ELSE lastOwned[m][x]
<1>4. age \in 0..Oldest
  BY Ages DEF TypeOK
<1>5. served' = [served EXCEPT ![m] = [id |-> x, age |-> age]]
  BY DEF Answer
<1>6. /\ x \in Ids => age <= TTL + Deadline
      /\ x = None => age <= Deadline
  BY CacheAssumption DEF Answers
<1> HIDE DEF age
<1>7. served' \in [Members -> [id : Answers \cup {Failure}, age : 0..Oldest]]
  BY <1>4, <1>5 DEF TypeOK
<1>8. \A n \in Members : served'[n] = IF n = m THEN [id |-> x, age |-> age] ELSE served[n]
  BY <1>5 DEF TypeOK
<1>9. ServedIsRecent' /\ NoCharacterIsCurrent'
  BY <1>6, <1>8 DEF ServedIsRecent, NoCharacterIsCurrent
<1>10. QED
  BY <1>2, <1>3, <1>7, <1>9

(* A step of one lookup that only moves on to asking Redis or FFLogs. *)
LEMMA AskingHolds ==
    ASSUME IInv, NEW m \in Members, NEW s \in {"get", "fetch"},
           call' = [call EXCEPT ![m].at = s],
           UNCHANGED <<owner, lastOwned, entry, served>>
    PROVE  IInv'
<1> USE DEF IInv
<1>1. TypeOK'
  BY DEF TypeOK, CacheKeys, Answers
<1>2. \A n \in Members : call'[n].at = "set" => call'[n] = call[n]
  BY DEF TypeOK
<1>3. CallFresh'
  BY <1>2 DEF CallFresh
<1>4. OwnerFresh' /\ EntryFresh'
  BY DEF OwnerFresh, EntryFresh
<1>5. ServedIsRecent' /\ NoCharacterIsCurrent'
  BY DEF ServedIsRecent, NoCharacterIsCurrent
<1>6. QED
  BY <1>1, <1>3, <1>4, <1>5

(* A lookup that answers and touches nothing else. *)
LEMMA PlainAnswerHolds ==
    ASSUME IInv, NEW m \in Members, NEW x \in Answers \cup {Failure}, Answer(m, x),
           x \in Ids => lastOwned[m][x] <= TTL + Deadline,
           x = None => lastOwned[m][x] <= Deadline,
           UNCHANGED <<owner, lastOwned, entry>>
    PROVE  IInv'
<1>1. /\ call' \in [Members -> [at : {"idle", "get", "fetch", "set"},
                                id : Answers, age : 0..Deadline]]
      /\ served' \in [Members -> [id : Answers \cup {Failure}, age : 0..Oldest]]
      /\ \A n \in Members : call'[n].at = "set" => call'[n] = call[n]
      /\ ServedIsRecent' /\ NoCharacterIsCurrent'
  BY AnswerHolds
<1>2. TypeOK'
  BY <1>1 DEF IInv, TypeOK
<1>3. CallFresh'
  BY <1>1 DEF IInv, CallFresh
<1>4. OwnerFresh' /\ EntryFresh'
  BY DEF IInv, OwnerFresh, EntryFresh
<1>5. QED
  BY <1>1, <1>2, <1>3, <1>4 DEF IInv

(* The cache answers: its id is younger than its TTL and the lookup that
   stored it. *)
LEMMA HitHolds == ASSUME IInv, NEW m \in Members, Hit(m) PROVE IInv'
<1> DEFINE x == entry[CacheKey(m)].id
<1>1. x \in Ids /\ Answer(m, x) /\ UNCHANGED <<owner, lastOwned, entry>>
  BY DEF Hit
<1>2. lastOwned[m][x] + entry[CacheKey(m)].left <= TTL + Deadline
  BY <1>1 DEF IInv, EntryFresh
<1>3. lastOwned[m][x] \in Nat /\ entry[CacheKey(m)].left \in Nat
  <2>1. x \in Answers
    BY <1>1 DEF Answers
  <2>2. lastOwned[m][x] \in Nat
    BY <2>1, Ages DEF IInv, TypeOK
  <2>3. entry[CacheKey(m)] \in [id : Ids, left : 1..TTL]
    BY <1>1, KeyOf, EntryKinds DEF IInv
  <2>4. entry[CacheKey(m)].left \in Nat
    BY <2>3, Ages
  <2>5. QED
    BY <2>2, <2>4
<1>4. lastOwned[m][x] <= TTL + Deadline
  BY <1>2, <1>3, Ages
<1>5. x # None /\ x \in Answers
  BY <1>1, CacheAssumption DEF Answers
<1> HIDE DEF x
<1>6. QED
  BY <1>1, <1>4, <1>5, PlainAnswerHolds

(* FFLogs answers, and its answer is new. *)
LEMMA FetchHolds == ASSUME IInv, NEW m \in Members, Fetch(m) PROVE IInv'
<1>1. /\ call[m].at = "fetch" /\ UNCHANGED <<owner, lastOwned, entry>>
      /\ owner[m] \in Answers /\ lastOwned[m][owner[m]] = 0
  BY DEF Fetch, IInv, TypeOK, OwnerFresh
<1>2. CASE owner[m] = None
  <2>1. Answer(m, None)
    BY <1>2 DEF Fetch
  <2>2. lastOwned[m][None] <= Deadline /\ None \notin Ids /\ None \in Answers
    BY <1>1, <1>2, CacheAssumption DEF Answers
  <2>3. QED
    BY <1>1, <2>1, <2>2, PlainAnswerHolds
<1>3. CASE owner[m] # None
  <2>1. call' = [call EXCEPT ![m].at = "set", ![m].id = owner[m]] /\ served' = served
    BY <1>3 DEF Fetch
  <2>2. call[m] \in [at : {"idle", "get", "fetch", "set"}, id : Answers, age : 0..Deadline]
    BY DEF IInv, TypeOK
  <2>3. \A n \in Members : call'[n] =
          IF n = m THEN [call[m] EXCEPT !.at = "set", !.id = owner[m]] ELSE call[n]
    BY <2>1 DEF IInv, TypeOK
  <2>4. call' \in [Members -> [at : {"idle", "get", "fetch", "set"},
                               id : Answers, age : 0..Deadline]]
    BY <1>1, <2>1, <2>2 DEF IInv, TypeOK
  <2>5. TypeOK'
    BY <1>1, <2>1, <2>4 DEF IInv, TypeOK
  <2>6. /\ call'[m].id = owner[m] /\ call'[m].age = call[m].age
        /\ owner[m] \in Ids /\ lastOwned[m][owner[m]] <= call[m].age
    <3>1. call'[m] = [call[m] EXCEPT !.at = "set", !.id = owner[m]]
      BY <2>3
    <3>2. call'[m].id = owner[m] /\ call'[m].age = call[m].age /\ call[m].age \in Nat
      BY <2>2, <3>1, Ages
    <3>3. owner[m] \in Ids
      BY <1>1, <1>3 DEF Answers
    <3>4. QED
      BY <1>1, <3>2, <3>3
  <2>7. CallFresh'
    BY <1>1, <2>3, <2>6 DEF IInv, CallFresh
  <2>8. OwnerFresh' /\ EntryFresh' /\ ServedIsRecent' /\ NoCharacterIsCurrent'
    BY <1>1, <2>1 DEF IInv, OwnerFresh, EntryFresh, ServedIsRecent, NoCharacterIsCurrent
  <2>9. QED
    BY <2>5, <2>7, <2>8 DEF IInv
<1>4. QED
  BY <1>2, <1>3

(* What a lookup is about to store or return is no older than the lookup. *)
LEMMA FetchedIsFresh ==
    ASSUME IInv, NEW m \in Members, call[m].at = "set"
    PROVE  /\ call[m].id \in Ids /\ call[m].id \in Answers /\ call[m].id # None
           /\ lastOwned[m][call[m].id] \in Nat
           /\ lastOwned[m][call[m].id] <= Deadline
<1>1. call[m].id \in Ids /\ lastOwned[m][call[m].id] <= call[m].age
  BY DEF IInv, CallFresh
<1>2. call[m].age \in Nat /\ call[m].age <= Deadline
  BY Ages DEF IInv, TypeOK
<1>3. lastOwned[m][call[m].id] \in Nat
  BY <1>1, Ages DEF IInv, TypeOK, Answers
<1>4. QED
  BY <1>1, <1>2, <1>3, Ages, CacheAssumption DEF Answers

(* SET: the entry starts with the whole TTL and an id no older than a lookup. *)
LEMMA StoreHolds == ASSUME IInv, NEW m \in Members, Store(m) PROVE IInv'
<1> DEFINE x == call[m].id
           e == [id |-> x, left |-> TTL]
<1>1. /\ entry' = [entry EXCEPT ![CacheKey(m)] = e] /\ Answer(m, x)
      /\ UNCHANGED <<owner, lastOwned>>
  BY DEF Store
<1>2. x \in Ids /\ x \in Answers /\ x # None /\ lastOwned[m][x] \in Nat
      /\ lastOwned[m][x] <= Deadline
  BY FetchedIsFresh DEF Store
<1>3. e \in [id : Ids, left : 1..TTL] /\ e.id = x /\ e.left = TTL
  BY <1>2, Ages
<1>4. lastOwned[m][x] + TTL <= TTL + Deadline /\ lastOwned[m][x] <= TTL + Deadline
  BY <1>2, Ages
<1> HIDE DEF x, e
<1>5. /\ call' \in [Members -> [at : {"idle", "get", "fetch", "set"},
                                id : Answers, age : 0..Deadline]]
      /\ served' \in [Members -> [id : Answers \cup {Failure}, age : 0..Oldest]]
      /\ \A n \in Members : call'[n].at = "set" => call'[n] = call[n]
      /\ ServedIsRecent' /\ NoCharacterIsCurrent'
  BY <1>1, <1>2, <1>4, AnswerHolds
<1>6. entry' \in [CacheKeys -> [id : Ids, left : 1..TTL] \cup {NoEntry}]
  BY <1>1, <1>3 DEF IInv, TypeOK
<1>7. TypeOK'
  BY <1>1, <1>5, <1>6 DEF IInv, TypeOK
<1>8. CallFresh' /\ OwnerFresh'
  BY <1>1, <1>5 DEF IInv, CallFresh, OwnerFresh
<1>9. ASSUME NEW n \in Members, entry'[CacheKey(n)].id \in Ids
      PROVE  lastOwned[n][entry'[CacheKey(n)].id] + entry'[CacheKey(n)].left <= TTL + Deadline
  <2>1. CASE n = m
    <3>1. entry'[CacheKey(m)] = e
      BY <1>1, KeyOf DEF IInv, TypeOK
    <3>2. QED
      BY <2>1, <3>1, <1>3, <1>4
  <2>2. CASE n # m
    <3>1. CacheKey(n) # CacheKey(m)
      BY <2>2, KeysDiffer
    <3>2. entry'[CacheKey(n)] = entry[CacheKey(n)]
      BY <1>1, <3>1, KeyOf DEF IInv, TypeOK
    <3>3. QED
      BY <1>9, <3>2 DEF IInv, EntryFresh
  <2>3. QED
    BY <2>1, <2>2
<1>10. EntryFresh'
  BY <1>1, <1>9 DEF EntryFresh
<1>11. QED
  BY <1>5, <1>7, <1>8, <1>10 DEF IInv

(* The SET fails: the answer is returned all the same. *)
LEMMA StoreFailsHolds == ASSUME IInv, NEW m \in Members, StoreFails(m) PROVE IInv'
<1>1. /\ call[m].at = "set" /\ Answer(m, call[m].id) /\ UNCHANGED <<owner, lastOwned, entry>>
  BY DEF StoreFails
<1>2. /\ call[m].id \in Ids /\ call[m].id \in Answers /\ call[m].id # None
      /\ lastOwned[m][call[m].id] <= TTL + Deadline
  BY <1>1, FetchedIsFresh, Ages
<1>3. QED
  BY <1>1, <1>2, PlainAnswerHolds

(* Every step of a lookup. *)
LEMMA ResolveHolds == ASSUME IInv, NEW m \in Members, Resolve(m) PROVE IInv'
<1>1. CASE Hit(m)
  BY <1>1, HitHolds
<1>2. CASE Miss(m)
  BY <1>2, AskingHolds DEF Miss
<1>3. CASE RedisFails(m)
  BY <1>3, AskingHolds DEF RedisFails
<1>4. CASE Fetch(m)
  BY <1>4, FetchHolds
<1>5. CASE FetchFails(m)
  <2>1. Failure \notin Ids /\ Failure # None
    BY CacheAssumption
  <2>2. QED
    BY <1>5, <2>1, PlainAnswerHolds DEF FetchFails
<1>6. CASE Store(m)
  BY <1>6, StoreHolds
<1>7. CASE StoreFails(m)
  BY <1>7, StoreFailsHolds
<1>8. QED
  BY <1>1, <1>2, <1>3, <1>4, <1>5, <1>6, <1>7 DEF Resolve

(* FFLogs' answer changes: no age grows. *)
LEMMA ChangeHolds == ASSUME IInv, NEW m \in Members, NEW x \in Answers, Change(m, x) PROVE IInv'
<1> USE DEF IInv
<1>1. /\ owner' = [owner EXCEPT ![m] = x]
      /\ lastOwned' = [lastOwned EXCEPT ![m] = [lastOwned[m] EXCEPT ![x] = 0]]
      /\ UNCHANGED <<entry, call, served>>
  BY DEF Change, TypeOK
<1>2. \A n \in Members : lastOwned[n] \in [Answers -> 0..Oldest]
  BY DEF TypeOK
<1>3. lastOwned' \in [Members -> [Answers -> 0..Oldest]]
  BY <1>1, <1>2, Ages DEF TypeOK
<1>4. TypeOK'
  BY <1>1, <1>3 DEF TypeOK
<1>5. \A n \in Members : lastOwned'[n] =
        IF n = m THEN [lastOwned[m] EXCEPT ![x] = 0] ELSE lastOwned[n]
  BY <1>1 DEF TypeOK
<1>6. \A n \in Members, y \in Answers :
        /\ lastOwned[n][y] \in Nat /\ lastOwned'[n][y] \in Nat
        /\ lastOwned'[n][y] <= lastOwned[n][y]
  BY <1>2, <1>5, Ages
<1>7. OwnerFresh'
  BY <1>1, <1>2, <1>5 DEF OwnerFresh, TypeOK
<1>8. CallFresh'
  <2>1. SUFFICES ASSUME NEW n \in Members, call[n].at = "set"
                 PROVE  call[n].id \in Ids /\ lastOwned'[n][call[n].id] <= call[n].age
    BY <1>1 DEF CallFresh
  <2>2. call[n].id \in Ids /\ lastOwned[n][call[n].id] <= call[n].age
    BY <2>1 DEF CallFresh
  <2>3. call[n].age \in Nat
    BY Ages DEF TypeOK
  <2>4. QED
    BY <2>2, <2>3, <1>6 DEF Answers
<1>9. EntryFresh'
  <2>1. SUFFICES ASSUME NEW n \in Members, entry[CacheKey(n)].id \in Ids
                 PROVE  lastOwned'[n][entry[CacheKey(n)].id] + entry[CacheKey(n)].left
                          <= TTL + Deadline
    BY <1>1 DEF EntryFresh
  <2>2. lastOwned[n][entry[CacheKey(n)].id] + entry[CacheKey(n)].left <= TTL + Deadline
    BY <2>1 DEF EntryFresh
  <2>3. entry[CacheKey(n)].left \in Nat
    BY <2>1, KeyOf, EntryKinds, Ages
  <2>4. entry[CacheKey(n)].id \in Answers
    BY <2>1 DEF Answers
  <2>5. QED
    BY <2>2, <2>3, <2>4, <1>6, Ages
<1>10. ServedIsRecent' /\ NoCharacterIsCurrent'
  BY <1>1 DEF ServedIsRecent, NoCharacterIsCurrent
<1>11. QED
  BY <1>4, <1>7, <1>8, <1>9, <1>10

(* An entry is lost. *)
LEMMA EvictHolds == ASSUME IInv, NEW k \in CacheKeys, Evict(k) PROVE IInv'
<1> USE DEF IInv
<1>1. NoEntry.id \notin Ids
  BY CacheAssumption DEF NoEntry
<1>2. \A n \in Members : entry'[CacheKey(n)] \in {entry[CacheKey(n)], NoEntry}
  BY KeyOf DEF Evict, TypeOK
<1>3. TypeOK'
  BY DEF Evict, TypeOK
<1>4. EntryFresh'
  BY <1>1, <1>2 DEF Evict, EntryFresh
<1>5. OwnerFresh' /\ CallFresh'
  BY DEF Evict, OwnerFresh, CallFresh
<1>6. ServedIsRecent' /\ NoCharacterIsCurrent'
  BY DEF Evict, ServedIsRecent, NoCharacterIsCurrent
<1>7. QED
  BY <1>3, <1>4, <1>5, <1>6

(* A tick: every age grows by one at most, every lookup under way ages by one
   and every entry has one tick less. *)
LEMMA TickHolds == ASSUME IInv, Tick PROVE IInv'
<1> USE DEF IInv
<1>1. \A n \in Members, y \in Answers :
        lastOwned'[n][y] = IF y = owner[n] THEN 0 ELSE Min({lastOwned[n][y] + 1, Oldest})
  BY DEF Tick
<1>2. \A n \in Members, y \in Answers : lastOwned[n][y] \in Nat /\ lastOwned[n][y] <= Oldest
  BY Ages DEF TypeOK
<1>3. \A n \in Members, y \in Answers :
        /\ lastOwned'[n][y] \in 0..Oldest
        /\ lastOwned'[n][y] <= lastOwned[n][y] + 1
  <2>1. SUFFICES ASSUME NEW n \in Members, NEW y \in Answers
                 PROVE  /\ lastOwned'[n][y] \in 0..Oldest
                        /\ lastOwned'[n][y] <= lastOwned[n][y] + 1
    OBVIOUS
  <2> DEFINE a == lastOwned[n][y] + 1
  <2>2. a \in Nat /\ lastOwned'[n][y] = IF y = owner[n] THEN 0 ELSE Min({a, Oldest})
    <3>1. a \in Nat
      BY <1>2
    <3>2. lastOwned'[n][y] = IF y = owner[n] THEN 0 ELSE Min({a, Oldest})
      BY <1>1, Zenon
    <3>3. QED
      BY <3>1, <3>2
  <2> HIDE DEF a
  <2>3. Min({a, Oldest}) \in Nat /\ Min({a, Oldest}) <= a /\ Min({a, Oldest}) <= Oldest
    BY <2>2, Ages, LesserAge
  <2>4. lastOwned'[n][y] \in 0..Oldest /\ lastOwned'[n][y] <= a
    BY <2>2, <2>3, Ages
  <2>5. QED
    BY <2>4 DEF a
<1>4. \A n \in Members : call'[n] = IF call[n].at = "idle" THEN call[n]
                                    ELSE [call[n] EXCEPT !.age = @ + 1]
  BY DEF Tick
<1>5. \A n \in Members :
        /\ call'[n] \in [at : {"idle", "get", "fetch", "set"}, id : Answers, age : 0..Deadline]
        /\ call'[n].at = "set" => call[n].at = "set" /\ call'[n].id = call[n].id
                                    /\ call'[n].age = call[n].age + 1
  <2>1. SUFFICES ASSUME NEW n \in Members
                 PROVE  /\ call'[n] \in [at : {"idle", "get", "fetch", "set"}, id : Answers,
                                         age : 0..Deadline]
                        /\ call'[n].at = "set" => call[n].at = "set" /\ call'[n].id = call[n].id
                                                    /\ call'[n].age = call[n].age + 1
    OBVIOUS
  <2>2. call[n] \in [at : {"idle", "get", "fetch", "set"}, id : Answers, age : 0..Deadline]
    BY DEF TypeOK
  <2>3. CASE call[n].at = "idle"
    BY <2>2, <2>3, <1>4
  <2>4. CASE call[n].at # "idle"
    <3>1. call[n].age + 1 \in 0..Deadline
      BY <2>2, <2>4, Ages DEF Tick
    <3>2. QED
      BY <2>2, <2>4, <3>1, <1>4
  <2>5. QED
    BY <2>3, <2>4
<1>6. \A k \in CacheKeys : entry'[k] = Elapse(entry[k])
  BY DEF Tick
<1>7. TypeOK'
  <2>1. lastOwned' \in [Members -> [Answers -> 0..Oldest]]
    BY <1>3 DEF Tick
  <2>2. call' \in [Members -> [at : {"idle", "get", "fetch", "set"},
                               id : Answers, age : 0..Deadline]]
    BY <1>5 DEF Tick
  <2>3. \A k \in CacheKeys : entry'[k] \in [id : Ids, left : 1..TTL] \cup {NoEntry}
    BY <1>6, ElapseTyped, EntryKinds
  <2>4. entry' \in [CacheKeys -> [id : Ids, left : 1..TTL] \cup {NoEntry}]
    BY <2>3 DEF Tick
  <2>5. QED
    BY <2>1, <2>2, <2>4 DEF Tick, TypeOK
<1>8. OwnerFresh'
  BY <1>1 DEF Tick, OwnerFresh, TypeOK
<1>9. CallFresh'
  <2>1. SUFFICES ASSUME NEW n \in Members, call'[n].at = "set"
                 PROVE  call'[n].id \in Ids /\ lastOwned'[n][call'[n].id] <= call'[n].age
    BY DEF CallFresh
  <2>2. /\ call[n].id \in Ids /\ lastOwned[n][call[n].id] <= call[n].age
        /\ call'[n].id = call[n].id /\ call'[n].age = call[n].age + 1
    BY <2>1, <1>5 DEF CallFresh
  <2>3. call[n].age \in Nat
    BY Ages DEF TypeOK
  <2>4. /\ call[n].id \in Answers
        /\ lastOwned'[n][call[n].id] \in Nat /\ lastOwned[n][call[n].id] \in Nat
        /\ lastOwned'[n][call[n].id] <= lastOwned[n][call[n].id] + 1
    BY <2>2, <1>2, <1>3, Ages DEF Answers
  <2>5. QED
    BY <2>2, <2>3, <2>4
<1>10. EntryFresh'
  <2>1. SUFFICES ASSUME NEW n \in Members, entry'[CacheKey(n)].id \in Ids
                 PROVE  lastOwned'[n][entry'[CacheKey(n)].id] + entry'[CacheKey(n)].left
                          <= TTL + Deadline
    BY DEF EntryFresh
  <2> DEFINE e == entry[CacheKey(n)]
             f == entry'[CacheKey(n)]
  <2>2. f = Elapse(e) /\ e \in [id : Ids, left : 1..TTL] \cup {NoEntry}
    BY <1>6, KeyOf, EntryKinds
  <2>3. f.id = e.id /\ f.left = e.left - 1 /\ e.id \in Ids
    BY <2>1, <2>2, ElapseTyped
  <2>4. lastOwned[n][e.id] + e.left <= TTL + Deadline
    BY <2>3 DEF EntryFresh
  <2>5. e.left \in Nat /\ e.id \in Answers
    BY <2>3, KeyOf, EntryKinds, Ages DEF Answers
  <2>6. /\ lastOwned'[n][e.id] \in Nat /\ lastOwned[n][e.id] \in Nat
        /\ lastOwned'[n][e.id] <= lastOwned[n][e.id] + 1
    BY <2>5, <1>2, <1>3, Ages
  <2> HIDE DEF e, f
  <2>7. lastOwned'[n][f.id] + f.left <= TTL + Deadline
    BY <2>3, <2>4, <2>5, <2>6, Ages
  <2>8. QED
    BY <2>7 DEF f
<1>11. ServedIsRecent' /\ NoCharacterIsCurrent'
  BY DEF Tick, ServedIsRecent, NoCharacterIsCurrent
<1>12. QED
  BY <1>7, <1>8, <1>9, <1>10, <1>11

(* Every step, and none. *)
LEMMA StepHolds == IInv /\ [Next]_vars => IInv'
<1>1. SUFFICES ASSUME IInv, [Next]_vars PROVE IInv'
  OBVIOUS
<1>2. ASSUME NEW m \in Members, Begin(m) PROVE IInv'
  BY <1>1, <1>2, AskingHolds DEF Begin
<1>3. ASSUME NEW m \in Members, Resolve(m) PROVE IInv'
  BY <1>1, <1>3, ResolveHolds
<1>4. ASSUME NEW m \in Members, NEW x \in Answers, Change(m, x) PROVE IInv'
  BY <1>1, <1>4, ChangeHolds
<1>5. ASSUME NEW k \in CacheKeys, Evict(k) PROVE IInv'
  BY <1>1, <1>5, EvictHolds
<1>6. CASE Tick
  BY <1>1, <1>6, TickHolds
<1>7. CASE UNCHANGED vars
  BY <1>1, <1>7 DEF IInv, vars, TypeOK, OwnerFresh, CallFresh, EntryFresh, ServedIsRecent,
     NoCharacterIsCurrent
<1>8. QED
  BY <1>1, <1>2, <1>3, <1>4, <1>5, <1>6, <1>7 DEF Next

--------------------------------------------------------------------------------

(* The theorems. *)

(* The invariant holds in every state the cache and its lookups can reach. *)
THEOREM CacheInvariant == Spec => []IInv
BY InitHolds, StepHolds, PTL DEF Spec

(* Type correctness: in particular nothing but an id is ever cached, and an
   entry never has more than its TTL to live. *)
THEOREM CacheTypeCorrect == Spec => []TypeOK
<1>1. IInv => TypeOK
  BY DEF IInv
<1>2. QED
  BY <1>1, CacheInvariant, PTL

(* "let deleted / renamed characters self-heal": a character id that a lookup
   returns was FFLogs' own answer for that name and server no longer ago than
   the TTL and one lookup, for any TTL and any number of lookups in between. *)
THEOREM ServedAlwaysRecent == Spec => []ServedIsRecent
<1>1. IInv => ServedIsRecent
  BY DEF IInv
<1>2. QED
  BY <1>1, CacheInvariant, PTL

(* A member is marked as having no character only on what FFLogs said during
   that very lookup, never from the cache and never for want of an answer. *)
THEOREM NoCharacterAlwaysCurrent == Spec => []NoCharacterIsCurrent
<1>1. IInv => NoCharacterIsCurrent
  BY DEF IInv
<1>2. QED
  BY <1>1, CacheInvariant, PTL

================================================================================
