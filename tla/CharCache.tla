------------------------------- MODULE CharCache -------------------------------
(* ResolveCharacterID (service/fflogs/service.go): the Redis cache in front of
   FFLogs' character lookup, while characters are created, renamed and deleted
   behind its back.

   Time is a count of ticks kept as ages: TTL stands for CharIDCacheTTL, and no
   lookup lasts longer than Deadline (PerMemberTimeout and Redis' own limits).
   A member has at most one lookup under way: the members of a scan are
   distinct and a scan waits for its workers. *)
EXTENDS Integers, FiniteSetsExt

CONSTANTS
    Members,    \* pairs <<name, server>>; the region is always "cn"
    Ids,        \* character ids, all above zero
    None,       \* no id: FFLogs answers null, the code reads 0
    Failure,    \* the lookup returned an error
    TTL,
    Deadline

ASSUME CacheAssumption ==
    /\ TTL \in Nat \ {0} /\ Deadline \in Nat \ {0}
    /\ None \notin Ids /\ Failure \notin Ids \cup {None}
    /\ \A m \in Members : m = <<m[1], m[2]>>

VARIABLES
    owner,      \* FFLogs: the id behind each member's name and server now
    lastOwned,  \* history: ticks since the id was last the answer for the member
    entry,      \* Redis: the id under each key and the ticks it has left
    call,       \* each member's lookup: its next step, what FFLogs said, its age
    served      \* the last result of each member: the id and its lastOwned then

vars == <<owner, lastOwned, entry, call, served>>

Answers == Ids \cup {None}
Oldest  == TTL + Deadline + 1      \* ages are capped here

CacheKeyByName(m) == <<"cn", m[1]>>      \* mutant: the server left out

(* charIDCacheKey: region, name and server. *)
CacheKey(m) == <<"cn", m[1], m[2]>>

CacheKeys == {CacheKey(m) : m \in Members}

NoEntry == [id |-> None, left |-> 0]
Idle    == [at |-> "idle", id |-> None, age |-> 0]

Init ==
    /\ owner \in [Members -> Answers]
    /\ lastOwned = [m \in Members |->
                     [x \in Answers |-> IF x = owner[m] THEN 0 ELSE Oldest]]
    /\ entry = [k \in CacheKeys |-> NoEntry]
    /\ call = [m \in Members |-> Idle]
    /\ served = [m \in Members |-> [id |-> Failure, age |-> 0]]

(* The lookup returns x: an id, None for no character, or Failure. *)
Answer(m, x) ==
    /\ call' = [call EXCEPT ![m] = Idle]
    /\ served' = [served EXCEPT ![m] =
                    [id |-> x, age |-> IF x = Failure THEN 0 ELSE lastOwned[m][x]]]

Begin(m) ==
    /\ call[m].at = "idle"
    /\ call' = [call EXCEPT ![m].at = "get"]
    /\ UNCHANGED <<owner, lastOwned, entry, served>>

HitExtending(m) ==                       \* mutant: a hit renews the TTL (GETEX)
    /\ call[m].at = "get"
    /\ entry[CacheKey(m)].id \in Ids
    /\ Answer(m, entry[CacheKey(m)].id)
    /\ entry' = [entry EXCEPT ![CacheKey(m)].left = TTL]
    /\ UNCHANGED <<owner, lastOwned>>

(* GET returns an id. *)
Hit(m) ==
    /\ call[m].at = "get"
    /\ entry[CacheKey(m)].id \in Ids
    /\ Answer(m, entry[CacheKey(m)].id)
    /\ UNCHANGED <<owner, lastOwned, entry>>

(* GET finds nothing. *)
Miss(m) ==
    /\ call[m].at = "get"
    /\ entry[CacheKey(m)].id = None
    /\ call' = [call EXCEPT ![m].at = "fetch"]
    /\ UNCHANGED <<owner, lastOwned, entry, served>>

RedisFailsAsNone(m) ==                   \* mutant: the error read as id 0
    /\ call[m].at = "get"
    /\ Answer(m, None)
    /\ UNCHANGED <<owner, lastOwned, entry>>

(* GET fails, whatever is cached: the lookup goes on to FFLogs. *)
RedisFails(m) ==
    /\ call[m].at = "get"
    /\ call' = [call EXCEPT ![m].at = "fetch"]
    /\ UNCHANGED <<owner, lastOwned, entry, served>>

FetchCachingNone(m) ==                   \* mutant: no return for id 0
    /\ call[m].at = "fetch"
    /\ call' = [call EXCEPT ![m].at = "set", ![m].id = owner[m]]
    /\ UNCHANGED <<owner, lastOwned, entry, served>>

(* FetchCharacterID. An answer of no character is returned and not cached. *)
Fetch(m) ==
    /\ call[m].at = "fetch"
    /\ IF owner[m] = None
       THEN Answer(m, None)
       ELSE /\ call' = [call EXCEPT ![m].at = "set", ![m].id = owner[m]]
            /\ UNCHANGED served
    /\ UNCHANGED <<owner, lastOwned, entry>>

FetchFails(m) ==
    /\ call[m].at = "fetch"
    /\ Answer(m, Failure)
    /\ UNCHANGED <<owner, lastOwned, entry>>

(* SET with the TTL. Its error is ignored. *)
Store(m) ==
    /\ call[m].at = "set"
    /\ entry' = [entry EXCEPT ![CacheKey(m)] = [id |-> call[m].id, left |-> TTL]]
    /\ Answer(m, call[m].id)
    /\ UNCHANGED <<owner, lastOwned>>

StoreFails(m) ==
    /\ call[m].at = "set"
    /\ Answer(m, call[m].id)
    /\ UNCHANGED <<owner, lastOwned, entry>>

(* FFLogs: the member's character is created, deleted or renamed, or another
   character takes the name. *)
Change(m, x) ==
    /\ owner[m] # x
    /\ owner' = [owner EXCEPT ![m] = x]
    /\ lastOwned' = [lastOwned EXCEPT ![m][x] = 0]
    /\ UNCHANGED <<entry, call, served>>

(* Redis restarts or evicts a key. *)
Evict(k) ==
    /\ entry[k] # NoEntry
    /\ entry' = [entry EXCEPT ![k] = NoEntry]
    /\ UNCHANGED <<owner, lastOwned, call, served>>

Elapse(e) == IF e.left <= 1 THEN NoEntry ELSE [e EXCEPT !.left = @ - 1]

Tick ==
    /\ \A m \in Members : call[m].at # "idle" => call[m].age < Deadline
    /\ call' = [m \in Members |->
                 IF call[m].at = "idle" THEN call[m] ELSE [call[m] EXCEPT !.age = @ + 1]]
    /\ entry' = [k \in CacheKeys |-> Elapse(entry[k])]
    /\ lastOwned' = [m \in Members |->
                      [x \in Answers |->
                         IF x = owner[m] THEN 0 ELSE Min({lastOwned[m][x] + 1, Oldest})]]
    /\ UNCHANGED <<owner, served>>

Resolve(m) == Hit(m) \/ Miss(m) \/ RedisFails(m) \/ Fetch(m) \/ FetchFails(m)
                \/ Store(m) \/ StoreFails(m)

Next ==
    \/ \E m \in Members : Begin(m)
    \/ \E m \in Members : Resolve(m)
    \/ \E m \in Members, x \in Answers : Change(m, x)
    \/ \E k \in CacheKeys : Evict(k)
    \/ Tick

Spec == Init /\ [][Next]_vars

(* Members are looked up again scan after scan, every step of a lookup ends,
   with an answer or an error, and time passes. Nothing says that Redis or
   FFLogs ever answers. *)
FairSpec ==
    /\ Spec
    /\ WF_vars(Tick)
    /\ \A m \in Members : WF_vars(Begin(m)) /\ WF_vars(Resolve(m))

--------------------------------------------------------------------------------

(* A cached id is a character's, never the 0 of a failed search, and has at
   most the TTL left. *)
TypeOK ==
    /\ owner \in [Members -> Answers]
    /\ lastOwned \in [Members -> [Answers -> 0..Oldest]]
    /\ entry \in [CacheKeys -> [id : Ids, left : 1..TTL] \cup {NoEntry}]
    /\ call \in [Members -> [at : {"idle", "get", "fetch", "set"},
                             id : Answers, age : 0..Deadline]]
    /\ served \in [Members -> [id : Answers \cup {Failure}, age : 0..Oldest]]

(* "let deleted / renamed characters self-heal" (service.go:16): an id that a
   lookup returns was FFLogs' own answer for that name and server no longer
   ago than the TTL and one lookup, however often it was served meanwhile. *)
ServedIsRecent ==
    \A m \in Members : served[m].id \in Ids => served[m].age <= TTL + Deadline

(* "No character" marks the member as synced for a day, so it is never said
   from memory or for want of an answer: FFLogs said so during this lookup. *)
NoCharacterIsCurrent ==
    \A m \in Members : served[m].id = None => served[m].age <= Deadline

(* Once FFLogs' answer for a member stays what it is, the lookups of that
   member come to return it, or an error, and nothing else any more. *)
SelfHeals ==
    \A m \in Members, x \in Answers :
        <>[](owner[m] = x) => <>[](served[m].id \in {x, Failure})
================================================================================
