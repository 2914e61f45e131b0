----------------------------- MODULE FightMapping -----------------------------
(* How FFLogs' answers about a member become the fights sent to memo-server:
   BuildMemberZoneProgress and MapToMemo (service/fflogs/service.go), GetJobID
   (util/job.go) and the loop over InterestZones in syncOneMember
   (service/memo/service.go).

   FFLogs' data is chosen once, at the start: for which of the four encounters
   the member is ranked, and what the report looks like. *)
EXTENDS Integers, Sequences, FiniteSetsExt

CONSTANTS
    Reports,    \* the reports FFLogs may answer with, see Report
    JobMap,     \* the game's jobs: the lower-case name of each id but 0
    Lower,      \* strings.ToLower, on the job names in use
    NoServer,   \* an actor without a server
    NoFight     \* a nil *model.Fight

VARIABLES
    report,     \* what FetchFightDetail answers, but for the encounter
    ranked,     \* the encounters in which the member has a rank
    zone,       \* position of the loop over InterestZones, 5 when it is over
    posted      \* the fight the last step sent to memo-server, or NoFight

vars == <<report, ranked, zone, posted>>

--------------------------------------------------------------------------------
(* FFLogs' side. *)

(* Actors are the players of the whole report, the composition and the deaths
   those of the fight; both name their actor by id and by name. *)
Report(actors, fights, composition, deaths) ==
    [actors |-> actors, fights |-> fights,
     composition |-> composition, deaths |-> deaths]

(* What an entry of the composition or the deaths says of its actor is so. *)
Agrees(r, entry) ==
    entry.id \in DOMAIN r.actors /\ entry.name = r.actors[entry.id].name

ASSUME FFLogsReports ==
    \A r \in Reports :
        /\ r = Report(r.actors, r.fights, r.composition, r.deaths)
        /\ DOMAIN r.actors \subseteq Nat
        /\ r.fights \in Seq(BOOLEAN)
        /\ \A p \in DOMAIN r.composition : Agrees(r, r.composition[p])
        /\ \A d \in DOMAIN r.deaths : Agrees(r, r.deaths[d])

(* fight_detail.graphql asks for one fight, that of the rank. *)
FightDetail(encounter) ==
    [report EXCEPT !.fights = [f \in DOMAIN @ |-> [encounter |-> encounter, kill |-> @[f]]]]

--------------------------------------------------------------------------------

InterestZones == << [logs |-> 101, zone |-> 1321, level |-> 100],
                    [logs |-> 102, zone |-> 1323, level |-> 100],
                    [logs |-> 103, zone |-> 1325, level |-> 100],
                    [logs |-> 105, zone |-> 1327, level |-> 100] >>

ASSUME JobIDs == 0 \notin DOMAIN JobMap

(* Job 0 is "none"; it also stands for a name that is no job's. *)
GetJobID(name) ==
    IF \E id \in DOMAIN JobMap : JobMap[id] = Lower[name]
    THEN CHOOSE id \in DOMAIN JobMap : JobMap[id] = Lower[name]
    ELSE 0

(* Reading a Go map: a missing key reads as the zero value. *)
Read(map, key, zero) == IF key \in DOMAIN map THEN map[key] ELSE zero

GroupServerOfAll(detail) ==              \* mutant: no check for a nil server
    LET actors == detail.actors
    IN [n \in {actors[a].name : a \in DOMAIN actors} |->
         actors[Max({a \in DOMAIN actors : actors[a].name = n})].server]

(* The last actor of a name that has a server gives the name its server. *)
GroupServer(detail) ==
    LET actors == detail.actors
        homed  == {a \in DOMAIN actors : actors[a].server # NoServer}
    IN [n \in {actors[a].name : a \in homed} |->
         actors[Max({a \in homed : actors[a].name = n})].server]

GroupDeath(detail) ==
    LET deaths == detail.deaths
    IN [n \in {deaths[d].name : d \in DOMAIN deaths} |->
         Cardinality({d \in DOMAIN deaths : deaths[d].name = n})]

(* StartTime and Duration, which nothing else depends on, are left out, and so
   is EnemyHp, which is 0 in a clear and the boss's percentage otherwise. *)
MapToMemo(detail) ==
    IF detail.fights = <<>> \/ detail.composition = <<>> THEN NoFight
    ELSE [players |-> [p \in DOMAIN detail.composition |->
             LET entry == detail.composition[p]
             IN [name   |-> entry.name,
                 server |-> Read(GroupServer(detail), entry.name, NoServer),
                 job    |-> GetJobID(entry.type),
                 level  |-> 100,
                 deaths |-> Read(GroupDeath(detail), entry.name, 0)]],
          zone   |-> 0,
          clear  |-> detail.fights[1].kill,
          enemy  |-> detail.fights[1].encounter]

Encounters == [i \in DOMAIN InterestZones |-> InterestZones[i].logs]

(* The variables FetchBestFights passes with the query. *)
Variables == [enc1 |-> Encounters[1], enc2 |-> Encounters[2],
              enc3 |-> Encounters[3], enc4 |-> Encounters[4]]

(* FFLogs' encounterRankings. *)
Rankings(encounter) == IF encounter \in ranked THEN <<encounter>> ELSE <<>>

BestFightsCopied ==                      \* mutant: a line of the query is copied
    [m1 |-> Rankings(Variables.enc1), m2 |-> Rankings(Variables.enc2),
     m3 |-> Rankings(Variables.enc3), m4 |-> Rankings(Variables.enc3)]

(* The query asks for each encounter under an alias of its own. *)
BestFights ==
    [m1 |-> Rankings(Variables.enc1), m2 |-> Rankings(Variables.enc2),
     m3 |-> Rankings(Variables.enc3), m4 |-> Rankings(Variables.enc4)]

(* The alias at a position, counted from 1 here. *)
Zone(i) ==
    CASE i = 1 -> BestFights.m1 [] i = 2 -> BestFights.m2
      [] i = 3 -> BestFights.m3 [] i = 4 -> BestFights.m4

(* syncOneMember stamps the zone and the level on what MapToMemo returns. *)
Stamped(fight, z) ==
    [fight EXCEPT !.zone = z.zone,
                  !.players = [p \in DOMAIN @ |-> [@[p] EXCEPT !.level = z.level]]]

--------------------------------------------------------------------------------

Init ==
    /\ report \in Reports
    /\ ranked \in SUBSET {Encounters[i] : i \in DOMAIN Encounters}
    /\ zone = 1
    /\ posted = NoFight

Advance == zone' = zone + 1 /\ UNCHANGED <<report, ranked>>

(* No rank in the zone. *)
SkipZone ==
    /\ zone \in DOMAIN InterestZones
    /\ Zone(zone) = <<>>
    /\ posted' = NoFight
    /\ Advance

(* ErrNoProgress: the report is deleted or only partly indexed. *)
SkipReport ==
    /\ zone \in DOMAIN InterestZones
    /\ Zone(zone) # <<>>
    /\ MapToMemo(FightDetail(Zone(zone)[1])) = NoFight
    /\ posted' = NoFight
    /\ Advance

Post ==
    /\ zone \in DOMAIN InterestZones
    /\ Zone(zone) # <<>>
    /\ LET fight == MapToMemo(FightDetail(Zone(zone)[1]))
       IN /\ fight # NoFight
          /\ posted' = Stamped(fight, InterestZones[zone])
    /\ Advance

(* FetchFightDetail fails: the member is given up. *)
Fail ==
    /\ zone \in DOMAIN InterestZones
    /\ Zone(zone) # <<>>
    /\ zone' = 5 /\ posted' = NoFight
    /\ UNCHANGED <<report, ranked>>

Next == SkipZone \/ SkipReport \/ Post \/ Fail

Spec == Init /\ [][Next]_vars

--------------------------------------------------------------------------------

(* Composition and deaths carry the actor's id, the code looks both up by name
   (service.go:106-108). What a posted player is told about its server and its
   deaths is nevertheless its own, unless another actor of the report that has
   a server, or that died in the fight, bears the same name. Its job is the one
   FFLogs names, however it spells it, or 0 when the game has no such job. *)
PlayersAreThemselves ==
    posted # NoFight =>
        \A p \in DOMAIN posted.players :
            LET player == posted.players[p]
                entry  == report.composition[p]
                Namesake(a) == a # entry.id /\ report.actors[a].name = entry.name
                Died(a)     == {d \in DOMAIN report.deaths : report.deaths[d].id = a}
            IN /\ \/ player.server = report.actors[entry.id].server
                  \/ \E a \in DOMAIN report.actors :
                        Namesake(a) /\ report.actors[a].server # NoServer
               /\ \/ player.deaths = Cardinality(Died(entry.id))
                  \/ \E a \in DOMAIN report.actors : Namesake(a) /\ Died(a) # {}
               /\ \/ player.job # 0 /\ JobMap[player.job] = Lower[entry.type]
                  \/ player.job = 0 /\ \A j \in DOMAIN JobMap : JobMap[j] # Lower[entry.type]

(* "order of the encounter IDs matches BestFights.Zone(i)" (fetch.go:19): a
   fight is sent under the zone whose encounter it was fought in, in which the
   member is ranked, and at the level memo-server expects there (zones.go:5). *)
ZoneFitsEncounter ==
    posted # NoFight =>
        /\ posted.enemy \in ranked
        /\ \E i \in DOMAIN InterestZones :
              /\ InterestZones[i].logs = posted.enemy
              /\ InterestZones[i].zone = posted.zone
              /\ \A p \in DOMAIN posted.players :
                    posted.players[p].level = InterestZones[i].level
================================================================================
