-------------------------- MODULE FightMappingProofs --------------------------
(* The fights that reach memo-server are what FFLogs said of the member, for any
   report FFLogs may answer with and any job names.

   The invariant, Mapped, says what a posted fight is: the report mapped for the
   encounter of one zone in which the member is ranked, and stamped with that
   zone. The two properties are then about the operators alone. *)
EXTENDS FightMapping, FiniteSetTheorems, TLAPS

(* The fight that syncOneMember posts for the i-th zone. *)
FightOf(i) == Stamped(MapToMemo(FightDetail(Encounters[i])), InterestZones[i])

(* The invariant: what was posted is the report, mapped for a zone and stamped. *)
Mapped ==
    /\ report \in Reports
    /\ posted # NoFight =>
          \E i \in DOMAIN InterestZones :
              /\ Encounters[i] \in ranked
              /\ MapToMemo(FightDetail(Encounters[i])) # NoFight
              /\ posted = FightOf(i)

(* A zone has a best fight when the member is ranked in its encounter. *)
LEMMA ZoneIsRanked ==
    ASSUME NEW i \in DOMAIN InterestZones, Zone(i) # <<>>
    PROVE  Zone(i)[1] = Encounters[i] /\ Encounters[i] \in ranked
<1>1. i \in 1..4
  BY DEF InterestZones
<1>2. Zone(i) = Rankings(Encounters[i])
  BY <1>1 DEF Zone, BestFights, Variables
<1>3. QED
  BY <1>2 DEF Rankings

(* The detail of a fight is the report, its fights told for the encounter. *)
LEMMA DetailOf ==
    ASSUME report \in Reports, NEW encounter
    PROVE  LET detail == FightDetail(encounter)
           IN  /\ detail.actors = report.actors
               /\ detail.composition = report.composition
               /\ detail.deaths = report.deaths
               /\ DOMAIN detail.fights = DOMAIN report.fights
               /\ \A f \in DOMAIN report.fights : detail.fights[f].encounter = encounter
<1>1. report = Report(report.actors, report.fights, report.composition, report.deaths)
  BY FFLogsReports
<1>2. QED
  BY <1>1 DEF FightDetail, Report

(* What MapToMemo makes of a report that has a fight and players. *)
LEMMA MappedFight ==
    ASSUME report \in Reports, NEW encounter,
           MapToMemo(FightDetail(encounter)) # NoFight
    PROVE  LET detail == FightDetail(encounter)
               fight  == MapToMemo(detail)
           IN  /\ fight.enemy = encounter
               /\ DOMAIN fight.players = DOMAIN report.composition
               /\ \A p \in DOMAIN report.composition :
                     LET entry == report.composition[p]
                     IN  /\ fight.players[p].server =
                              Read(GroupServer(detail), entry.name, NoServer)
                         /\ fight.players[p].job = GetJobID(entry.type)
                         /\ fight.players[p].deaths = Read(GroupDeath(detail), entry.name, 0)
               /\ fight = [players |-> fight.players, zone |-> fight.zone,
                           clear |-> fight.clear, enemy |-> fight.enemy]
               /\ \A p \in DOMAIN fight.players :
                     fight.players[p] = [name   |-> fight.players[p].name,
                                         server |-> fight.players[p].server,
                                         job    |-> fight.players[p].job,
                                         level  |-> fight.players[p].level,
                                         deaths |-> fight.players[p].deaths]
<1> DEFINE detail == FightDetail(encounter)
<1>1. /\ detail.composition = report.composition
      /\ DOMAIN detail.fights = DOMAIN report.fights
      /\ \A f \in DOMAIN report.fights : detail.fights[f].encounter = encounter
  BY DetailOf
<1>2. 1 \in DOMAIN report.fights
  <2>1. detail.fights # <<>>
    BY DEF MapToMemo
  <2>2. detail.fights = [f \in DOMAIN report.fights |->
                           [encounter |-> encounter, kill |-> report.fights[f]]]
    <3>1. report = Report(report.actors, report.fights, report.composition, report.deaths)
      BY FFLogsReports
    <3>2. QED
      BY <3>1 DEF FightDetail, Report
  <2>3. report.fights \in Seq(BOOLEAN)
    BY FFLogsReports
  <2>4. report.fights # <<>>
    BY <2>1, <2>2
  <2>5. QED
    BY <2>3, <2>4
<1>3. MapToMemo(detail) =
        [players |-> [p \in DOMAIN detail.composition |->
            LET entry == detail.composition[p]
            IN [name   |-> entry.name,
                server |-> Read(GroupServer(detail), entry.name, NoServer),
                job    |-> GetJobID(entry.type),
                level  |-> 100,
                deaths |-> Read(GroupDeath(detail), entry.name, 0)]],
         zone   |-> 0,
         clear  |-> detail.fights[1].kill,
         enemy  |-> detail.fights[1].encounter]
  BY Zenon DEF MapToMemo
<1> DEFINE fight   == MapToMemo(detail)
           given(e) == [name   |-> e.name,
                        server |-> Read(GroupServer(detail), e.name, NoServer),
                        job    |-> GetJobID(e.type),
                        level  |-> 100,
                        deaths |-> Read(GroupDeath(detail), e.name, 0)]
           players  == [p \in DOMAIN report.composition |-> given(report.composition[p])]
<1>4. fight = [players |-> players, zone |-> 0,
               clear |-> detail.fights[1].kill, enemy |-> detail.fights[1].encounter]
  BY <1>1, <1>3, Zenon
<1>5. detail.fights[1].encounter = encounter
  BY <1>1, <1>2, Zenon
<1> HIDE DEF fight, players, detail
<1>6. /\ fight.players = players /\ fight.enemy = encounter
      /\ fight = [players |-> fight.players, zone |-> fight.zone,
                  clear |-> fight.clear, enemy |-> fight.enemy]
  BY <1>4, <1>5
<1>7. /\ DOMAIN players = DOMAIN report.composition
      /\ \A p \in DOMAIN report.composition : players[p] = given(report.composition[p])
  BY Zenon DEF players
<1>8. \A p \in DOMAIN report.composition :
         LET entry == report.composition[p]
         IN  /\ players[p].server = Read(GroupServer(detail), entry.name, NoServer)
             /\ players[p].job = GetJobID(entry.type)
             /\ players[p].deaths = Read(GroupDeath(detail), entry.name, 0)
             /\ players[p] = [name   |-> players[p].name,
                              server |-> players[p].server,
                              job    |-> players[p].job,
                              level  |-> players[p].level,
                              deaths |-> players[p].deaths]
  <2> TAKE p \in DOMAIN report.composition
  <2> DEFINE entry  == report.composition[p]
             server == Read(GroupServer(detail), entry.name, NoServer)
             job    == GetJobID(entry.type)
             deaths == Read(GroupDeath(detail), entry.name, 0)
  <2>1. players[p] = [name |-> entry.name, server |-> server, job |-> job,
                      level |-> 100, deaths |-> deaths]
    BY <1>7, Zenon
  <2> HIDE DEF server, job, deaths
  <2>2. /\ players[p].server = server /\ players[p].job = job /\ players[p].deaths = deaths
        /\ players[p] = [name   |-> players[p].name,
                         server |-> players[p].server,
                         job    |-> players[p].job,
                         level  |-> players[p].level,
                         deaths |-> players[p].deaths]
    BY <2>1
  <2>3. QED
    BY <2>2, Zenon DEF server, job, deaths
<1>9. QED
  BY <1>6, <1>7, <1>8, Zenon DEF fight, detail

(* Stamping a fight leaves all of it but the zone and the players' levels. *)
LEMMA StampedFight ==
    ASSUME NEW fight, NEW z,
           fight = [players |-> fight.players, zone |-> fight.zone,
                    clear |-> fight.clear, enemy |-> fight.enemy],
           \A p \in DOMAIN fight.players :
               fight.players[p] = [name   |-> fight.players[p].name,
                                   server |-> fight.players[p].server,
                                   job    |-> fight.players[p].job,
                                   level  |-> fight.players[p].level,
                                   deaths |-> fight.players[p].deaths]
    PROVE  /\ Stamped(fight, z).enemy = fight.enemy
           /\ Stamped(fight, z).zone = z.zone
           /\ DOMAIN Stamped(fight, z).players = DOMAIN fight.players
           /\ \A p \in DOMAIN fight.players :
                 /\ Stamped(fight, z).players[p].level = z.level
                 /\ Stamped(fight, z).players[p].server = fight.players[p].server
                 /\ Stamped(fight, z).players[p].job = fight.players[p].job
                 /\ Stamped(fight, z).players[p].deaths = fight.players[p].deaths
<1>1. /\ Stamped(fight, z).enemy = fight.enemy
      /\ Stamped(fight, z).zone = z.zone
      /\ Stamped(fight, z).players =
           [p \in DOMAIN fight.players |-> [fight.players[p] EXCEPT !.level = z.level]]
  BY DEF Stamped
<1>2. QED
  BY <1>1

(* GetJobID finds the job of a name, whatever its spelling, or there is none. *)
LEMMA JobOf ==
    ASSUME NEW name
    PROVE  \/ GetJobID(name) # 0 /\ JobMap[GetJobID(name)] = Lower[name]
           \/ GetJobID(name) = 0 /\ \A j \in DOMAIN JobMap : JobMap[j] # Lower[name]
<1>1. 0 \notin DOMAIN JobMap
  BY JobIDs
<1>2. CASE \E id \in DOMAIN JobMap : JobMap[id] = Lower[name]
  <2>1. GetJobID(name) = CHOOSE id \in DOMAIN JobMap : JobMap[id] = Lower[name]
    BY <1>2, Zenon DEF GetJobID
  <2>2. GetJobID(name) \in DOMAIN JobMap /\ JobMap[GetJobID(name)] = Lower[name]
    BY <1>2, <2>1, Zenon
  <2>3. QED
    BY <1>1, <2>2
<1>3. CASE ~\E id \in DOMAIN JobMap : JobMap[id] = Lower[name]
  BY <1>3, Zenon DEF GetJobID
<1>4. QED
  BY <1>2, <1>3

(* The server looked up by name is the actor's own, unless a namesake has one. *)
LEMMA ServerOf ==
    ASSUME report \in Reports, NEW encounter, NEW p \in DOMAIN report.composition
    PROVE  LET entry == report.composition[p]
           IN  \/ Read(GroupServer(FightDetail(encounter)), entry.name, NoServer)
                    = report.actors[entry.id].server
               \/ \E a \in DOMAIN report.actors :
                     /\ a # entry.id /\ report.actors[a].name = entry.name
                     /\ report.actors[a].server # NoServer
<1> DEFINE entry  == report.composition[p]
           actors == report.actors
           homed  == {a \in DOMAIN actors : actors[a].server # NoServer}
           named(n) == {a \in homed : actors[a].name = n}
           servers  == [n \in {actors[a].name : a \in homed} |-> actors[Max(named(n))].server]
<1>1. GroupServer(FightDetail(encounter)) = servers
  <2>1. FightDetail(encounter).actors = actors
    BY DetailOf
  <2>2. QED
    BY <2>1, Zenon DEF GroupServer
<1>2. entry.id \in DOMAIN actors /\ entry.name = actors[entry.id].name /\ DOMAIN actors \subseteq Nat
  BY FFLogsReports DEF Agrees
<1>3. SUFFICES ASSUME \A a \in homed : a # entry.id => actors[a].name # entry.name
               PROVE  Read(servers, entry.name, NoServer) = actors[entry.id].server
  BY <1>1
<1>4. CASE entry.id \in homed
  <2>1. named(entry.name) = {entry.id}
    BY <1>2, <1>3, <1>4
  <2>2. Max({entry.id}) = entry.id
    BY <1>2 DEF Max
  <2>3. entry.name \in DOMAIN servers
    BY <1>2, <1>4
  <2>4. servers[entry.name] = actors[Max(named(entry.name))].server
    BY <2>3
  <2>5. QED
    BY <2>1, <2>2, <2>3, <2>4, Zenon DEF Read
<1>5. CASE entry.id \notin homed
  <2>1. entry.name \notin DOMAIN servers
    BY <1>3, <1>5
  <2>2. actors[entry.id].server = NoServer
    BY <1>2, <1>5
  <2>3. QED
    BY <2>1, <2>2, Zenon DEF Read
<1>6. QED
  BY <1>4, <1>5

(* So are the deaths, unless a namesake died. *)
LEMMA DeathsOf ==
    ASSUME report \in Reports, NEW encounter, NEW p \in DOMAIN report.composition
    PROVE  LET entry == report.composition[p]
               Died(a) == {d \in DOMAIN report.deaths : report.deaths[d].id = a}
           IN  \/ Read(GroupDeath(FightDetail(encounter)), entry.name, 0)
                    = Cardinality(Died(entry.id))
               \/ \E a \in DOMAIN report.actors :
                     (a # entry.id /\ report.actors[a].name = entry.name) /\ Died(a) # {}
<1> DEFINE entry   == report.composition[p]
           deaths  == report.deaths
           Died(a) == {d \in DOMAIN deaths : deaths[d].id = a}
           ofName(n) == {d \in DOMAIN deaths : deaths[d].name = n}
           counts  == [n \in {deaths[d].name : d \in DOMAIN deaths} |-> Cardinality(ofName(n))]
<1>1. GroupDeath(FightDetail(encounter)) = counts
  <2>1. FightDetail(encounter).deaths = deaths
    BY DetailOf
  <2>2. QED
    BY <2>1, Zenon DEF GroupDeath
<1>2. /\ entry.id \in DOMAIN report.actors /\ entry.name = report.actors[entry.id].name
      /\ \A d \in DOMAIN deaths : /\ deaths[d].id \in DOMAIN report.actors
                                  /\ deaths[d].name = report.actors[deaths[d].id].name
  BY FFLogsReports DEF Agrees
<1>3. SUFFICES ASSUME \A a \in DOMAIN report.actors :
                         a # entry.id /\ report.actors[a].name = entry.name => Died(a) = {}
               PROVE  Read(counts, entry.name, 0) = Cardinality(Died(entry.id))
  BY <1>1
<1>4. ofName(entry.name) = Died(entry.id)
  BY <1>2, <1>3
<1>5. CASE entry.name \in DOMAIN counts
  <2>1. counts[entry.name] = Cardinality(ofName(entry.name))
    BY <1>5
  <2>2. QED
    BY <1>4, <1>5, <2>1, Zenon DEF Read
<1>6. CASE entry.name \notin DOMAIN counts
  <2>1. ofName(entry.name) = {}
    BY <1>6
  <2>2. Cardinality({}) = 0
    BY FS_EmptySet
  <2>3. QED
    BY <1>4, <1>6, <2>1, <2>2, Zenon DEF Read
<1>7. QED
  BY <1>5, <1>6

--------------------------------------------------------------------------------
(* The invariant: what was posted is the report, mapped and stamped. *)

(* Nothing is posted at the start; only Post posts, and what it posts is mapped
   from the encounter of the zone it is in. *)
THEOREM MappedAlways == Spec => []Mapped
<1>1. Init => Mapped
  BY DEF Init, Mapped
<1>2. Mapped /\ [Next]_vars => Mapped'
  <2> SUFFICES ASSUME Mapped, [Next]_vars
               PROVE  Mapped'
    OBVIOUS
  <2>1. CASE posted' = NoFight /\ report' = report
    BY <2>1, Zenon DEF Mapped
  <2>2. CASE Post
    <3>1. /\ zone \in DOMAIN InterestZones
          /\ Zone(zone) # <<>>
          /\ MapToMemo(FightDetail(Zone(zone)[1])) # NoFight
          /\ posted' = Stamped(MapToMemo(FightDetail(Zone(zone)[1])), InterestZones[zone])
          /\ report' = report /\ ranked' = ranked
      BY <2>2, Zenon DEF Post, Advance
    <3>2. Zone(zone)[1] = Encounters[zone] /\ Encounters[zone] \in ranked
      BY <3>1, ZoneIsRanked
    <3>3. \A e : FightDetail(e)' = FightDetail(e)
      BY <3>1, Zenon DEF FightDetail
    <3>4. \E i \in DOMAIN InterestZones :
              /\ Encounters[i] \in ranked'
              /\ MapToMemo(FightDetail(Encounters[i])') # NoFight
              /\ posted' = Stamped(MapToMemo(FightDetail(Encounters[i])'), InterestZones[i])
      BY <3>1, <3>2, <3>3, Zenon
    <3>5. report' \in Reports
      BY <3>1 DEF Mapped
    <3>6. QED
      BY <3>4, <3>5, Zenon DEF Mapped, FightOf
  <2>3. CASE UNCHANGED vars
    <3>1. report' = report /\ ranked' = ranked /\ posted' = posted
      BY <2>3, Zenon DEF vars
    <3>2. QED
      BY <3>1, Zenon DEF Mapped, FightOf, FightDetail
  <2>4. QED
    BY <2>1, <2>2, <2>3, Zenon DEF Next, SkipZone, SkipReport, Fail, Advance
<1>3. QED
  BY <1>1, <1>2, PTL DEF Spec

--------------------------------------------------------------------------------
(* The two properties of the run, from what was posted. *)

(* What a posted fight has of the mapped one, and of the zone. *)
LEMMA PostedFight ==
    ASSUME Mapped, posted # NoFight
    PROVE  \E i \in DOMAIN InterestZones :
              LET detail == FightDetail(Encounters[i])
              IN  /\ Encounters[i] \in ranked
                  /\ posted.enemy = Encounters[i]
                  /\ posted.zone = InterestZones[i].zone
                  /\ DOMAIN posted.players = DOMAIN report.composition
                  /\ \A p \in DOMAIN report.composition :
                        LET entry  == report.composition[p]
                            player == posted.players[p]
                        IN  /\ player.level = InterestZones[i].level
                            /\ player.server =
                                 Read(GroupServer(detail), entry.name, NoServer)
                            /\ player.job = GetJobID(entry.type)
                            /\ player.deaths = Read(GroupDeath(detail), entry.name, 0)
<1>1. PICK i \in DOMAIN InterestZones :
          /\ Encounters[i] \in ranked
          /\ MapToMemo(FightDetail(Encounters[i])) # NoFight
          /\ posted = FightOf(i)
  BY DEF Mapped
<1> DEFINE fight == MapToMemo(FightDetail(Encounters[i]))
<1>2. report \in Reports
  BY DEF Mapped
<1>3. /\ fight.enemy = Encounters[i]
      /\ DOMAIN fight.players = DOMAIN report.composition
      /\ \A p \in DOMAIN report.composition :
            LET entry == report.composition[p]
            IN  /\ fight.players[p].server =
                     Read(GroupServer(FightDetail(Encounters[i])), entry.name, NoServer)
                /\ fight.players[p].job = GetJobID(entry.type)
                /\ fight.players[p].deaths =
                     Read(GroupDeath(FightDetail(Encounters[i])), entry.name, 0)
  BY <1>1, <1>2, MappedFight, Zenon
<1>4. /\ fight = [players |-> fight.players, zone |-> fight.zone,
                  clear |-> fight.clear, enemy |-> fight.enemy]
      /\ \A p \in DOMAIN fight.players :
            fight.players[p] = [name   |-> fight.players[p].name,
                                server |-> fight.players[p].server,
                                job    |-> fight.players[p].job,
                                level  |-> fight.players[p].level,
                                deaths |-> fight.players[p].deaths]
  BY <1>1, <1>2, MappedFight, Zenon
<1>5. posted = Stamped(fight, InterestZones[i])
  BY <1>1 DEF FightOf
<1> HIDE DEF fight
<1>6. /\ posted.enemy = fight.enemy
      /\ posted.zone = InterestZones[i].zone
      /\ DOMAIN posted.players = DOMAIN fight.players
      /\ \A p \in DOMAIN fight.players :
            /\ posted.players[p].level = InterestZones[i].level
            /\ posted.players[p].server = fight.players[p].server
            /\ posted.players[p].job = fight.players[p].job
            /\ posted.players[p].deaths = fight.players[p].deaths
  <2> DEFINE z == InterestZones[i]
  <2> HIDE DEF z
  <2>1. /\ Stamped(fight, z).enemy = fight.enemy
        /\ Stamped(fight, z).zone = z.zone
        /\ DOMAIN Stamped(fight, z).players = DOMAIN fight.players
        /\ \A p \in DOMAIN fight.players :
              /\ Stamped(fight, z).players[p].level = z.level
              /\ Stamped(fight, z).players[p].server = fight.players[p].server
              /\ Stamped(fight, z).players[p].job = fight.players[p].job
              /\ Stamped(fight, z).players[p].deaths = fight.players[p].deaths
    BY <1>4, StampedFight
  <2>2. posted = Stamped(fight, z)
    BY <1>5 DEF z
  <2>3. QED
    BY <2>1, <2>2, Zenon DEF z
<1>7. QED
  BY <1>1, <1>3, <1>6, Zenon

(* PlayersAreThemselves: a posted player's server, deaths and job are its own,
   unless another actor of its name has a server or died. *)
THEOREM PlayersAlwaysThemselves == Spec => []PlayersAreThemselves
<1>1. Mapped => PlayersAreThemselves
  <2> SUFFICES ASSUME Mapped, posted # NoFight, NEW p \in DOMAIN posted.players
               PROVE  LET player == posted.players[p]
                          entry  == report.composition[p]
                          Namesake(a) == a # entry.id /\ report.actors[a].name = entry.name
                          Died(a) == {d \in DOMAIN report.deaths : report.deaths[d].id = a}
                      IN /\ \/ player.server = report.actors[entry.id].server
                            \/ \E a \in DOMAIN report.actors :
                                  Namesake(a) /\ report.actors[a].server # NoServer
                         /\ \/ player.deaths = Cardinality(Died(entry.id))
                            \/ \E a \in DOMAIN report.actors : Namesake(a) /\ Died(a) # {}
                         /\ \/ player.job # 0 /\ JobMap[player.job] = Lower[entry.type]
                            \/ player.job = 0 /\ \A j \in DOMAIN JobMap :
                                                   JobMap[j] # Lower[entry.type]
    BY Zenon DEF PlayersAreThemselves
  <2> DEFINE entry  == report.composition[p]
             player == posted.players[p]
             Namesake(a) == a # entry.id /\ report.actors[a].name = entry.name
             Died(a) == {d \in DOMAIN report.deaths : report.deaths[d].id = a}
  <2>1. PICK i \in DOMAIN InterestZones :
            /\ p \in DOMAIN report.composition
            /\ player.server =
                 Read(GroupServer(FightDetail(Encounters[i])), entry.name, NoServer)
            /\ player.job = GetJobID(entry.type)
            /\ player.deaths = Read(GroupDeath(FightDetail(Encounters[i])), entry.name, 0)
    BY PostedFight, Zenon
  <2>2. report \in Reports
    BY DEF Mapped
  <2>3. \/ player.server = report.actors[entry.id].server
        \/ \E a \in DOMAIN report.actors :
              Namesake(a) /\ report.actors[a].server # NoServer
    BY <2>1, <2>2, ServerOf, Zenon
  <2>4. \/ player.deaths = Cardinality(Died(entry.id))
        \/ \E a \in DOMAIN report.actors : Namesake(a) /\ Died(a) # {}
    BY <2>1, <2>2, DeathsOf, Zenon
  <2>5. \/ player.job # 0 /\ JobMap[player.job] = Lower[entry.type]
        \/ player.job = 0 /\ \A j \in DOMAIN JobMap : JobMap[j] # Lower[entry.type]
    BY <2>1, JobOf, Zenon
  <2>6. QED
    BY <2>3, <2>4, <2>5, Zenon
<1>2. QED
  BY <1>1, MappedAlways, PTL

(* ZoneFitsEncounter: a fight is posted under the zone of the encounter it was
   fought in, at that zone's level, and the member is ranked in it. *)
THEOREM ZoneAlwaysFits == Spec => []ZoneFitsEncounter
<1>1. Mapped => ZoneFitsEncounter
  <2> SUFFICES ASSUME Mapped, posted # NoFight
               PROVE  /\ posted.enemy \in ranked
                      /\ \E i \in DOMAIN InterestZones :
                            /\ InterestZones[i].logs = posted.enemy
                            /\ InterestZones[i].zone = posted.zone
                            /\ \A p \in DOMAIN posted.players :
                                  posted.players[p].level = InterestZones[i].level
    BY Zenon DEF ZoneFitsEncounter
  <2>1. PICK i \in DOMAIN InterestZones :
            /\ Encounters[i] \in ranked
            /\ posted.enemy = Encounters[i]
            /\ posted.zone = InterestZones[i].zone
            /\ DOMAIN posted.players = DOMAIN report.composition
            /\ \A p \in DOMAIN report.composition :
                  posted.players[p].level = InterestZones[i].level
    BY PostedFight, Zenon
  <2>2. Encounters[i] = InterestZones[i].logs
    BY Zenon DEF Encounters
  <2>3. QED
    BY <2>1, <2>2, Zenon
<1>2. QED
  BY <1>1, MappedAlways, PTL
===============================================================================
