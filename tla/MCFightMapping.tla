---------------------------- MODULE MCFightMapping -----------------------------
(* Reports of three players, of whom two or all may bear one name and any may
   lack a server, and of fights in which up to two of them took part. *)
EXTENDS FightMapping

CONSTANTS anna, bert, here, there

Spellings == [t \in {"WhiteMage", "Paladin", "LimitBreak"} |->
                CASE t = "WhiteMage" -> "whitemage"
                  [] t = "Paladin"   -> "paladin"
                  [] OTHER           -> "limitbreak"]

Jobs == [j \in {19, 24} |-> IF j = 19 THEN "paladin" ELSE "whitemage"]

Types == <<"WhiteMage", "Paladin", "LimitBreak">>

Actors == {q \in [1..3 -> [name : {anna, bert}, server : {here, there, NoServer}]] :
             q[1].name = anna}

Entry(actors, a) == [id |-> a, name |-> actors[a].name, type |-> Types[a]]
Event(actors, a) == [id |-> a, name |-> actors[a].name]

Orders(ids) == {q \in UNION {[1..n -> ids] : n \in 0..2} :
                  \A i, j \in DOMAIN q : i # j => q[i] # q[j]}

Answer(actors, present, dead, fights) ==
    Report(actors, fights, [i \in DOMAIN present |-> Entry(actors, present[i])],
           [i \in DOMAIN dead |-> Event(actors, dead[i])])

(* Up to two of those present die, or there is no fight at all. *)
SmallReports ==
    UNION {UNION {
        {Answer(actors, present, dead, <<TRUE>>) :
            dead \in UNION {[1..n -> {present[i] : i \in DOMAIN present}] : n \in 0..2}}
          \cup {Answer(actors, present, <<>>, <<>>)} :
        present \in Orders(DOMAIN actors)} : actors \in Actors}
================================================================================
