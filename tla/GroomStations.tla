---------------------------- MODULE GroomStations ----------------------------
(***************************************************************************)
(* What the grooming business of Assignment_3/B promises about its         *)
(* stations, whatever the species of the pets: a facility opens with some  *)
(* number of stations, a pet that came in is given a station only when one *)
(* is free, a groomed pet leaves, and the facility closes only when no pet *)
(* is in a station.  PetGroom is shown to implement this specification.    *)
(***************************************************************************)
EXTENDS Naturals, FiniteSets

CONSTANTS Pets,          \* the threads that bring a pet
          StationCounts  \* the numbers of stations a facility may open with

VARIABLES stations,      \* the stations of the open facility, 0 when closed
          inStation      \* the pets being groomed

vars == <<stations, inStation>>

Init == stations = 0 /\ inStation = {}

Open == /\ stations = 0
        /\ stations' \in StationCounts
        /\ UNCHANGED inStation

Enter(p) == /\ p \notin inStation
            /\ Cardinality(inStation) < stations
            /\ inStation' = inStation \cup {p}
            /\ UNCHANGED stations

Leave(p) == /\ p \in inStation
            /\ inStation' = inStation \ {p}
            /\ UNCHANGED stations

Close == /\ stations # 0
         /\ inStation = {}
         /\ stations' = 0
         /\ UNCHANGED inStation

Next == Open \/ Close \/ \E p \in Pets : Enter(p) \/ Leave(p)

Spec == Init /\ [][Next]_vars
==============================================================================
