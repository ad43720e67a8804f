--------------------------- MODULE PetGroomProofs ----------------------------
(***************************************************************************)
(* Proofs about the monitor of PetGroom, for every set of pets, every      *)
(* number of stations and every MAX_BLOCKS.                                *)
(*                                                                         *)
(* The safety properties rest on one inductive invariant, IInv.  The calls *)
(* newpet() makes of its gates all end in one of two ways, a wait or an    *)
(* admission; the lemma GateOutcome says so, and most steps of the proofs  *)
(* reason about Move instead of about Newpet and Resume.                   *)
(***************************************************************************)
EXTENDS PetGroom, FiniteSetTheorems, TLAPS

(* Woken threads that are on their way to an empty bed. *)
Heading == {p \in woken : at[p] = "emptyBeds"}

(* Between petgroom_done() and petgroom_init() nobody is inside.            *)
Closed == IF beenInitialized THEN totalStations # 0
          ELSE totalStations = 0 /\ \A p \in Pets : at[p] = "idle"

(* The stations in use are those of the groomed pets.                       *)
StationsInUse == openStations + Cardinality(Groomed) = totalStations

(* In an ample facility no thread ever waits for a bed.                     *)
NoBedWaitWhenAmple ==
    Cardinality(Pets) <= totalStations => \A p \in Pets : at[p] # "emptyBeds"

(* Dogs wait for the cats to clear, and cats for the dogs.                  *)
WaitsForTheOther ==
    \A p \in Pets : /\ at[p] = "noCats" => kind[p] = "dog"
                    /\ at[p] = "noDogs" => kind[p] = "cat"

Accounting == StationAccounting /\ StationsInUse

Separation == WaitsForTheOther /\ NoBedWaitWhenAmple /\ ExclusionWhenAmple

IInv == /\ TypeOK
        /\ Closed
        /\ Accounting
        /\ AttemptsOnlyWhileOccupied
        /\ NoLostBed
        /\ Separation

(* What newpet() does to everything but blockedAttempts, from its call or   *)
(* from a return of pthread_cond_wait(): the thread sleeps, or it is given  *)
(* a station.                                                               *)
Move(p, k) ==
    /\ beenInitialized
    /\ at[p] = "idle" \/ p \in woken
    /\ kind' = [kind EXCEPT ![p] = k]
    /\ blockedAttempts' \in Nat
    /\ UNCHANGED <<totalStations, beenInitialized>>
    /\ \/ \E c \in Conditions : /\ c = "emptyBeds" => openStations <= 0
                                /\ at[p] = "emptyBeds" => c = "emptyBeds"
                                /\ Wait(p, c)
       \/ openStations > 0 /\ Admit(p, k)
------------------------------------------------------------------------------
LEMMA GateOutcome ==
    ASSUME TypeOK, Closed, NEW p \in Pets,
           (\E k \in pet_t : Newpet(p, k)) \/ Resume(p)
    PROVE  \E k \in pet_t : Move(p, k)
<1>1. ASSUME NEW k \in pet_t, NEW b \in Nat, TypeGate(p, k, b),
             at[p] # "emptyBeds"
      PROVE  /\ blockedAttempts' \in Nat
             /\ \/ \E c \in Conditions : /\ c = "emptyBeds" => openStations <= 0
                                         /\ Wait(p, c)
                \/ openStations > 0 /\ Admit(p, k)
  BY <1>1 DEF TypeGate, BedGate, Conditions
<1>2. CASE \E k \in pet_t : Newpet(p, k)
  <2>1. PICK k \in pet_t : Newpet(p, k)
    BY <1>2
  <2>2. CASE k = "other" /\ BedGate(p, k) /\ UNCHANGED blockedAttempts
    BY <2>1, <2>2 DEF Newpet, Move, BedGate, Conditions, TypeOK
  <2>3. CASE Wait(p, "tooManyAttempts") /\ UNCHANGED blockedAttempts
    BY <2>1, <2>3 DEF Newpet, Move, Conditions, TypeOK
  <2>4. CASE TypeGate(p, k, blockedAttempts)
    BY <1>1, <2>1, <2>4 DEF Newpet, Move, TypeOK
  <2> QED BY <2>1, <2>2, <2>3, <2>4 DEF Newpet
<1>3. CASE Resume(p)
  <2>1. beenInitialized
    BY <1>3 DEF Resume, Closed, TypeOK, Conditions
  <2>2. kind[p] \in pet_t /\ kind' = [kind EXCEPT ![p] = kind[p]]
    BY <1>3 DEF Resume, TypeOK
  <2>3. CASE TypeGate(p, kind[p], 0) /\ at[p] # "emptyBeds"
    BY <1>1, <1>3, <2>1, <2>2, <2>3 DEF Resume, Move
  <2>4. CASE \/ BedGate(p, kind[p]) /\ UNCHANGED blockedAttempts
             \/ \E c \in {"noCats", "noDogs"} :
                   Wait(p, c) /\ at[p] = c /\ UNCHANGED blockedAttempts
    BY <1>3, <2>1, <2>2, <2>4 DEF Resume, Move, BedGate, Conditions, TypeOK
  <2>5. QED BY <1>3, <2>2, <2>3, <2>4 DEF Resume
<1>4. QED BY <1>2, <1>3

LEMMA FiniteSubsets ==
    ASSUME NEW S \in SUBSET Pets
    PROVE  IsFiniteSet(S) /\ Cardinality(S) \in Nat
BY PetGroomAssumption, FS_Subset, FS_CardinalityType

(* What a signal wakes was asleep, and one signal of a condition variable   *)
(* with a waiter wakes one thread.                                          *)
LEMMA SignalledFacts ==
    ASSUME NEW c, NEW n \in Nat, NEW S \in Signalled(c, n)
    PROVE  /\ S \subseteq Waiting(c)
           /\ n = 1 /\ Waiting(c) # {} => Cardinality(S) = 1
<1>1. Waiting(c) \in SUBSET Pets  BY DEF Waiting
<1>2. IsFiniteSet(Waiting(c)) /\ Cardinality(Waiting(c)) \in Nat
  BY <1>1, FiniteSubsets
<1>3. Waiting(c) # {} => Cardinality(Waiting(c)) # 0
  BY <1>2, FS_EmptySet
<1> QED BY <1>2, <1>3 DEF Signalled

(* Each signal only moves sleeping threads to woken, and the reset of       *)
(* blockedAttempts is the only other effect.                                *)
LEMMA NotifyFacts ==
    ASSUME TypeOK, catCount' \in Nat, dogCount' \in Nat, Notify
    PROVE  /\ woken \subseteq woken'
           /\ woken' \subseteq {p \in Pets : at[p] \in Conditions}
           /\ blockedAttempts' \in {0, blockedAttempts}
           /\ catCount' = 0 /\ dogCount' = 0 => blockedAttempts' <= MAX_BLOCKS
           /\ Waiting("emptyBeds") # {} =>
                \E b \in woken' \ woken : at[b] = "emptyBeds"
<1> DEFINE clear == catCount' = 0 /\ dogCount' = 0
           tooMany == clear /\ blockedAttempts > MAX_BLOCKS
           cats == IF clear THEN 2 ELSE IF catCount' = 0 THEN 1 ELSE 0
           dogs == IF dogCount' = 0 THEN 1 ELSE 0
<1>1. PICK beds \in Signalled("emptyBeds", 1),
           forCats \in Signalled("noCats", cats),
           forDogs \in Signalled("noDogs", dogs) :
         /\ woken' = woken \cup beds \cup forCats \cup forDogs
                      \cup (IF tooMany THEN Waiting("tooManyAttempts") ELSE {})
         /\ blockedAttempts' = IF tooMany THEN 0 ELSE blockedAttempts
  BY DEF Notify
<1>2. /\ beds \subseteq Waiting("emptyBeds")
      /\ forCats \subseteq Waiting("noCats")
      /\ forDogs \subseteq Waiting("noDogs")
  BY SignalledFacts DEF Signalled
<1>3. \A c \in Conditions : Waiting(c) \subseteq {p \in Pets : at[p] \in Conditions}
  BY DEF Waiting
<1>4. woken \subseteq woken' /\ woken' \subseteq {p \in Pets : at[p] \in Conditions}
  BY <1>1, <1>2, <1>3 DEF TypeOK, Conditions
<1>5. /\ blockedAttempts' \in {0, blockedAttempts}
      /\ clear => blockedAttempts' <= MAX_BLOCKS
  BY <1>1, PetGroomAssumption DEF TypeOK
<1>6. ASSUME Waiting("emptyBeds") # {}
      PROVE  \E b \in woken' \ woken : at[b] = "emptyBeds"
  <2>1. Cardinality(beds) = 1
    BY <1>6, SignalledFacts
  <2>2. beds # {}
    BY <2>1, FS_EmptySet
  <2> QED BY <1>1, <1>2, <2>2 DEF Waiting
<1> QED BY <1>4, <1>5, <1>6
------------------------------------------------------------------------------
LEMMA TypeInit == Init => TypeOK /\ Closed
<1> SUFFICES ASSUME Init PROVE TypeOK /\ Closed
  OBVIOUS
<1>1. ~beenInitialized /\ beenInitialized \in BOOLEAN
  BY DEF Init
<1>2. TypeOK
  BY <1>1 DEF Init, TypeOK, Conditions, Places, pet_t
<1>3. Closed
  BY <1>1 DEF Init, Closed
<1>4. QED BY <1>2, <1>3

LEMMA TypeStep ==
    ASSUME TypeOK, Closed, [Next]_vars
    PROVE  TypeOK' /\ Closed'
<1> USE DEF TypeOK, Closed, Conditions, Places, pet_t, counters
<1>1. ASSUME NEW n \in StationCounts, PetgroomInit(n)
      PROVE  TypeOK' /\ Closed'
  BY <1>1, PetGroomAssumption DEF PetgroomInit
<1>2. CASE PetgroomDone
  BY <1>2 DEF PetgroomDone
<1>3. ASSUME NEW p \in Pets, NEW k \in pet_t, Move(p, k)
      PROVE  TypeOK' /\ Closed'
  <2>1. CASE \E c \in Conditions : Wait(p, c)
    BY <1>3, <2>1 DEF Move, Wait
  <2>2. CASE openStations > 0 /\ Admit(p, k)
    <3>1. openStations' \in Nat
      BY <2>2 DEF Admit
    <3>2. catCount' \in Nat /\ dogCount' \in Nat /\ otherCount' \in Nat
      BY <2>2 DEF Admit
    <3>3. QED BY <1>3, <2>2, <3>1, <3>2 DEF Move, Admit
  <2>3. QED BY <1>3, <2>1, <2>2 DEF Move
<1>4. ASSUME NEW p \in Pets, Petdone(p)
      PROVE  TypeOK' /\ Closed'
  <2>1. /\ catCount' \in Nat /\ dogCount' \in Nat /\ otherCount' \in Nat
        /\ openStations' \in Nat
    BY <1>4 DEF Petdone, Discharge
  <2>2. /\ blockedAttempts' \in Nat
        /\ woken' \subseteq {q \in Pets : at[q] \in Conditions}
    BY <1>4, <2>1, NotifyFacts DEF Petdone
  <2>3. at' = [at EXCEPT ![p] = "gone"] /\ at[p] = "groomed"
    BY <1>4 DEF Petdone
  <2>4. QED BY <1>4, <2>1, <2>2, <2>3 DEF Petdone
<1>5. ASSUME NEW p \in Pets, SpuriousWakeup(p)
      PROVE  TypeOK' /\ Closed'
  BY <1>5 DEF SpuriousWakeup
<1>6. CASE UNCHANGED vars
  BY <1>6 DEF vars
<1>7. QED BY <1>1, <1>2, <1>3, <1>4, <1>5, <1>6, GateOutcome DEF Next

(* Every counter stays a natural number, so openStations is never negative, *)
(* and only a thread inside pthread_cond_wait() is ever woken.              *)
THEOREM TypeCorrect == Spec => []TypeOK
<1>1. TypeOK /\ Closed /\ [Next]_vars => TypeOK' /\ Closed'  BY TypeStep
<1>2. QED BY TypeInit, <1>1, PTL DEF Spec
------------------------------------------------------------------------------
LEMMA WaitSets ==
    ASSUME TypeOK, NEW p \in Pets, NEW k \in pet_t, NEW c \in Conditions,
           Move(p, k), Wait(p, c)
    PROVE  Groomed' = Groomed /\ \A j \in pet_t : OfKind(j)' = OfKind(j)
BY DEF TypeOK, Move, Wait, Groomed, OfKind, Conditions, Places

LEMMA AdmitSets ==
    ASSUME TypeOK, NEW p \in Pets, NEW k \in pet_t, Move(p, k), Admit(p, k)
    PROVE  /\ p \notin Groomed /\ Groomed' = Groomed \cup {p}
           /\ \A j \in pet_t : /\ p \notin OfKind(j)
                               /\ OfKind(j)' = IF j = k THEN OfKind(j) \cup {p}
                                               ELSE OfKind(j)
BY DEF TypeOK, Move, Admit, Groomed, OfKind, Conditions, Places

LEMMA PetdoneSets ==
    ASSUME TypeOK, NEW p \in Pets, Petdone(p)
    PROVE  /\ p \in Groomed /\ Groomed' = Groomed \ {p}
           /\ \A j \in pet_t : /\ (p \in OfKind(j)) <=> (j = kind[p])
                               /\ OfKind(j)' = IF j = kind[p] THEN OfKind(j) \ {p}
                                               ELSE OfKind(j)
BY DEF TypeOK, Petdone, Groomed, OfKind, Conditions, Places

LEMMA SetsFinite ==
    /\ IsFiniteSet(Groomed) /\ Cardinality(Groomed) \in Nat
    /\ \A j : IsFiniteSet(OfKind(j)) /\ Cardinality(OfKind(j)) \in Nat
<1>1. Groomed \in SUBSET Pets /\ \A j : OfKind(j) \in SUBSET Pets
  BY DEF Groomed, OfKind
<1>2. QED BY <1>1, FiniteSubsets

LEMMA AccountingStep ==
    ASSUME TypeOK, Closed, Accounting, [Next]_vars
    PROVE  Accounting'
<1> USE DEF Accounting, StationAccounting, StationsInUse
<1>1. ASSUME NEW n \in StationCounts, PetgroomInit(n)
      PROVE  Accounting'
  <2>1. Groomed = {} /\ \A j : OfKind(j) = {}
    BY <1>1 DEF PetgroomInit, Closed, Groomed, OfKind
  <2>2. Cardinality({}) = 0
    BY FS_EmptySet
  <2>3. /\ Cardinality(Groomed) = 0
        /\ \A j \in pet_t : Cardinality(OfKind(j)) = 0
    BY <2>1, <2>2
  <2>4. Groomed' = Groomed /\ \A j : OfKind(j)' = OfKind(j)
    BY <1>1 DEF PetgroomInit, Groomed, OfKind
  <2>5. n \in Nat
    BY PetGroomAssumption
  <2>6. QED BY <1>1, <2>3, <2>4, <2>5 DEF PetgroomInit, pet_t
<1>2. CASE PetgroomDone
  <2>1. Groomed' = {} /\ \A j : OfKind(j)' = {}
    BY <1>2 DEF PetgroomDone, Groomed, OfKind
  <2>2. Cardinality(Groomed)' = 0 /\ \A j : Cardinality(OfKind(j))' = 0
    BY <2>1, FS_EmptySet
  <2>3. QED BY <1>2, <2>2 DEF PetgroomDone
<1>3. ASSUME NEW p \in Pets, NEW k \in pet_t, Move(p, k)
      PROVE  Accounting'
  <2>1. CASE \E c \in Conditions : Wait(p, c)
    <3>1. /\ Groomed' = Groomed
          /\ \A j \in pet_t : OfKind(j)' = OfKind(j)
      BY <1>3, <2>1, WaitSets
    <3>2. UNCHANGED <<totalStations, openStations, catCount, dogCount, otherCount>>
      BY <1>3, <2>1 DEF Move, Wait, counters
    <3>3. Cardinality(Groomed)' = Cardinality(Groomed)
      BY <3>1
    <3>4. \A j \in pet_t : Cardinality(OfKind(j))' = Cardinality(OfKind(j))
      BY <3>1
    <3>5. QED BY <3>2, <3>3, <3>4 DEF pet_t
  <2>2. CASE openStations > 0 /\ Admit(p, k)
    <3>1. Cardinality(Groomed)' = Cardinality(Groomed) + 1
      BY <1>3, <2>2, AdmitSets, SetsFinite, FS_AddElement
    <3>2. \A j \in pet_t : Cardinality(OfKind(j))' =
                IF j = k THEN Cardinality(OfKind(j)) + 1 ELSE Cardinality(OfKind(j))
      BY <1>3, <2>2, AdmitSets, SetsFinite, FS_AddElement
    <3>3. totalStations' = totalStations
      BY <1>3 DEF Move
    <3>4. QED BY <2>2, <3>1, <3>2, <3>3, SetsFinite DEF Admit, pet_t, TypeOK
  <2>3. QED BY <1>3, <2>1, <2>2 DEF Move
<1>4. ASSUME NEW p \in Pets, Petdone(p)
      PROVE  Accounting'
  <2>1. Cardinality(Groomed)' = Cardinality(Groomed) - 1
    BY <1>4, PetdoneSets, SetsFinite, FS_RemoveElement
  <2>2. \A j \in pet_t : Cardinality(OfKind(j))' =
              IF j = kind[p] THEN Cardinality(OfKind(j)) - 1
              ELSE Cardinality(OfKind(j))
    BY <1>4, PetdoneSets, SetsFinite, FS_RemoveElement
  <2>3. kind[p] \in pet_t
    BY DEF TypeOK
  <2>4. QED BY <1>4, <2>1, <2>2, <2>3, SetsFinite
            DEF Petdone, Discharge, pet_t, TypeOK
<1>5. ASSUME NEW p \in Pets, SpuriousWakeup(p)
      PROVE  Accounting'
  BY <1>5 DEF SpuriousWakeup, counters, Groomed, OfKind
<1>6. CASE UNCHANGED vars
  BY <1>6 DEF vars, counters, Groomed, OfKind
<1>7. QED BY <1>1, <1>2, <1>3, <1>4, <1>5, <1>6, GateOutcome DEF Next
------------------------------------------------------------------------------
LEMMA AttemptsStep ==
    ASSUME TypeOK, Closed, AttemptsOnlyWhileOccupied, [Next]_vars
    PROVE  AttemptsOnlyWhileOccupied'
<1> USE PetGroomAssumption DEF AttemptsOnlyWhileOccupied, counters
<1>1. ASSUME NEW n \in StationCounts, PetgroomInit(n)
      PROVE  AttemptsOnlyWhileOccupied'
  BY <1>1 DEF PetgroomInit
<1>2. CASE PetgroomDone
  BY <1>2 DEF PetgroomDone
<1>3. ASSUME NEW p \in Pets, NEW k \in pet_t, NEW b \in Nat,
             b \in {0, blockedAttempts}, TypeGate(p, k, b)
      PROVE  AttemptsOnlyWhileOccupied'
  BY <1>3 DEF TypeGate, BedGate, Wait, Admit, TypeOK
<1>4. ASSUME NEW p \in Pets, NEW k \in pet_t, BedGate(p, k),
             UNCHANGED blockedAttempts
      PROVE  AttemptsOnlyWhileOccupied'
  BY <1>4 DEF BedGate, Wait, Admit, TypeOK
<1>5. ASSUME NEW p \in Pets, NEW c, Wait(p, c), UNCHANGED blockedAttempts
      PROVE  AttemptsOnlyWhileOccupied'
  BY <1>5 DEF Wait
<1>6. ASSUME NEW p \in Pets, NEW k \in pet_t, Newpet(p, k)
      PROVE  AttemptsOnlyWhileOccupied'
  BY <1>3, <1>4, <1>5, <1>6 DEF Newpet, TypeOK
<1>7. ASSUME NEW p \in Pets, Resume(p)
      PROVE  AttemptsOnlyWhileOccupied'
  <2>1. kind[p] \in pet_t
    BY DEF TypeOK
  <2>2. QED BY <1>3, <1>4, <1>5, <1>7, <2>1 DEF Resume
<1>8. ASSUME NEW p \in Pets, Petdone(p)
      PROVE  AttemptsOnlyWhileOccupied'
  <2>1. catCount' \in Nat /\ dogCount' \in Nat
    BY <1>8 DEF Petdone, Discharge, TypeOK
  <2>2. /\ blockedAttempts' \in {0, blockedAttempts}
        /\ catCount' = 0 /\ dogCount' = 0 => blockedAttempts' <= MAX_BLOCKS
    BY <1>8, <2>1, NotifyFacts DEF Petdone
  <2>3. QED BY <2>1, <2>2 DEF TypeOK
<1>9. ASSUME NEW p \in Pets, SpuriousWakeup(p)
      PROVE  AttemptsOnlyWhileOccupied'
  BY <1>9 DEF SpuriousWakeup
<1>10. CASE UNCHANGED vars
  BY <1>10 DEF vars
<1>11. QED BY <1>1, <1>2, <1>6, <1>7, <1>8, <1>9, <1>10 DEF Next
------------------------------------------------------------------------------
LEMMA HeadingFinite ==
    ASSUME TypeOK
    PROVE  IsFiniteSet(Heading) /\ Cardinality(Heading) \in Nat
<1>1. Heading \in SUBSET Pets
  BY DEF Heading, TypeOK
<1>2. QED BY <1>1, FiniteSubsets

LEMMA NoLostBedStep ==
    ASSUME TypeOK, TypeOK', Closed, NoLostBed, [Next]_vars
    PROVE  NoLostBed'
<1> DEFINE Asleep == Waiting("emptyBeds")
<1>a. NoLostBed <=> (Asleep # {} => openStations <= Cardinality(Heading))
  BY DEF NoLostBed, Heading
<1>b. NoLostBed' <=> (Asleep' # {} => openStations' <= Cardinality(Heading'))
  BY DEF NoLostBed, Heading
<1>c. IsFiniteSet(Heading) /\ Cardinality(Heading) \in Nat
  BY HeadingFinite
<1>d. IsFiniteSet(Heading') /\ Cardinality(Heading') \in Nat
  <2>1. Heading' \in SUBSET Pets
    BY DEF Heading, TypeOK
  <2>2. QED BY <2>1, FiniteSubsets
<1>e. openStations \in Nat /\ openStations' \in Nat
  BY DEF TypeOK
<1>1. ASSUME NEW n \in StationCounts, PetgroomInit(n)
      PROVE  NoLostBed'
  <2>1. Asleep' = {}
    BY <1>1 DEF PetgroomInit, Closed, Waiting
  <2>2. QED BY <1>b, <2>1
<1>2. CASE PetgroomDone
  <2>1. Asleep' = {}
    BY <1>2 DEF PetgroomDone, Waiting
  <2>2. QED BY <1>b, <2>1
<1>3. ASSUME NEW p \in Pets, NEW k \in pet_t, Move(p, k)
      PROVE  NoLostBed'
  <2>1. CASE Wait(p, "emptyBeds") /\ openStations <= 0
    <3>1. openStations' = 0
      BY <1>e, <2>1 DEF Wait
    <3>2. QED BY <1>b, <1>d, <3>1
  <2>2. ASSUME NEW c \in Conditions \ {"emptyBeds"}, Wait(p, c),
               at[p] # "emptyBeds"
        PROVE  NoLostBed'
    <3>1. Asleep' = Asleep /\ Heading' = Heading
      BY <1>3, <2>2 DEF Move, Wait, Waiting, Heading, TypeOK, Conditions
    <3>2. openStations' = openStations
      BY <2>2 DEF Wait
    <3>3. QED BY <1>a, <1>b, <3>1, <3>2
  <2>3. CASE openStations > 0 /\ Admit(p, k)
    <3>1. Asleep' \subseteq Asleep /\ Heading \ {p} \subseteq Heading'
      BY <1>3, <2>3 DEF Move, Admit, Waiting, Heading, TypeOK, Conditions
    <3>2. Cardinality(Heading \ {p}) \in {Cardinality(Heading), Cardinality(Heading) - 1}
      BY <1>c, FS_RemoveElement
    <3>3. /\ Cardinality(Heading \ {p}) \in Nat
          /\ Cardinality(Heading \ {p}) <= Cardinality(Heading')
      BY <1>c, <1>d, <3>1, FS_Subset, FS_CardinalityType
    <3>4. openStations' = openStations - 1
      BY <2>3 DEF Admit
    <3>5. QED BY <1>a, <1>b, <1>c, <1>d, <1>e, <3>1, <3>2, <3>3, <3>4
  <2>4. QED BY <1>3, <2>1, <2>2, <2>3 DEF Move
<1>4. ASSUME NEW p \in Pets, Petdone(p), Asleep' # {}
      PROVE  openStations' <= Cardinality(Heading')
  <2>1. catCount' \in Nat /\ dogCount' \in Nat /\ Notify
    BY <1>4 DEF Petdone, TypeOK
  <2>2. woken \subseteq woken'
    BY <2>1, NotifyFacts
  <2>3. at' = [at EXCEPT ![p] = "gone"] /\ at[p] = "groomed"
    BY <1>4 DEF Petdone
  <2>4. Asleep # {}
    BY <1>4, <2>2, <2>3 DEF Waiting, TypeOK
  <2>5. PICK b \in woken' \ woken : at[b] = "emptyBeds"
    BY <2>1, <2>4, NotifyFacts
  <2>6. b \notin Heading /\ Heading \cup {b} \subseteq Heading'
    BY <2>2, <2>3, <2>5 DEF Heading, TypeOK
  <2>7. Cardinality(Heading) + 1 = Cardinality(Heading \cup {b})
    BY <1>c, <2>6, FS_AddElement
  <2>8. Cardinality(Heading \cup {b}) <= Cardinality(Heading')
    BY <1>d, <2>6, FS_Subset
  <2>9. openStations' = openStations + 1
    BY <1>4 DEF Petdone, Discharge
  <2>10. QED BY <1>a, <1>c, <1>d, <1>e, <2>4, <2>7, <2>8, <2>9
<1>5. ASSUME NEW p \in Pets, SpuriousWakeup(p)
      PROVE  NoLostBed'
  <2>1. Asleep' \subseteq Asleep /\ Heading \subseteq Heading'
    BY <1>5 DEF SpuriousWakeup, Waiting, Heading
  <2>2. Cardinality(Heading) <= Cardinality(Heading')
    BY <1>d, <2>1, FS_Subset
  <2>3. openStations' = openStations
    BY <1>5 DEF SpuriousWakeup
  <2>4. QED BY <1>a, <1>b, <1>c, <1>d, <1>e, <2>1, <2>2, <2>3
<1>6. CASE UNCHANGED vars
  BY <1>6 DEF vars, NoLostBed, Waiting
<1>7. QED BY <1>b, <1>1, <1>2, <1>3, <1>4, <1>5, <1>6, GateOutcome DEF Next
------------------------------------------------------------------------------
(* A pet that is not yet groomed finds a station in an ample facility.      *)
LEMMA AmpleBeds ==
    ASSUME TypeOK, StationsInUse, Cardinality(Pets) <= totalStations,
           NEW p \in Pets, at[p] # "groomed"
    PROVE  openStations > 0
<1>1. IsFiniteSet(Pets) /\ Cardinality(Pets) \in Nat
  BY PetGroomAssumption, FS_CardinalityType
<1>2. IsFiniteSet(Pets \ {p}) /\ Cardinality(Pets \ {p}) = Cardinality(Pets) - 1
  BY <1>1, FS_RemoveElement
<1>3. Groomed \in SUBSET (Pets \ {p})
  BY DEF Groomed
<1>4. Cardinality(Groomed) <= Cardinality(Pets \ {p})
  BY <1>2, <1>3, FS_Subset
<1>5. /\ openStations \in Nat /\ totalStations \in Nat
      /\ Cardinality(Groomed) \in Nat
  BY SetsFinite DEF TypeOK
<1>6. QED BY <1>1, <1>2, <1>4, <1>5 DEF StationsInUse

LEMMA SeparationStep ==
    ASSUME TypeOK, Closed, StationsInUse, Separation, [Next]_vars
    PROVE  Separation'
<1> DEFINE ample == Cardinality(Pets) <= totalStations
<1> USE DEF Separation, WaitsForTheOther, NoBedWaitWhenAmple, ExclusionWhenAmple,
            counters
<1>1. ASSUME NEW n \in StationCounts, PetgroomInit(n)
      PROVE  Separation'
  <2>1. \A p \in Pets : at[p] = "idle"
    BY <1>1 DEF PetgroomInit, Closed
  <2>2. QED BY <1>1, <2>1 DEF PetgroomInit
<1>2. CASE PetgroomDone
  <2>1. \A p \in Pets : at'[p] = "idle"
    BY <1>2 DEF PetgroomDone
  <2>2. catCount' = 0
    BY <1>2 DEF PetgroomDone
  <2>3. QED BY <2>1, <2>2
(* A thread that sleeps on the condition variable that is its own, and not  *)
(* on emptyBeds in an ample facility, disturbs nothing.                     *)
<1>3. ASSUME NEW p \in Pets, NEW k \in pet_t, NEW c \in Conditions,
             kind' = [kind EXCEPT ![p] = k], totalStations' = totalStations,
             c = "noCats" => k = "dog", c = "noDogs" => k = "cat",
             c = "emptyBeds" => ~ample, Wait(p, c)
      PROVE  Separation'
  BY <1>3 DEF Wait, TypeOK, Conditions
<1>4. ASSUME NEW p \in Pets, NEW k \in pet_t,
             at[p] # "groomed", ample => at[p] # "emptyBeds",
             kind' = [kind EXCEPT ![p] = k], totalStations' = totalStations,
             ample /\ k = "dog" => catCount = 0,
             ample /\ k = "cat" => dogCount = 0,
             BedGate(p, k)
      PROVE  Separation'
  <2>1. CASE openStations <= 0 /\ Wait(p, "emptyBeds")
    <3>1. ~ample
      <4>1. openStations \in Nat
        BY DEF TypeOK
      <4>2. QED BY <1>4, <2>1, <4>1, AmpleBeds
    <3>2. QED BY <1>3, <1>4, <2>1, <3>1 DEF Conditions
  <2>2. CASE openStations > 0 /\ Admit(p, k)
    <3>1. WaitsForTheOther' /\ NoBedWaitWhenAmple'
      BY <1>4, <2>2 DEF Admit, TypeOK
    <3>2. ExclusionWhenAmple'
      BY <1>4, <2>2 DEF Admit, TypeOK, pet_t
    <3>3. QED BY <3>1, <3>2
  <2>3. QED BY <1>4, <2>1, <2>2 DEF BedGate
<1>5. ASSUME NEW p \in Pets, NEW k \in pet_t, NEW b,
             at[p] # "groomed", at[p] # "emptyBeds",
             kind' = [kind EXCEPT ![p] = k], totalStations' = totalStations,
             TypeGate(p, k, b)
      PROVE  Separation'
  BY <1>3, <1>4, <1>5 DEF TypeGate, Conditions
<1>6. ASSUME NEW p \in Pets, NEW k \in pet_t, Newpet(p, k)
      PROVE  Separation'
  <2>1. /\ at[p] = "idle"
        /\ kind' = [kind EXCEPT ![p] = k] /\ totalStations' = totalStations
    BY <1>6 DEF Newpet
  <2>2. CASE k = "other" /\ BedGate(p, k)
    BY <1>4, <2>1, <2>2
  <2>3. CASE Wait(p, "tooManyAttempts")
    BY <1>3, <2>1, <2>3 DEF Conditions
  <2>4. CASE TypeGate(p, k, blockedAttempts)
    BY <1>5, <2>1, <2>4
  <2>5. QED BY <1>6, <2>2, <2>3, <2>4 DEF Newpet
<1>7. ASSUME NEW p \in Pets, Resume(p)
      PROVE  Separation'
  <2>1. /\ kind[p] \in pet_t /\ at[p] # "groomed"
        /\ kind' = [kind EXCEPT ![p] = kind[p]] /\ totalStations' = totalStations
    BY <1>7 DEF Resume, TypeOK, Conditions
  <2>2. CASE at[p] = "tooManyAttempts" /\ TypeGate(p, kind[p], 0)
    BY <1>5, <2>1, <2>2
  <2>3. CASE /\ at[p] = "noCats"
             /\ IF catCount # 0 THEN Wait(p, "noCats") ELSE BedGate(p, kind[p])
    <3>1. kind[p] = "dog" /\ at[p] # "emptyBeds"
      BY <2>3
    <3>2. CASE Wait(p, "noCats")
      BY <1>3, <2>1, <3>1, <3>2 DEF Conditions
    <3>3. CASE catCount = 0 /\ BedGate(p, kind[p])
      BY <1>4, <2>1, <3>1, <3>3
    <3>4. QED BY <2>3, <3>2, <3>3
  <2>4. CASE /\ at[p] = "noDogs"
             /\ IF dogCount # 0 THEN Wait(p, "noDogs") ELSE BedGate(p, kind[p])
    <3>1. kind[p] = "cat" /\ at[p] # "emptyBeds"
      BY <2>4
    <3>2. CASE Wait(p, "noDogs")
      BY <1>3, <2>1, <3>1, <3>2 DEF Conditions
    <3>3. CASE dogCount = 0 /\ BedGate(p, kind[p])
      BY <1>4, <2>1, <3>1, <3>3
    <3>4. QED BY <2>4, <3>2, <3>3
  <2>5. CASE at[p] = "emptyBeds" /\ BedGate(p, kind[p])
    BY <1>4, <2>1, <2>5
  <2>6. QED BY <1>7, <2>2, <2>3, <2>4, <2>5 DEF Resume
<1>8. ASSUME NEW p \in Pets, Petdone(p)
      PROVE  Separation'
  <2>1. /\ at' = [at EXCEPT ![p] = "gone"] /\ kind' = kind
        /\ totalStations' = totalStations
    BY <1>8 DEF Petdone
  <2>2. \A q \in Pets : at'[q] = at[q] \/ at'[q] = "gone"
    BY <2>1 DEF TypeOK
  <2>3. /\ catCount = 0 => catCount' = 0
        /\ dogCount = 0 => dogCount' = 0
    BY <1>8 DEF Petdone, Discharge
  <2>4. QED BY <2>1, <2>2, <2>3
<1>9. ASSUME NEW p \in Pets, SpuriousWakeup(p)
      PROVE  Separation'
  BY <1>9 DEF SpuriousWakeup
<1>10. CASE UNCHANGED vars
  BY <1>10 DEF vars
<1>11. QED BY <1>1, <1>2, <1>6, <1>7, <1>8, <1>9, <1>10 DEF Next
------------------------------------------------------------------------------
LEMMA InvariantInit == Init => IInv
<1> SUFFICES ASSUME Init PROVE IInv
  OBVIOUS
<1>1. TypeOK /\ Closed
  BY TypeInit
<1>2. Groomed = {} /\ \A j : OfKind(j) = {}
  BY DEF Init, Groomed, OfKind
<1>3. Cardinality({}) = 0
  BY FS_EmptySet
<1>4. Accounting
  <2>1. Cardinality(Groomed) = 0 /\ \A j \in pet_t : Cardinality(OfKind(j)) = 0
    BY <1>2, <1>3
  <2>2. QED BY <2>1 DEF Init, Accounting, StationAccounting, StationsInUse, pet_t
<1>5. AttemptsOnlyWhileOccupied
  BY PetGroomAssumption DEF Init, AttemptsOnlyWhileOccupied
<1>6. NoLostBed
  BY DEF Init, NoLostBed, Waiting
<1>7. Separation
  BY DEF Init, Separation, WaitsForTheOther, NoBedWaitWhenAmple, ExclusionWhenAmple
<1>8. QED BY <1>1, <1>4, <1>5, <1>6, <1>7 DEF IInv

LEMMA InvariantStep == IInv /\ [Next]_vars => IInv'
<1> SUFFICES ASSUME IInv, [Next]_vars PROVE IInv'
  OBVIOUS
<1> USE DEF IInv
<1>1. TypeOK' /\ Closed'             BY TypeStep
<1>2. Accounting'                    BY AccountingStep
<1>3. AttemptsOnlyWhileOccupied'     BY AttemptsStep
<1>4. NoLostBed'                     BY <1>1, NoLostBedStep
<1>5. Separation'                    BY SeparationStep DEF Accounting
<1>6. QED BY <1>1, <1>2, <1>3, <1>4, <1>5

(* The strengthening holds in every behaviour.                              *)
THEOREM Invariance == Spec => []IInv
BY InvariantInit, InvariantStep, PTL DEF Spec

(* The counters of newpet() and petdone() always agree with the pets in the *)
(* stations.                                                                *)
THEOREM AccountingCorrect == Spec => []StationAccounting
<1>1. IInv => StationAccounting  BY DEF IInv, Accounting
<1>2. QED BY <1>1, Invariance, PTL

(* Threads are stopped for too many attempts only while a cat or a dog that *)
(* will release them is being groomed.                                      *)
THEOREM AttemptsCorrect == Spec => []AttemptsOnlyWhileOccupied
<1>1. IInv => AttemptsOnlyWhileOccupied  BY DEF IInv
<1>2. QED BY <1>1, Invariance, PTL

(* petdone()'s one signal per freed station is never lost.                  *)
THEOREM BedsNeverLost == Spec => []NoLostBed
<1>1. IInv => NoLostBed  BY DEF IInv
<1>2. QED BY <1>1, Invariance, PTL

(* With a station for every thread, cats and dogs are never groomed         *)
(* together.                                                                *)
THEOREM ExclusionHolds == Spec => []ExclusionWhenAmple
<1>1. IInv => ExclusionWhenAmple  BY DEF IInv, Separation
<1>2. QED BY <1>1, Invariance, PTL
------------------------------------------------------------------------------
LEMMA RefinesInit == Init => Stations!Init
BY DEF Init, Stations!Init, Groomed

LEMMA RefinesStep ==
    IInv /\ [Next]_vars => [Stations!Next]_(Stations!vars)
<1> SUFFICES ASSUME IInv, [Next]_vars
             PROVE  Stations!Next \/ UNCHANGED Stations!vars
  OBVIOUS
<1>a. TypeOK /\ Closed /\ StationsInUse
  BY DEF IInv, Accounting
<1> USE DEF Stations!Next, Stations!vars
<1>1. ASSUME NEW n \in StationCounts, PetgroomInit(n)
      PROVE  Stations!Open
  BY <1>1, <1>a DEF PetgroomInit, Closed, Groomed, Stations!Open
<1>2. CASE PetgroomDone
  <2>1. Groomed = {} /\ Groomed' = {}
    BY <1>2 DEF PetgroomDone, Groomed
  <2>2. totalStations # 0 /\ totalStations' = 0
    BY <1>2, <1>a DEF PetgroomDone, Closed
  <2>3. QED BY <2>1, <2>2 DEF Stations!Close
<1>3. ASSUME NEW p \in Pets, NEW k \in pet_t, Move(p, k)
      PROVE  Stations!Enter(p) \/ UNCHANGED Stations!vars
  <2>1. totalStations' = totalStations
    BY <1>3 DEF Move
  <2>2. CASE \E c \in Conditions : Wait(p, c)
    BY <1>3, <1>a, <2>1, <2>2, WaitSets
  <2>3. CASE openStations > 0 /\ Admit(p, k)
    <3>1. p \notin Groomed /\ Groomed' = Groomed \cup {p}
      BY <1>3, <1>a, <2>3, AdmitSets
    <3>2. Cardinality(Groomed) < totalStations
      BY <1>a, <2>3, SetsFinite DEF StationsInUse, TypeOK
    <3>3. Stations!Cardinality(Groomed) = Cardinality(Groomed)
      BY DEF Stations!Cardinality, Cardinality
    <3>4. Stations!Enter(p)
      BY <2>1, <3>1, <3>2, <3>3 DEF Stations!Enter
    <3>5. QED BY <3>4
  <2>4. QED BY <1>3, <2>2, <2>3 DEF Move
<1>4. ASSUME NEW p \in Pets, Petdone(p)
      PROVE  Stations!Leave(p)
  BY <1>4, <1>a, PetdoneSets DEF Petdone, Stations!Leave
<1>5. ASSUME NEW p \in Pets, SpuriousWakeup(p)
      PROVE  UNCHANGED Stations!vars
  BY <1>5 DEF SpuriousWakeup, Groomed
<1>6. CASE UNCHANGED vars
  BY <1>6 DEF vars, Groomed
<1>7. QED BY <1>a, <1>1, <1>2, <1>3, <1>4, <1>5, <1>6, GateOutcome DEF Next

(* The monitor implements the grooming stations of GroomStations.           *)
THEOREM Refinement == Spec => ImplementsStations
BY Invariance, RefinesInit, RefinesStep, PTL DEF Spec, ImplementsStations, Stations!Spec
==============================================================================
