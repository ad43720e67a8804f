------------------------------ MODULE PetGroom -------------------------------
(***************************************************************************)
(* The monitor of Assignment_3/B/petgroomsynch.c.                          *)
(*                                                                         *)
(* Every access of newpet() and petdone() to the shared counters is made   *)
(* under one mutex, so what a thread does between taking the mutex and     *)
(* giving it up (by returning, or inside pthread_cond_wait) is one step.   *)
(* A thread that was signalled is in "woken": it has left the wait set of  *)
(* its condition variable but has still to take the mutex again, and any   *)
(* other thread may get the mutex first.                                   *)
(*                                                                         *)
(* A pet is one thread of petgroomTesting.c's newThread(): it calls        *)
(* newpet(), is groomed, calls petdone() and ends.                         *)
(***************************************************************************)
EXTENDS Naturals, FiniteSets

CONSTANTS Pets,            \* the threads of a session
          StationCounts,   \* the arguments petgroom_init() is called with
          MAX_BLOCKS,      \* petgroomsynch.c:14
          SpuriousWakeups  \* whether pthread_cond_wait() may return unsignalled

ASSUME PetGroomAssumption ==
    /\ IsFiniteSet(Pets)
    /\ StationCounts \subseteq Nat \ {0}
    /\ MAX_BLOCKS \in Nat
    /\ SpuriousWakeups \in BOOLEAN

VARIABLES
    totalStations, beenInitialized, openStations,
    catCount, dogCount, otherCount, blockedAttempts,
    kind,     \* what each pet is; set when its thread calls newpet()
    at,       \* where each thread is: not arrived, in the wait set of a
              \* condition variable (or woken from it), groomed, or gone
    woken     \* signalled threads that wait for the mutex

counters == <<catCount, dogCount, otherCount>>
vars == <<totalStations, beenInitialized, openStations, counters,
          blockedAttempts, kind, at, woken>>

pet_t == {"cat", "dog", "other"}
Conditions == {"emptyBeds", "noDogs", "noCats", "tooManyAttempts"}
Places == {"idle", "groomed", "gone"} \cup Conditions

Init == /\ totalStations = 0 /\ beenInitialized = FALSE /\ openStations = 0
        /\ catCount = 0 /\ dogCount = 0 /\ otherCount = 0
        /\ blockedAttempts = 0
        /\ kind = [p \in Pets |-> "other"]
        /\ at = [p \in Pets |-> "idle"]
        /\ woken = {}

(* The wait set of a condition variable. *)
Waiting(c) == {p \in Pets : at[p] = c /\ p \notin woken}

(* What n calls of pthread_cond_signal(&c) in a row may wake: n of its      *)
(* waiters, or all of them when there are fewer.                            *)
Signalled(c, n) ==
    {S \in SUBSET Waiting(c) :
        Cardinality(S) = IF n < Cardinality(Waiting(c)) THEN n
                         ELSE Cardinality(Waiting(c))}
------------------------------------------------------------------------------
(* petgroom_init(): a second call before petgroom_done() returns -1.        *)
PetgroomInit(n) ==
    /\ ~beenInitialized
    /\ beenInitialized' = TRUE
    /\ totalStations' = n
    /\ openStations' = n
    /\ catCount' = 0 /\ dogCount' = 0 /\ otherCount' = 0
    /\ blockedAttempts' = 0
    /\ UNCHANGED <<kind, at, woken>>

(* petgroom_done(): refuses while a pet is in a station.  It is called      *)
(* after every thread was joined; the next session has new threads.         *)
PetgroomDone ==
    /\ beenInitialized
    /\ catCount = 0 /\ dogCount = 0 /\ otherCount = 0
    /\ \A p \in Pets : at[p] \in {"idle", "gone"}
    /\ beenInitialized' = FALSE
    /\ totalStations' = 0 /\ openStations' = 0
    /\ catCount' = 0 /\ dogCount' = 0 /\ otherCount' = 0
    /\ blockedAttempts' = 0
    /\ at' = [p \in Pets |-> "idle"]
    /\ UNCHANGED <<kind, woken>>
------------------------------------------------------------------------------
(* pthread_cond_wait(&c, &mutex)                                            *)
Wait(p, c) == /\ at' = [at EXCEPT ![p] = c]
              /\ woken' = woken \ {p}
              /\ UNCHANGED <<openStations, counters>>

(* The pet is given a station.                                              *)
Admit(p, k) ==
    /\ at' = [at EXCEPT ![p] = "groomed"]
    /\ woken' = woken \ {p}
    /\ catCount' = IF k = "cat" THEN catCount + 1 ELSE catCount
    /\ dogCount' = IF k = "dog" THEN dogCount + 1 ELSE dogCount
    /\ otherCount' = IF k = "other" THEN otherCount + 1 ELSE otherCount
    /\ openStations' = openStations - 1

(* Mutant: "if" for "while" around the wait for a bed.                      *)
BedGateTestedOnce(p, k) ==
    \/ openStations <= 0 /\ p \notin woken /\ Wait(p, "emptyBeds")
    \/ (openStations > 0 \/ p \in woken) /\ Admit(p, k)

(* Mutant: the wait for a bed tests "< 0" for "<= 0".                       *)
BedGateOffByOne(p, k) == \/ openStations < 0 /\ Wait(p, "emptyBeds")
                         \/ openStations >= 0 /\ Admit(p, k)

(* The wait for an empty bed.  The counts of the other species are not      *)
(* looked at again once a bed is there.                                     *)
BedGate(p, k) == \/ openStations <= 0 /\ Wait(p, "emptyBeds")
                 \/ openStations > 0 /\ Admit(p, k)

(* Mutant: a cat does not wait for the dogs to clear.                       *)
TypeGateDogsOnly(p, k, blocked) ==
    \/ /\ k = "dog" /\ catCount # 0
       /\ blockedAttempts' = blocked + 1
       /\ Wait(p, "noCats")
    \/ /\ k = "dog" => catCount = 0
       /\ blockedAttempts' = blocked
       /\ BedGate(p, k)

(* The wait for the other species to clear, entered with blockedAttempts    *)
(* at "blocked".                                                            *)
TypeGate(p, k, blocked) ==
    \/ /\ k = "dog" /\ catCount # 0
       /\ blockedAttempts' = blocked + 1
       /\ Wait(p, "noCats")
    \/ /\ k = "cat" /\ dogCount # 0
       /\ blockedAttempts' = blocked + 1
       /\ Wait(p, "noDogs")
    \/ /\ k = "dog" => catCount = 0
       /\ k = "cat" => dogCount = 0
       /\ blockedAttempts' = blocked
       /\ BedGate(p, k)

(* newpet(), up to its first wait or its return.                            *)
Newpet(p, k) ==
    /\ beenInitialized
    /\ at[p] = "idle"
    /\ kind' = [kind EXCEPT ![p] = k]
    /\ \/ k = "other" /\ BedGate(p, k) /\ UNCHANGED blockedAttempts
       \/ /\ k # "other" /\ blockedAttempts > MAX_BLOCKS
          /\ Wait(p, "tooManyAttempts")
          /\ UNCHANGED blockedAttempts
       \/ /\ k # "other" /\ blockedAttempts <= MAX_BLOCKS
          /\ TypeGate(p, k, blockedAttempts)
    /\ UNCHANGED <<totalStations, beenInitialized>>

(* newpet(), after pthread_cond_wait() returned.  The thread that waited    *)
(* for blockedAttempts to be reset resets it itself, to whatever it has     *)
(* grown since; the threads that waited for a species test it again.        *)
Resume(p) ==
    /\ p \in woken
    /\ \/ at[p] = "tooManyAttempts" /\ TypeGate(p, kind[p], 0)
       \/ /\ at[p] = "noCats"
          /\ IF catCount # 0 THEN Wait(p, "noCats") ELSE BedGate(p, kind[p])
          /\ UNCHANGED blockedAttempts
       \/ /\ at[p] = "noDogs"
          /\ IF dogCount # 0 THEN Wait(p, "noDogs") ELSE BedGate(p, kind[p])
          /\ UNCHANGED blockedAttempts
       \/ /\ at[p] = "emptyBeds"
          /\ BedGate(p, kind[p])
          /\ UNCHANGED blockedAttempts
    /\ UNCHANGED <<totalStations, beenInitialized, kind>>
------------------------------------------------------------------------------
(* Mutant: a dog's station is not given back.                               *)
DischargeKeepsStation(p) ==
    /\ catCount' = IF kind[p] = "cat" THEN catCount - 1 ELSE catCount
    /\ dogCount' = IF kind[p] = "dog" THEN dogCount - 1 ELSE dogCount
    /\ otherCount' = IF kind[p] = "other" THEN otherCount - 1 ELSE otherCount
    /\ openStations' = IF kind[p] = "dog" THEN openStations ELSE openStations + 1

(* petdone(): the three tests that return -1, and the counters.             *)
Discharge(p) ==
    /\ kind[p] = "cat" => catCount # 0
    /\ kind[p] = "dog" => dogCount # 0
    /\ kind[p] = "other" => otherCount # 0
    /\ catCount' = IF kind[p] = "cat" THEN catCount - 1 ELSE catCount
    /\ dogCount' = IF kind[p] = "dog" THEN dogCount - 1 ELSE dogCount
    /\ otherCount' = IF kind[p] = "other" THEN otherCount - 1 ELSE otherCount
    /\ openStations' = openStations + 1

(* Mutants of the signals: blockedAttempts is never reset; a bed is         *)
(* signalled only when no cat and no dog is left; the signals sent when     *)
(* both species are gone are missing.                                       *)
NotifyWithoutReset ==
    \E beds \in Signalled("emptyBeds", 1) :
       woken' = woken \cup beds /\ UNCHANGED blockedAttempts

NotifyBedsWhenClear ==
    LET clear == catCount' = 0 /\ dogCount' = 0
    IN \E beds \in Signalled("emptyBeds", IF clear THEN 1 ELSE 0) :
          /\ woken' = woken \cup beds \cup Waiting("tooManyAttempts")
          /\ blockedAttempts' = IF clear THEN 0 ELSE blockedAttempts

NotifyElseIfOnly ==
    LET cats == IF catCount' = 0 THEN 1 ELSE 0
    IN \E beds \in Signalled("emptyBeds", 1), forCats \in Signalled("noCats", cats),
          forDogs \in Signalled("noDogs", IF dogCount' = 0 THEN 1 - cats ELSE 0) :
          /\ woken' = woken \cup beds \cup forCats \cup forDogs
          /\ blockedAttempts' = IF catCount' = 0 /\ dogCount' = 0 THEN 0
                                ELSE blockedAttempts

(* petdone(): the signals, sent on the counts it has just updated.          *)
Notify ==
    LET clear == catCount' = 0 /\ dogCount' = 0
        tooMany == clear /\ blockedAttempts > MAX_BLOCKS
        cats == IF clear THEN 2 ELSE IF catCount' = 0 THEN 1 ELSE 0
        dogs == IF dogCount' = 0 THEN 1 ELSE 0
    IN \E beds \in Signalled("emptyBeds", 1), forCats \in Signalled("noCats", cats),
          forDogs \in Signalled("noDogs", dogs) :
          /\ woken' = woken \cup beds \cup forCats \cup forDogs
                      \cup (IF tooMany THEN Waiting("tooManyAttempts") ELSE {})
          /\ blockedAttempts' = IF tooMany THEN 0 ELSE blockedAttempts

Petdone(p) ==
    /\ at[p] = "groomed"
    /\ Discharge(p)
    /\ Notify
    /\ at' = [at EXCEPT ![p] = "gone"]
    /\ UNCHANGED <<totalStations, beenInitialized, kind>>

(* POSIX lets pthread_cond_wait() return without a signal.                  *)
SpuriousWakeup(p) ==
    /\ SpuriousWakeups
    /\ at[p] \in Conditions
    /\ p \notin woken
    /\ woken' = woken \cup {p}
    /\ UNCHANGED <<totalStations, beenInitialized, openStations, counters,
                   blockedAttempts, kind, at>>

Next == \/ \E n \in StationCounts : PetgroomInit(n)
        \/ PetgroomDone
        \/ \E p \in Pets : \/ \E k \in pet_t : Newpet(p, k)
                           \/ Resume(p)
                           \/ Petdone(p)
                           \/ SpuriousWakeup(p)

Spec == Init /\ [][Next]_vars

(* A woken thread gets the mutex at last, and a pet in a station is taken   *)
(* out of it: newThread() calls petdone() after a sleep of fixed length.    *)
FairSpec == Spec /\ \A p \in Pets : WF_vars(Resume(p)) /\ WF_vars(Petdone(p))
------------------------------------------------------------------------------
Groomed == {p \in Pets : at[p] = "groomed"}
OfKind(k) == {p \in Groomed : kind[p] = k}

TypeOK ==
    /\ totalStations \in Nat /\ openStations \in Nat
    /\ beenInitialized \in BOOLEAN
    /\ catCount \in Nat /\ dogCount \in Nat /\ otherCount \in Nat
    /\ blockedAttempts \in Nat
    /\ kind \in [Pets -> pet_t]
    /\ at \in [Pets -> Places]
    /\ woken \in SUBSET {p \in Pets : at[p] \in Conditions}

(* The counters are those of the pets in the stations, and no station is    *)
(* lost or given twice, whatever the threads do between newpet() and        *)
(* petdone(); so petdone() on a groomed pet never takes its -1 returns.     *)
StationAccounting ==
    /\ catCount = Cardinality(OfKind("cat"))
    /\ dogCount = Cardinality(OfKind("dog"))
    /\ otherCount = Cardinality(OfKind("other"))
    /\ openStations + catCount + dogCount + otherCount = totalStations

(* Threads are stopped for too many blocked attempts only while a cat or a  *)
(* dog is being groomed, so that newpet() always has a species to name in   *)
(* the message it prints at line 122, whose pointer is otherwise never set. *)
(* It does not follow that those who are stopped are released: line 124     *)
(* resets the counter, and petdone() then has no reason to broadcast.       *)
AttemptsOnlyWhileOccupied ==
    blockedAttempts > MAX_BLOCKS => catCount > 0 \/ dogCount > 0

(* petdone()'s single signal per station suffices: while a thread sleeps on *)
(* emptyBeds, there is a woken thread on its way to every open station.     *)
NoLostBed ==
    Waiting("emptyBeds") # {}
        => openStations <= Cardinality({p \in woken : at[p] = "emptyBeds"})

(* Cats and dogs are never groomed together, as A3b_Documentation.txt:17    *)
(* has it, in a facility that has a station for every thread.  The          *)
(* exclusion fails, as its known bugs say (line 83), only across a wait for *)
(* a bed, after which newpet() does not test the other species again.       *)
ExclusionWhenAmple ==
    Cardinality(Pets) <= totalStations => catCount = 0 \/ dogCount = 0

(* A thread that waits for a bed or for the other species to clear gets its *)
(* station, even when threads stopped for too many attempts never do.       *)
WaitersServed ==
    \A p \in Pets :
        at[p] \in {"emptyBeds", "noCats", "noDogs"} ~> at[p] = "groomed"

Stations == INSTANCE GroomStations
                WITH stations <- totalStations, inStation <- Groomed

(* The monitor implements the grooming stations.                            *)
ImplementsStations == Stations!Spec
==============================================================================
