------------------------------ MODULE ProcTree -------------------------------
(***************************************************************************)
(* fork(), exit(), wait(), waitstat() and kill() of                        *)
(* Assignment_2/B/xv6-riscv/kernel/proc.c, with the wait_lock and the      *)
(* sleep and wakeup() of parents.                                          *)
(*                                                                         *)
(* A parent pointer changes only under wait_lock, p->state only under      *)
(* p->lock.  So a step is what a process does between two changes another  *)
(* process can see: the parts of fork() before and after it sets the       *)
(* parent, exit()'s reparent(), its wakeup() and its death.  Which of the  *)
(* RUNNABLE processes have a CPU is the subject of Mlfq; here each of them *)
(* goes on at any time, and RUNNING is not told apart.                     *)
(***************************************************************************)
EXTENDS Integers

CONSTANTS NPROC,     \* the size of the process table
          MaxCalls   \* bound on the calls of fork() and wait(), but for init's wait()

ASSUME ProcTreeAssumption == NPROC \in Nat \ {0} /\ MaxCalls \in Nat

Procs == 1..NPROC
NULL == 0
initproc == 1
procstate == {"UNUSED", "USED", "SLEEPING", "RUNNABLE", "ZOMBIE"}
PCs == {"user", "adopt", "publish", "exit", "reparent", "wakeup", "die", "dead",
        "wait", "scan", "sleep"}

VARIABLES
    state, parent, killed,  \* fields of struct proc
    wait_lock,              \* the process that holds it, or NULL
    switching,  \* processes that are asleep or dead but whose lock scheduler()
                \* has still to release
    pc,         \* where each process is in its system call
    np,         \* fork()'s np
    calls

vars == <<state, parent, killed, wait_lock, switching, pc, np, calls>>

Init == /\ state = [p \in Procs |-> IF p = initproc THEN "RUNNABLE" ELSE "UNUSED"]
        /\ parent = [p \in Procs |-> NULL]
        /\ killed = [p \in Procs |-> FALSE]
        /\ wait_lock = NULL
        /\ switching = {}
        /\ pc = [p \in Procs |-> "user"]
        /\ np = [p \in Procs |-> NULL]
        /\ calls = 0

GoTo(p, l) == pc' = [pc EXCEPT ![p] = l]

(* A process in user space that was killed does no other call than exit().  *)
Calling(p) == state[p] = "RUNNABLE" /\ pc[p] = "user" /\ ~killed[p]

Count == calls < MaxCalls /\ calls' = calls + 1

(* Mutant: the search of the table stops one short.                         *)
ChildrenButLast(p) == {q \in Procs \ {NPROC} : parent[q] = p}

Children(p) == {q \in Procs : parent[q] = p}
------------------------------------------------------------------------------
(* fork(): allocproc() takes a free slot ...                                *)
Fork(p, q) ==
    /\ Calling(p) /\ Count
    /\ state[q] = "UNUSED"
    /\ state' = [state EXCEPT ![q] = "USED"]
    /\ np' = [np EXCEPT ![p] = q]
    /\ GoTo(p, "adopt")
    /\ UNCHANGED <<parent, killed, wait_lock, switching>>

(* ... the child gets its parent ...                                        *)
Adopt(p) ==
    /\ pc[p] = "adopt"
    /\ wait_lock = NULL
    /\ parent' = [parent EXCEPT ![np[p]] = p]
    /\ GoTo(p, "publish")
    /\ UNCHANGED <<state, killed, wait_lock, switching, np, calls>>

(* ... and is made RUNNABLE.                                                *)
Publish(p) ==
    /\ pc[p] = "publish"
    /\ state' = [state EXCEPT ![np[p]] = "RUNNABLE"]
    /\ np' = [np EXCEPT ![p] = NULL]
    /\ GoTo(p, "user")
    /\ UNCHANGED <<parent, killed, wait_lock, switching, calls>>
------------------------------------------------------------------------------
(* exit(), called by the process or, when it was killed, by usertrap().     *)
Exit(p) ==
    /\ state[p] = "RUNNABLE" /\ pc[p] = "user" /\ p # initproc
    /\ GoTo(p, "exit")
    /\ UNCHANGED <<state, parent, killed, wait_lock, switching, np, calls>>

(* acquire(&wait_lock) of exit() and of wait(), where a process that slept  *)
(* goes on.                                                                 *)
Acquire(p) ==
    /\ state[p] = "RUNNABLE" /\ pc[p] \in {"exit", "wait"}
    /\ wait_lock = NULL
    /\ wait_lock' = p
    /\ GoTo(p, IF pc[p] = "exit" THEN "reparent" ELSE "scan")
    /\ UNCHANGED <<state, parent, killed, switching, np, calls>>

(* wakeup(r) for the channel only r sleeps on.                              *)
Woken(r) == IF state[r] = "SLEEPING" THEN [state EXCEPT ![r] = "RUNNABLE"] ELSE state

(* Mutant of reparent(): only dead children are given to init.              *)
ReparentZombies(p) ==
    /\ pc[p] = "reparent"
    /\ parent' = [q \in Procs |-> IF parent[q] = p /\ state[q] = "ZOMBIE" THEN initproc
                                  ELSE parent[q]]
    /\ state' = Woken(initproc)
    /\ GoTo(p, "wakeup")
    /\ UNCHANGED <<killed, wait_lock, switching, np, calls>>

(* reparent()                                                               *)
Reparent(p) ==
    /\ pc[p] = "reparent"
    /\ parent' = [q \in Procs |-> IF parent[q] = p THEN initproc ELSE parent[q]]
    /\ IF Children(p) # {}
       THEN initproc \notin switching /\ state' = Woken(initproc)
       ELSE UNCHANGED state
    /\ GoTo(p, "wakeup")
    /\ UNCHANGED <<killed, wait_lock, switching, np, calls>>

(* Mutant: wait_lock is released before the process is a ZOMBIE.            *)
WakeParentAndRelease(p) ==
    /\ pc[p] = "wakeup"
    /\ parent[p] \notin switching
    /\ state' = Woken(parent[p])
    /\ wait_lock' = NULL
    /\ GoTo(p, "die")
    /\ UNCHANGED <<parent, killed, switching, np, calls>>

(* wakeup(p->parent), which takes the parent's lock.                        *)
WakeParent(p) ==
    /\ pc[p] = "wakeup"
    /\ parent[p] \notin switching
    /\ state' = Woken(parent[p])
    /\ GoTo(p, "die")
    /\ UNCHANGED <<parent, killed, wait_lock, switching, np, calls>>

Die(p) ==
    /\ pc[p] = "die"
    /\ state' = [state EXCEPT ![p] = "ZOMBIE"]
    /\ wait_lock' = NULL
    /\ switching' = switching \cup {p}
    /\ GoTo(p, "dead")
    /\ UNCHANGED <<parent, killed, np, calls>>

(* scheduler() releases the lock of a process that switched to it.          *)
Switched(p) ==
    /\ p \in switching
    /\ switching' = switching \ {p}
    /\ UNCHANGED <<state, parent, killed, wait_lock, pc, np, calls>>
------------------------------------------------------------------------------
(* wait() and waitstat()                                                    *)
Wait(p) ==
    /\ Calling(p)
    /\ IF p = initproc THEN UNCHANGED calls ELSE Count
    /\ GoTo(p, "wait")
    /\ UNCHANGED <<state, parent, killed, wait_lock, switching, np>>

Zombies(p) == {q \in Children(p) : state[q] = "ZOMBIE"}

(* Mutant: the child may not have switched away.                            *)
FoundEarly(p, q) == q \in Zombies(p) /\ \A r \in Zombies(p) : q <= r

(* The dead child that the search of wait() stops at: the first one, when   *)
(* it has switched away and released its lock.                              *)
Found(p, q) == /\ q \in Zombies(p) \ switching
               /\ \A r \in Zombies(p) : q <= r

(* freeproc() of that child, and the return of its pid.                     *)
Reap(p, q) ==
    /\ pc[p] = "scan"
    /\ Found(p, q)
    /\ state' = [state EXCEPT ![q] = "UNUSED"]
    /\ parent' = [parent EXCEPT ![q] = NULL]
    /\ killed' = [killed EXCEPT ![q] = FALSE]
    /\ pc' = [pc EXCEPT ![p] = "user", ![q] = "user"]
    /\ wait_lock' = NULL
    /\ UNCHANGED <<switching, np, calls>>

(* wait() returns -1: without children, when killed, or when the copyout()  *)
(* of a dead child's status fails (init asks for none).                     *)
GiveUp(p) ==
    /\ pc[p] = "scan"
    /\ \/ Zombies(p) = {} /\ (Children(p) = {} \/ killed[p])
       \/ p # initproc /\ \E q \in Procs : Found(p, q)
    /\ wait_lock' = NULL
    /\ GoTo(p, "user")
    /\ UNCHANGED <<state, parent, killed, switching, np, calls>>

NoneDead(p) ==
    /\ pc[p] = "scan"
    /\ Zombies(p) = {} /\ Children(p) # {} /\ ~killed[p]
    /\ GoTo(p, "sleep")
    /\ UNCHANGED <<state, parent, killed, wait_lock, switching, np, calls>>

(* sleep(p, &wait_lock)                                                     *)
Sleep(p) ==
    /\ pc[p] = "sleep"
    /\ state' = [state EXCEPT ![p] = "SLEEPING"]
    /\ switching' = switching \cup {p}
    /\ wait_lock' = NULL
    /\ GoTo(p, "wait")
    /\ UNCHANGED <<parent, killed, np, calls>>

(* kill() of any process that has a pid.  (init is not killed: its exit     *)
(* is a panic.)                                                             *)
Kill(q) ==
    /\ q # initproc
    /\ state[q] # "UNUSED" /\ q \notin switching
    /\ killed' = [killed EXCEPT ![q] = TRUE]
    /\ state' = Woken(q)
    /\ UNCHANGED <<parent, wait_lock, switching, pc, np, calls>>

InKernel(p) == \/ Adopt(p) \/ Publish(p)
               \/ Acquire(p) \/ Reparent(p) \/ WakeParent(p) \/ Die(p) \/ Switched(p)
               \/ \E q \in Procs : Reap(p, q)
               \/ GiveUp(p) \/ NoneDead(p) \/ Sleep(p)

Next == \E p \in Procs : \/ Exit(p) \/ Wait(p) \/ Kill(p)
                         \/ \E q \in Procs : Fork(p, q)
                         \/ InKernel(p)

Spec == Init /\ [][Next]_vars

(* Processes in the kernel go on, and init waits in a loop (user/init.c).   *)
FairSpec == Spec /\ WF_vars(Wait(initproc)) /\ \A p \in Procs : WF_vars(InKernel(p))
------------------------------------------------------------------------------
TypeOK ==
    /\ state \in [Procs -> procstate]
    /\ parent \in [Procs -> Procs \cup {NULL}]
    /\ killed \in [Procs -> BOOLEAN]
    /\ wait_lock \in Procs \cup {NULL}
    /\ switching \in SUBSET {p \in Procs : state[p] \in {"SLEEPING", "ZOMBIE"}}
    /\ pc \in [Procs -> PCs]
    /\ np \in [Procs -> Procs \cup {NULL}]
    /\ calls \in 0..MaxCalls

(* "helps ensure that wakeups of wait()ing parents are not lost" (proc.c:   *)
(* 25): no parent is asleep in wait() beside a dead child, also not init    *)
(* beside one it inherited.                                                 *)
NoZombieMissed == \A p \in Procs : state[p] = "SLEEPING" => Zombies(p) = {}

(* A process that lives, or is dead and was not reaped, has a living parent *)
(* that can reap it, whatever forks and exits race.                         *)
LivingParents ==
    \A q \in Procs \ {initproc} :
        state[q] \in {"RUNNABLE", "SLEEPING", "ZOMBIE"} =>
            parent[q] # NULL /\ state[parent[q]] \in {"RUNNABLE", "SLEEPING"}

(* What init inherits or forked it reaps, once the other processes have     *)
(* made their calls.                                                        *)
OrphansReaped ==
    \A q \in Procs : state[q] = "ZOMBIE" /\ parent[q] = initproc ~> state[q] = "UNUSED"

Living == {p \in Procs : state[p] \in {"RUNNABLE", "SLEEPING"}}
Dead == {p \in Procs : state[p] = "ZOMBIE"}

Forest == INSTANCE ProcessForest
              WITH init <- initproc, living <- Living, dead <- Dead,
                   leaving <- {p \in Procs : pc[p] \in {"wakeup", "die"}},
                   child <- {<<q, parent[q]>> : q \in (Living \cup Dead) \ {initproc}}

(* Processes and their parents change only as in ProcessForest.             *)
ImplementsForest == Forest!Spec
==============================================================================
