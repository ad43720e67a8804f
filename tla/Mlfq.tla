-------------------------------- MODULE Mlfq ---------------------------------
(***************************************************************************)
(* The multi-level feedback queue scheduler of                             *)
(* Assignment_2/B/xv6-riscv/kernel/proc.c on several CPUs.                 *)
(*                                                                         *)
(* scheduler() looks at the process table without any lock and takes the   *)
(* lock of the process it chose before it tests it again, so each look at  *)
(* one process is a step.  What is done under one p->lock is one step, but *)
(* for the time after a process has given up its CPU: its lock is taken by *)
(* yield(), sleep() or exit() and released by scheduler() on that CPU.     *)
(*                                                                         *)
(* Of the processes only what changes p->state is kept.                    *)
(***************************************************************************)
EXTENDS Integers, FiniteSets

CONSTANTS CPUs,
          NPROC,   \* the size of the process table
          MOVEUP,  \* param.h:14
          MTIMES   \* param.h:15

ASSUME MlfqAssumption == /\ NPROC \in Nat \ {0}
                         /\ MOVEUP \in Nat \ {0}
                         /\ MTIMES \in Nat \ {0}

Procs == 1..NPROC
NULL == 0
initproc == 1
procstate == {"UNUSED", "USED", "SLEEPING", "RUNNABLE", "RUNNING", "ZOMBIE"}

(* enum procpriority, proc.h:84 *)
HIGH == 0
MEDIUM == 1
LOW == 2

(* Where scheduler() is on a CPU.  In "run" a process has the CPU; from     *)
(* "switched" to "store" the scheduler holds the lock of the process that   *)
(* gave it up.                                                              *)
Labels == {"top", "refresh", "clear", "reset", "scan", "dispatch", "run",
           "switched", "store"}

VARIABLES
    state, priority, runtime, parent,   \* fields of struct proc
    schedulerCounter,
    at,    \* each CPU's place in scheduler()
    job,   \* each CPU's highPriorityJob, which c->proc is while it runs
    next,  \* each CPU's p1 or p in the two loops over the process table
    temp   \* the register in which schedulerCounter is incremented

procVars == <<state, priority, runtime, parent>>
cpuVars == <<at, job, next, temp>>
vars == <<procVars, schedulerCounter, cpuVars>>

(* userinit() has made the first process.                                   *)
Init == /\ state = [p \in Procs |-> IF p = initproc THEN "RUNNABLE" ELSE "UNUSED"]
        /\ priority = [p \in Procs |-> HIGH]
        /\ runtime = [p \in Procs |-> 0]
        /\ parent = [p \in Procs |-> NULL]
        /\ schedulerCounter = 0
        /\ at = [c \in CPUs |-> "top"]
        /\ job = [c \in CPUs |-> NULL]
        /\ next = [c \in CPUs |-> 1]
        /\ temp = [c \in CPUs |-> 0]

(* runtime and schedulerCounter are compared with MTIMES and MOVEUP for     *)
(* equality only: what is beyond is kept as one value.                      *)
CountUp(n, limit) == IF n > limit THEN n ELSE n + 1

(* The lock of p is held by the scheduler of a CPU that p gave up.          *)
Locked(p) == \E c \in CPUs : at[c] \in {"switched", "store"} /\ job[c] = p

Goto(c, l) == at' = [at EXCEPT ![c] = l]
------------------------------------------------------------------------------
(* The head of scheduler()'s loop.                                          *)
Top(c) ==
    /\ at[c] = "top"
    /\ Goto(c, IF schedulerCounter = MOVEUP THEN "refresh" ELSE "scan")
    /\ job' = [job EXCEPT ![c] = NULL]
    /\ next' = [next EXCEPT ![c] = 1]
    /\ UNCHANGED <<procVars, schedulerCounter, temp>>

(* The loop that refreshes the processes, without p1->lock ...              *)
Refresh(c) ==
    /\ at[c] = "refresh"
    /\ IF next[c] > NPROC
       THEN Goto(c, "reset") /\ UNCHANGED next
       ELSE IF state[next[c]] = "RUNNABLE"
            THEN Goto(c, "clear") /\ UNCHANGED next
            ELSE next' = [next EXCEPT ![c] = @ + 1] /\ UNCHANGED at
    /\ UNCHANGED <<procVars, schedulerCounter, job, temp>>

(* ... and with it, for one that was RUNNABLE.                              *)
Clear(c) ==
    /\ at[c] = "clear"
    /\ ~Locked(next[c])
    /\ runtime' = [runtime EXCEPT ![next[c]] = 0]
    /\ next' = [next EXCEPT ![c] = @ + 1]
    /\ Goto(c, "refresh")
    /\ UNCHANGED <<state, priority, parent, schedulerCounter, job, temp>>

Reset(c) ==
    /\ at[c] = "reset"
    /\ schedulerCounter' = 0
    /\ next' = [next EXCEPT ![c] = 1]
    /\ Goto(c, "scan")
    /\ UNCHANGED <<procVars, job, temp>>

(* The search for the best RUNNABLE process, without any lock.              *)
Scan(c) ==
    LET p == next[c]
        better == /\ state[p] = "RUNNABLE"
                  /\ job[c] = NULL \/ priority[job[c]] > priority[p]
    IN  /\ at[c] = "scan"
        /\ IF p > NPROC
           THEN /\ Goto(c, IF job[c] = NULL THEN "top" ELSE "dispatch")
                /\ UNCHANGED <<job, next>>
           ELSE /\ job' = IF better THEN [job EXCEPT ![c] = p] ELSE job
                /\ next' = [next EXCEPT ![c] = p + 1]
                /\ UNCHANGED at
        /\ UNCHANGED <<procVars, schedulerCounter, temp>>

(* Mutant: the process is not tested again under its lock.                  *)
DispatchUntested(c) ==
    /\ at[c] = "dispatch"
    /\ ~Locked(job[c])
    /\ state' = [state EXCEPT ![job[c]] = "RUNNING"]
    /\ Goto(c, "run")
    /\ UNCHANGED <<priority, runtime, parent, schedulerCounter, job, next, temp>>

(* The chosen process is tested without and with its lock, and gets the CPU.*)
Dispatch(c) ==
    /\ at[c] = "dispatch"
    /\ IF state[job[c]] = "RUNNABLE"
       THEN /\ ~Locked(job[c])
            /\ state' = [state EXCEPT ![job[c]] = "RUNNING"]
            /\ Goto(c, "run")
       ELSE /\ Goto(c, "top")
            /\ UNCHANGED state
    /\ UNCHANGED <<priority, runtime, parent, schedulerCounter, job, next, temp>>

(* Mutants of the demotion: a HIGH process stays HIGH; a MEDIUM process is  *)
(* allowed one run more; every level is left after MTIMES runs, LOW too.    *)
DemotedKeepsHigh(p) ==
    IF priority[p] = MEDIUM /\ runtime[p] = MTIMES THEN LOW ELSE priority[p]

DemotedOneLate(p) == IF priority[p] = HIGH THEN MEDIUM
                     ELSE IF priority[p] = MEDIUM /\ runtime[p] > MTIMES THEN LOW
                     ELSE priority[p]

DemotedBelowLow(p) == IF priority[p] = HIGH \/ runtime[p] = MTIMES THEN priority[p] + 1
                      ELSE priority[p]

(* The level of a process that was run.                                     *)
Demoted(p) == IF priority[p] = HIGH THEN MEDIUM
              ELSE IF priority[p] = MEDIUM /\ runtime[p] = MTIMES THEN LOW
              ELSE priority[p]

(* After swtch(): the accounts of the process, and the load of              *)
(* schedulerCounter++ ...                                                   *)
Switched(c) ==
    LET p == job[c]
    IN  /\ at[c] = "switched"
        /\ priority' = [priority EXCEPT ![p] = Demoted(p)]
        /\ runtime' = [runtime EXCEPT ![p] = CountUp(@, MTIMES)]
        /\ temp' = [temp EXCEPT ![c] = schedulerCounter]
        /\ Goto(c, "store")
        /\ UNCHANGED <<state, parent, schedulerCounter, job, next>>

(* ... its store, and the release of the lock.                              *)
Store(c) ==
    /\ at[c] = "store"
    /\ schedulerCounter' = CountUp(temp[c], MOVEUP)
    /\ temp' = [temp EXCEPT ![c] = 0]
    /\ Goto(c, "top")
    /\ UNCHANGED <<procVars, job, next>>
------------------------------------------------------------------------------
(* A process is inside fork() from its allocproc() on, until the child is   *)
(* RUNNABLE.                                                                *)
Forking(p) == \E q \in Procs : state[q] = "USED" /\ parent[q] = p

(* yield(), sleep() and exit() up to sched(): the process takes its lock,   *)
(* changes its state and gives up the CPU.                                  *)
GiveUp(c, s) ==
    /\ at[c] = "run"
    /\ state' = [state EXCEPT ![job[c]] = s]
    /\ Goto(c, "switched")
    /\ UNCHANGED <<priority, runtime, schedulerCounter, job, next, temp>>

(* The timer interrupt; it may come between the two halves of fork().       *)
Yield(c) == GiveUp(c, "RUNNABLE") /\ UNCHANGED parent

SleepOn(c) == ~Forking(job[c]) /\ GiveUp(c, "SLEEPING") /\ UNCHANGED parent

(* exit() gives the children to init.                                       *)
Exit(c) ==
    /\ job[c] # initproc /\ ~Forking(job[c])
    /\ GiveUp(c, "ZOMBIE")
    /\ parent' = [p \in Procs |-> IF parent[p] = job[c] THEN initproc ELSE parent[p]]

(* The first half of fork(): allocproc() takes an UNUSED slot, the first    *)
(* unless another became free behind it as it looked.  When it or uvmcopy() *)
(* fails the slot is UNUSED again before its lock is released.  The parent, *)
(* set a little later, is looked at only once the child runs.               *)
Alloc(c, p) ==
    /\ at[c] = "run" /\ ~Forking(job[c])
    /\ state[p] = "UNUSED"
    /\ state' = [state EXCEPT ![p] = "USED"]
    /\ priority' = [priority EXCEPT ![p] = HIGH]
    /\ runtime' = [runtime EXCEPT ![p] = 0]
    /\ parent' = [parent EXCEPT ![p] = job[c]]
    /\ UNCHANGED <<schedulerCounter, cpuVars>>

(* The end of fork(). *)
Publish(c, p) ==
    /\ at[c] = "run"
    /\ state[p] = "USED" /\ parent[p] = job[c]
    /\ state' = [state EXCEPT ![p] = "RUNNABLE"]
    /\ UNCHANGED <<priority, runtime, parent, schedulerCounter, cpuVars>>

(* freeproc() *)
Free(p) == /\ state' = [state EXCEPT ![p] = "UNUSED"]
           /\ parent' = [parent EXCEPT ![p] = NULL]

(* Mutant: wait() does not take the lock of the zombie.                     *)
ReapUnlocked(c, p) ==
    /\ at[c] = "run" /\ ~Forking(job[c])
    /\ state[p] = "ZOMBIE" /\ parent[p] = job[c]
    /\ Free(p)
    /\ UNCHANGED <<priority, runtime, schedulerCounter, cpuVars>>

(* wait() and waitstat() take the zombie's lock, to be "sure the child      *)
(* isn't still in exit() or swtch()", and free it.                          *)
Reap(c, p) ==
    /\ at[c] = "run" /\ ~Forking(job[c])
    /\ state[p] = "ZOMBIE" /\ parent[p] = job[c]
    /\ ~Locked(p)
    /\ Free(p)
    /\ UNCHANGED <<priority, runtime, schedulerCounter, cpuVars>>

(* wakeup() and kill(), from a process or an interrupt handler.             *)
WakeUp(p) ==
    /\ state[p] = "SLEEPING"
    /\ ~Locked(p)
    /\ state' = [state EXCEPT ![p] = "RUNNABLE"]
    /\ UNCHANGED <<priority, runtime, parent, schedulerCounter, cpuVars>>

Scheduler(c) == \/ Top(c) \/ Refresh(c) \/ Clear(c) \/ Reset(c)
                \/ Scan(c) \/ Dispatch(c) \/ Switched(c) \/ Store(c)

Next == \/ \E c \in CPUs : \/ Scheduler(c)
                           \/ Yield(c) \/ SleepOn(c) \/ Exit(c)
                           \/ \E p \in Procs : Alloc(c, p) \/ Publish(c, p) \/ Reap(c, p)
        \/ \E p \in Procs : WakeUp(p)

Spec == Init /\ [][Next]_vars

(* Every CPU goes on, and the timer interrupt takes it back from the        *)
(* process that runs.                                                       *)
FairSpec == Spec /\ \A c \in CPUs : WF_vars(Scheduler(c)) /\ WF_vars(Yield(c))
------------------------------------------------------------------------------
TypeOK ==
    /\ state \in [Procs -> procstate]
    /\ priority \in [Procs -> {HIGH, MEDIUM, LOW}]
    /\ runtime \in [Procs -> 0..(MTIMES + 1)]
    /\ parent \in [Procs -> Procs \cup {NULL}]
    /\ schedulerCounter \in 0..(MOVEUP + 1)
    /\ at \in [CPUs -> Labels]
    /\ job \in [CPUs -> Procs \cup {NULL}]
    /\ next \in [CPUs -> 1..(NPROC + 1)]
    /\ temp \in [CPUs -> 0..(MOVEUP + 1)]

(* No two CPUs have the same process, though every CPU chooses without a    *)
(* lock: a process is RUNNING exactly when one CPU runs it, and it is not   *)
(* given to another CPU before the first has switched away from its stack.  *)
OneCpuPerProcess ==
    /\ \A p \in Procs : state[p] = "RUNNING" <=> \E c \in CPUs : at[c] = "run" /\ job[c] = p
    /\ \A c, d \in CPUs :
          /\ at[c] \in {"run", "switched", "store"} /\ at[d] \in {"run", "switched", "store"}
          /\ job[c] = job[d]
          => c = d

(* Each level's allotment, through refreshes that reset runtime at any      *)
(* time: a HIGH process was not run yet, and a MEDIUM one is never run      *)
(* beyond MTIMES, so that the test for equality at proc.c:515 is not missed.*)
LevelAllotments ==
    \A p \in Procs : /\ priority[p] = HIGH => runtime[p] = 0
                     /\ priority[p] = MEDIUM => runtime[p] <= MTIMES

(* A slot of the process table is free only when no CPU is on the kernel    *)
(* stack of the process that had it, or still accounts for it.              *)
FreedOffCpu ==
    \A c \in CPUs : at[c] \in {"run", "switched", "store"} => state[job[c]] # "UNUSED"

(* No step raises the level of a living process: the loop at proc.c:473,    *)
(* which is said to update "all the process priority", resets runtime only, *)
(* and a process moves down by one level at a time, when it was run.        *)
PriorityOnlyFalls ==
    [][\A p \in Procs : priority'[p] # priority[p] =>
          IF state'[p] = "USED" THEN priority'[p] = HIGH
          ELSE /\ priority'[p] = priority[p] + 1
               /\ \E c \in CPUs : at[c] = "switched" /\ job[c] = p]_vars

(* A new process gets a CPU: HIGH processes do not starve.  (A process that *)
(* gave up its CPU is HIGH until the scheduler has done its accounts.)      *)
HighServed ==
    \A p \in Procs :
        state[p] = "RUNNABLE" /\ priority[p] = HIGH /\ ~Locked(p) ~> state[p] = "RUNNING"

(* A2_B_MLFQ_Scheduler_documentation.txt:18: "After a certain schulded      *)
(* (moveup) all the process priority is set as High", and param.h:14, "max  *)
(* number of process after which all the process priorty is refreshed": a   *)
(* process that waits is HIGH some time, or gets a CPU before.  But the     *)
(* refresh leaves it where it is, and it may wait for ever.                 *)
WaitingIsRaised ==
    \A p \in Procs :
        state[p] = "RUNNABLE" ~> (priority[p] = HIGH \/ state[p] # "RUNNABLE")
==============================================================================
