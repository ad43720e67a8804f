----------------------------- MODULE MlfqProofs ------------------------------
(***************************************************************************)
(* Proofs about Mlfq, for every number of CPUs and processes and every     *)
(* MOVEUP and MTIMES.                                                      *)
(*                                                                         *)
(* OneCpuPerProcess is inductive only with what is known of a process that *)
(* is switched off its CPU (SwitchedOff): until scheduler() has released   *)
(* its lock nobody runs, frees or reallocates it.                          *)
(***************************************************************************)
EXTENDS Mlfq, TLAPS

USE DEF HIGH, MEDIUM, LOW, NULL

(* What scheduler() is about to use as a process is one.                    *)
Chosen ==
    /\ \A c \in CPUs : at[c] \in {"dispatch", "run", "switched", "store"} => job[c] \in Procs
    /\ \A c \in CPUs : at[c] = "clear" => next[c] \in Procs

(* A process whose lock scheduler() still holds has left the CPU.           *)
SwitchedOff ==
    \A c \in CPUs : at[c] \in {"switched", "store"} =>
        state[job[c]] \in {"RUNNABLE", "SLEEPING", "ZOMBIE"}

IInv == TypeOK /\ Chosen /\ SwitchedOff /\ OneCpuPerProcess /\ LevelAllotments

(* The counters that stop one past their limit stay in their range.         *)
LEMMA CountUpRange ==
    ASSUME NEW limit \in Nat, NEW n \in 0..(limit + 1)
    PROVE  CountUp(n, limit) \in 0..(limit + 1)
BY DEF CountUp

(* initproc is a process, and the table is not empty.                       *)
LEMMA ProcsFacts == initproc \in Procs /\ 1 \in 1..(NPROC + 1) /\ Procs \subseteq Nat \ {0}
                    /\ 0 \notin Procs
BY MlfqAssumption DEF Procs, initproc
------------------------------------------------------------------------------
LEMMA InitIInv == Init => IInv
<1> SUFFICES ASSUME Init PROVE IInv
  OBVIOUS
<1>1. TypeOK
  BY ProcsFacts, MlfqAssumption DEF Init, TypeOK, procstate, Labels
<1>2. Chosen /\ SwitchedOff
  BY DEF Init, Chosen, SwitchedOff
<1>3. OneCpuPerProcess
  BY DEF Init, OneCpuPerProcess
<1>4. LevelAllotments
  BY DEF Init, LevelAllotments
<1> QED
  BY <1>1, <1>2, <1>3, <1>4 DEF IInv

(* Every step keeps the variables in their ranges.                          *)
LEMMA TypeStep == TypeOK /\ Chosen /\ [Next]_vars => TypeOK'
<1> SUFFICES ASSUME TypeOK, Chosen, [Next]_vars PROVE TypeOK'
  OBVIOUS
<1> USE ProcsFacts, MlfqAssumption
<1>1. ASSUME NEW c \in CPUs, Top(c) PROVE TypeOK'
  BY <1>1 DEF Top, TypeOK, Goto, Labels, procVars
<1>2. ASSUME NEW c \in CPUs, Refresh(c) PROVE TypeOK'
  BY <1>2 DEF Refresh, TypeOK, Goto, Labels, procVars
<1>3. ASSUME NEW c \in CPUs, Clear(c) PROVE TypeOK'
  BY <1>3 DEF Clear, TypeOK, Chosen, Goto, Labels, Procs
<1>4. ASSUME NEW c \in CPUs, Reset(c) PROVE TypeOK'
  BY <1>4 DEF Reset, TypeOK, Goto, Labels, procVars
<1>5. ASSUME NEW c \in CPUs, Scan(c) PROVE TypeOK'
  <2>1. CASE next[c] > NPROC
    BY <1>5, <2>1 DEF Scan, TypeOK, Goto, Labels, procVars
  <2>2. CASE ~(next[c] > NPROC)
    <3>1. next[c] \in Procs /\ next[c] + 1 \in 1..(NPROC + 1)
      BY <2>2 DEF TypeOK, Procs
    <3>2. \/ job' = job
          \/ job' = [job EXCEPT ![c] = next[c]]
      BY <1>5, <2>2 DEF Scan
    <3>3. next' = [next EXCEPT ![c] = next[c] + 1]
          /\ UNCHANGED <<procVars, schedulerCounter, temp, at>>
      BY <1>5, <2>2 DEF Scan
    <3> QED
      BY <3>1, <3>2, <3>3 DEF TypeOK, procVars
  <2> QED
    BY <2>1, <2>2
<1>6. ASSUME NEW c \in CPUs, Dispatch(c) PROVE TypeOK'
  BY <1>6 DEF Dispatch, TypeOK, Chosen, Goto, Labels, procstate
<1>7. ASSUME NEW c \in CPUs, Switched(c) PROVE TypeOK'
  <2> DEFINE p == job[c]
  <2>1. p \in Procs /\ runtime[p] \in 0..(MTIMES + 1) /\ priority[p] \in {HIGH, MEDIUM, LOW}
    BY <1>7 DEF Switched, Chosen, TypeOK
  <2>2. CountUp(runtime[p], MTIMES) \in 0..(MTIMES + 1)
    BY <2>1, CountUpRange
  <2>3. Demoted(p) \in {HIGH, MEDIUM, LOW}
    BY <2>1 DEF Demoted
  <2> QED
    BY <1>7, <2>1, <2>2, <2>3 DEF Switched, TypeOK, Goto, Labels
<1>8. ASSUME NEW c \in CPUs, Store(c) PROVE TypeOK'
  <2>1. CountUp(temp[c], MOVEUP) \in 0..(MOVEUP + 1)
    BY CountUpRange DEF TypeOK
  <2> QED
    BY <1>8, <2>1 DEF Store, TypeOK, Goto, Labels, procVars
<1>9. ASSUME NEW c \in CPUs, Yield(c) \/ SleepOn(c) \/ Exit(c) PROVE TypeOK'
  BY <1>9 DEF Yield, SleepOn, Exit, GiveUp, Goto, TypeOK, Chosen, Labels, procstate
<1>10. ASSUME NEW c \in CPUs, NEW p \in Procs, Alloc(c, p) PROVE TypeOK'
  BY <1>10 DEF Alloc, TypeOK, Chosen, cpuVars, procstate
<1>11. ASSUME NEW c \in CPUs, NEW p \in Procs, Publish(c, p) \/ Reap(c, p) PROVE TypeOK'
  BY <1>11 DEF Publish, Reap, Free, TypeOK, cpuVars, procstate
<1>12. ASSUME NEW p \in Procs, WakeUp(p) PROVE TypeOK'
  BY <1>12 DEF WakeUp, TypeOK, cpuVars, procstate
<1>13. CASE UNCHANGED vars
  BY <1>13 DEF vars, procVars, cpuVars, TypeOK
<1> QED
  BY <1>1, <1>2, <1>3, <1>4, <1>5, <1>6, <1>7, <1>8, <1>9, <1>10, <1>11, <1>12, <1>13
  DEF Next, Scheduler
------------------------------------------------------------------------------
(* A CPU is on the kernel stack of job[c], or still accounts for it.        *)
Occupies(c) == at[c] \in {"run", "switched", "store"}

(* What the search and the refresh do touches neither the processes' states *)
(* nor the CPUs that run one.                                               *)
LEMMA LooksStep ==
    ASSUME IInv, NEW c \in CPUs, Top(c) \/ Refresh(c) \/ Clear(c) \/ Reset(c) \/ Scan(c)
    PROVE  Chosen' /\ SwitchedOff' /\ OneCpuPerProcess' /\ LevelAllotments'
<1> USE ProcsFacts, MlfqAssumption
<1>1. /\ UNCHANGED <<state, priority>>
      /\ \A d \in CPUs \ {c} : at'[d] = at[d] /\ job'[d] = job[d] /\ next'[d] = next[d]
      /\ at'[c] \in Labels \ {"run", "switched", "store"}
      /\ at[c] \in Labels \ {"run", "switched", "store"}
  BY DEF Top, Refresh, Clear, Reset, Scan, Goto, procVars, IInv, TypeOK, Labels
<1>2. at'[c] = "dispatch" => job'[c] \in Procs
  BY DEF Top, Refresh, Clear, Reset, Scan, Goto, IInv, TypeOK
<1>3. at'[c] = "clear" => next'[c] \in Procs
  BY DEF Top, Refresh, Clear, Reset, Scan, Goto, IInv, TypeOK, Procs
<1>4. Chosen'
  BY <1>1, <1>2, <1>3 DEF IInv, Chosen, Labels
<1>5. SwitchedOff'
  BY <1>1 DEF IInv, SwitchedOff, Labels
<1>6. OneCpuPerProcess'
  BY <1>1 DEF IInv, OneCpuPerProcess, Labels
<1>7. LevelAllotments'
  <2>1. runtime' = runtime \/ (\E p \in Procs : runtime' = [runtime EXCEPT ![p] = 0])
    BY DEF Top, Refresh, Clear, Reset, Scan, procVars, IInv, Chosen
  <2> QED
    BY <1>1, <2>1 DEF IInv, TypeOK, LevelAllotments
<1> QED
  BY <1>4, <1>5, <1>6, <1>7

(* A process is given to a CPU only when no other CPU has it.               *)
LEMMA DispatchStep ==
    ASSUME IInv, NEW c \in CPUs, Dispatch(c)
    PROVE  Chosen' /\ SwitchedOff' /\ OneCpuPerProcess' /\ LevelAllotments'
<1>1. at[c] = "dispatch" /\ job[c] \in Procs
  BY DEF Dispatch, IInv, Chosen
<1>2. UNCHANGED <<priority, runtime, job, next>>
  BY DEF Dispatch
<1>3. CASE state[job[c]] = "RUNNABLE"
  <2>1. /\ ~Locked(job[c])
        /\ state' = [state EXCEPT ![job[c]] = "RUNNING"]
        /\ at' = [at EXCEPT ![c] = "run"]
    BY <1>3 DEF Dispatch, Goto
  <2>2. \A d \in CPUs : Occupies(d) => job[d] # job[c]
    BY <1>1, <1>3, <2>1 DEF Locked, IInv, OneCpuPerProcess, Occupies
  <2>3. Chosen'
    BY <1>1, <1>2, <2>1 DEF IInv, Chosen, TypeOK
  <2>4. SwitchedOff'
    BY <1>1, <1>2, <2>1, <2>2 DEF IInv, SwitchedOff, TypeOK, Occupies, Chosen
  <2>5. OneCpuPerProcess'
    BY <1>1, <1>2, <2>1, <2>2 DEF IInv, OneCpuPerProcess, TypeOK, Occupies
  <2> QED
    BY <1>2, <2>3, <2>4, <2>5 DEF IInv, LevelAllotments
<1>4. CASE state[job[c]] # "RUNNABLE"
  BY <1>1, <1>2, <1>4 DEF Dispatch, Goto, IInv, TypeOK, Chosen, SwitchedOff,
     OneCpuPerProcess, LevelAllotments
<1> QED
  BY <1>3, <1>4

(* The accounts of a process that gave up its CPU.                          *)
LEMMA SwitchedStep ==
    ASSUME IInv, NEW c \in CPUs, Switched(c)
    PROVE  Chosen' /\ SwitchedOff' /\ OneCpuPerProcess' /\ LevelAllotments'
<1> DEFINE p == job[c]
<1>1. at[c] = "switched" /\ p \in Procs
  BY DEF Switched, IInv, Chosen
<1>2. at' = [at EXCEPT ![c] = "store"] /\ UNCHANGED <<state, job, next>>
  BY DEF Switched, Goto
<1>3. Chosen' /\ SwitchedOff'
  BY <1>1, <1>2 DEF IInv, TypeOK, Chosen, SwitchedOff
<1>4. OneCpuPerProcess'
  BY <1>1, <1>2 DEF IInv, TypeOK, OneCpuPerProcess
<1>5. LevelAllotments'
  <2>1. priority' = [priority EXCEPT ![p] = Demoted(p)]
        /\ runtime' = [runtime EXCEPT ![p] = CountUp(runtime[p], MTIMES)]
    BY DEF Switched
  <2>2. Demoted(p) # HIGH
    BY <1>1 DEF Demoted, IInv, TypeOK
  <2>3. Demoted(p) = MEDIUM => CountUp(runtime[p], MTIMES) <= MTIMES
    BY <1>1, MlfqAssumption DEF Demoted, CountUp, IInv, TypeOK, LevelAllotments
  <2> QED
    BY <1>1, <2>1, <2>2, <2>3 DEF IInv, TypeOK, LevelAllotments
<1> QED
  BY <1>3, <1>4, <1>5

LEMMA StoreStep ==
    ASSUME IInv, NEW c \in CPUs, Store(c)
    PROVE  Chosen' /\ SwitchedOff' /\ OneCpuPerProcess' /\ LevelAllotments'
<1>1. at' = [at EXCEPT ![c] = "top"] /\ at[c] = "store"
      /\ UNCHANGED <<state, priority, runtime, job, next>>
  BY DEF Store, Goto, procVars
<1> QED
  BY <1>1 DEF IInv, TypeOK, Chosen, SwitchedOff, OneCpuPerProcess, LevelAllotments

(* yield(), sleep() and exit() leave the CPU with the process still locked. *)
LEMMA GiveUpStep ==
    ASSUME IInv, NEW c \in CPUs, Yield(c) \/ SleepOn(c) \/ Exit(c)
    PROVE  Chosen' /\ SwitchedOff' /\ OneCpuPerProcess' /\ LevelAllotments'
<1>1. PICK s \in {"RUNNABLE", "SLEEPING", "ZOMBIE"} : GiveUp(c, s)
  BY DEF Yield, SleepOn, Exit
<1>2. /\ at[c] = "run" /\ job[c] \in Procs
      /\ state' = [state EXCEPT ![job[c]] = s]
      /\ at' = [at EXCEPT ![c] = "switched"]
      /\ UNCHANGED <<priority, runtime, job, next>>
  BY <1>1 DEF GiveUp, Goto, IInv, Chosen
<1>3. \A d \in CPUs \ {c} : Occupies(d) => job[d] # job[c]
  BY <1>2 DEF IInv, OneCpuPerProcess, Occupies
<1>4. Chosen'
  BY <1>2 DEF IInv, TypeOK, Chosen
<1>5. SwitchedOff'
  BY <1>2, <1>3 DEF IInv, TypeOK, Chosen, SwitchedOff, Occupies
<1>6. OneCpuPerProcess'
  BY <1>2, <1>3 DEF IInv, TypeOK, OneCpuPerProcess, Occupies
<1> QED
  BY <1>2, <1>4, <1>5, <1>6 DEF IInv, LevelAllotments

(* fork(), wait(), wakeup() and kill() change the state of a process that   *)
(* no CPU has, and never to RUNNING.                                        *)
LEMMA OthersStep ==
    ASSUME IInv, NEW p \in Procs,
           WakeUp(p) \/ \E c \in CPUs : Alloc(c, p) \/ Publish(c, p) \/ Reap(c, p)
    PROVE  Chosen' /\ SwitchedOff' /\ OneCpuPerProcess' /\ LevelAllotments'
<1>1. PICK s \in procstate \ {"RUNNING"} : state' = [state EXCEPT ![p] = s]
  BY DEF WakeUp, Alloc, Publish, Reap, Free, procstate
<1>2. UNCHANGED <<at, job, next>> /\ state[p] # "RUNNING"
  BY DEF WakeUp, Alloc, Publish, Reap, cpuVars
<1>3. ~Locked(p)
  BY DEF WakeUp, Alloc, Publish, Reap, Locked, IInv, SwitchedOff
<1>4. \A c \in CPUs : Occupies(c) => job[c] # p
  BY <1>2, <1>3 DEF Occupies, Locked, IInv, OneCpuPerProcess
<1>5. Chosen'
  BY <1>2 DEF IInv, Chosen
<1>6. SwitchedOff'
  BY <1>1, <1>2, <1>4 DEF IInv, TypeOK, Chosen, SwitchedOff, Occupies
<1>7. OneCpuPerProcess'
  BY <1>1, <1>2, <1>4 DEF IInv, TypeOK, OneCpuPerProcess, Occupies
<1>8. LevelAllotments'
  <2>1. \/ UNCHANGED <<priority, runtime>>
        \/ /\ priority' = [priority EXCEPT ![p] = HIGH]
           /\ runtime' = [runtime EXCEPT ![p] = 0]
    BY DEF WakeUp, Alloc, Publish, Reap
  <2> QED
    BY <2>1 DEF IInv, TypeOK, LevelAllotments
<1> QED
  BY <1>5, <1>6, <1>7, <1>8

LEMMA IInvStep == IInv /\ [Next]_vars => IInv'
<1> SUFFICES ASSUME IInv, [Next]_vars PROVE IInv'
  OBVIOUS
<1>1. TypeOK'
  BY TypeStep DEF IInv
<1>2. Chosen' /\ SwitchedOff' /\ OneCpuPerProcess' /\ LevelAllotments'
  <2>1. CASE UNCHANGED vars
    BY <2>1 DEF vars, procVars, cpuVars, IInv, Chosen, SwitchedOff, OneCpuPerProcess,
       LevelAllotments
  <2>2. ASSUME NEW c \in CPUs, Scheduler(c)
        PROVE  Chosen' /\ SwitchedOff' /\ OneCpuPerProcess' /\ LevelAllotments'
    BY <2>2, LooksStep, DispatchStep, SwitchedStep, StoreStep DEF Scheduler
  <2> QED
    BY <2>1, <2>2, GiveUpStep, OthersStep DEF Next
<1> QED
  BY <1>1, <1>2 DEF IInv

(* The inductive invariant.                                                 *)
THEOREM Invariance == Spec => []IInv
<1>1. Init => IInv
  BY InitIInv
<1>2. IInv /\ [Next]_vars => IInv'
  BY IInvStep
<1> QED
  BY <1>1, <1>2, PTL DEF Spec
------------------------------------------------------------------------------
(* Every variable of scheduler() and of the process table keeps its range.  *)
THEOREM TypeCorrect == Spec => []TypeOK
<1>1. IInv => TypeOK
  BY DEF IInv
<1> QED
  BY <1>1, Invariance, PTL

(* Two CPUs never run the same process, nor use its kernel stack.           *)
THEOREM OneCpuCorrect == Spec => []OneCpuPerProcess
<1>1. IInv => OneCpuPerProcess
  BY DEF IInv
<1> QED
  BY <1>1, Invariance, PTL

(* No process outstays the allotment of its level.                          *)
THEOREM AllotmentsCorrect == Spec => []LevelAllotments
<1>1. IInv => LevelAllotments
  BY DEF IInv
<1> QED
  BY <1>1, Invariance, PTL

(* wait() never frees a process whose stack is still in use.                *)
THEOREM FreedCorrect == Spec => []FreedOffCpu
<1>1. IInv => FreedOffCpu
  BY DEF IInv, FreedOffCpu, OneCpuPerProcess, SwitchedOff, Chosen
<1> QED
  BY <1>1, Invariance, PTL

(* A step changes the level of a process only as PriorityOnlyFalls says.    *)
FallsOnly ==
    \A p \in Procs : priority'[p] # priority[p] =>
        IF state'[p] = "USED" THEN priority'[p] = HIGH
        ELSE /\ priority'[p] = priority[p] + 1
             /\ \E c \in CPUs : at[c] = "switched" /\ job[c] = p

LEMMA FallsStep == IInv /\ [Next]_vars => FallsOnly \/ UNCHANGED vars
<1> SUFFICES ASSUME IInv, Next PROVE FallsOnly
  OBVIOUS
<1>1. CASE priority' = priority
  BY <1>1 DEF FallsOnly
<1>2. ASSUME NEW c \in CPUs, Switched(c) PROVE FallsOnly
  <2> DEFINE p == job[c]
  <2>1. at[c] = "switched" /\ p \in Procs /\ state' = state
    BY <1>2 DEF Switched, IInv, Chosen
  <2>2. priority' = [priority EXCEPT ![p] = Demoted(p)]
    BY <1>2 DEF Switched
  <2>3. Demoted(p) \in {priority[p], priority[p] + 1}
    BY <2>1 DEF Demoted, IInv, TypeOK
  <2>4. state'[p] # "USED"
    BY <2>1 DEF IInv, SwitchedOff
  <2> QED
    BY <2>1, <2>2, <2>3, <2>4 DEF FallsOnly, IInv, TypeOK
<1>3. ASSUME NEW c \in CPUs, NEW p \in Procs, Alloc(c, p) PROVE FallsOnly
  BY <1>3 DEF Alloc, FallsOnly, IInv, TypeOK
<1>4. \/ priority' = priority
      \/ \E c \in CPUs : Switched(c) \/ \E p \in Procs : Alloc(c, p)
  BY DEF Next, Scheduler, Top, Refresh, Clear, Reset, Scan, Dispatch, Store, Yield,
     SleepOn, Exit, GiveUp, Publish, Reap, WakeUp, procVars
<1> QED
  BY <1>1, <1>2, <1>3, <1>4

(* A process never rises, whatever refreshes happen while it lives, for all *)
(* sizes of the table and all limits: what WaitingIsRaised asks for never   *)
(* comes from a refresh.                                                    *)
THEOREM FallsCorrect == Spec => PriorityOnlyFalls
<1>1. IInv /\ [Next]_vars => [FallsOnly]_vars
  BY FallsStep
<1>2. Spec => [][FallsOnly]_vars
  BY <1>1, Invariance, PTL DEF Spec
<1> QED
  BY <1>2 DEF PriorityOnlyFalls, FallsOnly
==============================================================================
