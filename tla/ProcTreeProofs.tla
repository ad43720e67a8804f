--------------------------- MODULE ProcTreeProofs ----------------------------
(***************************************************************************)
(* Proofs about ProcTree, for every size of the process table.             *)
(*                                                                         *)
(* LivingParents is inductive only with Childless: from reparent() on no   *)
(* process has the exiting one as its parent, because fork() sets parents  *)
(* under wait_lock.  NoZombieMissed is inductive only with Awake: between  *)
(* its wakeup() and the death of its child a parent cannot go to sleep,    *)
(* because wait() holds wait_lock from its search until sleep().           *)
(***************************************************************************)
EXTENDS ProcTree, TLAPS

USE DEF NULL

(* Where a process can be in each state.                                    *)
Where ==
    /\ \A p \in Procs :
        /\ pc[p] \in PCs \ {"user", "wait", "dead"} => state[p] = "RUNNABLE"
        /\ state[p] = "SLEEPING" => pc[p] = "wait"
        /\ state[p] = "ZOMBIE" <=> pc[p] = "dead"
        /\ state[p] \in {"UNUSED", "USED"} => pc[p] = "user"
    /\ state[initproc] \in {"RUNNABLE", "SLEEPING"}
    /\ pc[initproc] \notin {"exit", "reparent", "wakeup", "die"}

(* wait_lock is held from exit()'s reparent() until its death and from      *)
(* wait()'s search until it returns or sleeps.                              *)
Locked ==
    \A p \in Procs : pc[p] \in {"reparent", "wakeup", "die", "scan", "sleep"} => wait_lock = p

(* A slot that fork() fills is USED, and filled by one process only.        *)
NewChild ==
    \A p \in Procs : pc[p] \in {"adopt", "publish"} =>
        /\ np[p] \in Procs
        /\ state[np[p]] = "USED"
        /\ pc[p] = "publish" => parent[np[p]] = p
        /\ \A r \in Procs \ {p} : pc[r] \in {"adopt", "publish"} => np[r] # np[p]

(* A process that gave its children to init has none.                       *)
Childless ==
    \A p, q \in Procs : pc[p] \in {"wakeup", "die", "dead"} => parent[q] # p

(* A parent is awake when its child dies, and nobody dies beside one that   *)
(* is about to sleep.                                                       *)
Awake ==
    /\ \A p \in Procs : pc[p] = "die" => state[parent[p]] # "SLEEPING"
    /\ \A p, q \in Procs : pc[p] = "sleep" /\ parent[q] = p => state[q] # "ZOMBIE"

IInv == TypeOK /\ Where /\ Locked /\ NewChild /\ Childless /\ LivingParents /\ Awake
        /\ NoZombieMissed

LEMMA ProcsFacts == initproc \in Procs /\ 0 \notin Procs
BY ProcTreeAssumption DEF Procs, initproc
------------------------------------------------------------------------------
LEMMA InitIInv == Init => IInv
BY ProcsFacts, ProcTreeAssumption
DEF Init, IInv, TypeOK, Where, Locked, NewChild, Childless, LivingParents, Awake,
    NoZombieMissed, Zombies, Children, procstate, PCs

(* fork() takes a slot nobody uses.                                        *)
LEMMA ForkStep ==
    ASSUME IInv, NEW p \in Procs, NEW q \in Procs, Fork(p, q)
    PROVE  IInv'
<1> USE ProcsFacts DEF IInv
<1>0. calls' \in 0..MaxCalls
  BY ProcTreeAssumption DEF Fork, Count, TypeOK
<1>1. TypeOK'
  BY <1>0 DEF Fork, procstate, PCs, GoTo, TypeOK
<1>2. Where'
  BY DEF Fork, Where, Calling, GoTo, TypeOK
<1>3. Locked'
  BY DEF Fork, Locked, GoTo, TypeOK
<1>4. NewChild'
  BY DEF Fork, NewChild, GoTo, TypeOK
<1>5. Childless'
  BY DEF Fork, Childless, GoTo, TypeOK
<1>6. LivingParents'
  BY DEF Fork, LivingParents, TypeOK
<1>7. Awake'
  BY DEF Fork, Awake, GoTo, TypeOK
<1>8. NoZombieMissed'
  BY DEF Fork, NoZombieMissed, Zombies, Children, TypeOK
<1> QED
  BY <1>1, <1>2, <1>3, <1>4, <1>5, <1>6, <1>7, <1>8

(* The parent of the new child is in fork(), and holds no lock an exit() waits for.*)
LEMMA AdoptStep ==
    ASSUME IInv, NEW p \in Procs, Adopt(p)
    PROVE  IInv'
<1> USE ProcsFacts DEF IInv
<1>1. TypeOK'
  BY DEF Adopt, PCs, GoTo, TypeOK
<1>2. Where'
  BY DEF Adopt, Where, GoTo, TypeOK
<1>3. Locked'
  BY DEF Adopt, Locked, GoTo, TypeOK
<1>4. NewChild'
  BY DEF Adopt, NewChild, GoTo, TypeOK
<1>5. Childless'
  BY DEF Adopt, Childless, GoTo, TypeOK
<1>6. LivingParents'
  BY DEF Adopt, NewChild, LivingParents, TypeOK
<1>7. Awake'
  BY DEF Adopt, Where, Awake, GoTo, TypeOK
<1>8. NoZombieMissed'
  BY DEF Adopt, NewChild, NoZombieMissed, Zombies, Children, TypeOK
<1> QED
  BY <1>1, <1>2, <1>3, <1>4, <1>5, <1>6, <1>7, <1>8

(* The child joins the living, as its parent does.                         *)
LEMMA PublishStep ==
    ASSUME IInv, NEW p \in Procs, Publish(p)
    PROVE  IInv'
<1> USE ProcsFacts DEF IInv
<1>1. TypeOK'
  BY DEF Publish, NewChild, procstate, PCs, GoTo, TypeOK
<1>2. Where'
  BY DEF Publish, Where, NewChild, GoTo, TypeOK
<1>3. Locked'
  BY DEF Publish, Locked, GoTo, TypeOK
<1>4. NewChild'
  BY DEF Publish, NewChild, GoTo, TypeOK
<1>5. Childless'
  BY DEF Publish, Childless, GoTo, TypeOK
<1>6. LivingParents'
  BY DEF Publish, Where, NewChild, LivingParents, TypeOK
<1>7. Awake'
  BY DEF Publish, Awake, GoTo, TypeOK
<1>8. NoZombieMissed'
  BY DEF Publish, NoZombieMissed, Zombies, Children, TypeOK
<1> QED
  BY <1>1, <1>2, <1>3, <1>4, <1>5, <1>6, <1>7, <1>8

LEMMA ExitStep ==
    ASSUME IInv, NEW p \in Procs, Exit(p)
    PROVE  IInv'
<1> USE ProcsFacts DEF IInv
<1>1. TypeOK'
  BY DEF Exit, PCs, GoTo, TypeOK
<1>2. Where'
  BY DEF Exit, Where, GoTo, TypeOK
<1>3. Locked'
  BY DEF Exit, Locked, GoTo, TypeOK
<1>4. NewChild'
  BY DEF Exit, NewChild, GoTo, TypeOK
<1>5. Childless'
  BY DEF Exit, Childless, GoTo, TypeOK
<1>6. LivingParents'
  BY DEF Exit, LivingParents
<1>7. Awake'
  BY DEF Exit, Awake, GoTo, TypeOK
<1>8. NoZombieMissed'
  BY DEF Exit, NoZombieMissed, Zombies, Children
<1> QED
  BY <1>1, <1>2, <1>3, <1>4, <1>5, <1>6, <1>7, <1>8

LEMMA AcquireStep ==
    ASSUME IInv, NEW p \in Procs, Acquire(p)
    PROVE  IInv'
<1> USE ProcsFacts DEF IInv
<1>1. TypeOK'
  BY DEF Acquire, PCs, GoTo, TypeOK
<1>2. Where'
  BY DEF Acquire, Where, GoTo, TypeOK
<1>3. Locked'
  BY DEF Acquire, Locked, GoTo, TypeOK
<1>4. NewChild'
  BY DEF Acquire, NewChild, GoTo, TypeOK
<1>5. Childless'
  BY DEF Acquire, Childless, GoTo, TypeOK
<1>6. LivingParents'
  BY DEF Acquire, LivingParents
<1>7. Awake'
  BY DEF Acquire, Awake, GoTo, TypeOK
<1>8. NoZombieMissed'
  BY DEF Acquire, NoZombieMissed, Zombies, Children
<1> QED
  BY <1>1, <1>2, <1>3, <1>4, <1>5, <1>6, <1>7, <1>8

(* Init, which always lives, takes over the children; it is awake if one is dead.*)
LEMMA ReparentStep ==
    ASSUME IInv, NEW p \in Procs, Reparent(p)
    PROVE  IInv'
<1> USE ProcsFacts DEF IInv
<1>1. TypeOK'
  BY DEF Reparent, procstate, PCs, Woken, GoTo, TypeOK
<1>2. Where'
  BY DEF Reparent, Where, Woken, GoTo, TypeOK
<1>3. Locked'
  BY DEF Reparent, Locked, GoTo, TypeOK
<1>4. NewChild'
  BY DEF Reparent, NewChild, Woken, GoTo, TypeOK
<1>5. Childless'
  BY DEF Reparent, Where, Childless, GoTo, TypeOK
<1>6. LivingParents'
  BY DEF Reparent, Where, LivingParents, Woken, TypeOK
<1>7. Awake'
  BY DEF Reparent, Locked, Awake, GoTo, TypeOK
<1>8. NoZombieMissed'
  BY DEF Reparent, NoZombieMissed, Zombies, Children, Woken, TypeOK
<1> QED
  BY <1>1, <1>2, <1>3, <1>4, <1>5, <1>6, <1>7, <1>8

(* The parent is awake now.                                                *)
LEMMA WakeParentStep ==
    ASSUME IInv, NEW p \in Procs, WakeParent(p)
    PROVE  IInv'
<1> USE ProcsFacts DEF IInv
<1>1. TypeOK'
  BY DEF WakeParent, procstate, PCs, Woken, GoTo, TypeOK
<1>2. Where'
  BY DEF WakeParent, Where, Woken, GoTo, TypeOK
<1>3. Locked'
  BY DEF WakeParent, Locked, GoTo, TypeOK
<1>4. NewChild'
  BY DEF WakeParent, NewChild, Woken, GoTo, TypeOK
<1>5. Childless'
  BY DEF WakeParent, Childless, GoTo, TypeOK
<1>6. LivingParents'
  BY DEF WakeParent, LivingParents, Woken, TypeOK
<1>7. Awake'
  BY DEF WakeParent, Where, LivingParents, Awake, Woken, GoTo, TypeOK
<1>8. NoZombieMissed'
  BY DEF WakeParent, NoZombieMissed, Zombies, Children, Woken, TypeOK
<1> QED
  BY <1>1, <1>2, <1>3, <1>4, <1>5, <1>6, <1>7, <1>8

(* Nobody has the dead process as its parent.                              *)
LEMMA DieStep ==
    ASSUME IInv, NEW p \in Procs, Die(p)
    PROVE  IInv'
<1> USE ProcsFacts DEF IInv
<1>1. TypeOK'
  BY DEF Die, procstate, PCs, GoTo, TypeOK
<1>2. Where'
  BY DEF Die, Where, GoTo, TypeOK
<1>3. Locked'
  BY DEF Die, Locked, GoTo, TypeOK
<1>4. NewChild'
  BY DEF Die, Where, NewChild, GoTo, TypeOK
<1>5. Childless'
  BY DEF Die, Childless, GoTo, TypeOK
<1>6. LivingParents'
  BY DEF Die, Where, Childless, LivingParents, TypeOK
<1>7. Awake'
  BY DEF Die, Locked, Awake, GoTo, TypeOK
<1>8. NoZombieMissed'
  BY DEF Die, Awake, NoZombieMissed, Zombies, Children, TypeOK
<1> QED
  BY <1>1, <1>2, <1>3, <1>4, <1>5, <1>6, <1>7, <1>8

LEMMA SwitchedStep ==
    ASSUME IInv, NEW p \in Procs, Switched(p)
    PROVE  IInv'
<1> USE ProcsFacts DEF IInv
<1>1. TypeOK'
  BY DEF Switched, TypeOK
<1>2. Where'
  BY DEF Switched, Where
<1>3. Locked'
  BY DEF Switched, Locked
<1>4. NewChild'
  BY DEF Switched, NewChild
<1>5. Childless'
  BY DEF Switched, Childless
<1>6. LivingParents'
  BY DEF Switched, LivingParents
<1>7. Awake'
  BY DEF Switched, Awake
<1>8. NoZombieMissed'
  BY DEF Switched, NoZombieMissed, Zombies, Children
<1> QED
  BY <1>1, <1>2, <1>3, <1>4, <1>5, <1>6, <1>7, <1>8

LEMMA WaitStep ==
    ASSUME IInv, NEW p \in Procs, Wait(p)
    PROVE  IInv'
<1> USE ProcsFacts DEF IInv
<1>0. calls' \in 0..MaxCalls
  BY ProcTreeAssumption DEF Wait, Count, TypeOK
<1>1. TypeOK'
  BY <1>0 DEF Wait, PCs, GoTo, TypeOK
<1>2. Where'
  BY DEF Wait, Where, Calling, GoTo, TypeOK
<1>3. Locked'
  BY DEF Wait, Locked, GoTo, TypeOK
<1>4. NewChild'
  BY DEF Wait, NewChild, GoTo, TypeOK
<1>5. Childless'
  BY DEF Wait, Childless, GoTo, TypeOK
<1>6. LivingParents'
  BY DEF Wait, LivingParents
<1>7. Awake'
  BY DEF Wait, Awake, GoTo, TypeOK
<1>8. NoZombieMissed'
  BY DEF Wait, NoZombieMissed, Zombies, Children
<1> QED
  BY <1>1, <1>2, <1>3, <1>4, <1>5, <1>6, <1>7, <1>8

(* The freed slot is nobody's parent.                                      *)
LEMMA ReapStep ==
    ASSUME IInv, NEW p \in Procs, NEW q \in Procs, Reap(p, q)
    PROVE  IInv'
<1> USE ProcsFacts DEF IInv
<1>1. TypeOK'
  BY DEF Reap, procstate, PCs, Found, TypeOK
<1>2. Where'
  BY DEF Reap, Where, Zombies, Found, TypeOK
<1>3. Locked'
  BY DEF Reap, Locked, TypeOK
<1>4. NewChild'
  BY DEF Reap, NewChild, Zombies, Found, TypeOK
<1>5. Childless'
  BY DEF Reap, Childless, TypeOK
<1>6. LivingParents'
  BY DEF Reap, LivingParents, Zombies, Found, TypeOK
<1>7. Awake'
  BY DEF Reap, Awake, TypeOK
<1>8. NoZombieMissed'
  BY DEF Reap, NoZombieMissed, Zombies, Children, TypeOK
<1> QED
  BY <1>1, <1>2, <1>3, <1>4, <1>5, <1>6, <1>7, <1>8

LEMMA GiveUpStep ==
    ASSUME IInv, NEW p \in Procs, GiveUp(p)
    PROVE  IInv'
<1> USE ProcsFacts DEF IInv
<1>1. TypeOK'
  BY DEF GiveUp, PCs, GoTo, TypeOK
<1>2. Where'
  BY DEF GiveUp, Where, GoTo, TypeOK
<1>3. Locked'
  BY DEF GiveUp, Locked, GoTo, TypeOK
<1>4. NewChild'
  BY DEF GiveUp, NewChild, GoTo, TypeOK
<1>5. Childless'
  BY DEF GiveUp, Childless, GoTo, TypeOK
<1>6. LivingParents'
  BY DEF GiveUp, LivingParents
<1>7. Awake'
  BY DEF GiveUp, Awake, GoTo, TypeOK
<1>8. NoZombieMissed'
  BY DEF GiveUp, NoZombieMissed, Zombies, Children
<1> QED
  BY <1>1, <1>2, <1>3, <1>4, <1>5, <1>6, <1>7, <1>8

(* No child dies until the parent sleeps.                                  *)
LEMMA NoneDeadStep ==
    ASSUME IInv, NEW p \in Procs, NoneDead(p)
    PROVE  IInv'
<1> USE ProcsFacts DEF IInv
<1>1. TypeOK'
  BY DEF NoneDead, PCs, GoTo, TypeOK
<1>2. Where'
  BY DEF NoneDead, Where, GoTo, TypeOK
<1>3. Locked'
  BY DEF NoneDead, Locked, GoTo, TypeOK
<1>4. NewChild'
  BY DEF NoneDead, NewChild, GoTo, TypeOK
<1>5. Childless'
  BY DEF NoneDead, Childless, GoTo, TypeOK
<1>6. LivingParents'
  BY DEF NoneDead, LivingParents
<1>7. Awake'
  BY DEF NoneDead, Awake, Zombies, Children, GoTo, TypeOK
<1>8. NoZombieMissed'
  BY DEF NoneDead, NoZombieMissed, Zombies, Children
<1> QED
  BY <1>1, <1>2, <1>3, <1>4, <1>5, <1>6, <1>7, <1>8

LEMMA SleepStep ==
    ASSUME IInv, NEW p \in Procs, Sleep(p)
    PROVE  IInv'
<1> USE ProcsFacts DEF IInv
<1>1. TypeOK'
  BY DEF Sleep, procstate, PCs, GoTo, TypeOK
<1>2. Where'
  BY DEF Sleep, Where, GoTo, TypeOK
<1>3. Locked'
  BY DEF Sleep, Locked, GoTo, TypeOK
<1>4. NewChild'
  BY DEF Sleep, Where, NewChild, GoTo, TypeOK
<1>5. Childless'
  BY DEF Sleep, Childless, GoTo, TypeOK
<1>6. LivingParents'
  BY DEF Sleep, Where, LivingParents, TypeOK
<1>7. Awake'
  BY DEF Sleep, Locked, Awake, GoTo, TypeOK
<1>8. NoZombieMissed'
  BY DEF Sleep, Awake, NoZombieMissed, Zombies, Children, TypeOK
<1> QED
  BY <1>1, <1>2, <1>3, <1>4, <1>5, <1>6, <1>7, <1>8

(* kill() wakes a process but changes no parent.                           *)
LEMMA KillStep ==
    ASSUME IInv, NEW q \in Procs, Kill(q)
    PROVE  IInv'
<1> USE ProcsFacts DEF IInv
<1>1. TypeOK'
  BY DEF Kill, procstate, Woken, TypeOK
<1>2. Where'
  BY DEF Kill, Where, Woken, TypeOK
<1>3. Locked'
  BY DEF Kill, Locked, TypeOK
<1>4. NewChild'
  BY DEF Kill, NewChild, Woken, TypeOK
<1>5. Childless'
  BY DEF Kill, Childless, TypeOK
<1>6. LivingParents'
  BY DEF Kill, LivingParents, Woken, TypeOK
<1>7. Awake'
  BY DEF Kill, Awake, Woken, TypeOK
<1>8. NoZombieMissed'
  BY DEF Kill, NoZombieMissed, Zombies, Children, Woken, TypeOK
<1> QED
  BY <1>1, <1>2, <1>3, <1>4, <1>5, <1>6, <1>7, <1>8

(* Without a step nothing changes.                                          *)
LEMMA StutterStep == IInv /\ UNCHANGED vars => IInv'
BY DEF IInv, vars, TypeOK, Where, Locked, NewChild, Childless, LivingParents, Awake,
       NoZombieMissed, Zombies, Children

LEMMA NextIInv == IInv /\ [Next]_vars => IInv'
BY ForkStep, AdoptStep, PublishStep, ExitStep, AcquireStep, ReparentStep, WakeParentStep,
   DieStep, SwitchedStep, WaitStep, ReapStep, GiveUpStep, NoneDeadStep, SleepStep, KillStep,
   StutterStep DEF Next, InKernel

(* The inductive invariant holds in every reachable state.                  *)
THEOREM Invariance == Spec => []IInv
BY InitIInv, NextIInv, PTL DEF Spec

(* The variables keep their ranges, and only a process that is asleep or    *)
(* dead still has its lock held by scheduler().                             *)
THEOREM TypeCorrect == Spec => []TypeOK
<1>1. IInv => TypeOK
  BY DEF IInv
<1> QED
  BY <1>1, Invariance, PTL

(* Whatever fork(), exit() and kill() race, a process that lives or waits   *)
(* to be reaped has a living parent.                                        *)
THEOREM ParentsCorrect == Spec => []LivingParents
<1>1. IInv => LivingParents
  BY DEF IInv
<1> QED
  BY <1>1, Invariance, PTL

(* The death of a child is never missed: its parent is awake, and init is   *)
(* when it inherits a dead child.                                           *)
THEOREM WakeupsCorrect == Spec => []NoZombieMissed
<1>1. IInv => NoZombieMissed
  BY DEF IInv
<1> QED
  BY <1>1, Invariance, PTL
------------------------------------------------------------------------------
(* ProcTree implements ProcessForest: the refinement mapping by name.       *)
Leaving == {p \in Procs : pc[p] \in {"wakeup", "die"}}
Child == {<<q, parent[q]>> : q \in (Living \cup Dead) \ {initproc}}

(* Steps that change nothing of what ProcessForest speaks of.               *)
LEMMA Quiet ==
    ASSUME Living' = Living, Dead' = Dead, Leaving' = Leaving,
           \A q \in Living \cup Dead : parent'[q] = parent[q]
    PROVE  UNCHANGED Forest!vars
<1>1. Child' = Child
  BY DEF Child
<1> QED
  BY <1>1 DEF Forest!vars, Child, Leaving

LEMMA ForkQuiet ==
    ASSUME IInv, NEW p \in Procs, NEW q \in Procs, Fork(p, q)
    PROVE  UNCHANGED Forest!vars
<1> USE ProcsFacts DEF IInv
<1>1. Living' = Living
  BY DEF Fork, Living, TypeOK
<1>2. Dead' = Dead
  BY DEF Fork, Dead, TypeOK
<1>3. Leaving' = Leaving
  BY DEF Fork, Leaving, GoTo, Calling, TypeOK
<1>4. \A r \in Living \cup Dead : parent'[r] = parent[r]
  BY DEF Fork, Living, Dead
<1> QED
  BY <1>1, <1>2, <1>3, <1>4, Quiet

LEMMA AdoptQuiet ==
    ASSUME IInv, NEW p \in Procs, Adopt(p)
    PROVE  UNCHANGED Forest!vars
<1> USE ProcsFacts DEF IInv
<1>1. Living' = Living
  BY DEF Adopt, Living, TypeOK
<1>2. Dead' = Dead
  BY DEF Adopt, Dead, TypeOK
<1>3. Leaving' = Leaving
  BY DEF Adopt, Leaving, GoTo, TypeOK
<1>4. \A r \in Living \cup Dead : parent'[r] = parent[r]
  BY DEF Adopt, Living, Dead, NewChild, TypeOK
<1> QED
  BY <1>1, <1>2, <1>3, <1>4, Quiet

LEMMA ExitQuiet ==
    ASSUME IInv, NEW p \in Procs, Exit(p)
    PROVE  UNCHANGED Forest!vars
<1> USE ProcsFacts DEF IInv
<1>1. Living' = Living
  BY DEF Exit, Living
<1>2. Dead' = Dead
  BY DEF Exit, Dead
<1>3. Leaving' = Leaving
  BY DEF Exit, Leaving, GoTo, TypeOK
<1>4. \A r \in Living \cup Dead : parent'[r] = parent[r]
  BY DEF Exit, Living, Dead
<1> QED
  BY <1>1, <1>2, <1>3, <1>4, Quiet

LEMMA AcquireQuiet ==
    ASSUME IInv, NEW p \in Procs, Acquire(p)
    PROVE  UNCHANGED Forest!vars
<1> USE ProcsFacts DEF IInv
<1>1. Living' = Living
  BY DEF Acquire, Living
<1>2. Dead' = Dead
  BY DEF Acquire, Dead
<1>3. Leaving' = Leaving
  BY DEF Acquire, Leaving, GoTo, TypeOK
<1>4. \A r \in Living \cup Dead : parent'[r] = parent[r]
  BY DEF Acquire, Living, Dead
<1> QED
  BY <1>1, <1>2, <1>3, <1>4, Quiet

LEMMA WakeParentQuiet ==
    ASSUME IInv, NEW p \in Procs, WakeParent(p)
    PROVE  UNCHANGED Forest!vars
<1> USE ProcsFacts DEF IInv
<1>1. Living' = Living
  BY DEF WakeParent, Living, Woken, TypeOK
<1>2. Dead' = Dead
  BY DEF WakeParent, Dead, Woken, TypeOK
<1>3. Leaving' = Leaving
  BY DEF WakeParent, Leaving, GoTo, TypeOK
<1>4. \A r \in Living \cup Dead : parent'[r] = parent[r]
  BY DEF WakeParent, Living, Dead
<1> QED
  BY <1>1, <1>2, <1>3, <1>4, Quiet

LEMMA SwitchedQuiet ==
    ASSUME IInv, NEW p \in Procs, Switched(p)
    PROVE  UNCHANGED Forest!vars
<1> USE ProcsFacts DEF IInv
<1>1. Living' = Living
  BY DEF Switched, Living
<1>2. Dead' = Dead
  BY DEF Switched, Dead
<1>3. Leaving' = Leaving
  BY DEF Switched, Leaving
<1>4. \A r \in Living \cup Dead : parent'[r] = parent[r]
  BY DEF Switched, Living, Dead
<1> QED
  BY <1>1, <1>2, <1>3, <1>4, Quiet

LEMMA WaitQuiet ==
    ASSUME IInv, NEW p \in Procs, Wait(p)
    PROVE  UNCHANGED Forest!vars
<1> USE ProcsFacts DEF IInv
<1>1. Living' = Living
  BY DEF Wait, Living
<1>2. Dead' = Dead
  BY DEF Wait, Dead
<1>3. Leaving' = Leaving
  BY DEF Wait, Leaving, GoTo, Calling, TypeOK
<1>4. \A r \in Living \cup Dead : parent'[r] = parent[r]
  BY DEF Wait, Living, Dead
<1> QED
  BY <1>1, <1>2, <1>3, <1>4, Quiet

LEMMA GiveUpQuiet ==
    ASSUME IInv, NEW p \in Procs, GiveUp(p)
    PROVE  UNCHANGED Forest!vars
<1> USE ProcsFacts DEF IInv
<1>1. Living' = Living
  BY DEF GiveUp, Living
<1>2. Dead' = Dead
  BY DEF GiveUp, Dead
<1>3. Leaving' = Leaving
  BY DEF GiveUp, Leaving, GoTo, TypeOK
<1>4. \A r \in Living \cup Dead : parent'[r] = parent[r]
  BY DEF GiveUp, Living, Dead
<1> QED
  BY <1>1, <1>2, <1>3, <1>4, Quiet

LEMMA NoneDeadQuiet ==
    ASSUME IInv, NEW p \in Procs, NoneDead(p)
    PROVE  UNCHANGED Forest!vars
<1> USE ProcsFacts DEF IInv
<1>1. Living' = Living
  BY DEF NoneDead, Living
<1>2. Dead' = Dead
  BY DEF NoneDead, Dead
<1>3. Leaving' = Leaving
  BY DEF NoneDead, Leaving, GoTo, TypeOK
<1>4. \A r \in Living \cup Dead : parent'[r] = parent[r]
  BY DEF NoneDead, Living, Dead
<1> QED
  BY <1>1, <1>2, <1>3, <1>4, Quiet

LEMMA SleepQuiet ==
    ASSUME IInv, NEW p \in Procs, Sleep(p)
    PROVE  UNCHANGED Forest!vars
<1> USE ProcsFacts DEF IInv
<1>1. Living' = Living
  BY DEF Sleep, Living, Where, TypeOK
<1>2. Dead' = Dead
  BY DEF Sleep, Dead, Where, TypeOK
<1>3. Leaving' = Leaving
  BY DEF Sleep, Leaving, GoTo, TypeOK
<1>4. \A r \in Living \cup Dead : parent'[r] = parent[r]
  BY DEF Sleep, Living, Dead
<1> QED
  BY <1>1, <1>2, <1>3, <1>4, Quiet

LEMMA KillQuiet ==
    ASSUME IInv, NEW q \in Procs, Kill(q)
    PROVE  UNCHANGED Forest!vars
<1> USE ProcsFacts DEF IInv
<1>1. Living' = Living
  BY DEF Kill, Living, Woken, TypeOK
<1>2. Dead' = Dead
  BY DEF Kill, Dead, Woken, TypeOK
<1>3. Leaving' = Leaving
  BY DEF Kill, Leaving, TypeOK
<1>4. \A r \in Living \cup Dead : parent'[r] = parent[r]
  BY DEF Kill, Living, Dead
<1> QED
  BY <1>1, <1>2, <1>3, <1>4, Quiet


(* The steps ProcessForest names.                                           *)
LEMMA PublishSim ==
    ASSUME IInv, NEW p \in Procs, NEW q \in Procs, q = np[p], Publish(p)
    PROVE  Forest!Fork(p, q)
<1> USE ProcsFacts DEF IInv
<1>1. /\ q \in Procs /\ state[q] = "USED" /\ parent[q] = p /\ q # initproc
      /\ state[p] = "RUNNABLE" /\ pc[p] = "publish"
  BY DEF Publish, NewChild, Where, PCs
<1>2. Living' = Living \cup {q}
  BY <1>1 DEF Publish, TypeOK, Living
<1>3. Dead' = Dead
  BY <1>1 DEF Publish, TypeOK, Dead
<1>4. Leaving' = Leaving
  BY <1>1 DEF Publish, TypeOK, Leaving, GoTo
<1>5. Child' = Child \cup {<<q, p>>}
  BY <1>1, <1>2, <1>3 DEF Publish, Child
<1>6. p \in Living \ Leaving /\ q \notin Living \cup Dead
  BY <1>1 DEF Living, Dead, Leaving
<1> QED
  BY <1>1, <1>2, <1>3, <1>4, <1>5, <1>6 DEF Forest!Fork, Child, Leaving

LEMMA ReparentSim ==
    ASSUME IInv, NEW p \in Procs, Reparent(p)
    PROVE  Forest!Disown(p)
<1> USE ProcsFacts DEF IInv
<1>1. p # initproc /\ state[p] = "RUNNABLE" /\ pc[p] = "reparent"
  BY DEF Reparent, Where, PCs
<1>2. Living' = Living /\ Dead' = Dead
  BY DEF Reparent, Woken, TypeOK, Living, Dead
<1>3. Leaving' = Leaving \cup {p}
  BY <1>1 DEF Reparent, GoTo, TypeOK, Leaving
<1>4. Child' = {c \in Child : c[2] # p} \cup {<<c[1], initproc>> : c \in {d \in Child : d[2] = p}}
  <2>1. \A q \in Procs : parent'[q] = IF parent[q] = p THEN initproc ELSE parent[q]
    BY DEF Reparent
  <2> DEFINE kept == {c \in Child : c[2] # p}
             moved == {<<c[1], initproc>> : c \in {d \in Child : d[2] = p}}
  <2>2. ASSUME NEW q \in (Living \cup Dead) \ {initproc}
        PROVE  <<q, parent'[q]>> \in kept \cup moved
    <3>1. q \in Procs /\ <<q, parent[q]>> \in Child
      BY DEF Child, Living, Dead
    <3>2. CASE parent[q] = p
      BY <2>1, <3>1, <3>2
    <3>3. CASE parent[q] # p
      BY <2>1, <3>1, <3>3
    <3> QED
      BY <3>2, <3>3
  <2>3. Child' \subseteq kept \cup moved
    BY <1>2, <2>2 DEF Child
  <2>4. ASSUME NEW c \in Child
        PROVE  <<c[1], IF c[2] = p THEN initproc ELSE c[2]>> \in Child'
    <3>1. PICK q \in (Living \cup Dead) \ {initproc} : c = <<q, parent[q]>>
      BY DEF Child
    <3>2. q \in Procs
      BY DEF Living, Dead
    <3> QED
      BY <1>2, <2>1, <3>1, <3>2 DEF Child
  <2>5. \A c \in Child : c = <<c[1], c[2]>>
    BY DEF Child
  <2>6. kept \cup moved \subseteq Child'
    BY <2>4, <2>5
  <2> QED
    BY <2>3, <2>6
<1>5. p \in Living \ (Leaving \cup {initproc})
  BY <1>1 DEF Living, Leaving
<1> QED
  BY <1>2, <1>3, <1>4, <1>5 DEF Forest!Disown, Child, Leaving

LEMMA DieSim ==
    ASSUME IInv, NEW p \in Procs, Die(p)
    PROVE  Forest!Die(p)
<1> USE ProcsFacts DEF IInv
<1>1. state[p] = "RUNNABLE" /\ pc[p] = "die"
  BY DEF Die, Where, PCs
<1>2. Living' = Living \ {p} /\ Dead' = Dead \cup {p}
  BY <1>1 DEF Die, TypeOK, Living, Dead
<1>3. Leaving' = Leaving \ {p} /\ p \in Leaving
  BY <1>1 DEF Die, GoTo, TypeOK, Leaving
<1>4. Child' = Child
  BY <1>1, <1>2 DEF Die, Child, Living
<1> QED
  BY <1>2, <1>3, <1>4 DEF Forest!Die, Child, Leaving

LEMMA ReapSim ==
    ASSUME IInv, NEW p \in Procs, NEW q \in Procs, Reap(p, q)
    PROVE  Forest!Reap(p, q)
<1> USE ProcsFacts DEF IInv
<1>1. state[q] = "ZOMBIE" /\ parent[q] = p /\ pc[q] = "dead" /\ q # initproc
      /\ state[p] = "RUNNABLE" /\ pc[p] = "scan"
  BY DEF Reap, Found, Zombies, Children, Where, PCs
<1>2. Living' = Living /\ Dead' = Dead \ {q}
  BY <1>1 DEF Reap, TypeOK, Living, Dead
<1>3. Leaving' = Leaving
  BY <1>1 DEF Reap, TypeOK, Leaving
<1>4. Child' = Child \ {<<q, p>>}
  <2>1. \A r \in Procs \ {q} : parent'[r] = parent[r]
    BY DEF Reap, TypeOK
  <2>2. q \in Dead /\ q \notin Living
    BY <1>1 DEF Living, Dead
  <2> QED
    BY <1>1, <1>2, <2>1, <2>2 DEF Child, Living, Dead
<1>5. p \in Living \ Leaving /\ q \in Dead /\ <<q, p>> \in Child
  BY <1>1 DEF Living, Dead, Leaving, Child
<1> QED
  BY <1>2, <1>3, <1>4, <1>5 DEF Forest!Reap, Child, Leaving

LEMMA InitSim == Init => Forest!Init
BY ProcsFacts DEF Init, Forest!Init, Living, Dead

LEMMA NextSim == IInv /\ [Next]_vars => [Forest!Next]_Forest!vars
<1> SUFFICES ASSUME IInv, [Next]_vars PROVE [Forest!Next]_Forest!vars
  OBVIOUS
<1>1. ASSUME NEW p \in Procs, Publish(p) PROVE Forest!Next
  <2>1. PICK q \in Procs : q = np[p]
    BY <1>1 DEF Publish, IInv, NewChild
  <2>2. Forest!Fork(p, q)
    BY <1>1, <2>1, PublishSim
  <2> QED
    BY <2>2 DEF Forest!Next
<1>2. ASSUME NEW p \in Procs, Reparent(p) PROVE Forest!Next
  BY <1>2, ReparentSim DEF Forest!Next
<1>3. ASSUME NEW p \in Procs, Die(p) PROVE Forest!Next
  BY <1>3, DieSim DEF Forest!Next
<1>4. ASSUME NEW p \in Procs, NEW q \in Procs, Reap(p, q) PROVE Forest!Next
  BY <1>4, ReapSim DEF Forest!Next
<1>5. CASE UNCHANGED vars
  BY <1>5 DEF vars, Forest!vars, Living, Dead
<1> QED
  BY <1>1, <1>2, <1>3, <1>4, <1>5, ForkQuiet, AdoptQuiet, ExitQuiet, AcquireQuiet,
     WakeParentQuiet, SwitchedQuiet, WaitQuiet, GiveUpQuiet, NoneDeadQuiet, SleepQuiet,
     KillQuiet DEF Next, InKernel

(* Seen through their states and parents, the processes behave as in        *)
(* ProcessForest: no process loses its parent while that lives, or is       *)
(* reaped twice or by another process.                                      *)
THEOREM ForestImplemented == Spec => ImplementsForest
BY InitSim, NextSim, Invariance, PTL DEF Spec, ImplementsForest, Forest!Spec
==============================================================================
