---------------------------- MODULE ProcessForest ----------------------------
(***************************************************************************)
(* What fork(), exit() and wait() of Assignment_2/B/xv6-riscv/kernel/      *)
(* proc.c promise about processes and their parents: a process has its     *)
(* creator as its parent until that disowns its children to init on its    *)
(* way out; a dead process is reaped once, by its parent.  ProcTree is     *)
(* shown to implement this specification.                                  *)
(***************************************************************************)
CONSTANTS Procs, init

VARIABLES living, dead,
          leaving,  \* living processes that have no children any more and
                    \* will die
          child     \* the pairs <<q, p>> of a process and its parent

vars == <<living, dead, leaving, child>>

Init == /\ living = {init} /\ dead = {} /\ leaving = {} /\ child = {}

Fork(p, q) ==
    /\ p \in living \ leaving
    /\ q \in Procs \ (living \cup dead)
    /\ living' = living \cup {q}
    /\ child' = child \cup {<<q, p>>}
    /\ UNCHANGED <<dead, leaving>>

Disown(p) ==
    /\ p \in living \ (leaving \cup {init})
    /\ leaving' = leaving \cup {p}
    /\ child' = {c \in child : c[2] # p} \cup {<<c[1], init>> : c \in {d \in child : d[2] = p}}
    /\ UNCHANGED <<living, dead>>

Die(p) ==
    /\ p \in leaving
    /\ leaving' = leaving \ {p}
    /\ living' = living \ {p}
    /\ dead' = dead \cup {p}
    /\ UNCHANGED child

Reap(p, q) ==
    /\ p \in living \ leaving
    /\ q \in dead /\ <<q, p>> \in child
    /\ dead' = dead \ {q}
    /\ child' = child \ {<<q, p>>}
    /\ UNCHANGED <<living, leaving>>

Next == \E p \in Procs : \/ Disown(p) \/ Die(p)
                         \/ \E q \in Procs : Fork(p, q) \/ Reap(p, q)

Spec == Init /\ [][Next]_vars
==============================================================================
