----------------------------- MODULE AtomicDisk ------------------------------
(***************************************************************************)
(* What the log of xv6 (kernel/log.c) promises to the file system calls: a *)
(* disk that changes by whole operations.  "current" is what the calls see *)
(* and "durable" what a restart finds.  The operations since the last      *)
(* commit become durable together, and only when none of them is under     *)
(* way; a crash loses all of them.                                         *)
(***************************************************************************)
CONSTANTS Procs, Blocks, Values

VARIABLES durable, current,
          active     \* the processes between begin_op() and end_op()

atomicvars == <<durable, current, active>>

AtomicInit == /\ durable \in [Blocks -> Values]
              /\ current = durable
              /\ active = {}

BeginOp(p) == /\ p \notin active
              /\ active' = active \cup {p}
              /\ UNCHANGED <<durable, current>>

Write(p, s, v) == /\ p \in active
                  /\ current' = [current EXCEPT ![s] = v]
                  /\ UNCHANGED <<durable, active>>

EndOp(p) == /\ p \in active
            /\ active' = active \ {p}
            /\ UNCHANGED <<durable, current>>

Commit == /\ active = {}
          /\ durable' = current
          /\ UNCHANGED <<current, active>>

Crash == /\ current' = durable
         /\ active' = {}
         /\ UNCHANGED durable

AtomicNext == \/ Commit \/ Crash
              \/ \E p \in Procs : \/ BeginOp(p) \/ EndOp(p)
                                  \/ \E s \in Blocks, v \in Values :
                                        Write(p, s, v)

AtomicSpec == AtomicInit /\ [][AtomicNext]_atomicvars
==============================================================================
