----------------------------- MODULE VirtioDisk ------------------------------
(***************************************************************************)
(* The virtio disk driver of xv6, kernel/virtio_disk.c, and the device.    *)
(*                                                                         *)
(* virtio_disk_rw() and virtio_disk_intr() run under vdisk_lock, which a   *)
(* process gives up only in sleep(): what it does between two sleeps is    *)
(* one step.  The interrupt handler is cut into its entry, one step for    *)
(* each entry of the used ring and its return, because the device, which   *)
(* takes no lock, answers at any time; "handling" is that the handler has  *)
(* the lock.  A process that was woken has still to take the lock.         *)
(***************************************************************************)
EXTENDS Integers, Sequences, FiniteSetsExt

CONSTANTS Procs, Blocks, Values,
          NUM,      \* descriptors, virtio.h:44
          NBUF      \* buffers, param.h:11

ASSUME DiskAssumption == NUM \in Nat /\ NUM >= 3 /\ NBUF \in Nat \ {0}

VARIABLES
    free,      \* the descriptors with disk.free[i] = 1
    command,   \* the chain that starts at a descriptor, with info[i].b
    avail,     \* the chains the device was told of and has not answered
    used,      \* the used ring from used_idx to used->idx
    irq,       \* the device raises an interrupt
    handling,  \* virtio_disk_intr() has vdisk_lock
    inDisk,    \* the buffers with b->disk = 1
    call,      \* the arguments of a process's virtio_disk_rw()
    chain,     \* its idx[0..2], the first being the smallest
    at,        \* where it is in virtio_disk_rw()
    data,      \* the buffers' b->data
    disk       \* what is on the disk

queue == <<free, command, avail, used, irq, handling, inDisk, call, chain, at>>
diskvars == <<queue, data, disk>>

Descriptors == 0 .. NUM - 1
Bufs == 1 .. NBUF
NoBuf == 0
Places == {"out", "alloc", "nodesc", "asleep", "woken"}
Command == [buf : Bufs, block : Blocks, write : BOOLEAN]
NoCommand == [buf |-> NoBuf]

DiskInit == /\ free = Descriptors
            /\ command = [i \in Descriptors |-> NoCommand]
            /\ avail = {} /\ used = <<>> /\ irq = FALSE /\ handling = FALSE
            /\ inDisk = {}
            /\ call = [p \in Procs |-> NoCommand]
            /\ chain = [p \in Procs |-> {}]
            /\ at = [p \in Procs |-> "out"]
            /\ \E v \in Values : data = [b \in Bufs |-> v]
            /\ disk \in [Blocks -> Values]

(* Mutant: wakeup() is left out while descriptors are free. *)
WokenIfNoneFree(place, next, p) ==
    [q \in Procs |-> IF at[q] = place /\ q # p /\ free = {} THEN next
                     ELSE at[q]]

(* at[] after wakeup() of those at a place, p being the caller. *)
Woken(place, next, p) ==
    [q \in Procs |-> IF at[q] = place /\ q # p THEN next ELSE at[q]]

------------------------------------------------------------------------------
(* A call of virtio_disk_rw(); c.block is b->blockno. *)
Rw(p, c) ==
    /\ at[p] = "out"
    /\ at' = [at EXCEPT ![p] = "alloc"]
    /\ call' = [call EXCEPT ![p] = c]
    /\ UNCHANGED <<free, command, avail, used, irq, handling, inDisk, chain,
                   data, disk>>

(* alloc_desc() takes the first free descriptor. *)
FirstThree == CHOOSE S \in kSubset(3, free) :
                  \A i \in S, j \in free \ S : i < j

(* Three descriptors are free: the request goes to the device. *)
Submit(p) ==
    /\ at[p] = "alloc" /\ ~handling
    /\ Cardinality(free) >= 3
    /\ LET head == Min(FirstThree) IN
       /\ command' = [command EXCEPT ![head] = call[p]]
       /\ avail' = avail \cup {head}
    /\ free' = free \ FirstThree
    /\ chain' = [chain EXCEPT ![p] = FirstThree]
    /\ inDisk' = inDisk \cup {call[p].buf}
    /\ at' = [at EXCEPT ![p] = "asleep"]
    /\ UNCHANGED <<used, irq, handling, call, data, disk>>

(* alloc3_desc() fails.  It gives back what it got, if anything, and the   *)
(* wakeup() in free_desc() makes the others try again.                     *)
AllocFails(p) ==
    /\ at[p] = "alloc" /\ ~handling
    /\ Cardinality(free) < 3
    /\ at' = [(IF free = {} THEN at ELSE Woken("nodesc", "alloc", p))
                 EXCEPT ![p] = "nodesc"]
    /\ UNCHANGED <<free, command, avail, used, irq, handling, inDisk, call,
                   chain, data, disk>>

(* After a wakeup: b->disk is tested, the chain is freed. *)
Finish(p) ==
    /\ at[p] = "woken" /\ ~handling
    /\ call[p].buf \notin inDisk
    /\ free' = free \cup chain[p]
    /\ chain' = [chain EXCEPT ![p] = {}]
    /\ command' = [command EXCEPT ![Min(chain[p])] = NoCommand]
    /\ call' = [call EXCEPT ![p] = NoCommand]
    /\ at' = [Woken("nodesc", "alloc", p) EXCEPT ![p] = "out"]
    /\ UNCHANGED <<avail, used, irq, handling, inDisk, data, disk>>

(* The device does what a chain says, in any order, and puts it on the     *)
(* used ring.                                                              *)
Answer(i) ==
    /\ i \in avail
    /\ LET c == command[i] IN
       IF c.write
       THEN disk' = [disk EXCEPT ![c.block] = data[c.buf]] /\ UNCHANGED data
       ELSE data' = [data EXCEPT ![c.buf] = disk[c.block]] /\ UNCHANGED disk
    /\ avail' = avail \ {i}
    /\ used' = Append(used, i)
    /\ irq' = TRUE
    /\ UNCHANGED <<free, command, handling, inDisk, call, chain, at>>

------------------------------------------------------------------------------
(* virtio_disk_intr(): the interrupt is acknowledged before the ring is    *)
(* read, *)
Intr == /\ irq /\ ~handling
        /\ irq' = FALSE /\ handling' = TRUE
        /\ UNCHANGED <<free, command, avail, used, inDisk, call, chain, at,
                       data, disk>>

(* an entry of the ring is taken, *)
Completion ==
    /\ handling /\ used # <<>>
    /\ LET b == command[Head(used)].buf IN
       /\ inDisk' = inDisk \ {b}
       /\ at' = [p \in Procs |-> IF at[p] = "asleep" /\ call[p].buf = b
                                 THEN "woken" ELSE at[p]]
    /\ used' = Tail(used)
    /\ UNCHANGED <<free, command, avail, irq, handling, call, chain, data,
                   disk>>

(* Mutant: the handler returns whatever the ring has. *)
IntrReturnAfterOne == /\ handling
                      /\ handling' = FALSE
                      /\ UNCHANGED <<free, command, avail, used, irq, inDisk,
                                     call, chain, at, data, disk>>

(* and the ring is found empty. *)
IntrReturn == /\ handling /\ used = <<>>
              /\ handling' = FALSE
              /\ UNCHANGED <<free, command, avail, used, irq, inDisk, call,
                             chain, at, data, disk>>

Device == Intr \/ Completion \/ IntrReturn
          \/ \E i \in Descriptors : Answer(i)
==============================================================================
