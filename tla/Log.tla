-------------------------------- MODULE Log ----------------------------------
(***************************************************************************)
(* The file system log of xv6, kernel/log.c, over the buffer cache.        *)
(*                                                                         *)
(* begin_op(), end_op() and log_write() are critical sections of log.lock. *)
(* commit() runs outside it, by one process at a time, and its loops are   *)
(* cut at each block they write to the disk: "phase" is the function it is *)
(* in and "tail" the loop's variable.  The log's own blocks (its header    *)
(* and its slots) are read and written by the log only, so of them just    *)
(* the disk is kept.  A crash may come between any two steps; the restart  *)
(* recovers before any process runs.                                       *)
(***************************************************************************)
EXTENDS BlockCache, Naturals, Sequences

CONSTANTS MAXOPBLOCKS, LOGSIZE,   \* param.h:9 and 10
          nlog,                   \* log.size: the header and the slots
          OpBlocks                \* the most blocks a call writes

ASSUME LogAssumption ==
    /\ MAXOPBLOCKS \in Nat \ {0} /\ LOGSIZE \in Nat /\ nlog \in Nat \ {0}
    /\ OpBlocks \in 0 .. MAXOPBLOCKS

VARIABLES
    head,         \* the header on the disk: the numbers of the logged blocks
    slots,        \* the disk blocks log.start + 1, ...
    lh,           \* log.lh, in memory
    outstanding, committing,
    phase, tail,  \* where commit() or recover_from_log() is
    at,           \* where each process is
    wrote         \* the blocks a process's call has logged

logvars == <<lh, outstanding, committing, phase, tail>>
vars == <<cachevars, head, slots, logvars, at, wrote>>

Phases == {"none", "read_head", "write_log", "write_head", "install_trans",
           "erase", "done", "panic"}
Places == {"idle", "asleep", "woken", "op", "held", "modified", "logged",
           "commit"}
Logged == {lh[i] : i \in DOMAIN lh}

Init == /\ CacheInit
        /\ head = <<>>
        /\ \E v \in Values : slots = [i \in 1 .. nlog - 1 |-> v]
        /\ lh = <<>> /\ outstanding = 0 /\ committing = FALSE
        /\ phase = "read_head" /\ tail = 1
        /\ at = [p \in Procs |-> "idle"]
        /\ wrote = [p \in Procs |-> {}]

(* log.lock can be had: the log is not being recovered, and no process     *)
(* panicked with the lock.                                                 *)
Booted == phase = "none" \/ committing

Goto(p, place) == at' = [at EXCEPT ![p] = place]

(* Mutant: end_op() wakes nobody unless it commits. *)
WakeupForCommit(p, place) == at' = [q \in Procs |->
    IF q = p THEN place
    ELSE IF at[q] = "asleep" /\ committing THEN "woken" ELSE at[q]]

(* Mutant: nobody is woken at the end of a commit. *)
WakeupForSpace(p, place) == at' = [q \in Procs |->
    IF q = p THEN place
    ELSE IF at[q] = "asleep" /\ ~committing THEN "woken" ELSE at[q]]

(* p goes on at a place after wakeup(&log). *)
Wakeup(p, place) == at' = [q \in Procs |->
    IF q = p THEN place ELSE IF at[q] = "asleep" THEN "woken" ELSE at[q]]

------------------------------------------------------------------------------
(* begin_op(): a call, or a process that was woken, is admitted or sleeps. *)
Room == Len(lh) + (outstanding + 1) * MAXOPBLOCKS <= LOGSIZE

(* Mutant: the call is not counted. *)
EnterUncounted(p) == Goto(p, "op") /\ UNCHANGED outstanding

Enter(p) == Goto(p, "op") /\ outstanding' = outstanding + 1

BeginOp(p) ==
    /\ Booted /\ at[p] \in {"idle", "woken"}
    /\ IF committing \/ ~Room
       THEN Goto(p, "asleep") /\ UNCHANGED outstanding
       ELSE Enter(p)
    /\ UNCHANGED <<cachevars, head, slots, lh, committing, phase, tail, wrote>>

(* The call reads a block, changes it, logs it and releases it. *)
Read(p, s) ==
    /\ at[p] = "op" /\ Bread(p, s) /\ Goto(p, "held")
    /\ UNCHANGED <<head, slots, logvars, wrote>>

Update(p, s, v) ==
    /\ at[p] = "held" /\ Cardinality(wrote[p] \cup {s}) <= OpBlocks
    /\ Modify(p, s, v) /\ Goto(p, "modified")
    /\ UNCHANGED <<head, slots, logvars, wrote>>

Release(p, s) ==
    /\ at[p] \in {"held", "logged"} /\ Brelse(p, s) /\ Goto(p, "op")
    /\ UNCHANGED <<head, slots, logvars, wrote>>

Full == Len(lh) >= LOGSIZE \/ Len(lh) >= nlog - 1

(* log_write(): the block is logged and pinned, once. *)
LogWrite(p, s) ==
    /\ Booted /\ at[p] = "modified" /\ holder[s] = p /\ ~Full
    /\ IF s \in Logged THEN UNCHANGED <<cachevars, lh>>
                       ELSE Bpin(p, s) /\ lh' = Append(lh, s)
    /\ wrote' = [wrote EXCEPT ![p] = @ \cup {s}]
    /\ Goto(p, "logged")
    /\ UNCHANGED <<head, slots, outstanding, committing, phase, tail>>

(* "too big a transaction" *)
Panic(p) ==
    /\ Booted /\ at[p] = "modified" /\ Full
    /\ phase' = "panic"
    /\ UNCHANGED <<cachevars, head, slots, lh, outstanding, committing, tail,
                   at, wrote>>

(* Mutant: the header is written before the blocks. *)
HeadFirst == IF lh = <<>> THEN "done" ELSE "write_head"

(* end_op(): the last one commits, if anything was logged. *)
CommitFrom == IF lh = <<>> THEN "done" ELSE "write_log"

EndOp(p) ==
    /\ Booted /\ at[p] = "op"
    /\ outstanding' = outstanding - 1
    /\ wrote' = [wrote EXCEPT ![p] = {}]
    /\ IF outstanding = 1
       THEN /\ committing' = TRUE /\ Goto(p, "commit")
            /\ phase' = CommitFrom
       ELSE Wakeup(p, "idle") /\ UNCHANGED <<committing, phase>>
    /\ UNCHANGED <<cachevars, head, slots, lh, tail>>

------------------------------------------------------------------------------
(* A loop over the blocks of log.lh goes on, or ends and "next" comes. *)
Loop(next) == IF tail < Len(lh) THEN tail' = tail + 1 /\ UNCHANGED phase
                                ELSE tail' = 1 /\ phase' = next

WriteLog ==
    /\ phase = "write_log" /\ holder[lh[tail]] = NoProc
    /\ slots' = [slots EXCEPT ![tail] = content[lh[tail]]]
    /\ Loop("write_head")
    /\ UNCHANGED <<cachevars, head, lh, outstanding, committing, at, wrote>>

(* The real commit. *)
WriteHead ==
    /\ phase = "write_head"
    /\ head' = lh /\ phase' = "install_trans"
    /\ UNCHANGED <<cachevars, slots, lh, outstanding, committing, tail, at,
                   wrote>>

(* install_trans(), which unpins unless it recovers. *)
InstallTrans ==
    /\ phase = "install_trans" /\ holder[lh[tail]] = NoProc
    /\ content' = [content EXCEPT ![lh[tail]] = slots[tail]]
    /\ disk' = [disk EXCEPT ![lh[tail]] = slots[tail]]
    /\ pinned' = pinned \ {lh[tail]}
    /\ Loop("erase")
    /\ UNCHANGED <<holder, head, slots, lh, outstanding, committing, at,
                   wrote>>

Erase ==
    /\ phase = "erase"
    /\ lh' = <<>> /\ head' = <<>>
    /\ phase' = IF committing THEN "done" ELSE "none"
    /\ UNCHANGED <<cachevars, slots, outstanding, committing, tail, at, wrote>>

EndCommit(p) ==
    /\ phase = "done" /\ at[p] = "commit"
    /\ committing' = FALSE /\ phase' = "none"
    /\ Wakeup(p, "idle")
    /\ UNCHANGED <<cachevars, head, slots, lh, outstanding, tail, wrote>>

ReadHead ==
    /\ phase = "read_head"
    /\ lh' = head
    /\ phase' = IF head = <<>> THEN "erase" ELSE "install_trans"
    /\ UNCHANGED <<cachevars, head, slots, outstanding, committing, tail, at,
                   wrote>>

(* Power is lost: what is in memory is gone. *)
Crash ==
    /\ content' = disk /\ holder' = [s \in Blocks |-> NoProc] /\ pinned' = {}
    /\ lh' = <<>> /\ outstanding' = 0 /\ committing' = FALSE
    /\ phase' = "read_head" /\ tail' = 1
    /\ at' = [p \in Procs |-> "idle"]
    /\ wrote' = [p \in Procs |-> {}]
    /\ UNCHANGED <<disk, head, slots>>

(* The cache takes a buffer for another block. *)
Evict(s) == Recycle(s) /\ UNCHANGED <<head, slots, logvars, at, wrote>>

Committer == WriteLog \/ WriteHead \/ InstallTrans \/ Erase \/ ReadHead
             \/ \E p \in Procs : EndCommit(p)

Next == \/ Committer \/ Crash
        \/ \E s \in Blocks : Evict(s)
        \/ \E p \in Procs :
              \/ BeginOp(p) \/ Panic(p) \/ EndOp(p)
              \/ \E s \in Blocks : \/ Read(p, s) \/ LogWrite(p, s)
                                   \/ Release(p, s)
                                   \/ \E v \in Values : Update(p, s, v)

Spec == Init /\ [][Next]_vars

(* The committer runs on, and some call goes on: it does what it has begun *)
(* and, since it makes finitely many reads, comes to its end_op().         *)
FairSpec ==
    /\ Spec
    /\ WF_vars(Committer)
    /\ SF_vars(\E p \in Procs : EndOp(p))
    /\ WF_vars(\E p \in Procs : \/ Panic(p)
                                \/ \E s \in Blocks : \/ LogWrite(p, s)
                                                     \/ Release(p, s))
------------------------------------------------------------------------------
TypeOK ==
    /\ disk \in [Blocks -> Values] /\ content \in [Blocks -> Values]
    /\ holder \in [Blocks -> Procs \cup {NoProc}] /\ pinned \subseteq Blocks
    /\ head \in Seq(Blocks) /\ lh \in Seq(Blocks)
    /\ slots \in [1 .. nlog - 1 -> Values]
    /\ outstanding \in Nat /\ committing \in BOOLEAN
    /\ phase \in Phases /\ tail \in 1 .. nlog
    /\ at \in [Procs -> Places]
    /\ wrote \in [Procs -> SUBSET Blocks]

(* A process that sleeps in begin_op() could not be admitted: end_op() and *)
(* the end of a commit wake it whenever space becomes free.                *)
NoSleeperBesideRoom ==
    (\E p \in Procs : at[p] = "asleep") => committing \/ ~Room

(* and it does not sleep for ever while the kernel runs.                   *)
SleepersWoken ==
    \A p \in Procs : at[p] = "asleep" ~> at[p] # "asleep" \/ phase = "panic"

(* The log makes the disk an AtomicDisk: durable is what recovery would    *)
(* make of the disk, current what the calls see.                           *)
recovered ==
    [s \in Blocks |->
        IF \E i \in DOMAIN head : head[i] = s
        THEN slots[CHOOSE i \in DOMAIN head : head[i] = s] ELSE disk[s]]
seen == IF Booted \/ phase = "panic" THEN content ELSE recovered
inOp == {p \in Procs : at[p] \in {"op", "held", "modified", "logged"}}

Abstract == INSTANCE AtomicDisk
            WITH durable <- recovered, current <- seen, active <- inOp
ImplementsAtomicDisk == Abstract!AtomicSpec
==============================================================================
