------------------------------- MODULE Bcache --------------------------------
(***************************************************************************)
(* The buffer cache of xv6, kernel/bio.c, with its sleep locks             *)
(* (sleeplock.c) over the disk driver.                                     *)
(*                                                                         *)
(* A step is a critical section: of bcache.lock (the search of bget(), the *)
(* end of brelse(), bpin(), bunpin()) or of the spinlock in a sleep lock   *)
(* (acquiresleep(), releasesleep()).  A user reads one block at a time,    *)
(* changes, pins, writes and releases it as the log and the file system    *)
(* do.                                                                     *)
(***************************************************************************)
EXTENDS VirtioDisk, SequencesExt

CONSTANTS NoProc, NoBlock,
          MaxPins   \* bound: blocks pinned at a time

ASSUME BcacheAssumption ==
    /\ IsFiniteSet(Procs)   \* proc[NPROC], proc.c:11
    /\ NoProc \notin Procs /\ NoBlock \notin Blocks
    /\ MaxPins \in Nat

VARIABLES
    blockno, valid, refcnt,
    owner,     \* the process that has the buffer's sleep lock, or NoProc
    lru,       \* the list from head.next to head.prev
    buf,       \* the buffer bget() found for a process
    stage,     \* where a process is between bread() and brelse()
    pinned     \* the blocks that bpin() was called for, and bunpin() not

vars == <<diskvars, blockno, valid, refcnt, owner, lru, buf, stage, pinned>>

Stages == {"idle", "lock", "waiting", "locked", "reading", "held", "writing",
           "released"}

Init == /\ DiskInit
        /\ blockno = [b \in Bufs |-> NoBlock]
        /\ valid = [b \in Bufs |-> FALSE]
        /\ refcnt = [b \in Bufs |-> 0]
        /\ owner = [b \in Bufs |-> NoProc]
        /\ lru = [i \in Bufs |-> NBUF + 1 - i]
        /\ buf = [p \in Procs |-> NoBuf]
        /\ stage = [p \in Procs |-> "idle"]
        /\ pinned = {}

Goto(p, s) == stage' = [stage EXCEPT ![p] = s]
Ref(b) == refcnt' = [refcnt EXCEPT ![b] = @ + 1]

(* Mutant: a count that was 1 is not taken back. *)
UnrefToOne(b) == refcnt' = [refcnt EXCEPT ![b] = IF @ > 1 THEN @ - 1 ELSE @]

Unref(b) == refcnt' = [refcnt EXCEPT ![b] = @ - 1]
Got(p, b) == buf' = [buf EXCEPT ![p] = b]

------------------------------------------------------------------------------
(* Mutant: a buffer that is still being read is not found. *)
CachedIfValid(s) == {b \in Bufs : blockno[b] = s /\ valid[b]}

(* The buffers that pass bget()'s two tests, and the first of the unused   *)
(* ones from the end of the list.                                          *)
Cached(s) == {b \in Bufs : blockno[b] = s}
Unused == {b \in Bufs : refcnt[b] = 0}
LeastRecent == lru[Max({i \in DOMAIN lru : lru[i] \in Unused})]

(* bget(), the block is cached, *)
BgetHit(p, s) ==
    /\ stage[p] = "idle"
    /\ \E b \in Cached(s) : Got(p, b) /\ Ref(b)
    /\ Goto(p, "lock")
    /\ UNCHANGED <<diskvars, blockno, valid, owner, lru, pinned>>

(* or a buffer is recycled. *)
BgetMiss(p, s) ==
    /\ stage[p] = "idle"
    /\ Cached(s) = {} /\ Unused # {}
    /\ LET b == LeastRecent IN
       /\ Got(p, b)
       /\ blockno' = [blockno EXCEPT ![b] = s]
       /\ valid' = [valid EXCEPT ![b] = FALSE]
       /\ refcnt' = [refcnt EXCEPT ![b] = 1]
    /\ Goto(p, "lock")
    /\ UNCHANGED <<diskvars, owner, lru, pinned>>

Acquiresleep(p) ==
    /\ stage[p] = "lock"
    /\ IF owner[buf[p]] = NoProc
       THEN owner' = [owner EXCEPT ![buf[p]] = p] /\ Goto(p, "locked")
       ELSE Goto(p, "waiting") /\ UNCHANGED owner
    /\ UNCHANGED <<diskvars, blockno, valid, refcnt, lru, buf, pinned>>

(* bread(): the disk is read unless the buffer is valid. *)
BreadValid(p) ==
    /\ stage[p] = "locked" /\ valid[buf[p]]
    /\ Goto(p, "held")
    /\ UNCHANGED <<diskvars, blockno, valid, refcnt, owner, lru, buf, pinned>>

BreadDisk(p) ==
    /\ stage[p] = "locked" /\ ~valid[buf[p]]
    /\ Rw(p, [buf |-> buf[p], block |-> blockno[buf[p]], write |-> FALSE])
    /\ Goto(p, "reading")
    /\ UNCHANGED <<blockno, valid, refcnt, owner, lru, buf, pinned>>

(* virtio_disk_rw() returns to bread(), which sets b->valid, or to bwrite(). *)
Return(p) ==
    /\ Finish(p)
    /\ valid' = [valid EXCEPT ![buf[p]] = TRUE]
    /\ Goto(p, "held")
    /\ UNCHANGED <<blockno, refcnt, owner, lru, buf, pinned>>

Modify(p, v) ==
    /\ stage[p] = "held"
    /\ data' = [data EXCEPT ![buf[p]] = v]
    /\ UNCHANGED <<queue, disk, blockno, valid, refcnt, owner, lru, buf,
                   stage, pinned>>

Bwrite(p) ==
    /\ stage[p] = "held"
    /\ Rw(p, [buf |-> buf[p], block |-> blockno[buf[p]], write |-> TRUE])
    /\ Goto(p, "writing")
    /\ UNCHANGED <<blockno, valid, refcnt, owner, lru, buf, pinned>>

(* log_write() pins a block once; install_trans() unpins it. *)
Bpin(p) ==
    /\ stage[p] = "held" /\ blockno[buf[p]] \notin pinned
    /\ Cardinality(pinned) < MaxPins
    /\ Ref(buf[p])
    /\ pinned' = pinned \cup {blockno[buf[p]]}
    /\ UNCHANGED <<diskvars, blockno, valid, owner, lru, buf, stage>>

Bunpin(p) ==
    /\ stage[p] = "held" /\ blockno[buf[p]] \in pinned
    /\ Unref(buf[p])
    /\ pinned' = pinned \ {blockno[buf[p]]}
    /\ UNCHANGED <<diskvars, blockno, valid, owner, lru, buf, stage>>

(* brelse(): the sleep lock first, *)
Releasesleep(p) ==
    /\ stage[p] = "held"
    /\ owner' = [owner EXCEPT ![buf[p]] = NoProc]
    /\ stage' = [q \in Procs |->
                    IF q = p THEN "released"
                    ELSE IF stage[q] = "waiting" /\ buf[q] = buf[p] THEN "lock"
                    ELSE stage[q]]
    /\ UNCHANGED <<diskvars, blockno, valid, refcnt, lru, buf, pinned>>

(* Mutant: the buffer is not unlinked first. *)
ToFrontLinkedTwice(b) == <<b>> \o lru

(* then the count, and the list if nobody uses the buffer any more. *)
ToFront(b) == LET k == CHOOSE i \in Bufs : lru[i] = b
              IN  <<b>> \o RemoveAt(lru, k)

Brelse(p) ==
    /\ stage[p] = "released"
    /\ Unref(buf[p])
    /\ lru' = IF refcnt[buf[p]] = 1 THEN ToFront(buf[p]) ELSE lru
    /\ Goto(p, "idle") /\ Got(p, NoBuf)
    /\ UNCHANGED <<diskvars, blockno, valid, owner, pinned>>

------------------------------------------------------------------------------
(* The driver's steps inside a process's call. *)
InDisk(p) ==
    /\ Submit(p) \/ AllocFails(p)
    /\ UNCHANGED <<blockno, valid, refcnt, owner, lru, buf, stage, pinned>>

DiskStep ==
    /\ Device
    /\ UNCHANGED <<blockno, valid, refcnt, owner, lru, buf, stage, pinned>>

Next == \/ DiskStep
        \/ \E p \in Procs :
              \/ \E s \in Blocks : BgetHit(p, s) \/ BgetMiss(p, s)
              \/ \E v \in Values : Modify(p, v)
              \/ Acquiresleep(p) \/ BreadValid(p) \/ BreadDisk(p)
              \/ InDisk(p) \/ Return(p) \/ Bwrite(p)
              \/ Bpin(p) \/ Bunpin(p) \/ Releasesleep(p) \/ Brelse(p)

Spec == Init /\ [][Next]_vars

(* The device answers, its interrupt is taken, and the kernel schedules a  *)
(* process that is woken in virtio_disk_rw().                              *)
FairSpec == /\ Spec
            /\ WF_vars(DiskStep)
            /\ \A p \in Procs : WF_vars(Return(p))
------------------------------------------------------------------------------
TypeOK ==
    /\ free \subseteq Descriptors /\ avail \subseteq Descriptors
    /\ command \in [Descriptors -> Command \cup {NoCommand}]
    /\ used \in Seq(Descriptors)
    /\ irq \in BOOLEAN /\ handling \in BOOLEAN
    /\ inDisk \subseteq Bufs
    /\ call \in [Procs -> Command \cup {NoCommand}]
    /\ chain \in [Procs -> SUBSET Descriptors]
    /\ at \in [Procs -> Places]
    /\ data \in [Bufs -> Values] /\ disk \in [Blocks -> Values]
    /\ blockno \in [Bufs -> Blocks \cup {NoBlock}]
    /\ valid \in [Bufs -> BOOLEAN]
    /\ refcnt \in [Bufs -> 0 .. Cardinality(Procs) + 1]
    /\ owner \in [Bufs -> Procs \cup {NoProc}]
    /\ lru \in SetToSeqs(Bufs)
    /\ buf \in [Procs -> Bufs \cup {NoBuf}]
    /\ stage \in [Procs -> Stages]
    /\ pinned \subseteq Blocks

(* bget() finds a buffer as long as fewer blocks than there are buffers    *)
(* are pinned or used by a process: every count that went up comes down,   *)
(* and "bget: no buffers" is no panic of a correct use.                    *)
InUse == {blockno[buf[p]] : p \in {q \in Procs : stage[q] # "idle"}}
BuffersSuffice == Cardinality(InUse \cup pinned) < NBUF => Unused # {}

(* No process sleeps for what it could have: on a sleep lock that is free, *)
(* or on descriptors when three are free.                                  *)
NoMissedWakeup ==
    \A p \in Procs :
        /\ stage[p] = "waiting" => owner[buf[p]] # NoProc
        /\ at[p] = "nodesc" => Cardinality(free) < 3

(* A request that the device was given is answered, the interrupt is not   *)
(* lost to the handler that acknowledged an earlier one, and the process   *)
(* that sleeps on the buffer comes back.                                   *)
RequestsAnswered == \A p \in Procs : at[p] = "asleep" ~> at[p] = "out"

(* The cache, the locks and the driver together are the BlockCache: one    *)
(* buffer at most for a block, held by one process, whose content survives *)
(* as long as it is pinned or held.                                        *)
ValidCopy(s) == {b \in Cached(s) : valid[b]}
contentOf == [s \in Blocks |-> IF ValidCopy(s) = {} THEN disk[s]
                               ELSE data[CHOOSE b \in ValidCopy(s) : TRUE]]
holderOf == [s \in Blocks |->
    LET H == {p \in Procs : /\ stage[p] \in {"held", "writing"}
                            /\ blockno[buf[p]] = s}
    IN  IF H = {} THEN NoProc ELSE CHOOSE p \in H : TRUE]

Abstract == INSTANCE BlockCache WITH content <- contentOf, holder <- holderOf
ImplementsBlockCache == Abstract!CacheSpec
==============================================================================
