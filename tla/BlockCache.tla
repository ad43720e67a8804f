----------------------------- MODULE BlockCache ------------------------------
(***************************************************************************)
(* What the buffer cache of xv6 (kernel/bio.c) promises to its users, the  *)
(* log above all.  A block has one content, which its holder alone reads   *)
(* and changes; the disk gets it when the holder writes it.  A block that  *)
(* is neither held nor pinned may leave the cache, and its content is then *)
(* what the disk has.                                                      *)
(***************************************************************************)
EXTENDS FiniteSets

CONSTANTS Procs,    \* the processes
          NoProc,   \* nobody: the holder of a buffer that is not locked
          Blocks,   \* the disk blocks
          Values    \* what a block can contain

ASSUME BlockCacheAssumption == NoProc \notin Procs

VARIABLES disk,     \* what is on the disk
          content,  \* what the next holder of the block finds
          holder,   \* who holds the block's buffer, or NoProc
          pinned    \* the blocks bpin() keeps in the cache

cachevars == <<disk, content, holder, pinned>>

CacheInit == /\ disk \in [Blocks -> Values]
             /\ content = disk
             /\ holder = [s \in Blocks |-> NoProc]
             /\ pinned = {}

(* bread() returns. *)
Bread(p, s) == /\ holder[s] = NoProc
               /\ holder' = [holder EXCEPT ![s] = p]
               /\ UNCHANGED <<disk, content, pinned>>

(* The holder writes into b->data. *)
Modify(p, s, v) == /\ holder[s] = p
                   /\ content' = [content EXCEPT ![s] = v]
                   /\ UNCHANGED <<disk, holder, pinned>>

Bwrite(p, s) == /\ holder[s] = p
                /\ disk' = [disk EXCEPT ![s] = content[s]]
                /\ UNCHANGED <<content, holder, pinned>>

Brelse(p, s) == /\ holder[s] = p
                /\ holder' = [holder EXCEPT ![s] = NoProc]
                /\ UNCHANGED <<disk, content, pinned>>

Bpin(p, s) == /\ holder[s] = p
              /\ pinned' = pinned \cup {s}
              /\ UNCHANGED <<disk, content, holder>>

Bunpin(p, s) == /\ holder[s] = p
                /\ pinned' = pinned \ {s}
                /\ UNCHANGED <<disk, content, holder>>

(* The buffer is used for another block. *)
Recycle(s) == /\ holder[s] = NoProc /\ s \notin pinned
              /\ content' = [content EXCEPT ![s] = disk[s]]
              /\ UNCHANGED <<disk, holder, pinned>>

CacheNext ==
    \E s \in Blocks :
        \/ Recycle(s)
        \/ \E p \in Procs : \/ Bread(p, s) \/ Bwrite(p, s) \/ Brelse(p, s)
                            \/ Bpin(p, s) \/ Bunpin(p, s)
                            \/ \E v \in Values : Modify(p, s, v)

CacheSpec == CacheInit /\ [][CacheNext]_cachevars
==============================================================================
