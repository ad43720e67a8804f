------------------------------- MODULE MemLib --------------------------------
(***************************************************************************)
(* The next-fit allocator of Assignment_2/C/mem.c.                         *)
(*                                                                         *)
(* Memory is counted in words of 16 bytes, the size of a memStruct and the *)
(* unit all its sizes are multiples of; addresses are relative to freeList.*)
(* A block is a header, its words, and a footer.  Of a memptr only whether *)
(* it is the magicNumber is ever looked at, so that is what is kept of it. *)
(*                                                                         *)
(* One thread makes the calls.  M_Free() is a step; M_Alloc() takes one    *)
(* more for every round of its search, so that it is seen whether the      *)
(* search ends.                                                            *)
(***************************************************************************)
EXTENDS Integers

CONSTANTS InitSizes,  \* the sizes in bytes M_Init() is called with
          Requests,   \* the sizes in bytes M_Alloc() is called with
          PageWords,  \* mmap() maps a multiple of this many words
          MaxCalls    \* bound on the calls of a behaviour

(* Sizes that do not fit their arithmetic are left out: below 32 bytes      *)
(* freeListSize wraps around, and so does memChunks for a negative request. *)
ASSUME MemLibAssumption ==
    /\ InitSizes \subseteq {n \in Nat : n > 32}
    /\ Requests \subseteq Nat
    /\ PageWords \in Nat \ {0}
    /\ MaxCalls \in Nat

(* The round up to the nearest multiple of 16, in words.                    *)
Chunks(size) == IF size % 16 = 0 THEN size \div 16 ELSE size \div 16 + 1

Mapped(size) == PageWords * ((Chunks(size) + PageWords - 1) \div PageWords)

(* What a memStruct says, or the word of a caller's data in its place.      *)
Zero == [size |-> 0, magic |-> FALSE]
Data == [size |-> -1, magic |-> FALSE]

VARIABLES
    freeListSize,
    mem,           \* the mapped words; none when freeList is NULL
    currentBlock,
    at,            \* where the caller is: outside, or in M_Alloc()'s search;
                   \* "undefined" after an access outside the mapping or
                   \* through a size that is a caller's data
    walker,        \* M_Alloc()'s walker,
    memChunks,     \* and its memChunks
    live,          \* the blocks the caller has, as their pointers and sizes
    merged,        \* whether a M_Free() combined a block with the one before
                   \* it, or with the one that is currentBlock
    emptied,       \* whether M_Alloc() was asked for no bytes
    calls

list == <<freeListSize, mem, currentBlock>>
search == <<walker, memChunks>>
vars == <<list, at, search, live, merged, emptied, calls>>

Init == /\ freeListSize = 0 /\ mem = <<>> /\ currentBlock = 0
        /\ at = "user" /\ walker = 0 /\ memChunks = 0
        /\ live = {} /\ merged = FALSE /\ emptied = FALSE /\ calls = 0

Ready == freeListSize # 0
Readable(a) == a \in DOMAIN mem
Sized(a) == Readable(a) /\ mem[a] # Data

Undefined == /\ at' = "undefined"
             /\ UNCHANGED <<list, search, live, merged>>

Calling == /\ at = "user" /\ calls < MaxCalls
           /\ calls' = calls + 1
------------------------------------------------------------------------------
(* A second call returns -1.                                                *)
M_Init(size) ==
    LET last == Chunks(size) - 2
    IN  /\ Calling
        /\ ~Ready
        /\ freeListSize' = last
        /\ mem' = [a \in 0..(Mapped(size) - 1) |->
                     IF a = 0 THEN [size |-> last, magic |-> TRUE] ELSE Zero]
        /\ currentBlock' = 0
        /\ UNCHANGED <<at, search, live, merged, emptied>>

(* Mutant: the header and footer of the new block are not counted.          *)
FitsWithoutHeaders(a, n) == mem[a].size >= n /\ mem[a].magic

Fits(a, n) == mem[a].size >= n + 2 /\ mem[a].magic

(* Mutant: the remaining free space starts at the footer of the block.      *)
PlaceOverFooter(b, n) ==
    LET next == b + n + 1
        made == [mem EXCEPT ![b] = [size |-> n, magic |-> FALSE],
                            ![b + n + 1] = [size |-> n, magic |-> FALSE]]
    IN  /\ mem' = IF next < freeListSize
                  THEN [made EXCEPT ![next] = [size |-> mem[b].size - (n + 2),
                                               magic |-> TRUE]]
                  ELSE made
        /\ currentBlock' = next
        /\ live' = live \cup {[ptr |-> b + 1, size |-> n]}
        /\ at' = "user"
        /\ UNCHANGED <<freeListSize, search, merged>>

(* Mutant: currentBlock steps over a remainder that has no words.           *)
PlaceSkipsEmpty(b, n) ==
    LET next == b + n + 2
        made == [mem EXCEPT ![b] = [size |-> n, magic |-> FALSE],
                            ![b + n + 1] = [size |-> n, magic |-> FALSE]]
        left == next < freeListSize
    IN  /\ mem' = IF left THEN [made EXCEPT ![next] = [size |-> mem[b].size - (n + 2),
                                                       magic |-> TRUE]]
                  ELSE made
        /\ currentBlock' = IF left /\ mem[b].size = n + 2 THEN next + 2 ELSE next
        /\ live' = live \cup {[ptr |-> b + 1, size |-> n]}
        /\ at' = "user"
        /\ UNCHANGED <<freeListSize, search, merged>>

(* A block of n words is made of the start of the free block at b.          *)
Place(b, n) ==
    LET next == b + n + 2
        made == [mem EXCEPT ![b] = [size |-> n, magic |-> FALSE],
                            ![b + n + 1] = [size |-> n, magic |-> FALSE]]
    IN  IF Readable(b + n + 1)
        THEN /\ mem' = IF next < freeListSize
                       THEN [made EXCEPT ![next] = [size |-> mem[b].size - (n + 2),
                                                    magic |-> TRUE]]
                       ELSE made
             /\ currentBlock' = next
             /\ live' = live \cup {[ptr |-> b + 1, size |-> n]}
             /\ at' = "user"
             /\ UNCHANGED <<freeListSize, search, merged>>
        ELSE Undefined

(* M_Alloc(), up to its return or its search.                               *)
M_Alloc(size) ==
    /\ Calling
    /\ Ready
    /\ emptied' = (emptied \/ size = 0)
    /\ IF ~Sized(currentBlock) THEN Undefined
       ELSE IF Fits(currentBlock, Chunks(size)) THEN Place(currentBlock, Chunks(size))
       ELSE /\ at' = "search"
            /\ walker' = currentBlock
            /\ memChunks' = Chunks(size)
            /\ UNCHANGED <<list, live, merged>>

(* Mutant: the walk does not start over at a block of size 0.               *)
SearchBeyondEnd ==
    /\ at = "search"
    /\ UNCHANGED <<emptied, calls>>
    /\ IF ~Sized(walker) THEN Undefined
       ELSE IF Fits(walker, memChunks) THEN Place(walker, memChunks)
       ELSE LET next == walker + mem[walker].size + 2
            IN  /\ walker' = next
                /\ at' = IF next = currentBlock THEN "user" ELSE "search"
                /\ UNCHANGED <<list, memChunks, live, merged>>

(* A round of the search; M_Alloc() returns NULL when it is back where it   *)
(* started.                                                                 *)
Search ==
    /\ at = "search"
    /\ UNCHANGED <<emptied, calls>>
    /\ IF ~Sized(walker) THEN Undefined
       ELSE IF mem[walker].size # 0 /\ Fits(walker, memChunks) THEN Place(walker, memChunks)
       ELSE LET next == IF mem[walker].size = 0 THEN 0 ELSE walker + mem[walker].size + 2
            IN  /\ walker' = next
                /\ at' = IF next = currentBlock THEN "user" ELSE "search"
                /\ UNCHANGED <<list, memChunks, live, merged>>
------------------------------------------------------------------------------
(* The caller writes the words it was given.                                *)
Write(b) ==
    /\ at = "user"
    /\ mem' = [a \in DOMAIN mem |-> IF a \in b.ptr..(b.ptr + b.size - 1) THEN Data
                                    ELSE mem[a]]
    /\ UNCHANGED <<freeListSize, currentBlock, at, search, live, merged, emptied, calls>>

(* The two merges of M_Free(), on the memory m: with the free block that    *)
(* follows, and with the free block before.                                 *)
CombinedWithNext(m, header, footer, nextHeader, nextFooter) ==
    LET size == m[header].size + m[nextHeader].size + 2
    IN  [m EXCEPT ![header] = [size |-> size, magic |-> m[nextHeader].magic],
                  ![footer].size = size,
                  ![nextFooter].size = size]

CombinedWithPrev(m, header, prevHeader, nextFooter) ==
    LET size == m[header].size + m[prevHeader].size + 2
    IN  [m EXCEPT ![prevHeader] = [size |-> size, magic |-> m[header].magic],
                  ![nextFooter] = [size |-> size, magic |-> FALSE]]

(* M_Free() of a pointer that M_Alloc() returned.                           *)
M_Free(b) ==
    LET header == b.ptr - 1
        footer == b.ptr + mem[header].size
        prevFooter == IF header = 0 THEN freeListSize - 1 ELSE b.ptr - 2
        prevHeader == prevFooter - mem[prevFooter].size - (IF header = 0 THEN 0 ELSE 1)
        nextHeader == footer + 1
        nextFooter == nextHeader + mem[nextHeader].size + 1
        nextFree == mem[nextHeader].magic
        after == IF nextFree
                 THEN CombinedWithNext(mem, header, footer, nextHeader, nextFooter)
                 ELSE mem
        prevFree == after[prevHeader].magic
        joined == IF prevFree THEN CombinedWithPrev(after, header, prevHeader, nextFooter)
                  ELSE after
    IN  /\ Calling
        /\ UNCHANGED emptied
        /\ IF /\ Sized(header) /\ Sized(prevFooter) /\ Readable(prevHeader)
              /\ Readable(footer) /\ Sized(nextHeader) /\ Readable(nextFooter)
           THEN /\ mem' = [joined EXCEPT ![header].magic = TRUE, ![footer].magic = TRUE]
                /\ live' = live \ {b}
                /\ merged' = (\/ merged
                              \/ prevFree
                              \/ nextFree /\ nextHeader = currentBlock)
                /\ UNCHANGED <<freeListSize, currentBlock, at, search>>
           ELSE Undefined

Next == \/ \E size \in InitSizes : M_Init(size)
        \/ \E size \in Requests : M_Alloc(size)
        \/ Search
        \/ \E b \in live : Write(b) \/ M_Free(b)

Spec == Init /\ [][Next]_vars

(* A call goes on until it returns.                                         *)
FairSpec == Spec /\ WF_vars(Search)
------------------------------------------------------------------------------
Extent(b) == (b.ptr - 1)..(b.ptr + b.size)

TypeOK ==
    /\ freeListSize \in Nat
    /\ \A a \in DOMAIN mem : /\ a \in Nat
                             /\ mem[a].size \in Nat \/ mem[a] = Data
                             /\ mem[a].magic \in BOOLEAN
    /\ currentBlock \in Nat /\ walker \in Nat /\ memChunks \in Nat
    /\ at \in {"user", "search", "undefined"}
    /\ \A b \in live : b.ptr \in Nat /\ b.size \in Nat
    /\ merged \in BOOLEAN /\ emptied \in BOOLEAN
    /\ calls \in 0..MaxCalls

(* The blocks the caller has share no word, header and footer included, and *)
(* their headers still say what M_Alloc() wrote, until M_Free() has         *)
(* combined a block with the one before it or with currentBlock: through    *)
(* any order of calls, whatever the caller writes in its blocks, and        *)
(* through the free blocks whose footer nobody ever set.                    *)
BlocksSeparate ==
    ~merged =>
        /\ \A b, c \in live : b # c => Extent(b) \cap Extent(c) = {}
        /\ \A b \in live : mem[b.ptr - 1] = [size |-> b.size, magic |-> FALSE]

(* Until then no call leaves the mapping or follows a size that is the      *)
(* caller's data, though the walk beyond the last free block reads the word *)
(* after the last of the memChunks words (which is mapped, and 0, when      *)
(* they do not fill a page).                                                *)
WithinMapping == ~merged => at # "undefined"

(* Until then M_Alloc() returns, if no caller has asked for 0 bytes: the    *)
(* search starts over at a block of size 0, so it comes back to             *)
(* currentBlock only when no such block lies in front of it.  Remainders of *)
(* size 0 never do, as each is currentBlock when it is made; what           *)
(* M_Alloc(0) makes does, and a search that fails then goes on for ever.    *)
SearchEnds == at = "search" /\ ~merged /\ ~emptied ~> at = "user"

(* mem.c:87: M_Alloc() returns the "newly allocated block of memory for     *)
(* use": no word of it is in a block the caller already has.                *)
BlocksNew == \A b, c \in live : b # c => Extent(b) \cap Extent(c) = {}
==============================================================================
