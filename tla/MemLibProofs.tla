---------------------------- MODULE MemLibProofs ----------------------------
(***************************************************************************)
(* Proofs about MemLib, for all sizes M_Init() and M_Alloc() are called    *)
(* with, up to the first harmful merge of M_Free().                        *)
(*                                                                         *)
(* What mem.c relies on and never says is that headers cut the list into   *)
(* regions (Layout): each begins where another ends, each live block is    *)
(* one, and the last word of each, which M_Free() takes for a footer,      *)
(* though nobody may have set it, has a size that leads to a word of the   *)
(* list.                                                                   *)
(***************************************************************************)
EXTENDS MemLib, TLAPS

Word == [size : Nat, magic : BOOLEAN] \cup {Data}

After(h) == h + mem[h].size + 2

Words == /\ DOMAIN mem \subseteq Nat
         /\ mem \in [DOMAIN mem -> Word]

Scalars == /\ freeListSize \in Nat /\ currentBlock \in Nat
           /\ walker \in Nat /\ memChunks \in Nat
           /\ at \in {"user", "search", "undefined"}
           /\ live \subseteq [ptr : Nat, size : Nat]
           /\ calls \in 0 .. MaxCalls

(* The word M_Free() takes for the footer before the first block, and the  *)
(* words behind the last block.                                            *)
Ends == /\ freeListSize >= 1 /\ 0 .. freeListSize + 1 \subseteq DOMAIN mem
        /\ freeListSize > 1 =>
               mem[freeListSize - 1].size \in 0 .. freeListSize - 1
        /\ mem[freeListSize] = Zero
        /\ \A a \in DOMAIN mem : a > freeListSize + 1 => mem[a] = Zero

Regions(R) ==
    /\ R \subseteq 0 .. freeListSize /\ 0 \in R
    /\ \A h \in R : /\ mem[h] # Data
                    /\ After(h) \in R \cup {freeListSize + 2}
                    /\ mem[After(h) - 1].size \in 0 .. After(h) - 2
    /\ \A h, k \in R : h < k => After(h) <= k
    /\ \A k \in R \ {0} : \E h \in R : After(h) = k

Blocks(R) ==
    \A b \in live : /\ b.ptr - 1 \in R
                    /\ mem[b.ptr - 1] = [size |-> b.size, magic |-> FALSE]
                    /\ After(b.ptr - 1) \in R

Layout(R) == /\ Regions(R) /\ Blocks(R)
             /\ currentBlock \in R
             /\ at = "search" => walker \in R \cup {freeListSize + 2}

Good == /\ Words /\ Scalars
        /\ Ready => Ends /\ \E R : Layout(R)
        /\ ~ Ready => DOMAIN mem = {} /\ live = {} /\ at = "user"

IInv == /\ merged \in BOOLEAN /\ emptied \in BOOLEAN
        /\ ~ merged => Good

(* The word the walk reads beyond the last region is mapped.               *)
Mappable == Ready => freeListSize + 2 \in DOMAIN mem

Safe == at # "undefined" /\ Mappable

------------------------------------------------------------------------------
LEMMA ChunksAre ==
    ASSUME NEW size \in Nat
    PROVE  Chunks(size) \in Nat /\ (size > 32 => Chunks(size) >= 3)
BY DEF Chunks

LEMMA MappedAre ==
    ASSUME NEW size \in Nat
    PROVE  Mapped(size) \in Nat /\ Mapped(size) >= Chunks(size)
<1> DEFINE c == Chunks(size)   q == (c + PageWords - 1) \div PageWords
<1>1. c \in Nat /\ PageWords \in Nat \ {0}
  BY ChunksAre, MemLibAssumption
<1> HIDE DEF c
<1>2. q \in Nat
  BY <1>1
<1>3. PageWords * q >= c /\ PageWords * q \in Nat
  BY <1>1
<1> QED
  BY <1>3 DEF Mapped, c

LEMMA DataIs == /\ Data.size \notin Nat /\ Zero \in Word /\ Zero.size = 0
                /\ Zero.magic = FALSE /\ Zero # Data
                /\ \A w \in Word : w # Data => w.size \in Nat /\ w.magic \in BOOLEAN
                /\ \A n \in Nat, m \in BOOLEAN :
                       /\ [size |-> n, magic |-> m] \in Word
                       /\ [size |-> n, magic |-> m] # Data
BY DEF Data, Zero, Word

(* A region: where it ends, and what its first and last words are.         *)
LEMMA RegionIs ==
    ASSUME Words, Scalars, Ends, NEW R, Regions(R), NEW h \in R
    PROVE  /\ h \in Nat /\ h <= freeListSize /\ h \in DOMAIN mem
           /\ mem[h] \in Word /\ mem[h] # Data /\ mem[h].size \in Nat
           /\ After(h) = h + mem[h].size + 2
           /\ After(h) \in Nat /\ After(h) >= h + 2 /\ After(h) <= freeListSize + 2
           /\ After(h) - 1 \in DOMAIN mem
           /\ mem[After(h) - 1].size \in Nat /\ mem[After(h) - 1] # Data
           /\ mem[After(h) - 1].size <= After(h) - 2
<1>1. h \in 0 .. freeListSize /\ freeListSize \in Nat
  BY DEF Regions, Scalars
<1>2. h \in DOMAIN mem /\ mem[h] \in Word /\ mem[h] # Data
  <2>1. h \in 0 .. freeListSize + 1
    BY <1>1
  <2>2. h \in DOMAIN mem
    BY <2>1 DEF Ends
  <2> QED
    BY <2>2 DEF Regions, Words
<1>3. mem[h].size \in Nat
  BY <1>2, DataIs
<1>4. After(h) \in R \cup {freeListSize + 2} /\ R \subseteq 0 .. freeListSize
  BY DEF Regions
<1>5. /\ After(h) = h + mem[h].size + 2
      /\ After(h) \in Nat /\ After(h) >= h + 2 /\ After(h) <= freeListSize + 2
  BY <1>1, <1>3, <1>4 DEF After
<1>6. mem[After(h) - 1].size \in 0 .. After(h) - 2
  BY DEF Regions
<1>7. After(h) - 1 \in 0 .. freeListSize + 1
  BY <1>1, <1>5
<1>8. After(h) - 1 \in DOMAIN mem
  BY <1>7 DEF Ends
<1>9. mem[After(h) - 1].size \in Nat /\ mem[After(h) - 1].size <= After(h) - 2
  BY <1>5, <1>6
<1>10. mem[After(h) - 1] # Data
  BY <1>9, DataIs
<1> QED
  BY <1>1, <1>2, <1>3, <1>5, <1>8, <1>9, <1>10

(* Two regions share no word.                                              *)
LEMMA RegionsApart ==
    ASSUME Words, Scalars, Ends, NEW R, Regions(R), NEW h \in R, NEW k \in R, h # k
    PROVE  After(h) <= k \/ After(k) <= h
<1>1. h \in Nat /\ k \in Nat
  BY RegionIs
<1> QED
  BY <1>1 DEF Regions

(* A live block is a region before freeListSize.                           *)
LEMMA LiveIs ==
    ASSUME Words, Scalars, Ends, NEW R, Regions(R), Blocks(R), NEW b \in live
    PROVE  /\ b.ptr \in Nat /\ b.size \in Nat /\ b = [ptr |-> b.ptr, size |-> b.size]
           /\ b.ptr - 1 \in R /\ b.ptr >= 1
           /\ mem[b.ptr - 1] = [size |-> b.size, magic |-> FALSE]
           /\ After(b.ptr - 1) = b.ptr + b.size + 1
           /\ b.ptr + b.size + 1 \in R /\ b.ptr + b.size + 1 <= freeListSize
<1>1. b \in [ptr : Nat, size : Nat]
  BY DEF Scalars
<1>2. /\ b.ptr - 1 \in R /\ After(b.ptr - 1) \in R
      /\ mem[b.ptr - 1] = [size |-> b.size, magic |-> FALSE]
  BY DEF Blocks
<1>3. b.ptr \in Nat /\ b.size \in Nat /\ b = [ptr |-> b.ptr, size |-> b.size]
  BY <1>1
<1>4. mem[b.ptr - 1].size = b.size
  BY <1>2
<1>5. After(b.ptr - 1) = b.ptr + b.size + 1
  BY <1>3, <1>4 DEF After
<1>6. b.ptr - 1 \in Nat /\ After(b.ptr - 1) <= freeListSize
  BY <1>2, RegionIs
<1> QED
  BY <1>2, <1>3, <1>5, <1>6

------------------------------------------------------------------------------
(* A block of n words at the start of a free region cuts it in two.        *)
LEMMA PlaceKeeps ==
    ASSUME Words, Scalars, Ends, Ready, NEW R, Layout(R), NEW b \in R, NEW n \in Nat,
           mem[b].size >= n + 2, mem[b].magic, Place(b, n),
           calls' \in 0 .. MaxCalls
    PROVE  Good' /\ merged' = merged /\ (Mappable => Safe')
<1>0. PICK F, foot, next, rest :
          /\ F = freeListSize /\ foot = b + n + 1 /\ next = b + n + 2
          /\ rest = mem[b].size - (n + 2)
  OBVIOUS
<1> DEFINE hd == [size |-> n, magic |-> FALSE]
           tl == [size |-> rest, magic |-> TRUE]
<1>1. Regions(R) /\ Blocks(R) /\ F \in Nat
  BY <1>0 DEF Layout, Scalars
<1>2. /\ b \in Nat /\ b <= F /\ mem[b].size \in Nat /\ b \in DOMAIN mem
      /\ After(b) = b + mem[b].size + 2 /\ After(b) <= F + 2
      /\ After(b) - 1 \in DOMAIN mem /\ mem[b] # Data
  BY <1>0, <1>1, RegionIs
<1>3. /\ foot \in Nat /\ next \in Nat /\ rest \in Nat
      /\ b < foot /\ foot + 1 = next /\ next + 2 <= After(b)
      /\ next <= F /\ next + rest + 2 = After(b)
  BY <1>0, <1>1, <1>2
<1>4. foot \in DOMAIN mem /\ next \in DOMAIN mem /\ F \in DOMAIN mem
  <2>1. foot \in 0 .. F + 1 /\ next \in 0 .. F + 1 /\ F \in 0 .. F + 1
    BY <1>1, <1>3
  <2> QED
    BY <1>0, <2>1 DEF Ends
<1> DEFINE made == [mem EXCEPT ![b] = hd, ![foot] = hd]
<1>5. /\ mem' = IF next < F THEN [made EXCEPT ![next] = tl] ELSE made
      /\ currentBlock' = next
      /\ live' = live \cup {[ptr |-> b + 1, size |-> n]}
      /\ at' = "user"
      /\ UNCHANGED <<freeListSize, walker, memChunks, merged>>
  BY <1>0, <1>4 DEF Place, Readable, search
<1>6. hd \in Word /\ tl \in Word /\ hd # Data /\ tl # Data
      /\ hd.size = n /\ tl.size = rest
  BY <1>3, DataIs
<1> HIDE DEF hd, tl
<1>7. /\ made \in [DOMAIN mem -> Word] /\ made[b] = hd /\ made[foot] = hd
      /\ \A a \in DOMAIN mem : a # b /\ a # foot => made[a] = mem[a]
  BY <1>2, <1>3, <1>4, <1>6 DEF Words
<1> HIDE DEF made
<1>8. /\ mem' \in [DOMAIN mem -> Word]
      /\ mem'[b] = hd /\ mem'[foot] = hd
      /\ next < F => mem'[next] = tl
      /\ ~ (next < F) => mem'[next] = mem[next]
      /\ \A a \in DOMAIN mem : a # b /\ a # foot /\ a # next => mem'[a] = mem[a]
  BY <1>2, <1>3, <1>4, <1>5, <1>6, <1>7
<1>9. DOMAIN mem' = DOMAIN mem /\ Words'
  BY <1>8 DEF Words
<1>10. mem[F] = Zero /\ b # F /\ b < F
  <2>1. mem[F] = Zero
    BY <1>0 DEF Ends
  <2>2. b # F
    BY <1>2, <2>1, DataIs
  <2> QED
    BY <1>1, <1>2, <2>1, <2>2
<1>11. mem'[F] = Zero
  <2>1. CASE next < F
    <3>1. F # b /\ F # foot /\ F # next
      BY <1>1, <1>2, <1>3, <1>10, <2>1
    <3>2. mem'[F] = mem[F]
      BY <1>4, <1>8, <3>1
    <3> QED
      BY <1>10, <3>2
  <2>2. CASE next = F
    <3>1. ~ (next < F)
      BY <1>1, <2>2
    <3> QED
      BY <1>8, <1>10, <2>2, <3>1
  <2> QED
    BY <1>1, <1>3, <2>1, <2>2
<1>12. mem'[next] # Data /\ mem'[next].size = rest
  <2>1. CASE next < F
    BY <1>6, <1>8, <2>1
  <2>2. CASE next = F
    <3>1. rest = 0
      BY <1>1, <1>2, <1>3, <2>2
    <3> QED
      BY <1>11, <2>2, <3>1, DataIs
  <2> QED
    BY <1>1, <1>3, <2>1, <2>2
<1>13. Scalars'
  <2>1. [ptr |-> b + 1, size |-> n] \in [ptr : Nat, size : Nat]
    BY <1>2
  <2> QED
    BY <1>3, <1>5, <2>1 DEF Scalars
<1>14. Ends'
  <2>1. F > 1 => mem'[F - 1].size \in 0 .. F - 1
    <3> SUFFICES ASSUME F > 1 PROVE mem'[F - 1].size \in 0 .. F - 1
      OBVIOUS
    <3>0. F - 1 \in DOMAIN mem /\ mem[F - 1].size \in 0 .. F - 1
      <4>1. F - 1 \in 0 .. F + 1
        BY <1>1
      <4> QED
        BY <1>0, <4>1 DEF Ends
    <3>1. CASE F - 1 = b
      BY <1>0, <1>1, <1>2, <1>3, <3>1
    <3>2. CASE F - 1 = foot
      BY <1>0, <1>1, <1>2, <1>3, <1>6, <1>8, <3>2
    <3>3. CASE F - 1 = next
      <4>1. rest <= 1 /\ next >= 2
        BY <1>1, <1>2, <1>3, <3>3
      <4> QED
        BY <1>1, <1>3, <1>12, <3>3, <4>1
    <3>4. CASE F - 1 # b /\ F - 1 # foot /\ F - 1 # next
      BY <1>8, <3>0, <3>4
    <3> QED
      BY <3>1, <3>2, <3>3, <3>4
  <2>2. \A a \in DOMAIN mem : a > F + 1 => mem'[a] = Zero
    <3> SUFFICES ASSUME NEW a \in DOMAIN mem, a > F + 1 PROVE mem'[a] = Zero
      OBVIOUS
    <3>1. a \in Nat /\ mem[a] = Zero
      BY <1>0 DEF Words, Ends
    <3>2. a # b /\ a # foot /\ a # next
      BY <1>1, <1>2, <1>3, <3>1
    <3> QED
      BY <1>8, <3>1, <3>2
  <2>3. freeListSize' >= 1 /\ 0 .. freeListSize' + 1 \subseteq DOMAIN mem'
    BY <1>5, <1>9 DEF Ends
  <2>4. (freeListSize > 1 => mem[freeListSize - 1].size \in 0 .. freeListSize - 1)'
    BY <1>0, <1>5, <2>1
  <2> QED
    BY <1>0, <1>5, <1>9, <1>11, <2>2, <2>3, <2>4 DEF Ends
<1> DEFINE S == R \cup {next}
<1>15. ASSUME NEW h \in R, h # b
       PROVE  /\ h \in Nat /\ After(h) \in Nat
              /\ mem'[h] = mem[h] /\ After(h)' = After(h)
              /\ mem'[After(h) - 1] = mem[After(h) - 1]
              /\ After(h) <= b \/ (next < h /\ After(b) <= h)
  <2>1. /\ h \in Nat /\ h \in DOMAIN mem /\ After(h) \in Nat
        /\ After(h) >= h + 2 /\ After(h) - 1 \in DOMAIN mem
    BY <1>1, RegionIs
  <2>2. After(h) <= b \/ After(b) <= h
    BY <1>1, <1>15, RegionsApart
  <2>3. h # foot /\ h # next
        /\ After(h) - 1 # b /\ After(h) - 1 # foot /\ After(h) - 1 # next
        /\ (After(h) <= b \/ (next < h /\ After(b) <= h))
    BY <1>2, <1>3, <2>1, <2>2
  <2>4. mem'[h] = mem[h] /\ mem'[After(h) - 1] = mem[After(h) - 1]
    BY <1>8, <1>15, <2>1, <2>3
  <2>5. After(h)' = After(h)
    BY <2>4 DEF After
  <2> QED
    BY <2>1, <2>3, <2>4, <2>5
<1>16. After(b)' = next /\ After(next)' = After(b) /\ next \notin R
  <2>1. After(b)' = b + mem'[b].size + 2
    BY DEF After
  <2>2. After(next)' = next + mem'[next].size + 2
    BY DEF After
  <2>3. next \notin R
    <3> SUFFICES ASSUME next \in R PROVE FALSE
      OBVIOUS
    <3>1. After(next) <= b \/ next < next
      BY <1>2, <1>3, <1>15
    <3>2. After(next) >= next + 2 /\ After(next) \in Nat
      BY <1>1, RegionIs
    <3> QED
      BY <1>2, <1>3, <3>1, <3>2
  <2>4. After(b)' = next
    BY <1>0, <1>6, <1>8, <2>1
  <2>5. After(next)' = After(b)
    BY <1>3, <1>12, <2>2
  <2> QED
    BY <2>3, <2>4, <2>5
<1>17. After(b) \in S \cup {F + 2} /\ \A h \in R : h # b => After(h) \in S \cup {F + 2}
  BY <1>0, <1>1 DEF Regions
<1>18. Regions(S)'
  <2>1. S \subseteq 0 .. F /\ 0 \in S
    BY <1>0, <1>1, <1>3 DEF Regions
  <2>2. ASSUME NEW h \in S
        PROVE  /\ mem'[h] # Data
               /\ After(h)' \in S \cup {F + 2}
               /\ mem'[After(h)' - 1].size \in 0 .. After(h)' - 2
    <3>1. CASE h = b
      <4>1. next - 1 = foot /\ n \in 0 .. next - 2
        BY <1>0, <1>2, <1>3
      <4> QED
        BY <1>6, <1>8, <1>16, <3>1, <4>1
    <3>2. CASE h = next
      <4>1. /\ After(b) - 1 \in DOMAIN mem /\ After(b) - 1 # b
            /\ After(b) - 1 # foot /\ After(b) - 1 # next
        BY <1>2, <1>3
      <4>2. mem'[After(b) - 1] = mem[After(b) - 1]
        BY <1>8, <4>1
      <4>3. mem[After(b) - 1].size \in 0 .. After(b) - 2
        BY <1>1 DEF Regions
      <4> QED
        BY <1>12, <1>16, <1>17, <3>2, <4>2, <4>3
    <3>3. CASE h \in R /\ h # b
      <4>1. mem[h] # Data /\ mem[After(h) - 1].size \in 0 .. After(h) - 2
        BY <1>1, <3>3 DEF Regions
      <4> QED
        BY <1>15, <1>17, <3>3, <4>1
    <3> QED
      BY <3>1, <3>2, <3>3
  <2>3. ASSUME NEW h \in S, NEW k \in S, h < k PROVE After(h)' <= k
    <3>1. CASE h \in R /\ h # b /\ k \in R
      <4>1. After(h) <= k
        BY <1>1, <2>3, <3>1 DEF Regions
      <4> QED
        BY <1>15, <3>1, <4>1
    <3>2. CASE h = b /\ k \in R
      <4>1. After(b) <= k /\ k \in Nat
        BY <1>1, <2>3, <3>2, RegionIs DEF Regions
      <4> QED
        BY <1>2, <1>3, <1>16, <3>2, <4>1
    <3>3. CASE h = b /\ k = next
      BY <1>3, <1>16, <3>3
    <3>4. CASE h = next /\ k \in R
      <4>1. k # b /\ k \in Nat
        BY <1>1, <1>2, <1>3, <2>3, <3>4, RegionIs
      <4>2. After(k) <= b \/ After(b) <= k
        BY <1>1, <3>4, <4>1, RegionsApart
      <4>3. After(k) >= k + 2 /\ After(k) \in Nat
        BY <1>1, <3>4, RegionIs
      <4>4. After(b) <= k
        BY <1>2, <1>3, <2>3, <3>4, <4>1, <4>2, <4>3
      <4> QED
        BY <1>16, <3>4, <4>4
    <3>5. CASE h \in R /\ h # b /\ k = next
      <4>1. /\ h \in Nat /\ After(h) \in Nat /\ After(h)' = After(h)
            /\ After(h) <= b \/ next < h
        BY <1>15, <3>5
      <4>2. After(h) <= next
        BY <1>2, <1>3, <2>3, <3>5, <4>1
      <4> QED
        BY <3>5, <4>1, <4>2
    <3>6. CASE h = next /\ k = next
      BY <1>3, <2>3, <3>6
    <3> QED
      BY <3>1, <3>2, <3>3, <3>4, <3>5, <3>6
  <2>4. ASSUME NEW k \in S \ {0} PROVE \E h \in S : After(h)' = k
    <3>1. CASE k = next
      BY <1>16, <3>1
    <3>2. CASE k \in R
      <4>1. PICK h \in R : After(h) = k
        BY <1>1, <3>2 DEF Regions
      <4>2. CASE h = b
        BY <1>16, <4>1, <4>2
      <4>3. CASE h # b
        BY <1>15, <4>1, <4>3
      <4> QED
        BY <4>2, <4>3
    <3> QED
      BY <3>1, <3>2
  <2> HIDE DEF S
  <2> QED
    BY <1>0, <1>5, <2>1, <2>2, <2>3, <2>4 DEF Regions
<1>19. Blocks(S)'
  <2>1. ASSUME NEW c \in live, c.ptr - 1 # b
        PROVE  /\ c.ptr - 1 \in S
               /\ mem'[c.ptr - 1] = [size |-> c.size, magic |-> FALSE]
               /\ After(c.ptr - 1)' \in S
    <3>1. /\ c.ptr - 1 \in R /\ After(c.ptr - 1) \in R
          /\ mem[c.ptr - 1] = [size |-> c.size, magic |-> FALSE]
      BY <1>1 DEF Blocks
    <3> QED
      BY <1>15, <2>1, <3>1
  <2>2. \A c \in live : c.ptr - 1 # b
    <3>1. ASSUME NEW c \in live, c.ptr - 1 = b PROVE FALSE
      <4>1. mem[b] = [size |-> c.size, magic |-> FALSE]
        BY <1>1, <3>1 DEF Blocks
      <4> QED
        BY <4>1
    <3> QED
      BY <3>1
  <2>3. ASSUME NEW c, c = [ptr |-> b + 1, size |-> n]
        PROVE  /\ c.ptr - 1 \in S
               /\ mem'[c.ptr - 1] = [size |-> c.size, magic |-> FALSE]
               /\ After(c.ptr - 1)' \in S
    <3>1. c.ptr - 1 = b /\ c.size = n
      BY <1>2, <2>3
    <3> QED
      BY <1>8, <1>16, <3>1 DEF hd
  <2> HIDE DEF S
  <2>4. \A c \in live' : /\ c.ptr - 1 \in S
                         /\ mem'[c.ptr - 1] = [size |-> c.size, magic |-> FALSE]
                         /\ After(c.ptr - 1)' \in S
    BY <1>5, <2>1, <2>2, <2>3
  <2> QED
    BY <2>4 DEF Blocks
<1>20. Layout(S)'
  BY <1>5, <1>18, <1>19 DEF Layout
<1>21. Ready'
  BY <1>5 DEF Ready
<1>22. Good'
  BY <1>9, <1>13, <1>14, <1>20, <1>21 DEF Good
<1>23. Mappable => Safe'
  BY <1>5, <1>9 DEF Mappable, Safe, Ready
<1> QED
  BY <1>5, <1>22, <1>23

(* Nothing but at, walker and memChunks of the state changes.              *)
LEMMA SameListKeeps ==
    ASSUME Good, Ready, NEW R, Layout(R),
           UNCHANGED <<freeListSize, mem, currentBlock, live>>,
           walker' \in R \cup {freeListSize + 2}, memChunks' \in Nat,
           at' \in {"user", "search", "undefined"}, calls' \in 0 .. MaxCalls
    PROVE  Good' /\ (Mappable => Mappable')
<1>1. Words /\ Scalars /\ Ends /\ Regions(R) /\ Blocks(R) /\ currentBlock \in R
  BY DEF Good, Layout
<1>2. R \subseteq Nat /\ freeListSize \in Nat
  BY <1>1 DEF Regions, Scalars
<1>3. Words' /\ Ends' /\ Ready' /\ (Mappable => Mappable')
  BY <1>1 DEF Words, Ends, Ready, Mappable
<1>4. Scalars'
  BY <1>1, <1>2 DEF Scalars
<1>5. Regions(R)'
  BY <1>1 DEF Regions, After
<1>6. Blocks(R)'
  BY <1>1 DEF Blocks, After
<1>7. Layout(R)'
  BY <1>1, <1>5, <1>6 DEF Layout
<1> QED
  BY <1>3, <1>4, <1>7 DEF Good

LEMMA AllocKeeps ==
    ASSUME Good, NEW size \in Requests, M_Alloc(size)
    PROVE  Good' /\ merged' = merged /\ (Safe => Safe')
<1>1. PICK R : Layout(R)
  BY DEF Good, M_Alloc
<1>2. /\ Words /\ Scalars /\ Ends /\ Regions(R) /\ currentBlock \in R /\ Ready
      /\ walker \in Nat /\ at = "user" /\ calls' \in 0 .. MaxCalls
  <2>1. calls \in 0 .. MaxCalls /\ calls < MaxCalls /\ calls' = calls + 1
    BY DEF Good, Scalars, M_Alloc, Calling
  <2>2. calls' \in 0 .. MaxCalls
    BY <2>1, MemLibAssumption
  <2> QED
    BY <1>1, <2>2 DEF Good, Scalars, Layout, M_Alloc, Calling
<1>3. Chunks(size) \in Nat
  BY ChunksAre, MemLibAssumption
<1>4. Sized(currentBlock)
  BY <1>2, RegionIs DEF Sized, Readable
<1>5. CASE Fits(currentBlock, Chunks(size))
  <2>1. Place(currentBlock, Chunks(size))
    BY <1>4, <1>5 DEF M_Alloc
  <2>2. Good' /\ merged' = merged /\ (Mappable => Safe')
    BY <1>1, <1>2, <1>3, <1>5, <2>1, PlaceKeeps DEF Fits
  <2> QED
    BY <2>2 DEF Safe
<1>6. CASE ~ Fits(currentBlock, Chunks(size))
  <2>1. /\ at' = "search" /\ walker' = currentBlock /\ memChunks' = Chunks(size)
        /\ UNCHANGED <<freeListSize, mem, currentBlock, live, merged>>
    BY <1>4, <1>6 DEF M_Alloc, list
  <2> QED
    BY <1>1, <1>2, <1>3, <2>1, SameListKeeps DEF Safe
<1> QED
  BY <1>5, <1>6

LEMMA SearchKeeps ==
    ASSUME Good, Search
    PROVE  Good' /\ merged' = merged /\ (Safe => Safe')
<1>0. at = "search" /\ calls' = calls
  BY DEF Search
<1>1. Ready
  BY <1>0 DEF Good
<1>2. PICK R : Layout(R)
  BY <1>1 DEF Good
<1>3. /\ Words /\ Scalars /\ Ends /\ Regions(R)
      /\ walker \in R \cup {freeListSize + 2} /\ calls' \in 0 .. MaxCalls
      /\ memChunks \in Nat /\ freeListSize \in Nat
  BY <1>0, <1>1, <1>2 DEF Good, Scalars, Layout
<1>4. walker \in R => Sized(walker)
  BY <1>3, RegionIs DEF Sized, Readable
<1>5. Mappable => Sized(walker)
  <2> SUFFICES ASSUME Mappable, walker = freeListSize + 2 PROVE Sized(walker)
    BY <1>3, <1>4
  <2>1. walker \in DOMAIN mem /\ walker > freeListSize + 1
    BY <1>1, <1>3 DEF Mappable
  <2>2. mem[walker] = Zero
    BY <1>3, <2>1 DEF Ends
  <2> QED
    BY <2>1, <2>2, DataIs DEF Sized, Readable
<1>6. CASE ~ Sized(walker)
  <2>1. /\ at' = "undefined"
        /\ UNCHANGED <<freeListSize, mem, currentBlock, walker, memChunks, live, merged>>
    BY <1>6 DEF Search, Undefined, list, search
  <2> QED
    BY <1>1, <1>2, <1>3, <1>5, <1>6, <2>1, SameListKeeps DEF Safe
<1>7. CASE Sized(walker) /\ mem[walker].size # 0 /\ Fits(walker, memChunks)
  <2>1. walker \in R
    <3>1. CASE walker = freeListSize + 2
      <4>1. walker \in DOMAIN mem /\ walker > freeListSize + 1
        BY <1>3, <1>7, <3>1 DEF Sized, Readable
      <4>2. mem[walker] = Zero
        BY <1>3, <4>1 DEF Ends
      <4> QED
        BY <1>7, <4>2, DataIs
    <3> QED
      BY <1>3, <3>1
  <2>2. Place(walker, memChunks)
    BY <1>7 DEF Search
  <2>3. Good' /\ merged' = merged /\ (Mappable => Safe')
    BY <1>1, <1>2, <1>3, <1>7, <2>1, <2>2, PlaceKeeps DEF Fits
  <2> QED
    BY <2>3 DEF Safe
<1>8. CASE Sized(walker) /\ ~ (mem[walker].size # 0 /\ Fits(walker, memChunks))
  <2>1. /\ walker' = IF mem[walker].size = 0 THEN 0 ELSE After(walker)
        /\ at' \in {"user", "search"}
        /\ UNCHANGED <<freeListSize, mem, currentBlock, memChunks, live, merged>>
    BY <1>8 DEF Search, list, After
  <2>2. walker' \in R \cup {freeListSize + 2}
    <3>1. CASE mem[walker].size = 0
      BY <1>3, <2>1, <3>1 DEF Regions
    <3>2. CASE mem[walker].size # 0
      <4>1. walker \in R
        <5>1. CASE walker = freeListSize + 2
          <6>1. walker \in DOMAIN mem /\ walker > freeListSize + 1
            BY <1>3, <1>8, <5>1 DEF Sized, Readable
          <6>2. mem[walker] = Zero
            BY <1>3, <6>1 DEF Ends
          <6> QED
            BY <3>2, <6>2, DataIs
        <5> QED
          BY <1>3, <5>1
      <4> QED
        BY <1>3, <2>1, <3>2, <4>1 DEF Regions
    <3> QED
      BY <3>1, <3>2
  <2>3. Good' /\ (Mappable => Mappable')
    BY <1>1, <1>2, <1>3, <2>1, <2>2, SameListKeeps
  <2> QED
    BY <2>1, <2>3 DEF Safe
<1> QED
  BY <1>6, <1>7, <1>8

(* M_Init() makes one region, the free block at 0.                         *)
LEMMA M_InitKeeps ==
    ASSUME Good, NEW size \in InitSizes, M_Init(size)
    PROVE  Good' /\ merged' = merged /\ (Chunks(size) < Mapped(size) => Safe')
<1>1. PICK last, M : last = Chunks(size) - 2 /\ M = Mapped(size)
  OBVIOUS
<1>2. last \in Nat /\ last >= 1 /\ M \in Nat /\ M >= last + 2
  <2>1. size \in Nat /\ size > 32
    BY MemLibAssumption
  <2> QED
    BY <1>1, <2>1, ChunksAre, MappedAre
<1>3. /\ freeListSize' = last /\ currentBlock' = 0 /\ at' = "user"
      /\ mem' = [a \in 0 .. (M - 1) |->
                   IF a = 0 THEN [size |-> last, magic |-> TRUE] ELSE Zero]
      /\ UNCHANGED <<walker, memChunks, live, merged>>
      /\ ~ Ready
  BY <1>1 DEF M_Init, Calling, search
<1>4. live = {} /\ walker \in Nat /\ memChunks \in Nat
  BY <1>3 DEF Good, Scalars
<1>5. calls' \in 0 .. MaxCalls
  <2>1. calls \in 0 .. MaxCalls /\ calls < MaxCalls /\ calls' = calls + 1
    BY DEF Good, Scalars, M_Init, Calling
  <2> QED
    BY <2>1, MemLibAssumption
<1>6. /\ DOMAIN mem' = 0 .. (M - 1)
      /\ mem'[0] = [size |-> last, magic |-> TRUE]
      /\ \A a \in 1 .. (M - 1) : mem'[a] = Zero
  BY <1>2, <1>3
<1>7. /\ [size |-> last, magic |-> TRUE] \in Word
      /\ [size |-> last, magic |-> TRUE] # Data
  BY <1>2, DataIs
<1>8. Words'
  <2>1. \A a \in 0 .. (M - 1) :
            (IF a = 0 THEN [size |-> last, magic |-> TRUE] ELSE Zero) \in Word
    BY <1>7, DataIs
  <2>2. mem' \in [0 .. (M - 1) -> Word]
    BY <1>3, <2>1
  <2> QED
    BY <1>2, <1>6, <2>2 DEF Words
<1>9. Scalars'
  BY <1>2, <1>3, <1>4, <1>5 DEF Scalars
<1>10. Ends'
  <2>1. last \in 1 .. (M - 1) /\ 0 .. (last + 1) \subseteq 0 .. (M - 1)
    BY <1>2
  <2>2. last > 1 => last - 1 \in 1 .. (M - 1)
    BY <1>2
  <2>3. last > 1 => mem'[last - 1].size = 0
    BY <1>6, <2>2, DataIs
  <2>4. \A a \in 0 .. (M - 1) : a > last + 1 => mem'[a] = Zero
    BY <1>2, <1>6
  <2>5. mem'[last] = Zero
    BY <1>6, <2>1
  <2>6. last > 1 => 0 \in 0 .. last - 1
    BY <1>2
  <2> QED
    BY <1>2, <1>3, <1>6, <2>1, <2>3, <2>4, <2>5, <2>6 DEF Ends
<1>11. After(0)' = last + 2
  BY <1>2, <1>6 DEF After
<1>12. Regions({0})'
  <2>1. last + 1 \in 1 .. (M - 1)
    BY <1>2
  <2>2. mem'[last + 1].size = 0
    BY <1>6, <2>1, DataIs
  <2>3. last + 2 - 1 = last + 1 /\ 0 \in 0 .. last + 2 - 2 /\ 0 \in 0 .. last
    BY <1>2
  <2>4. ASSUME NEW h \in {0}
        PROVE  /\ mem'[h] # Data
               /\ After(h)' \in {0} \cup {last + 2}
               /\ mem'[After(h)' - 1].size \in 0 .. After(h)' - 2
    <3>1. h = 0 /\ After(h)' = last + 2
      BY <1>11
    <3>2. mem'[After(h)' - 1].size = 0 /\ 0 \in 0 .. After(h)' - 2
      <4>1. After(h)' - 1 = last + 1 /\ After(h)' - 2 = last
        BY <1>2, <3>1
      <4> QED
        BY <2>2, <2>3, <4>1
    <3>3. mem'[h] # Data
      BY <1>6, <1>7, <3>1
    <3> QED
      BY <3>1, <3>2, <3>3
  <2> QED
    BY <1>3, <2>3, <2>4 DEF Regions
<1>13. Layout({0})'
  BY <1>3, <1>4, <1>12 DEF Layout, Blocks
<1>14. Ready'
  BY <1>2, <1>3 DEF Ready
<1>15. Good'
  BY <1>8, <1>9, <1>10, <1>13, <1>14 DEF Good
<1>16. ASSUME Chunks(size) < Mapped(size) PROVE Safe'
  <2>1. last + 2 \in 0 .. (M - 1)
    <3>1. Chunks(size) \in Nat
      BY ChunksAre, MemLibAssumption
    <3> QED
      BY <1>1, <1>2, <1>16, <3>1
  <2> QED
    BY <1>3, <1>6, <2>1 DEF Safe, Mappable
<1> QED
  BY <1>3, <1>15, <1>16

(* The words of a block that are its owner's are no word of a header, nor  *)
(* the last word of a region.                                              *)
LEMMA WriteKeeps ==
    ASSUME Good, NEW b \in live, Write(b)
    PROVE  Good' /\ merged' = merged /\ (Safe => Safe')
<1>1. Ready
  BY DEF Good
<1>2. PICK R : Layout(R)
  BY <1>1 DEF Good
<1>3. Words /\ Scalars /\ Ends /\ Regions(R) /\ Blocks(R)
  BY <1>1, <1>2 DEF Good, Layout
<1>4. PICK F, h0, e : F = freeListSize /\ h0 = b.ptr - 1 /\ e = b.ptr + b.size + 1
  OBVIOUS
<1>5. /\ F \in Nat /\ h0 \in R /\ e \in R /\ e <= F /\ After(h0) = e
      /\ b.ptr \in Nat /\ b.size \in Nat /\ h0 \in Nat /\ e \in Nat
  BY <1>3, <1>4, LiveIs, RegionIs DEF Scalars
<1>6. /\ UNCHANGED <<freeListSize, currentBlock, at, walker, memChunks, live, merged, calls>>
      /\ at = "user"
  BY DEF Write, search
<1>7. /\ mem' \in [DOMAIN mem -> Word] /\ DOMAIN mem' = DOMAIN mem
      /\ \A a \in DOMAIN mem : a <= h0 \/ a >= e - 1 => mem'[a] = mem[a]
  <2>1. mem' = [a \in DOMAIN mem |->
                  IF a \in b.ptr .. (b.ptr + b.size - 1) THEN Data ELSE mem[a]]
    BY DEF Write
  <2>2. \A a \in DOMAIN mem : mem[a] \in Word
    BY <1>3 DEF Words
  <2>3. Data \in Word
    BY DEF Word
  <2>4. mem' \in [DOMAIN mem -> Word] /\ DOMAIN mem' = DOMAIN mem
    BY <2>1, <2>2, <2>3
  <2>5. ASSUME NEW a \in DOMAIN mem, a <= h0 \/ a >= e - 1 PROVE mem'[a] = mem[a]
    <3>1. a \in Nat
      BY <1>3 DEF Words
    <3>2. a \notin b.ptr .. (b.ptr + b.size - 1)
      BY <1>4, <1>5, <2>5, <3>1
    <3> QED
      BY <2>1, <3>2
  <2> QED
    BY <2>4, <2>5
<1>8. ASSUME NEW h \in R
      PROVE  /\ mem'[h] = mem[h] /\ After(h)' = After(h)
             /\ mem'[After(h) - 1] = mem[After(h) - 1]
  <2>1. /\ h \in Nat /\ h \in DOMAIN mem /\ After(h) \in Nat
        /\ After(h) >= h + 2 /\ After(h) - 1 \in DOMAIN mem
    BY <1>3, RegionIs
  <2>2. h = h0 \/ After(h) <= h0 \/ e <= h
    BY <1>3, <1>5, RegionsApart
  <2>3. /\ h <= h0 \/ h >= e - 1
        /\ After(h) - 1 <= h0 \/ After(h) - 1 >= e - 1
    BY <1>5, <2>1, <2>2
  <2>4. mem'[h] = mem[h] /\ mem'[After(h) - 1] = mem[After(h) - 1]
    BY <1>7, <2>1, <2>3
  <2> QED
    BY <2>4 DEF After
<1>9. Ends'
  <2>1. F \in DOMAIN mem /\ F >= 1 /\ F - 1 \in DOMAIN mem
    <3>1. F \in 0 .. F + 1 /\ F - 1 \in 0 .. F + 1 /\ F >= 1
      BY <1>3, <1>4, <1>5 DEF Ends
    <3> QED
      BY <1>3, <1>4, <3>1 DEF Ends
  <2>2. mem'[F] = mem[F] /\ mem'[F - 1] = mem[F - 1]
    BY <1>5, <1>7, <2>1
  <2>3. ASSUME NEW a \in DOMAIN mem, a > F + 1 PROVE mem'[a] = mem[a]
    <3>1. a \in Nat
      BY <1>3 DEF Words
    <3> QED
      BY <1>5, <1>7, <2>3, <3>1
  <2> QED
    BY <1>3, <1>4, <1>6, <1>7, <2>2, <2>3 DEF Ends
<1>10. Regions(R)'
  BY <1>3, <1>6, <1>8 DEF Regions
<1>11. Blocks(R)'
  BY <1>3, <1>6, <1>8 DEF Blocks
<1>12. Layout(R)'
  BY <1>2, <1>6, <1>10, <1>11 DEF Layout
<1>13. Words' /\ Scalars' /\ Ready'
  BY <1>1, <1>3, <1>6, <1>7 DEF Words, Scalars, Ready
<1>14. Good'
  BY <1>9, <1>12, <1>13 DEF Good
<1> QED
  BY <1>6, <1>7, <1>14 DEF Safe, Mappable, Ready

WithSize(w, s) == [w EXCEPT !.size = s]

LEMMA WordExcept ==
    ASSUME NEW w \in Word, w # Data
    PROVE  /\ [w EXCEPT !.magic = TRUE] \in Word
           /\ [w EXCEPT !.magic = TRUE] # Data
           /\ [w EXCEPT !.magic = TRUE].size = w.size
           /\ \A s \in Nat : /\ WithSize(w, s) \in Word
                             /\ WithSize(w, s) # Data
                             /\ WithSize(w, s).size = s
<1>1. w \in [size : Nat, magic : BOOLEAN]
  BY DEF Word
<1>2. ASSUME NEW s \in Nat
      PROVE  WithSize(w, s) \in [size : Nat, magic : BOOLEAN] /\ WithSize(w, s).size = s
  BY <1>1 DEF WithSize
<1>3. [w EXCEPT !.magic = TRUE] \in [size : Nat, magic : BOOLEAN]
      /\ [w EXCEPT !.magic = TRUE].size = w.size
  BY <1>1
<1>4. \A v \in [size : Nat, magic : BOOLEAN] : v \in Word /\ v # Data
  BY DataIs DEF Word
<1> QED
  BY <1>2, <1>3, <1>4

(* The headers of b and of the next block, and the word after that one.    *)
Around(b, h0, e, end) ==
    h0 = b.ptr - 1 /\ e = b.ptr + b.size + 1 /\ end = After(e)

(* What M_Free() of a block does that combines it with no block before it: *)
(* it sets two or three words, and always finds them.                      *)
LEMMA FreeIs ==
    ASSUME Words, Scalars, Ends, NEW R, Regions(R), Blocks(R), NEW b \in live,
           M_Free(b), ~ merged',
           NEW h0, NEW e, NEW end, Around(b, h0, e, end)
    PROVE  /\ UNCHANGED <<freeListSize, currentBlock, at, walker, memChunks>>
           /\ live' = live \ {b} /\ ~ merged
           /\ mem' \in [DOMAIN mem -> Word] /\ DOMAIN mem' = DOMAIN mem
           /\ ~ mem[e].magic =>
                 /\ mem'[h0] # Data /\ mem'[h0].size = mem[h0].size
                 /\ mem'[e - 1] # Data /\ mem'[e - 1].size = mem[e - 1].size
                 /\ \A a \in DOMAIN mem : a # h0 /\ a # e - 1 => mem'[a] = mem[a]
           /\ mem[e].magic =>
                 /\ e # currentBlock
                 /\ mem'[h0] # Data /\ mem'[h0].size = end - h0 - 2
                 /\ mem'[e - 1] # Data /\ mem'[e - 1].size = end - h0 - 2
                 /\ mem'[end - 1] # Data /\ mem'[end - 1].size = end - h0 - 2
                 /\ \A a \in DOMAIN mem :
                       a # h0 /\ a # e - 1 /\ a # end - 1 => mem'[a] = mem[a]
<1>0. /\ mem[h0] = [size |-> b.size, magic |-> FALSE]
      /\ b.ptr \in Nat /\ b.size \in Nat
  BY LiveIs DEF Around
<1>1. /\ h0 \in R /\ e \in R /\ h0 \in Nat /\ e \in Nat
      /\ After(h0) = e /\ e <= freeListSize /\ b.ptr = h0 + 1 /\ freeListSize \in Nat
  <2>1. h0 = b.ptr - 1 /\ e = b.ptr + b.size + 1
    BY DEF Around
  <2>2. h0 \in R /\ e \in R /\ e <= freeListSize /\ b.ptr = h0 + 1 /\ After(h0) = e
    BY <1>0, <2>1, LiveIs
  <2> QED
    BY <2>2, RegionIs DEF Scalars
<1>2. /\ h0 \in DOMAIN mem /\ mem[h0] # Data
      /\ e - 1 \in DOMAIN mem /\ mem[e - 1] # Data
      /\ e \in DOMAIN mem /\ mem[e] # Data /\ mem[e].size \in Nat
      /\ end = e + mem[e].size + 2 /\ end \in Nat
      /\ end - 1 \in DOMAIN mem /\ mem[end - 1] # Data
  <2>1. end = After(e)
    BY DEF Around
  <2> QED
    BY <1>1, <2>1, RegionIs
<1>3. h0 < e - 1 /\ e - 1 < end - 1 /\ b.size = e - h0 - 2 /\ mem[h0].size = b.size
  <2>1. mem[h0].size = b.size
    BY <1>0
  <2>2. b.size = e - h0 - 2 /\ h0 < e - 1
    BY <1>0, <1>1 DEF Around
  <2>3. e - 1 < end - 1
    BY <1>1, <1>2
  <2> QED
    BY <2>1, <2>2, <2>3
<1>4. PICK header, footer, prevFooter, prevHeader, nextHeader, nextFooter :
        /\ header = b.ptr - 1
        /\ footer = b.ptr + mem[header].size
        /\ prevFooter = IF header = 0 THEN freeListSize - 1 ELSE b.ptr - 2
        /\ prevHeader = prevFooter - mem[prevFooter].size - (IF header = 0 THEN 0 ELSE 1)
        /\ nextHeader = footer + 1
        /\ nextFooter = nextHeader + mem[nextHeader].size + 1
  OBVIOUS
<1>5. header = h0 /\ footer = e - 1 /\ nextHeader = e /\ nextFooter = end - 1
  BY <1>1, <1>2, <1>3, <1>4
<1>6. /\ prevFooter \in DOMAIN mem /\ mem[prevFooter] # Data
      /\ prevHeader \in 0 .. freeListSize
  <2>1. CASE h0 = 0
    <3>1. freeListSize > 1 /\ prevFooter = freeListSize - 1
      BY <1>1, <1>2, <1>3, <1>4, <1>5, <2>1
    <3>2. mem[prevFooter].size \in 0 .. freeListSize - 1
      BY <3>1 DEF Ends
    <3>3. prevHeader = prevFooter - mem[prevFooter].size - 0
      BY <1>4, <1>5, <2>1
    <3>4. prevHeader \in 0 .. freeListSize
      BY <1>1, <3>1, <3>2, <3>3
    <3>5. prevFooter \in 0 .. freeListSize + 1
      BY <1>1, <3>1
    <3> QED
      BY <3>2, <3>4, <3>5, DataIs DEF Ends
  <2>2. CASE h0 # 0
    <3>1. PICK k \in R : After(k) = h0
      BY <1>1, <2>2 DEF Regions
    <3>2. prevFooter = After(k) - 1 /\ prevFooter = h0 - 1 /\ h0 <= freeListSize
      <4>1. prevFooter = b.ptr - 2
        BY <1>4, <1>5, <2>2
      <4>2. h0 <= freeListSize
        BY <1>1, RegionIs
      <4> QED
        <5>1. prevFooter = h0 - 1
          BY <1>1, <4>1
        <5> QED
          BY <3>1, <4>2, <5>1
    <3>3. /\ prevFooter \in DOMAIN mem /\ mem[prevFooter] # Data
          /\ mem[prevFooter].size \in Nat /\ mem[prevFooter].size <= h0 - 2
      BY <3>1, <3>2, RegionIs
    <3>4. prevHeader = prevFooter - mem[prevFooter].size - 1
      BY <1>4, <1>5, <2>2
    <3>5. prevHeader \in 0 .. freeListSize
      <4>1. PICK m : m = mem[prevFooter].size
        OBVIOUS
      <4>2. m \in Nat /\ m <= h0 - 2 /\ prevHeader = prevFooter - m - 1
        BY <3>3, <3>4, <4>1
      <4> QED
        BY <1>1, <3>2, <4>2
    <3> QED
      BY <3>3, <3>5
  <2> QED
    BY <2>1, <2>2
<1>7. /\ Sized(header) /\ Sized(prevFooter) /\ Readable(prevHeader)
      /\ Readable(footer) /\ Sized(nextHeader) /\ Readable(nextFooter)
  <2>1. prevHeader \in 0 .. freeListSize + 1
    BY <1>1, <1>6
  <2> QED
    BY <1>2, <1>5, <1>6, <2>1 DEF Sized, Readable, Ends
<1>8. PICK after, joined :
        /\ after = IF mem[nextHeader].magic
                   THEN CombinedWithNext(mem, header, footer, nextHeader, nextFooter)
                   ELSE mem
        /\ joined = IF after[prevHeader].magic
                    THEN CombinedWithPrev(after, header, prevHeader, nextFooter)
                    ELSE after
  OBVIOUS
<1>9. /\ mem' = [joined EXCEPT ![header].magic = TRUE, ![footer].magic = TRUE]
      /\ live' = live \ {b}
      /\ merged' = (\/ merged
                    \/ after[prevHeader].magic
                    \/ mem[nextHeader].magic /\ nextHeader = currentBlock)
      /\ UNCHANGED <<freeListSize, currentBlock, at, walker, memChunks>>
  BY <1>4, <1>7, <1>8 DEF M_Free, list, search
<1>10. /\ ~ merged /\ ~ after[prevHeader].magic
       /\ ~ (mem[e].magic /\ e = currentBlock)
  BY <1>5, <1>9
<1>11. mem' = [after EXCEPT ![h0].magic = TRUE, ![e - 1].magic = TRUE]
  BY <1>5, <1>8, <1>9, <1>10
<1>12. ASSUME after \in [DOMAIN mem -> Word], after[h0] # Data, after[e - 1] # Data
       PROVE  /\ mem' \in [DOMAIN mem -> Word] /\ DOMAIN mem' = DOMAIN mem
              /\ mem'[h0] # Data /\ mem'[h0].size = after[h0].size
              /\ mem'[e - 1] # Data /\ mem'[e - 1].size = after[e - 1].size
              /\ \A a \in DOMAIN mem : a # h0 /\ a # e - 1 => mem'[a] = after[a]
  <2>1. after[h0] \in Word /\ after[e - 1] \in Word /\ h0 # e - 1
    BY <1>1, <1>2, <1>3, <1>12
  <2> DEFINE x == [after[h0] EXCEPT !.magic = TRUE]
             y == [after[e - 1] EXCEPT !.magic = TRUE]
  <2>2. /\ x \in Word /\ x # Data /\ x.size = after[h0].size
        /\ y \in Word /\ y # Data /\ y.size = after[e - 1].size
    BY <1>12, <2>1, WordExcept
  <2>3. mem' = [after EXCEPT ![h0] = x, ![e - 1] = y]
    BY <1>2, <1>11, <1>12, <2>1
  <2> HIDE DEF x, y
  <2>4. /\ mem' \in [DOMAIN mem -> Word] /\ mem'[h0] = x /\ mem'[e - 1] = y
        /\ \A a \in DOMAIN mem : a # h0 /\ a # e - 1 => mem'[a] = after[a]
    BY <1>2, <1>12, <2>1, <2>2, <2>3
  <2> QED
    BY <2>2, <2>4
<1>13. CASE ~ mem[e].magic
  <2>1. after = mem
    BY <1>5, <1>8, <1>13
  <2> QED
    BY <1>2, <1>9, <1>10, <1>12, <1>13, <2>1 DEF Words
<1>14. CASE mem[e].magic
  <2>1. PICK size : size = mem[h0].size + mem[e].size + 2
    OBVIOUS
  <2>2. size \in Nat /\ size = end - h0 - 2
    <3>1. PICK n, m : n = b.size /\ m = mem[e].size
      OBVIOUS
    <3>2. /\ size = n + m + 2 /\ n \in Nat /\ m \in Nat
          /\ n = e - h0 - 2 /\ end = e + m + 2
      BY <1>0, <1>2, <1>3, <2>1, <3>1
    <3> QED
      BY <1>1, <3>2
  <2>3. after = [mem EXCEPT ![h0] = [size |-> size, magic |-> mem[e].magic],
                            ![e - 1].size = size, ![end - 1].size = size]
    BY <1>5, <1>8, <1>14, <2>1 DEF CombinedWithNext
  <2> DEFINE w == [size |-> size, magic |-> mem[e].magic]
             x == WithSize(mem[e - 1], size)
             y == WithSize(mem[end - 1], size)
  <2>4. mem[e - 1] \in Word /\ mem[end - 1] \in Word /\ mem[e] \in Word
    BY <1>2 DEF Words
  <2>5. /\ w \in Word /\ w # Data /\ w.size = size
        /\ x \in Word /\ x # Data /\ x.size = size
        /\ y \in Word /\ y # Data /\ y.size = size
    <3>1. mem[e].magic \in BOOLEAN
      BY <1>2, <2>4, DataIs
    <3>2. w \in Word /\ w # Data /\ w.size = size
      BY <2>2, <3>1, DataIs
    <3>3. x \in Word /\ x # Data /\ x.size = size
      BY <1>2, <2>2, <2>4, WordExcept
    <3>4. y \in Word /\ y # Data /\ y.size = size
      BY <1>2, <2>2, <2>4, WordExcept
    <3> QED
      BY <3>2, <3>3, <3>4
  <2>6. h0 # e - 1 /\ h0 # end - 1 /\ e - 1 # end - 1
    BY <1>1, <1>2, <1>3
  <2>7. after = [mem EXCEPT ![h0] = w, ![e - 1] = x, ![end - 1] = y]
    BY <1>2, <2>3, <2>6 DEF Words, WithSize
  <2> HIDE DEF w, x, y
  <2>8. /\ after \in [DOMAIN mem -> Word]
        /\ after[h0] = w /\ after[e - 1] = x /\ after[end - 1] = y
        /\ \A a \in DOMAIN mem : a # h0 /\ a # e - 1 /\ a # end - 1 => after[a] = mem[a]
    BY <1>2, <2>5, <2>6, <2>7 DEF Words
  <2>9. /\ mem' \in [DOMAIN mem -> Word] /\ DOMAIN mem' = DOMAIN mem
        /\ mem'[h0] # Data /\ mem'[h0].size = size
        /\ mem'[e - 1] # Data /\ mem'[e - 1].size = size
        /\ \A a \in DOMAIN mem : a # h0 /\ a # e - 1 => mem'[a] = after[a]
    BY <1>12, <2>5, <2>8
  <2>10. mem'[end - 1] = y
    BY <1>2, <2>6, <2>8, <2>9
  <2>11. \A a \in DOMAIN mem :
            a # h0 /\ a # e - 1 /\ a # end - 1 => mem'[a] = mem[a]
    BY <2>8, <2>9
  <2> QED
    BY <1>9, <1>10, <1>14, <2>2, <2>5, <2>9, <2>10, <2>11
<1> QED
  BY <1>13, <1>14

(* The region of a block that is freed stays, as long as it was or, when   *)
(* the next one is free, with that one in it.                              *)
LEMMA FreeKeeps ==
    ASSUME Good, NEW b \in live, M_Free(b), ~ merged'
    PROVE  Good' /\ ~ merged /\ (Safe => Safe')
<1>1. Ready
  BY DEF Good
<1>2. PICK R : Layout(R)
  BY <1>1 DEF Good
<1>3. Words /\ Scalars /\ Ends /\ Regions(R) /\ Blocks(R) /\ currentBlock \in R
  BY <1>1, <1>2 DEF Good, Layout
<1>4. PICK F, h0, e, end : F = freeListSize /\ Around(b, h0, e, end)
  BY DEF Around
<1>5. /\ F \in Nat /\ h0 \in R /\ e \in R /\ e <= F /\ After(h0) = e
      /\ h0 \in Nat /\ e \in Nat /\ h0 + 2 <= e
      /\ mem[h0] = [size |-> b.size, magic |-> FALSE]
      /\ h0 = b.ptr - 1 /\ b.ptr \in Nat
  BY <1>3, <1>4, LiveIs, RegionIs DEF Scalars, Around
<1>6. /\ end = After(e) /\ end \in Nat /\ e + 2 <= end /\ end <= F + 2
      /\ end \in R \cup {F + 2} /\ end - 1 \in DOMAIN mem
  <2>1. end = After(e)
    BY <1>4 DEF Around
  <2> QED
    BY <1>3, <1>4, <1>5, <2>1, RegionIs DEF Regions
<1>7. /\ h0 \in DOMAIN mem /\ e - 1 \in DOMAIN mem /\ mem[e - 1].size \in Nat
      /\ F \in DOMAIN mem /\ F - 1 \in DOMAIN mem
      /\ \A a \in DOMAIN mem : a \in Nat
  <2>1. F \in 0 .. F + 1 /\ F - 1 \in 0 .. F + 1
    BY <1>5
  <2> QED
    BY <1>3, <1>4, <1>5, <2>1, RegionIs DEF Words, Ends
<1>8. /\ UNCHANGED <<freeListSize, currentBlock, at, walker, memChunks>>
      /\ live' = live \ {b} /\ ~ merged
      /\ mem' \in [DOMAIN mem -> Word] /\ DOMAIN mem' = DOMAIN mem
  BY <1>3, <1>4, FreeIs
<1>9. at = "user" /\ calls' \in 0 .. MaxCalls
  <2>1. calls \in 0 .. MaxCalls /\ calls < MaxCalls /\ calls' = calls + 1 /\ at = "user"
    BY <1>3 DEF Scalars, M_Free, Calling
  <2> QED
    BY <2>1, MemLibAssumption
<1>10. Words' /\ Scalars' /\ Ready' /\ (Safe => Safe')
  BY <1>1, <1>3, <1>8, <1>9 DEF Words, Scalars, Ready, Safe, Mappable
<1>11. ASSUME NEW h \in R, h # h0
       PROVE  /\ h \in Nat /\ h \in DOMAIN mem /\ After(h) \in Nat /\ After(h) >= h + 2
              /\ After(h) - 1 \in DOMAIN mem
              /\ After(h) <= h0 \/ e <= h
  BY <1>3, <1>5, <1>11, RegionIs, RegionsApart
<1>12. ASSUME NEW c \in live', NEW S \in SUBSET R,
              \A h \in S : h # h0 => mem'[h] = mem[h] /\ After(h)' = After(h),
              \A h \in R : h # e => h \in S, ~ (e \in S) => mem[e].magic
       PROVE  /\ c.ptr - 1 \in S
              /\ mem'[c.ptr - 1] = [size |-> c.size, magic |-> FALSE]
              /\ After(c.ptr - 1)' \in S
  <2>1. c \in live /\ c # b
    BY <1>8
  <2>2. PICK k : k = c.ptr - 1
    OBVIOUS
  <2>3. /\ k \in R /\ mem[k] = [size |-> c.size, magic |-> FALSE]
        /\ c = [ptr |-> c.ptr, size |-> c.size] /\ c.ptr \in Nat
        /\ b = [ptr |-> b.ptr, size |-> b.size] /\ After(k) \in R
    BY <1>3, <2>1, <2>2, LiveIs DEF Blocks
  <2>4. k # h0
    <3> SUFFICES ASSUME k = h0 PROVE FALSE
      OBVIOUS
    <3>1. c.ptr = b.ptr
      BY <1>5, <2>2, <2>3
    <3>2. c.size = b.size
      BY <1>5, <2>3
    <3> QED
      BY <2>1, <2>3, <3>1, <3>2
  <2>5. k \in S
    BY <1>12, <2>3
  <2>6. After(k) # e
    BY <1>5, <1>11, <2>3, <2>4
  <2>7. After(k) \in S
    BY <1>12, <2>3, <2>6
  <2> QED
    BY <1>12, <2>2, <2>3, <2>4, <2>5, <2>7
<1>13. CASE ~ mem[e].magic
  <2>1. /\ mem'[h0] # Data /\ mem'[h0].size = mem[h0].size
        /\ mem'[e - 1] # Data /\ mem'[e - 1].size = mem[e - 1].size
        /\ \A a \in DOMAIN mem : a # h0 /\ a # e - 1 => mem'[a] = mem[a]
    BY <1>3, <1>4, <1>13, FreeIs
  <2>2. \A a \in DOMAIN mem : mem'[a].size = mem[a].size
    BY <2>1
  <2>3. \A h \in R : After(h)' = After(h)
    <3>1. \A h \in R : h \in DOMAIN mem
      BY <1>3, RegionIs
    <3> QED
      BY <2>2, <3>1 DEF After
  <2>4. \A h \in R : h # h0 => mem'[h] = mem[h]
    <3> SUFFICES ASSUME NEW h \in R, h # h0 PROVE mem'[h] = mem[h]
      OBVIOUS
    <3>1. h # e - 1 /\ h \in DOMAIN mem
      BY <1>5, <1>11
    <3> QED
      BY <2>1, <3>1
  <2>5. Ends'
    <3>1. F # h0 /\ F # e - 1
      BY <1>5
    <3>2. mem'[F] = mem[F] /\ mem'[F - 1].size = mem[F - 1].size
      BY <1>7, <2>1, <2>2, <3>1
    <3>3. ASSUME NEW a \in DOMAIN mem, a > F + 1 PROVE mem'[a] = mem[a]
      <4>1. a # h0 /\ a # e - 1
        BY <1>5, <1>7, <3>3
      <4> QED
        BY <2>1, <4>1
    <3> QED
      BY <1>3, <1>4, <1>8, <3>2, <3>3 DEF Ends
  <2>6. Regions(R)'
    <3>1. ASSUME NEW h \in R
          PROVE  /\ mem'[h] # Data /\ After(h)' \in R \cup {F + 2}
                 /\ mem'[After(h)' - 1].size \in 0 .. After(h)' - 2
      <4>1. /\ mem[h] # Data /\ After(h) \in R \cup {F + 2}
            /\ mem[After(h) - 1].size \in 0 .. After(h) - 2
        BY <1>3, <1>4 DEF Regions
      <4>2. After(h) - 1 \in DOMAIN mem
        BY <1>3, RegionIs
      <4> QED
        BY <2>1, <2>2, <2>3, <2>4, <4>1, <4>2
    <3> QED
      BY <1>3, <1>4, <1>8, <2>3, <3>1 DEF Regions
  <2>7. Blocks(R)'
    <3>1. \A c \in live' : /\ c.ptr - 1 \in R
                           /\ mem'[c.ptr - 1] = [size |-> c.size, magic |-> FALSE]
                           /\ After(c.ptr - 1)' \in R
      BY <1>5, <1>12, <2>3, <2>4
    <3> QED
      BY <3>1 DEF Blocks
  <2>8. Layout(R)'
    BY <1>3, <1>8, <1>9, <2>6, <2>7 DEF Layout
  <2> QED
    BY <1>8, <1>10, <2>5, <2>8 DEF Good
<1>14. CASE mem[e].magic
  <2> DEFINE S == R \ {e}
  <2>1. PICK s : s = end - h0 - 2
    OBVIOUS
  <2>2. s \in 0 .. end - 2 /\ s \in Nat
    BY <1>5, <1>6, <2>1
  <2>3. /\ e # currentBlock
        /\ mem'[h0] # Data /\ mem'[h0].size = s
        /\ mem'[e - 1] # Data /\ mem'[e - 1].size = s
        /\ mem'[end - 1] # Data /\ mem'[end - 1].size = s
        /\ \A a \in DOMAIN mem :
              a # h0 /\ a # e - 1 /\ a # end - 1 => mem'[a] = mem[a]
    BY <1>3, <1>4, <1>14, <2>1, FreeIs
  <2>4. mem[F] = Zero /\ e # F /\ e < F
    <3>1. mem[F] = Zero
      BY <1>3, <1>4 DEF Ends
    <3>2. e # F
      BY <1>14, <3>1, DataIs
    <3> QED
      BY <1>5, <3>1, <3>2
  <2>5. end # F + 1
    BY <1>3, <1>4, <1>5, <1>6 DEF Regions
  <2>6. Ends'
    <3>1. F # h0 /\ F # e - 1 /\ F # end - 1
      BY <1>5, <1>6, <2>5
    <3>2. mem'[F] = mem[F]
      BY <1>7, <2>3, <3>1
    <3>3. ASSUME NEW a \in DOMAIN mem, a > F + 1 PROVE mem'[a] = mem[a]
      <4>1. a # h0 /\ a # e - 1 /\ a # end - 1
        BY <1>5, <1>6, <1>7, <3>3
      <4> QED
        BY <2>3, <4>1
    <3>4. F > 1 => mem'[F - 1].size \in 0 .. F - 1
      <4>1. F - 1 # h0 /\ F - 1 # e - 1
        BY <1>5, <2>4
      <4>2. CASE F - 1 = end - 1
        BY <1>5, <1>6, <2>2, <2>3, <4>2
      <4>3. CASE F - 1 # end - 1
        <5>1. mem'[F - 1] = mem[F - 1]
          BY <1>7, <2>3, <4>1, <4>3
        <5> QED
          BY <1>3, <1>4, <5>1 DEF Ends
      <4> QED
        BY <4>2, <4>3
    <3> QED
      BY <1>3, <1>4, <1>8, <3>2, <3>3, <3>4 DEF Ends
  <2>7. ASSUME NEW h \in R, h # h0, h # e
        PROVE  /\ mem'[h] = mem[h] /\ After(h)' = After(h)
               /\ mem'[After(h) - 1] = mem[After(h) - 1] /\ After(h) # e
               /\ h \in Nat /\ After(h) \in Nat /\ After(h) >= h + 2
               /\ After(h) <= h0 \/ end <= h
    <3>1. /\ h \in Nat /\ h \in DOMAIN mem /\ After(h) \in Nat /\ After(h) >= h + 2
          /\ After(h) - 1 \in DOMAIN mem
          /\ After(h) <= h0 \/ e <= h
      BY <1>11, <2>7
    <3>2. After(h) <= e \/ end <= h
      BY <1>3, <1>5, <1>6, <2>7, RegionsApart
    <3>3. After(h) <= h0 \/ end <= h
      BY <1>5, <1>6, <3>1, <3>2
    <3>4. /\ h # e - 1 /\ h # end - 1 /\ After(h) # e
          /\ After(h) - 1 # h0 /\ After(h) - 1 # e - 1 /\ After(h) - 1 # end - 1
      BY <1>5, <1>6, <3>1, <3>3
    <3>5. mem'[h] = mem[h] /\ mem'[After(h) - 1] = mem[After(h) - 1]
      BY <2>3, <2>7, <3>1, <3>4
    <3>6. After(h)' = After(h)
      BY <3>5 DEF After
    <3> QED
      BY <3>1, <3>3, <3>4, <3>5, <3>6
  <2>8. After(h0)' = end
    <3>1. After(h0)' = h0 + mem'[h0].size + 2
      BY DEF After
    <3> QED
      BY <1>5, <1>6, <2>1, <2>2, <2>3, <3>1
  <2>9. Regions(S)'
    <3>1. S \subseteq 0 .. F /\ 0 \in S
      <4>1. 0 # e
        BY <1>5
      <4> QED
        BY <1>3, <1>4, <4>1 DEF Regions
    <3>2. ASSUME NEW h \in S
          PROVE  /\ mem'[h] # Data /\ After(h)' \in S \cup {F + 2}
                 /\ mem'[After(h)' - 1].size \in 0 .. After(h)' - 2
      <4>1. CASE h = h0
        <5>1. end # e
          BY <1>5, <1>6
        <5> QED
          BY <1>6, <2>2, <2>3, <2>8, <4>1, <5>1
      <4>2. CASE h # h0
        <5>1. /\ mem[h] # Data /\ After(h) \in R \cup {F + 2}
              /\ mem[After(h) - 1].size \in 0 .. After(h) - 2
          BY <1>3, <1>4 DEF Regions
        <5> QED
          BY <2>7, <4>2, <5>1
      <4> QED
        BY <4>1, <4>2
    <3>3. ASSUME NEW h \in S, NEW k \in S, h < k PROVE After(h)' <= k
      <4>1. k \in Nat
        BY <1>3, RegionIs
      <4>2. CASE h = h0
        <5>1. k # h0 /\ k # e /\ k \in R
          BY <1>5, <3>3, <4>1, <4>2
        <5>2. After(k) <= h0 \/ end <= k
          BY <2>7, <5>1
        <5>3. After(k) \in Nat /\ After(k) >= k + 2
          BY <2>7, <5>1
        <5>4. end <= k
          BY <1>5, <1>6, <3>3, <4>1, <4>2, <5>2, <5>3
        <5> QED
          BY <2>8, <4>2, <5>4
      <4>3. CASE h # h0
        <5>1. After(h) <= k
          BY <1>3, <3>3 DEF Regions
        <5> QED
          BY <2>7, <4>3, <5>1
      <4> QED
        BY <4>2, <4>3
    <3>4. ASSUME NEW k \in S \ {0} PROVE \E h \in S : After(h)' = k
      <4>1. PICK h \in R : After(h) = k
        BY <1>3 DEF Regions
      <4>2. CASE h = e
        <5>1. h0 \in S
          BY <1>5
        <5> QED
          BY <1>6, <2>8, <4>1, <4>2, <5>1
      <4>3. CASE h # e
        <5>1. h # h0
          BY <1>5, <4>1
        <5> QED
          BY <2>7, <4>1, <4>3, <5>1
      <4> QED
        BY <4>2, <4>3
    <3> HIDE DEF S
    <3> QED
      BY <1>4, <1>8, <3>1, <3>2, <3>3, <3>4 DEF Regions
  <2>10. Blocks(S)'
    <3>1. S \in SUBSET R /\ (\A h \in R : h # e => h \in S)
      OBVIOUS
    <3>2. \A h \in S : h # h0 => mem'[h] = mem[h] /\ After(h)' = After(h)
      BY <2>7
    <3> HIDE DEF S
    <3>3. \A c \in live' : /\ c.ptr - 1 \in S
                           /\ mem'[c.ptr - 1] = [size |-> c.size, magic |-> FALSE]
                           /\ After(c.ptr - 1)' \in S
      BY <1>12, <1>14, <3>1, <3>2
    <3> QED
      BY <3>3 DEF Blocks
  <2>11. Layout(S)'
    BY <1>3, <1>8, <1>9, <2>3, <2>9, <2>10 DEF Layout
  <2> QED
    BY <1>8, <1>10, <2>6, <2>11 DEF Good
<1> QED
  BY <1>13, <1>14

------------------------------------------------------------------------------
LEMMA InitHolds == Init => IInv /\ (~ merged => Safe)
<1> SUFFICES ASSUME Init PROVE IInv /\ Safe
  OBVIOUS
<1>1. /\ freeListSize = 0 /\ mem = <<>> /\ currentBlock = 0 /\ at = "user"
      /\ walker = 0 /\ memChunks = 0 /\ live = {} /\ merged = FALSE
      /\ emptied = FALSE /\ calls = 0
  BY DEF Init
<1>2. DOMAIN mem = {}
  BY <1>1
<1>3. Words
  BY <1>1, <1>2 DEF Words
<1>4. Scalars
  BY <1>1, MemLibAssumption DEF Scalars
<1>5. Good
  BY <1>1, <1>2, <1>3, <1>4 DEF Good, Ready
<1> QED
  BY <1>1, <1>5 DEF IInv, Safe, Mappable, Ready

(* The harmful merges are never undone, and until the first of them every  *)
(* action keeps the layout.                                                *)
LEMMA NextHolds ==
    ASSUME IInv, [Next]_vars
    PROVE  /\ IInv' /\ (~ merged' => ~ merged)
           /\ (\A size \in InitSizes : Chunks(size) < Mapped(size)) =>
                 (~ merged' /\ Safe => Safe')
<1>1. emptied' \in BOOLEAN
  <2>1. emptied \in BOOLEAN
    BY DEF IInv
  <2>2. CASE UNCHANGED vars
    BY <2>1, <2>2 DEF vars
  <2>3. ASSUME NEW size \in Requests, M_Alloc(size) PROVE emptied' \in BOOLEAN
    BY <2>1, <2>3 DEF M_Alloc
  <2>4. \/ \E size \in InitSizes : M_Init(size)
        \/ Search
        \/ \E b \in live : Write(b) \/ M_Free(b)
        => emptied' = emptied
    BY DEF M_Init, Search, Write, M_Free
  <2> QED
    BY <2>1, <2>2, <2>3, <2>4 DEF Next
<1>2. merged' \in BOOLEAN /\ (merged => merged')
  <2>1. merged \in BOOLEAN
    BY DEF IInv
  <2>2. CASE UNCHANGED vars
    BY <2>1, <2>2 DEF vars
  <2>3. ASSUME NEW size \in InitSizes, M_Init(size) PROVE merged' = merged
    BY <2>3 DEF M_Init
  <2>4. ASSUME NEW a, NEW n, Place(a, n) PROVE merged' = merged
    BY <2>4 DEF Place, Undefined
  <2>5. ASSUME NEW size \in Requests, M_Alloc(size) PROVE merged' = merged
    BY <2>4, <2>5 DEF M_Alloc, Undefined
  <2>6. Search => merged' = merged
    BY <2>4 DEF Search, Undefined
  <2>7. ASSUME NEW b \in live, Write(b) PROVE merged' = merged
    BY <2>7 DEF Write
  <2>8. ASSUME NEW b \in live, M_Free(b)
        PROVE  merged' \in BOOLEAN /\ (merged => merged')
    BY <2>1, <2>8 DEF M_Free, Undefined
  <2> QED
    BY <2>1, <2>2, <2>3, <2>5, <2>6, <2>7, <2>8 DEF Next
<1>3. ASSUME ~ merged'
      PROVE  /\ Good'
             /\ (\A size \in InitSizes : Chunks(size) < Mapped(size)) => (Safe => Safe')
  <2>1. Good
    BY <1>2, <1>3 DEF IInv
  <2>2. CASE UNCHANGED vars
    <3>1. UNCHANGED <<freeListSize, mem, currentBlock, at, walker, memChunks, live, calls>>
      BY <2>2 DEF vars, list, search
    <3>2. Good'
      BY <2>1, <3>1 DEF Good, Words, Scalars, Ends, Ready, Layout, Regions, Blocks, After
    <3> QED
      BY <3>1, <3>2 DEF Safe, Mappable, Ready
  <2>3. ASSUME NEW size \in InitSizes, M_Init(size)
        PROVE  Good' /\ (Chunks(size) < Mapped(size) => Safe')
    BY <2>1, <2>3, M_InitKeeps
  <2>4. ASSUME NEW size \in Requests, M_Alloc(size) PROVE Good' /\ (Safe => Safe')
    BY <2>1, <2>4, AllocKeeps
  <2>5. Search => Good' /\ (Safe => Safe')
    BY <2>1, SearchKeeps
  <2>6. ASSUME NEW b \in live, Write(b) PROVE Good' /\ (Safe => Safe')
    BY <2>1, <2>6, WriteKeeps
  <2>7. ASSUME NEW b \in live, M_Free(b) PROVE Good' /\ (Safe => Safe')
    BY <1>3, <2>1, <2>7, FreeKeeps
  <2> QED
    BY <2>2, <2>3, <2>4, <2>5, <2>6, <2>7 DEF Next
<1> QED
  BY <1>1, <1>2, <1>3 DEF IInv

LEMMA LayoutHolds == Spec => []IInv
<1>1. Init => IInv
  BY InitHolds
<1>2. IInv /\ [Next]_vars => IInv'
  BY NextHolds
<1> QED
  BY <1>1, <1>2, PTL DEF Spec

(* The variables are what mem.c's are, as long as no M_Free() has merged a *)
(* block with the one before it or with currentBlock: after such a merge   *)
(* it may take a word for a size that is none.                             *)
THEOREM MemLibTypeCorrect == Spec => [](~ merged => TypeOK)
<1>1. IInv => (~ merged => TypeOK)
  <2> SUFFICES ASSUME IInv, ~ merged PROVE TypeOK
    OBVIOUS
  <2>1. Words /\ Scalars /\ merged \in BOOLEAN /\ emptied \in BOOLEAN
    BY DEF IInv, Good
  <2>2. ASSUME NEW a \in DOMAIN mem
        PROVE  /\ a \in Nat /\ mem[a].magic \in BOOLEAN
               /\ mem[a].size \in Nat \/ mem[a] = Data
    <3>1. a \in Nat /\ mem[a] \in Word
      BY <2>1 DEF Words
    <3>2. CASE mem[a] = Data
      BY <3>1, <3>2 DEF Data
    <3>3. CASE mem[a] # Data
      BY <3>1, <3>3, DataIs
    <3> QED
      BY <3>1, <3>2, <3>3
  <2>3. \A b \in live : b.ptr \in Nat /\ b.size \in Nat
    BY <2>1 DEF Scalars
  <2> QED
    BY <2>1, <2>2, <2>3 DEF TypeOK, Scalars
<1> QED
  BY <1>1, LayoutHolds, PTL

(* M_Alloc() gives no word to two blocks, and no header of a block is      *)
(* written over, whatever is allocated, written and freed in whatever      *)
(* order and sizes, until that merge.                                      *)
THEOREM BlocksNeverOverlap == Spec => []BlocksSeparate
<1>1. IInv => BlocksSeparate
  <2> SUFFICES ASSUME IInv, ~ merged
               PROVE  /\ \A b, c \in live : b # c => Extent(b) \cap Extent(c) = {}
                      /\ \A b \in live : mem[b.ptr - 1] = [size |-> b.size, magic |-> FALSE]
    BY DEF BlocksSeparate
  <2>1. CASE live = {}
    BY <2>1
  <2>2. CASE live # {}
    <3>1. PICK R : Layout(R)
      BY <2>2 DEF IInv, Good
    <3>2. Words /\ Scalars /\ Ends /\ Regions(R) /\ Blocks(R)
      BY <2>2, <3>1 DEF IInv, Good, Layout
    <3>3. ASSUME NEW b \in live, NEW c \in live, b # c
          PROVE  Extent(b) \cap Extent(c) = {}
      <4>1. PICK h, k : h = b.ptr - 1 /\ k = c.ptr - 1
        OBVIOUS
      <4>2. /\ b.ptr \in Nat /\ b.size \in Nat /\ c.ptr \in Nat /\ c.size \in Nat
            /\ b = [ptr |-> b.ptr, size |-> b.size]
            /\ c = [ptr |-> c.ptr, size |-> c.size]
            /\ h \in R /\ k \in R
            /\ mem[h] = [size |-> b.size, magic |-> FALSE]
            /\ mem[k] = [size |-> c.size, magic |-> FALSE]
            /\ After(h) = b.ptr + b.size + 1 /\ After(k) = c.ptr + c.size + 1
        BY <3>2, <4>1, LiveIs
      <4>3. h # k
        <5> SUFFICES ASSUME h = k PROVE FALSE
          OBVIOUS
        <5>1. b.ptr = c.ptr
          BY <4>1, <4>2
        <5>2. b.size = c.size
          BY <4>2
        <5> QED
          BY <3>3, <4>2, <5>1, <5>2
      <4>4. After(h) <= k \/ After(k) <= h
        BY <3>2, <4>2, <4>3, RegionsApart
      <4>5. Extent(b) = h .. After(h) - 1 /\ Extent(c) = k .. After(k) - 1
        BY <4>1, <4>2 DEF Extent
      <4>6. h \in Nat /\ k \in Nat /\ After(h) \in Nat /\ After(k) \in Nat
        BY <3>2, <4>2, RegionIs
      <4> QED
        BY <4>4, <4>5, <4>6
    <3> QED
      BY <3>2, <3>3 DEF Blocks
  <2> QED
    BY <2>1, <2>2
<1> QED
  BY <1>1, LayoutHolds, PTL

(* No call reads or writes a word that is not mapped, or follows a size    *)
(* that is a caller's data, until that merge, if M_Init()'s sizes do not   *)
(* fill their last page: the search reads the word after the last block.   *)
THEOREM WalkStaysMapped ==
    ASSUME \A size \in InitSizes : Chunks(size) < Mapped(size)
    PROVE  Spec => []WithinMapping
<1> DEFINE Inv == IInv /\ (~ merged => Safe)
<1>1. Init => Inv
  BY InitHolds
<1>2. Inv /\ [Next]_vars => Inv'
  BY NextHolds
<1>3. Inv => WithinMapping
  BY DEF Safe, WithinMapping
<1> QED
  BY <1>1, <1>2, <1>3, PTL DEF Spec
=============================================================================
