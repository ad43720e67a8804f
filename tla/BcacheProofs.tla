---------------------------- MODULE BcacheProofs ----------------------------
(***************************************************************************)
(* Proofs about Bcache and the disk driver under it, for every number of   *)
(* processes, buffers, blocks and descriptors.                             *)
(*                                                                         *)
(* The refinement of BlockCache needs that a request is the driver's for   *)
(* exactly as long as its process sleeps (Requests), that nothing changes  *)
(* what a read has brought before its process comes back (ReadDone), that  *)
(* a sleep lock has one owner (Owners) and a block one buffer (OneCopy).   *)
(* BuffersSuffice needs that refcnt is the number of its users and pins    *)
(* (Counted).                                                              *)
(***************************************************************************)
EXTENDS Bcache, FiniteSetTheorems, WellFoundedInduction, SequenceTheorems, TLAPS

Posted == {p \in Procs : at[p] \in {"asleep", "woken"}}
Asleep == {p \in Procs : at[p] = "asleep"}
Owning == {"locked", "reading", "held", "writing"}

(* A process is in virtio_disk_rw() for the buffer it has.                 *)
Calling ==
    \A p \in Procs :
        /\ stage[p] \in {"reading", "writing"} <=> at[p] # "out"
        /\ at[p] # "out" =>
               call[p] = [buf |-> buf[p], block |-> blockno[buf[p]],
                          write |-> stage[p] = "writing"]

(* Every chain is of free descriptors or of one process's request.         *)
Chains ==
    /\ \A p \in Procs : /\ chain[p] \cap free = {}
                        /\ p \in Posted <=> chain[p] # {}
    /\ \A p, q \in Procs : p # q => chain[p] \cap chain[q] = {}

(* The device or the used ring has the chain of each process that sleeps   *)
(* for one, and no other.                                                  *)
Requests ==
    /\ \A p \in Posted :
           /\ command[Min(chain[p])] = call[p]
           /\ p \in Asleep <=> Min(chain[p]) \in avail \cup Range(used)
    /\ \A i \in avail \cup Range(used) : \E p \in Asleep : Min(chain[p]) = i
    /\ avail \cap Range(used) = {}
    /\ \A i, j \in DOMAIN used : i # j => used[i] # used[j]
    /\ inDisk = {buf[p] : p \in Asleep}

(* Once the device has answered a read the buffer has what the disk has.   *)
ReadDone ==
    \A p \in Posted :
        stage[p] = "reading" /\ Min(chain[p]) \notin avail
        => data[buf[p]] = disk[blockno[buf[p]]]

Owners ==
    \A p \in Procs :
        /\ stage[p] = "idle" <=> buf[p] = NoBuf
        /\ \A b \in Bufs : owner[b] = p <=> buf[p] = b /\ stage[p] \in Owning

OneCopy ==
    /\ \A b, c \in Bufs : blockno[b] = blockno[c] /\ blockno[b] # NoBlock => b = c
    /\ \A p \in Procs : stage[p] # "idle" => blockno[buf[p]] # NoBlock

Users(b) == {p \in Procs : buf[p] = b}
Pins(b) == IF blockno[b] \in pinned THEN 1 ELSE 0

Counted == \A b \in Bufs : refcnt[b] = Cardinality(Users(b)) + Pins(b)

PinnedCached == \A s \in pinned : \E b \in Bufs : blockno[b] = s

HeldValid ==
    \A p \in Procs : /\ stage[p] \in {"held", "writing"} => valid[buf[p]]
                     /\ stage[p] = "reading" => ~ valid[buf[p]]

IInv == /\ TypeOK /\ Calling /\ Chains /\ Requests /\ ReadDone /\ Owners
        /\ OneCopy /\ Counted /\ PinnedCached /\ HeldValid /\ NoMissedWakeup

------------------------------------------------------------------------------
(* A set of natural numbers has a least one: the intervals below its       *)
(* members are finite sets, which strict inclusion orders well.            *)
LEMMA HasLeast ==
    ASSUME NEW S \in SUBSET Nat, S # {}
    PROVE  \E i \in S : \A j \in S : i <= j
<1> DEFINE F == {0 .. i : i \in S}
           R == StrictSubsetOrdering(Nat)
<1>1. F # {} /\ F \subseteq FiniteSubsetsOf(Nat)
  <2>1. \A i \in Nat : IsFiniteSet(0 .. i) /\ (0 .. i) \subseteq Nat
    BY FS_Interval
  <2> QED
    BY <2>1 DEF FiniteSubsetsOf
<1>2. IsWellFoundedOn(R, FiniteSubsetsOf(Nat))
  BY FS_StrictSubsetOrderingWellFounded
<1>3. \E x \in F : \A y \in F : <<y, x>> \notin R
  <2> HIDE DEF F, R
  <2> QED
    BY <1>1, <1>2, WFMin
<1>4. PICK m \in S : \A j \in S : <<0 .. j, 0 .. m>> \notin R
  BY <1>3
<1>5. ASSUME NEW j \in S, j < m PROVE FALSE
  <2>1. /\ (0 .. j) \subseteq (0 .. m) /\ m \in 0 .. m /\ m \notin 0 .. j
        /\ (0 .. j) \subseteq Nat /\ (0 .. m) \subseteq Nat
    BY <1>5
  <2> QED
    BY <1>4, <2>1 DEF StrictSubsetOrdering
<1> QED
  BY <1>5

LEMMA MinIs ==
    ASSUME NEW S \in SUBSET Nat, S # {}
    PROVE  Min(S) \in S
BY HasLeast DEF Min

LEMMA MaxIs ==
    ASSUME NEW n \in Nat, NEW S \in SUBSET (1 .. n), S # {}
    PROVE  Max(S) \in S
<1> DEFINE T == {n - i : i \in S}
<1>1. T \in SUBSET Nat /\ T # {}
  <2>1. \A i \in S : n - i \in Nat
    OBVIOUS
  <2> QED
    BY <2>1
<1>2. \E i \in T : \A j \in T : i <= j
  <2> HIDE DEF T
  <2> QED
    BY <1>1, HasLeast
<1>3. PICK i \in S : \A j \in S : n - i <= n - j
  BY <1>2
<1>4. \A j \in S : i >= j
  BY <1>3
<1> QED
  BY <1>4 DEF Max

(* alloc_desc() finds three descriptors when there are three.              *)
LEMMA FirstThreeIs ==
    ASSUME free \subseteq Descriptors, Cardinality(free) >= 3
    PROVE  FirstThree \subseteq free /\ FirstThree # {}
<1>1. free \in SUBSET Nat /\ IsFiniteSet(free)
  <2>1. IsFiniteSet(Descriptors) /\ Descriptors \subseteq Nat
    BY FS_Interval, DiskAssumption DEF Descriptors
  <2> QED
    BY <2>1, FS_Subset
<1>2. \A S : IsFiniteSet(S) /\ Cardinality(S) >= 1 => S # {}
  BY FS_EmptySet
<1>3. PICK i \in free : \A j \in free : i <= j
  BY <1>1, <1>2, HasLeast, FS_CardinalityType
<1> DEFINE A == free \ {i}
<1>4. IsFiniteSet(A) /\ Cardinality(A) = Cardinality(free) - 1 /\ A \in SUBSET Nat
  BY <1>1, <1>3, FS_RemoveElement
<1>5. PICK k \in A : \A j \in A : k <= j
  <2> HIDE DEF A
  <2>1. A # {}
    BY <1>1, <1>2, <1>4, FS_CardinalityType
  <2> QED
    BY <1>4, <2>1, HasLeast
<1> DEFINE B == A \ {k}
<1>6. IsFiniteSet(B) /\ Cardinality(B) = Cardinality(A) - 1 /\ B \in SUBSET Nat
  <2> HIDE DEF A
  <2> QED
    BY <1>4, <1>5, FS_RemoveElement
<1>7. PICK l \in B : \A j \in B : l <= j
  <2> HIDE DEF A, B
  <2>1. B # {}
    BY <1>1, <1>2, <1>4, <1>6, FS_CardinalityType
  <2> QED
    BY <1>6, <2>1, HasLeast
<1> DEFINE S == {i, k, l}
<1>8. i \in free /\ k \in free /\ l \in free /\ i # k /\ i # l /\ k # l
  BY <1>3, <1>5, <1>7
<1>9. Cardinality(S) = 3
  <2>1. IsFiniteSet({i}) /\ Cardinality({i}) = 1
    BY FS_Singleton
  <2>2. k \notin {i} /\ l \notin {i} \cup {k}
    BY <1>8
  <2>3. IsFiniteSet({i} \cup {k}) /\ Cardinality({i} \cup {k}) = 2
    <3>1. /\ IsFiniteSet({i} \cup {k})
          /\ Cardinality({i} \cup {k}) =
                IF k \in {i} THEN Cardinality({i}) ELSE Cardinality({i}) + 1
      BY <2>1, FS_AddElement
    <3> QED
      BY <2>1, <2>2, <3>1
  <2>5. Cardinality(({i} \cup {k}) \cup {l}) = 3
    <3> DEFINE A2 == {i} \cup {k}
    <3>1. IsFiniteSet(A2) /\ Cardinality(A2) = 2 /\ l \notin A2
      BY <2>2, <2>3
    <3> HIDE DEF A2
    <3>3. Cardinality(A2 \cup {l}) =
              IF l \in A2 THEN Cardinality(A2) ELSE Cardinality(A2) + 1
      BY <3>1, FS_AddElement
    <3>2. Cardinality(A2 \cup {l}) = 3
      BY <3>1, <3>3
    <3> QED
      BY <3>2 DEF A2
  <2>4. S = ({i} \cup {k}) \cup {l}
    OBVIOUS
  <2> QED
    BY <2>4, <2>5
<1>10. \A x \in S, j \in free \ S : x < j
  BY <1>1, <1>3, <1>5, <1>7, <1>8
<1>11. S \in kSubset(3, free)
  BY <1>8, <1>9 DEF kSubset
<1> HIDE DEF S
<1>12. FirstThree \in kSubset(3, free)
  BY <1>10, <1>11 DEF FirstThree
<1>13. FirstThree \subseteq free /\ Cardinality(FirstThree) = 3
  BY <1>12 DEF kSubset
<1> QED
  BY <1>13, FS_EmptySet

------------------------------------------------------------------------------
(* The list of buffers has each buffer once, whatever is moved to its      *)
(* front.                                                                  *)
LEMMA ListIs ==
    /\ Cardinality(Bufs) = NBUF /\ IsFiniteSet(Bufs)
    /\ SetToSeqs(Bufs) = {f \in [Bufs -> Bufs] :
                             \A i, j \in Bufs : i # j => f[i] # f[j]}
<1>1. Cardinality(Bufs) = NBUF /\ IsFiniteSet(Bufs)
  BY FS_Interval, DiskAssumption DEF Bufs
<1> QED
  BY <1>1 DEF SetToSeqs, Bufs

LEMMA EveryBufListed ==
    ASSUME NEW f \in SetToSeqs(Bufs), NEW b \in Bufs
    PROVE  \E i \in Bufs : f[i] = b
<1>1. f \in [Bufs -> Bufs] /\ \A i, j \in Bufs : i # j => f[i] # f[j]
  BY ListIs
<1>2. f \in Injection(Bufs, Bufs)
  BY <1>1 DEF Injection, IsInjective
<1>3. f \in Surjection(Bufs, Bufs)
  BY <1>2, ListIs, FS_Injection
<1> QED
  BY <1>3 DEF Surjection

LEMMA LeastRecentIs ==
    ASSUME lru \in SetToSeqs(Bufs), Unused # {}
    PROVE  LeastRecent \in Unused
<1> DEFINE S == {i \in DOMAIN lru : lru[i] \in Unused}
<1>1. DOMAIN lru = Bufs /\ NBUF \in Nat
  BY ListIs, DiskAssumption
<1>2. S # {}
  BY <1>1, EveryBufListed DEF Unused
<1>3. S \in SUBSET (1 .. NBUF)
  BY <1>1 DEF Bufs
<1>4. Max(S) \in S
  <2> HIDE DEF S
  <2> QED
    BY <1>1, <1>2, <1>3, MaxIs
<1> QED
  BY <1>4 DEF LeastRecent

Moved(f, k, b) == <<b>> \o RemoveAt(f, k)

LEMMA MovedToFront ==
    ASSUME NEW n \in Nat \ {0}, NEW f \in [1 .. n -> Bufs],
           NEW k \in 1 .. n, NEW b \in Bufs
    PROVE  \E g \in [1 .. n -> Bufs] :
               /\ g = Moved(f, k, b)
               /\ \A i \in 1 .. n : g[i] = IF i = 1 THEN b
                                          ELSE IF i <= k THEN f[i - 1] ELSE f[i]
<1> DEFINE s == SubSeq(f, 1, k - 1)   u == SubSeq(f, k + 1, n)
<1>1. f \in Seq(Bufs) /\ Len(f) = n
  BY SeqDef
<1>2. /\ s \in Seq(Bufs) /\ Len(s) = k - 1
      /\ \A i \in 1 .. k - 1 : s[i] = f[i]
  BY <1>1, SubSeqProperties
<1>3. /\ u \in Seq(Bufs) /\ Len(u) = n - k
      /\ \A i \in 1 .. n - k : u[i] = f[i + k]
  BY <1>1, SubSeqProperties
<1> DEFINE r == RemoveAt(f, k)
<1>4. r = s \o u
  BY <1>1 DEF RemoveAt
<1> HIDE DEF s, u, r
<1>5. /\ r \in Seq(Bufs) /\ Len(r) = Len(s) + Len(u)
      /\ \A i \in 1 .. Len(s) + Len(u) :
            r[i] = IF i <= Len(s) THEN s[i] ELSE u[i - Len(s)]
  BY <1>2, <1>3, <1>4, ConcatProperties
<1>6. Len(s) + Len(u) = n - 1
  BY <1>2, <1>3
<1>7. ASSUME NEW i \in 1 .. n - 1
      PROVE  r[i] = IF i < k THEN f[i] ELSE f[i + 1]
  <2>1. CASE i <= k - 1
    <3>1. r[i] = s[i]
      BY <1>2, <1>5, <1>6, <2>1
    <3> QED
      BY <1>2, <2>1, <3>1
  <2>2. CASE i > k - 1
    <3> DEFINE j == i - Len(s)
    <3>4. i \in 1 .. Len(s) + Len(u) /\ ~ (i <= Len(s))
      BY <1>2, <1>6, <2>2
    <3>1. r[i] = u[j]
      BY <1>5, <3>4
    <3>2. j \in 1 .. n - k /\ j + k = i + 1
      BY <1>2, <2>2
    <3> HIDE DEF j
    <3>3. u[j] = f[j + k]
      BY <1>3, <3>2
    <3> QED
      BY <2>2, <3>1, <3>2, <3>3
  <2> QED
    BY <2>1, <2>2
<1>8. r \in Seq(Bufs) /\ Len(r) = n - 1
  BY <1>5, <1>6
<1> DEFINE h == <<b>> \o r
<1>9. /\ <<b>> \in Seq(Bufs) /\ Len(<<b>>) = 1 /\ <<b>>[1] = b
      /\ h \in Seq(Bufs) /\ Len(h) = n
      /\ \A i \in 1 .. n : h[i] = IF i <= 1 THEN <<b>>[i] ELSE r[i - 1]
  <2>1. <<b>> \in Seq(Bufs) /\ Len(<<b>>) = 1 /\ <<b>>[1] = b
    OBVIOUS
  <2>2. /\ h \in Seq(Bufs) /\ Len(h) = Len(<<b>>) + Len(r)
        /\ \A i \in 1 .. Len(<<b>>) + Len(r) :
              h[i] = IF i <= Len(<<b>>) THEN <<b>>[i] ELSE r[i - Len(<<b>>)]
    BY <1>8, <2>1, ConcatProperties
  <2>3. Len(<<b>>) + Len(r) = n
    BY <1>8, <2>1
  <2> QED
    BY <2>1, <2>2, <2>3
<1>10. ASSUME NEW i \in 1 .. n
       PROVE  h[i] = IF i = 1 THEN b ELSE IF i <= k THEN f[i - 1] ELSE f[i]
  <2>1. CASE i = 1
    BY <1>9, <2>1
  <2>2. CASE i # 1
    <3> DEFINE j == i - 1
    <3>1. j \in 1 .. n - 1 /\ j + 1 = i /\ (j < k <=> i <= k)
      BY <2>2
    <3>2. h[i] = r[j]
      BY <1>9, <2>2
    <3> HIDE DEF j
    <3>3. r[j] = IF j < k THEN f[j] ELSE f[j + 1]
      BY <1>7, <3>1
    <3> QED
      BY <2>2, <3>1, <3>2, <3>3 DEF j
  <2> QED
    BY <2>1, <2>2
<1> HIDE DEF h
<1>11. h \in [1 .. n -> Bufs]
  <2>1. \A i \in 1 .. n : h[i] \in Bufs
    BY <1>9, ElementOfSeq
  <2>2. h = [i \in 1 .. n |-> h[i]]
    BY <1>9
  <2> QED
    BY <2>1, <2>2
<1> QED
  BY <1>10, <1>11 DEF h, r, Moved

LEMMA ToFrontIs ==
    ASSUME lru \in SetToSeqs(Bufs), NEW b \in Bufs
    PROVE  ToFront(b) \in SetToSeqs(Bufs)
<1>1. PICK k \in Bufs : k = CHOOSE i \in Bufs : lru[i] = b
  BY EveryBufListed
<1>2. lru[k] = b
  BY <1>1, EveryBufListed
<1>3. /\ lru \in [1 .. NBUF -> Bufs] /\ NBUF \in Nat \ {0} /\ k \in 1 .. NBUF
      /\ \A i, j \in 1 .. NBUF : i # j => lru[i] # lru[j]
  BY ListIs, DiskAssumption DEF Bufs
<1>4. PICK g \in [1 .. NBUF -> Bufs] :
         /\ g = Moved(lru, k, b)
         /\ \A i \in 1 .. NBUF :
               g[i] = IF i = 1 THEN b ELSE IF i <= k THEN lru[i - 1] ELSE lru[i]
  <2>1. PICK n : n = NBUF
    OBVIOUS
  <2>2. PICK f : f = lru
    OBVIOUS
  <2>3. n \in Nat \ {0} /\ f \in [1 .. n -> Bufs] /\ k \in 1 .. n
    BY <1>3, <2>1, <2>2
  <2>4. \E g \in [1 .. n -> Bufs] :
           /\ g = Moved(f, k, b)
           /\ \A i \in 1 .. n : g[i] = IF i = 1 THEN b
                                      ELSE IF i <= k THEN f[i - 1] ELSE f[i]
    BY <2>3, MovedToFront
  <2> QED
    BY <2>1, <2>2, <2>4
<1>5. ToFront(b) = g
  BY <1>1, <1>4 DEF ToFront, Moved
<1>6. \A i \in 1 .. NBUF :
         g[i] = IF i = 1 THEN b ELSE IF i <= k THEN lru[i - 1] ELSE lru[i]
  BY <1>4
<1>7. g \in [1 .. NBUF -> Bufs]
  BY <1>4
<1>8. ASSUME NEW i \in 1 .. NBUF, NEW j \in 1 .. NBUF, i < j PROVE g[i] # g[j]
  <2>1. CASE i = 1 /\ j <= k
    <3>1. g[i] = lru[k] /\ g[j] = lru[j - 1] /\ j - 1 \in 1 .. NBUF /\ j - 1 # k
      BY <1>2, <1>3, <1>6, <1>8, <2>1
    <3> QED
      BY <1>3, <3>1
  <2>2. CASE i = 1 /\ j > k
    BY <1>2, <1>3, <1>6, <1>8, <2>2
  <2>3. CASE i # 1 /\ j <= k
    <3>1. /\ g[i] = lru[i - 1] /\ g[j] = lru[j - 1]
          /\ j - 1 \in 1 .. NBUF /\ i - 1 \in 1 .. NBUF /\ j - 1 # i - 1
      BY <1>3, <1>6, <1>8, <2>3
    <3> QED
      BY <1>3, <3>1
  <2>4. CASE i # 1 /\ i <= k /\ j > k
    <3>1. /\ g[i] = lru[i - 1] /\ g[j] = lru[j]
          /\ i - 1 \in 1 .. NBUF /\ j # i - 1
      BY <1>3, <1>6, <1>8, <2>4
    <3> QED
      BY <1>3, <3>1
  <2>5. CASE i # 1 /\ i > k
    BY <1>3, <1>6, <1>8, <2>5
  <2> QED
    BY <1>3, <1>8, <2>1, <2>2, <2>3, <2>4, <2>5
<1>9. \A i, j \in 1 .. NBUF : i # j => g[i] # g[j]
  BY <1>3, <1>8
<1> QED
  BY <1>5, <1>7, <1>9, ListIs DEF Bufs

------------------------------------------------------------------------------
(* TypeOK in three parts, for the driver, the cache and the counts.        *)
QueueTyped ==
    /\ free \subseteq Descriptors /\ avail \subseteq Descriptors
    /\ command \in [Descriptors -> Command \cup {NoCommand}]
    /\ used \in Seq(Descriptors)
    /\ irq \in BOOLEAN /\ handling \in BOOLEAN
    /\ inDisk \subseteq Bufs
    /\ call \in [Procs -> Command \cup {NoCommand}]
    /\ chain \in [Procs -> SUBSET Descriptors]
    /\ at \in [Procs -> Places]
    /\ data \in [Bufs -> Values] /\ disk \in [Blocks -> Values]

CacheTyped ==
    /\ blockno \in [Bufs -> Blocks \cup {NoBlock}]
    /\ valid \in [Bufs -> BOOLEAN]
    /\ owner \in [Bufs -> Procs \cup {NoProc}]
    /\ lru \in SetToSeqs(Bufs)
    /\ buf \in [Procs -> Bufs \cup {NoBuf}]
    /\ stage \in [Procs -> Stages]
    /\ pinned \subseteq Blocks

CountsTyped == refcnt \in [Bufs -> 0 .. Cardinality(Procs) + 1]

LEMMA Typed == TypeOK <=> QueueTyped /\ CacheTyped /\ CountsTyped
BY DEF TypeOK, QueueTyped, CacheTyped, CountsTyped

LEMMA TypedNext == TypeOK' <=> QueueTyped' /\ CacheTyped' /\ CountsTyped'
BY DEF TypeOK, QueueTyped, CacheTyped, CountsTyped

LEMMA NoBufIs == NoBuf \notin Bufs /\ \A b \in Bufs : b # NoBuf
BY DiskAssumption DEF NoBuf, Bufs

(* Those who use a buffer, and how their number changes when one of them   *)
(* turns to another.                                                       *)
UsersOf(f, b) == {p \in Procs : f[p] = b}

LEMMA UsersAre ==
    ASSUME NEW f, NEW b
    PROVE  /\ IsFiniteSet(UsersOf(f, b))
           /\ Cardinality(UsersOf(f, b)) \in 0 .. Cardinality(Procs)
           /\ Cardinality(Procs) \in Nat
           /\ Cardinality(UsersOf(f, b)) = 0 <=> UsersOf(f, b) = {}
<1>1. UsersOf(f, b) \subseteq Procs /\ IsFiniteSet(Procs)
  BY BcacheAssumption DEF UsersOf
<1>2. /\ IsFiniteSet(UsersOf(f, b))
      /\ Cardinality(UsersOf(f, b)) <= Cardinality(Procs)
  BY <1>1, FS_Subset
<1>3. Cardinality(Procs) \in Nat /\ Cardinality(UsersOf(f, b)) \in Nat
  BY <1>1, <1>2, FS_CardinalityType
<1>4. Cardinality(UsersOf(f, b)) = 0 <=> UsersOf(f, b) = {}
  BY <1>2, FS_EmptySet
<1> QED
  BY <1>2, <1>3, <1>4

LEMMA ProcsCount == Cardinality(Procs) \in Nat
BY BcacheAssumption, FS_CardinalityType

LEMMA CountsAre ==
    ASSUME CountsTyped
    PROVE  refcnt \in [Bufs -> Int] /\ \A b \in Bufs : refcnt[b] \in Int
<1>1. 0 .. Cardinality(Procs) + 1 \subseteq Int
  BY ProcsCount
<1> HIDE DEF CountsTyped
<1>2. refcnt \in [Bufs -> 0 .. Cardinality(Procs) + 1]
  BY DEF CountsTyped
<1>3. \A b \in Bufs : refcnt[b] \in Int
  BY <1>1, <1>2
<1> QED
  BY <1>2, <1>3

LEMMA UsersMove ==
    ASSUME CacheTyped, NEW p \in Procs, NEW c \in Bufs \cup {NoBuf},
           buf' = [buf EXCEPT ![p] = c], buf[p] # c
    PROVE  /\ Cardinality(UsersOf(buf', c)) = Cardinality(UsersOf(buf, c)) + 1
           /\ Cardinality(UsersOf(buf', buf[p])) = Cardinality(UsersOf(buf, buf[p])) - 1
           /\ \A b : b # c /\ b # buf[p] => UsersOf(buf', b) = UsersOf(buf, b)
<1>1. UsersOf(buf', c) = UsersOf(buf, c) \cup {p} /\ p \notin UsersOf(buf, c)
  BY DEF UsersOf, CacheTyped
<1>2. UsersOf(buf', buf[p]) = UsersOf(buf, buf[p]) \ {p} /\ p \in UsersOf(buf, buf[p])
  BY DEF UsersOf, CacheTyped
<1>3. \A b : b # c /\ b # buf[p] => UsersOf(buf', b) = UsersOf(buf, b)
  BY DEF UsersOf, CacheTyped
<1>4. Cardinality(UsersOf(buf', c)) = Cardinality(UsersOf(buf, c)) + 1
  <2>1. IsFiniteSet(UsersOf(buf, c)) /\ Cardinality(UsersOf(buf, c)) \in Nat
    BY UsersAre
  <2>2. Cardinality(UsersOf(buf, c) \cup {p}) =
            IF p \in UsersOf(buf, c) THEN Cardinality(UsersOf(buf, c))
            ELSE Cardinality(UsersOf(buf, c)) + 1
    BY <2>1, FS_AddElement
  <2> QED
    BY <1>1, <2>1, <2>2
<1>5. Cardinality(UsersOf(buf', buf[p])) = Cardinality(UsersOf(buf, buf[p])) - 1
  <2>1. IsFiniteSet(UsersOf(buf, buf[p])) /\ Cardinality(UsersOf(buf, buf[p])) \in Nat
    BY UsersAre
  <2>2. Cardinality(UsersOf(buf, buf[p]) \ {p}) =
            IF p \in UsersOf(buf, buf[p]) THEN Cardinality(UsersOf(buf, buf[p])) - 1
            ELSE Cardinality(UsersOf(buf, buf[p]))
    BY <2>1, FS_RemoveElement
  <2> QED
    BY <1>2, <2>1, <2>2
<1> QED
  BY <1>3, <1>4, <1>5

LEMMA UsersIs == \A b : Users(b) = UsersOf(buf, b) /\ Users(b)' = UsersOf(buf', b)
BY DEF Users, UsersOf

(* The counts are in their range because they count.                       *)
LEMMA CountsBounded ==
    ASSUME Counted', CacheTyped', refcnt' \in [Bufs -> Int]
    PROVE  CountsTyped'
<1>1. ASSUME NEW b \in Bufs
      PROVE  refcnt'[b] \in 0 .. Cardinality(Procs) + 1
  <2>1. refcnt'[b] = Cardinality(UsersOf(buf', b)) + Pins(b)'
    BY UsersIs DEF Counted
  <2>2. Pins(b)' \in {0, 1}
    BY DEF Pins
  <2> QED
    BY <2>1, <2>2, UsersAre
<1> QED
  BY <1>1 DEF CountsTyped

------------------------------------------------------------------------------
(* What the invariant says of a process that uses a buffer, owns its sleep *)
(* lock, or waits for the disk.                                            *)
LEMMA UserIs ==
    ASSUME IInv, NEW p \in Procs, stage[p] # "idle"
    PROVE  /\ buf[p] \in Bufs /\ blockno[buf[p]] \in Blocks
           /\ stage[p] \in Owning => owner[buf[p]] = p
<1>1. buf[p] \in Bufs
  BY Typed DEF IInv, Owners, CacheTyped
<1>2. blockno[buf[p]] \in Blocks
  BY <1>1, Typed DEF IInv, OneCopy, CacheTyped
<1> QED
  BY <1>1, <1>2 DEF IInv, Owners

LEMMA OwnersDiffer ==
    ASSUME IInv, NEW p \in Procs, NEW q \in Procs, p # q,
           stage[p] \in Owning, stage[q] \in Owning
    PROVE  buf[p] # buf[q] /\ blockno[buf[p]] # blockno[buf[q]]
<1>1. buf[p] \in Bufs /\ buf[q] \in Bufs
      /\ owner[buf[p]] = p /\ owner[buf[q]] = q
      /\ blockno[buf[p]] \in Blocks
  BY UserIs DEF Owning
<1>2. blockno[buf[p]] # NoBlock
  BY <1>1, BcacheAssumption
<1> QED
  BY <1>1, <1>2 DEF IInv, OneCopy

LEMMA CallerIs ==
    ASSUME IInv, NEW p \in Procs, at[p] # "out"
    PROVE  /\ stage[p] \in {"reading", "writing"} /\ stage[p] \in Owning
           /\ stage[p] # "idle"
           /\ buf[p] \in Bufs /\ blockno[buf[p]] \in Blocks
           /\ call[p] \in Command
           /\ call[p].buf = buf[p] /\ call[p].block = blockno[buf[p]]
           /\ call[p].write = (stage[p] = "writing")
<1>1. stage[p] \in {"reading", "writing"}
  BY DEF IInv, Calling
<1>2. stage[p] \in Owning /\ stage[p] # "idle"
  BY <1>1 DEF Owning
<1>3. buf[p] \in Bufs /\ blockno[buf[p]] \in Blocks
  BY <1>2, UserIs
<1>4. call[p] = [buf |-> buf[p], block |-> blockno[buf[p]],
                 write |-> stage[p] = "writing"]
  BY DEF IInv, Calling
<1> QED
  BY <1>1, <1>2, <1>3, <1>4 DEF Command

LEMMA PostedIs ==
    ASSUME IInv, NEW p \in Posted
    PROVE  /\ p \in Procs /\ at[p] # "out"
           /\ Min(chain[p]) \in chain[p] /\ Min(chain[p]) \in Descriptors
           /\ Min(chain[p]) \notin free
           /\ command[Min(chain[p])] = call[p]
<1>1. p \in Procs /\ at[p] # "out"
  BY DEF Posted
<1>2. chain[p] # {} /\ chain[p] \cap free = {}
  BY <1>1 DEF IInv, Chains
<1>3. chain[p] \in SUBSET Descriptors
  BY <1>1, Typed DEF IInv, QueueTyped
<1>4. chain[p] \in SUBSET Nat
  BY <1>3, DiskAssumption DEF Descriptors
<1>5. Min(chain[p]) \in chain[p]
  BY <1>2, <1>4, MinIs
<1>6. command[Min(chain[p])] = call[p]
  BY DEF IInv, Requests
<1> QED
  BY <1>1, <1>2, <1>3, <1>5, <1>6

LEMMA HeadsDiffer ==
    ASSUME IInv, NEW p \in Posted, NEW q \in Posted, p # q
    PROVE  /\ Min(chain[p]) # Min(chain[q])
           /\ buf[p] # buf[q] /\ blockno[buf[p]] # blockno[buf[q]]
<1>1. /\ p \in Procs /\ at[p] # "out" /\ q \in Procs /\ at[q] # "out"
      /\ Min(chain[p]) \in chain[p] /\ Min(chain[q]) \in chain[q]
  BY PostedIs
<1>2. chain[p] \cap chain[q] = {}
  BY <1>1 DEF IInv, Chains
<1>3. stage[p] \in Owning /\ stage[q] \in Owning
  BY <1>1, CallerIs
<1> QED
  BY <1>1, <1>2, <1>3, OwnersDiffer
------------------------------------------------------------------------------
(* The driver's steps keep the invariant.                                  *)
cache == <<blockno, valid, refcnt, owner, lru, buf, stage, pinned>>

LEMMA CacheKept ==
    ASSUME IInv, UNCHANGED cache
    PROVE  /\ CacheTyped' /\ CountsTyped' /\ Owners' /\ OneCopy'
           /\ Counted' /\ PinnedCached' /\ HeldValid'
<1>1. CacheTyped' /\ CountsTyped'
  BY Typed DEF IInv, cache, CacheTyped, CountsTyped
<1>2. Owners' /\ OneCopy'
  BY DEF IInv, cache, Owners, OneCopy
<1>3. Counted'
  <2>1. \A b : Users(b)' = Users(b) /\ Pins(b)' = Pins(b)
    BY DEF cache, Users, Pins
  <2> QED
    BY <2>1 DEF IInv, cache, Counted
<1>4. PinnedCached' /\ HeldValid'
  BY DEF IInv, cache, PinnedCached, HeldValid
<1> QED
  BY <1>1, <1>2, <1>3, <1>4

LEMMA SubmitKeeps ==
    ASSUME IInv, NEW p \in Procs, Submit(p), UNCHANGED cache
    PROVE  IInv'
<1> DEFINE F == FirstThree   h == Min(F)
<1>1. /\ at[p] = "alloc" /\ Cardinality(free) >= 3
      /\ command' = [command EXCEPT ![h] = call[p]]
      /\ avail' = avail \cup {h}
      /\ free' = free \ F
      /\ chain' = [chain EXCEPT ![p] = F]
      /\ inDisk' = inDisk \cup {call[p].buf}
      /\ at' = [at EXCEPT ![p] = "asleep"]
      /\ UNCHANGED <<used, irq, handling, call, data, disk>>
  BY DEF Submit
<1>2. QueueTyped /\ CacheTyped
  BY Typed DEF IInv
<1>3. F \subseteq free /\ F # {}
  BY <1>1, <1>2, FirstThreeIs DEF QueueTyped
<1>4. h \in F /\ h \in free /\ F \in SUBSET Descriptors /\ h \in Descriptors
  <2>1. F \in SUBSET Nat
    BY <1>2, <1>3, DiskAssumption DEF QueueTyped, Descriptors
  <2> HIDE DEF F
  <2> QED
    BY <1>2, <1>3, <2>1, MinIs DEF QueueTyped
<1> HIDE DEF F, h
<1>5. /\ call[p] \in Command /\ call[p].buf = buf[p] /\ buf[p] \in Bufs
      /\ p \notin Posted /\ p \notin Asleep
  BY <1>1, CallerIs DEF Posted, Asleep
<1>6. Posted' = Posted \cup {p} /\ Asleep' = Asleep \cup {p}
  BY <1>1, <1>2 DEF Posted, Asleep, QueueTyped
<1>7. /\ chain'[p] = F
      /\ \A q \in Procs : q # p => chain'[q] = chain[q]
  BY <1>1, <1>2 DEF QueueTyped
<1>8. QueueTyped'
  <2>1. command' \in [Descriptors -> Command \cup {NoCommand}]
    BY <1>1, <1>2, <1>4, <1>5 DEF QueueTyped
  <2>2. chain' \in [Procs -> SUBSET Descriptors] /\ at' \in [Procs -> Places]
    BY <1>1, <1>2, <1>4 DEF QueueTyped, Places
  <2> QED
    BY <1>1, <1>2, <1>4, <1>5, <2>1, <2>2 DEF QueueTyped
<1>9. Calling'
  BY <1>1, <1>2 DEF IInv, Calling, cache, QueueTyped
<1>10. Chains'
  <2>1. \A q \in Procs : q # p => chain[q] \cap F = {}
    BY <1>3 DEF IInv, Chains
  <2>2. \A q \in Procs : /\ chain'[q] \cap free' = {}
                         /\ q \in Posted' <=> chain'[q] # {}
    BY <1>1, <1>3, <1>6, <1>7 DEF IInv, Chains
  <2>3. ASSUME NEW q \in Procs, NEW r \in Procs, q # r
        PROVE  chain'[q] \cap chain'[r] = {}
    BY <1>7, <2>1, <2>3 DEF IInv, Chains
  <2> QED
    BY <2>2, <2>3 DEF Chains
<1>11. ASSUME NEW q \in Posted
       PROVE  /\ q # p /\ chain'[q] = chain[q] /\ call'[q] = call[q]
              /\ Min(chain[q]) # h
              /\ command'[Min(chain[q])] = call[q]
  <2>1. q \in Procs /\ Min(chain[q]) \notin free /\ Min(chain[q]) \in Descriptors
        /\ command[Min(chain[q])] = call[q]
    BY PostedIs
  <2> QED
    BY <1>1, <1>2, <1>4, <1>5, <1>7, <2>1 DEF QueueTyped
<1>12. h \notin Range(used) /\ h \notin avail
  BY <1>4, PostedIs DEF IInv, Requests, Posted, Asleep
<1>13. Requests'
  <2>1. /\ command'[Min(chain'[p])] = call'[p]
        /\ Min(chain'[p]) = h
    BY <1>1, <1>2, <1>4, <1>7 DEF h, QueueTyped
  <2>2. ASSUME NEW q \in Posted'
        PROVE  /\ command'[Min(chain'[q])] = call'[q]
               /\ q \in Asleep' <=> Min(chain'[q]) \in avail' \cup Range(used')
    <3>1. CASE q = p
      BY <1>1, <1>6, <2>1, <3>1
    <3>2. CASE q # p
      <4>1. q \in Posted
        BY <1>6, <3>2
      <4>2. q \in Asleep' <=> q \in Asleep
        BY <1>6, <3>2
      <4>3. q \in Asleep <=> Min(chain[q]) \in avail \cup Range(used)
        BY <4>1 DEF IInv, Requests
      <4> QED
        BY <1>1, <1>11, <4>1, <4>2, <4>3
    <3> QED
      BY <3>1, <3>2
  <2>3. ASSUME NEW i \in avail' \cup Range(used')
        PROVE  \E q \in Asleep' : Min(chain'[q]) = i
    <3>1. CASE i = h
      BY <1>6, <2>1, <3>1
    <3>2. CASE i # h
      <4>1. i \in avail \cup Range(used)
        BY <1>1, <3>2
      <4>2. PICK q \in Asleep : Min(chain[q]) = i
        BY <4>1 DEF IInv, Requests
      <4> QED
        BY <1>6, <1>11, <4>2 DEF Asleep, Posted
    <3> QED
      BY <3>1, <3>2
  <2>4. avail' \cap Range(used') = {}
    BY <1>1, <1>12 DEF IInv, Requests
  <2>5. \A i, j \in DOMAIN used' : i # j => used'[i] # used'[j]
    BY <1>1 DEF IInv, Requests
  <2>6. inDisk' = {buf'[q] : q \in Asleep'}
    <3>1. inDisk = {buf[q] : q \in Asleep} /\ buf' = buf
      BY DEF IInv, Requests, cache
    <3> QED
      BY <1>1, <1>5, <1>6, <3>1
  <2> QED
    BY <2>2, <2>3, <2>4, <2>5, <2>6 DEF Requests
<1>14. ReadDone'
  <2>1. Min(chain'[p]) \in avail'
    BY <1>1, <1>7 DEF h
  <2> QED
    BY <1>1, <1>6, <1>11, <2>1 DEF IInv, ReadDone, cache
<1>15. NoMissedWakeup'
  <2>1. Cardinality(free) \in Nat
    <3>1. IsFiniteSet(Descriptors)
      BY FS_Interval, DiskAssumption DEF Descriptors
    <3> QED
      BY <1>2, <3>1, FS_Subset, FS_CardinalityType DEF QueueTyped
  <2>2. \A q \in Procs : at[q] # "nodesc"
    BY <1>1, <2>1 DEF IInv, NoMissedWakeup
  <2>3. \A q \in Procs : at'[q] # "nodesc"
    BY <1>1, <1>2, <2>2 DEF QueueTyped
  <2> QED
    BY <2>3 DEF IInv, NoMissedWakeup, cache
<1> QED
  BY <1>8, <1>9, <1>10, <1>13, <1>14, <1>15, CacheKept, TypedNext DEF IInv

LEMMA AllocFailsKeeps ==
    ASSUME IInv, NEW p \in Procs, AllocFails(p), UNCHANGED cache
    PROVE  IInv'
<1>1. /\ at[p] = "alloc" /\ Cardinality(free) < 3
      /\ UNCHANGED <<free, command, avail, used, irq, handling, inDisk, call,
                     chain, data, disk>>
      /\ at' = [(IF free = {} THEN at ELSE Woken("nodesc", "alloc", p))
                   EXCEPT ![p] = "nodesc"]
  BY DEF AllocFails
<1>2. QueueTyped /\ CacheTyped
  BY Typed DEF IInv
<1>3. /\ at' \in [Procs -> Places]
      /\ at'[p] = "nodesc"
      /\ \A q \in Procs : \/ at'[q] = at[q]
                          \/ at[q] = "nodesc" /\ at'[q] = "alloc"
                          \/ q = p
  <2>1. CASE free = {}
    BY <1>1, <1>2, <2>1 DEF QueueTyped, Places
  <2>2. CASE free # {}
    <3>1. at' = [Woken("nodesc", "alloc", p) EXCEPT ![p] = "nodesc"]
      BY <1>1, <2>2
    <3>2. /\ Woken("nodesc", "alloc", p) \in [Procs -> Places]
          /\ \A q \in Procs : Woken("nodesc", "alloc", p)[q] =
                  IF at[q] = "nodesc" /\ q # p THEN "alloc" ELSE at[q]
      BY <1>2 DEF QueueTyped, Places, Woken
    <3> QED
      BY <3>1, <3>2 DEF Places
  <2> QED
    BY <2>1, <2>2
<1>4. Posted' = Posted /\ Asleep' = Asleep
  BY <1>1, <1>3 DEF Posted, Asleep
<1>5. QueueTyped'
  BY <1>1, <1>2, <1>3 DEF QueueTyped
<1>6. Calling'
  BY <1>1, <1>3 DEF IInv, Calling, cache
<1>7. Chains'
  BY <1>1, <1>4 DEF IInv, Chains
<1>8. Requests' /\ ReadDone'
  BY <1>1, <1>4 DEF IInv, Requests, ReadDone, cache
<1>9. NoMissedWakeup'
  <2>1. free' = free /\ Cardinality(free') < 3
    BY <1>1
  <2>2. \A q \in Procs : stage'[q] = "waiting" => owner'[buf'[q]] # NoProc
    BY DEF IInv, NoMissedWakeup, cache
  <2> QED
    BY <2>1, <2>2 DEF NoMissedWakeup
<1> QED
  BY <1>5, <1>6, <1>7, <1>8, <1>9, CacheKept, TypedNext DEF IInv
(* The interrupt handler's entry and return.                               *)
LEMMA HandlerKeeps ==
    ASSUME IInv, Intr \/ IntrReturn, UNCHANGED cache
    PROVE  IInv'
<1>1. /\ UNCHANGED <<free, command, avail, used, inDisk, call, chain, at,
                     data, disk>>
      /\ irq' \in BOOLEAN /\ handling' \in BOOLEAN
  BY Typed DEF IInv, QueueTyped, Intr, IntrReturn
<1>2. Posted' = Posted /\ Asleep' = Asleep
  BY <1>1 DEF Posted, Asleep
<1>3. QueueTyped'
  BY <1>1, Typed DEF IInv, QueueTyped
<1>4. Calling' /\ Chains'
  BY <1>1, <1>2 DEF IInv, Calling, Chains, cache
<1>5. Requests' /\ ReadDone'
  BY <1>1, <1>2 DEF IInv, Requests, ReadDone, cache
<1>6. NoMissedWakeup'
  BY <1>1 DEF IInv, NoMissedWakeup, cache
<1> QED
  BY <1>3, <1>4, <1>5, <1>6, CacheKept, TypedNext DEF IInv

(* The answer to a read, or to a write, of the process q.                  *)
LEMMA AnswerIs ==
    ASSUME IInv, NEW i \in Descriptors, Answer(i)
    PROVE  \E q \in Asleep :
               /\ Min(chain[q]) = i /\ i \in avail
               /\ stage[q] = "writing" =>
                      /\ disk' = [disk EXCEPT ![blockno[buf[q]]] = data[buf[q]]]
                      /\ data' = data
               /\ stage[q] = "reading" =>
                      /\ data' = [data EXCEPT ![buf[q]] = disk[blockno[buf[q]]]]
                      /\ disk' = disk
<1>1. i \in avail
  BY DEF Answer
<1>2. PICK q \in Asleep : Min(chain[q]) = i
  BY <1>1 DEF IInv, Requests
<1>3. q \in Posted /\ q \in Procs /\ at[q] # "out"
  BY DEF Posted, Asleep
<1>4. command[i] = call[q]
  BY <1>2, <1>3, PostedIs
<1>5. /\ call[q].buf = buf[q] /\ call[q].block = blockno[buf[q]]
      /\ call[q].write = (stage[q] = "writing")
  BY <1>3, CallerIs
<1>6. stage[q] = "writing" => /\ disk' = [disk EXCEPT ![blockno[buf[q]]] = data[buf[q]]]
                              /\ data' = data
  BY <1>4, <1>5 DEF Answer
<1>7. stage[q] = "reading" => /\ data' = [data EXCEPT ![buf[q]] = disk[blockno[buf[q]]]]
                              /\ disk' = disk
  BY <1>4, <1>5 DEF Answer
<1> QED
  BY <1>1, <1>2, <1>6, <1>7

LEMMA UsedAppended ==
    ASSUME used \in Seq(Descriptors), NEW i \in Descriptors,
           used' = Append(used, i), i \notin Range(used),
           \A m, n \in DOMAIN used : m # n => used[m] # used[n]
    PROVE  /\ Range(used') = Range(used) \cup {i}
           /\ used' \in Seq(Descriptors)
           /\ \A m, n \in DOMAIN used' : m # n => used'[m] # used'[n]
<1> PICK s, t : s = used /\ t = used'
  OBVIOUS
<1>0. /\ s \in Seq(Descriptors) /\ t = Append(s, i) /\ i \notin Range(s)
      /\ \A m, n \in DOMAIN s : m # n => s[m] # s[n]
  OBVIOUS
<1>1. /\ t \in Seq(Descriptors) /\ Len(t) = Len(s) + 1 /\ t[Len(s) + 1] = i
      /\ \A m \in 1 .. Len(s) : t[m] = s[m]
      /\ Len(s) \in Nat
  BY <1>0, AppendProperties
<1>2. DOMAIN s = 1 .. Len(s) /\ DOMAIN t = 1 .. Len(s) + 1
  BY <1>1
<1>3. \A m \in 1 .. Len(s) + 1 : m \in 1 .. Len(s) \/ m = Len(s) + 1
  BY <1>1
<1>4. Len(s) + 1 \in 1 .. Len(s) + 1 /\ \A m \in 1 .. Len(s) : m \in 1 .. Len(s) + 1
  BY <1>1
<1>5. Range(t) = Range(s) \cup {i}
  BY <1>1, <1>2, <1>3, <1>4 DEF Range
<1>6. ASSUME NEW m \in DOMAIN t, NEW n \in DOMAIN t, m # n
      PROVE  t[m] # t[n]
  BY <1>0, <1>1, <1>2, <1>3, <1>6 DEF Range
<1> QED
  BY <1>1, <1>5, <1>6

LEMMA AnswerKeeps ==
    ASSUME IInv, NEW i \in Descriptors, Answer(i), UNCHANGED cache
    PROVE  IInv'
<1>1. /\ avail' = avail \ {i} /\ used' = Append(used, i) /\ irq' = TRUE
      /\ UNCHANGED <<free, command, handling, inDisk, call, chain, at>>
  BY DEF Answer
<1>2. QueueTyped /\ CacheTyped
  BY Typed DEF IInv
<1>3. PICK q \in Asleep :
         /\ Min(chain[q]) = i /\ i \in avail
         /\ stage[q] = "writing" =>
                /\ disk' = [disk EXCEPT ![blockno[buf[q]]] = data[buf[q]]]
                /\ data' = data
         /\ stage[q] = "reading" =>
                /\ data' = [data EXCEPT ![buf[q]] = disk[blockno[buf[q]]]]
                /\ disk' = disk
  BY AnswerIs
<1>4. q \in Posted /\ q \in Procs /\ at[q] # "out"
  BY DEF Posted, Asleep
<1>5. /\ stage[q] \in {"reading", "writing"}
      /\ buf[q] \in Bufs /\ blockno[buf[q]] \in Blocks
  BY <1>4, CallerIs
<1>6. Posted' = Posted /\ Asleep' = Asleep
  BY <1>1 DEF Posted, Asleep
<1>7. /\ Range(used') = Range(used) \cup {i}
      /\ used' \in Seq(Descriptors)
      /\ \A m, n \in DOMAIN used' : m # n => used'[m] # used'[n]
  <2>1. used \in Seq(Descriptors) /\ i \notin Range(used)
        /\ \A m, n \in DOMAIN used : m # n => used[m] # used[n]
    BY <1>2, <1>3 DEF IInv, Requests, QueueTyped
  <2> QED
    BY <1>1, <2>1, UsedAppended
<1>8. QueueTyped'
  BY <1>1, <1>2, <1>3, <1>5, <1>7 DEF QueueTyped
<1>9. Calling' /\ Chains'
  BY <1>1, <1>6 DEF IInv, Calling, Chains, cache
<1>10. Requests'
  <2>1. avail' \cup Range(used') = avail \cup Range(used)
    BY <1>1, <1>3, <1>7
  <2>2. avail' \cap Range(used') = {}
    BY <1>1, <1>7 DEF IInv, Requests
  <2>3. /\ \A p \in Posted' :
              /\ command'[Min(chain'[p])] = call'[p]
              /\ p \in Asleep' <=> Min(chain'[p]) \in avail' \cup Range(used')
        /\ \A j \in avail' \cup Range(used') : \E p \in Asleep' : Min(chain'[p]) = j
        /\ inDisk' = {buf'[p] : p \in Asleep'}
    BY <1>1, <1>6, <2>1 DEF IInv, Requests, cache
  <2> QED
    BY <1>7, <2>2, <2>3 DEF Requests
<1>11. ReadDone'
  <2> SUFFICES ASSUME NEW p \in Posted', stage'[p] = "reading",
                      Min(chain'[p]) \notin avail'
               PROVE  data'[buf'[p]] = disk'[blockno'[buf'[p]]]
    BY DEF ReadDone
  <2>1. /\ p \in Posted /\ stage[p] = "reading" /\ chain'[p] = chain[p]
        /\ buf'[p] = buf[p] /\ blockno' = blockno
    BY <1>1, <1>6 DEF cache
  <2>2. /\ buf[p] \in Bufs /\ blockno[buf[p]] \in Blocks
    BY <2>1, PostedIs, CallerIs
  <2>3. CASE p = q
    BY <1>2, <1>3, <2>1, <2>2, <2>3 DEF QueueTyped
  <2>4. CASE p # q
    <3>1. buf[p] # buf[q] /\ blockno[buf[p]] # blockno[buf[q]]
          /\ Min(chain[p]) # Min(chain[q])
      BY <1>4, <2>1, <2>4, HeadsDiffer
    <3>2. data[buf[p]] = disk[blockno[buf[p]]]
      BY <1>1, <1>3, <2>1, <3>1 DEF IInv, ReadDone
    <3>3. data'[buf[p]] = data[buf[p]]
      BY <1>2, <1>3, <1>5, <2>2, <3>1 DEF QueueTyped
    <3>4. disk'[blockno[buf[p]]] = disk[blockno[buf[p]]]
      BY <1>2, <1>3, <1>5, <2>2, <3>1 DEF QueueTyped
    <3> QED
      BY <2>1, <3>2, <3>3, <3>4
  <2> QED
    BY <2>3, <2>4
<1>12. NoMissedWakeup'
  BY <1>1 DEF IInv, NoMissedWakeup, cache
<1> QED
  BY <1>8, <1>9, <1>10, <1>11, <1>12, CacheKept, TypedNext DEF IInv
(* An entry of the used ring is one process's, which alone wakes up.       *)
LEMMA CompletionIs ==
    ASSUME IInv, Completion
    PROVE  \E q \in Asleep :
               /\ inDisk' = inDisk \ {buf[q]}
               /\ at' = [at EXCEPT ![q] = "woken"]
               /\ used' \in Seq(Descriptors)
               /\ Min(chain[q]) \in Range(used)
               /\ Range(used') = Range(used) \ {Min(chain[q])}
               /\ \A m, n \in DOMAIN used' : m # n => used'[m] # used'[n]
<1>1. used \in Seq(Descriptors) /\ used # <<>> /\ used' = Tail(used)
      /\ \A m, n \in DOMAIN used : m # n => used[m] # used[n]
  BY Typed DEF Completion, IInv, QueueTyped, Requests
<1>2. /\ Len(used) \in Nat \ {0} /\ DOMAIN used = 1 .. Len(used)
      /\ Head(used) = used[1]
      /\ used' \in Seq(Descriptors) /\ Len(used') = Len(used) - 1
      /\ DOMAIN used' = 1 .. Len(used) - 1
      /\ \A m \in 1 .. Len(used) - 1 : used'[m] = used[m + 1]
  <2>1. Len(used) \in Nat \ {0} /\ DOMAIN used = 1 .. Len(used)
        /\ Head(used) = used[1]
    BY <1>1, EmptySeq
  <2>2. /\ Tail(used) \in Seq(Descriptors)
        /\ Len(Tail(used)) = Len(used) - 1
        /\ \A m \in 1 .. Len(Tail(used)) : Tail(used)[m] = used[m + 1]
    BY <1>1, HeadTailProperties
  <2>3. DOMAIN used' = 1 .. Len(used')
    BY <1>1, <2>2
  <2> QED
    BY <1>1, <2>1, <2>2, <2>3
<1>3. /\ 1 \in DOMAIN used
      /\ \A m \in 1 .. Len(used) - 1 : m + 1 \in DOMAIN used /\ m + 1 # 1
      /\ \A m \in DOMAIN used : m = 1 \/ (m - 1 \in 1 .. Len(used) - 1 /\ m = (m - 1) + 1)
  BY <1>2
<1>4. used[1] \in Range(used)
  BY <1>3 DEF Range
<1>5. PICK q \in Asleep : Min(chain[q]) = used[1]
  BY <1>4 DEF IInv, Requests
<1>6. q \in Posted /\ q \in Procs /\ at[q] = "asleep"
  BY DEF Posted, Asleep
<1>7. command[Head(used)] = call[q] /\ call[q].buf = buf[q]
  BY <1>2, <1>5, <1>6, PostedIs, CallerIs
<1>8. /\ inDisk' = inDisk \ {buf[q]}
      /\ at' = [p \in Procs |-> IF at[p] = "asleep" /\ call[p].buf = buf[q]
                                THEN "woken" ELSE at[p]]
  BY <1>7 DEF Completion
<1>9. \A p \in Procs : at[p] = "asleep" /\ call[p].buf = buf[q] => p = q
  BY <1>6, CallerIs, HeadsDiffer DEF Posted
<1>10. at' = [at EXCEPT ![q] = "woken"]
  <2>1. at \in [Procs -> Places]
    BY Typed DEF IInv, QueueTyped
  <2> QED
    BY <1>6, <1>7, <1>8, <1>9, <2>1
<1>11. Range(used') = Range(used) \ {used[1]}
  <2>1. ASSUME NEW x \in Range(used') PROVE x \in Range(used) /\ x # used[1]
    <3>1. PICK m \in 1 .. Len(used) - 1 : x = used[m + 1]
      BY <1>2 DEF Range
    <3>2. used[m + 1] # used[1] /\ m + 1 \in DOMAIN used
      BY <1>1, <1>3
    <3> QED
      BY <3>1, <3>2 DEF Range
  <2>2. ASSUME NEW x \in Range(used), x # used[1] PROVE x \in Range(used')
    <3>1. PICK m \in DOMAIN used : x = used[m]
      BY DEF Range
    <3>2. m - 1 \in 1 .. Len(used) - 1 /\ used'[m - 1] = used[m]
      BY <1>2, <1>3, <2>2, <3>1
    <3> QED
      BY <1>2, <3>1, <3>2 DEF Range
  <2> QED
    BY <2>1, <2>2
<1>12. ASSUME NEW m \in DOMAIN used', NEW n \in DOMAIN used', m # n
       PROVE  used'[m] # used'[n]
  <2>1. /\ m \in 1 .. Len(used) - 1 /\ n \in 1 .. Len(used) - 1
    BY <1>2
  <2>2. m + 1 # n + 1 /\ m + 1 \in DOMAIN used /\ n + 1 \in DOMAIN used
    BY <1>2, <1>3, <1>12, <2>1
  <2>3. used'[m] = used[m + 1] /\ used'[n] = used[n + 1]
    BY <1>2, <2>1
  <2> QED
    BY <1>1, <2>2, <2>3
<1> QED
  BY <1>2, <1>4, <1>5, <1>8, <1>10, <1>11, <1>12

LEMMA CompletionKeeps ==
    ASSUME IInv, Completion, UNCHANGED cache
    PROVE  IInv'
<1>1. UNCHANGED <<free, command, avail, irq, handling, call, chain, data, disk>>
  BY DEF Completion
<1>2. QueueTyped /\ CacheTyped
  BY Typed DEF IInv
<1>3. PICK q \in Asleep :
         /\ inDisk' = inDisk \ {buf[q]}
         /\ at' = [at EXCEPT ![q] = "woken"]
         /\ used' \in Seq(Descriptors)
         /\ Min(chain[q]) \in Range(used)
         /\ Range(used') = Range(used) \ {Min(chain[q])}
         /\ \A m, n \in DOMAIN used' : m # n => used'[m] # used'[n]
  BY CompletionIs
<1>4. q \in Posted /\ q \in Procs /\ at[q] = "asleep"
  BY DEF Posted, Asleep
<1>5. Posted' = Posted /\ Asleep' = Asleep \ {q}
  BY <1>2, <1>3, <1>4 DEF Posted, Asleep, QueueTyped
<1>6. \A p \in Posted : p # q => /\ Min(chain[p]) # Min(chain[q])
                                 /\ buf[p] # buf[q]
  BY <1>4, HeadsDiffer
<1>7. QueueTyped'
  BY <1>1, <1>2, <1>3 DEF QueueTyped, Places
<1>8. Calling'
  BY <1>1, <1>2, <1>3, <1>4 DEF IInv, Calling, cache, QueueTyped
<1>9. Chains'
  BY <1>1, <1>5 DEF IInv, Chains
<1>10. Requests'
  <2>1. avail \cap Range(used) = {}
    BY DEF IInv, Requests
  <2>2. Min(chain[q]) \notin avail
    BY <1>3, <2>1
  <2>3. ASSUME NEW p \in Posted'
        PROVE  /\ command'[Min(chain'[p])] = call'[p]
               /\ p \in Asleep' <=> Min(chain'[p]) \in avail' \cup Range(used')
    <3>1. /\ command[Min(chain[p])] = call[p]
          /\ p \in Asleep <=> Min(chain[p]) \in avail \cup Range(used)
      BY <1>5 DEF IInv, Requests
    <3> QED
      BY <1>1, <1>3, <1>5, <1>6, <2>2, <3>1
  <2>4. ASSUME NEW j \in avail' \cup Range(used')
        PROVE  \E p \in Asleep' : Min(chain'[p]) = j
    <3>1. j \in avail \cup Range(used) /\ j # Min(chain[q])
      BY <1>1, <1>3, <2>2
    <3>2. PICK p \in Asleep : Min(chain[p]) = j
      BY <3>1 DEF IInv, Requests
    <3> QED
      BY <1>1, <1>5, <3>1, <3>2
  <2>5. avail' \cap Range(used') = {}
    BY <1>1, <1>3, <2>1
  <2>6. inDisk' = {buf'[p] : p \in Asleep'}
    <3>1. inDisk = {buf[p] : p \in Asleep} /\ buf' = buf
      BY DEF IInv, Requests, cache
    <3>2. \A p \in Asleep : p # q => buf[p] # buf[q]
      BY <1>6 DEF Asleep, Posted
    <3> QED
      BY <1>3, <1>5, <3>1, <3>2
  <2> QED
    BY <1>3, <2>3, <2>4, <2>5, <2>6 DEF Requests
<1>11. ReadDone'
  BY <1>1, <1>5 DEF IInv, ReadDone, cache
<1>12. NoMissedWakeup'
  <2>1. \A p \in Procs : at'[p] = "nodesc" => at[p] = "nodesc"
    BY <1>2, <1>3 DEF QueueTyped
  <2> QED
    BY <1>1, <2>1 DEF IInv, NoMissedWakeup, cache
<1> QED
  BY <1>7, <1>8, <1>9, <1>10, <1>11, <1>12, CacheKept, TypedNext DEF IInv

------------------------------------------------------------------------------
(* A call of virtio_disk_rw() and its return.                              *)
LEMMA RwKeeps ==
    ASSUME IInv, NEW p \in Procs, NEW w \in {"reading", "writing"},
           stage[p] \in {"locked", "held"}, w = "reading" <=> ~ valid[buf[p]],
           Rw(p, [buf |-> buf[p], block |-> blockno[buf[p]],
                  write |-> w = "writing"]),
           Goto(p, w), UNCHANGED <<blockno, valid, refcnt, owner, lru, buf, pinned>>
    PROVE  IInv'
<1>1. /\ at[p] = "out" /\ at' = [at EXCEPT ![p] = "alloc"]
      /\ call' = [call EXCEPT ![p] =
                     [buf |-> buf[p], block |-> blockno[buf[p]],
                      write |-> w = "writing"]]
      /\ UNCHANGED <<free, command, avail, used, irq, handling, inDisk, chain,
                     data, disk>>
  BY DEF Rw
<1>2. stage' = [stage EXCEPT ![p] = w]
  BY DEF Goto
<1>3. QueueTyped /\ CacheTyped
  BY Typed DEF IInv
<1>4. /\ buf[p] \in Bufs /\ blockno[buf[p]] \in Blocks
      /\ stage[p] \in Owning /\ w \in Owning
  BY UserIs DEF Owning
<1>5. Posted' = Posted /\ Asleep' = Asleep /\ p \notin Posted
  BY <1>1, <1>3 DEF Posted, Asleep, QueueTyped
<1>6. QueueTyped'
  <2>1. call' \in [Procs -> Command \cup {NoCommand}]
    BY <1>1, <1>3, <1>4 DEF QueueTyped, Command
  <2>2. at' \in [Procs -> Places]
    BY <1>1, <1>3 DEF QueueTyped, Places
  <2> QED
    BY <1>1, <1>3, <2>1, <2>2 DEF QueueTyped
<1>7. CacheTyped' /\ CountsTyped'
  <2>1. stage' \in [Procs -> Stages]
    BY <1>2, <1>3 DEF CacheTyped, Stages
  <2> QED
    BY <1>3, <2>1, Typed DEF CacheTyped, CountsTyped, IInv
<1>8. Calling'
  <2> SUFFICES ASSUME NEW q \in Procs
               PROVE  /\ stage'[q] \in {"reading", "writing"} <=> at'[q] # "out"
                      /\ at'[q] # "out" =>
                           call'[q] = [buf |-> buf'[q], block |-> blockno'[buf'[q]],
                                       write |-> stage'[q] = "writing"]
    BY DEF Calling
  <2>1. CASE q = p
    BY <1>1, <1>2, <1>3, <2>1 DEF QueueTyped, CacheTyped
  <2>2. CASE q # p
    BY <1>1, <1>2, <1>3, <2>2 DEF QueueTyped, CacheTyped, IInv, Calling
  <2> QED
    BY <2>1, <2>2
<1>9. Chains'
  BY <1>1, <1>5 DEF IInv, Chains
<1>10. \A q \in Posted : q \in Procs /\ q # p /\ call'[q] = call[q]
                         /\ stage'[q] = stage[q]
  BY <1>1, <1>2, <1>3, <1>5 DEF Posted, QueueTyped, CacheTyped
<1>11. Requests'
  BY <1>1, <1>5, <1>10 DEF IInv, Requests
<1>12. ReadDone'
  BY <1>1, <1>5, <1>10 DEF IInv, ReadDone
<1>13. /\ stage'[p] = w
       /\ \A q \in Procs : q # p => stage'[q] = stage[q]
  BY <1>2, <1>3 DEF CacheTyped
<1>14. Owners' /\ OneCopy'
  <2>1. \A q \in Procs : /\ stage'[q] = "idle" <=> stage[q] = "idle"
                         /\ stage'[q] \in Owning <=> stage[q] \in Owning
    BY <1>4, <1>13 DEF Owning
  <2> QED
    BY <2>1 DEF IInv, Owners, OneCopy
<1>15. Counted' /\ PinnedCached'
  BY DEF IInv, Counted, PinnedCached, Users, Pins
<1>16. HeldValid'
  BY <1>13 DEF IInv, HeldValid
<1>17. NoMissedWakeup'
  <2>1. \A q \in Procs : /\ stage'[q] = "waiting" => stage[q] = "waiting"
                         /\ at'[q] = "nodesc" => at[q] = "nodesc"
    BY <1>1, <1>3, <1>13 DEF QueueTyped
  <2> QED
    BY <1>1, <2>1 DEF IInv, NoMissedWakeup
<1> QED
  BY <1>6, <1>7, <1>8, <1>9, <1>11, <1>12, <1>14, <1>15, <1>16, <1>17,
     TypedNext DEF IInv
LEMMA FinishIs ==
    ASSUME IInv, NEW p \in Procs, Finish(p)
    PROVE  /\ at[p] = "woken" /\ p \in Posted
           /\ at' \in [Procs -> Places] /\ at'[p] = "out"
           /\ \A q \in Procs : q # p =>
                  /\ at'[q] = IF at[q] = "nodesc" THEN "alloc" ELSE at[q]
                  /\ chain'[q] = chain[q] /\ call'[q] = call[q]
           /\ chain' \in [Procs -> SUBSET Descriptors] /\ chain'[p] = {}
           /\ call' \in [Procs -> Command \cup {NoCommand}]
           /\ command' \in [Descriptors -> Command \cup {NoCommand}]
           /\ \A i \in Descriptors : i # Min(chain[p]) => command'[i] = command[i]
           /\ free' = free \cup chain[p]
           /\ UNCHANGED <<avail, used, irq, handling, inDisk, data, disk>>
<1>1. QueueTyped
  BY Typed DEF IInv
<1>2. at[p] = "woken" /\ p \in Posted
  BY DEF Finish, Posted
<1>3. /\ at' = [Woken("nodesc", "alloc", p) EXCEPT ![p] = "out"]
      /\ chain' = [chain EXCEPT ![p] = {}]
      /\ call' = [call EXCEPT ![p] = NoCommand]
      /\ command' = [command EXCEPT ![Min(chain[p])] = NoCommand]
      /\ free' = free \cup chain[p]
      /\ UNCHANGED <<avail, used, irq, handling, inDisk, data, disk>>
  BY DEF Finish
<1>4. /\ at' \in [Procs -> Places] /\ at'[p] = "out"
      /\ \A q \in Procs : q # p =>
             at'[q] = IF at[q] = "nodesc" THEN "alloc" ELSE at[q]
  BY <1>1, <1>3 DEF QueueTyped, Places, Woken
<1>5. /\ chain' \in [Procs -> SUBSET Descriptors] /\ chain'[p] = {}
      /\ \A q \in Procs : q # p => chain'[q] = chain[q] /\ call'[q] = call[q]
      /\ call' \in [Procs -> Command \cup {NoCommand}]
  BY <1>1, <1>3 DEF QueueTyped
<1>6. /\ command' \in [Descriptors -> Command \cup {NoCommand}]
      /\ \A i \in Descriptors : i # Min(chain[p]) => command'[i] = command[i]
  BY <1>1, <1>3 DEF QueueTyped
<1> QED
  BY <1>2, <1>3, <1>4, <1>5, <1>6

LEMMA ReturnKeeps ==
    ASSUME IInv, NEW p \in Procs, Return(p)
    PROVE  IInv'
<1>1. /\ valid' = [valid EXCEPT ![buf[p]] = TRUE]
      /\ stage' = [stage EXCEPT ![p] = "held"]
      /\ UNCHANGED <<blockno, refcnt, owner, lru, buf, pinned>>
      /\ Finish(p)
  BY DEF Return, Goto
<1>2. /\ at[p] = "woken" /\ p \in Posted
      /\ at' \in [Procs -> Places] /\ at'[p] = "out"
      /\ \A q \in Procs : q # p =>
             /\ at'[q] = IF at[q] = "nodesc" THEN "alloc" ELSE at[q]
             /\ chain'[q] = chain[q] /\ call'[q] = call[q]
      /\ chain' \in [Procs -> SUBSET Descriptors] /\ chain'[p] = {}
      /\ call' \in [Procs -> Command \cup {NoCommand}]
      /\ command' \in [Descriptors -> Command \cup {NoCommand}]
      /\ \A i \in Descriptors : i # Min(chain[p]) => command'[i] = command[i]
      /\ free' = free \cup chain[p]
      /\ UNCHANGED <<avail, used, irq, handling, inDisk, data, disk>>
  BY <1>1, FinishIs
<1>3. QueueTyped /\ CacheTyped
  BY Typed DEF IInv
<1>4. /\ stage[p] \in {"reading", "writing"} /\ stage[p] \in Owning
      /\ buf[p] \in Bufs /\ blockno[buf[p]] \in Blocks
  BY <1>2, CallerIs
<1>5. Posted' = Posted \ {p} /\ Asleep' = Asleep /\ p \notin Asleep
  BY <1>2 DEF Posted, Asleep
<1>6. /\ stage'[p] = "held"
      /\ \A q \in Procs : q # p => stage'[q] = stage[q]
      /\ valid'[buf[p]]
      /\ \A b \in Bufs : b # buf[p] => valid'[b] = valid[b]
  BY <1>1, <1>3, <1>4 DEF CacheTyped
<1>7. QueueTyped'
  <2>1. free' \subseteq Descriptors
    BY <1>2, <1>3 DEF QueueTyped
  <2> QED
    BY <1>2, <1>3, <2>1 DEF QueueTyped
<1>8. CacheTyped' /\ CountsTyped'
  <2>1. stage' \in [Procs -> Stages] /\ valid' \in [Bufs -> BOOLEAN]
    BY <1>1, <1>3 DEF CacheTyped, Stages
  <2> QED
    BY <1>1, <1>3, <2>1, Typed DEF CacheTyped, CountsTyped, IInv
<1>9. Calling'
  <2> SUFFICES ASSUME NEW q \in Procs
               PROVE  /\ stage'[q] \in {"reading", "writing"} <=> at'[q] # "out"
                      /\ at'[q] # "out" =>
                           call'[q] = [buf |-> buf'[q], block |-> blockno'[buf'[q]],
                                       write |-> stage'[q] = "writing"]
    BY DEF Calling
  <2>1. CASE q = p
    BY <1>2, <1>6, <2>1
  <2>2. CASE q # p
    <3>1. at'[q] # "out" <=> at[q] # "out"
      BY <1>2, <2>2
    <3> QED
      BY <1>1, <1>2, <1>6, <2>2, <3>1 DEF IInv, Calling
  <2> QED
    BY <2>1, <2>2
<1>10. Chains'
  <2>1. \A q \in Procs : q # p => chain[q] \cap chain[p] = {}
    BY DEF IInv, Chains
  <2>2. \A q \in Procs : /\ chain'[q] \cap free' = {}
                         /\ q \in Posted' <=> chain'[q] # {}
    BY <1>2, <1>5, <2>1 DEF IInv, Chains
  <2>3. \A q, r \in Procs : q # r => chain'[q] \cap chain'[r] = {}
    BY <1>2 DEF IInv, Chains
  <2> QED
    BY <2>2, <2>3 DEF Chains
<1>11. ASSUME NEW q \in Posted'
       PROVE  /\ q \in Posted /\ q # p /\ q \in Procs
              /\ chain'[q] = chain[q] /\ call'[q] = call[q]
              /\ stage'[q] = stage[q]
              /\ Min(chain[q]) # Min(chain[p]) /\ Min(chain[q]) \in Descriptors
              /\ command'[Min(chain[q])] = command[Min(chain[q])]
  <2>1. q \in Posted /\ q # p
    BY <1>5
  <2>2. q \in Procs /\ Min(chain[q]) \in Descriptors /\ Min(chain[q]) # Min(chain[p])
    BY <1>2, <2>1, PostedIs, HeadsDiffer
  <2> QED
    BY <1>2, <1>6, <2>1, <2>2
<1>12. Requests'
  <2>1. ASSUME NEW q \in Posted'
        PROVE  /\ command'[Min(chain'[q])] = call'[q]
               /\ q \in Asleep' <=> Min(chain'[q]) \in avail' \cup Range(used')
    <3>1. /\ command[Min(chain[q])] = call[q]
          /\ q \in Asleep <=> Min(chain[q]) \in avail \cup Range(used)
      BY <1>11 DEF IInv, Requests
    <3> QED
      BY <1>2, <1>5, <1>11, <3>1
  <2>2. ASSUME NEW i \in avail' \cup Range(used')
        PROVE  \E q \in Asleep' : Min(chain'[q]) = i
    <3>1. PICK q \in Asleep : Min(chain[q]) = i
      BY <1>2 DEF IInv, Requests
    <3>2. q \in Procs /\ q # p
      BY <1>5 DEF Asleep
    <3> QED
      BY <1>2, <1>5, <3>1, <3>2
  <2>3. /\ avail' \cap Range(used') = {}
        /\ \A m, n \in DOMAIN used' : m # n => used'[m] # used'[n]
        /\ inDisk' = {buf'[q] : q \in Asleep'}
    BY <1>1, <1>2, <1>5 DEF IInv, Requests
  <2> QED
    BY <2>1, <2>2, <2>3 DEF Requests
<1>13. ReadDone'
  BY <1>1, <1>2, <1>11 DEF IInv, ReadDone
<1>14. Owners' /\ OneCopy'
  <2>1. \A q \in Procs : /\ stage'[q] = "idle" <=> stage[q] = "idle"
                         /\ stage'[q] \in Owning <=> stage[q] \in Owning
    BY <1>4, <1>6 DEF Owning
  <2> QED
    BY <1>1, <2>1 DEF IInv, Owners, OneCopy
<1>15. Counted' /\ PinnedCached'
  BY <1>1 DEF IInv, Counted, PinnedCached, Users, Pins
<1>16. HeldValid'
  <2> SUFFICES ASSUME NEW q \in Procs
               PROVE  /\ stage'[q] \in {"held", "writing"} => valid'[buf'[q]]
                      /\ stage'[q] = "reading" => ~ valid'[buf'[q]]
    BY DEF HeldValid
  <2>1. CASE q = p
    BY <1>1, <1>6, <2>1
  <2>2. CASE q # p /\ stage[q] \in Owning
    <3>1. buf[q] # buf[p] /\ buf[q] \in Bufs
      BY <1>4, <2>2, OwnersDiffer, UserIs DEF Owning
    <3> QED
      BY <1>1, <1>6, <2>2, <3>1 DEF IInv, HeldValid
  <2>3. CASE q # p /\ stage[q] \notin Owning
    BY <1>6, <2>3 DEF Owning
  <2> QED
    BY <2>1, <2>2, <2>3
<1>17. NoMissedWakeup'
  <2>1. \A q \in Procs : at'[q] # "nodesc"
    BY <1>2
  <2>2. \A q \in Procs : stage'[q] = "waiting" => stage[q] = "waiting"
    BY <1>6
  <2> QED
    BY <1>1, <2>1, <2>2 DEF IInv, NoMissedWakeup
<1> QED
  BY <1>7, <1>8, <1>9, <1>10, <1>12, <1>13, <1>14, <1>15, <1>16, <1>17,
     TypedNext DEF IInv

------------------------------------------------------------------------------
(* The steps of the cache leave the driver's part alone, as long as those  *)
(* who call the driver keep their stage, their buffer and its block.       *)
LEMMA DriverKept ==
    ASSUME IInv, UNCHANGED <<queue, disk>>,
           \A p \in Procs : at[p] # "out" =>
               /\ stage'[p] = stage[p] /\ buf'[p] = buf[p]
               /\ blockno'[buf[p]] = blockno[buf[p]]
               /\ data'[buf[p]] = data[buf[p]],
           \A p \in Procs : at[p] = "out" => stage'[p] \notin {"reading", "writing"},
           data' \in [Bufs -> Values]
    PROVE  /\ QueueTyped' /\ Calling' /\ Chains' /\ Requests' /\ ReadDone'
           /\ \A p \in Procs : at'[p] = "nodesc" => Cardinality(free') < 3
<1>1. Posted' = Posted /\ Asleep' = Asleep
      /\ \A p \in Posted : p \in Procs /\ at[p] # "out"
  BY DEF Posted, Asleep, queue
<1>2. QueueTyped'
  BY Typed DEF IInv, QueueTyped, queue
<1>3. Calling'
  BY DEF IInv, Calling, queue
<1>4. Chains'
  BY <1>1 DEF IInv, Chains, queue
<1>5. Requests'
  <2>1. \A p \in Asleep : buf'[p] = buf[p]
    BY DEF Asleep
  <2>2. inDisk' = {buf'[p] : p \in Asleep'}
    BY <1>1, <2>1 DEF IInv, Requests, queue
  <2> QED
    BY <1>1, <2>2 DEF IInv, Requests, queue
<1>6. ReadDone'
  BY <1>1 DEF IInv, ReadDone, queue
<1>7. \A p \in Procs : at'[p] = "nodesc" => Cardinality(free') < 3
  BY DEF IInv, NoMissedWakeup, queue
<1> QED
  BY <1>2, <1>3, <1>4, <1>5, <1>6, <1>7
(* An idle process has no buffer, no lock and no call.                     *)
LEMMA IdleIs ==
    ASSUME IInv, NEW p \in Procs, stage[p] = "idle"
    PROVE  /\ buf[p] = NoBuf /\ at[p] = "out"
           /\ \A b \in Bufs : owner[b] # p
  BY DEF IInv, Owners, Calling, Owning

LEMMA BgetHitKeeps ==
    ASSUME IInv, NEW p \in Procs, NEW s \in Blocks, BgetHit(p, s)
    PROVE  IInv'
<1>1. PICK b \in Cached(s) : /\ buf' = [buf EXCEPT ![p] = b]
                             /\ refcnt' = [refcnt EXCEPT ![b] = refcnt[b] + 1]
  BY DEF BgetHit, Got, Ref
<1>2. /\ stage[p] = "idle" /\ stage' = [stage EXCEPT ![p] = "lock"]
      /\ UNCHANGED <<queue, data, disk, blockno, valid, owner, lru, pinned>>
  BY DEF BgetHit, Goto, diskvars
<1>3. QueueTyped /\ CacheTyped /\ CountsTyped
  BY Typed DEF IInv
<1>4. b \in Bufs /\ blockno[b] = s /\ b # NoBuf /\ s # NoBlock
  BY NoBufIs, BcacheAssumption DEF Cached
<1>5. buf[p] = NoBuf /\ at[p] = "out" /\ \A c \in Bufs : owner[c] # p
  BY <1>2, IdleIs
<1>6. /\ stage'[p] = "lock" /\ buf'[p] = b
      /\ \A q \in Procs : q # p => stage'[q] = stage[q] /\ buf'[q] = buf[q]
  BY <1>1, <1>2, <1>3 DEF CacheTyped
<1>7. /\ QueueTyped' /\ Calling' /\ Chains' /\ Requests' /\ ReadDone'
      /\ \A q \in Procs : at'[q] = "nodesc" => Cardinality(free') < 3
  <2>1. \A q \in Procs : at[q] = "out" => stage'[q] \notin {"reading", "writing"}
    BY <1>6 DEF IInv, Calling
  <2>2. data' \in [Bufs -> Values]
    BY <1>2, <1>3 DEF QueueTyped
  <2> QED
    BY <1>2, <1>5, <1>6, <2>1, <2>2, DriverKept
<1>8. CacheTyped'
  <2>1. stage' \in [Procs -> Stages] /\ buf' \in [Procs -> Bufs \cup {NoBuf}]
    BY <1>1, <1>2, <1>3, <1>4 DEF CacheTyped, Stages
  <2> QED
    BY <1>2, <1>3, <2>1 DEF CacheTyped
<1>9. Owners'
  BY <1>2, <1>4, <1>5, <1>6 DEF IInv, Owners, Owning
<1>10. OneCopy'
  BY <1>2, <1>4, <1>6 DEF IInv, OneCopy
<1>11. refcnt' \in [Bufs -> Int] /\ Counted'
  <2>1. refcnt' \in [Bufs -> Int]
    BY <1>1, <1>3, <1>4, CountsAre
  <2>2. /\ Cardinality(UsersOf(buf', b)) = Cardinality(UsersOf(buf, b)) + 1
        /\ \A c : c # b /\ c # NoBuf => UsersOf(buf', c) = UsersOf(buf, c)
    <3>1. b \in Bufs \cup {NoBuf} /\ buf[p] # b
      BY <1>4, <1>5
    <3> QED
      BY <1>1, <1>3, <1>5, <3>1, UsersMove
  <2>3. ASSUME NEW c \in Bufs
        PROVE  refcnt'[c] = Cardinality(UsersOf(buf', c)) + Pins(c)'
    <3>1. refcnt[c] = Cardinality(UsersOf(buf, c)) + Pins(c)
      BY UsersIs DEF IInv, Counted
    <3>2. Pins(c)' = Pins(c) /\ Pins(c) \in Nat
      BY <1>2 DEF Pins
    <3>3. Cardinality(UsersOf(buf, c)) \in Nat
      BY UsersAre
    <3>4. CASE c = b
      BY <1>1, <1>3, <2>2, <3>1, <3>2, <3>3, <3>4 DEF CountsTyped
    <3>5. CASE c # b
      BY <1>1, <1>3, <2>2, <3>1, <3>2, <3>3, <3>5, NoBufIs DEF CountsTyped
    <3> QED
      BY <3>4, <3>5
  <2> QED
    BY <2>1, <2>3, UsersIs DEF Counted
<1>12. PinnedCached'
  BY <1>2 DEF IInv, PinnedCached
<1>13. HeldValid'
  BY <1>2, <1>6 DEF IInv, HeldValid
<1>14. NoMissedWakeup'
  BY <1>2, <1>6, <1>7 DEF IInv, NoMissedWakeup
<1> QED
  BY <1>7, <1>8, <1>9, <1>10, <1>11, <1>12, <1>13, <1>14,
     CountsBounded, TypedNext DEF IInv

(* The buffer that bget() recycles is nobody's, and its block not pinned.  *)
LEMMA UnusedIs ==
    ASSUME IInv, NEW b \in Unused
    PROVE  b \in Bufs /\ UsersOf(buf, b) = {} /\ blockno[b] \notin pinned
<1>1. b \in Bufs /\ refcnt[b] = 0
  BY DEF Unused
<1>2. refcnt[b] = Cardinality(UsersOf(buf, b)) + Pins(b)
  BY <1>1, UsersIs DEF IInv, Counted
<1>3. Pins(b) \in {0, 1} /\ Cardinality(UsersOf(buf, b)) \in Nat
  BY UsersAre DEF Pins
<1>4. Pins(b) = 0 /\ Cardinality(UsersOf(buf, b)) = 0
  BY <1>1, <1>2, <1>3
<1> QED
  BY <1>1, <1>4, UsersAre DEF Pins

LEMMA BgetMissIs ==
    ASSUME IInv, NEW p \in Procs, NEW s \in Blocks, BgetMiss(p, s)
    PROVE  \E b \in Bufs :
               /\ UsersOf(buf, b) = {} /\ blockno[b] \notin pinned
               /\ refcnt[b] = 0
               /\ buf' = [buf EXCEPT ![p] = b]
               /\ blockno' = [blockno EXCEPT ![b] = s]
               /\ valid' = [valid EXCEPT ![b] = FALSE]
               /\ refcnt' = [refcnt EXCEPT ![b] = 1]
<1>1. LeastRecent \in Unused
  BY LeastRecentIs, Typed DEF BgetMiss, IInv, CacheTyped
<1> QED
  BY <1>1, UnusedIs DEF BgetMiss, Got, Unused

LEMMA BgetMissKeeps ==
    ASSUME IInv, NEW p \in Procs, NEW s \in Blocks, BgetMiss(p, s)
    PROVE  IInv'
<1>1. PICK b \in Bufs :
         /\ UsersOf(buf, b) = {} /\ blockno[b] \notin pinned
         /\ refcnt[b] = 0
         /\ buf' = [buf EXCEPT ![p] = b]
         /\ blockno' = [blockno EXCEPT ![b] = s]
         /\ valid' = [valid EXCEPT ![b] = FALSE]
         /\ refcnt' = [refcnt EXCEPT ![b] = 1]
  BY BgetMissIs
<1>2. /\ stage[p] = "idle" /\ stage' = [stage EXCEPT ![p] = "lock"]
      /\ \A c \in Bufs : blockno[c] # s
      /\ UNCHANGED <<queue, data, disk, owner, lru, pinned>>
  BY DEF BgetMiss, Goto, diskvars, Cached
<1>3. QueueTyped /\ CacheTyped /\ CountsTyped
  BY Typed DEF IInv
<1>4. b # NoBuf /\ s # NoBlock /\ \A q \in Procs : buf[q] # b
  BY <1>1, NoBufIs, BcacheAssumption DEF UsersOf
<1>5. buf[p] = NoBuf /\ at[p] = "out" /\ \A c \in Bufs : owner[c] # p
  BY <1>2, IdleIs
<1>6. /\ stage'[p] = "lock" /\ buf'[p] = b
      /\ \A q \in Procs : q # p => stage'[q] = stage[q] /\ buf'[q] = buf[q]
  BY <1>1, <1>2, <1>3 DEF CacheTyped
<1>7. /\ blockno'[b] = s
      /\ \A c \in Bufs : c # b => /\ blockno'[c] = blockno[c] /\ valid'[c] = valid[c]
                                  /\ refcnt'[c] = refcnt[c]
  BY <1>1, <1>3 DEF CacheTyped, CountsTyped
<1>8. /\ QueueTyped' /\ Calling' /\ Chains' /\ Requests' /\ ReadDone'
      /\ \A q \in Procs : at'[q] = "nodesc" => Cardinality(free') < 3
  <2>1. \A q \in Procs : at[q] = "out" => stage'[q] \notin {"reading", "writing"}
    BY <1>6 DEF IInv, Calling
  <2>2. data' \in [Bufs -> Values]
    BY <1>2, <1>3 DEF QueueTyped
  <2>3. \A q \in Procs : at[q] # "out" => /\ stage'[q] = stage[q] /\ buf'[q] = buf[q]
                                          /\ blockno'[buf[q]] = blockno[buf[q]]
    BY <1>4, <1>5, <1>6, <1>7, CallerIs
  <2> QED
    BY <1>2, <2>1, <2>2, <2>3, DriverKept
<1>9. CacheTyped'
  <2>1. stage' \in [Procs -> Stages] /\ buf' \in [Procs -> Bufs \cup {NoBuf}]
    BY <1>1, <1>2, <1>3, <1>4 DEF CacheTyped, Stages
  <2>2. /\ blockno' \in [Bufs -> Blocks \cup {NoBlock}]
        /\ valid' \in [Bufs -> BOOLEAN]
    BY <1>1, <1>3 DEF CacheTyped
  <2> QED
    BY <1>2, <1>3, <2>1, <2>2 DEF CacheTyped
<1>10. Owners'
  BY <1>2, <1>4, <1>5, <1>6 DEF IInv, Owners, Owning
<1>11. OneCopy'
  <2>1. \A c, d \in Bufs : blockno'[c] = blockno'[d] /\ blockno'[c] # NoBlock => c = d
    BY <1>2, <1>7 DEF IInv, OneCopy
  <2>2. ASSUME NEW q \in Procs, stage'[q] # "idle"
        PROVE  blockno'[buf'[q]] # NoBlock
    <3>1. CASE q = p
      BY <1>4, <1>6, <1>7, <3>1
    <3>2. CASE q # p
      <4>1. stage[q] # "idle" /\ buf'[q] = buf[q]
        BY <1>6, <2>2, <3>2
      <4>2. buf[q] \in Bufs /\ buf[q] # b
        BY <1>4, <4>1, UserIs
      <4> QED
        BY <1>7, <4>1, <4>2 DEF IInv, OneCopy
    <3> QED
      BY <3>1, <3>2
  <2> QED
    BY <2>1, <2>2 DEF OneCopy
<1>12. refcnt' \in [Bufs -> Int] /\ Counted'
  <2>1. refcnt' \in [Bufs -> Int]
    BY <1>1, <1>3, CountsAre
  <2>2. /\ Cardinality(UsersOf(buf', b)) = Cardinality(UsersOf(buf, b)) + 1
        /\ \A c : c # b /\ c # NoBuf => UsersOf(buf', c) = UsersOf(buf, c)
    <3>1. b \in Bufs \cup {NoBuf} /\ buf[p] # b
      BY <1>4, <1>5
    <3> QED
      BY <1>1, <1>3, <1>5, <3>1, UsersMove
  <2>3. ASSUME NEW c \in Bufs
        PROVE  refcnt'[c] = Cardinality(UsersOf(buf', c)) + Pins(c)'
    <3>1. CASE c = b
      <4>1. Cardinality(UsersOf(buf, b)) = 0
        BY <1>1, UsersAre
      <4>2. s \notin pinned'
        BY <1>2 DEF IInv, PinnedCached
      <4>3. Pins(b)' = 0
        BY <1>7, <4>2 DEF Pins
      <4>4. refcnt'[b] = 1
        BY <1>1, <1>3 DEF CountsTyped
      <4> QED
        BY <2>2, <3>1, <4>1, <4>3, <4>4
    <3>2. CASE c # b
      <4>1. refcnt[c] = Cardinality(UsersOf(buf, c)) + Pins(c)
        BY UsersIs DEF IInv, Counted
      <4>2. Pins(c)' = Pins(c)
        BY <1>2, <1>7, <3>2 DEF Pins
      <4>3. UsersOf(buf', c) = UsersOf(buf, c)
        BY <2>2, <3>2, NoBufIs
      <4> QED
        BY <1>7, <3>2, <4>1, <4>2, <4>3
    <3> QED
      BY <3>1, <3>2
  <2> QED
    BY <2>1, <2>3, UsersIs DEF Counted
<1>13. PinnedCached'
  <2>1. ASSUME NEW t \in pinned PROVE \E c \in Bufs : blockno'[c] = t
    <3>1. PICK c \in Bufs : blockno[c] = t
      BY DEF IInv, PinnedCached
    <3>2. c # b
      BY <1>1, <3>1
    <3> QED
      BY <1>7, <3>1, <3>2
  <2> QED
    BY <1>2, <2>1 DEF PinnedCached
<1>14. HeldValid'
  <2>1. \A q \in Procs : q # p /\ stage[q] # "idle" => /\ buf[q] # b /\ buf[q] \in Bufs
                                                    /\ valid'[buf[q]] = valid[buf[q]]
    BY <1>4, <1>7, UserIs
  <2> QED
    BY <1>6, <2>1 DEF IInv, HeldValid
<1>15. NoMissedWakeup'
  BY <1>2, <1>6, <1>8 DEF IInv, NoMissedWakeup
<1> QED
  BY <1>8, <1>9, <1>10, <1>11, <1>12, <1>13, <1>14, <1>15,
     CountsBounded, TypedNext DEF IInv
LEMMA AcquiresleepKeeps ==
    ASSUME IInv, NEW p \in Procs, Acquiresleep(p)
    PROVE  IInv'
<1>1. /\ stage[p] = "lock"
      /\ UNCHANGED <<queue, data, disk, blockno, valid, refcnt, lru, buf, pinned>>
      /\ \/ /\ owner[buf[p]] = NoProc /\ owner' = [owner EXCEPT ![buf[p]] = p]
            /\ stage' = [stage EXCEPT ![p] = "locked"]
         \/ /\ owner[buf[p]] # NoProc /\ owner' = owner
            /\ stage' = [stage EXCEPT ![p] = "waiting"]
  BY DEF Acquiresleep, Goto, diskvars
<1>2. QueueTyped /\ CacheTyped /\ CountsTyped
  BY Typed DEF IInv
<1>3. buf[p] \in Bufs /\ buf[p] # NoBuf /\ p # NoProc
  BY <1>1, UserIs, NoBufIs, BcacheAssumption
<1>4. /\ \A q \in Procs : q # p => stage'[q] = stage[q]
      /\ stage'[p] \in {"locked", "waiting"}
      /\ \A c \in Bufs : c # buf[p] => owner'[c] = owner[c]
      /\ stage'[p] = "locked" => owner[buf[p]] = NoProc /\ owner'[buf[p]] = p
      /\ stage'[p] = "waiting" => owner[buf[p]] # NoProc /\ owner' = owner
  BY <1>1, <1>2, <1>3 DEF CacheTyped
<1>5. /\ QueueTyped' /\ Calling' /\ Chains' /\ Requests' /\ ReadDone'
      /\ \A q \in Procs : at'[q] = "nodesc" => Cardinality(free') < 3
  <2>1. at[p] = "out"
    BY <1>1, CallerIs
  <2>2. \A q \in Procs : at[q] = "out" => stage'[q] \notin {"reading", "writing"}
    BY <1>4 DEF IInv, Calling
  <2>3. data' \in [Bufs -> Values]
    BY <1>1, <1>2 DEF QueueTyped
  <2> QED
    BY <1>1, <1>4, <2>1, <2>2, <2>3, DriverKept
<1>6. CacheTyped' /\ CountsTyped'
  <2>1. stage' \in [Procs -> Stages] /\ owner' \in [Bufs -> Procs \cup {NoProc}]
    BY <1>1, <1>2, <1>3 DEF CacheTyped, Stages
  <2> QED
    BY <1>1, <1>2, <2>1 DEF CacheTyped, CountsTyped
<1>7. Owners'
  <2> SUFFICES ASSUME NEW q \in Procs
               PROVE  /\ stage'[q] = "idle" <=> buf'[q] = NoBuf
                      /\ \A b \in Bufs : owner'[b] = q <=> buf'[q] = b /\ stage'[q] \in Owning
    BY DEF Owners
  <2>1. stage'[q] = "idle" <=> buf'[q] = NoBuf
    BY <1>1, <1>3, <1>4 DEF IInv, Owners
  <2>2. ASSUME NEW b \in Bufs
        PROVE  owner'[b] = q <=> buf'[q] = b /\ stage'[q] \in Owning
    <3>1. owner[b] = q <=> buf[q] = b /\ stage[q] \in Owning
      BY DEF IInv, Owners
    <3>2. q # NoProc
      BY BcacheAssumption
    <3>3. CASE q = p
      BY <1>1, <1>3, <1>4, <3>1, <3>2, <3>3 DEF Owning
    <3>4. CASE q # p
      BY <1>1, <1>3, <1>4, <3>1, <3>2, <3>4
    <3> QED
      BY <3>3, <3>4
  <2> QED
    BY <2>1, <2>2
<1>8. OneCopy'
  BY <1>1, <1>4 DEF IInv, OneCopy
<1>9. Counted' /\ PinnedCached'
  BY <1>1 DEF IInv, Counted, PinnedCached, Users, Pins
<1>10. HeldValid'
  BY <1>1, <1>4 DEF IInv, HeldValid
<1>11. NoMissedWakeup'
  <2>1. ASSUME NEW q \in Procs, stage'[q] = "waiting" PROVE owner'[buf'[q]] # NoProc
    <3>1. CASE q = p
      BY <1>1, <1>3, <1>4, <2>1, <3>1
    <3>2. CASE q # p
      <4>1. stage[q] = "waiting" /\ buf[q] \in Bufs /\ owner[buf[q]] # NoProc
        BY <1>4, <2>1, <3>2, UserIs DEF IInv, NoMissedWakeup
      <4> QED
        BY <1>1, <1>3, <1>4, <4>1
    <3> QED
      BY <3>1, <3>2
  <2> QED
    BY <1>5, <2>1 DEF NoMissedWakeup
<1> QED
  BY <1>5, <1>6, <1>7, <1>8, <1>9, <1>10, <1>11, TypedNext DEF IInv

LEMMA BreadValidKeeps ==
    ASSUME IInv, NEW p \in Procs, BreadValid(p)
    PROVE  IInv'
<1>1. /\ stage[p] = "locked" /\ valid[buf[p]]
      /\ stage' = [stage EXCEPT ![p] = "held"]
      /\ UNCHANGED <<queue, data, disk, blockno, valid, refcnt, owner, lru,
                     buf, pinned>>
  BY DEF BreadValid, Goto, diskvars
<1>2. QueueTyped /\ CacheTyped /\ CountsTyped
  BY Typed DEF IInv
<1>3. stage'[p] = "held" /\ \A q \in Procs : q # p => stage'[q] = stage[q]
  BY <1>1, <1>2 DEF CacheTyped
<1>4. /\ QueueTyped' /\ Calling' /\ Chains' /\ Requests' /\ ReadDone'
      /\ \A q \in Procs : at'[q] = "nodesc" => Cardinality(free') < 3
  <2>1. at[p] = "out"
    BY <1>1, CallerIs
  <2>2. \A q \in Procs : at[q] = "out" => stage'[q] \notin {"reading", "writing"}
    BY <1>3 DEF IInv, Calling
  <2>3. data' \in [Bufs -> Values]
    BY <1>1, <1>2 DEF QueueTyped
  <2> QED
    BY <1>1, <1>3, <2>1, <2>2, <2>3, DriverKept
<1>5. CacheTyped' /\ CountsTyped'
  <2>1. stage' \in [Procs -> Stages]
    BY <1>1, <1>2 DEF CacheTyped, Stages
  <2> QED
    BY <1>1, <1>2, <2>1 DEF CacheTyped, CountsTyped
<1>6. \A q \in Procs : /\ stage'[q] = "idle" <=> stage[q] = "idle"
                       /\ stage'[q] = "waiting" <=> stage[q] = "waiting"
                       /\ stage'[q] \in Owning <=> stage[q] \in Owning
  BY <1>1, <1>3 DEF Owning
<1>7. Owners' /\ OneCopy' /\ PinnedCached'
  BY <1>1, <1>6 DEF IInv, Owners, OneCopy, PinnedCached
<1>8. Counted'
  BY <1>1 DEF IInv, Counted, Users, Pins
<1>9. HeldValid'
  BY <1>1, <1>3 DEF IInv, HeldValid
<1>10. NoMissedWakeup'
  BY <1>1, <1>4, <1>6 DEF IInv, NoMissedWakeup
<1> QED
  BY <1>4, <1>5, <1>7, <1>8, <1>9, <1>10, TypedNext DEF IInv

LEMMA ModifyKeeps ==
    ASSUME IInv, NEW p \in Procs, NEW v \in Values, Modify(p, v)
    PROVE  IInv'
<1>1. /\ stage[p] = "held"
      /\ data' = [data EXCEPT ![buf[p]] = v]
      /\ UNCHANGED <<queue, disk, blockno, valid, refcnt, owner, lru, buf,
                     stage, pinned>>
      /\ UNCHANGED cache
  BY DEF Modify, cache
<1>2. data' \in [Bufs -> Values]
  BY <1>1, Typed DEF IInv, QueueTyped
<1>3. \A q \in Procs : at[q] # "out" => data'[buf[q]] = data[buf[q]]
  <2>1. ASSUME NEW q \in Procs, at[q] # "out" PROVE buf[q] # buf[p] /\ buf[q] \in Bufs
    <3>1. stage[q] \in Owning /\ q # p /\ buf[q] \in Bufs
      BY <1>1, <2>1, CallerIs
    <3> QED
      BY <1>1, <3>1, OwnersDiffer DEF Owning
  <2> QED
    BY <1>1, <2>1, Typed DEF IInv, QueueTyped
<1>4. /\ QueueTyped' /\ Calling' /\ Chains' /\ Requests' /\ ReadDone'
      /\ \A q \in Procs : at'[q] = "nodesc" => Cardinality(free') < 3
  <2>1. \A q \in Procs : at[q] = "out" => stage'[q] \notin {"reading", "writing"}
    BY <1>1 DEF IInv, Calling
  <2> QED
    BY <1>1, <1>2, <1>3, <2>1, DriverKept
<1>5. NoMissedWakeup'
  BY <1>1, <1>4 DEF IInv, NoMissedWakeup
<1> QED
  BY <1>1, <1>4, <1>5, CacheKept, TypedNext DEF IInv
(* bpin() and bunpin(): the pin of a block is counted where its buffer is. *)
LEMMA PinKeeps ==
    ASSUME IInv, NEW p \in Procs, Bpin(p) \/ Bunpin(p)
    PROVE  IInv'
<1> DEFINE b == buf[p]   s == blockno[b]
<1>1. /\ stage[p] = "held"
      /\ \/ /\ s \notin pinned /\ pinned' = pinned \cup {s}
            /\ refcnt' = [refcnt EXCEPT ![b] = refcnt[b] + 1]
         \/ /\ s \in pinned /\ pinned' = pinned \ {s}
            /\ refcnt' = [refcnt EXCEPT ![b] = refcnt[b] - 1]
      /\ UNCHANGED <<queue, data, disk, blockno, valid, owner, lru, buf, stage>>
  BY DEF Bpin, Bunpin, Ref, Unref, diskvars
<1>2. QueueTyped /\ CacheTyped /\ CountsTyped
  BY Typed DEF IInv
<1>3. b \in Bufs /\ s \in Blocks /\ s # NoBlock
  BY <1>1, UserIs, BcacheAssumption
<1>4. \A c \in Bufs : c # b => blockno[c] # s
  BY <1>3 DEF IInv, OneCopy
<1> HIDE DEF b, s
<1>5. /\ QueueTyped' /\ Calling' /\ Chains' /\ Requests' /\ ReadDone'
      /\ \A q \in Procs : at'[q] = "nodesc" => Cardinality(free') < 3
  <2>1. \A q \in Procs : at[q] = "out" => stage'[q] \notin {"reading", "writing"}
    BY <1>1 DEF IInv, Calling
  <2>2. data' \in [Bufs -> Values]
    BY <1>1, <1>2 DEF QueueTyped
  <2> QED
    BY <1>1, <2>1, <2>2, DriverKept
<1>6. CacheTyped'
  <2>1. pinned' \subseteq Blocks
    BY <1>1, <1>2, <1>3 DEF CacheTyped
  <2> QED
    BY <1>1, <1>2, <2>1 DEF CacheTyped
<1>7. Owners' /\ OneCopy' /\ HeldValid'
  BY <1>1 DEF IInv, Owners, OneCopy, HeldValid
<1>8. refcnt' \in [Bufs -> Int] /\ Counted'
  <2>1. refcnt' \in [Bufs -> Int]
    BY <1>1, <1>2, <1>3, CountsAre
  <2>2. ASSUME NEW c \in Bufs
        PROVE  refcnt'[c] = Cardinality(UsersOf(buf', c)) + Pins(c)'
    <3>1. refcnt[c] = Cardinality(UsersOf(buf, c)) + Pins(c)
      BY UsersIs DEF IInv, Counted
    <3>2. UsersOf(buf', c) = UsersOf(buf, c) /\ Cardinality(UsersOf(buf, c)) \in Nat
      BY <1>1, UsersAre
    <3>3. CASE c # b
      <4>1. Pins(c)' = Pins(c)
        BY <1>1, <1>4, <3>3 DEF Pins
      <4>2. refcnt'[c] = refcnt[c]
        BY <1>1, <1>2, <1>3, <3>3, CountsAre
      <4> QED
        BY <3>1, <3>2, <4>1, <4>2
    <3>4. CASE c = b
      <4>1. /\ s \notin pinned => Pins(c) = 0 /\ Pins(c)' = 1
            /\ s \in pinned => Pins(c) = 1 /\ Pins(c)' = 0
        BY <1>1, <3>4 DEF Pins, s
      <4>2. /\ s \notin pinned => refcnt'[c] = refcnt[c] + 1
            /\ s \in pinned => refcnt'[c] = refcnt[c] - 1
        BY <1>1, <1>2, <1>3, <3>4, CountsAre
      <4> QED
        BY <3>1, <3>2, <3>4, <4>1, <4>2
    <3> QED
      BY <3>3, <3>4
  <2> QED
    BY <2>1, <2>2, UsersIs DEF Counted
<1>9. PinnedCached'
  <2>1. \A t \in pinned' : t \in pinned \/ t = s
    BY <1>1
  <2> QED
    BY <1>1, <1>3, <2>1 DEF IInv, PinnedCached, s
<1>10. NoMissedWakeup'
  BY <1>1, <1>5 DEF IInv, NoMissedWakeup
<1> QED
  BY <1>5, <1>6, <1>7, <1>8, <1>9, <1>10, CountsBounded, TypedNext DEF IInv

LEMMA ReleasesleepKeeps ==
    ASSUME IInv, NEW p \in Procs, Releasesleep(p)
    PROVE  IInv'
<1>1. /\ stage[p] = "held"
      /\ owner' = [owner EXCEPT ![buf[p]] = NoProc]
      /\ stage' = [q \in Procs |->
                      IF q = p THEN "released"
                      ELSE IF stage[q] = "waiting" /\ buf[q] = buf[p] THEN "lock"
                      ELSE stage[q]]
      /\ UNCHANGED <<queue, data, disk, blockno, valid, refcnt, lru, buf, pinned>>
  BY DEF Releasesleep, diskvars
<1>2. QueueTyped /\ CacheTyped /\ CountsTyped
  BY Typed DEF IInv
<1>3. buf[p] \in Bufs /\ owner[buf[p]] = p /\ at[p] = "out"
  BY <1>1, UserIs, CallerIs DEF Owning
<1>4. /\ stage'[p] = "released"
      /\ \A q \in Procs : q # p =>
             stage'[q] = IF stage[q] = "waiting" /\ buf[q] = buf[p] THEN "lock"
                         ELSE stage[q]
      /\ owner'[buf[p]] = NoProc
      /\ \A c \in Bufs : c # buf[p] => owner'[c] = owner[c]
  BY <1>1, <1>2, <1>3 DEF CacheTyped
<1>5. \A q \in Procs : /\ stage'[q] = "idle" <=> stage[q] = "idle"
                       /\ stage'[q] \in Owning <=> q # p /\ stage[q] \in Owning
                       /\ stage'[q] \in {"reading", "writing", "held"} =>
                              stage'[q] = stage[q]
                       /\ stage'[q] = "waiting" =>
                              stage[q] = "waiting" /\ buf[q] # buf[p]
  BY <1>1, <1>4 DEF Owning
<1>6. /\ QueueTyped' /\ Calling' /\ Chains' /\ Requests' /\ ReadDone'
      /\ \A q \in Procs : at'[q] = "nodesc" => Cardinality(free') < 3
  <2>1. \A q \in Procs : at[q] = "out" => stage'[q] \notin {"reading", "writing"}
    BY <1>5 DEF IInv, Calling
  <2>2. data' \in [Bufs -> Values]
    BY <1>1, <1>2 DEF QueueTyped
  <2>3. \A q \in Procs : at[q] # "out" => stage'[q] = stage[q]
    BY <1>3, <1>4, CallerIs
  <2> QED
    BY <1>1, <2>1, <2>2, <2>3, DriverKept
<1>7. CacheTyped' /\ CountsTyped'
  <2>1. stage' \in [Procs -> Stages] /\ owner' \in [Bufs -> Procs \cup {NoProc}]
    BY <1>1, <1>2 DEF CacheTyped, Stages
  <2> QED
    BY <1>1, <1>2, <2>1 DEF CacheTyped, CountsTyped
<1>8. Owners'
  <2>1. \A q \in Procs : stage'[q] = "idle" <=> buf'[q] = NoBuf
    BY <1>1, <1>5 DEF IInv, Owners
  <2>2. ASSUME NEW q \in Procs, NEW b \in Bufs
        PROVE  owner'[b] = q <=> buf'[q] = b /\ stage'[q] \in Owning
    <3>1. owner[b] = q <=> buf[q] = b /\ stage[q] \in Owning
      BY DEF IInv, Owners
    <3>2. q # NoProc
      BY BcacheAssumption
    <3> QED
      BY <1>1, <1>3, <1>4, <1>5, <3>1, <3>2
  <2> QED
    BY <2>1, <2>2 DEF Owners
<1>9. OneCopy'
  BY <1>1, <1>5 DEF IInv, OneCopy
<1>10. Counted' /\ PinnedCached'
  BY <1>1 DEF IInv, Counted, PinnedCached, Users, Pins
<1>11. HeldValid'
  BY <1>1, <1>5 DEF IInv, HeldValid
<1>12. NoMissedWakeup'
  <2>1. ASSUME NEW q \in Procs, stage'[q] = "waiting" PROVE owner'[buf'[q]] # NoProc
    <3>1. /\ stage[q] = "waiting" /\ buf[q] # buf[p]
          /\ buf[q] \in Bufs /\ owner[buf[q]] # NoProc
      BY <1>5, <2>1, UserIs DEF IInv, NoMissedWakeup
    <3> QED
      BY <1>1, <1>4, <3>1
  <2> QED
    BY <1>6, <2>1 DEF NoMissedWakeup
<1> QED
  BY <1>6, <1>7, <1>8, <1>9, <1>10, <1>11, <1>12, TypedNext DEF IInv

LEMMA BrelseKeeps ==
    ASSUME IInv, NEW p \in Procs, Brelse(p)
    PROVE  IInv'
<1>1. /\ stage[p] = "released" /\ stage' = [stage EXCEPT ![p] = "idle"]
      /\ buf' = [buf EXCEPT ![p] = NoBuf]
      /\ refcnt' = [refcnt EXCEPT ![buf[p]] = refcnt[buf[p]] - 1]
      /\ UNCHANGED <<queue, data, disk, blockno, valid, owner, pinned>>
  BY DEF Brelse, Goto, Got, Unref, diskvars
<1>2. QueueTyped /\ CacheTyped /\ CountsTyped
  BY Typed DEF IInv
<1>3. buf[p] \in Bufs /\ buf[p] # NoBuf /\ at[p] = "out"
  BY <1>1, UserIs, CallerIs, NoBufIs
<1>4. /\ stage'[p] = "idle" /\ buf'[p] = NoBuf
      /\ \A q \in Procs : q # p => stage'[q] = stage[q] /\ buf'[q] = buf[q]
  BY <1>1, <1>2 DEF CacheTyped
<1>5. /\ QueueTyped' /\ Calling' /\ Chains' /\ Requests' /\ ReadDone'
      /\ \A q \in Procs : at'[q] = "nodesc" => Cardinality(free') < 3
  <2>1. \A q \in Procs : at[q] = "out" => stage'[q] \notin {"reading", "writing"}
    BY <1>4 DEF IInv, Calling
  <2>2. data' \in [Bufs -> Values]
    BY <1>1, <1>2 DEF QueueTyped
  <2> QED
    BY <1>1, <1>3, <1>4, <2>1, <2>2, DriverKept
<1>6. CacheTyped'
  <2>1. stage' \in [Procs -> Stages] /\ buf' \in [Procs -> Bufs \cup {NoBuf}]
    BY <1>1, <1>2 DEF CacheTyped, Stages
  <2>2. lru' \in SetToSeqs(Bufs)
    BY <1>2, <1>3, ToFrontIs DEF Brelse, CacheTyped
  <2> QED
    BY <1>1, <1>2, <2>1, <2>2 DEF CacheTyped
<1>7. Owners'
  <2>1. \A b \in Bufs : owner[b] # p /\ b # NoBuf
    BY <1>1, NoBufIs DEF IInv, Owners, Owning
  <2> QED
    BY <1>1, <1>4, <2>1 DEF IInv, Owners, Owning
<1>8. OneCopy' /\ PinnedCached' /\ HeldValid'
  BY <1>1, <1>4 DEF IInv, OneCopy, PinnedCached, HeldValid
<1>9. refcnt' \in [Bufs -> Int] /\ Counted'
  <2>1. refcnt' \in [Bufs -> Int]
    BY <1>1, <1>2, <1>3, CountsAre
  <2>2. /\ Cardinality(UsersOf(buf', buf[p])) = Cardinality(UsersOf(buf, buf[p])) - 1
        /\ \A c : c # buf[p] /\ c # NoBuf => UsersOf(buf', c) = UsersOf(buf, c)
    BY <1>1, <1>2, <1>3, UsersMove
  <2>3. ASSUME NEW c \in Bufs
        PROVE  refcnt'[c] = Cardinality(UsersOf(buf', c)) + Pins(c)'
    <3>1. refcnt[c] = Cardinality(UsersOf(buf, c)) + Pins(c)
      BY UsersIs DEF IInv, Counted
    <3>2. Pins(c)' = Pins(c) /\ Pins(c) \in Nat
      BY <1>1 DEF Pins
    <3>3. Cardinality(UsersOf(buf, c)) \in Nat
      BY UsersAre
    <3>4. CASE c = buf[p]
      <4>1. refcnt'[c] = refcnt[c] - 1
        BY <1>1, <1>2, <3>4, CountsAre
      <4> QED
        BY <2>2, <3>1, <3>2, <3>3, <3>4, <4>1
    <3>5. CASE c # buf[p]
      <4>1. refcnt'[c] = refcnt[c]
        BY <1>1, <1>2, <1>3, <3>5, CountsAre
      <4> QED
        BY <2>2, <3>1, <3>2, <3>5, <4>1, NoBufIs
    <3> QED
      BY <3>4, <3>5
  <2> QED
    BY <2>1, <2>3, UsersIs DEF Counted
<1>10. NoMissedWakeup'
  BY <1>1, <1>4, <1>5 DEF IInv, NoMissedWakeup
<1> QED
  BY <1>5, <1>6, <1>7, <1>8, <1>9, <1>10, CountsBounded, TypedNext DEF IInv

------------------------------------------------------------------------------
LEMMA InitKeeps == Init => IInv
<1> SUFFICES ASSUME Init PROVE IInv
  OBVIOUS
<1>1. DiskInit
  BY DEF Init
<1>2. QueueTyped
  <2>1. /\ free \subseteq Descriptors /\ avail \subseteq Descriptors
        /\ used \in Seq(Descriptors) /\ irq \in BOOLEAN /\ handling \in BOOLEAN
        /\ inDisk \subseteq Bufs
    <3>1. /\ free = Descriptors /\ avail = {} /\ used = <<>> /\ irq = FALSE
          /\ handling = FALSE /\ inDisk = {}
      BY <1>1 DEF DiskInit
    <3>2. <<>> \in Seq(Descriptors)
      OBVIOUS
    <3> QED
      BY <3>1, <3>2
  <2>2. command \in [Descriptors -> Command \cup {NoCommand}]
    BY <1>1 DEF DiskInit
  <2>3. /\ call \in [Procs -> Command \cup {NoCommand}]
        /\ chain \in [Procs -> SUBSET Descriptors] /\ at \in [Procs -> Places]
    BY <1>1 DEF DiskInit, Places
  <2>4. data \in [Bufs -> Values] /\ disk \in [Blocks -> Values]
    BY <1>1 DEF DiskInit
  <2> QED
    BY <2>1, <2>2, <2>3, <2>4 DEF QueueTyped
<1>3. CacheTyped
  <2>1. /\ lru = [i \in Bufs |-> NBUF + 1 - i]
        /\ NBUF \in Nat \ {0}
    BY DiskAssumption DEF Init
  <2>2. \A i \in Bufs : NBUF + 1 - i \in Bufs
    BY <2>1 DEF Bufs
  <2>3. lru \in [Bufs -> Bufs]
    BY <2>1, <2>2
  <2>4. \A i, j \in Bufs : i # j => lru[i] # lru[j]
    BY <2>1 DEF Bufs
  <2>5. lru \in SetToSeqs(Bufs)
    BY <2>3, <2>4, ListIs
  <2> QED
    BY <2>5 DEF Init, CacheTyped, Stages
<1>4. Counted /\ CountsTyped
  <2>1. ASSUME NEW b \in Bufs PROVE Cardinality(Users(b)) = 0 /\ Pins(b) = 0
    <3>1. UsersOf(buf, b) = {}
      BY NoBufIs DEF Init, UsersOf
    <3> QED
      BY <3>1, UsersAre, UsersIs DEF Init, Pins
  <2> QED
    BY <2>1, ProcsCount DEF Init, Counted, CountsTyped
<1>5. Posted = {} /\ Asleep = {}
  BY <1>1 DEF DiskInit, Posted, Asleep
<1>6. Calling /\ Chains /\ ReadDone
  BY <1>1, <1>5 DEF Init, DiskInit, Calling, Chains, ReadDone
<1>7. Requests
  BY <1>1, <1>5 DEF DiskInit, Requests, Range
<1>8. Owners /\ OneCopy /\ PinnedCached /\ HeldValid
  BY NoBufIs, BcacheAssumption DEF Init, Owners, Owning, OneCopy, PinnedCached, HeldValid
<1>9. NoMissedWakeup
  BY <1>1 DEF Init, DiskInit, NoMissedWakeup
<1> QED
  BY <1>2, <1>3, <1>4, <1>6, <1>7, <1>8, <1>9, Typed DEF IInv

LEMMA StutterKeeps == IInv /\ UNCHANGED vars => IInv'
<1> SUFFICES ASSUME IInv, UNCHANGED vars PROVE IInv'
  OBVIOUS
<1>1. UNCHANGED cache /\ UNCHANGED <<queue, data, disk>>
  BY DEF vars, diskvars, cache
<1>2. /\ QueueTyped' /\ Calling' /\ Chains' /\ Requests' /\ ReadDone'
      /\ \A q \in Procs : at'[q] = "nodesc" => Cardinality(free') < 3
  <2>1. \A q \in Procs : at[q] = "out" => stage'[q] \notin {"reading", "writing"}
    BY <1>1 DEF IInv, Calling, cache
  <2>2. data' \in [Bufs -> Values]
    BY <1>1, Typed DEF IInv, QueueTyped
  <2> QED
    BY <1>1, <2>1, <2>2, DriverKept DEF cache
<1>3. NoMissedWakeup'
  BY <1>1, <1>2 DEF IInv, NoMissedWakeup, cache
<1> QED
  BY <1>1, <1>2, <1>3, CacheKept, TypedNext DEF IInv

LEMMA NextKeeps == IInv /\ [Next]_vars => IInv'
<1> SUFFICES ASSUME IInv, [Next]_vars PROVE IInv'
  OBVIOUS
<1>1. CASE DiskStep
  BY <1>1, HandlerKeeps, CompletionKeeps, AnswerKeeps DEF DiskStep, Device, cache
<1>2. ASSUME NEW p \in Procs, NEW s \in Blocks, BgetHit(p, s) \/ BgetMiss(p, s)
      PROVE  IInv'
  BY <1>2, BgetHitKeeps, BgetMissKeeps
<1>3. ASSUME NEW p \in Procs, NEW v \in Values, Modify(p, v) PROVE IInv'
  BY <1>3, ModifyKeeps
<1>4. ASSUME NEW p \in Procs, Acquiresleep(p) \/ BreadValid(p) PROVE IInv'
  BY <1>4, AcquiresleepKeeps, BreadValidKeeps
<1>5. ASSUME NEW p \in Procs, BreadDisk(p) PROVE IInv'
  <2>1. /\ stage[p] = "locked" /\ ~ valid[buf[p]]
        /\ Rw(p, [buf |-> buf[p], block |-> blockno[buf[p]],
                  write |-> "reading" = "writing"])
        /\ Goto(p, "reading")
        /\ UNCHANGED <<blockno, valid, refcnt, owner, lru, buf, pinned>>
    BY <1>5 DEF BreadDisk
  <2> QED
    BY <2>1, RwKeeps
<1>6. ASSUME NEW p \in Procs, InDisk(p) PROVE IInv'
  BY <1>6, SubmitKeeps, AllocFailsKeeps DEF InDisk, cache
<1>7. ASSUME NEW p \in Procs, Return(p) PROVE IInv'
  BY <1>7, ReturnKeeps
<1>8. ASSUME NEW p \in Procs, Bwrite(p) PROVE IInv'
  <2>1. /\ stage[p] = "held" /\ valid[buf[p]]
        /\ Rw(p, [buf |-> buf[p], block |-> blockno[buf[p]],
                  write |-> "writing" = "writing"])
        /\ Goto(p, "writing")
        /\ UNCHANGED <<blockno, valid, refcnt, owner, lru, buf, pinned>>
    BY <1>8 DEF Bwrite, IInv, HeldValid
  <2> QED
    BY <2>1, RwKeeps
<1>9. ASSUME NEW p \in Procs,
             Bpin(p) \/ Bunpin(p) \/ Releasesleep(p) \/ Brelse(p)
      PROVE  IInv'
  BY <1>9, PinKeeps, ReleasesleepKeeps, BrelseKeeps
<1>10. CASE UNCHANGED vars
  BY <1>10, StutterKeeps
<1> QED
  BY <1>1, <1>2, <1>3, <1>4, <1>5, <1>6, <1>7, <1>8, <1>9, <1>10 DEF Next

(* The inductive invariant: who has which buffer, request and descriptors, *)
(* and what is in them, between any two critical sections of bio.c,        *)
(* sleeplock.c and virtio_disk.c.                                          *)
THEOREM BcacheInvariant == Spec => []IInv
BY InitKeeps, NextKeeps, PTL DEF Spec

(* Every variable has its type; refcnt is never more than the processes    *)
(* and the pin of its block make, and the list in bio.c never loses or     *)
(* repeats a buffer.                                                       *)
THEOREM BcacheTypeCorrect == Spec => []TypeOK
<1>1. IInv => TypeOK
  BY DEF IInv
<1> QED
  BY <1>1, BcacheInvariant, PTL

(* Nobody sleeps on a sleep lock that is free, nor for descriptors while   *)
(* three are free, however releasesleep() and free_desc() wake.            *)
THEOREM NoLockWakeupMissed == Spec => []NoMissedWakeup
<1>1. IInv => NoMissedWakeup
  BY DEF IInv
<1> QED
  BY <1>1, BcacheInvariant, PTL

(* bget() does not panic as long as the blocks in use and the pinned ones  *)
(* are fewer than the buffers: if every refcnt is positive, each buffer    *)
(* has a block of its own that is in use or pinned.                        *)
THEOREM BuffersAlwaysSuffice == Spec => []BuffersSuffice
<1>1. ASSUME IInv, Unused = {}
      PROVE  ~ (Cardinality(InUse \cup pinned) < NBUF)
  <2> DEFINE T == InUse \cup pinned
  <2>1. \A b \in Bufs : blockno[b] \in T
    <3> SUFFICES ASSUME NEW b \in Bufs PROVE blockno[b] \in T
      OBVIOUS
    <3>1. refcnt[b] # 0
      BY <1>1 DEF Unused
    <3>2. refcnt[b] = Cardinality(UsersOf(buf, b)) + Pins(b)
      BY <1>1, UsersIs DEF IInv, Counted
    <3>3. Pins(b) = 1 \/ Cardinality(UsersOf(buf, b)) # 0
      BY <3>1, <3>2, UsersAre DEF Pins
    <3>4. CASE Pins(b) = 1
      BY <3>4 DEF Pins
    <3>5. CASE Cardinality(UsersOf(buf, b)) # 0
      <4>1. PICK p \in Procs : buf[p] = b
        BY <3>5, UsersAre DEF UsersOf
      <4>2. stage[p] # "idle"
        BY <1>1, <4>1, NoBufIs DEF IInv, Owners
      <4> QED
        BY <4>1, <4>2 DEF InUse
    <3> QED
      BY <3>3, <3>4, <3>5
  <2>2. \A t \in T : t # NoBlock /\ \E b \in Bufs : blockno[b] = t
    <3>1. \A t \in InUse : t # NoBlock /\ \E b \in Bufs : blockno[b] = t
      <4> SUFFICES ASSUME NEW t \in InUse
                   PROVE  t # NoBlock /\ \E b \in Bufs : blockno[b] = t
        OBVIOUS
      <4>1. PICK p \in Procs : stage[p] # "idle" /\ t = blockno[buf[p]]
        BY DEF InUse
      <4> QED
        BY <1>1, <4>1, UserIs, BcacheAssumption
    <3>2. \A t \in pinned : t # NoBlock /\ \E b \in Bufs : blockno[b] = t
      BY <1>1, Typed, BcacheAssumption DEF IInv, PinnedCached, CacheTyped
    <3> QED
      BY <3>1, <3>2
  <2> HIDE DEF T
  <2> DEFINE f == [b \in Bufs |-> blockno[b]]
  <2>3. f \in [Bufs -> T]
    BY <2>1
  <2>4. f \in Surjection(Bufs, T)
    BY <2>2, <2>3 DEF Surjection
  <2>5. \A b, c \in Bufs : f[b] = f[c] => b = c
    BY <1>1, <2>1, <2>2 DEF IInv, OneCopy
  <2>6. f \in Injection(Bufs, T)
    BY <2>3, <2>5 DEF Injection, IsInjective
  <2> HIDE DEF f
  <2>7. Cardinality(T) = Cardinality(Bufs)
    BY <2>4, <2>6, ListIs, FS_Surjection
  <2> QED
    BY <2>7, ListIs, DiskAssumption DEF T
<1>2. IInv => BuffersSuffice
  BY <1>1 DEF BuffersSuffice
<1> QED
  BY <1>2, BcacheInvariant, PTL

------------------------------------------------------------------------------
(* The refinement of BlockCache.  The holder of a block is the one process *)
(* that is between bread() and brelse() with its buffer, and its content   *)
(* is that of the buffer if it is valid.                                   *)
HolderSet(s) == {p \in Procs : /\ stage[p] \in {"held", "writing"}
                               /\ blockno[buf[p]] = s}
OneOf(H) == IF H = {} THEN NoProc ELSE CHOOSE p \in H : TRUE
Copy(V, d, k) == IF V = {} THEN k ELSE d[CHOOSE b \in V : TRUE]

LEMMA HolderIs == /\ holderOf = [s \in Blocks |-> OneOf(HolderSet(s))]
                  /\ holderOf' = [s \in Blocks |-> OneOf(HolderSet(s)')]
BY DEF holderOf, OneOf, HolderSet

LEMMA ContentIs ==
    /\ contentOf = [s \in Blocks |-> Copy(ValidCopy(s), data, disk[s])]
    /\ contentOf' = [s \in Blocks |-> Copy(ValidCopy(s)', data', disk'[s])]
BY DEF contentOf, Copy

LEMMA OneOfOne == \A p : OneOf({p}) = p
BY DEF OneOf

LEMMA HoldersAre ==
    ASSUME IInv, NEW p \in Procs, stage[p] \in Owning
    PROVE  HolderSet(blockno[buf[p]]) =
               IF stage[p] \in {"held", "writing"} THEN {p} ELSE {}
<1>1. \A q \in HolderSet(blockno[buf[p]]) : q = p
  BY OwnersDiffer DEF HolderSet, Owning
<1> QED
  BY <1>1 DEF HolderSet

LEMMA CopiesAre ==
    ASSUME IInv, NEW b \in Bufs, blockno[b] # NoBlock
    PROVE  ValidCopy(blockno[b]) = IF valid[b] THEN {b} ELSE {}
BY DEF IInv, OneCopy, ValidCopy, Cached

LEMMA CopiesDiffer ==
    ASSUME NEW b \in Bufs, NEW s, s # blockno[b]
    PROVE  b \notin ValidCopy(s)
BY DEF ValidCopy, Cached

LEMMA HolderKept ==
    ASSUME \A p \in Procs :
               /\ stage'[p] \in {"held", "writing"} <=> stage[p] \in {"held", "writing"}
               /\ stage[p] \in {"held", "writing"} =>
                      blockno'[buf'[p]] = blockno[buf[p]]
    PROVE  holderOf' = holderOf
<1>1. \A s : HolderSet(s)' = HolderSet(s)
  BY DEF HolderSet
<1> QED
  BY <1>1, HolderIs

LEMMA ContentKept ==
    ASSUME UNCHANGED <<blockno, valid, disk>>,
           \A b \in Bufs : valid[b] => data'[b] = data[b]
    PROVE  contentOf' = contentOf
<1>1. \A s : ValidCopy(s)' = ValidCopy(s) /\ ValidCopy(s) \subseteq Bufs
             /\ \A b \in ValidCopy(s) : valid[b]
  BY DEF ValidCopy, Cached
<1>2. ASSUME NEW s
      PROVE  Copy(ValidCopy(s)', data', disk'[s]) = Copy(ValidCopy(s), data, disk[s])
  <2>1. CASE ValidCopy(s) = {}
    BY <1>1, <2>1 DEF Copy
  <2>2. CASE ValidCopy(s) # {}
    <3>1. (CHOOSE b \in ValidCopy(s) : TRUE) \in ValidCopy(s)
      BY <2>2
    <3> QED
      BY <1>1, <2>2, <3>1 DEF Copy
  <2> QED
    BY <2>1, <2>2
<1> QED
  BY <1>2, ContentIs
LEMMA SameCache ==
    ASSUME contentOf' = contentOf, holderOf' = holderOf,
           UNCHANGED <<disk, pinned>>
    PROVE  UNCHANGED Abstract!cachevars
BY DEF Abstract!cachevars

LEMMA HolderMoves ==
    ASSUME NEW s \in Blocks, \A t : t # s => HolderSet(t)' = HolderSet(t)
    PROVE  /\ holderOf[s] = OneOf(HolderSet(s))
           /\ holderOf' = [holderOf EXCEPT ![s] = OneOf(HolderSet(s)')]
BY HolderIs

LEMMA ContentMoves ==
    ASSUME NEW s \in Blocks,
           \A t \in Blocks : t # s => Copy(ValidCopy(t)', data', disk'[t]) =
                                      Copy(ValidCopy(t), data, disk[t])
    PROVE  /\ contentOf[s] = Copy(ValidCopy(s), data, disk[s])
           /\ contentOf' = [contentOf EXCEPT ![s] =
                                Copy(ValidCopy(s)', data', disk'[s])]
BY ContentIs

LEMMA HolderOfMine ==
    ASSUME IInv, NEW p \in Procs, stage[p] \in {"held", "writing"}
    PROVE  /\ buf[p] \in Bufs /\ blockno[buf[p]] \in Blocks
           /\ holderOf[blockno[buf[p]]] = p
<1>1. buf[p] \in Bufs /\ blockno[buf[p]] \in Blocks /\ stage[p] \in Owning
  BY UserIs DEF Owning
<1>2. HolderSet(blockno[buf[p]]) = {p}
  BY <1>1, HoldersAre
<1> QED
  BY <1>1, <1>2, HolderIs, OneOfOne

(* bread() returns, with a buffer that was valid or one that was read.     *)
LEMMA BreadIs ==
    ASSUME IInv, NEW p \in Procs, stage[p] \in {"locked", "reading"},
           stage' = [stage EXCEPT ![p] = "held"],
           UNCHANGED <<disk, blockno, buf, pinned>>,
           contentOf' = contentOf
    PROVE  Abstract!CacheNext
<1>1. buf[p] \in Bufs /\ blockno[buf[p]] \in Blocks /\ stage[p] \in Owning
  BY UserIs DEF Owning
<1>2. PICK s \in Blocks : s = blockno[buf[p]]
  BY <1>1
<1>3. HolderSet(s) = {}
  BY <1>1, <1>2, HoldersAre
<1>4. stage'[p] = "held" /\ \A q \in Procs : q # p => stage'[q] = stage[q]
  BY Typed DEF IInv, CacheTyped
<1>5. HolderSet(s)' = {p}
  <2>1. \A q \in Procs : stage[q] \in {"held", "writing"} => blockno[buf[q]] # s
    BY <1>3 DEF HolderSet
  <2>2. \A q \in Procs : stage'[q] \in {"held", "writing"} /\ blockno'[buf'[q]] = s
                         <=> q = p
    BY <1>2, <1>4, <2>1
  <2> QED
    BY <2>2 DEF HolderSet
<1>6. \A t : t # s => HolderSet(t)' = HolderSet(t)
  <2>1. ASSUME NEW t, t # s, NEW q \in Procs
        PROVE  stage'[q] \in {"held", "writing"} /\ blockno'[buf'[q]] = t
               <=> stage[q] \in {"held", "writing"} /\ blockno[buf[q]] = t
    BY <1>2, <1>4, <2>1
  <2> QED
    BY <2>1 DEF HolderSet
<1>7. holderOf[s] = NoProc /\ holderOf' = [holderOf EXCEPT ![s] = p]
  <2>1. OneOf(HolderSet(s)) = NoProc /\ OneOf(HolderSet(s)') = p
    BY <1>3, <1>5, OneOfOne DEF OneOf
  <2> QED
    BY <1>6, <2>1, HolderMoves
<1>8. Abstract!Bread(p, s)
  BY <1>7 DEF Abstract!Bread
<1> QED
  BY <1>2, <1>8 DEF Abstract!CacheNext

LEMMA ReleaseIs ==
    ASSUME IInv, NEW p \in Procs, Releasesleep(p)
    PROVE  Abstract!CacheNext
<1>1. /\ stage[p] = "held"
      /\ stage' = [q \in Procs |->
                      IF q = p THEN "released"
                      ELSE IF stage[q] = "waiting" /\ buf[q] = buf[p] THEN "lock"
                      ELSE stage[q]]
      /\ UNCHANGED <<data, disk, blockno, valid, buf, pinned>>
  BY DEF Releasesleep, diskvars
<1>2. /\ buf[p] \in Bufs /\ blockno[buf[p]] \in Blocks
      /\ holderOf[blockno[buf[p]]] = p /\ stage[p] \in Owning
  BY <1>1, HolderOfMine DEF Owning
<1>3. PICK s \in Blocks : s = blockno[buf[p]]
  BY <1>2
<1>4. \A q \in Procs : stage'[q] \in {"held", "writing"}
                       <=> q # p /\ stage[q] \in {"held", "writing"}
  BY <1>1
<1>5. HolderSet(s) = {p}
  BY <1>1, <1>2, <1>3, HoldersAre
<1>6. HolderSet(s)' = {}
  <2>1. \A q \in Procs : stage[q] \in {"held", "writing"} /\ blockno[buf[q]] = s => q = p
    BY <1>5 DEF HolderSet
  <2> QED
    BY <1>1, <1>4, <2>1 DEF HolderSet
<1>7. \A t : t # s => HolderSet(t)' = HolderSet(t)
  <2>1. ASSUME NEW t, t # s, NEW q \in Procs
        PROVE  stage'[q] \in {"held", "writing"} /\ blockno'[buf'[q]] = t
               <=> stage[q] \in {"held", "writing"} /\ blockno[buf[q]] = t
    BY <1>1, <1>3, <1>4, <2>1
  <2> QED
    BY <2>1 DEF HolderSet
<1>8. holderOf' = [holderOf EXCEPT ![s] = NoProc]
  <2>1. OneOf(HolderSet(s)') = NoProc
    BY <1>6 DEF OneOf
  <2> QED
    BY <1>7, <2>1, HolderMoves
<1>9. contentOf' = contentOf
  BY <1>1, ContentKept
<1>10. Abstract!Brelse(p, s)
  BY <1>1, <1>2, <1>3, <1>8, <1>9 DEF Abstract!Brelse
<1> QED
  BY <1>3, <1>10 DEF Abstract!CacheNext

LEMMA ModifyIs ==
    ASSUME IInv, NEW p \in Procs, NEW v \in Values, Modify(p, v)
    PROVE  Abstract!CacheNext
<1>1. /\ stage[p] = "held" /\ data' = [data EXCEPT ![buf[p]] = v]
      /\ UNCHANGED <<disk, blockno, valid, buf, stage, pinned>>
  BY DEF Modify
<1>2. /\ buf[p] \in Bufs /\ blockno[buf[p]] \in Blocks
      /\ holderOf[blockno[buf[p]]] = p /\ valid[buf[p]]
  BY <1>1, HolderOfMine DEF IInv, HeldValid
<1>3. PICK s \in Blocks, b \in Bufs : s = blockno[buf[p]] /\ b = buf[p]
  BY <1>2
<1>4. \A t : ValidCopy(t)' = ValidCopy(t)
  BY <1>1 DEF ValidCopy, Cached
<1>5. ValidCopy(s) = {b}
  BY <1>2, <1>3, CopiesAre, BcacheAssumption
<1>6. data \in [Bufs -> Values]
  BY Typed DEF IInv, QueueTyped
<1>7. Copy(ValidCopy(s)', data', disk'[s]) = v
  BY <1>1, <1>3, <1>4, <1>5, <1>6 DEF Copy
<1>8. ASSUME NEW t \in Blocks, t # s
      PROVE  Copy(ValidCopy(t)', data', disk'[t]) = Copy(ValidCopy(t), data, disk[t])
  <2>1. b \notin ValidCopy(t) /\ ValidCopy(t) \subseteq Bufs
    BY <1>3, <1>8, CopiesDiffer DEF ValidCopy, Cached
  <2>2. CASE ValidCopy(t) = {}
    BY <1>1, <1>4, <2>2 DEF Copy
  <2>3. CASE ValidCopy(t) # {}
    <3>1. PICK c : c = CHOOSE d \in ValidCopy(t) : TRUE
      OBVIOUS
    <3>2. c \in ValidCopy(t)
      BY <2>3, <3>1
    <3>3. data'[c] = data[c]
      BY <1>1, <1>3, <1>6, <2>1, <3>2
    <3>4. /\ Copy(ValidCopy(t), data, disk[t]) = data[c]
          /\ Copy(ValidCopy(t)', data', disk'[t]) = data'[c]
      BY <1>4, <2>3, <3>1 DEF Copy
    <3> QED
      BY <3>3, <3>4
  <2> QED
    BY <2>2, <2>3
<1>9. contentOf' = [contentOf EXCEPT ![s] = v]
  <2>1. contentOf' = [contentOf EXCEPT ![s] = Copy(ValidCopy(s)', data', disk'[s])]
    BY <1>8, ContentMoves
  <2> QED
    BY <1>7, <2>1
<1>10. holderOf' = holderOf
  BY <1>1, HolderKept
<1>11. Abstract!Modify(p, s, v)
  BY <1>1, <1>2, <1>3, <1>9, <1>10 DEF Abstract!Modify
<1> QED
  BY <1>3, <1>11 DEF Abstract!CacheNext

(* The device answers a write: the disk has what the holder gave it.       *)
LEMMA AnswerImplements ==
    ASSUME IInv, NEW i \in Descriptors, Answer(i), UNCHANGED cache
    PROVE  Abstract!CacheNext \/ UNCHANGED Abstract!cachevars
<1>1. PICK q \in Asleep :
         /\ stage[q] = "writing" =>
                /\ disk' = [disk EXCEPT ![blockno[buf[q]]] = data[buf[q]]]
                /\ data' = data
         /\ stage[q] = "reading" =>
                /\ data' = [data EXCEPT ![buf[q]] = disk[blockno[buf[q]]]]
                /\ disk' = disk
  BY AnswerIs
<1>2. /\ q \in Procs /\ stage[q] \in {"reading", "writing"}
      /\ buf[q] \in Bufs /\ blockno[buf[q]] \in Blocks
  BY CallerIs DEF Asleep
<1>3. UNCHANGED <<blockno, valid, buf, stage, pinned>>
  BY DEF cache
<1>4. data \in [Bufs -> Values] /\ disk \in [Blocks -> Values]
  BY Typed DEF IInv, QueueTyped
<1>5. holderOf' = holderOf
  BY <1>3, HolderKept
<1>6. CASE stage[q] = "reading"
  <2>1. \A b \in Bufs : valid[b] => data'[b] = data[b]
    BY <1>1, <1>2, <1>4, <1>6 DEF IInv, HeldValid
  <2> QED
    BY <1>1, <1>3, <1>5, <1>6, <2>1, ContentKept, SameCache
<1>7. CASE stage[q] = "writing"
  <2>1. PICK s \in Blocks, b \in Bufs : s = blockno[buf[q]] /\ b = buf[q]
    BY <1>2
  <2>2. holderOf[s] = q /\ valid[b]
    BY <1>2, <1>7, <2>1, HolderOfMine DEF IInv, HeldValid
  <2>3. ValidCopy(s) = {b} /\ \A t : ValidCopy(t)' = ValidCopy(t)
    <3>1. ValidCopy(s) = {b}
      BY <2>1, <2>2, CopiesAre, BcacheAssumption
    <3> QED
      BY <1>3, <3>1 DEF ValidCopy, Cached
  <2>4. disk' = [disk EXCEPT ![s] = data[b]] /\ data' = data
    BY <1>1, <1>7, <2>1
  <2>5. \A t \in Blocks : t # s => disk'[t] = disk[t]
    BY <1>4, <2>4
  <2>6. Copy(ValidCopy(s), data, disk[s]) = data[b]
        /\ Copy(ValidCopy(s)', data', disk'[s]) = data[b]
    BY <2>3, <2>4 DEF Copy
  <2>7. \A t \in Blocks : t # s => Copy(ValidCopy(t)', data', disk'[t]) =
                                   Copy(ValidCopy(t), data, disk[t])
    BY <2>3, <2>4, <2>5
  <2>8. contentOf[s] = data[b] /\ contentOf' = contentOf
    <3>1. \A t \in Blocks : Copy(ValidCopy(t)', data', disk'[t]) =
                            Copy(ValidCopy(t), data, disk[t])
      BY <2>6, <2>7
    <3> QED
      BY <2>6, <3>1, ContentIs
  <2>9. Abstract!Bwrite(q, s)
    BY <1>3, <1>5, <2>2, <2>4, <2>8 DEF Abstract!Bwrite
  <2> QED
    BY <1>2, <2>9 DEF Abstract!CacheNext
<1> QED
  BY <1>2, <1>6, <1>7
(* bget() gives a buffer to another block: the block it had is recycled.   *)
LEMMA BgetMissImplements ==
    ASSUME IInv, NEW p \in Procs, NEW s \in Blocks, BgetMiss(p, s)
    PROVE  Abstract!CacheNext \/ UNCHANGED Abstract!cachevars
<1>1. PICK b \in Bufs :
         /\ UsersOf(buf, b) = {} /\ blockno[b] \notin pinned
         /\ refcnt[b] = 0
         /\ buf' = [buf EXCEPT ![p] = b]
         /\ blockno' = [blockno EXCEPT ![b] = s]
         /\ valid' = [valid EXCEPT ![b] = FALSE]
         /\ refcnt' = [refcnt EXCEPT ![b] = 1]
  BY BgetMissIs
<1>2. /\ stage[p] = "idle" /\ stage' = [stage EXCEPT ![p] = "lock"]
      /\ \A c \in Bufs : blockno[c] # s
      /\ UNCHANGED <<data, disk, pinned>>
  BY DEF BgetMiss, Goto, diskvars, Cached
<1>3. CacheTyped
  BY Typed DEF IInv
<1>4. PICK o : o = blockno[b]
  OBVIOUS
<1>5. /\ blockno'[b] = s /\ ~ valid'[b]
      /\ \A c \in Bufs : c # b => blockno'[c] = blockno[c] /\ valid'[c] = valid[c]
  BY <1>1, <1>3 DEF CacheTyped
<1>6. holderOf' = holderOf
  <2>1. \A q \in Procs : q # p => stage'[q] = stage[q] /\ buf'[q] = buf[q]
    BY <1>1, <1>2, <1>3 DEF CacheTyped
  <2>2. stage'[p] = "lock"
    BY <1>2, <1>3 DEF CacheTyped
  <2>3. \A q \in Procs : stage[q] # "idle" => buf[q] \in Bufs /\ buf[q] # b
    BY <1>1, UserIs DEF UsersOf
  <2>4. \A q \in Procs : stage[q] \in {"held", "writing"} =>
            q # p /\ blockno'[buf'[q]] = blockno[buf[q]]
    BY <1>2, <1>5, <2>1, <2>3
  <2> QED
    BY <1>2, <2>1, <2>2, <2>4, HolderKept
<1>7. \A t : t # o => ValidCopy(t)' = ValidCopy(t)
  <2>1. ASSUME NEW t, t # o, NEW c \in Bufs
        PROVE  blockno'[c] = t /\ valid'[c] <=> blockno[c] = t /\ valid[c]
    <3>1. CASE c = b
      BY <1>4, <1>5, <2>1, <3>1
    <3>2. CASE c # b
      BY <1>5, <3>2
    <3> QED
      BY <3>1, <3>2
  <2> QED
    BY <2>1 DEF ValidCopy, Cached
<1>8. CASE o \in Blocks
  <2>1. ValidCopy(o)' = {}
    <3>1. o # NoBlock
      BY <1>8, BcacheAssumption
    <3>2. \A c \in Bufs : c # b => blockno[c] # o
      BY <1>4, <3>1 DEF IInv, OneCopy
    <3>3. \A c \in Bufs : ~ (blockno'[c] = o /\ valid'[c])
      BY <1>5, <3>2
    <3> QED
      BY <3>3 DEF ValidCopy, Cached
  <2>2. contentOf' = [contentOf EXCEPT ![o] = disk[o]]
    <3>1. Copy(ValidCopy(o)', data', disk'[o]) = disk[o]
      BY <1>2, <2>1 DEF Copy
    <3>2. \A t \in Blocks : t # o => Copy(ValidCopy(t)', data', disk'[t]) =
                                     Copy(ValidCopy(t), data, disk[t])
      BY <1>2, <1>7
    <3> QED
      BY <1>8, <3>1, <3>2, ContentMoves
  <2>3. holderOf[o] = NoProc
    <3>1. \A q \in Procs : stage[q] \in {"held", "writing"} => blockno[buf[q]] # o
      <4>1. ASSUME NEW q \in Procs, stage[q] \in {"held", "writing"}
            PROVE  blockno[buf[q]] # o
        <5>1. buf[q] \in Bufs /\ buf[q] # b /\ blockno[buf[q]] # NoBlock
          BY <1>1, <4>1, UserIs, BcacheAssumption DEF UsersOf
        <5> QED
          BY <1>4, <5>1 DEF IInv, OneCopy
      <4> QED
        BY <4>1
    <3>2. HolderSet(o) = {}
      BY <3>1 DEF HolderSet
    <3> QED
      BY <1>8, <3>2, HolderIs DEF OneOf
  <2>4. Abstract!Recycle(o)
    BY <1>1, <1>2, <1>4, <1>6, <2>2, <2>3 DEF Abstract!Recycle
  <2> QED
    BY <1>8, <2>4 DEF Abstract!CacheNext
<1>9. CASE o \notin Blocks
  <2>1. \A t \in Blocks : ValidCopy(t)' = ValidCopy(t)
    BY <1>7, <1>9
  <2>2. contentOf' = contentOf
    BY <1>2, <2>1, ContentIs
  <2> QED
    BY <1>2, <1>6, <2>2, SameCache
<1> QED
  BY <1>8, <1>9

LEMMA ReturnImplements ==
    ASSUME IInv, NEW p \in Procs, Return(p)
    PROVE  Abstract!CacheNext \/ UNCHANGED Abstract!cachevars
<1>1. /\ valid' = [valid EXCEPT ![buf[p]] = TRUE]
      /\ stage' = [stage EXCEPT ![p] = "held"]
      /\ UNCHANGED <<data, disk, blockno, buf, pinned>>
      /\ p \in Posted /\ at[p] = "woken"
  BY DEF Return, Goto, Finish, Posted
<1>2. /\ stage[p] \in {"reading", "writing"}
      /\ buf[p] \in Bufs /\ blockno[buf[p]] \in Blocks
  BY <1>1, CallerIs
<1>3. CacheTyped
  BY Typed DEF IInv
<1>4. /\ valid'[buf[p]] /\ \A c \in Bufs : c # buf[p] => valid'[c] = valid[c]
      /\ stage'[p] = "held" /\ \A q \in Procs : q # p => stage'[q] = stage[q]
  BY <1>1, <1>2, <1>3 DEF CacheTyped
<1>5. CASE stage[p] = "writing"
  <2>1. valid' = valid
    BY <1>1, <1>2, <1>3, <1>5 DEF IInv, HeldValid, CacheTyped
  <2>2. contentOf' = contentOf
    BY <1>1, <2>1, ContentKept
  <2>3. holderOf' = holderOf
    BY <1>1, <1>4, <1>5, HolderKept
  <2> QED
    BY <1>1, <2>2, <2>3, SameCache
<1>6. CASE stage[p] = "reading"
  <2>1. PICK s \in Blocks, b \in Bufs : s = blockno[buf[p]] /\ b = buf[p]
    BY <1>2
  <2>2. data[b] = disk[s]
    <3>1. Min(chain[p]) \notin avail
      BY <1>1 DEF IInv, Requests, Asleep
    <3> QED
      BY <1>1, <1>6, <2>1, <3>1 DEF IInv, ReadDone
  <2>3. ValidCopy(s) = {} /\ ValidCopy(s)' = {b}
    <3>1. ~ valid[b]
      BY <1>6, <2>1 DEF IInv, HeldValid
    <3>2. \A c \in Bufs : blockno[c] = s <=> c = b
      BY <2>1, BcacheAssumption DEF IInv, OneCopy
    <3>3. \A c \in Bufs : /\ ~ (blockno[c] = s /\ valid[c])
                          /\ blockno'[c] = s /\ valid'[c] <=> c = b
      BY <1>1, <1>4, <2>1, <3>1, <3>2
    <3> QED
      BY <3>3 DEF ValidCopy, Cached
  <2>4. \A t : t # s => ValidCopy(t)' = ValidCopy(t)
    <3>1. ASSUME NEW t, t # s, NEW c \in Bufs
          PROVE  blockno'[c] = t /\ valid'[c] <=> blockno[c] = t /\ valid[c]
      <4>1. CASE c = b
        BY <1>1, <2>1, <3>1, <4>1
      <4>2. CASE c # b
        BY <1>1, <1>4, <2>1, <4>2
      <4> QED
        BY <4>1, <4>2
    <3> QED
      BY <3>1 DEF ValidCopy, Cached
  <2>5. contentOf' = contentOf
    <3>1. ASSUME NEW t \in Blocks
          PROVE  Copy(ValidCopy(t)', data', disk'[t]) = Copy(ValidCopy(t), data, disk[t])
      <4>1. CASE t = s
        BY <1>1, <2>2, <2>3, <4>1 DEF Copy
      <4>2. CASE t # s
        BY <1>1, <2>4, <4>2
      <4> QED
        BY <4>1, <4>2
    <3> QED
      BY <3>1, ContentIs
  <2> QED
    BY <1>1, <1>6, <2>5, BreadIs
<1> QED
  BY <1>2, <1>5, <1>6

LEMMA PinImplements ==
    ASSUME IInv, NEW p \in Procs, Bpin(p) \/ Bunpin(p)
    PROVE  Abstract!CacheNext
<1>1. /\ stage[p] = "held"
      /\ \/ pinned' = pinned \cup {blockno[buf[p]]}
         \/ pinned' = pinned \ {blockno[buf[p]]}
      /\ UNCHANGED <<data, disk, blockno, valid, buf, stage>>
  BY DEF Bpin, Bunpin, diskvars
<1>2. blockno[buf[p]] \in Blocks /\ holderOf[blockno[buf[p]]] = p
  BY <1>1, HolderOfMine
<1>3. PICK s \in Blocks : s = blockno[buf[p]]
  BY <1>2
<1>4. contentOf' = contentOf
  BY <1>1, ContentKept
<1>5. holderOf' = holderOf
  BY <1>1, HolderKept
<1>6. Abstract!Bpin(p, s) \/ Abstract!Bunpin(p, s)
  BY <1>1, <1>2, <1>3, <1>4, <1>5 DEF Abstract!Bpin, Abstract!Bunpin
<1> QED
  BY <1>3, <1>6 DEF Abstract!CacheNext

(* The steps no user of the cache sees.                                    *)
LEMMA HiddenSteps ==
    ASSUME IInv, NEW p \in Procs,
           \/ \E s \in Blocks : BgetHit(p, s)
           \/ Acquiresleep(p) \/ BreadDisk(p) \/ InDisk(p) \/ Bwrite(p) \/ Brelse(p)
    PROVE  UNCHANGED Abstract!cachevars
<1>1. UNCHANGED <<data, disk, blockno, valid, pinned>>
  BY DEF BgetHit, Acquiresleep, BreadDisk, InDisk, Bwrite, Brelse, Rw, Submit,
         AllocFails, diskvars
<1>2. CacheTyped
  BY Typed DEF IInv
<1>3. /\ \A q \in Procs : q # p => stage'[q] = stage[q] /\ buf'[q] = buf[q]
      /\ stage'[p] \in {"held", "writing"} <=> stage[p] \in {"held", "writing"}
      /\ stage[p] \in {"held", "writing"} => buf'[p] = buf[p]
  <2>1. CASE \E s \in Blocks : BgetHit(p, s)
    BY <1>2, <2>1 DEF BgetHit, Got, Goto, CacheTyped
  <2>2. CASE Acquiresleep(p) \/ BreadDisk(p) \/ Bwrite(p)
    BY <1>2, <2>2 DEF Acquiresleep, BreadDisk, Bwrite, Goto, CacheTyped
  <2>3. CASE InDisk(p)
    BY <2>3 DEF InDisk
  <2>4. CASE Brelse(p)
    BY <1>2, <2>4 DEF Brelse, Got, Goto, CacheTyped
  <2> QED
    BY <2>1, <2>2, <2>3, <2>4
<1>4. contentOf' = contentOf
  BY <1>1, ContentKept
<1>5. holderOf' = holderOf
  BY <1>1, <1>3, HolderKept
<1> QED
  BY <1>1, <1>4, <1>5, SameCache

LEMMA StepImplements ==
    IInv /\ [Next]_vars => [Abstract!CacheNext]_(Abstract!cachevars)
<1> SUFFICES ASSUME IInv, [Next]_vars
             PROVE  Abstract!CacheNext \/ UNCHANGED Abstract!cachevars
  OBVIOUS
<1>1. CASE DiskStep
  <2>1. UNCHANGED cache
    BY <1>1 DEF DiskStep, cache
  <2>2. CASE Intr \/ Completion \/ IntrReturn
    <3>1. UNCHANGED <<data, disk, blockno, valid, buf, stage, pinned>>
      BY <2>1, <2>2 DEF Intr, Completion, IntrReturn, cache
    <3> QED
      BY <3>1, ContentKept, HolderKept, SameCache
  <2>3. CASE \E i \in Descriptors : Answer(i)
    BY <2>1, <2>3, AnswerImplements
  <2> QED
    BY <1>1, <2>2, <2>3 DEF DiskStep, Device
<1>2. ASSUME NEW p \in Procs, NEW s \in Blocks, BgetMiss(p, s)
      PROVE  Abstract!CacheNext \/ UNCHANGED Abstract!cachevars
  BY <1>2, BgetMissImplements
<1>3. ASSUME NEW p \in Procs, NEW v \in Values, Modify(p, v)
      PROVE  Abstract!CacheNext
  BY <1>3, ModifyIs
<1>4. ASSUME NEW p \in Procs, BreadValid(p) PROVE Abstract!CacheNext
  <2>1. /\ stage[p] = "locked" /\ stage' = [stage EXCEPT ![p] = "held"]
        /\ UNCHANGED <<data, disk, blockno, valid, buf, pinned>>
    BY <1>4 DEF BreadValid, Goto, diskvars
  <2> QED
    BY <2>1, ContentKept, BreadIs
<1>5. ASSUME NEW p \in Procs, Return(p)
      PROVE  Abstract!CacheNext \/ UNCHANGED Abstract!cachevars
  BY <1>5, ReturnImplements
<1>6. ASSUME NEW p \in Procs, Bpin(p) \/ Bunpin(p) \/ Releasesleep(p)
      PROVE  Abstract!CacheNext
  BY <1>6, PinImplements, ReleaseIs
<1>7. ASSUME NEW p \in Procs,
             \/ \E s \in Blocks : BgetHit(p, s)
             \/ Acquiresleep(p) \/ BreadDisk(p) \/ InDisk(p) \/ Bwrite(p) \/ Brelse(p)
      PROVE  UNCHANGED Abstract!cachevars
  BY <1>7, HiddenSteps
<1>8. CASE UNCHANGED vars
  <2>1. UNCHANGED <<data, disk, blockno, valid, buf, stage, pinned>>
    BY <1>8 DEF vars, diskvars
  <2> QED
    BY <2>1, ContentKept, HolderKept, SameCache
<1> QED
  BY <1>1, <1>2, <1>3, <1>4, <1>5, <1>6, <1>7, <1>8 DEF Next

LEMMA InitImplements == Init => Abstract!CacheInit
<1> SUFFICES ASSUME Init PROVE Abstract!CacheInit
  OBVIOUS
<1>1. /\ disk \in [Blocks -> Values] /\ pinned = {}
      /\ \A b \in Bufs : blockno[b] = NoBlock
      /\ \A p \in Procs : stage[p] = "idle"
  BY DEF Init, DiskInit
<1>2. contentOf = disk
  <2>1. \A s \in Blocks : ValidCopy(s) = {}
    BY <1>1, BcacheAssumption DEF ValidCopy, Cached
  <2>2. \A s \in Blocks : Copy(ValidCopy(s), data, disk[s]) = disk[s]
    BY <2>1 DEF Copy
  <2> QED
    BY <1>1, <2>2, ContentIs
<1>3. holderOf = [s \in Blocks |-> NoProc]
  <2>1. \A s \in Blocks : HolderSet(s) = {}
    BY <1>1 DEF HolderSet
  <2> QED
    BY <2>1, HolderIs DEF OneOf
<1> QED
  BY <1>1, <1>2, <1>3 DEF Abstract!CacheInit

(* The cache, its sleep locks and the disk driver implement BlockCache:    *)
(* whatever the order in which the device answers, the interrupt handler   *)
(* runs and buffers are recycled, a block has one holder at a time, who    *)
(* finds what the last one left, and the disk gets what he wrote.          *)
THEOREM BcacheImplementsBlockCache == Spec => ImplementsBlockCache
<1>1. Spec => Abstract!CacheInit /\ [][Abstract!CacheNext]_(Abstract!cachevars)
  BY InitImplements, StepImplements, BcacheInvariant, PTL DEF Spec
<1> QED
  BY <1>1 DEF ImplementsBlockCache, Abstract!CacheSpec
==============================================================================
