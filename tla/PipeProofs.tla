------------------------------ MODULE PipeProofs -----------------------------
(***************************************************************************)
(* Proofs about Pipe, for every number of processes, every size of the     *)
(* ring and every word size that the ring's size divides.                  *)
(*                                                                         *)
(* NoMissedWakeup speaks of the moments when nobody has the lock; it is    *)
(* inductive only with what the process that has the lock has seen or      *)
(* still owes (ReadersAsleep, WritersAsleep).  The refinement of Fifo      *)
(* needs the reference counts (Counted) and that the counters, which wrap  *)
(* around, stay within one ring of each other (Bounded).                   *)
(***************************************************************************)
EXTENDS Pipe, SequenceTheorems, FiniteSetTheorems, TLAPS

(* A process inside a call has the end it works on.                        *)
Inside ==
    \A p \in Procs :
        /\ at[p] \in {"read", "rtested", "rasleep"} => "r" \in fds[p]
        /\ at[p] \in {"write", "writing", "wtested", "wasleep"} => "w" \in fds[p]

(* The counts of the files are the numbers of their descriptors.           *)
Counted == \A e \in End : ref[e] = Cardinality(havingOf[e])

(* One process at most is about to close an end, which nobody has any more *)
(* and which is still open.                                                *)
Closing ==
    \A e \in End :
        /\ \A p \in Procs :
               at[p] = ClosePlace[e] => e \in open /\ havingOf[e] = {}
        /\ \A p, q \in Procs :
               at[p] = ClosePlace[e] /\ at[q] = ClosePlace[e] => p = q

OpenEnds == \A p \in Procs : fds[p] \subseteq open

Locking == {"rtested", "writing", "wtested"}

LockHeld == /\ lock # NoProc => at[lock] \in Locking
            /\ \A p \in Procs : at[p] \in Locking => lock = p

Bounded == Held <= PIPESIZE

(* A reader sleeps beside bytes only while their writer has still to wake  *)
(* it, or when a writer was killed.                                        *)
ReadersAsleep ==
    \A p \in Procs :
        /\ at[p] = "rtested" => "w" \in open /\ Empty
        /\ at[p] = "rasleep" =>
               /\ "w" \in open
               /\ \/ Empty \/ killed # {}
                  \/ lock # NoProc /\ at[lock] = "writing"

WritersAsleep ==
    \A p \in Procs : at[p] \in {"wtested", "wasleep"} => "r" \in open /\ Full

IInv == /\ TypeOK /\ Inside /\ Counted /\ Closing /\ OpenEnds /\ LockHeld
        /\ Bounded /\ ReadersAsleep /\ WritersAsleep

------------------------------------------------------------------------------
(* Remainders, for every modulus.                                          *)
LEMMA Division ==
    ASSUME NEW n \in Nat \ {0}, NEW a \in Int
    PROVE  /\ a % n \in 0 .. n - 1 /\ a \div n \in Int
           /\ a = n * (a \div n) + (a % n)
OBVIOUS

LEMMA ModOfSum ==
    ASSUME NEW n \in Nat \ {0}, NEW k \in Int, NEW r \in 0 .. n - 1
    PROVE  (k * n + r) % n = r
OBVIOUS

LEMMA ModSmall ==
    ASSUME NEW n \in Nat \ {0}, NEW a \in Int
    PROVE  /\ a \in 0 .. n - 1 => a % n = a
           /\ a \in n .. 2 * n - 1 => a % n = a - n
           /\ - n <= a /\ a < 0 => a % n = a + n
<1>1. a \in 0 .. n - 1 => a % n = a
  OBVIOUS
<1>2. a \in n .. 2 * n - 1 => a % n = a - n
  OBVIOUS
<1>3. - n <= a /\ a < 0 => a % n = a + n
  OBVIOUS
<1> QED
  BY <1>1, <1>2, <1>3

(* Indices less than the modulus apart are different remainders,           *)
LEMMA ModApart ==
    ASSUME NEW n \in Nat \ {0}, NEW a \in Int, NEW b \in Int,
           a < b, b - a < n
    PROVE  a % n # b % n
<1> SUFFICES ASSUME a % n = b % n PROVE FALSE
  OBVIOUS
<1> DEFINE k == a \div n   m == b \div n
<1>1. k \in Int /\ m \in Int /\ a = n * k + (a % n) /\ b = n * m + (a % n)
      /\ a % n \in Int
  BY Division
<1> HIDE DEF k, m
<1>2. b - a = n * (m - k)
  BY <1>1
<1>3. CASE m - k <= 0
  BY <1>1, <1>2, <1>3
<1>4. CASE m - k >= 1
  BY <1>1, <1>2, <1>4
<1> QED
  BY <1>1, <1>3, <1>4

(* and a multiple of the modulus makes no difference.                      *)
LEMMA ModPlusMultiple ==
    ASSUME NEW n \in Nat \ {0}, NEW w \in Nat, w % n = 0, NEW a \in Int
    PROVE  (a + w) % n = a % n
<1> DEFINE k == a \div n   m == w \div n   r == a % n
<1>1. k \in Int /\ m \in Int /\ r \in 0 .. n - 1 /\ a = n * k + r /\ w = n * m
  BY Division
<1> HIDE DEF k, m, r
<1>2. a + w = (n * k + n * m) + r
  BY <1>1
<1>3. (k + m) * n = n * k + n * m
  BY <1>1
<1>4. ((k + m) * n + r) % n = r
  BY <1>1, ModOfSum
<1>5. (a + w) % n = r
  BY <1>2, <1>3, <1>4
<1> QED
  BY <1>5 DEF r

------------------------------------------------------------------------------
(* The counters of the ring, for every pair of counters i (read) and j     *)
(* (written).                                                              *)
LEMMA HeldIs ==
    ASSUME NEW i \in 0 .. WORD - 1, NEW j \in 0 .. WORD - 1
    PROVE  (j - i) % WORD = IF i <= j THEN j - i ELSE j - i + WORD
<1>1. WORD \in Nat \ {0} /\ j - i \in Int
  BY PipeAssumption
<1> QED
  BY <1>1, ModSmall

LEMMA WrapIs ==
    ASSUME NEW a \in 0 .. 2 * WORD - 1
    PROVE  /\ a % WORD = IF a < WORD THEN a ELSE a - WORD
           /\ a % WORD \in 0 .. WORD - 1
<1>1. WORD \in Nat \ {0} /\ a \in Int
  BY PipeAssumption
<1>2. a % WORD = IF a < WORD THEN a ELSE a - WORD
  BY <1>1, ModSmall
<1> QED
  BY <1>1, <1>2

LEMMA FullIs ==
    ASSUME NEW i \in 0 .. WORD - 1, NEW j \in 0 .. WORD - 1
    PROVE  /\ j = (i + PIPESIZE) % WORD <=> (j - i) % WORD = PIPESIZE
           /\ j = i <=> (j - i) % WORD = 0
<1>1. WORD \in Nat \ {0} /\ PIPESIZE \in Nat \ {0} /\ PIPESIZE < WORD
  BY PipeAssumption
<1>2. (i + PIPESIZE) % WORD = IF i + PIPESIZE < WORD THEN i + PIPESIZE
                              ELSE i + PIPESIZE - WORD
  <2>1. PICK a \in 0 .. 2 * WORD - 1 : a = i + PIPESIZE
    BY <1>1
  <2>2. /\ a % WORD = IF a < WORD THEN a ELSE a - WORD
        /\ a % WORD \in 0 .. WORD - 1
    BY WrapIs
  <2> QED
    BY <1>1, <2>1, <2>2
<1> QED
  BY <1>1, <1>2, HeldIs

LEMMA HeldAfterWrite ==
    ASSUME NEW i \in 0 .. WORD - 1, NEW j \in 0 .. WORD - 1,
           (j - i) % WORD < PIPESIZE
    PROVE  /\ (j + 1) % WORD \in 0 .. WORD - 1
           /\ (((j + 1) % WORD) - i) % WORD = ((j - i) % WORD) + 1
<1>1. WORD \in Nat \ {0} /\ PIPESIZE \in Nat \ {0} /\ PIPESIZE < WORD
  BY PipeAssumption
<1> DEFINE m == (j + 1) % WORD
<1>2. /\ m = IF j + 1 < WORD THEN j + 1 ELSE j + 1 - WORD
      /\ m \in 0 .. WORD - 1
  <2>1. PICK a \in 0 .. 2 * WORD - 1 : a = j + 1
    BY <1>1
  <2>2. /\ a % WORD = IF a < WORD THEN a ELSE a - WORD
        /\ a % WORD \in 0 .. WORD - 1
    BY WrapIs
  <2> QED
    BY <1>1, <2>1, <2>2
<1>3. (j - i) % WORD = IF i <= j THEN j - i ELSE j - i + WORD
  BY HeldIs
<1> HIDE DEF m
<1>4. (m - i) % WORD = IF i <= m THEN m - i ELSE m - i + WORD
  BY <1>2, HeldIs
<1>5. (m - i) % WORD = ((j - i) % WORD) + 1
  BY <1>1, <1>2, <1>3, <1>4
<1> QED
  BY <1>2, <1>5 DEF m

LEMMA HeldAfterRead ==
    ASSUME NEW i \in 0 .. WORD - 1, NEW j \in 0 .. WORD - 1,
           NEW n \in 0 .. ((j - i) % WORD)
    PROVE  /\ (i + n) % WORD \in 0 .. WORD - 1
           /\ (j - ((i + n) % WORD)) % WORD = ((j - i) % WORD) - n
<1>1. WORD \in Nat \ {0}
  BY PipeAssumption
<1>2. (j - i) % WORD = IF i <= j THEN j - i ELSE j - i + WORD
  BY HeldIs
<1>3. n \in Nat /\ n < WORD
  BY <1>1, <1>2
<1> DEFINE m == (i + n) % WORD
<1>4. /\ m = IF i + n < WORD THEN i + n ELSE i + n - WORD
      /\ m \in 0 .. WORD - 1
  <2>1. PICK a \in 0 .. 2 * WORD - 1 : a = i + n
    BY <1>1, <1>3
  <2>2. /\ a % WORD = IF a < WORD THEN a ELSE a - WORD
        /\ a % WORD \in 0 .. WORD - 1
    BY WrapIs
  <2> QED
    BY <1>1, <2>1, <2>2
<1> HIDE DEF m
<1>5. (j - m) % WORD = IF m <= j THEN j - m ELSE j - m + WORD
  BY <1>4, HeldIs
<1>6. (j - m) % WORD = ((j - i) % WORD) - n
  BY <1>1, <1>2, <1>3, <1>4, <1>5
<1> QED
  BY <1>4, <1>6 DEF m

(* A counter that wraps around points to the same place of the ring.       *)
LEMMA SamePlace ==
    ASSUME NEW i \in 0 .. WORD - 1, NEW n \in 0 .. WORD - 1, NEW k \in Int
    PROVE  (((i + n) % WORD) + k) % PIPESIZE = (i + n + k) % PIPESIZE
<1>1. WORD \in Nat \ {0} /\ PIPESIZE \in Nat \ {0} /\ WORD % PIPESIZE = 0
  BY PipeAssumption
<1>2. (i + n) % WORD = IF i + n < WORD THEN i + n ELSE i + n - WORD
  <2>1. PICK a \in 0 .. 2 * WORD - 1 : a = i + n
    BY <1>1
  <2>2. /\ a % WORD = IF a < WORD THEN a ELSE a - WORD
        /\ a % WORD \in 0 .. WORD - 1
    BY WrapIs
  <2> QED
    BY <1>1, <2>1, <2>2
<1>3. CASE i + n < WORD
  BY <1>2, <1>3
<1>4. CASE ~(i + n < WORD)
  <2> DEFINE a == i + n - WORD + k
  <2>1. a \in Int /\ a + WORD = i + n + k
    BY <1>1
  <2>2. (a + WORD) % PIPESIZE = a % PIPESIZE
    BY <1>1, <2>1, ModPlusMultiple
  <2> QED
    BY <1>2, <1>4, <2>1, <2>2
<1> QED
  BY <1>3, <1>4

(* The bytes in a ring d between the counters i and i + h.                 *)
Ring(d, i, h) == [k \in 1 .. h |-> d[(i + k - 1) % PIPESIZE]]

LEMMA RingIsSeq ==
    ASSUME NEW d \in [0 .. PIPESIZE - 1 -> Bytes], NEW i \in Nat, NEW h \in Nat
    PROVE  /\ Ring(d, i, h) \in Seq(Bytes) /\ Len(Ring(d, i, h)) = h
           /\ \A k \in 1 .. h : Ring(d, i, h)[k] = d[(i + k - 1) % PIPESIZE]
<1>1. PIPESIZE \in Nat \ {0}
  BY PipeAssumption
<1>2. ASSUME NEW k \in 1 .. h PROVE d[(i + k - 1) % PIPESIZE] \in Bytes
  <2>1. (i + k - 1) % PIPESIZE \in 0 .. PIPESIZE - 1
    BY <1>1
  <2> QED
    BY <2>1
<1>3. Ring(d, i, h) \in [1 .. h -> Bytes]
  BY <1>2 DEF Ring
<1>4. Ring(d, i, h) \in Seq(Bytes) /\ DOMAIN Ring(d, i, h) = 1 .. h
  BY <1>3, SeqDef
<1>5. Len(Ring(d, i, h)) = h
  <2> DEFINE q == Ring(d, i, h)
  <2>1. Len(q) \in Nat /\ 1 .. Len(q) = 1 .. h
    BY <1>4, LenProperties
  <2> QED
    BY <2>1
<1>6. \A k \in 1 .. h : Ring(d, i, h)[k] = d[(i + k - 1) % PIPESIZE]
  BY DEF Ring
<1> QED
  BY <1>4, <1>5, <1>6

(* A byte at the written counter comes after all that are there,           *)
LEMMA RingPut ==
    ASSUME NEW d \in [0 .. PIPESIZE - 1 -> Bytes], NEW b \in Bytes,
           NEW i \in 0 .. WORD - 1, NEW j \in 0 .. WORD - 1,
           NEW h \in Nat, h = (j - i) % WORD, h < PIPESIZE
    PROVE  Ring([d EXCEPT ![j % PIPESIZE] = b], i, h + 1)
               = Append(Ring(d, i, h), b)
<1> DEFINE e == [d EXCEPT ![j % PIPESIZE] = b]
<1>1. WORD \in Nat \ {0} /\ PIPESIZE \in Nat \ {0} /\ PIPESIZE < WORD
      /\ WORD % PIPESIZE = 0 /\ i \in Nat
  BY PipeAssumption
<1>2. j % PIPESIZE = (i + h) % PIPESIZE
  <2>1. (j - i) % WORD = IF i <= j THEN j - i ELSE j - i + WORD
    BY HeldIs
  <2>2. j \in Int /\ i \in Int /\ WORD \in Int
    BY <1>1
  <2>3. j = i + h \/ j + WORD = i + h
    BY <2>1, <2>2
  <2>4. (j + WORD) % PIPESIZE = j % PIPESIZE
    BY <1>1, <2>2, ModPlusMultiple
  <2> QED
    BY <2>3, <2>4
<1>3. j % PIPESIZE \in 0 .. PIPESIZE - 1
  BY <1>1
<1>4. e \in [0 .. PIPESIZE - 1 -> Bytes] /\ e[j % PIPESIZE] = b
  BY <1>3
<1>5. ASSUME NEW k \in 1 .. h PROVE e[(i + k - 1) % PIPESIZE] = d[(i + k - 1) % PIPESIZE]
  <2> DEFINE a == i + k - 1   c == i + h
  <2>1. a \in Int /\ c \in Int /\ a < c /\ c - a < PIPESIZE
    BY <1>1
  <2> HIDE DEF a, c
  <2>2. a % PIPESIZE # c % PIPESIZE
    BY <1>1, <2>1, ModApart
  <2>3. a % PIPESIZE # j % PIPESIZE
    BY <1>2, <2>2 DEF c
  <2>4. a % PIPESIZE \in 0 .. PIPESIZE - 1
    BY <1>1, <2>1
  <2>5. e[a % PIPESIZE] = d[a % PIPESIZE]
    BY <2>3, <2>4
  <2> QED
    BY <2>5 DEF a
<1> HIDE DEF e
<1> DEFINE old == Ring(d, i, h)   new == Ring(e, i, h + 1)
<1>6. /\ old \in Seq(Bytes) /\ Len(old) = h
      /\ \A k \in 1 .. h : old[k] = d[(i + k - 1) % PIPESIZE]
  <2>1. i \in Nat
    BY <1>1
  <2> QED
    BY <2>1, RingIsSeq
<1>7. /\ new \in Seq(Bytes) /\ Len(new) = h + 1
      /\ \A k \in 1 .. h + 1 : new[k] = e[(i + k - 1) % PIPESIZE]
  <2>1. h + 1 \in Nat /\ i \in Nat
    BY <1>1
  <2>2. e \in [0 .. PIPESIZE - 1 -> Bytes]
    BY <1>4
  <2> QED
    BY <2>1, <2>2, RingIsSeq
<1>8. new[h + 1] = b
  <2>1. i + (h + 1) - 1 = i + h /\ h + 1 \in 1 .. h + 1
    BY <1>1
  <2> QED
    BY <1>2, <1>4, <1>7, <2>1
<1> HIDE DEF old, new
<1>9. /\ Append(old, b) \in Seq(Bytes) /\ Len(Append(old, b)) = h + 1
      /\ \A k \in 1 .. h : Append(old, b)[k] = old[k]
      /\ Append(old, b)[h + 1] = b
  BY <1>6, AppendProperties
<1>10. ASSUME NEW k \in 1 .. h + 1 PROVE new[k] = Append(old, b)[k]
  <2>1. CASE k \in 1 .. h
    <3>1. new[k] = e[(i + k - 1) % PIPESIZE] /\ Append(old, b)[k] = old[k]
      BY <1>7, <1>9, <2>1
    <3>2. old[k] = d[(i + k - 1) % PIPESIZE]
      BY <1>6, <2>1
    <3>3. e[(i + k - 1) % PIPESIZE] = d[(i + k - 1) % PIPESIZE]
      BY <1>5, <2>1
    <3> QED
      BY <3>1, <3>2, <3>3
  <2>2. CASE k = h + 1
    BY <1>8, <1>9, <2>2
  <2>3. k \in 1 .. h \/ k = h + 1
    OBVIOUS
  <2> QED
    BY <2>1, <2>2, <2>3
<1>11. new = Append(old, b)
  BY <1>7, <1>9, <1>10, SeqEqual
<1> QED
  BY <1>11 DEF new, old, e

(* and a reader that moves its counter leaves the rest.                    *)
LEMMA RingTake ==
    ASSUME NEW d \in [0 .. PIPESIZE - 1 -> Bytes], NEW i \in 0 .. WORD - 1,
           NEW h \in Nat, h < WORD, NEW n \in 0 .. h
    PROVE  Ring(d, (i + n) % WORD, h - n) = SubSeq(Ring(d, i, h), n + 1, h)
<1> DEFINE old == Ring(d, i, h)   m == (i + n) % WORD   new == Ring(d, m, h - n)
<1>1. WORD \in Nat \ {0} /\ i \in Nat /\ n \in 0 .. WORD - 1 /\ h - n \in Nat
  BY PipeAssumption
<1>2. m \in Nat
  BY <1>1
<1>3. /\ old \in Seq(Bytes) /\ Len(old) = h
      /\ \A k \in 1 .. h : old[k] = d[(i + k - 1) % PIPESIZE]
  BY <1>1, RingIsSeq
<1> HIDE DEF m
<1>4. /\ new \in Seq(Bytes) /\ Len(new) = h - n
      /\ \A k \in 1 .. h - n : new[k] = d[(m + k - 1) % PIPESIZE]
  BY <1>1, <1>2, RingIsSeq
<1>5. ASSUME NEW k \in 1 .. h - n PROVE new[k] = old[n + k]
  <2>1. (m + (k - 1)) % PIPESIZE = (i + n + (k - 1)) % PIPESIZE
    <3>1. k - 1 \in Int
      OBVIOUS
    <3> QED
      BY <1>1, <3>1, SamePlace DEF m
  <2>2. m + (k - 1) = m + k - 1 /\ i + n + (k - 1) = i + (n + k) - 1
    BY <1>1, <1>2
  <2>3. n + k \in 1 .. h
    BY <1>1
  <2> QED
    BY <1>3, <1>4, <2>1, <2>2, <2>3
<1> HIDE DEF old, new
<1>6. /\ SubSeq(old, n + 1, h) \in Seq(Bytes)
      /\ Len(SubSeq(old, n + 1, h)) = h - n
      /\ \A k \in 1 .. h - n : SubSeq(old, n + 1, h)[k] = old[n + k]
  <2>1. n + 1 \in Int /\ h \in Int /\ n \in Int /\ 0 <= n /\ n <= h
    BY <1>1
  <2>2. \A k \in n + 1 .. h : old[k] \in Bytes
    BY <1>3, <2>1, ElementOfSeq
  <2>3. /\ SubSeq(old, n + 1, h) \in Seq(Bytes)
        /\ Len(SubSeq(old, n + 1, h)) = IF n + 1 <= h THEN h - (n + 1) + 1 ELSE 0
        /\ \A k \in 1 .. h - (n + 1) + 1 :
               SubSeq(old, n + 1, h)[k] = old[(n + 1) + k - 1]
    BY <2>1, <2>2, SubSeqProperties
  <2>4. h - (n + 1) + 1 = h - n /\ \A k \in Int : (n + 1) + k - 1 = n + k
    BY <2>1
  <2>5. Len(SubSeq(old, n + 1, h)) = h - n
    BY <2>1, <2>3
  <2> QED
    BY <2>3, <2>4, <2>5
<1>8. new = SubSeq(old, n + 1, h)
  BY <1>4, <1>5, <1>6, SeqEqual
<1> QED
  BY <1>8 DEF new, old, m

------------------------------------------------------------------------------
LEMMA InitIInv == Init => IInv
<1> SUFFICES ASSUME Init PROVE IInv
  OBVIOUS
<1> USE PipeAssumption
<1>1. data \in [0 .. PIPESIZE - 1 -> Bytes]
  BY DEF Init
<1>2. Cardinality(Procs) \in Nat
  BY FS_CardinalityType
<1>3. TypeOK
  BY <1>1, <1>2 DEF Init, TypeOK, Places
<1>4. \A e \in End : havingOf[e] = {}
  BY DEF Init, havingOf
<1>5. Counted
  BY <1>4, FS_EmptySet DEF Init, Counted
<1>6. Bounded
  <2>1. (nwrite - nread) % WORD = 0
    <3>1. nread \in 0 .. WORD - 1 /\ nwrite \in 0 .. WORD - 1 /\ nread = nwrite
      BY DEF Init
    <3> QED
      BY <3>1, FullIs
  <2> QED
    BY <2>1 DEF Bounded, Held
<1>7. Inside /\ Closing /\ OpenEnds /\ LockHeld
  BY DEF Init, Inside, Closing, ClosePlace, End, OpenEnds, LockHeld, Locking
<1>8. ReadersAsleep /\ WritersAsleep
  BY DEF Init, ReadersAsleep, WritersAsleep
<1> QED
  BY <1>3, <1>5, <1>6, <1>7, <1>8 DEF IInv

(* How a step may move its process and those it wakes.                     *)
LEMMA GotoFacts ==
    ASSUME TypeOK, NEW p \in Procs, NEW place \in Places, Goto(p, place)
    PROVE  /\ at' \in [Procs -> Places] /\ at'[p] = place
           /\ \A q \in Procs \ {p} : at'[q] = at[q]
BY DEF TypeOK, Goto

LEMMA WakeupFacts ==
    ASSUME TypeOK, NEW p \in Procs, NEW place \in Places,
           NEW asleep, NEW awake \in Places, Wakeup(asleep, awake, p, place)
    PROVE  /\ at' \in [Procs -> Places] /\ at'[p] = place
           /\ \A q \in Procs \ {p} :
                  at'[q] = IF at[q] = asleep THEN awake ELSE at[q]
BY DEF TypeOK, Wakeup

LEMMA HavingFacts ==
    \A e \in End : /\ havingOf[e] = {p \in Procs : e \in fds[p]}
                   /\ IsFiniteSet(havingOf[e])
                   /\ Cardinality(havingOf[e]) \in 0 .. Cardinality(Procs)
<1> SUFFICES ASSUME NEW e \in End
             PROVE  /\ havingOf[e] = {p \in Procs : e \in fds[p]}
                    /\ IsFiniteSet(havingOf[e])
                    /\ Cardinality(havingOf[e]) \in 0 .. Cardinality(Procs)
  OBVIOUS
<1>1. havingOf[e] = {p \in Procs : e \in fds[p]} /\ havingOf[e] \subseteq Procs
  BY DEF havingOf
<1>2. IsFiniteSet(havingOf[e]) /\ Cardinality(havingOf[e]) <= Cardinality(Procs)
  BY <1>1, FS_Subset, PipeAssumption
<1>3. Cardinality(havingOf[e]) \in Nat /\ Cardinality(Procs) \in Nat
  BY <1>2, FS_CardinalityType, PipeAssumption
<1> QED
  BY <1>1, <1>2, <1>3

(* A step of a read() or a write() opens, closes and shares nothing.       *)
LEMMA FilesKept ==
    ASSUME IInv, UNCHANGED <<ref, fds, open>>,
           \A q \in Procs : at'[q] \in {"rclose", "wclose"} => at'[q] = at[q]
    PROVE  Counted' /\ Closing' /\ OpenEnds' /\ havingOf' = havingOf
<1>1. havingOf' = havingOf
  BY DEF havingOf
<1>2. Counted' /\ OpenEnds'
  BY <1>1 DEF IInv, Counted, OpenEnds
<1>3. \A e \in End : ClosePlace[e] \in {"rclose", "wclose"}
  BY DEF ClosePlace, End
<1>4. Closing'
  BY <1>1, <1>3 DEF IInv, Closing
<1> QED
  BY <1>1, <1>2, <1>4

(* What was said of the ring's counters, of the state.                     *)
LEMMA CounterFacts ==
    ASSUME TypeOK
    PROVE  /\ Held \in 0 .. WORD - 1
           /\ Full <=> Held = PIPESIZE
           /\ Empty <=> Held = 0
           /\ Full => ~Empty
<1>1. WORD \in Nat \ {0} /\ PIPESIZE \in Nat \ {0}
  BY PipeAssumption
<1>2. nread \in 0 .. WORD - 1 /\ nwrite \in 0 .. WORD - 1
  BY DEF TypeOK
<1>3. Held \in 0 .. WORD - 1
  BY <1>1, <1>2 DEF Held
<1>4. Full <=> Held = PIPESIZE
  BY <1>2, FullIs DEF Held, Full
<1>5. Empty <=> Held = 0
  BY <1>2, FullIs DEF Held, Empty
<1> QED
  BY <1>1, <1>3, <1>4, <1>5

(* While a process has pi->lock nobody else is at a place that needs it.   *)
LEMMA LockFacts ==
    ASSUME IInv
    PROVE  /\ lock = NoProc => \A q \in Procs : at[q] \notin Locking
           /\ lock # NoProc => lock \in Procs
           /\ \A q \in Procs : at[q] \in Locking => lock = q /\ lock # NoProc
BY PipeAssumption DEF IInv, LockHeld, TypeOK

LEMMA PipeallocStep ==
    ASSUME IInv, NEW p \in Procs, Pipealloc(p)
    PROVE  IInv'
<1> USE PipeAssumption
<1>1. /\ open' = End /\ nread' = 0 /\ nwrite' = 0
      /\ ref' = [e \in End |-> 1] /\ fds' = [fds EXCEPT ![p] = End]
      /\ UNCHANGED <<data, lock, at, left, killed>>
      /\ \A q \in Procs : fds[q] = {} /\ at[q] = "out"
  BY DEF Pipealloc
<1>2. /\ fds' \in [Procs -> SUBSET End] /\ fds'[p] = End
      /\ \A q \in Procs \ {p} : fds'[q] = {}
  BY <1>1 DEF IInv, TypeOK
<1>3. \A e \in End : havingOf'[e] = {p}
  BY <1>2 DEF havingOf
<1>4. Cardinality({p}) = 1 /\ 1 \in 0 .. Cardinality(Procs)
  <2>1. Cardinality({p}) = 1 /\ IsFiniteSet({p})
    BY FS_Singleton
  <2>2. Cardinality({p}) <= Cardinality(Procs) /\ Cardinality(Procs) \in Nat
    BY FS_Subset, FS_CardinalityType
  <2> QED
    BY <2>1, <2>2
<1>5. TypeOK'
  BY <1>1, <1>2, <1>4 DEF IInv, TypeOK
<1>6. Counted'
  BY <1>1, <1>3, <1>4 DEF Counted
<1>7. Bounded'
  <2>1. (0 - 0) % WORD = 0
    <3>1. 0 \in 0 .. WORD - 1
      OBVIOUS
    <3> QED
      BY <3>1, FullIs
  <2> QED
    BY <1>1, <2>1 DEF Bounded, Held
<1>8. Inside' /\ Closing' /\ OpenEnds' /\ LockHeld'
  BY <1>1, <1>2 DEF IInv, Inside, Closing, ClosePlace, End, OpenEnds, LockHeld, Locking
<1>9. ReadersAsleep' /\ WritersAsleep'
  BY <1>1 DEF ReadersAsleep, WritersAsleep
<1> QED
  BY <1>5, <1>6, <1>7, <1>8, <1>9 DEF IInv

LEMMA FiledupStep ==
    ASSUME IInv, NEW p \in Procs, NEW q \in Procs, Filedup(p, q)
    PROVE  IInv'
<1> USE PipeAssumption
<1>1. /\ fds' = [fds EXCEPT ![q] = fds[p]] /\ ref' = Dup(p)
      /\ UNCHANGED <<data, nread, nwrite, open, lock, at, left, killed, Held, Full, Empty>>
      /\ at[q] = "out" /\ fds[q] = {} /\ at[p] = "out"
  BY DEF Filedup, pipevars, Held, Full, Empty
<1>2. /\ fds' \in [Procs -> SUBSET End] /\ fds'[q] = fds[p]
      /\ \A r \in Procs \ {q} : fds'[r] = fds[r]
  BY <1>1 DEF IInv, TypeOK
<1>3. ASSUME NEW e \in End
      PROVE  /\ e \in fds[p] => havingOf'[e] = havingOf[e] \cup {q}
             /\ e \notin fds[p] => havingOf'[e] = havingOf[e]
             /\ q \notin havingOf[e]
  BY <1>1, <1>2 DEF havingOf
<1>4. ASSUME NEW e \in End PROVE ref'[e] = Cardinality(havingOf'[e])
  <2>1. ref[e] = Cardinality(havingOf[e]) /\ IsFiniteSet(havingOf[e])
    BY HavingFacts DEF IInv, Counted
  <2>2. Cardinality(havingOf[e] \cup {q}) = Cardinality(havingOf[e]) + 1
    BY <1>3, <2>1, FS_AddElement
  <2>3. ref'[e] = IF e \in fds[p] THEN ref[e] + 1 ELSE ref[e]
    BY <1>1 DEF Dup
  <2> QED
    BY <1>3, <2>1, <2>2, <2>3
<1>5. ref' \in [End -> 0 .. Cardinality(Procs)]
  <2>1. ASSUME NEW e \in End PROVE Cardinality(havingOf'[e]) \in 0 .. Cardinality(Procs)
    <3>1. havingOf'[e] \subseteq Procs
      BY DEF havingOf
    <3>2. IsFiniteSet(havingOf'[e])
          /\ Cardinality(havingOf'[e]) <= Cardinality(Procs)
      BY <3>1, FS_Subset
    <3>3. Cardinality(havingOf'[e]) \in Nat /\ Cardinality(Procs) \in Nat
      BY <3>2, FS_CardinalityType
    <3> QED
      BY <3>2, <3>3
  <2>2. ref' = [e \in End |-> ref'[e]]
    BY <1>1 DEF Dup
  <2> QED
    BY <1>4, <2>1, <2>2
<1>6. TypeOK'
  BY <1>1, <1>2, <1>5 DEF IInv, TypeOK
<1>7. Counted'
  BY <1>4 DEF Counted
<1>8. Inside' /\ OpenEnds' /\ LockHeld' /\ Bounded'
  BY <1>1, <1>2 DEF IInv, Inside, OpenEnds, LockHeld, Bounded
<1>9. Closing'
  <2>1. ASSUME NEW e \in End, NEW r \in Procs, at[r] = ClosePlace[e]
        PROVE  havingOf'[e] = {}
    <3>1. havingOf[e] = {}
      BY <2>1 DEF IInv, Closing
    <3>2. e \notin fds[p]
      BY <3>1 DEF havingOf
    <3> QED
      BY <1>3, <3>1, <3>2
  <2> QED
    BY <1>1, <2>1 DEF IInv, Closing
<1>10. ReadersAsleep' /\ WritersAsleep'
  BY <1>1 DEF IInv, ReadersAsleep, WritersAsleep
<1> QED
  BY <1>6, <1>7, <1>8, <1>9, <1>10 DEF IInv

LEMMA FilecloseStep ==
    ASSUME IInv, NEW p \in Procs, NEW e \in End, Fileclose(p, e)
    PROVE  IInv'
<1> USE PipeAssumption
<1>1. /\ fds' = [fds EXCEPT ![p] = @ \ {e}]
      /\ ref' = [ref EXCEPT ![e] = @ - 1]
      /\ UNCHANGED <<data, nread, nwrite, open, lock, left, killed, Held, Full, Empty>>
      /\ at[p] = "out" /\ e \in fds[p] /\ e \in open
  BY DEF Fileclose, pipevars, Held, Full, Empty, IInv, OpenEnds
<1>2. /\ fds' \in [Procs -> SUBSET End] /\ fds'[p] = fds[p] \ {e}
      /\ \A r \in Procs \ {p} : fds'[r] = fds[r]
  BY <1>1 DEF IInv, TypeOK
<1>3. /\ havingOf'[e] = havingOf[e] \ {p} /\ p \in havingOf[e]
      /\ \A f \in End \ {e} : havingOf'[f] = havingOf[f]
  BY <1>1, <1>2 DEF havingOf
<1>4. /\ ref[e] = Cardinality(havingOf[e]) /\ ref[e] \in 0 .. Cardinality(Procs)
      /\ IsFiniteSet(havingOf[e]) /\ Cardinality(Procs) \in Nat
      /\ Cardinality(havingOf[e] \ {p}) = ref[e] - 1 /\ ref[e] - 1 \in Nat
  <2>1. ref[e] = Cardinality(havingOf[e]) /\ IsFiniteSet(havingOf[e])
    BY HavingFacts DEF IInv, Counted
  <2>2. IsFiniteSet(havingOf[e] \ {p})
        /\ Cardinality(havingOf[e] \ {p}) = Cardinality(havingOf[e]) - 1
    BY <1>3, <2>1, FS_RemoveElement
  <2>3. Cardinality(havingOf[e] \ {p}) \in Nat /\ Cardinality(Procs) \in Nat
    BY <2>2, FS_CardinalityType
  <2> QED
    BY <2>1, <2>2, <2>3, HavingFacts
<1>5. TypeOK' /\ Counted'
  <2>1. at' \in [Procs -> Places]
    <3>1. ClosePlace[e] \in Places
      BY DEF ClosePlace, Places, End
    <3> QED
      BY <3>1, GotoFacts DEF Fileclose, IInv, TypeOK
  <2>2. ref' \in [End -> 0 .. Cardinality(Procs)]
    BY <1>1, <1>4 DEF IInv, TypeOK
  <2>3. Counted'
    BY <1>1, <1>3, <1>4 DEF IInv, Counted, TypeOK
  <2> QED
    BY <1>1, <1>2, <2>1, <2>2, <2>3 DEF IInv, TypeOK
<1>6. /\ \A r \in Procs \ {p} : at'[r] = at[r]
      /\ \/ at'[p] = "out"
         \/ at'[p] = ClosePlace[e] /\ havingOf'[e] = {}
  <2>1. CASE Last(e)
    <3>1. Cardinality(havingOf[e] \ {p}) = 0
      BY <1>4, <2>1 DEF Last
    <3>2. havingOf[e] \ {p} = {}
      BY <1>4, <3>1, FS_EmptySet, FS_Subset
    <3> QED
      BY <1>3, <2>1, <3>2 DEF Fileclose, Goto, IInv, TypeOK
  <2>2. CASE ~Last(e)
    BY <1>1, <2>2 DEF Fileclose
  <2> QED
    BY <2>1, <2>2
<1>7. at'[p] \in {"out", "rclose", "wclose"}
  BY <1>6 DEF ClosePlace, End
<1>8. Inside' /\ OpenEnds' /\ LockHeld' /\ Bounded'
  BY <1>1, <1>2, <1>6, <1>7
  DEF IInv, Inside, OpenEnds, LockHeld, Locking, Bounded, TypeOK
<1>9. Closing'
  <2>1. \A f \in End, r \in Procs \ {p} : at[r] = ClosePlace[f] => f # e
    BY <1>3 DEF IInv, Closing
  <2>2. \A f \in End : at'[p] = ClosePlace[f] => f = e
    BY <1>6 DEF ClosePlace, End
  <2> QED
    BY <1>1, <1>3, <1>6, <2>1, <2>2 DEF IInv, Closing
<1>10. ReadersAsleep' /\ WritersAsleep'
  BY <1>1, <1>6, <1>7, LockFacts DEF IInv, ReadersAsleep, WritersAsleep, LockHeld, Locking
<1> QED
  BY <1>5, <1>8, <1>9, <1>10 DEF IInv

LEMMA PipecloseStep ==
    ASSUME IInv, NEW p \in Procs, NEW e \in End, Pipeclose(p, e)
    PROVE  IInv'
<1>1. /\ open' = open \ {e} /\ lock = NoProc /\ at[p] = ClosePlace[e]
      /\ UNCHANGED <<data, nread, nwrite, lock, ref, fds, left, killed,
                     Held, Full, Empty, havingOf>>
      /\ havingOf[e] = {}
  BY DEF Pipeclose, filevars, Held, Full, Empty, havingOf, IInv, Closing
<1>2. /\ at' \in [Procs -> Places] /\ at'[p] = "out"
      /\ \A q \in Procs \ {p} :
             at'[q] = IF e = "w" THEN IF at[q] = "rasleep" THEN "read" ELSE at[q]
                      ELSE IF at[q] = "wasleep" THEN "write" ELSE at[q]
  <2>1. "out" \in Places /\ "read" \in Places /\ "write" \in Places
    BY DEF Places
  <2> QED
    BY <2>1, WakeupFacts DEF Pipeclose, WakeReaders, WakeWriters, IInv
<1>3. TypeOK' /\ Counted' /\ Bounded'
  BY <1>1, <1>2 DEF IInv, TypeOK, Counted, Bounded
<1>4. OpenEnds'
  BY <1>1 DEF IInv, OpenEnds, havingOf, TypeOK
<1>5. Inside' /\ LockHeld'
  BY <1>1, <1>2 DEF IInv, Inside, LockHeld, Locking, End
<1>6. Closing'
  <2>1. \A f \in End, q \in Procs : at'[q] = ClosePlace[f] => q # p /\ at[q] = ClosePlace[f]
    BY <1>2 DEF ClosePlace, End
  <2>2. \A q \in Procs : at[q] = ClosePlace[e] => q = p
    BY <1>1 DEF IInv, Closing
  <2> QED
    BY <1>1, <2>1, <2>2 DEF IInv, Closing
<1>7. ReadersAsleep' /\ WritersAsleep'
  <2>1. \A q \in Procs : at[q] \notin Locking
    BY <1>1, LockFacts
  <2> QED
    BY <1>1, <1>2, <2>1, PipeAssumption DEF IInv, ReadersAsleep, WritersAsleep, Locking, End
<1> QED
  BY <1>3, <1>4, <1>5, <1>6, <1>7 DEF IInv

LEMMA CallStep ==
    ASSUME IInv, NEW p \in Procs, NEW e \in End, NEW n \in 0 .. MaxBytes, Call(p, e, n)
    PROVE  IInv'
<1> DEFINE place == IF e = "r" THEN "read" ELSE "write"
<1>1. /\ left' = [left EXCEPT ![p] = n] /\ at[p] = "out" /\ e \in fds[p]
      /\ UNCHANGED <<data, nread, nwrite, open, lock, ref, fds, killed,
                     Held, Full, Empty>>
  BY DEF Call, pipevars, filevars, Held, Full, Empty
<1>2. /\ at' \in [Procs -> Places] /\ at'[p] \in {"read", "write"}
      /\ at'[p] = "read" => "r" \in fds[p]
      /\ at'[p] = "write" => "w" \in fds[p]
      /\ \A q \in Procs \ {p} : at'[q] = at[q]
  <2>1. place \in Places
    BY DEF Places
  <2>2. at' \in [Procs -> Places] /\ at'[p] = place
        /\ \A q \in Procs \ {p} : at'[q] = at[q]
    BY <2>1, GotoFacts DEF Call, IInv
  <2> QED
    BY <1>1, <2>2 DEF End
<1>3. TypeOK' /\ Bounded'
  BY <1>1, <1>2 DEF IInv, TypeOK, Bounded
<1>4. Inside' /\ LockHeld'
  BY <1>1, <1>2, LockFacts DEF IInv, Inside, LockHeld, Locking
<1>5. Counted' /\ Closing' /\ OpenEnds'
  BY <1>1, <1>2, FilesKept
<1>6. ReadersAsleep' /\ WritersAsleep'
  BY <1>1, <1>2, LockFacts DEF IInv, ReadersAsleep, WritersAsleep, LockHeld, Locking
<1> QED
  BY <1>3, <1>4, <1>5, <1>6 DEF IInv

LEMMA ReadWaitsStep ==
    ASSUME IInv, NEW p \in Procs, ReadWaits(p)
    PROVE  IInv'
<1>1. /\ UNCHANGED <<data, nread, nwrite, open, ref, fds, killed, Held, Full, Empty>>
      /\ at[p] = "read" /\ lock = NoProc /\ Empty /\ "w" \in open
  BY DEF ReadWaits, filevars, Held, Full, Empty
<1>2. /\ \A q \in Procs \ {p} : at'[q] = at[q]
      /\ at' \in [Procs -> Places] /\ left' \in [Procs -> 0 .. MaxBytes]
      /\ \/ at'[p] = "out" /\ lock' = NoProc /\ p \in killed
         \/ at'[p] = "rtested" /\ lock' = p
  <2>1. 0 \in 0 .. MaxBytes
    BY PipeAssumption
  <2> QED
    BY <1>1, <2>1 DEF ReadWaits, Goto, Done, IInv, TypeOK, Places
<1>3. \A q \in Procs : at[q] \notin Locking
  BY <1>1, LockFacts
<1>4. TypeOK' /\ Bounded'
  BY <1>1, <1>2 DEF IInv, TypeOK, Bounded
<1>5. Inside' /\ LockHeld'
  BY <1>1, <1>2, <1>3, PipeAssumption DEF IInv, Inside, LockHeld, Locking
<1>6. Counted' /\ Closing' /\ OpenEnds'
  BY <1>1, <1>2, FilesKept
<1>7. ReadersAsleep' /\ WritersAsleep'
  BY <1>1, <1>2, <1>3 DEF IInv, ReadersAsleep, WritersAsleep, Locking
<1> QED
  BY <1>4, <1>5, <1>6, <1>7 DEF IInv

LEMMA ReadBytesStep ==
    ASSUME IInv, NEW p \in Procs, ReadBytes(p)
    PROVE  IInv'
<1>1. /\ UNCHANGED <<data, nwrite, open, lock, ref, fds, killed>>
      /\ at[p] = "read" /\ lock = NoProc
  BY DEF ReadBytes, filevars
<1>2. /\ at' \in [Procs -> Places] /\ at'[p] = "out"
      /\ \A q \in Procs \ {p} :
             at'[q] = IF at[q] = "wasleep" THEN "write" ELSE at[q]
  <2>1. "out" \in Places /\ "write" \in Places
    BY DEF Places
  <2> QED
    BY <2>1, WakeupFacts DEF ReadBytes, WakeWriters, IInv
<1>3. left' \in [Procs -> 0 .. MaxBytes]
  BY PipeAssumption DEF ReadBytes, Done, IInv, TypeOK
<1>4. nread' \in 0 .. WORD - 1 /\ Held' <= Held /\ Held \in Nat /\ Held' \in Nat
  <2>1. PICK n \in 0 .. Held : nread' = (nread + n) % WORD
    BY DEF ReadBytes
  <2>2. nread \in 0 .. WORD - 1 /\ nwrite \in 0 .. WORD - 1 /\ Held \in Nat
    BY CounterFacts DEF IInv, TypeOK
  <2>3. nread' \in 0 .. WORD - 1 /\ (nwrite - nread') % WORD = Held - n
    BY <2>1, <2>2, HeldAfterRead DEF Held
  <2> QED
    BY <1>1, <2>2, <2>3 DEF Held
<1>5. \A q \in Procs : at[q] \notin Locking
  BY <1>1, LockFacts
<1>6. TypeOK'
  BY <1>1, <1>2, <1>3, <1>4 DEF IInv, TypeOK
<1>7. Bounded'
  BY <1>4, PipeAssumption DEF IInv, Bounded
<1>8. Inside' /\ LockHeld'
  BY <1>1, <1>2 DEF IInv, Inside, LockHeld, Locking
<1>9. Counted' /\ Closing' /\ OpenEnds'
  BY <1>1, <1>2, FilesKept
<1>10. ReadersAsleep' /\ WritersAsleep'
  <2>1. Empty => Empty'
    <3>1. Empty => Held = 0
      BY CounterFacts DEF IInv
    <3>2. Held' = 0 => Empty'
      <4>1. nread' \in 0 .. WORD - 1 /\ nwrite' \in 0 .. WORD - 1
        BY <1>6 DEF TypeOK
      <4> QED
        BY <4>1, FullIs DEF Held, Empty
    <3> QED
      BY <1>4, <3>1, <3>2
  <2> QED
    BY <1>1, <1>2, <1>5, <2>1 DEF IInv, ReadersAsleep, WritersAsleep, Locking
<1> QED
  BY <1>6, <1>7, <1>8, <1>9, <1>10 DEF IInv

LEMMA SleepStep ==
    ASSUME IInv, NEW p \in Procs, Sleep(p)
    PROVE  IInv'
<1>1. /\ UNCHANGED <<data, nread, nwrite, open, ref, fds, left, killed,
                     Held, Full, Empty>>
      /\ lock' = NoProc
  BY DEF Sleep, filevars, Held, Full, Empty
<1>2. /\ \A q \in Procs \ {p} : at'[q] = at[q]
      /\ at' \in [Procs -> Places]
      /\ \/ at[p] = "rtested" /\ at'[p] = "rasleep"
         \/ at[p] = "wtested" /\ at'[p] = "wasleep"
  BY DEF Sleep, Goto, IInv, TypeOK, Places
<1>3. lock = p /\ \A q \in Procs \ {p} : at[q] \notin Locking
  BY <1>2, LockFacts DEF Locking
<1>4. TypeOK' /\ Bounded'
  BY <1>1, <1>2 DEF IInv, TypeOK, Bounded
<1>5. Inside' /\ LockHeld'
  BY <1>1, <1>2, <1>3, PipeAssumption DEF IInv, Inside, LockHeld, Locking
<1>6. Counted' /\ Closing' /\ OpenEnds'
  BY <1>1, <1>2, FilesKept
<1>7. ReadersAsleep' /\ WritersAsleep'
  BY <1>1, <1>2, <1>3 DEF IInv, ReadersAsleep, WritersAsleep, Locking
<1> QED
  BY <1>4, <1>5, <1>6, <1>7 DEF IInv

LEMMA WriteEnterStep ==
    ASSUME IInv, NEW p \in Procs, WriteEnter(p)
    PROVE  IInv'
<1>1. /\ UNCHANGED <<data, nread, nwrite, open, ref, fds, left, killed,
                     Held, Full, Empty>>
      /\ lock' = p /\ lock = NoProc /\ at[p] = "write"
  BY DEF WriteEnter, filevars, Held, Full, Empty
<1>2. /\ \A q \in Procs \ {p} : at'[q] = at[q]
      /\ at' \in [Procs -> Places] /\ at'[p] = "writing"
  BY DEF WriteEnter, Goto, IInv, TypeOK, Places
<1>3. \A q \in Procs : at[q] \notin Locking
  BY <1>1, LockFacts
<1>4. TypeOK' /\ Bounded'
  BY <1>1, <1>2 DEF IInv, TypeOK, Bounded
<1>5. Inside' /\ LockHeld'
  BY <1>1, <1>2, <1>3 DEF IInv, Inside, LockHeld, Locking
<1>6. Counted' /\ Closing' /\ OpenEnds'
  BY <1>1, <1>2, FilesKept
<1>7. ReadersAsleep' /\ WritersAsleep'
  BY <1>1, <1>2, <1>3 DEF IInv, ReadersAsleep, WritersAsleep, Locking
<1> QED
  BY <1>4, <1>5, <1>6, <1>7 DEF IInv

LEMMA WriteByteStep ==
    ASSUME IInv, NEW p \in Procs, NEW b \in Bytes, WriteByte(p, b)
    PROVE  IInv'
<1>1. /\ UNCHANGED <<nread, open, lock, ref, fds, at, killed>>
      /\ data' = [data EXCEPT ![nwrite % PIPESIZE] = b]
      /\ nwrite' = (nwrite + 1) % WORD
      /\ left' = [left EXCEPT ![p] = @ - 1]
      /\ at[p] = "writing" /\ left[p] > 0 /\ ~Full
  BY DEF WriteByte, Writes, filevars
<1>2. lock = p /\ lock # NoProc /\ \A q \in Procs \ {p} : at[q] \notin Locking
  BY <1>1, LockFacts DEF Locking
<1>3. nwrite' \in 0 .. WORD - 1 /\ Held' = Held + 1 /\ Held < PIPESIZE
  <2>1. nread \in 0 .. WORD - 1 /\ nwrite \in 0 .. WORD - 1
    BY DEF IInv, TypeOK
  <2>2. Held < PIPESIZE
    BY <1>1, CounterFacts, PipeAssumption DEF IInv, Bounded
  <2> QED
    BY <1>1, <2>1, <2>2, HeldAfterWrite DEF Held
<1>4. left' \in [Procs -> 0 .. MaxBytes]
  BY <1>1, PipeAssumption DEF IInv, TypeOK
<1>5. TypeOK'
  BY <1>1, <1>3, <1>4 DEF IInv, TypeOK
<1>6. Bounded'
  BY <1>3, CounterFacts, PipeAssumption DEF Bounded, IInv
<1>7. Inside' /\ LockHeld'
  BY <1>1 DEF IInv, Inside, LockHeld
<1>8. Counted' /\ Closing' /\ OpenEnds'
  BY <1>1, FilesKept
<1>9. ReadersAsleep' /\ WritersAsleep'
  <2>1. \A q \in Procs : at[q] \notin {"wtested", "wasleep", "rtested"}
    BY <1>1, <1>2 DEF IInv, WritersAsleep, Locking
  <2> QED
    BY <1>1, <1>2, <2>1 DEF IInv, ReadersAsleep, WritersAsleep
<1> QED
  BY <1>5, <1>6, <1>7, <1>8, <1>9 DEF IInv

(* Nothing of the ring changes when a writer stops, and no other process   *)
(* has the lock.                                                           *)
LEMMA WriteWaitsStep ==
    ASSUME IInv, NEW p \in Procs, WriteWaits(p)
    PROVE  IInv'
<1>1. /\ UNCHANGED <<data, nread, nwrite, open, lock, ref, fds, left, killed,
                     Held, Full, Empty>>
      /\ at[p] = "writing" /\ "r" \in open /\ Full
  BY DEF WriteWaits, Writes, pipevars, filevars, Held, Full, Empty
<1>2. lock = p /\ lock # NoProc /\ \A q \in Procs \ {p} : at[q] \notin Locking
  BY <1>1, LockFacts DEF Locking
<1>3. /\ at' \in [Procs -> Places] /\ at'[p] = "wtested"
      /\ \A q \in Procs \ {p} : at'[q] = IF at[q] = "rasleep" THEN "read" ELSE at[q]
  <2>1. "wtested" \in Places /\ "read" \in Places
    BY DEF Places
  <2> QED
    BY <2>1, WakeupFacts DEF WriteWaits, WakeReaders, IInv
<1>4. TypeOK' /\ Bounded'
  BY <1>1, <1>3 DEF IInv, TypeOK, Bounded
<1>5. Inside' /\ LockHeld'
  BY <1>1, <1>2, <1>3 DEF IInv, Inside, LockHeld, Locking
<1>6. Counted' /\ Closing' /\ OpenEnds'
  BY <1>1, <1>3, FilesKept
<1>7. ReadersAsleep' /\ WritersAsleep'
  BY <1>1, <1>2, <1>3 DEF IInv, ReadersAsleep, WritersAsleep, Locking
<1> QED
  BY <1>4, <1>5, <1>6, <1>7 DEF IInv

LEMMA WriteReturnsStep ==
    ASSUME IInv, NEW p \in Procs, WriteReturns(p)
    PROVE  IInv'
<1>1. /\ UNCHANGED <<data, nread, nwrite, open, ref, fds, killed,
                     Held, Full, Empty>>
      /\ at[p] = "writing" /\ lock' = NoProc
  BY DEF WriteReturns, filevars, Held, Full, Empty
<1>2. lock = p /\ \A q \in Procs \ {p} : at[q] \notin Locking
  BY <1>1, LockFacts DEF Locking
<1>3. /\ at' \in [Procs -> Places] /\ at'[p] = "out"
      /\ \A q \in Procs \ {p} : at'[q] = IF at[q] = "rasleep" THEN "read" ELSE at[q]
  <2>1. "out" \in Places /\ "read" \in Places
    BY DEF Places
  <2> QED
    BY <2>1, WakeupFacts DEF WriteReturns, WakeReaders, IInv
<1>4. left' \in [Procs -> 0 .. MaxBytes]
  BY PipeAssumption DEF WriteReturns, Done, IInv, TypeOK
<1>5. TypeOK' /\ Bounded'
  BY <1>1, <1>3, <1>4 DEF IInv, TypeOK, Bounded
<1>6. Inside' /\ LockHeld'
  BY <1>1, <1>2, <1>3 DEF IInv, Inside, LockHeld, Locking
<1>7. Counted' /\ Closing' /\ OpenEnds'
  BY <1>1, <1>3, FilesKept
<1>8. ReadersAsleep' /\ WritersAsleep'
  BY <1>1, <1>2, <1>3 DEF IInv, ReadersAsleep, WritersAsleep, Locking
<1> QED
  BY <1>5, <1>6, <1>7, <1>8 DEF IInv

(* pipewrite() gives up without a wakeup(): either the read end is closed, *)
(* and nobody sleeps in piperead(), or a process was killed.               *)
LEMMA WriteFailsStep ==
    ASSUME IInv, NEW p \in Procs, WriteFails(p)
    PROVE  IInv'
<1>1. /\ UNCHANGED <<data, nread, nwrite, open, ref, fds, killed,
                     Held, Full, Empty>>
      /\ at[p] = "writing" /\ lock' = NoProc
      /\ "r" \notin open \/ p \in killed
  BY DEF WriteFails, Writes, filevars, Held, Full, Empty
<1>2. lock = p /\ \A q \in Procs \ {p} : at[q] \notin Locking
  BY <1>1, LockFacts DEF Locking
<1>3. /\ at' \in [Procs -> Places] /\ at'[p] = "out"
      /\ \A q \in Procs \ {p} : at'[q] = at[q]
  BY DEF WriteFails, Goto, Places, IInv, TypeOK
<1>4. left' \in [Procs -> 0 .. MaxBytes]
  BY PipeAssumption DEF WriteFails, Done, IInv, TypeOK
<1>5. TypeOK' /\ Bounded'
  BY <1>1, <1>3, <1>4 DEF IInv, TypeOK, Bounded
<1>6. Inside' /\ LockHeld'
  BY <1>1, <1>2, <1>3 DEF IInv, Inside, LockHeld, Locking
<1>7. Counted' /\ Closing' /\ OpenEnds'
  BY <1>1, <1>3, FilesKept
<1>8. killed # {} \/ \A q \in Procs : at[q] # "rasleep"
  BY <1>1 DEF IInv, Inside, OpenEnds
<1>9. ReadersAsleep' /\ WritersAsleep'
  BY <1>1, <1>2, <1>3, <1>8 DEF IInv, ReadersAsleep, WritersAsleep, Locking
<1> QED
  BY <1>5, <1>6, <1>7, <1>9 DEF IInv

LEMMA KillStep ==
    ASSUME IInv, NEW p \in Procs, Kill(p)
    PROVE  IInv'
<1>1. /\ UNCHANGED <<data, nread, nwrite, open, lock, ref, fds, left,
                     Held, Full, Empty>>
      /\ killed' = killed \cup {p}
  BY DEF Kill, pipevars, filevars, Held, Full, Empty
<1>2. /\ at' \in [Procs -> Places] /\ \A q \in Procs \ {p} : at'[q] = at[q]
      /\ \/ at[p] = "rasleep" /\ at'[p] = "read"
         \/ at[p] = "wasleep" /\ at'[p] = "write"
         \/ at'[p] = at[p]
  <2> DEFINE place == CASE at[p] = "rasleep" -> "read" [] at[p] = "wasleep" -> "write"
                        [] OTHER -> at[p]
  <2>1. /\ at[p] = "rasleep" => place = "read"
        /\ at[p] = "wasleep" => place = "write"
        /\ at[p] \notin {"rasleep", "wasleep"} => place = at[p]
    OBVIOUS
  <2>2. place \in Places
    BY <2>1 DEF IInv, TypeOK, Places
  <2>3. at' \in [Procs -> Places] /\ at'[p] = place
        /\ \A q \in Procs \ {p} : at'[q] = at[q]
    BY <2>2, GotoFacts DEF Kill, IInv
  <2> QED
    BY <2>1, <2>3
<1>3. TypeOK' /\ Bounded'
  BY <1>1, <1>2 DEF IInv, TypeOK, Bounded
<1>4. Inside' /\ LockHeld'
  BY <1>1, <1>2, LockFacts DEF IInv, Inside, LockHeld, Locking
<1>5. Counted' /\ Closing' /\ OpenEnds'
  BY <1>1, <1>2, FilesKept
<1>6. ReadersAsleep' /\ WritersAsleep'
  BY <1>1, <1>2, LockFacts DEF IInv, ReadersAsleep, WritersAsleep, Locking
<1> QED
  BY <1>3, <1>4, <1>5, <1>6 DEF IInv

LEMMA Stutter == IInv /\ UNCHANGED vars => IInv'
<1> SUFFICES ASSUME IInv, UNCHANGED vars PROVE IInv'
  OBVIOUS
<1>1. UNCHANGED <<data, nread, nwrite, open, lock, ref, fds, at, left, killed,
                  Held, Full, Empty>>
  BY DEF vars, pipevars, filevars, Held, Full, Empty
<1>2. Counted' /\ Closing' /\ OpenEnds'
  BY <1>1, FilesKept
<1>3. TypeOK' /\ Inside' /\ LockHeld' /\ Bounded' /\ ReadersAsleep' /\ WritersAsleep'
  BY <1>1 DEF IInv, TypeOK, Inside, LockHeld, Bounded, ReadersAsleep, WritersAsleep
<1> QED
  BY <1>2, <1>3 DEF IInv

LEMMA NextIInv == IInv /\ [Next]_vars => IInv'
<1> SUFFICES ASSUME IInv, [Next]_vars PROVE IInv'
  OBVIOUS
<1>1. ASSUME NEW p \in Procs, Pipealloc(p) \/ Kill(p) PROVE IInv'
  BY <1>1, PipeallocStep, KillStep
<1>2. ASSUME NEW p \in Procs, InCall(p) PROVE IInv'
  BY <1>2, ReadWaitsStep, ReadBytesStep, SleepStep, WriteEnterStep, WriteByteStep,
     WriteWaitsStep, WriteReturnsStep, WriteFailsStep, PipecloseStep DEF InCall
<1>3. ASSUME NEW p \in Procs, NEW q \in Procs, Filedup(p, q) PROVE IInv'
  BY <1>3, FiledupStep
<1>4. ASSUME NEW p \in Procs, NEW e \in End, Fileclose(p, e) PROVE IInv'
  BY <1>4, FilecloseStep
<1>5. ASSUME NEW p \in Procs, NEW e \in End, NEW n \in 0 .. MaxBytes, Call(p, e, n)
      PROVE  IInv'
  BY <1>5, CallStep
<1>6. CASE UNCHANGED vars
  BY <1>6, Stutter
<1> QED
  BY <1>1, <1>2, <1>3, <1>4, <1>5, <1>6 DEF Next

LEMMA Invariance == Spec => []IInv
<1> QED
  BY InitIInv, NextIInv, PTL DEF Spec

(* The variables of the pipe and of its files keep their types: no         *)
(* reference count falls below zero or exceeds the processes, and every    *)
(* index into the ring is in it.                                           *)
THEOREM PipeTypeCorrect == Spec => []TypeOK
<1>1. IInv => TypeOK
  BY DEF IInv
<1> QED
  BY <1>1, Invariance, PTL

(* No process sleeps in piperead() or pipewrite() for what is there, when  *)
(* nobody has the lock: whatever the others write, read, close and whoever *)
(* is killed between two bytes.                                            *)
THEOREM NoWakeupMissed == Spec => []NoMissedWakeup
<1>1. IInv => NoMissedWakeup
  BY DEF IInv, NoMissedWakeup, ReadersAsleep, WritersAsleep
<1> QED
  BY <1>1, Invariance, PTL
------------------------------------------------------------------------------
LEMMA QueueIs == queueOf = Ring(data, nread, Held)
                 /\ queueOf' = Ring(data', nread', Held')
BY DEF queueOf, Ring

LEMMA EmptyQueue ==
    ASSUME TypeOK, nread = nwrite
    PROVE  queueOf = <<>>
<1>1. Held = 0 /\ nread \in Nat /\ data \in [0 .. PIPESIZE - 1 -> Bytes]
  BY CounterFacts DEF TypeOK, Empty
<1>2. queueOf \in Seq(Bytes) /\ Len(queueOf) = 0
  <2>1. Ring(data, nread, 0) \in Seq(Bytes) /\ Len(Ring(data, nread, 0)) = 0
    BY <1>1, RingIsSeq
  <2> QED
    BY <1>1, <2>1, QueueIs
<1> QED
  BY <1>2, EmptySeq

LEMMA AbstractInit == Init => Abstract!FifoInit
<1> SUFFICES ASSUME Init PROVE Abstract!FifoInit
  OBVIOUS
<1>1. queueOf = <<>>
  BY InitIInv, EmptyQueue DEF IInv, Init
<1>2. havingOf = [e \in Abstract!End |-> {}]
  BY DEF havingOf, Init, End, Abstract!End
<1> QED
  BY <1>1, <1>2 DEF Abstract!FifoInit, Init

(* A step that moves no byte and leaves the descriptors and the ends alone *)
(* is none of the Fifo.                                                    *)
LEMMA AbstractQuiet ==
    ASSUME UNCHANGED <<data, nread, nwrite, open, fds>>
    PROVE  UNCHANGED Abstract!fifovars
BY DEF queueOf, havingOf, Held, Abstract!fifovars

LEMMA AbstractCreate ==
    ASSUME IInv, IInv', NEW p \in Procs, Pipealloc(p)
    PROVE  Abstract!Create(p)
<1>1. /\ open = {} /\ open' = End /\ nread' = 0 /\ nwrite' = 0
      /\ fds' = [fds EXCEPT ![p] = End] /\ \A q \in Procs : fds[q] = {}
  BY DEF Pipealloc
<1>2. queueOf' = <<>>
  <2>1. Held' = 0 /\ nread' \in Nat /\ data' \in [0 .. PIPESIZE - 1 -> Bytes]
    <3>1. nread' \in 0 .. WORD - 1 /\ nwrite' \in 0 .. WORD - 1
      BY DEF IInv, TypeOK
    <3> QED
      BY <1>1, <3>1, FullIs DEF Held, IInv, TypeOK
  <2>2. Ring(data', nread', 0) \in Seq(Bytes) /\ Len(Ring(data', nread', 0)) = 0
    BY <2>1, RingIsSeq
  <2> QED
    BY <2>1, <2>2, QueueIs, EmptySeq
<1>3. /\ \A e \in End : havingOf[e] = {}
      /\ havingOf' = [e \in End |-> {p}]
  BY <1>1 DEF havingOf, IInv, TypeOK
<1> QED
  BY <1>1, <1>2, <1>3 DEF Abstract!Create, Abstract!End, End

LEMMA AbstractShare ==
    ASSUME IInv, NEW p \in Procs, NEW q \in Procs, Filedup(p, q)
    PROVE  Abstract!Share(p, q)
<1>1. /\ fds' = [fds EXCEPT ![q] = fds[p]]
      /\ UNCHANGED <<data, nread, nwrite, open>> /\ fds[q] = {}
  BY DEF Filedup, pipevars
<1>2. queueOf' = queueOf
  BY <1>1 DEF queueOf, Held
<1>3. ASSUME NEW e \in End
      PROVE  havingOf'[e] = IF p \in havingOf[e] THEN havingOf[e] \cup {q}
                            ELSE havingOf[e]
  BY <1>1 DEF havingOf, IInv, TypeOK
<1>4. havingOf' = [e \in End |-> IF p \in havingOf[e] THEN havingOf[e] \cup {q}
                                 ELSE havingOf[e]]
  BY <1>3 DEF havingOf
<1> QED
  BY <1>1, <1>2, <1>4 DEF Abstract!Share, Abstract!End, End

LEMMA AbstractDrop ==
    ASSUME IInv, NEW p \in Procs, NEW e \in End, Fileclose(p, e)
    PROVE  Abstract!Drop(p, e)
<1>1. /\ fds' = [fds EXCEPT ![p] = @ \ {e}] /\ e \in fds[p]
      /\ UNCHANGED <<data, nread, nwrite, open>>
  BY DEF Fileclose, pipevars
<1>2. queueOf' = queueOf
  BY <1>1 DEF queueOf, Held
<1>3. ASSUME NEW f \in End
      PROVE  havingOf'[f] = IF f = e THEN havingOf[f] \ {p} ELSE havingOf[f]
  BY <1>1 DEF havingOf, IInv, TypeOK
<1>4. havingOf' = [havingOf EXCEPT ![e] = @ \ {p}] /\ p \in havingOf[e]
  BY <1>1, <1>3 DEF havingOf
<1> QED
  BY <1>1, <1>2, <1>4 DEF Abstract!Drop

LEMMA AbstractClose ==
    ASSUME IInv, NEW p \in Procs, NEW e \in End, Pipeclose(p, e)
    PROVE  Abstract!CloseEnd(e)
<1>1. /\ open' = open \ {e} /\ UNCHANGED <<data, nread, nwrite, fds>>
      /\ e \in open /\ havingOf[e] = {}
  BY DEF Pipeclose, filevars, IInv, Closing
<1>2. queueOf' = queueOf /\ havingOf' = havingOf
  BY <1>1 DEF queueOf, Held, havingOf
<1> QED
  BY <1>1, <1>2 DEF Abstract!CloseEnd

LEMMA AbstractPut ==
    ASSUME IInv, NEW p \in Procs, NEW b \in Bytes, WriteByte(p, b)
    PROVE  Abstract!Put(p, b)
<1>1. /\ UNCHANGED <<nread, open, fds>>
      /\ data' = [data EXCEPT ![nwrite % PIPESIZE] = b]
      /\ nwrite' = (nwrite + 1) % WORD
      /\ at[p] = "writing" /\ ~Full /\ "r" \in open
  BY DEF WriteByte, Writes, filevars
<1>2. /\ nread \in 0 .. WORD - 1 /\ nwrite \in 0 .. WORD - 1 /\ nread \in Nat
      /\ data \in [0 .. PIPESIZE - 1 -> Bytes]
  BY DEF IInv, TypeOK
<1>3. Held \in Nat /\ Held < PIPESIZE /\ Held = (nwrite - nread) % WORD
  BY <1>1, CounterFacts, PipeAssumption DEF IInv, Bounded, Held
<1>4. Held' = Held + 1
  BY <1>1, <1>2, <1>3, HeldAfterWrite DEF Held
<1>5. queueOf' = Append(queueOf, b)
  <2>1. Ring([data EXCEPT ![nwrite % PIPESIZE] = b], nread, Held + 1)
            = Append(Ring(data, nread, Held), b)
    BY <1>2, <1>3, RingPut
  <2> QED
    BY <1>1, <1>4, <2>1, QueueIs
<1>6. Len(queueOf) < PIPESIZE
  <2>1. Len(Ring(data, nread, Held)) = Held
    BY <1>2, <1>3, RingIsSeq
  <2> QED
    BY <1>3, <2>1, QueueIs
<1>7. p \in havingOf["w"] /\ havingOf' = havingOf
  BY <1>1 DEF IInv, Inside, havingOf, End
<1> QED
  BY <1>1, <1>5, <1>6, <1>7 DEF Abstract!Put

LEMMA AbstractTake ==
    ASSUME IInv, NEW p \in Procs, ReadBytes(p)
    PROVE  \/ \E n \in 1 .. PIPESIZE : Abstract!Take(p, n)
           \/ UNCHANGED Abstract!fifovars
<1>1. /\ UNCHANGED <<data, nwrite, open, fds>> /\ at[p] = "read"
  BY DEF ReadBytes, filevars
<1>2. PICK n \in 0 .. Held : nread' = (nread + n) % WORD
  BY DEF ReadBytes
<1>3. /\ nread \in 0 .. WORD - 1 /\ nwrite \in 0 .. WORD - 1 /\ nread \in Nat
      /\ data \in [0 .. PIPESIZE - 1 -> Bytes]
  BY DEF IInv, TypeOK
<1>4. /\ Held \in Nat /\ Held <= PIPESIZE /\ Held < WORD
      /\ Held = (nwrite - nread) % WORD
  BY CounterFacts, PipeAssumption DEF IInv, Bounded, Held
<1>5. Held' = Held - n
  <2>1. (nwrite - nread') % WORD = ((nwrite - nread) % WORD) - n
    BY <1>2, <1>3, <1>4, HeldAfterRead
  <2> QED
    BY <1>1, <2>1 DEF Held
<1>6. Len(queueOf) = Held /\ queueOf' = SubSeq(queueOf, n + 1, Len(queueOf))
  <2>1. Len(Ring(data, nread, Held)) = Held
    BY <1>3, <1>4, RingIsSeq
  <2>2. Ring(data, (nread + n) % WORD, Held - n)
            = SubSeq(Ring(data, nread, Held), n + 1, Held)
    BY <1>3, <1>4, RingTake
  <2> QED
    BY <1>1, <1>2, <1>5, <2>1, <2>2, QueueIs
<1>7. p \in havingOf["r"] /\ havingOf' = havingOf
  BY <1>1 DEF IInv, Inside, havingOf, End
<1>8. CASE n = 0
  <2>1. nread' = nread
    <3>1. nread + 0 = nread /\ WORD \in Nat \ {0}
      BY <1>3, PipeAssumption
    <3> QED
      BY <1>2, <1>3, <1>8, <3>1, ModSmall
  <2> QED
    BY <1>1, <2>1, AbstractQuiet
<1>9. CASE n # 0
  <2>1. n \in 1 .. PIPESIZE /\ n <= Len(queueOf)
    BY <1>4, <1>6, <1>9, PipeAssumption
  <2> QED
    BY <1>1, <1>6, <1>7, <2>1 DEF Abstract!Take
<1> QED
  BY <1>8, <1>9

LEMMA AbstractNext ==
    IInv /\ IInv' /\ [Next]_vars => [Abstract!FifoNext]_(Abstract!fifovars)
<1> SUFFICES ASSUME IInv, IInv', [Next]_vars
             PROVE  Abstract!FifoNext \/ UNCHANGED Abstract!fifovars
  OBVIOUS
<1> USE DEF Abstract!FifoNext
<1>1. ASSUME NEW p \in Procs, Pipealloc(p) PROVE Abstract!FifoNext
  BY <1>1, AbstractCreate
<1>2. ASSUME NEW p \in Procs, NEW q \in Procs, Filedup(p, q)
      PROVE  Abstract!FifoNext
  BY <1>2, AbstractShare
<1>3. ASSUME NEW p \in Procs, NEW e \in End, Fileclose(p, e)
      PROVE  Abstract!FifoNext
  BY <1>3, AbstractDrop DEF End, Abstract!End
<1>4. ASSUME NEW p \in Procs, NEW e \in End, Pipeclose(p, e)
      PROVE  Abstract!FifoNext
  BY <1>4, AbstractClose DEF End, Abstract!End
<1>5. ASSUME NEW p \in Procs, NEW b \in Bytes, WriteByte(p, b)
      PROVE  Abstract!FifoNext
  BY <1>5, AbstractPut
<1>6. ASSUME NEW p \in Procs, ReadBytes(p)
      PROVE  Abstract!FifoNext \/ UNCHANGED Abstract!fifovars
  BY <1>6, AbstractTake
<1>7. ASSUME NEW p \in Procs,
             \/ ReadWaits(p) \/ Sleep(p) \/ WriteEnter(p) \/ WriteWaits(p)
             \/ WriteReturns(p) \/ WriteFails(p) \/ Kill(p)
      PROVE  UNCHANGED Abstract!fifovars
  BY <1>7, AbstractQuiet
  DEF ReadWaits, Sleep, WriteEnter, WriteWaits, WriteReturns, WriteFails, Kill,
      pipevars, filevars
<1>8. ASSUME NEW p \in Procs, NEW e \in End, NEW n \in 0 .. MaxBytes, Call(p, e, n)
      PROVE  UNCHANGED Abstract!fifovars
  BY <1>8, AbstractQuiet DEF Call, pipevars, filevars
<1>9. CASE UNCHANGED vars
  BY <1>9, AbstractQuiet DEF vars, pipevars, filevars
<1> HIDE DEF Abstract!FifoNext
<1> QED
  BY <1>1, <1>2, <1>3, <1>4, <1>5, <1>6, <1>7, <1>8, <1>9 DEF Next, InCall

(* A pipe is a bounded queue: bytes come out in the order they went in,    *)
(* none is lost or read twice while the counters wrap around, and an end   *)
(* is closed exactly once, when the last descriptor of it is gone.         *)
THEOREM PipeImplementsFifo == Spec => ImplementsFifo
BY Invariance, AbstractInit, AbstractNext, PTL
DEF Spec, ImplementsFifo, Abstract!FifoSpec
==============================================================================
