------------------------------ MODULE LogProofs ------------------------------
(***************************************************************************)
(* Proofs about Log, for every set of processes, blocks and values and     *)
(* every size of the log.                                                  *)
(*                                                                         *)
(* The refinement of AtomicDisk needs what is known between any two disk   *)
(* writes of commit() and of recover_from_log(): which slots already hold  *)
(* the content to come (Copied), on which blocks the disk may lag behind   *)
(* the cache (Clean), that those cannot leave the cache (Pins), and that   *)
(* the header names blocks only from the real commit to the erase (Header).*)
(***************************************************************************)
EXTENDS Log, SequenceTheorems, FiniteSetTheorems, FunctionTheorems, TLAPS

NoDup(q) == \A i, j \in 1 .. Len(q) : q[i] = q[j] => i = j

Recovering == ~committing /\ phase \in {"read_head", "install_trans", "erase"}

(* A block is logged once, and what is logged fits the slots.              *)
Sizes == /\ Len(lh) <= nlog - 1 /\ Len(head) <= nlog - 1
         /\ NoDup(lh) /\ NoDup(head)

(* log.outstanding counts the calls under way.                             *)
Counted == IsFiniteSet(inOp) /\ outstanding = Cardinality(inOp)

(* One process commits, and no call is under way meanwhile.                *)
CommitAlone ==
    /\ committing => /\ phase \in {"write_log", "write_head", "install_trans",
                                   "erase", "done"}
                     /\ inOp = {}
    /\ ~committing => phase \in {"none", "read_head", "install_trans",
                                 "erase", "panic"}
    /\ \A p \in Procs : at[p] = "commit" => committing
    /\ \A p, q \in Procs : at[p] = "commit" /\ at[q] = "commit" => p = q

(* Nothing runs beside the recovery.                                       *)
RestartQuiet == Recovering => /\ \A p \in Procs : at[p] = "idle"
                              /\ content = disk

(* A call holds one block at a time.                                       *)
OneHeld ==
    /\ \A s \in Blocks : holder[s] # NoProc =>
           at[holder[s]] \in {"held", "modified", "logged"}
    /\ \A s, t \in Blocks :
           holder[s] = holder[t] /\ holder[s] # NoProc => s = t

Header ==
    /\ phase \in {"none", "panic", "write_log", "write_head", "done"} =>
           head = <<>>
    /\ phase \in {"install_trans", "erase"} => head = lh
    /\ phase = "done" => lh = <<>>
    /\ phase \in {"write_log", "write_head", "install_trans"} => tail <= Len(lh)
    /\ phase \notin {"write_log", "install_trans"} => tail = 1

Copied ==
    /\ phase = "write_log" =>
           \A i \in 1 .. Len(lh) : i < tail => slots[i] = content[lh[i]]
    /\ phase \in {"write_head", "install_trans", "erase"} /\ committing =>
           \A i \in 1 .. Len(lh) : slots[i] = content[lh[i]]
    /\ phase = "install_trans" =>
           \A i \in 1 .. Len(lh) : i < tail => disk[lh[i]] = slots[i]
    /\ phase = "erase" =>
           \A i \in 1 .. Len(lh) : disk[lh[i]] = slots[i]

Clean == \A s \in Blocks :
    content[s] # disk[s] =>
        \/ s \in Logged
        \/ holder[s] # NoProc /\ at[holder[s]] = "modified"

Pins ==
    /\ phase \in {"none", "panic", "write_log", "write_head"} => pinned = Logged
    /\ phase = "install_trans" /\ committing =>
           pinned = {lh[i] : i \in tail .. Len(lh)}
    /\ phase \in {"erase", "done"} \/ Recovering => pinned = {}

IInv == /\ TypeOK /\ Sizes /\ Counted /\ CommitAlone /\ RestartQuiet /\ OneHeld
        /\ Header /\ Copied /\ Clean /\ Pins /\ NoSleeperBesideRoom

------------------------------------------------------------------------------
(* While a commit runs, or the recovery, no block is held.                 *)
LEMMA NobodyHolds ==
    ASSUME IInv, committing \/ Recovering
    PROVE  inOp = {} /\ \A s \in Blocks : holder[s] = NoProc
<1>1. inOp = {}
  BY DEF IInv, CommitAlone, RestartQuiet, inOp
<1>2. ASSUME NEW s \in Blocks, holder[s] # NoProc PROVE FALSE
  <2>1. holder[s] \in Procs
    BY <1>2 DEF IInv, TypeOK
  <2>2. holder[s] \in inOp
    BY <1>2, <2>1 DEF IInv, OneHeld, inOp
  <2> QED
    BY <1>1, <2>2
<1> QED
  BY <1>1, <1>2

(* What is logged has a slot, and is a block.                              *)
LEMMA LoggedFacts ==
    ASSUME TypeOK
    PROVE  /\ Len(lh) \in Nat /\ Len(head) \in Nat
           /\ \A i \in 1 .. Len(lh) : lh[i] \in Blocks
           /\ DOMAIN lh = 1 .. Len(lh) /\ DOMAIN head = 1 .. Len(head)
           /\ Logged \subseteq Blocks
BY ElementOfSeq, LenProperties DEF TypeOK, Logged

(* A step that leaves the set of calls under way alone leaves it counted.  *)
LEMMA CountKept ==
    ASSUME Counted, UNCHANGED <<inOp, outstanding>>
    PROVE  Counted'
BY DEF Counted

LEMMA InitIInv == Init => IInv
<1> SUFFICES ASSUME Init PROVE IInv
  OBVIOUS
<1> USE LogAssumption, BlockCacheAssumption
<1>1. TypeOK
  <2>1. slots \in [1 .. nlog - 1 -> Values]
    BY DEF Init
  <2>2. 0 \in Nat /\ 1 \in 1 .. nlog /\ <<>> \in Seq(Blocks)
    BY EmptySeq
  <2> QED
    BY <2>1, <2>2 DEF Init, CacheInit, TypeOK, Phases, Places
<1>2. inOp = {} /\ Logged = {} /\ Len(lh) = 0 /\ Len(head) = 0
  BY DEF Init, inOp, Logged
<1>3. Sizes
  BY <1>2 DEF Sizes, NoDup
<1>4. Counted
  BY <1>2, FS_EmptySet DEF Counted, Init
<1>5. CommitAlone /\ RestartQuiet /\ OneHeld
  BY <1>2 DEF Init, CacheInit, CommitAlone, RestartQuiet, OneHeld
<1>6. Header /\ Copied /\ Clean
  BY <1>2 DEF Init, CacheInit, Header, Copied, Clean
<1>7. Pins
  BY <1>2 DEF Init, CacheInit, Pins, Recovering
<1>8. NoSleeperBesideRoom
  BY DEF Init, NoSleeperBesideRoom
<1> QED
  BY <1>1, <1>3, <1>4, <1>5, <1>6, <1>7, <1>8 DEF IInv
------------------------------------------------------------------------------
(* A call moves inside itself: between its blocks, or from one to the next. *)
LEMMA InOpKept ==
    ASSUME TypeOK, NEW p \in inOp, NEW place \in {"op", "held", "modified", "logged"},
           Goto(p, place)
    PROVE  inOp' = inOp /\ at' \in [Procs -> Places] /\ at'[p] = place
           /\ \A q \in Procs \ {p} : at'[q] = at[q]
<1>1. at' \in [Procs -> Places] /\ at'[p] = place
      /\ \A q \in Procs \ {p} : at'[q] = at[q]
  BY DEF TypeOK, Goto, Places, inOp
<1> QED
  BY <1>1 DEF inOp

(* A call at work finds the log neither committing nor recovered.           *)
LEMMA AtWork ==
    ASSUME IInv, NEW p \in inOp
    PROVE  p \in Procs /\ ~committing /\ phase \in {"none", "panic"} /\ ~Recovering
           /\ head = <<>> /\ pinned = Logged
<1>1. p \in Procs /\ at[p] # "idle" /\ inOp # {}
  BY DEF inOp
<1>2. ~committing /\ ~Recovering
  BY <1>1 DEF IInv, CommitAlone, RestartQuiet
<1>3. phase \in {"none", "panic"}
  BY <1>2 DEF IInv, CommitAlone, Recovering
<1> QED
  BY <1>1, <1>2, <1>3 DEF IInv, Header, Pins

LEMMA ReadStep ==
    ASSUME IInv, NEW p \in Procs, NEW s \in Blocks, Read(p, s)
    PROVE  IInv'
<1> USE BlockCacheAssumption
<1>1. p \in inOp /\ at[p] = "op" /\ holder[s] = NoProc
  BY DEF Read, Bread, inOp
<1>2. UNCHANGED <<disk, content, pinned, head, slots, logvars, wrote>>
      /\ holder' = [holder EXCEPT ![s] = p] /\ Goto(p, "held")
  BY DEF Read, Bread
<1>3. inOp' = inOp /\ at' \in [Procs -> Places] /\ at'[p] = "held"
      /\ \A q \in Procs \ {p} : at'[q] = at[q]
  BY <1>1, <1>2, InOpKept DEF IInv
<1>4. TypeOK'
  BY <1>2, <1>3 DEF IInv, TypeOK, logvars
<1>5. \A t \in Blocks : holder[t] # p
  BY <1>1 DEF IInv, OneHeld
<1>6. OneHeld'
  BY <1>1, <1>2, <1>3, <1>5 DEF IInv, OneHeld, TypeOK
<1>7. Sizes' /\ Counted'
  BY <1>2, <1>3 DEF IInv, Sizes, Counted, logvars
<1>8. CommitAlone' /\ RestartQuiet'
  BY <1>1, <1>2, <1>3, AtWork DEF IInv, CommitAlone, RestartQuiet, Recovering, logvars
<1>9. Header' /\ Copied' /\ Pins' /\ Logged' = Logged
  BY <1>2 DEF IInv, Header, Copied, Pins, Recovering, Logged, logvars
<1>10. Clean'
  BY <1>1, <1>2, <1>3, <1>9 DEF IInv, Clean, TypeOK, OneHeld
<1>11. NoSleeperBesideRoom'
  BY <1>1, <1>2, <1>3 DEF IInv, NoSleeperBesideRoom, Room, logvars
<1> QED
  BY <1>4, <1>6, <1>7, <1>8, <1>9, <1>10, <1>11 DEF IInv

LEMMA UpdateStep ==
    ASSUME IInv, NEW p \in Procs, NEW s \in Blocks, NEW v \in Values,
           Update(p, s, v)
    PROVE  IInv'
<1> USE BlockCacheAssumption
<1>1. p \in inOp /\ at[p] = "held" /\ holder[s] = p
  BY DEF Update, Modify, inOp
<1>2. UNCHANGED <<disk, holder, pinned, head, slots, logvars, wrote>>
      /\ content' = [content EXCEPT ![s] = v] /\ Goto(p, "modified")
  BY DEF Update, Modify
<1>3. inOp' = inOp /\ at' \in [Procs -> Places] /\ at'[p] = "modified"
      /\ \A q \in Procs \ {p} : at'[q] = at[q]
  BY <1>1, <1>2, InOpKept DEF IInv
<1>4. TypeOK'
  BY <1>2, <1>3 DEF IInv, TypeOK, logvars
<1>5. OneHeld'
  BY <1>1, <1>2, <1>3 DEF IInv, OneHeld, TypeOK
<1>6. Sizes' /\ Counted'
  BY <1>2, <1>3 DEF IInv, Sizes, Counted, logvars
<1>7. CommitAlone' /\ RestartQuiet'
  BY <1>1, <1>2, <1>3, AtWork DEF IInv, CommitAlone, RestartQuiet, Recovering, logvars
<1>8. Header' /\ Copied' /\ Pins' /\ Logged' = Logged
  BY <1>1, <1>2, AtWork DEF IInv, Header, Copied, Pins, Recovering, Logged, logvars
<1>9. Clean'
  BY <1>1, <1>2, <1>3, <1>8 DEF IInv, Clean, TypeOK
<1>10. NoSleeperBesideRoom'
  BY <1>1, <1>2, <1>3 DEF IInv, NoSleeperBesideRoom, Room, logvars
<1> QED
  BY <1>4, <1>5, <1>6, <1>7, <1>8, <1>9, <1>10 DEF IInv

LEMMA ReleaseStep ==
    ASSUME IInv, NEW p \in Procs, NEW s \in Blocks, Release(p, s)
    PROVE  IInv'
<1> USE BlockCacheAssumption
<1>1. p \in inOp /\ at[p] \in {"held", "logged"} /\ holder[s] = p
  BY DEF Release, Brelse, inOp
<1>2. UNCHANGED <<disk, content, pinned, head, slots, logvars, wrote>>
      /\ holder' = [holder EXCEPT ![s] = NoProc] /\ Goto(p, "op")
  BY DEF Release, Brelse
<1>3. inOp' = inOp /\ at' \in [Procs -> Places] /\ at'[p] = "op"
      /\ \A q \in Procs \ {p} : at'[q] = at[q]
  BY <1>1, <1>2, InOpKept DEF IInv
<1>4. TypeOK'
  BY <1>2, <1>3 DEF IInv, TypeOK, logvars
<1>5. OneHeld'
  BY <1>1, <1>2, <1>3 DEF IInv, OneHeld, TypeOK
<1>6. Sizes' /\ Counted'
  BY <1>2, <1>3 DEF IInv, Sizes, Counted, logvars
<1>7. CommitAlone' /\ RestartQuiet'
  BY <1>1, <1>2, <1>3, AtWork DEF IInv, CommitAlone, RestartQuiet, Recovering, logvars
<1>8. Header' /\ Copied' /\ Pins' /\ Logged' = Logged
  BY <1>2 DEF IInv, Header, Copied, Pins, Recovering, Logged, logvars
<1>9. Clean'
  BY <1>1, <1>2, <1>3, <1>8 DEF IInv, Clean, TypeOK, OneHeld
<1>10. NoSleeperBesideRoom'
  BY <1>1, <1>2, <1>3 DEF IInv, NoSleeperBesideRoom, Room, logvars
<1> QED
  BY <1>4, <1>5, <1>6, <1>7, <1>8, <1>9, <1>10 DEF IInv

LEMMA LogWriteStep ==
    ASSUME IInv, NEW p \in Procs, NEW s \in Blocks, LogWrite(p, s)
    PROVE  IInv'
<1> USE BlockCacheAssumption, LogAssumption, LoggedFacts
<1>1. p \in inOp /\ at[p] = "modified" /\ holder[s] = p /\ Booted
  BY DEF LogWrite, inOp
<1>2. /\ UNCHANGED <<disk, content, holder, head, slots, outstanding,
                     committing, phase, tail>>
      /\ wrote' = [wrote EXCEPT ![p] = @ \cup {s}] /\ Goto(p, "logged")
  BY DEF LogWrite, Bpin, cachevars
<1>3. inOp' = inOp /\ at' \in [Procs -> Places] /\ at'[p] = "logged"
      /\ \A q \in Procs \ {p} : at'[q] = at[q]
  BY <1>1, <1>2, InOpKept DEF IInv
<1>4. \/ s \in Logged /\ lh' = lh /\ pinned' = pinned
      \/ s \notin Logged /\ lh' = Append(lh, s) /\ pinned' = pinned \cup {s}
  BY DEF LogWrite, Bpin, cachevars
<1>5. Len(lh) < nlog - 1 /\ Len(lh) \in Nat
  BY DEF LogWrite, Full, IInv
<1>6. /\ lh' \in Seq(Blocks) /\ Len(lh') \in Nat /\ Len(lh) <= Len(lh')
      /\ Len(lh') <= nlog - 1 /\ Logged' = Logged \cup {s} /\ NoDup(lh')
  <2>1. CASE lh' = lh /\ s \in Logged
    BY <1>5, <2>1 DEF IInv, TypeOK, Logged, Sizes, NoDup
  <2>2. CASE lh' = Append(lh, s) /\ s \notin Logged
    <3>1. /\ lh' \in Seq(Blocks) /\ Len(lh') = Len(lh) + 1
          /\ \A i \in 1 .. Len(lh) : lh'[i] = lh[i]
          /\ lh'[Len(lh) + 1] = s
          /\ DOMAIN lh' = 1 .. Len(lh) + 1
      BY <2>2, AppendProperties DEF IInv, TypeOK
    <3>2. Logged' = Logged \cup {s}
      BY <3>1, <1>5 DEF Logged, IInv
    <3>3. \A i \in 1 .. Len(lh) : lh[i] # s
      BY <2>2 DEF Logged, IInv
    <3>4. NoDup(lh')
      BY <1>5, <3>1, <3>3 DEF NoDup, IInv, Sizes
    <3> QED
      BY <1>5, <3>1, <3>2, <3>4
  <2> QED
    BY <1>4, <2>1, <2>2
<1>7. TypeOK'
  BY <1>2, <1>3, <1>4, <1>6 DEF IInv, TypeOK
<1>8. OneHeld'
  BY <1>1, <1>2, <1>3 DEF IInv, OneHeld, TypeOK
<1>9. Sizes' /\ Counted'
  BY <1>2, <1>3, <1>6 DEF IInv, Sizes, Counted
<1>10. phase = "none" /\ phase' = "none" /\ committing' = FALSE /\ ~Recovering'
       /\ tail' = 1
  BY <1>1, <1>2, AtWork DEF IInv, Header, Booted, Recovering
<1>11. CommitAlone' /\ RestartQuiet'
  BY <1>1, <1>2, <1>3, <1>10, AtWork DEF IInv, CommitAlone, RestartQuiet
<1>12. Header' /\ Copied' /\ Pins'
  BY <1>1, <1>2, <1>4, <1>6, <1>10, AtWork DEF Header, Copied, Pins
<1>13. Clean'
  BY <1>1, <1>2, <1>3, <1>6 DEF IInv, Clean, TypeOK, OneHeld
<1>14. NoSleeperBesideRoom'
  <2>1. Room' => Room
    <3>1. (outstanding + 1) * MAXOPBLOCKS \in Nat
      BY DEF IInv, TypeOK
    <3> QED
      BY <1>2, <1>5, <1>6, <3>1 DEF Room
  <2> QED
    BY <1>2, <1>3, <2>1 DEF IInv, NoSleeperBesideRoom
<1> QED
  BY <1>7, <1>8, <1>9, <1>11, <1>12, <1>13, <1>14 DEF IInv

LEMMA PanicStep ==
    ASSUME IInv, NEW p \in Procs, Panic(p)
    PROVE  IInv'
<1>1. p \in inOp
  BY DEF Panic, inOp
<1>2. phase = "none" /\ phase' = "panic" /\ ~committing /\ tail = 1
  BY <1>1, AtWork DEF Panic, Booted, IInv, Header
<1>3. UNCHANGED <<disk, content, holder, pinned, head, slots, lh, outstanding,
                  committing, tail, at, wrote, inOp, Logged>>
  BY DEF Panic, cachevars, inOp, Logged
<1>4. TypeOK' /\ Sizes' /\ Counted' /\ OneHeld' /\ Clean'
  BY <1>2, <1>3 DEF IInv, TypeOK, Phases, Sizes, Counted, OneHeld, Clean
<1>5. CommitAlone' /\ RestartQuiet'
  BY <1>2, <1>3 DEF IInv, CommitAlone, RestartQuiet, Recovering
<1>6. Header' /\ Copied' /\ Pins'
  BY <1>2, <1>3 DEF IInv, Header, Copied, Pins, Recovering
<1>7. NoSleeperBesideRoom'
  BY <1>3 DEF IInv, NoSleeperBesideRoom, Room
<1> QED
  BY <1>4, <1>5, <1>6, <1>7 DEF IInv

(* What a step of begin_op() or end_op() leaves alone.                     *)
LEMMA LockStep ==
    ASSUME IInv, UNCHANGED <<cachevars, head, slots, lh, tail>>
    PROVE  /\ UNCHANGED <<disk, content, holder, pinned, Logged>>
           /\ Sizes'
BY DEF IInv, cachevars, Sizes, Logged

LEMMA BeginOpStep ==
    ASSUME IInv, NEW p \in Procs, BeginOp(p)
    PROVE  IInv'
<1> USE BlockCacheAssumption, LogAssumption
<1>1. /\ UNCHANGED <<cachevars, head, slots, lh, committing, phase, tail, wrote>>
      /\ Booted /\ at[p] \in {"idle", "woken"} /\ p \notin inOp
  BY DEF BeginOp, inOp
<1>2. UNCHANGED <<disk, content, holder, pinned, Logged>> /\ Sizes'
  BY <1>1, LockStep
<1>3. /\ at' \in [Procs -> Places]
      /\ \A q \in Procs \ {p} : at'[q] = at[q]
      /\ \/ /\ at'[p] = "asleep" /\ outstanding' = outstanding
            /\ committing \/ ~Room
         \/ /\ at'[p] = "op" /\ outstanding' = outstanding + 1
            /\ ~committing /\ Room
  BY DEF BeginOp, Enter, Goto, IInv, TypeOK, Places
<1>4. \/ inOp' = inOp /\ at'[p] = "asleep"
      \/ inOp' = inOp \cup {p} /\ at'[p] = "op"
  BY <1>1, <1>3 DEF inOp
<1>5. TypeOK'
  BY <1>1, <1>2, <1>3 DEF IInv, TypeOK
<1>6. Counted'
  BY <1>1, <1>3, <1>4, FS_AddElement DEF IInv, Counted
<1>7. OneHeld' /\ Clean'
  BY <1>1, <1>2, <1>3 DEF IInv, OneHeld, Clean, TypeOK
<1>8. CommitAlone' /\ RestartQuiet'
  BY <1>1, <1>2, <1>3, <1>4
  DEF IInv, CommitAlone, RestartQuiet, Recovering, Booted
<1>9. Header' /\ Copied' /\ Pins'
  BY <1>1, <1>2 DEF IInv, Header, Copied, Pins, Recovering
<1>10. NoSleeperBesideRoom'
  <2>1. CASE at'[p] = "asleep"
    BY <1>1, <1>3, <2>1 DEF NoSleeperBesideRoom, Room
  <2>2. CASE at'[p] = "op"
    <3>1. \A q \in Procs : at'[q] # "asleep"
      BY <1>3, <2>2 DEF IInv, NoSleeperBesideRoom
    <3> QED
      BY <3>1 DEF NoSleeperBesideRoom
  <2> QED
    BY <1>3, <2>1, <2>2
<1> QED
  BY <1>2, <1>5, <1>6, <1>7, <1>8, <1>9, <1>10 DEF IInv

(* wakeup(&log) moves the sleepers and p.                                  *)
LEMMA WakeupFacts ==
    ASSUME TypeOK, NEW p \in Procs, NEW place \in Places, Wakeup(p, place)
    PROVE  /\ at' \in [Procs -> Places] /\ at'[p] = place
           /\ \A q \in Procs \ {p} :
                  at'[q] = IF at[q] = "asleep" THEN "woken" ELSE at[q]
BY DEF TypeOK, Wakeup, Places

LEMMA EndOpStep ==
    ASSUME IInv, NEW p \in Procs, EndOp(p)
    PROVE  IInv'
<1> USE BlockCacheAssumption, LogAssumption
<1>1. /\ UNCHANGED <<cachevars, head, slots, lh, tail>>
      /\ wrote' = [wrote EXCEPT ![p] = {}] /\ outstanding' = outstanding - 1
      /\ p \in inOp /\ at[p] = "op" /\ Booted
  BY DEF EndOp, inOp
<1>2. UNCHANGED <<disk, content, holder, pinned, Logged>> /\ Sizes'
  BY <1>1, LockStep
<1>3. ~committing /\ phase = "none" /\ ~Recovering /\ tail = 1 /\ head = <<>>
      /\ pinned = Logged
  BY <1>1, AtWork DEF Booted, IInv, Header
<1>4. \/ /\ outstanding = 1 /\ committing' = TRUE
         /\ phase' = CommitFrom /\ Goto(p, "commit")
      \/ /\ outstanding # 1 /\ committing' = FALSE /\ phase' = "none"
         /\ Wakeup(p, "idle")
  BY <1>3 DEF EndOp
<1>5. IsFiniteSet(inOp) /\ outstanding = Cardinality(inOp) /\ outstanding \in Nat
      /\ outstanding > 0 /\ Cardinality(inOp \ {p}) = outstanding - 1
      /\ IsFiniteSet(inOp \ {p})
  BY <1>1, FS_RemoveElement, FS_CardinalityType, FS_EmptySet
  DEF IInv, Counted, TypeOK
<1>6. /\ at' \in [Procs -> Places] /\ at'[p] \in {"idle", "commit"}
      /\ at'[p] = "commit" <=> outstanding = 1
      /\ \A q \in Procs \ {p} :
             \/ at'[q] = at[q]
             \/ outstanding # 1 /\ at[q] = "asleep" /\ at'[q] = "woken"
      /\ outstanding # 1 => \A q \in Procs \ {p} : at'[q] # "asleep"
  <2>1. CASE Goto(p, "commit") /\ outstanding = 1
    BY <2>1 DEF Goto, IInv, TypeOK, Places
  <2>2. CASE Wakeup(p, "idle") /\ outstanding # 1
    <3>1. "idle" \in Places
      BY DEF Places
    <3> QED
      BY <2>2, <3>1, WakeupFacts DEF IInv
  <2> QED
    BY <1>4, <2>1, <2>2
<1>7. inOp' = inOp \ {p}
  BY <1>1, <1>6 DEF inOp
<1>8. outstanding = 1 => inOp' = {}
  BY <1>5, <1>7, FS_EmptySet
<1>9. CommitFrom \in {"write_log", "done"} /\ (CommitFrom = "done" <=> lh = <<>>)
  BY DEF CommitFrom
<1>10. TypeOK'
  <2>1. phase' \in Phases /\ committing' \in BOOLEAN
    BY <1>4, <1>9 DEF Phases
  <2>2. outstanding' \in Nat
    BY <1>1, <1>5
  <2>3. wrote' \in [Procs -> SUBSET Blocks]
    BY <1>1 DEF IInv, TypeOK
  <2> QED
    BY <1>1, <1>2, <1>6, <2>1, <2>2, <2>3 DEF IInv, TypeOK
<1>11. Counted'
  BY <1>1, <1>5, <1>7 DEF Counted
<1>12. OneHeld' /\ Clean'
  BY <1>1, <1>2, <1>6 DEF IInv, OneHeld, Clean, TypeOK
<1>13. CommitAlone' /\ RestartQuiet'
  BY <1>3, <1>4, <1>6, <1>8, <1>9
  DEF IInv, CommitAlone, RestartQuiet, Recovering
<1>14. Header' /\ Copied' /\ Pins'
  <2>1. lh # <<>> => 1 <= Len(lh)
    BY EmptySeq DEF IInv, TypeOK
  <2>2. lh = <<>> => Logged = {}
    BY DEF Logged
  <2> QED
    BY <1>1, <1>2, <1>3, <1>4, <1>9, <2>1, <2>2
    DEF IInv, Header, Copied, Pins, Recovering
<1>15. NoSleeperBesideRoom'
  BY <1>1, <1>4, <1>6 DEF NoSleeperBesideRoom
<1> QED
  BY <1>2, <1>10, <1>11, <1>12, <1>13, <1>14, <1>15 DEF IInv

LEMMA EndCommitStep ==
    ASSUME IInv, NEW p \in Procs, EndCommit(p)
    PROVE  IInv'
<1> USE BlockCacheAssumption, LogAssumption
<1>1. /\ UNCHANGED <<cachevars, head, slots, lh, outstanding, tail, wrote>>
      /\ phase = "done" /\ at[p] = "commit" /\ committing' = FALSE
      /\ phase' = "none" /\ Wakeup(p, "idle")
  BY DEF EndCommit
<1>2. UNCHANGED <<disk, content, holder, pinned, Logged>> /\ Sizes'
  BY <1>1, LockStep
<1>3. /\ at' \in [Procs -> Places] /\ at'[p] = "idle"
      /\ \A q \in Procs \ {p} :
             \/ at'[q] = at[q] /\ at'[q] # "asleep"
             \/ at[q] = "asleep" /\ at'[q] = "woken"
  <2>1. "idle" \in Places
    BY DEF Places
  <2> QED
    BY <1>1, <2>1, WakeupFacts DEF IInv
<1>4. committing /\ inOp = {} /\ lh = <<>> /\ head = <<>> /\ tail = 1 /\ Logged = {}
      /\ pinned = {}
  BY <1>1 DEF IInv, CommitAlone, Header, Logged, Pins
<1>5. inOp' = inOp
  BY <1>1, <1>3 DEF inOp
<1>6. TypeOK'
  BY <1>1, <1>2, <1>3 DEF IInv, TypeOK, Phases
<1>7. Counted'
  BY <1>1, <1>5 DEF IInv, Counted
<1>8. OneHeld' /\ Clean'
  BY <1>1, <1>2, <1>3 DEF IInv, OneHeld, Clean, TypeOK
<1>9. CommitAlone' /\ RestartQuiet'
  BY <1>1, <1>3, <1>4, <1>5 DEF IInv, CommitAlone, RestartQuiet, Recovering
<1>10. Header' /\ Copied' /\ Pins'
  BY <1>1, <1>2, <1>4 DEF Header, Copied, Pins, Recovering
<1>11. NoSleeperBesideRoom'
  BY <1>3 DEF NoSleeperBesideRoom
<1> QED
  BY <1>2, <1>6, <1>7, <1>8, <1>9, <1>10, <1>11 DEF IInv
------------------------------------------------------------------------------
(* The steps of commit() move no process.                                  *)
LEMMA CommitStepFacts ==
    ASSUME IInv, UNCHANGED <<at, outstanding, committing, wrote>>
    PROVE  /\ inOp' = inOp /\ Counted'
           /\ (committing => ~Recovering /\ ~Recovering')
BY DEF IInv, Counted, inOp, Recovering, CommitAlone

(* A loop over lh ends in range.                                           *)
LEMMA LoopFacts ==
    ASSUME TypeOK, Sizes, tail <= Len(lh), NEW next, Loop(next)
    PROVE  /\ tail \in 1 .. Len(lh) /\ tail \in 1 .. nlog - 1
           /\ \/ /\ tail < Len(lh) /\ tail' = tail + 1 /\ phase' = phase
                 /\ tail' \in 1 .. nlog /\ tail' <= Len(lh)
              \/ /\ tail = Len(lh) /\ tail' = 1 /\ phase' = next /\ tail' \in 1 .. nlog
BY LoggedFacts, LogAssumption DEF TypeOK, Sizes, Loop

LEMMA WriteLogStep ==
    ASSUME IInv, WriteLog
    PROVE  IInv'
<1> USE BlockCacheAssumption, LogAssumption
<1>1. /\ UNCHANGED <<disk, content, holder, pinned, head, lh, outstanding,
                     committing, at, wrote, Logged>>
      /\ slots' = [slots EXCEPT ![tail] = content[lh[tail]]]
      /\ phase = "write_log" /\ Loop("write_head")
  BY DEF WriteLog, cachevars, Logged
<1>2. committing /\ inOp = {} /\ tail <= Len(lh) /\ head = <<>> /\ pinned = Logged
  BY <1>1 DEF IInv, CommitAlone, Header, Pins
<1>3. /\ tail \in 1 .. Len(lh) /\ tail \in 1 .. nlog - 1
      /\ \/ /\ tail < Len(lh) /\ tail' = tail + 1 /\ phase' = "write_log"
            /\ tail' \in 1 .. nlog /\ tail' <= Len(lh)
         \/ /\ tail = Len(lh) /\ tail' = 1 /\ phase' = "write_head"
            /\ tail' \in 1 .. nlog
  BY <1>1, <1>2, LoopFacts DEF IInv
<1>4. Len(lh) \in Nat /\ \A i \in 1 .. Len(lh) : lh[i] \in Blocks
  BY LoggedFacts DEF IInv
<1>5. inOp' = inOp /\ Counted' /\ ~Recovering'
  BY <1>1, <1>2, CommitStepFacts
<1>6. TypeOK'
  <2>1. slots' \in [1 .. nlog - 1 -> Values]
    BY <1>1, <1>3, <1>4 DEF IInv, TypeOK
  <2>2. phase' \in Phases /\ tail' \in 1 .. nlog
    BY <1>3 DEF Phases
  <2> QED
    BY <1>1, <2>1, <2>2 DEF IInv, TypeOK
<1>7. Sizes' /\ OneHeld' /\ Clean' /\ NoSleeperBesideRoom'
  BY <1>1 DEF IInv, Sizes, OneHeld, Clean, NoSleeperBesideRoom, Room
<1>8. CommitAlone' /\ RestartQuiet'
  BY <1>1, <1>2, <1>3, <1>5 DEF IInv, CommitAlone, RestartQuiet
<1>9. Header' /\ Pins'
  BY <1>1, <1>2, <1>3, <1>5 DEF Header, Pins
<1>10. Copied'
  <2>1. \A i \in 1 .. Len(lh) : i <= tail => slots'[i] = content[lh[i]]
    <3> SUFFICES ASSUME NEW i \in 1 .. Len(lh), i <= tail
                 PROVE  slots'[i] = content[lh[i]]
      OBVIOUS
    <3>1. i \in 1 .. nlog - 1
      BY <1>4 DEF IInv, Sizes
    <3>2. i # tail => slots[i] = content[lh[i]]
      BY <1>1, <1>3, <1>4 DEF IInv, Copied
    <3> QED
      BY <1>1, <3>1, <3>2 DEF IInv, TypeOK
  <2> QED
    BY <1>1, <1>3, <1>4, <2>1 DEF Copied
<1> QED
  BY <1>5, <1>6, <1>7, <1>8, <1>9, <1>10 DEF IInv

LEMMA WriteHeadStep ==
    ASSUME IInv, WriteHead
    PROVE  IInv'
<1> USE BlockCacheAssumption, LogAssumption
<1>1. /\ UNCHANGED <<disk, content, holder, pinned, slots, lh, outstanding,
                     committing, tail, at, wrote, Logged>>
      /\ head' = lh /\ phase = "write_head" /\ phase' = "install_trans"
  BY DEF WriteHead, cachevars, Logged
<1>2. committing /\ inOp = {} /\ tail = 1 /\ pinned = Logged
  BY <1>1 DEF IInv, CommitAlone, Header, Pins
<1>3. Len(lh) \in Nat /\ DOMAIN lh = 1 .. Len(lh)
  BY LoggedFacts DEF IInv
<1>4. inOp' = inOp /\ Counted' /\ ~Recovering'
  BY <1>1, <1>2, CommitStepFacts
<1>5. TypeOK' /\ Sizes' /\ OneHeld' /\ Clean' /\ NoSleeperBesideRoom'
  BY <1>1 DEF IInv, TypeOK, Phases, Sizes, OneHeld, Clean, NoSleeperBesideRoom, Room
<1>6. CommitAlone' /\ RestartQuiet'
  BY <1>1, <1>2, <1>4 DEF IInv, CommitAlone, RestartQuiet
<1>7. Header' /\ Copied' /\ Pins'
  <2>1. tail' <= Len(lh')
    BY <1>1 DEF IInv, Header
  <2> QED
    BY <1>1, <1>2, <1>3, <1>4, <2>1 DEF IInv, Header, Copied, Pins, Logged
<1> QED
  BY <1>4, <1>5, <1>6, <1>7 DEF IInv

LEMMA InstallTransStep ==
    ASSUME IInv, InstallTrans
    PROVE  IInv'
<1> USE BlockCacheAssumption, LogAssumption
<1> DEFINE s == lh[tail]
<1>1. /\ UNCHANGED <<holder, head, slots, lh, outstanding, committing, at,
                     wrote, Logged>>
      /\ content' = [content EXCEPT ![s] = slots[tail]]
      /\ disk' = [disk EXCEPT ![s] = slots[tail]]
      /\ pinned' = pinned \ {s}
      /\ phase = "install_trans" /\ Loop("erase")
  BY DEF InstallTrans, Logged
<1>2. tail <= Len(lh) /\ head = lh
  BY <1>1 DEF IInv, Header
<1>3. /\ tail \in 1 .. Len(lh) /\ tail \in 1 .. nlog - 1
      /\ \/ /\ tail < Len(lh) /\ tail' = tail + 1 /\ phase' = "install_trans"
            /\ tail' \in 1 .. nlog /\ tail' <= Len(lh)
         \/ /\ tail = Len(lh) /\ tail' = 1 /\ phase' = "erase"
            /\ tail' \in 1 .. nlog
  BY <1>1, <1>2, LoopFacts DEF IInv
<1>4. Len(lh) \in Nat /\ s \in Blocks /\ DOMAIN lh = 1 .. Len(lh)
      /\ \A i \in 1 .. Len(lh) : lh[i] \in Blocks
  BY <1>3, LoggedFacts DEF IInv
<1>5. inOp' = inOp /\ Counted' /\ inOp = {}
      /\ \A t \in Blocks : holder[t] = NoProc
  BY <1>1, CommitStepFacts, NobodyHolds DEF Recovering
<1>6. slots[tail] \in Values /\ disk'[s] = slots[tail] /\ content'[s] = slots[tail]
      /\ \A t \in Blocks \ {s} : disk'[t] = disk[t] /\ content'[t] = content[t]
      /\ disk' \in [Blocks -> Values] /\ content' \in [Blocks -> Values]
  BY <1>1, <1>3, <1>4 DEF IInv, TypeOK
<1>7. committing => content' = content
  <2>1. committing => slots[tail] = content[s]
    BY <1>1, <1>3 DEF IInv, Copied
  <2>2. content \in [Blocks -> Values]
    BY DEF IInv, TypeOK
  <2> QED
    BY <1>1, <1>4, <2>1, <2>2
<1>8. TypeOK'
  <2>1. phase' \in Phases /\ tail' \in 1 .. nlog
    BY <1>3 DEF Phases
  <2> QED
    BY <1>1, <1>6, <2>1 DEF IInv, TypeOK
<1>9. Sizes' /\ OneHeld' /\ NoSleeperBesideRoom'
  BY <1>1 DEF IInv, Sizes, OneHeld, NoSleeperBesideRoom, Room
<1>10. CommitAlone' /\ RestartQuiet'
  BY <1>1, <1>3, <1>5 DEF IInv, CommitAlone, RestartQuiet, Recovering
<1>11. Header'
  BY <1>1, <1>2, <1>3 DEF Header
<1>12. Copied'
  <2>1. ASSUME NEW i \in 1 .. Len(lh), i <= tail
        PROVE  disk'[lh[i]] = slots[i]
    <3>1. CASE i = tail
      BY <1>6, <3>1
    <3>2. CASE i # tail
      <4>1. lh[i] \in Blocks \ {s}
        BY <1>3, <1>4, <3>2 DEF IInv, Sizes, NoDup
      <4>2. disk[lh[i]] = slots[i]
        BY <1>1, <1>3, <2>1, <3>2 DEF IInv, Copied
      <4> QED
        BY <1>6, <4>1, <4>2
    <3> QED
      BY <3>1, <3>2
  <2>2. committing => \A i \in 1 .. Len(lh) : slots[i] = content'[lh[i]]
    BY <1>1, <1>7 DEF IInv, Copied
  <2>3. phase' = "install_trans" =>
            \A i \in 1 .. Len(lh) : i < tail' => disk'[lh[i]] = slots[i]
    BY <1>3, <1>4, <2>1
  <2>4. phase' = "erase" => \A i \in 1 .. Len(lh) : disk'[lh[i]] = slots[i]
    BY <1>3, <1>4, <2>1
  <2>5. phase' \in {"install_trans", "erase"}
    BY <1>3
  <2> QED
    BY <1>1, <2>2, <2>3, <2>4, <2>5 DEF Copied
<1>13. Clean'
  <2>1. \A t \in Blocks : content'[t] # disk'[t] => content[t] # disk[t]
    BY <1>6
  <2> QED
    BY <1>1, <2>1 DEF IInv, Clean
<1>14. Pins'
  <2>1. CASE committing
    <3>1. pinned = {lh[i] : i \in tail .. Len(lh)}
      BY <1>1, <2>1 DEF IInv, Pins
    <3>2. pinned' = {lh[i] : i \in (tail + 1) .. Len(lh)}
      <4>1. tail \in Nat /\ Len(lh) \in Nat /\ tail >= 1
        <5>1. tail \in 1 .. Len(lh) /\ Len(lh) \in Nat
          BY <1>3, <1>4
        <5> QED
          BY <5>1
      <4>2. (tail .. Len(lh)) \ {tail} = (tail + 1) .. Len(lh)
        BY <4>1
      <4>3. \A i \in tail .. Len(lh) : i \in 1 .. Len(lh)
        BY <4>1
      <4>4. \A i \in tail .. Len(lh) : lh[i] = s => i = tail
        BY <1>3, <4>3 DEF IInv, Sizes, NoDup
      <4> QED
        BY <1>1, <3>1, <4>2, <4>4
    <3>3. phase' = "erase" => pinned' = {}
      BY <1>3, <1>4, <3>2
    <3>4. phase' = "install_trans" => pinned' = {lh[i] : i \in tail' .. Len(lh)}
      BY <1>3, <3>2
    <3> QED
      BY <1>1, <1>3, <2>1, <3>3, <3>4 DEF Pins, Recovering
  <2>2. CASE ~committing
    <3>1. pinned = {} /\ pinned' = {}
      BY <1>1, <2>2 DEF IInv, Pins, Recovering
    <3> QED
      BY <1>1, <1>3, <2>2, <3>1 DEF Pins
  <2> QED
    BY <2>1, <2>2
<1> QED
  BY <1>5, <1>8, <1>9, <1>10, <1>11, <1>12, <1>13, <1>14 DEF IInv

LEMMA EraseStep ==
    ASSUME IInv, Erase
    PROVE  IInv'
<1> USE BlockCacheAssumption, LogAssumption
<1>1. /\ UNCHANGED <<disk, content, holder, pinned, slots, outstanding,
                     committing, tail, at, wrote>>
      /\ lh' = <<>> /\ head' = <<>> /\ phase = "erase"
      /\ phase' = IF committing THEN "done" ELSE "none"
  BY DEF Erase, cachevars
<1>2. tail = 1 /\ pinned = {} /\ Logged' = {}
  BY <1>1 DEF IInv, Header, Pins, Logged
<1>3. inOp' = inOp /\ Counted' /\ inOp = {} /\ ~Recovering'
      /\ \A t \in Blocks : holder[t] = NoProc
  BY <1>1, CommitStepFacts, NobodyHolds DEF Recovering
<1>4. lh' \in Seq(Blocks) /\ Len(lh') = 0 /\ Len(head') = 0
  BY <1>1, EmptySeq
<1>5. TypeOK' /\ Sizes' /\ OneHeld'
  BY <1>1, <1>4 DEF IInv, TypeOK, Phases, Sizes, NoDup, OneHeld
<1>6. CommitAlone' /\ RestartQuiet'
  BY <1>1, <1>3 DEF IInv, CommitAlone, RestartQuiet
<1>7. Header' /\ Copied' /\ Pins'
  BY <1>1, <1>2, <1>3 DEF Header, Copied, Pins
<1>8. content = disk
  <2>1. CASE committing
    <3>1. \A i \in 1 .. Len(lh) : disk[lh[i]] = content[lh[i]]
      BY <1>1, <2>1 DEF IInv, Copied
    <3>2. \A t \in Blocks : content[t] = disk[t]
      BY <1>3, <3>1, LoggedFacts DEF IInv, Clean, Logged
    <3> QED
      BY <3>2 DEF IInv, TypeOK
  <2>2. CASE ~committing
    BY <1>1, <2>2 DEF IInv, RestartQuiet, Recovering
  <2> QED
    BY <2>1, <2>2
<1>9. Clean'
  BY <1>1, <1>8 DEF Clean
<1>10. NoSleeperBesideRoom'
  BY <1>1 DEF IInv, NoSleeperBesideRoom, RestartQuiet, Recovering
<1> QED
  BY <1>3, <1>5, <1>6, <1>7, <1>9, <1>10 DEF IInv

LEMMA ReadHeadStep ==
    ASSUME IInv, ReadHead
    PROVE  IInv'
<1> USE BlockCacheAssumption, LogAssumption
<1>1. /\ UNCHANGED <<disk, content, holder, pinned, head, slots, outstanding,
                     committing, tail, at, wrote>>
      /\ lh' = head /\ phase = "read_head"
      /\ phase' = IF head = <<>> THEN "erase" ELSE "install_trans"
  BY DEF ReadHead, cachevars
<1>2. ~committing /\ tail = 1 /\ pinned = {} /\ content = disk /\ Recovering'
      /\ \A p \in Procs : at[p] = "idle"
  BY <1>1 DEF IInv, CommitAlone, Header, Pins, Recovering, RestartQuiet
<1>3. inOp' = inOp /\ Counted' /\ inOp = {}
      /\ \A t \in Blocks : holder[t] = NoProc
  BY <1>1, <1>2, CommitStepFacts, NobodyHolds DEF Recovering
<1>4. head # <<>> => 1 <= Len(head)
  BY EmptySeq DEF IInv, TypeOK
<1>5. head = <<>> => Len(head) = 0
  OBVIOUS
<1>6. TypeOK' /\ Sizes' /\ OneHeld'
  BY <1>1 DEF IInv, TypeOK, Phases, Sizes, OneHeld
<1>7. CommitAlone' /\ RestartQuiet'
  BY <1>1, <1>2, <1>3 DEF IInv, CommitAlone, RestartQuiet
<1>8. Header' /\ Copied' /\ Pins' /\ Clean' /\ NoSleeperBesideRoom'
  BY <1>1, <1>2, <1>3, <1>4, <1>5, LoggedFacts
  DEF IInv, Header, Copied, Pins, Clean, NoSleeperBesideRoom
<1> QED
  BY <1>3, <1>6, <1>7, <1>8 DEF IInv

LEMMA CrashStep ==
    ASSUME IInv, Crash
    PROVE  IInv'
<1> USE BlockCacheAssumption, LogAssumption
<1>1. /\ UNCHANGED <<disk, head, slots>> /\ content' = disk /\ pinned' = {}
      /\ holder' = [s \in Blocks |-> NoProc] /\ lh' = <<>> /\ outstanding' = 0
      /\ committing' = FALSE /\ phase' = "read_head" /\ tail' = 1
      /\ at' = [p \in Procs |-> "idle"] /\ wrote' = [p \in Procs |-> {}]
  BY DEF Crash
<1>2. inOp' = {} /\ lh' \in Seq(Blocks) /\ Len(lh') = 0
  BY <1>1, EmptySeq DEF inOp
<1>3. TypeOK'
  <2>1. 0 \in Nat /\ 1 \in 1 .. nlog /\ "read_head" \in Phases /\ "idle" \in Places
    BY DEF Phases, Places
  <2> QED
    BY <1>1, <1>2, <2>1 DEF IInv, TypeOK
<1>4. Sizes' /\ Counted'
  BY <1>1, <1>2, FS_EmptySet DEF IInv, Sizes, NoDup, Counted
<1>5. CommitAlone' /\ RestartQuiet' /\ OneHeld' /\ NoSleeperBesideRoom'
  BY <1>1, <1>2 DEF CommitAlone, RestartQuiet, OneHeld, NoSleeperBesideRoom
<1>6. Header' /\ Copied' /\ Pins' /\ Clean'
  BY <1>1 DEF Header, Copied, Pins, Clean
<1> QED
  BY <1>3, <1>4, <1>5, <1>6 DEF IInv

(* A block that is neither held nor pinned is on the disk as it is in the  *)
(* cache.                                                                  *)
LEMMA UnpinnedOnDisk ==
    ASSUME IInv, NEW s \in Blocks, holder[s] = NoProc, s \notin pinned
    PROVE  content[s] = disk[s]
<1>1. CASE Recovering
  BY <1>1 DEF IInv, RestartQuiet
<1>2. CASE ~Recovering /\ phase # "install_trans"
  <2>1. phase \in {"none", "panic", "write_log", "write_head", "erase", "done"}
    BY <1>2 DEF IInv, CommitAlone, Recovering
  <2>2. CASE phase \in {"none", "panic", "write_log", "write_head"}
    BY <2>2 DEF IInv, Clean, Pins
  <2>3. CASE phase = "erase"
    <3>1. committing
      BY <1>2, <2>3 DEF Recovering
    <3> QED
      BY <2>3, <3>1, LoggedFacts DEF IInv, Clean, Copied, Logged
  <2>4. CASE phase = "done"
    BY <2>4 DEF IInv, Clean, Header, Logged
  <2> QED
    BY <2>1, <2>2, <2>3, <2>4
<1>3. CASE ~Recovering /\ phase = "install_trans"
  <2>1. committing /\ pinned = {lh[i] : i \in tail .. Len(lh)}
    BY <1>3 DEF IInv, Pins, Recovering
  <2>2. ASSUME NEW i \in 1 .. Len(lh), lh[i] = s PROVE content[s] = disk[s]
    <3>1. i \notin tail .. Len(lh)
      BY <2>1, <2>2
    <3>2. i < tail
      BY <3>1, LoggedFacts DEF IInv, TypeOK
    <3> QED
      BY <1>3, <2>1, <2>2, <3>2 DEF IInv, Copied
  <2>3. s \notin Logged => content[s] = disk[s]
    BY DEF IInv, Clean
  <2> QED
    BY <2>2, <2>3, LoggedFacts DEF Logged, IInv
<1> QED
  BY <1>1, <1>2, <1>3

LEMMA EvictChangesNothing ==
    ASSUME IInv, NEW s \in Blocks, Evict(s)
    PROVE  UNCHANGED vars
<1>1. UNCHANGED <<disk, holder, pinned, head, slots, logvars, at, wrote>>
      /\ content' = [content EXCEPT ![s] = disk[s]]
  BY DEF Evict, Recycle
<1>2. content[s] = disk[s]
  BY UnpinnedOnDisk DEF Evict, Recycle
<1>3. content' = content
  BY <1>1, <1>2 DEF IInv, TypeOK
<1> QED
  BY <1>1, <1>3 DEF vars, cachevars

LEMMA Stutter == IInv /\ UNCHANGED vars => IInv'
<1> SUFFICES ASSUME IInv, UNCHANGED vars PROVE IInv'
  OBVIOUS
<1>1. UNCHANGED <<disk, content, holder, pinned, head, slots, lh, outstanding,
                  committing, phase, tail, at, wrote, inOp, Logged, Room>>
  BY DEF vars, cachevars, logvars, inOp, Logged, Room
<1>2. TypeOK' /\ Sizes' /\ Counted' /\ CommitAlone' /\ RestartQuiet' /\ OneHeld'
  BY <1>1 DEF IInv, TypeOK, Sizes, Counted, CommitAlone, RestartQuiet, OneHeld,
              Recovering
<1>3. Header' /\ Copied' /\ Clean' /\ Pins' /\ NoSleeperBesideRoom'
  BY <1>1 DEF IInv, Header, Copied, Clean, Pins, NoSleeperBesideRoom, Recovering
<1> QED
  BY <1>2, <1>3 DEF IInv

LEMMA NextIInv == IInv /\ [Next]_vars => IInv'
<1> SUFFICES ASSUME IInv, [Next]_vars PROVE IInv'
  OBVIOUS
<1>1. CASE Committer
  BY <1>1, WriteLogStep, WriteHeadStep, InstallTransStep, EraseStep, ReadHeadStep,
     EndCommitStep DEF Committer
<1>2. CASE Crash
  BY <1>2, CrashStep
<1>3. ASSUME NEW s \in Blocks, Evict(s) PROVE IInv'
  BY <1>3, EvictChangesNothing, Stutter
<1>4. ASSUME NEW p \in Procs, BeginOp(p) \/ Panic(p) \/ EndOp(p) PROVE IInv'
  BY <1>4, BeginOpStep, PanicStep, EndOpStep
<1>5. ASSUME NEW p \in Procs, NEW s \in Blocks,
             Read(p, s) \/ LogWrite(p, s) \/ Release(p, s)
      PROVE  IInv'
  BY <1>5, ReadStep, LogWriteStep, ReleaseStep
<1>6. ASSUME NEW p \in Procs, NEW s \in Blocks, NEW v \in Values, Update(p, s, v)
      PROVE  IInv'
  BY <1>6, UpdateStep
<1>7. CASE UNCHANGED vars
  BY <1>7, Stutter
<1> QED
  BY <1>1, <1>2, <1>3, <1>4, <1>5, <1>6, <1>7 DEF Next

LEMMA Invariance == Spec => []IInv
<1> QED
  BY InitIInv, NextIInv, PTL DEF Spec

(* The variables of the log keep their types: in particular no loop leaves *)
(* the slots and the block of a slot is always one that is logged.         *)
THEOREM LogTypeCorrect == Spec => []TypeOK
<1>1. IInv => TypeOK
  BY DEF IInv
<1> QED
  BY <1>1, Invariance, PTL

(* begin_op() sleeps only while the log commits or has no room: whatever   *)
(* the calls write and in whatever order they end, end_op() and the end of *)
(* a commit wake every process that could be admitted.                     *)
THEOREM SleepersLackRoom == Spec => []NoSleeperBesideRoom
<1>1. IInv => NoSleeperBesideRoom
  BY DEF IInv
<1> QED
  BY <1>1, Invariance, PTL
------------------------------------------------------------------------------
(* What recovery makes of a header h, slots sl and a disk d.               *)
RecoverFrom(h, sl, d) ==
    [s \in Blocks |->
        IF \E i \in DOMAIN h : h[i] = s
        THEN sl[CHOOSE i \in DOMAIN h : h[i] = s] ELSE d[s]]

LEMMA RecoveredIs == recovered = RecoverFrom(head, slots, disk)
                     /\ recovered' = RecoverFrom(head', slots', disk')
BY DEF recovered, RecoverFrom

(* With an empty header the disk is as it is.                              *)
LEMMA NothingToRecover ==
    ASSUME NEW sl, NEW d \in [Blocks -> Values]
    PROVE  RecoverFrom(<<>>, sl, d) = d
BY DEF RecoverFrom

(* A recovery puts the slots where the header says.                        *)
LEMMA RecoverySets ==
    ASSUME NEW h \in Seq(Blocks), NoDup(h), NEW sl, NEW d,
           NEW c \in [Blocks -> Values],
           \A i \in 1 .. Len(h) : sl[i] = c[h[i]],
           \A s \in Blocks : (\A i \in 1 .. Len(h) : h[i] # s) => d[s] = c[s]
    PROVE  RecoverFrom(h, sl, d) = c
<1>1. DOMAIN h = 1 .. Len(h)
  BY LenProperties
<1>2. ASSUME NEW s \in Blocks PROVE RecoverFrom(h, sl, d)[s] = c[s]
  <2>1. CASE \E i \in DOMAIN h : h[i] = s
    <3> DEFINE k == CHOOSE i \in DOMAIN h : h[i] = s
    <3>1. k \in 1 .. Len(h) /\ h[k] = s
      BY <2>1, <1>1
    <3> QED
      BY <2>1, <3>1 DEF RecoverFrom
  <2>2. CASE ~ \E i \in DOMAIN h : h[i] = s
    BY <2>2, <1>1 DEF RecoverFrom
  <2> QED
    BY <2>1, <2>2
<1> QED
  BY <1>2 DEF RecoverFrom

(* Until the real commit a restart finds what is on the disk.              *)
LEMMA RecoveredDisk ==
    ASSUME IInv, head = <<>>
    PROVE  recovered = disk
BY RecoveredIs, NothingToRecover DEF IInv, TypeOK

(* From the real commit on it finds what the calls have written.           *)
LEMMA RecoveredContent ==
    ASSUME IInv, committing, phase \in {"install_trans", "erase"}
    PROVE  recovered = content
<1>1. head = lh /\ head \in Seq(Blocks) /\ NoDup(head)
  BY DEF IInv, Header, TypeOK, Sizes
<1>2. \A i \in 1 .. Len(head) : slots[i] = content[head[i]]
  BY <1>1 DEF IInv, Copied
<1>3. \A s \in Blocks : holder[s] = NoProc
  BY NobodyHolds
<1>4. ASSUME NEW s \in Blocks, \A i \in 1 .. Len(head) : head[i] # s
      PROVE  disk[s] = content[s]
  <2>1. s \notin Logged
    BY <1>1, <1>4, LoggedFacts DEF Logged, IInv
  <2> QED
    BY <1>3, <2>1 DEF IInv, Clean
<1>5. content \in [Blocks -> Values]
  BY DEF IInv, TypeOK
<1> QED
  BY <1>1, <1>2, <1>4, <1>5, RecoverySets, RecoveredIs
------------------------------------------------------------------------------
LEMMA AbstractInit == Init => Abstract!AtomicInit
<1> SUFFICES ASSUME Init PROVE Abstract!AtomicInit
  OBVIOUS
<1>1. recovered = disk /\ disk \in [Blocks -> Values]
  BY NothingToRecover, RecoveredIs DEF Init, CacheInit
<1>2. seen = recovered
  BY DEF Init, seen, Booted
<1>3. inOp = {}
  BY DEF Init, inOp
<1> QED
  BY <1>1, <1>2, <1>3 DEF Abstract!AtomicInit

(* The steps of a call: what is on the disk stays, and so what a restart   *)
(* would find.                                                             *)
LEMMA AbstractCall ==
    ASSUME IInv, NEW p \in Procs,
           \/ BeginOp(p) \/ Panic(p) \/ EndOp(p) \/ EndCommit(p)
           \/ \E s \in Blocks : \/ Read(p, s) \/ LogWrite(p, s)
                                \/ Release(p, s)
                                \/ \E v \in Values : Update(p, s, v)
    PROVE  Abstract!AtomicNext \/ UNCHANGED Abstract!atomicvars
<1> USE DEF Abstract!atomicvars
<1>1. UNCHANGED <<disk, head, slots>>
  BY DEF BeginOp, Panic, EndOp, EndCommit, Read, LogWrite, Release, Update,
         Bread, Modify, Brelse, Bpin, cachevars
<1>2. recovered' = recovered
  BY <1>1, RecoveredIs
<1>3. CASE BeginOp(p)
  <2>1. UNCHANGED <<content, committing, phase>> /\ at[p] \in {"idle", "woken"}
    BY <1>3 DEF BeginOp, cachevars
  <2>2. seen' = seen
    BY <1>2, <2>1 DEF seen, Booted
  <2>3. p \notin inOp
    BY <2>1 DEF inOp
  <2>4. inOp' = inOp \/ inOp' = inOp \cup {p}
    BY <1>3 DEF BeginOp, Enter, Goto, inOp, IInv, TypeOK
  <2> QED
    BY <1>2, <2>2, <2>3, <2>4 DEF Abstract!AtomicNext, Abstract!BeginOp
<1>4. CASE Panic(p)
  <2>1. UNCHANGED <<content, committing, inOp>> /\ Booted /\ phase' = "panic"
    BY <1>4 DEF Panic, cachevars, inOp
  <2>2. seen' = seen
    BY <2>1 DEF seen
  <2> QED
    BY <1>2, <2>1, <2>2
<1>5. CASE EndOp(p)
  <2>1. content' = content /\ Booted /\ p \in inOp /\ at[p] = "op"
    BY <1>5 DEF EndOp, cachevars, inOp
  <2>2. Booted'
    BY <1>5 DEF EndOp, Booted
  <2>3. seen' = seen
    BY <2>1, <2>2 DEF seen
  <2>4. inOp' = inOp \ {p}
    BY <1>5 DEF EndOp, Goto, Wakeup, inOp, IInv, TypeOK
  <2> QED
    BY <1>2, <2>1, <2>3, <2>4 DEF Abstract!AtomicNext, Abstract!EndOp
<1>6. CASE EndCommit(p)
  <2>1. content' = content /\ phase = "done" /\ phase' = "none" /\ at[p] = "commit"
    BY <1>6 DEF EndCommit, cachevars
  <2>2. Booted /\ Booted'
    BY <2>1 DEF IInv, CommitAlone, Booted
  <2>3. seen' = seen
    BY <2>1, <2>2 DEF seen
  <2>4. inOp' = inOp
    BY <1>6 DEF EndCommit, Wakeup, inOp, IInv, TypeOK
  <2> QED
    BY <1>2, <2>3, <2>4
<1>7. ASSUME NEW s \in Blocks, Read(p, s) \/ LogWrite(p, s) \/ Release(p, s)
      PROVE  UNCHANGED Abstract!atomicvars
  <2>1. p \in inOp
    BY <1>7 DEF Read, LogWrite, Release, inOp
  <2>2. UNCHANGED <<content, phase, committing>>
    BY <1>7 DEF Read, LogWrite, Release, Bread, Brelse, Bpin, cachevars, logvars
  <2>3. seen' = seen
    BY <1>2, <2>2 DEF seen, Booted
  <2>4. inOp' = inOp
    BY <1>7, <2>1, InOpKept DEF Read, LogWrite, Release, IInv
  <2> QED
    BY <1>2, <2>3, <2>4
<1>8. ASSUME NEW s \in Blocks, NEW v \in Values, Update(p, s, v)
      PROVE  Abstract!AtomicNext
  <2>1. p \in inOp /\ UNCHANGED <<phase, committing>>
        /\ content' = [content EXCEPT ![s] = v]
    BY <1>8 DEF Update, Modify, logvars, inOp
  <2>2. seen = content /\ seen' = content'
    BY <2>1, AtWork DEF seen, Booted
  <2>3. inOp' = inOp
    BY <1>8, <2>1, InOpKept DEF Update, IInv
  <2> QED
    BY <1>2, <2>1, <2>2, <2>3 DEF Abstract!AtomicNext, Abstract!Write
<1> QED
  BY <1>3, <1>4, <1>5, <1>6, <1>7, <1>8

(* The steps of commit() and of the recovery: the write of the header makes *)
(* durable what the calls wrote, and nothing else is seen.                  *)
LEMMA AbstractCommitter ==
    ASSUME IInv, IInv', WriteLog \/ WriteHead \/ InstallTrans \/ Erase \/ ReadHead
    PROVE  Abstract!AtomicNext \/ UNCHANGED Abstract!atomicvars
<1> USE DEF Abstract!atomicvars
<1>1. inOp' = inOp /\ committing' = committing
  BY DEF WriteLog, WriteHead, InstallTrans, Erase, ReadHead, inOp
<1>2. CASE WriteLog
  <2>1. phase = "write_log" /\ phase' \in {"write_log", "write_head"}
        /\ UNCHANGED <<content, disk, head>>
    BY <1>2 DEF WriteLog, Loop, cachevars
  <2>2. head = <<>> /\ committing
    BY <2>1 DEF IInv, Header, CommitAlone
  <2>3. recovered = disk /\ recovered' = disk'
    BY <2>1, <2>2, RecoveredIs, NothingToRecover DEF IInv, TypeOK
  <2>4. seen = content /\ seen' = content'
    BY <1>1, <2>2 DEF seen, Booted
  <2> QED
    BY <1>1, <2>1, <2>3, <2>4
<1>3. CASE WriteHead
  <2>1. phase = "write_head" /\ phase' = "install_trans" /\ UNCHANGED content
    BY <1>3 DEF WriteHead, cachevars
  <2>2. committing /\ committing' /\ inOp = {}
    BY <1>1, <2>1 DEF IInv, CommitAlone
  <2>3. recovered' = content'
    <3>1. head' \in Seq(Blocks) /\ NoDup(head') /\ head' = lh'
          /\ content' \in [Blocks -> Values]
      BY <2>1 DEF IInv, TypeOK, Sizes, Header
    <3>2. \A i \in 1 .. Len(head') : slots'[i] = content'[head'[i]]
      BY <2>1, <2>2, <3>1 DEF IInv, Copied
    <3>3. \A s \in Blocks :
              (\A i \in 1 .. Len(head') : head'[i] # s) => disk'[s] = content'[s]
      <4>1. UNCHANGED <<lh, disk, content>> /\ \A s \in Blocks : holder[s] = NoProc
        BY <1>3, <2>2, NobodyHolds DEF WriteHead, cachevars
      <4> QED
        BY <3>1, <4>1, LoggedFacts DEF IInv, Clean, Logged
    <3> QED
      BY <3>1, <3>2, <3>3, RecoverySets, RecoveredIs
  <2>4. seen = content /\ seen' = content'
    BY <2>2 DEF seen, Booted
  <2> QED
    BY <1>1, <2>1, <2>2, <2>3, <2>4 DEF Abstract!AtomicNext, Abstract!Commit
<1>4. CASE InstallTrans
  <2> DEFINE s == lh[tail]
  <2>1. /\ UNCHANGED <<head, slots>> /\ phase = "install_trans"
        /\ disk' = [disk EXCEPT ![s] = slots[tail]]
    BY <1>4 DEF InstallTrans
  <2>2. head = lh /\ tail \in DOMAIN head
    BY <2>1, LoggedFacts DEF IInv, Header, TypeOK
  <2>3. recovered' = recovered
    BY <2>1, <2>2, RecoveredIs DEF RecoverFrom, IInv, TypeOK
  <2>4. seen' = seen
    <3>1. CASE committing
      <4>1. content' = content
        <5>1. slots[tail] = content[s] /\ content' = [content EXCEPT ![s] = slots[tail]]
          BY <1>4, <2>1, <2>2, <3>1, LoggedFacts DEF IInv, Copied, InstallTrans
        <5> QED
          BY <5>1 DEF IInv, TypeOK
      <4> QED
        BY <1>1, <3>1, <4>1 DEF seen, Booted
    <3>2. CASE ~committing
      <4>1. phase' \in {"install_trans", "erase"}
        BY <1>4 DEF InstallTrans, Loop
      <4> QED
        BY <1>1, <2>1, <2>3, <3>2, <4>1 DEF seen, Booted
    <3> QED
      BY <3>1, <3>2
  <2> QED
    BY <1>1, <2>3, <2>4
<1>5. CASE Erase
  <2>1. /\ UNCHANGED <<content, disk>> /\ head' = <<>> /\ phase = "erase"
        /\ phase' = IF committing THEN "done" ELSE "none"
    BY <1>5 DEF Erase, cachevars
  <2>2. recovered' = disk'
    BY <2>1, RecoveredIs, NothingToRecover DEF IInv, TypeOK
  <2>3. recovered = disk
    <3>1. head = lh /\ head \in Seq(Blocks) /\ NoDup(head) /\ disk \in [Blocks -> Values]
      BY <2>1 DEF IInv, Header, TypeOK, Sizes
    <3>2. \A i \in 1 .. Len(head) : slots[i] = disk[head[i]]
      BY <2>1, <3>1 DEF IInv, Copied
    <3> QED
      BY <3>1, <3>2, RecoverySets, RecoveredIs
  <2>4. seen' = seen
    <3>1. CASE committing
      BY <1>1, <2>1, <3>1 DEF seen, Booted
    <3>2. CASE ~committing
      <4>1. content = disk
        BY <2>1, <3>2 DEF IInv, RestartQuiet, Recovering
      <4> QED
        BY <1>1, <2>1, <2>3, <3>2, <4>1 DEF seen, Booted
    <3> QED
      BY <3>1, <3>2
  <2> QED
    BY <1>1, <2>1, <2>2, <2>3, <2>4
<1>6. CASE ReadHead
  <2>1. UNCHANGED <<disk, head, slots>> /\ phase = "read_head"
        /\ phase' \in {"erase", "install_trans"}
    BY <1>6 DEF ReadHead, cachevars
  <2>2. ~committing
    BY <2>1 DEF IInv, CommitAlone
  <2>3. recovered' = recovered
    BY <2>1, RecoveredIs
  <2>4. seen' = seen
    BY <1>1, <2>1, <2>2, <2>3 DEF seen, Booted
  <2> QED
    BY <1>1, <2>3, <2>4
<1> QED
  BY <1>2, <1>3, <1>4, <1>5, <1>6

LEMMA AbstractCrash ==
    ASSUME IInv, Crash
    PROVE  Abstract!AtomicNext
<1>1. UNCHANGED <<disk, head, slots>> /\ ~Booted' /\ phase' = "read_head"
      /\ at' = [p \in Procs |-> "idle"]
  BY DEF Crash, Booted
<1>2. recovered' = recovered /\ seen' = recovered' /\ inOp' = {}
  BY <1>1, RecoveredIs DEF seen, inOp
<1> QED
  BY <1>2 DEF Abstract!AtomicNext, Abstract!Crash

LEMMA AbstractQuiet == UNCHANGED vars => UNCHANGED Abstract!atomicvars
<1> SUFFICES ASSUME UNCHANGED vars PROVE UNCHANGED Abstract!atomicvars
  OBVIOUS
<1>1. UNCHANGED <<disk, content, head, slots, phase, committing, at>>
  BY DEF vars, cachevars, logvars
<1>2. recovered' = recovered
  BY <1>1, RecoveredIs
<1> QED
  BY <1>1, <1>2 DEF Abstract!atomicvars, seen, Booted, inOp

LEMMA AbstractNext ==
    IInv /\ IInv' /\ [Next]_vars => [Abstract!AtomicNext]_(Abstract!atomicvars)
<1> SUFFICES ASSUME IInv, IInv', [Next]_vars
             PROVE  Abstract!AtomicNext \/ UNCHANGED Abstract!atomicvars
  OBVIOUS
<1>1. CASE Committer
  BY <1>1, AbstractCommitter, AbstractCall DEF Committer
<1>2. CASE Crash
  BY <1>2, AbstractCrash
<1>3. ASSUME NEW s \in Blocks, Evict(s)
      PROVE  Abstract!AtomicNext \/ UNCHANGED Abstract!atomicvars
  BY <1>3, EvictChangesNothing, AbstractQuiet
<1>4. CASE \E p \in Procs :
              \/ BeginOp(p) \/ Panic(p) \/ EndOp(p)
              \/ \E s \in Blocks : \/ Read(p, s) \/ LogWrite(p, s)
                                   \/ Release(p, s)
                                   \/ \E v \in Values : Update(p, s, v)
  BY <1>4, AbstractCall
<1>5. CASE UNCHANGED vars
  BY <1>5, AbstractQuiet
<1> QED
  BY <1>1, <1>2, <1>3, <1>4, <1>5 DEF Next

(* The log makes the disk atomic: wherever the power is lost, in a commit, *)
(* between two commits or in the recovery itself, a restart finds the      *)
(* blocks as they were at the last commit, of which the calls under way    *)
(* were no part.                                                           *)
THEOREM LogImplementsAtomicDisk == Spec => ImplementsAtomicDisk
BY Invariance, AbstractInit, AbstractNext, PTL
DEF Spec, ImplementsAtomicDisk, Abstract!AtomicSpec
------------------------------------------------------------------------------
(* What begin_op()'s test reserves: MAXOPBLOCKS blocks for each call under *)
(* way, beside those that calls before them have left in the log.          *)
ByCalls == UNION {wrote[p] : p \in inOp}
Left == Logged \ ByCalls

WroteFew ==
    \A p \in Procs : /\ IsFiniteSet(wrote[p]) /\ Cardinality(wrote[p]) <= OpBlocks
                     /\ p \notin inOp => wrote[p] = {}

UpdatesFit ==
    \A p \in Procs, s \in Blocks :
        at[p] = "modified" /\ holder[s] = p =>
            /\ IsFiniteSet(wrote[p] \cup {s})
            /\ Cardinality(wrote[p] \cup {s}) <= OpBlocks

Reserved == phase = "none" =>
    /\ IsFiniteSet(Left)
    /\ Cardinality(Left) + outstanding * MAXOPBLOCKS <= LOGSIZE

Reservation == WroteFew /\ UpdatesFit /\ Reserved /\ phase # "panic"

(* Sets of at most k elements have together at most k for each of them.    *)
LEMMA UnionOfFew ==
    ASSUME NEW P, IsFiniteSet(P), NEW w, NEW k \in Nat,
           \A p \in P : IsFiniteSet(w[p]) /\ Cardinality(w[p]) <= k
    PROVE  /\ IsFiniteSet(UNION {w[p] : p \in P})
           /\ Cardinality(UNION {w[p] : p \in P}) <= Cardinality(P) * k
<1> DEFINE W == UNION {w[p] : p \in P}
           D == {d \in P \X (1 .. k) : d[2] <= Cardinality(w[d[1]])}
           E == [p \in P |-> CHOOSE g : g \in Bijection(1 .. Cardinality(w[p]), w[p])]
           f == [d \in D |-> E[d[1]][d[2]]]
<1>1. ASSUME NEW p \in P
      PROVE  /\ Cardinality(w[p]) \in Nat
             /\ E[p] \in Bijection(1 .. Cardinality(w[p]), w[p])
  <2>1. Cardinality(w[p]) \in Nat /\ ExistsBijection(1 .. Cardinality(w[p]), w[p])
    BY FS_CardinalityType
  <2>2. \E g : g \in Bijection(1 .. Cardinality(w[p]), w[p])
    BY <2>1 DEF ExistsBijection
  <2> QED
    BY <2>1, <2>2
<1> HIDE DEF E
<1>2. f \in [D -> W]
  <2> SUFFICES ASSUME NEW d \in D PROVE E[d[1]][d[2]] \in W
    OBVIOUS
  <2>1. d[1] \in P /\ d[2] \in 1 .. k /\ d[2] <= Cardinality(w[d[1]])
    OBVIOUS
  <2>2. d[2] \in 1 .. Cardinality(w[d[1]])
    BY <1>1, <2>1
  <2>3. E[d[1]] \in [1 .. Cardinality(w[d[1]]) -> w[d[1]]]
    BY <1>1, <2>1 DEF Bijection, Injection
  <2>4. E[d[1]][d[2]] \in w[d[1]]
    BY <2>2, <2>3
  <2> QED
    BY <2>1, <2>4
<1>3. ASSUME NEW x \in W PROVE \E d \in D : f[d] = x
  <2>1. PICK p \in P : x \in w[p]
    OBVIOUS
  <2>2. PICK i \in 1 .. Cardinality(w[p]) : E[p][i] = x
    BY <1>1, <2>1 DEF Bijection, Surjection
  <2>3. <<p, i>> \in D
    BY <1>1, <2>1, <2>2
  <2>4. f[<<p, i>>] = x
    BY <2>2, <2>3
  <2> QED
    BY <2>3, <2>4
<1>4. f \in Surjection(D, W)
  BY <1>2, <1>3, Fun_IsSurj
<1>5. IsFiniteSet(1 .. k) /\ Cardinality(1 .. k) = k
  BY FS_Interval
<1>6. /\ IsFiniteSet(P \X (1 .. k))
      /\ Cardinality(P \X (1 .. k)) = Cardinality(P) * k
  BY <1>5, FS_Product
<1>7. /\ IsFiniteSet(D) /\ Cardinality(D) <= Cardinality(P \X (1 .. k))
  <2>1. D \in SUBSET (P \X (1 .. k))
    OBVIOUS
  <2> QED
    BY <1>6, <2>1, FS_Subset
<1> HIDE DEF D, f, W
<1>8. IsFiniteSet(W) /\ Cardinality(W) <= Cardinality(D)
  BY <1>4, <1>7, FS_Surjection
<1>9. /\ Cardinality(W) \in Nat /\ Cardinality(D) \in Nat
      /\ Cardinality(P \X (1 .. k)) \in Nat
  BY <1>6, <1>7, <1>8, FS_CardinalityType
<1>10. Cardinality(W) <= Cardinality(P) * k
  BY <1>6, <1>7, <1>8, <1>9
<1> QED
  BY <1>8, <1>10 DEF W

LEMMA LoggedCount ==
    ASSUME TypeOK, Sizes
    PROVE  IsFiniteSet(Logged) /\ Cardinality(Logged) = Len(lh)
<1>1. /\ Len(lh) \in Nat /\ DOMAIN lh = 1 .. Len(lh)
      /\ Logged = {lh[i] : i \in 1 .. Len(lh)} /\ lh \in [1 .. Len(lh) -> Logged]
  <2>1. Len(lh) \in Nat /\ DOMAIN lh = 1 .. Len(lh)
    BY LoggedFacts
  <2>2. lh \in [1 .. Len(lh) -> Blocks]
    BY LenProperties DEF TypeOK
  <2> QED
    BY <2>1, <2>2 DEF Logged
<1>2. lh \in Injection(1 .. Len(lh), Logged)
  BY <1>1, Fun_IsInj DEF Sizes, NoDup
<1>3. lh \in Surjection(1 .. Len(lh), Logged)
  BY <1>1, Fun_IsSurj
<1>4. ExistsBijection(1 .. Len(lh), Logged)
  BY <1>2, <1>3 DEF ExistsBijection, Bijection
<1> QED
  BY <1>1, <1>4, FS_CountingElements, FS_NatBijection

LEMMA ReservedArithmetic ==
    ASSUME NEW l \in Nat, NEW o \in Nat \ {0}, NEW M \in Nat, NEW k \in Nat, k < M,
           NEW L \in Nat, l + o * M <= L
    PROVE  l + o * k + (M - k) <= L
<1>1. o * M = o * k + o * (M - k)
  OBVIOUS
<1>2. o * (M - k) >= M - k
  <2>1. PICK e, x : e = o - 1 /\ x = M - k
    OBVIOUS
  <2>2. e \in Nat /\ x \in Nat /\ o = e + 1
    BY <2>1
  <2>3. (e + 1) * x = e * x + x /\ e * x \in Nat
    BY <2>2
  <2>4. (e + 1) * x >= x
    BY <2>2, <2>3
  <2> QED
    BY <2>1, <2>2, <2>4
<1>3. o * k \in Nat /\ o * M \in Nat /\ o * (M - k) \in Nat
  OBVIOUS
<1> QED
  BY <1>1, <1>2, <1>3

(* A call that logs a block finds the log not full.                        *)
LEMMA RoomLeft ==
    ASSUME IInv, Reservation, phase = "none", NEW p \in inOp,
           OpBlocks < MAXOPBLOCKS, LOGSIZE + OpBlocks < nlog - 1 + MAXOPBLOCKS
    PROVE  ~ Full
<1>1. /\ IsFiniteSet(inOp) /\ outstanding = Cardinality(inOp)
      /\ outstanding \in Nat \ {0}
  <2>1. IsFiniteSet(inOp) /\ outstanding = Cardinality(inOp)
    BY DEF IInv, Counted
  <2> QED
    BY <2>1, FS_CardinalityType, FS_EmptySet
<1>2. OpBlocks \in Nat /\ MAXOPBLOCKS \in Nat /\ LOGSIZE \in Nat /\ nlog \in Nat
  BY LogAssumption
<1>3. IsFiniteSet(ByCalls) /\ Cardinality(ByCalls) <= outstanding * OpBlocks
  <2>1. \A q \in inOp : IsFiniteSet(wrote[q]) /\ Cardinality(wrote[q]) <= OpBlocks
    BY DEF Reservation, WroteFew, inOp
  <2> QED
    BY <1>1, <1>2, <2>1, UnionOfFew DEF ByCalls
<1>4. IsFiniteSet(Logged) /\ Cardinality(Logged) = Len(lh) /\ Len(lh) \in Nat
  BY LoggedCount, LoggedFacts DEF IInv
<1>5. /\ IsFiniteSet(Left)
      /\ Cardinality(Left) + outstanding * MAXOPBLOCKS <= LOGSIZE
  BY DEF Reservation, Reserved
<1>6. /\ Cardinality(Left) \in Nat /\ Cardinality(ByCalls) \in Nat
      /\ Cardinality(Left \cup ByCalls) \in Nat
      /\ Cardinality(Left \cup ByCalls) <= Cardinality(Left) + Cardinality(ByCalls)
  <2>1. /\ IsFiniteSet(Left \cup ByCalls)
        /\ Cardinality(Left \cup ByCalls)
             = Cardinality(Left) + Cardinality(ByCalls) - Cardinality(Left \cap ByCalls)
    BY <1>3, <1>5, FS_Union
  <2>2. Left \cap ByCalls = {}
    BY DEF Left
  <2>3. /\ Cardinality(Left) \in Nat /\ Cardinality(ByCalls) \in Nat
        /\ Cardinality(Left \cup ByCalls) \in Nat
    BY <1>3, <1>5, <2>1, FS_CardinalityType
  <2> QED
    BY <2>1, <2>2, <2>3, FS_EmptySet
<1>7. Len(lh) <= Cardinality(Left \cup ByCalls)
  <2>1. IsFiniteSet(Left \cup ByCalls) /\ Logged \in SUBSET (Left \cup ByCalls)
    BY <1>3, <1>5, FS_Union DEF Left
  <2> QED
    BY <1>4, <2>1, FS_Subset
<1>8. Cardinality(Left) + outstanding * OpBlocks + (MAXOPBLOCKS - OpBlocks) <= LOGSIZE
  BY <1>1, <1>2, <1>5, <1>6, ReservedArithmetic
<1>9. PICK a, b, c : a = Cardinality(Left) /\ b = Cardinality(ByCalls)
                     /\ c = outstanding * OpBlocks
  OBVIOUS
<1>10. /\ a \in Nat /\ b \in Nat /\ c \in Nat /\ b <= c /\ Len(lh) <= a + b
       /\ a + c + (MAXOPBLOCKS - OpBlocks) <= LOGSIZE
  <2>1. outstanding * OpBlocks \in Nat
    BY <1>1, <1>2
  <2>2. a \in Nat /\ b \in Nat /\ c \in Nat
    BY <1>6, <1>9, <2>1
  <2>3. b <= c /\ a + c + (MAXOPBLOCKS - OpBlocks) <= LOGSIZE
    BY <1>3, <1>8, <1>9
  <2>4. PICK n : n = Cardinality(Left \cup ByCalls)
    OBVIOUS
  <2>5. n \in Nat /\ n <= a + b /\ Len(lh) <= n
    BY <1>6, <1>7, <1>9, <2>4
  <2> QED
    BY <1>4, <2>2, <2>3, <2>5
<1>11. Len(lh) < LOGSIZE /\ Len(lh) < nlog - 1
  BY <1>2, <1>4, <1>10
<1> QED
  BY <1>2, <1>4, <1>11 DEF Full

(* A step that changes neither the calls nor what they have logged.        *)
LEMMA ReservationKept ==
    ASSUME IInv, Reservation,
           UNCHANGED <<lh, wrote, outstanding, inOp>>,
           phase' # "panic", phase' = "none" => phase = "none",
           \A p \in Procs, s \in Blocks :
               at'[p] = "modified" /\ holder'[s] = p =>
                   at[p] = "modified" /\ holder[s] = p
    PROVE  Reservation'
<1>1. Left' = Left
  BY DEF Left, Logged, ByCalls
<1>2. WroteFew' /\ UpdatesFit'
  BY DEF Reservation, WroteFew, UpdatesFit
<1>3. Reserved'
  BY <1>1 DEF Reservation, Reserved
<1> QED
  BY <1>2, <1>3 DEF Reservation

(* At a restart, after a recovery and after a commit nothing is logged and *)
(* no call is under way.                                                   *)
LEMMA ReservationEmpty ==
    ASSUME IInv', lh' = <<>>, inOp' = {}, phase' # "panic",
           \A p \in Procs : wrote'[p] = {}
    PROVE  Reservation'
<1>1. IsFiniteSet({}) /\ Cardinality({}) = 0 /\ OpBlocks \in Nat /\ LOGSIZE \in Nat
      /\ MAXOPBLOCKS \in Nat
  BY FS_EmptySet, LogAssumption
<1>2. outstanding' = 0
  BY <1>1 DEF IInv, Counted
<1>3. Left' = {}
  BY DEF Left, Logged
<1>4. WroteFew'
  <2>1. \A p \in Procs : IsFiniteSet(wrote'[p]) /\ Cardinality(wrote'[p]) = 0
    BY <1>1
  <2>2. 0 <= OpBlocks
    BY <1>1
  <2> QED
    BY <2>1, <2>2 DEF WroteFew
<1>5. UpdatesFit'
  BY DEF UpdatesFit, inOp
<1>6. Reserved'
  BY <1>1, <1>2, <1>3 DEF Reserved
<1> QED
  BY <1>4, <1>5, <1>6 DEF Reservation

LEMMA ReservationCall ==
    ASSUME IInv, Reservation, NEW p \in Procs, NEW s \in Blocks,
           Read(p, s) \/ Release(p, s) \/ \E v \in Values : Update(p, s, v)
    PROVE  Reservation'
<1> USE BlockCacheAssumption
<1>1. /\ p \in inOp /\ UNCHANGED <<lh, wrote, outstanding, phase>>
      /\ \E place \in {"op", "held", "modified", "logged"} : Goto(p, place)
  BY DEF Read, Release, Update, inOp, logvars
<1>2. UNCHANGED inOp
  BY <1>1, InOpKept DEF IInv
<1>3. CASE Read(p, s) \/ Release(p, s)
  <2>1. \A q \in Procs, t \in Blocks :
            at'[q] = "modified" /\ holder'[t] = q =>
                at[q] = "modified" /\ holder[t] = q
    BY <1>1, <1>3 DEF Read, Release, Bread, Brelse, Goto, IInv, TypeOK
  <2> QED
    BY <1>1, <1>2, <2>1, ReservationKept DEF Reservation
<1>4. ASSUME NEW v \in Values, Update(p, s, v) PROVE Reservation'
  <2>1. /\ at' = [at EXCEPT ![p] = "modified"] /\ holder' = holder /\ holder[s] = p
        /\ Cardinality(wrote[p] \cup {s}) <= OpBlocks
    BY <1>4 DEF Update, Modify, Goto
  <2>2. IsFiniteSet(wrote[p] \cup {s})
    BY FS_AddElement DEF Reservation, WroteFew
  <2>3. ASSUME NEW q \in Procs, NEW t \in Blocks, at'[q] = "modified", holder'[t] = q
        PROVE  /\ IsFiniteSet(wrote'[q] \cup {t})
               /\ Cardinality(wrote'[q] \cup {t}) <= OpBlocks
    <3>1. CASE q = p
      <4>1. t = s
        BY <2>1, <2>3, <3>1 DEF IInv, OneHeld
      <4> QED
        BY <1>1, <2>1, <2>2, <3>1, <4>1
    <3>2. CASE q # p
      <4>1. at[q] = "modified" /\ holder[t] = q
        BY <2>1, <2>3, <3>2 DEF IInv, TypeOK
      <4> QED
        BY <1>1, <4>1 DEF Reservation, UpdatesFit
    <3> QED
      BY <3>1, <3>2
  <2>4. UpdatesFit'
    BY <2>3 DEF UpdatesFit
  <2>5. Left' = Left
    BY <1>1, <1>2 DEF Left, Logged, ByCalls
  <2>6. WroteFew' /\ Reserved'
    BY <1>1, <1>2, <2>5 DEF Reservation, WroteFew, Reserved
  <2> QED
    BY <1>1, <2>4, <2>6 DEF Reservation
<1> QED
  BY <1>3, <1>4

LEMMA ReservationLogWrite ==
    ASSUME IInv, Reservation, NEW p \in Procs, NEW s \in Blocks, LogWrite(p, s)
    PROVE  Reservation'
<1>1. /\ p \in inOp /\ at[p] = "modified" /\ holder[s] = p
      /\ UNCHANGED <<holder, outstanding, phase>>
      /\ wrote' = [wrote EXCEPT ![p] = @ \cup {s}] /\ Goto(p, "logged")
  BY DEF LogWrite, inOp, Bpin, cachevars
<1>2. inOp' = inOp /\ at'[p] = "logged" /\ \A q \in Procs \ {p} : at'[q] = at[q]
  BY <1>1, InOpKept DEF IInv
<1>3. /\ wrote'[p] = wrote[p] \cup {s}
      /\ \A q \in Procs \ {p} : wrote'[q] = wrote[q]
  BY <1>1 DEF IInv, TypeOK
<1>4. Logged' = Logged \cup {s}
  <2>1. CASE s \in Logged
    BY <2>1 DEF LogWrite, Logged
  <2>2. CASE s \notin Logged
    <3>1. lh' = Append(lh, s)
      BY <2>2 DEF LogWrite
    <3>2. /\ Len(lh) \in Nat /\ DOMAIN lh' = 1 .. Len(lh) + 1
          /\ \A i \in 1 .. Len(lh) : lh'[i] = lh[i]
          /\ lh'[Len(lh) + 1] = s
          /\ DOMAIN lh = 1 .. Len(lh)
      BY <3>1, AppendProperties, LoggedFacts DEF IInv, TypeOK
    <3> QED
      BY <3>2 DEF Logged
  <2> QED
    BY <2>1, <2>2
<1>5. Left' \in SUBSET Left
  <2>1. s \in ByCalls' /\ ByCalls \subseteq ByCalls'
    BY <1>1, <1>2, <1>3 DEF ByCalls, inOp
  <2> QED
    BY <1>4, <2>1 DEF Left
<1>6. WroteFew'
  BY <1>1, <1>2, <1>3 DEF Reservation, WroteFew, UpdatesFit
<1>7. UpdatesFit'
  BY <1>1, <1>2, <1>3 DEF Reservation, UpdatesFit
<1>8. Reserved'
  <2> SUFFICES ASSUME phase = "none"
               PROVE  /\ IsFiniteSet(Left')
                      /\ Cardinality(Left') + outstanding * MAXOPBLOCKS <= LOGSIZE
    BY <1>1 DEF Reserved
  <2>1. /\ IsFiniteSet(Left)
        /\ Cardinality(Left) + outstanding * MAXOPBLOCKS <= LOGSIZE
    BY DEF Reservation, Reserved
  <2>2. IsFiniteSet(Left') /\ Cardinality(Left') <= Cardinality(Left)
    BY <1>5, <2>1, FS_Subset
  <2>3. PICK a, b, o : a = Cardinality(Left') /\ b = Cardinality(Left)
                       /\ o = outstanding * MAXOPBLOCKS
    OBVIOUS
  <2>4. a \in Nat /\ b \in Nat
    BY <2>1, <2>2, <2>3, FS_CardinalityType
  <2>5. o \in Nat /\ LOGSIZE \in Nat
    <3>1. outstanding \in Nat
      BY DEF IInv, TypeOK
    <3> QED
      BY <2>3, <3>1, LogAssumption
  <2> QED
    BY <2>1, <2>2, <2>3, <2>4, <2>5
<1> QED
  BY <1>1, <1>6, <1>7, <1>8 DEF Reservation

LEMMA ReservationBeginOp ==
    ASSUME IInv, Reservation, NEW p \in Procs, BeginOp(p)
    PROVE  Reservation'
<1>1. /\ UNCHANGED <<holder, lh, phase, wrote>>
      /\ at[p] \in {"idle", "woken"} /\ p \notin inOp
  BY DEF BeginOp, inOp, cachevars
<1>2. CASE committing \/ ~ Room
  <2>1. at' = [at EXCEPT ![p] = "asleep"] /\ UNCHANGED outstanding
    BY <1>2 DEF BeginOp, Goto
  <2>2. UNCHANGED inOp
    BY <1>1, <2>1 DEF inOp, IInv, TypeOK
  <2> QED
    BY <1>1, <2>1, <2>2, ReservationKept DEF Reservation, IInv, TypeOK
<1>3. CASE ~ committing /\ Room
  <2>1. at' = [at EXCEPT ![p] = "op"] /\ outstanding' = outstanding + 1
    BY <1>3 DEF BeginOp, Enter, Goto
  <2>2. inOp' = inOp \cup {p}
    BY <2>1 DEF inOp, IInv, TypeOK
  <2>3. UpdatesFit'
    BY <1>1, <2>1 DEF Reservation, UpdatesFit, IInv, TypeOK
  <2>4. WroteFew'
    BY <1>1, <2>2 DEF Reservation, WroteFew
  <2>5. IsFiniteSet(Logged) /\ Cardinality(Logged) = Len(lh) /\ Logged' = Logged
    BY <1>1, LoggedCount DEF IInv, Logged
  <2>6. IsFiniteSet(Left') /\ Cardinality(Left') <= Len(lh)
    <3>1. Left' \in SUBSET Logged
      BY <2>5 DEF Left
    <3> QED
      BY <2>5, <3>1, FS_Subset
  <2>7. Reserved'
    <3>1. PICK a, o : a = Cardinality(Left') /\ o = (outstanding + 1) * MAXOPBLOCKS
      OBVIOUS
    <3>2. Len(lh) + o <= LOGSIZE /\ a <= Len(lh)
      BY <1>3, <2>6, <3>1 DEF Room
    <3>3. a \in Nat /\ Len(lh) \in Nat
      BY <2>6, <3>1, FS_CardinalityType, LoggedFacts DEF IInv
    <3>4. o \in Nat /\ LOGSIZE \in Nat
      <4>1. outstanding \in Nat
        BY DEF IInv, TypeOK
      <4> QED
        BY <3>1, <4>1, LogAssumption
    <3>5. a + o <= LOGSIZE
      BY <3>2, <3>3, <3>4
    <3> QED
      BY <2>1, <2>6, <3>1, <3>5 DEF Reserved
  <2> QED
    BY <1>1, <2>3, <2>4, <2>7 DEF Reservation
<1> QED
  BY <1>2, <1>3

(* end_op() leaves the call's blocks, MAXOPBLOCKS of them at most, to the  *)
(* commit, and gives back what was reserved for it.                        *)
LEMMA ReservationEndOp ==
    ASSUME IInv, Reservation, NEW p \in Procs, EndOp(p)
    PROVE  Reservation'
<1>1. /\ UNCHANGED <<holder, lh>> /\ p \in inOp /\ at[p] = "op" /\ Booted
      /\ wrote' = [wrote EXCEPT ![p] = {}] /\ outstanding' = outstanding - 1
  BY DEF EndOp, inOp, cachevars
<1>2. phase = "none" /\ ~ committing
  BY <1>1, AtWork DEF Booted
<1>3. /\ wrote'[p] = {} /\ \A q \in Procs \ {p} : wrote'[q] = wrote[q]
  BY <1>1 DEF IInv, TypeOK
<1>4. /\ at'[p] \in {"idle", "commit"}
      /\ \A q \in Procs \ {p} :
             at'[q] = at[q] \/ (at[q] = "asleep" /\ at'[q] = "woken")
      /\ phase' # "panic" /\ (outstanding = 1 => phase' # "none")
      /\ (outstanding # 1 => phase' = "none")
  <2>1. CASE outstanding = 1
    BY <1>2, <2>1 DEF EndOp, Goto, CommitFrom, IInv, TypeOK
  <2>2. CASE outstanding # 1
    <3>1. "idle" \in Places
      BY DEF Places
    <3>2. Wakeup(p, "idle") /\ phase' = phase
      BY <2>2 DEF EndOp
    <3> QED
      BY <1>2, <2>2, <3>1, <3>2, WakeupFacts DEF IInv
  <2> QED
    BY <2>1, <2>2
<1>5. inOp' = inOp \ {p}
  BY <1>1, <1>4 DEF inOp
<1>6. OpBlocks \in Nat /\ MAXOPBLOCKS \in Nat /\ LOGSIZE \in Nat
      /\ OpBlocks <= MAXOPBLOCKS
  BY LogAssumption
<1>7. IsFiniteSet({}) /\ Cardinality({}) = 0
  BY FS_EmptySet
<1>8. WroteFew'
  <2>1. ASSUME NEW q \in Procs
        PROVE  /\ IsFiniteSet(wrote'[q]) /\ Cardinality(wrote'[q]) <= OpBlocks
               /\ q \notin inOp' => wrote'[q] = {}
    <3>1. CASE q = p
      BY <1>3, <1>6, <1>7, <3>1
    <3>2. CASE q # p
      BY <1>3, <1>5, <3>2 DEF Reservation, WroteFew
    <3> QED
      BY <3>1, <3>2
  <2> QED
    BY <2>1 DEF WroteFew
<1>9. UpdatesFit'
  BY <1>1, <1>3, <1>4 DEF Reservation, UpdatesFit
<1>10. ASSUME outstanding # 1
       PROVE  /\ IsFiniteSet(Left')
              /\ Cardinality(Left') + outstanding' * MAXOPBLOCKS <= LOGSIZE
  <2>1. /\ IsFiniteSet(Left)
        /\ Cardinality(Left) + outstanding * MAXOPBLOCKS <= LOGSIZE
    BY <1>2 DEF Reservation, Reserved
  <2>2. IsFiniteSet(wrote[p]) /\ Cardinality(wrote[p]) <= OpBlocks
    BY DEF Reservation, WroteFew
  <2>3. Left' \in SUBSET (Left \cup wrote[p])
    <3>1. ByCalls \subseteq ByCalls' \cup wrote[p]
      BY <1>3, <1>5 DEF ByCalls, inOp
    <3>2. Logged' = Logged
      BY <1>1 DEF Logged
    <3> QED
      BY <3>1, <3>2 DEF Left
  <2>4. /\ IsFiniteSet(Left \cup wrote[p])
        /\ Cardinality(Left \cup wrote[p])
             = Cardinality(Left) + Cardinality(wrote[p]) - Cardinality(Left \cap wrote[p])
    BY <2>1, <2>2, FS_Union
  <2>5. IsFiniteSet(Left') /\ Cardinality(Left') <= Cardinality(Left \cup wrote[p])
    BY <2>3, <2>4, FS_Subset
  <2>6. IsFiniteSet(Left \cap wrote[p])
    BY <2>1, FS_Intersection
  <2>7. PICK a, b, c, d, e :
            /\ a = Cardinality(Left') /\ b = Cardinality(Left)
            /\ c = Cardinality(wrote[p]) /\ d = Cardinality(Left \cap wrote[p])
            /\ e = Cardinality(Left \cup wrote[p])
    OBVIOUS
  <2>8. a \in Nat /\ b \in Nat /\ c \in Nat /\ d \in Nat /\ e \in Nat
    BY <2>1, <2>2, <2>4, <2>5, <2>6, <2>7, FS_CardinalityType
  <2>9. a <= b + MAXOPBLOCKS
    BY <1>6, <2>2, <2>4, <2>5, <2>7, <2>8
  <2>10. outstanding' * MAXOPBLOCKS = outstanding * MAXOPBLOCKS - MAXOPBLOCKS
    <3>1. outstanding \in Nat
      BY DEF IInv, TypeOK
    <3>2. (outstanding - 1) * MAXOPBLOCKS = outstanding * MAXOPBLOCKS - MAXOPBLOCKS
      BY <1>6, <3>1
    <3> QED
      BY <1>1, <3>2
  <2>11. PICK x : x = outstanding * MAXOPBLOCKS
    OBVIOUS
  <2>12. x \in Nat
    <3>1. outstanding \in Nat
      BY DEF IInv, TypeOK
    <3> QED
      BY <1>6, <2>11, <3>1
  <2>13. b + x <= LOGSIZE /\ outstanding' * MAXOPBLOCKS = x - MAXOPBLOCKS
    BY <2>1, <2>7, <2>10, <2>11
  <2>14. a + (x - MAXOPBLOCKS) <= LOGSIZE
    BY <1>6, <2>8, <2>9, <2>12, <2>13
  <2> QED
    BY <2>5, <2>7, <2>13, <2>14
<1>11. Reserved'
  BY <1>4, <1>10 DEF Reserved
<1> QED
  BY <1>4, <1>8, <1>9, <1>11 DEF Reservation

LEMMA ReservationCommitter ==
    ASSUME IInv, IInv', Reservation, Committer
    PROVE  Reservation'
<1>1. ASSUME NEW p \in Procs, EndCommit(p) PROVE Reservation'
  <2>1. /\ UNCHANGED <<lh, wrote>> /\ phase = "done" /\ phase' = "none"
        /\ Wakeup(p, "idle")
    BY <1>1 DEF EndCommit
  <2>2. committing /\ lh = <<>> /\ inOp = {}
    BY <2>1 DEF IInv, CommitAlone, Header
  <2>3. inOp' = {}
    BY <2>1, <2>2, WakeupFacts DEF IInv, inOp, Places
  <2>4. \A q \in Procs : wrote'[q] = {}
    BY <2>1, <2>2 DEF Reservation, WroteFew
  <2> QED
    BY <2>1, <2>2, <2>3, <2>4, ReservationEmpty
<1>2. ASSUME WriteLog \/ WriteHead \/ InstallTrans \/ Erase \/ ReadHead
      PROVE  Reservation'
  <2>1. /\ UNCHANGED <<at, wrote>>
        /\ phase \in {"write_log", "write_head", "install_trans", "erase", "read_head"}
        /\ phase' # "panic"
        /\ phase' = "none" => lh' = <<>>
    BY <1>2 DEF WriteLog, WriteHead, InstallTrans, Erase, ReadHead, Loop
  <2>2. committing \/ Recovering
    BY <2>1 DEF IInv, CommitAlone, Recovering
  <2>3. inOp = {} /\ inOp' = {}
    BY <2>1, <2>2, NobodyHolds DEF inOp
  <2>4. \A q \in Procs : wrote'[q] = {}
    BY <2>1, <2>3 DEF Reservation, WroteFew
  <2>5. CASE phase' = "none"
    BY <2>1, <2>3, <2>4, <2>5, ReservationEmpty
  <2>6. CASE phase' # "none"
    <3>1. WroteFew' /\ UpdatesFit'
      BY <2>1, <2>3 DEF Reservation, WroteFew, UpdatesFit, inOp
    <3> QED
      BY <2>1, <2>6, <3>1 DEF Reservation, Reserved
  <2> QED
    BY <2>5, <2>6
<1> QED
  BY <1>1, <1>2 DEF Committer

(* begin_op() reserves enough: log_write() never panics with "too big a    *)
(* transaction" when a call writes less than MAXOPBLOCKS blocks and the    *)
(* log has the slots for it.  mkfs.c makes it of LOGSIZE blocks with its   *)
(* header, so calls must stay two blocks below MAXOPBLOCKS, because        *)
(* log_write() compares before it looks whether the block is logged        *)
(* already.                                                                *)
THEOREM LogNeverPanics ==
    ASSUME OpBlocks < MAXOPBLOCKS, LOGSIZE + OpBlocks < nlog - 1 + MAXOPBLOCKS
    PROVE  Spec => [](phase # "panic")
<1>1. Init => Reservation
  <2> SUFFICES ASSUME Init PROVE Reservation
    OBVIOUS
  <2>1. \A p \in Procs : wrote[p] = {} /\ at[p] = "idle"
    BY DEF Init
  <2>2. IsFiniteSet({}) /\ Cardinality({}) = 0 /\ 0 <= OpBlocks
    BY FS_EmptySet, LogAssumption
  <2>3. WroteFew
    BY <2>1, <2>2 DEF WroteFew
  <2>4. UpdatesFit
    BY <2>1 DEF UpdatesFit
  <2> QED
    BY <2>3, <2>4 DEF Reservation, Reserved, Init
<1>2. IInv /\ IInv' /\ Reservation /\ [Next]_vars => Reservation'
  <2> SUFFICES ASSUME IInv, IInv', Reservation, [Next]_vars PROVE Reservation'
    OBVIOUS
  <2>1. CASE UNCHANGED vars
    <3>1. UNCHANGED <<lh, wrote, outstanding, inOp, phase, at, holder>>
      BY <2>1 DEF vars, logvars, cachevars, inOp
    <3> QED
      BY <3>1, ReservationKept DEF Reservation
  <2>2. CASE Committer
    BY <2>2, ReservationCommitter
  <2>3. CASE Crash
    <3>1. /\ lh' = <<>> /\ phase' = "read_head"
          /\ at' = [p \in Procs |-> "idle"] /\ wrote' = [p \in Procs |-> {}]
      BY <2>3 DEF Crash
    <3>2. inOp' = {} /\ \A p \in Procs : wrote'[p] = {}
      BY <3>1 DEF inOp
    <3> QED
      BY <3>1, <3>2, ReservationEmpty
  <2>4. ASSUME NEW s \in Blocks, Evict(s) PROVE Reservation'
    <3>1. UNCHANGED vars
      BY <2>4, EvictChangesNothing
    <3>2. UNCHANGED <<lh, wrote, outstanding, inOp, phase, at, holder>>
      BY <3>1 DEF vars, logvars, cachevars, inOp
    <3> QED
      BY <3>2, ReservationKept DEF Reservation
  <2>5. ASSUME NEW p \in Procs, BeginOp(p) PROVE Reservation'
    BY <2>5, ReservationBeginOp
  <2>6. ASSUME NEW p \in Procs, Panic(p) PROVE Reservation'
    <3>1. p \in inOp /\ Booted /\ Full
      BY <2>6 DEF Panic, inOp
    <3>2. phase = "none"
      BY <3>1, AtWork DEF Booted
    <3> QED
      BY <3>1, <3>2, RoomLeft
  <2>7. ASSUME NEW p \in Procs, EndOp(p) PROVE Reservation'
    BY <2>7, ReservationEndOp
  <2>8. ASSUME NEW p \in Procs, NEW s \in Blocks,
               Read(p, s) \/ Release(p, s) \/ \E v \in Values : Update(p, s, v)
        PROVE  Reservation'
    BY <2>8, ReservationCall
  <2>9. ASSUME NEW p \in Procs, NEW s \in Blocks, LogWrite(p, s) PROVE Reservation'
    BY <2>9, ReservationLogWrite
  <2> QED
    BY <2>1, <2>2, <2>3, <2>4, <2>5, <2>6, <2>7, <2>8, <2>9 DEF Next
<1>3. Reservation => phase # "panic"
  BY DEF Reservation
<1> QED
  BY <1>1, <1>2, <1>3, Invariance, PTL DEF Spec
==============================================================================
