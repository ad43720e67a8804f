----------------------------- MODULE TweetProofs ----------------------------
(***************************************************************************)
(* Proofs about Tweet, for every number of processes, topics and slots.    *)
(*                                                                         *)
(* The topic's lock makes the index a call looked up stay right until it   *)
(* is used (IndexRight), although stores at index -1 from the topic after  *)
(* it come without that lock: these never fill an empty slot.              *)
(* NoMissedSlot needs in addition that wakeup() starts with the first      *)
(* process (WakesFromFirst) and that a putter about to sleep has seen a    *)
(* full topic under the lock it still has (SeenFull).                      *)
(***************************************************************************)
EXTENDS Tweet, FiniteSetTheorems, WellFoundedInduction, TLAPS

(* The index of a call that goes on is that of an empty slot for a put, and *)
(* only tput() goes on with -1.                                             *)
IndexRight ==
    \A p \in Procs : pc[p] = "update" =>
        /\ call[p].op # "tput" => call[p].index # -1
        /\ call[p].op \in Puts /\ call[p].index # -1
               => msgs[call[p].tag][call[p].index] = Empty

LockHeld ==
    /\ \A t \in Topics : lock[t] # Free =>
           pc[lock[t]] \in Holding /\ call[lock[t]].tag = t
    /\ \A p \in Procs : pc[p] \in Holding => lock[call[p].tag] = p

SeenFull ==
    \A p \in Procs :
        pc[p] = "sleep" /\ call[p].op = "btput" /\ call[p].index = -1
        => \A i \in Slots : msgs[call[p].tag][i] # Empty

WakesFromFirst == \A p \in Procs : pc[p] # "wakeup" => call[p].next = 1

InSession == \A p \in Procs : pc[p] # "user" => call[p].tag \in inUse

(* With one topic in use, tweetcounter or what a process is about to store *)
(* in it is the number of the messages.                                    *)
Counted ==
    Cardinality(inUse) = 1 =>
        /\ \A p \in Procs : pc[p] = "save" =>
               SavedCount(p) = Cardinality(Occupied) + phantom
        /\ (\A p \in Procs : pc[p] # "save") =>
               tweetcounter = Cardinality(Occupied) + phantom

IInv == /\ TypeOK /\ IndexRight /\ LockHeld /\ SeenFull /\ WakesFromFirst
        /\ InSession /\ TweetsConserved /\ NoMissedSlot /\ Counted

------------------------------------------------------------------------------
(* A set of natural numbers has a least one: the intervals below its       *)
(* members are finite sets, which strict inclusion orders well.            *)
LEMMA HasLeast ==
    ASSUME NEW S \in SUBSET Nat, S # {}
    PROVE  \E i \in S : \A j \in S : i <= j
<1> DEFINE F == {0 .. i : i \in S}
           R == StrictSubsetOrdering(Nat)
<1>1. F # {} /\ F \subseteq FiniteSubsetsOf(Nat)
  <2>1. \A i \in Nat : IsFiniteSet(0 .. i) /\ (0 .. i) \subseteq Nat
    BY FS_Interval
  <2> QED
    BY <2>1 DEF FiniteSubsetsOf
<1>2. IsWellFoundedOn(R, FiniteSubsetsOf(Nat))
  BY FS_StrictSubsetOrderingWellFounded
<1>3. \E x \in F : \A y \in F : <<y, x>> \notin R
  <2> HIDE DEF F, R
  <2> QED
    BY <1>1, <1>2, WFMin
<1>4. PICK m \in S : \A j \in S : <<0 .. j, 0 .. m>> \notin R
  BY <1>3
<1>5. ASSUME NEW j \in S, j < m PROVE FALSE
  <2>1. /\ (0 .. j) \subseteq (0 .. m) /\ m \in 0 .. m /\ m \notin 0 .. j
        /\ (0 .. j) \subseteq Nat /\ (0 .. m) \subseteq Nat
    BY <1>5
  <2> QED
    BY <1>4, <2>1 DEF StrictSubsetOrdering
<1> QED
  BY <1>5

LEMMA FirstIs ==
    ASSUME NEW S \in SUBSET Slots
    PROVE  /\ First(S) \in S \cup {-1}
           /\ First(S) = -1 <=> S = {}
<1>1. MAXTAGTWEET \in Nat \ {0} /\ Slots \subseteq Nat
  BY TweetAssumption DEF Slots
<1>2. CASE S = {}
  BY <1>2 DEF First
<1>3. CASE S # {}
  <2>1. \E i \in S : \A j \in S : i <= j
    BY <1>1, <1>3, HasLeast
  <2>2. First(S) \in S
    BY <1>3, <2>1 DEF First
  <2>3. -1 \notin S
    BY <1>1
  <2> QED
    BY <1>3, <2>2, <2>3
<1> QED
  BY <1>2, <1>3

(* What the two lookups find, and the first one after a step.              *)
LEMMA IndexIs ==
    ASSUME NEW t
    PROVE  /\ getemptyindex(t) \in Slots \cup {-1}
           /\ gettagindex(t) \in Slots \cup {-1}
           /\ getemptyindex(t) # -1 => msgs[t][getemptyindex(t)] = Empty
           /\ getemptyindex(t) = -1 <=> \A i \in Slots : msgs[t][i] # Empty
BY FirstIs DEF getemptyindex, gettagindex

LEMMA NextEmptyIndexIs ==
    ASSUME NEW t
    PROVE  getemptyindex(t)' = -1 <=> \A i \in Slots : msgs'[t][i] # Empty
BY FirstIs DEF getemptyindex

LEMMA SlotsAre == /\ Slots \subseteq Nat /\ -1 \notin Slots
                  /\ MAXTAGTWEET - 1 \in Slots /\ Topics \subseteq Nat
BY TweetAssumption DEF Slots, Topics

LEMMA InitIsTyped == Init => TypeOK
<1>1. 0 \in Topics /\ 1 \in Procs /\ "user" \in PCs
  BY TweetAssumption DEF Topics, Procs, PCs
<1> QED
  BY <1>1, TweetAssumption
  DEF Init, TypeOK, NoCall, Ops, Empty, Free

------------------------------------------------------------------------------
(* The type of a process's call, and what the steps do to it: nobody but   *)
(* the process itself changes it.                                          *)
CallType == [op : Ops, tag : Topics, index : Slots \cup {-1}, temp : Int,
             next : Procs, got : Nat \cup {Garbled}]

LEMMA CallUpdates ==
    ASSUME NEW c \in CallType
    PROVE  /\ NoCall \in CallType
           /\ \A o \in Ops, t \in Topics : [c EXCEPT !.op = o, !.tag = t] \in CallType
           /\ \A i \in Slots \cup {-1} : [c EXCEPT !.index = i] \in CallType
           /\ \A n \in Int : [c EXCEPT !.temp = n] \in CallType
           /\ \A n \in Int, m \in Nat \cup {Garbled} :
                  [c EXCEPT !.temp = n, !.got = m] \in CallType
           /\ \A q \in Procs : [c EXCEPT !.next = q] \in CallType
<1>1. 0 \in Topics /\ 1 \in Procs
  BY TweetAssumption DEF Topics, Procs
<1>2. NoCall \in CallType
  BY <1>1 DEF NoCall, CallType, Ops, Empty
<1> QED
  BY <1>2 DEF CallType

LEMMA FieldsAre ==
    ASSUME NEW c \in CallType
    PROVE  /\ c.op \in Ops /\ c.tag \in Topics /\ c.index \in Slots \cup {-1}
           /\ c.temp \in Int /\ c.next \in Procs /\ c.got \in Nat \cup {Garbled}
BY DEF CallType

LEMMA CallAfter ==
    ASSUME call \in [Procs -> CallType], NEW p \in Procs
    PROVE  /\ \A o \in Ops, t \in Topics :
                  call' = [call EXCEPT ![p].op = o, ![p].tag = t]
                  => call' = [call EXCEPT ![p] = [call[p] EXCEPT !.op = o, !.tag = t]]
           /\ \A n \in Int, m \in Nat \cup {Garbled} :
                  call' = [call EXCEPT ![p].temp = n, ![p].got = m]
                  => call' = [call EXCEPT ![p] = [call[p] EXCEPT !.temp = n, !.got = m]]
BY DEF CallType
LEMMA TypeIs ==
    TypeOK <=> /\ tweetcounter \in Int /\ phantom \in Int
               /\ msgs \in [Topics -> [Slots -> Nat \cup {Garbled}]]
               /\ lock \in [Topics -> Procs \cup {Free}]
               /\ inUse \in SUBSET Topics /\ killed \in SUBSET Procs
               /\ pc \in [Procs -> PCs] /\ call \in [Procs -> CallType]
               /\ calls \in 0 .. MaxCalls /\ sent \in Nat
               /\ received \in SUBSET Nat /\ lost \in SUBSET Nat
               /\ residue \in SUBSET Topics
BY DEF TypeOK, CallType

(* What Enter does: the call goes on under the lock, or returns.           *)
LEMMA EnterIs ==
    ASSUME NEW p \in Procs, Enter(p)
    PROVE  /\ pc[p] \in {"acquire", "reacquire"} /\ lock[call[p].tag] = Free
           /\ \/ \E i \in Slots \cup {-1}, l \in {"update", "sleep"} :
                   /\ i = Lookup(p) /\ (l = "update" <=> Proceeds(call[p].op, i))
                   /\ l = "sleep" => call[p].op \in Blocking
                   /\ lock' = [lock EXCEPT ![call[p].tag] = p]
                   /\ call' = [call EXCEPT ![p] = [call[p] EXCEPT !.index = i]]
                   /\ pc' = [pc EXCEPT ![p] = l]
              \/ /\ lock' = [lock EXCEPT ![call[p].tag] = Free]
                 /\ call' = [call EXCEPT ![p] = NoCall]
                 /\ pc' = [pc EXCEPT ![p] = "user"]
           /\ UNCHANGED <<tweetcounter, buffer, session>>
<1> DEFINE i == Lookup(p)
<1>1. i \in Slots \cup {-1}
  BY IndexIs DEF Lookup
<1>2. CASE Proceeds(call[p].op, i) \/ call[p].op \in Blocking
  <2>1. /\ lock' = [lock EXCEPT ![call[p].tag] = p]
        /\ call' = [call EXCEPT ![p].index = i]
        /\ pc' = [pc EXCEPT ![p] = IF Proceeds(call[p].op, i) THEN "update" ELSE "sleep"]
    BY <1>2 DEF Enter, GoTo
  <2> HIDE DEF i
  <2> DEFINE l == IF Proceeds(call[p].op, i) THEN "update" ELSE "sleep"
  <2>2. /\ l \in {"update", "sleep"} /\ (l = "update" <=> Proceeds(call[p].op, i))
        /\ l = "sleep" => call[p].op \in Blocking
    BY <1>2
  <2>3. call' = [call EXCEPT ![p] = [call[p] EXCEPT !.index = i]]
    BY <2>1
  <2>4. pc' = [pc EXCEPT ![p] = l]
    BY <2>1
  <2> HIDE DEF l
  <2> QED
    BY <1>1, <2>1, <2>2, <2>3, <2>4 DEF Enter, i
<1>3. CASE ~ (Proceeds(call[p].op, i) \/ call[p].op \in Blocking)
  BY <1>3 DEF Enter, Refuse, Return, Release, GoTo
<1> QED
  BY <1>2, <1>3 DEF Enter

(* What UpdateGet does: btget() gives up when its copyout fails, or the    *)
(* slot is emptied.                                                        *)
LEMMA UpdateGetIs ==
    ASSUME TypeOK, IndexRight, NEW p \in Procs, UpdateGet(p)
    PROVE  LET t == call[p].tag   i == call[p].index   m == msgs[t][i] IN
           /\ pc[p] = "update" /\ call[p].op \in Gets
           /\ t \in Topics /\ i \in Slots /\ m \in Nat \cup {Garbled}
           /\ \/ /\ lock' = [lock EXCEPT ![t] = Free]
                 /\ call' = [call EXCEPT ![p] = NoCall]
                 /\ pc' = [pc EXCEPT ![p] = "user"]
                 /\ UNCHANGED buffer
              \/ /\ \E copied \in BOOLEAN : Take(t, i, copied)
                 /\ call' = [call EXCEPT ![p] =
                                [call[p] EXCEPT !.temp = tweetcounter, !.got = m]]
                 /\ pc' = [pc EXCEPT ![p] = "save"]
                 /\ UNCHANGED <<sent, lock>>
           /\ UNCHANGED <<tweetcounter, session>>
<1> DEFINE t == call[p].tag   i == call[p].index   m == msgs[t][i]
<1>1. /\ pc[p] = "update" /\ call[p].op \in Gets
      /\ UNCHANGED <<tweetcounter, session>>
  BY DEF UpdateGet
<1>2. t \in Topics /\ i \in Slots
  <2>1. i # -1
    BY <1>1 DEF IndexRight, Gets
  <2> QED
    BY <2>1, TypeIs, FieldsAre
<1>3. m \in Nat \cup {Garbled}
  BY <1>2, TypeIs
<1>4. PICK copied \in CopyoutResults :
        IF call[p].op = "btget" /\ ~copied
        THEN Refuse(p) /\ UNCHANGED buffer
        ELSE /\ Take(t, i, copied) /\ UNCHANGED <<sent, lock>>
             /\ call' = [call EXCEPT ![p].temp = tweetcounter, ![p].got = m]
             /\ GoTo(p, "save")
  BY DEF UpdateGet
<1>5. CASE Refuse(p) /\ UNCHANGED buffer
  BY <1>1, <1>2, <1>3, <1>5 DEF Refuse, Return, Release, GoTo
<1>6. CASE /\ Take(t, i, copied) /\ UNCHANGED <<sent, lock>>
           /\ call' = [call EXCEPT ![p].temp = tweetcounter, ![p].got = m]
           /\ GoTo(p, "save")
  <2>1. tweetcounter \in Int /\ call \in [Procs -> CallType]
    BY TypeIs
  <2>2. copied \in BOOLEAN
    BY TweetAssumption
  <2>3. call' = [call EXCEPT ![p] =
                    [call[p] EXCEPT !.temp = tweetcounter, !.got = m]]
    <3> HIDE DEF m
    <3> QED
      BY <1>3, <1>6, <2>1, CallAfter
  <2>4. pc' = [pc EXCEPT ![p] = "save"]
    BY <1>6 DEF GoTo
  <2> QED
    BY <1>1, <1>2, <1>3, <1>6, <2>2, <2>3, <2>4
<1> QED
  BY <1>4, <1>5, <1>6

(* A message of its own or a damaged one comes into slot i of topic t.     *)
Fills(t, i) ==
    \E v \in {sent + 1, Garbled} :
       /\ msgs' = [msgs EXCEPT ![t][i] = v]
       /\ lost' = IF v = Garbled THEN lost \cup {sent + 1} ELSE lost
       /\ sent' = sent + 1
       /\ UNCHANGED phantom

LEMMA StoreFills ==
    ASSUME sent \in Nat, NEW t, NEW i, StoreInSlot(t, i)
    PROVE  Fills(t, i)
<1>1. sent + 1 # Garbled
  BY DEF Garbled
<1>2. sent' = sent + 1 /\ UNCHANGED phantom
  BY DEF StoreInSlot
<1>3. CASE msgs' = [msgs EXCEPT ![t][i] = sent + 1] /\ UNCHANGED lost
  BY <1>1, <1>2, <1>3 DEF Fills
<1>4. CASE msgs' = [msgs EXCEPT ![t][i] = Garbled] /\ lost' = lost \cup {sent + 1}
  BY <1>1, <1>2, <1>4 DEF Fills
<1> QED
  BY <1>3, <1>4 DEF StoreInSlot

LEMMA FillsIs ==
    ASSUME sent \in Nat, NEW t, NEW i, Fills(t, i)
    PROVE  \E v \in Nat \cup {Garbled} :
              /\ v # 0 /\ msgs' = [msgs EXCEPT ![t][i] = v]
              /\ lost' = lost \cup {sent + 1} \/ lost' = lost
              /\ sent' = sent + 1
              /\ phantom' = phantom
<1>1. \A v \in {sent + 1, Garbled} : v \in Nat \cup {Garbled} /\ v # 0
  BY DEF Garbled
<1>2. PICK v \in {sent + 1, Garbled} :
         /\ msgs' = [msgs EXCEPT ![t][i] = v]
         /\ lost' = IF v = Garbled THEN lost \cup {sent + 1} ELSE lost
         /\ sent' = sent + 1
         /\ UNCHANGED phantom
  BY DEF Fills
<1>3. v \in Nat \cup {Garbled} /\ v # 0
  BY <1>1
<1>4. lost' = lost \cup {sent + 1} \/ lost' = lost
  BY <1>2
<1> QED
  BY <1>2, <1>3, <1>4

(* What UpdatePut does: a message in the slot that was empty, or nothing   *)
(* in any slot, or a message of the topic before damaged.                  *)
LEMMA UpdatePutIs ==
    ASSUME TypeOK, IndexRight, NEW p \in Procs, UpdatePut(p)
    PROVE  LET t == call[p].tag   i == call[p].index IN
           /\ pc[p] = "update" /\ call[p].op \in Puts /\ t \in Topics
           /\ \/ i \in Slots /\ msgs[t][i] = Empty /\ Fills(t, i)
              \/ /\ phantom' = phantom + 1
                 /\ UNCHANGED <<msgs, sent, lost>>
              \/ \E u \in Topics, j \in Slots :
                    /\ msgs[u][j] \in Nat \ {0}
                    /\ msgs' = [msgs EXCEPT ![u][j] = Garbled]
                    /\ lost' = lost \cup {msgs[u][j]}
                    /\ phantom' = phantom + 1
                    /\ UNCHANGED sent
           /\ call' = [call EXCEPT ![p] = [call[p] EXCEPT !.temp = tweetcounter]]
           /\ pc' = [pc EXCEPT ![p] = "save"]
           /\ residue' \in SUBSET Topics
           /\ UNCHANGED <<tweetcounter, received, lock, session>>
<1> DEFINE t == call[p].tag   i == call[p].index
<1>1. /\ pc[p] = "update" /\ call[p].op \in Puts
      /\ pc' = [pc EXCEPT ![p] = "save"]
      /\ UNCHANGED <<tweetcounter, received, lock, session>>
      /\ call' = [call EXCEPT ![p] = [call[p] EXCEPT !.temp = tweetcounter]]
  BY DEF UpdatePut, GoTo
<1>2. t \in Topics /\ i \in Slots \cup {-1}
  BY TypeIs, FieldsAre
<1>r. residue \in SUBSET Topics /\ sent \in Nat
  BY TypeIs
<1>3. CASE i = -1
  <2>1. StoreStray(t)
    BY <1>3 DEF UpdatePut
  <2>r. residue' \in SUBSET Topics
    <3>1. t # 0 => t - 1 \in Topics
      BY <1>2, TweetAssumption DEF Topics
    <3> HIDE DEF t
    <3>2. residue' = residue \/ (t # 0 /\ residue' = residue \cup {t - 1})
      BY <2>1 DEF StoreStray
    <3> QED
      BY <1>r, <3>1, <3>2
  <2>2. CASE UNCHANGED <<msgs, lost>>
    BY <1>1, <1>2, <2>1, <2>2, <2>r DEF StoreStray
  <2>3. CASE ~ UNCHANGED <<msgs, lost>>
    <3> DEFINE j == LastSlot   u == t - 1
    <3>1. /\ t # 0 /\ msgs[u][j] > 0
          /\ msgs' = [msgs EXCEPT ![u][j] = Garbled]
          /\ lost' = lost \cup {msgs[u][j]}
          /\ phantom' = phantom + 1
          /\ UNCHANGED sent
      BY <2>1, <2>3 DEF StoreStray, Empty
    <3>2. u \in Topics /\ j \in Slots
      BY <1>2, <3>1, TweetAssumption DEF Topics, Slots, LastSlot
    <3>3. msgs[u][j] \in Nat \ {0}
      <4>1. msgs[u][j] \in Nat \cup {Garbled}
        BY <3>2, TypeIs
      <4> QED
        BY <3>1, <4>1 DEF Garbled
    <3> HIDE DEF j, u
    <3> QED
      BY <1>1, <1>2, <2>r, <3>1, <3>2, <3>3
  <2> QED
    BY <2>2, <2>3
<1>4. CASE i # -1
  <2>1. msgs[t][i] = Empty
    BY <1>1, <1>4 DEF IndexRight
  <2>2. StoreInSlot(t, i) \/ StoreEmpty
    BY <1>4 DEF UpdatePut
  <2> HIDE DEF t, i
  <2>3. CASE StoreInSlot(t, i)
    <3>1. Fills(t, i)
      BY <1>r, <2>3, StoreFills
    <3>2. residue' \in SUBSET Topics
      BY <1>r, <2>3 DEF StoreInSlot, ResidueWithout
    <3> QED
      BY <1>1, <1>2, <1>4, <2>1, <3>1, <3>2 DEF t, i
  <2>4. CASE StoreEmpty
    BY <1>1, <1>2, <1>r, <2>4 DEF StoreEmpty, t, i
  <2> QED
    BY <2>2, <2>3, <2>4
<1> QED
  BY <1>3, <1>4
(* Wakeup looks at one process, and returns after the last.                *)
LEMMA WakeupIs ==
    ASSUME TypeOK, NEW p \in Procs, Wakeup(p)
    PROVE  \E q \in Procs, woken \in [Procs -> PCs] :
           /\ pc[p] = "wakeup" /\ q = call[p].next
           /\ woken = [pc EXCEPT ![q] = woken[q]]
           /\ IF pc[q] = "asleep" /\ SleepChan(call[q].op) = WakeChan(call[p].op)
              THEN woken[q] = "reacquire" ELSE woken[q] = pc[q]
           /\ \/ /\ q = NPROC
                 /\ pc' = [woken EXCEPT ![p] = "user"]
                 /\ call' = [call EXCEPT ![p] = NoCall]
                 /\ lock' = [lock EXCEPT ![call[p].tag] = Free]
              \/ /\ q # NPROC /\ q + 1 \in Procs
                 /\ pc' = woken
                 /\ call' = [call EXCEPT ![p] = [call[p] EXCEPT !.next = q + 1]]
                 /\ UNCHANGED lock
           /\ UNCHANGED <<tweetcounter, buffer, session>>
<1> DEFINE q == call[p].next
           wakes == pc[q] = "asleep" /\ SleepChan(call[q].op) = WakeChan(call[p].op)
           woken == IF wakes THEN [pc EXCEPT ![q] = "reacquire"] ELSE pc
<1>1. q \in Procs /\ pc \in [Procs -> PCs]
  BY TypeIs, FieldsAre
<1>2. /\ woken \in [Procs -> PCs] /\ woken = [pc EXCEPT ![q] = woken[q]]
      /\ IF wakes THEN woken[q] = "reacquire" ELSE woken[q] = pc[q]
  BY <1>1 DEF PCs
<1>3. /\ pc[p] = "wakeup" /\ UNCHANGED <<tweetcounter, buffer, session>>
      /\ q = NPROC => /\ pc' = [woken EXCEPT ![p] = "user"]
                      /\ call' = [call EXCEPT ![p] = NoCall]
                      /\ lock' = [lock EXCEPT ![call[p].tag] = Free]
      /\ q # NPROC => /\ pc' = woken
                      /\ call' = [call EXCEPT ![p] = [call[p] EXCEPT !.next = q + 1]]
                      /\ UNCHANGED lock
  BY DEF Wakeup, Release
<1>4. q # NPROC => q + 1 \in Procs
  <2> HIDE DEF q
  <2> QED
    BY <1>1, TweetAssumption DEF Procs
<1> HIDE DEF q, woken
<1> USE <1>1, <1>2
<1> WITNESS q \in Procs, woken \in [Procs -> PCs]
<1>5. q = call[p].next
  BY DEF q
<1> QED
  BY <1>2, <1>3, <1>4, <1>5

(* The slots after a store of m in one of them.                            *)
LEMMA SlotAfter ==
    ASSUME NEW M, NEW f \in [Topics -> [Slots -> M]], NEW m \in M,
           NEW t \in Topics, NEW i \in Slots
    PROVE  /\ [f EXCEPT ![t][i] = m] \in [Topics -> [Slots -> M]]
           /\ \A u \in Topics, j \in Slots :
                  [f EXCEPT ![t][i] = m][u][j] =
                      IF u = t /\ j = i THEN m ELSE f[u][j]
OBVIOUS

LEMMA TypeStep == TypeOK /\ IndexRight /\ [Next]_vars => TypeOK'
<1> SUFFICES ASSUME TypeOK, IndexRight, [Next]_vars PROVE TypeOK'
  OBVIOUS
<1>t. /\ tweetcounter \in Int /\ phantom \in Int
      /\ msgs \in [Topics -> [Slots -> Nat \cup {Garbled}]]
      /\ lock \in [Topics -> Procs \cup {Free}]
      /\ inUse \in SUBSET Topics /\ killed \in SUBSET Procs
      /\ pc \in [Procs -> PCs] /\ call \in [Procs -> CallType]
      /\ calls \in 0 .. MaxCalls /\ sent \in Nat
      /\ received \in SUBSET Nat /\ lost \in SUBSET Nat
      /\ residue \in SUBSET Topics
  BY TypeIs
<1>s. SUFFICES
      /\ tweetcounter' \in Int /\ phantom' \in Int
      /\ msgs' \in [Topics -> [Slots -> Nat \cup {Garbled}]]
      /\ lock' \in [Topics -> Procs \cup {Free}]
      /\ inUse' \in SUBSET Topics /\ killed' \in SUBSET Procs
      /\ pc' \in [Procs -> PCs] /\ call' \in [Procs -> CallType]
      /\ calls' \in 0 .. MaxCalls /\ sent' \in Nat
      /\ received' \in SUBSET Nat /\ lost' \in SUBSET Nat
      /\ residue' \in SUBSET Topics
  BY DEF TypeOK, CallType
<1>c. \A p \in Procs : call[p] \in CallType /\ call[p].tag \in Topics
  BY <1>t, FieldsAre
<1> USE DEF session, buffer, PCs
<1>1. ASSUME NEW p \in Procs, NEW o \in Ops, NEW t \in inUse, Call(p, o, t)
      PROVE  <1>s!1
  <2>1. t \in Topics /\ call' = [call EXCEPT ![p].op = o, ![p].tag = t]
        /\ calls < MaxCalls /\ calls' = calls + 1 /\ MaxCalls \in Nat
    BY <1>1, <1>t, TweetAssumption DEF Call
  <2>2. call' \in [Procs -> CallType]
    BY <1>t, <1>c, <2>1, CallAfter, CallUpdates
  <2> QED
    BY <1>1, <1>t, <2>1, <2>2 DEF Call, GoTo
<1>2. ASSUME NEW p \in Procs, Enter(p) PROVE <1>s!1
  <2>a. /\ \A i \in Slots \cup {-1} : [call[p] EXCEPT !.index = i] \in CallType
        /\ NoCall \in CallType
    BY <1>c, CallUpdates
  <2>b. \/ \E i \in Slots \cup {-1} :
              call' = [call EXCEPT ![p] = [call[p] EXCEPT !.index = i]]
        \/ call' = [call EXCEPT ![p] = NoCall]
    BY <1>2, EnterIs
  <2>1. call' \in [Procs -> CallType]
    BY <1>t, <2>a, <2>b
  <2>2. pc' \in [Procs -> PCs] /\ lock' \in [Topics -> Procs \cup {Free}]
    BY <1>2, <1>t, <1>c, EnterIs
  <2>3. UNCHANGED <<tweetcounter, msgs, sent, received, lost, phantom, residue,
                    inUse, killed, calls>>
    BY <1>2, EnterIs
  <2> QED
    BY <1>t, <2>1, <2>2, <2>3
<1>3. ASSUME NEW p \in Procs, Sleep(p) PROVE <1>s!1
  BY <1>3, <1>t, <1>c DEF Sleep, Release, GoTo
<1>4. ASSUME NEW p \in Procs, UpdatePut(p) PROVE <1>s!1
  <2>a. [call[p] EXCEPT !.temp = tweetcounter] \in CallType
    BY <1>t, <1>c, CallUpdates
  <2>b. call' = [call EXCEPT ![p] = [call[p] EXCEPT !.temp = tweetcounter]]
    BY <1>4, UpdatePutIs
  <2>1. call' \in [Procs -> CallType]
    BY <1>t, <2>a, <2>b
  <2>c. \/ /\ call[p].index \in Slots /\ call[p].tag \in Topics
           /\ Fills(call[p].tag, call[p].index)
        \/ phantom' = phantom + 1 /\ UNCHANGED <<msgs, sent, lost>>
        \/ \E u \in Topics, j \in Slots :
              /\ msgs[u][j] \in Nat \ {0}
              /\ msgs' = [msgs EXCEPT ![u][j] = Garbled]
              /\ lost' = lost \cup {msgs[u][j]}
              /\ phantom' = phantom + 1
              /\ UNCHANGED sent
    BY <1>4, UpdatePutIs
  <2>2. /\ msgs' \in [Topics -> [Slots -> Nat \cup {Garbled}]]
        /\ sent' \in Nat /\ lost' \in SUBSET Nat /\ phantom' \in Int
    <3> DEFINE t == call[p].tag   i == call[p].index
    <3> HIDE DEF t, i
    <3>1. CASE t \in Topics /\ i \in Slots /\ Fills(t, i)
      <4>1. PICK v \in Nat \cup {Garbled} :
               /\ msgs' = [msgs EXCEPT ![t][i] = v]
               /\ lost' = lost \cup {sent + 1} \/ lost' = lost
               /\ sent' = sent + 1 /\ UNCHANGED phantom
        BY <1>t, <3>1, FillsIs
      <4>2. [msgs EXCEPT ![t][i] = v] \in [Topics -> [Slots -> Nat \cup {Garbled}]]
        BY <1>t, <3>1, <4>1, SlotAfter
      <4>3. sent + 1 \in Nat
        BY <1>t
      <4>4. sent' \in Nat /\ lost' \in SUBSET Nat
        BY <1>t, <4>1, <4>3
      <4> QED
        BY <1>t, <4>1, <4>2, <4>4
    <3>2. CASE phantom' = phantom + 1 /\ UNCHANGED <<msgs, sent, lost>>
      BY <1>t, <3>2
    <3>3. CASE \E u \in Topics, j \in Slots :
                 /\ msgs[u][j] \in Nat \ {0}
                 /\ msgs' = [msgs EXCEPT ![u][j] = Garbled]
                 /\ lost' = lost \cup {msgs[u][j]}
                 /\ phantom' = phantom + 1
                 /\ UNCHANGED sent
      <4>1. PICK u \in Topics, j \in Slots :
               /\ msgs[u][j] \in Nat
               /\ msgs' = [msgs EXCEPT ![u][j] = Garbled]
               /\ lost' = lost \cup {msgs[u][j]}
               /\ phantom' = phantom + 1
               /\ UNCHANGED sent
        BY <3>3
      <4>2. msgs' \in [Topics -> [Slots -> Nat \cup {Garbled}]]
        BY <1>t, <4>1, SlotAfter
      <4>3. lost' \in SUBSET Nat
        BY <1>t, <4>1
      <4> QED
        BY <1>t, <4>1, <4>2, <4>3
    <3> QED
      BY <2>c, <3>1, <3>2, <3>3 DEF t, i
  <2> QED
    BY <1>4, <1>t, <2>1, <2>2, UpdatePutIs
<1>5. ASSUME NEW p \in Procs, UpdateGet(p) PROVE <1>s!1
  <2> DEFINE t == call[p].tag   i == call[p].index   m == msgs[t][i]
  <2>0. t \in Topics /\ i \in Slots /\ m \in Nat \cup {Garbled}
    BY <1>5, UpdateGetIs
  <2>a. /\ [call[p] EXCEPT !.temp = tweetcounter, !.got = m] \in CallType
        /\ NoCall \in CallType
    <3> HIDE DEF m
    <3> QED
      BY <1>t, <1>c, <2>0, CallUpdates
  <2>b. \/ call' = [call EXCEPT ![p] =
                     [call[p] EXCEPT !.temp = tweetcounter, !.got = m]]
        \/ call' = [call EXCEPT ![p] = NoCall]
    BY <1>5, UpdateGetIs
  <2>1. call' \in [Procs -> CallType]
    BY <1>t, <2>a, <2>b
  <2>2. /\ msgs' \in [Topics -> [Slots -> Nat \cup {Garbled}]]
        /\ received' \in SUBSET Nat /\ lost' \in SUBSET Nat /\ phantom' \in Int
    <3>1. CASE UNCHANGED buffer
      BY <3>1, <1>t
    <3>2. CASE \E copied \in BOOLEAN : Take(t, i, copied)
      <4>1. PICK copied \in BOOLEAN : Take(t, i, copied)
        BY <3>2
      <4>2. /\ msgs' = [msgs EXCEPT ![t][i] = Empty]
            /\ received' = received \/ (received' = received \cup {m} /\ m \in Nat)
            /\ lost' = lost \/ (lost' = lost \cup {m} /\ m \in Nat)
            /\ phantom' = phantom - 1 \/ phantom' = phantom
        <5> HIDE DEF t, i
        <5> QED
          BY <2>0, <4>1 DEF Take, Garbled
      <4>3. Empty \in Nat \cup {Garbled}
        BY DEF Empty
      <4> HIDE DEF t, i, m
      <4>4. [msgs EXCEPT ![t][i] = Empty] \in [Topics -> [Slots -> Nat \cup {Garbled}]]
        BY <1>t, <2>0, <4>3, SlotAfter
      <4>5. received' \in SUBSET Nat /\ lost' \in SUBSET Nat
        BY <1>t, <4>2
      <4>6. phantom' \in Int
        BY <1>t, <4>2
      <4> QED
        BY <4>2, <4>4, <4>5, <4>6
    <3> QED
      BY <1>5, <3>1, <3>2, UpdateGetIs
  <2>3. residue' \in SUBSET Topics
    <3>1. residue' = residue \/ residue' = residue \ {t}
      <4> HIDE DEF t, i
      <4>1. UNCHANGED buffer \/ \E copied \in BOOLEAN : Take(t, i, copied)
        BY <1>5, UpdateGetIs DEF t, i
      <4> QED
        BY <4>1 DEF Take, ResidueWithout
    <3> QED
      BY <1>t, <3>1
  <2>4. /\ pc' \in [Procs -> PCs] /\ lock' \in [Topics -> Procs \cup {Free}]
        /\ sent' \in Nat
        /\ UNCHANGED <<tweetcounter, inUse, killed, calls>>
    BY <1>5, <1>t, <1>c, UpdateGetIs
  <2> QED
    BY <1>t, <2>1, <2>2, <2>3, <2>4
<1>6. ASSUME NEW p \in Procs, Save(p) PROVE <1>s!1
  BY <1>6, <1>t, <1>c, FieldsAre DEF Save, SavedCount, GoTo
<1>7. ASSUME NEW p \in Procs, Wakeup(p) PROVE <1>s!1
  <2>1. call' \in [Procs -> CallType]
    <3>1. /\ \A q \in Procs : [call[p] EXCEPT !.next = q] \in CallType
          /\ NoCall \in CallType
      BY <1>c, CallUpdates
    <3>2. \/ \E q \in Procs : call' = [call EXCEPT ![p] = [call[p] EXCEPT !.next = q]]
          \/ call' = [call EXCEPT ![p] = NoCall]
      BY <1>7, WakeupIs
    <3> QED
      BY <1>t, <3>1, <3>2
  <2> QED
    BY <1>7, <1>t, <1>c, <2>1, WakeupIs
<1>8. ASSUME NEW p \in Procs, Kill(p) PROVE <1>s!1
  BY <1>8, <1>t DEF Kill
<1>9. CASE UNCHANGED vars
  BY <1>9, <1>t DEF vars
<1> QED
  BY <1>1, <1>2, <1>3, <1>4, <1>5, <1>6, <1>7, <1>8, <1>9 DEF Next, Step
------------------------------------------------------------------------------
(* A process that does not act itself stays where it is, or is woken.      *)
LEMMA OthersStay ==
    ASSUME TypeOK, IndexRight, NEW p \in Procs, Step(p), NEW r \in Procs \ {p}
    PROVE  \/ pc'[r] = pc[r] /\ call'[r] = call[r]
           \/ pc[r] = "asleep" /\ pc'[r] = "reacquire" /\ call'[r] = call[r]
<1>t. pc \in [Procs -> PCs] /\ call \in [Procs -> CallType]
  BY TypeIs
<1>2. CASE Enter(p)
  <2>1. \E c, l : /\ call' = [call EXCEPT ![p] = c]
                  /\ pc' = [pc EXCEPT ![p] = l]
    BY <1>2, EnterIs
  <2> QED
    BY <1>t, <2>1
<1>3. CASE Sleep(p)
  BY <1>3, <1>t DEF Sleep, GoTo
<1>4. CASE UpdatePut(p)
  <2>1. \E c, l : /\ call' = [call EXCEPT ![p] = c]
                  /\ pc' = [pc EXCEPT ![p] = l]
    BY <1>4, UpdatePutIs
  <2> QED
    BY <1>t, <2>1
<1>5. CASE UpdateGet(p)
  <2>1. \/ /\ call' = [call EXCEPT ![p] = NoCall]
           /\ pc' = [pc EXCEPT ![p] = "user"]
        \/ /\ call' = [call EXCEPT ![p] = [call[p] EXCEPT
                          !.temp = tweetcounter,
                          !.got = msgs[call[p].tag][call[p].index]]]
           /\ pc' = [pc EXCEPT ![p] = "save"]
    BY <1>5, UpdateGetIs
  <2> QED
    BY <1>t, <2>1
<1>6. CASE Save(p)
  BY <1>6, <1>t DEF Save, GoTo
<1>7. CASE Wakeup(p)
  <2>1. call'[r] = call[r]
    BY <1>7, <1>t, WakeupIs
  <2>2. PICK q \in Procs, woken \in [Procs -> PCs] :
           /\ woken = [pc EXCEPT ![q] = woken[q]]
           /\ \/ pc[q] = "asleep" /\ woken[q] = "reacquire"
              \/ woken[q] = pc[q]
           /\ pc' = [woken EXCEPT ![p] = "user"] \/ pc' = woken
    BY <1>7, WakeupIs
  <2>3. pc'[r] = woken[r]
    BY <1>7, <2>2
  <2>4. woken[r] = pc[r] \/ (pc[r] = "asleep" /\ woken[r] = "reacquire")
    BY <1>t, <2>2
  <2> QED
    BY <2>1, <2>3, <2>4
<1> QED
  BY <1>2, <1>3, <1>4, <1>5, <1>6, <1>7 DEF Step

LEMMA Moves ==
    ASSUME TypeOK, IndexRight, [Next]_vars, NEW r \in Procs
    PROVE  \/ pc'[r] = pc[r] /\ call'[r] = call[r]
           \/ pc[r] = "asleep" /\ pc'[r] = "reacquire" /\ call'[r] = call[r]
           \/ \E o \in Ops, t \in inUse : Call(r, o, t)
           \/ Step(r)
<1>t. pc \in [Procs -> PCs] /\ call \in [Procs -> CallType]
  BY TypeIs
<1>1. ASSUME NEW p \in Procs, p # r, NEW o \in Ops, NEW t \in inUse, Call(p, o, t)
      PROVE  pc'[r] = pc[r] /\ call'[r] = call[r]
  BY <1>1, <1>t DEF Call, GoTo
<1>2. ASSUME NEW p \in Procs, p # r, Step(p)
      PROVE  \/ pc'[r] = pc[r] /\ call'[r] = call[r]
             \/ pc[r] = "asleep" /\ pc'[r] = "reacquire" /\ call'[r] = call[r]
  BY <1>2, OthersStay
<1>3. ASSUME NEW p \in Procs, Kill(p)
      PROVE  \/ pc'[r] = pc[r] /\ call'[r] = call[r]
             \/ pc[r] = "asleep" /\ pc'[r] = "reacquire" /\ call'[r] = call[r]
  BY <1>3, <1>t DEF Kill
<1>4. CASE UNCHANGED vars
  BY <1>4 DEF vars
<1> QED
  BY <1>1, <1>2, <1>3, <1>4 DEF Next

(* A step that returns from the call forgets it.                           *)
LEMMA ReturnIs ==
    ASSUME TypeOK, IndexRight, NEW r \in Procs, Step(r), pc'[r] = "user"
    PROVE  call'[r] = NoCall
<1>t. pc \in [Procs -> PCs] /\ call \in [Procs -> CallType]
  BY TypeIs
<1>2. CASE Enter(r)
  BY <1>2, <1>t, EnterIs
<1>3. CASE Sleep(r)
  BY <1>3, <1>t DEF Sleep, GoTo
<1>4. CASE UpdatePut(r)
  BY <1>4, <1>t, UpdatePutIs
<1>5. CASE UpdateGet(r)
  BY <1>5, <1>t, UpdateGetIs
<1>6. CASE Save(r)
  BY <1>6, <1>t DEF Save, GoTo
<1>7. CASE Wakeup(r)
  <2>1. PICK q \in Procs, woken \in [Procs -> PCs] :
           /\ pc[r] = "wakeup"
           /\ woken = [pc EXCEPT ![q] = woken[q]]
           /\ \/ pc[q] = "asleep" /\ woken[q] = "reacquire"
              \/ woken[q] = pc[q]
           /\ \/ call' = [call EXCEPT ![r] = NoCall]
              \/ pc' = woken
    BY <1>7, WakeupIs
  <2>2. woken[r] = "wakeup"
    BY <1>t, <2>1
  <2> QED
    BY <1>t, <2>1, <2>2
<1> QED
  BY <1>2, <1>3, <1>4, <1>5, <1>6, <1>7 DEF Step

(* Where a process's own step leads, as far as the locks go.               *)
LEMMA OwnStep ==
    ASSUME TypeOK, IndexRight, NEW r \in Procs, Step(r)
    PROVE  LET t == call[r].tag IN
           /\ t \in Topics /\ UNCHANGED inUse
           /\ \/ /\ pc[r] \in {"acquire", "reacquire"} /\ lock[t] = Free
                 /\ pc'[r] \in {"update", "sleep"} /\ call'[r].tag = t
                 /\ lock' = [lock EXCEPT ![t] = r]
              \/ /\ pc[r] \in {"acquire", "reacquire"} /\ lock[t] = Free
                 /\ pc'[r] = "user" /\ lock' = [lock EXCEPT ![t] = Free]
              \/ /\ pc[r] \in Holding /\ pc'[r] \in Holding
                 /\ call'[r].tag = t /\ UNCHANGED lock
              \/ /\ pc[r] \in Holding /\ pc'[r] = "asleep"
                 /\ call'[r].tag = t /\ lock' = [lock EXCEPT ![t] = Free]
              \/ /\ pc[r] \in Holding /\ pc'[r] = "user"
                 /\ lock' = [lock EXCEPT ![t] = Free]
           /\ pc'[r] = "wakeup" /\ pc[r] # "wakeup" => call'[r] = call[r]
           /\ pc'[r] \notin {"user", "wakeup"} => call'[r].next = call[r].next
           /\ pc'[r] # "user" => call'[r].op = call[r].op
           /\ pc[r] = "wakeup" => pc'[r] \in {"user", "wakeup"}
<1>t. /\ pc \in [Procs -> PCs] /\ call \in [Procs -> CallType]
      /\ call[r].tag \in Topics /\ call[r] \in CallType
  BY TypeIs, FieldsAre
<1>u. UNCHANGED inUse
  BY DEF Step, Enter, Sleep, UpdatePut, UpdateGet, Save, Wakeup, session
<1> USE DEF Holding
<1>2. ASSUME Enter(r)
      PROVE  /\ pc[r] \in {"acquire", "reacquire"} /\ lock[call[r].tag] = Free
             /\ \/ /\ pc'[r] \in {"update", "sleep"} /\ call'[r].tag = call[r].tag
                   /\ lock' = [lock EXCEPT ![call[r].tag] = r]
                   /\ call'[r].next = call[r].next /\ call'[r].op = call[r].op
                \/ pc'[r] = "user" /\ lock' = [lock EXCEPT ![call[r].tag] = Free]
  <2>1. \A i : /\ [call[r] EXCEPT !.index = i].tag = call[r].tag
               /\ [call[r] EXCEPT !.index = i].next = call[r].next
               /\ [call[r] EXCEPT !.index = i].op = call[r].op
    BY <1>t DEF CallType
  <2>2. \/ \E i, l : /\ l \in {"update", "sleep"}
                     /\ lock' = [lock EXCEPT ![call[r].tag] = r]
                     /\ call' = [call EXCEPT ![r] = [call[r] EXCEPT !.index = i]]
                     /\ pc' = [pc EXCEPT ![r] = l]
        \/ lock' = [lock EXCEPT ![call[r].tag] = Free] /\ pc' = [pc EXCEPT ![r] = "user"]
    BY <1>2, EnterIs
  <2>0. pc[r] \in {"acquire", "reacquire"} /\ lock[call[r].tag] = Free
    BY <1>2, EnterIs
  <2>3. CASE \E i, l : /\ l \in {"update", "sleep"}
                       /\ lock' = [lock EXCEPT ![call[r].tag] = r]
                       /\ call' = [call EXCEPT ![r] = [call[r] EXCEPT !.index = i]]
                       /\ pc' = [pc EXCEPT ![r] = l]
    <3>1. PICK i, l : /\ l \in {"update", "sleep"}
                      /\ lock' = [lock EXCEPT ![call[r].tag] = r]
                      /\ call' = [call EXCEPT ![r] = [call[r] EXCEPT !.index = i]]
                      /\ pc' = [pc EXCEPT ![r] = l]
      BY <2>3
    <3>2. pc'[r] = l /\ call'[r] = [call[r] EXCEPT !.index = i]
      BY <1>t, <3>1
    <3> QED
      BY <2>0, <2>1, <3>1, <3>2
  <2>4. CASE lock' = [lock EXCEPT ![call[r].tag] = Free] /\ pc' = [pc EXCEPT ![r] = "user"]
    BY <1>t, <2>0, <2>4
  <2> QED
    BY <2>2, <2>3, <2>4
<1>3. ASSUME Sleep(r)
      PROVE  /\ pc[r] = "sleep" /\ pc'[r] = "asleep" /\ call'[r] = call[r]
             /\ lock' = [lock EXCEPT ![call[r].tag] = Free]
  BY <1>3, <1>t DEF Sleep, GoTo, Release
<1>4. ASSUME UpdatePut(r)
      PROVE  /\ pc[r] = "update" /\ pc'[r] = "save" /\ UNCHANGED lock
             /\ call'[r] = [call[r] EXCEPT !.temp = tweetcounter]
  BY <1>4, <1>t, UpdatePutIs
<1>5. ASSUME UpdateGet(r)
      PROVE  /\ pc[r] = "update"
             /\ \/ pc'[r] = "user" /\ lock' = [lock EXCEPT ![call[r].tag] = Free]
                \/ /\ pc'[r] = "save" /\ UNCHANGED lock
                   /\ \E m : call'[r] = [call[r] EXCEPT !.temp = tweetcounter, !.got = m]
  BY <1>5, <1>t, UpdateGetIs
<1>6. ASSUME Save(r)
      PROVE  /\ pc[r] = "save" /\ pc'[r] = "wakeup" /\ UNCHANGED lock
             /\ call'[r] = call[r]
  BY <1>6, <1>t DEF Save, GoTo
<1>7. ASSUME Wakeup(r)
      PROVE  /\ pc[r] = "wakeup"
             /\ \/ pc'[r] = "user" /\ lock' = [lock EXCEPT ![call[r].tag] = Free]
                \/ /\ pc'[r] = "wakeup" /\ UNCHANGED lock
                   /\ \E q : call'[r] = [call[r] EXCEPT !.next = q]
  <2>1. PICK q \in Procs, woken \in [Procs -> PCs] :
           /\ pc[r] = "wakeup"
           /\ woken = [pc EXCEPT ![q] = woken[q]]
           /\ IF pc[q] = "asleep" /\ SleepChan(call[q].op) = WakeChan(call[r].op)
              THEN woken[q] = "reacquire" ELSE woken[q] = pc[q]
           /\ \/ /\ pc' = [woken EXCEPT ![r] = "user"]
                 /\ lock' = [lock EXCEPT ![call[r].tag] = Free]
              \/ /\ pc' = woken
                 /\ call' = [call EXCEPT ![r] = [call[r] EXCEPT !.next = q + 1]]
                 /\ UNCHANGED lock
    BY <1>7, WakeupIs
  <2>2. woken[r] = "wakeup"
    BY <1>t, <2>1
  <2> QED
    BY <1>t, <2>1, <2>2
<1>8. \A n, m : /\ [call[r] EXCEPT !.temp = n].tag = call[r].tag
                /\ [call[r] EXCEPT !.temp = n].next = call[r].next
                /\ [call[r] EXCEPT !.temp = n].op = call[r].op
                /\ [call[r] EXCEPT !.temp = n, !.got = m].tag = call[r].tag
                /\ [call[r] EXCEPT !.temp = n, !.got = m].next = call[r].next
                /\ [call[r] EXCEPT !.temp = n, !.got = m].op = call[r].op
                /\ [call[r] EXCEPT !.next = n].tag = call[r].tag
                /\ [call[r] EXCEPT !.next = n].op = call[r].op
  BY <1>t DEF CallType
<1>9. CASE Enter(r)
  BY <1>9, <1>2, <1>t, <1>u
<1>10. CASE Sleep(r)
  BY <1>10, <1>3, <1>t, <1>u
<1>11. CASE UpdatePut(r)
  BY <1>11, <1>4, <1>t, <1>u, <1>8
<1>12. CASE UpdateGet(r)
  <2>1. pc'[r] = "save" => /\ call'[r].tag = call[r].tag
                           /\ call'[r].next = call[r].next
                           /\ call'[r].op = call[r].op
    <3>1. SUFFICES ASSUME pc'[r] = "save"
                   PROVE  /\ call'[r].tag = call[r].tag
                          /\ call'[r].next = call[r].next
                          /\ call'[r].op = call[r].op
      OBVIOUS
    <3>2. PICK m : call'[r] = [call[r] EXCEPT !.temp = tweetcounter, !.got = m]
      BY <1>12, <1>5, <3>1
    <3> QED
      BY <1>8, <3>2
  <2> QED
    BY <1>12, <1>5, <1>t, <1>u, <2>1
<1>13. CASE Save(r)
  BY <1>13, <1>6, <1>t, <1>u
<1>14. CASE Wakeup(r)
  BY <1>14, <1>7, <1>t, <1>u, <1>8
<1> QED
  BY <1>9, <1>10, <1>11, <1>12, <1>13, <1>14 DEF Step
LEMMA ControlStep ==
    TypeOK /\ IndexRight /\ LockHeld /\ WakesFromFirst /\ InSession /\ [Next]_vars
    => LockHeld' /\ WakesFromFirst' /\ InSession'
<1> SUFFICES ASSUME TypeOK, IndexRight, LockHeld, WakesFromFirst, InSession,
                    [Next]_vars
             PROVE  LockHeld' /\ WakesFromFirst' /\ InSession'
  OBVIOUS
<1>t. /\ pc \in [Procs -> PCs] /\ call \in [Procs -> CallType]
      /\ lock \in [Topics -> Procs \cup {Free}] /\ inUse \subseteq Topics
      /\ Free \notin Procs /\ NoCall.next = 1
      /\ \A p \in Procs : call[p].tag \in Topics
  BY TypeIs, FieldsAre DEF Free, Procs, NoCall
(* A process that calls, and one that is woken, is not near any lock.      *)
<1>1. ASSUME NEW p \in Procs, NEW o \in Ops, NEW u \in inUse, Call(p, o, u)
      PROVE  LockHeld' /\ WakesFromFirst' /\ InSession'
  <2>1. /\ pc[p] = "user" /\ UNCHANGED <<lock, inUse>>
        /\ pc'[p] = "acquire" /\ call'[p].tag = u /\ call'[p].next = call[p].next
        /\ \A r \in Procs \ {p} : pc'[r] = pc[r] /\ call'[r] = call[r]
    <3>1. call' = [call EXCEPT ![p] = [call[p] EXCEPT !.op = o, !.tag = u]]
      BY <1>1, <1>t, CallAfter DEF Call
    <3>2. call'[p] = [call[p] EXCEPT !.op = o, !.tag = u]
      BY <1>t, <3>1
    <3>3. call'[p].tag = u /\ call'[p].next = call[p].next
      BY <1>t, <3>2 DEF CallType
    <3> QED
      BY <1>1, <1>t, <3>1, <3>3 DEF Call, GoTo
  <2>2. LockHeld'
    BY <1>t, <2>1 DEF LockHeld, Holding
  <2>3. WakesFromFirst' /\ InSession'
    BY <1>t, <2>1 DEF WakesFromFirst, InSession
  <2> QED
    BY <2>2, <2>3
<1>2. ASSUME UNCHANGED <<lock, inUse>>,
             \A r \in Procs : /\ call'[r] = call[r]
                              /\ \/ pc'[r] = pc[r]
                                 \/ pc[r] = "asleep" /\ pc'[r] = "reacquire"
      PROVE  LockHeld' /\ WakesFromFirst' /\ InSession'
  <2>1. LockHeld'
    BY <1>2, <1>t DEF LockHeld, Holding
  <2>2. WakesFromFirst' /\ InSession'
    BY <1>2, <1>t DEF WakesFromFirst, InSession
  <2> QED
    BY <2>1, <2>2
<1>3. ASSUME NEW p \in Procs, Step(p)
      PROVE  LockHeld' /\ WakesFromFirst' /\ InSession'
  <2> DEFINE t == call[p].tag
  <2>1. /\ t \in Topics /\ UNCHANGED inUse
        /\ \/ /\ pc[p] \in {"acquire", "reacquire"} /\ lock[t] = Free
              /\ pc'[p] \in {"update", "sleep"} /\ call'[p].tag = t
              /\ lock' = [lock EXCEPT ![t] = p]
           \/ /\ pc[p] \in {"acquire", "reacquire"} /\ lock[t] = Free
              /\ pc'[p] = "user" /\ lock' = [lock EXCEPT ![t] = Free]
           \/ /\ pc[p] \in Holding /\ pc'[p] \in Holding
              /\ call'[p].tag = t /\ UNCHANGED lock
           \/ /\ pc[p] \in Holding /\ pc'[p] = "asleep"
              /\ call'[p].tag = t /\ lock' = [lock EXCEPT ![t] = Free]
           \/ /\ pc[p] \in Holding /\ pc'[p] = "user"
              /\ lock' = [lock EXCEPT ![t] = Free]
        /\ pc'[p] = "wakeup" /\ pc[p] # "wakeup" => call'[p] = call[p]
        /\ pc'[p] \notin {"user", "wakeup"} => call'[p].next = call[p].next
        /\ pc[p] = "wakeup" => pc'[p] \in {"user", "wakeup"}
    BY <1>3, OwnStep
  <2>2. \A r \in Procs \ {p} :
           \/ pc'[r] = pc[r] /\ call'[r] = call[r]
           \/ pc[r] = "asleep" /\ pc'[r] = "reacquire" /\ call'[r] = call[r]
    BY <1>3, <1>t, OthersStay
  <2>3. pc'[p] = "user" => call'[p] = NoCall
    BY <1>3, <1>t, ReturnIs
  <2>4. LockHeld'
    BY <1>t, <2>1, <2>2 DEF LockHeld, Holding
  <2>5. WakesFromFirst'
    BY <1>t, <2>1, <2>2, <2>3 DEF WakesFromFirst, Holding
  <2>6. InSession'
    BY <1>t, <2>1, <2>2 DEF InSession, Holding
  <2> QED
    BY <2>4, <2>5, <2>6
<1>4. ASSUME NEW p \in Procs, Kill(p)
      PROVE  LockHeld' /\ WakesFromFirst' /\ InSession'
  BY <1>2, <1>4, <1>t DEF Kill
<1>5. CASE UNCHANGED vars
  BY <1>2, <1>5 DEF vars, session
<1> QED
  BY <1>1, <1>3, <1>4, <1>5 DEF Next
------------------------------------------------------------------------------
(* A slot becomes full or empty only by the process that has the lock of   *)
(* its topic, and empty only by a getter.                                  *)
LEMMA SlotsChange ==
    ASSUME TypeOK, IndexRight, LockHeld, [Next]_vars, NEW t \in Topics, NEW i \in Slots
    PROVE  \/ msgs'[t][i] = msgs[t][i]
           \/ msgs[t][i] # Empty /\ msgs'[t][i] # Empty
           \/ \E p \in Procs :
                 /\ lock[t] = p /\ lock'[t] = p
                 /\ pc[p] = "update" /\ pc'[p] = "save"
                 /\ call'[p].op = call[p].op
                 /\ msgs'[t][i] = Empty => call[p].op \in Gets
<1>t. /\ pc \in [Procs -> PCs] /\ call \in [Procs -> CallType]
      /\ msgs \in [Topics -> [Slots -> Nat \cup {Garbled}]]
      /\ sent \in Nat
  BY TypeIs
<1>1. ASSUME NEW p \in Procs, UpdatePut(p),
             ~ (msgs[t][i] # Empty /\ msgs'[t][i] # Empty),
             msgs'[t][i] # msgs[t][i]
      PROVE  /\ lock[t] = p /\ lock'[t] = p
             /\ pc[p] = "update" /\ pc'[p] = "save"
             /\ call'[p].op = call[p].op
             /\ msgs'[t][i] # Empty
  <2> DEFINE u == call[p].tag   j == call[p].index
  <2>1. /\ u \in Topics /\ pc[p] = "update" /\ UNCHANGED lock
        /\ pc' = [pc EXCEPT ![p] = "save"]
        /\ call' = [call EXCEPT ![p] = [call[p] EXCEPT !.temp = tweetcounter]]
    BY <1>1, UpdatePutIs
  <2>2. pc'[p] = "save" /\ call'[p].op = call[p].op /\ lock[u] = p
    BY <1>t, <2>1 DEF CallType, LockHeld, Holding
  <2>3. \/ j \in Slots /\ Fills(u, j)
        \/ UNCHANGED msgs
        \/ \E v \in Topics, k \in Slots :
              msgs[v][k] \in Nat \ {0} /\ msgs' = [msgs EXCEPT ![v][k] = Garbled]
    BY <1>1, UpdatePutIs
  <2> HIDE DEF u, j
  <2>4. CASE j \in Slots /\ Fills(u, j)
    <3>1. PICK m \in Nat \cup {Garbled} :
             m # 0 /\ msgs' = [msgs EXCEPT ![u][j] = m]
      BY <1>t, <2>4, FillsIs
    <3>3. msgs'[t][i] = IF t = u /\ i = j THEN m ELSE msgs[t][i]
      BY <1>t, <2>1, <2>4, <3>1, SlotAfter
    <3> QED
      BY <1>1, <2>1, <2>2, <3>1, <3>3 DEF Empty
  <2>5. CASE UNCHANGED msgs
    BY <1>1, <2>5
  <2>6. CASE \E v \in Topics, k \in Slots :
                msgs[v][k] \in Nat \ {0} /\ msgs' = [msgs EXCEPT ![v][k] = Garbled]
    <3>1. PICK v \in Topics, k \in Slots :
                msgs[v][k] \in Nat \ {0} /\ msgs' = [msgs EXCEPT ![v][k] = Garbled]
      BY <2>6
    <3>2. msgs'[t][i] = IF t = v /\ i = k THEN Garbled ELSE msgs[t][i]
      BY <1>t, <3>1, SlotAfter
    <3> QED
      BY <1>1, <3>1, <3>2 DEF Empty, Garbled
  <2> QED
    BY <2>3, <2>4, <2>5, <2>6
<1>2. ASSUME NEW p \in Procs, UpdateGet(p), msgs'[t][i] # msgs[t][i]
      PROVE  /\ lock[t] = p /\ lock'[t] = p
             /\ pc[p] = "update" /\ pc'[p] = "save"
             /\ call'[p].op = call[p].op
             /\ call[p].op \in Gets
  <2> DEFINE u == call[p].tag   j == call[p].index   m == msgs[u][j]
  <2>1. /\ u \in Topics /\ j \in Slots /\ pc[p] = "update" /\ call[p].op \in Gets
        /\ \/ UNCHANGED buffer
           \/ /\ \E copied \in BOOLEAN : Take(u, j, copied)
              /\ UNCHANGED lock /\ pc' = [pc EXCEPT ![p] = "save"]
              /\ call' = [call EXCEPT ![p] =
                             [call[p] EXCEPT !.temp = tweetcounter, !.got = m]]
    BY <1>2, UpdateGetIs
  <2>2. msgs' = [msgs EXCEPT ![u][j] = Empty]
        /\ UNCHANGED lock /\ pc' = [pc EXCEPT ![p] = "save"]
        /\ call' = [call EXCEPT ![p] =
                       [call[p] EXCEPT !.temp = tweetcounter, !.got = m]]
    BY <1>2, <2>1 DEF Take, buffer
  <2>3. pc'[p] = "save" /\ call'[p].op = call[p].op /\ lock[u] = p
    BY <1>t, <2>1, <2>2 DEF CallType, LockHeld, Holding
  <2>4. t = u
    BY <1>2, <1>t, <2>1, <2>2
  <2> QED
    BY <2>1, <2>2, <2>3, <2>4
<1>3. CASE UNCHANGED msgs
  BY <1>3
<1>4. \/ UNCHANGED msgs
      \/ \E p \in Procs : UpdatePut(p) \/ UpdateGet(p)
  BY DEF Next, Call, Step, Enter, Sleep, Save, Wakeup, Kill, vars, buffer
<1> QED
  BY <1>1, <1>2, <1>3, <1>4

LEMMA IndexStep ==
    TypeOK /\ IndexRight /\ LockHeld /\ [Next]_vars => IndexRight'
<1> SUFFICES ASSUME TypeOK, IndexRight, LockHeld, [Next]_vars,
                    NEW r \in Procs, pc'[r] = "update"
             PROVE  /\ call'[r].op # "tput" => call'[r].index # -1
                    /\ call'[r].op \in Puts /\ call'[r].index # -1
                           => msgs'[call'[r].tag][call'[r].index] = Empty
  BY DEF IndexRight
<1>t. /\ pc \in [Procs -> PCs] /\ call \in [Procs -> CallType]
      /\ call[r].op \in Ops /\ call[r].tag \in Topics
      /\ call[r].index \in Slots \cup {-1}
  BY TypeIs, FieldsAre
<1>1. CASE Enter(r)
  <2>1. PICK i \in Slots \cup {-1} :
           /\ i = Lookup(r) /\ Proceeds(call[r].op, i)
           /\ call' = [call EXCEPT ![r] = [call[r] EXCEPT !.index = i]]
           /\ UNCHANGED msgs
    <3>1. /\ \/ \E i \in Slots \cup {-1}, l \in {"update", "sleep"} :
                   /\ i = Lookup(r) /\ (l = "update" <=> Proceeds(call[r].op, i))
                   /\ call' = [call EXCEPT ![r] = [call[r] EXCEPT !.index = i]]
                   /\ pc' = [pc EXCEPT ![r] = l]
             \/ pc' = [pc EXCEPT ![r] = "user"]
          /\ UNCHANGED msgs
      BY <1>1, EnterIs DEF buffer
    <3> QED
      BY <1>t, <3>1
  <2>2. call'[r] = [call[r] EXCEPT !.index = i]
    BY <1>t, <2>1
  <2>3. /\ call'[r].op = call[r].op /\ call'[r].tag = call[r].tag
        /\ call'[r].index = i
    BY <1>t, <2>2 DEF CallType
  <2>4. call[r].op # "tput" => i # -1
    BY <1>t, <2>1 DEF Proceeds, Ops
  <2>5. call[r].op \in Puts /\ i # -1 => msgs[call[r].tag][i] = Empty
    BY <2>1, IndexIs DEF Lookup
  <2> QED
    BY <2>1, <2>3, <2>4, <2>5
<1>2. CASE pc[r] = "update" /\ call'[r] = call[r]
  <2> DEFINE t == call[r].tag   i == call[r].index
  <2>1. /\ call[r].op # "tput" => i # -1
        /\ call[r].op \in Puts /\ i # -1 => msgs[t][i] = Empty
    BY <1>2 DEF IndexRight
  <2>2. lock[t] = r
    BY <1>2 DEF LockHeld, Holding
  <2>3. i # -1 => msgs'[t][i] = msgs[t][i] \/ msgs[t][i] # Empty
    BY <1>t, <2>2, SlotsChange
  <2> QED
    BY <1>2, <2>1, <2>3
<1>3. Enter(r) \/ (pc[r] = "update" /\ call'[r] = call[r])
  <2>1. ASSUME NEW o \in Ops, NEW t \in inUse, Call(r, o, t) PROVE FALSE
    BY <2>1, <1>t DEF Call, GoTo
  <2>2. ASSUME Step(r), ~ Enter(r) PROVE FALSE
    <3>1. CASE Sleep(r)
      BY <3>1, <1>t DEF Sleep, GoTo
    <3>2. CASE UpdatePut(r)
      BY <3>2, <1>t, UpdatePutIs
    <3>3. CASE UpdateGet(r)
      <4>1. pc' = [pc EXCEPT ![r] = "save"] \/ pc' = [pc EXCEPT ![r] = "user"]
        BY <3>3, UpdateGetIs
      <4> QED
        BY <1>t, <4>1
    <3>4. CASE Save(r)
      BY <3>4, <1>t DEF Save, GoTo
    <3>5. CASE Wakeup(r)
      <4>1. pc[r] = "wakeup" /\ pc'[r] \in {"user", "wakeup"}
        BY <3>5, OwnStep DEF Step, Wakeup
      <4> QED
        BY <4>1
    <3> QED
      BY <2>2, <3>1, <3>2, <3>3, <3>4, <3>5 DEF Step
  <2>3. \/ pc'[r] = pc[r] /\ call'[r] = call[r]
        \/ pc[r] = "asleep" /\ pc'[r] = "reacquire"
        \/ \E o \in Ops, t \in inUse : Call(r, o, t)
        \/ Step(r)
    BY Moves
  <2> QED
    BY <2>1, <2>2, <2>3
<1> QED
  BY <1>1, <1>2, <1>3
LEMMA SeenFullStep ==
    TypeOK /\ IndexRight /\ LockHeld /\ SeenFull /\ [Next]_vars => SeenFull'
<1> SUFFICES ASSUME TypeOK, IndexRight, LockHeld, SeenFull, [Next]_vars,
                    NEW r \in Procs, pc'[r] = "sleep", call'[r].op = "btput",
                    call'[r].index = -1, NEW i \in Slots
             PROVE  msgs'[call'[r].tag][i] # Empty
  BY DEF SeenFull
<1>t. /\ pc \in [Procs -> PCs] /\ call \in [Procs -> CallType]
      /\ call[r].tag \in Topics
  BY TypeIs, FieldsAre
<1>1. CASE Enter(r)
  <2>1. PICK j \in Slots \cup {-1} :
           /\ j = Lookup(r)
           /\ call' = [call EXCEPT ![r] = [call[r] EXCEPT !.index = j]]
           /\ UNCHANGED msgs
    <3>1. /\ \/ \E j \in Slots \cup {-1}, l \in {"update", "sleep"} :
                   /\ j = Lookup(r)
                   /\ call' = [call EXCEPT ![r] = [call[r] EXCEPT !.index = j]]
                   /\ pc' = [pc EXCEPT ![r] = l]
             \/ pc' = [pc EXCEPT ![r] = "user"]
          /\ UNCHANGED msgs
      BY <1>1, EnterIs DEF buffer
    <3> QED
      BY <1>t, <3>1
  <2>2. call'[r] = [call[r] EXCEPT !.index = j]
    BY <1>t, <2>1
  <2>3. call[r].op = "btput" /\ call'[r].tag = call[r].tag /\ j = -1
    BY <1>t, <2>2 DEF CallType
  <2>4. getemptyindex(call[r].tag) = -1
    BY <2>1, <2>3 DEF Lookup, Puts
  <2> QED
    BY <2>1, <2>3, <2>4, IndexIs
<1>2. CASE pc[r] = "sleep" /\ call'[r] = call[r]
  <2>1. lock[call[r].tag] = r /\ msgs[call[r].tag][i] # Empty
    BY <1>2 DEF LockHeld, Holding, SeenFull
  <2> QED
    BY <1>t, <1>2, <2>1, SlotsChange
<1>3. Enter(r) \/ (pc[r] = "sleep" /\ call'[r] = call[r])
  <2>1. ASSUME NEW o \in Ops, NEW t \in inUse, Call(r, o, t) PROVE FALSE
    BY <2>1, <1>t DEF Call, GoTo
  <2>2. ASSUME Step(r), ~ Enter(r) PROVE FALSE
    <3>1. CASE Sleep(r)
      BY <3>1, <1>t DEF Sleep, GoTo
    <3>2. CASE UpdatePut(r)
      BY <3>2, <1>t, UpdatePutIs
    <3>3. CASE UpdateGet(r)
      <4>1. pc' = [pc EXCEPT ![r] = "save"] \/ pc' = [pc EXCEPT ![r] = "user"]
        BY <3>3, UpdateGetIs
      <4> QED
        BY <1>t, <4>1
    <3>4. CASE Save(r)
      BY <3>4, <1>t DEF Save, GoTo
    <3>5. CASE Wakeup(r)
      <4>1. pc[r] = "wakeup" /\ pc'[r] \in {"user", "wakeup"}
        BY <3>5, OwnStep DEF Step, Wakeup
      <4> QED
        BY <4>1
    <3> QED
      BY <2>2, <3>1, <3>2, <3>3, <3>4, <3>5 DEF Step
  <2>3. \/ pc'[r] = pc[r] /\ call'[r] = call[r]
        \/ pc[r] = "asleep" /\ pc'[r] = "reacquire"
        \/ \E o \in Ops, t \in inUse : Call(r, o, t)
        \/ Step(r)
    BY Moves
  <2> QED
    BY <2>1, <2>2, <2>3
<1> QED
  BY <1>1, <1>2, <1>3

(* NoMissedSlot, said of the slots.                                        *)
Attended(p, q) == /\ q # Free /\ call[q].op \in Gets
                  /\ pc[q] = "save" \/ (pc[q] = "wakeup" /\ call[q].next <= p)

SleepersAttended ==
    \A p \in Procs, i \in Slots :
        /\ pc[p] = "asleep" /\ call[p].op = "btput" /\ call[p].index = -1
        /\ msgs[call[p].tag][i] = Empty
        => Attended(p, lock[call[p].tag])

LEMMA NoMissedSlotIs ==
    /\ NoMissedSlot <=> SleepersAttended
    /\ NoMissedSlot' <=> SleepersAttended'
<1>1. NoMissedSlot <=> SleepersAttended
  BY IndexIs DEF NoMissedSlot, SleepersAttended, Attended
<1>2. NoMissedSlot' <=> SleepersAttended'
  <2>1. \A p \in Procs : getemptyindex(call[p].tag)' # -1
                         <=> \E i \in Slots : msgs'[call'[p].tag][i] = Empty
    BY FirstIs DEF getemptyindex
  <2> QED
    BY <2>1 DEF NoMissedSlot, SleepersAttended, Attended
<1> QED
  BY <1>1, <1>2
(* Only the process that has a lock gives it up.                           *)
LEMMA LockStays ==
    ASSUME TypeOK, IndexRight, LockHeld, [Next]_vars, NEW t \in Topics,
           NEW q \in Procs, lock[t] = q, ~ Step(q)
    PROVE  lock'[t] = q
<1>t. /\ lock \in [Topics -> Procs \cup {Free}] /\ Free \notin Procs
      /\ \A p \in Procs : call[p].tag \in Topics
  BY TypeIs, FieldsAre, TweetAssumption DEF Free, Procs
<1>1. ASSUME NEW p \in Procs, Step(p) PROVE lock'[t] = q
  <2>1. p # q
    BY <1>1
  <2>2. \/ UNCHANGED lock
        \/ \E x : /\ lock' = [lock EXCEPT ![call[p].tag] = x]
                  /\ lock[call[p].tag] = Free \/ pc[p] \in Holding
    BY <1>1, OwnStep
  <2>3. pc[p] \in Holding => lock[call[p].tag] = p
    BY DEF LockHeld
  <2> QED
    BY <1>t, <2>1, <2>2, <2>3
<1>2. CASE UNCHANGED lock
  BY <1>2
<1> QED
  BY <1>1, <1>2 DEF Next, Call, Kill, vars

LEMMA SleepersStep ==
    /\ TypeOK /\ IndexRight /\ LockHeld /\ WakesFromFirst /\ SeenFull
    /\ SleepersAttended /\ [Next]_vars
    => SleepersAttended'
<1> SUFFICES ASSUME TypeOK, IndexRight, LockHeld, WakesFromFirst, SeenFull,
                    SleepersAttended, [Next]_vars,
                    NEW r \in Procs, NEW i \in Slots,
                    pc'[r] = "asleep", call'[r].op = "btput",
                    call'[r].index = -1, msgs'[call'[r].tag][i] = Empty
             PROVE  Attended(r, lock[call[r].tag])'
  BY DEF SleepersAttended
<1>t. /\ pc \in [Procs -> PCs] /\ call \in [Procs -> CallType]
      /\ call[r].tag \in Topics
      /\ lock \in [Topics -> Procs \cup {Free}]
  BY TypeIs, FieldsAre
<1>1. pc[r] = "asleep" /\ call'[r] = call[r]
  <2>1. ASSUME Sleep(r) PROVE FALSE
    <3>1. call'[r] = call[r] /\ pc[r] = "sleep" /\ UNCHANGED msgs
      BY <2>1 DEF Sleep, buffer
    <3> QED
      BY <3>1 DEF SeenFull
  <2>2. ASSUME NEW o \in Ops, NEW u \in inUse, Call(r, o, u) PROVE FALSE
    BY <2>2, <1>t DEF Call, GoTo
  <2>3. ASSUME Step(r), ~ Sleep(r) PROVE FALSE
    <3>1. pc[r] \in Holding
      BY <2>3, OwnStep DEF Holding
    <3>2. CASE UpdatePut(r)
      BY <3>2, <1>t, UpdatePutIs
    <3>3. CASE UpdateGet(r)
      <4>1. pc' = [pc EXCEPT ![r] = "save"] \/ pc' = [pc EXCEPT ![r] = "user"]
        BY <3>3, UpdateGetIs
      <4> QED
        BY <1>t, <4>1
    <3>4. CASE Save(r)
      BY <3>4, <1>t DEF Save, GoTo
    <3>5. CASE Wakeup(r)
      <4>1. pc[r] = "wakeup" /\ pc'[r] \in {"user", "wakeup"}
        BY <3>5, OwnStep DEF Step, Wakeup
      <4> QED
        BY <4>1
    <3>6. CASE Enter(r)
      BY <3>1, <3>6 DEF Enter, Holding
    <3> QED
      BY <2>3, <3>2, <3>3, <3>4, <3>5, <3>6 DEF Step
  <2> QED
    BY <2>1, <2>2, <2>3, Moves
<1> DEFINE t == call[r].tag
<1>2. CASE msgs[t][i] = Empty
  <2> DEFINE q == lock[t]
  <2>1. Attended(r, q)
    BY <1>1, <1>2 DEF SleepersAttended
  <2>2. q \in Procs /\ call[q].tag = t /\ call[q].next \in Procs
    BY <1>t, <2>1, FieldsAre DEF Attended, LockHeld
  <2>3. CASE ~ Step(q)
    <3>1. lock'[t] = q
      BY <1>t, <2>2, <2>3, LockStays
    <3>2. pc[q] = "save" \/ pc[q] = "wakeup"
      BY <2>1 DEF Attended
    <3>3. pc'[q] = pc[q] /\ call'[q] = call[q]
      <4>1. ASSUME NEW o \in Ops, NEW u \in inUse, Call(q, o, u) PROVE FALSE
        BY <3>2, <4>1 DEF Call
      <4> QED
        BY <2>2, <2>3, <3>2, <4>1, Moves
    <3> QED
      BY <1>1, <2>1, <3>1, <3>3 DEF Attended
  <2>4. CASE Save(q)
    <3>1. /\ pc'[q] = "wakeup" /\ call'[q] = call[q] /\ UNCHANGED lock
          /\ call[q].next = 1
      BY <1>t, <2>2, <2>4 DEF Save, GoTo, WakesFromFirst
    <3> QED
      BY <1>1, <2>1, <3>1 DEF Attended, Procs
  <2>5. CASE Wakeup(q)
    <3> HIDE DEF q
    <3>1. PICK v \in Procs, woken \in [Procs -> PCs] :
           /\ pc[q] = "wakeup" /\ v = call[q].next
           /\ woken = [pc EXCEPT ![v] = woken[v]]
           /\ IF pc[v] = "asleep" /\ SleepChan(call[v].op) = WakeChan(call[q].op)
              THEN woken[v] = "reacquire" ELSE woken[v] = pc[v]
           /\ \/ /\ v = NPROC
                 /\ pc' = [woken EXCEPT ![q] = "user"]
              \/ /\ v # NPROC /\ v + 1 \in Procs
                 /\ pc' = woken
                 /\ call' = [call EXCEPT ![q] = [call[q] EXCEPT !.next = v + 1]]
                 /\ UNCHANGED lock
      BY <2>2, <2>5, WakeupIs
    <3>2. q # r /\ v <= r
      BY <1>1, <2>1, <3>1 DEF Attended
    <3>3. v # r
      <4>1. SUFFICES ASSUME v = r PROVE FALSE
        OBVIOUS
      <4>2. SleepChan(call[v].op) = WakeChan(call[q].op)
        BY <1>1, <2>1, <4>1 DEF Attended, SleepChan, WakeChan, Gets
      <4>3. woken[r] = "reacquire"
        BY <1>1, <3>1, <4>1, <4>2
      <4> QED
        BY <3>1, <3>2, <4>3
    <3>4. v # NPROC
      BY <3>2, <3>3, TweetAssumption DEF Procs
    <3>5. /\ UNCHANGED lock /\ v + 1 <= r /\ pc' = woken
          /\ call'[q] = [call[q] EXCEPT !.next = v + 1]
      <4>1. v + 1 <= r
        BY <3>2, <3>3 DEF Procs
      <4> QED
        BY <1>t, <2>2, <3>1, <3>4, <4>1
    <3>6. /\ call'[q].next = v + 1 /\ call'[q].op = call[q].op
          /\ pc'[q] = "wakeup"
      BY <1>t, <2>2, <3>1, <3>2, <3>5 DEF CallType
    <3>7. lock'[call'[r].tag] = q
      BY <1>1, <3>5 DEF q
    <3> QED
      BY <2>1, <3>5, <3>6, <3>7 DEF Attended
  <2>6. CASE Step(q) /\ ~ Save(q) /\ ~ Wakeup(q)
    BY <2>1, <2>6 DEF Step, Attended, Enter, Sleep, UpdatePut, UpdateGet
  <2> QED
    BY <2>3, <2>4, <2>5, <2>6
<1>3. CASE msgs[t][i] # Empty
  <2>1. PICK p \in Procs : /\ lock'[t] = p /\ pc'[p] = "save"
                           /\ call'[p].op = call[p].op /\ call[p].op \in Gets
    BY <1>1, <1>t, <1>3, SlotsChange
  <2> QED
    BY <1>1, <2>1 DEF Attended, Free, Procs
<1> QED
  BY <1>2, <1>3
------------------------------------------------------------------------------
(* Conservation, for every content m of the slots.                         *)
SlotContents == [Topics -> [Slots -> Nat \cup {Garbled}]]
Numbers == Nat \ {0}

Kept(m) == {n \in Numbers : \E t \in Topics, i \in Slots : m[t][i] = n}

Distinct(m) == \A t, u \in Topics, i, j \in Slots :
                   m[t][i] \in Numbers /\ m[t][i] = m[u][j] => t = u /\ i = j

Conserved(m, last, got, gone) ==
    /\ Kept(m) \cup got \cup gone = 1 .. last
    /\ Kept(m) \cap got = {} /\ Kept(m) \cap gone = {} /\ got \cap gone = {}
    /\ Distinct(m)

LEMMA DistinctIs ==
    ASSUME NEW m \in SlotContents
    PROVE  (\A x, y \in {z \in Topics \X Slots : m[z[1]][z[2]] # Empty} :
                m[x[1]][x[2]] = m[y[1]][y[2]] =>
                x = y \/ m[x[1]][x[2]] = Garbled)
           <=> Distinct(m)
<1> DEFINE full == {z \in Topics \X Slots : m[z[1]][z[2]] # Empty}
           Apart == \A x, y \in full : m[x[1]][x[2]] = m[y[1]][y[2]] =>
                                       x = y \/ m[x[1]][x[2]] = Garbled
<1>1. \A t \in Topics, i \in Slots :
         m[t][i] \in Numbers <=> m[t][i] # Empty /\ m[t][i] # Garbled
  BY DEF SlotContents, Numbers, Empty, Garbled
<1>2. ASSUME Apart, NEW t \in Topics, NEW u \in Topics, NEW i \in Slots, NEW j \in Slots,
             m[t][i] \in Numbers, m[t][i] = m[u][j]
      PROVE  t = u /\ i = j
  <2>1. /\ <<t, i>> \in full /\ <<u, j>> \in full
        /\ <<t, i>>[1] = t /\ <<t, i>>[2] = i /\ <<u, j>>[1] = u /\ <<u, j>>[2] = j
    BY <1>1, <1>2
  <2> HIDE DEF full
  <2>2. <<t, i>> = <<u, j>> \/ m[t][i] = Garbled
    BY <1>2, <2>1
  <2> QED
    BY <1>1, <1>2, <2>2
<1>3. ASSUME Distinct(m), NEW x \in full, NEW y \in full,
             m[x[1]][x[2]] = m[y[1]][y[2]], m[x[1]][x[2]] # Garbled
      PROVE  x = y
  <2>1. PICK t \in Topics, i \in Slots : x = <<t, i>> /\ m[t][i] # Empty
    OBVIOUS
  <2>2. PICK u \in Topics, j \in Slots : y = <<u, j>> /\ m[u][j] # Empty
    OBVIOUS
  <2>3. m[t][i] = m[u][j] /\ m[t][i] # Garbled
    BY <1>3, <2>1, <2>2
  <2> QED
    BY <1>1, <1>3, <2>1, <2>2, <2>3 DEF Distinct
<1>4. Apart => Distinct(m)
  <2> HIDE DEF Apart
  <2> QED
    BY <1>2 DEF Distinct
<1>5. Distinct(m) => Apart
  BY <1>3
<1> QED
  BY <1>4, <1>5

LEMMA ConservedIs ==
    /\ TypeOK => (TweetsConserved <=> Conserved(msgs, sent, received, lost))
    /\ TypeOK' => (TweetsConserved' <=> Conserved(msgs', sent', received', lost'))
<1>1. ASSUME TypeOK
      PROVE  TweetsConserved <=> Conserved(msgs, sent, received, lost)
  <2>1. \A t \in Topics, i \in Slots : msgs[t][i] \in Nat \cup {Garbled}
    BY <1>1, TypeIs
  <2>2. InStore = Kept(msgs)
    BY <2>1 DEF InStore, Stored, Kept, Numbers, Empty, Garbled
  <2>3. (\A x, y \in Occupied : msgs[x[1]][x[2]] = msgs[y[1]][y[2]] =>
                x = y \/ msgs[x[1]][x[2]] = Garbled)
        <=> Distinct(msgs)
    BY <1>1, TypeIs, DistinctIs DEF Occupied, SlotContents
  <2> QED
    BY <2>2, <2>3 DEF TweetsConserved, Conserved
<1>2. ASSUME TypeOK'
      PROVE  TweetsConserved' <=> Conserved(msgs', sent', received', lost')
  <2>1. \A t \in Topics, i \in Slots : msgs'[t][i] \in Nat \cup {Garbled}
    BY <1>2 DEF TypeOK
  <2>2. InStore' = Kept(msgs')
    BY <2>1 DEF InStore, Stored, Kept, Numbers, Empty, Garbled
  <2>3. (\A x, y \in Occupied' : msgs'[x[1]][x[2]] = msgs'[y[1]][y[2]] =>
                x = y \/ msgs'[x[1]][x[2]] = Garbled)
        <=> Distinct(msgs')
    <3>1. msgs' \in SlotContents
      BY <1>2 DEF TypeOK, SlotContents
    <3> QED
      BY <3>1, DistinctIs DEF Occupied
  <2> QED
    BY <2>2, <2>3 DEF TweetsConserved, Conserved
<1> QED
  BY <1>1, <1>2

LEMMA PutConserves ==
    ASSUME NEW m \in SlotContents, NEW last \in Nat, NEW got, NEW gone,
           Conserved(m, last, got, gone),
           NEW t \in Topics, NEW i \in Slots, m[t][i] = Empty
    PROVE  Conserved([m EXCEPT ![t][i] = last + 1], last + 1, got, gone)
<1> DEFINE n == last + 1
<1>1. n \in Numbers /\ n \in Nat \cup {Garbled} /\ n \notin 1 .. last
      /\ 1 .. n = (1 .. last) \cup {n}
  BY DEF Numbers
<1> HIDE DEF n
<1> DEFINE f == [m EXCEPT ![t][i] = n]
<1>2. \A u \in Topics, j \in Slots :
         f[u][j] = IF u = t /\ j = i THEN n ELSE m[u][j]
  BY <1>1, SlotAfter DEF SlotContents
<1> HIDE DEF f
<1>3. Kept(f) = Kept(m) \cup {n}
  BY <1>1, <1>2 DEF Kept, Numbers, Empty
<1>4. Distinct(f)
  <2>1. \A u \in Topics, j \in Slots : m[u][j] # n
    BY <1>1 DEF Conserved, Kept
  <2> QED
    BY <1>1, <1>2, <2>1 DEF Conserved, Distinct
<1>5. Conserved(f, n, got, gone)
  BY <1>1, <1>3, <1>4 DEF Conserved
<1> QED
  BY <1>5 DEF f, n

LEMMA SpoiltConserves ==
    ASSUME NEW m \in SlotContents, NEW last \in Nat, NEW got, NEW gone,
           Conserved(m, last, got, gone),
           NEW t \in Topics, NEW i \in Slots, m[t][i] = Empty
    PROVE  Conserved([m EXCEPT ![t][i] = Garbled], last + 1, got, gone \cup {last + 1})
<1> DEFINE n == last + 1   f == [m EXCEPT ![t][i] = Garbled]
<1>1. n \notin 1 .. last /\ 1 .. n = (1 .. last) \cup {n}
  OBVIOUS
<1> HIDE DEF n
<1>2. \A u \in Topics, j \in Slots :
         f[u][j] = IF u = t /\ j = i THEN Garbled ELSE m[u][j]
  BY SlotAfter DEF SlotContents
<1> HIDE DEF f
<1>3. Kept(f) = Kept(m)
  BY <1>2 DEF Kept, Numbers, Empty, Garbled
<1>4. Distinct(f)
  <2>1. Garbled \notin Numbers
    BY DEF Garbled, Numbers
  <2> QED
    BY <1>2, <2>1 DEF Conserved, Distinct
<1>5. Conserved(f, n, got, gone \cup {n})
  BY <1>1, <1>3, <1>4 DEF Conserved
<1> QED
  BY <1>5 DEF f, n

LEMMA TakeConserves ==
    ASSUME NEW m \in SlotContents, NEW last, NEW got, NEW gone,
           Conserved(m, last, got, gone),
           NEW t \in Topics, NEW i \in Slots, NEW v \in {Empty, Garbled}
    PROVE  LET f == [m EXCEPT ![t][i] = v]   n == m[t][i]
           IN  /\ n \in Numbers => /\ Conserved(f, last, got \cup {n}, gone)
                                   /\ Conserved(f, last, got, gone \cup {n})
               /\ n \notin Numbers => Conserved(f, last, got, gone)
<1> DEFINE f == [m EXCEPT ![t][i] = v]   n == m[t][i]
<1>1. v \notin Numbers /\ v \in Nat \cup {Garbled}
  BY DEF Numbers, Empty, Garbled
<1>2. \A u \in Topics, j \in Slots :
         f[u][j] = IF u = t /\ j = i THEN v ELSE m[u][j]
  BY <1>1, SlotAfter DEF SlotContents
<1> HIDE DEF f
<1>3. Kept(f) = Kept(m) \ {n}
  BY <1>1, <1>2 DEF Kept, Conserved, Distinct
<1>4. Distinct(f)
  BY <1>1, <1>2 DEF Conserved, Distinct
<1>5. n \in Numbers => n \in Kept(m)
  BY DEF Kept
<1>6. n \notin Numbers => n \notin Kept(m)
  BY DEF Kept
<1> HIDE DEF n
<1>7. n \in Numbers => /\ Conserved(f, last, got \cup {n}, gone)
                       /\ Conserved(f, last, got, gone \cup {n})
  BY <1>3, <1>4, <1>5 DEF Conserved
<1>8. n \notin Numbers => Conserved(f, last, got, gone)
  BY <1>3, <1>4, <1>6 DEF Conserved
<1> QED
  BY <1>7, <1>8 DEF f, n

LEMMA ConservedStep ==
    TypeOK /\ IndexRight /\ TweetsConserved /\ [Next]_vars => TweetsConserved'
<1> SUFFICES ASSUME TypeOK, IndexRight, TweetsConserved, [Next]_vars
             PROVE  TweetsConserved'
  OBVIOUS
<1>t. /\ msgs \in SlotContents /\ sent \in Nat
      /\ Conserved(msgs, sent, received, lost)
  BY TypeIs, ConservedIs DEF SlotContents
<1>s. SUFFICES Conserved(msgs', sent', received', lost')
  BY TypeStep, ConservedIs
<1>1. ASSUME NEW p \in Procs, UpdatePut(p)
      PROVE  Conserved(msgs', sent', received', lost')
  <2> DEFINE t == call[p].tag   i == call[p].index
  <2>1. UNCHANGED received
    BY <1>1 DEF UpdatePut
  <2>2. \/ t \in Topics /\ i \in Slots /\ msgs[t][i] = Empty /\ Fills(t, i)
        \/ UNCHANGED <<msgs, sent, lost>>
        \/ \E u \in Topics, j \in Slots :
              /\ msgs[u][j] \in Nat \ {0}
              /\ msgs' = [msgs EXCEPT ![u][j] = Garbled]
              /\ lost' = lost \cup {msgs[u][j]}
              /\ UNCHANGED sent
    BY <1>1, UpdatePutIs
  <2> HIDE DEF t, i
  <2>3. CASE t \in Topics /\ i \in Slots /\ msgs[t][i] = Empty /\ Fills(t, i)
    <3>1. sent + 1 # Garbled /\ sent' = sent + 1
      BY <1>t, <2>3 DEF Fills, Garbled
    <3>2. CASE msgs' = [msgs EXCEPT ![t][i] = sent + 1] /\ lost' = lost
      BY <1>t, <2>1, <2>3, <3>1, <3>2, PutConserves
    <3>3. CASE msgs' = [msgs EXCEPT ![t][i] = Garbled] /\ lost' = lost \cup {sent + 1}
      BY <1>t, <2>1, <2>3, <3>1, <3>3, SpoiltConserves
    <3> QED
      BY <2>3, <3>1, <3>2, <3>3 DEF Fills
  <2>4. CASE UNCHANGED <<msgs, sent, lost>>
    BY <1>t, <2>1, <2>4
  <2>5. CASE \E u \in Topics, j \in Slots :
              /\ msgs[u][j] \in Nat \ {0}
              /\ msgs' = [msgs EXCEPT ![u][j] = Garbled]
              /\ lost' = lost \cup {msgs[u][j]}
              /\ UNCHANGED sent
    <3>1. PICK u \in Topics, j \in Slots :
              /\ msgs[u][j] \in Nat \ {0}
              /\ msgs' = [msgs EXCEPT ![u][j] = Garbled]
              /\ lost' = lost \cup {msgs[u][j]}
              /\ UNCHANGED sent
      BY <2>5
    <3>2. Conserved([msgs EXCEPT ![u][j] = Garbled], sent, received, lost \cup {msgs[u][j]})
      BY <1>t, <3>1, TakeConserves DEF Numbers
    <3> QED
      BY <2>1, <3>1, <3>2
  <2> QED
    BY <2>2, <2>3, <2>4, <2>5
<1>2. ASSUME NEW p \in Procs, UpdateGet(p)
      PROVE  Conserved(msgs', sent', received', lost')
  <2> DEFINE t == call[p].tag   i == call[p].index   m == msgs[t][i]
  <2>1. /\ t \in Topics /\ i \in Slots
        /\ \/ UNCHANGED buffer
           \/ /\ \E copied \in BOOLEAN : Take(t, i, copied)
              /\ UNCHANGED sent
    BY <1>2, UpdateGetIs
  <2>2. CASE UNCHANGED buffer
    BY <1>t, <2>2 DEF buffer
  <2>3. CASE (\E copied \in BOOLEAN : Take(t, i, copied)) /\ UNCHANGED sent
    <3>1. m \in Nat \cup {Garbled}
      BY <1>t, <2>1 DEF SlotContents
    <3>2. m > 0 <=> m \in Numbers
      <4> HIDE DEF m
      <4> QED
        BY <3>1 DEF Numbers, Garbled
    <3> HIDE DEF t, i
    <3>3. /\ msgs' = [msgs EXCEPT ![t][i] = Empty] /\ UNCHANGED sent
          /\ IF m > 0 THEN \/ received' = received \cup {m} /\ lost' = lost
                           \/ received' = received /\ lost' = lost \cup {m}
             ELSE received' = received /\ lost' = lost
      BY <2>3 DEF Take
    <3> DEFINE f == [msgs EXCEPT ![t][i] = Empty]
    <3>4. /\ m \in Numbers => /\ Conserved(f, sent, received \cup {m}, lost)
                               /\ Conserved(f, sent, received, lost \cup {m})
          /\ m \notin Numbers => Conserved(f, sent, received, lost)
      BY <1>t, <2>1, TakeConserves
    <3> HIDE DEF m
    <3> QED
      BY <3>2, <3>3, <3>4
  <2> QED
    BY <2>1, <2>2, <2>3
<1>3. CASE UNCHANGED <<msgs, sent, received, lost>>
  BY <1>t, <1>3
<1> QED
  BY <1>1, <1>2, <1>3
  DEF Next, Call, Step, Enter, Sleep, Save, Wakeup, Kill, vars, buffer
------------------------------------------------------------------------------
(* The number of occupied slots, for every content m of the slots.         *)
Number(m) == Cardinality({x \in Topics \X Slots : m[x[1]][x[2]] # Empty})

LEMMA NumberAfter ==
    ASSUME NEW m \in SlotContents, NEW t \in Topics, NEW i \in Slots,
           NEW v \in Nat \cup {Garbled}
    PROVE  LET f == [m EXCEPT ![t][i] = v] IN
           /\ Number(m) \in Nat
           /\ m[t][i] = Empty /\ v # Empty => Number(f) = Number(m) + 1
           /\ m[t][i] # Empty /\ v = Empty => Number(f) = Number(m) - 1
           /\ (m[t][i] = Empty <=> v = Empty) => Number(f) = Number(m)
<1> DEFINE f == [m EXCEPT ![t][i] = v]
           Full(h) == {x \in Topics \X Slots : h[x[1]][x[2]] # Empty}
<1>1. IsFiniteSet(Full(m))
  <2>1. /\ IsFiniteSet(Topics) /\ IsFiniteSet(Slots)
    BY FS_Interval, TweetAssumption DEF Topics, Slots
  <2>2. IsFiniteSet(Topics \X Slots)
    BY <2>1, FS_Product
  <2> QED
    BY <2>2, FS_Subset
<1>2. \A x \in Topics \X Slots :
         f[x[1]][x[2]] = IF x = <<t, i>> THEN v ELSE m[x[1]][x[2]]
  <2>1. \A u \in Topics, j \in Slots :
           f[u][j] = IF u = t /\ j = i THEN v ELSE m[u][j]
    BY SlotAfter DEF SlotContents
  <2> HIDE DEF f
  <2> QED
    BY <2>1
<1>3. <<t, i>> \in Topics \X Slots /\ m[t][i] = m[<<t, i>>[1]][<<t, i>>[2]]
  OBVIOUS
<1> HIDE DEF f
<1>4. CASE m[t][i] = Empty /\ v # Empty
  <2>1. Full(f) = Full(m) \cup {<<t, i>>} /\ <<t, i>> \notin Full(m)
    BY <1>2, <1>3, <1>4
  <2> HIDE DEF Full
  <2>2. Cardinality(Full(f)) = Cardinality(Full(m)) + 1
    BY <1>1, <2>1, FS_AddElement
  <2> QED
    BY <1>1, <1>4, <2>2, FS_CardinalityType DEF Number, Full, f
<1>5. CASE m[t][i] # Empty /\ v = Empty
  <2>1. Full(f) = Full(m) \ {<<t, i>>} /\ <<t, i>> \in Full(m)
    BY <1>2, <1>3, <1>5
  <2> HIDE DEF Full
  <2>2. Cardinality(Full(f)) = Cardinality(Full(m)) - 1
    BY <1>1, <2>1, FS_RemoveElement
  <2> QED
    BY <1>1, <1>5, <2>2, FS_CardinalityType DEF Number, Full, f
<1>6. CASE m[t][i] = Empty <=> v = Empty
  <2>1. Full(f) = Full(m)
    BY <1>2, <1>3, <1>6
  <2> QED
    BY <1>1, <1>6, <2>1, FS_CardinalityType DEF Number, f
<1> QED
  BY <1>4, <1>5, <1>6

(* Programs that use one topic have one lock between them.                 *)
LEMMA OneTopic ==
    ASSUME TypeOK, LockHeld, InSession, Cardinality(inUse) = 1,
           NEW p \in Procs, NEW q \in Procs, pc[p] \in Holding, pc[q] \in Holding
    PROVE  p = q
<1>1. IsFiniteSet(inUse)
  <2>1. IsFiniteSet(Topics) /\ inUse \subseteq Topics
    BY FS_Interval, TweetAssumption, TypeIs DEF Topics
  <2> QED
    BY <2>1, FS_Subset
<1>2. PICK t : inUse = {t}
  BY <1>1, FS_Singleton
<1>3. call[p].tag = t /\ call[q].tag = t
  BY <1>2 DEF InSession, Holding
<1> QED
  BY <1>3 DEF LockHeld

LEMMA CountedStep ==
    /\ TypeOK /\ IndexRight /\ LockHeld /\ InSession /\ Counted /\ [Next]_vars
    => Counted'
<1> SUFFICES ASSUME TypeOK, IndexRight, LockHeld, InSession, Counted, [Next]_vars,
                    Cardinality(inUse') = 1
             PROVE  /\ \A p \in Procs : pc'[p] = "save" =>
                          SavedCount(p)' = Number(msgs') + phantom'
                    /\ (\A p \in Procs : pc'[p] # "save") =>
                          tweetcounter' = Number(msgs') + phantom'
  BY DEF Counted, Occupied, Number
<1> DEFINE Goal == /\ \A p \in Procs : pc'[p] = "save" =>
                          SavedCount(p)' = Number(msgs') + phantom'
                   /\ (\A p \in Procs : pc'[p] # "save") =>
                          tweetcounter' = Number(msgs') + phantom'
<1>u. UNCHANGED inUse
  BY DEF Next, Call, Step, Enter, Sleep, UpdatePut, UpdateGet, Save, Wakeup, Kill,
         vars, session
<1>t. /\ pc \in [Procs -> PCs] /\ call \in [Procs -> CallType]
      /\ msgs \in SlotContents /\ tweetcounter \in Int /\ phantom \in Int
      /\ sent \in Nat
  BY TypeIs DEF SlotContents
<1>b. /\ \A p \in Procs : pc[p] = "save" => SavedCount(p) = Number(msgs) + phantom
      /\ (\A p \in Procs : pc[p] # "save") => tweetcounter = Number(msgs) + phantom
  BY <1>u DEF Counted, Occupied, Number
<1>o. \A p, q \in Procs : pc[p] \in Holding /\ pc[q] \in Holding => p = q
  BY <1>u, OneTopic
<1>n. Number(msgs) \in Nat
  <2>1. 0 \in Topics /\ 0 \in Slots /\ 0 \in Nat \cup {Garbled}
    BY TweetAssumption DEF Topics, Slots
  <2> QED
    BY <1>t, <2>1, NumberAfter
(* While a process has the lock nobody else is about to store the counter. *)
<1>1. ASSUME NEW p \in Procs, pc[p] = "update", Step(p),
             pc'[p] = "save", call'[p].temp = tweetcounter,
             \/ /\ call'[p].op \in Puts
                /\ Number(msgs') + phantom' = Number(msgs) + phantom + 1
             \/ /\ call'[p].op \notin Puts
                /\ Number(msgs') + phantom' = Number(msgs) + phantom - 1
      PROVE  Goal
  <2>1. \A q \in Procs : pc[q] # "save"
    BY <1>1, <1>o DEF Holding
  <2>2. tweetcounter = Number(msgs) + phantom
    BY <1>b, <2>1
  <2>3. \A q \in Procs \ {p} : pc'[q] # "save"
    BY <1>1, <2>1, OthersStay
  <2>4. SavedCount(p)' = Number(msgs') + phantom'
    BY <1>1, <1>t, <1>n, <2>2 DEF SavedCount
  <2> QED
    BY <1>1, <2>3, <2>4
<1>2. ASSUME NEW p \in Procs, UpdatePut(p) PROVE Goal
  <2> DEFINE t == call[p].tag   i == call[p].index
  <2>1. /\ pc[p] = "update" /\ call[p].op \in Puts /\ t \in Topics
        /\ \/ i \in Slots /\ msgs[t][i] = Empty /\ Fills(t, i)
           \/ phantom' = phantom + 1 /\ UNCHANGED msgs
           \/ \E u \in Topics, j \in Slots :
                 /\ msgs[u][j] \in Nat \ {0}
                 /\ msgs' = [msgs EXCEPT ![u][j] = Garbled]
                 /\ phantom' = phantom + 1
        /\ call' = [call EXCEPT ![p] = [call[p] EXCEPT !.temp = tweetcounter]]
        /\ pc' = [pc EXCEPT ![p] = "save"]
    BY <1>2, UpdatePutIs
  <2>2. pc'[p] = "save" /\ call'[p].temp = tweetcounter /\ call'[p].op \in Puts
    BY <1>t, <2>1 DEF CallType
  <2>3. Number(msgs') + phantom' = Number(msgs) + phantom + 1
    <3> HIDE DEF t, i
    <3>1. CASE i \in Slots /\ msgs[t][i] = Empty /\ Fills(t, i)
      <4>1. PICK m \in Nat \cup {Garbled} :
               /\ m # Empty
               /\ msgs' = [msgs EXCEPT ![t][i] = m] /\ phantom' = phantom
        BY <1>t, <3>1, FillsIs DEF Empty
      <4>3. Number(msgs') = Number(msgs) + 1
        <5>0. msgs[t][i] = Empty /\ m # Empty /\ i \in Slots /\ t \in Topics
          BY <2>1, <3>1, <4>1
        <5>1. Number([msgs EXCEPT ![t][i] = m]) = Number(msgs) + 1
          BY <1>t, <5>0, NumberAfter
        <5> QED
          BY <4>1, <5>1
      <4> QED
        BY <1>n, <1>t, <4>1, <4>3
    <3>2. CASE phantom' = phantom + 1 /\ UNCHANGED msgs
      BY <1>n, <1>t, <3>2
    <3>3. CASE \E u \in Topics, j \in Slots :
                 /\ msgs[u][j] \in Nat \ {0}
                 /\ msgs' = [msgs EXCEPT ![u][j] = Garbled]
                 /\ phantom' = phantom + 1
      <4>1. PICK u \in Topics, j \in Slots :
                 /\ msgs[u][j] # Empty
                 /\ msgs' = [msgs EXCEPT ![u][j] = Garbled]
                 /\ phantom' = phantom + 1
        BY <3>3 DEF Empty
      <4>2. Garbled \in Nat \cup {Garbled} /\ Garbled # Empty
        BY DEF Garbled, Empty
      <4>3. Number(msgs') = Number(msgs)
        <5> DEFINE v == Garbled
        <5>0. v \in Nat \cup {Garbled} /\ (msgs[u][j] = Empty <=> v = Empty)
          BY <4>1, <4>2
        <5> HIDE DEF v
        <5>a. Number([msgs EXCEPT ![u][j] = v]) = Number(msgs)
          BY <1>t, <5>0, NumberAfter
        <5>1. Number([msgs EXCEPT ![u][j] = Garbled]) = Number(msgs)
          BY <5>a DEF v
        <5> QED
          BY <4>1, <5>1
      <4> QED
        BY <1>n, <1>t, <4>1, <4>3
    <3> QED
      BY <2>1, <3>1, <3>2, <3>3
  <2> QED
    BY <1>1, <1>2, <2>1, <2>2, <2>3 DEF Step
<1>3. ASSUME NEW p \in Procs, UpdateGet(p) PROVE Goal
  <2> DEFINE t == call[p].tag   i == call[p].index   m == msgs[t][i]
  <2>1. /\ pc[p] = "update" /\ call[p].op \in Gets
        /\ t \in Topics /\ i \in Slots /\ m \in Nat \cup {Garbled}
        /\ \/ pc' = [pc EXCEPT ![p] = "user"] /\ UNCHANGED buffer
           \/ /\ \E copied \in BOOLEAN : Take(t, i, copied)
              /\ call' = [call EXCEPT ![p] =
                             [call[p] EXCEPT !.temp = tweetcounter, !.got = m]]
              /\ pc' = [pc EXCEPT ![p] = "save"]
        /\ UNCHANGED tweetcounter
    BY <1>3, UpdateGetIs
  <2>2. CASE pc' = [pc EXCEPT ![p] = "user"] /\ UNCHANGED buffer
    <3>1. \A q \in Procs : pc[q] # "save"
      BY <2>1, <1>o DEF Holding
    <3>2. \A q \in Procs : pc'[q] # "save"
      BY <1>t, <2>2, <3>1
    <3> QED
      BY <1>b, <2>1, <2>2, <3>1, <3>2 DEF buffer
  <2>3. CASE /\ \E copied \in BOOLEAN : Take(t, i, copied)
             /\ call' = [call EXCEPT ![p] =
                            [call[p] EXCEPT !.temp = tweetcounter, !.got = m]]
             /\ pc' = [pc EXCEPT ![p] = "save"]
    <3>1. /\ pc'[p] = "save" /\ call'[p].temp = tweetcounter
          /\ call'[p].op \notin Puts
      BY <1>t, <2>1, <2>3 DEF CallType, Puts, Gets
    <3>2. /\ msgs' = [msgs EXCEPT ![t][i] = Empty]
          /\ phantom' = IF msgs[t][i] = Empty THEN phantom - 1 ELSE phantom
      BY <2>3 DEF Take
    <3>3. Number(msgs') + phantom' = Number(msgs) + phantom - 1
      <4> HIDE DEF t, i
      <4>1. Empty \in Nat \cup {Garbled}
        BY DEF Empty
      <4>2. /\ m = Empty => Number(msgs') = Number(msgs)
            /\ m # Empty => Number(msgs') = Number(msgs) - 1
        <5>1. LET f == [msgs EXCEPT ![t][i] = Empty] IN
              /\ m = Empty => Number(f) = Number(msgs)
              /\ m # Empty => Number(f) = Number(msgs) - 1
          BY <1>t, <2>1, <4>1, NumberAfter
        <5> QED
          BY <3>2, <5>1
      <4> QED
        BY <1>n, <1>t, <3>2, <4>2
    <3> QED
      BY <1>1, <1>3, <2>1, <3>1, <3>3 DEF Step
  <2> QED
    BY <2>1, <2>2, <2>3
<1>4. ASSUME NEW p \in Procs, Save(p) PROVE Goal
  <2>1. /\ pc[p] = "save" /\ tweetcounter' = SavedCount(p)
        /\ pc' = [pc EXCEPT ![p] = "wakeup"] /\ UNCHANGED <<msgs, phantom>>
    BY <1>4 DEF Save, GoTo, buffer
  <2>2. \A q \in Procs : pc'[q] # "save"
    BY <1>t, <1>o, <2>1 DEF Holding
  <2> QED
    BY <1>b, <2>1, <2>2
<1>5. ASSUME UNCHANGED <<tweetcounter, msgs, phantom>>,
             \A q \in Procs : /\ pc'[q] = "save" <=> pc[q] = "save"
                              /\ pc[q] = "save" => call'[q] = call[q]
      PROVE  Goal
  BY <1>b, <1>5 DEF SavedCount
<1>6. ASSUME NEW p \in Procs, Enter(p) \/ Sleep(p) \/ Wakeup(p) PROVE Goal
  <2>1. Step(p) /\ UNCHANGED <<tweetcounter, msgs, phantom>>
    BY <1>6 DEF Step, Enter, Sleep, Wakeup, buffer
  <2>2. pc[p] # "save"
    BY <1>6 DEF Enter, Sleep, Wakeup
  <2>3. pc'[p] # "save"
    <3>1. CASE Enter(p)
      <4>1. pc'[p] \in {"update", "sleep", "user"}
        BY <3>1, <2>1, OwnStep DEF Enter, Holding
      <4> QED
        BY <4>1
    <3>2. CASE Sleep(p)
      BY <1>t, <3>2 DEF Sleep, GoTo
    <3>3. CASE Wakeup(p)
      BY <2>1, <3>3, OwnStep DEF Wakeup
    <3> QED
      BY <1>6, <3>1, <3>2, <3>3
  <2> QED
    BY <1>5, <2>1, <2>2, <2>3, OthersStay
<1>7. ASSUME NEW p \in Procs, NEW o \in Ops, NEW u \in inUse, Call(p, o, u) PROVE Goal
  BY <1>5, <1>7, <1>t DEF Call, GoTo, buffer
<1>8. ASSUME NEW p \in Procs, Kill(p) PROVE Goal
  BY <1>5, <1>8, <1>t DEF Kill, buffer
<1>9. CASE UNCHANGED vars
  BY <1>5, <1>9 DEF vars, buffer
<1> QED
  BY <1>2, <1>3, <1>4, <1>6, <1>7, <1>8, <1>9 DEF Next, Step
------------------------------------------------------------------------------
LEMMA InitInv == Init => IInv
<1> SUFFICES ASSUME Init PROVE IInv
  OBVIOUS
<1>1. TypeOK
  BY InitIsTyped
<1>2. /\ \A p \in Procs : pc[p] = "user" /\ call[p].next = 1
      /\ \A t \in Topics : lock[t] = Free
      /\ \A t \in Topics, i \in Slots : msgs[t][i] = Empty
  BY DEF Init, NoCall
<1>3. IndexRight /\ LockHeld /\ SeenFull /\ WakesFromFirst /\ InSession
  BY <1>2 DEF IndexRight, LockHeld, SeenFull, WakesFromFirst, InSession, Holding
<1>4. SleepersAttended
  BY <1>2 DEF SleepersAttended
<1>5. Conserved(msgs, sent, received, lost)
  BY <1>2 DEF Init, Conserved, Kept, Distinct, Numbers, Empty
<1>6. Counted
  <2>1. Occupied = {}
    BY <1>2 DEF Occupied
  <2>2. Cardinality(Occupied) = 0
    BY <2>1, FS_EmptySet
  <2> QED
    BY <1>2, <2>2 DEF Counted, Init
<1> QED
  BY <1>1, <1>3, <1>4, <1>5, <1>6, NoMissedSlotIs, ConservedIs DEF IInv

LEMMA StepInv == IInv /\ [Next]_vars => IInv'
<1> SUFFICES ASSUME IInv, [Next]_vars PROVE IInv'
  OBVIOUS
<1> USE DEF IInv
<1>1. TypeOK'
  BY TypeStep
<1>2. IndexRight'
  BY IndexStep
<1>3. LockHeld' /\ WakesFromFirst' /\ InSession'
  BY ControlStep
<1>4. SeenFull'
  BY SeenFullStep
<1>5. TweetsConserved'
  BY ConservedStep
<1>6. NoMissedSlot'
  BY SleepersStep, NoMissedSlotIs
<1>7. Counted'
  BY CountedStep
<1> QED
  BY <1>1, <1>2, <1>3, <1>4, <1>5, <1>6, <1>7

LEMMA Invariant == Spec => []IInv
BY InitInv, StepInv, PTL DEF Spec

(* The variables keep their types: every index is one of a slot or -1,     *)
(* whatever was looked up before and after a sleep.                        *)
THEOREM TweetTypeCorrect == Spec => []TypeOK
<1>1. IInv => TypeOK
  BY DEF IInv
<1> QED
  BY <1>1, Invariant, PTL

(* Every message stored in a slot is in that one slot, or was returned to  *)
(* one getter, or was destroyed in a way the code has (a failed copyout in *)
(* tget(), a store at index -1): with any number of callers and topics     *)
(* none is overwritten and none is returned twice.                         *)
THEOREM EveryTweetAccounted == Spec => []TweetsConserved
<1>1. IInv => TweetsConserved
  BY DEF IInv
<1> QED
  BY <1>1, Invariant, PTL

(* A btput() that sleeps because its topic was full sleeps beside an empty *)
(* slot only while the getter that emptied it has still to visit it in     *)
(* wakeup(): the wakeup for a slot is never missed.                        *)
THEOREM FullTopicSleepersWoken == Spec => []NoMissedSlot
<1>1. IInv => NoMissedSlot
  BY DEF IInv
<1> QED
  BY <1>1, Invariant, PTL

(* Programs that use one topic have tweetcounter right between calls,      *)
(* although no lock is meant for it: the topic's own lock does.            *)
THEOREM OneTopicCountsRight == Spec => []CounterExactForOneTopic
<1>1. IInv => CounterExactForOneTopic
  <2> SUFFICES ASSUME IInv, Cardinality(inUse) = 1, \A t \in Topics : lock[t] = Free
               PROVE  tweetcounter = Cardinality(Occupied) + phantom
    BY DEF CounterExactForOneTopic
  <2>1. \A p \in Procs : call[p].tag \in Topics /\ Free # p
    BY TypeIs, FieldsAre, TweetAssumption DEF IInv, Free, Procs
  <2>2. \A p \in Procs : pc[p] # "save"
    BY <2>1 DEF IInv, LockHeld, Holding
  <2> QED
    BY <2>2 DEF IInv, Counted
<1> QED
  BY <1>1, Invariant, PTL
==============================================================================
