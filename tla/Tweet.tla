-------------------------------- MODULE Tweet --------------------------------
(***************************************************************************)
(* The tweet calls of Assignment_3/A/xv6-riscv/kernel/tweet.c: btput, tput,*)
(* btget and tget, with the sleep() and wakeup() of proc.c under them.     *)
(*                                                                         *)
(* Each topic has a spinlock over its own tweets; tweetcounter is shared   *)
(* by all topics and no lock protects it.  So a step here is one access to *)
(* tweetcounter or to another process's state, together with what the      *)
(* process does under its topic's lock around it: tweetcounter++ is a load *)
(* and a later store, and wakeup() visits the processes one at a time.     *)
(***************************************************************************)
EXTENDS Integers, FiniteSets

CONSTANTS NPROC,           \* the processes are 1..NPROC, in wakeup()'s order
          NUMTWEETTOPICS,  \* param.h:15
          MAXTAGTWEET,     \* param.h:17, slots of a topic
          MAXTWEETTOTAL,   \* param.h:14
          EmptyTweets,     \* whether a caller may put an empty message
          CopyoutResults,  \* the outcomes of copyout(): TRUE when it succeeds
          MaxCalls,        \* bound on the calls of a behaviour
          MaxKills         \* bound on the processes that are killed

ASSUME TweetAssumption ==
    /\ NPROC \in Nat \ {0} /\ NUMTWEETTOPICS \in Nat \ {0}
    /\ MAXTAGTWEET \in Nat \ {0} /\ MAXTWEETTOTAL \in Nat
    /\ EmptyTweets \in BOOLEAN /\ CopyoutResults \in SUBSET BOOLEAN
    /\ MaxCalls \in Nat /\ MaxKills \in Nat

Procs == 1..NPROC
Topics == 0..(NUMTWEETTOPICS - 1)
Slots == 0..(MAXTAGTWEET - 1)
Ops == {"btput", "tput", "btget", "tget"}
Puts == {"btput", "tput"}
Gets == {"btget", "tget"}
Blocking == {"btput", "btget"}
PCs == {"user", "acquire", "update", "save", "wakeup", "sleep", "asleep", "reacquire"}

Free == 0      \* a spinlock that nobody holds
Empty == 0     \* a message of length 0
Garbled == -1  \* a message overwritten by a store at index -1

VARIABLES
    tweetcounter,
    msgs,      \* the message of each slot of each topic; the accepted
               \* messages are numbered 1, 2, ...
    lock,      \* the holder of each topic's spinlock
    inUse,     \* the topics that the programs of this session use
    pc,
    call,      \* each process's call: its op and tag, its local variable
               \* index, the register "temp" in which tweetcounter is
               \* incremented, the "next" process that wakeup() visits, and
               \* what a getter copied out
    killed, calls,
    sent, received, lost,  \* how many messages were stored in a slot, which
                           \* were returned to a getter, which destroyed
    phantom,   \* what was counted without being in a slot, less what was
               \* discounted without having been in one
    residue    \* the topics whose last slot is empty but for what a store at
               \* index -1 left in the second part of its message

buffer == <<msgs, sent, received, lost, phantom, residue>>
session == <<inUse, killed, calls>>
vars == <<tweetcounter, buffer, lock, pc, call, session>>

NoCall == [op |-> "tget", tag |-> 0, index |-> -1, temp |-> 0, next |-> 1,
           got |-> Empty]

Init == /\ tweetcounter = 0
        /\ msgs = [t \in Topics |-> [i \in Slots |-> Empty]]
        /\ lock = [t \in Topics |-> Free]
        /\ inUse \in SUBSET Topics \ {{}}
        /\ pc = [p \in Procs |-> "user"]
        /\ call = [p \in Procs |-> NoCall]
        /\ killed = {} /\ calls = 0
        /\ sent = 0 /\ received = {} /\ lost = {} /\ phantom = 0
        /\ residue = {}

(* The first slot of S, or -1. *)
First(S) == IF S = {} THEN -1 ELSE CHOOSE i \in S : \A j \in S : i <= j

gettagindex(t) == First({i \in Slots : msgs[t][i] # Empty})
getemptyindex(t) == First({i \in Slots : msgs[t][i] = Empty})

SleepChan(o) == IF o = "btput" THEN "getchan" ELSE "putchan"
WakeChan(o) == IF o = "btput" THEN "putchan" ELSE "getchan"

GoTo(p, l) == pc' = [pc EXCEPT ![p] = l]
Release(p) == lock' = [lock EXCEPT ![call[p].tag] = Free]
Return(p) == GoTo(p, "user") /\ call' = [call EXCEPT ![p] = NoCall]
------------------------------------------------------------------------------
Call(p, o, t) ==
    /\ pc[p] = "user" /\ p \notin killed
    /\ calls < MaxCalls
    /\ calls' = calls + 1
    /\ GoTo(p, "acquire")
    /\ call' = [call EXCEPT ![p].op = o, ![p].tag = t]
    /\ UNCHANGED <<tweetcounter, buffer, lock, inUse, killed>>

(* The index a process looks up once it has the lock: a btget that slept    *)
(* looks for an empty slot.                                                 *)
Lookup(p) ==
    IF call[p].op \in Puts \/ (call[p].op = "btget" /\ pc[p] = "reacquire")
    THEN getemptyindex(call[p].tag)
    ELSE gettagindex(call[p].tag)

(* Whether the call goes on to change the buffer.                           *)
Proceeds(o, i) ==
    CASE o = "btput" -> i # -1 /\ tweetcounter <= MAXTWEETTOTAL
      [] o = "tput"  -> i # -1 \/ tweetcounter > MAXTWEETTOTAL
      [] OTHER       -> i # -1

(* Mutant: the call that returns -1 keeps the lock.                         *)
RefuseKeepsLock(p) == Return(p) /\ lock' = [lock EXCEPT ![call[p].tag] = p]

(* tput() and tget() release the lock and return -1.                        *)
Refuse(p) == Return(p) /\ Release(p)

(* acquire(), the lookup, and the test of the call.                         *)
Enter(p) ==
    LET i == Lookup(p)
        o == call[p].op
    IN  /\ pc[p] \in {"acquire", "reacquire"}
        /\ lock[call[p].tag] = Free
        /\ IF Proceeds(o, i) \/ o \in Blocking
           THEN /\ lock' = [lock EXCEPT ![call[p].tag] = p]
                /\ call' = [call EXCEPT ![p].index = i]
                /\ GoTo(p, IF Proceeds(o, i) THEN "update" ELSE "sleep")
           ELSE Refuse(p)
        /\ UNCHANGED <<tweetcounter, buffer, session>>

(* Mutant: the topic's lock is given up before the process is asleep.       *)
SleepUnlocksFirst(p) ==
    /\ pc[p] = "sleep"
    /\ IF lock[call[p].tag] = p THEN Release(p) /\ UNCHANGED pc
       ELSE GoTo(p, "asleep") /\ UNCHANGED lock
    /\ UNCHANGED <<tweetcounter, buffer, call, session>>

(* sleep(): p->lock is held from before the topic's lock is released until  *)
(* the process is SLEEPING, so no wakeup() visits it in between.            *)
Sleep(p) ==
    /\ pc[p] = "sleep"
    /\ Release(p)
    /\ GoTo(p, "asleep")
    /\ UNCHANGED <<tweetcounter, buffer, call, session>>
------------------------------------------------------------------------------
LastSlot == MAXTAGTWEET - 1

(* What is left of residue once slot i of topic t is stored to or cleared.  *)
ResidueWithout(t, i) == IF i = LastSlot THEN residue \ {t} ELSE residue

(* The store of a message in slot i of topic t.  strncpy() does not         *)
(* terminate it: one that is long enough is continued by what a store at    *)
(* index -1 left in the slot.                                               *)
StoreInSlot(t, i) ==
    /\ sent' = sent + 1
    /\ residue' = ResidueWithout(t, i)
    /\ UNCHANGED phantom
    /\ \/ /\ msgs' = [msgs EXCEPT ![t][i] = sent + 1]
          /\ UNCHANGED lost
       \/ /\ i = LastSlot /\ t \in residue
          /\ msgs' = [msgs EXCEPT ![t][i] = Garbled]
          /\ lost' = lost \cup {sent + 1}

(* A message of length 0 leaves the slot as it is.                          *)
StoreEmpty ==
    /\ EmptyTweets
    /\ phantom' = phantom + 1
    /\ UNCHANGED <<msgs, sent, lost, residue>>

(* tput() at index -1 writes before the topic's array, into the second part *)
(* of the message in the last slot of the topic before it (messages are     *)
(* taken to be short enough to stay clear of the lock in between): an empty *)
(* slot stays empty but for that part, a message is damaged when it is long *)
(* enough.                                                                  *)
StoreStray(t) ==
    LET before == IF t = 0 THEN Empty ELSE msgs[t - 1][LastSlot]
    IN  /\ phantom' = phantom + 1
        /\ UNCHANGED sent
        /\ \/ UNCHANGED <<msgs, lost, residue>>
           \/ /\ t # 0 /\ before = Empty
              /\ residue' = residue \cup {t - 1}
              /\ UNCHANGED <<msgs, lost>>
           \/ /\ before > 0
              /\ msgs' = [msgs EXCEPT ![t - 1][LastSlot] = Garbled]
              /\ lost' = lost \cup {before}
              /\ UNCHANGED residue

(* btput() and tput(): the store, and the load of tweetcounter.             *)
UpdatePut(p) ==
    /\ pc[p] = "update" /\ call[p].op \in Puts
    /\ IF call[p].index = -1 THEN StoreStray(call[p].tag)
       ELSE StoreInSlot(call[p].tag, call[p].index) \/ StoreEmpty
    /\ call' = [call EXCEPT ![p].temp = tweetcounter]
    /\ GoTo(p, "save")
    /\ UNCHANGED <<tweetcounter, received, lock, session>>

(* Mutant: the message is copied out but not cleared.                       *)
TakeWithoutClearing(t, i, copied) ==
    /\ received' = IF copied /\ msgs[t][i] > 0 THEN received \cup {msgs[t][i]}
                   ELSE received
    /\ UNCHANGED <<msgs, lost, phantom, residue>>

(* The copyout of the message in slot i of topic t, and its clearing.       *)
Take(t, i, copied) ==
    LET m == msgs[t][i]
    IN  /\ msgs' = [msgs EXCEPT ![t][i] = Empty]
        /\ received' = IF copied /\ m > 0 THEN received \cup {m} ELSE received
        /\ lost' = IF ~copied /\ m > 0 THEN lost \cup {m} ELSE lost
        /\ phantom' = IF m = Empty THEN phantom - 1 ELSE phantom
        /\ residue' = ResidueWithout(t, i)

(* btget() and tget(), and the load of tweetcounter.  btget() returns -1    *)
(* when copyout() fails; tget() does not look at its result.                *)
UpdateGet(p) ==
    LET t == call[p].tag  i == call[p].index
    IN  /\ pc[p] = "update" /\ call[p].op \in Gets
        /\ \E copied \in CopyoutResults :
             IF call[p].op = "btget" /\ ~copied
             THEN Refuse(p) /\ UNCHANGED buffer
             ELSE /\ Take(t, i, copied) /\ UNCHANGED <<sent, lock>>
                  /\ call' = [call EXCEPT ![p].temp = tweetcounter,
                                          ![p].got = msgs[t][i]]
                  /\ GoTo(p, "save")
        /\ UNCHANGED <<tweetcounter, session>>

(* Mutant: tget() does not discount the message it returns.                 *)
SavedCountForgetsTget(p) ==
    CASE call[p].op \in Puts   -> call[p].temp + 1
      [] call[p].op = "btget" -> call[p].temp - 1
      [] OTHER                -> call[p].temp

SavedCount(p) == IF call[p].op \in Puts THEN call[p].temp + 1 ELSE call[p].temp - 1

(* The store of tweetcounter.                                               *)
Save(p) ==
    /\ pc[p] = "save"
    /\ tweetcounter' = SavedCount(p)
    /\ GoTo(p, "wakeup")
    /\ UNCHANGED <<buffer, lock, call, session>>

(* Mutant: wakeup()'s loop runs to "<= &proc[NPROC]".                       *)
WakeupPastEnd(p) ==
    LET q == call[p].next
        wakes == pc[q] = "asleep" /\ SleepChan(call[q].op) = WakeChan(call[p].op)
    IN  /\ pc[p] = "wakeup"
        /\ pc' = IF wakes THEN [pc EXCEPT ![q] = "reacquire"] ELSE pc
        /\ call' = [call EXCEPT ![p].next = q + 1]
        /\ UNCHANGED <<tweetcounter, buffer, lock, session>>

(* wakeup() looks at one process; after the last one the call releases the  *)
(* lock and returns 0.                                                      *)
Wakeup(p) ==
    LET q == call[p].next
        wakes == pc[q] = "asleep" /\ SleepChan(call[q].op) = WakeChan(call[p].op)
        woken == IF wakes THEN [pc EXCEPT ![q] = "reacquire"] ELSE pc
    IN  /\ pc[p] = "wakeup"
        /\ IF q = NPROC
           THEN /\ pc' = [woken EXCEPT ![p] = "user"]
                /\ call' = [call EXCEPT ![p] = NoCall]
                /\ Release(p)
           ELSE /\ pc' = woken
                /\ call' = [call EXCEPT ![p].next = q + 1]
                /\ UNCHANGED lock
        /\ UNCHANGED <<tweetcounter, buffer, session>>

(* kill() makes a sleeping process runnable; it goes on with its call, and  *)
(* makes no other.                                                          *)
Kill(p) ==
    /\ p \notin killed
    /\ Cardinality(killed) < MaxKills
    /\ killed' = killed \cup {p}
    /\ pc' = IF pc[p] = "asleep" THEN [pc EXCEPT ![p] = "reacquire"] ELSE pc
    /\ UNCHANGED <<tweetcounter, buffer, lock, call, inUse, calls>>

Step(p) == Enter(p) \/ Sleep(p) \/ UpdatePut(p) \/ UpdateGet(p) \/ Save(p) \/ Wakeup(p)

Next == \E p \in Procs : \/ \E o \in Ops, t \in inUse : Call(p, o, t)
                         \/ Step(p)
                         \/ Kill(p)

Spec == Init /\ [][Next]_vars

(* A process in the kernel is scheduled again and again.                    *)
FairSpec == Spec /\ \A p \in Procs : WF_vars(Step(p))
------------------------------------------------------------------------------
Stored(t) == {msgs[t][i] : i \in Slots} \ {Empty, Garbled}
InStore == UNION {Stored(t) : t \in Topics}
Occupied == {x \in Topics \X Slots : msgs[x[1]][x[2]] # Empty}
Holding == {"update", "save", "wakeup", "sleep"}

TypeOK ==
    /\ tweetcounter \in Int /\ phantom \in Int
    /\ msgs \in [Topics -> [Slots -> Nat \cup {Garbled}]]
    /\ lock \in [Topics -> Procs \cup {Free}]
    /\ inUse \in SUBSET Topics /\ killed \in SUBSET Procs
    /\ pc \in [Procs -> PCs]
    /\ call \in [Procs -> [op : Ops, tag : Topics, index : Slots \cup {-1},
                           temp : Int, next : Procs, got : Nat \cup {Garbled}]]
    /\ calls \in 0..MaxCalls /\ sent \in Nat
    /\ received \in SUBSET Nat /\ lost \in SUBSET Nat
    /\ residue \in SUBSET Topics

(* Every message that was stored in a slot is still in one slot, or was     *)
(* returned to one getter, or was destroyed by a failed copyout in tget()   *)
(* or by a store at index -1, before it or after it: none is overwritten    *)
(* and none is returned twice, through every sleep and every race on        *)
(* tweetcounter.                                                            *)
TweetsConserved ==
    /\ InStore \cup received \cup lost = 1..sent
    /\ InStore \cap received = {} /\ InStore \cap lost = {} /\ received \cap lost = {}
    /\ \A x, y \in Occupied : msgs[x[1]][x[2]] = msgs[y[1]][y[2]] =>
                              x = y \/ msgs[x[1]][x[2]] = Garbled

(* A btput() that went to sleep because its topic was full is woken when a  *)
(* slot of the topic is emptied: it sleeps on next to an empty slot only    *)
(* while the process that emptied it has still to visit it.                 *)
NoMissedSlot ==
    \A p \in Procs :
        /\ pc[p] = "asleep" /\ call[p].op = "btput" /\ call[p].index = -1
        /\ getemptyindex(call[p].tag) # -1
        => LET q == lock[call[p].tag]
           IN  /\ q # Free /\ call[q].op \in Gets
               /\ pc[q] = "save" \/ (pc[q] = "wakeup" /\ call[q].next <= p)

(* With programs that use a single topic its lock protects tweetcounter     *)
(* too, and between calls it counts the occupied slots, corrected by the    *)
(* puts and gets that found none.                                           *)
CounterExactForOneTopic ==
    Cardinality(inUse) = 1 /\ (\A t \in Topics : lock[t] = Free)
        => tweetcounter = Cardinality(Occupied) + phantom

(* tput() and tget() return, whatever the other processes sleep on.         *)
NonBlockingReturns ==
    \A p \in Procs : pc[p] = "acquire" /\ call[p].op \notin Blocking ~> pc[p] = "user"
==============================================================================
