-------------------------------- MODULE Pipe ---------------------------------
(***************************************************************************)
(* A pipe of xv6, kernel/pipe.c, and the reference counts of its two files *)
(* (kernel/file.c).                                                        *)
(*                                                                         *)
(* "lock" is who has pi->lock across several steps: a writer, which looks  *)
(* at readopen and at its killed flag before each byte, and a process that *)
(* decided to sleep and has not done so yet.  Nothing else takes the lock  *)
(* in between, but a kill() comes at any time.  The other critical         *)
(* sections are one step.  nread and nwrite wrap around as uints do.       *)
(***************************************************************************)
EXTENDS Integers, FiniteSets, Sequences

CONSTANTS Procs, NoProc, Bytes,
          PIPESIZE,   \* pipe.c:11
          WORD,       \* the number of values of a uint, 2^32 in C
          MaxBytes,   \* bound: the longest read() or write()
          MaxKills    \* bound: the processes that are killed

ASSUME PipeAssumption ==
    /\ NoProc \notin Procs /\ IsFiniteSet(Procs)
    /\ PIPESIZE \in Nat \ {0} /\ WORD \in Nat
    /\ WORD % PIPESIZE = 0 /\ PIPESIZE < WORD
    /\ MaxBytes \in Nat /\ MaxKills \in Nat

VARIABLES
    data, nread, nwrite,
    open,     \* the ends with readopen or writeopen set
    lock,
    ref,      \* f->ref of the files of the two ends
    fds,      \* the ends a process has a descriptor of
    at,       \* where a process is
    left,     \* the bytes its read() or write() has still to move
    killed

pipevars == <<data, nread, nwrite, open, lock>>
filevars == <<ref, fds>>
vars == <<pipevars, filevars, at, left, killed>>

End == {"r", "w"}
Places == {"out", "read", "rtested", "rasleep", "write", "writing", "wtested",
           "wasleep", "rclose", "wclose"}
ClosePlace == [r |-> "rclose", w |-> "wclose"]

Init == /\ \E b \in Bytes : data = [i \in 0 .. PIPESIZE - 1 |-> b]
        /\ nread = 0 /\ nwrite = 0
        /\ open = {} /\ lock = NoProc
        /\ ref = [e \in End |-> 0]
        /\ fds = [p \in Procs |-> {}]
        /\ at = [p \in Procs |-> "out"]
        /\ left = [p \in Procs |-> 0]
        /\ killed = {}

Goto(p, place) == at' = [at EXCEPT ![p] = place]

(* at[] after a wakeup() and p's next step. *)
Wakeup(asleep, awake, p, place) ==
    at' = [q \in Procs |-> IF q = p THEN place
                           ELSE IF at[q] = asleep THEN awake ELSE at[q]]

(* Mutant: the readers are not woken. *)
NobodyWoken(p, place) == Goto(p, place)

WakeReaders(p, place) == Wakeup("rasleep", "read", p, place)
WakeWriters(p, place) == Wakeup("wasleep", "write", p, place)

(* A read() or write() returns: its local variables are gone. *)
Done(p) == left' = [left EXCEPT ![p] = 0]

Held == (nwrite - nread) % WORD
Empty == nread = nwrite

(* Mutant: the sum does not wrap around. *)
FullPlain == nwrite = nread + PIPESIZE

Full == nwrite = (nread + PIPESIZE) % WORD

------------------------------------------------------------------------------
(* pipe(), when the page of an earlier pipe has been freed. *)
Pipealloc(p) ==
    /\ at[p] = "out" /\ p \notin killed
    /\ open = {} /\ \A q \in Procs : fds[q] = {} /\ at[q] = "out"
    /\ open' = End /\ nread' = 0 /\ nwrite' = 0
    /\ ref' = [e \in End |-> 1]
    /\ fds' = [fds EXCEPT ![p] = End]
    /\ UNCHANGED <<data, lock, at, left, killed>>

(* Mutant: filedup() forgets the count. *)
DupUncounted(p) == ref

Dup(p) == [e \in End |-> IF e \in fds[p] THEN ref[e] + 1 ELSE ref[e]]

(* fork(): filedup() of each descriptor.  The parent has them meanwhile, so *)
(* the calls are one step.                                                 *)
Filedup(p, q) ==
    /\ at[p] = "out" /\ fds[p] # {} /\ p \notin killed
    /\ at[q] = "out" /\ fds[q] = {} /\ q \notin killed
    /\ fds' = [fds EXCEPT ![q] = fds[p]]
    /\ ref' = Dup(p)
    /\ UNCHANGED <<pipevars, at, left, killed>>

(* Mutant: the last but one closes the end. *)
LastOrTwo(e) == ref[e] <= 2

Last(e) == ref[e] = 1

(* fileclose(), by close() or exit(): the last one closes the end. *)
Fileclose(p, e) ==
    /\ at[p] = "out" /\ e \in fds[p]
    /\ fds' = [fds EXCEPT ![p] = @ \ {e}]
    /\ ref' = [ref EXCEPT ![e] = @ - 1]
    /\ IF Last(e) THEN Goto(p, ClosePlace[e]) ELSE UNCHANGED at
    /\ UNCHANGED <<pipevars, left, killed>>

Pipeclose(p, e) ==
    /\ at[p] = ClosePlace[e] /\ lock = NoProc
    /\ open' = open \ {e}
    /\ IF e = "w" THEN WakeReaders(p, "out") ELSE WakeWriters(p, "out")
    /\ UNCHANGED <<data, nread, nwrite, lock, filevars, left, killed>>

Call(p, e, n) ==
    /\ at[p] = "out" /\ e \in fds[p] /\ p \notin killed
    /\ Goto(p, IF e = "r" THEN "read" ELSE "write")
    /\ left' = [left EXCEPT ![p] = n]
    /\ UNCHANGED <<pipevars, filevars, killed>>

------------------------------------------------------------------------------
(* piperead(): nothing to read yet, *)
ReadWaits(p) ==
    /\ at[p] = "read" /\ lock = NoProc
    /\ Empty /\ "w" \in open
    /\ IF p \in killed THEN Goto(p, "out") /\ Done(p) /\ UNCHANGED lock
       ELSE Goto(p, "rtested") /\ lock' = p /\ UNCHANGED left
    /\ UNCHANGED <<data, nread, nwrite, open, filevars, killed>>

(* or bytes are taken: fewer than asked for if the pipe has no more or a   *)
(* copyout() fails.  The byte it fails on is gone.                         *)
ReadBytes(p) ==
    /\ at[p] = "read" /\ lock = NoProc
    /\ ~ (Empty /\ "w" \in open)
    /\ \E n \in 0 .. Held :
          /\ n <= left[p] /\ (n = 0 => Empty \/ left[p] = 0)
          /\ nread' = (nread + n) % WORD
    /\ WakeWriters(p, "out") /\ Done(p)
    /\ UNCHANGED <<data, nwrite, open, lock, filevars, killed>>

(* The second half of sleep(). *)
Sleep(p) ==
    /\ \/ at[p] = "rtested" /\ Goto(p, "rasleep")
       \/ at[p] = "wtested" /\ Goto(p, "wasleep")
    /\ lock' = NoProc
    /\ UNCHANGED <<data, nread, nwrite, open, filevars, left, killed>>

------------------------------------------------------------------------------
(* pipewrite(): the lock is taken. *)
WriteEnter(p) ==
    /\ at[p] = "write" /\ lock = NoProc
    /\ lock' = p /\ Goto(p, "writing")
    /\ UNCHANGED <<data, nread, nwrite, open, filevars, left, killed>>

Writes(p) == at[p] = "writing" /\ left[p] > 0 /\ "r" \in open /\ p \notin killed

WriteByte(p, b) ==
    /\ Writes(p) /\ ~Full
    /\ data' = [data EXCEPT ![nwrite % PIPESIZE] = b]
    /\ nwrite' = (nwrite + 1) % WORD
    /\ left' = [left EXCEPT ![p] = @ - 1]
    /\ UNCHANGED <<nread, open, lock, filevars, at, killed>>

WriteWaits(p) ==
    /\ Writes(p) /\ Full
    /\ WakeReaders(p, "wtested")
    /\ UNCHANGED <<pipevars, filevars, left, killed>>

(* All bytes are written, or copyin() fails. *)
WriteReturns(p) ==
    /\ at[p] = "writing" /\ (left[p] = 0 \/ (Writes(p) /\ ~Full))
    /\ WakeReaders(p, "out") /\ Done(p)
    /\ lock' = NoProc
    /\ UNCHANGED <<data, nread, nwrite, open, filevars, killed>>

(* No reader is left or the writer was killed: nobody is woken. *)
WriteFails(p) ==
    /\ at[p] = "writing" /\ left[p] > 0 /\ ~Writes(p)
    /\ Goto(p, "out") /\ Done(p)
    /\ lock' = NoProc
    /\ UNCHANGED <<data, nread, nwrite, open, filevars, killed>>

Kill(p) ==
    /\ p \notin killed /\ Cardinality(killed) < MaxKills
    /\ killed' = killed \cup {p}
    /\ Goto(p, CASE at[p] = "rasleep" -> "read" [] at[p] = "wasleep" -> "write"
                 [] OTHER -> at[p])
    /\ UNCHANGED <<pipevars, filevars, left>>

------------------------------------------------------------------------------
InCall(p) == \/ ReadWaits(p) \/ ReadBytes(p) \/ Sleep(p) \/ WriteEnter(p)
             \/ WriteWaits(p) \/ WriteReturns(p) \/ WriteFails(p)
             \/ \E b \in Bytes : WriteByte(p, b)
             \/ \E e \in End : Pipeclose(p, e)

Next == \E p \in Procs :
           \/ Pipealloc(p) \/ Kill(p) \/ InCall(p)
           \/ \E q \in Procs : Filedup(p, q)
           \/ \E e \in End : Fileclose(p, e)
           \/ \E e \in End, n \in 0 .. MaxBytes : Call(p, e, n)

Spec == Init /\ [][Next]_vars

(* The kernel schedules who is inside a call and does not sleep. *)
FairSpec == Spec /\ \A p \in Procs : WF_vars(InCall(p))
------------------------------------------------------------------------------
TypeOK ==
    /\ data \in [0 .. PIPESIZE - 1 -> Bytes]
    /\ nread \in 0 .. WORD - 1 /\ nwrite \in 0 .. WORD - 1
    /\ open \subseteq End
    /\ lock \in Procs \cup {NoProc}
    /\ ref \in [End -> 0 .. Cardinality(Procs)]
    /\ fds \in [Procs -> SUBSET End]
    /\ at \in [Procs -> Places]
    /\ left \in [Procs -> 0 .. MaxBytes]
    /\ killed \subseteq Procs

(* While nobody has the lock, a reader sleeps only beside an empty pipe    *)
(* that may still be written, and a writer only beside a full one that may *)
(* still be read.  A writer that is killed between two bytes wakes no      *)
(* reader for those it wrote (pipe.c:85), so a reader may then sleep on.   *)
NoMissedWakeup ==
    lock = NoProc =>
        \A p \in Procs :
            /\ at[p] = "rasleep" => "w" \in open /\ (Empty \/ killed # {})
            /\ at[p] = "wasleep" => "r" \in open /\ Full

(* Once nobody has the write end, a read() returns: with what is left in   *)
(* the pipe, or with the end of the file.                                  *)
EofSeen == \A p \in Procs :
    at[p] \in {"read", "rtested", "rasleep"} /\ ref["w"] = 0 ~> at[p] = "out"

(* The ring, its counters and the reference counts are a Fifo: bytes come  *)
(* out in order, and an end is closed exactly when nobody has it any more, *)
(* so that no process is ever inside a pipe that was freed.                *)
queueOf == [i \in 1 .. Held |-> data[(nread + i - 1) % PIPESIZE]]
havingOf == [e \in End |-> {p \in Procs : e \in fds[p]}]

Abstract == INSTANCE Fifo WITH queue <- queueOf, having <- havingOf,
                               Capacity <- PIPESIZE
ImplementsFifo == Abstract!FifoSpec
==============================================================================
