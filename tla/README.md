# Models and proofs for Operating-Systems-Concepts

The repository is course work on operating systems: programs and libraries of
its own (a pthread monitor, an allocator, shells, a message server) and system
calls and a scheduler built into three copies of the xv6-riscv kernel. This
directory holds TLA+ models of its concurrent and stateful parts, the TLC runs
that check them on small instances, and TLAPS proofs for instances of any size.

    tlc -workers 2 -config PetGroom.cfg MCPetGroom.tla     # one run
    tlapm PetGroomProofs.tla                               # one proof module

## 1. Inventory

Paths are relative to `src/`. Upstream xv6 code is listed where an assignment
builds on it.

### Pet grooming monitor: `Assignment_3/B/petgroomsynch.c`

* State: `openStations`, the counts of cats, dogs and others in a station,
  `blockedAttempts`; one mutex and the wait sets of four condition variables.
* Operations: `petgroom_init`, `newpet`, `petdone`, `petgroom_done`.
* Interaction: any number of threads; each calls `newpet`, sleeps, calls
  `petdone` (`petgroomTesting.c`, `newThread`).
* Hard: `newpet` may wait on three condition variables in a row and does not
  test an earlier condition again; single signals; a counter that is reset by
  whoever wakes up; spurious wakeups.
* Correct when: stations are neither lost nor given twice, no thread sleeps
  beside a station it could have, those who wait are served, cats and dogs are
  never groomed together (in a small facility they are, see 4).

### Tweet IPC: `Assignment_3/A/xv6-riscv/kernel/tweet.c`

* State: for each topic an array of message slots under a spinlock;
  `tweetcounter`, shared by all topics and under no lock.
* Operations: the system calls `btput`, `tput`, `btget`, `tget` (`sysproc.c`).
* Interaction: processes on all CPUs, through `sleep`, `wakeup` and `kill` of
  `proc.c` and the channels `getchan` and `putchan`, which all topics share.
* Hard: lost wakeups, lost updates of the counter, what is looked up after a
  sleep, failing `copyout`, stores at index -1.
* Correct when: no message is lost, overwritten or returned twice; sleepers are
  woken when what they sleep for happens; non-blocking calls return.

### MLFQ scheduler: `Assignment_2/B/xv6-riscv/kernel/proc.c`

* State: `state`, `priority`, `runtime` of each process, `schedulerCounter`.
* Operations: `scheduler` on each CPU; `yield`, `sleep`, `exit`, `fork`,
  `wait`, `waitstat`, `wakeup`, `kill` change the states it looks at.
* Hard: the scheduler reads the process table without a lock and then locks the
  process it chose; a process that gave up its CPU is still on its kernel stack;
  `schedulerCounter++` on several CPUs; tests for equality.
* Correct when: no process is on two CPUs or freed while in use; levels follow
  the allotments; new processes are served; those that wait are raised (they are
  not, see 4).

### Process tree: `fork`, `exit`, `wait`, `waitstat`, `kill` in the same file

* State: `parent`, `chan`, `killed`, `xstate`; `wait_lock`.
* Hard: lock order, `wakeup` before `ZOMBIE`, orphans given to a sleeping init,
  a kill between `wait`'s test and its sleep.
* Correct when: every zombie is reaped by one parent, no parent sleeps beside a
  zombie child, nobody is left without a living parent.

### Allocator: `Assignment_2/C/mem.c`

* State: mapped words with headers and footers, `currentBlock`, `freeListSize`.
* Operations: `M_Init`, `M_Alloc` (next fit), `M_Free` (merges neighbours),
  `M_Display` (prints only).
* Hard: remainders of size 0 read as the end of the list, footers that nobody
  sets, merges that leave `currentBlock` inside a block, a search that may not
  come back to where it began.
* Correct when: live blocks share no word, all accesses are in the mapping,
  calls return.

### Shell pipelines: `Assignment_1/Part B/wrdsh.c`

* State: a chain of commands run from the right, one pipe for each command, the
  child process of the command that runs (`pipeline.c` and `usingpipes.c` are
  earlier drafts of the same code).
* Operations: `execReverseOrder`, `runCommand`, the commands themselves.
* Hard: the shell waits for each command before it starts the next one, and
  keeps both ends of every pipe while it waits.
* Correct when: a line of commands runs to its end (it need not, see 4).

### Message server: `Assignment_4/serverdemo.c`

* State: one buffer for the line that is being broadcast, two counters of
  receivers, five mutexes, two condition variables, a thread for each connection
  (`server.c` is an unfinished draft; `client.c` and `receiver.c` copy between a
  socket and the terminal).
* Operations: `main` accepts, `recv_connection_helper` waits and sends,
  `send_connection_helper` receives and broadcasts.
* Hard: a wait on a condition variable without a condition; a buffer that is
  read without the lock it is written under.
* Correct when: each line is sent to all receivers connected when it is
  broadcast (it need not be, see 4).

### File system log of xv6: `kernel/log.c`

Upstream code, the same in every copy; the models follow `Assignment_2/B`.

* State: the header and slots on the disk, the header in memory, `outstanding`,
  `committing`.
* Operations: `begin_op`, `log_write`, `end_op`, `commit`, `recover_from_log`.
* Interaction: file system calls of all processes between `begin_op` and
  `end_op`; the buffer cache, from which logged blocks must not be recycled.
* Hard: a crash between any two writes, also of the recovery; several calls in
  one commit; who waits for space.
* Correct when: after a crash the disk has all of the calls of a commit or none
  of them; no call waits beside space.

### Buffer cache, sleep locks and disk driver: `kernel/bio.c`, `sleeplock.c`, `virtio_disk.c`

* State: buffers with block number, `valid`, `refcnt`, a sleep lock and a place in
  the LRU list; the driver's descriptors and the rings it shares with the device.
* Operations: `bread`, `bwrite`, `brelse`, `bpin`, `bunpin`; `virtio_disk_rw` and
  the interrupt handler.
* Hard: buffers are recycled while others look for them; three descriptors
  for a request; answers that come while an earlier interrupt is handled.
* Correct when: a block has one content, read and changed by one holder at a
  time; every request is answered; buffers come back.

### Pipes and file references: `kernel/pipe.c`, `file.c`

* State: a ring with two counters that wrap around, the open ends, the
  reference counts of the two files.
* Operations: `pipealloc`, `filedup` in `fork`, `fileclose`, `pipeclose`,
  `pipewrite`, `piperead`, `kill`.
* Hard: who wakes whom, also when a writer is killed between two bytes; the end
  of the file when the last writer goes.
* Correct when: bytes come out in order, an end closes exactly when nobody has
  it, nobody sleeps beside what it waits for.

### waitstat on the stock kernel: `Assignment_2/A`; howmanycmpt: `Assignment_1/Part A`

The same `waitstat` with xv6's round-robin scheduler; a counter read by one
system call. Not modelled: the first is a simpler case of `Mlfq`, the second
has no interaction.

### The rest of upstream xv6

`fs.c`, `sysfile.c`, `vm.c`, `kalloc.c`, `trap.c`, `exec.c` and the console. No
assignment changes them, and they are not modelled.

## 2. Modules

| module | models | checked by |
| --- | --- | --- |
| `PetGroom` | the grooming monitor | `PetGroom.cfg` |
| `GroomStations` | what the monitor promises about its stations | property `ImplementsStations` of `PetGroom.cfg` |
| `PetGroomProofs` | proofs about `PetGroom` | tlapm |
| `Tweet` | the tweet calls on sleep and wakeup | `Tweet.cfg` |
| `TweetProofs` | proofs about `Tweet` | tlapm |
| `Mlfq` | the scheduler on several CPUs | `Mlfq.cfg` and a violation run |
| `MlfqProofs` | proofs about `Mlfq` | tlapm |
| `ProcTree` | fork, exit, wait and kill with wait_lock | `ProcTree.cfg` |
| `ProcessForest` | what they promise about processes and parents | property `ImplementsForest` of `ProcTree.cfg` |
| `ProcTreeProofs` | proofs about `ProcTree` | tlapm |
| `MemLib` | the allocator | `MemLib.cfg` and a violation run |
| `MemLibProofs` | proofs about `MemLib` | tlapm |
| `Log` | the file system log over `BlockCache` | `Log.cfg` |
| `AtomicDisk` | what the log promises | property `ImplementsAtomicDisk` of `Log.cfg` |
| `LogProofs` | proofs about `Log` | tlapm |
| `BlockCache` | what the buffer cache promises; its actions are those `Log` is made of | property `ImplementsBlockCache` of `Bcache.cfg` |
| `Bcache` | the buffer cache and its sleep locks over `VirtioDisk` | `Bcache.cfg` |
| `VirtioDisk` | the disk driver and the device | `Bcache.cfg` |
| `BcacheProofs` | proofs about `Bcache` and `VirtioDisk` | tlapm |
| `Pipe` | the kernel pipe and the references to its files | `Pipe.cfg` |
| `Fifo` | what a pipe promises | property `ImplementsFifo` of `Pipe.cfg` |
| `PipeProofs` | proofs about `Pipe` | tlapm |
| `Pipeline` | how wrdsh runs a line of commands | a violation run |
| `Server` | the threads of serverdemo.c | a violation run |
| `MC...` | the instances for TLC and their constraints | |

**PetGroom.** The counters are the variables of the C file. All accesses to
them are under one mutex, so a step is what a thread does from getting the mutex
to giving it up, by returning or in `pthread_cond_wait`. `at[p]` is the place of
a thread, with one place for each wait set; `woken` holds the threads that left
a wait set and have still to take the mutex. `Newpet` and `Resume` are the two
ways into the chain of gates of `newpet` (too many attempts, the other species,
a bed). `Notify` sends the signals `petdone` sends, on the counts it has just
updated; which waiters they wake is any choice of that number. `SpuriousWakeup`
is what POSIX allows.

**Tweet.** `tweetcounter` is the only variable that is touched under different
locks, so the steps are cut at its accesses: `Enter` (lock, lookup, test, which
reads it), `UpdatePut`/`UpdateGet` (the store or copyout, and the load of the
counter), `Save` (its store), and one `Wakeup` step for each process `wakeup`
visits. `Sleep` is one step because `sleep` holds `p->lock` from before it gives
up the topic's lock until the process is SLEEPING, and `wakeup` takes `p->lock`.
A message is a number; empty messages, which leave a slot looking empty, and
messages that a store at index -1 damaged are told apart. Such a store may also
reach an empty slot, which stays empty but for what it leaves in its second part
(`residue`): a later message that is long enough comes out with that appended,
as `strncpy` does not terminate it. `sent`, `received`,
`lost`, `phantom` and `inUse` are history: they only observe.

**Mlfq.** Each unlocked look at a process is a step of its CPU (`Refresh`,
`Scan`), as is each critical section under a `p->lock`. From `Switched` to
`Store` the scheduler holds the lock the process took in `yield`, `sleep` or
`exit`; `Locked` is that, and the actions that take the lock wait for it.
`schedulerCounter++` is a load (in `Switched`) and a store (in `Store`).
`runtime` and `schedulerCounter` are compared for equality only, so what is past
the limit is one value. A process between the two halves of `fork` may be
interrupted by the timer and does nothing else.

**ProcTree.** A parent pointer changes under `wait_lock`, a state under `p->lock`.
So `fork` is three steps (`Fork`, `Adopt`, `Publish`), `exit` five (`Exit`,
`Acquire`, `Reparent`, `WakeParent`, `Die`), and `wait` takes the lock again and
again (`Acquire`), searches, and reaps (`Reap`), gives up (`GiveUp`) or sleeps
(`NoneDead`, `Sleep`). The search is one step because no child can die while
`wait_lock` is held. `switching` holds the processes whose lock `scheduler` has
still to release after they slept or died; who takes that lock waits
(`Switched`). In `wait`, the check of `p->killed` and the sleep are two steps, so a
kill may fall between them. `Mlfq` has the same calls as the scheduler sees them,
with CPUs and levels and without `wait_lock`. Through its states and parents
`ProcTree` is a `ProcessForest`: processes are forked, disown their children,
die and are reaped by their parent.

**MemLib.** A word is 16 bytes, a `memStruct`. Sizes are given in bytes and
rounded up as in the code. Of a `memptr` only equality with `magicNumber` is
ever tested, so that is all that is kept. `Write` is the caller, who writes the
words it was given. An access outside the mapping, or through a size that is a
caller's data, ends in `at = "undefined"`, of which nothing more is said.
`merged` records that a free merged a block with the one before it or with the
one at `currentBlock`: both leave the list damaged (see 4), and the properties
of the passing run hold up to there. `emptied` records a call `M_Alloc(0)`, after
which only `SearchEnds` claims nothing.

**Log.** The critical sections of `log.lock` are one step each. `commit` runs
outside the lock: `phase` is the function it is in (`write_log`, `write_head`,
`install_trans`, `erase`) and `tail` its loop's variable, and every block written to
the disk is a step, so that `Crash`, which is always possible, comes between any
two. The restart goes through `read_head`, `install_trans` and `erase` and may
crash as well. Blocks of the file system are read and changed through the
actions of `BlockCache`, which may drop a block that is neither held nor pinned
(`Evict`); the log's own blocks are the log's alone, so of them only what is on
the disk is kept. The refinement to `AtomicDisk` maps `durable` to what recovery
would make of the disk, and `current` to what the calls see.

**Bcache, VirtioDisk.** A step is a critical section of `bcache.lock`, of the
spinlock in a sleep lock, or of `vdisk_lock` between two sleeps. The interrupt
handler is cut at each entry of the used ring, since the device answers meanwhile
without a lock; `handling` is that the handler has `vdisk_lock`. The LRU list is a
sequence, from `head.next` to `head.prev`. A content is taken by the device when
it answers, in any order. `Log` and `Bcache` meet in `BlockCache`: what `Bcache` is
shown to implement is what `Log` is built on, each buffer held by one process,
one block at a time.

**Pipe.** Everything is under `pi->lock` but `killed`, which `pipewrite` tests
for every byte. So a write is cut at each byte, with the lock held (`lock`), and
so is a call that has tested `killed` and has still to sleep; a read is one step.
`filedup` and `fileclose` count the references of the two files; the last one
closes its end in a second step, as in `fileclose`, which has released
`ftable.lock` by then. The counters are kept modulo `WORD`, a multiple of
`PIPESIZE` as in C. The refinement to `Fifo` maps the ring to a queue and the
descriptors to the set of who has an end.

**Pipeline.** A command may read its input to the end or not, and writes some
output. `KeepsReader` and `KeepsWriter` are the `close` and `dup2` calls of the four
kinds of commands in `runCommand`. The pipes are the operating system's.

**Server.** Line numbers stand for lines. A sender's `recv` that fails returns -1,
which the code takes for a length: `RecvFails` goes on to broadcast what the buffer
still has, once, until `recv` returns 0. The sender's `strcpy` into the buffer
is two steps, with a torn buffer in between. `owed` is history: the lines that
were broadcast while a receiver was connected and that its thread did not send.

## 3. Runs that pass

* **`petgroom`** — four pets, facilities of 1, 2 and 4 stations, MAX_BLOCKS 0,
  spurious wakeups. Fewer stations than pets make threads wait for beds, 4
  stations is the ample facility, and MAX_BLOCKS 0 makes the first blocked
  thread stop the next. Four threads are enough for one in each wait set that
  matters at a time; the theorems below do away with the bound.
* **`tweet`** — two processes on two topics of one slot, limit 0, four calls, one
  kill, empty messages, `copyout` that may fail. One slot makes topics fill up
  at once; two topics are needed for the shared counter; four calls are two of
  each process, so that a call may meet a sleeper and its successor.
* **`mlfq`** — two CPUs, a table of two processes, MOVEUP 2, MTIMES 2. Both CPUs
  contend for both processes, slots are freed and used again, refreshes happen
  at every point. Only for a moment are both at HIGH; with three processes on one
  CPU, where two new ones may wait at HIGH at a time, all properties pass as well.
  The safety properties also pass with three processes on two CPUs and limits
  of 1 (6.8 million states). The theorems hold for all values.
* **`proctree`** — init and three other slots, four calls of `fork` and `wait` (the
  `wait` of init is not counted), exits and kills at any time. Three slots make
  an orphan with a sibling, or a grandchild of init's child; four calls are three
  forks and a `wait` of a process that is not init, or a slot that is used twice.
* **`memlib`** — 19 words, requests of none, one and three words, nine calls:
  blocks are split, merged with the block after them and allocated again. The 17
  words inside can be cut so that a free block of one word, of two or of none is
  left, in front of the end of the list as well as at it: a request of one word
  that is met by a free block of three leaves a remainder of size 0 between other
  blocks, which the search takes for the end of the list. That the searches end
  all the same (`SearchEnds`) is because such a remainder is always `currentBlock`
  when it is made, and is never again in front of it. The mutant that lets
  `currentBlock` step over it makes a search that does not end. The constraint
  `Unmerged` stops at the first merge that damages the list.

* **`log`** — three processes, two blocks of two values, and the log of param.h
  for MAXOPBLOCKS 1: LOGSIZE 3, with `nlog` the same as in mkfs.c. Three
  processes are needed for one that waits while another ends its call and a third
  goes on; a commit has up to two blocks, of one call or of two processes'. With
  MAXOPBLOCKS 2, a log of two slots and calls that write both blocks it passes
  as well, and so do three blocks with four slots, without liveness.
* **`bcache`** — two processes, three blocks, two buffers, four descriptors. Two
  buffers are recycled for three blocks, and the second request finds one
  descriptor where it needs three. At most one block is pinned.
* **`pipe`** — two processes, a ring of two bytes, counters modulo 4, reads and
  writes of up to three bytes, one kill. A write of three bytes fills the pipe
  and sleeps, and the counters wrap around within it. The safety properties also
  pass with three processes.

Deadlock is checked for `mlfq`, where the scheduler always goes on, for
`proctree`, where init always waits, and for `log`, where a crash is always
possible. The other systems may stop: all pets may be gone or asleep in a
session, all callers may sleep, all processes may wait for pipes that nobody
writes, the allocator's calls are bounded.

### Fairness

* `PetGroom`: weak fairness of `Resume` and `Petdone` for each pet. A thread that
  was signalled gets the mutex some time, since every thread holds it for a few
  instructions only; a groomed pet's thread calls `petdone` after a sleep of
  fixed length. Nothing is assumed of arrivals or of spurious wakeups.
* `Tweet`: weak fairness of a process's steps inside a call: the kernel schedules
  runnable processes. No fairness of `Call`.
* `Mlfq`: weak fairness of `Scheduler(c)` and `Yield(c)`: a CPU runs on, and the
  timer interrupts the process on it. Nothing is assumed of `fork`, `exit`, `wakeup`.
  In the violation run it excludes that the CPU stops or is never taken back, so
  that what starves there does so for want of a refresh.
* `ProcTree`: weak fairness of the steps inside the kernel and of init's calls of
  `wait` (`user/init.c` waits in a loop). Nothing is assumed of exits, and forks are
  bounded: under a stream of forks by init and early deaths, `wait`, which takes
  the first zombie of the table, may never come to a later one.
* `MemLib`: weak fairness of `Search`, a loop of a running thread.
* `Log`, `Bcache`, `Pipe`: a process that is runnable is run again and again. The files
  are the same in every copy of the kernel, and the round-robin schedulers of all but
  one give this; the MLFQ scheduler of `Assignment_2/B` does not give it to processes
  at LOW (see 4), and there these liveness properties hold for those that are run.
* `Log`: weak fairness of the commit and the recovery, loops of a running process;
  of what a call does with a block it holds; and strong fairness of `EndOp`: a
  call reads again and again, but only finitely often. Crashes are not fair.
* `Bcache`: weak fairness of the device with its interrupt, and of a woken
  process's return from `virtio_disk_rw`. Nothing is assumed of the calls.
* `Pipe`: weak fairness of a process's steps inside a call. Nothing is assumed of
  calls, closes and kills.
* `Pipeline`, `Server`: weak fairness of everything that does not depend on the
  outside; the counterexamples are not for want of progress.

## 4. Disagreements the runs show

* `mlfq_refresh`: the documentation (`A2_B_MLFQ_Scheduler_documentation.txt:18`) says
  that after MOVEUP runs "all the process priority is set as High", and so do
  `param.h:14` and the comment at `proc.c:471`. The loop at `proc.c:473` resets
  `runtime` and no priority. So of two processes that only compute the second of the
  table, once at LOW, waits for ever, although a refresh comes again and again
  (`WaitingIsRaised`). The run has one CPU, where no refresh is missed: with
  `priority[p]` set to HIGH in `Clear` the property holds in it, and on two CPUs it
  would still fail, since they can step over MOVEUP (see below). `FallsCorrect` is
  the proof that no step raises a living process, with any sizes and limits.
* `memlib_new`: freeing a block in front of `currentBlock` makes `M_Alloc` hand
  out the same words twice. The six calls of such a trace, compiled against
  `mem.c`, do the same.
* `pipeline`: a filter in a line of commands waits for the end of its input,
  whose write end the shell keeps, and the shell waits for the filter. Built and
  run, `grep impossible | cat wrdsh.c` hangs, while a line of
  commands that read nothing, `ls -d / | echo cat`, works.
* `server`: a line broadcast while a receiver's thread is not in
  `pthread_cond_wait` is never sent to it.

Others were met while the models were written and have no run of their own:

* A pet that waits for a bed has been tested for the other species before and is not
  tested again (`petgroomsynch.c:136`): in a facility of one or two stations a cat that
  waited is groomed together with a dog that came in the meantime, and the other way
  round. `A3b_Documentation.txt:17` says that this does not happen, and its known bugs,
  line 83, that it does, rarely. `ExclusionWhenAmple` says when it cannot, and
  `ExclusionHolds` proves it.
* A thread woken from `tooManyAttempts` resets `blockedAttempts` (`petgroomsynch.c:124`),
  which others have raised since; `petdone` then has no reason to broadcast, and those
  who sleep there stay. `WaitersServed` is about the other waits.
* A `btget` that slept looks for an *empty* slot (`tweet.c:145`, `Lookup` in
  `Tweet`) and returns without a message; `A3_A_IPC.txt:25-26` says otherwise.
* `btput` tests `tweetcounter` under its own topic's lock only, so that it misses
  the wakeup of a getter on another topic and sleeps on with room for its tweet
  (`tweet.c:83`). `NoMissedSlot` is what does hold.
* Two CPUs can step over `schedulerCounter == MOVEUP` (`proc.c:470`), after which
  no refresh follows (`Mlfq`'s `CountUp` goes to MOVEUP + 1).
* `log_write` panics when LOGSIZE - 1 blocks are logged, even for a block that is
  in the log already (`log.c:220`), as mkfs makes the log with its header LOGSIZE
  blocks long; `begin_op` admits calls up to LOGSIZE blocks (`param.h:10`). The
  run `log` goes there, to the phase `panic`, in which the machine has stopped and
  `SleepersWoken` claims nothing. Calls of this kernel that write
  MAXOPBLOCKS blocks each would be needed; `LogNeverPanics` says how many are safe.
* A writer killed between two bytes wakes no reader for those it wrote
  (`pipe.c:85`): `NoMissedWakeup` of `Pipe` leaves this case out. A kill between
  the test of `killed` and the sleep is seen only after the next wakeup.
* `M_Alloc(0)` makes a block of size 0 that a later search takes for the end of the
  list; when it lies in front of `currentBlock`, a search that fails starts over at the
  first block and comes to it again, for ever (`mem.c:108`).
  `A2c_documentation.txt:33` says that NULL is returned, and line 60 that no bugs are
  known. `SearchEnds` leaves out what follows a request of no bytes; without
  `~emptied` TLC finds the endless search.
* With a size that fills its pages the walk leaves the mapping (`mem.c:114`): the run
  `memlib` has a word to spare, `WithinMapping` fails without it, and `WalkStaysMapped`
  has it as a hypothesis.

## 5. Proofs

All theorems are of `Spec`, for every value of the constants that the named
assumptions allow: `PetGroomAssumption` (finitely many pets, positive station
counts), `MlfqAssumption` (positive table size and limits), `ProcTreeAssumption`
(positive table size), `TweetAssumption` (positive numbers of processes, topics and
slots), `MemLibAssumption` (memory of more than its two headers, requests that are
not negative), `LogAssumption` (a call writes at most MAXOPBLOCKS blocks),
`BlockCacheAssumption` (`NoProc` is no process),
`PipeAssumption` (finitely many processes, a ring whose size divides the word its
counters wrap around in), `BcacheAssumption` (finitely many processes) and
`DiskAssumption` (three descriptors or more, one buffer or more).

Every invariant and every refinement a passing run checks has a theorem. What a theorem says beyond its run is that no other number of
processes, of blocks or of slots makes it fail.

**`PetGroomProofs`** proves type correctness, `StationAccounting`,
`AttemptsOnlyWhileOccupied`, `NoLostBed`, `ExclusionWhenAmple` and that the
monitor implements `GroomStations`. None of the four is inductive alone:
`IInv` adds that a closed facility is empty (`Closed`), that the stations in use
are those of the groomed pets (`StationsInUse`), that only dogs sleep on `noCats`
and only cats on `noDogs` (`WaitsForTheOther`), and that in an ample facility
nobody waits for a bed (`NoBedWaitWhenAmple`). `GateOutcome` reduces the gates of
`newpet` to `Move`, a wait or an admission, and most steps are about `Move`.
`NoLostBed` compares the open stations with the threads on their way to one and
needs the cardinalities of `FiniteSetTheorems`.

**`MlfqProofs`** proves type correctness, `OneCpuPerProcess`, `LevelAllotments`,
`FreedOffCpu` and the action property `PriorityOnlyFalls`, which no run checks and which
says what the code does where a refresh is documented, for any number of CPUs
and processes. `IInv` adds `SwitchedOff` (a process whose lock the scheduler still
holds is RUNNABLE, SLEEPING or a ZOMBIE) and `Chosen` (what the scheduler is about
to use is a process). `SwitchedOff` is what keeps a process from a second CPU
between its `yield` and the release of its lock, and a zombie from being freed in
that time.

**`ProcTreeProofs`** proves type correctness, `LivingParents`, `NoZombieMissed` and
that `ProcTree` implements `ProcessForest`, for any size of the process table
(`ProcTreeAssumption`). `IInv` adds where a process can be in each state (`Where`),
who holds `wait_lock` (`Locked`), that a slot `fork` fills is USED and filled by one
process (`NewChild`), that a process has no children from `reparent` on
(`Childless`), and that a parent stays awake from its child's `wakeup` to the
child's death (`Awake`). `Childless` carries `LivingParents`, `Awake` carries
`NoZombieMissed`. In the refinement, `Publish`, `Reparent`, `Die` and `Reap` are the
steps of the forest; the lemmas named `...Quiet` show that the others stutter.

**`TweetProofs`** proves type correctness, `TweetsConserved`, `NoMissedSlot` and
`CounterExactForOneTopic`. `IInv` adds who has a topic's lock (`LockHeld`), that the
index a call goes on with is still that of an empty slot (`IndexRight`), that a
putter about to sleep has seen its topic full (`SeenFull`), that `wakeup` begins with
the first process (`WakesFromFirst`), and what `tweetcounter` or the process that
is about to store it has counted (`Counted`). The lock
alone does not give `IndexRight`: a store at index -1 changes the last slot of the
topic before, without that topic's lock. It spares the index because it
reaches only the second part of that slot's message, so that an empty slot stays
empty; what it leaves there can only spoil the next message (`Fills`), which
`TweetsConserved` counts among the destroyed. `NoMissedSlot` follows a getter's `wakeup` from process to process.

**`MemLibProofs`** proves `TypeOK`, `BlocksSeparate` and `WithinMapping` up to the first
merge that damages the list (`merged`); `memlib_new` shows what comes after it. The
invariant is what `mem.c` relies on and never says: there is a set of headers that
cuts the mapping into regions (`Regions`), each of which begins where another ends
and whose last word, which `M_Free` reads as a footer although nobody may have set
it, leads to a word of the list; live blocks are such regions (`Blocks`), and
`currentBlock` and the search are at one. The proof of `M_Alloc` and of the merge
with the block after gives the new set of headers; two blocks of one set cannot
overlap. `WalkStaysMapped` has a hypothesis, that the sizes given to `M_Init` leave
a word of their last page: the search reads the size of the word after the
last block, which is otherwise the first word past the mapping (see 4).

**`LogProofs`** proves type correctness, `NoSleeperBesideRoom`, and that `Log`
implements `AtomicDisk`, with crashes anywhere. `IInv` says what holds between any
two disk writes of a commit or a recovery: the header names blocks only from the
real commit to the erase (`Header`), the slots before `tail` hold what is to be
installed (`Copied`), the disk differs from the cache only for blocks that are
logged or held by who has changed them (`Clean`), those are pinned until they are
installed (`Pins`), nobody is in a call during a commit (`CommitAlone`), and nothing
runs beside the recovery (`RestartQuiet`). The refinement defines what recovery
makes of a header, slots and a disk (`RecoverFrom`) and shows that of all disk writes
only that of the header after the slots changes it: that is the commit, and every
other write stutters.
`LogNeverPanics` is about no property of a run, since the run goes to the panic: it
says under which sizes `log_write` cannot get there. `Reservation` is that the
logged blocks and MAXOPBLOCKS for every call under way fit LOGSIZE (`Reserved`), as
`begin_op` tests, and that a call has written at most `OpBlocks` blocks, which a count
of a union of small sets (`UnionOfFew`) turns into room for the next one. The
hypothesis is `OpBlocks < MAXOPBLOCKS` and
`LOGSIZE + OpBlocks < nlog - 1 + MAXOPBLOCKS`; with `nlog` and LOGSIZE both 30, as
mkfs makes the log, calls of at most 8 blocks are safe, where `param.h` says 10.

**`PipeProofs`** proves type correctness, `NoMissedWakeup` and that `Pipe` implements
`Fifo`. `IInv` adds that the reference counts are the numbers of descriptors
(`Counted`), that one process at most is closing an end and that nobody has it any
more (`Closing`), that who is in a call has the end it uses (`Inside`) and who has one
finds it open (`OpenEnds`), who has the lock (`LockHeld`), that the counters are at most a
ring apart although they wrap around (`Bounded`), and what a sleeper may rely on
while somebody is in the middle of a write (`ReadersAsleep`, `WritersAsleep`). The
refinement reads the queue off the ring; the lemmas on remainders say why
`nread % PIPESIZE` goes on as it should when `nread` wraps around, which is where
the assumption that PIPESIZE divides the word is needed.

**`BcacheProofs`** proves type correctness, `NoMissedWakeup`, `BuffersSuffice` and that
`Bcache` over `VirtioDisk` implements `BlockCache`. `IInv` adds that a process is in the
driver exactly for the buffer and block it has (`Calling`), that chains of
descriptors are free or of one request (`Chains`), that the device or the used ring
has exactly the requests that are waited for (`Requests`), that a buffer keeps what
a read has brought until its process is back (`ReadDone`), that a sleep lock has one
owner (`Owners`) and a block one buffer (`OneCopy`), that `refcnt` is the number of
users and pins (`Counted`), and that pinned blocks stay cached (`PinnedCached`).
`BuffersSuffice` counts: were every `refcnt` positive, each buffer would have a block
of its own in use or pinned. In the refinement, `bread` happens when it returns, with
a valid buffer or after a read, the write happens when the device answers
(`AnswerImplements`), and a miss in `bget` recycles the block that was in the buffer
(`BgetMissImplements`); the searches, the sleeps and the interrupts stutter.

**Model-checked only:** liveness (`WaitersServed`, `NonBlockingReturns`,
`HighServed`, `OrphansReaped`, `SearchEnds` (whose run has nine calls), `SleepersWoken`, `RequestsAnswered`,
`EofSeen`), which rests on fairness and ENABLED, out of the
prover's reach. `Pipeline` and `Server` have violation runs and no theorems. Of
`MemLib` after a merge that damages the list nothing is claimed. What recursive
functions compute for every input cannot be proved either (induction over data
is out of reach), and RECURSIVE operators are not used in any module with a proof.

## 6. What is left out

* `PetGroom`: failures of `pthread_*_init` and `_destroy`; `petdone` for a pet that
  is not being groomed, which changes nothing.
* `Tweet`: tags out of range; messages long enough to reach from index -1 into a
  spinlock; the text of messages.
* `Mlfq`: everything of a process but its state, priority, runtime and parent;
  channels; pids; `running`, `created` and `ended`, which only `waitstat` reports.
* `ProcTree`: init is not killed and makes no exit (a panic); a `fork` that fails
  changes nothing; pids, exit status, open files and memory; other things to
  sleep on than `wait`.
* `MemLib`: sizes whose arithmetic wraps around (negative requests, less than 32
  bytes of memory), a failing `mmap`, frees of pointers `M_Alloc` did not return.
* `Log`: writes of half a block; a call that reads outside a transaction; more
  than one block held by a call; the data of the header but its block numbers. The
  calls are as `writei` and the comment on `log_write` have them, and log what they
  change; a `writei` whose copy fails in the second page of a block (`fs.c:501`)
  releases a change it did not log, which the cache may keep or lose.
* `Bcache`: devices but the one disk; a process with several buffers; a device
  that reports an error (a panic); running out of buffers (a panic, which
  `BuffersSuffice` shows does not come while fewer blocks than buffers are in use).
* `Pipe`: failing allocations in `pipealloc`; more than one pipe; files that are
  not pipes; `dup` within one process.
* `Pipeline`: parsing, redirection, commands that cannot be executed, signals.
* `Server`: the zero that is written before `local_buffer` when `recv` fails; the
  text of lines, and that `strcat` of a line comes before its
  terminating zero is set (`serverdemo.c:140`), so that the end of an earlier,
  longer line may be sent along; more than CLIENT_MAX connections, which are not
  tested for (`serverdemo.c:401`).
* Not modelled at all: inodes and directories, virtual memory, traps, console and
  exec, which no assignment changes; `howmanycmpt` and the stock scheduler, which
  are simpler than what is modelled; the test programs.

## 7. Plan

1. `PetGroom`, `GroomStations`, `PetGroomProofs` — done.
2. `Tweet`, `TweetProofs` — done.
3. `Mlfq`, `MlfqProofs` — done.
4. `MemLib`, `MemLibProofs` — done.
5. `ProcTree`, `ProcessForest`, `ProcTreeProofs` — done.
6. `Pipeline`, `Server` — done; they have no invariants to prove.
7. `Log`, `AtomicDisk`, `BlockCache`, `LogProofs` — done.
8. `Pipe`, `Fifo`, `PipeProofs` — done.
9. `Bcache`, `VirtioDisk`, `BcacheProofs` — done.

Left: action properties that the invariants give (what a step of the pipe's or the
log's counters may never do), an abstract specification of the tweet topics to
refine, and sharing the lemmas on finite sets that two proof modules state.
