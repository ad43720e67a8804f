------------------------------ MODULE Pipeline -------------------------------
(***************************************************************************)
(* How the shell of Assignment_1/Part B/wrdsh.c runs a line of commands.   *)
(*                                                                         *)
(* The commands of a line are numbered in the order they run, from the     *)
(* right: 1 is the rightmost.  Command c writes to pipe c and reads pipe   *)
(* c - 1.  The shell makes all pipes, forks one command at a time, waits   *)
(* for it before it forks the next, and at last prints what is in pipe     *)
(* cmdCount.  The pipes are the operating system's: bounded, read to the   *)
(* end only when nobody has the write end any more.                        *)
(***************************************************************************)
EXTENDS Naturals

CONSTANTS cmdCount,   \* the commands of the line
          Capacity,   \* of a pipe
          MaxOutput   \* bound: what a command writes

VARIABLES
    filter,    \* the commands that read their input to its end
    output,    \* what each command has still to write
    walker,    \* the command the shell has come to
    shell,     \* what the shell does: fork, wait, print, or done
    child,     \* where the command is: none, running, exited
    sawEof,    \* the running command has read all of its input
    readers, writers,   \* who has the ends of each pipe
    bytes      \* what is in each pipe

vars == <<filter, output, walker, shell, child, sawEof, readers, writers,
          bytes>>

Commands == 1 .. cmdCount
Shell == 0

(* pipe() for each command; any line of commands. *)
Init == /\ filter \in SUBSET (Commands \ {1})
        /\ output \in [Commands -> 0 .. MaxOutput]
        /\ walker = 1 /\ shell = "fork" /\ child = "none" /\ sawEof = FALSE
        /\ readers = [i \in Commands |-> {Shell}]
        /\ writers = [i \in Commands |-> {Shell}]
        /\ bytes = [i \in Commands |-> 0]

(* The ends that command c keeps: those it inherits but the write end of    *)
(* the pipe it reads and the read end of the pipe it writes.  The first of *)
(* several commands closes nothing.                                        *)
KeepsReader(c, i) == Shell \in readers[i] /\ (i = c => c = 1 /\ cmdCount > 1)
KeepsWriter(c, i) == Shell \in writers[i] /\ i # c - 1

Fork == /\ shell = "fork"
        /\ shell' = "wait" /\ child' = "running" /\ sawEof' = FALSE
        /\ readers' = [i \in Commands |-> readers[i] \cup
                          {c \in {walker} : KeepsReader(c, i)}]
        /\ writers' = [i \in Commands |-> writers[i] \cup
                          {c \in {walker} : KeepsWriter(c, i)}]
        /\ UNCHANGED <<filter, output, walker, bytes>>

(* The command reads, *)
Read == /\ child = "running" /\ walker \in filter /\ bytes[walker - 1] > 0
        /\ bytes' = [bytes EXCEPT ![walker - 1] = @ - 1]
        /\ UNCHANGED <<filter, output, walker, shell, child, sawEof, readers,
                       writers>>

ReadEof == /\ child = "running" /\ walker \in filter /\ ~sawEof
           /\ bytes[walker - 1] = 0 /\ writers[walker - 1] = {}
           /\ sawEof' = TRUE
           /\ UNCHANGED <<filter, output, walker, shell, child, readers,
                          writers, bytes>>

(* writes, *)
Write == /\ child = "running" /\ output[walker] > 0 /\ bytes[walker] < Capacity
         /\ bytes' = [bytes EXCEPT ![walker] = @ + 1]
         /\ output' = [output EXCEPT ![walker] = @ - 1]
         /\ UNCHANGED <<filter, walker, shell, child, sawEof, readers, writers>>

(* and exits. *)
Exit == /\ child = "running" /\ output[walker] = 0
        /\ walker \in filter => sawEof
        /\ child' = "exited"
        /\ readers' = [i \in Commands |-> readers[i] \ {walker}]
        /\ writers' = [i \in Commands |-> writers[i] \ {walker}]
        /\ UNCHANGED <<filter, output, walker, shell, sawEof, bytes>>

(* wait(NULL) returns; after the last command its write end is closed. *)
Wait == /\ shell = "wait" /\ child = "exited"
        /\ child' = "none"
        /\ IF walker < cmdCount
           THEN walker' = walker + 1 /\ shell' = "fork" /\ UNCHANGED writers
           ELSE /\ shell' = "print" /\ UNCHANGED walker
                /\ writers' = [writers EXCEPT ![cmdCount] = @ \ {Shell}]
        /\ UNCHANGED <<filter, output, sawEof, readers, bytes>>

(* The output is read until its end. *)
PrintBytes ==
    /\ shell = "print" /\ bytes[cmdCount] > 0
    /\ bytes' = [bytes EXCEPT ![cmdCount] = 0]
    /\ UNCHANGED <<filter, output, walker, shell, child, sawEof, readers,
                   writers>>

PrintEof == /\ shell = "print" /\ bytes[cmdCount] = 0 /\ writers[cmdCount] = {}
            /\ shell' = "done"
            /\ UNCHANGED <<filter, output, walker, child, sawEof, readers,
                           writers, bytes>>

Next == Fork \/ Read \/ ReadEof \/ Write \/ Exit \/ Wait \/ PrintBytes \/ PrintEof

(* The shell and the command run on whenever they can. *)
FairSpec == Init /\ [][Next]_vars /\ WF_vars(Next)
------------------------------------------------------------------------------
(* A1B_wrdsh_documentation.txt:21-23: "out.txt < grep impossible | cat     *)
(* myfile.txt" pipes the output of cat "as input to grep impossible" and   *)
(* then redirects what grep prints: a line of commands whose output fits   *)
(* the pipes runs to its end.  But no filter sees the end of its input     *)
(* while the shell, which waits for it, has the write end of that pipe.    *)
PipelineEnds == MaxOutput <= Capacity => <>(shell = "done")
==============================================================================
