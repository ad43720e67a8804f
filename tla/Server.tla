------------------------------- MODULE Server --------------------------------
(***************************************************************************)
(* The message server of Assignment_4/serverdemo.c: one thread for each    *)
(* connection, one buffer for the line that is being broadcast.            *)
(*                                                                         *)
(* A receiver's thread waits on recv_cond, sends what is in the buffer and *)
(* waits again; it keeps no lock while it sends.  A sender's thread copies *)
(* its line to the buffer with buff_lock held, counts the receivers with   *)
(* count_lock held and broadcasts.  recv_lock, remaining_lock and          *)
(* send_lock are never held while anything else happens, so what they      *)
(* protect is one step.  Lines are numbered as they arrive.                *)
(***************************************************************************)
EXTENDS Integers

CONSTANTS Receivers, Senders,
          MaxLines,     \* bound: the lines of text that arrive
          MaxSpurious   \* bound: the spurious wakeups from recv_cond

VARIABLES
    receiver,   \* where a receiver's thread is
    connected,  \* the receivers at the other end of a connection
    sender,     \* where a sender's thread is
    line,       \* its local_buffer
    broken,     \* the senders whose connection has reported an error
    buffer,
    recv_count, recv_remaining,
    lines,      \* the lines that have arrived
    spurious,   \* the spurious wakeups so far
    owed        \* the lines broadcast to a receiver that were not sent to it

vars == <<receiver, connected, sender, line, broken, buffer, recv_count,
          recv_remaining, lines, spurious, owed>>

NoLine == 0
Torn == -1   \* what is read while strcpy() writes

Init == /\ receiver = [r \in Receivers |-> "none"]
        /\ connected = {}
        /\ sender = [s \in Senders |-> "none"]
        /\ line = [s \in Senders |-> NoLine]
        /\ broken = {}
        /\ buffer = NoLine
        /\ recv_count = 0 /\ recv_remaining = 0
        /\ lines = 0 /\ spurious = 0
        /\ owed = [r \in Receivers |-> {}]

BuffLocked == \E s \in Senders : sender[s] \in {"copying", "copied", "counted"}
CountLocked == \E s \in Senders : sender[s] = "counted"
ReceiverAt(r, place) == receiver' = [receiver EXCEPT ![r] = place]
SenderAt(s, place) == sender' = [sender EXCEPT ![s] = place]

(* main() accepts a receiver, *)
AcceptReceiver(r) ==
    /\ receiver[r] = "none" /\ ~CountLocked
    /\ recv_count' = recv_count + 1
    /\ connected' = connected \cup {r}
    /\ ReceiverAt(r, "start")
    /\ UNCHANGED <<sender, line, broken, buffer, recv_remaining, lines,
                   spurious, owed>>

(* and a sender. *)
AcceptSender(s) ==
    /\ sender[s] = "none"
    /\ SenderAt(s, "recv")
    /\ UNCHANGED <<receiver, connected, line, broken, buffer, recv_count,
                   recv_remaining, lines, spurious, owed>>

(* The other end of a receiver's connection goes away. *)
Disconnect(r) ==
    /\ r \in connected
    /\ connected' = connected \ {r}
    /\ UNCHANGED <<receiver, sender, line, broken, buffer, recv_count,
                   recv_remaining, lines, spurious, owed>>

(* pthread_cond_wait(&recv_cond) sleeps, whatever happened before, *)
Wait(r) == /\ receiver[r] = "start"
           /\ ReceiverAt(r, "waiting")
           /\ UNCHANGED <<connected, sender, line, broken, buffer,
                          recv_count, recv_remaining, lines, spurious,
                          owed>>

(* and may return without a broadcast. *)
SpuriousWakeup(r) ==
    /\ receiver[r] = "waiting" /\ spurious < MaxSpurious
    /\ spurious' = spurious + 1
    /\ ReceiverAt(r, "woken")
    /\ UNCHANGED <<connected, sender, line, broken, buffer, recv_count,
                   recv_remaining, lines, owed>>

(* send() of what is in the buffer by now; *)
Send(r) == /\ receiver[r] = "woken"
           /\ owed' = [owed EXCEPT ![r] = @ \ {buffer}]
           /\ ReceiverAt(r, "sent")
           /\ UNCHANGED <<connected, sender, line, broken, buffer,
                          recv_count, recv_remaining, lines, spurious>>

(* it fails on a lost connection, not always at once. *)
SendFails(r) ==
    /\ receiver[r] = "woken" /\ r \notin connected
    /\ ReceiverAt(r, "lost")
    /\ UNCHANGED <<connected, sender, line, broken, buffer, recv_count,
                   recv_remaining, lines, spurious, owed>>

(* recv_remaining--; nobody waits on send_cond. *)
Sent(r) == /\ receiver[r] = "sent"
           /\ recv_remaining' = recv_remaining - 1
           /\ ReceiverAt(r, "start")
           /\ UNCHANGED <<connected, sender, line, broken, buffer,
                          recv_count, lines, spurious, owed>>

Leave(r) == /\ receiver[r] = "lost" /\ ~CountLocked
            /\ recv_count' = recv_count - 1
            /\ ReceiverAt(r, "closed")
            /\ UNCHANGED <<connected, sender, line, broken, buffer,
                           recv_remaining, lines, spurious, owed>>

(* recv() returns a line, *)
Recv(s) == /\ sender[s] = "recv" /\ s \notin broken /\ lines < MaxLines
           /\ lines' = lines + 1
           /\ line' = [line EXCEPT ![s] = lines + 1]
           /\ SenderAt(s, "have")
           /\ UNCHANGED <<receiver, connected, broken, buffer, recv_count,
                          recv_remaining, spurious, owed>>

(* or the error of a broken connection: -1 is taken for a length, so that a *)
(* zero is written before local_buffer and what is still in it, the line    *)
(* before or nothing that was ever set, is broadcast as if it had arrived.  *)
RecvFails(s) ==
    /\ sender[s] = "recv" /\ s \notin broken
    /\ broken' = broken \cup {s}
    /\ SenderAt(s, "have")
    /\ UNCHANGED <<receiver, connected, line, buffer, recv_count,
                   recv_remaining, lines, spurious, owed>>

(* recv() returns 0: the end of the connection, also of a broken one once   *)
(* it has reported its error.                                               *)
RecvNothing(s) ==
    /\ sender[s] = "recv"
    /\ SenderAt(s, "closed")
    /\ UNCHANGED <<receiver, connected, line, broken, buffer, recv_count,
                   recv_remaining, lines, spurious, owed>>

(* buff_lock is taken and strcpy() starts, *)
Copy(s) == /\ sender[s] = "have" /\ ~BuffLocked
           /\ buffer' = Torn
           /\ SenderAt(s, "copying")
           /\ UNCHANGED <<receiver, connected, line, broken, recv_count,
                          recv_remaining, lines, spurious, owed>>

(* and ends. *)
Copied(s) == /\ sender[s] = "copying"
             /\ buffer' = line[s]
             /\ SenderAt(s, "copied")
             /\ UNCHANGED <<receiver, connected, line, broken, recv_count,
                            recv_remaining, lines, spurious, owed>>

(* count_lock is taken and the receivers are counted. *)
Count(s) == /\ sender[s] = "copied" /\ ~CountLocked
            /\ recv_remaining' = recv_count
            /\ SenderAt(s, "counted")
            /\ UNCHANGED <<receiver, connected, line, broken, buffer,
                           recv_count, lines, spurious, owed>>

(* pthread_cond_broadcast(), and both locks are released.  What is sent on  *)
(* after an error is owed to nobody.                                        *)
Broadcast(s) ==
    /\ sender[s] = "counted"
    /\ receiver' = [r \in Receivers |->
          IF receiver[r] = "waiting" THEN "woken" ELSE receiver[r]]
    /\ owed' = [r \in Receivers |->
          owed[r] \cup {l \in {line[s]} : r \in connected /\ s \notin broken}]
    /\ SenderAt(s, "recv")
    /\ UNCHANGED <<connected, line, broken, buffer, recv_count,
                   recv_remaining, lines, spurious>>

ReceiverStep(r) == Wait(r) \/ Send(r) \/ SendFails(r) \/ Sent(r) \/ Leave(r)
SenderStep(s) == Copy(s) \/ Copied(s) \/ Count(s) \/ Broadcast(s)

Next == \/ \E r \in Receivers : \/ AcceptReceiver(r) \/ Disconnect(r)
                                \/ SpuriousWakeup(r) \/ ReceiverStep(r)
        \/ \E s \in Senders : \/ AcceptSender(s)
                              \/ Recv(s) \/ RecvFails(s) \/ RecvNothing(s)
                              \/ SenderStep(s)

(* Every thread that can go on without a client does. *)
FairSpec == /\ Init /\ [][Next]_vars
            /\ \A r \in Receivers : WF_vars(ReceiverStep(r))
            /\ \A s \in Senders : WF_vars(SenderStep(s))
------------------------------------------------------------------------------
(* Design Specs.txt:12: the server "Sends each line of text recieved to    *)
(* ALL CURRENTLY CONNECTED receivers."  But a receiver's thread that is    *)
(* not in pthread_cond_wait() at the broadcast, because it has just been   *)
(* accepted or is still sending the line before, never learns of the line. *)
EachLineSent ==
    \A r \in Receivers, l \in 1 .. MaxLines :
        l \in owed[r] ~> (l \notin owed[r] \/ r \notin connected)
==============================================================================
