-------------------------------- MODULE Fifo ---------------------------------
(***************************************************************************)
(* What a pipe promises: a bounded queue of bytes, and the references that *)
(* processes have to its two ends.  Bytes go in while the read end is open *)
(* and come out in order; an end is closed for good once nobody has it.    *)
(***************************************************************************)
EXTENDS Naturals, Sequences

CONSTANTS Procs, Bytes, Capacity

VARIABLES queue,
          having,   \* who has a descriptor of each end
          open      \* the ends that are not closed

fifovars == <<queue, having, open>>
End == {"r", "w"}

FifoInit == queue = <<>> /\ having = [e \in End |-> {}] /\ open = {}

(* A new pipe, when the one before is closed at both ends. *)
Create(p) == /\ open = {} /\ \A e \in End : having[e] = {}
             /\ open' = End /\ queue' = <<>>
             /\ having' = [e \in End |-> {p}]

(* q gets what p has, when it is forked. *)
Share(p, q) == /\ having' = [e \in End |-> IF p \in having[e]
                                           THEN having[e] \cup {q} ELSE having[e]]
               /\ UNCHANGED <<queue, open>>

Drop(p, e) == /\ p \in having[e]
              /\ having' = [having EXCEPT ![e] = @ \ {p}]
              /\ UNCHANGED <<queue, open>>

CloseEnd(e) == /\ e \in open /\ having[e] = {}
               /\ open' = open \ {e}
               /\ UNCHANGED <<queue, having>>

Put(p, b) == /\ p \in having["w"] /\ "r" \in open
             /\ Len(queue) < Capacity
             /\ queue' = Append(queue, b)
             /\ UNCHANGED <<having, open>>

Take(p, n) == /\ p \in having["r"] /\ n <= Len(queue)
              /\ queue' = SubSeq(queue, n + 1, Len(queue))
              /\ UNCHANGED <<having, open>>

FifoNext == \/ \E e \in End : CloseEnd(e)
            \/ \E p \in Procs :
                  \/ Create(p)
                  \/ \E q \in Procs : Share(p, q)
                  \/ \E e \in End : Drop(p, e)
                  \/ \E b \in Bytes : Put(p, b)
                  \/ \E n \in 1 .. Capacity : Take(p, n)

FifoSpec == FifoInit /\ [][FifoNext]_fifovars
==============================================================================
