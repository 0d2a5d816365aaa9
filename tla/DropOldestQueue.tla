---------------------------- MODULE DropOldestQueue ----------------------------
(***************************************************************************)
(* What leaky_bucket_buf promises to its two threads, without slots,       *)
(* pointers or a mutex: a bounded FIFO that never makes the writer wait.   *)
(* When it is full it leaks its oldest element to make room for the next.  *)
(***************************************************************************)
EXTENDS Naturals, Sequences

CONSTANTS
    Message,    \* what can be stored
    Capacity    \* the number of elements held at most

VARIABLES
    queue,      \* the elements stored and not yet taken, oldest first
    taken       \* the element the reader took last

queueVars == <<queue, taken>>

QueueTypeOK ==
    /\ queue \in Seq(Message)
    /\ Len(queue) <= Capacity
    /\ taken \in Message

QueueInit(first) ==
    /\ queue = <<>>
    /\ taken = first

(* The full bucket leaks: the oldest element is given up. *)
Leak ==
    /\ Len(queue) = Capacity
    /\ queue' = Tail(queue)
    /\ UNCHANGED taken

Put ==
    /\ Len(queue) < Capacity
    /\ \E m \in Message : queue' = Append(queue, m)
    /\ UNCHANGED taken

Take ==
    /\ queue # <<>>
    /\ taken' = Head(queue)
    /\ queue' = Tail(queue)

QueueNext == Leak \/ Put \/ Take

================================================================================
