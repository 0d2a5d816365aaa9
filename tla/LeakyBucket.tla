------------------------------ MODULE LeakyBucket ------------------------------
(***************************************************************************)
(* leaky_bucket_buf: the ring of packet slots between the receive thread,  *)
(* which never waits, and the analysis thread, which sleeps on a condition *)
(* variable while the ring is empty.                                       *)
(*                                                                         *)
(* Only the critical sections of the mutex are atomic.  recvmsg fills the  *)
(* slot under next_write, data_size is stored and next_write moves before  *)
(* the mutex is taken, so the analysis thread may run between any two of   *)
(* these steps.                                                            *)
(***************************************************************************)
EXTENDS Integers, Sequences

CONSTANTS
    BufferLength,   \* buffer_length: the slots of the ring
    Held,           \* popped packets whose slots the analysis still reads
    MaxPackets,     \* bound: the RTP packets the network delivers
    NonBlocking     \* the socket is switched to O_NONBLOCK

ASSUME BufferLengthAssumption == BufferLength \in Nat \ {0}
ASSUME HeldAssumption == Held \in Nat /\ Held < BufferLength
ASSUME MaxPacketsAssumption == MaxPackets \in Nat
ASSUME NonBlockingAssumption == NonBlocking \in BOOLEAN

Slot == 0 .. BufferLength - 1

(* A packet is known by its arrival number.  Terminator is the one-byte     *)
(* packet whose RTP version is not 2.                                       *)
Terminator == 0
Payload == 0 .. MaxPackets

(* data_size: -1 after a failed recvmsg, 0 once popped, 1 for the terminator, *)
(* RTPSize for any whole RTP packet.                                          *)
RTPSize == 2
DataSize == -1 .. RTPSize

SizeOf(m) == IF m = Terminator THEN 1 ELSE RTPSize

VARIABLES
    next_write,         \* the slot the receive thread fills next
    next_pop,           \* the slot popped next
    current_num_data,   \* published packets not yet popped
    data,               \* the bytes of every slot
    data_size,          \* the length of every slot
    sig_flag,           \* set by the handler of SIGINT
    rpc,                \* where the receive thread is
    output,             \* what the buffer operation it is in returns
    apc,                \* what the analysis thread is doing
    waiting,            \* the analysis thread sleeps in cond.wait
    popped,             \* the packet popped last
    received,           \* history: RTP packets delivered so far
    dirty,              \* history: slot next_write was written, not published
    raced,              \* history: a slot was popped while it was dirty
    tight,              \* history: a write began within Held slots of full
    held                \* history: the last Held pops, most recent first

ringVars == <<next_write, next_pop, current_num_data, data, data_size>>
threadVars == <<sig_flag, rpc, output, apc, waiting, popped>>
historyVars == <<received, dirty, raced, tight, held>>
vars == <<ringVars, threadVars, historyVars>>

Message == [size : DataSize, payload : Payload]

TypeOK ==
    /\ next_write \in Slot
    /\ next_pop \in Slot
    /\ current_num_data \in 0 .. BufferLength
    /\ data \in [Slot -> Payload]
    /\ data_size \in [Slot -> DataSize]
    /\ sig_flag \in BOOLEAN
    /\ rpc \in {"receive", "received", "publish", "notify", "inspkt",
                "push", "pushData", "done"}
    /\ output \in {"RECEIVED", "SIGNAL", "FINISH", "PUSHED"}
    /\ apc \in {"main", "loop", "pop", "dest", "done", "aborted"}
    /\ waiting \in BOOLEAN
    /\ popped \in Message
    /\ received \in 0 .. MaxPackets
    /\ dirty \in BOOLEAN
    /\ raced \in BOOLEAN
    /\ tight \in BOOLEAN
    /\ held \in Seq([slot : Slot, payload : Payload])
    /\ Len(held) <= Held

(* link_list::advance, along the next_ptr chain the constructor ties. *)
Advance(s) == IF s = BufferLength - 1 THEN 0 ELSE s + 1

Init ==
    /\ next_write = 0
    /\ next_pop = 0
    /\ current_num_data = 0
    /\ data = [s \in Slot |-> Terminator]
    /\ data_size = [s \in Slot |-> 0]
    /\ sig_flag = FALSE
    /\ rpc = "receive"
    /\ output = "RECEIVED"
    /\ apc = "main"
    /\ waiting = FALSE
    /\ popped = [size |-> 0, payload |-> Terminator]
    /\ received = 0
    /\ dirty = FALSE
    /\ raced = FALSE
    /\ tight = FALSE
    /\ held = <<>>

--------------------------------------------------------------------------------
(* The receive thread. *)

(* SIGINT: the handler runs in the receive thread, the only one that does    *)
(* not block the signal, and may interrupt it anywhere.                      *)
Signal ==
    /\ rpc # "done"
    /\ ~sig_flag
    /\ sig_flag' = TRUE
    /\ UNCHANGED <<ringVars, rpc, output, apc, waiting, popped, historyVars>>

(* History kept whenever the receive thread starts to overwrite slot        *)
(* next_write without the mutex.                                            *)
Touch ==
    /\ dirty' = TRUE
    /\ tight' = (tight \/ current_num_data + Held >= BufferLength)
    /\ UNCHANGED <<raced, held>>

(* What the code of the receive thread leaves alone. *)
otherVars == <<sig_flag, apc, waiting, popped>>

(* recvmsg copies a datagram into the slot under next_write: an RTP packet, *)
(* or the terminator another process sends.                                 *)
RecvMsg ==
    /\ rpc = "receive"
    /\ \/ received < MaxPackets /\ received' = received + 1
                                /\ data' = [data EXCEPT ![next_write] = received + 1]
       \/ received' = received  /\ data' = [data EXCEPT ![next_write] = Terminator]
    /\ rpc' = "received"
    /\ Touch
    /\ UNCHANGED <<next_write, next_pop, current_num_data, data_size, output,
                   otherVars>>

(* receive: data_size is stored, output computed, next_write moved; still   *)
(* no mutex.                                                                *)
StoreReceived ==
    /\ rpc = "received"
    /\ data_size' = [data_size EXCEPT ![next_write] = SizeOf(data[next_write])]
    /\ output' = IF data[next_write] = Terminator THEN "FINISH" ELSE "RECEIVED"
    /\ next_write' = Advance(next_write)
    /\ rpc' = "publish"
    /\ UNCHANGED <<next_pop, current_num_data, data, otherVars, historyVars>>

(* Mutant: the counter stops at the slots, but the oldest packet stays. *)
CountKeepsOldest ==
    /\ current_num_data' = IF current_num_data = BufferLength THEN BufferLength
                                                             ELSE current_num_data + 1
    /\ UNCHANGED next_pop

(* The critical section of receive, push and inspkt: one more packet to pop, *)
(* or the oldest one given up.                                               *)
CountOne ==
    IF current_num_data + 1 > BufferLength
    THEN /\ next_pop' = Advance(next_pop)
         /\ current_num_data' = BufferLength
    ELSE /\ current_num_data' = current_num_data + 1
         /\ UNCHANGED next_pop

Publish ==
    /\ rpc = "publish"
    /\ CountOne
    /\ rpc' = "notify"
    /\ dirty' = FALSE
    /\ UNCHANGED <<next_write, data, data_size, output, otherVars,
                   received, raced, tight, held>>

(* Mutant: nobody is woken. *)
notify_none == UNCHANGED waiting

(* cond.notify_one: one thread waits at most. *)
notify_one == waiting' = FALSE

(* cond.notify_one, after the mutex was released; then the caller goes on:  *)
(* the loop of the receive thread, its final push, or its end.              *)
Notify ==
    /\ rpc = "notify"
    /\ notify_one
    /\ rpc' = CASE output = "RECEIVED" -> "receive"
                [] output \in {"SIGNAL", "FINISH"} -> "push"
                [] output = "PUSHED" -> "done"
    /\ UNCHANGED <<ringVars, sig_flag, output, apc, popped, historyVars>>

(* recvmsg returned -1 with EAGAIN: only on a non-blocking socket. *)
RecvAgain ==
    /\ NonBlocking
    /\ rpc = "receive"
    /\ data_size' = [data_size EXCEPT ![next_write] = -1]
    /\ Touch
    /\ UNCHANGED <<next_write, next_pop, current_num_data, data, threadVars,
                   received>>

(* recvmsg returned -1 with EINTR, after the handler ran: on to inspkt.     *)
(* With any other errno nothing is published and the receive thread goes to  *)
(* its final push.                                                          *)
RecvFailed ==
    /\ rpc = "receive"
    /\ data_size' = [data_size EXCEPT ![next_write] = -1]
    /\ \/ sig_flag /\ output' = "SIGNAL" /\ rpc' = "inspkt"
       \/ output' = "FINISH" /\ rpc' = "push"
    /\ Touch
    /\ UNCHANGED <<next_write, next_pop, current_num_data, data, otherVars,
                   received>>

(* inspkt: a terminator written and counted in one critical section. *)
Inspkt ==
    /\ rpc = "inspkt"
    /\ CountOne
    /\ next_write' = Advance(next_write)
    /\ data_size' = [data_size EXCEPT ![next_write] = 1]
    /\ data' = [data EXCEPT ![next_write] = Terminator]
    /\ rpc' = "notify"
    /\ dirty' = FALSE
    /\ UNCHANGED <<output, otherVars, received, raced, tight, held>>

(* while (!sig_flag) of the receive thread. *)
StopReceiving ==
    /\ rpc = "receive"
    /\ sig_flag
    /\ rpc' = "push"
    /\ UNCHANGED <<ringVars, output, otherVars, historyVars>>

(* The final push of {0}: data_size first, then memcpy and next_write,      *)
(* then the same critical section as receive.                               *)
PushSize ==
    /\ rpc = "push"
    /\ data_size' = [data_size EXCEPT ![next_write] = 1]
    /\ rpc' = "pushData"
    /\ Touch
    /\ UNCHANGED <<next_write, next_pop, current_num_data, data, output,
                   otherVars, received>>

PushData ==
    /\ rpc = "pushData"
    /\ data' = [data EXCEPT ![next_write] = Terminator]
    /\ next_write' = Advance(next_write)
    /\ output' = "PUSHED"
    /\ rpc' = "publish"
    /\ UNCHANGED <<next_pop, current_num_data, data_size, otherVars,
                   historyVars>>

--------------------------------------------------------------------------------
(* The analysis thread. *)

(* The packet under next_pop is popped while the receive thread is between  *)
(* its first write to that slot and the critical section that counts it.    *)
WritingSlot ==
    IF rpc = "publish" THEN IF next_write = 0 THEN BufferLength - 1 ELSE next_write - 1
                       ELSE next_write

(* The last Held pops, h the most recent. *)
Remember(h) ==
    [i \in 1 .. IF Len(held) < Held THEN Len(held) + 1 ELSE Held |->
        IF i = 1 THEN h ELSE held[i - 1]]

(* Mutant: get_impl without is_advance. *)
stay == UNCHANGED <<next_pop, data_size>>

(* advance: the slot is emptied and left. *)
advance ==
    /\ data_size' = [data_size EXCEPT ![next_pop] = 0]
    /\ next_pop' = Advance(next_pop)

(* Mutant: buffer.dest looks for a main header only. *)
EndsUnlessDest ==
    data[next_pop] = Terminator /\ apc # "dest" /\ data_size[next_pop] = 1

(* The packet under next_pop ends the analysis thread.  pop throws before    *)
(* it looks at the bytes of an empty slot, buffer.dest looks at the bytes.   *)
Ends ==
    data[next_pop] = Terminator /\ (apc = "dest" \/ data_size[next_pop] = 1)

(* Where a popped packet leaves the analysis: in the same load, or back at   *)
(* the test of sig_flag.  pop throws on a size of 0, and buffer.dest then    *)
(* discards until a main header or a terminator; a gap or a parser error     *)
(* leads there as well.  Nothing catches what is thrown before the first     *)
(* body packet.                                                              *)
Onward ==
    IF data_size[next_pop] = 0 /\ apc # "dest"
    THEN IF apc = "main" THEN {"aborted"} ELSE {"dest"}
    ELSE CASE apc = "main" -> {"main", "loop"}
           [] apc = "pop"  -> {"pop", "loop", "dest"}
           [] OTHER        -> {"dest", "loop"}

(* get_impl with is_advance: the slot is left, whatever it held. *)
Pop ==
    /\ apc \in {"main", "pop", "dest"}
    /\ ~waiting
    /\ current_num_data > 0
    /\ current_num_data' = current_num_data - 1
    /\ popped' = [size |-> data_size[next_pop], payload |-> data[next_pop]]
    /\ advance
    /\ IF Ends THEN apc' = "done" ELSE apc' \in Onward
    /\ raced' = (raced \/ (dirty /\ next_pop = WritingSlot))
    /\ held' = Remember([slot |-> next_pop, payload |-> data[next_pop]])
    /\ UNCHANGED <<next_write, data, sig_flag, rpc, output, waiting, received,
                   dirty, tight>>

(* while (!sig_flag) of the analysis thread, before every body load. *)
TestSigFlag ==
    /\ apc = "loop"
    /\ apc' = IF sig_flag THEN "done" ELSE "pop"
    /\ UNCHANGED <<ringVars, sig_flag, rpc, output, waiting, popped, historyVars>>

(* cond.wait releases the mutex and sleeps; it may also wake by itself. *)
Wait ==
    /\ apc \in {"main", "pop", "dest"}
    /\ ~waiting
    /\ current_num_data = 0
    /\ waiting' = TRUE
    /\ UNCHANGED <<ringVars, sig_flag, rpc, output, apc, popped, historyVars>>

SpuriousWakeup ==
    /\ waiting
    /\ waiting' = FALSE
    /\ UNCHANGED <<ringVars, sig_flag, rpc, output, apc, popped, historyVars>>

--------------------------------------------------------------------------------
ReceiveThread ==
    \/ RecvMsg \/ StoreReceived \/ Publish \/ Notify
    \/ RecvAgain \/ RecvFailed \/ Inspkt \/ StopReceiving
    \/ PushSize \/ PushData

AnalysisThread == Pop \/ Wait \/ TestSigFlag

(* An exception nobody catches ends the program. *)
Next ==
    /\ apc # "aborted"
    /\ Signal \/ ReceiveThread \/ AnalysisThread \/ SpuriousWakeup

Spec == Init /\ [][Next]_vars

(* Both threads are scheduled.  The network owes no datagram and the        *)
(* operator no signal, so a thread that sits in recvmsg may sit there for   *)
(* ever; once it left recvmsg it runs on.                                   *)
Fairness ==
    /\ WF_vars(apc # "aborted" /\ (\/ StoreReceived \/ Publish \/ Notify
                                   \/ Inspkt \/ PushSize \/ PushData))
    /\ WF_vars(AnalysisThread)

FairSpec == Spec /\ Fairness

--------------------------------------------------------------------------------
(* Properties. *)

(* The two pointers and the counter agree: next_write is current_num_data    *)
(* slots ahead of next_pop along the chain, and one further between the      *)
(* unlocked move of next_write and the critical section that counts it.      *)
(* next_write is moved outside the mutex, next_pop by both threads.          *)
Uncounted == IF rpc = "publish" THEN 1 ELSE 0

RingPosition ==
    next_pop + current_num_data + Uncounted - next_write
        \in {0, BufferLength, 2 * BufferLength}

(* A slot the receive thread is writing without the mutex is the next one to *)
(* be popped only when the ring is full: the unsynchronised access to data   *)
(* and data_size is harmless until the analysis is a whole ring behind.      *)
DirtySlotPoppableOnlyWhenFull ==
    dirty /\ next_pop = WritingSlot /\ current_num_data > 0
        => current_num_data = BufferLength

(* As long as every write began with more than Held free slots, the packets  *)
(* the analysis popped last, to which RTPReceiver keeps bare pointers, still *)
(* hold the bytes they held when they were popped.                           *)
HeldIntact ==
    ~tight => \A i \in 1 .. Len(held) : data[held[i].slot] = held[i].payload

(* The inductive invariant behind these three: where dirty is set, that an   *)
(* unpublished write left Held slots free unless tight says otherwise, and   *)
(* that the held packets then sit right behind next_pop.                     *)
DirtyPhases == rpc \in {"received", "publish", "inspkt", "pushData"} => dirty

RoomForHeld == dirty /\ ~tight => current_num_data + Held < BufferLength

HeldBehindPop ==
    ~tight => \A i \in 1 .. Len(held) :
                 held[i].slot + i - next_pop \in {0, BufferLength}

RingInv ==
    /\ TypeOK
    /\ RingPosition
    /\ DirtyPhases
    /\ RoomForHeld
    /\ HeldBehindPop
    /\ HeldIntact

(* The abstract queue behind the ring: the counted slots, oldest first.  A   *)
(* write that began on a full ring already destroyed the oldest of them.     *)
Clobbered == IF dirty /\ current_num_data = BufferLength THEN 1 ELSE 0

Undelivered ==
    [i \in 1 .. current_num_data - Clobbered |->
        LET s == (next_pop + Clobbered + i - 1) % BufferLength
        IN  [size |-> data_size[s], payload |-> data[s]]]

Bucket == INSTANCE DropOldestQueue WITH
    Message <- {[size |-> SizeOf(m), payload |-> m] : m \in Payload},
    Capacity <- BufferLength,
    queue <- Undelivered,
    taken <- popped

(* Until a slot is popped in the middle of being written, every step of the  *)
(* two threads is a step of the drop-oldest queue: packets leave in arrival  *)
(* order, whole, at most once, and are lost only oldest first out of a full  *)
(* ring.                                                                     *)
RefinesUntilRace ==
    /\ Bucket!QueueInit(popped)
    /\ [][~raced' => Bucket!QueueNext]_(Bucket!queueVars)

(* notify_one is called after the mutex is released: a sleeping analysis     *)
(* thread still never sleeps on while the ring holds a packet.               *)
NoLostWakeup == (waiting /\ current_num_data > 0) ~> ~waiting

(* Once the receive thread left its loop, after a terminator, SIGINT or a    *)
(* failed recvmsg, the analysis thread ends, by the terminator pushed last   *)
(* or by its own look at sig_flag, unless a slot was popped while it was     *)
(* being written.  The loads and buffer.dest do not look at sig_flag.        *)
ShutdownUnlessRaced == (rpc = "push") ~> (apc = "done" \/ raced)

================================================================================
