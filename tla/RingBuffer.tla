------------------------------ MODULE RingBuffer ------------------------------
(***************************************************************************)
(* The bounded message buffer of gateway/src/buffer.rs: a VecDeque behind  *)
(* one mutex, with three counters.  Every method holds the mutex from its  *)
(* first line to its last, so each is one atomic step here.                *)
(*                                                                         *)
(* The module owns the buffer's state and its two state-changing           *)
(* operations; the components that share a buffer (Hub) extend it and      *)
(* conjoin the operations with their own steps.                            *)
(***************************************************************************)
EXTENDS Naturals, Sequences

CONSTANT Capacity          \* RingBuffer::capacity; the constructor accepts 0

ASSUME CapacityAssumption == Capacity \in Nat

VARIABLES messages,        \* the VecDeque, oldest message first
          pushed,          \* BufferMetrics::pushed
          dropped,         \* BufferMetrics::dropped
          drained          \* BufferMetrics::drained

ringVars == <<messages, pushed, dropped, drained>>

RingInit ==
    /\ messages = <<>>
    /\ pushed = 0
    /\ dropped = 0
    /\ drained = 0

IsEmpty == messages = <<>>

(* Faulty variant: off by one at the bound. *)
IsFullLate == Len(messages) > Capacity

IsFull == Len(messages) >= Capacity

(* Faulty variant: the newest message is thrown out instead of the oldest. *)
PopBack(queue) ==
    IF queue = <<>> THEN <<>> ELSE SubSeq(queue, 1, Len(queue) - 1)

(* VecDeque::pop_front, whose result the code discards: nothing happens to *)
(* an empty deque.                                                         *)
PopFront(queue) == IF queue = <<>> THEN <<>> ELSE Tail(queue)

(* push(vec![msg]), the form in which the Hub pushes.  A full buffer loses *)
(* its oldest message.  The `pushed` counter grows by the length of the    *)
(* whole buffer, not by the number of messages pushed.                     *)
Push(msg) ==
    LET evictions == IF IsFull THEN 1 ELSE 0
        kept      == IF IsFull THEN PopFront(messages) ELSE messages
    IN  /\ messages' = Append(kept, msg)
        /\ pushed' = pushed + Len(messages') + evictions
        /\ dropped' = dropped + evictions
        /\ UNCHANGED drained

DrainCount(n) == IF n < Len(messages) THEN n ELSE Len(messages)

(* What drain(n) returns. *)
Oldest(n) == SubSeq(messages, 1, DrainCount(n))

(* Faulty variant: counts the messages asked for, not those returned. *)
DrainCountingRequest(n) ==
    /\ messages' = SubSeq(messages, DrainCount(n) + 1, Len(messages))
    /\ drained' = drained + n
    /\ UNCHANGED <<pushed, dropped>>

Drain(n) ==
    /\ messages' = SubSeq(messages, DrainCount(n) + 1, Len(messages))
    /\ drained' = drained + DrainCount(n)
    /\ UNCHANGED <<pushed, dropped>>

===============================================================================
