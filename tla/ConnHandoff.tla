---------------------------- MODULE ConnHandoff ----------------------------
(***************************************************************************)
(* What the bounded work queue of the Mini-KV server promises to the       *)
(* accept loop and to the workers, with no lock, no condition variable and *)
(* no ring buffer in sight: connections, numbered in the order accept      *)
(* returned them, pass one by one through a FIFO of bounded length into    *)
(* the hand of exactly one worker each.                                    *)
(***************************************************************************)
EXTENDS Integers, Sequences

CONSTANTS Workers,    \* the worker threads
          Capacity,   \* the length of the queue
          NoConn      \* "no connection" in a worker's hand

VARIABLES queue,      \* connections handed over and not yet taken, oldest first
          hand,       \* the connection each worker serves
          last        \* the number of the last connection handed over

handoffVars == <<queue, hand, last>>

HandoffInit ==
  /\ queue = <<>>
  /\ hand = [w \in Workers |-> NoConn]
  /\ last = 0

(* The accept loop hands over the next connection: none skipped, none      *)
(* twice, and only into a free slot.                                       *)
Put ==
  /\ Len(queue) < Capacity
  /\ last' = last + 1
  /\ queue' = Append(queue, last + 1)
  /\ UNCHANGED hand

(* A worker with empty hands takes the oldest waiting connection. *)
Take(w) ==
  /\ hand[w] = NoConn
  /\ queue # <<>>
  /\ hand' = [hand EXCEPT ![w] = Head(queue)]
  /\ queue' = Tail(queue)
  /\ UNCHANGED last

(* A worker closes the connection it served. *)
Finish(w) ==
  /\ hand[w] # NoConn
  /\ hand' = [hand EXCEPT ![w] = NoConn]
  /\ UNCHANGED <<queue, last>>

HandoffNext == Put \/ \E w \in Workers : Take(w) \/ Finish(w)

HandoffSpec == HandoffInit /\ [][HandoffNext]_handoffVars

=============================================================================
