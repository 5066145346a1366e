------------------------------ MODULE LogQueue ------------------------------
(***************************************************************************)
(* The log queue of Lab 6 (ex2_lost_wakeup.c): one slot, a producer that   *)
(* generates a fixed number of entries, a consumer that processes as many, *)
(* and main, which joins both.  A thread takes the queue's mutex in one    *)
(* step and does all that it does under it in the next.                    *)
(***************************************************************************)
EXTENDS Integers, Sequences

CONSTANTS NumLogs,     \* entries (5)
          MaxSpurious  \* bound: spurious wakeups

VARIABLES
  log_ready, log_id,
  lock,               \* the thread that owns the mutex, or "free"
  has_log,            \* the consumer is in pthread_cond_wait, not yet signalled
  generated,          \* the producer's entries so far, i - 1
  processed,          \* the ids the consumer has printed
  said,               \* main has printed "All log entries processed."
  spurious

vars == <<log_ready, log_id, lock, has_log, generated, processed, said, spurious>>

Init ==
  /\ log_ready = 0 /\ log_id = 0 /\ lock = "free" /\ has_log = FALSE
  /\ generated = 0 /\ processed = <<>> /\ said = FALSE /\ spurious = 0

ProducerDone == generated = NumLogs
ConsumerDone == Len(processed) = NumLogs

(* pthread_mutex_lock in producer (after its usleep, of which nothing      *)
(* depends on the length), in consumer, and at the end of its cond_wait.   *)
Lock(thread) ==
  /\ lock = "free"
  /\ \/ thread = "producer" /\ ~ProducerDone
     \/ thread = "consumer" /\ ~ConsumerDone /\ ~has_log
  /\ lock' = thread
  /\ UNCHANGED <<log_ready, log_id, has_log, generated, processed, said, spurious>>

(* The slot is written whether or not its last entry has been taken. *)
producer ==
  /\ lock = "producer"
  /\ generated' = generated + 1
  /\ log_id' = generated + 1 /\ log_ready' = 1
  /\ has_log' = FALSE
  /\ lock' = "free"
  /\ UNCHANGED <<processed, said, spurious>>

(* One test of the consumer's loop: wait, or process the entry. *)
consumer ==
  /\ lock = "consumer"
  /\ \/ /\ log_ready = 0
        /\ has_log' = TRUE
        /\ UNCHANGED <<log_ready, processed>>
     \/ /\ log_ready = 1
        /\ processed' = Append(processed, log_id)
        /\ log_ready' = 0
        /\ UNCHANGED has_log
  /\ lock' = "free"
  /\ UNCHANGED <<log_id, generated, said, spurious>>

SpuriousWakeup ==
  /\ has_log /\ spurious < MaxSpurious
  /\ has_log' = FALSE
  /\ spurious' = spurious + 1
  /\ UNCHANGED <<log_ready, log_id, lock, generated, processed, said>>

(* main: both joins, and the line it prints after them. *)
Main ==
  /\ ~said /\ lock = "free" /\ ProducerDone /\ ConsumerDone
  /\ said' = TRUE
  /\ UNCHANGED <<log_ready, log_id, lock, has_log, generated, processed, spurious>>

Producer == Lock("producer") \/ producer
Consumer == Lock("consumer") \/ consumer

Next == Producer \/ Consumer \/ SpuriousWakeup \/ Main
Spec == Init /\ [][Next]_vars
FairSpec == Spec /\ WF_vars(Producer) /\ WF_vars(Consumer) /\ WF_vars(Main)

(* "[Main] All log entries processed." (ex2_lost_wakeup.c:119): main gets  *)
(* to say so, and it is true, every entry having been processed once.      *)
AllProcessed == <>(said /\ processed = [k \in 1 .. NumLogs |-> k])

=============================================================================
