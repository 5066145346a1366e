------------------------------ MODULE RWMonitor ------------------------------
(***************************************************************************)
(* The readers-writers monitor of Lab 6 (ex3_starving_writer.c) with its   *)
(* threads: readers that re-enter at once, writers, and the timer that     *)
(* ends the experiment.  A thread takes the monitor's mutex in one step    *)
(* and does all that it does under it in the next: nothing else can see    *)
(* the counters in between.                                                *)
(***************************************************************************)
EXTENDS Integers, FiniteSets

CONSTANTS Readers, Writers,   \* the threads (the program has 20 and 1)
          Nobody              \* the owner of a free mutex

ASSUME MonitorAssumption ==
  /\ IsFiniteSet(Readers) /\ IsFiniteSet(Writers)
  /\ Readers \cap Writers = {} /\ Nobody \notin Readers \cup Writers

Threads == Readers \cup Writers

VARIABLES
  running,        \* lowered by the timer
  AR, WR, AW, WW, \* active and waiting readers, active and waiting writers
  lock,           \* the owner of mon.lock
  ok_to_read, ok_to_write,  \* threads blocked in cond_wait, not yet signalled
  pc

counters == <<AR, WR, AW, WW>>
vars == <<running, counters, lock, ok_to_read, ok_to_write, pc>>

(* loop: testing running; enter: about to lock; wait: in cond_wait; in: has *)
(* read_lock or write_lock behind it, about to unlock; test, woken and     *)
(* leave: the same with the mutex; done: returned.                         *)
WithMutex == [enter |-> "test", wait |-> "woken", in |-> "leave"]
PCs == {"loop", "enter", "test", "wait", "woken", "in", "leave", "done"}

Init ==
  /\ running = TRUE
  /\ AR = 0 /\ WR = 0 /\ AW = 0 /\ WW = 0
  /\ lock = Nobody
  /\ ok_to_read = {} /\ ok_to_write = {}
  /\ pc = [t \in Threads |-> "loop"]

Goto(t, place) == pc' = [pc EXCEPT ![t] = place]

-----------------------------------------------------------------------------
(* reader_thread and writer_thread: the loop around the monitor. *)
Loop(t) ==
  /\ pc[t] = "loop"
  /\ Goto(t, IF running THEN "enter" ELSE "done")
  /\ UNCHANGED <<running, counters, lock, ok_to_read, ok_to_write>>

(* pthread_mutex_lock, and the same inside cond_wait once it is released. *)
Acquire(t) ==
  /\ pc[t] \in DOMAIN WithMutex /\ t \notin ok_to_read \cup ok_to_write
  /\ lock = Nobody
  /\ lock' = t
  /\ Goto(t, WithMutex[pc[t]])
  /\ UNCHANGED <<running, counters, ok_to_read, ok_to_write>>

(* A thread back from cond_wait takes itself off the count of the waiting. *)
StillWaiting(t, count) == count
BackFromWait(t, count) == IF pc[t] = "woken" THEN count - 1 ELSE count

ReaderMustWaitForActive == AW > 0
ReaderMustWait == AW + WW > 0

read_lock(r) ==
  /\ pc[r] \in {"test", "woken"} /\ r \in Readers
  /\ IF ReaderMustWait
     THEN /\ WR' = BackFromWait(r, WR) + 1
          /\ ok_to_read' = ok_to_read \cup {r}
          /\ Goto(r, "wait")
          /\ UNCHANGED AR
     ELSE /\ WR' = BackFromWait(r, WR)
          /\ AR' = AR + 1
          /\ Goto(r, "in")
          /\ UNCHANGED ok_to_read
  /\ lock' = Nobody
  /\ UNCHANGED <<running, AW, WW, ok_to_write>>

WriterMustWaitForWriter == AW > 0
WriterMustWait == AW + AR > 0

write_lock(w) ==
  /\ pc[w] \in {"test", "woken"} /\ w \in Writers
  /\ LET others == BackFromWait(w, WW) IN
     IF WriterMustWait
     THEN /\ WW' = others + 1
          /\ ok_to_write' = ok_to_write \cup {w}
          /\ Goto(w, "wait")
          /\ UNCHANGED AW
     ELSE /\ WW' = others
          /\ AW' = AW + 1
          /\ Goto(w, "in")
          /\ UNCHANGED ok_to_write
  /\ lock' = Nobody
  /\ UNCHANGED <<running, AR, WR, ok_to_read>>

(* pthread_cond_signal: which threads may be left asleep. *)
SignalLost(sleeping) == {sleeping}
Signal(sleeping) == IF sleeping = {} THEN {{}} ELSE {sleeping \ {t} : t \in sleeping}

(* pthread_cond_broadcast. *)
BroadcastToOne(sleeping) == Signal(sleeping)
Broadcast(sleeping) == {{}}

LastReaderOut == AR = 1 /\ WW > 0

read_unlock(r) ==
  /\ pc[r] = "leave" /\ r \in Readers
  /\ AR' = AR - 1
  /\ ok_to_write' \in IF LastReaderOut THEN Signal(ok_to_write) ELSE {ok_to_write}
  /\ lock' = Nobody
  /\ Goto(r, "loop")
  /\ UNCHANGED <<running, WR, AW, WW, ok_to_read>>

write_unlock(w) ==
  /\ pc[w] = "leave" /\ w \in Writers
  /\ AW' = AW - 1
  /\ IF WW > 0
     THEN ok_to_write' \in Signal(ok_to_write) /\ UNCHANGED ok_to_read
     ELSE /\ ok_to_read' \in IF WR > 0 THEN Broadcast(ok_to_read) ELSE {ok_to_read}
          /\ UNCHANGED ok_to_write
  /\ lock' = Nobody
  /\ Goto(w, "loop")
  /\ UNCHANGED <<running, AR, WR, WW>>

timer_thread ==
  /\ running
  /\ running' = FALSE
  /\ UNCHANGED <<counters, lock, ok_to_read, ok_to_write, pc>>

(* pthread_cond_wait may return without a signal. *)
SpuriousWakeup ==
  /\ \/ \E r \in ok_to_read : ok_to_read' = ok_to_read \ {r} /\ UNCHANGED ok_to_write
     \/ \E w \in ok_to_write : ok_to_write' = ok_to_write \ {w} /\ UNCHANGED ok_to_read
  /\ UNCHANGED <<running, counters, lock, pc>>

-----------------------------------------------------------------------------
Step(t) ==
  \/ Loop(t) \/ Acquire(t)
  \/ read_lock(t) \/ write_lock(t) \/ read_unlock(t) \/ write_unlock(t)

Next == timer_thread \/ SpuriousWakeup \/ \E t \in Threads : Step(t)

Spec == Init /\ [][Next]_vars

(* Every thread that can take a step takes one in the end; nothing says    *)
(* that a thread that asks for the mutex gets it while others keep taking  *)
(* it.  Spurious wakeups do not go on for ever.  The timer is not fair:    *)
(* nothing below needs it.                                                 *)
FairSpec ==
  /\ Spec
  /\ \A t \in Threads : WF_vars(Step(t))
  /\ <>[][~SpuriousWakeup]_vars

-----------------------------------------------------------------------------
(* Properties. *)

At(threads, places) == {t \in threads : pc[t] \in places}

(* The places the counters stand for. *)
Inside  == {"in", "leave"}
Waiting == {"wait", "woken"}

Counted ==
  /\ AR = Cardinality(At(Readers, Inside))
  /\ WR = Cardinality(At(Readers, Waiting))
  /\ AW = Cardinality(At(Writers, Inside))
  /\ WW = Cardinality(At(Writers, Waiting))

(* Every variable has its type, and each counter is the number of threads  *)
(* it counts (ex3_starving_writer.c:26-29), whatever the order of signals, *)
(* barging and spurious wakeups: no thread is counted twice or forgotten   *)
(* on its way from waiting to active.                                      *)
TypeOK ==
  /\ running \in BOOLEAN
  /\ Counted /\ AW \in {0, 1}
  /\ lock \in Threads \cup {Nobody}
  /\ ok_to_read \subseteq Readers /\ ok_to_write \subseteq Writers
  /\ pc \in [Threads -> PCs]

(* Inside the monitor (ex3_starving_writer.c:70, 90) a writer is alone,    *)
(* whatever the order of signals, barging and spurious wakeups.            *)
Exclusion ==
  \A w \in At(Writers, Inside) : At(Threads, Inside) = {w}

(* No reader sleeps without a writer that will wake it: one that is active *)
(* or one that waits and will become active (lines 97-101 broadcast only   *)
(* when no writer waits).                                                  *)
ReaderHasAWaker ==
  ok_to_read # {} => At(Writers, Inside \cup Waiting) # {}

(* No writer sleeps while nobody is inside, unless another writer has been *)
(* released and is on its way: the signals of lines 77 and 97 are enough.  *)
WriterHasAWaker ==
  ok_to_write # {} =>
    \/ At(Threads, Inside) # {}
    \/ At(Writers, Waiting) \ ok_to_write # {}

(* Writers first, as the exercise asks (lines 12-13): from the moment a    *)
(* writer waits until it is in, no reader gets in, not even one whose      *)
(* wait ended before.                                                      *)
WritersFirst ==
  [][At(Writers, Waiting) # {} =>
       At(Readers, Inside)' \subseteq At(Readers, Inside)]_vars

(* The writer is not starved although readers never pause (lines 107-125). *)
WriterGetsIn == WW > 0 ~> AW > 0

(* After the timer every thread returns and main's joins with it (lines    *)
(* 170-177): nobody is left asleep when the last writer leaves.            *)
Ends == ~running ~> \A t \in Threads : pc[t] = "done"

=============================================================================
