----------------------------- MODULE WorkerPool -----------------------------
(***************************************************************************)
(* The thread pool of the Mini-KV server (kvserver.c): the accept loop of  *)
(* main, the bounded work queue it shares with the workers (one mutex, the *)
(* condition variables not_empty and not_full), the signal handler and the *)
(* shutdown sequence.                                                      *)
(*                                                                         *)
(* A critical section that reads nothing but what the mutex protects is    *)
(* one step; g_shutdown is not protected by it, so a worker's decision to  *)
(* wait and the wait itself are two steps.  Connections are numbered in    *)
(* the order in which accept returns them.                                 *)
(***************************************************************************)
EXTENDS Integers, FiniteSets

CONSTANTS Workers,     \* the threads that run worker_main
          Main,        \* the thread that runs main
          Nobody,      \* the owner of a free mutex
          MaxConns,    \* bound: connections clients open
          MaxSignals,  \* bound: SIGINT and SIGTERM deliveries
          MaxErrors    \* bound: accept failures other than EINTR

ASSUME PoolAssumption ==
  /\ IsFiniteSet(Workers) /\ Workers # {}
  /\ Main \notin Workers
  /\ Nobody \notin Workers \cup {Main}
  /\ MaxConns \in Nat /\ MaxSignals \in Nat /\ MaxErrors \in Nat

Capacity == 2 * Cardinality(Workers)
Slots    == 0 .. Capacity - 1
NoConn   == 0
Conns    == 1 .. MaxConns

VARIABLES
  g_shutdown,   \* the flag the signal handler raises
  arrived,      \* connections clients have opened (the kernel's backlog: arrived - accepted)
  accepted,     \* connections accept has returned
  signals,      \* signals delivered so far
  errors,       \* accept failures so far
  fds, head, tail, count,   \* work_queue_t: the ring and its indices
  lock,         \* the owner of queue.lock
  not_empty,    \* workers blocked in cond_wait(not_empty), not yet signalled
  not_full,     \* {Main} while it is blocked in cond_wait(not_full), not yet signalled
  mpc,          \* where main is
  wpc,          \* where each worker is
  conn,         \* the local conn of each worker
  closed        \* connections a worker has closed

ring == <<fds, head, tail, count>>
env  == <<arrived, accepted, signals, errors>>
vars == <<g_shutdown, env, ring, lock, not_empty, not_full, mpc, wpc, conn, closed>>

(* main:   check    the loop test on g_shutdown                            *)
(*         accept   from there until accept returns                        *)
(*         enqueue  about to lock the queue; full: owns it, tests count    *)
(*         wait     in cond_wait(not_full)                                 *)
(*         stop     the loop is over, about to lock; broadcast: owns it    *)
(*         join     joining the workers; exited: everything is freed       *)
MainPCs   == {"check", "accept", "enqueue", "full", "wait",
              "stop", "broadcast", "join", "exited"}
(* worker: dequeue  about to lock the queue; test: owns it, tests count    *)
(*         sleep    owns it, has decided to wait; wait: in cond_wait       *)
(*         serve    in handle_client; close: about to close(conn)          *)
WorkerPCs == {"dequeue", "test", "sleep", "wait", "serve", "close", "exited"}

Init ==
  /\ g_shutdown = FALSE
  /\ arrived = 0 /\ accepted = 0 /\ signals = 0 /\ errors = 0
  /\ fds = [i \in Slots |-> NoConn] /\ head = 0 /\ tail = 0 /\ count = 0
  /\ lock = Nobody
  /\ not_empty = {} /\ not_full = {}
  /\ mpc = "check"
  /\ wpc = [w \in Workers |-> "dequeue"]
  /\ conn = [w \in Workers |-> NoConn]
  /\ closed = {}

(* pthread_cond_signal releases one blocked thread, if there is one. *)
WakeOne(waiting) == IF waiting = {} THEN {{}} ELSE {waiting \ {t} : t \in waiting}

(* The slot after slot i of the ring. *)
NextSlotNoWrap(i) == i + 1
NextSlot(i) == (i + 1) % Capacity

-----------------------------------------------------------------------------
(* The accept loop. *)

MainCheck ==
  /\ mpc = "check"
  /\ mpc' = IF g_shutdown THEN "stop" ELSE "accept"
  /\ UNCHANGED <<g_shutdown, env, ring, lock, not_empty, not_full, wpc, conn, closed>>

MainAccept ==
  /\ mpc = "accept"
  /\ accepted < arrived
  /\ accepted' = accepted + 1
  /\ mpc' = "enqueue"
  /\ UNCHANGED <<g_shutdown, arrived, signals, errors, ring, lock, not_empty,
                 not_full, wpc, conn, closed>>

(* Any failure but EINTR is reported and the loop goes on. *)
MainAcceptError ==
  /\ mpc = "accept"
  /\ errors < MaxErrors
  /\ errors' = errors + 1
  /\ mpc' = "check"
  /\ UNCHANGED <<g_shutdown, arrived, accepted, signals, ring, lock, not_empty,
                 not_full, wpc, conn, closed>>

-----------------------------------------------------------------------------
(* queue_enqueue(&queue, conn), conn being connection number accepted. *)

QueueFullLate == count > Capacity
QueueFull == count = Capacity

(* Which workers are still blocked after the cond_signal of queue_enqueue. *)
NotifyWorkerNever == {not_empty}
NotifyWorkerIfEmpty == IF count = 0 THEN WakeOne(not_empty) ELSE {not_empty}
NotifyWorker == WakeOne(not_empty)

EnqueueLock ==
  /\ mpc = "enqueue"
  /\ lock = Nobody
  /\ lock' = Main
  /\ mpc' = "full"
  /\ UNCHANGED <<g_shutdown, env, ring, not_empty, not_full, wpc, conn, closed>>

EnqueueWait ==
  /\ mpc = "full"
  /\ QueueFull
  /\ lock' = Nobody
  /\ not_full' = {Main}
  /\ mpc' = "wait"
  /\ UNCHANGED <<g_shutdown, env, ring, not_empty, wpc, conn, closed>>

(* Released by a signal or spuriously, main re-acquires the lock and tests *)
(* the condition again.                                                    *)
EnqueueWake ==
  /\ mpc = "wait"
  /\ not_full = {}
  /\ lock = Nobody
  /\ lock' = Main
  /\ mpc' = "full"
  /\ UNCHANGED <<g_shutdown, env, ring, not_empty, not_full, wpc, conn, closed>>

EnqueuePut ==
  /\ mpc = "full"
  /\ ~QueueFull
  /\ fds' = [fds EXCEPT ![tail] = accepted]
  /\ tail' = NextSlot(tail)
  /\ count' = count + 1
  /\ not_empty' \in NotifyWorker
  /\ lock' = Nobody
  /\ mpc' = "check"
  /\ UNCHANGED <<g_shutdown, env, head, not_full, wpc, conn, closed>>

-----------------------------------------------------------------------------
(* queue_dequeue(q). *)

MustWaitBlind == count = 0
MustWait == count = 0 /\ ~g_shutdown

MayStopEarly == g_shutdown
MayStop == count = 0 /\ g_shutdown

OldestAfterIncrement == fds[NextSlot(head)]
Oldest == fds[head]

NotifyMainNever == {not_full}
NotifyMain == WakeOne(not_full)

DequeueLock(w) ==
  /\ wpc[w] = "dequeue"
  /\ lock = Nobody
  /\ lock' = w
  /\ wpc' = [wpc EXCEPT ![w] = "test"]
  /\ UNCHANGED <<g_shutdown, env, ring, not_empty, not_full, mpc, conn, closed>>

DequeueTest(w) ==
  /\ wpc[w] = "test"
  /\ MustWait
  /\ wpc' = [wpc EXCEPT ![w] = "sleep"]
  /\ UNCHANGED <<g_shutdown, env, ring, lock, not_empty, not_full, mpc, conn, closed>>

DequeueWait(w) ==
  /\ wpc[w] = "sleep"
  /\ lock' = Nobody
  /\ not_empty' = not_empty \cup {w}
  /\ wpc' = [wpc EXCEPT ![w] = "wait"]
  /\ UNCHANGED <<g_shutdown, env, ring, not_full, mpc, conn, closed>>

DequeueWake(w) ==
  /\ wpc[w] = "wait"
  /\ w \notin not_empty
  /\ lock = Nobody
  /\ lock' = w
  /\ wpc' = [wpc EXCEPT ![w] = "test"]
  /\ UNCHANGED <<g_shutdown, env, ring, not_empty, not_full, mpc, conn, closed>>

DequeueTake(w) ==
  /\ wpc[w] = "test"
  /\ count > 0
  /\ conn' = [conn EXCEPT ![w] = Oldest]
  /\ head' = NextSlot(head)
  /\ count' = count - 1
  /\ not_full' \in NotifyMain
  /\ lock' = Nobody
  /\ wpc' = [wpc EXCEPT ![w] = "serve"]
  /\ UNCHANGED <<g_shutdown, env, fds, tail, not_empty, mpc, closed>>

(* queue_dequeue returns -1 and worker_main returns. *)
DequeueStop(w) ==
  /\ wpc[w] = "test"
  /\ MayStop
  /\ lock' = Nobody
  /\ wpc' = [wpc EXCEPT ![w] = "exited"]
  /\ UNCHANGED <<g_shutdown, env, ring, not_empty, not_full, mpc, conn, closed>>

-----------------------------------------------------------------------------
(* worker_main around the queue. *)

(* handle_client returns: the client quit or closed, or fdopen failed. *)
HandleClient(w) ==
  /\ wpc[w] = "serve"
  /\ wpc' = [wpc EXCEPT ![w] = "close"]
  /\ UNCHANGED <<g_shutdown, env, ring, lock, not_empty, not_full, mpc, conn, closed>>

CloseConn(w) ==
  /\ wpc[w] = "close"
  /\ closed' = closed \cup {conn[w]}
  /\ conn' = [conn EXCEPT ![w] = NoConn]
  /\ wpc' = [wpc EXCEPT ![w] = "dequeue"]
  /\ UNCHANGED <<g_shutdown, env, ring, lock, not_empty, not_full, mpc>>

-----------------------------------------------------------------------------
(* Shutdown, after the accept loop. *)

(* Main does not wait for the mutex before it broadcasts. *)
StopUnlocked ==
  /\ mpc = "stop"
  /\ mpc' = "broadcast"
  /\ UNCHANGED <<g_shutdown, env, ring, lock, not_empty, not_full, wpc, conn, closed>>

StopLock ==
  /\ mpc = "stop"
  /\ lock = Nobody
  /\ lock' = Main
  /\ mpc' = "broadcast"
  /\ UNCHANGED <<g_shutdown, env, ring, not_empty, not_full, wpc, conn, closed>>

StopBroadcast ==
  /\ mpc = "broadcast"
  /\ not_empty' = {}
  /\ lock' = Nobody
  /\ mpc' = "join"
  /\ UNCHANGED <<g_shutdown, env, ring, not_full, wpc, conn, closed>>

(* Every pthread_join has returned: the queue and the table are freed. *)
JoinAndFree ==
  /\ mpc = "join"
  /\ \A w \in Workers : wpc[w] = "exited"
  /\ mpc' = "exited"
  /\ UNCHANGED <<g_shutdown, env, ring, lock, not_empty, not_full, wpc, conn, closed>>

-----------------------------------------------------------------------------
(* The surroundings: clients, signals, spurious wakeups. *)

Connect ==
  /\ arrived < MaxConns
  /\ mpc # "exited"
  /\ arrived' = arrived + 1
  /\ UNCHANGED <<g_shutdown, accepted, signals, errors, ring, lock, not_empty,
                 not_full, mpc, wpc, conn, closed>>

(* SIGINT or SIGTERM runs sigint_handler in some thread t.  SA_RESTART is  *)
(* not set: an accept blocked in t returns EINTR, and a worker blocked in  *)
(* the read under fgets leaves handle_client.  A thread that is not in the *)
(* call yet, or any other thread, only sees the flag.                      *)
sigint_handler(t) ==
  /\ signals < MaxSignals
  /\ mpc # "exited"
  /\ signals' = signals + 1
  /\ g_shutdown' = TRUE
  /\ \/ UNCHANGED <<mpc, wpc>>
     \/ /\ t = Main /\ mpc = "accept" /\ accepted = arrived
        /\ mpc' = "check"
        /\ UNCHANGED wpc
     \/ /\ t \in Workers /\ wpc[t] = "serve"
        /\ wpc' = [wpc EXCEPT ![t] = "close"]
        /\ UNCHANGED mpc
  /\ UNCHANGED <<arrived, accepted, errors, ring, lock, not_empty, not_full, conn, closed>>

(* pthread_cond_wait may return without a signal. *)
SpuriousWakeup ==
  /\ \/ \E w \in not_empty : not_empty' = not_empty \ {w} /\ UNCHANGED not_full
     \/ not_full # {} /\ not_full' = {} /\ UNCHANGED not_empty
  /\ UNCHANGED <<g_shutdown, env, ring, lock, mpc, wpc, conn, closed>>

-----------------------------------------------------------------------------
MainStep ==
  \/ MainCheck \/ MainAccept
  \/ EnqueueLock \/ EnqueueWait \/ EnqueueWake \/ EnqueuePut
  \/ StopLock \/ StopBroadcast \/ JoinAndFree

WorkerStep(w) ==
  \/ DequeueLock(w) \/ DequeueTest(w) \/ DequeueWait(w) \/ DequeueWake(w)
  \/ DequeueTake(w) \/ DequeueStop(w) \/ HandleClient(w) \/ CloseConn(w)

Next ==
  \/ MainStep
  \/ \E w \in Workers : WorkerStep(w)
  \/ MainAcceptError
  \/ Connect
  \/ \E t \in Workers \cup {Main} : sigint_handler(t)
  \/ SpuriousWakeup

Spec == Init /\ [][Next]_vars

(* Every thread that can run is scheduled, every client ends its session   *)
(* in the end, and spurious wakeups do not go on for ever: a thread that   *)
(* waits for the mutex could be overtaken by them without end, as nothing  *)
(* makes a pthread mutex fair.                                             *)
FairSpec ==
  /\ Spec
  /\ WF_vars(MainStep)
  /\ \A w \in Workers : WF_vars(WorkerStep(w))
  /\ <>[][~SpuriousWakeup]_vars

-----------------------------------------------------------------------------
(* Properties. *)

(* Every variable has its type; head, tail and count index the ring. *)
TypeOK ==
  /\ g_shutdown \in BOOLEAN
  /\ arrived \in 0..MaxConns /\ accepted \in 0..arrived
  /\ signals \in 0..MaxSignals /\ errors \in 0..MaxErrors
  /\ fds \in [Slots -> Conns \cup {NoConn}]
  /\ head \in Slots /\ tail \in Slots /\ count \in 0..Capacity
  /\ lock \in Workers \cup {Main, Nobody}
  /\ not_empty \in SUBSET Workers /\ not_full \in SUBSET {Main}
  /\ mpc \in MainPCs /\ wpc \in [Workers -> WorkerPCs]
  /\ conn \in [Workers -> Conns \cup {NoConn}]
  /\ closed \in SUBSET (Conns \cup {NoConn})

(* The connections in the ring, oldest first. *)
Queued == [i \in 1..count |-> fds[(head + i - 1) % Capacity]]

(* The connection accept has returned and queue_enqueue has not stored. *)
InMainsHand == IF mpc \in {"enqueue", "full", "wait"} THEN {accepted} ELSE {}

(* The ring with its mutex and condition variables (kvserver.c:204-241) is *)
(* the bounded FIFO of ConnHandoff: connections reach the workers in the   *)
(* order accept returned them, none lost, doubled or overwritten.          *)
Handoff == INSTANCE ConnHandoff
             WITH queue <- Queued, hand <- conn,
                  last <- accepted - Cardinality(InMainsHand)
HandoffSpec == Handoff!HandoffSpec

(* Every place that holds connection c. *)
Holders(c) ==
  {<<"main", 0>> : x \in InMainsHand \cap {c}}
    \cup {<<"slot", i>> : i \in {j \in 1..count : Queued[j] = c}}
    \cup {<<"worker", w>> : w \in {v \in Workers : conn[v] = c}}
    \cup {<<"closed", 0>> : x \in closed \cap {c}}

(* A descriptor accept returned is in one place at any time: in main's     *)
(* hand, in one slot, with one worker, or closed.  So none is dropped on   *)
(* the way, closed twice or served twice (kvserver.c:162-171, 248-254).    *)
(* One may still be in its slot, never closed, when main exits: Drained.   *)
OneHolder == \A c \in 1..accepted : Cardinality(Holders(c)) = 1

(* Workers that will look at count without being signalled again. *)
Contenders ==
  {w \in Workers : \/ wpc[w] \in {"dequeue", "test"}
                   \/ wpc[w] = "wait" /\ w \notin not_empty}

(* No lost wakeup: while a worker sleeps in cond_wait(not_empty), every    *)
(* connection in the queue has another worker on its way to it, whatever   *)
(* signals, barging workers and spurious wakeups do (kvserver.c:215, 224). *)
NoIdleWorker == not_empty # {} => count <= Cardinality(Contenders)

(* No lost wakeup the other way: main sleeps in cond_wait(not_full) only   *)
(* while the queue is full (kvserver.c:207-209, 236).                      *)
NoIdleMain == not_full # {} => count = Capacity

(* The shutdown broadcast (kvserver.c:177-180) misses no worker: none is   *)
(* asleep or past its test of g_shutdown when main starts to join.         *)
ShutdownReachesAll ==
  mpc \in {"join", "exited"} =>
    not_empty = {} /\ \A w \in Workers : wpc[w] # "sleep"

(* Shutdown drains the queue (kvserver.c:227) of every connection but, at  *)
(* worst, the last one accepted.                                           *)
DrainedButLast == mpc = "exited" => 1 .. accepted - 1 \subseteq closed

(* Stronger, and what the project text asks of SIGINT ("stop accepting,    *)
(* drain the queue, let workers finish current connections"): every        *)
(* connection given to queue_enqueue (kvserver.c:170-171) gets a worker.   *)
Drained == mpc = "exited" => 1 .. accepted \subseteq closed

(* Unless the server shuts down, every accepted connection is served and   *)
(* closed in the end.                                                      *)
Served == \A c \in Conns : c <= accepted ~> c \in closed \/ g_shutdown

(* Once main has left the accept loop, all threads are joined.             *)
StopTerminates == mpc = "stop" ~> mpc = "exited"

(* What "clean shutdown" (kvserver.c:102) and the broadcast that wakes "all *)
(* workers so they can exit" (kvserver.c:177) promise: a signal ends the   *)
(* server.                                                                 *)
CleanShutdown == g_shutdown ~> mpc = "exited"

=============================================================================
