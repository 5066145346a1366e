# Verification of CPRE_3080_Labs

TLA+ modules, TLC configurations and TLAPS proofs for the programs of this
repository. The repository holds one real system, the multi-threaded Mini-KV
server with its benchmark client (`Project2/Proj02-starter`), and the smaller
programs of the operating-systems labs. The server comes first here, then the
labs with a core of their own. Line numbers refer to the files under `src/`;
`PROJECT.json` maps every definition that models code to its lines.

## 1. Inventory

| Component | State it keeps | Operations | How it interacts | What makes it correct |
|---|---|---|---|---|
| Accept loop, work queue, worker pool, shutdown (`kvserver.c`, `kv.h`) | `g_shutdown`; ring `fds/head/tail/count` with one mutex and two condition variables; a local `conn` per thread | `accept`, `queue_enqueue`, `queue_dequeue`, `worker_main`, `sigint_handler`, broadcast, joins, cleanup | main hands descriptors to workers; the signal handler runs in any thread and sets a flag no lock protects | FIFO, nothing lost or doubled, no lost wakeup, shutdown reaches every thread |
| Hash table, sweeper (`hash.c`) | buckets, chained heap nodes, expiry times, five atomic counters, one reader-writer lock | `kv_init`, `kv_get`, `kv_put`, `kv_del`, `sweeper_main`, `kv_destroy` | workers call it for each request; the sweeper deletes behind their backs; main destroys it after the joins | memory safety, no leak, each request atomic, expiry exact for clients |
| Connection handling (`handle_client.c`) | the line and the locals of one request | GET, PUT, DEL, STATS, QUIT, errors | runs in a worker, calls the table; STATS takes the table's lock itself | STATS adds up |
| Server start-up (`kvserver.c`) | listening socket | argument checks, `make_listen_socket`, thread creation | before any concurrency | (initial states) |
| Benchmark client (`bench_client.c`) | start gate `ready_threads/start`, per-thread counters | create, connect, arrive, release, operate, join, report | main and clients share one condition variable | common start, every operation counted, it ends |
| Lab 6 monitors | reader-writer monitor, single-slot log queue, task queue | `read_lock` ... `write_unlock`, `producer`/`consumer`, `dispatch_task`/`worker` | mutex and condition variables | exclusion, writer preference, no lost wakeup or entry |
| Lab 4 scheduling simulator | process table, run queues, static round-robin state | four schedulers called once per tick | simulation loop calls a scheduler by pointer | every process runs exactly its time, order as the policy says |
| Lab 7 page replacement | frames, recency, fault count | FIFO, LRU, OPT over a reference string | sequential | OPT is least, LRU has the stack property |
| Lab 3 threads and races | counters, an account balance | increments, withdrawals, thread arguments | unsynchronised or with one mutex | no lost update, lock always released |
| Labs 1, 2, homework 1, measurements of Lab 7 | none to speak of | print, fork, wait, kill, timing | | not modelled |

What is hard to test here: a signal between a test and the wait or the call
that depends on it; wakeups that meet nobody; a full ring; a client that never
leaves; nodes freed under a traversal; the clock moving between two reads; a
second of disagreement between two expiry tests; counters read one by one;
early returns that skip an unlock or a gate. `PROJECT.json` lists each under
`hazards` with its line and the properties that would catch it.

## 2. Modules

| Module | What it is |
|---|---|
| `ConnHandoff` | abstract: connections pass in order through a bounded FIFO to one worker each |
| `WorkerPool` | `kvserver.c`: accept loop, queue with mutex and condition variables, workers, signal, shutdown. Implements `ConnHandoff` |
| `WorkerPoolProofs` | theorems about `WorkerPool`: types, lock, wait sets, wakeups, that it implements `ConnHandoff`, what becomes of each connection |
| `TtlStore` | abstract: a map with expiry on which each request takes effect at one instant |
| `KvTable` | `hash.c` and STATS: chains of heap cells, reader-writer lock, clock, sweeper, teardown. Implements `TtlStore` |
| `KvTableMC` | the instance of `KvTable` for TLC (hash function, symmetry) |
| `KvTableProofs` | theorems about `KvTable`: lock, lists, traversals, memory, counters |
| `KvStoreProofs` | proof that `KvTable` implements `TtlStore` |
| `StatsSnapshot` | `KvTable` with a history variable: the counter values a STATS request could have seen |
| `BenchGate` | `bench_client.c`: thread creation, start gate, operations, report |
| `BenchServer` | `BenchGate` composed with the server: backlog, accept loop, workers around the queue of `ConnHandoff` |
| `BenchProofs` | theorems about `BenchGate` and `BenchServer` |
| `RWMonitor` | `ex3_starving_writer.c` of Lab 6: the reader-writer monitor with its readers, writers and timer |
| `RWMonitorProofs` | theorems about `RWMonitor`: exclusion, wakers, writer preference |
| `LogQueue` | `ex2_lost_wakeup.c` of Lab 6: producer, consumer, main and the one-slot queue |
| `CpuShare` | abstract: one processor shared among processes, never idle while one is ready |
| `Scheduling` | `scheduling.c` and `queue.c` of Lab 4: the simulation loop and its four schedulers. Implements `CpuShare` |
| `SchedulingMC` | `Scheduling` for TLC, beside a rival that shares the processor in every other way |
| `SchedulingProofs` | theorems about `Scheduling` and the rival of `SchedulingMC` |
| `PageSim` | `pagesim.c` of Lab 7: FIFO, LRU and OPT with every number of frames on one reference string |
| `PageSimMC` | the instance of `PageSim` for TLC (symmetry) |
| `PageSimProofs` | theorems about `PageSim`: FIFO, LRU, OPT |
| `SetInduction` | lemmas the proofs share: induction stated with sets, least elements, sums and sizes |

### WorkerPool

`mpc` and `wpc[w]` say where main and each worker are; the other variables
carry the names of the source. What is done under the mutex and reads only
what the mutex protects is one step (enqueue, dequeue). A worker's test of
`g_shutdown` and its `cond_wait` are two steps (`DequeueTest`, `DequeueWait`)
because the handler may run in between: `g_shutdown` is not protected.
`not_empty` and `not_full` are the threads blocked in `cond_wait` and not
released yet; a released thread still has to get the mutex back
(`DequeueWake`, `EnqueueWake`), and others may overtake it. `cond_signal`
releases any one of them (`WakeOne`); spurious wakeups are modelled.
`sigint_handler(t)` sets the flag in any thread `t`; as `SA_RESTART` is not
set it also ends an `accept` that `t` is blocked in, and makes `fgets` fail in
a worker that is serving. Connections are numbered in the order of `accept`;
`closed` is the set of those whose descriptor a worker has closed.
`handle_client` is one step here: `KvTable` opens it up.

Refinement: `HandoffSpec` instantiates `ConnHandoff` with the ring unrolled
from `head` as its queue, `conn` as the workers' hands, and as `last` the last
connection stored, which is `accepted` less the one main still holds.

### KvTable

Cells have addresses (`Nodes`) that `malloc` picks freely among the free ones,
so freed addresses are used again; chains are `next` fields, and a freed cell
keeps its contents, as in C. Taking the lock (with the first look at the
bucket), the call of `time`, each node of a traversal, the change with its
counters, and the unlock are separate steps, although the lock should make
most of that granularity invisible: that it does is what is checked.
`curr`, `prev` and `now` are the locals of each thread; `prev = NULL` plays
`curr_ptr = &buckets[i]` in the sweeper. `now[w]` holds `expires_at` in a PUT.
Keys and values are model values; `strcmp`, `strncpy` and the wording of
replies are not looked into. Time counts in seconds from 1, as `time` never
returns 0. A negative `ttl` behaves like 0 (`ttl > 0` is the only test).
`accepting` is all that is kept here of main's accept loop: main leaves it some
time after the signal or never (`StopAccepting`), and only then joins the
threads and calls `kv_destroy`. A worker may return before that, if it sees the
flag.

Refinement: `StoreSpec` instantiates `TtlStore`. A GET takes effect when it
calls `time`, a PUT likewise (from then on it owns the write lock and its
entry counts), a DEL at its unlink or at the end of the chain; an entry is
Purged when the sweeper frees it, which is allowed only once no GET can see
it. The sweeper's test (`expires_at < now`) is one second later than GET's
(`now >= expires_at`), so a key can be gone for GET while DEL still answers
OK; `TtlStore` says exactly that.

### BenchGate

Each critical section of the gate is one step. `waiting` is the set of threads
in `cond_wait` on the one condition variable, main (-1) among them. A
connection that is refused, and a `pthread_create` that fails, are actions of
their own; an operation is answered as expected or fails.

### BenchServer

The actions of `BenchGate` are used as they are, joined with what they do to
the server: `connect` needs room in the kernel's backlog (or main waiting in
`accept`), a request is answered by the worker that has the connection, or
fails when it is closed. The work queue is not that of `WorkerPool` but its
abstraction `ConnHandoff` (`Handoff!Put`, `Take`, `Finish`), which
`WorkerPoolProofs` shows `WorkerPool` to implement. `accepted` lists the clients in
the order of `accept`; the last one is in main's hand until it is enqueued
(`MainFree`). A worker may also close a connection at once
(`handle_client.c:9`). What matters is that a client at the gate sends nothing
and so keeps its place in the server: `EndsIfAllFit`.

### RWMonitor and LogQueue

A thread takes the mutex in one step and does everything under it in the next:
no other thread can see the counters in between. Both wait pattern and fairness
are as in `WorkerPool`: a thread released from `cond_wait` is off the wait set
and competes for the mutex like any other; spurious wakeups are modelled. In
`RWMonitor` the place of a thread that holds the mutex is the place it came
from (`WithMutex`); the readers and writers re-enter until the timer has
lowered `running`. The program has one writer; two are checked, since the
monitor's `WW` and its signals are written for several. Readers may starve:
nothing makes a writer pause long enough, and the code does not claim
otherwise. (The comment at `ex3_starving_writer.c:58-59`, "Readers only wait if
a writer is ACTIVE", is of an earlier condition; line 65 has the new one.)

### Scheduling

One step is one tick: `Tick` is the body of main's loop, with the pid the
scheduler returns. `running` and `prev_pid` are left out, as nothing reads
them; `finished` is `endtime # None`, as both are set together. The queue is
the ring of `queue.c` with `front`, `rear` and `size`. `timeline` is a history
of the round; `printed` is what main prints of starts, ends and turnaround. The
loop that queues arrivals is a recursive function over the pids (`EnqueueAll`).
`SchedulingAssumption` asks what the constants of the source satisfy: a queue
has room for every process, run times and quanta are positive. The
quantum is part of the initial state because the one in the source (50) is
longer than any run time (10 to 39): round robin as it stands never preempts,
and `RoundRobinIsFcfs` says it is first come first served. The order in which
a preempted process and arrivals are queued (arrivals first, lines 238-251) is
that of the code; `Lab4_report.odt` describes the opposite, and the recorded
`coffee_output.txt` is that of a version with quantum 1 and the opposite order.

Refinement: `ShareSpec` instantiates `CpuShare` with `remainingtime`,
`current_time` and the number of the scheduler.

### PageSim

All policies and numbers of frames take each reference in the same step; each
keeps the locals of its `simulate_` function. `last_used` and `next_replace`
are as in the source; searches are written as the first index that satisfies
what the loop tests, ties and early `break` included. `Infinity`, the distance
of a page that is not used again, is no less than the longest string
(`InfinityAssumption`; 1000000 against at most 1000 references in the source). The
two reference definitions, the queue FIFO should be (`Loaded`) and the fewest
faults there can be (`LeastFaults`, over every victim at every fault, by
`Serve`), are recursive functions over the references so far.

## 3. Runs

| Run | Expected | What it shows |
|---|---|---|
| `pool` | pass | under fair threads: types, the FIFO refinement, `OneHolder`, no lost wakeup either way (`NoIdleWorker`, `NoIdleMain`), the broadcast misses nobody (`ShutdownReachesAll`), all but the last accepted connection are closed at exit (`DrainedButLast`), every accepted connection is served unless the server shuts down (`Served`); once the accept loop is left all threads are joined (`StopTerminates`) |
| `shutdown_drain` | violation | finding 1 |
| `shutdown_hang` | violation | finding 2 |
| `table` | pass | types, `NoUseAfterFree`, `ChainsOK`, `NoLeak`, `StatsAddUp`, and the refinement of `TtlStore` |
| `table_liveness` | pass | expired entries are reclaimed (`Reclaimed`); once main has left its accept loop the table is destroyed (`Destroyed`) |
| `stats_snapshot` | violation | finding 3 |
| `bench` | pass | benchmark against server: common start, every operation accounted for, and it ends if and, but for faults, only if all clients fit into the server at once (`EndsIfAllFit`) |
| `bench_hang` | violation | finding 4 |
| `rw_monitor` | pass | `Exclusion`; whoever sleeps has a thread that will wake it (`ReaderHasAWaker`, `WriterHasAWaker`); no reader overtakes a waiting writer (`WritersFirst`); the writer is not starved (`WriterGetsIn`); all threads end after the timer (`Ends`) |
| `log_queue` | violation | finding 5 |
| `scheduling` | pass | every scheduler is a `CpuShare`; the queues hold each waiting process once (`QueuesComplete`); `FcfsNeverPreempts`; shortest remaining time has the least turnaround (`SrtIsLeast`); `RoundRobinIsFcfs`; nobody gets two turns while another waits (`TurnsAlternate`); `PriorityFirst` |
| `page_replacement` | pass | the ring of FIFO is a queue (`FifoIsQueue`), LRU holds the pages used last (`LruIsMostRecent`), OPT has the fewest faults of all choices of victims (`OptIsLeast`) |

Bounds. `pool`: two workers give a ring of four slots; seven connections are
one in each hand (main, two workers) with a full ring, so main blocks, and more
than a lap of the ring; one signal is enough because the flag is never lowered;
one accept error shows the path.
`table`: two keys in one bucket behind an empty first bucket make chains of
two, so that unlinks happen at head and tail and the sweeper crosses buckets;
two cells, as many as keys, force reuse of addresses at once; three requests
let a PUT, a PUT and a racing GET, DEL or STATS meet the sweeper; three seconds
cover valid, expired for GET only, and expired for both. Workers, keys, values
and cells are interchangeable (symmetry, safety only). `table_liveness` has one
worker and two requests, without symmetry. `stats_snapshot` needs four
requests: a PUT, the STATS, a hit and a miss. `bench` has four clients of one
operation; one worker, one queue slot, main's hand and a backlog of none or one
make three or four places, so the clients do not or just do fit; one fault of
any kind (thread not created, connection refused or dropped); `bench_hang` has
its own bounds. `rw_monitor`: three readers, so that a broadcast releases
several, and two writers, so that one can be released while another is inside.
`log_queue` is the program's own instance of five entries, with one spurious
wakeup. `scheduling`: three processes give two that wait while one runs; run
times 1 to 3 against a quantum of 2 end before, with and after it, and the
quantum of 4 is longer than all; the rings of four slots wrap.
`page_replacement`: five pages over four frames force replacement in every one,
and eight references fill the frames and go round again. Deadlock is not
checked where the program ends (all runs).

Fairness. `WorkerPool!FairSpec`: each thread takes a step it can take (weak
fairness, nothing stronger: a POSIX mutex promises no order), which includes
that a client ends its session in the end; and spurious wakeups do not recur
for ever, since threads that loop through them could keep the mutex from
others. Clients, signals and accept errors are not fair. `KvTable!FairSpec`:
threads are scheduled, `nanosleep` returns, the clock moves on, and once
main has left its accept loop each worker returns (main broadcasts then, and
clients end their sessions). Main need not leave that loop, signal or not: it
may be in `accept` for ever (finding 2), so `StopAccepting` is not fair, and
`Destroyed` starts where it has left. Requests are bounded, so writers do get
the lock (see 6). `BenchGate!FairSpec`: as for the pool, and each operation is
answered or fails in the end; connections are not refused by fairness.
`BenchServer!BothSpec`: the same, each worker and main of the server, too.
`RWMonitor!FairSpec`: weak fairness for each thread and no endless spurious
wakeups; the timer is not fair, so `WriterGetsIn` does not lean on it.
`LogQueue!FairSpec`: each thread is scheduled, and the hang is there all the
same. `Scheduling` and `PageSim` are sequential: safety only.

## 4. Findings

1. `Drained` (`kvserver.c:170`). The project text (section 6.2, item 5) asks
   SIGINT to "drain the queue". Main accepts a connection; the signal arrives;
   all workers see an empty queue and the flag and return
   (`kvserver.c:227-229`); main enqueues the connection, leaves the loop, joins
   and returns. The connection is neither served nor closed. `DrainedButLast`
   shows that this can happen to one connection at most.
2. `CleanShutdown` (`kvserver.c:162`). "Install Ctrl-C handler for clean
   shutdown" (line 102). The flag is tested at line 158; a signal after that
   test and before `accept` blocks, or one delivered to another thread, leaves
   main in `accept` until a client happens to connect. `StopTerminates` and
   `Destroyed` therefore speak of the time after main has left the loop.
3. `StatsConsistent` (`handle_client.c:49`). "Shared Read Lock (for
   consistency)" (line 46). GETs hold the lock in the same mode while they
   count, so `hits` and `misses` can be from different instants. What does
   hold is `StatsAddUp`: `keys + dels <= puts`.
4. `Ends` (`bench_client.c:233`). A client that cannot connect counts its
   operations as failed and returns without reporting at the gate; main waits
   for it for ever and the report that README.md:55 describes is not printed.
5. `AllProcessed` (`ex2_lost_wakeup.c:54`). The producer ("correctly
   synchronized", line 46) stores into the slot without asking whether the last
   entry has been taken. When the consumer is late an entry is overwritten; the
   consumer, which wants five, waits for ever, and main does not get to "All log
   entries processed." (line 119). The wait pattern the header asks for is in
   place and is not enough.

## 5. Proofs

The proofs hold for every value of the constants that satisfies the assumptions
named with each module; these say no more than the code ensures (finite sets of
threads, a sentinel that is not a value, at least one bucket). For every
invariant the passing runs check there is a theorem, and for the refinements and
`WritersFirst`. Bounds such as `MaxOps` are any natural numbers in the proofs.

`SetInduction` carries what several proofs need. The induction theorems of the
library take an operator, which the provers here cannot instantiate; stated with
the set of those arguments a claim holds for (`NatInduct`, `SetInduct`, proved
from a minimal counterexample) induction can be used all the same. A recursive
function of the model (`EnqueueAll`, `Loaded`, `LeastFaults`, the chains of
`ChainsOK`) is shown to exist by such an induction and then unfolded at one
argument. `SumUnfolded` and `SumsAddUp` are about sums over a set.

`WorkerPoolProofs` (`PoolAssumption`). The invariant is built in layers.

- `TypeCorrect`: needs `NextSlotType` about the index arithmetic and that main
  has a connection in its hand only after an accept (`InHandAccepted`).
- `LockDiscipline`: who owns the mutex in terms of where the threads are.
- `MainNeverIdles`, `BroadcastReachesAll`: neither property is inductive alone;
  `WaitSets` adds that only threads in `cond_wait` are in a wait set, that a
  worker that has decided to wait still owns the mutex and the queue is still
  empty, and that the flag is up past the accept loop. A worker cannot be
  between its test and its wait when main broadcasts, because main then owns the
  mutex: that is `Locking`.
- `NoLostWakeup`: the step of `queue_enqueue` adds one connection and one
  contender, that of `queue_dequeue` takes one of each, and a worker goes to
  sleep only on an empty queue.
- `ImplementsHandoff`: `Spec => HandoffSpec`. `RingInv`: `tail` is `count` slots
  after `head`, and a worker that is not serving or closing has no connection.
  `AfterValue` and `NextSlotValue` rid the index arithmetic of its remainders;
  then `EnqueuePut` appends to the unrolled ring (`PutAppends`), `DequeueTake`
  takes its head (`TakeRemoves`), `CloseConn` is `Finish`, and every other step
  is a stutter.
- `EachHeldOnce`: `OneHolder`. `HeldOnce` says that the queue holds consecutive
  numbers, that all smaller ones are closed or in one worker's hand, and no
  larger one is.
- `ShutdownDrains`: `DrainedButLast`. `LastOnly`: once a worker has left, the
  flag is up and at most one connection is in the ring, none before main's last
  `queue_enqueue`. With `HeldOnce` only the last accepted one can stay unclosed.

`RWMonitorProofs` (`MonitorAssumption`): types, `Exclusion`, both waker
properties and `WritersFirst`. `Exclusion` speaks of threads, the guards of
counters; `Counted` equates them: the four counters are the sizes of the four
groups of threads. It is part of `TypeOK`, so `TypeCorrect` states it. The wakers are part of the induction (`MonitorInv`), since
that a released thread finds its condition true depends on them.

`BenchProofs` (`BenchAssumption`, `ServerAssumption`).

- `BenchTypeCorrect`, `GateStartsTogether`, `TotalsAddUp`, from `GateInv`:
  `ArrivalsCounted`, part of `TypeOK`, equates `ready_threads` with the number of
  clients that have reported at the gate; `Opened` says when `start` can be up;
  `Accounts` says how many operations a client has tried by its place.
  `ready_threads` alone does not tell which clients counted: that all of them did
  when it reaches their number is what `StartTogether` needs.
- `BenchUsesGate`: `BothSpec => Spec`, so all of that holds beside the server.
- `TooManyNeverEnd`: the safety half of `EndsIfAllFit`. With more clients than
  `Places` and no fault, main never gets to its exit. `Blocked` says that until
  the gate opens each connected client keeps its place; the places are counted
  (`ServerTypes`), so one client at least has not reported.

`KvTableProofs` (`TableAssumption`, `NullAssumption`). `TableInv` has:
`Phases`, which request is at which point and who holds the lock in which mode;
`Lists`, that links stay inside the allocated cells, no two of them lead to one
cell, keys are in the table once and every cell can be reached from the head of
its bucket; `Walks`, that each traversal stands on an allocated cell its
predecessor leads to, with the key it searches for still ahead; `Counts`,
`Ledger` and `Snapshots` for the counters. Reachability is stated without a
path: a cell is in every set that contains the head and is closed under `next`.
That keeps each of the four changes of links (insert, unlink in DEL, unlink in
the sweeper, teardown) first-order. The theorems are `TableTypeCorrect`,
`NoDanglingPointer`, `ChainsHold`, `TeardownFreesAll` and `RepliesAddUp`;
`ChainsHold` goes from reachability to the bounded paths of `ChainsOK`.

`KvStoreProofs`: `TableImplementsStore`, `Spec => StoreSpec`. On top of
`TableInv` it needs only `SweepClock`, that the time the sweeper compares with
is not ahead of the clock. Every step is mapped to one action of `TtlStore` or a
stutter: an entry that a PUT in progress will write counts from its call of
`time` on (`EntriesOK`), a GET answers at its call of `time`, a DEL at its
unlink or the end of the chain, STATS at its last counter, and the sweeper's
free is a `Purge`.

`SchedulingProofs` (`SchedulingAssumption`). `Core` is the invariant: the inputs
stay; `Accounts` ties `starttime`, `remainingtime` and `endtime` to each other
and to the clock; `RoundRobinOK` and `PriorityOK` say that the rings are queues
that hold each process once, and which ones.

- `QueuesHoldWhoWaits`, `SchedulersShare` (`Spec => ShareSpec`), `HighestRuns`
  follow from `Core`. `SchedulerTypeCorrect` needs the total turnaround as the
  size of a set of pairs (`Turnarounds`), and what has been printed (`PrintedOK`).
- `FirstComeIsServed`, `LongQuantumIsFcfs`: under FCFS, and under round robin
  with a quantum no run time reaches, the processes start and end `InOrder`;
  `OneOrder` shows that there is only one such timetable, so what is printed is
  the same. `Sorted` says that the queue of round robin is then in the order of
  arrival.
- `EveryoneHasATurn`: `TurnsAlternate`. A process in front of another in the
  queue has not run since the other began to wait (`RoundRobinTurns`,
  `PriorityTurns`).
- `ShortestIsLeast`: `RivalSpec => []SrtIsLeast`. What is left of the run times
  is seen as a staircase. `Lower`: above every level the rival has at most as
  many cells left as the simulator, and as many in all. So the rival has at
  least as many processes to run (`NoFewer`), and running the one with the least
  left keeps it so whatever the rival runs (`StaysLower`): were the rival ahead
  at some level below the one the simulator takes its cell from, it would have
  had more cells up to that level, and not the same number in all. The totals
  are compared as if everything were to end now (`Waits`, `Behind`).

`PageSimProofs` (`PageAssumption`, `InfinityAssumption`). `PagesInv` is about
each policy: `FifoOK`, that the ring read from `next_replace` is the queue
`Loaded`; `LruOK`, that `last_used` is the last use of each resident page, frame
0 is filled last, and what was evicted was used before all that is resident;
`OptOK`. From it `PagesTypeCorrect`, `FifoReplacesOldest`,
`LruHoldsMostRecent`. `OptHasFewestFaults` compares OPT with every way to serve
the string (`Reach`): `BestOK` says that for each of them, and for every later
reference, the pages it holds that are due until then exceed those OPT holds by
no more than the faults it has had in excess (`Lead`). OPT's victim is due last
(`OptVictimBest`), so the bound survives a fault of either; at the end no page is
due and OPT has no more faults; and OPT's own choices are among the ways.

Only model-checked:

- Liveness, which with ENABLED is outside the prover's reach: `Served`,
  `StopTerminates`, `Reclaimed`, `Destroyed`, `WriterGetsIn`, `Ends`, and of
  `EndsIfAllFit` that the benchmark does end when all clients fit.
- The findings: `StatsSnapshot` and `LogQueue` have no invariant that holds.

## 6. Not modelled, and why

- Parsing and truncation of request lines, reply texts, sockets and
  `make_listen_socket`: straight-line I/O with no shared state.
- `exit(1)` when a thread cannot be created, and `malloc` failing (unchecked in
  the code).
- Starvation on the reader-writer lock: glibc's default prefers readers, so an
  endless stream of overlapping GETs can keep PUT, DEL and the sweeper out. The
  runs bound the requests and do not rule this out.
- A client that never ends its session: shutdown then waits for it. The
  liveness runs assume it does not happen.
- The task queue of Lab 6 (`ex1_missing_signal.c`): one task for one worker,
  with the wait pattern that `LogQueue` has.
- Parsing of reference strings and the printing of steps (Lab 7): a page number
  of -1 would count as a hit in an empty frame, and a file is read up to 3999
  characters; neither is within the inputs the exercise describes.
- Lab 3: each file shows one race, deadlock or lock benefit on purpose, in a
  few lines; a model would restate the exercise.
- Labs 1 and 2, homework 1, and the measuring programs of Labs 3 and 7.

## 7. Plan

Done: the server and its benchmark, alone and together; the monitors of Lab 6;
the simulators of Labs 4 and 7; a theorem for every invariant, refinement and
safety property of the passing runs. Left:

1. Server: pool and table under one `g_shutdown` (sessions of several
   requests, the teardown after the joins), and a proof that the composition
   keeps the invariants of both parts.
2. The shared shapes of the proofs, the ring buffers of `kvserver.c` and
   `queue.c`, as lemmas of one module.
