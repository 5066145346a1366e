------------------------------ MODULE Scheduling ------------------------------
(***************************************************************************)
(* The scheduling simulator of Lab 4 (scheduling.c, queue.c): the loop of  *)
(* main, which plays the same processes through four schedulers, one tick  *)
(* per step, and the schedulers with their circular queues.                *)
(***************************************************************************)
EXTENDS Integers, FiniteSets, FiniteSetsExt, SequencesExt

CONSTANTS NumProcesses,   \* NUM_PROCESSES, 20
          NumPriorities,  \* NUM_PRIORITIES, 3
          MaxQueueSize,   \* MAX_QUEUE_SIZE, 100
          MaxArrival,     \* arrival times are 0 .. MaxArrival (0 .. 99)
          RunTimes,       \* run times (10 .. 39)
          Quanta          \* values of the local quantum (50)

(* A queue has room for every process (scheduling.c:13, queue.h:6). *)
ASSUME SchedulingAssumption ==
  /\ NumProcesses \in Nat \ {0} /\ NumPriorities \in Nat
  /\ MaxQueueSize \in Nat /\ NumProcesses <= MaxQueueSize
  /\ IsFiniteSet(RunTimes) /\ RunTimes \subseteq Nat \ {0}
  /\ Quanta \subseteq Nat \ {0}

Procs == 0 .. NumProcesses - 1
Priorities == 0 .. NumPriorities - 1
None == -1

(* schedulers[]: the order in which main runs them *)
FCFS == 0
SRT == 1
RR == 2
RRP == 3
Over == 4

VARIABLES
  arrivaltime, runtime, priority, quantum,  \* proc[]: fixed once main has drawn them
  scheduler,                                \* i: the one that is simulated
  starttime, remainingtime, endtime,        \* proc_copy[]
  num_finished, current_time, total_turnaround_time,
  rrQueue, priorityQueue,
  current_pid, time_on_cpu,                 \* the static variables of round_robin
  timeline,                                 \* history: the process of each tick so far
  printed                                   \* what main has printed for each scheduler

inputs == <<arrivaltime, runtime, priority, quantum>>
queues == <<rrQueue, priorityQueue, current_pid, time_on_cpu>>
vars == <<inputs, scheduler, starttime, remainingtime, endtime, num_finished, current_time,
          total_turnaround_time, queues, timeline, printed>>

-----------------------------------------------------------------------------
(* queue.c *)

EmptyQueue == [items |-> [k \in 0 .. MaxQueueSize - 1 |-> None], front |-> 0, rear |-> -1, size |-> 0]

enqueueNoWrap(q, value) ==
  IF q.size = MaxQueueSize THEN q
  ELSE [q EXCEPT !.rear = @ + 1, !.items[q.rear + 1] = value, !.size = @ + 1]

(* A full queue drops the value. *)
enqueue(q, value) ==
  IF q.size = MaxQueueSize THEN q
  ELSE LET rear == (q.rear + 1) % MaxQueueSize IN
       [q EXCEPT !.rear = rear, !.items[rear] = value, !.size = @ + 1]

(* dequeue, n times. *)
Dequeued(q, n) == [q EXCEPT !.front = (@ + n) % MaxQueueSize, !.size = @ - n]

(* The k-th item from the front, from 0. *)
Item(q, k) == q.items[(q.front + k) % MaxQueueSize]

(* The loop over all processes that queues those of pids. *)
EnqueueAll(q, pids) ==
  LET upto[n \in 0 .. NumProcesses] ==
        IF n = 0 THEN q
        ELSE IF n - 1 \in pids THEN enqueue(upto[n - 1], n - 1)
        ELSE upto[n - 1]
  IN  upto[NumProcesses]

-----------------------------------------------------------------------------
(* The schedulers, at t = current_time. *)

(* main sets finished and endtime together. *)
Finished(p) == endtime[p] # None

Candidates == {p \in Procs : arrivaltime[p] <= current_time /\ ~Finished(p)}
Arriving == {p \in Procs : arrivaltime[p] = current_time}

(* The first of the candidates with the least key. *)
FirstLeast(pids, key) ==
  IF pids = {} THEN None
  ELSE Min({p \in pids : \A q \in pids : key[p] <= key[q]})

first_come_first_served_by_priority == FirstLeast(Candidates, priority)
first_come_first_served == FirstLeast(Candidates, arrivaltime)
shortest_run_time == FirstLeast(Candidates, runtime)
shortest_remaining_time == FirstLeast(Candidates, remainingtime)

QuantumOverLate == time_on_cpu + 1 > quantum
QuantumOver == time_on_cpu + 1 >= quantum

RequeueFinished(q, p) == enqueue(q, p)
Requeue(q, p) == IF Finished(p) THEN q ELSE enqueue(q, p)

(* The queue, the process that stays or comes on, and its time there. *)
round_robin ==
  LET arrived == EnqueueAll(rrQueue, Arriving)
      over == current_pid # None /\ (Finished(current_pid) \/ QuantumOver)
      queue == IF over THEN Requeue(arrived, current_pid) ELSE arrived
  IN IF current_pid # None /\ ~over
     THEN [queue |-> queue, pid |-> current_pid, time |-> time_on_cpu + 1]
     ELSE IF queue.size = 0 THEN [queue |-> queue, pid |-> None, time |-> 0]
     ELSE [queue |-> Dequeued(queue, 1), pid |-> Item(queue, 0), time |-> 0]

(* A queue without the finished processes at its front. *)
Pruned(q) ==
  Dequeued(q, Min({k \in 0 .. q.size : k = q.size \/ ~Finished(Item(q, k))}))

Rotated(q) == enqueue(Dequeued(q, 1), Item(q, 0))

(* The queues are searched from the highest priority down. *)
LowestFirst(classes) == Min(classes)
HighestFirst(classes) == Max(classes)

round_robin_priority ==
  LET arrived == [c \in Priorities |->
                    EnqueueAll(priorityQueue[c], {p \in Arriving : priority[p] = c})]
      classes == {c \in Priorities : Pruned(arrived[c]).size > 0}
      best == IF classes = {} THEN None ELSE HighestFirst(classes)
  IN [pid |-> IF classes = {} THEN None ELSE Item(Pruned(arrived[best]), 0),
      queue |-> [c \in Priorities |-> IF c > best THEN Pruned(arrived[c])
                                      ELSE IF c = best THEN Rotated(Pruned(arrived[c]))
                                      ELSE arrived[c]]]

-----------------------------------------------------------------------------
(* main *)

Init ==
  /\ arrivaltime \in [Procs -> 0 .. MaxArrival] /\ runtime \in [Procs -> RunTimes]
  /\ priority \in [Procs -> Priorities] /\ quantum \in Quanta
  /\ scheduler = FCFS
  /\ starttime = [p \in Procs |-> None] /\ endtime = [p \in Procs |-> None]
  /\ remainingtime = runtime
  /\ num_finished = 0 /\ current_time = 0 /\ total_turnaround_time = 0
  /\ rrQueue = EmptyQueue /\ priorityQueue = [c \in Priorities |-> EmptyQueue]
  /\ current_pid = None /\ time_on_cpu = 0
  /\ timeline = <<>> /\ printed = <<>>

(* One turn of the simulation loop with the scheduler's answer.  (running  *)
(* and prev_pid are left out: nothing reads them.)                         *)
Tick(next_pid) ==
  /\ num_finished < NumProcesses
  /\ current_time' = current_time + 1
  /\ timeline' = Append(timeline, next_pid)
  /\ IF next_pid = None
     THEN UNCHANGED <<starttime, remainingtime, endtime, num_finished, total_turnaround_time>>
     ELSE /\ starttime' = [starttime EXCEPT ![next_pid] = IF @ = None THEN current_time ELSE @]
          /\ remainingtime' = [remainingtime EXCEPT ![next_pid] = @ - 1]
          /\ IF remainingtime[next_pid] = 1
             THEN /\ endtime' = [endtime EXCEPT ![next_pid] = current_time + 1]
                  /\ num_finished' = num_finished + 1
                  /\ total_turnaround_time' =
                       total_turnaround_time + current_time + 1 - arrivaltime[next_pid]
             ELSE UNCHANGED <<endtime, num_finished, total_turnaround_time>>
  /\ UNCHANGED <<inputs, scheduler, printed>>

TickFcfs == scheduler = FCFS /\ Tick(first_come_first_served) /\ UNCHANGED queues
TickSrt == scheduler = SRT /\ Tick(shortest_remaining_time) /\ UNCHANGED queues

TickRoundRobin ==
  /\ scheduler = RR
  /\ Tick(round_robin.pid)
  /\ rrQueue' = round_robin.queue
  /\ current_pid' = round_robin.pid /\ time_on_cpu' = round_robin.time
  /\ UNCHANGED priorityQueue

TickPriority ==
  /\ scheduler = RRP
  /\ Tick(round_robin_priority.pid)
  /\ priorityQueue' = round_robin_priority.queue
  /\ UNCHANGED <<rrQueue, current_pid, time_on_cpu>>

(* The average is printed and the next scheduler starts on a fresh copy.   *)
(* The static variables of round_robin stay as they are.                   *)
NextScheduler ==
  /\ scheduler # Over /\ num_finished = NumProcesses
  /\ printed' = Append(printed, [starttime |-> starttime, endtime |-> endtime,
                                 total |-> total_turnaround_time])
  /\ scheduler' = scheduler + 1
  /\ starttime' = [p \in Procs |-> None] /\ endtime' = [p \in Procs |-> None]
  /\ remainingtime' = runtime
  /\ num_finished' = 0 /\ current_time' = 0 /\ total_turnaround_time' = 0
  /\ rrQueue' = EmptyQueue /\ priorityQueue' = [c \in Priorities |-> EmptyQueue]
  /\ timeline' = <<>>
  /\ UNCHANGED <<inputs, current_pid, time_on_cpu>>

Next == TickFcfs \/ TickSrt \/ TickRoundRobin \/ TickPriority \/ NextScheduler

Spec == Init /\ [][Next]_vars

-----------------------------------------------------------------------------
(* Properties. *)

QueueOK(q) ==
  /\ q.items \in [0 .. MaxQueueSize - 1 -> Procs \cup {None}]
  /\ q.front \in 0 .. MaxQueueSize - 1 /\ q.rear \in -1 .. MaxQueueSize - 1
  /\ q.size \in 0 .. NumProcesses
  /\ \A k \in 0 .. q.size - 1 : Item(q, k) \in Procs

Lines == [starttime : [Procs -> Nat \cup {None}], endtime : [Procs -> Nat \cup {None}], total : Nat]

(* Every variable has its type: the queues hold processes and never more   *)
(* than there are, times lie in the past, no process has more than its run *)
(* time left or is on the processor for longer than a quantum              *)
(* (scheduling.c:243-248), and main has printed one line for each          *)
(* scheduler that is over.                                                 *)
TypeOK ==
  /\ arrivaltime \in [Procs -> Nat] /\ runtime \in [Procs -> RunTimes]
  /\ priority \in [Procs -> Priorities] /\ quantum \in Nat \ {0}
  /\ scheduler \in {FCFS, SRT, RR, RRP, Over}
  /\ current_time \in Nat /\ total_turnaround_time \in Nat
  /\ starttime \in [Procs -> 0 .. current_time - 1 \cup {None}]
  /\ endtime \in [Procs -> 1 .. current_time \cup {None}]
  /\ remainingtime \in [Procs -> 0 .. Max(RunTimes)]
  /\ num_finished = Cardinality({p \in Procs : Finished(p)})
  /\ QueueOK(rrQueue) /\ \A c \in Priorities : QueueOK(priorityQueue[c])
  /\ current_pid \in Procs \cup {None}
  /\ time_on_cpu \in 0 .. quantum - 1
  /\ timeline \in Seq(Procs \cup {None}) /\ Len(timeline) = current_time
  /\ printed \in Seq(Lines) /\ Len(printed) = scheduler

(* Under all four schedulers the loop is a fair sharing of the processor   *)
(* (CpuShare): only arrived and unfinished processes run, as the comment   *)
(* at scheduling.c:180-187 demands, the processor idles only while there   *)
(* is none, and the "tried to run finished process" of line 157 is never   *)
(* printed.                                                                *)
Share == INSTANCE CpuShare
           WITH Processes <- Procs, Rounds <- Over, arrival <- arrivaltime, length <- runtime,
                left <- remainingtime, clock <- current_time, round <- scheduler
ShareSpec == Share!ShareSpec

Unfinished == {p \in Procs : arrivaltime[p] < current_time /\ ~Finished(p)}
Contents(q) == {Item(q, k) : k \in 0 .. q.size - 1}

(* The queues between two ticks: no process is twice in one or missing     *)
(* from it.  round_robin's holds the arrived and unfinished processes that *)
(* are not on the processor; that of a priority may still hold finished    *)
(* ones (scheduling.c:244-256, 289-297).                                   *)
QueuesComplete ==
  /\ scheduler = RR =>
       /\ Contents(rrQueue) = Unfinished \ {current_pid}
       /\ rrQueue.size = Cardinality(Contents(rrQueue))
  /\ scheduler = RRP => \A c \in Priorities :
       LET q == priorityQueue[c] IN
       /\ {p \in Contents(q) : ~Finished(p)} = {p \in Unfinished : priority[p] = c}
       /\ q.size = Cardinality(Contents(q))

(* FCFS looks for the earliest arrival anew in every tick                  *)
(* (scheduling.c:195-204) and yet never takes the processor away, and runs *)
(* the processes in the order of their arrival.                            *)
FcfsNeverPreempts ==
  scheduler > FCFS =>
    LET run == printed[FCFS + 1] IN
    \A p, q \in Procs :
      /\ run.endtime[p] - run.starttime[p] = runtime[p]
      /\ arrivaltime[p] < arrivaltime[q] => run.endtime[p] <= run.starttime[q]

(* With a quantum no run time reaches, which is the one in the source (50  *)
(* against at most 39, scheduling.c:76, 235), round robin is first come    *)
(* first served to the tick.                                               *)
RoundRobinIsFcfs ==
  scheduler > RR /\ (\A p \in Procs : runtime[p] < quantum) =>
    printed[RR + 1] = printed[FCFS + 1]

(* The ticks p has waited: since it last ran or else arrived. *)
Waited(p) ==
  LET ran == {t \in 1 .. Len(timeline) : timeline[t] = p}
  IN (IF ran = {} THEN arrivaltime[p] ELSE Max(ran)) + 1 .. Len(timeline)

(* While an unfinished process waits for its turn no other gets two: under *)
(* round robin none runs for more than a quantum, and with priorities none *)
(* of the same priority for more than a tick, arrivals, ends and the order *)
(* in which both are queued (scheduling.c:238-256) notwithstanding.        *)
TurnsAlternate ==
  \A p \in Unfinished, q \in Procs :
    LET turns == Cardinality({t \in Waited(p) : timeline[t] = q}) IN
    /\ scheduler = RR => turns <= quantum
    /\ scheduler = RRP /\ priority[p] = priority[q] => turns <= 1

(* A process never runs while one of a higher priority is there, be it     *)
(* just arrived (scheduling.c:287).                                        *)
PriorityFirst ==
  scheduler = RRP /\ timeline # <<>> /\ Last(timeline) # None =>
    \A p \in Unfinished : priority[p] <= priority[Last(timeline)]

=============================================================================
