----------------------------- MODULE BenchServer -----------------------------
(***************************************************************************)
(* The benchmark against the server: BenchGate's clients connect to the    *)
(* listening socket of kvserver.c, whose main accepts them one by one and  *)
(* passes them through the work queue to the workers.  The queue is the    *)
(* abstract one of ConnHandoff, which WorkerPool implements (proved in     *)
(* WorkerPoolProofs).  A client at the start gate sends nothing, so the       *)
(* worker that has its connection waits in fgets: what limits the          *)
(* benchmark is in how many places a connection can wait.                  *)
(*                                                                         *)
(* The server is idle at first: preload_keys has closed its connection.    *)
(* It is not shut down during the benchmark.                               *)
(***************************************************************************)
EXTENDS BenchGate, Sequences, SequencesExt

CONSTANTS Workers,    \* the server's worker threads
          Capacity,   \* of its work queue, 2 * num_workers
          NoConn,
          Backlogs,   \* connections the kernel keeps for accept (64, kvserver.c:66)
          MaxFaults   \* bound: threads not created, connections refused or dropped

ASSUME ServerAssumption ==
  /\ Workers # {} /\ IsFiniteSet(Workers)
  /\ Capacity \in Nat \ {0} /\ Backlogs \subseteq Nat /\ MaxFaults \in Nat
  /\ NoConn \notin Nat

VARIABLES
  limit,             \* the length of the kernel's queue, one of Backlogs
  backlog,           \* clients connected and not yet accepted
  accepted,          \* the client of each connection, in the order of accept
  queue, hand, last, \* the work queue and the workers, as in ConnHandoff
  dropped

serverVars == <<limit, backlog, accepted, queue, hand, last, dropped>>
bothVars == <<vars, serverVars>>

Handoff == INSTANCE ConnHandoff

BothInit ==
  /\ Init /\ Handoff!HandoffInit
  /\ limit \in Backlogs /\ backlog = <<>> /\ accepted = <<>> /\ dropped = 0

Served(c) == \E w \in Workers : hand[w] # NoConn /\ accepted[hand[w]] = c

(* The server has closed c's connection. *)
Closed(c) ==
  \E k \in 1 .. last :
    accepted[k] = c /\ ~Contains(queue, k) /\ \A w \in Workers : hand[w] # k

Faults == createErrors + refused + dropped

-----------------------------------------------------------------------------
(* kvserver.c *)

(* accept; main's hand is free once it has passed on the last connection. *)
MainFree == Len(accepted) = last

Accept ==
  /\ backlog # <<>> /\ MainFree
  /\ accepted' = Append(accepted, Head(backlog))
  /\ backlog' = Tail(backlog)
  /\ UNCHANGED <<vars, limit, queue, hand, last, dropped>>

(* queue_enqueue, blocked while the queue is full. *)
Enqueue ==
  /\ ~MainFree /\ Handoff!Put
  /\ UNCHANGED <<vars, limit, backlog, accepted, dropped>>

Dequeue(w) ==
  /\ Handoff!Take(w)
  /\ UNCHANGED <<vars, limit, backlog, accepted, dropped>>

(* The session has ended with the client's QUIT, and the worker closes. *)
CloseConn(w) ==
  /\ hand[w] # NoConn /\ cpc[accepted[hand[w]]] = "done"
  /\ Handoff!Finish(w)
  /\ UNCHANGED <<vars, limit, backlog, accepted, dropped>>

(* handle_client cannot open its stream and returns before it reads. *)
DropConn(w) ==
  /\ hand[w] # NoConn /\ Tried(accepted[hand[w]]) = 0
  /\ Faults < MaxFaults
  /\ Handoff!Finish(w)
  /\ dropped' = dropped + 1
  /\ UNCHANGED <<vars, limit, backlog, accepted>>

-----------------------------------------------------------------------------
(* bench_client.c *)

(* connect returns when main is there to accept it or else the kernel has  *)
(* room for it; otherwise it blocks, and may time out, which is Refused.   *)
ConnectToServer(c) ==
  /\ Connect(c)
  /\ Len(backlog) < limit \/ (backlog = <<>> /\ MainFree)
  /\ backlog' = Append(backlog, c)
  /\ UNCHANGED <<limit, accepted, queue, hand, last, dropped>>

(* A request is answered by the worker that has the connection; it fails   *)
(* if that worker says so or the connection is closed.                     *)
OperateOnServer(c) ==
  /\ Operate(c)
  /\ Served(c) \/ (Closed(c) /\ UNCHANGED completed)
  /\ UNCHANGED serverVars

QuitServer(c) ==
  /\ Quit(c) /\ (Served(c) \/ Closed(c))
  /\ UNCHANGED serverVars

BenchMain == MainStep /\ UNCHANGED serverVars

BenchClient(c) ==
  \/ ConnectToServer(c) \/ OperateOnServer(c) \/ QuitServer(c)
  \/ (Arrive(c) \/ Woken(c)) /\ UNCHANGED serverVars

BenchFault ==
  /\ Faults < MaxFaults
  /\ CreateFails \/ \E c \in Clients : Refused(c)
  /\ UNCHANGED serverVars

Spurious == SpuriousWakeup /\ UNCHANGED serverVars

ServerMain == Accept \/ Enqueue
ServerWorker(w) == Dequeue(w) \/ CloseConn(w)

BothNext ==
  \/ BenchMain \/ BenchFault \/ Spurious \/ ServerMain
  \/ \E c \in Clients : BenchClient(c)
  \/ \E w \in Workers : ServerWorker(w) \/ DropConn(w)

(* Fairness as in BenchGate and WorkerPool. *)
BothSpec ==
  /\ BothInit /\ [][BothNext]_bothVars
  /\ WF_bothVars(BenchMain) /\ WF_bothVars(ServerMain)
  /\ \A c \in Clients : WF_bothVars(BenchClient(c))
  /\ \A w \in Workers : WF_bothVars(ServerWorker(w))
  /\ <>[][~Spurious]_bothVars

-----------------------------------------------------------------------------
(* Properties. *)

(* Where a connection can be whose client sends nothing: with a worker, in *)
(* the queue, in the hand of main (kvserver.c:207), in the backlog.        *)
Places == Cardinality(Workers) + Capacity + 1 + limit

(* The benchmark ends if all its clients fit into the server at once, and  *)
(* otherwise never does: connect (bench_client.c:129) blocks the last of   *)
(* them while the others hold every place and wait for it at the gate.     *)
(* (A connection that fails blocks it for ever, too, see Ends; a thread    *)
(* that cannot be created makes main give up, a connection that the server *)
(* drops leaves room for another.)  Whichever threads the      *)
(* broadcasts on the gate's one condition variable wake (lines 74-97)      *)
(* makes no difference.                                                    *)
EndsIfAllFit ==
  /\ NumClients <= Places => <>(mpc = "exit" \/ refused > 0)
  /\ NumClients > Places => [](mpc = "exit" => createErrors + dropped > 0)

=============================================================================
