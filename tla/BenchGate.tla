----------------------------- MODULE BenchGate -----------------------------
(***************************************************************************)
(* The benchmark client (bench_client.c): main creates the client threads, *)
(* each opens its connection and reports at the start gate, main releases  *)
(* them together, joins them and adds up their operations.                 *)
(*                                                                         *)
(* The gate is a monitor with one condition variable for main and clients. *)
(* What a thread does under the mutex reads only what the mutex protects,  *)
(* so each critical section, up to the wait or the unlock, is one step.    *)
(***************************************************************************)
EXTENDS Integers, FiniteSets, Functions

CONSTANTS NumClients,        \* num_clients
          Ops,               \* ops_per_client
          MaxCreateErrors,   \* bound: failures of pthread_create
          MaxRefused         \* bound: connections that cannot be opened

ASSUME BenchAssumption ==
  /\ NumClients \in Nat \ {0} /\ Ops \in Nat \ {0}
  /\ MaxCreateErrors \in Nat /\ MaxRefused \in Nat

Clients == 0 .. NumClients - 1
Main    == -1

VARIABLES ready_threads, start,   \* the gate; total_threads is Expected
          waiting,                \* threads in pthread_cond_wait, not yet woken
          created,                \* threads main has created
          createErrors, refused,
          mpc, cpc,               \* where main and each client are
          completed, failed,      \* completed_ops and failed_ops of each client
          total                   \* total_completed + total_failed, once printed

vars == <<ready_threads, start, waiting, created, createErrors, refused,
          mpc, cpc, completed, failed, total>>

Init ==
  /\ ready_threads = 0 /\ start = FALSE /\ waiting = {}
  /\ created = 0 /\ createErrors = 0 /\ refused = 0
  /\ mpc = "create"
  /\ cpc = [c \in Clients |-> "none"]
  /\ completed = [c \in Clients |-> 0] /\ failed = [c \in Clients |-> 0]
  /\ total = 0

-----------------------------------------------------------------------------
(* main *)

(* Main waits for every client it wanted to create. *)
AllReadyTooSoon == ready_threads + 1 >= NumClients
AllReady == ready_threads >= NumClients

CreateClient ==
  /\ mpc = "create" /\ created < NumClients
  /\ cpc' = [cpc EXCEPT ![created] = "connect"]
  /\ created' = created + 1
  /\ UNCHANGED <<ready_threads, start, waiting, createErrors, refused, mpc,
                 completed, failed, total>>

(* The clients created so far are released and joined, and main gives up.  *)
CreateFails ==
  /\ mpc = "create" /\ created < NumClients
  /\ createErrors < MaxCreateErrors
  /\ createErrors' = createErrors + 1
  /\ mpc' = "giveup"
  /\ UNCHANGED <<ready_threads, start, waiting, created, refused, cpc,
                 completed, failed, total>>

AllCreated ==
  /\ mpc = "create" /\ created = NumClients
  /\ mpc' = "gate"
  /\ UNCHANGED <<ready_threads, start, waiting, created, createErrors, refused,
                 cpc, completed, failed, total>>

(* start_gate_wait_until_ready: one test of its loop. *)
WaitUntilReady ==
  /\ mpc = "gate" /\ Main \notin waiting
  /\ \/ AllReady  /\ mpc' = "release" /\ UNCHANGED waiting
     \/ ~AllReady /\ waiting' = waiting \cup {Main} /\ UNCHANGED mpc
  /\ UNCHANGED <<ready_threads, start, created, createErrors, refused, cpc,
                 completed, failed, total>>

(* start_gate_release, on either path. *)
Release ==
  /\ mpc \in {"release", "giveup"}
  /\ start' = TRUE
  /\ waiting' = {}
  /\ mpc' = IF mpc = "release" THEN "join" ELSE "abandon"
  /\ UNCHANGED <<ready_threads, created, createErrors, refused, cpc, completed,
                 failed, total>>

Joined == \A c \in 0 .. created - 1 : cpc[c] = "done"

Report ==
  /\ mpc = "join" /\ Joined
  /\ total' = SumFunction(completed) + SumFunction(failed)
  /\ mpc' = "exit"
  /\ UNCHANGED <<ready_threads, start, waiting, created, createErrors, refused,
                 cpc, completed, failed>>

Abandon ==
  /\ mpc = "abandon" /\ Joined
  /\ mpc' = "exit"
  /\ UNCHANGED <<ready_threads, start, waiting, created, createErrors, refused,
                 cpc, completed, failed, total>>

-----------------------------------------------------------------------------
(* worker_main of client c *)

Connect(c) ==
  /\ cpc[c] = "connect"
  /\ cpc' = [cpc EXCEPT ![c] = "arrive"]
  /\ UNCHANGED <<ready_threads, start, waiting, created, createErrors, refused,
                 mpc, completed, failed, total>>

(* No connection: all its operations count as failed and the thread        *)
(* returns without reporting at the gate.                                  *)
Refused(c) ==
  /\ cpc[c] = "connect"
  /\ refused < MaxRefused
  /\ refused' = refused + 1
  /\ failed' = [failed EXCEPT ![c] = Ops]
  /\ cpc' = [cpc EXCEPT ![c] = "done"]
  /\ UNCHANGED <<ready_threads, start, waiting, created, createErrors, mpc,
                 completed, total>>

(* Who still waits after a client has announced itself. *)
AnnounceToOne == IF waiting = {} THEN {{}} ELSE {waiting \ {t} : t \in waiting}
AnnounceToAll == {{}}

(* start_gate_worker_ready up to its first test of start. *)
Arrive(c) ==
  /\ cpc[c] = "arrive"
  /\ ready_threads' = ready_threads + 1
  /\ \E left \in AnnounceToAll : waiting' = IF start THEN left ELSE left \cup {c}
  /\ cpc' = [cpc EXCEPT ![c] = IF start THEN "run" ELSE "gate"]
  /\ UNCHANGED <<start, created, createErrors, refused, mpc, completed, failed, total>>

(* One more test of start after the wait. *)
Woken(c) ==
  /\ cpc[c] = "gate" /\ c \notin waiting
  /\ \/ start  /\ cpc' = [cpc EXCEPT ![c] = "run"] /\ UNCHANGED waiting
     \/ ~start /\ waiting' = waiting \cup {c} /\ UNCHANGED cpc
  /\ UNCHANGED <<ready_threads, start, created, createErrors, refused, mpc,
                 completed, failed, total>>

TriedAnswered(c) == completed[c]
Tried(c) == completed[c] + failed[c]

(* One GET or PUT: answered as expected, or not. *)
OperateUncounted(c) ==
  /\ cpc[c] = "run" /\ Tried(c) < Ops
  /\ \/ completed' = [completed EXCEPT ![c] = @ + 1] /\ UNCHANGED <<failed, cpc>>
     \/ cpc' = [cpc EXCEPT ![c] = "done"] /\ UNCHANGED <<completed, failed>>
  /\ UNCHANGED <<ready_threads, start, waiting, created, createErrors, refused,
                 mpc, total>>
Operate(c) ==
  /\ cpc[c] = "run" /\ Tried(c) < Ops
  /\ \/ completed' = [completed EXCEPT ![c] = @ + 1] /\ UNCHANGED failed
     \/ failed' = [failed EXCEPT ![c] = @ + 1] /\ UNCHANGED completed
  /\ UNCHANGED <<ready_threads, start, waiting, created, createErrors, refused,
                 mpc, cpc, total>>

Quit(c) ==
  /\ cpc[c] = "run" /\ Tried(c) = Ops
  /\ cpc' = [cpc EXCEPT ![c] = "done"]
  /\ UNCHANGED <<ready_threads, start, waiting, created, createErrors, refused,
                 mpc, completed, failed, total>>

SpuriousWakeup ==
  /\ \E t \in waiting : waiting' = waiting \ {t}
  /\ UNCHANGED <<ready_threads, start, created, createErrors, refused, mpc, cpc,
                 completed, failed, total>>

-----------------------------------------------------------------------------
MainStep == CreateClient \/ AllCreated \/ WaitUntilReady \/ Release \/ Report \/ Abandon

ClientStep(c) == Connect(c) \/ Arrive(c) \/ Woken(c) \/ Operate(c) \/ Quit(c)

Next ==
  \/ MainStep \/ CreateFails
  \/ \E c \in Clients : ClientStep(c) \/ Refused(c)
  \/ SpuriousWakeup

Spec == Init /\ [][Next]_vars

(* Every thread is scheduled, the server answers or hangs up in the end,   *)
(* and spurious wakeups do not go on for ever.                             *)
FairSpec ==
  /\ Spec
  /\ WF_vars(MainStep)
  /\ \A c \in Clients : WF_vars(ClientStep(c))
  /\ <>[][~SpuriousWakeup]_vars

-----------------------------------------------------------------------------
(* Properties. *)

(* The clients that are past the gate's count: those that have reported,   *)
(* and those that were refused and never will.                             *)
Past == {c \in Clients : cpc[c] \in {"gate", "run", "done"}}
ArrivalsCounted == ready_threads + refused = Cardinality(Past)

(* Every variable has its type, and ready_threads is the number of the     *)
(* clients that have reported at the gate (bench_client.c:74-82), each     *)
(* once and none that was refused.                                         *)
TypeOK ==
  /\ ArrivalsCounted
  /\ ready_threads \in 0 .. NumClients /\ created \in 0 .. NumClients
  /\ start \in BOOLEAN /\ waiting \in SUBSET (Clients \cup {Main})
  /\ createErrors \in 0 .. MaxCreateErrors /\ refused \in 0 .. MaxRefused
  /\ mpc \in {"create", "gate", "release", "join", "giveup", "abandon", "exit"}
  /\ cpc \in [Clients -> {"none", "connect", "arrive", "gate", "run", "done"}]
  /\ completed \in [Clients -> 0 .. Ops] /\ failed \in [Clients -> 0 .. Ops]
  /\ total \in 0 .. NumClients * Ops

(* No client issues an operation before all have their connection: the     *)
(* measured time (bench_client.c:352-361) covers every operation, unless   *)
(* main gave up and prints nothing.                                        *)
StartTogether ==
  (\E c \in Clients : cpc[c] = "run") =>
    \/ createErrors > 0
    \/ \A c \in Clients : cpc[c] \in {"gate", "run", "done"}

(* What is printed accounts for every operation of every client, failed    *)
(* ones included (bench_client.c:356-369).                                 *)
OpsAccounted == mpc = "exit" => total = NumClients * Ops \/ createErrors > 0

(* "The benchmark client prints total completed operations, failed         *)
(* operations, wall-clock time, and throughput" (README.md:55): it ends,   *)
(* and reports a client that could not connect by its failed operations,   *)
(* as bench_client.c:232 counts them.                                      *)
Ends == <>(mpc = "exit")

=============================================================================
