----------------------------- MODULE BenchProofs -----------------------------
(***************************************************************************)
(* Theorems about the benchmark, for any number of clients, operations,    *)
(* workers and places: first the client program alone (BenchGate), with    *)
(* any server that answers or hangs up; then the client program with the   *)
(* server it connects to (BenchServer).                                    *)
(***************************************************************************)
EXTENDS BenchServer, SetInduction, SequenceTheorems

-----------------------------------------------------------------------------
(* The gate. *)

(* Main has seen all clients, or has given up, before it opens the gate.   *)
Opened ==
  /\ ArrivalsCounted
  /\ mpc = "release" => ready_threads >= NumClients
  /\ mpc \in {"giveup", "abandon"} => createErrors > 0
  /\ start => createErrors > 0 \/ ready_threads >= NumClients
  /\ \A c \in Clients : cpc[c] = "run" => start

(* What each client has counted, and what main makes of it. *)
Accounts ==
  /\ \A c \in Clients : c >= created => cpc[c] = "none"
  /\ mpc \in {"gate", "release", "join"} => created = NumClients
  /\ \A c \in Clients :
       /\ cpc[c] \in {"none", "connect", "arrive", "gate"} => Tried(c) = 0
       /\ cpc[c] = "run" => Tried(c) <= Ops
       /\ cpc[c] = "done" => Tried(c) = Ops
  /\ OpsAccounted

GateInv == TypeOK /\ Opened /\ Accounts

LEMMA ClientsFinite ==
  /\ IsFiniteSet(Clients) /\ Cardinality(Clients) = NumClients
  /\ NumClients \in Nat \ {0} /\ Ops \in Nat \ {0} /\ NumClients * Ops \in Nat
<1>1. NumClients \in Nat \ {0} /\ Ops \in Nat \ {0}
  BY BenchAssumption
<1>2. NumClients * Ops \in Nat
  BY <1>1
<1>3. IsFiniteSet(0 .. NumClients - 1) /\ Cardinality(0 .. NumClients - 1) = NumClients
  <2>1. \A m \in Int : IsFiniteSet(0 .. m) /\ Cardinality(0 .. m) = IF 0 > m THEN 0 ELSE m - 0 + 1
    BY FS_Interval
  <2>2. NumClients - 1 \in Int /\ ~(0 > NumClients - 1)
    BY <1>1
  <2> QED
    BY <1>1, <2>1, <2>2
<1> QED
  BY <1>1, <1>2, <1>3 DEF Clients

LEMMA PastFinite ==
  /\ IsFiniteSet(Past)  /\ Cardinality(Past) \in Nat  /\ Cardinality(Past) <= NumClients
  /\ Cardinality(Past) = NumClients => Past = Clients
<1>1. Past \in SUBSET Clients
  BY DEF Past
<1> QED
  BY <1>1, ClientsFinite, FS_Subset, FS_CardinalityType

LEMMA PastFiniteNext ==
  /\ IsFiniteSet(Past')  /\ Cardinality(Past') \in Nat  /\ Cardinality(Past') <= NumClients
<1>1. Past' \in SUBSET Clients
  BY DEF Past
<1> QED
  BY <1>1, ClientsFinite, FS_Subset, FS_CardinalityType

LEMMA GateInit == Init => GateInv
<1> SUFFICES ASSUME Init PROVE GateInv
  OBVIOUS
<1>0. ArrivalsCounted
  <2>1. Past = {}
    BY DEF Init, Past
  <2> QED
    BY <2>1, FS_EmptySet DEF Init, ArrivalsCounted
<1>1. TypeOK
  <2>1. 0 \in 0 .. NumClients /\ 0 \in 0 .. NumClients * Ops /\ 0 \in 0 .. Ops
    BY ClientsFinite
  <2>2. completed \in [Clients -> 0 .. Ops] /\ failed \in [Clients -> 0 .. Ops]
    BY <2>1 DEF Init
  <2>3. ready_threads \in 0 .. NumClients /\ created \in 0 .. NumClients /\ total \in 0 .. NumClients * Ops
    BY <2>1, Zenon DEF Init
  <2>4. createErrors \in 0 .. MaxCreateErrors /\ refused \in 0 .. MaxRefused
    BY BenchAssumption DEF Init
  <2> QED
    BY <1>0, <2>2, <2>3, <2>4 DEF Init, TypeOK
<1>2. Opened
  BY <1>0, BenchAssumption DEF Init, Opened
<1>3. Accounts
  BY DEF Init, Accounts, Tried, OpsAccounted
<1> QED
  BY <1>1, <1>2, <1>3 DEF GateInv

(* Types. *)
LEMMA GateTypeStep == GateInv /\ Opened' /\ [Next]_vars => TypeOK'
<1> SUFFICES ASSUME TypeOK, Opened, Accounts, Opened', [Next]_vars PROVE TypeOK'
  BY DEF GateInv
<1>0. ArrivalsCounted'
  BY DEF Opened
<1> USE <1>0, BenchAssumption, ClientsFinite DEF TypeOK
<1>1. CASE MainStep \/ CreateFails
  <2>1. CASE CreateClient
    BY <2>1 DEF CreateClient, Clients
  <2>2. CASE AllCreated
    BY <2>2 DEF AllCreated
  <2>3. CASE WaitUntilReady
    BY <2>3 DEF WaitUntilReady
  <2>4. CASE Release
    BY <2>4 DEF Release
  <2>5. CASE Report
    <3>1. SumFunction(completed) + SumFunction(failed) = NumClients * Ops
      <4>1. \A c \in Clients : completed[c] + failed[c] = Ops
        BY <2>5 DEF Report, Joined, Accounts, Tried, Clients
      <4>2. Ops \in Nat /\ completed \in [Clients -> 0 .. Ops] /\ failed \in [Clients -> 0 .. Ops]
        OBVIOUS
      <4> QED
        BY <4>1, <4>2, SumsAddUp
    <3> QED
      BY <2>5, <3>1 DEF Report
  <2>6. CASE Abandon
    BY <2>6 DEF Abandon
  <2>7. CASE CreateFails
    BY <2>7 DEF CreateFails
  <2> QED
    BY <1>1, <2>1, <2>2, <2>3, <2>4, <2>5, <2>6, <2>7 DEF MainStep
<1>2. ASSUME NEW c \in Clients, ClientStep(c) \/ Refused(c) PROVE TypeOK'
  <2>1. CASE Connect(c)
    BY <2>1 DEF Connect
  <2>2. CASE Arrive(c)
    <3>1. ready_threads' \in 0 .. NumClients
      BY <2>2, PastFiniteNext DEF Arrive, ArrivalsCounted
    <3> QED
      BY <2>2, <3>1 DEF Arrive, AnnounceToAll
  <2>3. CASE Woken(c)
    BY <2>3 DEF Woken
  <2>4. CASE Operate(c)
    <3>1. completed[c] + 1 \in 0 .. Ops /\ failed[c] + 1 \in 0 .. Ops
      BY <2>4 DEF Operate, Tried
    <3> QED
      BY <2>4, <3>1 DEF Operate
  <2>5. CASE Quit(c)
    BY <2>5 DEF Quit
  <2>6. CASE Refused(c)
    BY <2>6 DEF Refused
  <2> QED
    BY <1>2, <2>1, <2>2, <2>3, <2>4, <2>5, <2>6 DEF ClientStep
<1>3. CASE SpuriousWakeup
  BY <1>3 DEF SpuriousWakeup
<1>4. CASE UNCHANGED vars
  BY <1>4 DEF vars
<1> QED
  BY <1>1, <1>2, <1>3, <1>4 DEF Next

LEMMA OpenedStep == GateInv /\ [Next]_vars => Opened'
<1> SUFFICES ASSUME TypeOK, Opened, Accounts, [Next]_vars PROVE Opened'
  BY DEF GateInv
<1>0. /\ cpc \in [Clients -> {"none", "connect", "arrive", "gate", "run", "done"}]
      /\ ready_threads \in Nat /\ refused \in Nat /\ NumClients \in Nat /\ createErrors \in Nat
      /\ created \in 0 .. NumClients /\ ready_threads + refused = Cardinality(Past)
  BY BenchAssumption DEF TypeOK, ArrivalsCounted
<1>1. CASE MainStep \/ CreateFails \/ SpuriousWakeup \/ UNCHANGED vars
  <2>0. created < NumClients => cpc[created] = "none"
    BY <1>0 DEF Accounts, Clients
  <2>1. Past' = Past /\ ready_threads' = ready_threads /\ refused' = refused
    BY <1>0, <1>1, <2>0 DEF MainStep, CreateClient, AllCreated, WaitUntilReady, Release, Report, Abandon,
       CreateFails, SpuriousWakeup, vars, Past, Clients
  <2>2. ArrivalsCounted'
    BY <1>0, <2>1 DEF ArrivalsCounted
  <2>3. \A c \in Clients : cpc'[c] = "run" => cpc[c] = "run"
    BY <1>0, <1>1 DEF MainStep, CreateClient, AllCreated, WaitUntilReady, Release, Report, Abandon,
       CreateFails, SpuriousWakeup, vars, Clients
  <2> QED
    BY <1>0, <1>1, <2>1, <2>2, <2>3 DEF Opened, MainStep, CreateClient, AllCreated, WaitUntilReady,
       AllReady, Release, Report, Abandon, CreateFails, SpuriousWakeup, vars
(* A client enters Past when it reports, or when it is refused.            *)
<1>2. ASSUME NEW c \in Clients, Arrive(c) \/ Refused(c) PROVE Opened'
  <2>1. Past' = Past \cup {c} /\ c \notin Past
    BY <1>0, <1>2 DEF Arrive, Refused, Past
  <2>2. Cardinality(Past') = Cardinality(Past) + 1
    BY <2>1, PastFinite, FS_AddElement
  <2>3. ready_threads' + refused' = ready_threads + refused + 1 /\ ready_threads' >= ready_threads
    BY <1>0, <1>2 DEF Arrive, Refused
  <2>4. ArrivalsCounted'
    BY <1>0, <2>2, <2>3 DEF ArrivalsCounted
  <2>5. \A d \in Clients : cpc'[d] = "run" => start
    BY <1>0, <1>2 DEF Arrive, Refused, Opened
  <2>6. UNCHANGED <<mpc, start, createErrors>> /\ ready_threads' \in Nat
    BY <1>0, <1>2 DEF Arrive, Refused
  <2> QED
    BY <1>0, <2>3, <2>4, <2>5, <2>6 DEF Opened
<1>3. ASSUME NEW c \in Clients, Connect(c) \/ Woken(c) \/ Operate(c) \/ Quit(c) PROVE Opened'
  <2>1. Past' = Past
    BY <1>0, <1>3 DEF Connect, Woken, Operate, Quit, Past
  <2>2. \A d \in Clients : cpc'[d] = "run" => start
    BY <1>0, <1>3 DEF Connect, Woken, Operate, Quit, Opened
  <2>3. UNCHANGED <<mpc, start, createErrors, ready_threads, refused>>
    BY <1>3 DEF Connect, Woken, Operate, Quit
  <2>4. ArrivalsCounted'
    BY <1>0, <2>1, <2>3 DEF ArrivalsCounted
  <2> QED
    BY <1>0, <2>2, <2>3, <2>4 DEF Opened
<1> QED
  BY <1>1, <1>2, <1>3 DEF Next, ClientStep

LEMMA AccountsStep == GateInv /\ [Next]_vars => Accounts'
<1> SUFFICES ASSUME TypeOK, Opened, Accounts, [Next]_vars PROVE Accounts'
  BY DEF GateInv
<1>0. /\ cpc \in [Clients -> {"none", "connect", "arrive", "gate", "run", "done"}]
      /\ completed \in [Clients -> 0 .. Ops] /\ failed \in [Clients -> 0 .. Ops]
      /\ created \in 0 .. NumClients /\ NumClients \in Nat \ {0} /\ Ops \in Nat \ {0}
      /\ createErrors \in Nat
  BY BenchAssumption DEF TypeOK
<1> USE DEF Accounts, Tried, OpsAccounted
<1>1. CASE MainStep \/ CreateFails
  <2>1. CASE CreateClient
    BY <1>0, <2>1 DEF CreateClient, Clients
  <2>2. CASE AllCreated
    BY <1>0, <2>2 DEF AllCreated
  <2>3. CASE WaitUntilReady
    BY <2>3 DEF WaitUntilReady
  <2>4. CASE Release
    BY <2>4 DEF Release
  <2>5. CASE Report
    <3>1. SumFunction(completed) + SumFunction(failed) = NumClients * Ops
      <4>1. \A c \in Clients : completed[c] + failed[c] = Ops
        BY <2>5 DEF Report, Joined, Clients
      <4>2. Ops \in Nat
        BY <1>0
      <4> QED
        BY <1>0, <4>1, <4>2, SumsAddUp, ClientsFinite
    <3> QED
      BY <2>5, <3>1 DEF Report
  <2>6. CASE Abandon
    BY <2>6 DEF Abandon, Opened
  <2>7. CASE CreateFails
    BY <2>7 DEF CreateFails
  <2> QED
    BY <1>1, <2>1, <2>2, <2>3, <2>4, <2>5, <2>6, <2>7 DEF MainStep
<1>2. ASSUME NEW c \in Clients, ClientStep(c) \/ Refused(c) PROVE Accounts'
  <2>1. CASE Connect(c) \/ Arrive(c) \/ Woken(c) \/ Quit(c)
    BY <1>0, <2>1 DEF Connect, Arrive, Woken, Quit
  <2>2. CASE Operate(c)
    BY <1>0, <2>2 DEF Operate
  <2>3. CASE Refused(c)
    <3>1. completed[c] = 0
      BY <1>0, <2>3 DEF Refused
    <3> QED
      BY <1>0, <2>3, <3>1 DEF Refused
  <2> QED
    BY <1>2, <2>1, <2>2, <2>3 DEF ClientStep
<1>3. CASE SpuriousWakeup
  BY <1>3 DEF SpuriousWakeup
<1>4. CASE UNCHANGED vars
  BY <1>4 DEF vars
<1> QED
  BY <1>1, <1>2, <1>3, <1>4 DEF Next

LEMMA GateInvariant == Spec => []GateInv
<1>1. GateInv /\ [Next]_vars => GateInv'
  BY OpenedStep, GateTypeStep, AccountsStep DEF GateInv
<1> QED
  BY <1>1, GateInit, PTL DEF Spec

(* Every variable of the benchmark keeps its type, ready_threads is the    *)
(* number of the clients that have reported at the gate, and no client     *)
(* counts more than its operations (bench_client.c:74-82, 232-267).        *)
THEOREM BenchTypeCorrect == Spec => []TypeOK
BY GateInvariant, PTL DEF GateInv

(* The gate works: no client operates while another one that was created   *)
(* still connects or has not arrived, unless main gave up (lines 60-105,   *)
(* 352-361).                                                               *)
THEOREM GateStartsTogether == Spec => []StartTogether
<1>1. GateInv => StartTogether
  <2> SUFFICES ASSUME GateInv, NEW c \in Clients, cpc[c] = "run", ~(createErrors > 0)
               PROVE  \A d \in Clients : cpc[d] \in {"gate", "run", "done"}
    BY DEF StartTogether
  <2>1. ready_threads >= NumClients /\ ready_threads <= Cardinality(Past)
        /\ ready_threads \in Nat
    BY BenchAssumption, PastFinite DEF GateInv, TypeOK, Opened, ArrivalsCounted
  <2>2. Past = Clients
    BY <2>1, PastFinite, ClientsFinite
  <2> QED
    BY <2>2 DEF Past
<1> QED
  BY <1>1, GateInvariant, PTL

(* The totals printed account for every operation of every client, also of *)
(* those that never got a connection (lines 228-236, 356-369).             *)
THEOREM TotalsAddUp == Spec => []OpsAccounted
BY GateInvariant, PTL DEF GateInv, Accounts

-----------------------------------------------------------------------------
(* The benchmark with its server takes only steps of the client program,   *)
(* so all of the above holds of it too.                                    *)
THEOREM BenchUsesGate == BothSpec => Spec
<1>1. BothInit => Init
  BY DEF BothInit
<1>2. [BothNext]_bothVars => [Next]_vars
  BY DEF BothNext, bothVars, BenchMain, BenchFault, Spurious, ServerMain, Accept, Enqueue,
     BenchClient, ConnectToServer, OperateOnServer, QuitServer, ServerWorker, Dequeue, CloseConn,
     DropConn, Next, ClientStep
<1> QED
  BY <1>1, <1>2, PTL DEF BothSpec, Spec

-----------------------------------------------------------------------------
(* The places of the server. *)

AtGate  == {c \in Clients : cpc[c] = "gate"}
Arrived == {c \in Clients : cpc[c] \in {"arrive", "gate"}}

(* Connections that wait for the server's main, or in its hand, number at  *)
(* most one more than the backlog the kernel keeps.                        *)
ServerTypes ==
  /\ limit \in Nat /\ dropped \in Nat /\ last \in Nat
  /\ backlog \in Seq(Clients) /\ accepted \in Seq(Clients)
  /\ Len(accepted) \in {last, last + 1}
  /\ Len(backlog) + (Len(accepted) - last) <= limit + 1
  /\ queue \in Seq(1 .. last) /\ Len(queue) <= Capacity
  /\ hand \in [Workers -> (1 .. last) \cup {NoConn}]

(* Connection k has not been closed. *)
Open(k) ==
  \/ k = last + 1
  \/ \E i \in 1 .. Len(queue) : queue[i] = k
  \/ \E w \in Workers : hand[w] = k

Placed(c) ==
  \/ \E i \in 1 .. Len(backlog) : backlog[i] = c
  \/ \E k \in 1 .. Len(accepted) : accepted[k] = c /\ Open(k)

(* Until the gate opens every client that has connected keeps its place.   *)
Blocked ==
  NumClients > Places /\ createErrors + dropped = 0 =>
    /\ ~start /\ mpc \in {"create", "gate"}
    /\ ready_threads <= Cardinality(AtGate)
    /\ \A c \in Clients : cpc[c] # "run"
    /\ \A c \in Arrived : Placed(c)
    /\ \A i \in 1 .. Len(backlog) : backlog[i] \in Arrived
    /\ \A k \in 1 .. Len(accepted) : accepted[k] \in Arrived

LEMMA ServerTypesStep == TypeOK /\ ServerTypes /\ [BothNext]_bothVars => ServerTypes'
<1> SUFFICES ASSUME TypeOK, ServerTypes, [BothNext]_bothVars PROVE ServerTypes'
  OBVIOUS
<1> USE ServerAssumption
<1>1. ASSUME UNCHANGED serverVars PROVE ServerTypes'
  BY <1>1 DEF ServerTypes, serverVars
<1>2. CASE Accept
  <2>1. /\ accepted' = Append(accepted, Head(backlog)) /\ backlog' = Tail(backlog)
        /\ backlog # <<>> /\ Len(accepted) = last
        /\ UNCHANGED <<limit, dropped, last, queue, hand>>
    BY <1>2 DEF Accept, MainFree
  <2>2. /\ Head(backlog) \in Clients /\ Tail(backlog) \in Seq(Clients)
        /\ Len(Tail(backlog)) = Len(backlog) - 1
    BY <2>1, HeadTailProperties DEF ServerTypes
  <2>3. accepted' \in Seq(Clients) /\ Len(accepted') = Len(accepted) + 1
    BY <2>1, <2>2 DEF ServerTypes
  <2>4. Len(backlog) \in Nat /\ Len(accepted) \in Nat
    BY DEF ServerTypes
  <2> QED
    BY <2>1, <2>2, <2>3, <2>4 DEF ServerTypes
<1>3. CASE Enqueue
  <2>1. /\ Len(queue) < Capacity /\ last' = last + 1 /\ queue' = Append(queue, last + 1)
        /\ Len(accepted) = last + 1
        /\ UNCHANGED <<limit, dropped, backlog, accepted, hand>>
    BY <1>3 DEF Enqueue, MainFree, Handoff!Put, ServerTypes
  <2>2. queue \in Seq(1 .. last') /\ last' \in 1 .. last'
    <3>1. 1 .. last \subseteq 1 .. last' /\ last' \in 1 .. last'
      BY <2>1 DEF ServerTypes
    <3> QED
      BY <3>1, SeqMonotonic DEF ServerTypes
  <2>3. queue' \in Seq(1 .. last') /\ Len(queue') = Len(queue) + 1 /\ Len(queue) \in Nat
    BY <2>1, <2>2
  <2>4. hand' \in [Workers -> (1 .. last') \cup {NoConn}]
    BY <2>1 DEF ServerTypes
  <2>5. Len(backlog) \in Nat /\ Len(accepted) \in Nat
    BY DEF ServerTypes
  <2> QED
    BY <2>1, <2>3, <2>4, <2>5 DEF ServerTypes
<1>4. ASSUME NEW w \in Workers, Dequeue(w) PROVE ServerTypes'
  <2>1. /\ hand' = [hand EXCEPT ![w] = Head(queue)] /\ queue' = Tail(queue) /\ queue # <<>>
        /\ UNCHANGED <<limit, dropped, backlog, accepted, last>>
    BY <1>4 DEF Dequeue, Handoff!Take
  <2>2. /\ Head(queue) \in 1 .. last /\ Tail(queue) \in Seq(1 .. last)
        /\ Len(Tail(queue)) = Len(queue) - 1 /\ Len(queue) \in Nat
    BY <2>1, HeadTailProperties DEF ServerTypes
  <2> QED
    BY <2>1, <2>2 DEF ServerTypes
<1>5. ASSUME NEW w \in Workers, CloseConn(w) \/ DropConn(w) PROVE ServerTypes'
  <2>1. /\ hand' = [hand EXCEPT ![w] = NoConn] /\ dropped' \in Nat
        /\ UNCHANGED <<limit, backlog, accepted, last, queue>>
    BY <1>5 DEF CloseConn, DropConn, Handoff!Finish, ServerTypes
  <2> QED
    BY <2>1 DEF ServerTypes
<1>6. ASSUME NEW c \in Clients, ConnectToServer(c) PROVE ServerTypes'
  <2>1. /\ backlog' = Append(backlog, c)
        /\ Len(backlog) < limit \/ (backlog = <<>> /\ Len(accepted) = last)
        /\ UNCHANGED <<limit, dropped, accepted, last, queue, hand>>
    BY <1>6 DEF ConnectToServer, MainFree
  <2>2. /\ backlog' \in Seq(Clients) /\ Len(backlog') = Len(backlog) + 1
        /\ Len(backlog) \in Nat /\ Len(accepted) \in Nat /\ (backlog = <<>> => Len(backlog) = 0)
    BY <2>1 DEF ServerTypes
  <2> QED
    BY <2>1, <2>2 DEF ServerTypes
<1> QED
  BY <1>1, <1>2, <1>3, <1>4, <1>5, <1>6 DEF BothNext, bothVars, BenchMain, BenchFault, Spurious,
     ServerMain, BenchClient, OperateOnServer, QuitServer, ServerWorker

(* All the places together. *)
LEMMA PlacesSuffice ==
  ASSUME ServerTypes, \A c \in Clients : Placed(c)
  PROVE  NumClients <= Places
<1> DEFINE InBacklog == {backlog[i] : i \in 1 .. Len(backlog)}
           Position  == [i \in 1 .. Len(queue) |-> accepted[queue[i]]]
           InQueue   == {Position[i] : i \in 1 .. Len(queue)}
           Serving   == [w \in Workers |-> accepted[hand[w]]]
           InHand    == {Serving[w] : w \in Workers}
           AtMain    == IF Len(accepted) = last + 1 THEN {accepted[last + 1]} ELSE {}
<1>1. Len(backlog) \in Nat /\ Len(queue) \in Nat /\ Len(accepted) \in Nat
      /\ last \in Nat /\ limit \in Nat /\ Capacity \in Nat
  BY ServerAssumption DEF ServerTypes
<1>2. Clients \subseteq ((InBacklog \cup InQueue) \cup InHand) \cup AtMain
  <2> SUFFICES ASSUME NEW c \in Clients
               PROVE  c \in ((InBacklog \cup InQueue) \cup InHand) \cup AtMain
    OBVIOUS
  <2>1. CASE \E i \in 1 .. Len(backlog) : backlog[i] = c
    BY <2>1
  <2>2. ASSUME NEW k \in 1 .. Len(accepted), accepted[k] = c, k = last + 1
        PROVE  c \in AtMain
    BY <1>1, <2>2 DEF ServerTypes
  <2>3. ASSUME NEW i \in 1 .. Len(queue), accepted[queue[i]] = c
        PROVE  c \in InQueue
    BY <2>3
  <2>4. ASSUME NEW w \in Workers, accepted[hand[w]] = c
        PROVE  c \in InHand
    BY <2>4
  <2> HIDE DEF InBacklog, InQueue, InHand, AtMain
  <2> QED
    BY <2>1, <2>2, <2>3, <2>4 DEF Placed, Open
<1>3. IsFiniteSet(InBacklog) /\ Cardinality(InBacklog) <= Len(backlog)
  <2>1. \A m \in Nat : IsFiniteSet(1 .. m) /\ Cardinality(1 .. m) = m
    BY FS_Interval
  <2>2. IsFiniteSet(1 .. Len(backlog)) /\ Cardinality(1 .. Len(backlog)) = Len(backlog)
    BY <1>1, <2>1, Zenon
  <2>3. /\ IsFiniteSet({backlog[i] : i \in 1 .. Len(backlog)})
        /\ Cardinality({backlog[i] : i \in 1 .. Len(backlog)}) <= Cardinality(1 .. Len(backlog))
    BY <2>2, ImageSmall
  <2> QED
    BY <2>2, <2>3
<1>4. IsFiniteSet(InQueue) /\ Cardinality(InQueue) <= Len(queue)
  <2>1. \A m \in Nat : IsFiniteSet(1 .. m) /\ Cardinality(1 .. m) = m
    BY FS_Interval
  <2>2. IsFiniteSet(1 .. Len(queue)) /\ Cardinality(1 .. Len(queue)) = Len(queue)
    BY <1>1, <2>1, Zenon
  <2> HIDE DEF Position
  <2>3. /\ IsFiniteSet({Position[i] : i \in 1 .. Len(queue)})
        /\ Cardinality({Position[i] : i \in 1 .. Len(queue)}) <= Cardinality(1 .. Len(queue))
    BY <2>2, ImageSmall
  <2> QED
    BY <2>2, <2>3
<1>5. IsFiniteSet(InHand) /\ Cardinality(InHand) <= Cardinality(Workers) /\ Cardinality(Workers) \in Nat
  <2> HIDE DEF Serving
  <2> QED
    BY ServerAssumption, ImageSmall, FS_CardinalityType
<1>6. IsFiniteSet(AtMain) /\ Cardinality(AtMain) <= Len(accepted) - last
  <2>1. CASE Len(accepted) = last + 1
    <3>1. IsFiniteSet(AtMain) /\ Cardinality(AtMain) = 1
      BY <2>1, FS_Singleton
    <3> QED
      BY <1>1, <2>1, <3>1
  <2>2. CASE Len(accepted) = last
    <3>1. IsFiniteSet(AtMain) /\ Cardinality(AtMain) = 0
      BY <1>1, <2>2, FS_EmptySet
    <3> QED
      BY <1>1, <2>2, <3>1
  <2> QED
    BY <2>1, <2>2 DEF ServerTypes
<1>7. Len(accepted) - last \in Nat /\ Len(backlog) + (Len(accepted) - last) <= limit + 1
      /\ Len(queue) <= Capacity
  BY <1>1 DEF ServerTypes
<1> HIDE DEF InBacklog, InQueue, InHand, AtMain
<1>8. IsFiniteSet(InBacklog \cup InQueue) /\ Cardinality(InBacklog \cup InQueue) <= Len(backlog) + Len(queue)
  BY <1>1, <1>3, <1>4, UnionSmall
<1>9. /\ IsFiniteSet((InBacklog \cup InQueue) \cup InHand)
      /\ Cardinality((InBacklog \cup InQueue) \cup InHand) <= (Len(backlog) + Len(queue)) + Cardinality(Workers)
  <2>1. Len(backlog) + Len(queue) \in Nat
    BY <1>1
  <2> QED
    BY <2>1, <1>5, <1>8, UnionSmall
<1>10. /\ IsFiniteSet(((InBacklog \cup InQueue) \cup InHand) \cup AtMain)
       /\ Cardinality(((InBacklog \cup InQueue) \cup InHand) \cup AtMain)
            <= ((Len(backlog) + Len(queue)) + Cardinality(Workers)) + (Len(accepted) - last)
  <2>1. (Len(backlog) + Len(queue)) + Cardinality(Workers) \in Nat
    BY <1>1, <1>5
  <2> QED
    BY <2>1, <1>6, <1>7, <1>9, UnionSmall
<1>11. NumClients <= Cardinality(((InBacklog \cup InQueue) \cup InHand) \cup AtMain)
       /\ Cardinality(((InBacklog \cup InQueue) \cup InHand) \cup AtMain) \in Nat
  BY <1>2, <1>10, ClientsFinite, FS_Subset, FS_CardinalityType
<1>12. NumClients <= ((Len(backlog) + Len(queue)) + Cardinality(Workers)) + (Len(accepted) - last)
  <2>1. /\ NumClients \in Nat
        /\ ((Len(backlog) + Len(queue)) + Cardinality(Workers)) + (Len(accepted) - last) \in Int
    BY <1>1, <1>5, ClientsFinite
  <2> QED
    BY <1>10, <1>11, <2>1
<1>13. /\ NumClients \in Int /\ Len(backlog) \in Int /\ Len(queue) \in Int /\ Len(accepted) - last \in Int
       /\ Cardinality(Workers) \in Int /\ Capacity \in Int /\ limit \in Int
  BY <1>1, <1>5, <1>7, ClientsFinite
<1> QED
  BY <1>7, <1>12, <1>13 DEF Places

LEMMA AtGateFinite ==
  /\ IsFiniteSet(AtGate) /\ Cardinality(AtGate) \in Nat
  /\ NumClients <= Cardinality(AtGate) => AtGate = Clients
<1>1. AtGate \in SUBSET Clients
  BY DEF AtGate
<1> QED
  BY <1>1, ClientsFinite, FS_Subset, FS_CardinalityType

LEMMA BlockedStep ==
  GateInv /\ ServerTypes /\ Blocked /\ [BothNext]_bothVars => Blocked'
<1> SUFFICES ASSUME TypeOK, Accounts, ServerTypes, Blocked, [BothNext]_bothVars,
                    (NumClients > Places /\ createErrors + dropped = 0)'
             PROVE  /\ ~start' /\ mpc' \in {"create", "gate"}
                    /\ ready_threads' <= Cardinality(AtGate')
                    /\ \A c \in Clients : cpc'[c] # "run"
                    /\ \A c \in Arrived' : Placed(c)'
                    /\ \A i \in 1 .. Len(backlog') : backlog'[i] \in Arrived'
                    /\ \A k \in 1 .. Len(accepted') : accepted'[k] \in Arrived'
  BY DEF Blocked, GateInv
<1>0. /\ UNCHANGED <<limit, createErrors, dropped>>
      /\ createErrors = 0 /\ dropped = 0 /\ NumClients > Places
  <2>1. createErrors' = createErrors \/ createErrors' = createErrors + 1
    BY DEF BothNext, bothVars, vars, BenchMain,
       MainStep, CreateClient, AllCreated, WaitUntilReady, Release, Report, Abandon, BenchFault,
       CreateFails, Refused, Spurious, SpuriousWakeup, ServerMain, Accept, Enqueue, BenchClient,
       ConnectToServer, OperateOnServer, QuitServer, Connect, Operate, Quit, Arrive, Woken,
       ServerWorker, Dequeue, CloseConn, DropConn
  <2>2. UNCHANGED limit /\ (dropped' = dropped \/ dropped' = dropped + 1)
    BY DEF BothNext, bothVars, serverVars, BenchMain, BenchFault, Spurious, ServerMain, Accept,
       Enqueue, BenchClient, ConnectToServer, OperateOnServer, QuitServer, ServerWorker, Dequeue,
       CloseConn, DropConn
  <2>3. createErrors \in Nat /\ dropped \in Nat
    BY BenchAssumption DEF TypeOK, ServerTypes
  <2>4. createErrors' + dropped' = 0 /\ NumClients > Places'
    OBVIOUS
  <2>5. Places' = Places
    BY <2>2 DEF Places
  <2> QED
    BY <2>1, <2>2, <2>3, <2>4, <2>5
<1>1. /\ ~start /\ mpc \in {"create", "gate"} /\ ready_threads <= Cardinality(AtGate)
      /\ \A c \in Clients : cpc[c] # "run"
      /\ \A c \in Arrived : Placed(c)
      /\ \A i \in 1 .. Len(backlog) : backlog[i] \in Arrived
      /\ \A k \in 1 .. Len(accepted) : accepted[k] \in Arrived
  BY <1>0 DEF Blocked
<1>2. ready_threads < NumClients
  <2>1. ready_threads \in Nat /\ NumClients \in Nat
    BY BenchAssumption DEF TypeOK
  <2>2. SUFFICES ASSUME NumClients <= ready_threads PROVE FALSE
    BY <2>1
  <2>3. AtGate = Clients
    BY <1>1, <2>1, <2>2, AtGateFinite
  <2>4. \A c \in Clients : Placed(c)
    BY <1>1, <2>3 DEF AtGate, Arrived
  <2>5. Places \in Int
    <3>1. Cardinality(Workers) \in Nat
      BY ServerAssumption, FS_CardinalityType
    <3> QED
      BY <3>1, ServerAssumption DEF Places, ServerTypes
  <2> QED
    BY <1>0, <2>1, <2>4, <2>5, PlacesSuffice
(* Where the clients of the connections are after a step of the server. *)
<1>3. ASSUME UNCHANGED vars, \A c \in Arrived : Placed(c)',
             \A i \in 1 .. Len(backlog') : backlog'[i] \in Arrived,
             \A k \in 1 .. Len(accepted') : accepted'[k] \in Arrived
      PROVE  /\ ~start' /\ mpc' \in {"create", "gate"}
             /\ ready_threads' <= Cardinality(AtGate')
             /\ \A c \in Clients : cpc'[c] # "run"
             /\ \A c \in Arrived' : Placed(c)'
             /\ \A i \in 1 .. Len(backlog') : backlog'[i] \in Arrived'
             /\ \A k \in 1 .. Len(accepted') : accepted'[k] \in Arrived'
  <2>1. Arrived' = Arrived /\ AtGate' = AtGate
    BY <1>3 DEF vars, Arrived, AtGate
  <2> QED
    BY <1>1, <1>3, <2>1 DEF vars
(* And after a step of the client program alone. *)
<1>4. ASSUME UNCHANGED serverVars, Arrived' = Arrived, ready_threads' <= Cardinality(AtGate'),
             ~start', mpc' \in {"create", "gate"}, \A c \in Clients : cpc'[c] # "run"
      PROVE  /\ ~start' /\ mpc' \in {"create", "gate"}
             /\ ready_threads' <= Cardinality(AtGate')
             /\ \A c \in Clients : cpc'[c] # "run"
             /\ \A c \in Arrived' : Placed(c)'
             /\ \A i \in 1 .. Len(backlog') : backlog'[i] \in Arrived'
             /\ \A k \in 1 .. Len(accepted') : accepted'[k] \in Arrived'
  <2>1. \A c : Placed(c)' <=> Placed(c)
    BY <1>4 DEF serverVars, Placed, Open
  <2> QED
    BY <1>1, <1>4, <2>1 DEF serverVars
<1>5. CASE UNCHANGED bothVars
  <2>1. Arrived' = Arrived /\ AtGate' = AtGate
    BY <1>5 DEF bothVars, vars, Arrived, AtGate
  <2> QED
    BY <1>1, <1>4, <1>5, <2>1 DEF bothVars, vars
<1>6. CASE BenchMain \/ Spurious
  <2>1. CASE CreateClient /\ UNCHANGED serverVars
    <3>1. created \in Clients /\ cpc[created] = "none"
      BY <2>1, BenchAssumption DEF CreateClient, TypeOK, Accounts, Clients
    <3>2. \A c \in Clients : cpc'[c] = IF c = created THEN "connect" ELSE cpc[c]
      BY <2>1 DEF CreateClient, TypeOK
    <3>3. Arrived' = Arrived /\ AtGate' = AtGate
      BY <3>1, <3>2 DEF Arrived, AtGate
    <3> QED
      BY <1>1, <1>4, <2>1, <3>2, <3>3 DEF CreateClient
  <2>2. ASSUME UNCHANGED serverVars, UNCHANGED <<cpc, start, ready_threads>>, mpc' \in {"create", "gate"}
        PROVE  /\ UNCHANGED serverVars /\ Arrived' = Arrived /\ ready_threads' <= Cardinality(AtGate')
               /\ ~start' /\ mpc' \in {"create", "gate"} /\ \A c \in Clients : cpc'[c] # "run"
    BY <1>1, <2>2 DEF Arrived, AtGate
  <2>3. CASE (AllCreated \/ WaitUntilReady \/ SpuriousWakeup) /\ UNCHANGED serverVars
    <3>1. ~AllReady
      BY <1>2, BenchAssumption DEF AllReady, TypeOK
    <3>2. UNCHANGED <<cpc, start, ready_threads>> /\ mpc' \in {"create", "gate"}
      BY <1>1, <2>3, <3>1 DEF AllCreated, WaitUntilReady, SpuriousWakeup
    <3> QED
      BY <1>4, <2>2, <2>3, <3>2
  <2>4. ~Release /\ ~Report /\ ~Abandon
    BY <1>1 DEF Release, Report, Abandon
  <2> QED
    BY <1>6, <2>1, <2>3, <2>4 DEF BenchMain, Spurious, MainStep
<1>7. CASE BenchFault
  <2>1. PICK c \in Clients : Refused(c) /\ UNCHANGED serverVars
    BY <1>0, <1>7 DEF BenchFault, CreateFails
  <2>2. \A d \in Clients : cpc'[d] = IF d = c THEN "done" ELSE cpc[d]
    BY <2>1 DEF Refused, TypeOK
  <2>3. Arrived' = Arrived /\ AtGate' = AtGate
    BY <2>1, <2>2 DEF Refused, Arrived, AtGate
  <2> QED
    BY <1>1, <1>4, <2>1, <2>2, <2>3 DEF Refused
<1>8. ASSUME NEW c \in Clients, BenchClient(c)
      PROVE  /\ ~start' /\ mpc' \in {"create", "gate"}
             /\ ready_threads' <= Cardinality(AtGate')
             /\ \A d \in Clients : cpc'[d] # "run"
             /\ \A d \in Arrived' : Placed(d)'
             /\ \A i \in 1 .. Len(backlog') : backlog'[i] \in Arrived'
             /\ \A k \in 1 .. Len(accepted') : accepted'[k] \in Arrived'
  <2>1. CASE ConnectToServer(c)
    <3>1. /\ backlog' = Append(backlog, c) /\ UNCHANGED <<limit, accepted, queue, hand, last>>
          /\ cpc[c] = "connect" /\ UNCHANGED <<start, mpc, ready_threads>>
      BY <2>1 DEF ConnectToServer, Connect
    <3>2. \A d \in Clients : cpc'[d] = IF d = c THEN "arrive" ELSE cpc[d]
      BY <2>1 DEF ConnectToServer, Connect, TypeOK
    <3>3. Arrived' = Arrived \cup {c} /\ AtGate' = AtGate
      BY <3>1, <3>2 DEF Arrived, AtGate
    <3>4. /\ Len(backlog') = Len(backlog) + 1 /\ Len(backlog) \in Nat
          /\ backlog'[Len(backlog) + 1] = c
          /\ \A i \in 1 .. Len(backlog) : backlog'[i] = backlog[i]
      BY <3>1 DEF ServerTypes
    <3>5. \A d : Placed(d) => Placed(d)'
      BY <3>1, <3>4 DEF Placed, Open
    <3>6. Placed(c)'
      BY <3>4 DEF Placed
    <3>7. \A i \in 1 .. Len(backlog') : backlog'[i] \in Arrived'
      BY <1>1, <3>3, <3>4
    <3> QED
      BY <1>1, <3>1, <3>2, <3>3, <3>5, <3>6, <3>7
  <2>2. CASE Arrive(c) /\ UNCHANGED serverVars
    <3>1. cpc[c] = "arrive" /\ ready_threads' = ready_threads + 1 /\ UNCHANGED <<start, mpc>>
      BY <2>2 DEF Arrive
    <3>2. \A d \in Clients : cpc'[d] = IF d = c THEN "gate" ELSE cpc[d]
      BY <1>1, <2>2 DEF Arrive, TypeOK
    <3>3. Arrived' = Arrived /\ AtGate' = AtGate \cup {c} /\ c \notin AtGate
      BY <3>1, <3>2 DEF Arrived, AtGate
    <3>4. Cardinality(AtGate') = Cardinality(AtGate) + 1
      BY <3>3, AtGateFinite, FS_AddElement
    <3>5. ready_threads' <= Cardinality(AtGate')
      BY <1>1, <3>1, <3>4, AtGateFinite, BenchAssumption DEF TypeOK
    <3> QED
      BY <1>1, <1>4, <2>2, <3>1, <3>2, <3>3, <3>5
  <2>3. CASE Woken(c) /\ UNCHANGED serverVars
    <3>1. UNCHANGED <<cpc, start, ready_threads, mpc>>
      BY <1>1, <2>3 DEF Woken
    <3>2. Arrived' = Arrived /\ AtGate' = AtGate
      BY <3>1 DEF Arrived, AtGate
    <3> QED
      BY <1>1, <1>4, <2>3, <3>1, <3>2
  <2>4. ~OperateOnServer(c) /\ ~QuitServer(c)
    BY <1>1 DEF OperateOnServer, Operate, QuitServer, Quit
  <2> QED
    BY <1>8, <2>1, <2>2, <2>3, <2>4 DEF BenchClient
<1>9. CASE Accept
  <2>1. /\ UNCHANGED <<vars, last, queue, hand>> /\ Len(accepted) = last /\ backlog # <<>>
        /\ accepted' = Append(accepted, Head(backlog)) /\ backlog' = Tail(backlog)
    BY <1>9 DEF Accept, MainFree
  <2>2. /\ Len(accepted') = Len(accepted) + 1 /\ Len(accepted) \in Nat /\ Len(backlog) \in Nat
        /\ Len(backlog) > 0 /\ Len(backlog') = Len(backlog) - 1
        /\ accepted'[Len(accepted) + 1] = backlog[1]
        /\ \A k \in 1 .. Len(accepted) : accepted'[k] = accepted[k]
        /\ \A i \in 1 .. Len(backlog') : backlog'[i] = backlog[i + 1]
    BY <2>1 DEF ServerTypes
  <2>3. \A i \in 1 .. Len(backlog') : backlog'[i] \in Arrived
    BY <1>1, <2>2
  <2>4. \A k \in 1 .. Len(accepted') : accepted'[k] \in Arrived
    BY <1>1, <2>2
  <2>5. ASSUME NEW c, Placed(c) PROVE Placed(c)'
    <3>1. ASSUME NEW i \in 1 .. Len(backlog), backlog[i] = c PROVE Placed(c)'
      <4>1. CASE i = 1
        BY <2>1, <2>2, <3>1, <4>1 DEF Placed, Open
      <4>2. CASE i # 1
        <5>1. i - 1 \in 1 .. Len(backlog') /\ backlog'[i - 1] = c
          BY <2>2, <3>1, <4>2
        <5> QED
          BY <5>1 DEF Placed
      <4> QED
        BY <4>1, <4>2
    <3>2. ASSUME NEW k \in 1 .. Len(accepted), accepted[k] = c, Open(k) PROVE Placed(c)'
      BY <2>1, <2>2, <3>2 DEF Placed, Open
    <3> QED
      BY <2>5, <3>1, <3>2 DEF Placed
  <2> QED
    BY <1>1, <1>3, <2>1, <2>3, <2>4, <2>5
<1>10. ASSUME UNCHANGED <<vars, backlog, accepted>>, \A k \in 1 .. Len(accepted) : Open(k) => Open(k)'
       PROVE  /\ UNCHANGED vars /\ \A c \in Arrived : Placed(c)'
              /\ \A i \in 1 .. Len(backlog') : backlog'[i] \in Arrived
              /\ \A k \in 1 .. Len(accepted') : accepted'[k] \in Arrived
  BY <1>1, <1>10 DEF Placed
<1>11. CASE Enqueue
  <2>1. /\ UNCHANGED <<vars, backlog, accepted, hand>> /\ last' = last + 1
        /\ queue' = Append(queue, last + 1)
    BY <1>11 DEF Enqueue, Handoff!Put
  <2>2. /\ Len(queue') = Len(queue) + 1 /\ Len(queue) \in Nat /\ last \in Nat
        /\ queue'[Len(queue) + 1] = last + 1
        /\ \A i \in 1 .. Len(queue) : queue'[i] = queue[i]
    BY <2>1 DEF ServerTypes
  <2>3. \A k \in 1 .. Len(accepted) : Open(k) => Open(k)'
    BY <2>1, <2>2 DEF Open
  <2> QED
    BY <1>3, <1>10, <2>1, <2>3
<1>12. ASSUME NEW w \in Workers, Dequeue(w)
       PROVE  /\ UNCHANGED <<vars, backlog, accepted>>
              /\ \A k \in 1 .. Len(accepted) : Open(k) => Open(k)'
  <2>1. /\ UNCHANGED <<vars, backlog, accepted, last>> /\ hand[w] = NoConn
        /\ hand' = [hand EXCEPT ![w] = Head(queue)] /\ queue' = Tail(queue) /\ queue # <<>>
    BY <1>12 DEF Dequeue, Handoff!Take
  <2>2. /\ Len(queue) \in Nat /\ Len(queue) > 0 /\ Len(queue') = Len(queue) - 1
        /\ \A i \in 1 .. Len(queue') : queue'[i] = queue[i + 1]
        /\ hand'[w] = queue[1] /\ \A v \in Workers \ {w} : hand'[v] = hand[v]
    BY <2>1 DEF ServerTypes
  <2>3. ASSUME NEW k \in 1 .. Len(accepted), Open(k) PROVE Open(k)'
    <3>1. ASSUME NEW i \in 1 .. Len(queue), queue[i] = k PROVE Open(k)'
      <4>1. CASE i = 1
        BY <2>2, <3>1, <4>1 DEF Open
      <4>2. CASE i # 1
        <5>1. i - 1 \in 1 .. Len(queue') /\ queue'[i - 1] = k
          BY <2>2, <3>1, <4>2
        <5> QED
          BY <5>1 DEF Open
      <4> QED
        BY <4>1, <4>2
    <3>2. ASSUME NEW v \in Workers, hand[v] = k PROVE Open(k)'
      <4>1. v # w
        BY <2>1, <3>2, ServerAssumption
      <4> QED
        BY <2>2, <3>2, <4>1 DEF Open
    <3> QED
      BY <2>1, <2>3, <3>1, <3>2 DEF Open
  <2> QED
    BY <2>1, <2>3
<1>13. ASSUME NEW w \in Workers PROVE ~CloseConn(w) /\ ~DropConn(w)
  <2>1. ASSUME CloseConn(w) PROVE FALSE
    <3>1. hand[w] \in 1 .. Len(accepted)
      BY <2>1 DEF CloseConn, ServerTypes
    <3>2. accepted[hand[w]] \in Arrived
      BY <1>1, <3>1
    <3> QED
      BY <2>1, <3>2 DEF CloseConn, Arrived
  <2>2. ASSUME DropConn(w) PROVE FALSE
    BY <1>0, <2>2 DEF DropConn
  <2> QED
    BY <2>1, <2>2
<1> QED
  BY <1>3, <1>5, <1>6, <1>7, <1>8, <1>9, <1>10, <1>11, <1>12, <1>13
     DEF BothNext, ServerMain, ServerWorker

(* A benchmark with more clients than the server has places for never ends *)
(* (bench_client.c:74-83): the one that has no place blocks in connect,    *)
(* the others wait for it at the gate and hold theirs, unless a thread     *)
(* could not be created or the server dropped a connection.                *)
THEOREM TooManyNeverEnd ==
  BothSpec => [](NumClients > Places => [](mpc = "exit" => createErrors + dropped > 0))
<1> DEFINE Crowded == NumClients > Places
           Stuck == mpc = "exit" => createErrors + dropped > 0
<1>1. BothInit => ServerTypes /\ Blocked
  <2> SUFFICES ASSUME BothInit PROVE ServerTypes /\ Blocked
    OBVIOUS
  <2>1. ServerTypes
    BY ServerAssumption DEF BothInit, Handoff!HandoffInit, ServerTypes
  <2>2. Blocked
    <3>1. AtGate = {} /\ Arrived = {}
      BY DEF BothInit, Init, AtGate, Arrived
    <3>2. ready_threads <= Cardinality(AtGate)
      BY <3>1, FS_EmptySet DEF BothInit, Init
    <3> QED
      BY <3>1, <3>2 DEF BothInit, Init, Blocked
  <2> QED
    BY <2>1, <2>2
<1>2. BothSpec => []GateInv
  BY BenchUsesGate, GateInvariant, PTL
<1>3. GateInv /\ ServerTypes /\ Blocked /\ [BothNext]_bothVars => (ServerTypes /\ Blocked)'
  BY ServerTypesStep, BlockedStep DEF GateInv
<1>4. BothSpec => [](ServerTypes /\ Blocked)
  BY <1>1, <1>2, <1>3, PTL DEF BothSpec
<1>5. GateInv /\ ServerTypes /\ Blocked => (Crowded => Stuck)
  <2> SUFFICES ASSUME GateInv, ServerTypes, Blocked, Crowded, mpc = "exit"
               PROVE  createErrors + dropped > 0
    OBVIOUS
  <2>1. createErrors \in Nat /\ dropped \in Nat
    BY BenchAssumption DEF GateInv, TypeOK, ServerTypes
  <2> QED
    BY <2>1 DEF Blocked
<1>6. [BothNext]_bothVars => (Crowded => Crowded')
  <2>1. [BothNext]_bothVars => UNCHANGED limit
    BY DEF BothNext, bothVars, serverVars, BenchMain, BenchFault, Spurious, ServerMain, Accept,
       Enqueue, BenchClient, ConnectToServer, OperateOnServer, QuitServer, ServerWorker, Dequeue,
       CloseConn, DropConn
  <2> QED
    BY <2>1 DEF Places
<1> HIDE DEF Crowded, Stuck
<1>7. BothSpec => [](Crowded => []Stuck)
  BY <1>2, <1>4, <1>5, <1>6, PTL DEF BothSpec
<1> QED
  BY <1>7 DEF Crowded, Stuck

=============================================================================
