----------------------------- MODULE SchedulingMC -----------------------------
(***************************************************************************)
(* Scheduling for TLC, with a rival: while the simulator plays shortest    *)
(* remaining time, a rival shares out the processor among the same         *)
(* processes in every other way there is.                                  *)
(***************************************************************************)
EXTENDS Scheduling

VARIABLE rival   \* what each process has left under the rival, and its turnaround so far

RivalStart == [left |-> runtime, total |-> 0]
RivalReady == {p \in Procs : arrivaltime[p] <= current_time /\ rival.left[p] > 0}

RivalTick ==
  IF scheduler # SRT \/ num_finished = NumProcesses THEN rival' = RivalStart
  ELSE IF RivalReady = {} THEN UNCHANGED rival
  ELSE \E p \in RivalReady :
         rival' = [left |-> [rival.left EXCEPT ![p] = @ - 1],
                   total |-> rival.total + IF rival.left[p] = 1
                                           THEN current_time + 1 - arrivaltime[p] ELSE 0]

RivalInit == Init /\ rival = RivalStart
RivalSpec == RivalInit /\ [][Next /\ RivalTick]_<<vars, rival>>

(* Shortest remaining time, with its ties and arrivals                     *)
(* (scheduling.c:209-228), has the least total turnaround of all ways to   *)
(* share the processor.                                                    *)
SrtIsLeast ==
  scheduler = SRT /\ num_finished = NumProcesses =>
    total_turnaround_time <= rival.total /\ \A p \in Procs : rival.left[p] = 0

=============================================================================
