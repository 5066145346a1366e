------------------------------- MODULE CpuShare -------------------------------
(***************************************************************************)
(* What every scheduler of the Lab 4 simulator has to be, whatever its     *)
(* policy: a way of sharing one processor that runs a ready process in     *)
(* each tick, idles only while there is none, and gives each process its   *)
(* run time and no more.  The simulator plays the same processes through   *)
(* one scheduler after the other.                                          *)
(***************************************************************************)
EXTENDS Integers

CONSTANTS Processes, Rounds

VARIABLES arrival, length,    \* when each process comes and how long it runs
          left,               \* what it has still to run
          clock, round

shareVars == <<arrival, length, left, clock, round>>

Ready == {p \in Processes : arrival[p] <= clock /\ left[p] > 0}
AllDone == \A p \in Processes : left[p] = 0

ShareInit == left = length /\ clock = 0 /\ round = 0

Run(p) ==
  /\ p \in Ready
  /\ left' = [left EXCEPT ![p] = @ - 1]
  /\ clock' = clock + 1
  /\ UNCHANGED <<arrival, length, round>>

Idle ==
  /\ Ready = {} /\ ~AllDone
  /\ clock' = clock + 1
  /\ UNCHANGED <<arrival, length, left, round>>

NextRound ==
  /\ AllDone /\ round < Rounds
  /\ round' = round + 1 /\ left' = length /\ clock' = 0
  /\ UNCHANGED <<arrival, length>>

ShareSpec == ShareInit /\ [][Idle \/ NextRound \/ \E p \in Processes : Run(p)]_shareVars

=============================================================================
