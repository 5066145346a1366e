------------------------------- MODULE PageSim -------------------------------
(***************************************************************************)
(* The page replacement simulator of Lab 7 (pagesim.c).  One invocation    *)
(* simulates one policy with one number of frames; here all of them run    *)
(* side by side on the same reference string, one reference per step, so   *)
(* that they can be compared.                                              *)
(***************************************************************************)
EXTENDS Integers, Sequences, FiniteSets, FiniteSetsExt

CONSTANTS Pages,      \* page numbers
          Empty,      \* -1, an empty frame
          MaxFrames,  \* bound: frames (MAX_FRAMES is 100)
          MaxRefs     \* bound: length of a reference string (MAX_REF_LENGTH is 1000)

ASSUME PageAssumption ==
  Empty \notin Pages /\ MaxFrames \in Nat \ {0} /\ MaxRefs \in Nat \ {0}

VARIABLES ref_string, i,    \* the references, and how many are done
          fifo, lru, opt    \* for each number of frames, the locals of simulate_*

vars == <<ref_string, i, fifo, lru, opt>>

NumFrames == 1 .. MaxFrames
Frames(n) == 0 .. n - 1
ref_len == Cardinality(DOMAIN ref_string)

(* main rejects an empty string and fewer than one frame. *)
Init ==
  /\ \E len \in 1 .. MaxRefs : ref_string \in [0 .. len - 1 -> Pages]
  /\ i = 0
  /\ fifo = [n \in NumFrames |-> [frames |-> [j \in Frames(n) |-> Empty], faults |-> 0,
                                  next_replace |-> 0]]
  /\ lru = [n \in NumFrames |-> [frames |-> [j \in Frames(n) |-> Empty], faults |-> 0,
                                 last_used |-> [j \in Frames(n) |-> -1]]]
  /\ opt = [n \in NumFrames |-> [frames |-> [j \in Frames(n) |-> Empty], faults |-> 0]]

Where(frames, page) == {j \in DOMAIN frames : frames[j] = page}

AdvanceNoWrap(next, n) == next + 1
AdvanceTwice(next, n) == (next + 2) % n
Advance(next, n) == (next + 1) % n

simulate_fifo(s, n, page) ==
  IF Where(s.frames, page) # {} THEN s
  ELSE [frames |-> [s.frames EXCEPT ![s.next_replace] = page],
        faults |-> s.faults + 1,
        next_replace |-> Advance(s.next_replace, n)]

(* The loop starts at frame 1 with frame 0 as its candidate, stops at the  *)
(* first empty frame and keeps the first of equals.  Frame 0 is filled     *)
(* last: while it is empty its last_used of -1 is the least of all.        *)
LruVictim(s) ==
  LET empty == Where(s.frames, Empty) \ {0} IN
  IF empty # {} THEN Min(empty)
  ELSE Min({j \in DOMAIN s.frames : \A k \in DOMAIN s.frames : s.last_used[j] <= s.last_used[k]})

(* What a hit does to last_used. *)
NoteNoUse(s, hit) == s
NoteUse(s, hit) == [s EXCEPT !.last_used[hit] = i]

simulate_lru(s, page) ==
  IF Where(s.frames, page) # {} THEN NoteUse(s, Min(Where(s.frames, page)))
  ELSE [s EXCEPT !.frames[LruVictim(s)] = page,
                 !.last_used[LruVictim(s)] = i,
                 !.faults = @ + 1]

Infinity == 1000000

(* Every use comes before Infinity (pagesim.c:30, 173). *)
ASSUME InfinityAssumption == MaxRefs <= Infinity

UsesAnywhere(page) == {k \in 0 .. ref_len - 1 : ref_string[k] = page}
UsesAhead(page) == {k \in i + 1 .. ref_len - 1 : ref_string[k] = page}
NextUse(page) == IF UsesAhead(page) = {} THEN Infinity ELSE Min(UsesAhead(page))

OptVictim(frames) ==
  IF Where(frames, Empty) # {} THEN Min(Where(frames, Empty))
  ELSE Min({j \in DOMAIN frames : \A k \in DOMAIN frames : NextUse(frames[k]) <= NextUse(frames[j])})

simulate_opt(s, page) ==
  IF Where(s.frames, page) # {} THEN s
  ELSE [s EXCEPT !.frames[OptVictim(s.frames)] = page, !.faults = @ + 1]

(* One turn of the loop over the reference string. *)
Reference ==
  /\ i < ref_len
  /\ fifo' = [n \in NumFrames |-> simulate_fifo(fifo[n], n, ref_string[i])]
  /\ lru' = [n \in NumFrames |-> simulate_lru(lru[n], ref_string[i])]
  /\ opt' = [n \in NumFrames |-> simulate_opt(opt[n], ref_string[i])]
  /\ i' = i + 1
  /\ UNCHANGED ref_string

Next == Reference
Spec == Init /\ [][Next]_vars

-----------------------------------------------------------------------------
(* Properties. *)

(* Frames hold pages, no page is in two of them, next_replace is a frame.  *)
TypeOK ==
  \A n \in NumFrames : \A s \in {fifo[n], lru[n], opt[n]} :
    /\ s.frames \in [Frames(n) -> Pages \cup {Empty}] /\ s.faults \in 0 .. i
    /\ \A p \in Pages : Cardinality(Where(s.frames, p)) <= 1
    /\ fifo[n].next_replace \in Frames(n)
    /\ lru[n].last_used \in [Frames(n) -> -1 .. i - 1]

Resident(s) == {s.frames[j] : j \in DOMAIN s.frames} \ {Empty}

(* The resident pages after page is referenced, oldest first, in a queue   *)
(* of n pages.                                                             *)
Load(before, page, n) ==
  IF \E m \in 1 .. Len(before) : before[m] = page THEN before
  ELSE IF Len(before) = n THEN Append(Tail(before), page)
  ELSE Append(before, page)

(* The same after all references so far. *)
Loaded(n) ==
  LET loaded[k \in 0 .. i] ==
        IF k = 0 THEN <<>> ELSE Load(loaded[k - 1], ref_string[k - 1], n)
  IN  loaded[i]

(* The ring of frames and next_replace (pagesim.c:76-77) is a queue: read  *)
(* from next_replace on it lists the empty frames and then the pages in    *)
(* the order they were loaded, so the next victim is the one loaded first  *)
(* ("arrived in memory earliest", line 52).                                *)
FifoIsQueue ==
  \A n \in NumFrames :
    LET empty == n - Len(Loaded(n)) IN
    \A m \in 1 .. n :
      fifo[n].frames[(fifo[n].next_replace + (m - 1)) % n] =
        IF m <= empty THEN Empty ELSE Loaded(n)[m - empty]

UsesBehind(p) == {k \in 0 .. i - 1 : ref_string[k] = p}
LastUse(p) == IF UsesBehind(p) = {} THEN -1 ELSE Max(UsesBehind(p))

(* LRU holds exactly the pages used last, as many as it has frames, even   *)
(* though its victim search skips frame 0 (pagesim.c:117-126).  With it    *)
(* goes the stack property: what n frames hold, n + 1 frames hold, so a    *)
(* frame more never costs LRU a fault (FIFO has no such guarantee).        *)
LruIsMostRecent ==
  \A n \in NumFrames :
    Resident(lru[n]) =
      {p \in Pages : LastUse(p) >= 0 /\ Cardinality({q \in Pages : LastUse(q) > LastUse(p)}) < n}

(* The ways to serve a reference to page from s: what is held, and the     *)
(* faults so far.  With n pages held a fault has any of them as victim.    *)
Serve(s, page, n) ==
  IF page \in s.held THEN {s}
  ELSE LET kept == IF Cardinality(s.held) < n THEN {s.held} ELSE {s.held \ {v} : v \in s.held}
       IN  {[held |-> h \cup {page}, faults |-> s.faults + 1] : h \in kept}

(* The fewest faults with which n frames can serve the string, over every  *)
(* choice of victims.                                                      *)
LeastFaults(n) ==
  LET reach[k \in 0 .. ref_len] ==
        IF k = 0 THEN {[held |-> {}, faults |-> 0]}
        ELSE UNION {Serve(s, ref_string[k - 1], n) : s \in reach[k - 1]}
  IN  Min({s.faults : s \in reach[ref_len]})

(* OPT, with its ties, its empty frames and its notion of "never used      *)
(* again" (pagesim.c:162-186), has the fewest faults possible.             *)
OptIsLeast == i = ref_len => \A n \in NumFrames : opt[n].faults = LeastFaults(n)

=============================================================================
