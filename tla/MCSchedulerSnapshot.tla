------------------------ MODULE MCSchedulerSnapshot ------------------------
(* Model values for SchedulerSnapshot: any two workers that interact. *)
EXTENDS SchedulerSnapshot

CONSTANTS p1, p2, f1, q1

AllWorkers == {p1, p2, f1, q1}
TwoPollers == {p1, p2}
Rebuilder  == {f1}
Request    == {q1}
Pairs      == {{p1, p2}, {p1, f1}, {p1, q1}, {f1, q1}}
Bounds     == [c \in Pairs |-> IF q1 \in c THEN 3 ELSE 2]

=============================================================================
