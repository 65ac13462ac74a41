--------------------------- MODULE MCScheduleCheck ---------------------------
EXTENDS ScheduleCheck

(* No deadline, and one in the middle of the walk. *)
MCDeadlines == {Nil, 5}
=============================================================================
