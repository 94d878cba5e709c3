------------------------------ MODULE MCSched -------------------------------
(* Model-checking instances of Sched. *)
EXTENDS Sched, TLC

CONSTANTS t1, t2, t3

(* Two threads that do everything to each other. *)
TwoThreads == {"suspend", "resume", "abort", "terminate"}
                \X {t1, t2} \X {t1, t2}

(* t1 suspends, resumes and aborts t2 while t3 and t2 itself abort too, so *)
(* that two threads halt the same one and two halt each other.             *)
Mixed == ({"suspend", "resume", "abort"} \X {t1} \X {t2})
           \cup {<<"abort", t3, t2>>, <<"abort", t2, t1>>}

(* Three threads that abort one another. *)
Aborts == {"abort"} \X {t1, t2, t3} \X {t1, t2, t3}

Symmetry == Permutations({t1, t2})
=============================================================================
