------------------------------- MODULE MCSort -------------------------------
(* Model-checking instance of Sort: arrays of up to five entries, so that  *)
(* a pass ends with a full pair of runs, with half a pair or with a single *)
(* run; a second call that finds the scratch array of the first one; and   *)
(* words of sixteen times the length, the least ratio the code lets pass   *)
(* (ft_sort.c:62).                                                         *)
EXTENDS Sort

MCKeys == {[time |-> 1, name |-> 1], [time |-> 1, name |-> 2],
           [time |-> 2, name |-> 1]}
MCTwoKeys == {[time |-> 1, name |-> 2], [time |-> 2, name |-> 1]}
=============================================================================
