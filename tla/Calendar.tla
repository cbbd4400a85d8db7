------------------------------ MODULE Calendar ------------------------------
(***************************************************************************)
(* The UTC calendar the scoring policy and the eval loop compute with.     *)
(* Time is in hours since midnight of the first of some month, and every   *)
(* month has 30 days.                                                      *)
(***************************************************************************)
EXTENDS Integers

HourOf(t) == t % 24
DayOf(t)  == ((t \div 24) % 30) + 1

(* 09:00 on each 1st and 15th of the 33 days that begin with t's.          *)
PaydaysNear(t) ==
  {p \in {24 * day + 9 : day \in t \div 24 .. t \div 24 + 32} : DayOf(p) \in {1, 15}}
=============================================================================
