---------------------------- MODULE SurveyClock ----------------------------
(***************************************************************************)
(* The wrapping 32-bit TMOS clock (one tick is 625 us) and the comparisons *)
(* the survey reducer makes on it.  W stands for 2^32; nothing below       *)
(* depends on its value, only on its being even, so a model may wrap after *)
(* a handful of ticks.                                                     *)
(***************************************************************************)
EXTENDS Integers

CONSTANT W

ASSUME WAssumption == W \in Nat \ {0} /\ W % 2 = 0

Time == 0 .. (W - 1)

Wadd(t, d) == (t + d) % W

Wsub(a, b) == (a - b) % W

(* A deadline is due from its own tick until half a turn of the clock later. *)
Due(now, at) == Wsub(now, at) < W \div 2

(* None of an Option<u32> deadline. *)
NoTime == -1

MaybeTime == Time \cup {NoTime}

(* Mutant: deadlines compared as plain numbers. *)
EarlierUnwrapped(now, next, at) == IF next = NoTime \/ at < next THEN at ELSE next

(* The deadline a wake is armed for, of the one held so far and another.   *)
(* The distances wrap: an overdue deadline is almost a whole turn away.    *)
Earlier(now, next, at) ==
    IF next = NoTime \/ Wsub(at, now) < Wsub(next, now) THEN at ELSE next
=============================================================================
