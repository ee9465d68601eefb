------------------------------ MODULE Timespec ------------------------------
(* Times of key events and the arithmetic on them (key-modifier-binds.cpp). *)
EXTENDS Integers

CONSTANTS MSEC_PER_SEC,  \* 1000 in the code
          NSEC_PER_MSEC  \* 1000000 in the code

ASSUME TimespecConstants ==
    MSEC_PER_SEC \in Nat \ {0} /\ NSEC_PER_MSEC \in Nat \ {0}

NSEC_PER_SEC == MSEC_PER_SEC * NSEC_PER_MSEC

Timespec == [tv_sec : Int, tv_nsec : 0..(NSEC_PER_SEC - 1)]

(* what a timespec stands for, in nanoseconds, and the other way round *)
Nanoseconds(t) == t.tv_sec * NSEC_PER_SEC + t.tv_nsec
AsTimespec(n) == [tv_sec |-> n \div NSEC_PER_SEC, tv_nsec |-> n % NSEC_PER_SEC]

(* Mutant: the second that is borrowed is not taken. *)
timespec_subKeepSecond(a, b) ==
    [tv_sec |-> a.tv_sec - b.tv_sec, tv_nsec |-> (a.tv_nsec - b.tv_nsec) % NSEC_PER_SEC]

timespec_sub(a, b) ==
    IF a.tv_nsec < b.tv_nsec
    THEN [tv_sec |-> a.tv_sec - b.tv_sec - 1,
          tv_nsec |-> a.tv_nsec - b.tv_nsec + NSEC_PER_SEC]
    ELSE [tv_sec |-> a.tv_sec - b.tv_sec, tv_nsec |-> a.tv_nsec - b.tv_nsec]

timespec_to_msec(t) == t.tv_sec * MSEC_PER_SEC + t.tv_nsec \div NSEC_PER_MSEC

=============================================================================
