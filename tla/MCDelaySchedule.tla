--------------------------- MODULE MCDelaySchedule ---------------------------
(***************************************************************************)
(* Small instances of DelaySchedule.  u64::MAX is 12 and the largest float *)
(* 200, so that within eight attempts Fibonacci numbers saturate (the      *)
(* seventh is 13) and powers become infinite; u8::MAX is 8, so that the    *)
(* native functions clamp the ninth attempt.                               *)
(***************************************************************************)
EXTENDS DelaySchedule

Half == Fraction(1, 2)
MCScalars == {Zero, Half, One}

MCPolicies ==
    [kind : {"exponential", "constant", "fibonacci"}, max_attempts : {0, 3, 8},
     base : {0, 1, 3, 12},
     multiplier : {Fraction(-2, 1), Zero, Half, One, Fraction(3, 2), Fraction(2, 1),
                   Fraction(10, 1), NaN},
     cap : {0, 7, 12},
     jitter : {Fraction(-1, 2), Zero, Half, One, Fraction(2, 1), NaN}]

\* A constant delay beyond the cap, in the settings of the gem.
MCConstant ==
    [kind : {"constant"}, max_attempts : {3}, base : {12}, multiplier : {One},
     cap : {7}, jitter : {Zero}]

\* A builder field set to NaN.
MCNaNJitter ==
    [kind : {"exponential", "constant"}, max_attempts : {3}, base : {3},
     multiplier : {One}, cap : {12}, jitter : {NaN}]
=============================================================================
