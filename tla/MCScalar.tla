------------------------------ MODULE MCScalar ------------------------------
(* Two-bit values and bodies of up to five instructions: two constants, an   *)
(* addition that overflows, every pair of monetary instructions.             *)
EXTENDS ScalarCode

MCInt64  == -2 .. 1
MCLimits == {0, 1, 2}
MCFuel   == {10, 90}

=============================================================================
