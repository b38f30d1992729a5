---------------------------- MODULE MCPrecSearch ----------------------------
(* The limits of the real library: DefaultPrec 9, 12 or 19, MaxPrec 19, and *)
(* the small ones at which the loops degenerate.                            *)
EXTENDS PrecSearch

MCLimits == {0, 1, 2, 3, 9, 12, 19}
=============================================================================
