---------------------------- MODULE MC_FnCASNode ----------------------------
(* FnCASNode on small instances: recordings of dimension 1 (and 2), one  *)
(* or two input values, the constant 0, the subtract operation that unary *)
(* minus needs, and one function tag.                                     *)
EXTENDS FnCASNodeProofs

MCDims == {1}
MCTwoDims == {1, 2}
MCInputVals == {1, 2}
MCOneInput == {1}
MCConsts == {0}
MCOps == {"subtract"}
MCFuncs == {"sqr"}
=============================================================================
