--------------------------- MODULE MCPaymentOrder ---------------------------
(***************************************************************************)
(* Model checking of PaymentOrder; the constants are in the .cfg files.    *)
(* Workers are interchangeable; the runs that check liveness use no        *)
(* symmetry.                                                               *)
(***************************************************************************)
EXTENDS PaymentOrder, TLC

Symmetry == Permutations(Workers)
=============================================================================
