-------------------------- MODULE MCPaymentRefund --------------------------
(***************************************************************************)
(* Model checking of PaymentRefund; the constants are in the .cfg files.   *)
(***************************************************************************)
EXTENDS PaymentRefund, TLC

RefundSymmetry ==
    Permutations(Workers) \cup Permutations(Attempts) \cup Permutations(Subscriptions)
=============================================================================
