--------------------------- MODULE MCPaymentOrders ---------------------------
(* PaymentOrders for TLC. *)
EXTENDS PaymentOrders
=============================================================================
