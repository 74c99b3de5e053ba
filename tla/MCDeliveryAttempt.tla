------------------------- MODULE MCDeliveryAttempt -------------------------
(* Two messages of three events each, a stage of two rows and one crash of   *)
(* the runtime.                                                              *)
EXTENDS DeliveryAttempt, TLC
=============================================================================
