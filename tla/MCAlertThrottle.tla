-------------------------- MODULE MCAlertThrottle ---------------------------
(* The throttle under concurrent evaluators.                               *)
EXTENDS AlertThrottle
CONSTANTS e1, e2
=============================================================================
