----------------------------- MODULE MCDispatch -----------------------------
(* Dispatch with the two consumers of its container.                       *)
EXTENDS Dispatch

CONSTANTS c1, c2

(* An alert that goes out on every channel, and one too minor for          *)
(* PagerDuty whose row the lake lacks.                                     *)
MCAlert == {[channels |-> Channel, severity |-> "critical", stored |-> TRUE],
            [channels |-> Channel, severity |-> "high", stored |-> FALSE]}
=============================================================================
