---------------------------- MODULE MCProcessing ----------------------------
(* Processing with two containers, each running one consumer.              *)
EXTENDS Processing

CONSTANTS c1, c2, r1, r2, k1, k2

MCHome == [c \in {c1, c2} |-> IF c = c1 THEN r1 ELSE r2]

(* A record that matches a rule, one of another finding that matches none, *)
(* and one that does not parse.                                            *)
Rec(k, bad, hot) == [key |-> k, bad |-> bad, hot |-> hot]
MCRecord == {Rec(k1, FALSE, TRUE), Rec(k2, FALSE, FALSE), Rec(k2, TRUE, FALSE)}
=============================================================================
