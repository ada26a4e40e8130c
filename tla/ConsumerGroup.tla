--------------------------- MODULE ConsumerGroup ---------------------------
(***************************************************************************)
(* What a Redis Streams consumer group promises this code: the abstract    *)
(* specification that Processing and Dispatch implement.                   *)
(*                                                                         *)
(* Each entry has one fate.  It is appended, then either delivered once or *)
(* trimmed away before anybody read it; a delivered entry is acknowledged  *)
(* by the consumer that holds it or is stranded, pending for ever, because *)
(* nothing in the code claims another consumer's pending entries or reads  *)
(* its own again (XREADGROUP always asks for ">").  A read whose answer is *)
(* lost strands what it delivered at once.                                 *)
(***************************************************************************)
EXTENDS Integers

CONSTANT Msg                  \* stream ids: integers, in the order of appending

VARIABLE fate                 \* fate[m]: where entry m is in its life

Fates == {"unpublished", "queued", "trimmed", "held", "acked", "stranded"}

TypeOK == fate \in [Msg -> Fates]

Init == fate = [m \in Msg |-> "unpublished"]

----------------------------------------------------------------------------
(* Every entry keeps its fate or goes from one given fate to another.      *)
Move(from, to) ==
    fate' \in [Msg -> Fates] /\ \A m \in Msg :
        fate'[m] = fate[m] \/ (fate[m] = from /\ fate'[m] = to)

(* XADD appends an entry after all others, and MAXLEN may drop the oldest  *)
(* queued ones.                                                            *)
Publish(m) ==
    /\ fate[m] = "unpublished"
    /\ \A n \in Msg : n < m => fate[n] # "unpublished"
    /\ fate' \in [Msg -> Fates] /\ fate'[m] = "queued"
    /\ \A n \in Msg \ {m} :
         fate'[n] = fate[n] \/ (fate[n] = "queued" /\ fate'[n] = "trimmed")

(* XREADGROUP ">" hands out the oldest queued entries: to one consumer, or *)
(* to nobody when its answer is lost.                                      *)
HandOut(to) ==
    /\ Move("queued", to)
    /\ \A m, n \in Msg :
         fate[m] = "queued" /\ fate'[m] = to /\ fate'[n] = "queued" => m < n

Deliver == HandOut("held")

Lose == HandOut("stranded")

Acknowledge == Move("held", "acked")

Strand == Move("held", "stranded")

Next == Deliver \/ Lose \/ Acknowledge \/ Strand \/ \E m \in Msg : Publish(m)

Spec == Init /\ [][Next]_fate
=============================================================================
