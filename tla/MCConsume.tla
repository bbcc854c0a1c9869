----------------------------- MODULE MCConsume ------------------------------
(* Instances of Consume for TLC.                                           *)
EXTENDS Consume, TLC

CONSTANTS w1, w2

\* One worker without and with auto-ack; two workers and every mode.
MCClientSets ==
    {{<<w1, "ack">>}, {<<w1, "ack">>, <<w1, "noack">>, <<w1, "pull">>},
     {w1, w2} \X AllModes}

\* A manual-ack consumer on each of two workers.
TwoConsumers == {{<<w1, "ack">>, <<w2, "ack">>}}

=============================================================================
