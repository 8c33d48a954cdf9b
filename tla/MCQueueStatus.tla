--------------------------- MODULE MCQueueStatus ---------------------------
(* One worker and one caller of a queue that tells of itself.                *)
EXTENDS QueueStatus

CONSTANTS w1, c1
=============================================================================
