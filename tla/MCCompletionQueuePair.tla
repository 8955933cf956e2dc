----------------------- MODULE MCCompletionQueuePair -----------------------
(* Constants of CompletionQueuePair for TLC.                                *)
EXTENDS CompletionQueuePair

CONSTANTS t1, t2

MCThreads == {t1, t2}
=============================================================================
