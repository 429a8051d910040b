---------------------------- MODULE MCDataCalls ----------------------------
(* Two threads share two connections, and one of them makes any call.  For  *)
(* BulkApply(), three mutations make a request, a retry in another order    *)
(* and a retry of the retry.                                                *)
EXTENDS DataCalls

CONSTANTS t1, t2

MCAsked ==
  [c \in {t1, t2} |->
     IF c = t2 THEN {"CheckAndMutateRow"}
     ELSE {"Apply", "CheckAndMutateRow", "ReadModifyWriteRow", "SampleRows"}]
============================================================================
