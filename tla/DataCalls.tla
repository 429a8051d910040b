----------------------------- MODULE DataCalls -----------------------------
(***************************************************************************)
(* The calls of Table: BulkApply() and AsyncBulkApply(), which are         *)
(* BulkMutator.tla, or calls on a single row and SampleRows() by several   *)
(* threads that share the row and the connections of a DataClient.  Reads  *)
(* are ReadRows.tla.                                                       *)
(*                                                                         *)
(* Synchronous calls have loops of their own or use UnaryClientUtils, the  *)
(* asynchronous ones are AsyncRetryOps, whose loop is AsyncLoop.tla.  Every*)
(* attempt takes a connection first.  The filter of CheckAndMutateRow()    *)
(* matches until the true mutations have been applied: a test-and-set.     *)
(***************************************************************************)
EXTENDS ChannelPool, DataOps, BulkMutator

CONSTANTS Asked,               \* Asked[c]: the functions thread c may call
          MaximumCallFailures, \* of the retry policy, in these calls
          Samples              \* the row keys SampleRowKeys returns

ASSUME CallAssumption ==
  /\ MaximumCallFailures \in Nat /\ Samples \in Nat
  /\ \A c \in Thread : Asked[c] \subseteq TableFunctions

VARIABLES policy,   \* idempotent_mutation_policy_ of the Table
          row,      \* whether the filter matches
          call      \* call[c]: the call of thread c

callVars == <<policy, row, call>>
dataVars == <<vars, poolVars, callVars>>

NoCall ==
  [pc |-> "idle", request |-> Request("none", "sync", FALSE, TRUE), failures |-> 0,
   status |-> "OK", cancelled |-> FALSE,
   matched |-> FALSE,   \* predicate_matched of the response
   read |-> 0,          \* the samples read from the stream
   samples |-> <<>>,    \* the samples accumulated
   executed |-> <<>>]   \* history: each time the server carried it out

NoBulkApply ==
  /\ mode \in Modes /\ pc = "unused" /\ status = "OK" /\ failure_count_ = 0
  /\ mutations_ = <<>> /\ annotations_ = <<>>
  /\ pending_mutations_ = <<>> /\ pending_annotations_ = <<>>
  /\ failures_ = <<>> /\ result = <<>>
  /\ confirmed = {} /\ sent = [i \in Mutation |-> 0]

DataInit ==
  /\ \/ Init /\ policy = "safe" /\ resets = MaxResets
     \/ NoBulkApply /\ mode = "sync" /\ policy \in {"safe", "always"} /\ resets = 0
  /\ stubs_ = <<>> /\ channels_ = <<>> /\ current_index_ = 0
  /\ creating = {} /\ uses = NoUses
  /\ row = TRUE /\ call = [c \in Thread |-> NoCall]

Set(c, k) == call' = [call EXCEPT ![c] = k]

Op(c) == call[c].request.op

Async(c) == call[c].request.style = "async"

-----------------------------------------------------------------------------
(* A function of Table is called.                                          *)
StartCall(c) ==
  /\ pc = "unused" /\ call[c].pc = "idle"
  /\ \E r \in Requests(policy) :
       r.op \in Asked[c] /\ Set(c, [NoCall EXCEPT !.pc = "ready", !.request = r])
  /\ UNCHANGED <<vars, poolVars, policy, row>>

(* The attempt waits for connections to be created.                        *)
Connect(c) ==
  /\ call[c].pc = "ready" /\ ~call[c].cancelled
  /\ CheckConnections(c)
  /\ UNCHANGED <<vars, callVars>>

(* impl_.Stub()->...: the request is sent.                                 *)
Send(c) ==
  /\ call[c].pc = "ready" /\ ~call[c].cancelled
  /\ Stub(c)
  /\ Set(c, [call[c] EXCEPT !.pc = "inflight", !.read = 0])
  /\ UNCHANGED <<vars, policy, row>>

-----------------------------------------------------------------------------
(* The server.                                                             *)

Unary(c) == call[c].pc = "inflight" /\ Op(c) # "SampleRows"

Failures(c) ==
  {"TRANSIENT", "PERMANENT"} \cup IF call[c].cancelled THEN {"CANCELLED"} ELSE {}

(* It does not get the request.                                            *)
Lose(c) ==
  /\ Unary(c)
  /\ \E st \in Failures(c) :
       Set(c, [call[c] EXCEPT !.pc = "answered", !.status = st])
  /\ UNCHANGED <<vars, poolVars, policy, row>>

(* It carries out the request, and answers or not.                         *)
Serve(c) ==
  /\ Unary(c)
  /\ row' = (row /\ Op(c) # "CheckAndMutateRow")
  /\ \E st \in {"OK"} \cup (Failures(c) \ {"PERMANENT"}) :
       Set(c, [call[c] EXCEPT !.pc = "answered", !.status = st,
                 !.matched = st = "OK" /\ row,
                 !.executed = Append(@, row)])
  /\ UNCHANGED <<vars, poolVars, policy>>

(* A response of SampleRowKeys.                                            *)
ReadSample(c) ==
  LET k == call[c]
  IN  /\ k.pc = "inflight" /\ Op(c) = "SampleRows" /\ k.read < Samples
      /\ Set(c, [k EXCEPT !.read = @ + 1, !.samples = Append(@, k.read + 1)])
      /\ UNCHANGED <<vars, poolVars, policy, row>>

(* Fault: the samples of an attempt that failed are kept.                  *)
ForgetSamples_Never(k, st) == k.samples

(* FinishedCallback of AsyncSampleRowKeys forgets the samples on failure;  *)
(* SampleRowsImpl() only before it tries again.                            *)
ForgetSamples(k, st) ==
  IF k.request.style = "async" /\ st # "OK" THEN <<>> ELSE k.samples

FinishStream(c) ==
  LET k == call[c]
  IN  /\ k.pc = "inflight" /\ Op(c) = "SampleRows"
      /\ \E st \in Failures(c) \cup IF k.read = Samples THEN {"OK"} ELSE {} :
           Set(c, [k EXCEPT !.pc = "answered", !.status = st,
                     !.samples = ForgetSamples(k, st)])
      /\ UNCHANGED <<vars, poolVars, policy, row>>

-----------------------------------------------------------------------------
(* After an attempt.                                                       *)

(* The policies and the loop are gone.                                     *)
Return(k, st) ==
  [k EXCEPT !.pc = "returned", !.status = st, !.failures = 0, !.read = 0,
            !.cancelled = FALSE]

(* RetryPolicy::OnFailure(), and the call may be repeated.                 *)
MayGoOn(k) ==
  k.request.retried /\ k.status = "TRANSIENT" /\ k.failures + 1 <= MaximumCallFailures

(* Apply(), MakeCall(), MakeNonIdemponentCall() and SampleRowsImpl(), which*)
(* reports INTERNAL and leaves what it has read.                           *)
SyncAnswered(c) ==
  LET k == call[c]
  IN  /\ k.pc = "answered" /\ ~Async(c)
      /\ Set(c, IF k.status = "OK" THEN Return(k, "OK")
                ELSE IF MayGoOn(k)
                THEN [k EXCEPT !.pc = "ready", !.failures = @ + 1, !.samples = <<>>]
                ELSE Return(k, IF Op(c) = "SampleRows" THEN "INTERNAL" ELSE k.status))
      /\ UNCHANGED <<vars, poolVars, policy, row>>

(* RetriableLoopAdapter::OnCompletion() and the loop around it.            *)
AsyncAnswered(c) ==
  LET k == call[c]
  IN  /\ k.pc = "answered" /\ Async(c)
      /\ Set(c, IF ~MayGoOn(k) THEN Return(k, k.status)
                ELSE IF k.cancelled THEN Return(k, "CANCELLED")
                ELSE [k EXCEPT !.pc = "ready", !.failures = @ + 1])
      /\ UNCHANGED <<vars, poolVars, policy, row>>

(* The application cancels an asynchronous call.  It has the handle once   *)
(* the first attempt is under way, and waits while another one is started. *)
CancelCall(c) ==
  LET k == call[c]
  IN  /\ Async(c) /\ ~k.cancelled /\ c \notin creating
      /\ k.pc \in {"inflight", "answered"} \/ (k.pc = "ready" /\ k.failures > 0)
      /\ Set(c, [k EXCEPT !.cancelled = TRUE])
      /\ UNCHANGED <<vars, poolVars, policy, row>>

(* It was waiting for its next attempt.                                    *)
OnTimerCancelled(c) ==
  /\ call[c].pc = "ready" /\ call[c].cancelled
  /\ Set(c, Return(call[c], "CANCELLED"))
  /\ UNCHANGED <<vars, poolVars, policy, row>>

ResetClient == pc = "unused" /\ Reset /\ UNCHANGED <<vars, callVars>>

AllReturned ==
  pc = "unused" /\ (\A c \in Thread : call[c].pc = "returned") /\ UNCHANGED dataVars

Attempt(c) == Lose(c) \/ Serve(c) \/ ReadSample(c) \/ FinishStream(c)

DataNext ==
  \/ Next /\ UNCHANGED <<poolVars, callVars>>
  \/ \E c \in Thread :
       \/ StartCall(c) \/ Connect(c) \/ Send(c)
       \/ Lose(c) \/ Serve(c) \/ ReadSample(c) \/ FinishStream(c)
       \/ SyncAnswered(c) \/ AsyncAnswered(c) \/ CancelCall(c) \/ OnTimerCancelled(c)
  \/ ResetClient \/ AllReturned

(* The threads are scheduled and channels get created; the server answers  *)
(* synchronous calls in the end, asynchronous ones for sure only once they *)
(* are cancelled.                                                          *)
DataFairness ==
  /\ WF_dataVars(Step /\ UNCHANGED <<poolVars, callVars>>)
  /\ WF_dataVars((\E st \in {"OK", "TRANSIENT", "PERMANENT"} : FinishRequest(st))
                   /\ UNCHANGED <<poolVars, callVars>>)
  /\ \A c \in Thread :
       /\ WF_dataVars(Connect(c) \/ Send(c))
       /\ WF_dataVars(Attempt(c) /\ (~Async(c) \/ call[c].cancelled))
       /\ WF_dataVars(SyncAnswered(c) \/ AsyncAnswered(c) \/ OnTimerCancelled(c))

DataSpec == DataInit /\ [][DataNext]_dataVars /\ DataFairness

-----------------------------------------------------------------------------
(* Properties.                                                             *)

(* The mutations of a BulkApply() are accounted for, each once and under   *)
(* its own index.                                                          *)
Accounted == pc # "unused" => Aligned /\ AccountedOnce

(* What must not be done twice is not: a mutation in a BulkApply() that is *)
(* not idempotent is sent once, and with SafeIdempotentMutationPolicy the  *)
(* server carries out a call that is not repeatable at most once, although *)
(* it may do so without the client getting its answer                      *)
(* (idempotent_mutation_policy.h: "only accepts truly idempotent           *)
(* mutations").                                                            *)
NonIdempotentOnce ==
  /\ NonIdempotentSentOnce
  /\ policy = "safe" =>
       \A c \in Thread : ~call[c].request.repeatable => Len(call[c].executed) <= 1

Succeeded(c, op) == call[c].pc = "returned" /\ call[c].status = "OK" /\ Op(c) = op

(* OK is the truth.  BulkApply() has applied everything; so have Apply()   *)
(* and ReadModifyWriteRow(); SampleRows() returns the samples of one       *)
(* complete stream, none of them from an attempt that failed               *)
(* (async_sample_row_keys.h: "The sample must be a consistent sample of    *)
(* the rows in the table"); and CheckAndMutateRow() says which mutations   *)
(* it executed (internal/table.h:399: "indicates whether true_mutations or *)
(* false_mutations were executed"), so that no two callers pass the same   *)
(* test.                                                                   *)
OkIsTrue ==
  /\ OkMeansApplied
  /\ \A c \in Thread :
       /\ Succeeded(c, "Apply") \/ Succeeded(c, "ReadModifyWriteRow")
            => call[c].executed # <<>>
       /\ Succeeded(c, "SampleRows") => call[c].samples = [i \in 1..Samples |-> i]
       /\ Succeeded(c, "CheckAndMutateRow") =>
            LET n == Len(call[c].executed)
            IN  n > 0 /\ call[c].executed[n] = call[c].matched
  /\ \A c, d \in Thread :
       /\ Succeeded(c, "CheckAndMutateRow") /\ call[c].matched
       /\ Succeeded(d, "CheckAndMutateRow") /\ call[d].matched
       => c = d

(* Every synchronous call returns and every cancelled one calls back,      *)
(* whatever the server does and however the connections are reset; see     *)
(* CallEnds for BulkApply().                                               *)
DataCallsEnd ==
  /\ pc = "unused" \/ CallEnds
  /\ \A c \in Thread :
       (call[c].pc # "idle" /\ (~Async(c) \/ call[c].cancelled)) ~> call[c].pc = "returned"

=============================================================================
