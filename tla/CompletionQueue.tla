--------------------------- MODULE CompletionQueue ---------------------------
(***************************************************************************)
(* CompletionQueueImpl and the operations it runs                          *)
(* (google/cloud/bigtable/internal/completion_queue_impl.{h,cc},           *)
(* completion_queue.h): timers, unary RPCs and RPCs with a stream of       *)
(* responses are registered under their address, gRPC returns that address *)
(* as the tag of an event, and one of the threads in Run() notifies the    *)
(* operation.  Addresses are reused, a stream has one outstanding request  *)
(* at a time but its events may reach different threads, Cancel() and      *)
(* Shutdown() come at any time.                                            *)
(***************************************************************************)
EXTENDS Naturals, Sequences, FiniteSets

CONSTANTS
  Runner,       \* the threads that call Run()
  Addr,         \* where an AsyncGrpcOperation can be allocated
  Kinds,        \* the operations the application makes
  MaxMade,      \* bound: how many operations it makes
  MaxData,      \* bound: how many responses a stream has
  NoAddr, NoThread, App

ASSUME QueueAssumption ==
  /\ NoAddr \notin Addr
  /\ NoThread \notin Runner \union {App}
  /\ App \notin Runner
  /\ Kinds \subseteq {"timer", "unary", "stream"}
  /\ MaxMade \in Nat /\ MaxData \in Nat

VARIABLES
  shutdown_,     \* CompletionQueueImpl::shutdown_
  pending_ops_,  \* CompletionQueueImpl::pending_ops_, its keys
  kind,          \* which class the object at an address is
  opMu,          \* the owner of the operation's mu_
  bound,         \* alarm_ or response_reader_ is not null
  state_,        \* AsyncUnaryStreamRpcFunctor::state_
  response_,     \* AsyncUnaryStreamRpcFunctor::response_ (0: empty)
  request,       \* gRPC: the request of the operation that is outstanding
  event,         \* gRPC: the completion that is in the queue for the tag
  left,          \* gRPC: the responses the server has still to send
  cancelled,     \* gRPC: the call or the alarm was cancelled
  data,          \* history: the responses given to data_functor_, in order
  final,         \* history: how often the last callback was called
  pc, held,      \* the runners: their position, and their `op` and `ok`
  okFlag,
  received,      \* the local `received` of Notify()
  appPc, appOp,  \* the application: its position, and the operation it makes
  handles,       \* the operations the application holds a pointer to
  made           \* how many operations the application made

objVars == <<kind, opMu, bound, state_, response_, data, final>>
grpcVars == <<request, event, left, cancelled>>
runVars == <<pc, held, okFlag, received>>
appVars == <<appPc, appOp, handles, made>>
vars == <<shutdown_, pending_ops_, objVars, grpcVars, runVars, appVars>>

Init ==
  /\ shutdown_ = FALSE
  /\ pending_ops_ = {}
  /\ kind = [a \in Addr |-> "none"]
  /\ opMu = [a \in Addr |-> NoThread]
  /\ bound = [a \in Addr |-> FALSE]
  /\ state_ = [a \in Addr |-> "CREATING"]
  /\ response_ = [a \in Addr |-> 0]
  /\ request = [a \in Addr |-> "none"]
  /\ event = [a \in Addr |-> "none"]
  /\ left = [a \in Addr |-> 0]
  /\ cancelled = [a \in Addr |-> FALSE]
  /\ data = [a \in Addr |-> <<>>]
  /\ final = [a \in Addr |-> 0]
  /\ pc = [r \in Runner |-> "Run"]
  /\ held = [r \in Runner |-> NoAddr]
  /\ okFlag = [r \in Runner |-> TRUE]
  /\ received = [r \in Runner |-> 0]
  /\ appPc = "idle" /\ appOp = NoAddr /\ handles = {} /\ made = 0

------------------------------------------------------------------------------
(* gRPC, as far as the library uses it.                                     *)

(* A request completes: its tag enters the queue.  Finish() and unary calls *)
(* always complete with ok, an alarm unless it was cancelled; starting a    *)
(* stream may fail, and so may a Read(), which otherwise stores the next    *)
(* response in response_.                                                   *)
Complete(a) ==
  /\ request[a] # "none"
  /\ event[a] = "none"
  /\ LET mayFail == \/ request[a] = "alarm" /\ cancelled[a]
                    \/ request[a] \in {"start", "read"}
         maySucceed == request[a] # "read" \/ left[a] > 0
     IN \/ /\ maySucceed
           /\ event' = [event EXCEPT ![a] = "ok"]
           /\ IF request[a] = "read"
                THEN /\ response_' = [response_ EXCEPT ![a] = MaxData + 1 - left[a]]
                     /\ left' = [left EXCEPT ![a] = @ - 1]
                ELSE UNCHANGED <<response_, left>>
        \/ /\ mayFail
           /\ event' = [event EXCEPT ![a] = "failed"]
           /\ UNCHANGED <<response_, left>>
  /\ request' = [request EXCEPT ![a] = "none"]
  /\ UNCHANGED <<shutdown_, pending_ops_, kind, opMu, bound, state_, data, final,
                 cancelled, runVars, appVars>>

Submit(a, q) == request' = [request EXCEPT ![a] = q]

------------------------------------------------------------------------------
(* The application: Make*(), Cancel(), Shutdown().                          *)

(* No shared_ptr refers to the memory at a.                                 *)
Unreferenced(a) ==
  /\ a \notin pending_ops_ \union handles
  /\ appOp # a
  /\ \A r \in Runner : held[r] # a

(* std::make_shared<...>() and RegisterOperation().                         *)
RegisterOperation(k) ==
  /\ appPc = "idle" /\ made < MaxMade /\ ~shutdown_
  /\ \E a \in Addr :
       /\ Unreferenced(a)
       /\ pending_ops_' = pending_ops_ \union {a}
       /\ kind' = [kind EXCEPT ![a] = k]
       /\ bound' = [bound EXCEPT ![a] = k = "timer"]
       /\ state_' = [state_ EXCEPT ![a] = "CREATING"]
       /\ response_' = [response_ EXCEPT ![a] = 0]
       /\ cancelled' = [cancelled EXCEPT ![a] = FALSE]
       /\ data' = [data EXCEPT ![a] = <<>>]
       /\ final' = [final EXCEPT ![a] = 0]
       /\ left' = [left EXCEPT ![a] = IF k = "stream" THEN MaxData ELSE 0]
       /\ appOp' = a
  /\ appPc' = "Set"
  /\ made' = made + 1
  /\ UNCHANGED <<shutdown_, opMu, request, event, runVars, handles>>

(* Set() of a timer (with its mutex) and of a unary RPC (without one): the  *)
(* operation can complete as soon as it is submitted.                       *)
SetSimple ==
  /\ appPc = "Set" /\ kind[appOp] \in {"timer", "unary"}
  /\ opMu[appOp] = NoThread
  /\ Submit(appOp, IF kind[appOp] = "timer" THEN "alarm" ELSE "rpc")
  /\ handles' = handles \union {appOp}
  /\ appPc' = "idle" /\ appOp' = NoAddr
  /\ UNCHANGED <<shutdown_, pending_ops_, objVars, event, left, cancelled,
                 runVars, made>>

(* Set() of a stream: the call is started with the mutex held, and the      *)
(* start may complete before response_reader_ is assigned.                  *)
SetStream ==
  /\ appPc = "Set" /\ kind[appOp] = "stream"
  /\ opMu[appOp] = NoThread
  /\ opMu' = [opMu EXCEPT ![appOp] = App]
  /\ Submit(appOp, "start")
  /\ appPc' = "SetReader"
  /\ UNCHANGED <<shutdown_, pending_ops_, kind, bound, state_, response_, data,
                 final, event, left, cancelled, runVars, appOp, handles, made>>

SetReader ==
  /\ appPc = "SetReader"
  /\ bound' = [bound EXCEPT ![appOp] = TRUE]
  /\ opMu' = [opMu EXCEPT ![appOp] = IF @ = App THEN NoThread ELSE @]
  /\ handles' = handles \union {appOp}
  /\ appPc' = "idle" /\ appOp' = NoAddr
  /\ UNCHANGED <<shutdown_, pending_ops_, kind, state_, response_, data, final,
                 grpcVars, runVars, made>>

(* Cancel(), from any thread that holds the pointer; a timer that was       *)
(* notified has no alarm_ any more.                                         *)
Cancel(a) ==
  /\ a \in handles
  /\ kind[a] = "unary" \/ opMu[a] = NoThread
  /\ ~cancelled[a]
  /\ cancelled' = [cancelled EXCEPT ![a] = kind[a] # "timer" \/ bound[a]]
  /\ UNCHANGED <<shutdown_, pending_ops_, objVars, request, event, left,
                 runVars, appVars>>

(* The application lets go of its pointer.                                  *)
Release(a) ==
  /\ a \in handles
  /\ handles' = handles \ {a}
  /\ UNCHANGED <<shutdown_, pending_ops_, objVars, grpcVars, runVars, appPc,
                 appOp, made>>

Shutdown ==
  /\ ~shutdown_
  /\ shutdown_' = TRUE
  /\ UNCHANGED <<pending_ops_, objVars, grpcVars, runVars, appVars>>

------------------------------------------------------------------------------
(* Run() and Notify().                                                      *)

(* The end of the loop body: its local variables go out of scope.           *)
EndOfScope(r) ==
  /\ held' = [held EXCEPT ![r] = NoAddr]
  /\ okFlag' = [okFlag EXCEPT ![r] = TRUE]
  /\ UNCHANGED received

(* shutdown_.load() returns true, or AsyncNext() returns SHUTDOWN.          *)
Stopped == shutdown_

(* while (not shutdown_.load()).                                            *)
RunLoop(r) ==
  /\ pc[r] = "Run"
  /\ pc' = [pc EXCEPT ![r] = IF Stopped THEN "exited" ELSE "AsyncNext"]
  /\ UNCHANGED <<shutdown_, pending_ops_, objVars, grpcVars, held, okFlag, received, appVars>>

(* AsyncNext() has an event: FindOperation() returns the operation.         *)
GotEvent(r, a) ==
  /\ pc[r] = "AsyncNext" /\ event[a] # "none"
  /\ a \in pending_ops_
  /\ event' = [event EXCEPT ![a] = "none"]
  /\ held' = [held EXCEPT ![r] = a]
  /\ okFlag' = [okFlag EXCEPT ![r] = event[a] = "ok"]
  /\ pc' = [pc EXCEPT ![r] = "Notify"]
  /\ UNCHANGED <<shutdown_, pending_ops_, objVars, request, left, cancelled,
                 received, appVars>>

(* AsyncNext() times out, or the queue was shut down.                       *)
NoEvent(r) ==
  /\ pc[r] = "AsyncNext"
  /\ \A a \in Addr : event[a] = "none"
  /\ pc' = [pc EXCEPT ![r] = IF Stopped THEN "exited" ELSE "Run"]
  /\ UNCHANGED <<shutdown_, pending_ops_, objVars, grpcVars, held, okFlag, received, appVars>>

(* AsyncTimerFunctor::Notify() resets the alarm with the mutex and calls    *)
(* the functor without it; AsyncUnaryRpcFunctor::Notify() has no mutex.     *)
NotifySimple(r) ==
  /\ pc[r] = "Notify" /\ kind[held[r]] \in {"timer", "unary"}
  /\ kind[held[r]] = "timer" => opMu[held[r]] = NoThread
  /\ bound' = [bound EXCEPT ![held[r]] = FALSE]
  /\ pc' = [pc EXCEPT ![r] = "finalCallback"]
  /\ UNCHANGED <<shutdown_, pending_ops_, kind, opMu, state_, response_, data,
                 final, grpcVars, held, okFlag, received, appVars>>

(* AsyncUnaryStreamRpcFunctor::Notify() takes the mutex ...                 *)
NotifyStream(r) ==
  /\ pc[r] = "Notify" /\ kind[held[r]] = "stream"
  /\ opMu[held[r]] = NoThread
  /\ opMu' = [opMu EXCEPT ![held[r]] = r]
  /\ pc' = [pc EXCEPT ![r] = "switch"]
  /\ UNCHANGED <<shutdown_, pending_ops_, kind, bound, state_, response_, data,
                 final, grpcVars, held, okFlag, received, appVars>>

(* Fault: the end of the stream is reported when the last Read() fails, and *)
(* the stream is still asked for its status.                                *)
SwitchSubmit_Early(r) ==
  /\ pc[r] = "switch" /\ state_[held[r]] # "FINISHING"
  /\ state_[held[r]] = "PROCESSING" => ~okFlag[r]
  /\ Submit(held[r], IF okFlag[r] THEN "read" ELSE "finish")
  /\ pc' = [pc EXCEPT ![r] = IF okFlag[r] THEN "setState" ELSE "finalCallback"]
  /\ UNCHANGED <<shutdown_, pending_ops_, objVars, event, left, cancelled, held,
                 okFlag, received, appVars>>

(* ... and, unless there are data or the end to deliver, submits the next   *)
(* request, whose completion may reach another runner at once.              *)
SwitchSubmit(r) ==
  /\ pc[r] = "switch" /\ state_[held[r]] # "FINISHING"
  /\ state_[held[r]] = "PROCESSING" => ~okFlag[r]
  /\ Submit(held[r], IF okFlag[r] THEN "read" ELSE "finish")
  /\ pc' = [pc EXCEPT ![r] = "setState"]
  /\ UNCHANGED <<shutdown_, pending_ops_, objVars, event, left, cancelled, held,
                 okFlag, received, appVars>>

(* The assignment to state_, and the end of Notify(), which returns false.  *)
SetState(r) ==
  /\ pc[r] = "setState"
  /\ state_' = [state_ EXCEPT ![held[r]] = IF okFlag[r] THEN "PROCESSING"
                                                        ELSE "FINISHING"]
  /\ opMu' = [opMu EXCEPT ![held[r]] = NoThread]
  /\ pc' = [pc EXCEPT ![r] = "Run"]
  /\ EndOfScope(r)
  /\ UNCHANGED <<shutdown_, pending_ops_, kind, bound, response_, data, final,
                 grpcVars, appVars>>

(* Fault: the next Read() is submitted before data_functor_ is called.      *)
SwitchData_ReadFirst(r) ==
  /\ pc[r] = "switch" /\ state_[held[r]] = "PROCESSING" /\ okFlag[r]
  /\ received' = [received EXCEPT ![r] = response_[held[r]]]
  /\ response_' = [response_ EXCEPT ![held[r]] = 0]
  /\ opMu' = [opMu EXCEPT ![held[r]] = NoThread]
  /\ Submit(held[r], "read")
  /\ pc' = [pc EXCEPT ![r] = "dataCallback"]
  /\ UNCHANGED <<shutdown_, pending_ops_, kind, bound, state_, data, final, event,
                 left, cancelled, held, okFlag, appVars>>

(* Data: swap response_ out and unlock.                                     *)
SwitchData(r) ==
  /\ pc[r] = "switch" /\ state_[held[r]] = "PROCESSING" /\ okFlag[r]
  /\ received' = [received EXCEPT ![r] = response_[held[r]]]
  /\ response_' = [response_ EXCEPT ![held[r]] = 0]
  /\ opMu' = [opMu EXCEPT ![held[r]] = NoThread]
  /\ pc' = [pc EXCEPT ![r] = "dataCallback"]
  /\ UNCHANGED <<shutdown_, pending_ops_, kind, bound, state_, data, final,
                 grpcVars, held, okFlag, appVars>>

(* data_functor_(cq, *context_, received), without the mutex.               *)
DataCallback(r) ==
  /\ pc[r] = "dataCallback"
  /\ data' = [data EXCEPT ![held[r]] = Append(@, received[r])]
  /\ received' = [received EXCEPT ![r] = 0]
  /\ pc' = [pc EXCEPT ![r] = "dataReturned"]
  /\ UNCHANGED <<shutdown_, pending_ops_, kind, opMu, bound, state_, response_,
                 final, grpcVars, held, okFlag, appVars>>

(* Fault: no further Read() after a response.                               *)
DataReturned_NoRead(r) ==
  /\ pc[r] = "dataReturned"
  /\ pc' = [pc EXCEPT ![r] = "Run"]
  /\ EndOfScope(r)
  /\ UNCHANGED <<shutdown_, pending_ops_, objVars, grpcVars, appVars>>

(* data_functor_ returned: lock, Read() again, and return false.            *)
DataReturned(r) ==
  /\ pc[r] = "dataReturned"
  /\ opMu[held[r]] = NoThread
  /\ opMu' = [opMu EXCEPT ![held[r]] = r]
  /\ Submit(held[r], "read")
  /\ pc' = [pc EXCEPT ![r] = "setState"]
  /\ UNCHANGED <<shutdown_, pending_ops_, kind, bound, state_, response_, data,
                 final, event, left, cancelled, held, okFlag, received, appVars>>

(* The end of the stream: unlock, and finished_functor_ is called.          *)
SwitchFinished(r) ==
  /\ pc[r] = "switch" /\ state_[held[r]] = "FINISHING"
  /\ opMu' = [opMu EXCEPT ![held[r]] = NoThread]
  /\ pc' = [pc EXCEPT ![r] = "finalCallback"]
  /\ UNCHANGED <<shutdown_, pending_ops_, kind, bound, state_, response_, data,
                 final, grpcVars, held, okFlag, received, appVars>>

(* The last callback of the operation runs and Notify() returns true.       *)
FinalCallback(r) ==
  /\ pc[r] = "finalCallback"
  /\ final' = [final EXCEPT ![held[r]] = @ + 1]
  /\ pc' = [pc EXCEPT ![r] = "Forget"]
  /\ UNCHANGED <<shutdown_, pending_ops_, kind, opMu, bound, state_, response_,
                 data, grpcVars, held, okFlag, received, appVars>>

ForgetOperation(r) ==
  /\ pc[r] = "Forget"
  /\ pending_ops_' = pending_ops_ \ {held[r]}
  /\ pc' = [pc EXCEPT ![r] = "Run"]
  /\ EndOfScope(r)
  /\ UNCHANGED <<shutdown_, objVars, grpcVars, appVars>>

(* Every thread left Run(); the operations that were pending stay so.       *)
Terminated ==
  /\ \A r \in Runner : pc[r] = "exited"
  /\ UNCHANGED vars

RunnerStep(r) ==
  \/ RunLoop(r) \/ NoEvent(r) \/ \E a \in Addr : GotEvent(r, a)
  \/ NotifySimple(r) \/ NotifyStream(r) \/ SwitchSubmit(r) \/ SetState(r)
  \/ SwitchData(r) \/ DataCallback(r) \/ DataReturned(r) \/ SwitchFinished(r)
  \/ FinalCallback(r) \/ ForgetOperation(r)

SetStep == SetSimple \/ SetStream \/ SetReader

AppStep ==
  \/ \E k \in Kinds : RegisterOperation(k)
  \/ SetStep
  \/ \E a \in Addr : Cancel(a) \/ Release(a)
  \/ Shutdown

Next ==
  \/ \E r \in Runner : RunnerStep(r)
  \/ AppStep
  \/ \E a \in Addr : Complete(a)
  \/ Terminated

(* Threads are scheduled and gRPC completes what it was asked.  A thread    *)
(* that waits for a mutex or for an event gets it if it comes up again and  *)
(* again.                                                                   *)
Fairness ==
  /\ \A r \in Runner : WF_vars(RunnerStep(r))
  /\ \A a \in Addr : SF_vars(\E r \in Runner : GotEvent(r, a))
  /\ WF_vars(SetStep)
  /\ \A a \in Addr : WF_vars(Complete(a))

Spec == Init /\ [][Next]_vars

FairSpec == Spec /\ Fairness

------------------------------------------------------------------------------
(* Properties.                                                              *)

(* The assertions of FindOperation() and ForgetOperation() hold: a tag in   *)
(* the queue or in the hands of a runner is registered, and it is           *)
(* registered for the operation that made the request, although addresses   *)
(* are reused (completion_queue_impl.cc: Run, RegisterOperation).           *)
TagsRegistered ==
  /\ \A a \in Addr : event[a] # "none" \/ request[a] # "none" => a \in pending_ops_
  /\ \A r \in Runner : held[r] # NoAddr => held[r] \in pending_ops_
  /\ \A a \in Addr : final[a] = 1 /\ a \in pending_ops_
                       => event[a] = "none" /\ request[a] = "none"

(* A stream has one outstanding request, nobody is in a callback of the     *)
(* stream while the next response may arrive, and the responses reach       *)
(* data_functor_ in the order the server sent them, without gaps or         *)
(* repetitions (completion_queue_impl.h: "not submitting the next Read()    *)
(* until the user callback finishes").  Notify() uses response_reader_ only *)
(* after Set() has assigned it (the comment on mu_).                        *)
StreamInOrder ==
  /\ \A r \in Runner : pc[r] = "switch" => bound[held[r]]
  /\ \A a \in Addr :
       /\ request[a] = "none" \/ event[a] = "none"
       /\ data[a] = [i \in 1..Len(data[a]) |-> i]
       /\ \A r \in Runner :
            held[r] = a /\ pc[r] \in {"dataCallback", "dataReturned", "finalCallback"}
              => /\ request[a] = "none" /\ event[a] = "none"
                 /\ \A q \in Runner : held[q] = a => q = r

(* Unless the queue is shut down, every operation the application made is   *)
(* notified for the last time and forgotten; after Shutdown() every thread  *)
(* leaves Run() (completion_queue_impl.cc: Run).                            *)
EveryOperationEnds ==
  /\ \A a \in Addr : a \in pending_ops_ ~> (a \notin pending_ops_ \/ shutdown_)
  /\ shutdown_ ~> \A r \in Runner : pc[r] = "exited"
==============================================================================
