# Specifications of google-cloud-cpp

TLA+ specifications of google-cloud-cpp: of the Bigtable client, its asynchronous
calls and the completion queue under them, its data API and its administration;
of the storage client, its retries, its metadata, its uploads and downloads; and
of the futures both use. TLC checks them on small instances; TLAPS proves the
safety properties that the runs check for every instance. `PROJECT.json` has, for
every definition, the lines of the source that it models.

## The system

google-cloud-cpp is a set of client libraries. They keep nothing on disk: what
they keep is the state of calls in progress. What can go wrong is in how calls
are retried, resumed, cancelled and reported, and in what threads share.

### Bigtable

| Component | State | Operations | Hard behaviours | What makes it correct |
|---|---|---|---|---|
| `AsyncLoopOp` (`bigtable/internal/async_loop_op.h`) | `cancelled_`, `current_op_`, `mu_` | `Start`, `OnCompletion`, `OnTimer`, `Cancel` | cancellation in any thread, at any point | the callback is called once, without locks; nothing is submitted after `Cancel` |
| `AsyncRetryOp`, `AsyncRetryMultiPage`, `AsyncPollOp` | policies, accumulated pages, the operation polled | the three functions `AsyncLoopOp` calls | errors that race cancellations, exhausted policies | retries are bounded, calls that are not idempotent are sent once, all pages are retrieved |
| two-phase calls (`async_retry_unary_rpc_and_poll.h`, `async_check_consistency.h`) | the phase, `cancelled_`, `current_op_` | `Start`, the end of each phase, `Cancel` | cancellation between the phases | as for the loop; no poll after `Cancel` |
| `CompletionQueue` | `pending_ops_`, `shutdown_`, the state of streams | `Make...`, `Run` in several threads, `Notify`, `Shutdown` | completions before registration, reuse of addresses | a completion finds its operation, callbacks of a stream are serial |
| `BulkMutator`, `AsyncBulkApply` | current and pending mutations and annotations, failures | one request, its partial results, the next request | streams that end early, mutations that may not be repeated | every mutation is confirmed, reported or pending, and keeps its index |
| `Table`: `Apply`, `CheckAndMutateRow`, `ReadModifyWriteRow`, `SampleRows` | policies, the response so far | synchronous and asynchronous calls | answers that are lost after the server has acted | OK is the truth; nothing that may not be repeated is |
| `CommonClient` | `channels_`, `stubs_`, `current_index_` | `Stub`, `Channel`, `reset` | two threads create the channels, `reset()` clears them in between | the index is one of the pool; connections are used in turn |
| `RowRange`, `RowSet`, `PrefixRangeEnd` | ranges and keys | `Intersect`, `Append`, `IsEmpty` | open and closed bounds, empty sets that mean all rows | the set of keys is the one asked for |
| `ReadRowsParser` | the row and cell in progress | `HandleChunk`, `HandleEndOfStream`, `Next` | malformed and interrupted sequences of chunks | rows are whole, in order |
| `RowReader`, `AsyncRowReader`, `ReadRow` | the stream, the parser, the row set and limit left | iteration, retry after the last row, `Cancel` | a stream that breaks anywhere | no row is skipped, repeated, torn or beyond the limit |
| `TableAdmin`, `InstanceAdmin` | policies, operations and tokens that are polled | every operation, synchronous or asynchronous | lost answers, long-running operations, replication | a refusal is not the echo of the call's own first attempt; OK means done |

### Storage and common

| Component | State | Operations | Hard behaviours | What makes it correct |
|---|---|---|---|---|
| `Client`, `RetryClient`, `LoggingClient`, `CurlClient` | policies, the attempt | every operation of `RawClient` | a change whose answer is lost, preconditions, other clients | a call changes the service at most once |
| metadata of buckets, objects and notifications | fields | `ParseFromJson`, `ToJsonString`, patches | two clients read, edit and write back | no write is lost to another that did not mean it |
| lifecycle rules | conditions | `ConditionConjunction` | bounds that are merged | the conjunction is one |
| resumable upload sessions | `next_expected_`, the retry policy | `UploadChunk`, `ResetSession` | lost answers, chunks stored in part, policies that expire | the object is what was to be uploaded |
| `UploadStreamResumable`, `ObjectWriteStream` | the position in the file; the buffer, the put area, the hash | the upload loop; `write`, `put`, `flush`, `Close` | going back, the last chunk, failures while closing | success means that the object is intact |
| `CurlDownloadRequest`, `CurlUploadRequest` and their streams | two buffers, `closing_`, `curl_closed_`, the pause of the transfer | libcurl's callbacks, `GetMore`, `SwapBuffers`, `Close`, the destructors | callbacks and application alternate; connections break | no byte is lost, repeated or reordered; a good end means a whole object |
| `PooledCurlHandleFactory`, `RefreshingCredentialsWrapper` | the pools; the token and its expiration | `CreateHandle`, `CleanupHandle`; `AuthorizationHeader`, `Refresh` | several threads, requests that fail before they are built | a handle has one user; one thread refreshes |
| `future`, `promise` | the shared state, its continuation, its waiting threads | `set_value`, `then`, `get`, `wait_for`, abandonment | `then` races `set_value`, futures of futures | the functor is called once, the result arrives |
| `ListBucketsReader`, `ListObjectsReader`, `ObjectRewriter` | the token of the next part | `GetNext`, `Iterate` | a token used by an attempt whose answer is lost, empty pages | without an error, the listing or the copy is complete |
| filters and configuration, status and logging, Firestore field paths | see `PROJECT.json` | | | left out, see below |

### How they interact

The asynchronous calls of the Bigtable client are an adapter (retry, pages, poll)
inside an `AsyncLoopOp`; the loop submits requests and timers to the
`CompletionQueue` and is called back by the threads in its `Run()`.
`AsyncBulkApply`, `AsyncRowReader` and the asynchronous calls of `Table` are
operations of `AsyncRetryOp`; their synchronous versions have loops of their own
around the same `BulkMutator` and `ReadRowsParser`, or use `UnaryClientUtils`.
Every attempt takes a stub from `CommonClient`. `RowReader` uses
`RowSet::Intersect` to go on after the last row. Administrative calls run one loop
after another: the call, then the poll of what it returned.

In the storage client a call goes through `RetryClient` and `LoggingClient` to
`CurlClient`, which takes a handle from the pool and a header from the credentials.
`UploadFile` uses a session wrapped in `RetryResumableUploadSession`, `WriteObject`
the bare one, or none: then, as in `ReadObject`, a stream exchanges buffers with
the callbacks of libcurl.

## The modules

| Module | Models | Notes |
|---|---|---|
| `AsyncLoop` | `AsyncLoopOp` | one step per critical section; a starter, the runners of the queue and cancelling threads; requests and timers of the queue are `Op`s |
| `AsyncAdapters` | the three adapters, polling policy, retry policy | extends `AsyncLoop` and implements it: its actions refine the loop's choice of when an attempt ends the loop |
| `CompletionQueue` | registration, `Run`, timers, unary calls, streams | operations are identified by the address they are registered under, and addresses are reused |
| `BulkMutator` | `BulkMutator`, the loop of `BulkApply`, `AsyncBulkApply` | which mutations are idempotent is chosen initially; the server answers any of them with any status, at any index; `InOrder` is the one order in which `FinishRequest` walks over what is left |
| `ChannelPool` | `CommonClient` | the creation of channels and its publication are two steps |
| `DataOps`, `DataCalls` | the calls of `Table` on single rows, `SampleRows()`; composed with `ChannelPool` and `BulkMutator` | `TableFunctions` names the functions of `Table` behind each call; the server may act and lose its answer; `CheckAndMutateRow()` is a test-and-set |
| `RowRanges`, `RowSets` | `RowRange`, `RowSet` | keys are an ordered set with the empty key and the consecutive pairs that `IsEmpty` knows about |
| `PrefixRange` | `PrefixRangeEnd` | real strings of bytes and their order; checked together with `RowSets` |
| `ReadRowsParser` | the parser, as operators | a cell is the row it comes from |
| `ReadRows` | `RowReader`, `AsyncRowReader`, `ReadRow()`, `AsyncReadRow()` | uses `ReadRowsParser` and `RowRanges`; the server holds the rows it has been asked for and how far it has sent them; responses of one or two chunks, some garbled |
| `AdminOps` | every operation of `TableAdmin` and `InstanceAdmin` | how it is called, which RPC it is, how its outcome is reported; `ApiImplemented` says that the functions of both classes are those of the table |
| `AdminService` | the administration service | as the emulator of the repository implements it |
| `AdminCalls` | the calls, in both phases, with cancellations | the loops within a phase are those of `AsyncLoop` |
| `StorageOps`, `StorageLayers` | every operation of the storage client in each layer | the options it accepts and sends, the verdict of the idempotency policies, how a failure reaches the application |
| `StorageService` | the storage service | as the testbench of the repository implements it: handlers and their preconditions |
| `AtMostOnce` | abstract | what retries promise: a call changes the service at most once, unless somebody else changed it since |
| `StorageCalls` | calls of several threads; the readers and the rewriter, which make one call after another | implements `AtMostOnce` |
| `StorageMetadata` | the metadata classes and the patch requests | a document is a function on the fields it has; which fields each conversion carries, and what it makes of absent, empty and false |
| `LifecycleRules` | `ConditionConjunction` | |
| `Future` | the shared states of a chain of continuations | the state of link 0 is that of the promise, `then()` number i attaches link i |
| `UploadSession` | `CurlResumableUploadSession`, `RetryResumableUploadSession`, the retry policies, the server | `mishap` is a history variable that records what went wrong on the way, so that a property can say under which mishaps it holds |
| `UploadStream` | `Client::UploadStreamResumable` | bytes are numbered, so that loss, repetition and order show |
| `WriteStream` | `ObjectWriteStream` over `CurlResumableStreambuf` | the string and the put area are separate, as in the code |
| `Transport` | the pools of handles, the credentials | one request per thread, from its builder to its destructor |
| `Download` | `ObjectReadStream`, `CurlReadStreambuf`, `CurlDownloadRequest` | blocks are numbered |
| `StreamingUpload` | `ObjectWriteStream` over `CurlWriteStreambuf`, `CurlUploadRequest` | shares the stream's variables with `WriteStream` |
| `Transfers` | composes the previous six | `user` says which of them a behaviour is about; a read or streaming upload runs together with the `Transport` of its request |
| `...Proofs` | theorems | of `AsyncLoop`, `AsyncAdapters`, `CompletionQueue`, `DataCalls` with `BulkMutator` and `ChannelPool`, `ReadRows` with `RowSets` and `PrefixRange`, `AdminCalls`, `StorageCalls` and `StorageMetadata` (`StorageProofs`), `Transfers` with the six modules it composes, `Future` |
| `MC...` | instances for TLC | `AsyncAdapters`, `CompletionQueue`, `StorageMetadata` and `LifecycleRules` need none: their configurations have their names |

Operators called `X_Something`, with a comment that begins with "Fault" or
"mutant", are versions of `X` with a plausible bug. They are not used by the
specifications: replacing `X` by one of them makes TLC report the property named
in `PROJECT.json`, which shows that the property can fail.

What is external is modelled from how the code uses it: the gRPC queue (delivers
each completion once, in any order), the Bigtable server (as the comments in
`ReadRows`, `BulkMutator` and `DataCalls` say), the server of upload sessions,
libcurl, `std::istream` and `std::streambuf`. The storage and administration
services of `StorageService` and `AdminService` are not external: they translate
the testbench and the emulator of the repository.

## The runs

States are distinct states, times are with two workers.

| Run | Shows | Bounds | States, time |
|---|---|---|---|
| `adapters` | the guarantees of the loop, among them that no callback runs with its mutex held; the adapters implement `AsyncLoop`; budgets, idempotency, pages; cancelled calls end, and every call if the server answers | two runners, one cancelling thread and a callback that may cancel, two failures, two pages, three requests or timers (their names are used again) | 200,238, 1 min |
| `completion_queue` | completions find their operations; callbacks of streams are serial and ordered; operations end and `Run()` returns | three operations that use one address after the other, two runners, streams of two messages | 11,293, 2 s |
| `data_calls` | mutations are accounted for once, keep their index and are repeated only if idempotent; OK is the truth, also about who passed a test-and-set; connections are used in turn; calls end | three mutations, two failures; or two threads, one with any call, one with `CheckAndMutateRow()`, one failure, two connections and one `reset()` | 442,254, 2 min |
| `row_sets` | a row set denotes what was asked for; the range of a prefix contains all keys with the prefix, and but for trailing zeros only those | five keys, two entries: all shapes of two ranges on both sides of a key; prefixes of two of four bytes | 8,022, 11 s |
| `read_rows` | rows are not skipped or torn, limits are kept, OK means complete, streams are finished, reads end | three rows, two failures, limits 0, 1 and 2, six shapes of row sets that the retry has to cut | 136,235, 1 min |
| `future` | functors are called once, results arrive | two threads at the promise, a chain of two continuations with unwrapped futures | 49,308, 6 s |
| `transfers` | a good end means a whole object; no byte is dropped in a buffer; handles and the token are shared safely; no wait is for ever | three chunks of two quanta, two failures; a buffer of two quanta and eleven bytes, or six without a session; objects of up to five blocks and a buffer of two; two threads with three requests and a pool of one handle | 663,759, 2 min |
| `storage_calls` | `StorageCalls` implements `AtMostOnce`; preconditions are honoured; a call has its own budget and returns; listings and rewrites are complete | two threads, one with any operation and any one precondition, one with calls that get in its way, one failure, three pages or steps | 297,750, 2 min |
| `storage_metadata` | a patch changes exactly what was edited; no write is lost but to an unguarded full update | two clients, one edit each, all fields, on a resource that is missing, bare, full, or has one key in its map | 361,696, 10 s |
| `admin` | a refusal is true; OK means done; no second phase after a cancellation; calls end | one call of any kind, another that deletes the instance or creates the table, one failure, two polls, two pages; everything, nothing, or all but the table exists at first | 440,995, 2 min |
| `upload_lost`, `lifecycle_conjunction` | two disagreements between code and documentation, below | as small as they can be | |

The bounds are those at which every branch of the code is taken, together with
one more turn of each loop. Counters in the code (attempts, failures, rows) are
bounded by the policies and by the size of the table, so no bound cuts a
behaviour short except `MaxMade`, `MaxData`, `MaxResets`, `MaxWrites`,
`MaxEntries`, `MaxParts`, `MaxBytes`, `MaxSimpleBytes` and `MaxRequests`, which limit what the
application or the server does. In `completion_queue` operations at different
addresses do not overlap: two addresses need more than half a million states with
the temporal properties, and what such operations share is the map, whose steps
are atomic, and the runners. In `data_calls` a behaviour is either a `BulkApply()`
or calls of single rows, in `transfers` it has one `user`: they would share no
more than connections and handles, which are in both. A stream meets the other
requests of its client only in the pools, so `transfers` runs it against requests
of its own thread and checks the sharing with requests of several threads.

There are no symmetry sets: most runs check temporal properties. `storage_calls`,
`storage_metadata` and `admin` have no deadlock detection, since a behaviour ends
when all its calls have returned; so does that of `lifecycle_conjunction`. The
others stutter explicitly where they may stop.

`storage_calls` leaves four kinds of calls out: If-Match on anything but the
policy of a bucket and preconditions on the destination of a copy, which the
testbench does not check, and the two for which the properties do not hold, below.

### Refinements

- `ImplementsLoop`: the adapters implement `AsyncLoop`, with the loop's variables as
  they are and the adapters' own hidden. Also proved.
- `RetriesChangeOnce`: `StorageCalls` implements `AtMostOnce`. A call is open from its
  start to its return; `changes` and `stirred` are history variables of the call.

### Where the code and its documentation disagree

Two runs are expected to find a violation of what a comment in the repository
states; `PROJECT.json` quotes it.

| Run | What happens |
|---|---|
| `upload_lost` | after a lost answer `RetryResumableUploadSession` sends the same bytes at the new position (`retry_resumable_upload_session.cc:44`), and the object has them twice |
| `lifecycle_conjunction` | `ConditionConjunction()` keeps the smaller of two ages and the later of two dates (`lifecycle_rule.cc:141`), so that it is satisfied when not all of its conditions are |

Other disagreements are conditions in the properties of the passing runs. The
second column says how to make TLC report them.

| What happens in Bigtable | How to see it |
|---|---|
| `AsyncRetryMultiPage` charges the policy for pages that succeed (`async_retry_multi_page.h:129`), so that a listing with more pages than errors are allowed ends early, with status OK, although it "will keep calling Operation::Start() to retrieve all parts" (`:34`) | drop `IsExhausted` from `SuccessExact`, set `Pages = 4` |
| a server that confirms only part of the mutations with an OK status keeps `BulkApply` going for ever: the policy is asked only about errors | drop the last disjunct of `CallEnds` |
| mutations still pending at the end are reported with the index -1, not with the original one (`bulk_mutator.cc:153`) | drop `result[k].status # "OK"` from `Aligned` |
| the end of a prefix with trailing `0xFF` is not "the smallest key" (`prefix_range_end.h:30`) | drop the last disjunct of `PrefixExact` |
| `AsyncRowReader` keeps one parser for all its streams (`async_row_reader.h:74`); after a stream that broke inside a row, the row has a cell twice ("a single and unique parser should be used for each stream", `readrowsparser.h:46`) | drop `mode = "sync"` from `RowsWhole` |
| `AsyncRowReader` retries after the last row it may return with a `rows_limit` of 0, which means no limit (`async_row_reader.h:133`) | use `rows_limit_` for both modes in `NoRowSkipped` |
| asynchronous calls repeat `DeleteInstance()`, `DeleteCluster()` and `CreateAppProfile()`, which synchronous calls do not, so that they may be refused because of their own first attempt | drop `k.style = "sync"` from `NotIdempotent` |
| asynchronous calls do not notice a long-running operation whose response is of another type | drop the last disjunct of `OkMeansDone` |

| What happens in storage and futures | How to see it |
|---|---|
| a promise is destroyed after `then()`: `abandon()` (`future_impl.h:177`) does not run the continuation, and the future that `then()` returned is never satisfied; nor is it if a functor throws `std::future_error` (`future_impl.h:562`) | drop `Cut` from `ResultArrives` |
| the last chunk of a file is stored in part: `failbit` is set, `seekg()` does nothing (`client.cc:137`), and the object is truncated | check `ObjectIsFile` with `LostResponses = FALSE`, `PartialCommits = "any"` |
| a restored session is filled from the beginning of the file (`client.cc:121`) | check `ObjectIsFile` with `LostResponses = FALSE`, `Restored = {0, 4}` |
| the policy expires between two chunks: `UploadChunk()` makes a `StatusOr` from an OK status (`retry_resumable_upload_session.cc:62`), which throws | check `call.at # "threw"` with `TimeLimited = TRUE` |
| a byte written with `put()` while there is room in the put area is not in the string that is sent (`curl_resumable_streambuf.cc:119`; the stream without a session has the same put area), and the stream is good | allow `"put"` in `WrittenMeansStored` |
| `Close()` ignores a failed flush (`object_streambuf.cc:23`) and uploads the shortened buffer filled up with zeros; without hashes the stream is good | drop `Hashing` from `WrittenMeansStored` or from `SentInOrder`, set `Hashing = FALSE` |
| the last chunk of a stream is stored in part (`object_stream.cc:84`): there is no object, and the stream is good | allow `"last"` in `WrittenMeansStored` |
| a transfer that gets no answer at all has the code 0, which counts as success: a download is an empty object, `Close()` of an upload is good and there is no object | drop the mishaps from `ReadIsWhole`; allow `"unanswered"` in `WrittenMeansStored` |
| a download that breaks, if no hash is validated (a range, or hashes disabled), ends like a complete one | drop the mishaps from `ReadIsWhole` |
| `Close()` of a download that is not read to its end drops the headers, so that no hash is compared | drop `~closing_` from `ReadIsWhole` |
| `Suspend()` on a stream without a session gives back a handle that is still attached to its multi handle | drop `"suspended"` from `SharedSafely` |
| `CreateNotification()` is always repeated (`idempotency_policy.cc:466`), although "There are no pre-conditions for this operation that can make it idempotent" (`client.h:2230`) | take it from the exceptions of `Checked` in `StorageCalls` |
| a page of a listing without elements, but with a token for the next page, is taken for the end (`list_objects_reader.cc:99`, `list_buckets_reader.cc:98`): "If the stream is exhausted, it returns the `.end()` iterator" (`list_objects_reader.h:131`) | drop `call[c].empty` from `Complete` |
| an upload through the XML API does not send a metageneration precondition (`curl_client.cc:1081`) | drop the last condition of `Checked` |
| `UpdateObject()` never sends `temporaryHold` (`object_metadata.cc:124`), one of "the writeable fields" that `client.h:991` says are used; a full update cannot clear a field | drop conditions of `Carried` |
| clearing the last label sends a reset of the whole map, and with it what another client has added | drop `Touched` from `PatchMerges` |

And some that no property is about, met while modelling: `UpdateAppProfile()` has
the comment "This API is not idempotent" and is repeated
(`internal/instance_admin.cc:185`); a token answer without
its fields is accepted as OK with an empty or expired header (the comment at
`oauth2/credentials.h:41` expects an error); `response_payload_` is not cleared
when a request for the token fails, and garbles the next answer;
`DownloadToFile` looks at `status()` of the stream only (`client.cc:182`), so that
where exceptions are enabled a wrong hash, which sets only `badbit`, is not
reported; the pause of an upload is never undone; `operator==` of `ObjectMetadata`
compares `customer_encryption_` with itself, that of `ProjectTeam` its left side
with itself; `AsyncGetSnapshot` is not retried, while the creations by
`SnapshotTable` and `CreateTableFromSnapshot` are; `MakeCall` without retries sleeps
before it reports; a synchronous `SampleRows()` that fails leaves samples behind;
`ReadRow()` ignores the status of the reader once it has found a row.

### Fairness

- Threads in `Run()` keep running (weak fairness of each runner's steps): the
  application dedicates them to the queue. In `completion_queue` each event
  also gets a runner (strong fairness): `AsyncNext` is first-in first-out.
- Timers fire, cancelled calls complete, and, in the runs that need it, servers
  answer: gRPC promises the first two, deadlines in the contexts the third.
  `CancelCompletes`, and for asynchronous calls `DataCallsEnd` and
  `AdminCallEnds`, do not assume that servers answer.
- The caller of a synchronous function keeps running, and requests are answered
  or fail. A thread that creates channels finishes.
- In `transfers` a transfer goes on, ends or breaks while the application waits in it:
  libcurl notices a closed connection. The client sets no timeouts of its own, so
  a server that keeps a connection open in silence is not covered. The application
  itself need not go on: it may leave a stream where it is.
- In `future` a promise is used or destroyed, and the functors' futures are satisfied
  or abandoned.

The conclusions of `TransfersEnd` and `CallEnds` except a server that answers for
ever without making progress: these loops have no limit on such answers.

## The proofs

| Module | Theorems | Argument |
|---|---|---|
| `AsyncAdaptersProofs`, on `AsyncLoop` | `InvHolds` and from it `TypeCorrect`, `AtMostOnce`, `Unlocked`, `Serial`, `Released`, `NoLateAttempt` | the invariant `Inv`: types and the places of each kind of thread; the mutex is held exactly by the threads inside critical sections (`MutexInv`, `HeldInv`); there is one token, which is a thread inside the loop, a request or a timer in flight, or the past callback (`TokenInv`); the callback count is 1 iff the token is spent (`CallbackInv`); `current_op_` is empty once it is (`ReleaseInv`). The token is what is missing in the properties themselves: at most one callback follows only because nothing else can still enter the loop |
| `AsyncAdaptersProofs`, on `AsyncAdapters` | `AdaptersImplementLoop`, `AdapterCallbacks`, `Budget`, `SuccessIsExact` | every action of an adapter is an action of `AsyncLoop` or leaves its variables alone; the theorems of the loop then hold of the adapters. `AdapterInv` adds to the loop's invariant that every attempt but the first, also one still to be started, is paid for with a failure (`BudgetInv`), and that nothing is reported before the callback and pages are missing until the last is delivered (`ReportInv`); with it the budget and the exactness of a success are inductive |
| `CompletionQueueProofs` | `QueueInvHolds`, `RegisteredTags`, `StreamsInOrder` | an address is reused, so that it is not enough to know what is registered: `TokenInv` says that the operation at an address is in one place only (about to be submitted, outstanding in gRPC, in its queue, or in the hands of one runner) and that nothing is outstanding or queued under an address that is not registered; `HoldInv` that what a runner or the application holds is registered; `MutexInv` that a stream's mutex is held exactly inside its locked sections; `FinalInv` that the final callback of an operation still registered has run only when a runner is about to forget it; `OrderInv` what the steps of a stream have delivered |
| `DataCallsProofs` | `DataInvHolds`, `PoolInTurn`, `BulkIsAccounted`, `NothingTwice`, `OkTellsTheTruth` | four parts. `BulkInv`: every mutation is in one place, annotations are aligned with mutations, and what is pending and not idempotent has not been sent. `PoolInv`: the connections before the current index have been used once more than the others. `CallsInv`: how often each call has been sent and what its answer says. `MatchInv`: at most one `CheckAndMutateRow()` has found the row as it was. Two lemmas about the loop of `FinishRequest` say what it retries and what it drops |
| `ReadRowsProofs` | `IntersectExact`, `SetIntersectExact`, `EmptySetMatchesNothing`, `RowSetDenotes`, `RowSetEmpty`, `PrefixRangeExact` | from the order of the keys: the case analysis of `RowRange::Intersect` is exact, so that `Denotes` is inductive with the types. For prefixes: a key in the range that does not start with the prefix differs from it first at the byte that was incremented, and is therefore the end without some of its zeros |
| | `RowsInOrder`, `OkIsComplete`, `RowsAreWhole` | the invariant `ReadInv`, for any table, row set and limit: the request of a retry asks for exactly the rows of the original set after the last row read, and for the rest of the limit (`AskedInv`, from `SetIntersectExact`); what was handed over is an initial part of what the table has (`ReturnedInv`); the parser is in the middle of the row after the last one sent, with the cells that came so far (`StreamInv`, `LeftoverInv`); an end without error comes after the last row asked for (`EndInv`). One lemma per kind of chunk says what `HandleChunk` makes of it (`HandleFirst`, `HandlePartOne`, `HandleCommit`, `HandleReset`, `HandleForeign`), and `TakeStep`, `ChunkStep`, `OpenStep`, `RestStep` carry the invariant through the steps |
| `AdminCallsProofs` | `AdminInvHolds`, `RefusalsAreTrue`, `SuccessIsComplete`, `CancelledCallsDoNotPoll` | an invariant for each call and the service (`Good`): the call's record fits its style, one that must not be repeated makes one attempt, has changed nothing before it and is not refused after a change (`RefusalInv`), the pages, the long-running operation and the token it holds are those of its own request. The service may change by other calls at any time; what `Good` says of it survives that |
| `StorageProofs`, on `StorageCalls` | `CallsInvHolds`, `PreconditionsHonoured`, `CallsImplementPromise` | first the requests, one lemma per handler of the testbench: what a request changes it changes in a state in which its preconditions hold, and with the preconditions that `Strict` asks for, or by what it does, the same request then changes nothing more (`Proper`, for every checked operation by `CheckedIsProper`). Then the calls: `OnceInv` says that a call which has changed the service is inert, as long as nobody else has changed it, or will make no further attempt; the second case is a call that may not be repeated, and it needs that the step of a rewrite that changes something is the last one. With it every step is a step of `AtMostOnce` or a stutter (`OwnStep`, `AnsweredIsPromised`) |
| `StorageProofs`, on `StorageMetadata` | `MetadataInvHolds`, `NoWriteLost`, `PatchesMerge` | every write is a patch or a full update of the document, and two lemmas say what a reader sees afterwards (`PatchDoc`, `UpdateDoc`). `Fresh`: what a client has read is what a reader would see, unless the metageneration has changed. So a precondition that holds makes a full update change only what was edited. `Effect` is what any step of a client may do, and implies both properties |
| `TransfersProofs` | `TransfersInvHolds`, `SuccessIsIntact`, `NoByteIsDropped`, `HandlesSharedSafely` | a behaviour has one user, and the invariant `Inv` one part for each. `FileInv`: as long as nothing went wrong that the properties except, the server has the beginning of the file, in whole quanta until the last chunk, and the next chunk is read from where it stopped. `StreamInv`: the hash is that of what the server has (`HashedIsStored`), what was written is hashed or in the buffer (`WrittenIsSent`), and where a failed flush has hashed a chunk that is still in the buffer, the hash is longer than anything that can still be sent (`HashedTwice`), so that the comparison at the end fails. `ReadInv`: what the application got, the two buffers and what is still to come are the object, in this order. `SimpleInv`: the same from the application to the server. `TransportInv`: the handles of a pool and those in use are all different (`PoolInv`, for both kinds), attached are only the pairs of transfers in progress (`AttachedInv`), and the mutex is held by whoever refreshes the token (`TokenInv`). The properties speak of the ends of operations only; the parts say where the bytes are in the middle |
| `FutureProofs` | `InvHolds`, `FunctorCalledOnce`, `FunctorNotForgotten`, `StateIsFinal` | the invariant: types, links are attached in order (`AttachedInv`), `CalledOnce`, `NotForgotten`, and the futures that functors return are waited for by exactly one link (`InnerInv`); "a thread is about to call it" is in `NotForgotten` |

The assumptions are those on the constants (`ASSUME` in the modules): the sets of
threads are disjoint, keys are totally ordered with the empty key first, the
limits of policies and the sizes of pools, pages and bulks are natural numbers,
bytes are numbers up to a largest one, the operations a run allows are operations
of the API. A quantum has more than one byte (it has 256 KiB,
`internal/object_requests.h`) and chunks and buffers are multiples of it; the
threads that make requests are finitely many, so that a handle that is in use
nowhere can be created. Two assumptions of `StorageCalls` are about what the
repository leaves open: the calls are those whose preconditions the testbench gets
and checks (`Checked`, whose comment lists the exceptions), and the idempotency
policy allows no retry that `StrictIdempotencyPolicy` would not; without the first
the testbench, without the second `AlwaysRetryIdempotencyPolicy` breaks the
properties. TLC evaluates them in the runs. So the theorems hold for any number of
threads, clients, mutations, connections, handles, pages and keys, where the runs
have two or three, and for files, objects and buffers of any size; they hold for
the fields of metadata that the module names, with three values each.

The inductive invariants were checked with TLC before they were proved, with the
constants of the runs; that of `StorageMetadata` in a form that does not enumerate
the set of documents. They are not invariants of the runs. The type invariants
are parts of them.

Only model-checked: all liveness properties (`CancelCompletes`,
`EveryCallCompletes`, `EveryOperationEnds`, `DataCallsEnd`, `ReadEnds`,
`ResultArrives`, `TransfersEnd`, `CallReturns`, `AdminCallEnds`), which are beyond
the prover. Every other property of a passing run is a theorem.

## What is left out

- Deadlines and delays are nondeterministic: a timer may fire at any time.
- Contents of messages, filters and configuration: conversions without state. Of
  metadata, formats of dates and of URLs. Signed URLs.
- The wrappers of libcurl and the errors of its functions `curl_multi_*()`; the
  parsing of JSON and of key files, signatures; hash functions (two sequences of
  bytes have the same hash iff they are equal).
- Upload sessions and downloads of the testbench: `UploadSession` and `Download`
  have their own models of the service.
- What the storage server does with a request without bytes and without size
  (an empty file): it is not in the code, and the runs have no empty files.
- Two threads that use one object whose documentation excludes it (`RowReader`,
  `ObjectWriteStream`), and `begin()` called twice on one `RowReader`.
- Status, logging, Firestore field paths, test doubles, benchmarks, examples.

## Plan

1. The iterator protocols of `RowReader` and of the list readers.
2. An administration client against `AtMostOnce`, as far as its calls are idempotent.
3. The upload sessions of the testbench in place of the server of `UploadSession`.
