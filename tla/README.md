# A TLA+ verification of cpp_programming

The repository is a collection of C++ programs. A few of them are real concurrent or
event-driven systems; the rest are one-file demonstrations of the language or of a
library. This development models the former, checks the models with TLC and proves the
central invariants with TLAPS.

## 1. Inventory

| part | state | operations | interacts with | what makes it hard |
|---|---|---|---|---|
| `simple_http` event notifier | a flag under a mutex, a condition variable | `Set`, `Wait` | both dispatchers | one notification for many sleepers, spurious wake-ups |
| `simple_http` dispatchers | read queue, write queue, write cache, per-connection flags | `CanRead`, `CanWrite`, `ErrorOccurred`, `ProcessRead`, `ProcessWrite`, `Close` | server loop, connections | "queue it unless somebody is on it" decided by two threads |
| `simple_http` server and connections | epoll set, socket map, connection map, request handler flags | accept, event, read, write, close | kernel, clients | three threads reach the close path; descriptors are reused |
| `simple_http` parser | line buffer, headers, body, content length | `HttpRequest::Append` | connection read | input split anywhere |
| counting semaphore | two atomics, a mutex, a condition variable | `acquire`, `release` | gRPC client, test programs | `release` reads `waited` without the mutex |
| gRPC handler table | map of handlers, cursor of a 32-bit key | `add`, `remove`, `clear` | both proactors | key wrap-around |
| gRPC asynchronous server | one completion queue and table per thread | registration, `proc`, one `process` per handler class, `shutdown` | gRPC | events, successors and shutdown in any order |
| gRPC asynchronous client | queues, tables, per-call flags, a semaphore per stream | `prepareAsyncCall`, `write`, `close`, `proc` | gRPC, main | main holds references to objects a pool thread deletes |
| epoll server | sessions, descriptor map, buffers | accept, read, write, close, exit | kernel, clients | edge triggering, a full send buffer, descriptor reuse |
| IOCP server | context table, accept thread, workers | accept, completion, stop | kernel | stop against completions in flight |
| TCP console (`socket/tcp`) | watched events or fd sets, unwritten text, two stop flags | options, poll and select loops, commands | kernel, user, peer | short writes, shutdown with text still unwritten |
| poll client of the epoll server | poll set, blocking socket | one loop | kernel, user, server | input, answers and the end of either side in any order |
| non-blocking read experiments | two pipes or stdin | poll, select, epoll, plain loop | kernel, writers | an edge consumed before the data is read |
| UDP echo server and clients | one datagram each | send, receive | network | loss, duplicates, no sequence numbers |
| gRPC synchronous calls | streams of a limited window | all eight calls, client and service | gRPC | both sides writing into full windows; results that are ignored |
| thread, condition variable and future examples | thread objects, a mutex, a flag, a future | two or three threads each | - | a thread that joins the object it is held by; locals used after they are gone |
| mock allocator, shared pointer | recursion guard, reference count | allocate, free, copy, destroy | libc | re-entrance |
| everything else | - | - | - | language and library demonstrations, numerics |

The hazards each part is exposed to are in `PROJECT.json`, at the line where they bite,
with the properties that would notice.

## 2. Plan

1. *(done)* The shared primitives first, because everything rests on them: notifier, read
   dispatch, semaphore; each proved, the semaphore against an abstract specification.
2. *(done)* The systems composed from them: `SimpleHttp` (whose read side is checked to
   implement `ReadDispatch`), the two proactors (over the handler table), the parser.
3. *(done)* The two stand-alone servers, epoll and IOCP.
4. *(done)* The programs at the other end and beside them: TCP console, poll client,
   reading loops, UDP, the synchronous gRPC calls. The stream socket they share is the
   module `StreamSocket`.
5. *(done)* The thread, condition variable and future examples. In the gRPC programs the
   greeting, hello and goodbye calls are kinds of their own.
6. *(done)* Proofs beyond the primitives: the handler table's search, the client's calls
   and writes, the answers of the UDP server.
7. Still wanted: proofs of one operation per handler in `ServerProactor`, of
   `DescriptorsAgree` in `EpollServer` and `OverlappedValid` in `IocpServer`. Their
   invariants are model-checked only.

## 3. Modules

`PROJECT.json` maps every definition to the lines it models. Each model has one action per
access to shared state or system call; what a thread does between two of them is part of
the action. Definitions named `X_Y` just before a definition `X` are plausible bugs of `X`
and are not part of the specification: replacing `X` by `X_Y` must break a property.

| module | models | state |
|---|---|---|
| `EventNotifier` | `EventNotifier` of `simple_http/.../utils.h`, operators over one flag and one wait set | (parameters) |
| `ReadDispatch` | `CanRead`, `ErrorOccurred`, `TimeToExit`, `Close` and `ProcessRead` of the connection manager | `isReadable`, `isReading`, the read queue, the notifier, one program counter per thread |
| `SimpleHttp` | the whole HTTP server: `Server`, `SocketMap`, `ConnectionManager`, `Connection`, `WriteCache`, `HttpRequestHandler`, kernel and clients | a stack of pending operations per thread, since the same close path is entered from three places |
| `HttpRequest` | `HttpRequest::Append`, token by token | the stream, how much of it was appended, the parser's fields |
| `CountingSemaphore` | what a semaphore promises | permits, the phase of each thread |
| `Semaphore` | `utils::Semaphore` | `remaining`, `waited`, mutex and condition variable, a program counter per thread |
| `SemaphoreTestA`, `SemaphoreTestB` | `TestA` and `TestB` of `thread/semaphore`, on the semaphore's own steps | the tests' counters |
| `EventHandlerManager`, `HandlerTable` | the key search of `add`; the table as a machine | used keys, cursor |
| `ServerProactor` | the asynchronous gRPC server | table, completion queues, operations inside gRPC, one program counter per thread |
| `ClientProactor` | the asynchronous gRPC client | the same, and the main thread |
| `EpollServer` | the edge-triggered server | `conns`, `sessions`, the batch of events, sockets |
| `IocpServer` | the completion-port server | context table, packets, overlapped operations, program counters |
| `StreamSocket` | a connected socket with a bounded send buffer, stdin, the user and the peer | what has been typed, sent, received, and whether the connection stands |
| `TcpConsole` | `socket/tcp/main.cpp`: options, set-up, `Process` with poll and with select, the commands, `TypeEToExit` | watched events, ready events, unwritten text `w`, the two flags |
| `PollClient` | the poll client of the epoll server | poll set, ready events, the line being written |
| `ReadLoops` | ten programs that read two pipes or stdin, waiting with poll, select, epoll (level and edge) or not at all | data per descriptor, unreported edges, descriptors still to read, what was printed |
| `Datagrams` | UDP echo server, unicast client and broadcasting client | packets on the network, what each server holds, what each client has shown |
| `SyncChat` | the eight synchronous calls, `ChatClient`, `HelloClient`, `GoodbyeClient` against the services | the client's writing and reading thread, the service's thread, two windows, the status |
| `ThreadDemos` | the examples under `thread/`, each a list of the library calls its threads make | thread objects, mutex, condition variable, future, whether the locals still exist |
| `MC...` | the instances TLC checks; `MCPrograms` and `MCSemaphore` hold several programs, one per behaviour | - |
| `...Proofs`, `ClientTokens` | theorems, see section 7 | - |

External, and modelled from how the code uses it: the kernel's sockets, epoll, completion
port and accept event; poll, select, pipes and datagrams; the C++ thread library; gRPC (an operation completes into its queue with some `ok`; misuse
that gRPC asserts on sets `crashed`); the clients, users and peers.

`ClientProactor` uses the semaphore as the atomic counter that `Semaphore` is shown to
implement. `SimpleHttp` is shown to implement `ReadDispatch` on its read side
(`ReadSideImplements`), so the theorems about `ReadDispatch` speak about the code in its
surroundings.

Where the surroundings vary (number of clients, resets, signals, cancellation), a variable
`env` that never changes holds one of the records of the MC module; a run covers them all.

## 4. Runs

| run | question and result |
|---|---|
| `read_dispatch` | Two connections, two readers, close at any time. No event is stranded, no two readers share a connection, `NeedReInQueueRead` never throws, no wake-up is lost; every event is served and every reader leaves. |
| `semaphore` | Capacity 2, under three threads that call at will, `TestA` or `TestB`. Sleepers beside free permits always have a helper on its way; the code implements the atomic semaphore; somebody always gets on. In the tests the capacity is respected and every join returns. |
| `programs` | Handler table: the first free key behind the cursor. Parser: cutting the input is invisible, and a request is complete exactly when its body is. The consoles and the poll client send what was typed (`TextExact`) and show what was received (`ShownExact`), and the reading loops print what was written, once and in order. A read announced as ready does not block. UDP answers belong to the line as far as the network allows. A synchronous call that returns OK has said and heard everything. The thread examples end as the library calls they make say, and only the ones named in `DemoOutcome` use a local after it is gone. Every program ends or comes to rest with its input served. |
| `semaphore_test_b_blocked` | *Violated.* See section 8. |
| `join_self` | *Violated.* See section 8. |
| `epoll` | Answers are exact, an edge is never lost, both tables agree and, without resets, nothing throws (`DescriptorsAgree`); every client is served, and SIGINT ends the server with everything released. |
| `grpc_server` | Handlers and operations match one to one, every service is listened to (`HandlersAccounted`); gRPC is not misused and a thread leaves only when its queue and table are drained (`LeavesDrained`); a stop completes. Calls may be cancelled at any time; what that can break is said below. |
| `grpc_client` | No call is destroyed while main or gRPC refers to it, one write at a time, the client ends. |
| `http` | One writer per connection and no write wake-up lost (`WritesDispatched`), units of a response are conserved while connections break and descriptors are reused, and a response is its own client's while none break; no response before its request. |
| `http_exit` | The read side implements `ReadDispatch`; SIGINT ends the process. |
| `http_event_is_known` | *Violated.* See section 8. |
| `iocp` | Echo is exact however sends are cut; an OVERLAPPED outlives its operation, is used once, and a packet's key names its own context although ids are reused at once (`OverlappedValid`); every context has one driver; clients are served; `stop()` returns. |

Some properties are conditional because the code does not promise more, and each
condition is one of the hazards with a note:

- *Parser*: `ParsedAsWhole` excepts an empty first line, which `SetFirstLine` takes for one
  it has not seen; what follows then depends on where the input is cut.
- *`TestB`*: `TestJoins` excepts a negative value of the uninitialized counter, from which
  main never leaves its polling loop.
- *gRPC server*: the signal arrives after registration. `LeavesDrained` and `StopCompletes`
  except `CancelledUnhandled`. `Shutdown()` does not wait for a call that its client has
  cancelled, so the queue may be shut before the handler makes its next call on it. And a
  cancelled `talk` may finish twice. Both end the process inside gRPC; the properties say
  that nothing else does. `Shutdown()` has no deadline either, so `StopCompletes` relies on
  clients that end their calls.
- *gRPC client*: `ClientEnds` when no poll times out before the calls are made.
- *HTTP*: that a response goes to its own client (the second half of `ResponseConserved`)
  and `ResponseAfterRequest` are stated without resets. After one, a writer may write to a
  descriptor that accept has given to the next client.
- *epoll server*: the absence of exceptions (in `DescriptorsAgree`) and `ExitsOnSignal` are
  stated without resets (a reset makes `read` throw by design of the program); `EchoExact`
  needs a NUL behind the read buffer.
- *IOCP server*: `OneDriver` and `Served` without failing calls.
- *Examples*: `ComesToRest` asks a UDP client to end only on a network that loses nothing
  (it has no timeout), and leaves out `DetachSelf`. `ShownExact` lets a NUL cut off the rest
  of its buffer. `TextExact` leaves out an edge-triggered reader whose input ends: it drops
  what it read just before, by its early return. `ReadNeverBlocks` is about the programs
  that read blocking descriptors.

## 5. Bounds

Bounds are constants or fields of `env`, named where they are declared.

- Two threads per role in the read dispatch, the proactors and IOCP. Their races are between
  two actors on one object; a third only repeats the role of the second. The semaphore has
  three threads: one that holds, one that sleeps, one that barges in. `TestA` has two
  threads of each kind and three acquisitions, `TestB` three acquirers.
- The HTTP runs have one reader and one writer beside the server thread: the whole server
  with two of each is beyond TLC. Two readers meet in `read_dispatch`, which the server is
  checked to implement; two writer threads are not checked.
- One gRPC thread with every service and one call, two threads with `talk` and two calls, or
  one call when it may be cancelled: the larger combinations are beyond TLC.
- Two connections where descriptors or ids are reused, else one. Where the first of two
  HTTP connections breaks, neither client sends: the response is then the one of the error
  path. Signals are left to `http_exit`; `http` closes the manager when accept fails. `MaxFds` and the epoll
  server's `Fds` are small enough for the second client to get the number of the first.
- Buffers of two or three units and streams that exceed them, so that reads, writes and
  sends are cut at every place, and at the boundary exactly.
- The consoles' send buffer takes one line (`SendRoom`), and the reading loops' buffer is
  two characters (three in the code) against inputs of four and five, so that every write
  and read is cut. The synchronous streams have a window of one and three words: both
  sides meet a full window.
- Two UDP clients, two servers, two lines: a duplicate of the first answer can meet the
  second line. `UseMutex` runs two threads of two rounds (ten of five in the code).
- `KeySpace` is small (2^32 in the code) so that the cursor wraps round; `IdSpace` is 4.
- `MaxReadable` bounds the events counted but not served; events arrive again after.
- Deadlock is not checked where the program may end or wait for input for ever
  (`CHECK_DEADLOCK FALSE` in those configurations).

No symmetry is used: most runs check liveness, for which it is unsound.

## 6. Fairness

Weak fairness of each thread's next step: the operating system runs every runnable thread.
A thread blocked on a condition variable, a completion queue or `epoll_wait` has no enabled
step. Strong fairness for taking the semaphore's mutex, which others release again
and again. Weak fairness also for what the surroundings owe: gRPC completes an operation,
the kernel completes an overlapped operation that can complete, the epoll server's client
reads what was sent to it, the gRPC server ends a call, and a client of the gRPC server
ends its call. Other clients never have to connect,
send, hang up or signal. In `programs` the same holds for the program under test, for the
user and the writers (who finish typing what the instance gives them), for the peer that
reads and for the service; the threads of a demo have strong fairness, because the mutex
they share is released and taken again and must not be refused to one of them for ever.
The timeouts of `epoll_wait` and of the accept thread may expire at any
time, and are needed: without them a signal before the wait would be lost.

## 7. Proofs

TLAPS proves, for every value of the constants that the named assumptions allow:

- `ReadDispatchProofs`. The inductive invariant `IInv` joins `TypeOK`, `LocalsOK` (what a
  thread's locals mean at its program counter), `ReaderExclusion`, `PushedAlone`,
  `QueuedOnce`, `ReadingIsOwned`, `NoStrandedEvent`, `QueueWatched` and `NotAllAsleep`.
  Exclusion alone is not inductive: that nobody else has a connection follows from
  `isReading` being set only by whoever then queues it, so ownership of the flag
  (`ReadingIsOwned`) and "a connection being pushed is nowhere else" (`PushedAlone`) are
  carried along. Likewise `NoLostWakeup` needs both `QueueWatched` (between `push` and
  `Set`) and `NotAllAsleep`. The theorems name the properties the run checks.
- `SemaphoreProofs`. `IInv` joins `TypeOK`, `LocalsOK`, `MutexOwned`, `WaitedIsExact` and
  `EnoughHelpers`. The last one compares numbers: free permits, sleepers, and threads that
  will still notify or retry. `Refinement` shows that each step is a step of
  `CountingSemaphore` or leaves it alone.
- `EventHandlerManagerProofs`. `AddKeyFindsFirstFree`: the search of `add` fails only when
  every key is in use, and otherwise ends at the first free key it meets. The search is a
  recursive function; the induction is by least element (`LeastElement`, from the
  well-foundedness of `<`): if the claim failed for some number of steps left, it would
  fail for a least one, and one unfolding of the function contradicts that.
- `HandlerTableProofs`. `AddTakesNextFreeKey`: `NextFreeKey` in every reachable state of the
  table, for any key space, so also for the 2^32 keys of the code. `TableTyped` is the only
  invariant needed beside the lemma above. `MCPrograms` checks the same formula on a small
  key space.
- `DatagramsProofs`. `AnswersAreRight`: `AnswersMatch` for any clients, servers, number of
  lines and network. `IInv` adds to it what every packet and every datagram a server holds
  is about (`PacketsOK`, `HeldOK`), the count of answers shown (`Counted`), and, for one
  server and no duplicates, that at most one datagram travels for each client
  (`OneTravels`): without the last one, that an answer is for the line just sent is not
  inductive. `MCPrograms` checks the same formula for two clients and two servers. The
  hypothesis `Hosts` says that clients and servers are different hosts, that there is a
  server and that the number of lines is a natural number.
- `ClientTokens`, `ClientMainProofs`, `ClientProactorProofs`. `CallsStayAlive` and
  `WritesTakeTurns` for any script of calls, pool size, number of words and key space. The
  argument is about tokens: an operation inside gRPC, a completion in a queue and the event
  a thread is handling are one token on its way. Every conjunct of `IInv` about them
  (`TokensOK`, `CallsOK`, `MainOK`) says that some token or pair of tokens does not exist:
  no two of a writing kind for one handler, none behind a `FINISH`, none for a key that is
  free. So a step that only moves a token preserves it (`TokenMoves`), and a step that
  makes one has to be examined for that one alone (`TokenAdded`, `TokenProcessed`).
  `ClientTokens` has the invariant and these lemmas, `ClientMainProofs` the steps of the
  main thread, `ClientProactorProofs` those of gRPC and the pool, and the theorems.

Assumptions: `DispatchAssumption` (at least one reader, a positive bound on the counted
events, `NoConn` is no connection), `SemaphoreAssumption` (finitely many threads, a natural
capacity), `KeySpaceAssumption` (at least one key, `NoKey` is no key), and `ClientAssumption`
(a pool of at least one thread, nonempty scripts of known calls, `NoHandler` is no
handler). TLC evaluates them in the runs.

Only model-checked: every liveness property (outside the prover's reach), the parser, the
gRPC server, epoll, HTTP and IOCP models, `ReadSideImplements`, and the example programs
other than UDP.

## 8. Where the code disagrees with itself

- `semaphore_test_b_blocked`: the counter that `TestB` polls before it releases is
  an uninitialized local variable, so main may release before anybody has blocked.
- `http_event_is_known`: `ProcessEvent` throws if an event's descriptor is not in the map;
  a worker may have closed it since `epoll_wait` returned. The other half of the same
  disagreement is in the model too: `ProcessNewConnection` throws if the accepted
  descriptor is already in the map, and a worker closes the descriptor before it deletes
  the entry, so accept can return the number in between.

- `join_self`: main says of `JoinSelf1` and `JoinSelf2` "exception: Resource deadlock
  avoided". The thread may run before `t` is assigned; then it learns that `t` is not
  joinable.

Smaller remarks, visible in the text of a property or an action rather than as a run of
their own. In `DetachSelf` a thread that runs before the assignment never sets the flag
main waits for. The poll client's comment on its `write`, "will not block"
(`use_poll/main.cpp:34`), is wrong for a blocking socket that has room for part of the text
only; the model lets it wait. `DetachNotJoinableThread1`, `DetachSelf` and `UseConditionVariable` let a detached
thread notify a condition variable that may be destroyed. The non-blocking readers print
a full buffer as a C string without a NUL behind it.

## 9. Not modelled

- Creation of sockets, ports and queues and their error exits (the TCP console's set-up is
  modelled, with failures); logging, configuration, formatting and the printing of
  addresses.
- The start and stop of the synchronous gRPC server: they only call gRPC, whose own threads
  run the services.
- `mock_malloc`: what the allocator does inside its recursion guard depends on what `dlsym`
  allocates. `my_shared_ptr`: its destructor deletes object and count whatever the count
  is, so every program with two copies has undefined behaviour, and no document says what
  it should do instead.
- The programs of `thread/create_thread` whose thread only prints, and
  `CallMemberFunction`: nothing is shared. `std::async` is taken to start a thread; when it
  defers, the callable runs in `get` as in the `packaged_task` examples.
- Numerical programs (floating point); language, template, string and stream
  demonstrations.

Within modelled components: accept without a free descriptor, failures of waiting calls on
valid handles, and the destruction of static objects after `main`. Per component, with the
reason, in `PROJECT.json`.
