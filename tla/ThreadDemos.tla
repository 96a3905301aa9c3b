----------------------------- MODULE ThreadDemos -----------------------------
(***************************************************************************)
(* The programs under thread/ that join, detach and destroy std::thread    *)
(* objects and share a mutex, a condition variable, a counter or a future. *)
(* A demo is the list of the library calls its threads make; the actions   *)
(* give the calls their meaning (external).  Sleeping promises no order.   *)
(***************************************************************************)
EXTENDS Naturals, Sequences, FiniteSets

VARIABLES
    demo,     \* never changes: the name of a demo
    at,       \* per thread: index of its next call
    started,  \* threads that exist
    obj,      \* std::thread objects: the thread they hold, or "none"
    owner,    \* of the mutex m, or "none"
    waiting,  \* threads inside cv.wait
    value,    \* step, ready or v
    reg,      \* per thread: the value it loaded to increment
    future,   \* "unset", "value", "error", or "invalid" after get
    report,   \* the exceptions printed
    left,     \* "no"; "yes" once the demo's locals are destroyed; "abort"
    stray     \* a thread used a local after that

vars == <<demo, at, started, obj, owner, waiting, value, reg, future, report, left, stray>>

Threads == {"main", "c1", "c2"}
Objects == {"t", "t2", "temporary"}

-----------------------------------------------------------------------------
\* The demos.  "t = std::thread(f)" starts f before it assigns t.

StartT == <<<<"start", "c1", "t">>>>
AssignT == <<<<"start", "c1", "temporary">>, <<"move", "temporary", "t">>>>
SetTo(x) == <<<<"lock">>, <<"set", x>>, <<"unlock">>, <<"notify">>>>
WaitFor(x) == <<<<"lock">>, <<"wait", x>>, <<"unlock">>>>
Increment == <<<<"lock">>, <<"load">>, <<"store">>, <<"unlock">>>>

JoinNotJoinableThread1 == [c1 |-> <<>>,
    main |-> StartT \o <<<<"move", "t", "t2">>, <<"join", "t2">>, <<"join", "t">>>>]
JoinNotJoinableThread2 == [main |-> <<<<"join", "t">>>>]
JoinSelf1 == [c1 |-> <<<<"join", "t">>>>, main |-> AssignT \o <<<<"join", "t">>>>]
JoinSelf2 == [c1 |-> <<<<"joinable", "t">>, <<"join", "t">>>>, main |-> AssignT \o <<<<"join", "t">>>>]

DetachNotJoinableThread1 == [c1 |-> SetTo(1),
    main |-> StartT \o <<<<"move", "t", "t2">>, <<"detach", "t2">>>> \o WaitFor(1) \o <<<<"detach", "t">>>>]
DetachNotJoinableThread2 == [main |-> <<<<"detach", "t">>>>]
DetachSelf == [c1 |-> <<<<"detach", "t">>>> \o SetTo(1), main |-> AssignT \o WaitFor(1)]
WithoutJoinOrDetach == [c1 |-> SetTo(1), main |-> StartT]
UseConditionVariable == [c1 |-> WaitFor(1) \o SetTo(2),
    main |-> StartT \o <<<<"detach", "t">>>> \o SetTo(1) \o WaitFor(2)]

\* Mutant: Func does not lock.
UseMutex_NoLock ==
    LET Func == <<<<"load">>, <<"store">>, <<"load">>, <<"store">>>> IN
    [c1 |-> Func, c2 |-> Func,
     main |-> <<<<"start", "c1", "t">>, <<"start", "c2", "t2">>, <<"join", "t">>, <<"join", "t2">>>>]

\* Two threads of two rounds instead of ten of five
UseMutex ==
    LET Func == Increment \o Increment IN
    [c1 |-> Func, c2 |-> Func,
     main |-> <<<<"start", "c1", "t">>, <<"start", "c2", "t2">>, <<"join", "t">>, <<"join", "t2">>>>]

UseFutureToGetValue == [c1 |-> <<<<"fulfil", "value">>>>, main |-> StartT \o <<<<"get">>, <<"join", "t">>>>]
UseFutureToWait == [c1 |-> <<<<"fulfil", "value">>>>, main |-> StartT \o <<<<"await">>, <<"join", "t">>>>]
UseFutureToHandleException == [c1 |-> <<<<"fulfil", "error">>>>,
    main |-> StartT \o <<<<"get">>, <<"join", "t">>>>]
UseFutureToHandleException2 == [c1 |-> <<<<"fulfil", "error">>>>,
    main |-> StartT \o <<<<"join", "t">>, <<"get">>, <<"get">>>>]

\* The callable runs in the calling thread.
UsePackagedTask == [main |-> <<<<"fulfil", "value">>, <<"get">>>>]
UsePackagedTaskHandleException == [main |-> <<<<"fulfil", "error">>, <<"get">>>>]

\* std::async may run the callable in a thread that the future's destructor
\* joins (or, like a packaged_task, in get).
UseAsync == [c1 |-> <<<<"fulfil", "value">>>>,
    main |-> <<<<"start", "c1", "temporary">>, <<"get">>, <<"join", "temporary">>>>]
UseAsyncHandleException == [c1 |-> <<<<"fulfil", "error">>>>,
    main |-> <<<<"start", "c1", "temporary">>, <<"get">>, <<"join", "temporary">>>>]

\* The thread increments "a", or its own copy of it.
PassByReferenceLambdaCaptureReference == [c1 |-> <<<<"load">>, <<"store">>>>,
    main |-> StartT \o <<<<"join", "t">>>>]
PassByConstReference == [c1 |-> <<>>, main |-> StartT \o <<<<"join", "t">>>>]
PassByConstReferenceUseStdRef == PassByReferenceLambdaCaptureReference
PassByReferenceUseStdRef == PassByReferenceLambdaCaptureReference

Demos == [
    JoinNotJoinableThread1 |-> JoinNotJoinableThread1, JoinNotJoinableThread2 |-> JoinNotJoinableThread2,
    JoinSelf1 |-> JoinSelf1, JoinSelf2 |-> JoinSelf2,
    DetachNotJoinableThread1 |-> DetachNotJoinableThread1, DetachNotJoinableThread2 |-> DetachNotJoinableThread2,
    DetachSelf |-> DetachSelf, WithoutJoinOrDetach |-> WithoutJoinOrDetach,
    UseConditionVariable |-> UseConditionVariable, UseMutex |-> UseMutex,
    UseFutureToGetValue |-> UseFutureToGetValue, UseFutureToWait |-> UseFutureToWait,
    UseFutureToHandleException |-> UseFutureToHandleException,
    UseFutureToHandleException2 |-> UseFutureToHandleException2,
    UsePackagedTask |-> UsePackagedTask, UsePackagedTaskHandleException |-> UsePackagedTaskHandleException,
    UseAsync |-> UseAsync, UseAsyncHandleException |-> UseAsyncHandleException,
    PassByReferenceLambdaCaptureReference |-> PassByReferenceLambdaCaptureReference,
    PassByConstReference |-> PassByConstReference,
    PassByConstReferenceUseStdRef |-> PassByConstReferenceUseStdRef,
    PassByReferenceUseStdRef |-> PassByReferenceUseStdRef]

-----------------------------------------------------------------------------
\* The calls

Calls(th) == Demos[demo][th]
Ended(th) == at[th] > Len(Calls(th))
Call(th, op) == th \in started /\ left # "abort" /\ ~Ended(th) /\ Calls(th)[at[th]][1] = op
Arg(th, n) == Calls(th)[at[th]][n + 1]

Init ==
    /\ demo \in DOMAIN Demos
    /\ at = [th \in Threads |-> 1]
    /\ started = {"main"}
    /\ obj = [o \in Objects |-> "none"]
    /\ owner = "none" /\ waiting = {} /\ value = 0
    /\ reg = [th \in Threads |-> 0]
    /\ future = "unset" /\ report = <<>> /\ left = "no" /\ stray = FALSE

Advance(th) == at' = [at EXCEPT ![th] = @ + 1]

\* try { ... } catch (e) { print e.what() } around the whole function
Throw(th, what) ==
    /\ at' = [at EXCEPT ![th] = Len(Calls(th)) + 1]
    /\ report' = Append(report, what)

Uses(th) == stray' = (stray \/ left # "no")

Start(th) ==
    /\ Call(th, "start") /\ Advance(th)
    /\ started' = started \cup {Arg(th, 1)}
    /\ obj' = [obj EXCEPT ![Arg(th, 2)] = Arg(th, 1)]
    /\ UNCHANGED <<owner, waiting, value, reg, future, report, left, stray>>

Move(th) ==
    /\ Call(th, "move") /\ Advance(th)
    /\ obj' = [obj EXCEPT ![Arg(th, 2)] = obj[Arg(th, 1)], ![Arg(th, 1)] = "none"]
    /\ UNCHANGED <<started, owner, waiting, value, reg, future, report, left, stray>>

Join(th) ==
    /\ Call(th, "join") /\ Uses(th)
    /\ LET held == obj[Arg(th, 1)] IN
       \/ held = "none" /\ Throw(th, "Invalid argument") /\ UNCHANGED obj
       \/ held = th /\ Throw(th, "Resource deadlock avoided") /\ UNCHANGED obj
       \/ /\ held \notin {th, "none"} /\ Ended(held) /\ Advance(th)
          /\ obj' = [obj EXCEPT ![Arg(th, 1)] = "none"] /\ UNCHANGED report
    /\ UNCHANGED <<started, owner, waiting, value, reg, future, left>>

Joinable(th) ==
    /\ Call(th, "joinable") /\ Uses(th)
    /\ IF obj[Arg(th, 1)] = "none" THEN Throw(th, "not joinable") ELSE Advance(th) /\ UNCHANGED report
    /\ UNCHANGED <<started, obj, owner, waiting, value, reg, future, left>>

Detach(th) ==
    /\ Call(th, "detach") /\ Uses(th)
    /\ IF obj[Arg(th, 1)] = "none"
       THEN Throw(th, "Invalid argument") /\ UNCHANGED obj
       ELSE Advance(th) /\ obj' = [obj EXCEPT ![Arg(th, 1)] = "none"] /\ UNCHANGED report
    /\ UNCHANGED <<started, owner, waiting, value, reg, future, left>>

\* unique_lock; also its re-acquisition inside cv.wait
Lock(th) ==
    /\ Call(th, "lock") \/ (Call(th, "wait") /\ th \notin waiting)
    /\ owner = "none" /\ owner' = th /\ Uses(th)
    /\ IF Call(th, "lock") THEN Advance(th) ELSE UNCHANGED at
    /\ UNCHANGED <<started, obj, waiting, value, reg, future, report, left>>

Unlock(th) ==
    /\ Call(th, "unlock") /\ Advance(th) /\ Uses(th)
    /\ owner' = "none"
    /\ UNCHANGED <<started, obj, waiting, value, reg, future, report, left>>

\* cv.wait(lk, pred): evaluate the predicate, sleep if it is false
Wait(th) ==
    /\ Call(th, "wait") /\ owner = th /\ Uses(th)
    /\ IF value = Arg(th, 1)
       THEN Advance(th) /\ UNCHANGED <<owner, waiting>>
       ELSE owner' = "none" /\ waiting' = waiting \cup {th} /\ UNCHANGED at
    /\ UNCHANGED <<started, obj, value, reg, future, report, left>>

Notify(th) ==
    /\ Call(th, "notify") /\ Advance(th) /\ Uses(th)
    /\ IF waiting = {} THEN UNCHANGED waiting ELSE \E w \in waiting : waiting' = waiting \ {w}
    /\ UNCHANGED <<started, obj, owner, value, reg, future, report, left>>

Access(th) ==
    /\ Uses(th)
    /\ \/ Call(th, "set") /\ value' = Arg(th, 1) /\ UNCHANGED reg
       \/ Call(th, "load") /\ reg' = [reg EXCEPT ![th] = value] /\ UNCHANGED value
       \/ Call(th, "store") /\ value' = reg[th] + 1 /\ UNCHANGED reg
    /\ Advance(th)
    /\ UNCHANGED <<started, obj, owner, waiting, future, report, left>>

\* promise::set_value and set_exception
Fulfil(th) ==
    /\ Call(th, "fulfil") /\ Advance(th) /\ Uses(th)
    /\ future' = Arg(th, 1)
    /\ UNCHANGED <<started, obj, owner, waiting, value, reg, report, left>>

\* future::get, whose exception is caught on the spot, and future::wait
Get(th) ==
    /\ Call(th, "get") \/ Call(th, "await")
    /\ future # "unset" /\ Advance(th)
    /\ future' = IF Call(th, "get") THEN "invalid" ELSE future
    /\ report' = CASE Call(th, "await") \/ future = "value" -> report
                   [] future = "error" -> Append(report, "error")
                   [] OTHER -> Append(report, "no state")
    /\ UNCHANGED <<started, obj, owner, waiting, value, reg, left, stray>>

\* The demo's function returns; destroying a joinable thread terminates.
Leave ==
    /\ Ended("main") /\ left = "no"
    /\ left' = IF \E o \in Objects : obj[o] # "none" THEN "abort" ELSE "yes"
    /\ UNCHANGED <<at, started, obj, owner, waiting, value, reg, future, report, stray>>

Step(th) ==
    \/ Start(th) \/ Move(th) \/ Join(th) \/ Joinable(th) \/ Detach(th) \/ Lock(th) \/ Unlock(th)
    \/ Wait(th) \/ Notify(th) \/ Access(th) \/ Fulfil(th) \/ Get(th)

Thread(th) == (Step(th) \/ (th = "main" /\ Leave)) /\ UNCHANGED demo

SpuriousWakeup(th) ==
    /\ th \in waiting
    /\ waiting' = waiting \ {th}
    /\ UNCHANGED <<demo, at, started, obj, owner, value, reg, future, report, left, stray>>

Next == \E th \in Threads : Thread(th) \/ SpuriousWakeup(th)

Spec == Init /\ [][Next]_vars

-----------------------------------------------------------------------------
\* When a demo's function returns, it has printed what main() says or what its
\* calls are for: the exceptions, the abort, and no increment lost.  A thread
\* that joins the object it is held by gets one exception or message, and main
\* can still join it; which one is JoinSelfDetected's concern.  Only the demos
\* that detach a thread which still has to notify let it use their destroyed
\* mutex or condition variable.
DemoOutcome ==
    /\ left = "yes" =>
        CASE demo \in {"JoinNotJoinableThread1", "JoinNotJoinableThread2",
                       "DetachNotJoinableThread1", "DetachNotJoinableThread2"} -> report = <<"Invalid argument">>
          [] demo \in {"JoinSelf1", "JoinSelf2"} -> Len(report) = 1
          [] demo \in {"UseFutureToHandleException", "UsePackagedTaskHandleException",
                       "UseAsyncHandleException"} -> report = <<"error">>
          [] demo = "UseFutureToHandleException2" -> report = <<"error", "no state">>
          [] OTHER -> report = <<>>
    /\ left = "yes" /\ demo = "UseMutex" => value = 4
    /\ left = "yes" /\ demo = "PassByConstReference" => value = 0
    /\ left = "yes" /\ demo \in {"PassByReferenceLambdaCaptureReference",
            "PassByConstReferenceUseStdRef", "PassByReferenceUseStdRef"} => value = 1
    /\ left = "abort" <=> demo = "WithoutJoinOrDetach" /\ left # "no"
    /\ stray => demo \in {"DetachNotJoinableThread1", "DetachSelf", "UseConditionVariable"}

\* What main() says of the demos in which a thread joins itself, "exception:
\* Resource deadlock avoided" (join_thread/main.cpp:81 and 82).
JoinSelfDetected ==
    left = "yes" /\ demo \in {"JoinSelf1", "JoinSelf2"} => report = <<"Resource deadlock avoided">>

\* The demo is over.  DetachSelf never ends when its thread runs before "t" is
\* assigned: the exception keeps it from setting ready.
Over == left # "no" \/ (demo = "DetachSelf" /\ report = <<"Invalid argument">>)
=============================================================================
