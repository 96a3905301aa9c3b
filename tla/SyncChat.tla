------------------------------ MODULE SyncChat -------------------------------
(***************************************************************************)
(* The synchronous gRPC clients (client/sync) against the services         *)
(* (server/sync).  Read, Write and Finish block; a stream (external) holds *)
(* Window messages in each direction.  The words of a stream are numbered. *)
(***************************************************************************)
EXTENDS Naturals, Sequences

CONSTANTS Window,
          Words,      \* words a client says: 3 in speak(), 10 in talk()
          Responses,  \* words of listen(): 3
          Calls       \* see env

VARIABLES
    env,      \* never changes: [call, breaks]: the method, and whether the
              \* connection may break
    writer,   \* the thread that writes: [pc, n]; in talk() the thread tw
    reader,   \* the thread that called the method: [pc, got]
    server,   \* the service method: [pc, got, n]
    toServer, toClient, \* messages on their way
    closed,   \* WritesDone has been called
    status    \* "none", "OK", "error"

vars == <<env, writer, reader, server, toServer, toClient, closed, status>>

Up == IF env.call \in {"speak", "talk"} THEN Words ELSE 1
Down == CASE env.call = "listen" -> Responses [] env.call = "talk" -> Words [] OTHER -> 1
OneAnswer == env.call \notin {"listen", "talk"}
Over == status # "none"

Init ==
    /\ env \in Calls
    /\ writer = [pc |-> "write", n |-> 0]
    /\ reader = [pc |-> IF OneAnswer THEN "finish" ELSE "read", got |-> <<>>]
    /\ server = [pc |-> "read", got |-> <<>>, n |-> 0]
    /\ toServer = <<>> /\ toClient = <<>> /\ closed = FALSE /\ status = "none"

-----------------------------------------------------------------------------
\* The client.  The result of Write is not looked at.

ClientWrite ==
    /\ writer.pc = "write" /\ writer.n < Up
    /\ Over \/ Len(toServer) < Window
    /\ toServer' = IF Over THEN toServer ELSE Append(toServer, writer.n + 1)
    /\ writer' = [writer EXCEPT !.n = @ + 1]
    /\ UNCHANGED <<reader, server, toClient, closed, status>>

\* Mutant: talk() forgets WritesDone.
WritesDone_Forgotten ==
    /\ writer.pc = "write" /\ writer.n = Up
    /\ writer' = [writer EXCEPT !.pc = "done"]
    /\ UNCHANGED <<reader, server, toServer, toClient, closed, status>>

\* WritesDone; for a unary request it is part of the call.
WritesDone ==
    /\ writer.pc = "write" /\ writer.n = Up
    /\ writer' = [writer EXCEPT !.pc = "done"]
    /\ closed' = TRUE
    /\ UNCHANGED <<reader, server, toServer, toClient, status>>

\* while (Read(&response)) in listen and talk
ClientRead ==
    /\ reader.pc = "read"
    /\ \/ /\ toClient # <<>>
          /\ reader' = [reader EXCEPT !.got = Append(@, Head(toClient))]
          /\ toClient' = Tail(toClient)
       \/ /\ Over /\ (toClient = <<>> \/ status = "error")
          /\ reader' = [reader EXCEPT !.pc = "finish"]
          /\ UNCHANGED toClient
    /\ UNCHANGED <<writer, server, toServer, closed, status>>

\* tw.join() and Finish; greet and speak get their one answer with the status.
ClientFinish ==
    /\ reader.pc = "finish" /\ writer.pc = "done" /\ Over
    /\ reader' = [pc |-> "over",
                  got |-> IF OneAnswer /\ status = "OK" THEN toClient ELSE reader.got]
    /\ UNCHANGED <<writer, server, toServer, toClient, closed, status>>

\* The methods of HelloClient, GoodbyeClient and ChatClient
Unary(method)   == env.call = method /\ (ClientWrite \/ WritesDone \/ ClientFinish)
SayHello        == Unary("sayHello")
SayHelloAgain   == Unary("sayHelloAgain")
SayGoodbye      == Unary("sayGoodbye")
SayGoodbyeAgain == Unary("sayGoodbyeAgain")
Greet           == Unary("greet")
Listen          == env.call = "listen" /\ (ClientWrite \/ WritesDone \/ ClientRead \/ ClientFinish)
Speak           == env.call = "speak" /\ (ClientWrite \/ WritesDone \/ ClientFinish)
Talk            == env.call = "talk" /\ (ClientWrite \/ WritesDone \/ ClientRead \/ ClientFinish)

-----------------------------------------------------------------------------
\* The service

Read(next) ==
    /\ server.pc = "read" /\ toServer # <<>>
    /\ toServer' = Tail(toServer)
    /\ server' = [server EXCEPT !.got = Append(@, Head(toServer)), !.pc = next]
    /\ UNCHANGED <<writer, reader, toClient, closed, status>>

ReadEnds(next) ==
    /\ server.pc = "read"
    /\ (closed /\ toServer = <<>>) \/ status = "error"
    /\ server' = [server EXCEPT !.pc = next]
    /\ UNCHANGED <<writer, reader, toServer, toClient, closed, status>>

Write(word, next) ==
    /\ server.pc = "write"
    /\ Over \/ Len(toClient) < Window
    /\ toClient' = IF Over THEN toClient ELSE Append(toClient, word)
    /\ server' = [server EXCEPT !.n = @ + 1, !.pc = next]
    /\ UNCHANGED <<writer, reader, toServer, closed, status>>

\* return grpc::Status::OK
Return ==
    /\ server.pc = "return"
    /\ server' = [server EXCEPT !.pc = "over"]
    /\ status' = IF Over THEN status ELSE "OK"
    /\ UNCHANGED <<writer, reader, toServer, toClient, closed>>

\* The methods of HelloServiceImpl, GoodbyeServiceImpl and ChatServiceImpl
ServeUnary(method)   == env.call = method /\ (Read("write") \/ Write(1, "return") \/ Return)
ServeSayHello        == ServeUnary("sayHello")
ServeSayHelloAgain   == ServeUnary("sayHelloAgain")
ServeSayGoodbye      == ServeUnary("sayGoodbye")
ServeSayGoodbyeAgain == ServeUnary("sayGoodbyeAgain")
ServeGreet           == ServeUnary("greet")
ServeListen ==
    /\ env.call = "listen"
    /\ \/ Read("write")
       \/ Write(server.n + 1, IF server.n + 1 = Responses THEN "return" ELSE "write")
       \/ Return
ServeSpeak == env.call = "speak" /\ (Read("read") \/ ReadEnds("write") \/ Write(1, "return") \/ Return)

\* Mutant: the loop is left after the first word.
ServeTalk_Once == env.call = "talk" /\ (Read("write") \/ ReadEnds("return")
                     \/ Write(server.got[Len(server.got)], "return") \/ Return)

ServeTalk == env.call = "talk" /\ (Read("write") \/ ReadEnds("return")
                     \/ Write(server.got[Len(server.got)], "read") \/ Return)

\* The connection breaks before the call is over.
Break ==
    /\ env.breaks /\ ~Over
    /\ status' = "error"
    /\ toServer' = <<>>
    /\ UNCHANGED <<env, writer, reader, server, toClient, closed>>

Client ==
    /\ \/ SayHello \/ SayHelloAgain \/ SayGoodbye \/ SayGoodbyeAgain
       \/ Greet \/ Listen \/ Speak \/ Talk
    /\ UNCHANGED env
Service ==
    /\ \/ ServeSayHello \/ ServeSayHelloAgain \/ ServeSayGoodbye \/ ServeSayGoodbyeAgain
       \/ ServeGreet \/ ServeListen \/ ServeSpeak \/ ServeTalk
    /\ UNCHANGED env

Next == Client \/ Service \/ Break

-----------------------------------------------------------------------------
\* A call that ends with status OK has said and heard everything, in order,
\* although no Write's result is looked at; whatever happens, what was heard is
\* a prefix of it.
OkMeansAll ==
    /\ reader.pc = "over" /\ status = "OK" =>
        /\ Len(server.got) = Up /\ Len(reader.got) = Down
    /\ server.got = [i \in 1..Len(server.got) |-> i]
    /\ reader.got = [i \in 1..Len(reader.got) |-> i]

\* The client's method has returned.
Returned == reader.pc = "over"
=============================================================================
