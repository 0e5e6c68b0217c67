---------------------------- MODULE EngineClient ----------------------------
(***************************************************************************)
(* The GUI's end of the pipe to the worker (tools/neverd-gui/EngineClient) *)
(* split over two threads.  EngineClient lives on the GUI thread and posts *)
(* calls; WorkerTransport lives on a thread of its own, owns the QProcess, *)
(* and posts messages back.  Both directions keep their order.  Every      *)
(* message is tagged with the epoch of the process it came from, and the   *)
(* GUI side drops the ones of another epoch than its own.                  *)
(***************************************************************************)
EXTENDS Naturals, Sequences

VARIABLES
    client,     \* EngineClient: [epoch, nextRequest], and the calls it posted
    transport,  \* WorkerTransport: [epoch, process]
    posted      \* messages and `stopped' signals on their way to the GUI thread

clientVars == <<client, transport, posted>>

NewClient == [epoch |-> 0, nextRequest |-> 0, calls |-> <<>>]
NewTransport == [epoch |-> 0, process |-> "none"]

-----------------------------------------------------------------------------
(* EngineClient, on the GUI thread: each operation gives the client after   *)
(* the call.                                                               *)

\* EngineClient::request; ids are never used twice.
Request(c, request) ==
    LET id == c.nextRequest + 1
    IN [c EXCEPT !.nextRequest = id,
                 !.calls = Append(@, [call |-> "send", id |-> id, request |-> request])]

Start(c) ==
    [c EXCEPT !.epoch = @ + 1,
              !.calls = Append(@, [call |-> "start", epoch |-> c.epoch + 1])]

\* EngineClient::stop; it also emits `stopped' at once, before it returns.
Stop(c) == [c EXCEPT !.epoch = @ + 1, !.calls = Append(@, [call |-> "stop"])]

-----------------------------------------------------------------------------
(* WorkerTransport, on its own thread.                                     *)

Post(message) == posted' = Append(posted, message)
Stopped == [type |-> "stopped", epoch |-> transport.epoch]

NextCall(name) ==
    /\ client.calls # <<>>
    /\ Head(client.calls).call = name
    /\ client' = [client EXCEPT !.calls = Tail(@)]

\* WorkerTransport::start kills the process it has, whose signals are
\* disconnected, and starts another.
TransportStart ==
    /\ NextCall("start")
    /\ transport' = [epoch |-> Head(client.calls).epoch, process |-> "starting"]
    /\ UNCHANGED posted

TransportStop ==
    /\ NextCall("stop")
    /\ transport' = [transport EXCEPT !.process = "none"]
    /\ UNCHANGED posted

\* A reply the transport makes itself carries no operation and no context.
Unsent(id, code) == [type |-> "response", epoch |-> transport.epoch, id |-> id,
                     op |-> "", code |-> code]

\* WorkerTransport::send without a running process.
TransportUnavailable ==
    /\ NextCall("send") /\ transport.process # "running"
    /\ Post(Unsent(Head(client.calls).id, "transport_unavailable"))
    /\ UNCHANGED transport

\* The write queue, or the frame, is at its limit.
TransportFull ==
    /\ NextCall("send") /\ transport.process = "running"
    /\ Post(Unsent(Head(client.calls).id, "queue_full"))
    /\ UNCHANGED transport

\* The frame is written to the worker.
TransportWrite ==
    /\ NextCall("send") /\ transport.process = "running"
    /\ UNCHANGED transport

\* The process starts, and speaks first: hello, or fatal when it has no engine.
ProcessStarted(type) ==
    /\ transport.process = "starting"
    /\ transport' = [transport EXCEPT !.process = "running"]
    /\ Post([type |-> type, epoch |-> transport.epoch])
    /\ UNCHANGED client

\* It fails to start, exits, crashes, or writes what is not a frame.
ProcessExits ==
    /\ transport.process \in {"starting", "running"}
    /\ transport' = [transport EXCEPT !.process = "none"]
    /\ Post(Stopped)
    /\ UNCHANGED client
=============================================================================
