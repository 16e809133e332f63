-------------------------------- MODULE Rpc ---------------------------------
(***************************************************************************)
(* One connection, and the state machines at its two ends: a client's      *)
(* rpc_engine_t (cuti/cuti/rpc_engine.hpp), which writes a request while   *)
(* it reads the reply, and a server's request_handler_t                    *)
(* (cuti/cuti/request_handler.cpp).                                        *)
(*                                                                         *)
(* A message is a sequence of tokens: a request is a method's name and     *)
(* arguments, a reply is values, or an error that may follow some of them. *)
(* Its end is an end of message marker (EOM).  When anything goes wrong    *)
(* both sides skip to the EOM, so that the connection can be used again.   *)
(* Tokens carry the number of the call they belong to, which the code does *)
(* not have: it is what the properties are about.                          *)
(***************************************************************************)
EXTENDS Integers, Sequences, SequencesExt

CONSTANTS
  NArgs, NValues,     \* how many arguments and values the method has
  OutbufSize,         \* the size of an output buffer, in tokens
  WireSize,           \* bound: the tokens in flight
  MaxCalls            \* bound: calls

ASSUME RpcAssumption ==
  /\ {NArgs, NValues, MaxCalls} \subseteq Nat
  /\ {OutbufSize, WireSize} \subseteq Nat \ {0}

VARIABLES
  call,                  \* the number of the client's current call
  input_state, output_state, ex,   \* the engine's: is there an exception in ex_?
  n_read, n_written,     \* how many values and tokens the client has read and written
  result,                \* the engine's result: "none", "ok", "failed"
  state, op,             \* the handler's; what its method does next
  n_args, n_values,      \* how many arguments and values the method has read and written
  served,                \* the number of the handler's current call
  succeeded,             \* the calls whose method succeeded, one after the other
  outbuf, wire,          \* the output buffer and the tokens in flight, of each side
  flushing,              \* the sides whose output buffer is being flushed
  error,                 \* the buffers that have an i/o error, by side
  closed                 \* the sides that closed the connection

client  == <<call, input_state, output_state, ex, n_read, n_written, result>>
server  == <<state, op, n_args, n_values, served, succeeded>>
network == <<outbuf, wire, flushing, error, closed>>
vars    == <<client, server, network>>

Sides   == {"client", "server"}
Buffers == Sides \X {"inbuf", "outbuf"}
Peer(s) == IF s = "client" THEN "server" ELSE "client"
Kinds   == {"method", "arg", "value", "error", "eom"}
Tokens  == [kind : Kinds, call : 1 .. MaxCalls]
Eof     == [kind |-> "eof", call |-> 0]

InputStates  == {"input_not_started", "reading_reply", "draining_message", "input_done"}
OutputStates == {"output_not_started", "writing_request", "writing_eom", "flushing_eom", "output_done"}
HandlerStates ==
  {"idle", "method_reader", "method_runner", "eom_checker", "exception_writer",
   "eom_writer", "eom_flusher", "request_drainer"}

Ops == {"read", "write", "succeed", "fail"}

TypeOK ==
  /\ call \in 0 .. MaxCalls
  /\ input_state \in InputStates /\ output_state \in OutputStates /\ ex \in BOOLEAN
  /\ n_read \in 0 .. NValues /\ n_written \in 0 .. NArgs + 1
  /\ result \in {"none", "ok", "failed"}
  /\ state \in HandlerStates /\ op \in Ops
  /\ n_args \in 0 .. NArgs /\ n_values \in 0 .. NValues + 1
  /\ served \in 0 .. MaxCalls
  /\ succeeded \in Seq(1 .. MaxCalls)
  /\ outbuf \in [Sides -> Seq(Tokens)] /\ \A s \in Sides : Len(outbuf[s]) <= OutbufSize
  /\ wire \in [Sides -> Seq(Tokens)] /\ \A s \in Sides : Len(wire[s]) <= WireSize
  /\ flushing \subseteq Sides /\ error \subseteq Buffers /\ closed \subseteq Sides

Init ==
  /\ call = 0
  /\ input_state = "input_done" /\ output_state = "output_done" /\ ex = FALSE
  /\ n_read = 0 /\ n_written = 0 /\ result = "none"
  /\ state = "idle" /\ op = "succeed" /\ n_args = 0 /\ n_values = 0
  /\ served = 0
  /\ succeeded = <<>>
  /\ outbuf = [s \in Sides |-> <<>>] /\ wire = [s \in Sides |-> <<>>]
  /\ flushing = {}
  /\ error = {} /\ closed = {}

-----------------------------------------------------------------------------
(***************************************************************************)
(* The buffers and the network.  See NbInbuf and NbOutbuf: a buffer keeps  *)
(* its error, after which input is at its end, or output goes nowhere.     *)
(* The other buffer of that side goes on as before.                        *)
(***************************************************************************)
\* Side s can look at its next token: a token, or the end of the input.
CanPeek(s) == <<s, "inbuf">> \in error \/ wire[Peer(s)] # <<>> \/ Peer(s) \in closed
Peek(s)    == IF <<s, "inbuf">> \in error \/ wire[Peer(s)] = <<>> THEN Eof ELSE Head(wire[Peer(s)])
PeekKind(s) == Peek(s).kind

Skip(s) == wire' = IF Peek(s) = Eof THEN wire ELSE [wire EXCEPT ![Peer(s)] = Tail(@)]

\* Side s can write a token.
CanPut(s) == <<s, "outbuf">> \in error \/ (Len(outbuf[s]) < OutbufSize /\ s \notin flushing)
Put(s, kind, n) ==
  outbuf' = IF <<s, "outbuf">> \in error THEN outbuf
            ELSE [outbuf EXCEPT ![s] = Append(@, [kind |-> kind, call |-> n])]

Flushed(s) == <<s, "outbuf">> \in error \/ outbuf[s] = <<>>

(***************************************************************************)
(* A full buffer and one that is to be flushed are sent, and can be        *)
(* written to again when they are empty.                                   *)
(***************************************************************************)
Sending(s) == outbuf[s] # <<>> /\ (Len(outbuf[s]) = OutbufSize \/ s \in flushing)

Send(s) ==
  /\ <<s, "outbuf">> \notin error
  /\ Sending(s)
  /\ Len(wire[s]) < WireSize
  /\ wire' = [wire EXCEPT ![s] = Append(@, Head(outbuf[s]))]
  /\ outbuf' = [outbuf EXCEPT ![s] = Tail(@)]
  /\ flushing' = IF Len(outbuf[s]) = 1 THEN flushing \ {s} ELSE flushing \cup {s}
  /\ UNCHANGED <<client, server, error, closed>>

(***************************************************************************)
(* An i/o error, or too low a throughput, shows when a buffer is read from *)
(* its source or written to its sink.  A server without a request is       *)
(* monitored for input.                                                    *)
(***************************************************************************)
Reading(s) ==
  IF s = "client" THEN input_state \in {"reading_reply", "draining_message"}
  ELSE \/ state \in {"idle", "method_reader", "eom_checker", "request_drainer"}
       \/ state = "method_runner" /\ op = "read"

InputFails(s) ==
  /\ <<s, "inbuf">> \notin error /\ s \notin closed
  /\ Reading(s)
  /\ error' = error \cup {<<s, "inbuf">>}
  /\ UNCHANGED <<client, server, outbuf, wire, flushing, closed>>

OutputFails(s) ==
  /\ <<s, "outbuf">> \notin error /\ s \notin closed
  /\ Sending(s)
  /\ error' = error \cup {<<s, "outbuf">>}
  /\ outbuf' = [outbuf EXCEPT ![s] = <<>>]
  /\ flushing' = flushing \ {s}
  /\ UNCHANGED <<client, server, wire, closed>>

IoError(s) == InputFails(s) \/ OutputFails(s)

-----------------------------------------------------------------------------
(***************************************************************************)
(* The client: rpc_engine_t.                                               *)
(***************************************************************************)
Busy == call > 0 /\ result = "none"

(***************************************************************************)
(* start(), and rpc_client_t's choice of a connection: the one of a call   *)
(* that succeeded is stored and used again, that of one that failed is     *)
(* closed, and this is another, with a handler of its own.                 *)
(***************************************************************************)
Start ==
  /\ ~Busy /\ call < MaxCalls
  /\ result = "failed" => closed = Sides
  /\ call' = call + 1
  /\ input_state' = "reading_reply" /\ output_state' = "output_not_started" /\ ex' = FALSE
  /\ n_read' = 0 /\ n_written' = 0 /\ result' = "none"
  /\ IF result = "failed"
       THEN /\ outbuf' = [s \in Sides |-> <<>>] /\ wire' = [s \in Sides |-> <<>>]
            /\ flushing' = {} /\ error' = {} /\ closed' = {}
            /\ op' = "succeed" /\ n_args' = 0 /\ n_values' = 0
       ELSE UNCHANGED <<network, op, n_args, n_values>>
  /\ UNCHANGED <<state, served, succeeded>>

\* Mutant of StartRequest: it does not look at what the input has done.
StartRequestAnyway ==
  /\ Busy /\ n_written = 0 /\ output_state \in {"output_not_started", "output_done"}
  /\ output_state' = "writing_request"
  /\ UNCHANGED <<call, input_state, ex, n_read, n_written, result, server, network>>

\* The rest of start(): an error in the reply may have come first.
StartRequest ==
  /\ output_state = "output_not_started"
  /\ output_state' = "writing_request"
  /\ UNCHANGED <<call, input_state, ex, n_read, n_written, result, server, network>>

(***************************************************************************)
(* on_done().  The connection is stored, or closed.                        *)
(***************************************************************************)
OnDone ==
  /\ result' = IF ex \/ \E b \in {"inbuf", "outbuf"} : <<"client", b>> \in error THEN "failed" ELSE "ok"
  /\ closed' = IF result' = "failed" THEN closed \cup {"client"} ELSE closed

DoneIf(condition) == IF condition THEN OnDone ELSE UNCHANGED <<result, closed>>

\* on_reply_error(): skips or cancels request writing.
SkipOutput ==
  output_state' = IF output_state \in {"output_not_started", "writing_request"}
                    THEN "writing_eom" ELSE output_state

\* on_request_error(): skips or cancels reply reading.
SkipInput ==
  input_state' = IF input_state \in {"input_not_started", "reading_reply"}
                   THEN "draining_message" ELSE input_state

ReadValue ==
  /\ input_state = "reading_reply" /\ CanPeek("client")
  /\ n_read < NValues /\ PeekKind("client") = "value"
  /\ Skip("client")
  /\ n_read' = n_read + 1
  /\ UNCHANGED <<call, input_state, output_state, ex, n_written, result, server, outbuf, flushing, error, closed>>

OnReplyRead ==
  /\ input_state = "reading_reply" /\ CanPeek("client")
  /\ n_read = NValues /\ PeekKind("client") = "eom"
  /\ input_state' = "draining_message"
  /\ UNCHANGED <<call, output_state, ex, n_read, n_written, result, server, network>>

(***************************************************************************)
(* Another token than the one expected, an error (which is read), or an    *)
(* input_t that throws when a value is put into it.                        *)
(***************************************************************************)
OnReplyError ==
  /\ input_state = "reading_reply" /\ CanPeek("client")
  /\ \/ PeekKind("client") = "error" /\ Skip("client")
     \/ PeekKind("client") = "value" /\ n_read < NValues /\ Skip("client")
     \/ PeekKind("client") \notin {"error", IF n_read < NValues THEN "value" ELSE "eom"} /\ UNCHANGED wire
  /\ ex' = TRUE
  /\ SkipOutput
  /\ input_state' = "draining_message"
  /\ UNCHANGED <<call, n_read, n_written, result, server, outbuf, flushing, error, closed>>

\* message_drainer_, and on_message_drained().
DrainMessage ==
  /\ input_state = "draining_message" /\ CanPeek("client")
  /\ Skip("client")
  /\ IF PeekKind("client") \in {"eom", "eof"}
       THEN input_state' = "input_done" /\ DoneIf(output_state = "output_done")
       ELSE UNCHANGED <<input_state, result, closed>>
  /\ UNCHANGED <<call, output_state, ex, n_read, n_written, server, outbuf, flushing, error>>

WriteRequest ==
  /\ output_state = "writing_request" /\ CanPut("client")
  /\ n_written < NArgs + 1
  /\ Put("client", IF n_written = 0 THEN "method" ELSE "arg", call)
  /\ n_written' = n_written + 1
  /\ UNCHANGED <<call, input_state, output_state, ex, n_read, result, server, wire, flushing, error, closed>>

OnRequestWritten ==
  /\ output_state = "writing_request" /\ n_written = NArgs + 1
  /\ output_state' = "writing_eom"
  /\ UNCHANGED <<call, input_state, ex, n_read, n_written, result, server, network>>

\* An output_t that throws when a value is taken from it.
OnRequestError ==
  /\ output_state = "writing_request" /\ n_written \in 1 .. NArgs
  /\ ex' = TRUE
  /\ SkipInput
  /\ output_state' = "writing_eom"
  /\ UNCHANGED <<call, n_read, n_written, result, server, network>>

WriteEom ==
  /\ output_state = "writing_eom" /\ CanPut("client")
  /\ Put("client", "eom", call)
  /\ flushing' = IF <<"client", "outbuf">> \in error THEN flushing ELSE flushing \cup {"client"}
  /\ output_state' = "flushing_eom"
  /\ UNCHANGED <<call, input_state, ex, n_read, n_written, result, server, wire, error, closed>>

\* Mutant of OnEomWritten: it is left to the reply's end to complete the call.
OnEomWrittenLast ==
  /\ output_state = "flushing_eom" /\ Flushed("client")
  /\ output_state' = "output_done"
  /\ UNCHANGED <<call, input_state, ex, n_read, n_written, result, closed, server, outbuf, wire, flushing, error>>

OnEomWritten ==
  /\ output_state = "flushing_eom" /\ Flushed("client")
  /\ output_state' = "output_done"
  /\ DoneIf(input_state = "input_done")
  /\ UNCHANGED <<call, input_state, ex, n_read, n_written, server, outbuf, wire, flushing, error>>

ClientInput == ReadValue \/ OnReplyRead \/ OnReplyError \/ DrainMessage
ClientOutput == StartRequest \/ WriteRequest \/ OnRequestWritten \/ WriteEom \/ OnEomWritten

-----------------------------------------------------------------------------
(***************************************************************************)
(* The server: request_handler_t, and the method it runs.                  *)
(***************************************************************************)
\* The dispatcher starts a handler when there is a request.
StartHandler ==
  /\ state = "idle" /\ "server" \notin closed
  /\ <<"server", "outbuf">> \notin error
  /\ CanPeek("server") /\ Peek("server") # Eof
  /\ state' = "method_reader"
  /\ n_args' = 0 /\ n_values' = 0
  /\ served' = Peek("server").call
  /\ UNCHANGED <<op, succeeded, client, network>>

\* The dispatcher drops a client that has an error or is gone.
DropClient ==
  /\ state = "idle" /\ "server" \notin closed
  /\ <<"server", "outbuf">> \in error \/ (CanPeek("server") /\ Peek("server") = Eof)
  /\ closed' = closed \cup {"server"}
  /\ UNCHANGED <<client, server, outbuf, wire, flushing, error>>

\* The dispatcher stops: the handler is interrupted.
Interrupt ==
  /\ state # "idle"
  /\ state' = "idle"
  /\ closed' = closed \cup {"server"}
  /\ UNCHANGED <<client, op, n_args, n_values, served, succeeded, outbuf, wire, flushing, error>>

GoTo(next) == state' = next /\ UNCHANGED <<op, n_args, n_values, served, succeeded>>

\* report_failure()
ReportFailure == GoTo("exception_writer")

(***************************************************************************)
(* A method reads and writes in any order, and then succeeds or fails.     *)
(***************************************************************************)
NextOp(written) == op' \in IF written > NValues THEN Ops \ {"write"} ELSE Ops

StartMethod ==
  /\ state = "method_reader" /\ CanPeek("server") /\ PeekKind("server") = "method"
  /\ Skip("server")
  /\ \/ state' = "method_runner" /\ NextOp(n_values) /\ UNCHANGED <<n_args, n_values, served, succeeded>>
     \/ ReportFailure            \* method not found
  /\ UNCHANGED <<client, outbuf, flushing, error, closed>>

OnMethodReaderFailure ==
  /\ state = "method_reader" /\ CanPeek("server") /\ PeekKind("server") # "method"
  /\ ReportFailure
  /\ UNCHANGED <<client, network>>

MethodReads ==
  /\ state = "method_runner" /\ op = "read" /\ CanPeek("server")
  /\ IF PeekKind("server") = "arg"
       THEN /\ Skip("server")
            /\ n_args' = n_args + 1
            /\ NextOp(n_values)
            /\ UNCHANGED <<state, n_values, served, succeeded>>
       ELSE ReportFailure /\ UNCHANGED wire
  /\ UNCHANGED <<client, outbuf, flushing, error, closed>>

MethodWrites ==
  /\ state = "method_runner" /\ op = "write" /\ CanPut("server")
  /\ Put("server", "value", served)
  /\ n_values' = n_values + 1
  /\ NextOp(n_values + 1)
  /\ UNCHANGED <<state, n_args, served, succeeded, client, wire, flushing, error, closed>>

\* Mutant of OnMethodSucceeded: the end of the request is not checked.
OnMethodSucceededUnchecked ==
  /\ state = "method_runner" /\ op = "succeed"
  /\ state' = "eom_writer"
  /\ succeeded' = Append(succeeded, served)
  /\ UNCHANGED <<op, n_args, n_values, served, client, network>>

OnMethodSucceeded ==
  /\ state = "method_runner" /\ op = "succeed"
  /\ state' = "eom_checker"
  /\ succeeded' = Append(succeeded, served)
  /\ UNCHANGED <<op, n_args, n_values, served, client, network>>

OnMethodFailure ==
  /\ state = "method_runner" /\ op = "fail"
  /\ ReportFailure
  /\ UNCHANGED <<client, network>>

\* eom_checker_: it looks at the EOM, and leaves it.
CheckEom ==
  /\ state = "eom_checker" /\ CanPeek("server")
  /\ IF PeekKind("server") = "eom" THEN GoTo("eom_writer") ELSE ReportFailure
  /\ UNCHANGED <<client, network>>

WriteException ==
  /\ state = "exception_writer" /\ CanPut("server")
  /\ Put("server", "error", served)
  /\ GoTo("eom_writer")
  /\ UNCHANGED <<client, wire, flushing, error, closed>>

WriteReplyEom ==
  /\ state = "eom_writer" /\ CanPut("server")
  /\ Put("server", "eom", served)
  /\ flushing' = IF <<"server", "outbuf">> \in error THEN flushing ELSE flushing \cup {"server"}
  /\ GoTo("eom_flusher")
  /\ UNCHANGED <<client, wire, error, closed>>

OnReplyEomWritten ==
  /\ state = "eom_flusher" /\ Flushed("server")
  /\ GoTo("request_drainer")
  /\ UNCHANGED <<client, network>>

\* request_drainer_, and on_request_drained().
DrainRequest ==
  /\ state = "request_drainer" /\ CanPeek("server")
  /\ Skip("server")
  /\ IF PeekKind("server") \in {"eom", "eof"} THEN GoTo("idle") ELSE UNCHANGED server
  /\ UNCHANGED <<client, outbuf, flushing, error, closed>>

ServerStep ==
  \/ StartHandler \/ DropClient
  \/ StartMethod \/ OnMethodReaderFailure
  \/ MethodReads \/ MethodWrites \/ OnMethodSucceeded \/ OnMethodFailure
  \/ CheckEom \/ WriteException \/ WriteReplyEom \/ OnReplyEomWritten \/ DrainRequest

-----------------------------------------------------------------------------
Next ==
  \/ Start
  \/ ClientInput \/ ClientOutput \/ OnRequestError
  \/ ServerStep \/ Interrupt
  \/ \E s \in Sides : Send(s) \/ IoError(s)

(***************************************************************************)
(* Both sides' event loops run and the network delivers.  No call need be  *)
(* made, no method and no argument need fail.                              *)
(*                                                                         *)
(* Both sides check the throughput of their buffers in the course of a     *)
(* call, which ends a wait for a peer that does not go on.  That is only   *)
(* relied on once something has failed: as long as nothing has, the two    *)
(* sides have to get on without it.                                        *)
(***************************************************************************)
SomethingFailed == error # {} \/ closed # {}

Starved(s) == (s = "client" \/ state # "idle") /\ ~CanPeek(s)
Blocked(s) == Len(wire[s]) = WireSize

Fairness ==
  /\ WF_vars(ClientInput) /\ WF_vars(ClientOutput)
  /\ WF_vars(ServerStep)
  /\ \A s \in Sides :
       /\ WF_vars(Send(s))
       /\ WF_vars(SomethingFailed /\ Starved(s) /\ InputFails(s))
       /\ WF_vars(SomethingFailed /\ Blocked(s) /\ OutputFails(s))

Spec     == Init /\ [][Next]_vars
FairSpec == Spec /\ Fairness

-----------------------------------------------------------------------------
(***************************************************************************)
(* A call that succeeds for the client is one whose method succeeded, and  *)
(* read all of the arguments the client sent, and wrote all of the values  *)
(* the client got, and nothing else.                                       *)
(***************************************************************************)
SuccessIsMutual ==
  result = "ok" =>
    Last(succeeded) = call /\ n_args = NArgs /\ n_values = NValues

\* Whatever fails, a call's method is run once at most.
AtMostOnce ==
  \A i, j \in DOMAIN succeeded : i # j => succeeded[i] # succeeded[j]

\* What side s has written and its peer has not read.
Unread(s) == wire[s] \o outbuf[s]

(***************************************************************************)
(* On a connection that is used again the replies are those of the call    *)
(* in progress, and the tokens a handler reads those of one request.       *)
(***************************************************************************)
InStep ==
  /\ Busy => \A i \in DOMAIN Unread("server") : Unread("server")[i].call = call
  /\ state # "idle" /\ wire["client"] # <<>> => Head(wire["client"]).call = served

(***************************************************************************)
(* Nothing of a message follows its EOM: an error that cuts a request      *)
(* short ends it once, whichever of input and output comes first.          *)
(***************************************************************************)
EomIsLast ==
  \A s \in Sides : \A i, j \in DOMAIN Unread(s) :
    i < j /\ Unread(s)[i].kind = "eom" => Unread(s)[j].call > Unread(s)[i].call

(***************************************************************************)
(* The result is there when the reply is read to its end and the request   *)
(* is flushed, whichever comes last, and not before.                       *)
(***************************************************************************)
DoneWhenBothAre ==
  call > 0 => (result = "none" <=> input_state # "input_done" \/ output_state # "output_done")

-----------------------------------------------------------------------------
(***************************************************************************)
(* What is in flight fits what both sides have done so far.                *)
(***************************************************************************)
EomWritten == output_state \in {"flushing_eom", "output_done"}

ClientFits ==
  /\ input_state # "input_not_started"
  /\ input_state = "reading_reply" => ~ex
  /\ output_state = "output_not_started" => n_written = 0
  /\ call > 0 /\ output_state \notin {"output_not_started", "writing_request"} /\ ~ex
       => n_written = NArgs + 1
  /\ output_state = "output_done" => outbuf["client"] = <<>>
  /\ \A s \in Sides : <<s, "outbuf">> \in error => outbuf[s] = <<>>
  /\ "client" \in closed <=> result = "failed"
  /\ call = 0 => result = "none" /\ input_state = "input_done" /\ output_state = "output_done"
  /\ result = "ok" => ~ex

\* The states of a handler that has written its reply, and of none.
Replied == {"eom_flusher", "request_drainer", "idle"}

Success(n) == succeeded # <<>> /\ Last(succeeded) = n

ServerFits ==
  /\ served <= call
  /\ state # "idle" => served > 0 /\ "server" \notin closed
  /\ state \notin Replied => served = call
  /\ state = "method_reader" => n_args = 0 /\ n_values = 0
  /\ state = "method_runner" /\ op = "write" => n_values <= NValues
  /\ state = "eom_checker" => Success(served)

Succeeding ==
  /\ \A i, j \in DOMAIN succeeded : i < j => succeeded[i] < succeeded[j]
  /\ \A i \in DOMAIN succeeded :
       /\ succeeded[i] <= served
       /\ state \in {"method_reader", "method_runner"} => succeeded[i] < served

(***************************************************************************)
(* The request: what the server has not read is the end of the previous    *)
(* request, with its EOM, if the handler is not done with that, and then   *)
(* that of the current one.  Here the current one follows the first n      *)
(* tokens, of which there are less than none when the server has read some.*)
(***************************************************************************)
RequestToken(j) ==
  [kind |-> IF j > n_written THEN "eom" ELSE IF j = 1 THEN "method" ELSE "arg", call |-> call]

RequestLength == n_written + (IF EomWritten THEN 1 ELSE 0)

RequestAfter(n) ==
  LET request == Unread("client") IN
    /\ \A i \in DOMAIN request : i > n => request[i] = RequestToken(i - n)
    /\ Len(request) - n <= RequestLength
    /\ <<"client", "outbuf">> \notin error \/ result = "ok" => Len(request) - n = RequestLength
    /\ served < call =>
         /\ n \in 0 .. Len(wire["client"])
         /\ state = "idle" <=> n = 0
         /\ \A i \in 1 .. n : request[i].call = served /\ (request[i].kind = "eom" <=> i = n)
    /\ served = call =>
         /\ n <= 0
         /\ state = "idle" => request = <<>> /\ EomWritten
         /\ state # "idle" => -n <= n_written
         /\ state = "method_reader" => n = 0
         /\ state \in {"method_runner", "eom_checker"} => n = -(1 + n_args)

\* Does a handler read, or may one start?
Serving == "server" \notin closed /\ (state # "idle" \/ <<"server", "inbuf">> \notin error)

RequestFits == Serving => \E n \in -(NArgs + 2) .. Len(Unread("client")) : RequestAfter(n)

\* The request's EOM is written once.
EomFits ==
  \A i \in DOMAIN Unread("client") :
    LET token == Unread("client")[i] IN
      token.call <= call /\ (token.kind = "eom" /\ token.call = call => EomWritten)

(***************************************************************************)
(* The reply is the current call's, and ends with its EOM.  A client that  *)
(* has read nothing but values so far has read n_read of the n_values that *)
(* the method wrote, and an EOM that follows no error is that of a method  *)
(* that succeeded, after the whole request.                                *)
(***************************************************************************)
Complete ==
  /\ served = call
  /\ Success(call)
  /\ EomWritten /\ n_args = n_written - 1

ReplyFits ==
  LET reply == Unread("server") IN
    /\ \A i \in DOMAIN reply :
         /\ reply[i].call = call
         /\ reply[i].kind = "eom" => i = Len(reply) /\ state \in Replied
    /\ served < call => reply = <<>> /\ n_read = 0

ReplyRead ==
  input_state = "reading_reply" /\ served = call =>
    \A i \in DOMAIN Unread("server") :
      LET reply == Unread("server") IN
        /\ reply[i].kind = "value" => n_read + i <= n_values
        /\ reply[i].kind = "eom" =>
             \/ i > 1 /\ reply[i - 1].kind = "error"
             \/ n_read + i = n_values + 1 /\ Complete

ReplyWritten ==
  LET reply == Unread("server") IN
    input_state = "reading_reply" /\ <<"server", "outbuf">> \notin error /\ state \notin Replied =>
      \/ n_read + Len(reply) = n_values
           /\ (state = "eom_writer" => Complete)
      \/ state = "eom_writer" /\ reply # <<>> /\ Last(reply).kind = "error"

\* A client that has found no error has read, or is about to read, the EOM.
Answered == state \in Replied /\ Complete /\ n_values = NValues

ReplyDrained ==
  /\ input_state = "draining_message" /\ ~ex /\ <<"client", "inbuf">> \notin error =>
       wire["server"] # <<>> /\ Head(wire["server"]).kind = "eom" /\ Answered
  /\ (\/ result = "ok"
      \/ call > 0 /\ input_state = "input_done" /\ ~ex /\ <<"client", "inbuf">> \notin error) =>
       Unread("server") = <<>> /\ Answered

\* What keeps a connection fit for its next call.
Inv ==
  /\ TypeOK
  /\ AtMostOnce
  /\ InStep
  /\ EomIsLast
  /\ DoneWhenBothAre
  /\ ClientFits /\ ServerFits /\ Succeeding
  /\ RequestFits /\ EomFits
  /\ ReplyFits /\ ReplyRead /\ ReplyWritten /\ ReplyDrained

(***************************************************************************)
(* The two sides never wait for each other: a call is completed, whatever  *)
(* method it calls and whatever fails in between, and its handler is done  *)
(* with the request, so that its thread is free.                           *)
(***************************************************************************)
BothComplete ==
  /\ Busy ~> ~Busy
  /\ state # "idle" ~> state = "idle"

=============================================================================
