----------------------------- MODULE EncodeCall -----------------------------
(***************************************************************************)
(* One encode call: an x26x_proto::client_t (x26x_proto/client.hpp), which *)
(* sends session parameters and a sequence of frames while it receives     *)
(* sample headers and a sequence of samples, and the server's              *)
(* encode_handler_t (x26x_es_utils/encode_handler.hpp), with an            *)
(* encoding_session_t.                                                     *)
(*                                                                         *)
(* An encoder keeps frames back, and gives their samples in another order: *)
(* encode() returns no sample, or that of an earlier frame, and flush()    *)
(* those that are left.  The two streams go at their own pace, through     *)
(* buffers that may be smaller than either.                                *)
(***************************************************************************)
EXTENDS Integers, Sequences, FiniteSets, SequencesExt

CONSTANTS
  MaxFrames,       \* bound: the frames of a call
  Lookahead,       \* the frames an encoder keeps back, at most
  WireSize         \* what the buffers and the network hold of a stream, in tokens

ASSUME EncodeCallAssumption ==
  MaxFrames \in Nat /\ Lookahead \in Nat /\ WireSize \in Nat \ {0}

VARIABLES
  request, reply,  \* the tokens on their way
  broken,          \* the connection is lost
  frames,          \* how many frames the producer has
  written,         \* how many tokens of the request the client has written
  output_state, input_state, ex,     \* the client's rpc_engine_t
  expects,         \* what the client's reader expects
  received,        \* the samples it has got
  at,              \* the step the server is at
  hand,            \* the frame or the sample that it handles
  delayed,         \* the frames in the encoder
  flush_called     \* flush_called_

network == <<request, reply, broken>>
client  == <<frames, written, output_state, input_state, ex, expects, received>>
server  == <<at, hand, delayed, flush_called>>
vars    == <<network, client, server>>

Frames == 1 .. MaxFrames

\* A token is a frame, the sample of one, or a word.
Words == {"params", "headers", "begin", "end", "error", "eom", "eof"}
Token(kind, f) == [kind |-> kind, frame |-> f]
Word(w)        == Token(w, 0)
Tokens == [kind : Words, frame : {0}] \cup [kind : {"frame", "sample"}, frame : Frames]

\* The request of a call of n frames.
Request(n) ==
  <<Word("params"), Word("begin")>> \o [f \in 1 .. n |-> Token("frame", f)] \o <<Word("end")>>

Steps ==
  {"read_params", "create_session", "sample_headers", "aborted", "write_headers",
   "read_begin_sequence", "write_begin_sequence", "check_eos", "read_frame", "encode_frame", "write_sample", "flush_samples", "write_flushed",
   "write_end_sequence", "check_eom", "write_exception", "write_eom", "drain_request", "done"}

\* The steps at which the server has something in its hand.
Handling == {"encode_frame", "write_sample", "write_flushed"}

TypeOK ==
  /\ \A wire \in {request, reply} : wire \in Seq(Tokens) /\ Len(wire) <= WireSize
  /\ broken \in BOOLEAN
  /\ frames \in 0 .. MaxFrames /\ written \in 0 .. Len(Request(frames))
  /\ output_state \in {"writing_request", "writing_eom", "output_done"}
  /\ output_state = "writing_request" => written # Len(Request(frames))
  /\ input_state \in {"reading_reply", "draining_message", "input_done"}
  /\ ex \in BOOLEAN
  /\ expects \in {"headers", "begin", "samples", "eom"}
  /\ received \in Seq(Frames)
  /\ at \in Steps /\ hand \in 0 .. MaxFrames /\ (at \in Handling => hand \in Frames)
  /\ delayed \subseteq Frames /\ flush_called \in BOOLEAN

Init ==
  /\ request = <<>> /\ reply = <<>> /\ broken = FALSE
  /\ frames \in 0 .. MaxFrames
  /\ written = 0 /\ output_state = "writing_request"
  /\ input_state = "reading_reply" /\ ex = FALSE
  /\ expects = "headers" /\ received = <<>>
  /\ at = "read_params" /\ hand = 0
  /\ delayed = {} /\ flush_called = FALSE

-----------------------------------------------------------------------------
\* When the connection is lost input is at its end, and output goes nowhere.
CanPeek(wire) == broken \/ wire # <<>>
Peek(wire)    == IF wire = <<>> THEN Word("eof") ELSE Head(wire)
Rest(wire)    == IF wire = <<>> THEN wire ELSE Tail(wire)
CanPut(wire)  == broken \/ Len(wire) < WireSize
Put(wire, t)  == IF broken THEN wire ELSE Append(wire, t)

Break ==
  /\ ~broken /\ broken' = TRUE
  /\ request' = <<>> /\ reply' = <<>>
  /\ UNCHANGED <<client, server>>

-----------------------------------------------------------------------------
(* The client: see Rpc for its engine.                                     *)

WriteRequest ==
  /\ output_state = "writing_request" /\ CanPut(request)
  /\ request' = Put(request, Request(frames)[written + 1])
  /\ written' = written + 1
  /\ output_state' = IF written' = Len(Request(frames)) THEN "writing_eom" ELSE output_state
  /\ UNCHANGED <<reply, broken, frames, input_state, ex, expects, received, server>>

\* The frame producer throws.
OnRequestError ==
  /\ output_state = "writing_request" /\ written \in 2 .. frames + 1
  /\ output_state' = "writing_eom" /\ ex' = TRUE
  /\ input_state' = IF input_state = "reading_reply" THEN "draining_message" ELSE input_state
  /\ UNCHANGED <<network, frames, written, expects, received, server>>

WriteEom ==
  /\ output_state = "writing_eom" /\ CanPut(request)
  /\ request' = Put(request, Word("eom"))
  /\ output_state' = "output_done"
  /\ UNCHANGED <<reply, broken, frames, written, input_state, ex, expects, received, server>>

\* The inputs of the reply, one after the other: what follows a token of this kind.
Follows(kind) ==
  CASE expects = "headers" /\ kind = "headers" -> "begin"
    [] expects = "begin"   /\ kind = "begin"   -> "samples"
    [] expects = "samples" /\ kind = "sample"  -> "samples"
    [] expects = "samples" /\ kind = "end"     -> "eom"
    [] OTHER                                   -> "error"

\* Mutant of ReadReply: the reply is not read before the request has been written.
ReadReplyLast ==
  /\ input_state = "reading_reply" /\ CanPeek(reply) /\ output_state = "output_done"
  /\ Follows(Peek(reply).kind) # "error"
  /\ expects' = Follows(Peek(reply).kind)
  /\ received' = IF Peek(reply).kind = "sample" THEN Append(received, Peek(reply).frame) ELSE received
  /\ reply' = Tail(reply)
  /\ UNCHANGED <<request, broken, frames, written, output_state, input_state, ex, server>>

ReadReply ==
  /\ input_state = "reading_reply" /\ CanPeek(reply)
  /\ Follows(Peek(reply).kind) # "error"
  /\ expects' = Follows(Peek(reply).kind)
  /\ received' = IF Peek(reply).kind = "sample" THEN Append(received, Peek(reply).frame) ELSE received
  /\ reply' = Tail(reply)
  /\ UNCHANGED <<request, broken, frames, written, output_state, input_state, ex, server>>

OnReplyRead ==
  /\ input_state = "reading_reply" /\ CanPeek(reply)
  /\ expects = "eom" /\ Peek(reply).kind = "eom"
  /\ input_state' = "draining_message"
  /\ UNCHANGED <<network, frames, written, output_state, ex, expects, received, server>>

\* Another token than the one expected, an error, or a sample consumer that throws.
OnReplyError ==
  /\ input_state = "reading_reply" /\ CanPeek(reply)
  /\ \/ Follows(Peek(reply).kind) = "error" /\ ~(expects = "eom" /\ Peek(reply).kind = "eom")
     \/ Peek(reply).kind = "sample"
  /\ reply' = IF Peek(reply).kind = "eom" THEN reply ELSE Rest(reply)
  /\ ex' = TRUE
  /\ input_state' = "draining_message"
  /\ output_state' = IF output_state = "writing_request" THEN "writing_eom" ELSE output_state
  /\ UNCHANGED <<request, broken, frames, written, expects, received, server>>

DrainMessage ==
  /\ input_state = "draining_message" /\ CanPeek(reply)
  /\ reply' = Rest(reply)
  /\ input_state' = IF Peek(reply).kind \in {"eom", "eof"} THEN "input_done" ELSE input_state
  /\ UNCHANGED <<request, broken, frames, written, output_state, ex, expects, received, server>>

ClientInput  == ReadReply \/ OnReplyRead \/ OnReplyError \/ DrainMessage
ClientOutput == WriteRequest \/ WriteEom

-----------------------------------------------------------------------------
(* The server.  A step that reads fails if it finds another token.         *)

GoTo(step) == at' = step
Fail       == GoTo("write_exception")

Reads(step, kind, next) ==
  /\ at = step /\ CanPeek(request)
  /\ IF Peek(request).kind = kind
       THEN request' = Tail(request) /\ GoTo(next)
       ELSE UNCHANGED request /\ Fail

Writes(step, token, next) ==
  /\ at = step /\ CanPut(reply)
  /\ reply' = Put(reply, token)
  /\ GoTo(next)

\* The readers and writers of encode_handler_t, and of request_handler_t around it.
Read ==
  /\ \/ Reads("read_params", "params", "create_session")          /\ UNCHANGED hand
     \/ Reads("read_begin_sequence", "begin", "write_begin_sequence") /\ UNCHANGED hand
     \/ Reads("read_frame", "frame", "encode_frame")              /\ hand' = Peek(request).frame
  /\ UNCHANGED <<reply, broken, client, delayed, flush_called>>

Write ==
  /\ \/ Writes("write_headers", Word("headers"), "read_begin_sequence")
     \/ Writes("write_begin_sequence", Word("begin"), "check_eos")
     \/ Writes("write_sample", Token("sample", hand), "check_eos")
     \/ Writes("write_flushed", Token("sample", hand), "flush_samples")
     \/ Writes("write_end_sequence", Word("end"), "check_eom")
     \/ Writes("write_exception", Word("error"), "write_eom")
     \/ Writes("write_eom", Word("eom"), "drain_request")
  /\ UNCHANGED <<request, broken, client, hand, delayed, flush_called>>

\* The encoder may not accept the parameters.
CreateSession ==
  /\ at = "create_session"
  /\ GoTo("sample_headers") \/ Fail
  /\ UNCHANGED <<network, client, hand, delayed, flush_called>>

(***************************************************************************)
(* sample_headers() is called outside of the try block of create_session() *)
(* and nothing above catches what it throws, but the dispatcher's thread,  *)
(* which aborts the server.                                                *)
(***************************************************************************)
SampleHeaders ==
  /\ at = "sample_headers"
  /\ GoTo("write_headers") /\ UNCHANGED network
  /\ UNCHANGED <<client, hand, delayed, flush_called>>

AbortServer ==
  /\ at = "sample_headers"
  /\ GoTo("aborted")
  /\ broken' = TRUE /\ request' = <<>> /\ reply' = <<>>
  /\ UNCHANGED <<client, hand, delayed, flush_called>>

\* check_eos() and handle_eos_check(): the end of the sequence is read if it is there.
CheckEos ==
  /\ at = "check_eos" /\ CanPeek(request)
  /\ IF Peek(request).kind = "end"
       THEN request' = Tail(request) /\ GoTo("flush_samples")
       ELSE UNCHANGED request /\ GoTo("read_frame")
  /\ UNCHANGED <<reply, broken, client, hand, delayed, flush_called>>

(***************************************************************************)
(* encoding_session_t: what encode() and flush() may return, and leave in  *)
(* the encoder.  A call of encode() must return a sample if the encoder    *)
(* holds too many frames; flush() waits for one as long as it holds any.   *)
(***************************************************************************)
NoSample == 0

SampleOf(held)   == {[sample |-> f, delayed |-> held \ {f}] : f \in held}
NoneOf(held)     == {[sample |-> NoSample, delayed |-> held]}
Encoded(f) ==
  LET held == delayed \cup {f} IN
    SampleOf(held) \cup IF Cardinality(held) <= Lookahead THEN NoneOf(held) ELSE {}
Flushed == IF delayed = {} THEN NoneOf(delayed) ELSE SampleOf(delayed)

\* A sample is written, and the handler goes on without it if there is none.
Handle(outcome, step, otherwise) ==
  /\ delayed' = outcome.delayed
  /\ IF outcome.sample = NoSample
       THEN GoTo(otherwise) /\ UNCHANGED hand
       ELSE GoTo(step) /\ hand' = outcome.sample

SessionFails == Fail /\ UNCHANGED <<hand, delayed>>

EncodeFrame ==
  /\ at = "encode_frame"
  /\ SessionFails \/ \E o \in Encoded(hand) : Handle(o, "write_sample", "check_eos")
  /\ UNCHANGED <<network, client, flush_called>>

\* Mutant of FlushSamples: the handler flushes once.
FlushOneSample ==
  /\ at = "flush_samples"
  /\ flush_called' = TRUE
  /\ SessionFails \/ \E o \in Flushed : Handle(o, "write_end_sequence", "write_end_sequence")
  /\ UNCHANGED <<network, client>>

FlushSamples ==
  /\ at = "flush_samples"
  /\ flush_called' = TRUE
  /\ SessionFails \/ \E o \in Flushed : Handle(o, "write_flushed", "write_end_sequence")
  /\ UNCHANGED <<network, client>>

\* request_handler_t's eom_checker_, which leaves the EOM, and request_drainer_.
CheckEom ==
  /\ at = "check_eom" /\ CanPeek(request)
  /\ IF Peek(request).kind = "eom" THEN GoTo("write_eom") ELSE Fail
  /\ UNCHANGED <<network, client, hand, delayed, flush_called>>

DrainRequest ==
  /\ at = "drain_request" /\ CanPeek(request)
  /\ request' = Rest(request)
  /\ GoTo(IF Peek(request).kind \in {"eom", "eof"} THEN "done" ELSE at)
  /\ UNCHANGED <<reply, broken, client, hand, delayed, flush_called>>

ServerStep ==
  \/ Read \/ Write \/ CreateSession \/ SampleHeaders \/ CheckEos \/ EncodeFrame \/ FlushSamples
  \/ CheckEom \/ DrainRequest

-----------------------------------------------------------------------------
Next == ClientInput \/ ClientOutput \/ OnRequestError \/ ServerStep \/ AbortServer \/ Break

\* Both sides' event loops run; nothing need fail.
Fairness == WF_vars(ClientInput) /\ WF_vars(ClientOutput) /\ WF_vars(ServerStep)

Spec == Init /\ [][Next]_vars /\ Fairness

-----------------------------------------------------------------------------
Succeeded == input_state = "input_done" /\ output_state = "output_done" /\ ~ex /\ ~broken

(***************************************************************************)
(* A call that succeeds has one sample of each frame, whatever the encoder *)
(* kept back when the frames ended, and while it goes on nothing comes     *)
(* twice.                                                                  *)
(***************************************************************************)
SamplesMatchFrames ==
  /\ Cardinality(ToSet(received)) = Len(received)
  /\ Succeeded => ToSet(received) = 1 .. frames

\* "assert(! flush_called_)" (encoding_session.cpp): no frame is encoded after a flush.
FlushIsLast == flush_called => at # "encode_frame"

-----------------------------------------------------------------------------
(***************************************************************************)
(* What makes it so: the tokens between the two sides, and those that each *)
(* side holds, are those of one request and one reply.                     *)
(***************************************************************************)
\* How many tokens of the request the server has got, and the frames among them.
Taken      == written + (IF output_state = "output_done" THEN 1 ELSE 0) - Len(request)
FramesRead == {f \in 1 .. frames : f + 2 <= Taken}

\* The request is on the wire in order, up to its end or to where it was broken off.
RequestInOrder ==
  /\ 0 <= Taken
  /\ \A i \in DOMAIN request :
       request[i] = IF Taken + i <= written THEN Request(frames)[Taken + i] ELSE Word("eom")

\* The server is where the tokens that it has got take it, as long as they are right.
Encoding == {"check_eos", "read_frame", "encode_frame", "write_sample"}
Flushing == {"flush_samples", "write_flushed", "write_end_sequence", "check_eom"}
Ending   == {"write_exception", "write_eom", "drain_request", "done"}

ServerFollowsRequest ==
  /\ at = "read_params" => Taken = 0
  /\ at \in {"create_session", "sample_headers", "write_headers", "read_begin_sequence"} => Taken = 1
  /\ at = "write_begin_sequence" => Taken = 2
  /\ at \in Encoding => Taken \in 2 .. frames + 2
  /\ at = "encode_frame" => Taken > 2 /\ hand = Taken - 2
  /\ at \in Flushing => Taken = frames + 3

\* Where the frames are that the server has got: in its hand, in the encoder, or sent.
InHand     == IF at \in Handling THEN {hand} ELSE {}
SentAt(i)  == reply[i].kind = "sample"
OnTheWire  == {reply[i].frame : i \in {j \in DOMAIN reply : SentAt(j)}}
EndIsSent  == \E i \in DOMAIN reply : reply[i].kind = "end"

NothingTwice ==
  /\ InHand \cup delayed \cup OnTheWire \cup ToSet(received) \subseteq FramesRead
  /\ InHand \cap delayed = {}
  /\ (InHand \cup delayed) \cap (OnTheWire \cup ToSet(received)) = {}
  /\ OnTheWire \cap ToSet(received) = {}
  /\ \A i, j \in DOMAIN reply : SentAt(i) /\ SentAt(j) /\ reply[i].frame = reply[j].frame => i = j

NothingLost ==
  input_state = "reading_reply" /\ (at \notin Ending \/ EndIsSent) =>
    FramesRead \subseteq InHand \cup delayed \cup OnTheWire \cup ToSet(received)

\* The end of the samples is sent when there are no others, and then none is.
EndIsLast ==
  /\ at \in {"write_end_sequence", "check_eom"} => delayed = {}
  /\ EndIsSent => at \in Ending \cup {"check_eom"} /\ delayed = {} /\ frames + 3 <= Taken
  /\ \A i, j \in DOMAIN reply : i < j /\ reply[i].kind = "end" => ~SentAt(j)

\* What the client knows when it has read the end, whatever happens then.
ClientHasAll ==
  /\ ToSet(received) \subseteq 1 .. frames
  /\ expects = "eom" => 1 .. frames \subseteq ToSet(received)
  /\ input_state # "reading_reply" /\ ~ex => expects = "eom"

Inv ==
  /\ TypeOK
  /\ SamplesMatchFrames
  /\ FlushIsLast
  /\ ClientHasAll
  /\ ~broken => RequestInOrder /\ ServerFollowsRequest /\ NothingTwice /\ NothingLost /\ EndIsLast
  /\ broken => request = <<>> /\ reply = <<>>
  /\ flush_called => at \in Flushing \cup Ending

(***************************************************************************)
(* A call comes to its end on both sides, also when frames and samples are *)
(* more than the network holds, and whatever fails: neither side waits for *)
(* the other to read while the other waits for it.                         *)
(***************************************************************************)
EncodeEnds ==
  <>(input_state = "input_done" /\ output_state = "output_done" /\ at \in {"done", "aborted"})

=============================================================================
