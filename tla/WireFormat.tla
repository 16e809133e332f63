----------------------------- MODULE WireFormat -----------------------------
(***************************************************************************)
(* What cuti's messages look like, and what is read of them: the token     *)
(* writers (async_writers.hpp, .cpp) put a message on the wire one         *)
(* character after the other, the token readers (async_readers.hpp, .cpp)  *)
(* take it off as the characters arrive, and stop in the middle of any     *)
(* token to wait for more.                                                 *)
(*                                                                         *)
(* A message may end early: rpc_engine_t cancels a request whose reply is  *)
(* an error, wherever the writer is, and ends it with a newline;           *)
(* request_handler_t ends a reply with an exception in the place of a      *)
(* value; the peer may hang up.  The reader has to notice, and to find the *)
(* start of the next message.                                              *)
(***************************************************************************)
EXTENDS Integers, Sequences, SequencesExt

CONSTANTS
  Conversations,   \* the sequences of messages that may be sent
  ReaderBits,      \* the width of an integer of the reader
  EnumBits,        \* that of the type under an enumeration
  Enumerators,     \* the values of an enumeration
  WireSize         \* what the buffers and the network hold, in characters

ASSUME WireFormatAssumption ==
  /\ {ReaderBits, EnumBits, WireSize} \subseteq Nat \ {0}
  /\ Enumerators \subseteq 0 .. 2 ^ EnumBits - 1

VARIABLES
  message,         \* the messages of this conversation
  writing,         \* the message that is being written
  left,            \* the values of it that are still to be written
  chars,           \* the characters of the current token that are
  ends,            \* how each message ends
  wire,            \* the characters on their way
  closed,          \* the writer has hung up
  reading,         \* the message that is being read
  goals,           \* what the reader still expects of it
  phase,           \* what the reader is doing
  negative, digit_seen, value, text, shift,   \* the members of the token's reader
  in_error,        \* an exception is being read
  got,             \* the values submitted, by message
  error,           \* those of the exception, by message
  outcome          \* what became of each message

writer == <<message, writing, left, chars, ends>>
token  == <<negative, digit_seen, value, text, shift>>
result == <<in_error, got, error, outcome>>
reader == <<reading, goals, phase, token, result>>
vars   == <<writer, wire, closed, reader>>

-----------------------------------------------------------------------------
(* Values, types and messages.  A structured value is the values in it     *)
(* between brackets.                                                       *)

Number(kind, n) == [kind |-> kind, number |-> n, text |-> <<>>]
Text(kind, s)   == [kind |-> kind, number |-> 0, text |-> s]
Mark(c)         == Text(c, <<>>)

Type(kind, parts) == [kind |-> kind, of |-> parts]
Scalar(kind)      == Type(kind, <<>>)
Message(types, values, peer) == [types |-> types, values |-> values, peer |-> peer]

\* The exception of a request_handler_t, a remote_error_t.
TheError == <<Mark("{"), Text("identifier", <<"e">>), Text("blob", <<"a">>), Mark("}")>>

-----------------------------------------------------------------------------
(* The characters of a value.                                              *)

Digits    == <<"0", "1", "2", "3", "4", "5", "6", "7", "8", "9">>
HexDigits == Digits \o <<"A", "B", "C", "D", "E", "F">>
HexDigitValue(c) == (CHOOSE i \in DOMAIN HexDigits : HexDigits[i] = c) - 1
IsHexDigit(c)    == c \in ToSet(HexDigits)
IsDigit(c)       == c \in ToSet(Digits)
IsLeader(c)      == c \in {"e", "f", "_"}
IsFollower(c)    == IsLeader(c) \/ IsDigit(c)

\* The characters of a blob, and their codes.
Code == [c \in {"\t", "\n", "\r", "\"", "'", "\\", "a"} |->
           CASE c = "\t" -> 9  [] c = "\n" -> 10 [] c = "\r" -> 13 [] c = "\"" -> 34
             [] c = "'" -> 39  [] c = "\\" -> 92 [] c = "a" -> 97]

\* What follows the backslash for a character that has a short escape.
ShortEscape == [c \in DOMAIN Code \ {"a"} |->
                  CASE c = "\t" -> "t" [] c = "\n" -> "n" [] c = "\r" -> "r" [] OTHER -> c]

\* One digit for the largest power of ten that does not exceed the number
\* (one, if it is 0), and one for each that is smaller.
DigitsOf(n) ==
  LET count == CHOOSE k \in 1 .. 9 : n < 10 ^ k /\ (k = 1 \/ n >= 10 ^ (k - 1))
  IN [i \in 1 .. count |-> Digits[((n \div 10 ^ (count - i)) % 10) + 1]]

\* The unsigned value is computed without negating the smallest number.
SignedDigitsOf(n) ==
  IF n >= 0 THEN DigitsOf(n) ELSE <<"-">> \o DigitsOf(-(n + 1) + 1)

\* A cuti writer escapes what it must; another peer may escape anything.
EscapedBy(peer, c) ==
  IF peer = "cuti" THEN IF c \in {"\n", "\"", "\\"} THEN <<"\\", ShortEscape[c]>> ELSE <<c>>
  ELSE IF c \in DOMAIN ShortEscape THEN <<"\\", ShortEscape[c]>>
  ELSE <<"\\", "x", HexDigits[(Code[c] \div 16) + 1], HexDigits[(Code[c] % 16) + 1]>>

BlobOf(peer, s) ==
  <<"\"">> \o FlattenSeq([i \in DOMAIN s |-> EscapedBy(peer, s[i])]) \o <<"\"">>

CharsOf(peer, v) ==
  (CASE v.kind \in {"unsigned", "enum"} -> DigitsOf(v.number)
     [] v.kind = "signed"     -> SignedDigitsOf(v.number)
     [] v.kind = "boolean"    -> IF v.number = 1 THEN <<"|">> ELSE <<"&">>
     [] v.kind = "identifier" -> v.text
     [] v.kind = "blob"       -> BlobOf(peer, v.text)
     [] OTHER                 -> <<v.kind>>) \o <<" ">>

ExceptionChars ==
  <<"!", " ">> \o FlattenSeq([i \in DOMAIN TheError |-> CharsOf("cuti", TheError[i])])

Eom == <<"\n">>

-----------------------------------------------------------------------------
(* The writer.                                                             *)

PutChar ==
  /\ ~closed /\ chars # <<>> /\ Len(wire) < WireSize
  /\ wire' = Append(wire, Head(chars)) /\ chars' = Tail(chars)
  /\ UNCHANGED <<message, writing, left, ends, closed, reader>>

\* The current message is being written, and the current token is on the wire.
AtToken == ~closed /\ writing <= Len(message) /\ ends[writing] = "writing" /\ chars = <<>>

WriteValue ==
  /\ AtToken /\ left # <<>>
  /\ chars' = CharsOf(message[writing].peer, Head(left)) /\ left' = Tail(left)
  /\ UNCHANGED <<message, writing, ends, wire, closed, reader>>

\* The message ends with the characters s: eom_writer_t, or after an exception.
End(s, how) ==
  /\ chars' = s /\ ends' = [ends EXCEPT ![writing] = how] /\ left' = <<>>
  /\ UNCHANGED <<message, writing, wire, closed, reader>>

WriteEom == AtToken /\ left = <<>> /\ End(Eom, "whole")

\* report_failure(): an exception, between two tokens, and the newline.
WriteException == AtToken /\ End(ExceptionChars \o Eom, "exception")

\* on_reply_error(): the writer is cancelled where it waits, in a token too.
CutShort ==
  /\ ~closed /\ writing <= Len(message) /\ ends[writing] = "writing"
  /\ End(Eom, "cut")

NextMessage ==
  /\ ~closed /\ writing <= Len(message) /\ ends[writing] # "writing" /\ chars = <<>>
  /\ writing' = writing + 1
  /\ left' = IF writing = Len(message) THEN <<>> ELSE message[writing + 1].values
  /\ UNCHANGED <<message, chars, ends, wire, closed, reader>>

HangUp ==
  /\ ~closed /\ closed' = TRUE
  /\ UNCHANGED <<writer, wire, reader>>

\* The message has got its newline.
Written(m) == m < writing \/ (m = writing /\ ends[m] # "writing" /\ chars = <<>>)

-----------------------------------------------------------------------------
(* The reader.  readable(), peek() and skip() of the bound_inbuf_t.        *)

CanPeek == wire # <<>> \/ closed
Peek    == IF wire = <<>> THEN "eof" ELSE Head(wire)
Skip    == wire' = Tail(wire)

AtEnd(c) == c \in {"\n", "eof"}

Begin(m) ==
  /\ reading' = m
  /\ phase' = IF m <= Len(message) THEN "skipping" ELSE "idle"
  /\ goals' = IF m <= Len(message) THEN Append(message[m].types, Scalar("eom")) ELSE <<>>
  /\ in_error' = FALSE

\* result_.fail() reaches the engine or the handler, which drains the message.
Conclude(how) ==
  /\ outcome' = [outcome EXCEPT ![reading] = how]
  /\ phase' = "draining" /\ goals' = <<>>
  /\ UNCHANGED <<reading, in_error, got, error>>
Fail(how) == Conclude(how) /\ UNCHANGED <<wire, token>>

\* A value is submitted, and the reader goes on with the goals.
Submit(v, next) ==
  /\ IF in_error
     THEN error' = [error EXCEPT ![reading] = Append(@, v)] /\ UNCHANGED got
     ELSE got' = [got EXCEPT ![reading] = Append(@, v)] /\ UNCHANGED error
  /\ goals' = next /\ phase' = "skipping"
  /\ UNCHANGED <<reading, in_error, outcome>>

\* The token of the first goal goes on.
Go(to) == phase' = to /\ UNCHANGED <<reading, goals, result>>

Skipping(kinds, cs) ==
  /\ phase = "skipping" /\ Head(goals).kind \in kinds
  /\ CanPeek /\ Peek \in cs

ElseFail(kinds, cs) ==
  /\ phase = "skipping" /\ Head(goals).kind \in kinds
  /\ CanPeek /\ Peek \notin cs \cup {" ", "!"}
  /\ Fail("parse error")

SkipSpaces ==
  /\ phase = "skipping" /\ CanPeek /\ Peek = " " /\ Head(goals).kind \notin {"raise", "duplicate"}
  /\ Skip /\ UNCHANGED <<writer, closed, reader>>

\* start_exception_handler(): a remote_error_t takes the place of what was expected.
StartException ==
  /\ phase = "skipping" /\ CanPeek /\ Peek = "!" /\ Head(goals).kind \notin {"raise", "duplicate"}
  /\ Skip /\ in_error' = TRUE
  /\ goals' = <<Type("structure", <<Scalar("identifier"), Scalar("blob")>>), Scalar("raise")>>
  /\ error' = [error EXCEPT ![reading] = <<>>]
  /\ UNCHANGED <<writer, closed, reading, phase, token, got, outcome>>

\* on_error_read(): what was read is the failure.
RaiseError ==
  /\ phase = "skipping" /\ Head(goals).kind = "raise"
  /\ Fail("remote error") /\ UNCHANGED <<writer, closed>>

ReadBoolean ==
  /\ \/ /\ Skipping({"boolean"}, {"|", "&"}) /\ Skip
        /\ Submit(Number("boolean", IF Peek = "|" THEN 1 ELSE 0), Tail(goals))
        /\ UNCHANGED token
     \/ ElseFail({"boolean"}, {"|", "&"})
  /\ UNCHANGED <<writer, closed>>

ReadSign ==
  /\ phase = "skipping" /\ Head(goals).kind \in {"unsigned", "enum", "signed"}
  /\ CanPeek /\ Peek \notin {" ", "!"}
  /\ LET minus == Head(goals).kind = "signed" /\ Peek = "-"
     IN negative' = minus /\ (IF minus THEN Skip ELSE UNCHANGED wire)
  /\ digit_seen' = FALSE /\ value' = 0
  /\ Go("digits")
  /\ UNCHANGED <<writer, closed, text, shift>>

Largest ==
  IF Head(goals).kind \in {"unsigned", "enum"} THEN 2 ^ ReaderBits - 1
  ELSE 2 ^ (ReaderBits - 1) - 1 + (IF negative THEN 1 ELSE 0)

\* The signed value of the digits, without a number that does not fit in between.
SignedValue == IF ~negative \/ value = 0 THEN value ELSE -(value - 1) - 1

ReadDigits ==
  /\ phase = "digits" /\ CanPeek
  /\ LET d    == HexDigitValue(Peek)
         fits == value <= Largest \div 10 /\ d <= Largest - 10 * value
     IN \/ /\ IsDigit(Peek) /\ fits
           /\ value' = 10 * value + d /\ digit_seen' = TRUE
           /\ Skip /\ Go("digits") /\ UNCHANGED <<negative, text, shift>>
        \/ IsDigit(Peek) /\ ~fits /\ Fail("overflow")
  /\ UNCHANGED <<writer, closed>>

\* on_wire_value(): a number that the enumeration's type cannot hold is refused
\* before it is converted, from_underlying() refuses what is no enumerator.
Accepted ==
  Head(goals).kind = "enum" =>
    value < 2 ^ EnumBits /\ value % 2 ^ EnumBits \in Enumerators

SubmitNumber ==
  /\ \/ Accepted /\ Submit(Number(Head(goals).kind, SignedValue), Tail(goals))
     \/ ~Accepted /\ Conclude("refused")
  /\ UNCHANGED <<wire, token>>

\* Mutant: a number that ends with its message is taken for a whole one.
EndDigitsHalfBaked ==
  /\ phase = "digits" /\ CanPeek /\ ~IsDigit(Peek)
  /\ \/ digit_seen /\ SubmitNumber
     \/ ~digit_seen /\ Fail("parse error")
  /\ UNCHANGED <<writer, closed>>

\* A number that ends with its message may be half a number.
EndDigits ==
  /\ phase = "digits" /\ CanPeek /\ ~IsDigit(Peek)
  /\ \/ digit_seen /\ ~AtEnd(Peek) /\ SubmitNumber
     \/ (~digit_seen \/ AtEnd(Peek)) /\ Fail("parse error")
  /\ UNCHANGED <<writer, closed>>

ReadLeadingDq ==
  /\ \/ Skipping({"blob"}, {"\""}) /\ Skip /\ text' = <<>> /\ Go("contents")
        /\ UNCHANGED <<negative, digit_seen, value, shift>>
     \/ ElseFail({"blob"}, {"\""})
  /\ UNCHANGED <<writer, closed>>

Push(c) == text' = Append(text, c) /\ UNCHANGED <<negative, digit_seen, value, shift>>

ReadContents ==
  /\ phase = "contents" /\ CanPeek
  /\ \/ AtEnd(Peek) /\ Fail("parse error")
     \/ Peek = "\\" /\ Skip /\ Go("escaped") /\ UNCHANGED token
     \/ Peek \notin {"\n", "eof", "\\", "\""} /\ Skip /\ Push(Peek) /\ Go("contents")
     \/ Peek = "\"" /\ Skip /\ Submit(Text("blob", text), Tail(goals)) /\ UNCHANGED token
  /\ UNCHANGED <<writer, closed>>

ReadEscaped ==
  /\ phase = "escaped" /\ CanPeek
  /\ \/ /\ Peek = "x" /\ Skip /\ shift' = 8 /\ value' = 0 /\ Go("hex")
        /\ UNCHANGED <<negative, digit_seen, text>>
     \/ \E c \in DOMAIN ShortEscape :
          ShortEscape[c] = Peek /\ Skip /\ Push(c) /\ Go("contents")
     \/ Peek \notin Range(ShortEscape) \cup {"x"} /\ Fail("parse error")
  /\ UNCHANGED <<writer, closed>>

ReadHexDigits ==
  /\ phase = "hex"
  /\ \/ /\ shift # 0 /\ CanPeek /\ IsHexDigit(Peek)
        /\ shift' = shift - 4 /\ value' = value + HexDigitValue(Peek) * 2 ^ (shift - 4)
        /\ Skip /\ Go("hex") /\ UNCHANGED <<negative, digit_seen, text>>
     \/ shift # 0 /\ CanPeek /\ ~IsHexDigit(Peek) /\ Fail("parse error")
     \/ /\ shift = 0 /\ \E c \in DOMAIN Code : Code[c] = value /\ Push(c)
        /\ Go("contents") /\ UNCHANGED wire
  /\ UNCHANGED <<writer, closed>>

ReadLeader ==
  /\ \/ /\ phase = "skipping" /\ Head(goals).kind = "identifier" /\ CanPeek /\ IsLeader(Peek)
        /\ Skip /\ text' = <<Peek>> /\ Go("followers")
        /\ UNCHANGED <<negative, digit_seen, value, shift>>
     \/ ~IsLeader(Peek) /\ ElseFail({"identifier"}, {})
  /\ UNCHANGED <<writer, closed>>

ReadFollowers ==
  /\ phase = "followers" /\ CanPeek
  /\ \/ IsFollower(Peek) /\ Skip /\ Push(Peek) /\ Go("followers")
     \/ ~IsFollower(Peek) /\ AtEnd(Peek) /\ Fail("parse error")
     \/ /\ ~IsFollower(Peek) /\ ~AtEnd(Peek)
        /\ Submit(Text("identifier", text), Tail(goals)) /\ UNCHANGED <<wire, token>>
  /\ UNCHANGED <<writer, closed>>

\* expected_reader_t for c, of a goal of that kind.
Expect(kind, c, next) ==
  /\ \/ Skipping({kind}, {c}) /\ Skip /\ Submit(Mark(c), next) /\ UNCHANGED token
     \/ ElseFail({kind}, {c})
  /\ UNCHANGED <<writer, closed>>

ReadBeginSequence  == Expect("sequence", "[", <<Type("elements", Head(goals).of)>> \o Tail(goals))
ReadBeginOptional  == Expect("optional", "[", <<Type("element?", Head(goals).of)>> \o Tail(goals))
ReadBeginStructure == Expect("structure", "{", Head(goals).of \o <<Scalar("}")>> \o Tail(goals))
ReadEndStructure   == Expect("}", "}", Tail(goals))

\* What is expected after an element: more of them; or, in an optional, none.
AfterElement ==
  CASE Head(goals).kind = "elements" -> Head(goals)
    [] Head(goals).kind = "element?" -> Type("no element", Head(goals).of)
    [] OTHER                         -> Scalar("duplicate")

\* on_end_checker(): the end of the sequence, or one more element.
ReadElements ==
  /\ \/ /\ Skipping({"elements", "element?", "no element"}, {"]"}) /\ Skip
        /\ Submit(Mark("]"), Tail(goals)) /\ UNCHANGED token
     \/ /\ phase = "skipping" /\ Head(goals).kind \in {"elements", "element?", "no element"}
        /\ CanPeek /\ Peek \notin {"]", " ", "!"}
        /\ goals' = Head(goals).of \o <<AfterElement>> \o Tail(goals)
        /\ UNCHANGED <<reading, phase, token, result, wire>>
  /\ UNCHANGED <<writer, closed>>

\* optional_consumer_t::put(): a second element is one too many.
RefuseDuplicate ==
  /\ phase = "skipping" /\ Head(goals).kind = "duplicate"
  /\ Fail("refused") /\ UNCHANGED <<writer, closed>>

\* eom_checker_t leaves the newline to the drainer.
CheckEom ==
  /\ \/ /\ Skipping({"eom"}, {"\n"}) /\ Conclude("read") /\ UNCHANGED <<wire, token>>
     \/ ElseFail({"eom"}, {"\n"})
  /\ UNCHANGED <<writer, closed>>

\* Mutant: the drainer waits for a newline that may never come.
DrainToNewline ==
  /\ phase = "draining" /\ CanPeek /\ Peek # "eof" /\ Skip
  /\ IF Peek = "\n" THEN Begin(reading + 1) ELSE UNCHANGED <<reading, phase, goals, in_error>>
  /\ UNCHANGED <<writer, closed, token, got, error, outcome>>

\* message_drainer_t: what is left of the message, and its newline.
Drain ==
  /\ phase = "draining" /\ CanPeek
  /\ CASE Peek = "\n"  -> Skip /\ Begin(reading + 1)
       [] Peek = "eof" -> Begin(Len(message) + 1) /\ UNCHANGED wire
       [] OTHER        -> Skip /\ UNCHANGED <<reading, phase, goals, in_error>>
  /\ UNCHANGED <<writer, closed, token, got, error, outcome>>

-----------------------------------------------------------------------------
Init ==
  /\ message \in Conversations
  /\ writing = 1 /\ left = message[1].values /\ chars = <<>>
  /\ ends = [m \in DOMAIN message |-> "writing"]
  /\ wire = <<>> /\ closed = FALSE
  /\ reading = 1 /\ phase = "skipping" /\ goals = Append(message[1].types, Scalar("eom"))
  /\ negative = FALSE /\ digit_seen = FALSE /\ value = 0 /\ text = <<>> /\ shift = 0
  /\ in_error = FALSE
  /\ got = [m \in DOMAIN message |-> <<>>] /\ error = [m \in DOMAIN message |-> <<>>]
  /\ outcome = [m \in DOMAIN message |-> "pending"]

Write == PutChar \/ WriteValue \/ WriteEom \/ NextMessage

Read ==
  \/ SkipSpaces \/ StartException \/ RaiseError \/ ReadBoolean \/ ReadSign \/ ReadDigits
  \/ EndDigits \/ ReadLeadingDq \/ ReadContents \/ ReadEscaped \/ ReadHexDigits
  \/ ReadLeader \/ ReadFollowers \/ ReadBeginSequence \/ ReadElements
  \/ ReadBeginOptional \/ RefuseDuplicate \/ ReadBeginStructure \/ ReadEndStructure \/ CheckEom \/ Drain

Next == Write \/ WriteException \/ CutShort \/ HangUp \/ Read

\* The event loops of the two sides call the writer and the reader back; nobody
\* has to fail, to cancel or to hang up.
Fairness == WF_vars(Write) /\ WF_vars(Read)

Spec == Init /\ [][Next]_vars /\ Fairness

-----------------------------------------------------------------------------
Outcomes == {"pending", "read", "parse error", "overflow", "refused", "remote error"}
Phases   == {"skipping", "digits", "contents", "escaped", "hex", "followers", "draining", "idle"}

TypeOK ==
  /\ writing \in 1 .. Len(message) + 1 /\ reading \in 1 .. Len(message) + 1
  /\ ends \in [DOMAIN message -> {"writing", "whole", "exception", "cut"}]
  /\ Len(wire) <= WireSize /\ closed \in BOOLEAN /\ phase \in Phases
  /\ negative \in BOOLEAN /\ digit_seen \in BOOLEAN /\ shift \in {0, 4, 8}
  /\ value \in 0 .. 2 ^ ReaderBits - 1 \/ phase # "digits"
  /\ text \in Seq(DOMAIN Code \cup {"e", "f", "_"} \cup ToSet(Digits))
  /\ outcome \in [DOMAIN message -> Outcomes]

\* No value is submitted that was not written, whole and in its place, even
\* when the writer was cancelled in the middle of a token or hung up there; a
\* message that is accepted has been read in full (digits_reader_t and
\* identifier_reader_t: "avoid submitting a half-baked value").
ReadIsWritten ==
  \A m \in DOMAIN message :
    /\ IsPrefix(got[m], message[m].values)
    /\ outcome[m] = "read" =>
         got[m] = message[m].values /\ ends[m] \in {"whole", "cut"}

\* Does the reader's integer type hold the value?
Fits(v) ==
  /\ v.kind \in {"unsigned", "enum"} => v.number < 2 ^ ReaderBits
  /\ v.kind = "signed" => v.number \in -(2 ^ (ReaderBits - 1)) .. 2 ^ (ReaderBits - 1) - 1

\* Has the peer sent a value that is none of the enumeration's, or a sequence of
\* several values where there may be one?
Misfits(m) ==
  \/ \E v \in ToSet(m.values) : v.kind = "enum" /\ v.number \notin Enumerators
  \/ /\ \E t \in ToSet(m.types) : t.kind = "optional"
     /\ \E i \in 1 .. Len(m.values) - 1 :
          {m.values[i].kind, m.values[i + 1].kind} \cap {"[", "]"} = {}

\* A message is refused for a reason: one that was written in full is read, or
\* has a value that the reader's types do not have; one that ends with an exception is
\* reported as that exception.  In particular the message after one that was
\* refused is read from its first character on.
RefusedForAReason ==
  \A m \in DOMAIN message :
    CASE outcome[m] = "parse error"  -> ends[m] = "cut" \/ ~Written(m)
      [] outcome[m] = "overflow"     -> \E v \in ToSet(message[m].values) : ~Fits(v)
      [] outcome[m] = "refused"      -> Misfits(message[m])
      [] outcome[m] = "remote error" -> ends[m] = "exception" /\ error[m] = TheError
      [] OTHER                       -> TRUE

Inv == TypeOK /\ ReadIsWritten /\ RefusedForAReason

\* Each message comes to an end, however the writer ended it: the reader never
\* waits for characters that will not come (message_drainer_t, which stops at a
\* newline and at an eof).
ReadingEnds ==
  <>(phase = "idle" /\ (closed \/ \A m \in DOMAIN message : outcome[m] # "pending"))
=============================================================================
