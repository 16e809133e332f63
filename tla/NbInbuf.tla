------------------------------ MODULE NbInbuf -------------------------------
(***************************************************************************)
(* nb_inbuf_t (cuti/cuti/nb_inbuf.cpp): a buffer that is filled from a     *)
(* nonblocking source, and calls its user back when there is input.        *)
(***************************************************************************)
EXTENDS NbCallbacks

VARIABLES
  ep, at_eof,                    \* ep_ (an offset in buf_), at_eof_
  sent,                          \* what the source has supplied
  got                            \* what the user has read

inData == <<buf, rp, ep, at_eof, error_status, sent>>

Readable == rp # ep \/ at_eof
Unread   == SubSeq(buf, rp + 1, ep)

InbufTypeOK ==
  /\ buf \in [1 .. BufSize -> Characters]
  /\ rp \in 0 .. BufSize /\ ep \in rp .. BufSize
  /\ at_eof \in BOOLEAN /\ error_status \in BOOLEAN
  /\ sent \in 0 .. StreamLength
  /\ got \in Seq(Characters)

InbufInit ==
  /\ buf = [i \in 1 .. BufSize |-> 0] /\ rp = 0 /\ ep = 0
  /\ at_eof = FALSE /\ error_status = FALSE
  /\ sent = 0 /\ got = <<>>

-----------------------------------------------------------------------------
(***************************************************************************)
(* A reader reads from its callback, or before it asks for one.            *)
(***************************************************************************)
Read(n) ==
  /\ ~callback /\ Readable
  /\ LET count == Min({n, ep - rp})
     IN  /\ got' = got \o SubSeq(buf, rp + 1, rp + count)
         /\ rp' = rp + count
  /\ UNCHANGED <<callbackVars, buf, ep, at_eof, error_status, sent>>

\* What neither reads nor fills the buffer.
InbufCalls ==
  /\ \/ CallWhen(Readable) \/ CallWhenThrows \/ Cancel
     \/ EnableThroughputChecking \/ DisableThroughputChecking
     \/ \E t \in DOMAIN timers : OnAlreadyReady(t)
     \/ Tick
  /\ UNCHANGED <<inData, got>>

(***************************************************************************)
(* The buffer becomes readable, the source having put some characters at   *)
(* its start: what is supplied is dropped on an error.                     *)
(***************************************************************************)
Enter(supplied, failed) ==
  /\ buf' = [i \in 1 .. BufSize |-> IF i <= supplied THEN sent + i ELSE buf[i]]
  /\ sent' = sent + supplied
  /\ rp' = 0
  /\ ep' = IF failed THEN 0 ELSE supplied
  /\ at_eof' = (failed \/ supplied = 0)
  /\ error_status' = failed

\* source_->read() supplies n characters: none of them at eof.
SourceReadable(t, n) ==
  /\ t \in watches
  /\ n <= StreamLength - sent
  /\ n = 0 => sent = StreamLength
  /\ checker' = Recorded(n)
  /\ Enter(n, Failed(checker'))
  /\ DoneWith(t)
  /\ UNCHANGED got

SourceFails(t) ==
  /\ t \in watches
  /\ Enter(0, TRUE)
  /\ DoneWith(t)
  /\ UNCHANGED <<checker, got>>

(***************************************************************************)
(* source_->read() supplies nothing: the source is watched again, unless   *)
(* the peer is found to be too slow.                                       *)
(***************************************************************************)
SpuriousWakeup(t) ==
  /\ t \in watches
  /\ checker' = Recorded(0)
  /\ IF Failed(checker')
       THEN Enter(0, TRUE) /\ DoneWith(t)
       ELSE UNCHANGED inData /\ WatchAgain(t)
  /\ UNCHANGED got

InbufOnNextTick(t) ==
  /\ Due(t, "on_next_tick")
  /\ checker' = RecordTransfer(checker, 0)
  /\ IF Failed(checker')
       THEN Enter(0, TRUE) /\ TickFails(t)
       ELSE UNCHANGED inData /\ NextTick(t)
  /\ UNCHANGED got

InbufNext ==
  \/ \E n \in 1 .. BufSize : Read(n)
  \/ InbufCalls
  \/ \E t \in watches : SourceFails(t) \/ SpuriousWakeup(t) \/ \E n \in 0 .. BufSize : SourceReadable(t, n)
  \/ \E t \in DOMAIN timers : InbufOnNextTick(t)

-----------------------------------------------------------------------------
(***************************************************************************)
(* The user reads what the source supplied, in order, from the start and   *)
(* without gaps; only an error loses characters, the last ones.            *)
(***************************************************************************)
InputIsAStream ==
  /\ IsPrefix(got \o Unread, [i \in 1 .. StreamLength |-> i])
  /\ ~error_status => Len(got \o Unread) = sent

(***************************************************************************)
(* "Once in error, the buffer will consistently report EOF"                *)
(* (nb_inbuf.hpp): what it held when the error came is not read any more.  *)
(***************************************************************************)
ErrorIsEof == error_status => Readable /\ Unread = <<>>

InbufInv ==
  /\ InbufTypeOK
  /\ AssertsHold(Readable, error_status)
  /\ CallbackIsScheduled(Readable)
  /\ InputIsAStream
  /\ ErrorIsEof

=============================================================================
