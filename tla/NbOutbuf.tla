------------------------------ MODULE NbOutbuf ------------------------------
(***************************************************************************)
(* nb_outbuf_t (cuti/cuti/nb_outbuf.cpp): a buffer that is emptied to a    *)
(* nonblocking sink, and calls its user back when there is room.           *)
(***************************************************************************)
EXTENDS NbCallbacks

VARIABLES
  wp, limit,                     \* wp_ and limit_ (offsets in buf_)
  written,                       \* what the user has written
  taken                          \* what the sink has taken

outData == <<buf, rp, wp, limit, error_status, written, taken>>

Writable == wp # limit
Unsent   == SubSeq(buf, rp + 1, wp)

OutbufTypeOK ==
  /\ buf \in [1 .. BufSize -> Characters]
  /\ wp \in 0 .. BufSize /\ rp \in 0 .. wp /\ limit \in wp .. BufSize
  /\ error_status \in BOOLEAN
  /\ written \in 0 .. StreamLength
  /\ taken \in Seq(Characters)

OutbufInit ==
  /\ buf = [i \in 1 .. BufSize |-> 0] /\ rp = 0 /\ wp = 0 /\ limit = BufSize
  /\ error_status = FALSE
  /\ written = 0 /\ taken = <<>>

-----------------------------------------------------------------------------
(***************************************************************************)
(* A writer writes from its callback, or before it asks for one.           *)
(***************************************************************************)
Write(n) ==
  /\ ~callback /\ Writable
  /\ ~error_status
  /\ LET count == Min({n, limit - wp})
     IN  /\ count <= StreamLength - written
         /\ buf' = [i \in 1 .. BufSize |-> IF i \in wp + 1 .. wp + count THEN written + i - wp ELSE buf[i]]
         /\ wp' = wp + count
         /\ written' = written + count
  /\ UNCHANGED <<callbackVars, rp, limit, error_status, taken>>

StartFlush ==
  /\ ~callback
  /\ rp # wp
  /\ limit' = wp
  /\ UNCHANGED <<callbackVars, buf, rp, wp, error_status, written, taken>>

\* What neither writes nor empties the buffer.
OutbufCalls ==
  /\ \/ CallWhen(Writable) \/ CallWhenThrows \/ Cancel
     \/ EnableThroughputChecking \/ DisableThroughputChecking
     \/ \E t \in DOMAIN timers : OnAlreadyReady(t)
     \/ Tick
  /\ UNCHANGED outData

EnterWritable ==
  /\ rp' = 0 /\ wp' = 0
  /\ limit' = BufSize
  /\ UNCHANGED <<buf, written>>

\* Mutant of SinkWritable: the callback is called when some has been written.
SinkWritableEarly(t, n) ==
  /\ t \in watches
  /\ n <= wp - rp
  /\ checker' = Recorded(n)
  /\ error_status' = Failed(checker')
  /\ taken' = taken \o SubSeq(buf, rp + 1, rp + n)
  /\ DoneWith(t)
  /\ IF error_status' \/ rp + n = wp
       THEN EnterWritable
       ELSE rp' = rp + n /\ limit' = BufSize /\ UNCHANGED <<buf, wp, written>>

(***************************************************************************)
(* sink_->write() takes n characters, none on a spurious wakeup.           *)
(***************************************************************************)
SinkWritable(t, n) ==
  /\ t \in watches
  /\ n <= wp - rp
  /\ checker' = Recorded(n)
  /\ error_status' = Failed(checker')
  /\ taken' = taken \o SubSeq(buf, rp + 1, rp + n)
  /\ IF error_status' \/ rp + n = wp
       THEN EnterWritable /\ DoneWith(t)
       ELSE rp' = rp + n /\ UNCHANGED <<buf, wp, limit, written>> /\ WatchAgain(t)

SinkFails(t) ==
  /\ t \in watches
  /\ error_status' = TRUE
  /\ EnterWritable
  /\ DoneWith(t)
  /\ UNCHANGED <<checker, taken>>

OutbufOnNextTick(t) ==
  /\ Due(t, "on_next_tick")
  /\ checker' = RecordTransfer(checker, 0)
  /\ error_status' = Failed(checker')
  /\ IF error_status'
       THEN EnterWritable /\ TickFails(t)
       ELSE UNCHANGED <<buf, rp, wp, limit, written>> /\ NextTick(t)
  /\ UNCHANGED taken

OutbufNext ==
  \/ \E n \in 1 .. BufSize : Write(n)
  \/ StartFlush
  \/ OutbufCalls
  \/ \E t \in watches : SinkFails(t) \/ \E n \in 0 .. BufSize : SinkWritable(t, n)
  \/ \E t \in DOMAIN timers : OutbufOnNextTick(t)

-----------------------------------------------------------------------------
(***************************************************************************)
(* The sink takes what the user wrote, in order, from the start, without   *)
(* gaps and nothing twice; only an error loses characters, the last ones.  *)
(***************************************************************************)
OutputIsAStream ==
  /\ IsPrefix(taken \o Unsent, [i \in 1 .. written |-> i])
  /\ ~error_status => Len(taken \o Unsent) = written

(***************************************************************************)
(* A writer that does not look at the error status, which is sticky, is    *)
(* never blocked by it: the buffer stays writable, and there is nothing    *)
(* left in it to be flushed.                                               *)
(***************************************************************************)
ErrorNeverBlocks == error_status => Writable /\ Unsent = <<>>

OutbufInv ==
  /\ OutbufTypeOK
  /\ AssertsHold(Writable, error_status)
  /\ CallbackIsScheduled(Writable)
  /\ OutputIsAStream
  /\ ErrorNeverBlocks

=============================================================================
