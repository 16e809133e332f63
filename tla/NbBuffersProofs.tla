-------------------------- MODULE NbBuffersProofs ---------------------------
(***************************************************************************)
(* Proofs about the nonblocking buffers.  The state of a buffer's callback *)
(* is one of three (Quiet, AtOnce and Waits), which say exactly what is    *)
(* registered with the scheduler: that the two callbacks of a buffer that  *)
(* waits undo each other is that each call leads from one of the three to  *)
(* another.  The characters are followed place by place (Input, Output).   *)
(***************************************************************************)
EXTENDS NbBuffers, SequenceFacts

-----------------------------------------------------------------------------
(***************************************************************************)
(* The throughput checker: what record_transfer() makes of a checker is a  *)
(* checker, however many ticks have passed.                                *)
(***************************************************************************)
LEMMA MaxOfTwo ==
  ASSUME NEW a \in Int, NEW b \in Int
  PROVE  Max({a, b}) = IF a >= b THEN a ELSE b
<1>1. \E x \in {a, b} : \A y \in {a, b} : x >= y
  OBVIOUS
<1>2. Max({a, b}) \in {a, b} /\ \A y \in {a, b} : Max({a, b}) >= y
  BY <1>1 DEF Max
<1> QED
  BY <1>2

LEMMA MinOfTwo ==
  ASSUME NEW a \in Int, NEW b \in Int
  PROVE  Min({a, b}) = IF a <= b THEN a ELSE b
<1>1. \E x \in {a, b} : \A y \in {a, b} : x <= y
  OBVIOUS
<1>2. Min({a, b}) \in {a, b} /\ \A y \in {a, b} : Min({a, b}) <= y
  BY <1>1 DEF Min
<1> QED
  BY <1>2

LEMMA PassedTicksFit ==
  ASSUME NEW c \in Checkers
  PROVE  /\ PassedTicks(c) \in Nat
         /\ c.left + PassedTicks(c) * TickLength \in -MaxOverdue .. TickLength
<1>0. MaxOverdue \in Nat /\ TickLength \in Nat \ {0} /\ c.left \in -MaxOverdue .. TickLength
  BY ThroughputAssumption DEF Checkers, MaxOverdue
<1>1. CASE c.left > 0
  <2>1. PassedTicks(c) = 0
    BY <1>1 DEF PassedTicks
  <2>2. 0 * TickLength = 0
    BY <1>0
  <2> QED
    BY <1>0, <2>1, <2>2
<1>2. CASE ~(c.left > 0)
  <2> DEFINE a == -c.left
             q == a \div TickLength
  <2>1. a \in Nat
    BY <1>0, <1>2
  <2>2. q \in Nat /\ q * TickLength <= a /\ a < q * TickLength + TickLength
    BY <1>0, <2>1
  <2>3. PassedTicks(c) = q + 1
    BY <1>2 DEF PassedTicks
  <2>4. (q + 1) * TickLength = q * TickLength + TickLength
    BY <1>0, <2>2
  <2> QED
    BY <1>0, <2>1, <2>2, <2>3, <2>4
<1> QED
  BY <1>0, <1>1, <1>2

LEMMA CheckersStayCheckers ==
  /\ NewChecker \in Checkers
  /\ \A c \in Checkers : TimePasses(c) \in Checkers
  /\ \A c \in Checkers, n \in Nat : RecordTransfer(c, n) \in Checkers
<1>0. MaxOverdue \in Nat /\ TickLength \in Nat \ {0} /\ MinBytes \in Nat \ {0} /\ LowTicksLimit \in Nat
  BY ThroughputAssumption DEF MaxOverdue
<1>1. NewChecker \in Checkers
  BY <1>0 DEF NewChecker, Checkers
<1>2. ASSUME NEW c \in Checkers
      PROVE  TimePasses(c) \in Checkers
  <2>1. c.left \in -MaxOverdue .. TickLength
    BY DEF Checkers
  <2>2. Max({c.left - 1, -MaxOverdue}) \in -MaxOverdue .. TickLength
    BY <1>0, <2>1, MaxOfTwo
  <2> QED
    BY <2>2 DEF Checkers, TimePasses
<1>3. ASSUME NEW c \in Checkers, NEW n \in Nat
      PROVE  RecordTransfer(c, n) \in Checkers
  <2>1. c.bytes \in 0 .. MinBytes /\ c.low \in 0 .. LowTicksLimit
    BY DEF Checkers
  <2>2. Min({(IF PassedTicks(c) = 0 THEN c.bytes ELSE 0) + n, MinBytes}) \in 0 .. MinBytes
    BY <1>0, <2>1, MinOfTwo
  <2>3. LowTicks(c) \in 0 .. LowTicksLimit
    <3>1. CASE PassedTicks(c) = 0 \/ c.low = LowTicksLimit
      BY <2>1, <3>1 DEF LowTicks
    <3>2. CASE ~(PassedTicks(c) = 0 \/ c.low = LowTicksLimit)
      <4> DEFINE first == IF c.bytes < MinBytes THEN c.low + 1 ELSE 0
      <4>1. first + PassedTicks(c) - 1 \in Nat
        BY <1>0, <2>1, <3>2, PassedTicksFit
      <4>2. LowTicks(c) = Min({first + PassedTicks(c) - 1, LowTicksLimit})
        BY <3>2 DEF LowTicks
      <4> HIDE DEF first
      <4> QED
        BY <1>0, <4>1, <4>2, MinOfTwo
    <3> QED
      BY <3>1, <3>2
  <2> QED
    BY <2>2, <2>3, PassedTicksFit DEF Checkers, RecordTransfer
<1> QED
  BY <1>1, <1>2, <1>3

-----------------------------------------------------------------------------
(***************************************************************************)
(* Streams of characters: 1, 2, 3 and so on.                               *)
(***************************************************************************)
\* What a stream's parts are, place by place.
LEMMA StreamInTwoParts ==
  ASSUME NEW s \in Seq(Characters), NEW u \in Seq(Characters), NEW N \in Nat
  PROVE  /\ Len(s \o u) = Len(s) + Len(u)
         /\ IsPrefix(s \o u, [i \in 1 .. N |-> i]) <=>
              /\ Len(s) + Len(u) <= N
              /\ \A i \in 1 .. Len(s) : s[i] = i
              /\ \A j \in 1 .. Len(u) : u[j] = Len(s) + j
<1> DEFINE w == s \o u
           one == [i \in 1 .. N |-> i]
           n == Len(s) + Len(u)
<1>1. w \in Seq(Characters) /\ Len(w) = n /\ Len(s) \in Nat /\ Len(u) \in Nat /\ n \in Nat
  OBVIOUS
<1>2. \A i \in 1 .. Len(s) : w[i] = s[i]
  OBVIOUS
<1>3. \A j \in 1 .. Len(u) : w[Len(s) + j] = u[j]
  OBVIOUS
<1>4. one \in Seq(Int) /\ Len(one) = N
  OBVIOUS
<1>5. SubSeq(w, 1, n) = w
  BY <1>1
<1>6. ASSUME n <= N
      PROVE  /\ SubSeq(one, 1, n) \in Seq(Int) /\ Len(SubSeq(one, 1, n)) = n
             /\ \A i \in 1 .. n : SubSeq(one, 1, n)[i] = i
  BY <1>1, <1>4, <1>6
<1>7. IsPrefix(w, one) <=> n <= N /\ \A i \in 1 .. n : w[i] = i
  <2> DEFINE part == SubSeq(one, 1, n)
  <2>1. IsPrefix(w, one) <=> n <= N /\ w = part
    BY <1>1, <1>4, <1>5 DEF IsPrefix
  <2>2. w \in Seq(Int)
    <3>1. Characters \subseteq Int
      BY NbCallbacksAssumption DEF Characters
    <3> QED
      BY <1>1, <3>1, SeqMonotonic
  <2>3. n <= N => part \in Seq(Int) /\ Len(part) = n /\ \A i \in 1 .. n : part[i] = i
    BY <1>6
  <2> HIDE DEF w, n, part
  <2>4. ASSUME n <= N, \A i \in 1 .. n : w[i] = i
        PROVE  w = part
    BY <1>1, <2>2, <2>3, <2>4, SeqEqual
  <2> QED
    BY <2>1, <2>3, <2>4
<1>8. (\A i \in 1 .. n : w[i] = i) <=>
        (\A i \in 1 .. Len(s) : s[i] = i) /\ (\A j \in 1 .. Len(u) : u[j] = Len(s) + j)
  <2>1. ASSUME \A i \in 1 .. n : w[i] = i
        PROVE  (\A i \in 1 .. Len(s) : s[i] = i) /\ (\A j \in 1 .. Len(u) : u[j] = Len(s) + j)
    <3>1. \A i \in 1 .. Len(s) : i \in 1 .. n
      BY <1>1
    <3>2. \A j \in 1 .. Len(u) : Len(s) + j \in 1 .. n
      BY <1>1
    <3> HIDE DEF w, n
    <3> QED
      BY <1>2, <1>3, <2>1, <3>1, <3>2
  <2>2. ASSUME \A i \in 1 .. Len(s) : s[i] = i,
               \A j \in 1 .. Len(u) : u[j] = Len(s) + j,
               NEW i \in 1 .. n
        PROVE  w[i] = i
    <3>1. CASE i <= Len(s)
      BY <1>1, <1>2, <2>2, <3>1
    <3>2. CASE i > Len(s)
      <4>1. i - Len(s) \in 1 .. Len(u) /\ Len(s) + (i - Len(s)) = i
        BY <1>1, <3>2
      <4> QED
        BY <1>1, <1>3, <2>2, <4>1
    <3> QED
      BY <1>1, <3>1, <3>2
  <2> QED
    BY <2>1, <2>2
<1> QED
  BY <1>1, <1>7, <1>8

\* A part of the buffer, place by place.
LEMMA PartOfBuffer ==
  ASSUME NEW b \in [1 .. BufSize -> Characters],
         NEW hi \in 0 .. BufSize, NEW lo \in 0 .. hi
  PROVE  /\ SubSeq(b, lo + 1, hi) \in Seq(Characters)
         /\ Len(SubSeq(b, lo + 1, hi)) = hi - lo
         /\ \A j \in 1 .. hi - lo : SubSeq(b, lo + 1, hi)[j] = b[lo + j]
         /\ lo = hi <=> SubSeq(b, lo + 1, hi) = <<>>
<1>1. b \in Seq(Characters) /\ Len(b) = BufSize /\ BufSize \in Nat
  BY NbCallbacksAssumption
<1>2. lo + 1 \in 1 .. Len(b) + 1 /\ hi \in lo .. Len(b)
  BY <1>1
<1>3. /\ SubSeq(b, lo + 1, hi) \in Seq(Characters)
      /\ Len(SubSeq(b, lo + 1, hi)) = hi - lo
      /\ \A j \in 1 .. hi - lo : SubSeq(b, lo + 1, hi)[j] = b[lo + j]
  BY <1>1, <1>2
<1> QED
  BY <1>1, <1>3

-----------------------------------------------------------------------------
(***************************************************************************)
(* The three states of a buffer's callback.  There is none; or an alarm    *)
(* will call it at once; or the device will, or a tick of the checker.     *)
(***************************************************************************)
Timers(h) == [handler : {h}, left : 0 .. TickLength]

Quiet ==
  /\ ~callback
  /\ device_ticket = None /\ watches = {}
  /\ alarm_ticket = None /\ DOMAIN timers = {}

AtOnce ==
  /\ callback /\ outcome = "none"
  /\ device_ticket = None /\ watches = {}
  /\ alarm_ticket \in Tickets /\ DOMAIN timers = {alarm_ticket}
  /\ timers[alarm_ticket] \in Timers("on_already_ready")

Waits ==
  /\ callback /\ outcome = "none"
  /\ device_ticket \in Tickets /\ watches = {device_ticket}
  /\ \/ /\ checker = None
        /\ alarm_ticket = None /\ DOMAIN timers = {}
     \/ /\ checker # None
        /\ alarm_ticket \in Tickets /\ DOMAIN timers = {alarm_ticket}
        /\ timers[alarm_ticket] \in Timers("on_next_tick")

Scheduled(ready, error) ==
  /\ checker \in Checkers \cup {None}
  /\ callback \in BOOLEAN
  /\ outcome \in {"none", "called", "thrown"}
  /\ Quiet \/ (AtOnce /\ ready) \/ (Waits /\ ~ready /\ ~error)

\* These are the states that the invariants of the callbacks allow.
LEMMA ThreeStates ==
  ASSUME NEW ready \in BOOLEAN, NEW error \in BOOLEAN
  PROVE  Scheduled(ready, error) <=>
           CallbacksTypeOK /\ TicketsAreKnown /\ AssertsHold(ready, error) /\ CallbackIsScheduled(ready)
<1> USE NbCallbacksAssumption
<1>1. ASSUME Scheduled(ready, error)
      PROVE  CallbacksTypeOK /\ TicketsAreKnown /\ AssertsHold(ready, error) /\ CallbackIsScheduled(ready)
  <2>1. CASE Quiet
    BY <1>1, <2>1
    DEF Scheduled, Quiet, CallbacksTypeOK, TicketsAreKnown, AssertsHold, CallbackIsScheduled
  <2>2. CASE AtOnce /\ ready
    BY <1>1, <2>2
    DEF Scheduled, AtOnce, Timers, CallbacksTypeOK, TicketsAreKnown, AssertsHold, CallbackIsScheduled
  <2>3. CASE Waits /\ ~ready /\ ~error
    <3>1. CallbacksTypeOK /\ TicketsAreKnown
      <4>1. CASE checker = None
        BY <1>1, <2>3, <4>1 DEF Scheduled, Waits, Timers, CallbacksTypeOK, TicketsAreKnown
      <4>2. CASE checker # None
        <5>1. /\ alarm_ticket \in Tickets /\ DOMAIN timers = {alarm_ticket}
              /\ timers[alarm_ticket] \in
                   [handler : {"on_already_ready", "on_next_tick"}, left : 0 .. TickLength]
          BY <2>3, <4>2 DEF Waits, Timers
        <5> QED
          BY <1>1, <2>3, <5>1 DEF Scheduled, Waits, CallbacksTypeOK, TicketsAreKnown
      <4> QED
        BY <4>1, <4>2
    <3>2. AssertsHold(ready, error)
      BY <2>3 DEF Waits, Timers, AssertsHold
    <3>3. CallbackIsScheduled(ready)
      BY <2>3 DEF Waits, CallbackIsScheduled
    <3> QED
      BY <3>1, <3>2, <3>3
  <2> QED
    BY <1>1, <2>1, <2>2, <2>3 DEF Scheduled
<1>2. ASSUME CallbacksTypeOK, TicketsAreKnown, AssertsHold(ready, error), CallbackIsScheduled(ready)
      PROVE  Scheduled(ready, error)
  <2> USE <1>2 DEF CallbacksTypeOK
  <2>1. CASE ~callback
    BY <2>1 DEF TicketsAreKnown, AssertsHold, Scheduled, Quiet
  <2>2. CASE callback /\ ready
    <3>1. watches = {} /\ device_ticket = None
      BY <2>2 DEF TicketsAreKnown, AssertsHold
    <3>2. alarm_ticket \in Tickets /\ DOMAIN timers = {alarm_ticket}
      BY <2>2 DEF TicketsAreKnown, CallbackIsScheduled
    <3>3. timers[alarm_ticket] \in Timers("on_already_ready")
      BY <2>2, <3>2 DEF AssertsHold, Timers
    <3> QED
      BY <2>2, <3>1, <3>2, <3>3 DEF CallbackIsScheduled, Scheduled, AtOnce
  <2>3. CASE callback /\ ~ready
    <3>1. device_ticket \in Tickets /\ watches = {device_ticket} /\ ~error
      BY <2>3 DEF TicketsAreKnown, AssertsHold, CallbackIsScheduled
    <3>2. \A t \in DOMAIN timers : timers[t] \in Timers("on_next_tick") /\ checker # None
      BY <3>1 DEF AssertsHold, Timers
    <3>3. CASE checker = None
      BY <2>3, <3>1, <3>2, <3>3 DEF CallbackIsScheduled, TicketsAreKnown, Scheduled, Waits
    <3>4. CASE checker # None
      <4>1. alarm_ticket \in Tickets /\ DOMAIN timers = {alarm_ticket}
        BY <2>3, <3>4 DEF TicketsAreKnown, CallbackIsScheduled
      <4> QED
        BY <2>3, <3>1, <3>2, <3>4, <4>1 DEF CallbackIsScheduled, Scheduled, Waits
    <3> QED
      BY <3>3, <3>4
  <2> QED
    BY <2>1, <2>2, <2>3
<1> QED
  BY <1>1, <1>2

-----------------------------------------------------------------------------
(***************************************************************************)
(* What is registered besides the tickets that are remembered: nothing.    *)
(***************************************************************************)
LEMMA NothingElse ==
  ASSUME Quiet \/ AtOnce \/ Waits
  PROVE  /\ OtherWatches = {} /\ DOMAIN OtherTimers = {}
         /\ \A t \in watches : watches \ {t} = {}
         /\ \A t \in DOMAIN timers : DOMAIN Without(timers, t) = {}
BY NbCallbacksAssumption DEF Quiet, AtOnce, Waits, OtherWatches, OtherTimers, Without

\* The only timer there is.
LEMMA OneTimer ==
  ASSUME NEW ts, DOMAIN ts = {}, NEW t \in Tickets, NEW h, NEW left \in Int, left <= TickLength
  PROVE  DOMAIN With(ts, t, h, left) = {t} /\ With(ts, t, h, left)[t] \in Timers(h)
<1>1. Max({left, 0}) \in 0 .. TickLength
  BY MaxOfTwo, ThroughputAssumption
<1> QED
  BY <1>1 DEF With, Timers

LEMMA CallTickCalls ==
  ASSUME NEW ts, DOMAIN ts = {}, NEW c \in Checkers, CallTick(ts, c)
  PROVE  /\ alarm_ticket' \in Tickets /\ DOMAIN timers' = {alarm_ticket'}
         /\ timers'[alarm_ticket'] \in Timers("on_next_tick")
<1>1. c.left \in Int /\ c.left <= TickLength
  BY ThroughputAssumption DEF Checkers, MaxOverdue
<1>2. PICK t \in Tickets : alarm_ticket' = t /\ timers' = With(ts, t, "on_next_tick", c.left)
  BY DEF CallTick
<1>3. DOMAIN With(ts, t, "on_next_tick", c.left) = {t}
      /\ With(ts, t, "on_next_tick", c.left)[t] \in Timers("on_next_tick")
  BY <1>1, OneTimer
<1> QED
  BY <1>2, <1>3

LEMMA ForgetQuiets ==
  ASSUME NEW ts, DOMAIN ts = {}, NEW why, Forget({}, ts, why)
  PROVE  Quiet' /\ callback' \in BOOLEAN /\ outcome' = why
BY DEF Forget, Quiet

(***************************************************************************)
(* The user's calls.  ready and error are those of the buffer, which the   *)
(* calls leave alone.                                                      *)
(***************************************************************************)
LEMMA UserCallsAreFine ==
  ASSUME NEW ready \in BOOLEAN, NEW error \in BOOLEAN, error => ready,
         Scheduled(ready, error),
         \/ CallWhen(ready) \/ CallWhenThrows \/ Cancel
         \/ EnableThroughputChecking \/ DisableThroughputChecking
  PROVE  Scheduled(ready, error)' /\ outcome' \in {outcome, "none", "thrown"}
<1> USE NbCallbacksAssumption
<1>0. Quiet \/ AtOnce \/ Waits
  BY DEF Scheduled
<1>1. CASE CallWhen(ready) /\ ready
  <2>1. PICK t \in Tickets : alarm_ticket' = t /\ timers' = With(OtherTimers, t, "on_already_ready", 0)
    BY <1>1 DEF CallWhen
  <2>2. DOMAIN With(OtherTimers, t, "on_already_ready", 0) = {t}
        /\ With(OtherTimers, t, "on_already_ready", 0)[t] \in Timers("on_already_ready")
    <3>1. DOMAIN OtherTimers = {} /\ 0 \in Int /\ 0 <= TickLength
      BY <1>0, NothingElse, ThroughputAssumption
    <3> QED
      BY <3>1, OneTimer
  <2> QED
    BY <1>0, <1>1, <2>1, <2>2, NothingElse DEF CallWhen, Scheduled, AtOnce
<1>2. CASE CallWhen(ready) /\ ~ready
  <2>1. device_ticket' \in Tickets /\ watches' = {device_ticket'}
    BY <1>0, <1>2, NothingElse DEF CallWhen, Watch
  <2>2. checker # None => CallTick(OtherTimers, checker) /\ checker \in Checkers
    BY <1>2 DEF CallWhen, Scheduled
  <2>3. checker = None => alarm_ticket' = None /\ DOMAIN timers' = {}
    BY <1>0, <1>2, NothingElse DEF CallWhen
  <2>4. callback' = TRUE /\ outcome' = "none" /\ checker' = checker
    BY <1>2 DEF CallWhen
  <2>5. Waits'
    BY <1>0, <2>1, <2>2, <2>3, <2>4, NothingElse, CallTickCalls DEF Waits
  <2> QED
    BY <1>2, <2>4, <2>5 DEF Scheduled
<1>3. CASE CallWhenThrows \/ Cancel
  BY <1>0, <1>3, NothingElse, ForgetQuiets DEF CallWhenThrows, Cancel, Scheduled
<1>4. CASE EnableThroughputChecking
  <2>1. checker' = NewChecker /\ checker' \in Checkers /\ NewChecker \in Checkers
    BY <1>4, CheckersStayCheckers DEF EnableThroughputChecking
  <2>2. UNCHANGED <<device_ticket, callback, watches, outcome>>
    BY <1>4 DEF EnableThroughputChecking
  <2>3. CASE Waits
    <3>1. CallTick(OtherTimers, NewChecker)
      BY <1>4, <2>3 DEF EnableThroughputChecking, Waits
    <3>2. /\ alarm_ticket' \in Tickets /\ DOMAIN timers' = {alarm_ticket'}
          /\ timers'[alarm_ticket'] \in Timers("on_next_tick")
      BY <1>0, <2>1, <3>1, NothingElse, CallTickCalls
    <3>3. Waits'
      BY <2>1, <2>2, <2>3, <3>2 DEF Waits
    <3>4. (Quiet \/ AtOnce) => FALSE
      BY <2>3 DEF Quiet, AtOnce, Waits
    <3> QED
      BY <2>1, <2>2, <3>3, <3>4 DEF Scheduled
  <2>4. CASE Quiet \/ AtOnce
    <3>1. UNCHANGED <<timers, alarm_ticket>>
      BY <1>4, <2>4 DEF EnableThroughputChecking, Quiet, AtOnce
    <3>2. (Quiet => Quiet') /\ (AtOnce => AtOnce') /\ ~Waits
      BY <2>2, <2>4, <3>1 DEF Quiet, AtOnce, Waits
    <3> QED
      BY <2>1, <2>2, <3>2 DEF Scheduled
  <2> QED
    BY <1>0, <2>3, <2>4
<1>5. CASE DisableThroughputChecking
  <2>1. checker' = None /\ UNCHANGED <<device_ticket, callback, watches, outcome>>
    BY <1>5 DEF DisableThroughputChecking
  <2>2. CASE Waits
    <3>1. alarm_ticket' = None /\ DOMAIN timers' = {}
      BY <1>0, <1>5, <2>2, NothingElse DEF DisableThroughputChecking, Waits
    <3>2. Waits' /\ ~Quiet /\ ~AtOnce
      BY <2>1, <2>2, <3>1 DEF Waits, Quiet, AtOnce
    <3> QED
      BY <2>1, <3>2 DEF Scheduled
  <2>3. CASE Quiet \/ AtOnce
    <3>1. UNCHANGED <<timers, alarm_ticket>>
      BY <1>5, <2>3 DEF DisableThroughputChecking, Quiet, AtOnce
    <3>2. (Quiet => Quiet') /\ (AtOnce => AtOnce') /\ ~Waits
      BY <2>1, <2>3, <3>1 DEF Quiet, AtOnce, Waits
    <3> QED
      BY <2>1, <3>2 DEF Scheduled
  <2> QED
    BY <1>0, <2>2, <2>3
<1> QED
  BY <1>1, <1>2, <1>3, <1>4, <1>5

(***************************************************************************)
(* The scheduler's calls, and time.                                        *)
(***************************************************************************)
LEMMA AlarmAtOnce ==
  ASSUME NEW ready \in BOOLEAN, NEW error \in BOOLEAN, Scheduled(ready, error),
         NEW t \in DOMAIN timers, OnAlreadyReady(t)
  PROVE  ready /\ Quiet' /\ Scheduled(ready, error)' /\ outcome' = "called"
<1>1. AtOnce /\ ready
  BY DEF OnAlreadyReady, Due, Scheduled, Quiet, Waits, Timers
<1>2. Forget({}, Without(timers, t), "called") /\ checker' = checker
  BY <1>1 DEF OnAlreadyReady, AtOnce
<1> QED
  BY <1>1, <1>2, NothingElse, ForgetQuiets DEF Scheduled

LEMMA DoneQuiets ==
  ASSUME Quiet \/ AtOnce \/ Waits, NEW t \in watches, DoneWith(t)
  PROVE  Quiet' /\ callback' \in BOOLEAN /\ outcome' = "called"
BY NothingElse, ForgetQuiets DEF DoneWith

LEMMA WatchingAgain ==
  ASSUME Waits, NEW t \in watches, WatchAgain(t),
         checker' \in Checkers \cup {None}, checker' = None <=> checker = None
  PROVE  /\ (Waits /\ outcome = "none")' \/ (Quiet /\ outcome = "thrown")'
         /\ callback' \in BOOLEAN
<1>1. CASE Watch(watches \ {t}) /\ UNCHANGED <<alarm_ticket, callback, timers, outcome>>
  <2>1. device_ticket' \in Tickets /\ watches' = {device_ticket'}
    BY <1>1, NothingElse DEF Watch
  <2> QED
    BY <1>1, <2>1 DEF Waits
<1>2. CASE Forget(watches \ {t}, OtherTimers, "thrown")
  <2>1. DOMAIN OtherTimers = {} /\ watches \ {t} = {}
    BY NothingElse
  <2>2. Forget({}, OtherTimers, "thrown")
    BY <1>2, <2>1
  <2> QED
    BY <2>1, <2>2, ForgetQuiets
<1> QED
  BY <1>1, <1>2 DEF WatchAgain

LEMMA TickingOn ==
  ASSUME Waits, NEW t \in DOMAIN timers, NextTick(t), checker' \in Checkers
  PROVE  /\ (Waits /\ outcome = "none")' \/ (Quiet /\ outcome = "thrown")'
         /\ callback' \in BOOLEAN
<1>1. CASE /\ CallTick(Without(timers, t), checker')
           /\ UNCHANGED <<device_ticket, callback, watches, outcome>>
  <2>1. /\ alarm_ticket' \in Tickets /\ DOMAIN timers' = {alarm_ticket'}
        /\ timers'[alarm_ticket'] \in Timers("on_next_tick")
    <3>1. DOMAIN Without(timers, t) = {}
      BY NothingElse
    <3> QED
      BY <1>1, <3>1, CallTickCalls
  <2>2. checker' # None
    BY NbCallbacksAssumption
  <2> QED
    BY <1>1, <2>1, <2>2 DEF Waits
<1>2. CASE Forget(OtherWatches, Without(timers, t), "thrown")
  <2>1. DOMAIN Without(timers, t) = {} /\ OtherWatches = {}
    BY NothingElse
  <2>2. Forget({}, Without(timers, t), "thrown")
    BY <1>2, <2>1
  <2> QED
    BY <2>1, <2>2, ForgetQuiets
<1> QED
  BY <1>1, <1>2 DEF NextTick

LEMMA TickFailing ==
  ASSUME Quiet \/ AtOnce \/ Waits, NEW t \in DOMAIN timers, TickFails(t)
  PROVE  Quiet' /\ callback' \in BOOLEAN /\ outcome' = "called"
<1>1. DOMAIN Without(timers, t) = {} /\ OtherWatches = {}
  BY NothingElse
<1>2. Forget({}, Without(timers, t), "called")
  BY <1>1 DEF TickFails
<1> QED
  BY <1>1, <1>2, ForgetQuiets

\* A timer that is due for its next tick is that of a buffer that waits.
LEMMA TicksWait ==
  ASSUME NEW ready \in BOOLEAN, NEW error \in BOOLEAN, Scheduled(ready, error),
         NEW t \in DOMAIN timers, Due(t, "on_next_tick")
  PROVE  Waits /\ ~ready /\ ~error /\ checker \in Checkers
BY DEF Scheduled, Quiet, AtOnce, Waits, Timers, Due

LEMMA TimePassing ==
  ASSUME NEW ready \in BOOLEAN, NEW error \in BOOLEAN, Scheduled(ready, error), Tick
  PROVE  Scheduled(ready, error)' /\ outcome' = outcome
<1> USE NbCallbacksAssumption
<1>1. /\ checker' \in Checkers \cup {None} /\ (checker' = None <=> checker = None)
      /\ UNCHANGED <<tickets, callback, watches, outcome>>
  BY CheckersStayCheckers DEF Tick, Scheduled
<1>2. DOMAIN timers' = DOMAIN timers
  BY DEF Tick
<1>3. ASSUME NEW h, NEW t \in DOMAIN timers, timers[t] \in Timers(h)
      PROVE  timers'[t] \in Timers(h)
  <2>1. timers'[t] = [timers[t] EXCEPT !.left = Max({timers[t].left - 1, 0})]
    BY DEF Tick
  <2>2. timers[t].left \in 0 .. TickLength
    BY <1>3 DEF Timers
  <2>3. Max({timers[t].left - 1, 0}) \in 0 .. TickLength
    BY <2>2, MaxOfTwo, ThroughputAssumption
  <2> QED
    BY <1>3, <2>1, <2>3 DEF Timers
<1>4. (Quiet => Quiet') /\ (AtOnce => AtOnce') /\ (Waits => Waits')
  BY <1>1, <1>2, <1>3 DEF Quiet, AtOnce, Waits, tickets
<1> QED
  BY <1>1, <1>4 DEF Scheduled

-----------------------------------------------------------------------------
(***************************************************************************)
(* An input buffer's characters, place by place.                           *)
(***************************************************************************)
Input ==
  /\ \A i \in 1 .. Len(got) : got[i] = i
  /\ \A j \in 1 .. ep - rp : buf[rp + j] = Len(got) + j
  /\ Len(got) + (ep - rp) <= StreamLength
  /\ ~error_status => Len(got) + (ep - rp) = sent
  /\ error_status => at_eof /\ rp = ep

LEMMA InputIs ==
  ASSUME InbufTypeOK
  PROVE  InputIsAStream /\ ErrorIsEof <=> Input
<1> USE NbCallbacksAssumption DEF InbufTypeOK
<1> DEFINE u == Unread
<1>1. rp \in 0 .. ep /\ ep \in 0 .. BufSize
  OBVIOUS
<1>2. /\ u \in Seq(Characters) /\ Len(u) = ep - rp
      /\ \A j \in 1 .. ep - rp : u[j] = buf[rp + j]
      /\ rp = ep <=> u = <<>>
  BY <1>1, PartOfBuffer DEF Unread
<1>3. /\ Len(got \o u) = Len(got) + Len(u)
      /\ IsPrefix(got \o u, [i \in 1 .. StreamLength |-> i]) <=>
           /\ Len(got) + Len(u) <= StreamLength
           /\ \A i \in 1 .. Len(got) : got[i] = i
           /\ \A j \in 1 .. Len(u) : u[j] = Len(got) + j
  <2>1. got \in Seq(Characters) /\ StreamLength \in Nat
    OBVIOUS
  <2> HIDE DEF u
  <2> QED
    BY <1>2, <2>1, StreamInTwoParts
<1> QED
  BY <1>1, <1>2, <1>3 DEF InputIsAStream, ErrorIsEof, Input, Readable

InState == InbufTypeOK /\ Input /\ Scheduled(Readable, error_status)

LEMMA InStateIs == direction = "in" => (Inv <=> InState)
<1>1. ASSUME InbufTypeOK
      PROVE  Readable \in BOOLEAN /\ error_status \in BOOLEAN
  BY <1>1 DEF InbufTypeOK, Readable
<1>2. ASSUME InbufTypeOK
      PROVE  Scheduled(Readable, error_status) <=>
               /\ CallbacksTypeOK /\ TicketsAreKnown
               /\ AssertsHold(Readable, error_status) /\ CallbackIsScheduled(Readable)
  BY <1>1, <1>2, ThreeStates
<1> QED
  BY <1>2, InputIs DEF Inv, InbufInv, InState

LEMMA ReadingIsFine ==
  ASSUME InState, NEW n \in 1 .. BufSize, Read(n)
  PROVE  InState'
<1> USE NbCallbacksAssumption
<1> DEFINE count == Min({n, ep - rp})
           part  == SubSeq(buf, rp + 1, rp + count)
<1>1. /\ rp \in 0 .. ep /\ ep \in 0 .. BufSize
      /\ buf \in [1 .. BufSize -> Characters] /\ got \in Seq(Characters)
  BY DEF InState, InbufTypeOK
<1>2. count \in 0 .. ep - rp
  <2>1. n \in Int /\ ep - rp \in Int /\ ep - rp >= 0 /\ n >= 1
    BY <1>1
  <2>2. count = IF n <= ep - rp THEN n ELSE ep - rp
    BY <2>1, MinOfTwo
  <2> HIDE DEF count
  <2> QED
    BY <2>1, <2>2
<1>3. /\ ~callback /\ got' = got \o part /\ rp' = rp + count /\ Readable
      /\ UNCHANGED <<callbackVars, buf, ep, at_eof, error_status, sent>>
  BY DEF Read
<1> HIDE DEF count
<1>4. /\ part \in Seq(Characters) /\ Len(part) = count
      /\ \A j \in 1 .. count : part[j] = buf[rp + j]
  <2> DEFINE hi == rp + count
  <2>1. hi \in 0 .. BufSize /\ rp \in 0 .. hi /\ hi - rp = count
    BY <1>1, <1>2
  <2>2. buf \in [1 .. BufSize -> Characters]
    BY <1>1
  <2>3. part = SubSeq(buf, rp + 1, hi)
    OBVIOUS
  <2> HIDE DEF hi, part
  <2> QED
    BY <2>1, <2>2, <2>3, PartOfBuffer
<1> HIDE DEF part
<1>5. /\ got' \in Seq(Characters) /\ Len(got') = Len(got) + count /\ Len(got) \in Nat
      /\ \A i \in 1 .. Len(got) : got'[i] = got[i]
      /\ \A i \in Len(got) + 1 .. Len(got) + count : got'[i] = part[i - Len(got)]
  <2>1. /\ got \o part \in Seq(Characters) /\ Len(got \o part) = Len(got) + Len(part)
        /\ \A i \in 1 .. Len(got) + Len(part) :
             (got \o part)[i] = IF i <= Len(got) THEN got[i] ELSE part[i - Len(got)]
    <3>1. got \in Seq(Characters) /\ part \in Seq(Characters)
      BY <1>1, <1>4
    <3> QED
      BY <3>1, ConcatProperties
  <2>2. Len(got) \in Nat /\ Len(part) = count /\ count \in Nat
    BY <1>1, <1>2, <1>4
  <2> QED
    BY <1>3, <2>1, <2>2
<1>6. InbufTypeOK'
  BY <1>1, <1>2, <1>3, <1>5 DEF InState, InbufTypeOK
<1>7. Input'
  <2>1. \A i \in 1 .. Len(got') : got'[i] = i
    <3>1. SUFFICES ASSUME NEW i \in 1 .. Len(got')
                   PROVE  got'[i] = i
      OBVIOUS
    <3>2. CASE i <= Len(got)
      BY <1>5, <3>2 DEF InState, Input
    <3>3. CASE i > Len(got)
      <4>1. i - Len(got) \in 1 .. count /\ i - Len(got) \in 1 .. ep - rp
        BY <1>1, <1>2, <1>5, <3>3
      <4>2. got'[i] = buf[rp + (i - Len(got))]
        BY <1>4, <1>5, <3>3, <4>1
      <4>3. buf[rp + (i - Len(got))] = Len(got) + (i - Len(got))
        BY <4>1 DEF InState, Input
      <4> QED
        BY <1>5, <4>2, <4>3
    <3> QED
      BY <1>5, <3>2, <3>3
  <2>2. \A j \in 1 .. ep' - rp' : buf'[rp' + j] = Len(got') + j
    <3>1. SUFFICES ASSUME NEW j \in 1 .. ep' - rp'
                   PROVE  buf'[rp' + j] = Len(got') + j
      OBVIOUS
    <3>2. count + j \in 1 .. ep - rp /\ rp' + j = rp + (count + j)
      BY <1>1, <1>2, <1>3
    <3>3. buf[rp + (count + j)] = Len(got) + (count + j)
      BY <3>2 DEF InState, Input
    <3> QED
      BY <1>2, <1>3, <1>5, <3>2, <3>3
  <2>3. Len(got') + (ep' - rp') = Len(got) + (ep - rp)
    BY <1>1, <1>2, <1>3, <1>5
  <2>4. error_status => rp' = ep
    BY <1>1, <1>2, <1>3 DEF InState, Input
  <2> QED
    BY <1>3, <2>1, <2>2, <2>3, <2>4 DEF InState, Input
<1>8. Quiet /\ UNCHANGED callbackVars
  BY <1>3 DEF InState, Scheduled, AtOnce, Waits
<1> QED
  BY <1>6, <1>7, <1>8 DEF InState, Scheduled, Quiet, callbackVars, tickets

\* The buffer becomes readable, with or without an error.
LEMMA EnteringIsFine ==
  ASSUME InbufTypeOK, Input, ~Readable, ~error_status,
         NEW n \in 0 .. BufSize, n <= StreamLength - sent,
         NEW failed \in BOOLEAN, failed \/ n # 0 \/ sent = StreamLength,
         Enter(n, failed), UNCHANGED got
  PROVE  InbufTypeOK' /\ Input' /\ Readable'
<1> USE NbCallbacksAssumption
<1>1. /\ rp = ep /\ ~at_eof /\ got \in Seq(Characters) /\ Len(got) \in Nat /\ got' = got
      /\ sent \in 0 .. StreamLength /\ ep \in 0 .. BufSize
      /\ buf \in [1 .. BufSize -> Characters]
  BY DEF InbufTypeOK, Readable
<1>2. Len(got) = sent
  BY <1>1 DEF Input
<1>3. /\ buf' \in [1 .. BufSize -> Characters]
      /\ \A i \in 1 .. n : buf'[i] = sent + i
  BY <1>1 DEF Enter, Characters
<1>4. /\ sent' = sent + n /\ rp' = 0 /\ ep' = IF failed THEN 0 ELSE n
      /\ at_eof' = (failed \/ n = 0) /\ error_status' = failed
  BY DEF Enter
<1>5. InbufTypeOK'
  BY <1>1, <1>3, <1>4 DEF InbufTypeOK
<1>6. Input'
  BY <1>1, <1>2, <1>3, <1>4 DEF Input
<1> QED
  BY <1>4, <1>5, <1>6 DEF Readable

LEMMA InbufWaits ==
  ASSUME InState, NEW t \in watches
  PROVE  Waits /\ ~Readable /\ ~error_status
BY DEF InState, Scheduled, Quiet, AtOnce, Waits

\* What the checker says of a transfer.
LEMMA RecordedIsAChecker ==
  ASSUME checker \in Checkers \cup {None}, NEW n \in Nat
  PROVE  /\ Recorded(n) \in Checkers \cup {None} /\ (Recorded(n) = None <=> checker = None)
         /\ \A c : Failed(c) \in BOOLEAN
BY CheckersStayCheckers, NbCallbacksAssumption DEF Recorded, Failed, TooSlow

LEMMA InbufStepsAreFine ==
  ASSUME InState, InbufNext
  PROVE  InState' /\ (callback /\ outcome' = "called" => Readable')
<1> USE NbCallbacksAssumption
<1>0. /\ InbufTypeOK /\ Input /\ Readable \in BOOLEAN /\ error_status \in BOOLEAN
      /\ Scheduled(Readable, error_status) /\ (error_status => Readable)
      /\ (callback => outcome = "none") /\ checker \in Checkers \cup {None}
      /\ Quiet \/ AtOnce \/ Waits
  BY DEF InState, InbufTypeOK, Input, Readable, Scheduled, Quiet, AtOnce, Waits
<1>1. ASSUME NEW n \in 1 .. BufSize, Read(n)
      PROVE  InState' /\ (callback /\ outcome' = "called" => Readable')
  BY <1>0, <1>1, ReadingIsFine DEF Read
<1>2. CASE InbufCalls
  <2>1. InbufTypeOK' /\ Input' /\ Readable' = Readable /\ error_status' = error_status
    BY <1>0, <1>2 DEF InbufCalls, inData, InbufTypeOK, Input, Readable
  <2>2. CASE \/ CallWhen(Readable) \/ CallWhenThrows \/ Cancel
             \/ EnableThroughputChecking \/ DisableThroughputChecking
    BY <1>0, <2>1, <2>2, UserCallsAreFine DEF InState, Scheduled
  <2>3. ASSUME NEW t \in DOMAIN timers, OnAlreadyReady(t)
        PROVE  InState' /\ (callback /\ outcome' = "called" => Readable')
    BY <1>0, <2>1, <2>3, AlarmAtOnce DEF InState, Scheduled
  <2>4. CASE Tick
    BY <1>0, <2>1, <2>4, TimePassing DEF InState, Scheduled
  <2> QED
    BY <1>2, <2>2, <2>3, <2>4 DEF InbufCalls
<1>3. ASSUME NEW t \in watches, SourceFails(t)
      PROVE  InState' /\ (callback /\ outcome' = "called" => Readable')
  <2>1. InbufTypeOK' /\ Input' /\ Readable'
    <3>1. 0 \in 0 .. BufSize /\ 0 <= StreamLength - sent
      BY <1>0 DEF InbufTypeOK
    <3>2. Enter(0, TRUE) /\ UNCHANGED got /\ ~Readable /\ ~error_status
      BY <1>3, InbufWaits DEF SourceFails
    <3> QED
      BY <1>0, <3>1, <3>2, EnteringIsFine
  <2>2. Quiet' /\ callback' \in BOOLEAN /\ outcome' = "called" /\ checker' = checker
    BY <1>0, <1>3, DoneQuiets DEF SourceFails
  <2> QED
    BY <1>0, <2>1, <2>2 DEF InState, Scheduled
<1>4. ASSUME NEW t \in watches, SpuriousWakeup(t)
      PROVE  InState' /\ (callback /\ outcome' = "called" => Readable')
  <2>1. /\ Waits /\ ~Readable /\ ~error_status /\ checker' = Recorded(0) /\ UNCHANGED got
        /\ checker' \in Checkers \cup {None} /\ (checker' = None <=> checker = None)
    BY <1>0, <1>4, InbufWaits, RecordedIsAChecker DEF SpuriousWakeup
  <2>2. CASE Failed(checker')
    <3>1. InbufTypeOK' /\ Input' /\ Readable'
      <4>1. 0 \in 0 .. BufSize /\ 0 <= StreamLength - sent
        BY <1>0 DEF InbufTypeOK
      <4>2. Enter(0, TRUE)
        BY <1>4, <2>2 DEF SpuriousWakeup
      <4> QED
        BY <1>0, <2>1, <4>1, <4>2, EnteringIsFine
    <3>2. Quiet' /\ callback' \in BOOLEAN /\ outcome' = "called"
      BY <1>0, <1>4, <2>2, DoneQuiets DEF SpuriousWakeup
    <3> QED
      BY <2>1, <3>1, <3>2 DEF InState, Scheduled
  <2>3. CASE ~Failed(checker')
    <3>1. UNCHANGED inData /\ WatchAgain(t)
      BY <1>4, <2>3 DEF SpuriousWakeup
    <3>2. InbufTypeOK' /\ Input' /\ ~Readable' /\ ~error_status'
      BY <1>0, <2>1, <3>1 DEF inData, InbufTypeOK, Input, Readable
    <3>3. /\ (Waits /\ outcome = "none")' \/ (Quiet /\ outcome = "thrown")'
          /\ callback' \in BOOLEAN
      BY <1>4, <2>1, <3>1, WatchingAgain
    <3> QED
      BY <2>1, <3>2, <3>3 DEF InState, Scheduled
  <2> QED
    BY <2>2, <2>3
<1>5. ASSUME NEW t \in watches, NEW n \in 0 .. BufSize, SourceReadable(t, n)
      PROVE  InState' /\ (callback /\ outcome' = "called" => Readable')
  <2>1. /\ ~Readable /\ ~error_status /\ checker' = Recorded(n) /\ UNCHANGED got
        /\ checker' \in Checkers \cup {None} /\ Failed(checker') \in BOOLEAN
    <3>1. n \in Nat
      OBVIOUS
    <3> QED
      BY <1>0, <1>5, <3>1, InbufWaits, RecordedIsAChecker DEF SourceReadable
  <2>2. /\ n <= StreamLength - sent
        /\ n # 0 \/ sent = StreamLength
        /\ Enter(n, Failed(checker'))
    BY <1>5 DEF SourceReadable
  <2>3. InbufTypeOK' /\ Input' /\ Readable'
    <3>1. ASSUME NEW failed \in BOOLEAN, failed = Failed(checker')
          PROVE  InbufTypeOK' /\ Input' /\ Readable'
      <4>1. Enter(n, failed)
        BY <2>2, <3>1
      <4>2. failed \/ n # 0 \/ sent = StreamLength
        BY <2>2
      <4> QED
        BY <1>0, <2>1, <2>2, <4>1, <4>2, EnteringIsFine
    <3> QED
      BY <2>1, <3>1
  <2>4. Quiet' /\ callback' \in BOOLEAN /\ outcome' = "called"
    BY <1>0, <1>5, DoneQuiets DEF SourceReadable
  <2> QED
    BY <2>1, <2>3, <2>4 DEF InState, Scheduled
<1>6. ASSUME NEW t \in DOMAIN timers, InbufOnNextTick(t)
      PROVE  InState' /\ (callback /\ outcome' = "called" => Readable')
  <2>1. /\ Waits /\ ~Readable /\ ~error_status /\ UNCHANGED got
        /\ checker' = RecordTransfer(checker, 0) /\ checker' \in Checkers
    BY <1>0, <1>6, TicksWait, CheckersStayCheckers DEF InbufOnNextTick
  <2>2. CASE Failed(checker')
    <3>1. InbufTypeOK' /\ Input' /\ Readable'
      <4>1. 0 \in 0 .. BufSize /\ 0 <= StreamLength - sent
        BY <1>0 DEF InbufTypeOK
      <4>2. Enter(0, TRUE)
        BY <1>6, <2>2 DEF InbufOnNextTick
      <4> QED
        BY <1>0, <2>1, <4>1, <4>2, EnteringIsFine
    <3>2. Quiet' /\ callback' \in BOOLEAN /\ outcome' = "called"
      BY <1>0, <1>6, <2>2, TickFailing DEF InbufOnNextTick
    <3> QED
      BY <2>1, <3>1, <3>2 DEF InState, Scheduled
  <2>3. CASE ~Failed(checker')
    <3>1. UNCHANGED inData /\ NextTick(t)
      BY <1>6, <2>3 DEF InbufOnNextTick
    <3>2. InbufTypeOK' /\ Input' /\ ~Readable' /\ ~error_status'
      BY <1>0, <2>1, <3>1 DEF inData, InbufTypeOK, Input, Readable
    <3>3. /\ (Waits /\ outcome = "none")' \/ (Quiet /\ outcome = "thrown")'
          /\ callback' \in BOOLEAN
      BY <1>6, <2>1, <3>1, TickingOn
    <3> QED
      BY <2>1, <3>2, <3>3 DEF InState, Scheduled
  <2> QED
    BY <2>2, <2>3
<1> QED
  BY <1>1, <1>2, <1>3, <1>4, <1>5, <1>6 DEF InbufNext

-----------------------------------------------------------------------------
(***************************************************************************)
(* An output buffer's characters, place by place.                          *)
(***************************************************************************)
Output ==
  /\ \A i \in 1 .. Len(taken) : taken[i] = i
  /\ \A j \in 1 .. wp - rp : buf[rp + j] = Len(taken) + j
  /\ Len(taken) + (wp - rp) <= written
  /\ ~error_status => Len(taken) + (wp - rp) = written
  /\ error_status => wp # limit /\ rp = wp

LEMMA OutputIs ==
  ASSUME OutbufTypeOK
  PROVE  OutputIsAStream /\ ErrorNeverBlocks <=> Output
<1> USE NbCallbacksAssumption DEF OutbufTypeOK
<1> DEFINE u == Unsent
<1>1. rp \in 0 .. wp /\ wp \in 0 .. BufSize
  OBVIOUS
<1>2. /\ u \in Seq(Characters) /\ Len(u) = wp - rp
      /\ \A j \in 1 .. wp - rp : u[j] = buf[rp + j]
      /\ rp = wp <=> u = <<>>
  BY <1>1, PartOfBuffer DEF Unsent
<1>3. /\ Len(taken \o u) = Len(taken) + Len(u)
      /\ IsPrefix(taken \o u, [i \in 1 .. written |-> i]) <=>
           /\ Len(taken) + Len(u) <= written
           /\ \A i \in 1 .. Len(taken) : taken[i] = i
           /\ \A j \in 1 .. Len(u) : u[j] = Len(taken) + j
  <2>1. taken \in Seq(Characters)
    OBVIOUS
  <2>2. written \in Nat
    OBVIOUS
  <2>3. ASSUME NEW N \in Nat, N = written
        PROVE  /\ Len(taken \o u) = Len(taken) + Len(u)
               /\ IsPrefix(taken \o u, [i \in 1 .. N |-> i]) <=>
                    /\ Len(taken) + Len(u) <= N
                    /\ \A i \in 1 .. Len(taken) : taken[i] = i
                    /\ \A j \in 1 .. Len(u) : u[j] = Len(taken) + j
    <3> HIDE DEF u
    <3> QED
      BY <1>2, <2>1, StreamInTwoParts
  <2> HIDE DEF u
  <2> QED
    BY <2>2, <2>3
<1> QED
  BY <1>1, <1>2, <1>3 DEF OutputIsAStream, ErrorNeverBlocks, Output, Writable

OutState == OutbufTypeOK /\ Output /\ Scheduled(Writable, error_status)

LEMMA OutStateIs == direction = "out" => (Inv <=> OutState)
<1>1. ASSUME OutbufTypeOK
      PROVE  Writable \in BOOLEAN /\ error_status \in BOOLEAN
  BY <1>1 DEF OutbufTypeOK, Writable
<1>2. ASSUME OutbufTypeOK
      PROVE  Scheduled(Writable, error_status) <=>
               /\ CallbacksTypeOK /\ TicketsAreKnown
               /\ AssertsHold(Writable, error_status) /\ CallbackIsScheduled(Writable)
  BY <1>1, <1>2, ThreeStates
<1> QED
  BY <1>2, OutputIs DEF Inv, OutbufInv, OutState

LEMMA WritingIsFine ==
  ASSUME OutState, NEW n \in 1 .. BufSize, Write(n)
  PROVE  OutState'
<1> USE NbCallbacksAssumption
<1> DEFINE count == Min({n, limit - wp})
<1>1. /\ rp \in 0 .. wp /\ wp \in 0 .. BufSize /\ limit \in wp .. BufSize
      /\ buf \in [1 .. BufSize -> Characters]
      /\ taken \in Seq(Characters) /\ Len(taken) \in Nat /\ written \in 0 .. StreamLength
  BY DEF OutState, OutbufTypeOK
<1>2. count \in 0 .. limit - wp
  <2>1. n \in Int /\ limit - wp \in Int /\ limit - wp >= 0 /\ n >= 1
    BY <1>1
  <2>2. count = IF n <= limit - wp THEN n ELSE limit - wp
    BY <2>1, MinOfTwo
  <2> HIDE DEF count
  <2> QED
    BY <2>1, <2>2
<1>3. /\ ~callback /\ ~error_status /\ count <= StreamLength - written
      /\ buf' = [i \in 1 .. BufSize |-> IF i \in wp + 1 .. wp + count THEN written + i - wp ELSE buf[i]]
      /\ wp' = wp + count /\ written' = written + count
      /\ UNCHANGED <<callbackVars, rp, limit, error_status, taken>>
  BY DEF Write
<1> HIDE DEF count
<1>4. /\ buf' \in [1 .. BufSize -> Characters]
      /\ \A i \in 1 .. wp : buf'[i] = buf[i]
      /\ \A i \in wp + 1 .. wp + count : buf'[i] = written + i - wp
  BY <1>1, <1>2, <1>3 DEF Characters
<1>5. OutbufTypeOK'
  <2>1. wp + count \in 0 .. BufSize /\ rp \in 0 .. wp + count /\ limit \in wp + count .. BufSize
    BY <1>1, <1>2
  <2>2. written + count \in 0 .. StreamLength
    BY <1>1, <1>2, <1>3
  <2>3. error_status' \in BOOLEAN
    BY <1>3 DEF OutState, OutbufTypeOK
  <2> QED
    BY <1>1, <1>3, <1>4, <2>1, <2>2, <2>3 DEF OutbufTypeOK
<1>6. Len(taken) + (wp - rp) = written
  BY <1>3 DEF OutState, Output
<1>7. Output'
  <2>0. /\ wp' = wp + count /\ rp' = rp /\ written' = written + count
        /\ taken' = taken /\ error_status' = error_status /\ ~error_status
        /\ count \in Int /\ wp \in Int /\ rp \in Int /\ written \in Int
    BY <1>1, <1>2, <1>3
  <2>1. ASSUME NEW j \in 1 .. wp' - rp'
        PROVE  buf'[rp' + j] = Len(taken') + j
    <3>1. CASE j <= wp - rp
      <4>1. rp + j \in 1 .. wp /\ j \in 1 .. wp - rp
        BY <1>1, <2>0, <3>1
      <4>2. buf[rp + j] = Len(taken) + j
        BY <4>1 DEF OutState, Output
      <4> QED
        BY <1>4, <2>0, <4>1, <4>2
    <3>2. CASE j > wp - rp
      <4>1. rp + j \in wp + 1 .. wp + count
        BY <1>1, <1>2, <2>0, <3>2
      <4>2. buf'[rp + j] = written + (rp + j) - wp
        BY <1>4, <4>1
      <4>3. written + (rp + j) - wp = Len(taken) + j
        BY <1>1, <1>6, <2>0
      <4> QED
        BY <2>0, <4>2, <4>3
    <3> QED
      BY <2>0, <3>1, <3>2
  <2>2. Len(taken') + (wp' - rp') = written'
    BY <1>1, <1>6, <2>0
  <2>3. \A i \in 1 .. Len(taken') : taken'[i] = i
    BY <2>0 DEF OutState, Output
  <2>4. written' \in Int
    BY <2>0
  <2> QED
    BY <2>0, <2>1, <2>2, <2>3, <2>4 DEF Output
<1>8. Quiet
  BY <1>3 DEF OutState, Scheduled, AtOnce, Waits
<1> QED
  BY <1>3, <1>5, <1>7, <1>8 DEF OutState, Scheduled, Quiet, callbackVars, tickets

\* The sink takes n characters, which leave the buffer.
LEMMA SinkTakes ==
  ASSUME OutbufTypeOK, Output, ~error_status, NEW n \in 0 .. BufSize, n <= wp - rp,
         taken' = taken \o SubSeq(buf, rp + 1, rp + n)
  PROVE  /\ taken' \in Seq(Characters) /\ Len(taken') = Len(taken) + n /\ Len(taken) \in Nat
         /\ \A i \in 1 .. Len(taken') : taken'[i] = i
         /\ \A j \in 1 .. wp - (rp + n) : buf[rp + n + j] = Len(taken') + j
         /\ Len(taken') + (wp - (rp + n)) = written
<1> USE NbCallbacksAssumption
<1> DEFINE part == SubSeq(buf, rp + 1, rp + n)
<1>1. /\ rp \in 0 .. wp /\ wp \in 0 .. BufSize /\ buf \in [1 .. BufSize -> Characters]
      /\ taken \in Seq(Characters) /\ Len(taken) \in Nat /\ written \in Nat
  BY DEF OutbufTypeOK
<1>2. /\ part \in Seq(Characters) /\ Len(part) = n
      /\ \A j \in 1 .. n : part[j] = buf[rp + j]
  <2> DEFINE hi == rp + n
  <2>1. hi \in 0 .. BufSize /\ rp \in 0 .. hi /\ hi - rp = n
    BY <1>1
  <2>2. buf \in [1 .. BufSize -> Characters]
    BY <1>1
  <2>3. part = SubSeq(buf, rp + 1, hi)
    OBVIOUS
  <2>4. /\ SubSeq(buf, rp + 1, hi) \in Seq(Characters) /\ Len(SubSeq(buf, rp + 1, hi)) = hi - rp
        /\ \A j \in 1 .. hi - rp : SubSeq(buf, rp + 1, hi)[j] = buf[rp + j]
    <3> HIDE DEF hi, part
    <3> QED
      BY <2>1, <2>2, PartOfBuffer
  <2> HIDE DEF hi, part
  <2> QED
    BY <2>1, <2>3, <2>4
<1> HIDE DEF part
<1>3. /\ taken' \in Seq(Characters) /\ Len(taken') = Len(taken) + n
      /\ \A i \in 1 .. Len(taken) : taken'[i] = taken[i]
      /\ \A i \in Len(taken) + 1 .. Len(taken) + n : taken'[i] = part[i - Len(taken)]
  <2>1. /\ taken \o part \in Seq(Characters) /\ Len(taken \o part) = Len(taken) + Len(part)
        /\ \A i \in 1 .. Len(taken) + Len(part) :
             (taken \o part)[i] = IF i <= Len(taken) THEN taken[i] ELSE part[i - Len(taken)]
    <3>1. taken \in Seq(Characters) /\ part \in Seq(Characters)
      BY <1>1, <1>2
    <3> QED
      BY <3>1, ConcatProperties
  <2>2. taken' = taken \o part
    BY DEF part
  <2> QED
    BY <1>1, <1>2, <2>1, <2>2
<1>4. ASSUME NEW i \in 1 .. Len(taken')
      PROVE  taken'[i] = i
  <2>1. CASE i <= Len(taken)
    BY <1>3, <2>1 DEF Output
  <2>2. CASE i > Len(taken)
    <3>1. i - Len(taken) \in 1 .. n /\ i - Len(taken) \in 1 .. wp - rp
      BY <1>1, <1>3, <2>2
    <3>2. taken'[i] = buf[rp + (i - Len(taken))]
      BY <1>2, <1>3, <2>2, <3>1
    <3>3. buf[rp + (i - Len(taken))] = Len(taken) + (i - Len(taken))
      BY <3>1 DEF Output
    <3> QED
      BY <1>1, <1>3, <3>2, <3>3
  <2> QED
    BY <1>1, <1>3, <2>1, <2>2
<1>5. ASSUME NEW j \in 1 .. wp - (rp + n)
      PROVE  buf[rp + n + j] = Len(taken') + j
  <2>1. n + j \in 1 .. wp - rp /\ rp + n + j = rp + (n + j)
    BY <1>1
  <2>2. buf[rp + (n + j)] = Len(taken) + (n + j)
    BY <2>1 DEF Output
  <2>3. Len(taken') = Len(taken) + n /\ Len(taken) \in Nat /\ n \in Nat /\ j \in Int
    BY <1>1, <1>3
  <2>4. Len(taken) + (n + j) = Len(taken') + j
    <3> DEFINE k == Len(taken)
               m == Len(taken')
    <3>1. m = k + n /\ k \in Nat /\ n \in Nat /\ j \in Int
      BY <2>3
    <3> HIDE DEF k, m
    <3>2. k + (n + j) = m + j
      BY <3>1
    <3> QED
      BY <3>2 DEF k, m
  <2> QED
    BY <2>1, <2>2, <2>4
<1>6. Len(taken') + (wp - (rp + n)) = written
  <2>1. Len(taken) + (wp - rp) = written
    BY DEF Output
  <2>2. rp \in Int /\ wp \in Int /\ n \in Int /\ Len(taken) \in Int
    BY <1>1
  <2> QED
    BY <1>3, <2>1, <2>2
<1> QED
  BY <1>1, <1>3, <1>4, <1>5, <1>6

\* The buffer becomes writable and empty, with an error or because everything is taken.
LEMMA EmptyingIsFine ==
  ASSUME OutbufTypeOK,
         taken' \in Seq(Characters), \A i \in 1 .. Len(taken') : taken'[i] = i,
         Len(taken') <= written, error_status' \in BOOLEAN,
         ~error_status' => Len(taken') = written,
         EnterWritable
  PROVE  OutbufTypeOK' /\ Output' /\ Writable' /\ Unsent' = <<>>
<1> USE NbCallbacksAssumption
<1>1. /\ rp' = 0 /\ wp' = 0 /\ limit' = BufSize /\ buf' = buf /\ written' = written
      /\ written \in 0 .. StreamLength /\ buf \in [1 .. BufSize -> Characters]
      /\ Len(taken') \in Nat
  BY DEF EnterWritable, OutbufTypeOK
<1>2. OutbufTypeOK' /\ Writable'
  BY <1>1 DEF OutbufTypeOK, Writable
<1>3. Output'
  BY <1>1 DEF Output
<1>4. Unsent' = <<>>
  <2>1. SubSeq(buf, 0 + 1, 0) = <<>>
    BY <1>1, PartOfBuffer
  <2> QED
    BY <1>1, <2>1 DEF Unsent
<1> QED
  BY <1>2, <1>3, <1>4

LEMMA OutbufWaits ==
  ASSUME OutState, NEW t \in watches
  PROVE  Waits /\ ~Writable /\ ~error_status
BY DEF OutState, Scheduled, Quiet, AtOnce, Waits

CalledEmpty == callback /\ outcome' = "called" => Writable' /\ (~Writable => Unsent' = <<>>)

LEMMA SinkWritableIsFine ==
  ASSUME OutState, NEW t \in watches, NEW n \in 0 .. BufSize, SinkWritable(t, n)
  PROVE  OutState' /\ CalledEmpty
<1> USE NbCallbacksAssumption
<1>0. /\ OutbufTypeOK /\ Output /\ checker \in Checkers \cup {None}
      /\ Waits /\ ~Writable /\ ~error_status
  BY OutbufWaits DEF OutState, Scheduled
<1>1. /\ n <= wp - rp /\ checker' = Recorded(n) /\ error_status' = Failed(checker')
      /\ taken' = taken \o SubSeq(buf, rp + 1, rp + n)
  BY DEF SinkWritable
<1>2. /\ checker' \in Checkers \cup {None} /\ (checker' = None <=> checker = None)
      /\ error_status' \in BOOLEAN
  <2>1. n \in Nat
    OBVIOUS
  <2> QED
    BY <1>0, <1>1, <2>1, RecordedIsAChecker
<1>3. /\ taken' \in Seq(Characters) /\ Len(taken') = Len(taken) + n /\ Len(taken) \in Nat
      /\ \A i \in 1 .. Len(taken') : taken'[i] = i
      /\ \A j \in 1 .. wp - (rp + n) : buf[rp + n + j] = Len(taken') + j
      /\ Len(taken') + (wp - (rp + n)) = written
  BY <1>0, <1>1, SinkTakes
<1>4. rp \in 0 .. wp /\ wp \in 0 .. BufSize /\ rp \in Int /\ wp \in Int /\ written \in Int
  BY <1>0 DEF OutbufTypeOK
<1>5. CASE error_status' \/ rp + n = wp
  <2>1. EnterWritable /\ DoneWith(t)
    BY <1>5 DEF SinkWritable
  <2>2. Len(taken') <= written /\ (~error_status' => Len(taken') = written)
    <3>1. n <= wp - rp /\ n \in Int
      BY <1>1
    <3>2. Len(taken') <= written
      BY <1>3, <1>4, <3>1
    <3>3. rp + n = wp => Len(taken') = written
      BY <1>3, <1>4, <3>1
    <3> QED
      BY <1>5, <3>2, <3>3
  <2>3. OutbufTypeOK' /\ Output' /\ Writable' /\ Unsent' = <<>>
    BY <1>0, <1>2, <1>3, <2>1, <2>2, EmptyingIsFine
  <2>4. Quiet' /\ callback' \in BOOLEAN /\ outcome' = "called"
    BY <1>0, <2>1, DoneQuiets
  <2> QED
    BY <1>2, <2>3, <2>4 DEF OutState, Scheduled, CalledEmpty
<1>6. CASE ~(error_status' \/ rp + n = wp)
  <2>1. rp' = rp + n /\ UNCHANGED <<buf, wp, limit, written>> /\ WatchAgain(t)
    BY <1>6 DEF SinkWritable
  <2>2. OutbufTypeOK' /\ ~Writable' /\ ~error_status'
    <3>1. rp + n \in 0 .. wp
      BY <1>1, <1>4
    <3> QED
      BY <1>0, <1>2, <1>3, <1>6, <2>1, <3>1 DEF OutbufTypeOK, Writable
  <2>3. Output'
    BY <1>3, <1>4, <2>1, <2>2 DEF Output
  <2>4. /\ (Waits /\ outcome = "none")' \/ (Quiet /\ outcome = "thrown")'
        /\ callback' \in BOOLEAN
    BY <1>0, <1>2, <2>1, WatchingAgain
  <2> QED
    BY <1>2, <2>2, <2>3, <2>4 DEF OutState, Scheduled, CalledEmpty
<1> QED
  BY <1>5, <1>6

LEMMA OutbufStepsAreFine ==
  ASSUME OutState, OutbufNext
  PROVE  OutState' /\ CalledEmpty
<1> USE NbCallbacksAssumption
<1>0. /\ OutbufTypeOK /\ Output /\ Writable \in BOOLEAN /\ error_status \in BOOLEAN
      /\ Scheduled(Writable, error_status) /\ (error_status => Writable)
      /\ (callback => outcome = "none") /\ checker \in Checkers \cup {None}
      /\ Quiet \/ AtOnce \/ Waits
  BY DEF OutState, OutbufTypeOK, Output, Writable, Scheduled, Quiet, AtOnce, Waits
\* What an error leaves of the buffer.
<1>e. ASSUME EnterWritable, taken' = taken, error_status' = TRUE
      PROVE  OutbufTypeOK' /\ Output' /\ Writable' /\ Unsent' = <<>>
  <2>1. /\ taken \in Seq(Characters) /\ (\A i \in 1 .. Len(taken) : taken[i] = i)
        /\ Len(taken) <= written
    BY <1>0 DEF OutbufTypeOK, Output
  <2> QED
    BY <1>0, <1>e, <2>1, EmptyingIsFine
<1>1. ASSUME NEW n \in 1 .. BufSize, Write(n)
      PROVE  OutState' /\ CalledEmpty
  BY <1>0, <1>1, WritingIsFine DEF Write, CalledEmpty
<1>2. CASE StartFlush
  <2>1. OutbufTypeOK' /\ Output'
    BY <1>0, <1>2 DEF StartFlush, OutbufTypeOK, Output
  <2>2. Quiet /\ UNCHANGED callbackVars
    BY <1>0, <1>2 DEF StartFlush, Scheduled, AtOnce, Waits
  <2> QED
    BY <1>0, <2>1, <2>2 DEF OutState, Scheduled, Quiet, callbackVars, tickets, CalledEmpty
<1>3. CASE OutbufCalls
  <2>1. /\ OutbufTypeOK' /\ Output' /\ Writable' = Writable /\ error_status' = error_status
    BY <1>0, <1>3 DEF OutbufCalls, outData, OutbufTypeOK, Output, Writable
  <2>2. CASE \/ CallWhen(Writable) \/ CallWhenThrows \/ Cancel
             \/ EnableThroughputChecking \/ DisableThroughputChecking
    BY <1>0, <2>1, <2>2, UserCallsAreFine DEF OutState, Scheduled, CalledEmpty
  <2>3. ASSUME NEW t \in DOMAIN timers, OnAlreadyReady(t)
        PROVE  OutState' /\ CalledEmpty
    BY <1>0, <2>1, <2>3, AlarmAtOnce DEF OutState, Scheduled, CalledEmpty
  <2>4. CASE Tick
    BY <1>0, <2>1, <2>4, TimePassing DEF OutState, Scheduled, CalledEmpty
  <2> QED
    BY <1>3, <2>2, <2>3, <2>4 DEF OutbufCalls
<1>4. ASSUME NEW t \in watches, SinkFails(t)
      PROVE  OutState' /\ CalledEmpty
  <2>1. OutbufTypeOK' /\ Output' /\ Writable' /\ Unsent' = <<>>
    BY <1>4, <1>e DEF SinkFails
  <2>2. Quiet' /\ callback' \in BOOLEAN /\ outcome' = "called" /\ checker' = checker
    BY <1>0, <1>4, DoneQuiets DEF SinkFails
  <2> QED
    BY <1>0, <2>1, <2>2 DEF OutState, Scheduled, CalledEmpty
<1>5. ASSUME NEW t \in watches, NEW n \in 0 .. BufSize, SinkWritable(t, n)
      PROVE  OutState' /\ CalledEmpty
  BY <1>5, SinkWritableIsFine
<1>6. ASSUME NEW t \in DOMAIN timers, OutbufOnNextTick(t)
      PROVE  OutState' /\ CalledEmpty
  <2>1. /\ Waits /\ ~Writable /\ ~error_status /\ UNCHANGED taken
        /\ checker' = RecordTransfer(checker, 0) /\ checker' \in Checkers
        /\ error_status' = Failed(checker')
    BY <1>0, <1>6, TicksWait, CheckersStayCheckers DEF OutbufOnNextTick
  <2>2. CASE Failed(checker')
    <3>1. EnterWritable /\ TickFails(t) /\ error_status' = TRUE
      BY <1>6, <2>1, <2>2 DEF OutbufOnNextTick, Failed
    <3>2. OutbufTypeOK' /\ Output' /\ Writable' /\ Unsent' = <<>>
      BY <1>e, <2>1, <3>1
    <3>3. Quiet' /\ callback' \in BOOLEAN /\ outcome' = "called"
      BY <1>0, <3>1, TickFailing
    <3> QED
      BY <2>1, <3>2, <3>3 DEF OutState, Scheduled, CalledEmpty
  <2>3. CASE ~Failed(checker')
    <3>1. UNCHANGED <<buf, rp, wp, limit, written>> /\ NextTick(t) /\ error_status' = FALSE
      BY <1>6, <2>1, <2>3 DEF OutbufOnNextTick, Failed
    <3>2. OutbufTypeOK' /\ Output' /\ ~Writable'
      BY <1>0, <2>1, <3>1 DEF OutbufTypeOK, Output, Writable
    <3>3. /\ (Waits /\ outcome = "none")' \/ (Quiet /\ outcome = "thrown")'
          /\ callback' \in BOOLEAN
      BY <1>6, <2>1, <3>1, TickingOn
    <3> QED
      BY <2>1, <3>1, <3>2, <3>3 DEF OutState, Scheduled, CalledEmpty
  <2> QED
    BY <2>2, <2>3
<1> QED
  BY <1>1, <1>2, <1>3, <1>4, <1>5, <1>6 DEF OutbufNext

-----------------------------------------------------------------------------
(***************************************************************************)
(* Buffers of both directions.                                             *)
(***************************************************************************)
LEMMA InitIsFine == Init => Inv
<1> SUFFICES ASSUME Init
             PROVE  Inv
  OBVIOUS
<1> USE NbCallbacksAssumption
<1>0. /\ <<>> \in Seq(Characters)
      /\ Len(<<>>) = 0 /\ DOMAIN <<>> = {}
      /\ [i \in 1 .. BufSize |-> 0] \in [1 .. BufSize -> Characters]
  BY DEF Characters
<1>1. Quiet /\ checker = None /\ outcome = "none" /\ callback = FALSE
  BY <1>0 DEF Init, CallbacksInit, Quiet
<1>2. CASE direction = "in"
  <2>1. InbufTypeOK /\ Readable = FALSE
    <3>1. 0 \in 0 .. StreamLength /\ 0 \in 0 .. BufSize
      OBVIOUS
    <3>2. /\ buf = [i \in 1 .. BufSize |-> 0] /\ rp = 0 /\ ep = 0 /\ at_eof = FALSE
          /\ error_status = FALSE /\ sent = 0 /\ got = <<>>
      BY DEF Init, InbufInit
    <3> QED
      BY <1>0, <3>1, <3>2 DEF InbufTypeOK, Readable
  <2>2. Input
    BY <1>0 DEF Init, InbufInit, Input
  <2> QED
    BY <1>1, <1>2, <2>1, <2>2, InStateIs DEF InState, Scheduled
<1>3. CASE direction = "out"
  <2>1. OutbufTypeOK /\ Writable = TRUE
    <3>1. /\ 0 \in 0 .. StreamLength /\ 0 \in 0 .. BufSize /\ 0 \in 0 .. 0
          /\ BufSize \in 0 .. BufSize /\ BufSize # 0
      OBVIOUS
    <3>2. /\ buf = [i \in 1 .. BufSize |-> 0] /\ rp = 0 /\ wp = 0 /\ limit = BufSize
          /\ error_status = FALSE /\ written = 0 /\ taken = <<>>
      BY DEF Init, OutbufInit
    <3>3. written \in 0 .. StreamLength /\ taken \in Seq(Characters)
      BY <1>0, <3>1, <3>2
    <3>4. buf \in [1 .. BufSize -> Characters]
      BY <1>0, <3>2
    <3> QED
      BY <3>1, <3>2, <3>3, <3>4 DEF OutbufTypeOK, Writable
  <2>2. Output
    BY <1>0 DEF Init, OutbufInit, Output
  <2> QED
    BY <1>1, <1>3, <2>1, <2>2, OutStateIs DEF OutState, Scheduled
<1> QED
  BY <1>2, <1>3 DEF Init

Called ==
  (callback /\ outcome' = "called") =>
     IF direction = "in" THEN Readable'
     ELSE Writable' /\ (~Writable => Unsent' = <<>>)

LEMMA StepsAreFine ==
  ASSUME Inv, [Next]_vars
  PROVE  Inv' /\ (Called \/ UNCHANGED vars)
<1>1. CASE direction = "in" /\ InbufNext /\ UNCHANGED <<direction, outVars>>
  <2>1. InState' /\ (callback /\ outcome' = "called" => Readable')
    BY <1>1, InStateIs, InbufStepsAreFine
  <2>2. (direction = "in" => (Inv <=> InState))'
    BY InStateIs, PTL
  <2> QED
    BY <1>1, <2>1, <2>2 DEF Called
<1>2. CASE direction = "out" /\ OutbufNext /\ UNCHANGED <<direction, inVars>>
  <2>1. OutState' /\ CalledEmpty
    BY <1>2, OutStateIs, OutbufStepsAreFine
  <2>2. (direction = "out" => (Inv <=> OutState))'
    BY OutStateIs, PTL
  <2> QED
    BY <1>2, <2>1, <2>2 DEF Called, CalledEmpty
<1>3. CASE UNCHANGED vars
  <2>1. CASE direction = "in"
    <3>1. direction' = "in" /\ InState
      BY <1>3, <2>1, InStateIs DEF vars
    <3>2. InState'
      BY <1>3, <3>1
      DEF vars, callbackVars, tickets, inVars, InState, InbufTypeOK, Input, Readable, Scheduled,
          Quiet, AtOnce, Waits
    <3>3. (direction = "in" => (Inv <=> InState))'
      BY InStateIs, PTL
    <3> QED
      BY <1>3, <3>1, <3>2, <3>3
  <2>2. CASE direction = "out"
    <3>1. direction' = "out" /\ OutState
      BY <1>3, <2>2, OutStateIs DEF vars
    <3>2. OutState'
      BY <1>3, <3>1
      DEF vars, callbackVars, tickets, outVars, OutState, OutbufTypeOK, Output, Writable, Scheduled,
          Quiet, AtOnce, Waits
    <3>3. (direction = "out" => (Inv <=> OutState))'
      BY OutStateIs, PTL
    <3> QED
      BY <1>3, <3>1, <3>2, <3>3
  <2> QED
    BY <2>1, <2>2 DEF Inv
<1> QED
  BY <1>1, <1>2, <1>3 DEF Next

(***************************************************************************)
(* Whatever the user, the device, the scheduler and the clock do, and in   *)
(* whatever order: a call from the scheduler is always expected, what is   *)
(* registered is what is remembered, a pending callback has something that *)
(* will call it, and the characters are a stream.                          *)
(***************************************************************************)
THEOREM Invariance == Spec => []Inv
<1>1. Inv /\ [Next]_vars => Inv'
  BY StepsAreFine
<1> QED
  BY <1>1, InitIsFine, PTL DEF Spec

(***************************************************************************)
(* A callback is called when the buffer is ready, and one that waited for  *)
(* a full output buffer when it is empty.                                  *)
(***************************************************************************)
THEOREM CallsAreReady == Spec => CalledWhenReady
<1>1. Inv /\ [Next]_vars => [Called]_vars
  BY StepsAreFine
<1>2. Spec => [][Called]_vars
  BY <1>1, Invariance, PTL DEF Spec
<1> QED
  BY <1>2 DEF CalledWhenReady, Called

=============================================================================
