------------------------------ MODULE RpcProofs ------------------------------
(***************************************************************************)
(* Proofs about a connection.  What the two sides do to the tokens in      *)
(* flight is stated once (reading takes the first, writing adds a last,    *)
(* sending changes nothing, an error of an output buffer loses the last    *)
(* ones, and one of an input buffer leaves them unread), and then each     *)
(* part of the invariant is followed through the steps of both sides.      *)
(***************************************************************************)
EXTENDS Rpc, SequenceFacts

-----------------------------------------------------------------------------
(***************************************************************************)
(* Streams of tokens.                                                      *)
(***************************************************************************)
Network ==
  /\ outbuf \in [Sides -> Seq(Tokens)] /\ wire \in [Sides -> Seq(Tokens)]
  /\ error \subseteq Buffers

\* r is u without its first token; with one more; as far as it goes.
Taken(r, u)    == u # <<>> /\ Len(r) = Len(u) - 1 /\ \A i \in 1 .. Len(r) : r[i] = u[i + 1]
Added(r, u, t) == Len(r) = Len(u) + 1 /\ r[Len(r)] = t /\ \A i \in 1 .. Len(u) : r[i] = u[i]
Begins(r, u)   == Len(r) <= Len(u) /\ \A i \in 1 .. Len(r) : r[i] = u[i]

Stream(s) ==
  /\ Unread(s) \in Seq(Tokens) /\ Len(Unread(s)) \in Nat
  /\ DOMAIN Unread(s) = 1 .. Len(Unread(s))
  /\ \A i \in 1 .. Len(Unread(s)) : Unread(s)[i] \in Tokens
  /\ wire[s] \in Seq(Tokens) /\ Len(wire[s]) \in Nat /\ outbuf[s] \in Seq(Tokens)
  /\ Len(wire[s]) <= Len(Unread(s))
  /\ \A i \in 1 .. Len(wire[s]) : Unread(s)[i] = wire[s][i]
  /\ outbuf[s] = <<>> => Unread(s) = wire[s]
  /\ wire[s] # <<>> => Len(wire[s]) > 0 /\ Head(wire[s]) = Unread(s)[1]

Streams == Stream("client") /\ Stream("server")

LEMMA OneStream ==
  ASSUME NEW w \in Seq(Tokens), NEW o \in Seq(Tokens)
  PROVE  /\ w \o o \in Seq(Tokens) /\ Len(w \o o) = Len(w) + Len(o)
         /\ \A i \in 1 .. Len(w) : (w \o o)[i] = w[i]
         /\ \A i \in 1 .. Len(o) : (w \o o)[Len(w) + i] = o[i]
         /\ o = <<>> => w \o o = w
         /\ w # <<>> => Len(w) > 0 /\ Head(w) = (w \o o)[1]
<1>1. /\ w \o o \in Seq(Tokens) /\ Len(w \o o) = Len(w) + Len(o)
      /\ \A i \in 1 .. Len(w) + Len(o) : (w \o o)[i] = IF i <= Len(w) THEN w[i] ELSE o[i - Len(w)]
      /\ Len(w) \in Nat /\ Len(o) \in Nat
  BY ConcatProperties
<1>2. o = <<>> => w \o o = w
  BY ConcatEmptySeq
<1>3. w # <<>> => Len(w) > 0 /\ Head(w) = (w \o o)[1]
  <2>1. w # <<>> => Len(w) > 0 /\ Head(w) = w[1]
    OBVIOUS
  <2> QED
    BY <1>1, <2>1
<1> QED
  BY <1>1, <1>2, <1>3

LEMMA StreamsAre == Network => Streams
<1> SUFFICES ASSUME Network, NEW s \in Sides
             PROVE  Stream(s)
  BY DEF Streams, Sides
<1>1. wire[s] \in Seq(Tokens) /\ outbuf[s] \in Seq(Tokens)
  BY DEF Network
<1> DEFINE w == wire[s]
           o == outbuf[s]
<1>2. /\ w \o o \in Seq(Tokens) /\ Len(w \o o) = Len(w) + Len(o)
      /\ \A i \in 1 .. Len(w) : (w \o o)[i] = w[i]
      /\ o = <<>> => w \o o = w
      /\ w # <<>> => Len(w) > 0 /\ Head(w) = (w \o o)[1]
  BY <1>1, OneStream
<1>3. Unread(s) = w \o o
  BY DEF Unread
<1>4. Len(w) \in Nat /\ Len(o) \in Nat
  BY <1>1
<1> HIDE DEF w, o
<1>5. /\ Unread(s) \in Seq(Tokens) /\ Len(Unread(s)) \in Nat
      /\ DOMAIN Unread(s) = 1 .. Len(Unread(s))
      /\ \A i \in 1 .. Len(Unread(s)) : Unread(s)[i] \in Tokens
  BY <1>2, <1>3, <1>4
<1>6. /\ Len(w) <= Len(Unread(s))
      /\ \A i \in 1 .. Len(w) : Unread(s)[i] = w[i]
      /\ o = <<>> => Unread(s) = w
      /\ w # <<>> => Len(w) > 0 /\ Head(w) = Unread(s)[1]
  BY <1>2, <1>3, <1>4
<1> QED
  BY <1>1, <1>4, <1>5, <1>6 DEF Stream, w, o

LEMMA TailIsTaken ==
  ASSUME NEW w \in Seq(Tokens), NEW o \in Seq(Tokens), w # <<>>
  PROVE  /\ Tail(w) \in Seq(Tokens)
         /\ Taken(Tail(w), w)
         /\ Taken(Tail(w) \o o, w \o o)
<1>1. /\ Tail(w) \in Seq(Tokens) /\ Len(Tail(w)) = Len(w) - 1 /\ Len(w) > 0
      /\ \A i \in 1 .. Len(w) - 1 : Tail(w)[i] = w[i + 1]
      /\ Len(w) \in Nat /\ Len(o) \in Nat
  OBVIOUS
<1>2. /\ w \o o \in Seq(Tokens) /\ Len(w \o o) = Len(w) + Len(o)
      /\ \A i \in 1 .. Len(w) + Len(o) : (w \o o)[i] = IF i <= Len(w) THEN w[i] ELSE o[i - Len(w)]
  BY ConcatProperties
<1>3. /\ Tail(w) \o o \in Seq(Tokens) /\ Len(Tail(w) \o o) = Len(w) - 1 + Len(o)
      /\ \A i \in 1 .. Len(w) - 1 + Len(o) :
           (Tail(w) \o o)[i] = IF i <= Len(w) - 1 THEN Tail(w)[i] ELSE o[i - (Len(w) - 1)]
  BY <1>1, ConcatProperties
<1> DEFINE t == Tail(w)
           u == w \o o
           r == t \o o
<1>4. Len(r) = Len(u) - 1 /\ Len(u) > 0 /\ Len(u) \in Nat
  BY <1>1, <1>2, <1>3
<1>5. ASSUME NEW i \in 1 .. Len(r) PROVE r[i] = u[i + 1]
  <2>1. i \in 1 .. Len(w) - 1 + Len(o) /\ i + 1 \in 1 .. Len(w) + Len(o)
    BY <1>1, <1>2, <1>3
  <2>2. i - (Len(w) - 1) = i + 1 - Len(w)
    BY <1>1
  <2>3. CASE i <= Len(w) - 1
    BY <1>1, <1>2, <1>3, <2>1, <2>3
  <2>4. CASE ~(i <= Len(w) - 1)
    BY <1>1, <1>2, <1>3, <2>1, <2>2, <2>4
  <2> QED
    BY <2>3, <2>4
<1>6. u # <<>>
  BY <1>2, <1>4
<1> QED
  BY <1>1, <1>4, <1>5, <1>6 DEF Taken

LEMMA MovedIsKept ==
  ASSUME NEW w \in Seq(Tokens), NEW o \in Seq(Tokens), o # <<>>
  PROVE  /\ Append(w, Head(o)) \in Seq(Tokens) /\ Tail(o) \in Seq(Tokens)
         /\ Append(w, Head(o)) \o Tail(o) = w \o o
         /\ Added(Append(w, Head(o)), w, Head(o))
<1>1. /\ Head(o) \in Tokens /\ Tail(o) \in Seq(Tokens) /\ Head(o) = o[1]
      /\ Len(o) \in Nat /\ Len(o) > 0 /\ Len(w) \in Nat
      /\ Len(Tail(o)) = Len(o) - 1 /\ \A i \in 1 .. Len(o) - 1 : Tail(o)[i] = o[i + 1]
  OBVIOUS
<1>2. /\ Append(w, Head(o)) \in Seq(Tokens) /\ Len(Append(w, Head(o))) = Len(w) + 1
      /\ \A i \in 1 .. Len(w) : Append(w, Head(o))[i] = w[i]
      /\ Append(w, Head(o))[Len(w) + 1] = Head(o)
  BY <1>1
<1> DEFINE a == Append(w, Head(o))
           t == Tail(o)
<1>3. /\ w \o o \in Seq(Tokens) /\ Len(w \o o) = Len(w) + Len(o)
      /\ \A i \in 1 .. Len(w) + Len(o) : (w \o o)[i] = IF i <= Len(w) THEN w[i] ELSE o[i - Len(w)]
  BY ConcatProperties
<1>4. /\ a \o t \in Seq(Tokens) /\ Len(a \o t) = Len(a) + Len(t)
      /\ \A i \in 1 .. Len(a) + Len(t) : (a \o t)[i] = IF i <= Len(a) THEN a[i] ELSE t[i - Len(a)]
  BY <1>1, <1>2, ConcatProperties
<1>a. /\ Len(a) = Len(w) + 1 /\ Len(t) = Len(o) - 1 /\ a[Len(w) + 1] = o[1]
      /\ \A i \in 1 .. Len(w) : a[i] = w[i]
      /\ \A i \in 1 .. Len(o) - 1 : t[i] = o[i + 1]
  BY <1>1, <1>2
<1> HIDE DEF a, t
<1>5. ASSUME NEW i \in 1 .. Len(w) + Len(o) PROVE (a \o t)[i] = (w \o o)[i]
  <2>0. i \in 1 .. Len(a) + Len(t)
    BY <1>1, <1>a
  <2>1. CASE i <= Len(w)
    BY <1>1, <1>3, <1>4, <1>a, <2>0, <2>1
  <2>2. CASE i = Len(w) + 1
    <3>1. (a \o t)[i] = a[i]
      BY <1>1, <1>4, <1>a, <2>0, <2>2
    <3>2. (w \o o)[i] = o[i - Len(w)] /\ i - Len(w) = 1
      BY <1>1, <1>3, <2>2
    <3> QED
      BY <1>a, <2>2, <3>1, <3>2
  <2>3. CASE i > Len(w) + 1
    <3>1. (a \o t)[i] = t[i - Len(a)] /\ i - Len(a) \in 1 .. Len(o) - 1
      BY <1>1, <1>4, <1>a, <2>0, <2>3
    <3>2. (w \o o)[i] = o[i - Len(w)] /\ i - Len(a) + 1 = i - Len(w)
      BY <1>1, <1>3, <1>a, <2>3
    <3> QED
      BY <1>a, <3>1, <3>2
  <2>4. i <= Len(w) \/ i = Len(w) + 1 \/ i > Len(w) + 1
    BY <1>1
  <2> QED
    BY <2>1, <2>2, <2>3, <2>4
<1>6. Len(a \o t) = Len(w \o o)
  BY <1>1, <1>3, <1>4, <1>a
<1>7. a \o t = w \o o
  BY <1>3, <1>4, <1>5, <1>6, SeqEqual
<1> QED
  BY <1>1, <1>2, <1>7 DEF a, t, Added

LEMMA AddedIsLast ==
  ASSUME NEW w \in Seq(Tokens), NEW o \in Seq(Tokens), NEW t \in Tokens
  PROVE  /\ Append(o, t) \in Seq(Tokens)
         /\ Added(w \o Append(o, t), w \o o, t)
<1>1. /\ Append(o, t) \in Seq(Tokens) /\ Len(Append(o, t)) = Len(o) + 1
      /\ \A i \in 1 .. Len(o) : Append(o, t)[i] = o[i]
      /\ Append(o, t)[Len(o) + 1] = t
      /\ Len(w) \in Nat /\ Len(o) \in Nat
  OBVIOUS
<1> DEFINE a == Append(o, t)
<1> HIDE DEF a
<1>2. /\ w \o o \in Seq(Tokens) /\ Len(w \o o) = Len(w) + Len(o)
      /\ \A i \in 1 .. Len(w) + Len(o) : (w \o o)[i] = IF i <= Len(w) THEN w[i] ELSE o[i - Len(w)]
  BY ConcatProperties
<1>3. /\ w \o a \in Seq(Tokens) /\ Len(w \o a) = Len(w) + Len(a)
      /\ \A i \in 1 .. Len(w) + Len(a) : (w \o a)[i] = IF i <= Len(w) THEN w[i] ELSE a[i - Len(w)]
  BY <1>1, ConcatProperties DEF a
<1>4. Len(a) = Len(o) + 1 /\ a[Len(o) + 1] = t /\ \A i \in 1 .. Len(o) : a[i] = o[i]
  BY <1>1 DEF a
<1>5. (w \o a)[Len(w) + Len(o) + 1] = t
  <2>1. Len(w) + Len(o) + 1 \in 1 .. Len(w) + Len(a)
    BY <1>1, <1>4
  <2>2. ~(Len(w) + Len(o) + 1 <= Len(w)) /\ Len(w) + Len(o) + 1 - Len(w) = Len(o) + 1
    BY <1>1
  <2> QED
    BY <1>3, <1>4, <2>1, <2>2
<1>6. ASSUME NEW i \in 1 .. Len(w) + Len(o) PROVE (w \o a)[i] = (w \o o)[i]
  <2>1. i \in 1 .. Len(w) + Len(a)
    BY <1>1, <1>4
  <2>2. CASE i <= Len(w)
    BY <1>2, <1>3, <2>1, <2>2
  <2>3. CASE ~(i <= Len(w))
    <3>1. i - Len(w) \in 1 .. Len(o)
      BY <1>1, <2>3
    <3> QED
      BY <1>2, <1>3, <1>4, <2>1, <2>3, <3>1
  <2> QED
    BY <2>2, <2>3
<1>7. Added(w \o a, w \o o, t)
  BY <1>1, <1>2, <1>3, <1>4, <1>5, <1>6 DEF Added
<1> QED
  BY <1>1, <1>7 DEF a

-----------------------------------------------------------------------------
(***************************************************************************)
(* What an operation on the network does to the two streams.               *)
(***************************************************************************)
Alike(s) == Unread(s)' = Unread(s) /\ wire'[s] = wire[s] /\ outbuf'[s] = outbuf[s]

LEMMA NothingMoves ==
  UNCHANGED <<wire, outbuf>> => Alike("client") /\ Alike("server")
BY DEF Alike, Unread

LEMMA KnownPeers ==
  /\ Peer("client") = "server" /\ Peer("server") = "client"
  /\ Sides = {"client", "server"}
BY DEF Peer, Sides

(***************************************************************************)
(* Looking at the next token.                                              *)
(***************************************************************************)
LEMMA NextToken ==
  ASSUME Network, NEW s \in Sides
  PROVE  /\ Peek(s) = Eof <=> PeekKind(s) = "eof"
         /\ Peek(s) = Eof <=> (<<s, "inbuf">> \in error \/ wire[Peer(s)] = <<>>)
         /\ Peek(s) # Eof =>
              /\ <<s, "inbuf">> \notin error /\ wire[Peer(s)] # <<>> /\ Len(Unread(Peer(s))) > 0
              /\ Peek(s) = Unread(Peer(s))[1] /\ Peek(s) = Head(wire[Peer(s)])
              /\ Peek(s) \in Tokens /\ PeekKind(s) \in Kinds
<1>1. Peer(s) \in Sides /\ Stream(Peer(s))
  BY StreamsAre, KnownPeers DEF Streams
<1>2. CASE <<s, "inbuf">> \in error \/ wire[Peer(s)] = <<>>
  BY <1>2 DEF Peek, PeekKind, Eof
<1>3. CASE ~(<<s, "inbuf">> \in error \/ wire[Peer(s)] = <<>>)
  <2>1. Peek(s) = Head(wire[Peer(s)])
    BY <1>3 DEF Peek
  <2>2. /\ Len(wire[Peer(s)]) > 0 /\ Head(wire[Peer(s)]) = Unread(Peer(s))[1]
        /\ Len(wire[Peer(s)]) <= Len(Unread(Peer(s)))
        /\ Len(Unread(Peer(s))) \in Nat /\ Len(wire[Peer(s)]) \in Nat
        /\ \A i \in 1 .. Len(Unread(Peer(s))) : Unread(Peer(s))[i] \in Tokens
    BY <1>1, <1>3 DEF Stream
  <2>3. Len(Unread(Peer(s))) > 0 /\ 1 \in 1 .. Len(Unread(Peer(s)))
    BY <2>2
  <2>4. Peek(s) \in Tokens
    BY <2>1, <2>2, <2>3
  <2>5. PeekKind(s) \in Kinds
    BY <2>4 DEF PeekKind, Tokens
  <2>6. PeekKind(s) # "eof" /\ Peek(s) # Eof
    BY <2>5 DEF PeekKind, Kinds, Eof
  <2> QED
    BY <1>3, <2>1, <2>2, <2>3, <2>4, <2>5, <2>6
<1> QED
  BY <1>2, <1>3

\* Reading takes the first token.
LEMMA SkipTakes ==
  ASSUME Network, NEW s \in Sides, Skip(s), UNCHANGED outbuf
  PROVE  /\ wire' \in [Sides -> Seq(Tokens)] /\ Alike(s)
         /\ Peek(s) = Eof => wire' = wire /\ Alike(Peer(s))
         /\ Peek(s) # Eof =>
              /\ Taken(Unread(Peer(s))', Unread(Peer(s)))
              /\ Taken(wire'[Peer(s)], wire[Peer(s)])
<1>1. Peer(s) \in Sides /\ Peer(s) # s
  BY KnownPeers
<1>2. CASE Peek(s) = Eof
  <2>1. wire' = wire
    BY <1>2 DEF Skip
  <2> QED
    BY <1>2, <2>1 DEF Alike, Unread, Network
<1>3. CASE Peek(s) # Eof
  <2> DEFINE w == wire[Peer(s)]
             o == outbuf[Peer(s)]
  <2>1. w \in Seq(Tokens) /\ o \in Seq(Tokens) /\ w # <<>>
    BY <1>1, <1>3, NextToken DEF Network
  <2>2. wire' = [wire EXCEPT ![Peer(s)] = Tail(w)]
    BY <1>3 DEF Skip
  <2>3. Tail(w) \in Seq(Tokens) /\ Taken(Tail(w), w) /\ Taken(Tail(w) \o o, w \o o)
    <3> HIDE DEF w, o
    <3> QED
      BY <2>1, TailIsTaken
  <2>4. wire'[Peer(s)] = Tail(w) /\ wire'[s] = wire[s] /\ wire' \in [Sides -> Seq(Tokens)]
    BY <1>1, <2>2, <2>3 DEF Network
  <2>5. Unread(Peer(s))' = Tail(w) \o o /\ Unread(Peer(s)) = w \o o /\ Unread(s)' = Unread(s)
    BY <2>4 DEF Unread
  <2>6. Alike(s)
    BY <2>4, <2>5 DEF Alike
  <2> QED
    BY <1>3, <2>3, <2>4, <2>5, <2>6
<1> QED
  BY <1>2, <1>3

\* Writing adds a last token, or, after an error, nothing.
LEMMA PutAdds ==
  ASSUME Network, NEW s \in Sides, NEW k \in Kinds, NEW n \in 1 .. MaxCalls,
         CanPut(s), Put(s, k, n), UNCHANGED wire
  PROVE  /\ outbuf' \in [Sides -> Seq(Tokens)] /\ Alike(Peer(s)) /\ wire'[s] = wire[s]
         /\ <<s, "outbuf">> \in error => outbuf' = outbuf /\ Alike(s)
         /\ <<s, "outbuf">> \notin error =>
              /\ Len(outbuf'[s]) <= OutbufSize
              /\ Added(Unread(s)', Unread(s), [kind |-> k, call |-> n])
<1>1. Peer(s) \in Sides /\ Peer(s) # s
  BY KnownPeers
<1>2. CASE <<s, "outbuf">> \in error
  <2>1. outbuf' = outbuf
    BY <1>2 DEF Put
  <2> QED
    BY <1>2, <2>1 DEF Alike, Unread, Network
<1>3. CASE <<s, "outbuf">> \notin error
  <2> DEFINE w == wire[s]
             o == outbuf[s]
             t == [kind |-> k, call |-> n]
  <2>1. w \in Seq(Tokens) /\ o \in Seq(Tokens) /\ t \in Tokens /\ OutbufSize \in Nat
    BY RpcAssumption DEF Network, Tokens
  <2>2. outbuf' = [outbuf EXCEPT ![s] = Append(o, t)]
    BY <1>3 DEF Put
  <2>3. Append(o, t) \in Seq(Tokens) /\ Added(w \o Append(o, t), w \o o, t)
    <3> HIDE DEF w, o, t
    <3> QED
      BY <2>1, AddedIsLast
  <2>4. /\ outbuf'[s] = Append(o, t) /\ outbuf'[Peer(s)] = outbuf[Peer(s)]
        /\ outbuf' \in [Sides -> Seq(Tokens)]
    BY <1>1, <2>2, <2>3 DEF Network
  <2>5. Unread(s)' = w \o Append(o, t) /\ Unread(s) = w \o o /\ Unread(Peer(s))' = Unread(Peer(s))
    BY <2>4 DEF Unread
  <2>6. Alike(Peer(s))
    BY <2>4, <2>5 DEF Alike
  <2>7. Len(o) < OutbufSize /\ Len(Append(o, t)) = Len(o) + 1 /\ Len(o) \in Nat
    BY <1>3, <2>1 DEF CanPut
  <2>8. Len(outbuf'[s]) <= OutbufSize
    BY <2>1, <2>4, <2>7
  <2> QED
    BY <1>3, <2>3, <2>4, <2>5, <2>6, <2>8
<1> QED
  BY <1>2, <1>3

\* Sending moves a token within a stream.
LEMMA SendKeeps ==
  ASSUME Network, NEW s \in Sides, Send(s)
  PROVE  /\ wire' \in [Sides -> Seq(Tokens)] /\ outbuf' \in [Sides -> Seq(Tokens)]
         /\ Alike(Peer(s)) /\ Unread(s)' = Unread(s)
         /\ Len(wire[s]) < WireSize /\ outbuf[s] # <<>> /\ <<s, "outbuf">> \notin error
         /\ Added(wire'[s], wire[s], Head(outbuf[s]))
         /\ Len(outbuf'[s]) = Len(outbuf[s]) - 1
<1>1. Peer(s) \in Sides /\ Peer(s) # s
  BY KnownPeers
<1> DEFINE w == wire[s]
           o == outbuf[s]
<1>2. w \in Seq(Tokens) /\ o \in Seq(Tokens) /\ o # <<>>
  BY DEF Network, Send, Sending
<1>3. /\ wire' = [wire EXCEPT ![s] = Append(w, Head(o))]
      /\ outbuf' = [outbuf EXCEPT ![s] = Tail(o)]
      /\ Len(wire[s]) < WireSize /\ <<s, "outbuf">> \notin error
  BY DEF Send
<1>4. /\ Append(w, Head(o)) \in Seq(Tokens) /\ Tail(o) \in Seq(Tokens)
      /\ Append(w, Head(o)) \o Tail(o) = w \o o
      /\ Added(Append(w, Head(o)), w, Head(o))
  <2> HIDE DEF w, o
  <2> QED
    BY <1>2, MovedIsKept
<1>5. /\ wire'[s] = Append(w, Head(o)) /\ wire'[Peer(s)] = wire[Peer(s)]
      /\ outbuf'[s] = Tail(o) /\ outbuf'[Peer(s)] = outbuf[Peer(s)]
      /\ wire' \in [Sides -> Seq(Tokens)] /\ outbuf' \in [Sides -> Seq(Tokens)]
  BY <1>1, <1>3, <1>4 DEF Network
<1>6. Unread(s)' = Append(w, Head(o)) \o Tail(o) /\ Unread(s) = w \o o /\ Alike(Peer(s))
  BY <1>5 DEF Unread, Alike
<1>7. Len(Tail(o)) = Len(o) - 1
  BY <1>2
<1> QED
  BY <1>2, <1>3, <1>4, <1>5, <1>6, <1>7

\* An error of an input buffer moves nothing, and that of an output buffer
\* loses what has not been sent.
LEMMA ErrorCuts ==
  ASSUME Network, NEW s \in Sides, IoError(s)
  PROVE  /\ UNCHANGED <<client, server, wire, closed>> /\ error \subseteq error'
         /\ error' \subseteq Buffers /\ flushing' \subseteq flushing
         /\ outbuf' \in [Sides -> Seq(Tokens)] /\ outbuf'[s] \in {outbuf[s], <<>>}
         /\ \A q \in Sides : <<q, "outbuf">> \in error' =>
              <<q, "outbuf">> \in error \/ (q = s /\ outbuf'[q] = <<>>)
         /\ Alike(Peer(s)) /\ Begins(Unread(s)', Unread(s)) /\ Len(wire[s]) <= Len(Unread(s)')
         /\ outbuf[s] = <<>> => Unread(s)' = Unread(s)
         /\ Unread(s)' = Unread(s) \/ <<s, "outbuf">> \in error'
<1>1. Peer(s) \in Sides /\ Peer(s) # s /\ Stream(s)
  BY KnownPeers, StreamsAre DEF Streams
<1>2. /\ Len(Unread(s)) \in Nat /\ Len(wire[s]) \in Nat /\ Len(wire[s]) <= Len(Unread(s))
  BY <1>1 DEF Stream
<1>3. CASE InputFails(s)
  <2>1. /\ UNCHANGED <<client, server, wire, closed, outbuf, flushing>>
        /\ error' = error \cup {<<s, "inbuf">>}
    BY <1>3 DEF InputFails
  <2>2. Unread(s)' = Unread(s) /\ Alike(Peer(s))
    BY <2>1 DEF Unread, Alike
  <2>3. Begins(Unread(s)', Unread(s)) /\ Len(wire[s]) <= Len(Unread(s)')
    BY <1>2, <2>2 DEF Begins
  <2>4. error' \subseteq Buffers /\ outbuf \in [Sides -> Seq(Tokens)]
    BY <2>1 DEF Network, Buffers
  <2>5. \A q \in Sides : <<q, "outbuf">> \in error' => <<q, "outbuf">> \in error
    BY <2>1
  <2> QED
    BY <2>1, <2>2, <2>3, <2>4, <2>5
<1>4. CASE OutputFails(s)
  <2>1. /\ UNCHANGED <<client, server, wire, closed>> /\ flushing' = flushing \ {s}
        /\ error' = error \cup {<<s, "outbuf">>} /\ outbuf' = [outbuf EXCEPT ![s] = <<>>]
    BY <1>4 DEF OutputFails
  <2>2. <<>> \in Seq(Tokens)
    OBVIOUS
  <2>3. /\ outbuf' \in [Sides -> Seq(Tokens)]
        /\ outbuf'[s] = <<>> /\ outbuf'[Peer(s)] = outbuf[Peer(s)]
    BY <1>1, <2>1, <2>2 DEF Network
  <2>4. Unread(s)' = wire[s] \o <<>> /\ Alike(Peer(s))
    BY <2>1, <2>3 DEF Unread, Alike
  <2>5. wire[s] \o <<>> = wire[s]
    <3>1. wire[s] \in Seq(Tokens)
      BY DEF Network
    <3> QED
      BY <3>1, ConcatEmptySeq
  <2>6. Begins(Unread(s)', Unread(s)) /\ (outbuf[s] = <<>> => Unread(s)' = Unread(s))
    BY <1>1, <2>4, <2>5 DEF Begins, Stream
  <2>7. Len(wire[s]) <= Len(Unread(s)')
    BY <1>2, <2>4, <2>5
  <2>8. error' \subseteq Buffers
    BY <2>1 DEF Network, Buffers
  <2>9. \A q \in Sides : <<q, "outbuf">> \in error' => <<q, "outbuf">> \in error \/ q = s
    BY <2>1
  <2> QED
    BY <2>1, <2>3, <2>4, <2>6, <2>7, <2>8, <2>9
<1> QED
  BY <1>3, <1>4 DEF IoError

-----------------------------------------------------------------------------
(***************************************************************************)
(* Types.                                                                  *)
(***************************************************************************)
ClientTypeOK ==
  /\ call \in 0 .. MaxCalls
  /\ input_state \in InputStates /\ output_state \in OutputStates /\ ex \in BOOLEAN
  /\ n_read \in 0 .. NValues /\ n_written \in 0 .. NArgs + 1
  /\ result \in {"none", "ok", "failed"}

ServerTypeOK ==
  /\ state \in HandlerStates /\ op \in Ops
  /\ n_args \in 0 .. NArgs /\ n_values \in 0 .. NValues + 1
  /\ served \in 0 .. MaxCalls
  /\ succeeded \in Seq(1 .. MaxCalls)

NetworkTypeOK ==
  /\ outbuf \in [Sides -> Seq(Tokens)] /\ \A s \in Sides : Len(outbuf[s]) <= OutbufSize
  /\ wire \in [Sides -> Seq(Tokens)] /\ \A s \in Sides : Len(wire[s]) <= WireSize
  /\ flushing \subseteq Sides /\ error \subseteq Buffers /\ closed \subseteq Sides

LEMMA ThreeTypes == TypeOK <=> ClientTypeOK /\ ServerTypeOK /\ NetworkTypeOK
BY DEF TypeOK, ClientTypeOK, ServerTypeOK, NetworkTypeOK

LEMMA TypedNetwork == TypeOK => NetworkTypeOK /\ Network
BY DEF TypeOK, NetworkTypeOK, Network

LEMMA SkipIsTyped ==
  ASSUME TypeOK, NEW s \in Sides, Skip(s), UNCHANGED outbuf
  PROVE  wire' \in [Sides -> Seq(Tokens)] /\ \A q \in Sides : Len(wire'[q]) <= WireSize
<1>1. Network /\ NetworkTypeOK /\ WireSize \in Nat
  BY TypedNetwork, RpcAssumption
<1>2. /\ wire' \in [Sides -> Seq(Tokens)] /\ wire'[s] = wire[s]
      /\ wire' = wire \/ Len(wire'[Peer(s)]) = Len(wire[Peer(s)]) - 1
  BY <1>1, SkipTakes DEF Alike, Taken
<1>3. Peer(s) \in Sides /\ Sides = {s, Peer(s)}
  BY KnownPeers
<1>4. Len(wire[Peer(s)]) \in Nat /\ Len(wire[Peer(s)]) <= WireSize /\ Len(wire[s]) <= WireSize
  BY <1>1, <1>3 DEF NetworkTypeOK
<1>5. Len(wire'[Peer(s)]) <= WireSize
  BY <1>1, <1>2, <1>4
<1> QED
  BY <1>2, <1>3, <1>4, <1>5

LEMMA PutIsTyped ==
  ASSUME TypeOK, NEW s \in Sides, NEW k \in Kinds, NEW n \in 1 .. MaxCalls,
         CanPut(s), Put(s, k, n), UNCHANGED wire
  PROVE  outbuf' \in [Sides -> Seq(Tokens)] /\ \A q \in Sides : Len(outbuf'[q]) <= OutbufSize
<1>1. Network /\ NetworkTypeOK
  BY TypedNetwork
<1>2. /\ outbuf' \in [Sides -> Seq(Tokens)] /\ outbuf'[Peer(s)] = outbuf[Peer(s)]
      /\ outbuf' = outbuf \/ Len(outbuf'[s]) <= OutbufSize
  BY <1>1, PutAdds DEF Alike
<1>3. Peer(s) \in Sides /\ Sides = {s, Peer(s)}
  BY KnownPeers
<1> QED
  BY <1>1, <1>2, <1>3 DEF NetworkTypeOK

\* What a handler's method reads are arguments of the current call.
LEMMA ArgumentsAreWritten ==
  ASSUME Inv, state = "method_runner", PeekKind("server") = "arg"
  PROVE  n_args < NArgs
<1>1. Network /\ Stream("client") /\ PeekKind("server") # "eof"
  BY TypedNetwork, StreamsAre DEF Inv, Streams
<1>2. /\ Len(Unread("client")) > 0 /\ Unread("client")[1].kind = "arg"
  BY <1>1, NextToken, KnownPeers DEF PeekKind
<1>3. served = call /\ Serving /\ n_args \in Nat /\ n_written \in 0 .. NArgs + 1 /\ NArgs \in Nat
  <2>1. ServerFits /\ TypeOK
    BY DEF Inv
  <2>2. served = call /\ Serving
    BY <2>1 DEF ServerFits, Serving, Replied
  <2>3. n_args \in Nat /\ n_written \in 0 .. NArgs + 1 /\ NArgs \in Nat
    BY <2>1, RpcAssumption DEF TypeOK
  <2> QED
    BY <2>2, <2>3
<1>r. RequestFits
  BY DEF Inv
<1>4. PICK n \in -(NArgs + 2) .. Len(Unread("client")) : RequestAfter(n)
  BY <1>3, <1>r DEF RequestFits
<1>5. n = -(1 + n_args)
  <2>1. served = call /\ state \in {"method_runner", "eom_checker"} => n = -(1 + n_args)
    BY <1>4 DEF RequestAfter
  <2> QED
    BY <1>3, <2>1
<1>6. Unread("client")[1] = RequestToken(1 - n)
  <2>1. DOMAIN Unread("client") = 1 .. Len(Unread("client")) /\ Len(Unread("client")) \in Nat
    BY <1>1 DEF Stream
  <2>2. 1 \in 1 .. Len(Unread("client"))
    BY <1>2, <2>1
  <2>3. 1 > n
    BY <1>3, <1>5
  <2> QED
    BY <1>4, <2>1, <2>2, <2>3 DEF RequestAfter
<1>7. 1 - n <= n_written
  <2>1. 1 - n > n_written => Unread("client")[1].kind = "eom"
    BY <1>6 DEF RequestToken
  <2> QED
    BY <1>2, <1>3, <1>5, <2>1
<1> QED
  BY <1>3, <1>5, <1>7

LEMMA ClientTypesStep ==
  ASSUME Inv, Next
  PROVE  ClientTypeOK'
<1> USE RpcAssumption
    DEF ClientTypeOK, InputStates, OutputStates, SkipInput, SkipOutput, DoneIf, OnDone
<1>t. ClientTypeOK
  BY ThreeTypes DEF Inv
<1>0. CASE UNCHANGED client
  BY <1>t, <1>0 DEF client
<1>1. CASE Start
  <2>1. /\ call \in 0 .. MaxCalls /\ call < MaxCalls /\ call' = call + 1
        /\ input_state' = "reading_reply" /\ output_state' = "output_not_started" /\ ex' = FALSE
        /\ n_read' = 0 /\ n_written' = 0 /\ result' = "none"
    BY <1>t, <1>1 DEF Start
  <2>2. call' \in 0 .. MaxCalls /\ 0 \in 0 .. NValues /\ 0 \in 0 .. NArgs + 1
    BY <2>1
  <2> QED
    BY <2>1, <2>2
<1>2. CASE StartRequest
  BY <1>t, <1>2 DEF StartRequest
<1>3. CASE ReadValue
  BY <1>t, <1>3 DEF ReadValue
<1>4. CASE OnReplyRead
  BY <1>t, <1>4 DEF OnReplyRead
<1>5. CASE OnReplyError
  BY <1>t, <1>5 DEF OnReplyError
<1>6. CASE DrainMessage
  BY <1>t, <1>6 DEF DrainMessage
<1>7. CASE WriteRequest
  BY <1>t, <1>7 DEF WriteRequest
<1>8. CASE OnRequestWritten
  BY <1>t, <1>8 DEF OnRequestWritten
<1>9. CASE OnRequestError
  BY <1>t, <1>9 DEF OnRequestError
<1>10. CASE WriteEom
  BY <1>t, <1>10 DEF WriteEom
<1>11. CASE OnEomWritten
  BY <1>t, <1>11 DEF OnEomWritten
<1>12. CASE ServerStep \/ Interrupt \/ \E s \in Sides : Send(s) \/ IoError(s)
  <2>1. UNCHANGED client
    BY <1>12 DEF ServerStep, StartHandler, DropClient, StartMethod, OnMethodReaderFailure,
       MethodReads, MethodWrites, OnMethodSucceeded, OnMethodFailure, CheckEom, WriteException,
       WriteReplyEom, OnReplyEomWritten, DrainRequest, Interrupt, Send, IoError, InputFails, OutputFails
  <2> QED
    BY <1>0, <2>1
<1> QED
  BY <1>1, <1>2, <1>3, <1>4, <1>5, <1>6, <1>7, <1>8, <1>9, <1>10, <1>11, <1>12
     DEF Next, ClientInput, ClientOutput

LEMMA ServerTypesStep ==
  ASSUME Inv, Next
  PROVE  ServerTypeOK'
<1> USE RpcAssumption DEF ServerTypeOK, HandlerStates, Ops, GoTo, ReportFailure, NextOp
<1>t. ServerTypeOK /\ Network
  BY ThreeTypes, TypedNetwork DEF Inv
<1>0. CASE UNCHANGED server
  BY <1>t, <1>0 DEF server
<1>1. CASE StartHandler
  <2>1. Peek("server").call \in 1 .. MaxCalls
    BY <1>1, <1>t, NextToken DEF StartHandler, Tokens, Sides
  <2>2. 0 \in 0 .. NArgs /\ 0 \in 0 .. NValues + 1 /\ 1 .. MaxCalls \subseteq 0 .. MaxCalls
    OBVIOUS
  <2>3. /\ state' = "method_reader" /\ n_args' = 0 /\ n_values' = 0
        /\ served' = Peek("server").call /\ op' = op /\ succeeded' = succeeded
    BY <1>1 DEF StartHandler
  <2> QED
    BY <1>t, <2>1, <2>2, <2>3
<1>2. CASE DropClient
  BY <1>0, <1>2 DEF DropClient
<1>3. CASE StartMethod
  BY <1>t, <1>3 DEF StartMethod
<1>4. CASE OnMethodReaderFailure \/ OnMethodFailure
  BY <1>t, <1>4 DEF OnMethodReaderFailure, OnMethodFailure
<1>5. CASE MethodReads
  <2>1. CASE PeekKind("server") = "arg"
    <3>1. n_args + 1 \in 0 .. NArgs
      BY <1>5, <1>t, <2>1, ArgumentsAreWritten DEF MethodReads
    <3>2. n_args' = n_args + 1 /\ op' \in Ops /\ UNCHANGED <<state, n_values, served, succeeded>>
      BY <1>5, <2>1 DEF MethodReads
    <3> QED
      BY <1>t, <3>1, <3>2
  <2>2. CASE PeekKind("server") # "arg"
    BY <1>5, <1>t, <2>2 DEF MethodReads
  <2> QED
    BY <2>1, <2>2
<1>6. CASE MethodWrites
  <2>1. n_values + 1 \in 0 .. NValues + 1
    BY <1>6, <1>t DEF MethodWrites, Inv, ServerFits
  <2>2. n_values' = n_values + 1 /\ op' \in Ops /\ UNCHANGED <<state, n_args, served, succeeded>>
    BY <1>6 DEF MethodWrites
  <2> QED
    BY <1>t, <2>1, <2>2
<1>7. CASE OnMethodSucceeded
  <2>1. /\ succeeded' = Append(succeeded, served) /\ state' = "eom_checker"
        /\ UNCHANGED <<op, n_args, n_values, served>> /\ state # "idle"
    BY <1>7 DEF OnMethodSucceeded
  <2>2. served \in 1 .. MaxCalls
    BY <1>t, <2>1 DEF Inv, ServerFits
  <2>3. succeeded' \in Seq(1 .. MaxCalls)
    <3>1. succeeded \in Seq(1 .. MaxCalls)
      BY <1>t
    <3> QED
      BY <2>1, <2>2, <3>1
  <2> QED
    BY <1>t, <2>1, <2>3
<1>8. CASE CheckEom \/ OnReplyEomWritten
  BY <1>t, <1>8 DEF CheckEom, OnReplyEomWritten
<1>9. CASE WriteException \/ WriteReplyEom
  BY <1>t, <1>9 DEF WriteException, WriteReplyEom
<1>10. CASE DrainRequest
  BY <1>t, <1>10 DEF DrainRequest, server
<1>11. CASE Interrupt
  BY <1>t, <1>11 DEF Interrupt
<1>12. CASE ClientInput \/ ClientOutput \/ OnRequestError \/ \E s \in Sides : Send(s) \/ IoError(s)
  <2>1. UNCHANGED server
    BY <1>12 DEF ClientInput, ClientOutput, StartRequest, ReadValue, OnReplyRead,
       OnReplyError, DrainMessage, WriteRequest, OnRequestWritten, OnRequestError, WriteEom,
       OnEomWritten, Send, IoError, InputFails, OutputFails
  <2> QED
    BY <1>0, <2>1
<1>13. CASE Start
  <2>1. /\ op' \in {op, "succeed"} /\ n_args' \in {n_args, 0} /\ n_values' \in {n_values, 0}
        /\ UNCHANGED <<state, served, succeeded>>
    BY <1>13 DEF Start
  <2> QED
    BY <1>t, <2>1, RpcAssumption DEF Ops
<1> QED
  BY <1>1, <1>2, <1>3, <1>4, <1>5, <1>6, <1>7, <1>8, <1>9, <1>10, <1>11, <1>12, <1>13
     DEF Next, ServerStep

LEMMA NetworkTypesStep ==
  ASSUME Inv, Next
  PROVE  NetworkTypeOK'
<1> USE RpcAssumption DEF NetworkTypeOK, GoTo, ReportFailure, DoneIf, OnDone
<1>t. NetworkTypeOK /\ Network /\ TypeOK /\ {"client", "server"} \subseteq Sides
  BY TypedNetwork DEF Inv, Sides
<1>0. CASE UNCHANGED network
  BY <1>t, <1>0 DEF network
<1>s. ASSUME NEW s \in Sides, Skip(s),
             UNCHANGED <<outbuf, flushing, error>>, closed' \subseteq Sides
      PROVE  NetworkTypeOK'
  <2>1. wire' \in [Sides -> Seq(Tokens)] /\ \A q \in Sides : Len(wire'[q]) <= WireSize
    BY <1>t, <1>s, SkipIsTyped
  <2> QED
    BY <1>t, <1>s, <2>1
<1>p. ASSUME NEW s \in Sides, NEW k \in Kinds, NEW n \in 1 .. MaxCalls, CanPut(s), Put(s, k, n),
             UNCHANGED <<wire, error, closed>>, flushing' \subseteq Sides
      PROVE  NetworkTypeOK'
  <2>1. outbuf' \in [Sides -> Seq(Tokens)] /\ \A q \in Sides : Len(outbuf'[q]) <= OutbufSize
    BY <1>t, <1>p, PutIsTyped
  <2> QED
    BY <1>t, <1>p, <2>1
<1>n. output_state # "output_done" => call \in 1 .. MaxCalls
  BY <1>t DEF Inv, ClientFits, TypeOK
<1>m. state # "idle" => served \in 1 .. MaxCalls
  BY <1>t DEF Inv, ServerFits, TypeOK
<1>1. CASE Start
  <2>1. CASE result = "failed"
    <3>1. /\ outbuf' = [s \in Sides |-> <<>>] /\ wire' = [s \in Sides |-> <<>>]
          /\ flushing' = {} /\ error' = {} /\ closed' = {}
      BY <1>1, <2>1 DEF Start
    <3>2. <<>> \in Seq(Tokens) /\ Len(<<>>) = 0 /\ 0 <= OutbufSize /\ 0 <= WireSize
      OBVIOUS
    <3> QED
      BY <3>1, <3>2
  <2>2. CASE result # "failed"
    BY <1>0, <1>1, <2>2 DEF Start
  <2> QED
    BY <2>1, <2>2
<1>2. CASE StartRequest \/ OnReplyRead \/ OnRequestWritten \/ OnRequestError
  BY <1>0, <1>2 DEF StartRequest, OnReplyRead, OnRequestWritten, OnRequestError
<1>3. CASE ReadValue
  BY <1>3, <1>s, <1>t DEF ReadValue
<1>4. CASE OnReplyError
  <2>1. Skip("client") \/ UNCHANGED wire
    BY <1>4 DEF OnReplyError
  <2>2. UNCHANGED <<outbuf, flushing, error, closed>>
    BY <1>4 DEF OnReplyError
  <2> QED
    BY <1>0, <1>s, <1>t, <2>1, <2>2 DEF network
<1>5. CASE DrainMessage
  <2>1. Skip("client") /\ UNCHANGED <<outbuf, flushing, error>> /\ closed' \subseteq closed \cup {"client"}
    BY <1>5 DEF DrainMessage
  <2> QED
    BY <1>s, <1>t, <2>1
<1>6. CASE WriteRequest
  <2>1. /\ CanPut("client") /\ Put("client", IF n_written = 0 THEN "method" ELSE "arg", call)
        /\ UNCHANGED <<wire, flushing, error, closed>> /\ output_state # "output_done"
    BY <1>6 DEF WriteRequest
  <2>2. (IF n_written = 0 THEN "method" ELSE "arg") \in Kinds
    BY DEF Kinds
  <2> QED
    BY <1>p, <1>n, <1>t, <2>1, <2>2
<1>7. CASE WriteEom
  <2>1. /\ CanPut("client") /\ Put("client", "eom", call) /\ flushing' \subseteq flushing \cup {"client"}
        /\ UNCHANGED <<wire, error, closed>> /\ output_state # "output_done"
    BY <1>7 DEF WriteEom
  <2> QED
    BY <1>p, <1>n, <1>t, <2>1 DEF Kinds
<1>8. CASE OnEomWritten
  BY <1>8, <1>t DEF OnEomWritten
<1>9. CASE StartHandler \/ OnMethodReaderFailure \/ OnMethodSucceeded \/ OnMethodFailure
           \/ CheckEom \/ OnReplyEomWritten
  BY <1>0, <1>9 DEF StartHandler, OnMethodReaderFailure, OnMethodSucceeded, OnMethodFailure,
     CheckEom, OnReplyEomWritten
<1>10. CASE DropClient \/ Interrupt
  BY <1>10, <1>t DEF DropClient, Interrupt
<1>11. CASE StartMethod
  BY <1>11, <1>s, <1>t DEF StartMethod
<1>12. CASE MethodReads
  <2>1. (Skip("server") \/ UNCHANGED wire) /\ UNCHANGED <<outbuf, flushing, error, closed>>
    BY <1>12 DEF MethodReads
  <2> QED
    BY <1>0, <1>s, <1>t, <2>1 DEF network
<1>13. CASE MethodWrites
  BY <1>13, <1>p, <1>m, <1>t DEF MethodWrites, Kinds
<1>14. CASE WriteException
  BY <1>14, <1>p, <1>m, <1>t DEF WriteException, Kinds
<1>15. CASE WriteReplyEom
  <2>1. /\ CanPut("server") /\ Put("server", "eom", served) /\ flushing' \subseteq flushing \cup {"server"}
        /\ UNCHANGED <<wire, error, closed>> /\ state # "idle"
    BY <1>15 DEF WriteReplyEom
  <2> QED
    BY <1>p, <1>m, <1>t, <2>1 DEF Kinds
<1>16. CASE DrainRequest
  BY <1>16, <1>s, <1>t DEF DrainRequest
<1>17. ASSUME NEW s \in Sides, Send(s) PROVE NetworkTypeOK'
  <2>1. /\ wire' \in [Sides -> Seq(Tokens)] /\ outbuf' \in [Sides -> Seq(Tokens)]
        /\ wire'[Peer(s)] = wire[Peer(s)] /\ outbuf'[Peer(s)] = outbuf[Peer(s)]
        /\ Len(wire'[s]) = Len(wire[s]) + 1 /\ Len(wire[s]) < WireSize
        /\ Len(outbuf'[s]) = Len(outbuf[s]) - 1
    BY <1>17, <1>t, SendKeeps DEF Alike, Added
  <2>2. Len(wire[s]) \in Nat /\ Len(outbuf[s]) \in Nat /\ Len(outbuf[s]) <= OutbufSize
    BY <1>t
  <2>3. Len(wire'[s]) <= WireSize /\ Len(outbuf'[s]) <= OutbufSize
    <3> DEFINE w == Len(wire[s])
               o == Len(outbuf[s])
    <3>1. /\ w \in Nat /\ o \in Nat /\ o <= OutbufSize /\ w < WireSize
          /\ Len(wire'[s]) = w + 1 /\ Len(outbuf'[s]) = o - 1
      BY <2>1, <2>2
    <3> HIDE DEF w, o
    <3>2. w + 1 <= WireSize /\ o - 1 <= OutbufSize
      BY <3>1
    <3> QED
      BY <3>1, <3>2
  <2>4. Peer(s) \in Sides /\ Sides = {s, Peer(s)}
    BY KnownPeers
  <2>5. UNCHANGED <<error, closed>> /\ flushing' \subseteq Sides
    BY <1>17, <1>t DEF Send
  <2> QED
    BY <1>t, <2>1, <2>3, <2>4, <2>5
<1>18. ASSUME NEW s \in Sides, IoError(s) PROVE NetworkTypeOK'
  <2>1. /\ outbuf' \in [Sides -> Seq(Tokens)] /\ outbuf'[s] \in {outbuf[s], <<>>} /\ wire' = wire
        /\ outbuf'[Peer(s)] = outbuf[Peer(s)]
        /\ UNCHANGED closed /\ flushing' \subseteq flushing /\ error' \subseteq Buffers
    BY <1>18, <1>t, ErrorCuts DEF Alike
  <2>2. Peer(s) \in Sides /\ Sides = {s, Peer(s)} /\ Len(<<>>) = 0 /\ 0 <= OutbufSize
    BY KnownPeers, RpcAssumption
  <2>3. Len(outbuf'[s]) <= OutbufSize /\ Len(outbuf'[Peer(s)]) <= OutbufSize /\ flushing' \subseteq Sides
    BY <1>t, <2>1, <2>2
  <2> QED
    BY <1>t, <2>1, <2>2, <2>3
<1> QED
  BY <1>1, <1>2, <1>3, <1>4, <1>5, <1>6, <1>7, <1>8, <1>9, <1>10, <1>11, <1>12, <1>13,
     <1>14, <1>15, <1>16, <1>17, <1>18 DEF Next, ClientInput, ClientOutput, ServerStep

LEMMA TypesStep ==
  ASSUME Inv, Next
  PROVE  TypeOK'
<1>1. ClientTypeOK' /\ ServerTypeOK' /\ NetworkTypeOK'
  BY ClientTypesStep, ServerTypesStep, NetworkTypesStep
<1>2. TypeOK' <=> ClientTypeOK' /\ ServerTypeOK' /\ NetworkTypeOK'
  BY ThreeTypes, PTL
<1> QED
  BY <1>1, <1>2

-----------------------------------------------------------------------------
(***************************************************************************)
(* The client's state: the parts of ClientFits.                            *)
(***************************************************************************)
Progress ==
  /\ DoneWhenBothAre
  /\ input_state # "input_not_started"
  /\ input_state = "reading_reply" => ~ex
  /\ output_state = "output_not_started" => n_written = 0
  /\ call > 0 /\ output_state \notin {"output_not_started", "writing_request"} /\ ~ex
       => n_written = NArgs + 1
  /\ "client" \in closed <=> result = "failed"
  /\ call = 0 => result = "none" /\ input_state = "input_done" /\ output_state = "output_done"
  /\ result = "ok" => ~ex

Emptied ==
  /\ output_state = "output_done" => outbuf["client"] = <<>>
  /\ \A s \in Sides : <<s, "outbuf">> \in error => outbuf[s] = <<>>

LEMMA ClientParts == ClientFits /\ DoneWhenBothAre <=> Progress /\ Emptied
BY DEF ClientFits, Progress, Emptied

\* The server's steps and the network leave the client alone.
OtherStep == ServerStep \/ Interrupt \/ \E s \in Sides : Send(s) \/ IoError(s)

LEMMA OthersStep ==
  OtherStep => /\ UNCHANGED client
               /\ "client" \in closed' <=> "client" \in closed
<1>1. ServerStep => UNCHANGED client /\ closed' \in {closed, closed \cup {"server"}}
  BY DEF ServerStep, StartHandler, DropClient, StartMethod, OnMethodReaderFailure,
     MethodReads, MethodWrites, OnMethodSucceeded, OnMethodFailure, CheckEom, WriteException,
     WriteReplyEom, OnReplyEomWritten, DrainRequest, network
<1>2. Interrupt => UNCHANGED client /\ closed' \in {closed, closed \cup {"server"}}
  BY DEF Interrupt
<1>3. (\E s \in Sides : Send(s) \/ IoError(s)) => UNCHANGED client /\ closed' = closed
  BY DEF Send, IoError, InputFails, OutputFails
<1> QED
  BY <1>1, <1>2, <1>3 DEF OtherStep

LEMMA ProgressStep ==
  ASSUME Inv, Next
  PROVE  Progress'
<1> USE RpcAssumption
    DEF Progress, DoneWhenBothAre, InputStates, OutputStates, SkipInput, SkipOutput, DoneIf, OnDone
<1>t. ClientTypeOK /\ Progress
  BY ThreeTypes, ClientParts DEF Inv
<1>b. output_state # "output_done" \/ input_state # "input_done" => result = "none" /\ call > 0
  BY <1>t DEF ClientTypeOK
<1> USE <1>t, <1>b DEF ClientTypeOK
<1>1. CASE Start
  <2>1. /\ call' = call + 1 /\ input_state' = "reading_reply" /\ ex' = FALSE
        /\ output_state' = "output_not_started" /\ n_written' = 0 /\ result' = "none"
        /\ result # "none" \/ ~(call > 0)
    BY <1>1 DEF Start, Busy
  <2>2. "client" \notin closed'
    BY <1>1 DEF Start, network
  <2>3. call' > 0
    BY <2>1
  <2> QED
    BY <2>1, <2>2, <2>3
<1>2. CASE StartRequest
  BY <1>2 DEF StartRequest, network
<1>3. CASE ReadValue
  BY <1>3 DEF ReadValue
<1>4. CASE OnReplyRead
  BY <1>4 DEF OnReplyRead, network
<1>5. CASE OnReplyError
  <2>1. /\ input_state = "reading_reply" /\ ex' = TRUE /\ input_state' = "draining_message"
        /\ SkipOutput /\ UNCHANGED <<call, n_written, result, closed>>
    BY <1>5 DEF OnReplyError
  <2>2. output_state' # "output_not_started" /\ (output_state' = "output_done" => output_state = "output_done")
    BY <2>1
  <2> QED
    BY <2>1, <2>2
<1>6. CASE DrainMessage
  <2>1. /\ input_state = "draining_message" /\ UNCHANGED <<call, output_state, ex, n_written>>
        /\ \/ input_state' = "input_done" /\ DoneIf(output_state = "output_done")
           \/ UNCHANGED <<input_state, result, closed>>
    BY <1>6 DEF DrainMessage
  <2> QED
    BY <2>1
<1>7. CASE WriteRequest
  BY <1>7 DEF WriteRequest
<1>8. CASE OnRequestWritten
  BY <1>8 DEF OnRequestWritten, network
<1>9. CASE OnRequestError
  BY <1>9 DEF OnRequestError, network
<1>10. CASE WriteEom
  BY <1>10 DEF WriteEom
<1>11. CASE OnEomWritten
  <2>1. /\ output_state = "flushing_eom" /\ output_state' = "output_done"
        /\ DoneIf(input_state = "input_done")
        /\ UNCHANGED <<call, input_state, ex, n_written>>
    BY <1>11 DEF OnEomWritten
  <2> QED
    BY <2>1
<1>12. CASE OtherStep
  BY <1>12, OthersStep DEF client
<1> QED
  BY <1>1, <1>2, <1>3, <1>4, <1>5, <1>6, <1>7, <1>8, <1>9, <1>10, <1>11, <1>12
     DEF Next, ClientInput, ClientOutput, OtherStep

LEMMA EmptiedStep ==
  ASSUME Inv, Next
  PROVE  Emptied'
<1>t. Emptied /\ Network /\ error \subseteq Buffers
  BY TypedNetwork, ClientParts DEF Inv, Network
<1>0. CASE UNCHANGED <<outbuf, error>> /\ (output_state' = "output_done" => output_state = "output_done")
  BY <1>t, <1>0 DEF Emptied
<1>p. ASSUME NEW s \in Sides, NEW k, NEW n, Put(s, k, n), UNCHANGED error,
             output_state' = "output_done" => output_state = "output_done" /\ s # "client"
      PROVE  Emptied'
  <2>1. outbuf' = outbuf \/ (<<s, "outbuf">> \notin error /\ \A q \in Sides : q # s => outbuf'[q] = outbuf[q])
    BY <1>p, <1>t DEF Put, Network
  <2> QED
    BY <1>p, <1>t, <2>1 DEF Emptied, Sides
<1>1. CASE Start
  <2>1. output_state' = "output_not_started"
    BY <1>1 DEF Start
  <2>2. CASE result = "failed"
    BY <1>1, <2>1, <2>2 DEF Start, Emptied
  <2>3. CASE result # "failed"
    BY <1>0, <1>1, <2>1, <2>3 DEF Start, network
  <2> QED
    BY <2>2, <2>3
<1>2. CASE StartRequest \/ ReadValue \/ OnReplyRead \/ DrainMessage \/ OnRequestWritten \/ OnRequestError
  BY <1>0, <1>2 DEF StartRequest, ReadValue, OnReplyRead, DrainMessage, OnRequestWritten,
     OnRequestError, network
<1>3. CASE OnReplyError
  BY <1>0, <1>3 DEF OnReplyError, SkipOutput
<1>4. CASE WriteRequest
  <2>1. \E k : Put("client", k, call)
    BY <1>4 DEF WriteRequest
  <2>2. UNCHANGED error /\ output_state' # "output_done"
    BY <1>4 DEF WriteRequest
  <2> QED
    BY <1>p, <2>1, <2>2 DEF Sides
<1>5. CASE WriteEom
  BY <1>5, <1>p DEF WriteEom, Sides
<1>6. CASE OnEomWritten
  <2>1. outbuf["client"] = <<>> /\ UNCHANGED <<outbuf, error>>
    BY <1>6, <1>t DEF OnEomWritten, Flushed, Emptied, Sides
  <2> QED
    BY <1>t, <2>1 DEF Emptied
<1>7. CASE OtherStep
  <2>0. UNCHANGED output_state
    BY <1>7, OthersStep DEF client
  <2>1. CASE UNCHANGED <<outbuf, error>>
    BY <1>0, <2>0, <2>1
  <2>2. CASE MethodWrites \/ WriteException \/ WriteReplyEom
    <3>1. (\E k : Put("server", k, served)) /\ UNCHANGED error
      BY <2>2 DEF MethodWrites, WriteException, WriteReplyEom
    <3> QED
      BY <1>p, <2>0, <3>1 DEF Sides
  <2>3. ASSUME NEW s \in Sides, Send(s) PROVE Emptied'
    <3>1. outbuf'[Peer(s)] = outbuf[Peer(s)] /\ outbuf[s] # <<>> /\ <<s, "outbuf">> \notin error /\ error' = error
      BY <1>t, <2>3, SendKeeps DEF Alike, Send
    <3>2. Peer(s) \in Sides /\ Sides = {s, Peer(s)}
      BY KnownPeers
    <3> QED
      BY <1>t, <2>0, <3>1, <3>2 DEF Emptied, Sides
  <2>4. ASSUME NEW s \in Sides, IoError(s) PROVE Emptied'
    <3>1. /\ outbuf'[Peer(s)] = outbuf[Peer(s)] /\ outbuf'[s] \in {outbuf[s], <<>>}
          /\ \A q \in Sides : <<q, "outbuf">> \in error' =>
               <<q, "outbuf">> \in error \/ (q = s /\ outbuf'[q] = <<>>)
      BY <1>t, <2>4, ErrorCuts DEF Alike
    <3>2. Peer(s) \in Sides /\ Sides = {s, Peer(s)}
      BY KnownPeers
    <3> QED
      BY <1>t, <2>0, <3>1, <3>2 DEF Emptied, Sides
  <2>5. ServerStep \/ Interrupt => UNCHANGED <<outbuf, error>> \/ MethodWrites \/ WriteException \/ WriteReplyEom
    BY DEF ServerStep, StartHandler, DropClient, StartMethod, OnMethodReaderFailure,
       MethodReads, OnMethodSucceeded, OnMethodFailure, CheckEom,
       OnReplyEomWritten, DrainRequest, Interrupt, network
  <2> QED
    BY <1>7, <2>1, <2>2, <2>3, <2>4, <2>5 DEF OtherStep
<1> QED
  BY <1>1, <1>2, <1>3, <1>4, <1>5, <1>6, <1>7 DEF Next, ClientInput, ClientOutput, OtherStep

-----------------------------------------------------------------------------
(***************************************************************************)
(* The request's EOM.  A step takes tokens from the stream, or adds one.   *)
(***************************************************************************)
Part(r, u) ==
  \E d \in {0, 1} : \A i \in 1 .. Len(r) : i + d \in 1 .. Len(u) /\ r[i] = u[i + d]

LEMMA PartsAre ==
  ASSUME NEW r, NEW u, Len(r) \in Nat, Len(u) \in Nat,
         r = u \/ r = <<>> \/ Taken(r, u) \/ Begins(r, u)
  PROVE  Part(r, u)
<1>1. r = <<>> => Len(r) = 0
  OBVIOUS
<1>2. CASE r = u \/ r = <<>> \/ Begins(r, u)
  <2>1. \A i \in 1 .. Len(r) : i + 0 \in 1 .. Len(u) /\ r[i] = u[i + 0]
    BY <1>1, <1>2 DEF Begins
  <2> QED
    BY <2>1 DEF Part
<1>3. CASE Taken(r, u)
  <2>1. \A i \in 1 .. Len(r) : i + 1 \in 1 .. Len(u) /\ r[i] = u[i + 1]
    BY <1>3 DEF Taken
  <2> QED
    BY <2>1 DEF Part
<1> QED
  BY <1>2, <1>3

LEMMA StreamsStay ==
  ASSUME Inv, Next
  PROVE  /\ Stream("client") /\ Stream("server") /\ Stream("client")' /\ Stream("server")'
         /\ Network /\ Network'
<1>1. Network /\ Network'
  <2>1. TypeOK /\ TypeOK'
    BY TypesStep DEF Inv
  <2>2. TypeOK' => Network'
    BY TypedNetwork, PTL
  <2> QED
    BY <2>1, <2>2, TypedNetwork
<1>2. Network' => Streams'
  BY StreamsAre, PTL
<1> QED
  BY <1>1, <1>2, StreamsAre DEF Streams

RequestMoves ==
  \/ /\ Part(Unread("client")', Unread("client"))
     /\ call' \in {call, call + 1} /\ (EomWritten /\ call' = call => EomWritten')
  \/ /\ call' = call /\ <<"client", "outbuf">> \notin error
     /\ \/ /\ output_state = "writing_request" /\ n_written' = n_written + 1
           /\ Added(Unread("client")', Unread("client"),
                    [kind |-> IF n_written = 0 THEN "method" ELSE "arg", call |-> call])
        \/ /\ output_state = "writing_eom" /\ output_state' = "flushing_eom"
           /\ Added(Unread("client")', Unread("client"), [kind |-> "eom", call |-> call])

LEMMA RequestsMove ==
  ASSUME Inv, Next
  PROVE  RequestMoves
<1>t. /\ Network /\ Stream("client") /\ Stream("client")'
      /\ "client" \in Sides /\ "server" \in Sides /\ Peer("server") = "client" /\ Peer("client") = "server"
      /\ Len(Unread("client")) \in Nat /\ Len(Unread("client")') \in Nat
  BY StreamsStay, KnownPeers DEF Stream
<1>n. output_state # "output_done" => call \in 1 .. MaxCalls
  BY DEF Inv, ClientFits, TypeOK
<1> USE DEF EomWritten
<1>0. ASSUME Alike("client"), call' \in {call, call + 1}, EomWritten /\ call' = call => EomWritten'
      PROVE  RequestMoves
  BY <1>0, <1>t, PartsAre DEF RequestMoves, Alike
<1>1. CASE Start
  <2>1. call' = call + 1
    BY <1>1 DEF Start
  <2>2. CASE result = "failed"
    <3>1. wire'["client"] = <<>> /\ outbuf'["client"] = <<>>
      BY <1>1, <1>t, <2>2 DEF Start
    <3>2. Unread("client")' = <<>>
      BY <1>t, <3>1 DEF Stream
    <3>3. call # call'
      BY <2>1 DEF Inv, TypeOK
    <3> QED
      BY <1>t, <2>1, <3>2, <3>3, PartsAre DEF RequestMoves
  <2>3. CASE result # "failed"
    <3>1. Alike("client")
      BY <1>1, <2>3, NothingMoves DEF Start, network
    <3>2. call # call'
      BY <2>1 DEF Inv, TypeOK
    <3> QED
      BY <1>0, <2>1, <3>1, <3>2
  <2> QED
    BY <2>2, <2>3
<1>2. CASE StartRequest \/ OnReplyRead \/ OnRequestWritten \/ OnRequestError \/ OnEomWritten
  <2>1. UNCHANGED <<wire, outbuf, call>> /\ (EomWritten => EomWritten')
    BY <1>2 DEF StartRequest, OnReplyRead, OnRequestWritten, OnRequestError, OnEomWritten, network
  <2> QED
    BY <1>0, <2>1, NothingMoves
<1>3. CASE ReadValue \/ OnReplyError \/ DrainMessage
  <2>1. (Skip("client") \/ UNCHANGED wire) /\ UNCHANGED <<outbuf, call>> /\ (EomWritten => EomWritten')
    BY <1>3 DEF ReadValue, OnReplyError, DrainMessage, SkipOutput
  <2>2. Alike("client")
    BY <1>t, <2>1, SkipTakes, NothingMoves
  <2> QED
    BY <1>0, <2>1, <2>2
<1>4. CASE WriteRequest
  <2> DEFINE k == IF n_written = 0 THEN "method" ELSE "arg"
  <2>1. /\ CanPut("client") /\ Put("client", k, call) /\ UNCHANGED <<wire, call, output_state>>
        /\ output_state = "writing_request" /\ n_written' = n_written + 1
    BY <1>4 DEF WriteRequest
  <2>2. k \in Kinds /\ call \in 1 .. MaxCalls
    BY <1>n, <2>1 DEF Kinds
  <2>3. IF <<"client", "outbuf">> \in error THEN Alike("client")
        ELSE Added(Unread("client")', Unread("client"), [kind |-> k, call |-> call])
    <3> HIDE DEF k
    <3> QED
      BY <1>t, <2>1, <2>2, PutAdds
  <2> QED
    BY <1>0, <2>1, <2>3 DEF RequestMoves
<1>5. CASE WriteEom
  <2>1. /\ CanPut("client") /\ Put("client", "eom", call) /\ UNCHANGED <<wire, call>>
        /\ output_state = "writing_eom" /\ output_state' = "flushing_eom"
    BY <1>5 DEF WriteEom
  <2>2. "eom" \in Kinds /\ call \in 1 .. MaxCalls
    BY <1>n, <2>1 DEF Kinds
  <2>3. IF <<"client", "outbuf">> \in error THEN Alike("client")
        ELSE Added(Unread("client")', Unread("client"), [kind |-> "eom", call |-> call])
    BY <1>t, <2>1, <2>2, PutAdds
  <2> QED
    BY <1>0, <2>1, <2>3 DEF RequestMoves
<1>6. CASE OtherStep
  <2>1. UNCHANGED <<call, output_state>>
    BY <1>6, OthersStep DEF client
  <2>2. ASSUME Part(Unread("client")', Unread("client")) PROVE RequestMoves
    BY <2>1, <2>2 DEF RequestMoves
  <2>3. CASE Alike("client")
    BY <1>0, <2>1, <2>3
  <2>4. CASE Skip("server") /\ UNCHANGED outbuf
    <3>1. Alike("client") \/ Taken(Unread("client")', Unread("client"))
      BY <1>t, <2>4, SkipTakes
    <3> QED
      BY <1>t, <2>2, <2>3, <3>1, PartsAre
  <2>5. ASSUME NEW k \in Kinds, CanPut("server"), Put("server", k, served), UNCHANGED wire, state # "idle"
        PROVE  RequestMoves
    <3>1. served \in 1 .. MaxCalls
      BY <2>5 DEF Inv, ServerFits, TypeOK
    <3> QED
      BY <1>t, <2>3, <2>5, <3>1, PutAdds
  <2>6. ASSUME NEW s \in Sides, Send(s) PROVE RequestMoves
    <3>1. Unread(s)' = Unread(s) /\ Alike(Peer(s))
      BY <1>t, <2>6, SendKeeps
    <3>2. Unread("client")' = Unread("client")
      BY <1>t, <3>1 DEF Alike, Sides
    <3> QED
      BY <1>t, <2>2, <3>2, PartsAre
  <2>7. ASSUME NEW s \in Sides, IoError(s) PROVE RequestMoves
    <3>1. Begins(Unread(s)', Unread(s)) /\ Alike(Peer(s))
      BY <1>t, <2>7, ErrorCuts
    <3>2. Unread("client")' = Unread("client") \/ Begins(Unread("client")', Unread("client"))
      BY <1>t, <3>1 DEF Alike, Sides
    <3> QED
      BY <1>t, <2>2, <3>2, PartsAre
  <2>8. StartMethod \/ DrainRequest \/ MethodReads
          => (Skip("server") \/ UNCHANGED wire) /\ UNCHANGED outbuf
    BY DEF StartMethod, DrainRequest, MethodReads
  <2>9. CASE UNCHANGED <<wire, outbuf>>
    BY <2>3, <2>9, NothingMoves
  <2>10. CASE MethodWrites
    BY <2>5, <2>10 DEF MethodWrites, Kinds
  <2>11. CASE WriteException \/ WriteReplyEom
    BY <2>5, <2>11 DEF WriteException, WriteReplyEom, Kinds
  <2>12. ServerStep \/ Interrupt =>
           \/ UNCHANGED <<wire, outbuf>> \/ StartMethod \/ DrainRequest \/ MethodReads
           \/ MethodWrites \/ WriteException \/ WriteReplyEom
    BY DEF ServerStep, StartHandler, DropClient, OnMethodReaderFailure, OnMethodSucceeded,
       OnMethodFailure, CheckEom, OnReplyEomWritten, Interrupt, network
  <2> QED
    BY <1>6, <2>4, <2>6, <2>7, <2>8, <2>9, <2>10, <2>11, <2>12 DEF OtherStep
<1> QED
  BY <1>1, <1>2, <1>3, <1>4, <1>5, <1>6 DEF Next, ClientInput, ClientOutput, OtherStep

\* EomIsLast, of the client's messages.
RequestEomIsLast ==
  \A i, j \in 1 .. Len(Unread("client")) :
    i < j /\ Unread("client")[i].kind = "eom" => Unread("client")[j].call > Unread("client")[i].call

LEMMA RequestEomStep ==
  ASSUME Inv, Next
  PROVE  EomFits' /\ RequestEomIsLast'
<1> DEFINE u == Unread("client")
           r == Unread("client")'
<1>1. /\ Len(u) \in Nat /\ DOMAIN u = 1 .. Len(u) /\ \A i \in 1 .. Len(u) : u[i] \in Tokens
      /\ Len(r) \in Nat /\ DOMAIN r = 1 .. Len(r)
  BY StreamsStay DEF Stream
<1>2. /\ \A i \in 1 .. Len(u) : u[i].call <= call /\ (u[i].kind = "eom" /\ u[i].call = call => EomWritten)
      /\ \A i, j \in 1 .. Len(u) : i < j /\ u[i].kind = "eom" => u[j].call > u[i].call
      /\ \A i \in 1 .. Len(u) : u[i].call \in Nat
      /\ call \in Nat
  <2>1. EomFits /\ EomIsLast /\ call \in Nat /\ "client" \in Sides
    BY DEF Inv, TypeOK, Sides
  <2>2. \A i \in 1 .. Len(u) : u[i].call \in Nat
    BY <1>1 DEF Tokens
  <2> QED
    BY <1>1, <2>1, <2>2 DEF EomFits, EomIsLast
<1>3. RequestMoves
  BY RequestsMove
<1>4. SUFFICES /\ \A i \in 1 .. Len(r) : r[i].call <= call' /\ (r[i].kind = "eom" /\ r[i].call = call' => EomWritten')
               /\ \A i, j \in 1 .. Len(r) : i < j /\ r[i].kind = "eom" => r[j].call > r[i].call
  BY <1>1 DEF EomFits, RequestEomIsLast
<1>5. CASE /\ Part(r, u)
           /\ call' \in {call, call + 1} /\ (EomWritten /\ call' = call => EomWritten')
  <2>1. PICK d \in {0, 1} : \A i \in 1 .. Len(r) : i + d \in 1 .. Len(u) /\ r[i] = u[i + d]
    BY <1>5 DEF Part
  <2> HIDE DEF u, r
  <2>2. ASSUME NEW i \in 1 .. Len(r)
        PROVE  r[i].call <= call' /\ (r[i].kind = "eom" /\ r[i].call = call' => EomWritten')
    <3>1. u[i + d].call <= call /\ (u[i + d].kind = "eom" /\ u[i + d].call = call => EomWritten)
          /\ u[i + d].call \in Nat /\ r[i] = u[i + d]
      BY <1>2, <2>1
    <3> QED
      BY <1>2, <1>5, <3>1
  <2>3. ASSUME NEW i \in 1 .. Len(r), NEW j \in 1 .. Len(r), i < j, r[i].kind = "eom"
        PROVE  r[j].call > r[i].call
    <3>1. i + d \in 1 .. Len(u) /\ j + d \in 1 .. Len(u) /\ i + d < j + d /\ r[i] = u[i + d] /\ r[j] = u[j + d]
      BY <1>1, <2>1, <2>3
    <3> QED
      BY <1>2, <2>3, <3>1
  <2> QED
    BY <2>2, <2>3
<1>6. ASSUME NEW k, Added(r, u, [kind |-> k, call |-> call]), call' = call, ~EomWritten,
             k = "eom" => EomWritten'
      PROVE  /\ \A i \in 1 .. Len(r) : r[i].call <= call' /\ (r[i].kind = "eom" /\ r[i].call = call' => EomWritten')
             /\ \A i, j \in 1 .. Len(r) : i < j /\ r[i].kind = "eom" => r[j].call > r[i].call
  <2>1. /\ Len(r) = Len(u) + 1 /\ r[Len(r)].call = call /\ (r[Len(r)].kind = "eom" => EomWritten')
        /\ \A i \in 1 .. Len(u) : r[i] = u[i]
    BY <1>6 DEF Added
  <2> HIDE DEF u, r
  <2>2. \A i \in 1 .. Len(r) : i \in 1 .. Len(u) \/ i = Len(r)
    BY <1>1, <2>1
  <2>3. \A i \in 1 .. Len(u) : r[i].kind = "eom" => r[i].call < call
    BY <1>2, <1>6, <2>1
  <2>4. \A i, j \in 1 .. Len(r) : i < j => i \in 1 .. Len(u)
    BY <1>1, <2>1
  <2>5. ASSUME NEW i \in 1 .. Len(r)
        PROVE  r[i].call <= call' /\ (r[i].kind = "eom" /\ r[i].call = call' => EomWritten')
    <3>1. CASE i \in 1 .. Len(u)
      BY <1>2, <1>6, <2>1, <3>1
    <3>2. CASE i = Len(r)
      BY <1>2, <1>6, <2>1, <3>2
    <3> QED
      BY <2>2, <3>1, <3>2
  <2>6. ASSUME NEW i \in 1 .. Len(r), NEW j \in 1 .. Len(r), i < j, r[i].kind = "eom"
        PROVE  r[j].call > r[i].call
    <3>1. i \in 1 .. Len(u) /\ r[i] = u[i] /\ r[i].call < call /\ r[i].call \in Nat
      BY <1>2, <2>1, <2>3, <2>4, <2>6
    <3>2. CASE j \in 1 .. Len(u)
      BY <1>2, <2>1, <2>6, <3>1, <3>2
    <3>3. CASE j = Len(r)
      BY <1>2, <2>1, <3>1, <3>3
    <3> QED
      BY <2>2, <3>2, <3>3
  <2> QED
    BY <2>5, <2>6
<1> QED
  BY <1>3, <1>5, <1>6 DEF RequestMoves, EomWritten

-----------------------------------------------------------------------------
(***************************************************************************)
(* The handler's state.                                                    *)
(***************************************************************************)
\* When the client starts a call, the handler has replied to the previous one.
LEMMA HandlerHasReplied ==
  ASSUME Inv, Start
  PROVE  state \in Replied /\ (result = "failed" => state = "idle")
<1>1. call = 0 \/ result = "ok" \/ result = "failed"
  BY DEF Start, Busy, Inv, TypeOK
<1>2. CASE call = 0
  <2>1. ~(served > 0)
    BY <1>2 DEF Inv, ServerFits, TypeOK
  <2> QED
    BY <2>1 DEF Inv, ServerFits, Replied
<1>3. CASE result = "failed"
  <2>1. "server" \in closed
    BY <1>3 DEF Start, Sides
  <2> QED
    BY <2>1 DEF Inv, ServerFits, Replied
<1>4. CASE result = "ok"
  BY <1>4 DEF Inv, ReplyDrained, Answered
<1> QED
  BY <1>1, <1>2, <1>3, <1>4

\* The handler that is started serves the current call, and is the first to.
LEMMA RequestIsNew ==
  ASSUME Inv, StartHandler
  PROVE  /\ served < call /\ served' = call /\ Serving /\ RequestAfter(0)
         /\ Peek("server") # Eof
<1>1. /\ state = "idle" /\ "server" \notin closed /\ Peek("server") # Eof
      /\ served' = Peek("server").call
  BY DEF StartHandler
<1>2. /\ Network /\ Stream("client") /\ "server" \in Sides /\ Peer("server") = "client"
  BY TypedNetwork, StreamsAre, KnownPeers DEF Inv, Streams
<1>3. /\ <<"server", "inbuf">> \notin error /\ Len(Unread("client")) > 0
      /\ Peek("server") = Unread("client")[1]
  BY <1>1, <1>2, NextToken
<1>4. Serving
  BY <1>1, <1>3 DEF Serving
<1>5. PICK n \in -(NArgs + 2) .. Len(Unread("client")) : RequestAfter(n)
  BY <1>4 DEF Inv, RequestFits
<1>6. served < call
  <2>1. Unread("client") # <<>>
    BY <1>3
  <2>2. served # call
    BY <1>1, <1>5, <2>1 DEF RequestAfter
  <2> QED
    BY <2>2 DEF Inv, ServerFits, TypeOK
<1>7. n = 0
  BY <1>1, <1>5, <1>6 DEF RequestAfter
<1>8. Unread("client")[1] = RequestToken(1 - 0)
  <2>1. 1 \in DOMAIN Unread("client") /\ 1 > 0
    BY <1>2, <1>3 DEF Stream
  <2> QED
    BY <1>5, <1>7, <2>1 DEF RequestAfter
<1>9. Peek("server").call = call
  BY <1>3, <1>8 DEF RequestToken
<1> QED
  BY <1>1, <1>4, <1>5, <1>6, <1>7, <1>9

LEMMA ServerFitsStep ==
  ASSUME Inv, Next
  PROVE  ServerFits'
<1>t. /\ ServerFits /\ ServerTypeOK /\ call \in Nat /\ served \in Nat
  BY ThreeTypes DEF Inv, TypeOK
<1> USE <1>t DEF Replied
<1>1. CASE Start
  <2>1. UNCHANGED <<state, served, succeeded>> /\ call' = call + 1 /\ (closed' = closed \/ closed' = {})
    BY <1>1 DEF Start, network
  <2>2. state \in Replied
    BY <1>1, HandlerHasReplied
  <2> QED
    BY <2>1, <2>2 DEF ServerFits, server, Success
<1>2. CASE ClientInput \/ ClientOutput \/ OnRequestError \/ \E s \in Sides : Send(s) \/ IoError(s)
  <2>1. UNCHANGED <<server, call>>
    BY <1>2 DEF ClientInput, ClientOutput, StartRequest, ReadValue, OnReplyRead,
       OnReplyError, DrainMessage, WriteRequest, OnRequestWritten, OnRequestError, WriteEom,
       OnEomWritten, Send, IoError, InputFails, OutputFails, client
  <2>2. closed' \in {closed, closed \cup {"client"}}
    <3>1. CASE DrainMessage \/ OnEomWritten
      BY <3>1 DEF DrainMessage, OnEomWritten, DoneIf, OnDone
    <3>2. CASE ~DrainMessage /\ ~OnEomWritten
      BY <1>2, <3>2 DEF ClientInput, ClientOutput, StartRequest, ReadValue, OnReplyRead,
         OnReplyError, WriteRequest, OnRequestWritten, OnRequestError, WriteEom,
         Send, IoError, InputFails, OutputFails, network
    <3> QED
      BY <3>1, <3>2
  <2> QED
    BY <2>1, <2>2 DEF ServerFits, server, Success
<1>c. CASE UNCHANGED call
  <2> USE <1>c
  <2>1. CASE StartHandler
    <3>1. served < call /\ served' = call
      BY <2>1, RequestIsNew
    <3>2. /\ state' = "method_reader" /\ n_args' = 0 /\ n_values' = 0 /\ UNCHANGED closed
          /\ "server" \notin closed
      BY <2>1 DEF StartHandler, network
    <3>3. served' > 0
      BY <3>1
    <3> QED
      BY <3>1, <3>2, <3>3 DEF ServerFits
  <2>2. CASE DropClient
    BY <2>2 DEF DropClient, server, ServerFits, Success
  <2>3. CASE StartMethod
    <3>1. /\ state = "method_reader" /\ UNCHANGED <<served, closed, n_args, n_values, succeeded>>
          /\ state' \in {"method_runner", "exception_writer"}
      BY <2>3 DEF StartMethod, ReportFailure, GoTo
    <3>2. n_values <= NValues
      BY <3>1, RpcAssumption DEF ServerFits
    <3> QED
      BY <3>1, <3>2 DEF ServerFits
  <2>4. CASE OnMethodReaderFailure \/ OnMethodFailure
    BY <2>4 DEF OnMethodReaderFailure, OnMethodFailure, ReportFailure, GoTo, network, ServerFits
  <2>5. CASE MethodReads
    <3>1. /\ state = "method_runner" /\ UNCHANGED <<served, closed, n_values>>
          /\ \/ state' = "method_runner" /\ NextOp(n_values)
             \/ state' = "exception_writer"
      BY <2>5 DEF MethodReads, ReportFailure, GoTo
    <3>2. op' = "write" /\ NextOp(n_values) => n_values <= NValues
      BY RpcAssumption DEF NextOp, ServerTypeOK
    <3> QED
      BY <3>1, <3>2 DEF ServerFits
  <2>6. CASE MethodWrites
    <3>1. /\ state = "method_runner" /\ state' = state /\ UNCHANGED <<served, closed>>
          /\ n_values' = n_values + 1 /\ NextOp(n_values + 1)
      BY <2>6 DEF MethodWrites
    <3>2. op' = "write" => n_values' <= NValues
      BY <3>1, RpcAssumption DEF NextOp, ServerTypeOK
    <3> QED
      BY <3>1, <3>2 DEF ServerFits
  <2>7. CASE OnMethodSucceeded
    <3>1. /\ state = "method_runner" /\ state' = "eom_checker"
          /\ succeeded' = Append(succeeded, served)
          /\ UNCHANGED <<served, closed>>
      BY <2>7 DEF OnMethodSucceeded, network
    <3>2. succeeded' # <<>> /\ Last(succeeded') = served
      <4> DEFINE S == 1 .. MaxCalls
      <4>1. succeeded \in Seq(S) /\ served \in S
        BY <3>1 DEF ServerTypeOK, ServerFits
      <4> HIDE DEF S
      <4>2. /\ Append(succeeded, served)[Len(succeeded) + 1] = served
            /\ Len(Append(succeeded, served)) = Len(succeeded) + 1
            /\ Append(succeeded, served) # <<>>
        BY <4>1
      <4> QED
        BY <3>1, <4>2 DEF Last
    <3> QED
      BY <3>1, <3>2 DEF ServerFits, Success
  <2>8. CASE CheckEom \/ WriteException \/ WriteReplyEom \/ OnReplyEomWritten
    BY <2>8 DEF CheckEom, WriteException, WriteReplyEom, OnReplyEomWritten, ReportFailure, GoTo, network,
       ServerFits
  <2>9. CASE DrainRequest
    BY <2>9 DEF DrainRequest, GoTo, server, ServerFits
  <2>10. CASE Interrupt
    BY <2>10 DEF Interrupt, ServerFits
  <2> QED
    BY <1>1, <1>2, <2>1, <2>2, <2>3, <2>4, <2>5, <2>6, <2>7, <2>8, <2>9, <2>10 DEF Next, ServerStep
<1> QED
  <2>1. OtherStep => UNCHANGED call
    BY OthersStep DEF client
  <2> QED
    BY <1>1, <1>2, <1>c, <2>1 DEF Next, OtherStep

LEMMA SucceedingStep ==
  ASSUME Inv, Next
  PROVE  Succeeding'
<1> DEFINE S == 1 .. MaxCalls
<1>t. /\ Succeeding /\ served \in Nat /\ call \in Nat /\ succeeded \in Seq(S)
      /\ \A i \in DOMAIN succeeded : succeeded[i] \in Nat
  <2>1. /\ Succeeding /\ served \in Nat /\ call \in Nat /\ succeeded \in Seq(S)
    BY ThreeTypes DEF Inv, ServerTypeOK, ClientTypeOK
  <2>2. \A i \in DOMAIN succeeded : succeeded[i] \in S
    <3> HIDE DEF S
    <3> QED
      BY <2>1
  <2> QED
    BY <2>1, <2>2
<1>0. ASSUME UNCHANGED <<succeeded, served>>,
             state' \in {"method_reader", "method_runner"} => state \in {"method_reader", "method_runner"}
      PROVE  Succeeding'
  BY <1>0, <1>t DEF Succeeding
<1>1. CASE StartHandler
  <2>1. served < served' /\ served' \in Nat /\ UNCHANGED succeeded
    BY <1>1, <1>t, RequestIsNew DEF StartHandler
  <2>2. \A i \in DOMAIN succeeded : succeeded[i] < served'
    BY <1>t, <2>1 DEF Succeeding
  <2> QED
    BY <1>t, <2>1, <2>2 DEF Succeeding
<1>2. CASE OnMethodSucceeded
  <2>1. /\ state = "method_runner" /\ state' = "eom_checker" /\ UNCHANGED served
        /\ succeeded' = Append(succeeded, served)
    BY <1>2 DEF OnMethodSucceeded
  <2>2. served \in S
    BY <2>1 DEF Inv, ServerFits, TypeOK
  <2> HIDE DEF S
  <2>3. /\ Len(succeeded') = Len(succeeded) + 1 /\ Len(succeeded) \in Nat
        /\ DOMAIN succeeded' = 1 .. Len(succeeded) + 1 /\ DOMAIN succeeded = 1 .. Len(succeeded)
        /\ succeeded'[Len(succeeded) + 1] = served
        /\ \A i \in 1 .. Len(succeeded) : succeeded'[i] = succeeded[i]
    BY <1>t, <2>1, <2>2
  <2>4. \A i \in 1 .. Len(succeeded) + 1 : i \in 1 .. Len(succeeded) \/ i = Len(succeeded) + 1
    BY <2>3
  <2>5. \A i \in 1 .. Len(succeeded) : succeeded'[i] < served
    BY <1>t, <2>1, <2>3 DEF Succeeding
  <2>6. \A i, j \in DOMAIN succeeded' : i < j => succeeded'[i] < succeeded'[j]
    <3>1. ASSUME NEW i \in DOMAIN succeeded', NEW j \in DOMAIN succeeded', i < j
          PROVE  succeeded'[i] < succeeded'[j]
      <4>1. i \in 1 .. Len(succeeded)
        BY <2>3, <3>1
      <4>2. CASE j \in 1 .. Len(succeeded)
        BY <1>t, <2>3, <3>1, <4>1, <4>2 DEF Succeeding
      <4>3. CASE j = Len(succeeded) + 1
        BY <2>3, <2>5, <4>1, <4>3
      <4> QED
        BY <2>3, <2>4, <4>2, <4>3
    <3> QED
      BY <3>1
  <2>7. \A i \in DOMAIN succeeded' : succeeded'[i] <= served
    <3>1. ASSUME NEW i \in DOMAIN succeeded'
          PROVE  succeeded'[i] <= served
      <4>1. CASE i \in 1 .. Len(succeeded)
        BY <1>t, <2>3, <4>1 DEF Succeeding
      <4>2. CASE i = Len(succeeded) + 1
        BY <1>t, <2>3, <4>2
      <4> QED
        BY <2>3, <2>4, <4>1, <4>2
    <3> QED
      BY <3>1
  <2> QED
    BY <2>1, <2>6, <2>7 DEF Succeeding
<1>3. CASE StartMethod
  BY <1>0, <1>3 DEF StartMethod, ReportFailure, GoTo
<1>4. CASE MethodReads \/ MethodWrites
  BY <1>0, <1>4 DEF MethodReads, MethodWrites, ReportFailure, GoTo
<1>5. CASE DropClient \/ OnMethodReaderFailure \/ OnMethodFailure \/ CheckEom \/ WriteException
           \/ WriteReplyEom \/ OnReplyEomWritten \/ DrainRequest \/ Interrupt
  BY <1>0, <1>5 DEF DropClient, OnMethodReaderFailure, OnMethodFailure, CheckEom, WriteException,
     WriteReplyEom, OnReplyEomWritten, DrainRequest, Interrupt, ReportFailure, GoTo, server
<1>6. CASE Start \/ ClientInput \/ ClientOutput \/ OnRequestError \/ \E s \in Sides : Send(s) \/ IoError(s)
  <2>1. UNCHANGED <<state, served, succeeded>>
    BY <1>6 DEF server, Start, ClientInput, ClientOutput, StartRequest, ReadValue, OnReplyRead,
       OnReplyError, DrainMessage, WriteRequest, OnRequestWritten, OnRequestError, WriteEom,
       OnEomWritten, Send, IoError, InputFails, OutputFails
  <2> QED
    BY <1>0, <2>1
<1> QED
  BY <1>1, <1>2, <1>3, <1>4, <1>5, <1>6 DEF Next, ServerStep

-----------------------------------------------------------------------------
(***************************************************************************)
(* The request: the two parts of RequestAfter.                             *)
(***************************************************************************)
CurrentRequest(n) ==
  /\ \A i \in 1 .. Len(Unread("client")) : i > n => Unread("client")[i] = RequestToken(i - n)
  /\ Len(Unread("client")) - n <= RequestLength
  /\ <<"client", "outbuf">> \notin error \/ result = "ok" => Len(Unread("client")) - n = RequestLength

Position(n) ==
  /\ served < call =>
       /\ n \in 0 .. Len(wire["client"])
       /\ state = "idle" <=> n = 0
       /\ \A i \in 1 .. n : Unread("client")[i].call = served /\ (Unread("client")[i].kind = "eom" <=> i = n)
  /\ served = call =>
       /\ n <= 0
       /\ state = "idle" => Unread("client") = <<>> /\ EomWritten
       /\ state # "idle" => -n <= n_written
       /\ state = "method_reader" => n = 0
       /\ state \in {"method_runner", "eom_checker"} => n = -(1 + n_args)

LEMMA TwoParts ==
  Stream("client") => \A n \in Int : RequestAfter(n) <=> CurrentRequest(n) /\ Position(n)
BY DEF RequestAfter, CurrentRequest, Position, Stream

LEMMA TwoPartsNext ==
  Stream("client")' => \A n \in Int : RequestAfter(n)' <=> CurrentRequest(n)' /\ Position(n)'
BY DEF RequestAfter, CurrentRequest, Position, Stream

\* Where the current request begins.
LEMMA RequestBegins ==
  ASSUME Inv, Serving
  PROVE  \E n \in -(NArgs + 2) .. Len(Unread("client")) : CurrentRequest(n) /\ Position(n)
<1>1. PICK n \in -(NArgs + 2) .. Len(Unread("client")) : RequestAfter(n)
  BY DEF Inv, RequestFits
<1>2. Stream("client") /\ NArgs \in Nat
  BY TypedNetwork, StreamsAre, RpcAssumption DEF Inv, Streams
<1>3. n \in Int
  BY <1>1, <1>2 DEF Stream
<1> QED
  BY <1>1, <1>2, <1>3, TwoParts

LEMMA RequestIsAt ==
  ASSUME Inv, Next, NEW n \in Int, n >= -(NArgs + 2), CurrentRequest(n)', Position(n)'
  PROVE  RequestFits'
<1>1. Stream("client")' /\ NArgs \in Nat
  BY StreamsStay, RpcAssumption
<1>2. RequestAfter(n)'
  BY <1>1, TwoPartsNext
<1>3. served' <= call' /\ served' \in Nat /\ call' \in Nat
  BY ServerFitsStep, TypesStep DEF ServerFits, TypeOK
<1>4. n <= Len(Unread("client")')
  <2>1. CASE served' < call'
    BY <1>1, <2>1 DEF Position, Stream
  <2>2. CASE served' = call'
    BY <1>1, <2>2 DEF Position, Stream
  <2> QED
    BY <1>3, <2>1, <2>2
<1>5. n \in (-(NArgs + 2) .. Len(Unread("client")))'
  BY <1>1, <1>4 DEF Stream
<1> QED
  BY <1>2, <1>5 DEF RequestFits

\* A step that leaves the stream and the client's progress alone.
LEMMA RequestStays ==
  ASSUME Inv, Next, Serving' => Serving,
         Unread("client")' = Unread("client"), Len(wire["client"]) <= Len(wire'["client"]),
         UNCHANGED <<call, n_written, EomWritten, served>>,
         <<"client", "outbuf">> \notin error' \/ result' = "ok" => <<"client", "outbuf">> \notin error \/ result = "ok",
         state' = "idle" <=> state = "idle",
         state' = "method_reader" => state = "method_reader",
         state' \in {"method_runner", "eom_checker"} =>
           state \in {"method_runner", "eom_checker"} /\ n_args' = n_args
  PROVE  RequestFits'
<1>1. CASE ~Serving'
  BY <1>1 DEF RequestFits
<1>2. CASE Serving'
  <2>1. PICK n \in -(NArgs + 2) .. Len(Unread("client")) : CurrentRequest(n) /\ Position(n)
    BY <1>2, RequestBegins
  <2>2. /\ n \in Int /\ n >= -(NArgs + 2)
        /\ Len(wire["client"]) \in Nat /\ Len(wire'["client"]) \in Nat
    BY <2>1, StreamsStay, RpcAssumption DEF Stream
  <2>3. CurrentRequest(n)'
    BY <2>1 DEF CurrentRequest, RequestToken, RequestLength
  <2>4. Position(n)'
    BY <2>1, <2>2 DEF Position
  <2> QED
    BY <2>2, <2>3, <2>4, RequestIsAt
<1> QED
  BY <1>1, <1>2

\* The server reads a token.
LEMMA RequestIsRead ==
  ASSUME Inv, Next, NEW n \in Int, CurrentRequest(n), n <= Len(Unread("client")),
         Taken(Unread("client")', Unread("client")),
         UNCHANGED <<call, n_written, EomWritten, result, error>>
  PROVE  \A m \in Int : m = n - 1 => CurrentRequest(m)'
<1> DEFINE u == Unread("client")
           r == Unread("client")'
<1>1. Len(u) \in Nat /\ Len(r) \in Nat /\ Len(r) = Len(u) - 1 /\ \A i \in 1 .. Len(r) : r[i] = u[i + 1]
  BY StreamsStay DEF Stream, Taken
<1>2. /\ \A i \in 1 .. Len(u) : i > n => u[i] = RequestToken(i - n)
      /\ Len(u) - n <= RequestLength
      /\ <<"client", "outbuf">> \notin error \/ result = "ok" => Len(u) - n = RequestLength
  BY DEF CurrentRequest
<1>3. \A j \in Int : RequestToken(j)' = RequestToken(j)
  BY DEF RequestToken
<1>4. RequestLength' = RequestLength
  BY DEF RequestLength
<1> SUFFICES ASSUME NEW m \in Int, m = n - 1
             PROVE  CurrentRequest(m)'
  OBVIOUS
<1> HIDE DEF u, r
<1>5. ASSUME NEW i \in 1 .. Len(r), i > m PROVE r[i] = RequestToken(i - m)'
  <2>1. i + 1 \in 1 .. Len(u) /\ i + 1 > n /\ i + 1 - n = i - m /\ i - m \in Int
    BY <1>1, <1>5
  <2>2. r[i] = u[i + 1]
    BY <1>1
  <2>3. u[i + 1] = RequestToken(i + 1 - n)
    BY <1>2, <2>1
  <2> QED
    BY <1>3, <2>1, <2>2, <2>3
<1>6. Len(r) - m = Len(u) - n
  BY <1>1
<1> QED
  BY <1>2, <1>4, <1>5, <1>6 DEF CurrentRequest, r

\* The client writes a token, the one that comes next.
LEMMA RequestIsWritten ==
  ASSUME Inv, Next, NEW n \in Int, CurrentRequest(n), n <= Len(Unread("client")),
         NEW l \in Nat, RequestLength = l, RequestLength' = l + 1, NEW k,
         RequestToken(l + 1)' = [kind |-> k, call |-> call],
         \A j \in Int : j <= l => RequestToken(j)' = RequestToken(j),
         UNCHANGED error, result' # "ok",
         IF <<"client", "outbuf">> \in error THEN Unread("client")' = Unread("client")
         ELSE Added(Unread("client")', Unread("client"), [kind |-> k, call |-> call])
  PROVE  CurrentRequest(n)'
<1> DEFINE u == Unread("client")
           r == Unread("client")'
           t == [kind |-> k, call |-> call]
<1>1. Len(u) \in Nat /\ Len(r) \in Nat
  BY StreamsStay DEF Stream
<1>2. /\ \A i \in 1 .. Len(u) : i > n => u[i] = RequestToken(i - n)
      /\ Len(u) - n <= l
      /\ <<"client", "outbuf">> \notin error => Len(u) - n = l
  BY DEF CurrentRequest
<1>3. IF <<"client", "outbuf">> \in error THEN r = u
      ELSE Len(r) = Len(u) + 1 /\ r[Len(u) + 1] = t /\ \A i \in 1 .. Len(u) : r[i] = u[i]
  BY DEF Added
<1>7. RequestToken(l + 1)' = t
  OBVIOUS
<1> HIDE DEF u, r, t
<1>4. ASSUME NEW i \in 1 .. Len(r), i > n PROVE r[i] = RequestToken(i - n)'
  <2>1. CASE i \in 1 .. Len(u)
    <3>1. i - n <= l /\ i - n \in Int
      BY <1>1, <1>2, <2>1
    <3>2. r[i] = u[i] /\ u[i] = RequestToken(i - n)
      BY <1>2, <1>3, <1>4, <2>1
    <3>3. RequestToken(i - n)' = RequestToken(i - n)
      BY <3>1
    <3> QED
      BY <3>2, <3>3
  <2>2. CASE i \notin 1 .. Len(u)
    <3>1. <<"client", "outbuf">> \notin error /\ i = Len(u) + 1
      BY <1>1, <1>3, <1>4, <2>2
    <3>2. i - n = l + 1
      BY <1>1, <1>2, <3>1
    <3>3. r[i] = t
      BY <1>3, <3>1
    <3> QED
      BY <1>7, <3>2, <3>3
  <2> QED
    BY <2>1, <2>2
<1>5. Len(r) - n <= l + 1 /\ (<<"client", "outbuf">> \notin error => Len(r) - n = l + 1)
  BY <1>1, <1>2, <1>3
<1> QED
  BY <1>4, <1>5 DEF CurrentRequest, r

LEMMA RequestWriteStep ==
  ASSUME Inv, Next, WriteRequest \/ WriteEom
  PROVE  RequestFits'
<1> SUFFICES ASSUME NEW k,
               k = IF output_state = "writing_eom" THEN "eom" ELSE IF n_written = 0 THEN "method" ELSE "arg",
               NEW l, l = n_written
             PROVE  RequestFits'
  OBVIOUS
<1>1. /\ CanPut("client") /\ Put("client", k, call)
      /\ UNCHANGED <<wire, call, result, error, closed, server>>
      /\ \/ /\ output_state = "writing_request" /\ output_state' = "writing_request"
            /\ n_written' = n_written + 1
         \/ /\ output_state = "writing_eom" /\ output_state' = "flushing_eom"
            /\ n_written' = n_written
  BY DEF WriteRequest, WriteEom
<1>2. /\ k \in Kinds /\ call \in 1 .. MaxCalls /\ l \in Nat /\ result = "none" /\ NArgs \in Nat
  BY <1>1, RpcAssumption DEF Inv, ClientFits, DoneWhenBothAre, TypeOK, Kinds
<1>3. /\ RequestLength = l /\ RequestLength' = l + 1
      /\ \A j \in Int : j <= l => RequestToken(j)' = RequestToken(j)
  BY <1>1, <1>2 DEF RequestLength, RequestToken, EomWritten
<1>4. RequestToken(l + 1)' = [kind |-> k, call |-> call]
  BY <1>1, <1>2 DEF RequestToken
<1>5. CASE ~Serving'
  BY <1>5 DEF RequestFits
<1>6. CASE Serving'
  <2>1. Serving
    BY <1>1, <1>6 DEF Serving, server
  <2>2. PICK n \in -(NArgs + 2) .. Len(Unread("client")) : CurrentRequest(n) /\ Position(n)
    BY <2>1, RequestBegins
  <2>0. Stream("client") /\ Network /\ "client" \in Sides /\ Len(Unread("client")) \in Nat
    BY StreamsStay DEF Stream, Sides
  <2>3. /\ n \in Int /\ n >= -(NArgs + 2) /\ n <= Len(Unread("client"))
        /\ Stream("client") /\ Network /\ "client" \in Sides
    BY <1>2, <2>0, <2>2
  <2>4. /\ wire'["client"] = wire["client"]
        /\ IF <<"client", "outbuf">> \in error THEN Unread("client")' = Unread("client")
           ELSE Added(Unread("client")', Unread("client"), [kind |-> k, call |-> call])
    BY <1>1, <1>2, <2>3, PutAdds DEF Alike
  <2>5. CurrentRequest(n)'
    BY <1>1, <1>2, <1>3, <1>4, <2>2, <2>3, <2>4, RequestIsWritten
  <2>6. Position(n)'
    <3>1. /\ served' = served /\ call' = call /\ state' = state /\ n_args' = n_args
          /\ n_written <= n_written' /\ n_written \in Nat /\ n_written' \in Nat /\ ~EomWritten
      BY <1>1, <1>2 DEF server, EomWritten
    <3>2. \A i \in 1 .. Len(Unread("client")) : Unread("client")'[i] = Unread("client")[i]
      BY <2>4 DEF Added
    <3>3. CASE served < call
      <4>1. n \in 0 .. Len(wire["client"]) /\ \A i \in 1 .. n : i \in 1 .. Len(Unread("client"))
        BY <2>2, <2>3, <3>3 DEF Position, Stream
      <4> QED
        BY <2>2, <2>4, <3>1, <3>2, <3>3, <4>1 DEF Position
    <3>4. CASE ~(served < call)
      <4>1. served = call => state # "idle" /\ n <= 0 /\ -n <= n_written
        BY <2>2, <3>1 DEF Position
      <4>2. served = call => -n <= n_written'
        BY <2>3, <3>1, <4>1
      <4> QED
        BY <2>2, <3>1, <3>4, <4>1, <4>2 DEF Position
    <3> QED
      BY <3>3, <3>4
  <2> QED
    BY <2>3, <2>5, <2>6, RequestIsAt
<1> QED
  BY <1>5, <1>6

LEMMA RequestReadStep ==
  ASSUME Inv, Next, StartMethod \/ MethodReads \/ DrainRequest
  PROVE  RequestFits'
<1>1. /\ state # "idle" /\ CanPeek("server") /\ UNCHANGED <<client, outbuf, error, closed, served>>
      /\ Skip("server") \/ (state' = "exception_writer" /\ UNCHANGED wire)
  BY DEF StartMethod, MethodReads, DrainRequest, GoTo, ReportFailure, server
<1>2. /\ Network /\ Stream("client") /\ Stream("client")' /\ "server" \in Sides /\ Peer("server") = "client"
      /\ n_written \in 0 .. NArgs + 1 /\ NArgs \in Nat /\ n_args \in Nat
      /\ call \in Nat /\ served \in Nat /\ served <= call
  <2>1. /\ Network /\ Stream("client") /\ Stream("client")' /\ "server" \in Sides /\ Peer("server") = "client"
    BY StreamsStay, KnownPeers
  <2>2. /\ n_written \in 0 .. NArgs + 1 /\ NArgs \in Nat /\ n_args \in Nat
        /\ call \in Nat /\ served \in Nat /\ served <= call
    BY ThreeTypes, RpcAssumption DEF Inv, ClientTypeOK, ServerTypeOK, ServerFits
  <2> QED
    BY <2>1, <2>2
<1>3. Serving /\ "server" \notin closed /\ (state \notin Replied => served = call)
      /\ (state = "method_reader" => n_args = 0)
  BY <1>1 DEF Serving, Inv, ServerFits
<1>4. CASE state' = "exception_writer" /\ UNCHANGED wire
  <2>1. Alike("client") /\ UNCHANGED EomWritten /\ Len(wire["client"]) \in Nat
    BY <1>1, <1>2, <1>4, NothingMoves DEF client, EomWritten, Stream
  <2> QED
    BY <1>1, <1>3, <1>4, <2>1, RequestStays DEF Alike, client
<1>5. PICK n \in -(NArgs + 2) .. Len(Unread("client")) : CurrentRequest(n) /\ Position(n)
  BY <1>3, RequestBegins
<1>6. n \in Int /\ n <= Len(Unread("client")) /\ Len(Unread("client")) \in Nat
  BY <1>2, <1>5 DEF Stream
<1>7. UNCHANGED <<call, n_written, result, EomWritten>>
  BY <1>1 DEF client, EomWritten
<1>8. CASE Skip("server") /\ Peek("server") = Eof
  <2>1. PeekKind("server") = "eof" /\ wire' = wire /\ Alike("client")
    BY <1>1, <1>2, <1>8, NextToken, SkipTakes
  <2>2. CASE ~DrainRequest
    <3>1. state' = "exception_writer"
      BY <2>1, <2>2 DEF StartMethod, MethodReads, GoTo, ReportFailure
    <3> QED
      BY <1>4, <2>1, <3>1
  <2>3. CASE DrainRequest /\ <<"server", "inbuf">> \in error
    <3>1. state' = "idle"
      BY <2>1, <2>3 DEF DrainRequest, GoTo
    <3> QED
      BY <1>1, <2>3, <3>1 DEF RequestFits, Serving
  <2>4. CASE DrainRequest /\ <<"server", "inbuf">> \notin error
    <3>0. state' = "idle"
      BY <2>1, <2>4 DEF DrainRequest, GoTo
    <3>1. wire["client"] = <<>> /\ "client" \in closed
      BY <1>1, <1>2, <1>8, <2>4, NextToken DEF CanPeek
    <3>2. output_state = "output_done" /\ outbuf["client"] = <<>> /\ EomWritten
      BY <3>1 DEF Inv, ClientFits, DoneWhenBothAre, EomWritten, TypeOK
    <3>3. Unread("client") = <<>> /\ Len(wire["client"]) = 0
      BY <1>2, <3>1, <3>2 DEF Stream
    <3>4. served = call
      <4>1. ~(served < call)
        BY <1>1, <1>5, <3>3 DEF Position
      <4> QED
        BY <1>2, <4>1
    <3>5. CurrentRequest(n)'
      BY <1>1, <1>5, <1>7, <2>1 DEF CurrentRequest, RequestToken, RequestLength, Alike
    <3>6. Position(n)'
      BY <1>1, <1>2, <1>5, <1>7, <2>1, <3>0, <3>2, <3>3, <3>4 DEF Position, Alike
    <3> QED
      BY <1>2, <1>5, <1>6, <3>5, <3>6, RequestIsAt
  <2> QED
    BY <2>2, <2>3, <2>4
<1>9. CASE Skip("server") /\ Peek("server") # Eof
  <2> DEFINE u == Unread("client")
             r == Unread("client")'
             w == wire["client"]
  <2>1. /\ Taken(r, u) /\ Taken(wire'["client"], w)
        /\ Len(u) > 0 /\ PeekKind("server") = u[1].kind /\ PeekKind("server") # "eof"
    BY <1>1, <1>2, <1>9, NextToken, SkipTakes DEF PeekKind
  <2>2. /\ Len(r) = Len(u) - 1 /\ Len(wire'["client"]) = Len(w) - 1 /\ Len(w) \in Nat
        /\ \A i \in 1 .. Len(r) : r[i] = u[i + 1]
        /\ Len(w) <= Len(u)
    BY <1>2, <2>1 DEF Taken, Stream
  <2>3. PICK m \in Int : m = n - 1
    BY <1>6
  <2>4. CurrentRequest(m)'
    BY <1>1, <1>5, <1>6, <1>7, <2>1, <2>3, RequestIsRead
  <2>5. served = call =>
          /\ n <= 0 /\ -n <= n_written /\ m >= -(NArgs + 2)
          /\ u[1].call = call
          /\ u[1].kind # "eom" => -m <= n_written
          /\ u[1].kind = "eom" => r = <<>> /\ EomWritten
    <3> SUFFICES ASSUME served = call
                 PROVE  /\ n <= 0 /\ -n <= n_written /\ m >= -(NArgs + 2)
                        /\ u[1].call = call
                        /\ u[1].kind # "eom" => -m <= n_written
                        /\ u[1].kind = "eom" => r = <<>> /\ EomWritten
      OBVIOUS
    <3>1. n <= 0 /\ -n <= n_written
      BY <1>1, <1>5 DEF Position
    <3>2. u[1] = RequestToken(1 - n)
      BY <1>5, <1>6, <2>1, <3>1 DEF CurrentRequest
    <3>3. u[1].call = call /\ (u[1].kind = "eom" <=> 1 - n > n_written)
      BY <3>2 DEF RequestToken
    <3>4. u[1].kind = "eom" => EomWritten
      <4>1. 1 \in DOMAIN Unread("client")
        BY <1>2, <2>1 DEF Stream
      <4> QED
        BY <3>3, <4>1 DEF Inv, EomFits
    <3>5. Len(u) - n <= n_written + 1
      BY <1>2, <1>5 DEF CurrentRequest, RequestLength
    <3>6. u[1].kind = "eom" => r = <<>>
      <4>1. u[1].kind = "eom" => Len(r) <= 0
        <5> HIDE DEF u, r
        <5> QED
          BY <1>2, <1>6, <2>2, <3>3, <3>5 DEF u
      <4>2. r \in Seq(Tokens) /\ Len(r) \in Nat
        BY <1>2 DEF Stream
      <4> HIDE DEF u, r
      <4> QED
        BY <4>1, <4>2
    <3>7. m >= -(NArgs + 2) /\ (1 - n <= n_written => -m <= n_written)
      BY <1>2, <1>6, <2>3, <3>1
    <3> HIDE DEF u, r
    <3> QED
      BY <1>2, <1>6, <3>1, <3>3, <3>4, <3>6, <3>7
  <2>6. served < call =>
          /\ DrainRequest
          /\ n \in 1 .. Len(w) /\ m \in 0 .. Len(wire'["client"]) /\ m >= -(NArgs + 2)
          /\ \A i \in 1 .. m : r[i].call = served /\ (r[i].kind = "eom" <=> i = m)
          /\ u[1].kind = "eom" <=> m = 0
    <3> SUFFICES ASSUME served < call
                 PROVE  /\ DrainRequest
                        /\ n \in 1 .. Len(w) /\ m \in 0 .. Len(wire'["client"]) /\ m >= -(NArgs + 2)
                        /\ \A i \in 1 .. m : r[i].call = served /\ (r[i].kind = "eom" <=> i = m)
                        /\ u[1].kind = "eom" <=> m = 0
      OBVIOUS
    <3>1. DrainRequest
      BY <1>2, <1>3 DEF StartMethod, MethodReads, Replied
    <3>2. /\ n \in 0 .. Len(w) /\ n # 0
          /\ \A i \in 1 .. n : u[i].call = served /\ (u[i].kind = "eom" <=> i = n)
      BY <1>1, <1>5 DEF Position
    <3>3. n \in 1 .. Len(w) /\ m \in 0 .. Len(wire'["client"]) /\ m >= -(NArgs + 2)
      BY <1>2, <1>6, <2>2, <2>3, <3>2
    <3>4. \A i \in 1 .. m : i \in 1 .. Len(r) /\ i + 1 \in 1 .. n /\ (i + 1 = n <=> i = m)
      BY <1>6, <2>2, <2>3, <3>3
    <3>5. u[1].kind = "eom" <=> m = 0
      BY <1>6, <2>3, <3>2, <3>3
    <3>6. ASSUME NEW i \in 1 .. m
          PROVE  r[i].call = served /\ (r[i].kind = "eom" <=> i = m)
      <4>1. r[i] = u[i + 1] /\ i + 1 \in 1 .. n /\ (i + 1 = n <=> i = m)
        BY <2>2, <3>4
      <4> HIDE DEF u, r
      <4> QED
        BY <3>2, <4>1
    <3> HIDE DEF u, r, w
    <3> QED
      BY <3>1, <3>3, <3>5, <3>6
  <2>7. DrainRequest => (state' = "idle" <=> u[1].kind = "eom") /\ (state' = "idle" \/ state' = "request_drainer")
    BY <2>1 DEF DrainRequest, GoTo, server
  <2>8. CASE served < call
    <3>1. /\ served' = served /\ call' = call /\ served' # call'
          /\ m \in 0 .. Len(wire'["client"])
          /\ state' = "idle" <=> m = 0
          /\ \A i \in 1 .. m : r[i].call = served /\ (r[i].kind = "eom" <=> i = m)
      BY <1>1, <1>2, <1>7, <2>6, <2>7, <2>8
    <3>2. Position(m)'
      BY <3>1 DEF Position
    <3> QED
      BY <2>3, <2>4, <2>6, <2>8, <3>2, RequestIsAt
  <2>9. CASE served = call
    <3>1. m <= 0
      BY <1>6, <2>3, <2>5, <2>9
    <3>2. CASE DrainRequest
      <4>1. Position(m)'
        BY <1>1, <1>2, <1>7, <2>5, <2>7, <2>9, <3>1, <3>2 DEF Position
      <4> QED
        BY <2>3, <2>4, <2>5, <2>9, <4>1, RequestIsAt
    <3>3. CASE StartMethod
      <4>1. /\ state = "method_reader" /\ u[1].kind = "method" /\ n_args = 0
            /\ state' \in {"method_runner", "exception_writer"} /\ n_args' = n_args
        BY <1>3, <2>1, <3>3 DEF StartMethod, GoTo, ReportFailure
      <4>2. n = 0
        BY <1>5, <2>9, <4>1 DEF Position
      <4>3. Position(m)'
        BY <1>1, <1>2, <1>7, <2>3, <2>5, <2>9, <3>1, <4>1, <4>2 DEF Position
      <4> QED
        BY <2>3, <2>4, <2>5, <2>9, <4>3, RequestIsAt
    <3>4. CASE MethodReads
      <4>1. CASE PeekKind("server") = "arg"
        <5>1. /\ state = "method_runner" /\ u[1].kind = "arg" /\ state' = state /\ n_args' = n_args + 1
          BY <2>1, <3>4, <4>1 DEF MethodReads
        <5>2. n = -(1 + n_args)
          BY <1>5, <2>9, <5>1 DEF Position
        <5>3. m = -(1 + n_args')
          BY <1>2, <2>3, <5>1, <5>2
        <5>4. Position(m)'
          BY <1>1, <1>2, <1>7, <2>5, <2>9, <3>1, <5>1, <5>3 DEF Position
        <5> QED
          BY <2>3, <2>4, <2>5, <2>9, <5>4, RequestIsAt
      <4>2. CASE PeekKind("server") # "arg"
        BY <1>4, <3>4, <4>2 DEF MethodReads, ReportFailure, GoTo
      <4> QED
        BY <4>1, <4>2
    <3> QED
      BY <3>2, <3>3, <3>4
  <2> QED
    BY <1>2, <2>8, <2>9
<1> QED
  BY <1>1, <1>4, <1>8, <1>9

LEMMA RequestStartStep ==
  ASSUME Inv, Next, Start
  PROVE  RequestFits'
<1>1. /\ Network /\ Stream("client") /\ Stream("client")' /\ NArgs \in Nat
      /\ call \in Nat /\ served \in Nat /\ served <= call
  <2>1. call \in Nat /\ served \in Nat /\ served <= call
    BY ThreeTypes DEF Inv, ClientTypeOK, ServerTypeOK, ServerFits
  <2> QED
    BY <2>1, StreamsStay, RpcAssumption
<1>2. /\ call' = call + 1 /\ served' = served /\ state' = state /\ n_written' = 0
      /\ output_state' = "output_not_started" /\ result' = "none"
      /\ call = 0 \/ result = "ok" \/ result = "failed"
  BY DEF Start, server, Busy, Inv, TypeOK
<1>3. served' < call' /\ served' # call' /\ RequestLength' = 0
  BY <1>1, <1>2 DEF RequestLength, EomWritten
<1>0. ASSUME Unread("client")' = <<>>, state = "idle" PROVE RequestFits'
  <2>1. Len(Unread("client")') = 0 /\ Len(wire'["client"]) \in Nat
    BY <1>0, <1>1 DEF Stream
  <2>2. CurrentRequest(0)'
    BY <1>3, <2>1 DEF CurrentRequest
  <2>3. Position(0)'
    BY <1>0, <1>2, <1>3, <2>1 DEF Position
  <2> QED
    BY <1>1, <2>2, <2>3, RequestIsAt
<1>4. CASE result = "failed"
  <2>1. wire'["client"] = <<>> /\ outbuf'["client"] = <<>> /\ state = "idle"
    BY <1>4, HandlerHasReplied DEF Start, Sides
  <2> QED
    BY <1>0, <1>1, <2>1 DEF Stream
<1>5. CASE result # "failed" /\ ~Serving'
  BY <1>5 DEF RequestFits
<1>6. CASE result # "failed" /\ Serving'
  <2>1. Alike("client") /\ Serving
    BY <1>2, <1>6, NothingMoves DEF Start, network, Serving
  <2>2. PICK n \in -(NArgs + 2) .. Len(Unread("client")) : CurrentRequest(n) /\ Position(n)
    BY <2>1, RequestBegins
  <2>3. n \in Int /\ n <= Len(Unread("client")) /\ Len(Unread("client")) \in Nat
    BY <1>1, <2>2 DEF Stream
  <2>4. CASE call = 0
    <3>1. served = call /\ state = "idle"
      BY <1>1, <2>4 DEF Inv, ServerFits
    <3>2. Unread("client") = <<>>
      BY <2>2, <3>1 DEF Position
    <3> QED
      BY <1>0, <2>1, <3>1, <3>2 DEF Alike
  <2>5. CASE result = "ok"
    <3>1. served = call /\ output_state = "output_done" /\ EomWritten /\ outbuf["client"] = <<>>
      BY <2>5 DEF Inv, ReplyDrained, Answered, Complete, DoneWhenBothAre, ClientFits, EomWritten, TypeOK
    <3>2. n <= 0 /\ (state = "idle" => Unread("client") = <<>>) /\ (state # "idle" => -n <= n_written)
      BY <2>2, <3>1 DEF Position
    <3>3. PICK m \in Nat : m = Len(Unread("client"))
      BY <2>3
    <3>4. m - n = n_written + 1 /\ n_written \in Nat
      BY <2>2, <2>5, <3>1, <3>3 DEF CurrentRequest, RequestLength, Inv, TypeOK
    <3>5. state = "idle" <=> m = 0
      <4>1. state = "idle" => m = 0
        BY <3>2, <3>3
      <4>2. m = 0 /\ state # "idle" => FALSE
        BY <2>3, <3>2, <3>4
      <4> QED
        BY <4>1, <4>2
    <3>6. ASSUME NEW i \in 1 .. m
          PROVE  Unread("client")[i].call = served /\ (Unread("client")[i].kind = "eom" <=> i = m)
      <4>1. Unread("client")[i] = RequestToken(i - n)
        BY <2>2, <2>3, <3>2, <3>3, <3>6 DEF CurrentRequest
      <4>2. Unread("client")[i].call = call /\ (Unread("client")[i].kind = "eom" <=> i - n > n_written)
        BY <4>1 DEF RequestToken
      <4>3. i - n > n_written <=> i = m
        BY <2>3, <3>3, <3>4, <3>6
      <4> QED
        BY <3>1, <4>2, <4>3
    <3>7. Unread("client")' = Unread("client") /\ m = Len(wire'["client"])
      BY <1>1, <2>1, <3>1, <3>3 DEF Alike, Stream
    <3>8. CurrentRequest(m)'
      BY <1>3, <3>3, <3>7 DEF CurrentRequest
    <3>9. Position(m)'
      BY <1>2, <1>3, <3>5, <3>6, <3>7 DEF Position
    <3>10. m >= -(NArgs + 2)
      BY <1>1, <3>3
    <3> QED
      BY <3>8, <3>9, <3>10, RequestIsAt
  <2> QED
    BY <1>2, <1>6, <2>4, <2>5
<1> QED
  BY <1>4, <1>5, <1>6

LEMMA RequestErrorStep ==
  ASSUME Inv, Next, IoError("client")
  PROVE  RequestFits'
<1>1. /\ Stream("client") /\ Stream("client")' /\ Network /\ "client" \in Sides
      /\ Len(Unread("client")) \in Nat /\ Len(Unread("client")') \in Nat
  BY StreamsStay DEF Stream, Sides
<1>2. /\ wire' = wire /\ Begins(Unread("client")', Unread("client"))
      /\ Len(wire["client"]) <= Len(Unread("client")')
      /\ outbuf["client"] = <<>> => Unread("client")' = Unread("client")
      /\ Unread("client")' = Unread("client") \/ <<"client", "outbuf">> \in error'
  BY <1>1, ErrorCuts
<1>3. UNCHANGED <<client, server, closed>> /\ error \subseteq error'
  BY <1>1, ErrorCuts
<1>4. UNCHANGED <<call, n_written, result, EomWritten, state, served, n_args>> /\ (Serving' => Serving)
  BY <1>3 DEF client, server, EomWritten, Serving
<1>5. CASE ~Serving'
  BY <1>5 DEF RequestFits
<1>6. CASE Serving'
  <2>1. PICK n \in -(NArgs + 2) .. Len(Unread("client")) : CurrentRequest(n) /\ Position(n)
    BY <1>4, <1>6, RequestBegins
  <2>2. n \in Int /\ n >= -(NArgs + 2)
    BY <1>1, <2>1, RpcAssumption
  <2>3. /\ Len(Unread("client")') <= Len(Unread("client"))
        /\ \A i \in 1 .. Len(Unread("client")') :
             i \in 1 .. Len(Unread("client")) /\ Unread("client")'[i] = Unread("client")[i]
    BY <1>1, <1>2 DEF Begins
  <2>4. result = "ok" => Unread("client")' = Unread("client")
    BY <1>2 DEF Inv, DoneWhenBothAre, ClientFits, TypeOK
  <2>5. CurrentRequest(n)'
    <3>1. RequestLength' = RequestLength /\ \A j \in Int : RequestToken(j)' = RequestToken(j)
      BY <1>4 DEF RequestLength, RequestToken
    <3>2. ASSUME NEW i \in 1 .. Len(Unread("client")'), i > n
          PROVE  Unread("client")'[i] = RequestToken(i - n)'
      <4>1. Unread("client")'[i] = RequestToken(i - n) /\ i - n \in Int
        BY <2>1, <2>2, <2>3, <3>2 DEF CurrentRequest
      <4> QED
        BY <3>1, <4>1
    <3>3. Len(Unread("client")') - n <= RequestLength
      <4>1. Len(Unread("client")) - n <= RequestLength /\ RequestLength \in Int
        BY <2>1 DEF CurrentRequest, RequestLength, Inv, TypeOK
      <4> QED
        BY <1>1, <2>2, <2>3, <4>1
    <3>4. <<"client", "outbuf">> \notin error' \/ result = "ok"
            => Len(Unread("client")') - n = RequestLength
      BY <1>2, <1>3, <2>1, <2>4 DEF CurrentRequest
    <3> QED
      BY <1>3, <1>4, <3>1, <3>2, <3>3, <3>4 DEF CurrentRequest
  <2>6. Position(n)'
    <3>1. CASE served < call
      <4>1. n \in 0 .. Len(wire["client"]) /\ \A i \in 1 .. n : i \in 1 .. Len(wire["client"])
        BY <1>1, <2>1, <3>1 DEF Position, Stream
      <4> QED
        BY <1>2, <1>4, <2>1, <2>3, <3>1, <4>1 DEF Position
    <3>2. CASE ~(served < call)
      <4>1. Unread("client") = <<>> => Unread("client")' = <<>>
        BY <1>1, <2>3 DEF Stream
      <4> QED
        BY <1>4, <2>1, <3>2, <4>1 DEF Position
    <3> QED
      BY <3>1, <3>2
  <2> QED
    BY <2>2, <2>5, <2>6, RequestIsAt
<1> QED
  BY <1>5, <1>6

LEMMA RequestFitsStep ==
  ASSUME Inv, Next
  PROVE  RequestFits'
<1>1. /\ Network /\ "client" \in Sides /\ "server" \in Sides
      /\ Peer("client") = "server" /\ Peer("server") = "client"
      /\ Len(wire["client"]) \in Nat /\ NArgs \in Nat
  BY StreamsStay, KnownPeers, RpcAssumption DEF Stream
<1>0. ASSUME Alike("client"), UNCHANGED <<call, n_written, EomWritten, server>>,
             result' = "ok" => result = "ok" \/ <<"client", "outbuf">> \notin error,
             error \subseteq error', "server" \in closed => "server" \in closed'
      PROVE  RequestFits'
  <2>1. Serving' => Serving
    BY <1>0 DEF Serving, server
  <2> QED
    BY <1>0, <1>1, <2>1, RequestStays DEF Alike, server
<1>2. CASE StartRequest \/ OnReplyRead \/ OnRequestWritten \/ OnRequestError
  <2>1. UNCHANGED <<wire, outbuf, error, closed, call, n_written, EomWritten, result, server>>
    BY <1>2 DEF StartRequest, OnReplyRead, OnRequestWritten, OnRequestError, network, EomWritten
  <2> QED
    BY <1>0, <2>1, NothingMoves
<1>3. CASE ReadValue \/ OnReplyError \/ DrainMessage
  <2>1. /\ Skip("client") \/ UNCHANGED wire
        /\ UNCHANGED <<outbuf, error, call, n_written, EomWritten, server>>
        /\ result' = "ok" => result = "ok" \/ <<"client", "outbuf">> \notin error
        /\ closed \subseteq closed'
    BY <1>3 DEF ReadValue, OnReplyError, DrainMessage, SkipOutput, EomWritten, DoneIf, OnDone
  <2>2. Alike("client")
    BY <1>1, <2>1, SkipTakes, NothingMoves
  <2> QED
    BY <1>0, <2>1, <2>2
<1>4. CASE OnEomWritten
  <2>1. /\ UNCHANGED <<wire, outbuf, error, call, n_written, EomWritten, server>>
        /\ result' = "ok" => result = "ok" \/ <<"client", "outbuf">> \notin error
        /\ closed \subseteq closed'
    BY <1>4 DEF OnEomWritten, EomWritten, DoneIf, OnDone
  <2> QED
    BY <1>0, <2>1, NothingMoves
<1>5. CASE StartHandler
  <2>1. served < call /\ served' = call /\ RequestAfter(0)
    BY <1>5, RequestIsNew
  <2>2. /\ state' = "method_reader" /\ UNCHANGED <<client, network>>
    BY <1>5 DEF StartHandler
  <2>3. CurrentRequest(0)
    BY <2>1, StreamsStay, TwoParts
  <2>4. Alike("client") /\ UNCHANGED <<call, n_written, EomWritten, error, result>>
    BY <2>2, NothingMoves DEF client, network, EomWritten
  <2>5. CurrentRequest(0)'
    BY <2>3, <2>4 DEF CurrentRequest, RequestToken, RequestLength, Alike
  <2>6. Position(0)'
    <3>1. n_written \in Nat /\ call \in Nat
      BY DEF Inv, TypeOK
    <3> QED
      BY <2>1, <2>2, <2>4, <3>1 DEF Position
  <2> QED
    BY <1>1, <2>5, <2>6, RequestIsAt
<1>6. CASE DropClient \/ Interrupt
  <2>1. "server" \in closed'
    BY <1>6 DEF DropClient, Interrupt
  <2> QED
    BY <2>1 DEF RequestFits, Serving
<1>7. ASSUME Alike("client"), UNCHANGED <<client, error, closed, served, n_args>>,
             state # "idle", state' # "idle", state' # "method_reader",
             state' \in {"method_runner", "eom_checker"} => state \in {"method_runner", "eom_checker"}
      PROVE  RequestFits'
  <2>1. (Serving' => Serving) /\ UNCHANGED <<call, n_written, EomWritten, result>>
    BY <1>7 DEF Serving, client, EomWritten
  <2> QED
    BY <1>1, <1>7, <2>1, RequestStays DEF Alike
<1>8. CASE OnMethodReaderFailure \/ OnMethodSucceeded \/ OnMethodFailure \/ CheckEom \/ OnReplyEomWritten
  <2>1. /\ UNCHANGED <<client, wire, outbuf, error, closed, served, n_args>>
        /\ state # "idle" /\ state' # "idle" /\ state' # "method_reader"
        /\ state' \in {"method_runner", "eom_checker"} => state \in {"method_runner", "eom_checker"}
    BY <1>8 DEF OnMethodReaderFailure, OnMethodSucceeded, OnMethodFailure, CheckEom, OnReplyEomWritten,
       GoTo, ReportFailure, network
  <2> QED
    BY <1>7, <2>1, NothingMoves
<1>9. CASE MethodWrites \/ WriteException \/ WriteReplyEom
  <2>1. /\ UNCHANGED <<client, wire, error, closed, served, n_args>>
        /\ state # "idle" /\ state' # "idle" /\ state' # "method_reader"
        /\ state' \in {"method_runner", "eom_checker"} => state \in {"method_runner", "eom_checker"}
        /\ CanPut("server") /\ \E k \in Kinds : Put("server", k, served)
    BY <1>9 DEF MethodWrites, WriteException, WriteReplyEom, GoTo, Kinds
  <2>2. served \in 1 .. MaxCalls
    BY <2>1 DEF Inv, ServerFits, TypeOK
  <2>3. Alike("client")
    BY <1>1, <2>1, <2>2, PutAdds
  <2> QED
    BY <1>7, <2>1, <2>3
<1>10. ASSUME NEW s \in Sides, Send(s)
       PROVE  RequestFits'
  <2>1. /\ Unread(s)' = Unread(s) /\ Alike(Peer(s))
        /\ Len(wire'[s]) = Len(wire[s]) + 1
    BY <1>1, <1>10, SendKeeps DEF Added
  <2>2. Unread("client")' = Unread("client") /\ Len(wire["client"]) <= Len(wire'["client"])
    <3>1. CASE s = "client"
      BY <1>1, <2>1, <3>1
    <3>2. CASE s = "server"
      BY <1>1, <2>1, <3>2 DEF Alike
    <3> QED
      BY <3>1, <3>2 DEF Sides
  <2>3. UNCHANGED <<client, server, error, closed>>
    BY <1>10 DEF Send
  <2>4. UNCHANGED <<call, n_written, EomWritten, served, result, state, n_args>> /\ (Serving' => Serving)
    BY <2>3 DEF client, server, EomWritten, Serving
  <2> QED
    BY <2>2, <2>3, <2>4, RequestStays
<1>11. CASE IoError("server")
  <2>1. Alike("client")
    BY <1>1, <1>11, ErrorCuts
  <2>2. UNCHANGED <<client, server, closed>> /\ error \subseteq error'
    BY <1>1, <1>11, ErrorCuts
  <2> QED
    BY <1>0, <2>1, <2>2 DEF client, EomWritten
<1> QED
  BY <1>2, <1>3, <1>4, <1>5, <1>6, <1>8, <1>9, <1>10, <1>11, RequestStartStep, RequestWriteStep,
     RequestReadStep, RequestErrorStep
     DEF Next, ClientInput, ClientOutput, ServerStep, Sides

-----------------------------------------------------------------------------
(***************************************************************************)
(* The reply: the steps that read from it, write to it, and do neither.    *)
(***************************************************************************)
ClientReads == ReadValue \/ OnReplyError \/ DrainMessage
ClientQuiet ==
  StartRequest \/ OnReplyRead \/ WriteRequest \/ OnRequestWritten \/ OnRequestError \/ WriteEom \/ OnEomWritten
ServerWrites == MethodWrites \/ WriteException \/ WriteReplyEom
ServerQuiet ==
  \/ StartHandler \/ DropClient \/ StartMethod \/ OnMethodReaderFailure \/ MethodReads
  \/ OnMethodSucceeded \/ OnMethodFailure \/ CheckEom \/ OnReplyEomWritten \/ DrainRequest \/ Interrupt

LEMMA AllSteps ==
  Next => \/ Start \/ ClientReads \/ ClientQuiet \/ ServerWrites \/ ServerQuiet
          \/ \E s \in Sides : Send(s) \/ IoError(s)
BY DEF Next, ClientInput, ClientOutput, ServerStep, ClientReads, ClientQuiet, ServerWrites, ServerQuiet

LEMMA ReaderTakes ==
  ASSUME Inv, Next, ClientReads
  PROVE  \/ Alike("server") /\ PeekKind("client") = "eof"
         \/ Alike("server") /\ OnReplyError /\ UNCHANGED wire
         \/ /\ Taken(Unread("server")', Unread("server"))
            /\ Taken(wire'["server"], wire["server"])
            /\ Len(Unread("server")) > 0 /\ PeekKind("client") = Unread("server")[1].kind
            /\ <<"client", "inbuf">> \notin error
<1>1. Network /\ "client" \in Sides /\ Peer("client") = "server"
  BY StreamsStay, KnownPeers
<1>2. (Skip("client") \/ (OnReplyError /\ UNCHANGED wire)) /\ UNCHANGED outbuf
  BY DEF ClientReads, ReadValue, OnReplyError, DrainMessage
<1>3. CASE OnReplyError /\ UNCHANGED wire
  BY <1>2, <1>3, NothingMoves
<1>4. CASE Skip("client") /\ Peek("client") = Eof
  BY <1>1, <1>2, <1>4, SkipTakes, NextToken
<1>5. CASE Skip("client") /\ Peek("client") # Eof
  BY <1>1, <1>2, <1>5, SkipTakes, NextToken DEF PeekKind
<1> QED
  BY <1>2, <1>3, <1>4, <1>5

\* A handler that writes serves the current call.
LEMMA WriterAdds ==
  ASSUME Inv, Next, ServerWrites
  PROVE  /\ state \notin Replied /\ served = call /\ UNCHANGED <<client, wire, served, error, closed>>
         /\ IF <<"server", "outbuf">> \in error THEN Alike("server")
            ELSE \E k \in Kinds :
                   /\ Added(Unread("server")', Unread("server"), [kind |-> k, call |-> served])
                   /\ MethodWrites => k = "value"
                   /\ WriteException => k = "error"
                   /\ WriteReplyEom => k = "eom"
<1>1. Network /\ "server" \in Sides /\ Peer("server") = "client"
  BY StreamsStay, KnownPeers
<1>2. /\ state \notin Replied /\ UNCHANGED <<client, wire, served, error, closed>>
      /\ CanPut("server")
  BY DEF ServerWrites, MethodWrites, WriteException, WriteReplyEom, Replied, GoTo
<1>3. served = call /\ served \in 1 .. MaxCalls
  BY <1>2 DEF Inv, ServerFits, TypeOK, Replied
<1>4. ASSUME NEW k \in Kinds, Put("server", k, served)
      PROVE  IF <<"server", "outbuf">> \in error THEN Alike("server")
             ELSE Added(Unread("server")', Unread("server"), [kind |-> k, call |-> served])
  BY <1>1, <1>2, <1>3, <1>4, PutAdds
<1>5. CASE MethodWrites
  <2>1. Put("server", "value", served) /\ ~WriteException /\ ~WriteReplyEom /\ "value" \in Kinds
    BY <1>5 DEF MethodWrites, WriteException, WriteReplyEom, Kinds
  <2> QED
    BY <1>2, <1>3, <1>4, <2>1
<1>6. CASE WriteException
  <2>1. Put("server", "error", served) /\ ~MethodWrites /\ ~WriteReplyEom /\ "error" \in Kinds
    BY <1>6 DEF MethodWrites, WriteException, WriteReplyEom, Kinds
  <2> QED
    BY <1>2, <1>3, <1>4, <2>1
<1>7. CASE WriteReplyEom
  <2>1. Put("server", "eom", served) /\ ~MethodWrites /\ ~WriteException /\ "eom" \in Kinds
    BY <1>7 DEF MethodWrites, WriteException, WriteReplyEom, Kinds
  <2> QED
    BY <1>2, <1>3, <1>4, <2>1
<1> QED
  BY <1>5, <1>6, <1>7 DEF ServerWrites

LEMMA QuietStepsKeep ==
  ASSUME Inv, Next, ClientQuiet \/ ServerQuiet
  PROVE  Alike("server") /\ UNCHANGED <<error, call, n_read>>
<1>1. /\ Network /\ "client" \in Sides /\ "server" \in Sides
      /\ Peer("client") = "server" /\ Peer("server") = "client"
  BY StreamsStay, KnownPeers
<1>2. UNCHANGED <<error, call, n_read>>
  BY DEF ClientQuiet, StartRequest, OnReplyRead, WriteRequest, OnRequestWritten, OnRequestError,
     WriteEom, OnEomWritten, ServerQuiet, StartHandler, DropClient, StartMethod,
     OnMethodReaderFailure, MethodReads, OnMethodSucceeded, OnMethodFailure, CheckEom,
     OnReplyEomWritten, DrainRequest, Interrupt, network, client
<1>3. CASE UNCHANGED <<wire, outbuf>>
  BY <1>2, <1>3, NothingMoves
<1>4. CASE Skip("server") /\ UNCHANGED outbuf
  BY <1>1, <1>2, <1>4, SkipTakes
<1>5. ASSUME NEW k \in Kinds, CanPut("client"), Put("client", k, call), UNCHANGED wire,
             output_state # "output_done"
      PROVE  Alike("server")
  <2>1. call \in 1 .. MaxCalls
    BY <1>5 DEF Inv, ClientFits, TypeOK
  <2> QED
    BY <1>1, <1>5, <2>1, PutAdds
<1>6. CASE WriteRequest \/ WriteEom
  <2>1. /\ CanPut("client") /\ (\E k \in Kinds : Put("client", k, call)) /\ UNCHANGED wire
        /\ output_state # "output_done"
    BY <1>6 DEF WriteRequest, WriteEom, Kinds
  <2> QED
    BY <1>2, <1>5, <2>1
<1>7. \/ WriteRequest \/ WriteEom
      \/ Skip("server") /\ UNCHANGED outbuf
      \/ UNCHANGED <<wire, outbuf>>
  BY DEF ClientQuiet, StartRequest, OnReplyRead, OnRequestWritten, OnRequestError,
     OnEomWritten, ServerQuiet, StartHandler, DropClient, StartMethod,
     OnMethodReaderFailure, MethodReads, OnMethodSucceeded, OnMethodFailure, CheckEom,
     OnReplyEomWritten, DrainRequest, Interrupt, network
<1> QED
  BY <1>3, <1>4, <1>6, <1>7

LEMMA NetworkKeeps ==
  ASSUME Inv, Next, NEW s \in Sides, Send(s) \/ IoError(s)
  PROVE  /\ UNCHANGED <<client, server, closed>> /\ error \subseteq error'
         /\ \/ Unread("server")' = Unread("server")
            \/ <<"server", "outbuf">> \in error' /\ Begins(Unread("server")', Unread("server"))
         /\ \/ wire'["server"] = wire["server"]
            \/ \E t : Added(wire'["server"], wire["server"], t)
<1>1. /\ Network /\ Sides = {"client", "server"}
      /\ Peer("client") = "server" /\ Peer("server") = "client"
  BY StreamsStay, KnownPeers
<1>2. CASE Send(s)
  <2>1. Unread(s)' = Unread(s) /\ Alike(Peer(s)) /\ Added(wire'[s], wire[s], Head(outbuf[s]))
    BY <1>1, <1>2, SendKeeps
  <2>2. UNCHANGED <<client, server, closed, error>>
    BY <1>2 DEF Send
  <2>3. CASE s = "client"
    BY <1>1, <2>1, <2>2, <2>3 DEF Alike
  <2>4. CASE s = "server"
    BY <2>1, <2>2, <2>4
  <2> QED
    BY <1>1, <2>3, <2>4
<1>3. CASE IoError(s)
  <2>1. /\ wire' = wire /\ Alike(Peer(s)) /\ Begins(Unread(s)', Unread(s))
        /\ Unread(s)' = Unread(s) \/ <<s, "outbuf">> \in error'
    BY <1>1, <1>3, ErrorCuts
  <2>2. UNCHANGED <<client, server, closed>> /\ error \subseteq error'
    BY <1>1, <1>3, ErrorCuts
  <2>3. CASE s = "client"
    BY <1>1, <2>1, <2>2, <2>3 DEF Alike
  <2>4. CASE s = "server"
    BY <2>1, <2>2, <2>4
  <2> QED
    BY <1>1, <2>3, <2>4
<1> QED
  BY <1>2, <1>3

\* What ReplyFits says of the reply.
LEMMA ReplyIs ==
  ASSUME Inv
  PROVE  LET v == Unread("server") IN
         /\ v \in Seq(Tokens) /\ Len(v) \in Nat /\ DOMAIN v = 1 .. Len(v)
         /\ \A i \in 1 .. Len(v) :
              /\ v[i] \in Tokens /\ v[i].call = call
              /\ v[i].kind = "eom" => i = Len(v) /\ state \in Replied
         /\ served < call => v = <<>> /\ n_read = 0
         /\ call = 0 => v = <<>>
<1> DEFINE v == Unread("server")
<1>1. /\ v \in Seq(Tokens) /\ Len(v) \in Nat /\ DOMAIN v = 1 .. Len(v)
      /\ \A i \in 1 .. Len(v) : v[i] \in Tokens
  BY TypedNetwork, StreamsAre DEF Inv, Streams, Stream
<1>2. /\ \A i \in 1 .. Len(v) :
           v[i].call = call /\ (v[i].kind = "eom" => i = Len(v) /\ state \in Replied)
      /\ served < call => v = <<>> /\ n_read = 0
  BY <1>1 DEF Inv, ReplyFits
<1>3. call = 0 => v = <<>>
  <2>1. call = 0 => \A i \in 1 .. Len(v) : FALSE
    BY <1>1, <1>2 DEF Tokens
  <2> HIDE DEF v
  <2>2. v # <<>> => 1 \in 1 .. Len(v)
    BY <1>1
  <2> QED
    BY <2>1, <2>2
<1> QED
  BY <1>1, <1>2, <1>3

LEMMA RepliedStays ==
  ASSUME Inv, Next, state \in Replied, ~StartHandler
  PROVE  /\ state' \in Replied /\ UNCHANGED <<served, succeeded>>
         /\ ~Start => UNCHANGED <<n_args, n_values>>
<1> USE DEF Replied
<1>1. CASE UNCHANGED server
  BY <1>1 DEF server
<1>s. CASE Start
  BY <1>s DEF Start
<1>2. CASE ClientReads \/ ClientQuiet \/ \E s \in Sides : Send(s) \/ IoError(s)
  <2>1. UNCHANGED server
    BY <1>2 DEF ClientReads, ClientQuiet, StartRequest, ReadValue, OnReplyRead,
       OnReplyError, DrainMessage, WriteRequest, OnRequestWritten, OnRequestError, WriteEom,
       OnEomWritten, Send, IoError, InputFails, OutputFails
  <2> QED
    BY <1>1, <2>1
<1>3. CASE ServerWrites
  BY <1>3, WriterAdds
<1>4. CASE ServerQuiet
  <2>1. DropClient \/ OnReplyEomWritten \/ DrainRequest \/ Interrupt
    BY <1>4 DEF ServerQuiet, StartMethod, OnMethodReaderFailure, MethodReads, OnMethodSucceeded,
       OnMethodFailure, CheckEom
  <2> QED
    BY <1>1, <2>1 DEF DropClient, OnReplyEomWritten, DrainRequest, Interrupt, GoTo, server
<1> QED
  BY <1>s, <1>2, <1>3, <1>4, AllSteps

\* A step other than StartHandler is of a handler that serves the same call.
LEMMA SameService ==
  ASSUME Inv, Next, ~StartHandler
  PROVE  served' = served
<1>1. CASE Start \/ ClientReads \/ ClientQuiet \/ \E s \in Sides : Send(s) \/ IoError(s)
  BY <1>1 DEF Start, ClientReads, ClientQuiet, StartRequest, ReadValue, OnReplyRead,
     OnReplyError, DrainMessage, WriteRequest, OnRequestWritten, OnRequestError, WriteEom,
     OnEomWritten, Send, IoError, InputFails, OutputFails, server
<1>2. CASE ServerWrites
  BY <1>2, WriterAdds
<1>3. CASE ServerQuiet
  BY <1>3 DEF ServerQuiet, StartMethod, OnMethodReaderFailure, MethodReads, OnMethodSucceeded,
     OnMethodFailure, CheckEom, DropClient, OnReplyEomWritten, DrainRequest, Interrupt,
     GoTo, ReportFailure, server
<1> QED
  BY <1>1, <1>2, <1>3, AllSteps

LEMMA ReplyFitsStep ==
  ASSUME Inv, Next
  PROVE  ReplyFits'
<1> DEFINE v == Unread("server")
           r == Unread("server")'
<1>t. /\ r \in Seq(Tokens) /\ Len(r) \in Nat /\ DOMAIN r = 1 .. Len(r)
      /\ call \in Nat /\ served \in Nat /\ served <= call
  BY StreamsStay DEF Stream, Inv, TypeOK, ServerFits
<1>v. /\ v \in Seq(Tokens) /\ Len(v) \in Nat /\ DOMAIN v = 1 .. Len(v)
      /\ \A i \in 1 .. Len(v) :
           v[i].call = call /\ (v[i].kind = "eom" => i = Len(v) /\ state \in Replied)
      /\ served < call => v = <<>> /\ n_read = 0
      /\ call = 0 => v = <<>>
  BY ReplyIs
<1>g. ASSUME \A i \in 1 .. Len(r) : r[i].call = call' /\ (r[i].kind = "eom" => i = Len(r) /\ state' \in Replied),
             served' < call' => r = <<>> /\ n_read' = 0
      PROVE  ReplyFits'
  BY <1>g, <1>t DEF ReplyFits
<1>p. ASSUME Part(r, v), call' = call, served' = served, state \in Replied => state' \in Replied,
             served < call => n_read' = n_read
      PROVE  ReplyFits'
  <2>1. PICK d \in {0, 1} : \A i \in 1 .. Len(r) : i + d \in 1 .. Len(v) /\ r[i] = v[i + d]
    BY <1>p DEF Part
  <2> HIDE DEF r, v
  <2>2. \A i \in 1 .. Len(r) : i + d = Len(v) => i = Len(r)
    <3>1. Len(r) \in Nat /\ Len(v) \in Nat
      BY <1>t, <1>v
    <3> SUFFICES ASSUME NEW i \in 1 .. Len(r), i + d = Len(v)
                 PROVE  i = Len(r)
      OBVIOUS
    <3>2. Len(r) \in 1 .. Len(r)
      BY <3>1
    <3>3. Len(r) + d <= Len(v)
      BY <2>1, <3>1, <3>2
    <3> QED
      BY <3>1, <3>3
  <2>3. v = <<>> => r = <<>>
    <3>1. r # <<>> => 1 \in 1 .. Len(r)
      BY <1>t
    <3>2. v = <<>> => Len(v) = 0
      OBVIOUS
    <3> QED
      BY <2>1, <3>1, <3>2
  <2>4. \A i \in 1 .. Len(r) : r[i].call = call' /\ (r[i].kind = "eom" => i = Len(r) /\ state' \in Replied)
    BY <1>p, <1>v, <2>1, <2>2
  <2>5. served' < call' => r = <<>> /\ n_read' = 0
    BY <1>p, <1>v, <2>3
  <2> QED
    BY <1>g, <2>4, <2>5 DEF r
<1>q. ASSUME r = v \/ Taken(r, v) \/ Begins(r, v), call' = call, served' = served,
             state \in Replied => state' \in Replied, served < call => n_read' = n_read
      PROVE  ReplyFits'
  <2>1. Part(r, v)
    <3> HIDE DEF r, v
    <3> QED
      BY <1>q, <1>t, <1>v, PartsAre
  <2> QED
    BY <1>p, <1>q, <2>1
<1>1. CASE Start
  <2>1. call' = call + 1 /\ n_read' = 0
    BY <1>1 DEF Start
  <2>2. r = <<>>
    <3>1. CASE result = "failed"
      <4>1. wire'["server"] = <<>> /\ outbuf'["server"] = <<>>
        BY <1>1, <3>1, KnownPeers DEF Start
      <4> QED
        BY <4>1, StreamsStay DEF Stream
    <3>2. CASE result # "failed"
      <4>1. call = 0 \/ result = "ok"
        BY <1>1, <3>2 DEF Start, Busy, Inv, TypeOK
      <4>2. v = <<>>
        BY <1>v, <4>1 DEF Inv, ReplyDrained
      <4>3. Alike("server")
        BY <1>1, <3>2, NothingMoves DEF Start, network
      <4> QED
        BY <4>2, <4>3 DEF Alike
    <3> QED
      BY <3>1, <3>2
  <2>3. Len(r) = 0
    BY <2>2
  <2> HIDE DEF r
  <2>4. \A i \in 1 .. Len(r) : FALSE
    BY <2>3
  <2> QED
    BY <1>g, <2>1, <2>2, <2>4 DEF r
<1>2. CASE StartHandler
  <2>1. served' = call' /\ served < call
    BY <1>2, RequestIsNew DEF StartHandler, client
  <2>2. r = <<>>
    BY <1>2, <1>v, <2>1, QuietStepsKeep DEF ServerQuiet, Alike
  <2>3. Len(r) = 0 /\ call' \in Nat
    BY <1>2, <1>t, <2>2 DEF StartHandler, client
  <2> HIDE DEF r
  <2>4. \A i \in 1 .. Len(r) : FALSE
    BY <2>3
  <2> QED
    BY <1>g, <2>1, <2>3, <2>4 DEF r
<1>r. ASSUME ~StartHandler PROVE served' = served /\ (state \in Replied => state' \in Replied)
  BY <1>r, SameService, RepliedStays
<1>3. CASE ClientReads
  <2>1. call' = call /\ UNCHANGED server
    BY <1>3 DEF ClientReads, ReadValue, OnReplyError, DrainMessage
  <2>2. r = v \/ Taken(r, v)
    BY <1>3, ReaderTakes DEF Alike
  <2>3. served < call => n_read' = n_read
    <3>1. served < call => ~(Len(v) > 0)
      BY <1>v
    <3>2. served < call => PeekKind("client") = "eof" \/ OnReplyError
      BY <1>3, <3>1, ReaderTakes
    <3> QED
      BY <1>3, <3>2 DEF ClientReads, ReadValue, OnReplyError, DrainMessage
  <2> QED
    BY <1>q, <2>1, <2>2, <2>3 DEF server
<1>4. CASE (ClientQuiet \/ ServerQuiet) /\ ~StartHandler
  <2>1. r = v /\ UNCHANGED <<call, n_read>>
    BY <1>4, QuietStepsKeep DEF Alike
  <2> QED
    BY <1>4, <1>q, <1>r, <2>1
<1>5. CASE ServerWrites
  <2>1. /\ state \notin Replied /\ served = call /\ UNCHANGED <<client, served>>
        /\ IF <<"server", "outbuf">> \in error THEN r = v
           ELSE \E k \in Kinds :
                  /\ Added(r, v, [kind |-> k, call |-> served])
                  /\ MethodWrites => k = "value"
                  /\ WriteException => k = "error"
                  /\ WriteReplyEom => k = "eom"
    BY <1>5, WriterAdds DEF Alike
  <2>2. CASE <<"server", "outbuf">> \in error
    BY <1>q, <2>1, <2>2 DEF client
  <2>3. CASE <<"server", "outbuf">> \notin error
    <3>1. PICK k \in Kinds :
            /\ Added(r, v, [kind |-> k, call |-> served])
            /\ MethodWrites => k = "value"
            /\ WriteException => k = "error"
            /\ WriteReplyEom => k = "eom"
      BY <2>1, <2>3
    <3>2. k = "eom" => state' \in Replied
      BY <1>5, <3>1 DEF ServerWrites, WriteReplyEom, GoTo, Replied
    <3>3. /\ Len(r) = Len(v) + 1 /\ r[Len(r)].call = call /\ r[Len(r)].kind = k
          /\ \A i \in 1 .. Len(v) : r[i] = v[i]
      BY <2>1, <3>1 DEF Added
    <3>4. \A i \in 1 .. Len(v) : r[i].call = call /\ r[i].kind # "eom"
      BY <1>v, <2>1, <3>3
    <3>5. call' = call /\ ~(served' < call')
      BY <1>t, <2>1 DEF client
    <3> HIDE DEF r, v
    <3>6. \A i \in 1 .. Len(r) : i \in 1 .. Len(v) \/ i = Len(r)
      <4>1. Len(r) = Len(v) + 1 /\ Len(v) \in Nat
        BY <1>v, <3>3
      <4> QED
        BY <4>1
    <3>7. ASSUME NEW i \in 1 .. Len(r)
          PROVE  r[i].call = call' /\ (r[i].kind = "eom" => i = Len(r) /\ state' \in Replied)
      BY <3>2, <3>3, <3>4, <3>5, <3>6
    <3> QED
      BY <1>g, <3>5, <3>7 DEF r
  <2> QED
    BY <2>2, <2>3
<1>6. ASSUME NEW s \in Sides, Send(s) \/ IoError(s) PROVE ReplyFits'
  <2>1. UNCHANGED <<client, server>> /\ (r = v \/ Begins(r, v))
    BY <1>6, NetworkKeeps
  <2> QED
    BY <1>q, <2>1 DEF client, server
<1> QED
  BY <1>1, <1>2, <1>3, <1>4, <1>5, <1>6, AllSteps

\* What no step but the first of a call or a handler does.
LEMMA CallGoesOn ==
  ASSUME Inv, Next, ~Start, ~StartHandler
  PROVE  /\ UNCHANGED <<call, served>>
         /\ n_values' = IF MethodWrites THEN n_values + 1 ELSE n_values
         /\ input_state' = "reading_reply" => input_state = "reading_reply"
         /\ n_read' = IF ReadValue THEN n_read + 1 ELSE n_read
         /\ EomWritten => EomWritten' /\ n_written' = n_written
<1>0. /\ MethodWrites => ~UNCHANGED n_values
      /\ ReadValue => ~UNCHANGED n_read
  <2>1. n_read + 1 # n_read /\ n_values + 1 # n_values
    BY DEF Inv, TypeOK
  <2> QED
    BY <2>1 DEF MethodWrites, ReadValue
<1>1. CASE ClientReads
  <2>1. CASE ReadValue
    <3>1. ~MethodWrites
      BY <1>0, <2>1 DEF ReadValue, server
    <3> QED
      BY <2>1, <3>1 DEF ReadValue, server, EomWritten
  <2>2. CASE OnReplyError \/ DrainMessage
    <3>1. ~MethodWrites /\ ~ReadValue
      BY <1>0, <2>2 DEF OnReplyError, DrainMessage, server
    <3> QED
      BY <2>2, <3>1 DEF OnReplyError, DrainMessage, SkipOutput, server, EomWritten
  <2> QED
    BY <1>1, <2>1, <2>2 DEF ClientReads
<1>2. CASE ClientQuiet
  <2>1. ~MethodWrites /\ ~ReadValue
    BY <1>0, <1>2 DEF ClientQuiet, StartRequest, OnReplyRead, WriteRequest, OnRequestWritten,
       OnRequestError, WriteEom, OnEomWritten, server
  <2> QED
    BY <1>2, <2>1 DEF ClientQuiet, StartRequest, OnReplyRead, WriteRequest, OnRequestWritten,
       OnRequestError, WriteEom, OnEomWritten, SkipInput, server, EomWritten
<1>3. CASE ServerWrites
  <2>1. ~ReadValue /\ UNCHANGED <<client, served>>
    BY <1>0, <1>3, WriterAdds DEF client
  <2>2. n_values' = IF MethodWrites THEN n_values + 1 ELSE n_values
    BY <1>3 DEF ServerWrites, MethodWrites, WriteException, WriteReplyEom, GoTo
  <2> QED
    BY <2>1, <2>2 DEF client, EomWritten
<1>4. CASE ServerQuiet
  <2>1. /\ ~ReadValue /\ ~MethodWrites /\ UNCHANGED <<client, served, n_values>>
    BY <1>0, <1>4, SameService DEF ServerQuiet, StartMethod, OnMethodReaderFailure, MethodReads,
       OnMethodSucceeded, OnMethodFailure, CheckEom, DropClient, OnReplyEomWritten, DrainRequest,
       Interrupt, GoTo, ReportFailure, server, client
  <2> QED
    BY <2>1 DEF client, EomWritten
<1>5. CASE \E s \in Sides : Send(s) \/ IoError(s)
  <2>1. /\ ~ReadValue /\ ~MethodWrites /\ UNCHANGED <<client, server>>
    BY <1>0, <1>5 DEF Send, IoError, InputFails, OutputFails, server, client
  <2> QED
    BY <2>1 DEF client, server, EomWritten
<1> QED
  BY <1>1, <1>2, <1>3, <1>4, <1>5, AllSteps

\* What has been answered stays answered, until the next call.
LEMMA AnswerStays ==
  ASSUME Inv, Next, ~Start, state \in Replied \cup {"eom_writer"}, Complete
  PROVE  /\ Complete' /\ n_values' = n_values
         /\ state \in Replied => state' \in Replied
<1>1. ~StartHandler
  <2>1. served = call /\ call \in Nat
    BY DEF Complete, Inv, TypeOK
  <2> QED
    BY <2>1, RequestIsNew
<1>2. UNCHANGED <<call, served, n_written>> /\ EomWritten'
  BY <1>1, CallGoesOn DEF Complete
<1>3. UNCHANGED <<n_args, n_values, succeeded>> /\ (state \in Replied => state' \in Replied)
  <2>1. CASE state \in Replied
    BY <1>1, <2>1, RepliedStays
  <2>2. CASE state = "eom_writer"
    <3>1. CASE ClientReads \/ ClientQuiet \/ \E s \in Sides : Send(s) \/ IoError(s)
      BY <2>2, <3>1 DEF ClientReads, ClientQuiet, StartRequest, ReadValue, OnReplyRead,
         OnReplyError, DrainMessage, WriteRequest, OnRequestWritten, OnRequestError, WriteEom,
         OnEomWritten, Send, IoError, InputFails, OutputFails, server, Replied
    <3>2. CASE ServerWrites \/ ServerQuiet
      BY <2>2, <3>2 DEF ServerWrites, ServerQuiet, StartHandler, DropClient, StartMethod,
         OnMethodReaderFailure, MethodReads, MethodWrites, OnMethodSucceeded, OnMethodFailure,
         CheckEom, WriteException, WriteReplyEom, OnReplyEomWritten, DrainRequest, Interrupt,
         GoTo, server, Replied
    <3> QED
      BY <3>1, <3>2, AllSteps
  <2> QED
    BY <2>1, <2>2
<1> QED
  BY <1>2, <1>3 DEF Complete, Success

-----------------------------------------------------------------------------
(***************************************************************************)
(* What the client reads of the reply.                                     *)
(***************************************************************************)
LEMMA ReplyReadStep ==
  ASSUME Inv, Next
  PROVE  ReplyRead'
<1> DEFINE v == Unread("server")
           r == Unread("server")'
<1>t. /\ Len(r) \in Nat /\ DOMAIN r = 1 .. Len(r)
      /\ call \in Nat /\ served \in Nat /\ served <= call /\ n_read \in Nat /\ n_values \in Nat
  BY StreamsStay DEF Stream, Inv, TypeOK, ServerFits
<1>v. /\ Len(v) \in Nat /\ DOMAIN v = 1 .. Len(v)
      /\ \A i \in 1 .. Len(v) : v[i].kind = "eom" => state \in Replied
      /\ served < call => v = <<>>
  BY ReplyIs
<1>1. SUFFICES ASSUME input_state' = "reading_reply", served' = call', NEW i \in 1 .. Len(r)
               PROVE  /\ r[i].kind = "value" => n_read' + i <= n_values'
                      /\ r[i].kind = "eom" =>
                           \/ i > 1 /\ r[i - 1].kind = "error"
                           \/ n_read' + i = n_values' + 1 /\ Complete'
  BY <1>t DEF ReplyRead
<1>2. ~Start
  <2>1. Start => call' = call + 1 /\ served' = served
    BY DEF Start, server
  <2> QED
    BY <1>1, <1>t, <2>1
<1>3. ~StartHandler
  <2> SUFFICES ASSUME StartHandler PROVE FALSE
    OBVIOUS
  <2>1. r = v /\ v = <<>>
    BY <1>v, RequestIsNew, QuietStepsKeep DEF ServerQuiet, Alike
  <2>2. Len(r) = 0
    BY <2>1
  <2> HIDE DEF r
  <2> QED
    BY <1>1, <2>2
<1>4. /\ UNCHANGED <<call, served>> /\ input_state = "reading_reply" /\ served = call
      /\ n_values' = IF MethodWrites THEN n_values + 1 ELSE n_values
      /\ n_read' = IF ReadValue THEN n_read + 1 ELSE n_read
  BY <1>1, <1>2, <1>3, CallGoesOn
<1>5. \A j \in 1 .. Len(v) :
        /\ v[j].kind = "value" => n_read + j <= n_values
        /\ v[j].kind = "eom" =>
             \/ j > 1 /\ v[j - 1].kind = "error"
             \/ n_read + j = n_values + 1 /\ Complete
  BY <1>4, <1>v DEF Inv, ReplyRead
<1>6. \A j \in 1 .. Len(v) : v[j].kind = "eom" /\ Complete =>
        Complete' /\ n_values' = n_values
  <2>1. Complete /\ state \in Replied => Complete' /\ n_values' = n_values
    BY <1>2, AnswerStays
  <2> QED
    BY <1>v, <2>1
<1>7. ASSUME r = v \/ Begins(r, v), ~ReadValue
      PROVE  /\ r[i].kind = "value" => n_read' + i <= n_values'
             /\ r[i].kind = "eom" =>
                  \/ i > 1 /\ r[i - 1].kind = "error"
                  \/ n_read' + i = n_values' + 1 /\ Complete'
  <2>1. i \in 1 .. Len(v) /\ r[i] = v[i] /\ (i > 1 => r[i - 1] = v[i - 1])
    <3>1. Len(r) <= Len(v) /\ \A j \in 1 .. Len(r) : r[j] = v[j]
      BY <1>7, <1>v DEF Begins
    <3> HIDE DEF r, v
    <3>2. i > 1 => i - 1 \in 1 .. Len(r)
      BY <1>t
    <3> QED
      BY <1>t, <1>v, <3>1, <3>2
  <2>2. n_read' = n_read /\ n_values <= n_values'
    BY <1>4, <1>7, <1>t
  <2> HIDE DEF r, v
  <2>3. r[i].kind = "value" => n_read' + i <= n_values'
    <3>1. r[i].kind = "value" => n_read + i <= n_values
      BY <1>5, <2>1
    <3> QED
      BY <1>t, <1>4, <2>2, <3>1
  <2>4. r[i].kind = "eom" =>
          \/ i > 1 /\ r[i - 1].kind = "error"
          \/ n_read' + i = n_values' + 1 /\ Complete'
    BY <1>5, <1>6, <2>1, <2>2
  <2> QED
    BY <2>3, <2>4
<1>8. CASE ClientReads
  <2>1. CASE ReadValue
    <3>0. n_values + 1 # n_values
      BY <1>t
    <3>1. PeekKind("client") = "value" /\ ~OnReplyError /\ ~MethodWrites
      BY <2>1, <1>4, <1>1, <3>0 DEF ReadValue, OnReplyError, MethodWrites, server
    <3>2. Taken(r, v) /\ Len(v) > 0 /\ v[1].kind = "value"
      BY <1>8, <3>1, ReaderTakes
    <3>3. n_read' = n_read + 1 /\ n_values' = n_values
      BY <1>4, <2>1, <3>1
    <3>4. Len(r) = Len(v) - 1 /\ \A j \in 1 .. Len(r) : r[j] = v[j + 1]
      BY <3>2 DEF Taken
    <3> HIDE DEF r, v
    <3>5. i + 1 \in 1 .. Len(v) /\ r[i] = v[i + 1] /\ (i > 1 => r[i - 1] = v[i])
      <4>1. i > 1 => i - 1 \in 1 .. Len(r) /\ (i - 1) + 1 = i
        BY <1>t
      <4>2. i + 1 \in 1 .. Len(v)
        BY <1>t, <1>v, <3>4
      <4> QED
        BY <3>4, <4>1, <4>2
    <3>6. r[i].kind = "value" => n_read' + i <= n_values'
      <4>1. r[i].kind = "value" => n_read + (i + 1) <= n_values
        BY <1>5, <3>5
      <4> QED
        BY <1>t, <3>3, <4>1
    <3>7. r[i].kind = "eom" =>
            \/ i > 1 /\ r[i - 1].kind = "error"
            \/ n_read' + i = n_values' + 1 /\ Complete'
      <4> SUFFICES ASSUME r[i].kind = "eom"
                   PROVE  \/ i > 1 /\ r[i - 1].kind = "error"
                          \/ n_read' + i = n_values' + 1 /\ Complete'
        OBVIOUS
      <4>1. v[i + 1].kind = "eom" /\ (i + 1) - 1 = i
        BY <3>5
      <4>2. \/ v[i].kind = "error"
            \/ n_read + (i + 1) = n_values + 1 /\ Complete
        BY <1>5, <3>5, <4>1
      <4>3. CASE v[i].kind = "error"
        <5>1. i # 1
          BY <3>2, <4>3
        <5> QED
          BY <3>5, <4>3, <5>1
      <4>4. CASE n_read + (i + 1) = n_values + 1 /\ Complete
        <5>1. Complete'
          BY <1>6, <3>5, <4>1, <4>4
        <5>2. n_read' + i = n_values' + 1
          BY <1>t, <3>3, <4>4
        <5> QED
          BY <5>1, <5>2
      <4> QED
        BY <4>2, <4>3, <4>4
    <3> QED
      BY <3>6, <3>7 DEF r
  <2>2. CASE OnReplyError \/ DrainMessage
    <3>1. input_state' # "reading_reply"
      BY <2>2 DEF OnReplyError, DrainMessage
    <3> QED
      BY <1>1, <3>1
  <2> QED
    BY <1>8, <2>1, <2>2 DEF ClientReads
<1>9. CASE ClientQuiet \/ ServerQuiet
  <2>1. r = v /\ UNCHANGED n_read
    BY <1>9, QuietStepsKeep DEF Alike
  <2>2. ~ReadValue
    BY <1>4, <1>t, <2>1
  <2> QED
    BY <1>7, <2>1, <2>2
<1>10. CASE \E s \in Sides : Send(s) \/ IoError(s)
  <2>1. UNCHANGED client /\ (r = v \/ Begins(r, v))
    BY <1>10, NetworkKeeps
  <2>2. ~ReadValue
    BY <1>4, <1>t, <2>1 DEF client
  <2> QED
    BY <1>7, <2>1, <2>2
<1>11. CASE ServerWrites
  <2>1. /\ state \notin Replied /\ UNCHANGED client
        /\ IF <<"server", "outbuf">> \in error THEN r = v
           ELSE \E k \in Kinds :
                  /\ Added(r, v, [kind |-> k, call |-> served])
                  /\ MethodWrites => k = "value"
                  /\ WriteException => k = "error"
                  /\ WriteReplyEom => k = "eom"
    BY <1>11, WriterAdds DEF Alike
  <2>2. ~ReadValue /\ n_read' = n_read
    BY <1>4, <1>t, <2>1 DEF client
  <2>3. CASE <<"server", "outbuf">> \in error
    BY <1>7, <2>1, <2>2, <2>3
  <2>4. CASE <<"server", "outbuf">> \notin error
    <3>1. PICK k \in Kinds :
            /\ Added(r, v, [kind |-> k, call |-> served])
            /\ MethodWrites => k = "value"
            /\ WriteException => k = "error"
            /\ WriteReplyEom => k = "eom"
      BY <2>1, <2>4
    <3>2. /\ Len(r) = Len(v) + 1 /\ r[Len(r)].kind = k
          /\ \A j \in 1 .. Len(v) : r[j] = v[j]
      BY <3>1 DEF Added
    <3>3. \/ n_read + Len(v) = n_values /\ (state = "eom_writer" => Complete)
          \/ state = "eom_writer" /\ v # <<>> /\ Last(v).kind = "error"
      BY <1>4, <2>1, <2>4 DEF Inv, ReplyWritten
    <3> HIDE DEF r, v
    <3>4. CASE i \in 1 .. Len(v)
      <4>1. v[i].kind # "eom" /\ r[i] = v[i] /\ n_values <= n_values'
        BY <1>t, <1>v, <1>4, <2>1, <3>2, <3>4
      <4>2. r[i].kind = "value" => n_read' + i <= n_values'
        <5>1. r[i].kind = "value" => n_read + i <= n_values
          BY <1>5, <3>4, <4>1
        <5> QED
          BY <1>t, <1>4, <2>2, <4>1, <5>1
      <4> QED
        BY <4>1, <4>2 DEF r
    <3>5. CASE i = Len(r)
      <4>0. i = Len(v) + 1
        BY <3>2, <3>5
      <4>1. CASE MethodWrites
        <5>1. k = "value" /\ state # "eom_writer" /\ n_values' = n_values + 1
          BY <1>4, <3>1, <4>1 DEF MethodWrites
        <5>2. n_read' + i = n_values'
          BY <1>t, <1>v, <2>2, <3>3, <4>0, <5>1
        <5>3. n_values' \in Nat /\ n_read' + i <= n_values'
          BY <1>t, <5>1, <5>2
        <5> QED
          BY <3>2, <3>5, <5>1, <5>3 DEF r
      <4>2. CASE WriteException
        BY <3>1, <3>2, <3>5, <4>2 DEF r
      <4>3. CASE WriteReplyEom
        <5>1. k = "eom" /\ state = "eom_writer"
          BY <3>1, <4>3 DEF WriteReplyEom
        <5>2. CASE n_read + Len(v) = n_values /\ Complete
          <6>1. Complete' /\ n_values' = n_values
            BY <1>2, <5>1, <5>2, AnswerStays
          <6>2. n_read' + i = n_values' + 1
            BY <1>t, <1>v, <2>2, <4>0, <5>2, <6>1
          <6> QED
            BY <3>2, <3>5, <5>1, <6>1, <6>2 DEF r
        <5>3. CASE v # <<>> /\ Last(v).kind = "error"
          <6>1. Last(v) = v[Len(v)]
            BY DEF Last
          <6>2. Len(v) > 0
            BY <5>3, ReplyIs DEF v
          <6>3. i > 1 /\ i - 1 = Len(v) /\ Len(v) \in 1 .. Len(v)
            BY <1>v, <4>0, <6>2
          <6>4. r[i - 1].kind = "error"
            BY <3>2, <5>3, <6>1, <6>3
          <6> QED
            BY <3>2, <3>5, <5>1, <6>3, <6>4 DEF r
        <5> QED
          BY <3>3, <5>1, <5>2, <5>3
      <4> QED
        BY <1>11, <4>1, <4>2, <4>3 DEF ServerWrites
    <3>6. i \in 1 .. Len(v) \/ i = Len(r)
      <4>1. Len(r) = Len(v) + 1 /\ Len(v) \in Nat
        BY <1>v, <3>2
      <4> QED
        BY <4>1
    <3> QED
      BY <3>4, <3>5, <3>6
  <2> QED
    BY <2>3, <2>4
<1> QED
  BY <1>2, <1>8, <1>9, <1>10, <1>11, AllSteps

-----------------------------------------------------------------------------
(***************************************************************************)
(* What the handler writes of the reply.                                   *)
(***************************************************************************)
\* The handler that finds the EOM of the request has read all of it.
LEMMA RequestIsWhole ==
  ASSUME Inv, CheckEom, PeekKind("server") = "eom"
  PROVE  Complete
<1> DEFINE u == Unread("client")
<1>1. Network /\ Stream("client") /\ Peek("server") # Eof /\ "server" \in Sides /\ Peer("server") = "client"
  BY TypedNetwork, StreamsAre, KnownPeers, NextToken DEF Inv, Streams
<1>2. Len(u) > 0 /\ Len(u) \in Nat /\ DOMAIN u = 1 .. Len(u) /\ Peek("server") = u[1]
  BY <1>1, NextToken DEF Stream
<1>3. u[1].kind = "eom" /\ 1 \in DOMAIN u
  BY <1>2 DEF PeekKind
<1>4. state = "eom_checker"
  BY DEF CheckEom
<1>5. served = call /\ Success(call) /\ Serving
  BY <1>4 DEF Inv, ServerFits, Serving, Replied
<1>6. PICK n \in -(NArgs + 2) .. Len(u) : RequestAfter(n)
  BY <1>5 DEF Inv, RequestFits
<1>7. n = -(1 + n_args) /\ n_args \in Nat /\ n_written \in Nat
  BY <1>4, <1>5, <1>6 DEF RequestAfter, Inv, TypeOK
<1>8. u[1] = RequestToken(1 - n)
  <2>1. 1 > n
    BY <1>7
  <2> QED
    BY <1>3, <1>6, <2>1 DEF RequestAfter
<1>9. u[1].call = call /\ 1 - n > n_written
  BY <1>3, <1>8 DEF RequestToken
<1>10. EomWritten
  BY <1>3, <1>9 DEF Inv, EomFits
<1>11. Len(u) - n <= n_written + 1
  BY <1>6, <1>10 DEF RequestAfter, RequestLength
<1>12. n_args = n_written - 1
  <2> HIDE DEF u
  <2> QED
    BY <1>2, <1>7, <1>9, <1>11
<1> QED
  BY <1>5, <1>10, <1>12 DEF Complete

LEMMA ReplyWrittenStep ==
  ASSUME Inv, Next
  PROVE  ReplyWritten'
<1> DEFINE v == Unread("server")
           r == Unread("server")'
           Fine == \/ n_read' + Len(r) = n_values' /\ (state' = "eom_writer" => Complete')
                   \/ state' = "eom_writer" /\ r # <<>> /\ Last(r).kind = "error"
<1>t. /\ Len(r) \in Nat /\ call \in Nat /\ n_read \in Nat /\ n_values \in Nat
  BY StreamsStay DEF Stream, Inv, TypeOK
<1>v. Len(v) \in Nat /\ (served < call => v = <<>> /\ n_read = 0)
  BY ReplyIs
<1>1. SUFFICES ASSUME input_state' = "reading_reply", <<"server", "outbuf">> \notin error', state' \notin Replied
               PROVE  Fine
  BY DEF ReplyWritten
<1>2. ~Start
  <2>1. Start => state' = state /\ state \in Replied
    BY HandlerHasReplied DEF Start, server
  <2> QED
    BY <1>1, <2>1
<1>3. CASE StartHandler
  <2>1. r = v /\ v = <<>> /\ n_read' = 0
    BY <1>3, <1>v, RequestIsNew, QuietStepsKeep DEF ServerQuiet, Alike
  <2>2. Len(r) = 0
    BY <2>1
  <2>3. n_values' = 0 /\ state' = "method_reader"
    BY <1>3 DEF StartHandler
  <2> HIDE DEF r
  <2> QED
    BY <2>1, <2>2, <2>3
<1>4. CASE ~StartHandler
  <2>1. /\ UNCHANGED <<call, served>> /\ input_state = "reading_reply"
        /\ n_values' = IF MethodWrites THEN n_values + 1 ELSE n_values
        /\ n_read' = IF ReadValue THEN n_read + 1 ELSE n_read
    BY <1>1, <1>2, <1>4, CallGoesOn
  <2>2. state \notin Replied
    BY <1>1, <1>4, RepliedStays
  <2>s. ~(n_read + 1 = n_read) /\ ~(n_values + 1 = n_values)
    BY <1>t
  <2>a. ASSUME state = "eom_writer", Complete
        PROVE  Complete' /\ n_values' = n_values
    BY <1>2, <2>a, AnswerStays
  <2>3. CASE ReadValue
    <3>1. PeekKind("client") = "value" /\ ~OnReplyError /\ UNCHANGED <<state, n_values, error>>
      BY <2>1, <1>1, <2>3 DEF ReadValue, OnReplyError, server
    <3>2. Taken(r, v) /\ Len(v) > 0 /\ v[1].kind = "value"
      BY <2>3, <3>1, ReaderTakes DEF ClientReads
    <3>3. \/ n_read + Len(v) = n_values /\ (state = "eom_writer" => Complete)
          \/ state = "eom_writer" /\ v # <<>> /\ Last(v).kind = "error"
      BY <1>1, <2>1, <2>2, <3>1 DEF Inv, ReplyWritten
    <3>4. Len(r) = Len(v) - 1 /\ \A j \in 1 .. Len(r) : r[j] = v[j + 1]
      BY <3>2 DEF Taken
    <3> HIDE DEF r, v
    <3>5. CASE n_read + Len(v) = n_values /\ (state = "eom_writer" => Complete)
      <4>1. n_read' = n_read + 1 /\ n_values' = n_values /\ Len(r) = Len(v) - 1
        BY <2>1, <2>3, <3>1, <3>4
      <4>2. n_read' + Len(r) = n_read + Len(v)
        BY <1>t, <1>v, <4>1
      <4>3. n_read' + Len(r) = n_values'
        BY <3>5, <4>1, <4>2
      <4> QED
        BY <2>a, <3>1, <3>5, <4>3
    <3>6. CASE state = "eom_writer" /\ v # <<>> /\ Last(v).kind = "error"
      <4>1. Last(v) = v[Len(v)] /\ Last(r) = r[Len(r)]
        BY DEF Last
      <4>2. Len(v) # 1
        BY <3>2, <3>6, <4>1
      <4>3. Len(r) \in 1 .. Len(r) /\ Len(r) + 1 = Len(v) /\ Len(r) # 0
        BY <1>t, <1>v, <3>2, <3>4, <4>2
      <4>4. r # <<>>
        BY <4>3
      <4>5. Last(r).kind = "error"
        BY <3>4, <3>6, <4>1, <4>3
      <4> QED
        BY <3>1, <3>6, <4>4, <4>5
    <3> QED
      BY <3>3, <3>5, <3>6
  <2>4. CASE OnReplyError \/ DrainMessage
    <3>1. input_state' # "reading_reply"
      BY <2>4 DEF OnReplyError, DrainMessage
    <3> QED
      BY <1>1, <3>1
  <2>k. ASSUME r = v, UNCHANGED <<n_read, n_values, state>>, error \subseteq error'
        PROVE  Fine
    <3>1. \/ n_read + Len(v) = n_values /\ (state = "eom_writer" => Complete)
          \/ state = "eom_writer" /\ v # <<>> /\ Last(v).kind = "error"
      BY <1>1, <2>1, <2>2, <2>k DEF Inv, ReplyWritten
    <3> HIDE DEF r, v
    <3> QED
      BY <2>a, <2>k, <3>1
  <2>5. CASE ClientQuiet
    <3>1. r = v /\ UNCHANGED <<error, n_read>>
      BY <2>5, QuietStepsKeep DEF Alike
    <3>2. UNCHANGED server
      BY <2>5 DEF ClientQuiet, StartRequest, OnReplyRead, WriteRequest, OnRequestWritten,
         OnRequestError, WriteEom, OnEomWritten
    <3> QED
      BY <2>k, <3>1, <3>2 DEF server
  <2>6. CASE \E s \in Sides : Send(s) \/ IoError(s)
    <3>1. /\ UNCHANGED <<client, server>> /\ error \subseteq error'
          /\ r = v \/ <<"server", "outbuf">> \in error'
      BY <2>6, NetworkKeeps
    <3> QED
      BY <1>1, <2>k, <3>1 DEF client, server
  <2>7. CASE ServerQuiet
    <3>1. r = v /\ UNCHANGED <<error, n_read>>
      BY <2>7, QuietStepsKeep DEF Alike
    <3>2. /\ state # "eom_writer" /\ ~MethodWrites
          /\ state' = "eom_writer" => CheckEom /\ PeekKind("server") = "eom"
      <4>1. state # "eom_writer" /\ n_values' = n_values
        BY <1>4, <2>2, <2>7, <1>1 DEF ServerQuiet, DropClient, StartMethod, OnMethodReaderFailure, MethodReads,
           OnMethodSucceeded, OnMethodFailure, CheckEom, OnReplyEomWritten, DrainRequest, Interrupt,
           GoTo, ReportFailure, Replied, server
      <4>2. ~MethodWrites
        BY <2>s, <4>1 DEF MethodWrites
      <4>3. state' = "eom_writer" => CheckEom /\ PeekKind("server") = "eom"
        BY <1>4, <2>7, <4>1 DEF ServerQuiet, DropClient, StartMethod, OnMethodReaderFailure, MethodReads,
           OnMethodSucceeded, OnMethodFailure, CheckEom, OnReplyEomWritten, DrainRequest, Interrupt,
           GoTo, ReportFailure, server
      <4> QED
        BY <4>1, <4>2, <4>3
    <3>3. n_read + Len(v) = n_values
      BY <1>1, <2>1, <2>2, <3>1, <3>2 DEF Inv, ReplyWritten
    <3>4. state' = "eom_writer" => Complete'
      <4> SUFFICES ASSUME state' = "eom_writer" PROVE Complete'
        OBVIOUS
      <4>1. CheckEom /\ Complete
        BY <3>2, RequestIsWhole
      <4>2. UNCHANGED <<client, served, n_args, n_values, succeeded>>
        BY <4>1 DEF CheckEom, GoTo, ReportFailure
      <4> QED
        BY <4>1, <4>2 DEF Complete, Success, client, EomWritten
    <3>5. n_read' + Len(r) = n_values'
      BY <2>1, <3>1, <3>2, <3>3
    <3> QED
      BY <3>4, <3>5
  <2>8. CASE ServerWrites
    <3>1. /\ UNCHANGED <<client, error>>
          /\ IF <<"server", "outbuf">> \in error THEN TRUE
             ELSE \E k \in Kinds :
                    /\ Added(r, v, [kind |-> k, call |-> served])
                    /\ MethodWrites => k = "value"
                    /\ WriteException => k = "error"
                    /\ WriteReplyEom => k = "eom"
      BY <2>8, WriterAdds
    <3>2. PICK k \in Kinds :
            /\ Added(r, v, [kind |-> k, call |-> served])
            /\ MethodWrites => k = "value"
            /\ WriteException => k = "error"
            /\ WriteReplyEom => k = "eom"
      BY <1>1, <3>1
    <3>3. Len(r) = Len(v) + 1 /\ r[Len(r)].kind = k
      BY <3>2 DEF Added
    <3>4. n_read' = n_read
      BY <3>1 DEF client
    <3>5. CASE MethodWrites
      <4>1. state = "method_runner" /\ state' = "method_runner"
        BY <3>5 DEF MethodWrites
      <4>2. n_read + Len(v) = n_values
        BY <1>1, <2>1, <2>2, <3>1, <4>1 DEF Inv, ReplyWritten
      <4>3. n_values' = n_values + 1
        BY <2>1, <3>5
      <4> HIDE DEF r, v
      <4>4. n_read' + Len(r) = n_values'
        BY <1>t, <1>v, <3>3, <3>4, <4>2, <4>3
      <4> QED
        BY <4>1, <4>4
    <3>6. CASE WriteException
      <4>1. state' = "eom_writer"
        BY <3>6 DEF WriteException, GoTo
      <4>2. r[Len(r)].kind = "error" /\ Last(r) = r[Len(r)]
        BY <3>2, <3>3, <3>6 DEF Last
      <4>3. r # <<>>
        <5>1. Len(r) > 0
          BY <1>v, <3>3
        <5> HIDE DEF r
        <5> QED
          BY <5>1
      <4> QED
        BY <4>1, <4>2, <4>3
    <3>7. CASE WriteReplyEom
      <4>1. state' \in Replied
        BY <3>7 DEF WriteReplyEom, GoTo, Replied
      <4> QED
        BY <1>1, <4>1
    <3> QED
      BY <2>8, <3>5, <3>6, <3>7 DEF ServerWrites
  <2> QED
    BY <1>2, <2>3, <2>4, <2>5, <2>6, <2>7, <2>8, AllSteps DEF ClientReads
<1> QED
  BY <1>3, <1>4

-----------------------------------------------------------------------------
(***************************************************************************)
(* The client that has found no error in the reply.                        *)
(***************************************************************************)
Draining == input_state = "draining_message" /\ ~ex /\ <<"client", "inbuf">> \notin error

Drained ==
  \/ result = "ok"
  \/ call > 0 /\ input_state = "input_done" /\ ~ex /\ <<"client", "inbuf">> \notin error

AtEom == wire["server"] # <<>> /\ Head(wire["server"]).kind = "eom"

LEMMA DrainedParts ==
  ReplyDrained <=>
    /\ Draining => AtEom /\ Answered
    /\ Drained => Unread("server") = <<>> /\ Answered
BY DEF ReplyDrained, Draining, Drained, AtEom

LEMMA ReplyDrainedStep ==
  ASSUME Inv, Next
  PROVE  ReplyDrained'
<1> DEFINE v == Unread("server")
           r == Unread("server")'
<1>t. Stream("server") /\ Stream("server")' /\ Network
  BY StreamsStay
<1>v. /\ Len(v) \in Nat
      /\ \A i \in 1 .. Len(v) : v[i].kind = "eom" => i = Len(v) /\ state \in Replied
      /\ served < call => v = <<>>
  BY ReplyIs
<1>d. /\ Draining => AtEom /\ Answered
      /\ Drained => v = <<>> /\ Answered
  BY DrainedParts DEF Inv
<1>g. ASSUME Draining' => AtEom' /\ Answered', Drained' => r = <<>> /\ Answered'
      PROVE  ReplyDrained'
  <2>1. (ReplyDrained <=>
           /\ Draining => AtEom /\ Answered
           /\ Drained => Unread("server") = <<>> /\ Answered)'
    BY DrainedParts, PTL
  <2> QED
    BY <1>g, <2>1
<1>1. CASE Start
  <2>1. ~Draining' /\ ~Drained'
    BY <1>1 DEF Start, Draining, Drained
  <2> QED
    BY <1>g, <2>1
<1>a. ASSUME ~Start, Answered PROVE Answered'
  <2>1. state \in Replied /\ Complete /\ n_values = NValues
    BY <1>a DEF Answered
  <2>2. Complete' /\ n_values' = n_values /\ state' \in Replied
    BY <1>a, <2>1, AnswerStays
  <2> QED
    BY <2>1, <2>2 DEF Answered
<1>k. ASSUME ~Start, Draining' => Draining, Drained' => Drained,
             AtEom /\ Answered => AtEom', v = <<>> /\ Answered => r = <<>>
      PROVE  ReplyDrained'
  BY <1>a, <1>d, <1>g, <1>k
<1>b. output_state # "output_done" \/ input_state # "input_done" => result = "none" /\ call > 0
  BY DEF Inv, DoneWhenBothAre, ClientFits, TypeOK
<1>e. AtEom => Len(v) = 1 /\ state \in Replied /\ served = call /\ v[1].kind = "eom"
  <2> SUFFICES ASSUME AtEom
               PROVE  Len(v) = 1 /\ state \in Replied /\ served = call /\ v[1].kind = "eom"
    OBVIOUS
  <2>1. v[1].kind = "eom" /\ Len(wire["server"]) > 0 /\ Len(wire["server"]) \in Nat /\ Len(wire["server"]) <= Len(v)
    BY <1>t DEF AtEom, Stream
  <2>2. 1 \in 1 .. Len(v)
    BY <1>v, <2>1
  <2>3. 1 = Len(v) /\ state \in Replied
    BY <1>v, <2>1, <2>2
  <2>4. v # <<>>
    BY <2>3
  <2>5. served = call
    BY <1>v, <2>4 DEF Inv, ServerFits, TypeOK
  <2> QED
    BY <2>1, <2>3, <2>5
<1>2. CASE ReadValue
  <2>1. input_state = "reading_reply" /\ UNCHANGED <<input_state, result>>
    BY <1>2 DEF ReadValue
  <2>2. ~Draining' /\ ~Drained'
    BY <1>b, <2>1 DEF Draining, Drained
  <2> QED
    BY <1>g, <2>2
<1>3. CASE OnReplyError \/ OnRequestError
  <2>1. /\ ex' = TRUE /\ UNCHANGED result
        /\ input_state = "reading_reply" \/ output_state = "writing_request"
    BY <1>3 DEF OnReplyError, OnRequestError
  <2>2. ~Draining' /\ ~Drained'
    BY <1>b, <2>1 DEF Draining, Drained
  <2> QED
    BY <1>g, <2>2
<1>4. CASE DrainMessage
  <2>1. /\ input_state = "draining_message" /\ UNCHANGED <<ex, error>>
        /\ IF PeekKind("client") \in {"eom", "eof"}
             THEN input_state' = "input_done" /\ DoneIf(output_state = "output_done")
             ELSE UNCHANGED <<input_state, result, closed>>
    BY <1>4 DEF DrainMessage
  <2>2. ~Start
    BY <1>4, <2>1 DEF DrainMessage, Start, Inv, TypeOK
  <2>3. Draining' \/ Drained' => Draining
    BY <1>b, <2>1 DEF Draining, Drained, DoneIf, OnDone
  <2>4. ASSUME Draining
        PROVE  ~Draining' /\ r = <<>> /\ Answered'
    <3>1. AtEom /\ Answered
      BY <1>d, <2>4
    <3>2. PeekKind("client") = "eom"
      BY <2>4, <3>1, KnownPeers DEF PeekKind, Peek, AtEom, Draining
    <3>3. ~Draining'
      BY <2>1, <3>2 DEF Draining
    <3>4. Taken(r, v)
      <4>1. ~OnReplyError
        BY <2>1 DEF OnReplyError
      <4> QED
        BY <1>4, <3>2, <4>1, ReaderTakes DEF ClientReads
    <3>5. r = <<>>
      <4>1. Len(r) = 0 /\ r \in Seq(Tokens)
        <5>1. Len(r) = Len(v) - 1 /\ Len(v) = 1 /\ r \in Seq(Tokens)
          BY <1>e, <1>t, <3>1, <3>4 DEF Taken, Stream
        <5> HIDE DEF r, v
        <5> QED
          BY <5>1
      <4> HIDE DEF r
      <4> QED
        BY <4>1
    <3> QED
      BY <1>a, <2>2, <3>1, <3>3, <3>5
  <2> QED
    BY <1>g, <2>3, <2>4
<1>5. CASE OnReplyRead
  <2>1. /\ input_state = "reading_reply" /\ n_read = NValues /\ PeekKind("client") = "eom"
        /\ UNCHANGED <<ex, result, server, network>> /\ input_state' = "draining_message"
    BY <1>5 DEF OnReplyRead
  <2>2. ~Drained'
    BY <1>b, <2>1 DEF Drained
  <2>3. AtEom
    <3>1. Peek("client") # Eof
      BY <2>1 DEF PeekKind, Eof
    <3> QED
      BY <1>t, <2>1, <3>1, NextToken, KnownPeers DEF PeekKind, AtEom
  <2>4. Complete /\ n_values = NValues
    <3>1. Len(v) = 1 /\ served = call /\ v[1].kind = "eom"
      BY <1>e, <2>3
    <3>2. 1 \in DOMAIN v
      BY <1>t, <3>1 DEF Stream
    <3>3. n_read + 1 = n_values + 1 /\ Complete
      BY <2>1, <3>1, <3>2 DEF Inv, ReplyRead
    <3>4. n_read \in Nat /\ n_values \in Nat
      BY DEF Inv, TypeOK
    <3> QED
      BY <2>1, <3>3, <3>4
  <2>5. Answered
    BY <1>e, <2>3, <2>4 DEF Answered
  <2>6. ~Start
    BY <2>1 DEF Start
  <2>7. AtEom'
    BY <2>1, <2>3 DEF AtEom, network
  <2> QED
    BY <1>a, <1>g, <2>2, <2>5, <2>6, <2>7
<1>6. CASE StartRequest \/ WriteRequest \/ OnRequestWritten \/ WriteEom \/ OnEomWritten
  <2>1. /\ UNCHANGED <<call, input_state, ex>>
        /\ \/ result' = result
           \/ /\ input_state = "input_done" /\ output_state = "flushing_eom"
              /\ result' = IF ex \/ \E b \in {"inbuf", "outbuf"} : <<"client", b>> \in error
                             THEN "failed" ELSE "ok"
    BY <1>6 DEF StartRequest, WriteRequest, OnRequestWritten, WriteEom, OnEomWritten, DoneIf, OnDone
  <2>2. Alike("server") /\ UNCHANGED error
    BY <1>6, QuietStepsKeep DEF ClientQuiet
  <2>3. (Draining' => Draining) /\ (Drained' => Drained)
    BY <1>b, <2>1, <2>2 DEF Draining, Drained
  <2>4. (AtEom => AtEom') /\ r = v
    BY <2>2 DEF AtEom, Alike
  <2>5. ~Start
    <3>1. Start => call' = call + 1 /\ call \in Nat
      BY DEF Start, Inv, TypeOK
    <3> QED
      BY <2>1, <3>1
  <2> QED
    BY <1>k, <2>3, <2>4, <2>5
<1>7. ASSUME UNCHANGED client, error \subseteq error'
      PROVE  (Draining' => Draining) /\ (Drained' => Drained) /\ ~Start
  <2>1. Start => call' = call + 1 /\ call \in Nat
    BY DEF Start, Inv, TypeOK
  <2>2. ~Start
    BY <1>7, <2>1 DEF client
  <2> QED
    BY <1>7, <2>2 DEF client, Draining, Drained
<1>8. CASE ServerWrites
  <2>1. UNCHANGED <<client, error>> /\ state \notin Replied
    BY <1>8, WriterAdds
  <2>2. ~Answered
    BY <2>1 DEF Answered
  <2> QED
    BY <1>7, <1>k, <2>1, <2>2
<1>9. CASE ServerQuiet
  <2>1. UNCHANGED client
    BY <1>9 DEF ServerQuiet, StartHandler, DropClient, StartMethod,
       OnMethodReaderFailure, MethodReads, OnMethodSucceeded, OnMethodFailure, CheckEom,
       OnReplyEomWritten, DrainRequest, Interrupt
  <2>2. Alike("server") /\ UNCHANGED error
    BY <1>9, QuietStepsKeep
  <2>3. (AtEom => AtEom') /\ r = v
    BY <2>2 DEF AtEom, Alike
  <2> QED
    BY <1>7, <1>k, <2>1, <2>2, <2>3
<1>10. ASSUME NEW s \in Sides, Send(s) \/ IoError(s)
       PROVE  ReplyDrained'
  <2>1. /\ UNCHANGED client /\ error \subseteq error' /\ (r = v \/ Begins(r, v))
        /\ wire'["server"] = wire["server"] \/ \E x : Added(wire'["server"], wire["server"], x)
    BY <1>10, NetworkKeeps
  <2>2. v = <<>> => r = <<>>
    <3>1. /\ r \in Seq(Tokens) /\ Len(r) \in Nat
      BY <1>t DEF Stream
    <3>2. v = <<>> => r = v \/ Len(r) <= 0
      BY <2>1 DEF Begins
    <3> HIDE DEF r, v
    <3> QED
      BY <3>1, <3>2
  <2>3. AtEom => AtEom'
    <3>1. CASE wire'["server"] = wire["server"]
      BY <3>1 DEF AtEom
    <3>2. ASSUME NEW x, Added(wire'["server"], wire["server"], x), AtEom
          PROVE  AtEom'
      <4> DEFINE w == wire["server"]
                 w1 == wire'["server"]
      <4>1. w \in Seq(Tokens) /\ w1 \in Seq(Tokens) /\ w # <<>> /\ Head(w).kind = "eom"
        BY <1>t, <3>2 DEF Stream, AtEom
      <4>2. Len(w1) = Len(w) + 1 /\ \A i \in 1 .. Len(w) : w1[i] = w[i]
        BY <3>2 DEF Added
      <4> HIDE DEF w, w1
      <4>3. Len(w) > 0 /\ Len(w) \in Nat /\ Head(w) = w[1]
        BY <4>1
      <4>4. 1 \in 1 .. Len(w) /\ Len(w1) > 0
        BY <4>2, <4>3
      <4>5. w1 # <<>> /\ Head(w1) = w1[1]
        BY <4>1, <4>4
      <4> QED
        BY <4>1, <4>2, <4>3, <4>4, <4>5 DEF AtEom, w1
    <3> QED
      BY <2>1, <3>1, <3>2
  <2> QED
    BY <1>7, <1>k, <2>1, <2>2, <2>3
<1> QED
  BY <1>1, <1>2, <1>3, <1>4, <1>5, <1>6, <1>8, <1>9, <1>10, AllSteps DEF ClientReads, ClientQuiet

-----------------------------------------------------------------------------
(***************************************************************************)
(* What follows from the other parts.                                      *)
(***************************************************************************)
LEMMA SucceedOnce == TypeOK /\ Succeeding => AtMostOnce
<1> SUFFICES ASSUME TypeOK, Succeeding,
                    NEW i \in DOMAIN succeeded, NEW j \in DOMAIN succeeded, i # j
             PROVE  succeeded[i] # succeeded[j]
  BY DEF AtMostOnce
<1>1. /\ i \in Nat /\ j \in Nat
      /\ succeeded[i] \in Nat /\ succeeded[j] \in Nat
  <2> DEFINE S == 1 .. MaxCalls
  <2>1. succeeded \in Seq(S)
    BY DEF TypeOK
  <2> HIDE DEF S
  <2>2. DOMAIN succeeded = 1 .. Len(succeeded) /\ Len(succeeded) \in Nat
    BY <2>1
  <2>3. succeeded[i] \in S /\ succeeded[j] \in S
    BY <2>1, <2>2
  <2> QED
    BY <2>2, <2>3 DEF S
<1>2. i < j => succeeded[i] < succeeded[j]
  BY DEF Succeeding
<1>3. j < i => succeeded[j] < succeeded[i]
  BY DEF Succeeding
<1> QED
  BY <1>1, <1>2, <1>3

\* The first token in flight to a handler is of the request it serves.
LEMMA FirstIsServed ==
  TypeOK /\ ServerFits /\ RequestFits =>
    (state # "idle" /\ wire["client"] # <<>> => Head(wire["client"]).call = served)
<1> SUFFICES ASSUME TypeOK, ServerFits, RequestFits, state # "idle", wire["client"] # <<>>
             PROVE  Head(wire["client"]).call = served
  OBVIOUS
<1> DEFINE u == Unread("client")
           w == wire["client"]
<1>1. /\ Len(u) \in Nat /\ DOMAIN u = 1 .. Len(u) /\ Len(w) \in Nat /\ Len(w) <= Len(u)
      /\ Len(w) > 0 /\ Head(w) = u[1]
  BY TypedNetwork, StreamsAre DEF Streams, Stream
<1>2. Serving /\ served <= call /\ served \in Nat /\ call \in Nat
  BY DEF ServerFits, Serving, TypeOK
<1>3. PICK n \in -(NArgs + 2) .. Len(u) : RequestAfter(n)
  BY <1>2 DEF RequestFits
<1>4. 1 \in DOMAIN u
  <2> HIDE DEF u, w
  <2> QED
    BY <1>1
<1>5. CASE served < call
  <2>1. n \in 0 .. Len(w) /\ n # 0 /\ \A i \in 1 .. n : u[i].call = served
    BY <1>3, <1>5 DEF RequestAfter
  <2>2. 1 \in 1 .. n
    BY <1>1, <2>1
  <2> QED
    BY <1>1, <2>1, <2>2
<1>6. CASE served = call
  <2>1. n <= 0 /\ n \in Int
    BY <1>1, <1>3, <1>6, RpcAssumption DEF RequestAfter
  <2>2. u[1] = RequestToken(1 - n)
    <3>1. 1 > n
      BY <2>1
    <3> QED
      BY <1>3, <1>4, <3>1 DEF RequestAfter
  <2> QED
    BY <1>1, <1>6, <2>2 DEF RequestToken
<1> QED
  BY <1>2, <1>5, <1>6

LEMMA StaysInStep == TypeOK /\ ServerFits /\ RequestFits /\ ReplyFits => InStep
<1>1. ReplyFits => \A i \in DOMAIN Unread("server") : Unread("server")[i].call = call
  BY DEF ReplyFits
<1> QED
  BY <1>1, FirstIsServed DEF InStep

LEMMA EomEnds == TypeOK /\ RequestEomIsLast /\ ReplyFits => EomIsLast
<1> SUFFICES ASSUME TypeOK, RequestEomIsLast, ReplyFits, NEW s \in Sides,
                    NEW i \in DOMAIN Unread(s), NEW j \in DOMAIN Unread(s),
                    i < j, Unread(s)[i].kind = "eom"
             PROVE  Unread(s)[j].call > Unread(s)[i].call
  BY DEF EomIsLast
<1>1. Stream("client") /\ Stream("server")
  BY TypedNetwork, StreamsAre DEF Streams
<1>2. CASE s = "client"
  BY <1>1, <1>2 DEF Stream, RequestEomIsLast
<1>3. CASE s = "server"
  <2>1. i = Len(Unread("server")) /\ j \in 1 .. Len(Unread("server")) /\ Len(Unread("server")) \in Nat
    BY <1>1, <1>3 DEF Stream, ReplyFits
  <2> QED
    BY <2>1
<1> QED
  BY <1>2, <1>3 DEF Sides

-----------------------------------------------------------------------------
LEMMA InitInv == Init => Inv
<1> SUFFICES ASSUME Init PROVE Inv
  OBVIOUS
<1> USE RpcAssumption DEF Init
<1>1. TypeOK
  <2>1. ClientTypeOK
    <3>1. 0 \in 0 .. MaxCalls /\ 0 \in 0 .. NValues /\ 0 \in 0 .. NArgs + 1
      OBVIOUS
    <3> QED
      BY <3>1 DEF ClientTypeOK, InputStates, OutputStates
  <2>2. ServerTypeOK
    <3>1. 0 \in 0 .. MaxCalls /\ 0 \in 0 .. NArgs /\ 0 \in 0 .. NValues + 1
      OBVIOUS
    <3> QED
      BY <3>1 DEF ServerTypeOK, HandlerStates, Ops
  <2>3. NetworkTypeOK
    <3>1. <<>> \in Seq(Tokens) /\ Len(<<>>) = 0
      OBVIOUS
    <3> QED
      BY <3>1 DEF NetworkTypeOK
  <2> QED
    BY <2>1, <2>2, <2>3, ThreeTypes
<1>2. wire["client"] = <<>> /\ outbuf["client"] = <<>> /\ wire["server"] = <<>> /\ outbuf["server"] = <<>>
  BY DEF Sides
<1>3. Unread("client") = <<>> /\ Unread("server") = <<>>
  BY <1>1, <1>2, TypedNetwork, StreamsAre DEF Streams, Stream
<1>4. /\ DOMAIN Unread("client") = {} /\ DOMAIN Unread("server") = {}
      /\ Len(Unread("client")) = 0 /\ Len(Unread("server")) = 0
  BY <1>3
<1>5. DoneWhenBothAre
  BY DEF DoneWhenBothAre
<1>6. ClientFits
  BY <1>2 DEF ClientFits
<1>7. ServerFits
  BY DEF ServerFits, Replied
<1>8. Succeeding
  BY DEF Succeeding
<1>9. EomFits /\ RequestEomIsLast
  BY <1>4 DEF EomFits, RequestEomIsLast
<1>10. ReplyFits
  BY <1>3, <1>4 DEF ReplyFits
<1>11. ReplyRead /\ ReplyWritten /\ ReplyDrained
  BY <1>4 DEF ReplyRead, ReplyWritten, ReplyDrained, Replied
<1>12. RequestFits
  <2>1. RequestLength = 1
    BY DEF RequestLength, EomWritten
  <2>2. RequestAfter(-1)
    BY <1>3, <1>4, <2>1 DEF RequestAfter, EomWritten
  <2>3. -1 \in -(NArgs + 2) .. Len(Unread("client"))
    BY <1>4
  <2> QED
    BY <2>2, <2>3 DEF RequestFits
<1>13. AtMostOnce
  BY <1>1, <1>8, SucceedOnce
<1>14. InStep
  BY <1>1, <1>7, <1>10, <1>12, StaysInStep
<1>15. EomIsLast
  BY <1>1, <1>9, <1>10, EomEnds
<1> QED
  BY <1>1, <1>5, <1>6, <1>7, <1>8, <1>9, <1>10, <1>11, <1>12, <1>13, <1>14, <1>15 DEF Inv

LEMMA NextInv == Inv /\ Next => Inv'
<1> SUFFICES ASSUME Inv, Next PROVE Inv'
  OBVIOUS
<1>1. TypeOK'
  BY TypesStep
<1>2. (ClientFits /\ DoneWhenBothAre)'
  <2>1. Progress' /\ Emptied'
    BY ProgressStep, EmptiedStep
  <2>2. (ClientFits /\ DoneWhenBothAre <=> Progress /\ Emptied)'
    BY ClientParts, PTL
  <2> QED
    BY <2>1, <2>2
<1>3. ServerFits' /\ Succeeding'
  BY ServerFitsStep, SucceedingStep
<1>4. RequestFits'
  BY RequestFitsStep
<1>5. EomFits' /\ RequestEomIsLast'
  BY RequestEomStep
<1>6. ReplyFits' /\ ReplyRead' /\ ReplyWritten' /\ ReplyDrained'
  BY ReplyFitsStep, ReplyReadStep, ReplyWrittenStep, ReplyDrainedStep
<1>7. AtMostOnce'
  <2>1. (TypeOK /\ Succeeding => AtMostOnce)'
    BY SucceedOnce, PTL
  <2> QED
    BY <1>1, <1>3, <2>1
<1>8. InStep'
  <2>1. (TypeOK /\ ServerFits /\ RequestFits /\ ReplyFits => InStep)'
    BY StaysInStep, PTL
  <2> QED
    BY <1>1, <1>3, <1>4, <1>6, <2>1
<1>9. EomIsLast'
  <2>1. (TypeOK /\ RequestEomIsLast /\ ReplyFits => EomIsLast)'
    BY EomEnds, PTL
  <2> QED
    BY <1>1, <1>5, <1>6, <2>1
<1> QED
  BY <1>1, <1>2, <1>3, <1>4, <1>5, <1>6, <1>7, <1>8, <1>9 DEF Inv

LEMMA StutterInv == Inv /\ UNCHANGED vars => Inv'
<1> SUFFICES ASSUME Inv, UNCHANGED vars PROVE Inv'
  OBVIOUS
<1> USE DEF vars, client, server, network
<1>1. TypeOK' /\ AtMostOnce' /\ Succeeding' /\ DoneWhenBothAre' /\ ClientFits'
  BY DEF Inv, TypeOK, AtMostOnce, Succeeding, DoneWhenBothAre, ClientFits
<1>2. InStep' /\ EomIsLast'
  BY DEF Inv, InStep, EomIsLast, Unread, Busy
<1>3. ServerFits'
  BY DEF Inv, ServerFits, Success
<1>4. RequestFits' /\ EomFits'
  <2>1. /\ Unread("client")' = Unread("client") /\ wire' = wire
        /\ UNCHANGED <<call, n_written, EomWritten, served, result, error, state, n_args, Serving>>
    BY DEF Serving, EomWritten, Unread
  <2>2. RequestFits'
    <3>1. CASE ~Serving
      BY <2>1, <3>1 DEF RequestFits
    <3>2. CASE Serving
      <4>1. RequestFits
        BY DEF Inv
      <4>2. PICK n \in -(NArgs + 2) .. Len(Unread("client")) : RequestAfter(n)
        BY <3>2, <4>1 DEF RequestFits
      <4> SUFFICES RequestAfter(n)'
        BY <2>1, <4>2 DEF RequestFits
      <4>3. UNCHANGED RequestLength /\ \A k \in Int : RequestToken(k)' = RequestToken(k)
        BY <2>1 DEF RequestLength, RequestToken
      <4> QED
        BY <2>1, <4>2, <4>3 DEF RequestAfter, RequestToken, RequestLength
    <3> QED
      BY <3>1, <3>2
  <2>3. EomFits'
    BY DEF Inv, EomFits, EomWritten, Unread
  <2> QED
    BY <2>2, <2>3
<1>5. ReplyFits' /\ ReplyRead' /\ ReplyWritten' /\ ReplyDrained'
  BY DEF Inv, ReplyFits, ReplyRead, ReplyWritten, ReplyDrained, Complete, Success, Answered, EomWritten, Unread
<1> QED
  BY <1>1, <1>2, <1>3, <1>4, <1>5 DEF Inv

(***************************************************************************)
(* Whatever the method does, whatever fails on either side, and wherever   *)
(* it does, the connection stays fit for its next call: a method is run    *)
(* once at most, both sides are in step, no message is continued after its *)
(* EOM, and a call is done when its input and output both are.             *)
(***************************************************************************)
THEOREM Invariance == Spec => []Inv
<1>1. Inv /\ [Next]_vars => Inv'
  BY NextInv, StutterInv
<1> QED
  BY InitInv, <1>1, PTL DEF Spec

LEMMA InvImpliesMutual == Inv => SuccessIsMutual
<1> SUFFICES ASSUME Inv, result = "ok"
             PROVE  Last(succeeded) = call /\ n_args = NArgs /\ n_values = NValues
  BY DEF SuccessIsMutual
<1>1. Complete /\ n_values = NValues
  BY DEF Inv, ReplyDrained, Answered
<1>2. call > 0 /\ ~ex /\ output_state = "output_done"
  <2>1. call # 0 /\ call \in Nat
    BY DEF Inv, ClientFits, TypeOK
  <2> QED
    BY <2>1 DEF Inv, ClientFits, DoneWhenBothAre
<1>3. n_written = NArgs + 1
  BY <1>2 DEF Inv, ClientFits
<1>4. Last(succeeded) = call /\ n_args = n_written - 1
  BY <1>1 DEF Complete, Success
<1>5. n_args = NArgs
  BY <1>3, <1>4, RpcAssumption
<1> QED
  BY <1>1, <1>4, <1>5

(***************************************************************************)
(* The client takes a call for a success only if its method succeeded,     *)
(* after reading each argument and writing each value, no more, no less.   *)
(***************************************************************************)
THEOREM MutualSuccess == Spec => []SuccessIsMutual
BY Invariance, InvImpliesMutual, PTL

=============================================================================
