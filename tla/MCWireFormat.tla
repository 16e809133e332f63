---------------------------- MODULE MCWireFormat ----------------------------
(* WireFormat for TLC: conversations of two messages.  The first one has   *)
(* each number of 6 bits, for a reader of 5, or each kind of value; the    *)
(* second one finds out whether the reader is still in step.               *)
EXTENDS WireFormat

Word(s)   == Text("identifier", s)
String(s) == Text("blob", s)
Typed(kind, values, peer) == Message(<<Scalar(kind)>>, values, peer)

Numbers ==
  {Typed("unsigned", <<Number("unsigned", n)>>, "cuti") : n \in 0 .. 63} \cup
  {Typed("signed", <<Number("signed", n)>>, "cuti") : n \in -32 .. 31} \cup
  {Typed("enum", <<Number("enum", n)>>, "cuti") : n \in 0 .. 40}

Others ==
  {Typed("boolean", <<Number("boolean", n)>>, "cuti") : n \in 0 .. 1} \cup
  {Typed("blob", <<String(s)>>, peer) :
     peer \in {"cuti", "other"},
     s \in {<<>>, <<"\n", "a">>, <<"a", "\"">>, <<"\\", "\n">>, <<"\t", "'">>}}

\* Optional values, of which a peer of other types sends two.
Optionals ==
  {Message(<<Type("optional", <<Scalar("unsigned")>>)>>, <<Mark("[")>> \o s \o <<Mark("]")>>, "cuti") :
     s \in {<<>>, <<Number("unsigned", 31)>>, <<Number("unsigned", 7), Number("unsigned", 8)>>}}

\* A method and its arguments: a sequence of structures, a string.
Request ==
  Message(<<Scalar("identifier"),
            Type("sequence", <<Type("structure", <<Scalar("signed"), Scalar("boolean")>>)>>),
            Scalar("blob")>>,
          <<Word(<<"f", "1">>), Mark("["),
            Mark("{"), Number("signed", -16), Number("boolean", 1), Mark("}"),
            Mark("{"), Number("signed", 12), Number("boolean", 0), Mark("}"), Mark("]"),
            String(<<"\n">>)>>,
          "cuti")

Follower ==
  Message(<<Scalar("unsigned"), Scalar("identifier")>>,
          <<Number("unsigned", 12), Word(<<"e">>)>>, "cuti")

MCConversations == {<<m, Follower>> : m \in Numbers \cup Others \cup Optionals \cup {Request}}
=============================================================================
