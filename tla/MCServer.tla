------------------------------ MODULE MCServer ------------------------------
(* Small instances of Server.  P is a command; E is an EXPIRE too far ahead.  *)
EXTENDS Server

CONSTANTS c1, c2, c3

P == <<80>>
E == <<69>>
TAB == 9
X == <<88>>

Names == {P, E}

Ping == Array(<<Bulk(P)>>)
\* An argument that holds a CRLF, and one that is empty.
Binary == Array(<<Simple(P), Bulk(<<CR, LF>>), Bulk(<<>>)>>)
FarExpire == Array(<<Bulk(E)>>)
\* Frames from_frame refuses: among them every kind of frame, nested.
Unknown == Array(<<Bulk(X)>>)
Nested == Array(<<Array(<<Integer(-12), Null>>), Error(X)>>)
Scalars == {Integer(10), Null, Array(<<>>)}

MCFrames ==
    {Ping, Binary, FarExpire, Unknown, Nested, Simple(P), Error(X), Integer(-12),
     Array(<<Integer(-12), Null>>)}
    \cup Scalars \cup {Bulk(b) : b \in {P, E, X, <<CR, LF>>, <<>>}}

MCPanics == {FarExpire}

Resp(f) == [frame |-> f, bytes |-> write_to_buf[f]]
Stream(requests, tail) == [requests |-> requests, tail |-> tail]

\* P and X, divided by a CR and a tab, after a space: an inline command.
InlinePing ==
    [frame |-> Array(<<Bulk(P), Bulk(X)>>),
     bytes |-> <<SPACE>> \o P \o <<CR, TAB>> \o X \o CRLF]

InlineExpire == [frame |-> FarExpire, bytes |-> E \o CRLF]

\* Bytes that cannot begin a frame: *-1, $x, and data not followed by CRLF.
BadTails ==
    {<<STAR>> \o MinusOne \o CRLF, <<DOLLAR>> \o X \o CRLF,
     <<DOLLAR, ZERO>> \o CRLF \o P \o CRLF}

CutTails == {<<STAR>>, <<DOLLAR, ZERO>> \o CRLF}

MCStreams ==
    c1 :> {Stream(<<Resp(Ping), Resp(Binary), InlinePing>>, <<>>),
           Stream(<<Resp(Unknown), InlinePing>>, <<>>),
           Stream(<<InlineExpire, InlinePing>>, <<>>),
           Stream(<<Resp(Nested)>>, <<>>)}
          \cup {Stream(<<InlinePing, Resp(f)>>, <<>>) : f \in Scalars}
          \cup {Stream(<<InlinePing>>, tail) : tail \in BadTails \cup CutTails}
    @@ c2 :> {Stream(<<InlineExpire>>, <<>>)}
    @@ c3 :> {NoStream}

\* Clients that connect and say nothing.
SilentStreams == [c \in Clients |-> {NoStream}]
=============================================================================
