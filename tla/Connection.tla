----------------------------- MODULE Connection -----------------------------
(***************************************************************************)
(* A connection task (src/src/connection.rs and process_connection of      *)
(* src/src/main.rs): bytes arrive in chunks of any size, frames are cut    *)
(* out of the read buffer, commands are executed one after the other and   *)
(* their replies collect in a BufWriter that is flushed when the read      *)
(* buffer is empty.  A reply is the number of the frame it answers.        *)
(*                                                                         *)
(* SUBSCRIBE leaves this loop for subscriber mode, which is module PubSub. *)
(***************************************************************************)
EXTENDS Frame

CONSTANTS
    Clients,
    Streams,        \* Streams[c]: what client c may send
    CommandNames,   \* the names from_frame knows
    Panics          \* commands whose execution panics (an expiry past the end of Instant)

\* A stream is a sequence of requests, each a frame and the bytes that carry it (those of
\* write_to_buf or an inline command), and a tail of bytes that are no whole frame.

VARIABLE conns      \* the clients' sockets and the tasks that serve them

NoStream == [requests |-> <<>>, tail |-> <<>>]

Socket ==
    [pc     |-> "out",      \* where the client or its task is
     end    |-> "none",     \* how process_connection ended
     stream |-> NoStream,   \* what the client sends
     input  |-> <<>>,       \* bytes the socket has not delivered
     buffer |-> <<>>,       \* Connection::buffer
     parsed |-> <<>>,       \* the frames read so far
     outbuf |-> <<>>,       \* replies in the BufWriter
     wire   |-> <<>>]       \* replies given to the socket

Running(c) == conns[c].pc \in {"read", "command"}

SentFrames(stream) == [i \in DOMAIN stream.requests |-> stream.requests[i].frame]
SentBytes(stream) ==
    FlattenSeq([i \in DOMAIN stream.requests |-> stream.requests[i].bytes]) \o stream.tail

\* A stream is made of bytes, and no request of none.
ASSUME StreamsAssumption ==
    \A c \in Clients : \A stream \in Streams[c] :
       /\ stream.requests \in Seq(Range(stream.requests))
       /\ \A i \in DOMAIN stream.requests :
            stream.requests[i].bytes \in Seq(0 .. 255) /\ stream.requests[i].bytes # <<>>
       /\ stream.tail \in Seq(0 .. 255)

Become(c, state) == conns' = [conns EXCEPT ![c] = state]

\* process_connection returns, or is dropped: with it go the socket and both buffers.
Ended(state, why) ==
    [state EXCEPT !.pc = "uncount", !.end = why, !.input = <<>>, !.buffer = <<>>,
                  !.outbuf = <<>>]

\* flush: everything in the BufWriter goes to the socket.
Flushed(state) == [state EXCEPT !.wire = @ \o state.outbuf, !.outbuf = <<>>]

-----------------------------------------------------------------------------
(* read_frame *)

\* The socket delivers any part of what is under way.
ReadMore(c) ==
    /\ conns[c].pc = "read"
    /\ check(conns[c].buffer) = INCOMPLETE
    /\ \E n \in 1 .. Len(conns[c].input) :
         Become(c, [conns[c] EXCEPT !.buffer = @ \o SubSeq(conns[c].input, 1, n),
                                    !.input = SubSeq(@, n + 1, Len(@))])

\* parse_frame finds a whole frame, up to a cursor in the buffer.
ReadFrame(c) ==
    LET buf == conns[c].buffer
    IN  /\ conns[c].pc = "read"
        /\ check(buf) \in 0 .. Len(buf)
        /\ Become(c, [conns[c] EXCEPT !.pc = "command",
                                      !.buffer = SubSeq(buf, check(buf) + 1, Len(buf)),
                                      !.parsed = Append(@, parse(buf))])

\* Bytes that are no frame: read_frame fails, and process_connection with it.
ReadInvalid(c) ==
    /\ conns[c].pc = "read"
    /\ check(conns[c].buffer) = INVALID
    /\ Become(c, Ended(conns[c], "invalid"))

\* The client has closed the stream: between frames the replies are flushed and the task
\* ends well, inside a frame it fails.
ReadEnds(c) ==
    /\ conns[c].pc = "read"
    /\ check(conns[c].buffer) = INCOMPLETE
    /\ conns[c].input = <<>>
    /\ \/ /\ conns[c].buffer = <<>>
          /\ Become(c, Ended(Flushed(conns[c]), "closed"))
       \/ /\ conns[c].buffer # <<>>
          /\ Become(c, Ended(conns[c], "cut"))

-----------------------------------------------------------------------------
(* The command, its reply, and the flush *)

\* from_frame accepts a non-empty array that begins with the name of a command.  Which
\* arguments each command takes is left out: a command in error is an unknown one here.
IsCommand(f) ==
    /\ f.kind = "array"
    /\ f.frames # <<>>
    /\ \/ Head(f.frames).kind = "bulk" /\ Head(f.frames).bytes \in CommandNames
       \/ Head(f.frames).kind = "simple" /\ Head(f.frames).text \in CommandNames

\* The BufWriter passes on what it holds when the reply does not fit, and the reply too
\* when it is larger than the buffer.
Buffered(state, reply) ==
    {[state EXCEPT !.pc = "read", !.outbuf = Append(@, reply)],
     [Flushed(state) EXCEPT !.pc = "read", !.outbuf = <<reply>>],
     Flushed([state EXCEPT !.pc = "read", !.outbuf = Append(@, reply)])}

\* Mutant of Refuse: the error written but not flushed.
RefuseUnflushed(c) ==
    /\ conns[c].pc = "command"
    /\ ~IsCommand(Last(conns[c].parsed))
    /\ \E state \in Buffered(conns[c], Len(conns[c].parsed)) : Become(c, state)

\* from_frame fails: the error is written and flushed.
Refuse(c) ==
    /\ conns[c].pc = "command"
    /\ ~IsCommand(Last(conns[c].parsed))
    /\ \E state \in Buffered(conns[c], Len(conns[c].parsed)) : Become(c, Flushed(state))

\* The command is executed; its reply is flushed only if no more input is queued.
Execute(c) ==
    /\ conns[c].pc = "command"
    /\ IsCommand(Last(conns[c].parsed))
    /\ Last(conns[c].parsed) \notin Panics
    /\ \E state \in Buffered(conns[c], Len(conns[c].parsed)) :
         Become(c, IF conns[c].buffer = <<>> THEN Flushed(state) ELSE state)

\* The execution panics: the task unwinds and its last statements are not reached, but
\* the permit it owns is dropped.
Panic(c) ==
    /\ conns[c].pc = "command"
    /\ IsCommand(Last(conns[c].parsed))
    /\ Last(conns[c].parsed) \in Panics
    /\ Become(c, [Ended(conns[c], "panic") EXCEPT !.pc = "release"])

\* A read or a write of the socket fails.
SocketFails(c) ==
    /\ Running(c)
    /\ Become(c, Ended(conns[c], "reset"))

ConnNext(c) ==
    \/ ReadMore(c)
    \/ ReadFrame(c)
    \/ ReadInvalid(c)
    \/ ReadEnds(c)
    \/ Refuse(c)
    \/ Execute(c)
    \/ Panic(c)
    \/ SocketFails(c)

-----------------------------------------------------------------------------
(* Properties *)

\* However the stream is cut into chunks, read_frame yields the frames the client sent, in
\* order and nothing else; all of them have been read when the stream ends between two
\* frames, and when it is refused for the bytes behind them.  So check and parse agree on
\* where every frame ends, and each reads back what write_to_buf writes.
FramesAsSent ==
    \A c \in Clients :
       LET sent == SentFrames(conns[c].stream)
           tail == conns[c].stream.tail
       IN  /\ IsPrefix(conns[c].parsed, sent)
           /\ conns[c].end = "closed" => conns[c].parsed = sent /\ tail = <<>>
           /\ conns[c].end \in {"invalid", "cut"} => conns[c].parsed = sent /\ tail # <<>>

Answered(c) == IF conns[c].pc = "command" THEN Len(conns[c].parsed) - 1 ELSE Len(conns[c].parsed)

\* Replies leave in the order of the requests, one for each, and none is kept back when the
\* task waits with nothing queued or has ended well, although the loop flushes only now and
\* then and the BufWriter passes on what it likes.
AnswersComplete ==
    \A c \in Clients :
       LET all == [i \in 1 .. Answered(c) |-> i]
       IN  /\ IsPrefix(conns[c].wire, all)
           /\ \/ conns[c].pc = "read" /\ conns[c].buffer = <<>>
              \/ conns[c].end = "closed"
              => conns[c].wire = all
=============================================================================
