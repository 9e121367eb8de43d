------------------------------- MODULE Frame -------------------------------
(***************************************************************************)
(* RESP frames and their bytes (src/src/frame.rs).  A byte is its ASCII    *)
(* code.  A cursor into a buffer is the number of bytes before it; the     *)
(* functions return the cursor after what they read, or INCOMPLETE or      *)
(* INVALID.  The refusals of text that is not UTF-8 and of integers that   *)
(* overflow an i64 are left out.                                           *)
(***************************************************************************)
EXTENDS Integers, SequencesExt

CONSTANT Frames         \* the frames that are written, with their elements

CR == 13
LF == 10
SPACE == 32
STAR == 42
PLUS == 43
MINUS == 45
COLON == 58
DOLLAR == 36
ZERO == 48

Simple(text) == [kind |-> "simple", text |-> text]
Error(text) == [kind |-> "error", text |-> text]
Integer(val) == [kind |-> "integer", val |-> val]
Bulk(bytes) == [kind |-> "bulk", bytes |-> bytes]
Null == [kind |-> "null"]
Array(frames) == [kind |-> "array", frames |-> frames]

ASSUME FramesAssumption ==
    \A f \in Frames : f.kind = "array" => Range(f.frames) \subseteq Frames

INCOMPLETE == -1
INVALID == -2

-----------------------------------------------------------------------------
(* Reading *)

LineEnds(buf, pos) == {i \in pos + 1 .. Len(buf) - 1 : buf[i] = CR /\ buf[i + 1] = LF}

\* The bytes up to the first CRLF at or after pos.
get_line(buf, pos) ==
    IF LineEnds(buf, pos) = {} THEN [next |-> INCOMPLETE, line |-> <<>>]
    ELSE LET end == Min(LineEnds(buf, pos))
         IN  [next |-> end + 1, line |-> SubSeq(buf, pos + 1, end - 1)]

IsDigit(b) == b \in ZERO .. ZERO + 9
Unsigned(line) == IF line # <<>> /\ Head(line) \in {PLUS, MINUS} THEN Tail(line) ELSE line
IsDecimal(line) == Unsigned(line) # <<>> /\ \A i \in DOMAIN Unsigned(line) : IsDigit(Unsigned(line)[i])

Decimal(line) ==
    LET magnitude == FoldLeft(LAMBDA n, b : 10 * n + (b - ZERO), 0, Unsigned(line))
    IN  IF Head(line) = MINUS THEN -magnitude ELSE magnitude

\* s.parse::<i64>() of a line.
get_decimal(buf, pos) ==
    LET l == get_line(buf, pos)
    IN  CASE l.next = INCOMPLETE -> [next |-> INCOMPLETE, val |-> 0]
          [] l.next # INCOMPLETE /\ ~IsDecimal(l.line) -> [next |-> INVALID, val |-> 0]
          [] OTHER -> [next |-> l.next, val |-> Decimal(l.line)]

MinusOne == <<MINUS, ZERO + 1>>

\* $-1, the null bulk string: pos is behind the $.
CheckNull(buf, pos) ==
    LET l == get_line(buf, pos)
    IN  IF l.next = INCOMPLETE \/ l.line = MinusOne THEN l.next ELSE INVALID

\* Mutant of CheckData: the CRLF behind the data left in the buffer.
CheckDataOnly(buf, pos, len) ==
    IF Len(buf) - pos < len + 2 THEN INCOMPLETE ELSE pos + len

\* len bytes of data and their CRLF.
CheckData(buf, pos, len) ==
    CASE len < 0                  -> INVALID
      [] Len(buf) - pos < len + 2 -> INCOMPLETE
      [] OTHER                    -> IF SubSeq(buf, pos + len + 1, pos + len + 2) = <<CR, LF>>
                                     THEN pos + len + 2 ELSE INVALID

\* after[pos, n]: the cursor after n frames that start at pos.
CheckFrames(buf) ==
    LET after[pos \in 0 .. Len(buf), n \in Nat] ==
          LET tag == buf[pos + 1]
              dec == get_decimal(buf, pos + 1)
              one ==
                CASE tag \in {PLUS, MINUS} -> get_line(buf, pos + 1).next
                  [] tag = COLON           -> dec.next
                  [] tag = DOLLAR ->
                       IF Len(buf) = pos + 1 THEN INCOMPLETE
                       ELSE IF buf[pos + 2] = MINUS THEN CheckNull(buf, pos + 1)
                       ELSE IF dec.next < 0 THEN dec.next
                       ELSE CheckData(buf, dec.next, dec.val)
                  [] tag = STAR ->
                       IF dec.next < 0 THEN dec.next
                       ELSE IF dec.val < 0 THEN INVALID
                       ELSE after[dec.next, dec.val]
                  [] OTHER -> get_line(buf, pos).next       \* an inline command
          IN  IF n = 0 THEN pos
              ELSE IF pos = Len(buf) THEN INCOMPLETE
              ELSE IF one < 0 THEN one
              ELSE after[one, n - 1]
    IN  after

check(buf) == CheckFrames(buf)[0, 1]

\* The bytes that are white space on their own: tab, LF, VT, FF, CR and the space.  (Those of
\* more than one byte are left out with the rest of the text that is not ASCII.)
White == 9 .. 13 \cup {SPACE}

\* split_whitespace: the maximal runs of bytes that are not white space.
Words(line) ==
    LET starts == {i \in DOMAIN line : line[i] \notin White /\ (i = 1 \/ line[i - 1] \in White)}
        EndOf(i) == Max({j \in i .. Len(line) : \A k \in i .. j : line[k] \notin White})
        ordered == SetToSortSeq(starts, LAMBDA i, j : i < j)
    IN  [w \in DOMAIN ordered |-> Bulk(SubSeq(line, ordered[w], EndOf(ordered[w])))]

\* read[pos, n]: n frames that start at pos, and the cursor after them.
ParseFrames(buf) ==
    LET read[pos \in 0 .. Len(buf), n \in Nat] ==
          LET tag   == buf[pos + 1]
              l     == get_line(buf, pos + 1)
              dec   == get_decimal(buf, pos + 1)
              items == read[dec.next, dec.val]
              words == get_line(buf, pos)
              one ==
                CASE tag = PLUS  -> [next |-> l.next, frame |-> Simple(l.line)]
                  [] tag = MINUS -> [next |-> l.next, frame |-> Error(l.line)]
                  [] tag = COLON -> [next |-> dec.next, frame |-> Integer(dec.val)]
                  [] tag = DOLLAR /\ buf[pos + 2] = MINUS -> [next |-> l.next, frame |-> Null]
                  [] tag = DOLLAR /\ buf[pos + 2] # MINUS ->
                       [next  |-> dec.next + dec.val + 2,
                        frame |-> Bulk(SubSeq(buf, dec.next + 1, dec.next + dec.val))]
                  [] tag = STAR -> [next |-> items.next, frame |-> Array(items.frames)]
                  [] OTHER -> [next |-> words.next, frame |-> Array(Words(words.line))]
              rest == read[one.next, n - 1]
          IN  IF n = 0 THEN [next |-> pos, frames |-> <<>>]
              ELSE [next |-> rest.next, frames |-> <<one.frame>> \o rest.frames]
    IN  read

\* Frame::parse, once check has succeeded.
parse(buf) == Head(ParseFrames(buf)[0, 1].frames)

-----------------------------------------------------------------------------
(* Writing *)

Digits[n \in Nat] ==
    IF n < 10 THEN <<ZERO + n>> ELSE Append(Digits[n \div 10], ZERO + (n % 10))

to_string(n) == IF n < 0 THEN <<MINUS>> \o Digits[-n] ELSE Digits[n]

CRLF == <<CR, LF>>

write_to_buf[f \in Frames] ==
    CASE f.kind = "simple"  -> <<PLUS>> \o f.text \o CRLF
      [] f.kind = "error"   -> <<MINUS>> \o f.text \o CRLF
      [] f.kind = "integer" -> <<COLON>> \o to_string(f.val) \o CRLF
      [] f.kind = "null"    -> <<DOLLAR>> \o MinusOne \o CRLF
      [] f.kind = "bulk"    -> <<DOLLAR>> \o to_string(Len(f.bytes)) \o CRLF \o f.bytes \o CRLF
      [] f.kind = "array"   ->
           <<STAR>> \o to_string(Len(f.frames)) \o CRLF
             \o FlattenSeq([i \in DOMAIN f.frames |-> write_to_buf[f.frames[i]]])
=============================================================================
