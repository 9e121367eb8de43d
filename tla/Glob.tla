-------------------------------- MODULE Glob --------------------------------
(***************************************************************************)
(* glob_match of src/src/db.rs, which matches with one pass and one point  *)
(* of return, and the meaning of a pattern it is compared with.  A byte is *)
(* its ASCII code; p and t count the bytes before them, as in the code.    *)
(***************************************************************************)
EXTENDS Integers, SequencesExt

ANY == 42           \* *
ONE == 63           \* ?
OPEN == 91          \* [
CLOSE == 93         \* ]
CARET == 94         \* ^
BANG == 33          \* !
ESCAPE == 92        \* \
DASH == 45          \* -

-----------------------------------------------------------------------------
(* glob_match *)

NoMatch == -1

\* A while loop after n turns from state s: one turn is a function of the state, which
\* leaves it alone once the loop has ended.
After(turn, s, n) ==
    LET after[i \in 0 .. n] == IF i = 0 THEN s ELSE turn[after[i - 1]]
    IN  after[n]

ClassStates(pattern) == [p : 0 .. Len(pattern), matched : BOOLEAN, closed : BOOLEAN]

\* Mutant of ClassTurn: a class ends with the pattern if not before.
ClassTurnUnclosed(pattern, b) ==
    [c \in ClassStates(pattern) |->
       IF c.closed THEN c
       ELSE IF c.p = Len(pattern) THEN [c EXCEPT !.closed = TRUE]
       ELSE IF pattern[c.p + 1] = CLOSE THEN [c EXCEPT !.p = @ + 1, !.closed = TRUE]
       ELSE IF c.p + 2 < Len(pattern) /\ pattern[c.p + 2] = DASH /\ pattern[c.p + 3] # CLOSE
            THEN [c EXCEPT !.p = @ + 3,
                           !.matched = @ \/ b \in pattern[c.p + 1] .. pattern[c.p + 3]]
       ELSE [c EXCEPT !.p = @ + 1, !.matched = @ \/ pattern[c.p + 1] = b]]

\* One turn of the inner loop, over the items of a class, for the byte b.
ClassTurn(pattern, b) ==
    [c \in ClassStates(pattern) |->
       IF c.closed \/ c.p = Len(pattern) THEN c
       ELSE IF pattern[c.p + 1] = CLOSE THEN [c EXCEPT !.p = @ + 1, !.closed = TRUE]
       ELSE IF c.p + 2 < Len(pattern) /\ pattern[c.p + 2] = DASH /\ pattern[c.p + 3] # CLOSE
            THEN [c EXCEPT !.p = @ + 3,
                           !.matched = @ \/ b \in pattern[c.p + 1] .. pattern[c.p + 3]]
       ELSE [c EXCEPT !.p = @ + 1, !.matched = @ \/ pattern[c.p + 1] = b]]

\* A class whose [ is before p: where it ends and whether it accepts b.  A turn reads a byte
\* of the pattern, so there are no more turns than bytes.
Class(pattern, p, b) ==
    LET negate == p < Len(pattern) /\ pattern[p + 1] \in {CARET, BANG}
        begin  == [p |-> IF negate THEN p + 1 ELSE p, matched |-> FALSE, closed |-> FALSE]
        end    == After(ClassTurn(pattern, b), begin, Len(pattern))
    IN  [p |-> end.p, accepts |-> (end.closed /\ end.matched) # negate]

\* The item of the pattern at p, other than *, against the byte b: the p behind it.
MatchItem(pattern, p, b) ==
    CASE p = Len(pattern)          -> NoMatch
      [] p < Len(pattern) /\ pattern[p + 1] = ONE  -> p + 1
      [] p < Len(pattern) /\ pattern[p + 1] = OPEN ->
           LET class == Class(pattern, p + 1, b) IN IF class.accepts THEN class.p ELSE NoMatch
      [] p < Len(pattern) /\ pattern[p + 1] = ESCAPE ->
           IF p + 1 < Len(pattern) /\ pattern[p + 2] = b THEN p + 2 ELSE NoMatch
      [] OTHER -> IF pattern[p + 1] = b THEN p + 1 ELSE NoMatch

NoStar == -1

LoopStates(pattern, text) ==
    [p : {NoMatch} \cup 0 .. Len(pattern), t : 0 .. Len(text),
     star_p : {NoStar} \cup 0 .. Len(pattern) - 1, star_t : 0 .. Len(text)]

\* One turn of the loop over the text: star_p is where the last * was met and star_t the
\* text it has been given, the one place to go back to when an item does not match.  To
\* return false is to leave NoMatch in p.
Turn(pattern, text) ==
    [s \in LoopStates(pattern, text) |->
       LET next == MatchItem(pattern, s.p, text[s.t + 1])
       IN  IF s.p = NoMatch \/ s.t = Len(text) THEN s
           ELSE IF s.p < Len(pattern) /\ pattern[s.p + 1] = ANY
                THEN [s EXCEPT !.p = @ + 1, !.star_p = s.p, !.star_t = s.t]
           ELSE IF next # NoMatch THEN [s EXCEPT !.p = next, !.t = @ + 1]
           ELSE IF s.star_p # NoStar
                THEN [s EXCEPT !.p = s.star_p + 1, !.t = s.star_t + 1, !.star_t = @ + 1]
           ELSE [s EXCEPT !.p = NoMatch]]

\* For each text given to a star the loop goes at most once through the pattern.
Turns(pattern, text) == (Len(text) + 1) * (Len(pattern) + 1)

glob_match(pattern, text) ==
    LET begin == [p |-> 0, t |-> 0, star_p |-> NoStar, star_t |-> 0]
        end   == After(Turn(pattern, text), begin, Turns(pattern, text))
    IN  end.p # NoMatch /\ \A i \in end.p + 1 .. Len(pattern) : pattern[i] = ANY

-----------------------------------------------------------------------------
(* What a pattern means *)

AllBytes == 0 .. 255

\* The bytes a class lists from each position up to its end, ranges read from the left.
Listed(pattern, end) ==
    LET from[i \in 1 .. end] ==
          IF i = end THEN {}
          ELSE IF i + 2 < end /\ pattern[i + 1] = DASH
               THEN (pattern[i] .. pattern[i + 2]) \cup from[i + 3]
          ELSE {pattern[i]} \cup from[i + 1]
    IN  from

\* The class whose [ is at i.  One that is not closed takes the rest of the pattern and
\* lists nothing.
ClassItem(pattern, i) ==
    LET negated == i < Len(pattern) /\ pattern[i + 1] \in {CARET, BANG}
        first   == IF negated THEN i + 2 ELSE i + 1
        closes  == {j \in first .. Len(pattern) : pattern[j] = CLOSE}
        listed  == IF closes = {} THEN {} ELSE Listed(pattern, Min(closes))[first]
    IN  [bytes |-> IF negated THEN AllBytes \ listed ELSE listed,
         next  |-> IF closes = {} THEN Len(pattern) + 1 ELSE Min(closes) + 1]

\* The item at i, other than a star: the bytes that may stand there and where the next
\* item begins.  An escape of nothing matches nothing.
Item(pattern, i) ==
    CASE pattern[i] = ONE    -> [bytes |-> AllBytes, next |-> i + 1]
      [] pattern[i] = OPEN   -> ClassItem(pattern, i)
      [] pattern[i] = ESCAPE -> IF i = Len(pattern) THEN [bytes |-> {}, next |-> i + 1]
                                ELSE [bytes |-> {pattern[i + 1]}, next |-> i + 2]
      [] OTHER               -> [bytes |-> {pattern[i]}, next |-> i + 1]

\* The positions of the text from which the pattern from i on matches the rest: a star
\* stands for any bytes, every other item for one of its bytes.
MatchedFrom(pattern, text) ==
    LET from[i \in 1 .. Len(pattern) + 1] ==
          IF i > Len(pattern) THEN {Len(text) + 1}
          ELSE LET star == pattern[i] = ANY
                   item == Item(pattern, i)
                   rest == IF star THEN from[i + 1] ELSE from[item.next]
               IN  IF star THEN {t \in 1 .. Len(text) + 1 : \E u \in rest : t <= u}
                   ELSE {t \in 1 .. Len(text) : text[t] \in item.bytes /\ t + 1 \in rest}
    IN  from

Matches(pattern, text) == 1 \in MatchedFrom(pattern, text)[1]
=============================================================================
