-------------------------- MODULE BoundedLineReader --------------------------
(***************************************************************************)
(* BoundedLineReader.ReadAsync: one line taken from a stream that arrives  *)
(* in pieces of any size, never holding more than the limit.               *)
(***************************************************************************)
EXTENDS Integers, Sequences

CONSTANTS
    MaximumLength,  \* characters a line may have
    BufferLength,   \* characters a read may ask for: 1024 in the source
    Inputs          \* the streams a client may send before it closes its end

Chars == {"x", "cr", "lf"}

ASSUME ReaderAssumption ==
    /\ MaximumLength \in Nat \ {0}
    /\ BufferLength \in Nat \ {0}
    /\ Inputs \subseteq Seq(Chars)

Outcomes == {"reading", "line", "end", "tooLong", "cancelled"}

VARIABLES
    input,    \* all the client sends
    taken,    \* how many characters the reads have returned
    line,     \* the StringBuilder
    outcome   \* "reading" until ReadAsync returns or throws

vars == <<input, taken, line, outcome>>

TypeOK ==
    /\ input \in Inputs
    /\ taken \in Nat
    /\ line \in Seq(Chars)
    /\ outcome \in Outcomes

Init ==
    /\ input \in Inputs
    /\ taken = 0
    /\ line = <<>>
    /\ outcome = "reading"

-----------------------------------------------------------------------------
Smaller(m, n) == IF m <= n THEN m ELSE n

(* A read asks for one character more than still fits, the sentinel that   *)
(* tells a full line from an overlong one.                                 *)
RequestedExact == Smaller(BufferLength, MaximumLength - Len(line))  \* mutant
Requested == Smaller(BufferLength, MaximumLength - Len(line) + 1)

(* The characters of a piece before its first line feed, if it has one.    *)
HasLf(s) == \E i \in 1..Len(s) : s[i] = "lf"
LfAt(s)  == CHOOSE i \in 1..Len(s) : s[i] = "lf" /\ \A j \in 1..(i-1) : s[j] # "lf"
UpToLf(s) == IF HasLf(s) THEN SubSeq(s, 1, LfAt(s) - 1) ELSE s

(* One carriage return before the line feed is dropped.                    *)
WithoutCr(s) ==
    IF s # <<>> /\ s[Len(s)] = "cr" THEN SubSeq(s, 1, Len(s) - 1) ELSE s

(* The loop over the characters of one piece, in the order of the source:  *)
(* a line feed ends the line, a character beyond the limit rejects it, any *)
(* other is appended.                                                      *)
ConsumeReportsFull(piece) ==                                        \* mutant
    LET whole == line \o UpToLf(piece)
    IN  IF Len(whole) > MaximumLength
        THEN line' = whole /\ outcome' = "full"
        ELSE IF HasLf(piece)
        THEN line' = WithoutCr(whole) /\ outcome' = "line"
        ELSE line' = whole /\ outcome' = "reading"

Consume(piece) ==
    LET whole == line \o UpToLf(piece)
    IN  IF Len(whole) > MaximumLength
        THEN line' = SubSeq(whole, 1, MaximumLength) /\ outcome' = "tooLong"
        ELSE IF HasLf(piece)
        THEN line' = WithoutCr(whole) /\ outcome' = "line"
        ELSE line' = whole /\ outcome' = "reading"

(* reader.ReadAsync returns at most what was asked for.                    *)
ReadPiece ==
    /\ outcome = "reading"
    /\ \E n \in 1..Smaller(Requested, Len(input) - taken) :
          /\ Consume(SubSeq(input, taken + 1, taken + n))
          /\ taken' = taken + n
    /\ UNCHANGED input

(* It returns nothing at the end of the stream, or if asked for nothing.   *)
ReadNothing ==
    /\ outcome = "reading"
    /\ taken = Len(input) \/ Requested = 0
    /\ outcome' = IF line = <<>> THEN "end" ELSE "line"
    /\ UNCHANGED <<input, taken, line>>

(* The cancellation token of the connection fires during a read.           *)
Cancel ==
    /\ outcome = "reading"
    /\ outcome' = "cancelled"
    /\ UNCHANGED <<input, taken, line>>

Next == ReadPiece \/ ReadNothing \/ Cancel

Spec == Init /\ [][Next]_vars

-----------------------------------------------------------------------------
(* The framing rule on the whole stream at once.                           *)
Framed(s) ==
    LET text == UpToLf(s)
    IN  IF Len(text) > MaximumLength THEN <<"tooLong", <<>>>>
        ELSE IF s = <<>> THEN <<"end", <<>>>>
        ELSE <<"line", IF HasLf(s) THEN WithoutCr(text) ELSE text>>

(* However the stream is cut into pieces, ReadAsync returns what the rule  *)
(* gives for the whole of it: no piece boundary moves, splits or loses a   *)
(* line ending, and the limit counts the line and not the piece.           *)
FramingIndependentOfPieces ==
    outcome \in {"line", "end", "tooLong"} =>
        /\ outcome = Framed(input)[1]
        /\ outcome # "tooLong" => line = Framed(input)[2]

(* The builder never holds more than the limit, and every read asks for at *)
(* least one character: asking for none would be taken for the end of the  *)
(* stream and turn an overlong line into an accepted one.                  *)
BoundedAndProgressing ==
    /\ Len(line) <= MaximumLength
    /\ outcome = "reading" => Requested \in 1..BufferLength
=============================================================================
