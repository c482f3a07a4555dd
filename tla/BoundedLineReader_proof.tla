----------------------- MODULE BoundedLineReader_proof -----------------------
(* Proofs about the line reader, for any limit, any buffer and any streams. *)
EXTENDS BoundedLineReader, WellFoundedInduction, TLAPS

(* While reading, the builder is what has been read, and it holds no line   *)
(* feed; once a result is there, it is the one the framing rule gives.      *)
PrefixInv ==
    outcome = "reading" =>
        /\ taken <= Len(input)
        /\ line = SubSeq(input, 1, taken)
        /\ \A i \in 1..taken : input[i] # "lf"

IInv ==
    /\ TypeOK
    /\ PrefixInv
    /\ BoundedAndProgressing
    /\ FramingIndependentOfPieces

-----------------------------------------------------------------------------
(* Facts about sequences.                                                   *)

(* A subsequence: its length and its elements.                              *)
LEMMA SubSeqFacts ==
    ASSUME NEW s \in Seq(Chars), NEW m \in 1..(Len(s) + 1), NEW n \in 0..Len(s), m <= n + 1
    PROVE  /\ SubSeq(s, m, n) \in Seq(Chars)
           /\ Len(SubSeq(s, m, n)) = n - m + 1
           /\ \A i \in 1..(n - m + 1) : SubSeq(s, m, n)[i] = s[m + i - 1]
OBVIOUS

(* Two sequences of one length with the same elements are the same.         *)
LEMMA SeqEqual ==
    ASSUME NEW s \in Seq(Chars), NEW t \in Seq(Chars), Len(s) = Len(t),
           \A i \in 1..Len(s) : s[i] = t[i]
    PROVE  s = t
OBVIOUS

(* A concatenation: its length and its elements.                            *)
LEMMA ConcatFacts ==
    ASSUME NEW s \in Seq(Chars), NEW t \in Seq(Chars)
    PROVE  /\ s \o t \in Seq(Chars)
           /\ Len(s \o t) = Len(s) + Len(t)
           /\ \A i \in 1..Len(s) : (s \o t)[i] = s[i]
           /\ \A i \in 1..Len(t) : (s \o t)[Len(s) + i] = t[i]
OBVIOUS

(* A prefix and the piece that follows it make the longer prefix.           *)
LEMMA PrefixGrows ==
    ASSUME NEW s \in Seq(Chars), NEW t \in Nat, NEW n \in Nat, t + n <= Len(s)
    PROVE  SubSeq(s, 1, t) \o SubSeq(s, t + 1, t + n) = SubSeq(s, 1, t + n)
<1> DEFINE a == SubSeq(s, 1, t)
           b == SubSeq(s, t + 1, t + n)
           c == SubSeq(s, 1, t + n)
<1>0. Len(s) \in Nat OBVIOUS
<1>1. a \in Seq(Chars) /\ Len(a) = t /\ \A i \in 1..t : a[i] = s[i]
  BY <1>0, SubSeqFacts
<1>2. b \in Seq(Chars) /\ Len(b) = n /\ \A i \in 1..n : b[i] = s[t + i]
  BY <1>0, SubSeqFacts
<1>3. c \in Seq(Chars) /\ Len(c) = t + n /\ \A i \in 1..(t + n) : c[i] = s[i]
  BY <1>0, SubSeqFacts
<1> HIDE DEF a, b, c
<1>4. /\ a \o b \in Seq(Chars)
      /\ Len(a \o b) = Len(a) + Len(b)
      /\ \A i \in 1..Len(a) : (a \o b)[i] = a[i]
      /\ \A i \in 1..Len(b) : (a \o b)[Len(a) + i] = b[i]
  BY <1>1, <1>2, ConcatFacts
<1>5. \A i \in 1..(t + n) : (a \o b)[i] = c[i]
  <2> TAKE i \in 1..(t + n)
  <2>1. CASE i <= t
    <3>1. i \in 1..t /\ i \in 1..Len(a) BY <1>1, <2>1
    <3>2. (a \o b)[i] = a[i] BY <1>4, <3>1
    <3>3. a[i] = s[i] BY <1>1, <3>1
    <3>4. c[i] = s[i] BY <1>3
    <3> QED BY <3>2, <3>3, <3>4
  <2>2. CASE i > t
    <3>1. PICK k \in 1..n : i = t + k
      <4>1. i - t \in 1..n /\ i = t + (i - t) BY <2>2
      <4> QED BY <4>1
    <3>2. (a \o b)[t + k] = b[k] BY <1>1, <1>2, <1>4
    <3>3. b[k] = s[t + k] BY <1>2
    <3>4. c[i] = s[i] BY <1>3
    <3> QED BY <3>1, <3>2, <3>3, <3>4
  <2>3. t \in Nat /\ i \in Nat OBVIOUS
  <2>4. i <= t \/ i > t BY <2>3
  <2> QED BY <2>1, <2>2, <2>4
<1>6. a \o b = c
  <2>1. Len(a \o b) = Len(c) BY <1>1, <1>2, <1>3, <1>4
  <2>2. \A i \in 1..Len(a \o b) : (a \o b)[i] = c[i] BY <1>1, <1>2, <1>4, <1>5
  <2> QED BY <1>3, <1>4, <2>1, <2>2, SeqEqual
<1> QED BY <1>6 DEF a, b, c

(* The first line feed is where LfAt says it is.                            *)
LEMMA LfAtFacts ==
    ASSUME NEW s \in Seq(Chars), NEW k \in 1..Len(s),
           s[k] = "lf", \A j \in 1..(k - 1) : s[j] # "lf"
    PROVE  HasLf(s) /\ LfAt(s) = k
<1>1. HasLf(s) BY DEF HasLf
<1>2. \A i \in 1..Len(s) : s[i] = "lf" /\ (\A j \in 1..(i - 1) : s[j] # "lf") => i = k
  <2> TAKE i \in 1..Len(s)
  <2> QED OBVIOUS
<1> QED BY <1>1, <1>2 DEF LfAt

(* A sequence with a line feed has a first one.                             *)
LEMMA FirstLf ==
    ASSUME NEW s \in Seq(Chars), HasLf(s)
    PROVE  /\ LfAt(s) \in 1..Len(s)
           /\ s[LfAt(s)] = "lf"
           /\ \A j \in 1..(LfAt(s) - 1) : s[j] # "lf"
<1> DEFINE F == {i \in 1..Len(s) : s[i] = "lf"}
<1>0. Len(s) \in Nat OBVIOUS
<1>1. F \subseteq Nat /\ F # {} BY <1>0 DEF HasLf
<1>2. PICK k \in F : \A y \in F : ~(y < k)
  <2> HIDE DEF F
  <2>1. PICK k \in F : \A y \in Nat : <<y, k>> \in OpToRel(<, Nat) => y \notin F
    BY <1>1, NatLessThanWellFounded, WFMin
  <2>2. \A y \in F : y < k => <<y, k>> \in OpToRel(<, Nat)
    BY <1>1 DEF OpToRel
  <2> QED BY <1>1, <2>1, <2>2
<1>3. k \in 1..Len(s) /\ s[k] = "lf" OBVIOUS
<1>4. \A j \in 1..(k - 1) : s[j] # "lf"
  <2> TAKE j \in 1..(k - 1)
  <2>1. j \in 1..Len(s) /\ j < k BY <1>0, <1>3
  <2> QED BY <1>2, <2>1
<1> QED BY <1>3, <1>4, LfAtFacts
-----------------------------------------------------------------------------
(* UpToLf and WithoutCr on any sequence: they shorten, never lengthen.      *)
LEMMA UpToLfFacts ==
    ASSUME NEW s \in Seq(Chars)
    PROVE  UpToLf(s) \in Seq(Chars) /\ Len(UpToLf(s)) <= Len(s)
<1>1. CASE HasLf(s)
  <2>1. LfAt(s) \in 1..Len(s) BY <1>1, FirstLf
  <2>2. LfAt(s) - 1 \in 0..Len(s) /\ Len(s) \in Nat BY <2>1
  <2>3. SubSeq(s, 1, LfAt(s) - 1) \in Seq(Chars)
        /\ Len(SubSeq(s, 1, LfAt(s) - 1)) = LfAt(s) - 1
    BY <2>2, SubSeqFacts
  <2> QED BY <1>1, <2>2, <2>3 DEF UpToLf
<1>2. CASE ~HasLf(s) BY <1>2 DEF UpToLf
<1> QED BY <1>1, <1>2

(* Nor does dropping the carriage return.                                   *)
LEMMA WithoutCrFacts ==
    ASSUME NEW s \in Seq(Chars)
    PROVE  WithoutCr(s) \in Seq(Chars) /\ Len(WithoutCr(s)) <= Len(s)
<1>1. CASE s # <<>>
  <2>1. Len(s) \in Nat \ {0} BY <1>1
  <2>2. SubSeq(s, 1, Len(s) - 1) \in Seq(Chars) /\ Len(SubSeq(s, 1, Len(s) - 1)) = Len(s) - 1
    <3>1. 1 \in 1..(Len(s) + 1) /\ Len(s) - 1 \in 0..Len(s) /\ (Len(s) - 1) - 1 + 1 = Len(s) - 1
      BY <2>1
    <3>2. 1 <= (Len(s) - 1) + 1 BY <2>1
    <3> QED BY <3>1, <3>2, SubSeqFacts
  <2> QED BY <2>1, <2>2 DEF WithoutCr
<1>2. CASE s = <<>> BY <1>2 DEF WithoutCr
<1> QED BY <1>1, <1>2

(* The heart of the framing: a line that holds what was read so far, with   *)
(* the next piece up to its line feed, is a prefix of the whole stream up   *)
(* to its own line feed, and all of it once the piece has the line feed.    *)
PieceInStream(s, t, n, piece, whole) ==
    /\ HasLf(piece) => HasLf(s) /\ whole = UpToLf(s)
    /\ ~HasLf(piece) => /\ whole = SubSeq(s, 1, t + n)
                        /\ \A i \in 1..(t + n) : s[i] # "lf"

(* A line with the next piece after it is read as the stream is framed.     *)
LEMMA PieceOfStream ==
    ASSUME NEW s \in Seq(Chars), NEW t \in Nat, NEW n \in Nat \ {0}, t + n <= Len(s),
           \A i \in 1..t : s[i] # "lf"
    PROVE  PieceInStream(s, t, n, SubSeq(s, t + 1, t + n),
                         SubSeq(s, 1, t) \o UpToLf(SubSeq(s, t + 1, t + n)))
<1> DEFINE piece == SubSeq(s, t + 1, t + n)
           whole == SubSeq(s, 1, t) \o UpToLf(piece)
<1>0. Len(s) \in Nat OBVIOUS
<1>1. piece \in Seq(Chars) /\ Len(piece) = n /\ \A i \in 1..n : piece[i] = s[t + i]
  BY <1>0, SubSeqFacts
<1> HIDE DEF piece
<1>2. ASSUME HasLf(piece) PROVE HasLf(s) /\ whole = UpToLf(s)
  <2> DEFINE k == LfAt(piece)
  <2>1. k \in 1..n /\ piece[k] = "lf" /\ \A j \in 1..(k - 1) : piece[j] # "lf"
    BY <1>1, <1>2, FirstLf
  <2> HIDE DEF k
  <2>2. t + k \in 1..Len(s) /\ s[t + k] = "lf" BY <1>0, <1>1, <2>1
  <2>3. \A j \in 1..(t + k - 1) : s[j] # "lf"
    <3> TAKE j \in 1..(t + k - 1)
    <3>1. CASE j <= t BY <3>1
    <3>2. CASE j > t
      <4>1. PICK i \in 1..(k - 1) : j = t + i
        <5>1. j - t \in 1..(k - 1) /\ j = t + (j - t) BY <2>1, <3>2
        <5> QED BY <5>1
      <4>2. i \in 1..n BY <2>1
      <4> QED BY <1>1, <2>1, <4>1, <4>2
    <3>3. j <= t \/ j > t BY <2>1
    <3> QED BY <3>1, <3>2, <3>3, Zenon
  <2>4. HasLf(s) /\ LfAt(s) = t + k
    <3> DEFINE p == t + k
    <3>0. p \in 1..Len(s) /\ s[p] = "lf" BY <2>2
    <3>1. \A j \in 1..(p - 1) : s[j] # "lf" BY <2>1, <2>3
    <3> HIDE DEF p
    <3>2. HasLf(s) /\ LfAt(s) = p BY <3>0, <3>1, LfAtFacts
    <3> QED BY <3>2 DEF p
  <2>5. UpToLf(piece) = SubSeq(s, t + 1, t + (k - 1))
    <3>1. k - 1 \in 0..n BY <2>1
    <3> DEFINE a == SubSeq(piece, 1, k - 1)
               b == SubSeq(s, t + 1, t + (k - 1))
    <3>2. a \in Seq(Chars) /\ Len(a) = k - 1 /\ \A i \in 1..(k - 1) : a[i] = piece[i]
      BY <1>1, <3>1, SubSeqFacts
    <3>3. b \in Seq(Chars) /\ Len(b) = k - 1 /\ \A i \in 1..(k - 1) : b[i] = s[t + i]
      <4> DEFINE m == k - 1
      <4>1. m \in Nat /\ m <= n BY <2>1
      <4> HIDE DEF m
      <4>2. SubSeq(s, t + 1, t + m) \in Seq(Chars) /\ Len(SubSeq(s, t + 1, t + m)) = m
            /\ \A i \in 1..m : SubSeq(s, t + 1, t + m)[i] = s[t + i]
        BY <1>0, <4>1, SubSeqFacts
      <4> QED BY <4>2 DEF m
    <3> HIDE DEF a, b
    <3>4. \A i \in 1..(k - 1) : a[i] = b[i] BY <1>1, <3>1, <3>2, <3>3
    <3>5. a = b BY <3>2, <3>3, <3>4, SeqEqual
    <3> QED BY <1>2, <3>5 DEF UpToLf, a, b, k
  <2>6. k - 1 \in Nat /\ t + (k - 1) <= Len(s) /\ t + (k - 1) = t + k - 1
    BY <1>0, <2>1, <2>2
  <2>7. whole = SubSeq(s, 1, t + (k - 1)) BY <2>5, <2>6, PrefixGrows DEF piece
  <2>8. LfAt(s) - 1 = t + (k - 1) BY <2>1, <2>4
  <2> QED BY <2>4, <2>7, <2>8 DEF UpToLf
<1>3. ASSUME ~HasLf(piece)
      PROVE  whole = SubSeq(s, 1, t + n) /\ \A i \in 1..(t + n) : s[i] # "lf"
  <2>1. whole = SubSeq(s, 1, t + n) BY <1>3, PrefixGrows DEF UpToLf, piece
  <2>2. \A i \in 1..n : s[t + i] # "lf" BY <1>1, <1>3 DEF HasLf
  <2>3. ASSUME NEW j \in 1..(t + n) PROVE s[j] # "lf"
    <3>1. CASE j <= t BY <3>1
    <3>2. CASE j > t
      <4>1. j - t \in 1..n /\ j = t + (j - t) BY <3>2
      <4> QED BY <2>2, <4>1
    <3>3. j <= t \/ j > t OBVIOUS
    <3> QED BY <3>1, <3>2, <3>3, Zenon
  <2> QED BY <2>1, <2>3
<1> QED BY <1>2, <1>3 DEF piece, PieceInStream

(* A stream whose first m characters hold no line feed has a text of at     *)
(* least m characters.                                                      *)
LEMMA TextAtLeast ==
    ASSUME NEW s \in Seq(Chars), NEW m \in 0..Len(s), \A i \in 1..m : s[i] # "lf"
    PROVE  Len(UpToLf(s)) >= m
<1>0. Len(s) \in Nat OBVIOUS
<1>1. CASE HasLf(s)
  <2>1. LfAt(s) \in 1..Len(s) /\ s[LfAt(s)] = "lf" BY <1>1, FirstLf
  <2>2. LfAt(s) > m BY <1>0, <2>1
  <2>3. Len(SubSeq(s, 1, LfAt(s) - 1)) = LfAt(s) - 1 BY <1>0, <2>1, SubSeqFacts
  <2> QED BY <1>0, <1>1, <2>1, <2>2, <2>3 DEF UpToLf
<1>2. CASE ~HasLf(s) BY <1>0, <1>2 DEF UpToLf
<1> QED BY <1>1, <1>2

-----------------------------------------------------------------------------
USE ReaderAssumption DEF Outcomes

(* The stream is a sequence of characters.                                  *)
LEMMA InputIsText == TypeOK => input \in Seq(Chars)
BY DEF TypeOK

(* Nothing is read at first: the invariant holds.                           *)
LEMMA InitIInv == Init => IInv
<1> SUFFICES ASSUME Init PROVE IInv OBVIOUS
<1>1. TypeOK BY DEF Init, TypeOK
<1>2. input \in Seq(Chars) BY <1>1, InputIsText
<1>3. PrefixInv
  <2>1. Len(input) \in Nat BY <1>2
  <2>2. SubSeq(input, 1, 0) \in Seq(Chars) /\ Len(SubSeq(input, 1, 0)) = 0
    BY <1>2, <2>1, SubSeqFacts
  <2> QED BY <2>1, <2>2 DEF Init, PrefixInv
<1>4. BoundedAndProgressing BY DEF Init, BoundedAndProgressing, Requested, Smaller
<1>5. FramingIndependentOfPieces BY DEF Init, FramingIndependentOfPieces
<1> QED BY <1>1, <1>3, <1>4, <1>5 DEF IInv

(* A piece keeps it: the three outcomes of the loop over its characters.    *)
LEMMA ReadPieceIInv == IInv /\ ReadPiece => IInv'
<1> SUFFICES ASSUME IInv, ReadPiece PROVE IInv' OBVIOUS
<1>1. TypeOK /\ input \in Seq(Chars) /\ Len(input) \in Nat
  BY InputIsText DEF IInv
<1>2. outcome = "reading" /\ input' = input BY DEF ReadPiece
<1>3. /\ taken \in Nat /\ taken <= Len(input) /\ line = SubSeq(input, 1, taken)
      /\ \A i \in 1..taken : input[i] # "lf"
  BY <1>1, <1>2 DEF IInv, PrefixInv, TypeOK
<1>4. PICK n \in 1..Smaller(Requested, Len(input) - taken) :
          Consume(SubSeq(input, taken + 1, taken + n)) /\ taken' = taken + n
  BY DEF ReadPiece
<1>5. n \in Nat \ {0} /\ taken + n <= Len(input)
  BY <1>1, <1>2, <1>3 DEF IInv, BoundedAndProgressing, Smaller
<1> DEFINE piece == SubSeq(input, taken + 1, taken + n)
           whole == line \o UpToLf(piece)
<1>6. piece \in Seq(Chars) BY <1>1, <1>3, <1>5, SubSeqFacts
<1>7. UpToLf(piece) \in Seq(Chars) BY <1>6, UpToLfFacts
<1>8. whole \in Seq(Chars) /\ Len(whole) \in Nat
  <2>1. line \in Seq(Chars) BY <1>1 DEF TypeOK
  <2> HIDE DEF piece
  <2>2. whole \in Seq(Chars) BY <1>7, <2>1, ConcatFacts
  <2> HIDE DEF whole
  <2> QED BY <2>2
<1>9. /\ HasLf(piece) => HasLf(input) /\ whole = UpToLf(input)
      /\ ~HasLf(piece) => /\ whole = SubSeq(input, 1, taken + n)
                          /\ \A i \in 1..(taken + n) : input[i] # "lf"
  <2>1. n \in Nat \ {0} /\ taken \in Nat /\ taken + n <= Len(input) BY <1>3, <1>5
  <2>2. \A i \in 1..taken : input[i] # "lf" BY <1>3
  <2>3. PieceInStream(input, taken, n, SubSeq(input, taken + 1, taken + n),
                      SubSeq(input, 1, taken) \o UpToLf(SubSeq(input, taken + 1, taken + n)))
    BY <1>1, <2>1, <2>2, PieceOfStream
  <2>4. PieceInStream(input, taken, n, piece, whole) BY <1>3, <2>3
  <2> QED BY <2>4 DEF PieceInStream
<1>10. /\ Len(whole) > MaximumLength =>
              line' = SubSeq(whole, 1, MaximumLength) /\ outcome' = "tooLong"
       /\ Len(whole) <= MaximumLength /\ HasLf(piece) =>
              line' = WithoutCr(whole) /\ outcome' = "line"
       /\ Len(whole) <= MaximumLength /\ ~HasLf(piece) =>
              line' = whole /\ outcome' = "reading"
  BY <1>4, <1>8 DEF Consume
<1> HIDE DEF piece, whole
<1>11. CASE Len(whole) > MaximumLength
  <2>1. line' \in Seq(Chars) /\ Len(line') = MaximumLength
    BY <1>8, <1>10, <1>11, SubSeqFacts
  <2>2. Len(UpToLf(input)) > MaximumLength
    <3>1. CASE HasLf(piece) BY <1>9, <1>11, <3>1
    <3>2. CASE ~HasLf(piece)
      <4>1. Len(whole) = taken + n BY <1>1, <1>3, <1>5, <1>9, <3>2, SubSeqFacts
      <4>2. Len(UpToLf(input)) >= taken + n
        BY <1>1, <1>3, <1>5, <1>9, <3>2, TextAtLeast
      <4>3. Len(UpToLf(input)) \in Nat BY <1>1, UpToLfFacts
      <4> QED BY <1>3, <1>5, <1>11, <4>1, <4>2, <4>3
    <3> QED BY <3>1, <3>2
  <2>3. Framed(input)[1] = "tooLong" BY <1>1, <2>2, UpToLfFacts DEF Framed
  <2>4. TypeOK' BY <1>1, <1>2, <1>3, <1>4, <1>5, <1>10, <1>11, <2>1 DEF TypeOK
  <2>5. PrefixInv' BY <1>10, <1>11 DEF PrefixInv
  <2>6. BoundedAndProgressing' BY <1>10, <1>11, <2>1 DEF BoundedAndProgressing
  <2>7. FramingIndependentOfPieces'
    BY <1>2, <1>10, <1>11, <2>3 DEF FramingIndependentOfPieces
  <2> QED BY <2>4, <2>5, <2>6, <2>7 DEF IInv
<1>12. CASE Len(whole) <= MaximumLength /\ HasLf(piece)
  <2>1. line' = WithoutCr(whole) /\ outcome' = "line" BY <1>10, <1>12
  <2>2. line' \in Seq(Chars) /\ Len(line') <= MaximumLength
    <3>1. WithoutCr(whole) \in Seq(Chars) /\ Len(WithoutCr(whole)) <= Len(whole)
      BY <1>8, WithoutCrFacts
    <3> QED BY <1>8, <1>12, <2>1, <3>1
  <2>3. HasLf(input) /\ whole = UpToLf(input) BY <1>9, <1>12
  <2>4. input # <<>> BY <2>3 DEF HasLf
  <2>5. Framed(input) = <<"line", WithoutCr(UpToLf(input))>>
    <3>1. ~(Len(UpToLf(input)) > MaximumLength) BY <1>8, <1>12, <2>3
    <3> QED BY <2>3, <2>4, <3>1 DEF Framed
  <2>6. TypeOK' BY <1>1, <1>2, <1>3, <1>4, <1>5, <2>1, <2>2 DEF TypeOK
  <2>7. PrefixInv' BY <2>1 DEF PrefixInv
  <2>8. BoundedAndProgressing' BY <2>1, <2>2 DEF BoundedAndProgressing
  <2>9. FramingIndependentOfPieces'
    BY <1>2, <2>1, <2>3, <2>5 DEF FramingIndependentOfPieces
  <2> QED BY <2>6, <2>7, <2>8, <2>9 DEF IInv
<1>13. CASE Len(whole) <= MaximumLength /\ ~HasLf(piece)
  <2>1. line' = whole /\ outcome' = "reading" BY <1>10, <1>13
  <2>2. whole = SubSeq(input, 1, taken + n) /\ \A i \in 1..(taken + n) : input[i] # "lf"
    BY <1>9, <1>13
  <2>3. TypeOK' BY <1>1, <1>2, <1>3, <1>4, <1>5, <1>8, <2>1 DEF TypeOK
  <2>4. PrefixInv' BY <1>2, <1>4, <1>5, <2>1, <2>2 DEF PrefixInv
  <2>5. BoundedAndProgressing'
    BY <1>8, <1>13, <2>1 DEF BoundedAndProgressing, Requested, Smaller
  <2>6. FramingIndependentOfPieces' BY <2>1 DEF FramingIndependentOfPieces
  <2> QED BY <2>3, <2>4, <2>5, <2>6 DEF IInv
<1> QED BY <1>8, <1>11, <1>12, <1>13

(* An empty read keeps it: it can only mean the end of the stream.          *)
LEMMA ReadNothingIInv == IInv /\ ReadNothing => IInv'
<1> SUFFICES ASSUME IInv, ReadNothing PROVE IInv' OBVIOUS
<1>1. TypeOK /\ input \in Seq(Chars) /\ Len(input) \in Nat
  BY InputIsText DEF IInv
<1>2. outcome = "reading" /\ UNCHANGED <<input, taken, line>> BY DEF ReadNothing
<1>3. taken = Len(input)
  BY <1>2 DEF IInv, BoundedAndProgressing, ReadNothing
<1>4. line = SubSeq(input, 1, taken) /\ \A i \in 1..Len(input) : input[i] # "lf"
  BY <1>2, <1>3 DEF IInv, PrefixInv
<1>5. line = input
  <2>1. /\ SubSeq(input, 1, taken) \in Seq(Chars) /\ Len(SubSeq(input, 1, taken)) = Len(input)
        /\ \A i \in 1..Len(input) : SubSeq(input, 1, taken)[i] = input[i]
    BY <1>1, <1>3, SubSeqFacts
  <2>2. SubSeq(input, 1, taken) = input BY <1>1, <2>1, SeqEqual
  <2> QED BY <1>4, <2>2
<1>6. ~HasLf(input) /\ UpToLf(input) = input BY <1>4 DEF HasLf, UpToLf
<1>7. Len(line) <= MaximumLength BY DEF IInv, BoundedAndProgressing
<1>8. outcome' = (IF line = <<>> THEN "end" ELSE "line") BY DEF ReadNothing
<1>9. FramingIndependentOfPieces'
  <2>1. ~(Len(UpToLf(input)) > MaximumLength) BY <1>1, <1>5, <1>6, <1>7
  <2>2. CASE line = <<>>
    <3>1. Framed(input) = <<"end", <<>>>> BY <1>5, <2>1, <2>2 DEF Framed
    <3> QED BY <1>2, <1>8, <2>2, <3>1 DEF FramingIndependentOfPieces
  <2>3. CASE line # <<>>
    <3>1. Framed(input) = <<"line", input>> BY <1>5, <1>6, <2>1, <2>3 DEF Framed
    <3> QED BY <1>2, <1>5, <1>8, <2>3, <3>1 DEF FramingIndependentOfPieces
  <2> QED BY <2>2, <2>3
<1>10. TypeOK' BY <1>1, <1>2, <1>8 DEF TypeOK
<1>11. PrefixInv' BY <1>8 DEF PrefixInv
<1>12. BoundedAndProgressing' BY <1>2, <1>7, <1>8 DEF BoundedAndProgressing
<1> QED BY <1>9, <1>10, <1>11, <1>12 DEF IInv

(* Cancellation promises nothing about the line.                            *)
LEMMA CancelIInv == IInv /\ Cancel => IInv'
<1> SUFFICES ASSUME IInv, Cancel PROVE IInv' OBVIOUS
<1>1. TypeOK' BY DEF IInv, Cancel, TypeOK
<1>2. PrefixInv' BY DEF Cancel, PrefixInv
<1>3. BoundedAndProgressing' BY DEF IInv, Cancel, BoundedAndProgressing
<1>4. FramingIndependentOfPieces' BY DEF Cancel, FramingIndependentOfPieces
<1> QED BY <1>1, <1>2, <1>3, <1>4 DEF IInv

(* So does a step that changes nothing.                                     *)
LEMMA StutterIInv == IInv /\ UNCHANGED vars => IInv'
BY DEF IInv, vars, TypeOK, PrefixInv, BoundedAndProgressing, Requested,
       FramingIndependentOfPieces

(* IInv is inductive.                                                       *)
THEOREM Inductive == Spec => []IInv
<1>1. IInv /\ [Next]_vars => IInv'
  BY ReadPieceIInv, ReadNothingIInv, CancelIInv, StutterIInv DEF Next
<1> QED BY InitIInv, <1>1, PTL DEF Spec

(* Every reachable state of the reader is well typed: what is taken never   *)
(* passes the input and an outcome is one ReadAsync can return.             *)
THEOREM TypeCorrect == Spec => []TypeOK
<1>1. IInv => TypeOK BY DEF IInv
<1> QED BY Inductive, <1>1, PTL

(* ReadAsync returns what the framing rule says of the whole stream, for    *)
(* every limit, every buffer and every way of cutting the stream.           *)
THEOREM FramingHolds == Spec => []FramingIndependentOfPieces
<1>1. IInv => FramingIndependentOfPieces BY DEF IInv
<1> QED BY Inductive, <1>1, PTL

(* The builder stays within the limit and no read asks for nothing.         *)
THEOREM BoundedHolds == Spec => []BoundedAndProgressing
<1>1. IInv => BoundedAndProgressing BY DEF IInv
<1> QED BY Inductive, <1>1, PTL
=============================================================================
