------------------------ MODULE MCBoundedLineReader ------------------------
(* All streams of up to six characters against a limit of three and reads  *)
(* of two: lines shorter than, at and beyond the limit, split anywhere.    *)
EXTENDS BoundedLineReader, SequencesExt

MCInputs == BoundedSeq(Chars, 6)
=============================================================================
