------------------------------ MODULE LineReader ------------------------------
(***************************************************************************)
(* CoFile::CoWriteLine() and CoFile::CoReadLine() (src/lib/CoFile.cpp): a  *)
(* file is the text that is not read yet; `lineBuffer` and `lineSS` are    *)
(* the members that live from one call to the next.                        *)
(***************************************************************************)
EXTENDS Naturals, Sequences, SequencesExt

CoWriteLine(file, line) == file \o line \o <<"\n">>

NewReader(file) == [unread |-> file, lineBuffer |-> <<>>, lineSS |-> <<>>]

HasLine(r) == "\n" \in ToSet(r.lineBuffer)

\* The line is complete: the rest of the buffer waits for the next call.
LineIsReturned(r) ==
  LET i == SelectInSeq(r.lineBuffer, LAMBDA c : c = "\n")
  IN  [line   |-> r.lineSS \o SubSeq(r.lineBuffer, 1, i - 1),
       reader |-> [r EXCEPT !.lineBuffer = SubSeq(@, i + 1, Len(@)), !.lineSS = <<>>]]

\* It is not: what the buffer holds goes to lineSS, and CoRead() fills it with n characters.
Fills(r, n) ==
  [unread |-> SubSeq(r.unread, n + 1, Len(r.unread)), lineBuffer |-> SubSeq(r.unread, 1, n),
   lineSS |-> r.lineSS \o r.lineBuffer]

\* CoRead() returns 0.  stream.clear() resets the stream's flags and leaves its text.
AtEnd(r) == [line |-> r.lineSS \o r.lineBuffer,
             reader |-> [r EXCEPT !.lineBuffer = <<>>, !.lineSS = @ \o r.lineBuffer]]
=============================================================================
