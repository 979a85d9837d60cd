------------------------------- MODULE P2pUtil -------------------------------
(***************************************************************************)
(* The string functions of src/pipedal_p2pd/P2pUtil.cpp.  A string is a    *)
(* sequence of characters; a name or another word in which the code never  *)
(* looks at single characters counts as one character.                     *)
(***************************************************************************)
EXTENDS Integers, SequencesExt

CONSTANT WordSize  \* 2^64

ASSUME WordAssumption == WordSize \in Nat \ {0}

\* Where the first of some characters is (one past the end if there is none), what is
\* before a place, and what begins there.
FirstOf(s, chars) ==
  LET i == SelectInSeq(s, LAMBDA c : c \in chars) IN IF i = 0 THEN Len(s) + 1 ELSE i
Before(s, i) == SubSeq(s, 1, i - 1)
From(s, i) == SubSeq(s, i, Len(s))
Skip(s, chars) == From(s, SelectInSeq(s \o <<"end">>, LAMBDA c : c \notin chars))

RECURSIVE Pieces(_, _)
Pieces(s, delimiter) ==
  LET i == FirstOf(s, {delimiter})
  IN  IF i > Len(s) THEN <<s>> ELSE <<Before(s, i)>> \o Pieces(From(s, i + 1), delimiter)

\* split(): what ends with a delimiter has an empty piece at its end.
NoPieceAtEnd(s, delimiter) ==  \* a mutant
  LET p == Pieces(s, delimiter) IN IF Last(p) = <<>> THEN Front(p) ELSE p
Split(s, delimiter) == IF s = <<>> THEN <<>> ELSE Pieces(s, delimiter)

\* A list in one string.
Joined(s, separator) ==
  FlattenSeq([i \in DOMAIN s |-> IF i = 1 THEN s[i] ELSE separator \o s[i]])

\* "[A][B]": each flag begins where the next "[" is, whatever it begins with.
RECURSIVE SplitWpaFlags(_)
SplitWpaFlags(s) ==
  IF s = <<>> THEN <<>>
  ELSE LET i == 1 + FirstOf(Tail(s), {"["})
       IN  <<Before(s, i)>> \o SplitWpaFlags(From(s, i))

-----------------------------------------------------------------------------
(* Numbers.  What may throw is a sequence: empty if it does. *)

Hexits == <<"0", "1", "2", "3", "4", "5", "6", "7", "8", "9", "a", "b", "c", "d", "e", "f">>
DigitAt(c) == SelectInSeq(Hexits, LAMBDA h : h = c) - 1
Number(digits, base) ==
  FoldLeft(LAMBDA n, c : ((n * base) + DigitAt(c)) % WordSize,
           0, digits)
AreDigits(s, base) == ToSet(s) \subseteq {Hexits[i] : i \in 1..base}

\* toUint64(): "0x" alone is a number, "" is none; nothing looks for an overflow.
ToUint64(s) ==
  IF Len(s) >= 2 /\ s[1] = "0" /\ s[2] = "x"
  THEN IF AreDigits(From(s, 3), 16) THEN <<Number(From(s, 3), 16)>> ELSE <<>>
  ELSE IF s # <<>> /\ AreDigits(s, 10) THEN <<Number(s, 10)>> ELSE <<>>

Sign(s) == IF s # <<>> /\ s[1] = "-" THEN -1 ELSE 1
AfterSign(s) == IF s # <<>> /\ s[1] \in {"+", "-"} THEN Tail(s) ELSE s

\* toInt64(): the same after a sign.  (An overflow of the signed product is undefined.)
ToInt64(s) ==
  LET n == ToUint64(AfterSign(s)) IN IF n = <<>> THEN <<>> ELSE <<Sign(s) * n[1]>>

\* What a stream and stoi() read of a number: the digits at the front.
Leading(s) ==
  LET digits == AfterSign(s)
      n      == SelectInSeq(digits \o <<"end">>, LAMBDA c : ~AreDigits(<<c>>, 10))
  IN  IF n = 1 THEN <<>> ELSE <<Sign(s) * Number(Before(digits, n), 10)>>

RECURSIVE Digits(_)
Digits(n) == IF n < 10 THEN <<Hexits[n + 1]>> ELSE Digits(n \div 10) \o <<Hexits[(n % 10) + 1]>>

-----------------------------------------------------------------------------
Lower(c) == CASE c = "A" -> "a" [] c = "B" -> "b" [] OTHER -> c
CaseInsensitiveCompare(s, t) ==
  Len(s) = Len(t) /\ \A i \in DOMAIN s : Lower(s[i]) = Lower(t[i])
=============================================================================
