--------------------------- MODULE ContractNumber ---------------------------
(***************************************************************************)
(* The two functions that rewrite contract numbers: normalize_nomer        *)
(* (app/parsers/normalizer.py), which every number passes before it is     *)
(* searched and before it is compared, and _shift_last_segment of          *)
(* GoszakupParser.  A text is a sequence of characters.                    *)
(***************************************************************************)
EXTENDS Naturals, Sequences, SequencesExt

CONSTANTS
  Blank,  \* white space, " " included
  Dashes  \* the dashes that are read as "-", and "-" itself

Space  == " "
Digits == <<"0", "1", "2", "3", "4", "5", "6", "7", "8", "9">>

ASSUME NumberAssumption ==
  /\ Space \in Blank /\ "-" \in Dashes
  /\ Blank \cap Dashes = {}
  /\ ToSet(Digits) \cap (Blank \cup Dashes) = {}

IsDigits(s) == s # << >> /\ ToSet(s) \subseteq ToSet(Digits)

-----------------------------------------------------------------------------
(* normalize_nomer, in the order of the code                               *)

\* str.strip()
Strip(s) ==
  LET solid == {i \in DOMAIN s : s[i] \notin Blank}
      from  == CHOOSE i \in solid : \A j \in solid : i <= j
      to    == CHOOSE i \in solid : \A j \in solid : i >= j
  IN  IF solid = {} THEN << >> ELSE SubSeq(s, from, to)

\* _MULTISPACE_RE: one space for every run of white space.
PutCollapsed(text, ch) ==
  IF ch \notin Blank THEN Append(text, ch)
  ELSE IF text # << >> /\ Last(text) = Space THEN text ELSE Append(text, Space)

Collapse(s) ==
  LET text[i \in 0..Len(s)] ==
        IF i = 0 THEN << >> ELSE PutCollapsed(text[i - 1], s[i])
  IN  text[Len(s)]

UnifyDashes(s) == [i \in DOMAIN s |-> IF s[i] \in Dashes THEN "-" ELSE s[i]]

\* No space next to a dash.  Runs of spaces are gone by now.
IsDash(s, i) == i \in DOMAIN s /\ s[i] = "-"

PutTight(text, s, i) ==
  IF s[i] = Space /\ (IsDash(s, i - 1) \/ IsDash(s, i + 1)) THEN text
  ELSE Append(text, s[i])

TightenDashes(s) ==
  LET text[i \in 0..Len(s)] ==
        IF i = 0 THEN << >> ELSE PutTight(text[i - 1], s, i)
  IN  text[Len(s)]

\* str.split
PutSplit(parts, ch, separators) ==
  IF ch \in separators THEN Append(parts, << >>)
  ELSE Append(Front(parts), Append(Last(parts), ch))

SplitAt(s, separators) ==
  LET parts[i \in 0..Len(s)] ==
        IF i = 0 THEN << << >> >> ELSE PutSplit(parts[i - 1], s[i], separators)
  IN  parts[Len(s)]

\* "-".join
PutJoined(text, part, i) == IF i = 1 THEN part ELSE Append(text, "-") \o part

JoinDashes(parts) ==
  LET text[i \in 0..Len(parts)] ==
        IF i = 0 THEN << >> ELSE PutJoined(text[i - 1], parts[i], i)
  IN  text[Len(parts)]

\* str.lstrip("0")
PutUnlessZero(text, ch) ==
  IF text = << >> /\ ch = "0" THEN text ELSE Append(text, ch)

WithoutZeros(s) ==
  LET text[i \in 0..Len(s)] ==
        IF i = 0 THEN << >> ELSE PutUnlessZero(text[i - 1], s[i])
  IN  text[Len(s)]

\* Mutant: one zero at most.
StripOneZero(segment) ==
  IF IsDigits(segment) /\ Len(segment) > 1 /\ Head(segment) = "0"
  THEN Tail(segment)
  ELSE segment

\* Mutant: a segment of zeros vanishes.
StripZerosToNothing(segment) ==
  IF IsDigits(segment) /\ Len(segment) > 1 THEN WithoutZeros(segment) ELSE segment

StripLeadingZeros(segment) ==
  IF IsDigits(segment) /\ Len(segment) > 1
  THEN IF WithoutZeros(segment) = << >> THEN <<"0">> ELSE WithoutZeros(segment)
  ELSE segment

\* Mutant: the dashes are unified last, when the segments have been made.
NormalizeDashesLast(s) ==
  LET segments == SplitAt(TightenDashes(Collapse(Strip(s))), {"-"})
  IN  UnifyDashes(JoinDashes([i \in DOMAIN segments |-> StripLeadingZeros(segments[i])]))

NormalizeNomer(s) ==
  LET segments == SplitAt(TightenDashes(UnifyDashes(Collapse(Strip(s)))), {"-"})
  IN  JoinDashes([i \in DOMAIN segments |-> StripLeadingZeros(segments[i])])

-----------------------------------------------------------------------------
(* _shift_last_segment                                                     *)

\* int()
DigitValue(ch) == (CHOOSE d \in DOMAIN Digits : Digits[d] = ch) - 1

Value(digits) ==
  LET value[i \in 0..Len(digits)] ==
        IF i = 0 THEN 0 ELSE 10 * value[i - 1] + DigitValue(digits[i])
  IN  value[Len(digits)]

\* str()
Numeral(n) ==
  LET numeral[m \in 0..n] ==
        IF m < 10 THEN <<Digits[m + 1]>>
        ELSE Append(numeral[m \div 10], Digits[(m % 10) + 1])
  IN  numeral[n]

Zeros(n) == [i \in 1..n |-> "0"]

\* Mutant: no padding.
ZFillNot(s, width) == s

\* str.zfill
ZFill(s, width) == IF Len(s) < width THEN Zeros(width - Len(s)) \o s ELSE s

\* _LAST_SEGMENT_RE matches: digits, and nothing else, after the last "/".
LastSegment(s) == Last(SplitAt(s, {"/"}))

HasLastSegment(s) == "/" \in ToSet(s) /\ IsDigits(LastSegment(s))

\* The first group of _LAST_SEGMENT_RE, up to the last "/" inclusive.
Prefix(s) == SubSeq(s, 1, Len(s) - Len(LastSegment(s)))

\* Only where HasLastSegment; None otherwise.
ShiftLastSegment(s, offset) ==
  Prefix(s) \o ZFill(Numeral(Value(LastSegment(s)) + offset), Len(LastSegment(s)))
=============================================================================
