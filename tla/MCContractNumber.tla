-------------------------- MODULE MCContractNumber --------------------------
(***************************************************************************)
(* ContractNumber on every text of at most MaxLength characters of a small *)
(* alphabet: the model types the text, character by character.             *)
(***************************************************************************)
EXTENDS ContractNumber

CONSTANTS
  Alphabet,
  MaxLength,  \* bound: length of the texts
  MaxOffset   \* _LAST_SEGMENT_MAX_OFFSET

VARIABLE text

Init == text = << >>

Type == Len(text) < MaxLength /\ \E ch \in Alphabet : text' = Append(text, ch)

Spec == Init /\ [][Type]_text

-----------------------------------------------------------------------------
\* The normal form, segment by segment: the parts between dashes of any kind,
\* each without outer white space, with single inner spaces, and a numeric one
\* as the plain numeral of its value.
ReferenceSegment(part) ==
  LET trimmed == Strip(Collapse(part)) IN
  IF IsDigits(trimmed) THEN Numeral(Value(trimmed)) ELSE trimmed

Reference(s) ==
  LET parts == SplitAt(s, Dashes) IN
  JoinDashes([i \in DOMAIN parts |-> ReferenceSegment(parts[i])])

\* normalize_nomer, which works on the whole text with one substitution after
\* the other, computes the normal form: no substitution undoes or prevents
\* what another one does.
NormalizesEverySegment == NormalizeNomer(text) = Reference(text)

\* A number is normalised when it is queued, and SamrukParser normalises it
\* again before it compares: the second time must change nothing.
NormalizesOnce == NormalizeNomer(NormalizeNomer(text)) = NormalizeNomer(text)

\* A text with anything but white space in it still has something to search
\* for, and as many segments as before.
KeepsSegments ==
  LET solid(s) == {i \in DOMAIN SplitAt(s, Dashes) : Strip(SplitAt(s, Dashes)[i]) # << >>}
  IN  solid(NormalizeNomer(text)) = solid(text)

TenTo(n) ==
  LET power[i \in 0..n] == IF i = 0 THEN 1 ELSE 10 * power[i - 1] IN power[n]

\* Every offset adds to the last segment and to nothing else, keeps its width
\* as long as the sum fits, and leaves a normalised number normalised: the
\* numbers searched are distinct neighbours of the one that was asked for.
ShiftsLastSegment ==
  LET number == NormalizeNomer(text) IN
  HasLastSegment(number) =>
    \A offset \in 1..MaxOffset :
      LET shifted == ShiftLastSegment(number, offset)
          width   == Len(LastSegment(number)) IN
      /\ HasLastSegment(shifted)
      /\ Prefix(shifted) = Prefix(number)
      /\ Value(LastSegment(shifted)) = Value(LastSegment(number)) + offset
      /\ Value(LastSegment(shifted)) < TenTo(width) => Len(LastSegment(shifted)) = width
      /\ NormalizeNomer(shifted) = shifted
=============================================================================
