------------------------------ MODULE Separators ------------------------------
(***************************************************************************)
(* Cutting one document out of a text: the search for "---" and "..." at   *)
(* the beginning of a line, as Decoder.Decode and Unmarshal do it.         *)
(* Indices count from 0, as in the code; -1 says that there is none.       *)
(***************************************************************************)
EXTENDS Integers, Sequences

Dashes == <<"-", "-", "-">>
Dots   == <<".", ".", ".">>

Drop(b, n)  == SubSeq(b, n + 1, Len(b))
Keep(b, n)  == SubSeq(b, 1, n)
StartsWith(b, p) == Len(p) <= Len(b) /\ Keep(b, Len(p)) = p

\* bytes.Index
IndexOf(b, p) ==
  LET at == {i \in 0..Len(b) : StartsWith(Drop(b, i), p)}
  IN  IF at = {} THEN -1 ELSE CHOOSE i \in at : \A j \in at : i <= j

\* The separator after a line break; "\n" is looked for before "\r".
LineIndex(b, sep) ==
  LET lf == IndexOf(b, <<"LF">> \o sep)
  IN  IF lf > -1 THEN lf ELSE IndexOf(b, <<"CR">> \o sep)

documentStartIndex(b) ==
  CASE StartsWith(b, Dashes) -> 3
    [] ~StartsWith(b, Dashes) /\ LineIndex(b, Dashes) > -1 -> LineIndex(b, Dashes) + 4
    [] OTHER -> 0

documentEndIndex(b) ==
  CASE IndexOf(b, <<"LF">> \o Dots) > -1 -> IndexOf(b, <<"LF">> \o Dots)
    [] IndexOf(b, <<"LF">> \o Dots) = -1 /\ StartsWith(b, Dots) -> 0
    [] OTHER -> LineIndex(b, Dots)

\* Mutant of UpToNext: the next separator is not looked for.
UpToEnd(rest, next) == rest

\* What follows the separator, up to the next one: the code takes four bytes off
\* the index after it.
UpToNext(rest, next) == IF next = 0 THEN rest ELSE Keep(rest, IF next > 4 THEN next - 4 ELSE 0)
===============================================================================
